---------------------------- MODULE FrameChannel ----------------------------
(***************************************************************************)
(* What one direction of a WebSocket connection promises to the program on   *)
(* either side (cli/lib/ws.mjs): frames arrive one at a time, as they were   *)
(* given, in that order, none lost, none twice. There are no bytes here;     *)
(* FrameCodec implements this, and Realtime relies on it.                    *)
(***************************************************************************)
EXTENDS Naturals, Sequences

CONSTANT Message  \* what a frame says: its opcode and payload

VARIABLES
  given,  \* the messages written, in order
  taken   \* those read so far

Give(m) == given' = Append(given, m) /\ UNCHANGED taken

(* The other side reads the first message it has not read yet. *)
Take ==
  /\ Len(taken) < Len(given)
  /\ taken' = Append(taken, given[Len(taken) + 1])
  /\ UNCHANGED given

Init == given = <<>> /\ taken = <<>>

Next == (\E m \in Message : Give(m)) \/ Take

Spec == Init /\ [][Next]_<<given, taken>>
=============================================================================
