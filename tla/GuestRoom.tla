------------------------------ MODULE GuestRoom ------------------------------
(***************************************************************************)
(* What the CLI promises about its LAN guests, whatever implements it: they  *)
(* are in the room of a live session and of no other, each waits until it is *)
(* let in, and the end of the session, or of the process, empties the room.  *)
(* HostSession and Realtime both implement it.                               *)
(***************************************************************************)
CONSTANT Guest

VARIABLES
  live,    \* a session is active
  status   \* status[g] \in {"out", "pending", "approved"}

vars == <<live, status>>

Empty == [g \in Guest |-> "out"]

Init == live = FALSE /\ status = Empty

(* A new session, also in the place of one that is live: then the guests stay. *)
Start == live' = TRUE /\ UNCHANGED status

End == live' = FALSE /\ status' = Empty

(* The process is started again, and finds its session. *)
Restart == status' = Empty /\ UNCHANGED live

Becomes(g, from, to) ==
  /\ live /\ status[g] = from
  /\ status' = [status EXCEPT ![g] = to]
  /\ UNCHANGED live

Join(g) == Becomes(g, "out", "pending")
Approve(g) == Becomes(g, "pending", "approved")
Leave(g) == \E from \in {"pending", "approved"} : Becomes(g, from, "out")

Next == Start \/ End \/ Restart \/ \E g \in Guest : Join(g) \/ Approve(g) \/ Leave(g)

Spec == Init /\ [][Next]_vars
=============================================================================
