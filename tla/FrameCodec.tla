----------------------------- MODULE FrameCodec -----------------------------
(***************************************************************************)
(* One direction of a WebSocket connection (cli/lib/ws.mjs): frames are      *)
(* encoded into bytes, the network delivers the bytes in order but cut       *)
(* anywhere, and FrameDecoder puts the frames together again.                *)
(*                                                                          *)
(* A byte has Base values. The program's Base is 256, its lengths have 2     *)
(* bytes below 65536 and 8 above, its key 4; smaller ones bring the three    *)
(* forms of the length within the reach of a model checker. The FIN and      *)
(* reserved bits are left out.                                               *)
(***************************************************************************)
EXTENDS Integers, Sequences

CONSTANTS
  Base,
  LenWidth, LenLimit,    \* writeUInt16BE: 2 bytes, for lengths below 65536
  LongWidth, LongLimit,  \* writeBigUInt64BE: 8 bytes, for any length a Buffer has
  KeyWidth,
  WriteBE(_, _),  \* the bytes of a number, and
  ReadBE(_),      \* the number again, as Node's Buffer has them
  XorByte(_, _),  \* ^ on bytes
  Frame,          \* frames to send: opcode, payload, and a key or <<>> if unmasked
  MaxFrames       \* bound: how many are sent

Byte == 0..(Base - 1)
Half == Base \div 2            \* 0x80, the mask bit
LenCode == Half - 2            \* 126
LongCode == Half - 1           \* 127

ASSUME ByteAssumption ==
  /\ Base \in Nat /\ Base % 2 = 0 /\ Base > 4
  /\ KeyWidth \in Nat \ {0}
  /\ \A a, b \in Byte : XorByte(a, b) \in Byte /\ XorByte(XorByte(a, b), b) = a

ASSUME NumberAssumption ==
  /\ LenWidth \in Nat \ {0} /\ LenLimit \in Nat /\ LongWidth \in Nat \ {0} /\ LongLimit \in Nat
  /\ \A n \in 0..LenLimit - 1 :
       WriteBE(n, LenWidth) \in [1..LenWidth -> Byte] /\ ReadBE(WriteBE(n, LenWidth)) = n
  /\ \A n \in 0..LongLimit - 1 :
       WriteBE(n, LongWidth) \in [1..LongWidth -> Byte] /\ ReadBE(WriteBE(n, LongWidth)) = n

ASSUME FrameAssumption ==
  \A f \in Frame : /\ f.opcode \in Byte /\ f.payload \in Seq(Byte)
                   /\ Len(f.payload) < LongLimit
                   /\ f.key = <<>> \/ f.key \in [1..KeyWidth -> Byte]

VARIABLES
  sent,     \* frames encoded so far
  wire,     \* bytes on their way
  buf,      \* the decoder's #buf
  reading,  \* push has a chunk and calls #tryRead
  got,      \* frames decoded so far
  ends      \* history: ends[i] bytes had been sent in all when sent[i] had been

vars == <<sent, wire, buf, reading, got, ends>>

-----------------------------------------------------------------------------
(* encodeFrame *)

Masked(bytes, key) == [i \in DOMAIN bytes |-> XorByte(bytes[i], key[((i - 1) % KeyWidth) + 1])]

Header(f) ==
  LET n == Len(f.payload)
      bit == IF f.key = <<>> THEN 0 ELSE Half
  IN IF n < LenCode THEN <<f.opcode, bit + n>>
     ELSE IF n < LenLimit THEN <<f.opcode, bit + LenCode>> \o WriteBE(n, LenWidth)
     ELSE <<f.opcode, bit + LongCode>> \o WriteBE(n, LongWidth)

Encoded(f) ==
  Header(f) \o f.key \o IF f.key = <<>> THEN f.payload ELSE Masked(f.payload, f.key)

EndOf(i) == IF i = 0 THEN 0 ELSE ends[i]

Send(f) ==
  /\ Len(sent) < MaxFrames
  /\ sent' = Append(sent, f)
  /\ wire' = wire \o Encoded(f)
  /\ ends' = Append(ends, EndOf(Len(sent)) + Len(Encoded(f)))
  /\ UNCHANGED <<buf, reading, got>>

-----------------------------------------------------------------------------
(* #tryRead, of the frame that b begins with *)

HasKey(b) == b[2] >= Half
Code(b) == b[2] % Half
Width(b) == IF Code(b) = LenCode THEN LenWidth ELSE IF Code(b) = LongCode THEN LongWidth ELSE 0
Off(b) == 2 + Width(b) + IF HasKey(b) THEN KeyWidth ELSE 0
PayloadLen(b) == IF Width(b) = 0 THEN Code(b) ELSE ReadBE(SubSeq(b, 3, 2 + Width(b)))

(* It returns null as long as one of these fails. *)
Complete(b) ==
  Len(b) >= 2 /\ Len(b) >= 2 + Width(b) /\ Len(b) >= Off(b) /\ Len(b) >= Off(b) + PayloadLen(b)

Payload(b) ==
  LET bytes == SubSeq(b, Off(b) + 1, Off(b) + PayloadLen(b))
  IN IF HasKey(b) THEN Masked(bytes, SubSeq(b, 3 + Width(b), Off(b))) ELSE bytes

(* Faulty variants, named <definition>_<fault>, are never used by Next. *)
Push_Overwrites(n) ==
  /\ ~reading /\ reading' = TRUE
  /\ buf' = SubSeq(wire, 1, n)
  /\ wire' = SubSeq(wire, n + 1, Len(wire))
  /\ UNCHANGED <<sent, got, ends>>

(* push, with a chunk of n bytes *)
Push(n) ==
  /\ ~reading /\ reading' = TRUE
  /\ buf' = buf \o SubSeq(wire, 1, n)
  /\ wire' = SubSeq(wire, n + 1, Len(wire))
  /\ UNCHANGED <<sent, got, ends>>

TryRead_FirstOnly ==
  /\ reading /\ reading' = FALSE
  /\ IF Complete(buf)
       THEN /\ got' = Append(got, [opcode |-> buf[1], payload |-> Payload(buf)])
            /\ buf' = SubSeq(buf, Off(buf) + PayloadLen(buf) + 1, Len(buf))
       ELSE UNCHANGED <<buf, got>>
  /\ UNCHANGED <<sent, wire, ends>>

TryRead_DropsRest ==
  /\ reading
  /\ IF Complete(buf)
       THEN /\ got' = Append(got, [opcode |-> buf[1], payload |-> Payload(buf)])
            /\ buf' = <<>>
            /\ UNCHANGED reading
       ELSE reading' = FALSE /\ UNCHANGED <<buf, got>>
  /\ UNCHANGED <<sent, wire, ends>>

(* One turn of push's loop, which the first null ends *)
TryRead ==
  /\ reading
  /\ IF Complete(buf)
       THEN /\ got' = Append(got, [opcode |-> buf[1], payload |-> Payload(buf)])
            /\ buf' = SubSeq(buf, Off(buf) + PayloadLen(buf) + 1, Len(buf))
            /\ UNCHANGED reading
       ELSE reading' = FALSE /\ UNCHANGED <<buf, got>>
  /\ UNCHANGED <<sent, wire, ends>>

Init ==
  sent = <<>> /\ wire = <<>> /\ buf = <<>> /\ reading = FALSE /\ got = <<>> /\ ends = <<>>

Next == (\E f \in Frame : Send(f)) \/ (\E n \in 1..Len(wire) : Push(n)) \/ TryRead

Spec == Init /\ [][Next]_vars

-----------------------------------------------------------------------------
(* Properties *)

Content(f) == [opcode |-> f.opcode, payload |-> f.payload]
Stream == buf \o wire

(***************************************************************************)
(* However the bytes are cut, and whatever the form of the length: the       *)
(* frames decoded are the first ones sent, unmasked, in order, and what is   *)
(* buffered or on its way is exactly the rest, each frame in its place.      *)
(***************************************************************************)
DecodedAsSent ==
  /\ Len(got) <= Len(sent) /\ \A i \in 1..Len(got) : got[i] = Content(sent[i])
  /\ Len(Stream) = EndOf(Len(sent)) - EndOf(Len(got))
  /\ \A i \in Len(got) + 1..Len(sent) :
       SubSeq(Stream, EndOf(i - 1) - EndOf(Len(got)) + 1, EndOf(i) - EndOf(Len(got)))
         = Encoded(sent[i])

(***************************************************************************)
(* To who writes frames and who reads them, the bytes do not exist: every    *)
(* step writes one frame, reads the next one whole, or changes neither. A    *)
(* frame is never read twice, in parts, or taken back.                       *)
(***************************************************************************)
Contents == [i \in DOMAIN sent |-> Content(sent[i])]
Channel == INSTANCE FrameChannel
             WITH Message <- {Content(f) : f \in Frame}, given <- Contents, taken <- got
ImplementsChannel == Channel!Spec

(* A frame that has arrived is not held back until more bytes come. *)
DecodedAtOnce ==
  ~reading /\ Len(got) < Len(sent) => Len(buf) < Len(Encoded(sent[Len(got) + 1]))
=============================================================================
