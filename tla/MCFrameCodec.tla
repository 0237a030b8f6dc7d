---------------------------- MODULE MCFrameCodec ----------------------------
(* An instance of FrameCodec for TLC: bytes of three bits, so that a payload *)
(* of 2 bytes needs the first extended length and one of 8 the second.       *)
EXTENDS FrameCodec, Bitwise, SequencesExt

BitXor(a, b) == a ^^ b
BigEndian(n, width) == [i \in 1..width |-> (n \div Base^(width - i)) % Base]
Number(digits) == FoldLeft(LAMBDA n, d : n * Base + d, 0, digits)

(* Payloads on either side of each limit, longer and shorter than the key *)
Payloads == {[i \in 1..n |-> (3 * i) % 8] : n \in {0, 1, 2, 7, 8}}
Frames == [opcode : {1}, payload : Payloads, key : {<<>>, <<5, 6, 3>>}]
            \cup [opcode : {2}, payload : {<<>>}, key : {<<>>}]
=============================================================================
