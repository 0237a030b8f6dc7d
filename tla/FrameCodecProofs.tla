-------------------------- MODULE FrameCodecProofs --------------------------
(***************************************************************************)
(* Proofs about FrameCodec, for every byte size, widths and frames within    *)
(* its assumptions: what #tryRead reads is what encodeFrame wrote, however   *)
(* the bytes are cut. The invariant places every byte of a frame still to be *)
(* decoded in the stream made of #buf and the bytes on their way.            *)
(***************************************************************************)
EXTENDS FrameCodec, SequenceTheorems, TLAPS

-----------------------------------------------------------------------------
(* Sequences: one after another, and n elements after the first m *)

LEMMA Joined ==
  ASSUME NEW S, NEW a \in Seq(S), NEW b \in Seq(S)
  PROVE  /\ a \o b \in Seq(S) /\ Len(a \o b) = Len(a) + Len(b)
         /\ \A i \in 1..Len(a) : (a \o b)[i] = a[i]
         /\ \A i \in 1..Len(b) : (a \o b)[Len(a) + i] = b[i]
  OBVIOUS

LEMMA Cut ==
  ASSUME NEW S, NEW s \in Seq(S), NEW m \in Nat, NEW n \in Nat, m + n <= Len(s)
  PROVE  /\ SubSeq(s, m + 1, m + n) \in Seq(S) /\ Len(SubSeq(s, m + 1, m + n)) = n
         /\ \A i \in 1..n : SubSeq(s, m + 1, m + n)[i] = s[m + i]
  <1>1. SubSeq(s, m + 1, m + n) \in Seq(S)
    OBVIOUS
  <1>2. Len(SubSeq(s, m + 1, m + n)) = n
    OBVIOUS
  <1>3. \A i \in 1..n : SubSeq(s, m + 1, m + n)[i] = s[m + i]
    OBVIOUS
  <1> QED
    BY <1>1, <1>2, <1>3

-----------------------------------------------------------------------------
(* Arithmetic on a byte *)

LEMMA ModSmall == \A x \in Nat, m \in Nat \ {0} : x % m \in 0..m - 1 /\ (x < m => x % m = x)
  OBVIOUS

LEMMA ModOver == \A x \in Nat, m \in Nat \ {0} : x < m => (m + x) % m = x
  OBVIOUS

LEMMA Halves ==
  /\ Half \in Nat /\ Base = Half + Half /\ Half > 2
  /\ LenCode = Half - 2 /\ LongCode = Half - 1 /\ Byte = 0..(Half + Half - 1)
  BY ByteAssumption DEF Half, LenCode, LongCode, Byte

(* A key byte is always found, and unmasking undoes masking. *)
LEMMA KeyIndex ==
  ASSUME NEW i \in Nat \ {0}
  PROVE  ((i - 1) % KeyWidth) + 1 \in 1..KeyWidth
  BY ModSmall, ByteAssumption

LEMMA MaskedBytes ==
  ASSUME NEW p \in Seq(Byte), NEW key \in [1..KeyWidth -> Byte]
  PROVE  /\ Masked(p, key) \in Seq(Byte) /\ Len(Masked(p, key)) = Len(p)
         /\ Masked(Masked(p, key), key) = p
  <1> DEFINE k(i) == key[((i - 1) % KeyWidth) + 1]
  <1>1. \A i \in 1..Len(p) : p[i] \in Byte /\ k(i) \in Byte
    BY KeyIndex
  <1>2. Masked(p, key) = [i \in 1..Len(p) |-> XorByte(p[i], k(i))]
    BY DEF Masked
  <1>3. \A i \in 1..Len(p) : XorByte(p[i], k(i)) \in Byte /\ XorByte(XorByte(p[i], k(i)), k(i)) = p[i]
    BY <1>1, ByteAssumption
  <1> DEFINE m == Masked(p, key)
  <1>4. m \in [1..Len(p) -> Byte]
    BY <1>2, <1>3
  <1>5. m \in Seq(Byte) /\ Len(m) = Len(p) /\ DOMAIN m = 1..Len(p)
    BY <1>4
  <1>6. Masked(m, key) = [i \in 1..Len(p) |-> XorByte(m[i], k(i))]
    BY <1>5 DEF Masked
  <1>7. \A i \in 1..Len(p) : Masked(m, key)[i] = p[i]
    BY <1>2, <1>3, <1>6
  <1>8. Masked(m, key) = p
    BY <1>6, <1>7
  <1> QED
    BY <1>5, <1>8

-----------------------------------------------------------------------------
(* What encodeFrame lays out *)

(* The bytes that the length takes beyond the second, and the second without its mask bit *)
LenBytes(n) == IF n < LenCode THEN 0 ELSE IF n < LenLimit THEN LenWidth ELSE LongWidth
LenByte(n) == IF n < LenCode THEN n ELSE IF n < LenLimit THEN LenCode ELSE LongCode
MaskBit(f) == IF f.key = <<>> THEN 0 ELSE Half
Body(f) == IF f.key = <<>> THEN f.payload ELSE Masked(f.payload, f.key)

LEMMA FrameParts ==
  ASSUME NEW f \in Frame
  PROVE  /\ f.opcode \in Byte /\ f.payload \in Seq(Byte) /\ Len(f.payload) \in 0..LongLimit - 1
         /\ f.key \in Seq(Byte) /\ Len(f.key) = IF f.key = <<>> THEN 0 ELSE KeyWidth
         /\ f.key # <<>> => f.key \in [1..KeyWidth -> Byte]
         /\ Body(f) \in Seq(Byte) /\ Len(Body(f)) = Len(f.payload)
  <1>1. /\ f.opcode \in Byte /\ f.payload \in Seq(Byte) /\ Len(f.payload) < LongLimit
        /\ f.key = <<>> \/ f.key \in [1..KeyWidth -> Byte]
    BY FrameAssumption
  <1>2. Len(f.payload) \in 0..LongLimit - 1
    BY <1>1, NumberAssumption
  <1>3. CASE f.key = <<>>
    BY <1>1, <1>2, <1>3 DEF Body
  <1>4. CASE f.key # <<>>
    <2>1. f.key \in [1..KeyWidth -> Byte]
      BY <1>1, <1>4
    <2>2. f.key \in Seq(Byte) /\ Len(f.key) = KeyWidth
      BY <2>1, ByteAssumption
    <2>3. Body(f) \in Seq(Byte) /\ Len(Body(f)) = Len(f.payload)
      BY <2>1, <1>1, <1>4, MaskedBytes DEF Body
    <2> QED
      BY <1>1, <1>2, <1>4, <2>1, <2>2, <2>3
  <1> QED
    BY <1>3, <1>4

LEMMA HeaderBytes ==
  ASSUME NEW f \in Frame
  PROVE  LET n == Len(f.payload)
             w == LenBytes(n)
         IN /\ Header(f) \in Seq(Byte) /\ w \in Nat /\ Len(Header(f)) = 2 + w
            /\ Header(f)[1] = f.opcode /\ Header(f)[2] = MaskBit(f) + LenByte(n)
            /\ LenByte(n) \in 0..Half - 1
            /\ n >= LenCode => ReadBE(SubSeq(Header(f), 3, 2 + w)) = n
  <1> DEFINE n == Len(f.payload)
             bit == MaskBit(f)
             w == LenBytes(n)
             c == LenByte(n)
             two == <<f.opcode, bit + c>>
  <1>1. f.opcode \in Byte /\ n \in 0..LongLimit - 1 /\ n \in Nat
    BY FrameParts, NumberAssumption
  <1>2. bit = 0 \/ bit = Half
    BY DEF MaskBit
  <1>3. c \in 0..Half - 1
    BY <1>1, Halves DEF LenByte
  <1>4. bit + c \in Byte
    BY <1>2, <1>3, Halves
  <1>5. two \in Seq(Byte) /\ Len(two) = 2 /\ two[1] = f.opcode /\ two[2] = bit + c
    BY <1>1, <1>4
  <1>6. w \in Nat
    BY NumberAssumption DEF LenBytes
  <1>7. CASE n < LenCode
    <2>1. Header(f) = two /\ w = 0
      BY <1>7 DEF Header, LenBytes, LenByte, MaskBit
    <2> QED
      BY <1>1, <1>3, <1>5, <1>7, <2>1, Halves
  <1>8. CASE ~(n < LenCode)
    <2> DEFINE d == WriteBE(n, w)
               h == two \o d
               s == SubSeq(h, 3, 2 + w)
    <2>1. Header(f) = h
      BY <1>8 DEF Header, LenBytes, LenByte, MaskBit
    <2>2. d \in [1..w -> Byte] /\ ReadBE(d) = n
      BY <1>1, <1>8, NumberAssumption DEF LenBytes
    <2>3. d \in Seq(Byte) /\ Len(d) = w
      BY <1>6, <2>2
    <2> HIDE DEF d, two, w, c, bit, n
    <2>4. /\ h \in Seq(Byte) /\ Len(h) = 2 + w
          /\ \A i \in 1..2 : h[i] = two[i]
          /\ \A i \in 1..w : h[2 + i] = d[i]
      <3>1. /\ h \in Seq(Byte) /\ Len(h) = Len(two) + Len(d)
            /\ \A i \in 1..Len(two) : h[i] = two[i]
            /\ \A i \in 1..Len(d) : h[Len(two) + i] = d[i]
        <4>1. two \in Seq(Byte) /\ d \in Seq(Byte)
          BY <1>5, <2>3
        <4> QED
          BY <4>1, Joined
      <3> QED
        BY <1>5, <2>3, <3>1
    <2> HIDE DEF h
    <2>5. /\ s \in Seq(Byte) /\ Len(s) = w
          /\ \A i \in 1..w : s[i] = h[2 + i]
      <3>1. /\ SubSeq(h, 2 + 1, 2 + w) \in Seq(Byte) /\ Len(SubSeq(h, 2 + 1, 2 + w)) = w
            /\ \A i \in 1..w : SubSeq(h, 2 + 1, 2 + w)[i] = h[2 + i]
        <4>1. 2 + w <= Len(h)
          BY <1>6, <2>4
        <4> QED
          BY <1>6, <2>4, <4>1, Cut
      <3>2. 2 + 1 = 3
        OBVIOUS
      <3> QED
        BY <3>1, <3>2
    <2>6. \A i \in 1..w : s[i] = d[i]
      BY <2>4, <2>5
    <2> HIDE DEF s
    <2>7. s = d
      BY <2>3, <2>5, <2>6, SeqEqual
    <2>8. h[1] = two[1] /\ h[2] = two[2]
      BY <1>6, <2>4
    <2> QED
      BY <1>3, <1>5, <1>6, <2>1, <2>2, <2>4, <2>7, <2>8 DEF h, s, d, two, w, c, bit, n
  <1> QED
    BY <1>7, <1>8

LEMMA Layout ==
  ASSUME NEW f \in Frame
  PROVE  LET n == Len(f.payload)
             w == LenBytes(n)
             k == Len(f.key)
         IN /\ Encoded(f) \in Seq(Byte) /\ Len(Encoded(f)) = 2 + w + k + n
            /\ \A i \in 1..2 + w : Encoded(f)[i] = Header(f)[i]
            /\ \A i \in 1..k : Encoded(f)[2 + w + i] = f.key[i]
            /\ \A i \in 1..n : Encoded(f)[2 + w + k + i] = Body(f)[i]
  <1> DEFINE n == Len(f.payload)
             w == LenBytes(n)
             k == Len(f.key)
             h == Header(f)
             d == Body(f)
             hk == h \o f.key
  <1>1. h \in Seq(Byte) /\ Len(h) = 2 + w /\ w \in Nat
    BY HeaderBytes
  <1>2. f.key \in Seq(Byte) /\ d \in Seq(Byte) /\ Len(d) = n /\ n \in Nat /\ k \in Nat
    BY FrameParts
  <1>3. Encoded(f) = hk \o d
    BY DEF Encoded, Body
  <1> HIDE DEF n, w, h, d
  <1>4. /\ hk \in Seq(Byte) /\ Len(hk) = Len(h) + k
        /\ \A i \in 1..Len(h) : hk[i] = h[i]
        /\ \A i \in 1..k : hk[Len(h) + i] = f.key[i]
    <2>1. h \in Seq(Byte) /\ f.key \in Seq(Byte)
      BY <1>1, <1>2
    <2> QED
      BY <2>1, Joined
  <1> HIDE DEF hk
  <1>5. /\ hk \o d \in Seq(Byte) /\ Len(hk \o d) = Len(hk) + Len(d)
        /\ \A i \in 1..Len(hk) : (hk \o d)[i] = hk[i]
        /\ \A i \in 1..Len(d) : (hk \o d)[Len(hk) + i] = d[i]
    <2>1. hk \in Seq(Byte) /\ d \in Seq(Byte)
      BY <1>2, <1>4
    <2> QED
      BY <2>1, Joined
  <1> DEFINE e == hk \o d
  <1> HIDE DEF e, k
  <1>6. e \in Seq(Byte) /\ Len(e) = 2 + w + k + n
    BY <1>1, <1>2, <1>4, <1>5 DEF e
  <1>7. \A i \in 1..2 + w : e[i] = h[i]
    BY <1>1, <1>2, <1>4, <1>5 DEF e
  <1>8. \A i \in 1..k : e[2 + w + i] = f.key[i]
    BY <1>1, <1>2, <1>4, <1>5 DEF e
  <1>9. \A i \in 1..n : e[2 + w + k + i] = d[i]
    BY <1>1, <1>2, <1>4, <1>5 DEF e
  <1> QED
    BY <1>3, <1>6, <1>7, <1>8, <1>9 DEF e, n, w, k, h, d

-----------------------------------------------------------------------------
(* What #tryRead makes of them *)

(* b begins as f's encoding does: all of it, or as much as has arrived. *)
BeginsWith(b, f) == \A i \in 1..Len(b) : i <= Len(Encoded(f)) => b[i] = Encoded(f)[i]

LEMMA ReadsSecondByte ==
  ASSUME NEW f \in Frame, NEW b \in Seq(Byte), BeginsWith(b, f), Len(b) >= 2
  PROVE  /\ b[1] = f.opcode /\ (HasKey(b) <=> f.key # <<>>)
         /\ Code(b) = LenByte(Len(f.payload))
         /\ Width(b) = LenBytes(Len(f.payload))
         /\ Off(b) = 2 + LenBytes(Len(f.payload)) + Len(f.key)
  <1> DEFINE n == Len(f.payload)
             w == LenBytes(n)
             c == LenByte(n)
  <1>1. n \in Nat
    BY FrameParts
  <1>2. w \in Nat /\ c \in 0..Half - 1 /\ Header(f)[1] = f.opcode /\ Header(f)[2] = MaskBit(f) + c
    BY HeaderBytes
  <1>3. Encoded(f) \in Seq(Byte) /\ Len(Encoded(f)) >= 2
    <2>1. Len(Encoded(f)) = 2 + w + Len(f.key) + n /\ Len(f.key) \in Nat
      BY Layout, FrameParts
    <2> QED
      BY <2>1, <1>1, <1>2, Layout
  <1>4. Encoded(f)[1] = Header(f)[1] /\ Encoded(f)[2] = Header(f)[2]
    <2>1. \A i \in 1..2 + w : Encoded(f)[i] = Header(f)[i]
      BY Layout
    <2> HIDE DEF w
    <2> QED
      BY <2>1, <1>2
  <1>5. b[1] = f.opcode /\ b[2] = MaskBit(f) + c
    BY <1>2, <1>3, <1>4 DEF BeginsWith
  <1>6. (HasKey(b) <=> f.key # <<>>) /\ Code(b) = c
    <2>1. c \in Nat /\ c < Half
      BY <1>2, Halves
    <2> HIDE DEF c
    <2>2. c % Half = c /\ (Half + c) % Half = c
      <3>1. Half \in Nat \ {0}
        BY Halves
      <3> QED
        BY <2>1, <3>1, ModSmall, ModOver, Zenon
    <2>3. CASE f.key = <<>>
      <3>1. b[2] = c
        BY <2>1, <2>3, <1>5 DEF MaskBit
      <3> QED
        BY <2>1, <2>2, <2>3, <3>1, Halves DEF HasKey, Code
    <2>4. CASE f.key # <<>>
      <3>1. b[2] = Half + c
        BY <2>1, <2>4, <1>5, Halves DEF MaskBit
      <3>2. b[2] >= Half
        BY <2>1, <3>1, Halves
      <3> QED
        BY <2>2, <2>4, <3>1, <3>2 DEF HasKey, Code
    <2> QED
      BY <2>3, <2>4
  <1>7. Width(b) = w
    BY <1>1, <1>6, Halves DEF Width, LenByte, LenBytes
  <1>8. Off(b) = 2 + w + Len(f.key)
    BY <1>6, <1>7, FrameParts DEF Off
  <1> QED
    BY <1>5, <1>6, <1>7, <1>8

LEMMA ReadsLength ==
  ASSUME NEW f \in Frame, NEW b \in Seq(Byte), BeginsWith(b, f),
         Len(b) >= 2 + LenBytes(Len(f.payload))
  PROVE  PayloadLen(b) = Len(f.payload)
  <1> DEFINE n == Len(f.payload)
             w == LenBytes(n)
             h == Header(f)
  <1>1. /\ n \in Nat /\ w \in Nat /\ h \in Seq(Byte) /\ Len(h) = 2 + w
        /\ n >= LenCode => ReadBE(SubSeq(h, 3, 2 + w)) = n
    BY HeaderBytes, FrameParts
  <1>2. Len(b) >= 2
    <2>1. w \in Nat /\ Len(b) >= 2 + w /\ Len(b) \in Nat
      BY <1>1
    <2> HIDE DEF w
    <2> QED
      BY <2>1
  <1>3. Code(b) = LenByte(n) /\ Width(b) = w
    BY <1>2, ReadsSecondByte
  <1>4. CASE n < LenCode
    BY <1>3, <1>4 DEF PayloadLen, LenByte, LenBytes
  <1>5. CASE ~(n < LenCode)
    <2>1. w # 0
      BY <1>5, NumberAssumption DEF LenBytes
    <2>2. \A i \in 1..w : b[2 + i] = h[2 + i]
      <3>1. /\ \A i \in 1..2 + w : Encoded(f)[i] = h[i]
            /\ Len(Encoded(f)) = 2 + w + Len(f.key) + n /\ Len(f.key) \in Nat
        BY Layout, FrameParts
      <3> HIDE DEF w, n, h
      <3> SUFFICES ASSUME NEW i \in 1..w PROVE b[2 + i] = h[2 + i]
        OBVIOUS
      <3>2. 2 + i \in 1..2 + w /\ 2 + i \in 1..Len(b) /\ 2 + i <= Len(Encoded(f))
        BY <1>1, <3>1 DEF w, n
      <3>3. b[2 + i] = Encoded(f)[2 + i]
        BY <3>2 DEF BeginsWith
      <3> QED
        BY <3>1, <3>2, <3>3
    <2>3. SubSeq(b, 3, 2 + w) = SubSeq(h, 3, 2 + w)
      <3>1. Len(b) >= 2 + w
        OBVIOUS
      <3> HIDE DEF w, h
      <3> DEFINE sb == SubSeq(b, 2 + 1, 2 + w)
                 sh == SubSeq(h, 2 + 1, 2 + w)
      <3>2. sb \in Seq(Byte) /\ Len(sb) = w /\ \A i \in 1..w : sb[i] = b[2 + i]
        BY <1>1, <3>1, Cut
      <3>3. sh \in Seq(Byte) /\ Len(sh) = w /\ \A i \in 1..w : sh[i] = h[2 + i]
        BY <1>1, Cut
      <3> HIDE DEF sb, sh
      <3>4. \A i \in 1..w : sb[i] = sh[i]
        BY <2>2, <3>2, <3>3
      <3>5. sb = sh
        BY <3>2, <3>3, <3>4, SeqEqual
      <3>6. 2 + 1 = 3
        OBVIOUS
      <3> QED
        BY <3>5, <3>6 DEF sb, sh
    <2>4. n >= LenCode
      BY <1>1, <1>5, Halves
    <2> QED
      BY <1>1, <1>3, <2>1, <2>3, <2>4 DEF PayloadLen
  <1> QED
    BY <1>4, <1>5

(* A frame is read exactly when the last of its bytes has arrived. *)
LEMMA ReadsWholeFrames ==
  ASSUME NEW f \in Frame, NEW b \in Seq(Byte), BeginsWith(b, f)
  PROVE  Complete(b) <=> Len(b) >= Len(Encoded(f))
  <1> DEFINE n == Len(f.payload)
             w == LenBytes(n)
             k == Len(f.key)
  <1>1. n \in Nat /\ w \in Nat /\ k \in Nat /\ Len(Encoded(f)) = 2 + w + k + n
    BY Layout, HeaderBytes, FrameParts
  <1>2. Len(b) >= 2 => Width(b) = w /\ Off(b) = 2 + w + k
    BY ReadsSecondByte
  <1>3. Len(b) >= 2 + w => PayloadLen(b) = n
    BY ReadsLength
  <1> HIDE DEF n, w, k
  <1>4. ASSUME Complete(b) PROVE Len(b) >= Len(Encoded(f))
    <2>1. Len(b) >= 2 /\ Len(b) >= 2 + Width(b) /\ Len(b) >= Off(b) + PayloadLen(b)
      BY <1>4 DEF Complete
    <2>2. Width(b) = w /\ Off(b) = 2 + w + k
      BY <1>2, <2>1
    <2>3. PayloadLen(b) = n
      BY <1>3, <2>1, <2>2
    <2> QED
      BY <1>1, <2>1, <2>2, <2>3
  <1>5. ASSUME Len(b) >= Len(Encoded(f)) PROVE Complete(b)
    <2>1. Len(b) >= 2 /\ Len(b) >= 2 + w
      BY <1>1, <1>5
    <2>2. Width(b) = w /\ Off(b) = 2 + w + k /\ PayloadLen(b) = n
      BY <1>2, <1>3, <2>1
    <2> QED
      BY <1>1, <1>5, <2>2 DEF Complete
  <1> QED
    BY <1>4, <1>5

LEMMA ReadsFrame ==
  ASSUME NEW f \in Frame, NEW b \in Seq(Byte), BeginsWith(b, f),
         Len(b) >= Len(Encoded(f))
  PROVE  /\ b[1] = f.opcode /\ Payload(b) = f.payload
         /\ Off(b) + PayloadLen(b) = Len(Encoded(f))
  <1> DEFINE n == Len(f.payload)
             w == LenBytes(n)
             k == Len(f.key)
             e == Encoded(f)
             d == Body(f)
  <1>1. n \in Nat /\ w \in Nat /\ k \in Nat /\ Len(e) = 2 + w + k + n /\ Len(b) \in Nat
    BY Layout, HeaderBytes, FrameParts
  <1>2. /\ \A i \in 1..k : e[2 + w + i] = f.key[i]
        /\ \A i \in 1..n : e[2 + w + k + i] = d[i]
    BY Layout
  <1>3. f.key \in Seq(Byte) /\ d \in Seq(Byte) /\ Len(d) = n /\ f.payload \in Seq(Byte)
    BY FrameParts
  <1>4. Len(b) >= 2 /\ Len(b) >= 2 + w /\ Len(b) >= 2 + w + k + n
    <2> HIDE DEF n, w, k, e
    <2> QED
      BY <1>1 DEF e
  <1>5. /\ b[1] = f.opcode /\ (HasKey(b) <=> f.key # <<>>) /\ Width(b) = w
        /\ Off(b) = 2 + w + k
    BY <1>4, ReadsSecondByte
  <1>6. PayloadLen(b) = n
    BY <1>4, ReadsLength
  <1> HIDE DEF n, w, k, e, d
  <1>7. \A i \in 1..2 + w + k + n : b[i] = e[i]
    BY <1>1, <1>4 DEF BeginsWith, e
  <1> DEFINE off == 2 + w + k
             bytes == SubSeq(b, off + 1, off + n)
             key == SubSeq(b, (2 + w) + 1, (2 + w) + k)
  <1>8. bytes = d
    <2>1. off \in Nat /\ off + n <= Len(b)
      BY <1>1, <1>4
    <2> HIDE DEF off
    <2>2. bytes \in Seq(Byte) /\ Len(bytes) = n /\ \A i \in 1..n : bytes[i] = b[off + i]
      BY <1>1, <2>1, Cut
    <2> HIDE DEF bytes
    <2>3. \A i \in 1..n : b[off + i] = d[i]
      BY <1>1, <1>2, <1>7 DEF off
    <2>4. \A i \in 1..n : bytes[i] = d[i]
      BY <2>2, <2>3
    <2> QED
      BY <1>3, <2>2, <2>4, SeqEqual
  <1>9. key = f.key
    <2> DEFINE o == 2 + w
    <2>1. o \in Nat /\ o + k <= Len(b)
      BY <1>1, <1>4
    <2> DEFINE s == SubSeq(b, o + 1, o + k)
    <2> HIDE DEF o
    <2>2. s \in Seq(Byte) /\ Len(s) = k /\ \A i \in 1..k : s[i] = b[o + i]
      BY <1>1, <2>1, Cut
    <2> HIDE DEF s
    <2>3. \A i \in 1..k : b[o + i] = f.key[i]
      BY <1>1, <1>2, <1>7 DEF o
    <2>4. \A i \in 1..k : s[i] = f.key[i]
      BY <2>2, <2>3
    <2>5. s = f.key
      BY <1>3, <2>2, <2>4, SeqEqual DEF k
    <2> QED
      BY <2>5 DEF s, o
  <1>10. 3 + w = (2 + w) + 1 /\ (2 + w) + k = off
    BY <1>1
  <1>11. Payload(b) = IF f.key = <<>> THEN d ELSE Masked(d, f.key)
    BY <1>5, <1>6, <1>8, <1>9, <1>10 DEF Payload
  <1>12. Payload(b) = f.payload
    <2>1. CASE f.key = <<>>
      BY <1>11, <2>1 DEF d, Body
    <2>2. CASE f.key # <<>>
      <3>1. f.key \in [1..KeyWidth -> Byte]
        BY <2>2, FrameParts
      <3>2. Masked(Masked(f.payload, f.key), f.key) = f.payload
        BY <1>3, <3>1, MaskedBytes
      <3> QED
        BY <1>11, <2>2, <3>2 DEF d, Body
    <2> QED
      BY <2>1, <2>2
  <1> QED
    BY <1>1, <1>5, <1>6, <1>12 DEF e

-----------------------------------------------------------------------------
(* The stream between the two ends *)

Types ==
  /\ sent \in Seq(Frame) /\ wire \in Seq(Byte) /\ buf \in Seq(Byte) /\ reading \in BOOLEAN
  /\ got \in Seq([opcode : Byte, payload : Seq(Byte)])
  /\ ends \in Seq(Nat) /\ Len(ends) = Len(sent)

EndsAdd == \A i \in 1..Len(sent) : EndOf(i) = EndOf(i - 1) + Len(Encoded(sent[i]))
EndsGrow == \A i, j \in 0..Len(sent) : i <= j => EndOf(i) <= EndOf(j)

InOrder == Len(got) <= Len(sent) /\ \A i \in 1..Len(got) : got[i] = Content(sent[i])

(* Where the i-th frame ends in the stream that is still to be decoded *)
Until(i) == EndOf(i) - EndOf(Len(got))

Placed ==
  /\ Len(Stream) = Until(Len(sent))
  /\ \A i \in Len(got) + 1..Len(sent) : \A j \in 1..Len(Encoded(sent[i])) :
       Stream[Until(i - 1) + j] = Encoded(sent[i])[j]

CodecInv == Types /\ EndsAdd /\ EndsGrow /\ InOrder /\ Placed /\ DecodedAtOnce

LEMMA EncodedBytes ==
  ASSUME NEW f \in Frame
  PROVE  Encoded(f) \in Seq(Byte) /\ Len(Encoded(f)) \in Nat /\ Len(Encoded(f)) >= 2
  <1>1. LenBytes(Len(f.payload)) \in Nat /\ Len(f.key) \in Nat /\ Len(f.payload) \in Nat
    BY HeaderBytes, FrameParts
  <1>2. Len(Encoded(f)) = 2 + LenBytes(Len(f.payload)) + Len(f.key) + Len(f.payload)
    BY Layout
  <1>3. Encoded(f) \in Seq(Byte)
    BY Layout
  <1> QED
    BY <1>1, <1>2, <1>3

LEMMA EndsNat ==
  ASSUME Types, NEW i \in 0..Len(sent)
  PROVE  EndOf(i) \in Nat
  BY DEF Types, EndOf

LEMMA CodecStarts == Init => CodecInv
  <1> SUFFICES ASSUME Init PROVE CodecInv
    OBVIOUS
  <1>1. Types /\ Len(sent) = 0 /\ Len(got) = 0
    <2>1. sent = <<>> /\ wire = <<>> /\ buf = <<>> /\ reading = FALSE /\ got = <<>> /\ ends = <<>>
      BY DEF Init
    <2>2. \A S : <<>> \in Seq(S) /\ Len(<<>>) = 0
      BY EmptySeq
    <2> QED
      BY <2>1, <2>2 DEF Types
  <1>2. EndsAdd /\ EndsGrow /\ InOrder
    BY <1>1 DEF EndsAdd, EndsGrow, InOrder, EndOf
  <1>3. Len(Stream) = 0 /\ Until(Len(sent)) = 0
    BY <1>1 DEF Init, Stream, Until, EndOf
  <1>4. Placed /\ DecodedAtOnce
    BY <1>1, <1>3 DEF Placed, DecodedAtOnce
  <1> QED
    BY <1>1, <1>2, <1>4 DEF CodecInv

(* What is buffered begins as the first frame still to be decoded. *)
LEMMA BufferedFirst ==
  ASSUME CodecInv, Len(got) < Len(sent)
  PROVE  sent[Len(got) + 1] \in Frame /\ BeginsWith(buf, sent[Len(got) + 1])
  <1> DEFINE g == Len(got) + 1
             f == sent[g]
  <1>1. g \in 1..Len(sent) /\ f \in Frame /\ Len(got) \in Nat /\ buf \in Seq(Byte) /\ wire \in Seq(Byte)
    BY DEF CodecInv, Types
  <1>2. Until(g - 1) = 0
    BY <1>1, EndsNat DEF Until, CodecInv, InOrder
  <1>3. \A j \in 1..Len(Encoded(f)) : Stream[j] = Encoded(f)[j]
    <2>1. \A j \in 1..Len(Encoded(f)) : Stream[Until(g - 1) + j] = Encoded(f)[j]
      BY <1>1 DEF CodecInv, Placed
    <2>2. Len(Encoded(f)) \in Nat
      BY <1>1, EncodedBytes
    <2> QED
      BY <1>2, <2>1, <2>2
  <1>4. \A j \in 1..Len(buf) : Stream[j] = buf[j]
    BY <1>1, Joined DEF Stream
  <1>5. BeginsWith(buf, f)
    BY <1>1, <1>3, <1>4, EncodedBytes DEF BeginsWith
  <1> QED
    BY <1>1, <1>5

(* Nothing is buffered once every frame sent has been decoded. *)
LEMMA NothingBuffered ==
  ASSUME CodecInv, Len(got) = Len(sent)
  PROVE  Len(buf) = 0 /\ Len(wire) = 0 /\ ~Complete(buf)
  <1>1. Len(sent) \in Nat /\ EndOf(Len(sent)) \in Nat
    BY EndsNat DEF CodecInv, Types
  <1>2. Len(Stream) = 0
    BY <1>1 DEF CodecInv, Placed, Until
  <1>3. Len(buf) = 0 /\ Len(wire) = 0
    <2>1. buf \in Seq(Byte) /\ wire \in Seq(Byte)
      BY DEF CodecInv, Types
    <2>2. Len(Stream) = Len(buf) + Len(wire)
      BY <2>1, Joined DEF Stream
    <2> QED
      BY <1>2, <2>1, <2>2
  <1> QED
    BY <1>3 DEF Complete

(* An earlier frame ends before the stream does. *)
LEMMA EndsWithin ==
  ASSUME CodecInv, NEW i \in Len(got) + 1..Len(sent), NEW j \in 1..Len(Encoded(sent[i]))
  PROVE  Until(i - 1) + j \in 1..Len(Stream) /\ i \in 1..Len(sent) /\ Len(Stream) \in Nat
  <1>1. Len(got) \in Nat /\ Len(sent) \in Nat /\ i \in 1..Len(sent) /\ sent[i] \in Frame
    BY DEF CodecInv, Types
  <1>2. Len(Encoded(sent[i])) \in Nat
    BY <1>1, EncodedBytes
  <1>3. EndOf(i - 1) \in Nat /\ EndOf(i) \in Nat /\ EndOf(Len(got)) \in Nat /\ EndOf(Len(sent)) \in Nat
    BY <1>1, EndsNat DEF CodecInv
  <1>4. EndOf(Len(got)) <= EndOf(i - 1) /\ EndOf(i) <= EndOf(Len(sent))
    BY <1>1 DEF CodecInv, EndsGrow
  <1>5. EndOf(i) = EndOf(i - 1) + Len(Encoded(sent[i]))
    BY <1>1 DEF CodecInv, EndsAdd
  <1>6. Len(Stream) = EndOf(Len(sent)) - EndOf(Len(got))
    BY DEF CodecInv, Placed, Until
  <1> QED
    BY <1>1, <1>2, <1>3, <1>4, <1>5, <1>6 DEF Until

LEMMA SendKeeps ==
  ASSUME CodecInv, NEW f \in Frame, Send(f)
  PROVE  CodecInv'
  <1>a. PICK s, g, e : s = Len(sent) /\ g = Len(got) /\ e = Encoded(f)
    OBVIOUS
  <1>b. PICK last, base, k : last = EndOf(s) /\ base = EndOf(g) /\ k = Len(e)
    OBVIOUS
  <1>1. /\ sent \in Seq(Frame) /\ wire \in Seq(Byte) /\ buf \in Seq(Byte) /\ ends \in Seq(Nat)
        /\ s \in Nat /\ g \in Nat /\ g <= s /\ Len(ends) = s
    BY <1>a DEF CodecInv, Types, InOrder
  <1>2. e \in Seq(Byte) /\ k \in Nat /\ k >= 2
    BY <1>a, <1>b, EncodedBytes
  <1>3. last \in Nat /\ base \in Nat
    BY <1>1, <1>a, <1>b, EndsNat DEF CodecInv
  <1>4. /\ sent' = Append(sent, f) /\ wire' = wire \o e /\ ends' = Append(ends, last + k)
        /\ UNCHANGED <<buf, reading, got>>
    BY <1>a, <1>b DEF Send
  <1>5. /\ sent' \in Seq(Frame) /\ Len(sent') = s + 1 /\ sent'[s + 1] = f
        /\ \A i \in 1..s : sent'[i] = sent[i]
    BY <1>1, <1>4, <1>a, AppendProperties
  <1>6. /\ ends' \in Seq(Nat) /\ Len(ends') = s + 1 /\ ends'[s + 1] = last + k
        /\ \A i \in 1..s : ends'[i] = ends[i]
    <2>1. last + k \in Nat
      BY <1>2, <1>3
    <2> QED
      BY <1>1, <1>4, <2>1, AppendProperties
  <1>7. wire' \in Seq(Byte)
    BY <1>1, <1>2, <1>4
  <1>8. Types'
    BY <1>4, <1>5, <1>6, <1>7 DEF CodecInv, Types
  <1>9. EndOf(s + 1)' = last + k /\ \A i \in 0..s : EndOf(i)' = EndOf(i)
    BY <1>1, <1>6, <1>a DEF EndOf
  <1>10. EndsAdd'
    <2> SUFFICES ASSUME NEW i \in 1..s + 1
                 PROVE  EndOf(i)' = EndOf(i - 1)' + Len(Encoded(sent'[i]))
      BY <1>5 DEF EndsAdd
    <2>1. CASE i = s + 1
      <3>1. i - 1 = s /\ s \in 0..s
        BY <1>1, <2>1
      <3>2. EndOf(i - 1)' = last /\ EndOf(i)' = last + k /\ sent'[i] = f
        BY <1>5, <1>9, <1>b, <2>1, <3>1
      <3> QED
        BY <1>a, <1>b, <3>2
    <2>2. CASE i # s + 1
      <3>1. i \in 1..s /\ i \in 0..s /\ i - 1 \in 0..s
        BY <1>1, <2>2
      <3>2. EndOf(i) = EndOf(i - 1) + Len(Encoded(sent[i]))
        BY <1>a, <3>1 DEF CodecInv, EndsAdd
      <3> QED
        BY <1>5, <1>9, <3>1, <3>2
    <2> QED
      BY <2>1, <2>2
  <1>11. EndsGrow'
    <2> SUFFICES ASSUME NEW i \in 0..s + 1, NEW j \in 0..s + 1, i <= j
                 PROVE  EndOf(i)' <= EndOf(j)'
      BY <1>5 DEF EndsGrow
    <2>1. \A m \in 0..s : EndOf(m) \in Nat /\ EndOf(m) <= last
      BY <1>1, <1>a, <1>b, EndsNat DEF CodecInv, EndsGrow
    <2>2. CASE j = s + 1
      <3>1. CASE i = s + 1
        BY <1>2, <1>3, <1>9, <2>2, <3>1
      <3>2. CASE i # s + 1
        <4>1. i \in 0..s
          BY <1>1, <3>2
        <4>2. EndOf(i)' = EndOf(i) /\ EndOf(j)' = last + k /\ EndOf(i) \in Nat /\ EndOf(i) <= last
          BY <1>9, <2>1, <2>2, <4>1
        <4> QED
          BY <1>2, <1>3, <4>2
      <3> QED
        BY <3>1, <3>2
    <2>3. CASE j # s + 1
      <3>1. i \in 0..s /\ j \in 0..s
        BY <1>1, <2>3
      <3> QED
        BY <1>9, <1>a, <3>1 DEF CodecInv, EndsGrow
    <2> QED
      BY <2>2, <2>3
  <1>12. InOrder'
    BY <1>1, <1>4, <1>5, <1>a DEF CodecInv, InOrder
  <1>c. PICK n : n = Len(Stream)
    OBVIOUS
  <1>13. /\ Stream' = Stream \o e /\ Stream \in Seq(Byte) /\ n \in Nat
         /\ n = last - base
    <2>1. Stream \in Seq(Byte)
      BY <1>1, Joined DEF Stream
    <2>2. (buf \o wire) \o e = buf \o (wire \o e)
      BY <1>1, <1>2, ConcatAssociative
    <2> QED
      BY <1>4, <1>a, <1>b, <1>c, <2>1, <2>2 DEF Stream, CodecInv, Placed, Until
  <1>14. /\ Len(Stream') = n + k
         /\ \A i \in 1..n : Stream'[i] = Stream[i]
         /\ \A i \in 1..k : Stream'[n + i] = e[i]
    <2>1. /\ Len(Stream \o e) = n + k
          /\ \A i \in 1..n : (Stream \o e)[i] = Stream[i]
          /\ \A i \in 1..k : (Stream \o e)[n + i] = e[i]
      <3>1. PICK t : t = Stream
        OBVIOUS
      <3>2. t \in Seq(Byte) /\ e \in Seq(Byte)
        BY <1>2, <1>13, <3>1
      <3>3. /\ Len(t \o e) = Len(t) + Len(e)
            /\ \A i \in 1..Len(t) : (t \o e)[i] = t[i]
            /\ \A i \in 1..Len(e) : (t \o e)[Len(t) + i] = e[i]
        BY <3>2, Joined
      <3> QED
        BY <1>b, <1>c, <3>1, <3>3
    <2> QED
      BY <1>13, <2>1
  <1>15. \A i : Until(i) = EndOf(i) - base /\ Until(i)' = EndOf(i)' - base
    <2>1. g \in 0..s /\ Len(got') = g /\ EndOf(g)' = base
      BY <1>1, <1>4, <1>9, <1>a, <1>b
    <2> QED
      BY <2>1, <1>a, <1>b DEF Until
  <1>16. Placed'
    <2>1. Len(Stream') = Until(Len(sent))'
      <3>1. Until(s + 1)' = (last + k) - base
        BY <1>9, <1>15
      <3>2. Until(Len(sent))' = Until(s + 1)'
        BY <1>5 DEF Until
      <3> QED
        BY <1>2, <1>3, <1>13, <1>14, <3>1, <3>2
    <2>2. ASSUME NEW i \in g + 1..s + 1, NEW j \in 1..Len(Encoded(sent'[i]))
          PROVE  Stream'[Until(i - 1)' + j] = Encoded(sent'[i])[j]
      <3>1. CASE i = s + 1
        <4>1. i - 1 = s /\ s \in 0..s
          BY <1>1, <3>1
        <4>2. Until(i - 1)' = n /\ sent'[i] = f
          BY <1>5, <1>9, <1>13, <1>15, <1>b, <3>1, <4>1
        <4> QED
          BY <1>14, <1>a, <1>b, <4>2
      <3>2. CASE i # s + 1
        <4>1. i \in g + 1..s /\ i - 1 \in 0..s /\ i \in 1..s
          BY <1>1, <3>2
        <4>2. sent'[i] = sent[i] /\ Until(i - 1)' = Until(i - 1)
          BY <1>5, <1>9, <1>15, <4>1
        <4>3. Until(i - 1) + j \in 1..n
          BY <4>1, <4>2, <1>a, <1>c, EndsWithin
        <4>4. Stream[Until(i - 1) + j] = Encoded(sent[i])[j]
          BY <4>1, <4>2, <1>a DEF CodecInv, Placed
        <4> QED
          BY <1>14, <4>2, <4>3, <4>4
      <3> QED
        BY <3>1, <3>2
    <2> QED
      BY <1>4, <1>5, <1>a, <2>1, <2>2 DEF Placed
  <1>17. DecodedAtOnce'
    <2>1. CASE g < s
      <3>1. g + 1 \in 1..s
        BY <1>1, <2>1
      <3>2. sent'[g + 1] = sent[g + 1]
        BY <1>5, <3>1
      <3> QED
        BY <1>4, <1>a, <2>1, <3>2 DEF CodecInv, DecodedAtOnce
    <2>2. CASE ~(g < s)
      <3>1. g = s
        BY <1>1, <2>2
      <3>2. Len(buf) = 0
        BY <3>1, <1>a, NothingBuffered
      <3> QED
        BY <1>2, <1>4, <1>5, <1>a, <1>b, <3>1, <3>2 DEF DecodedAtOnce
    <2> QED
      BY <2>1, <2>2
  <1> QED
    BY <1>8, <1>10, <1>11, <1>12, <1>16, <1>17 DEF CodecInv

LEMMA PushKeeps ==
  ASSUME CodecInv, NEW n \in 1..Len(wire), Push(n)
  PROVE  CodecInv'
  <1>1. buf \in Seq(Byte) /\ wire \in Seq(Byte) /\ Len(wire) \in Nat
    BY DEF CodecInv, Types
  <1>2. PICK a, c : a = SubSeq(wire, 1, n) /\ c = SubSeq(wire, n + 1, Len(wire))
    OBVIOUS
  <1>3. /\ buf' = buf \o a /\ wire' = c /\ reading' = TRUE
        /\ UNCHANGED <<sent, got, ends>>
    BY <1>2 DEF Push
  <1>4. a \in Seq(Byte) /\ c \in Seq(Byte)
    BY <1>1, <1>2
  <1>5. a \o c = wire
    <2>1. a \o c = SubSeq(wire, 1, Len(wire))
      <3>1. 1 \in 1..Len(wire) + 1 /\ n \in 1 - 1..Len(wire) /\ Len(wire) \in n..Len(wire)
        BY <1>1
      <3> QED
        BY <1>1, <1>2, <3>1, ConcatAdjacentSubSeq
    <2> QED
      BY <1>1, <2>1, SubSeqFull
  <1>6. Stream' = Stream
    <2>1. (buf \o a) \o c = buf \o (a \o c)
      BY <1>1, <1>4, ConcatAssociative
    <2> QED
      BY <1>3, <1>5, <2>1 DEF Stream
  <1>7. Types'
    <2>1. buf \o a \in Seq(Byte)
      BY <1>1, <1>4
    <2> QED
      BY <1>3, <1>4, <2>1 DEF CodecInv, Types
  <1>8. EndsAdd' /\ EndsGrow' /\ InOrder'
    BY <1>3 DEF CodecInv, EndsAdd, EndsGrow, InOrder, EndOf
  <1>9. Placed'
    BY <1>3, <1>6 DEF CodecInv, Placed, Until, EndOf
  <1>10. DecodedAtOnce'
    BY <1>3 DEF DecodedAtOnce
  <1> QED
    BY <1>7, <1>8, <1>9, <1>10 DEF CodecInv

(* A turn of the loop takes the first frame off the stream, *)
LEMMA TurnKeeps ==
  ASSUME CodecInv, TryRead, Complete(buf)
  PROVE  CodecInv'
  <1>a. PICK s, g : s = Len(sent) /\ g = Len(got)
    OBVIOUS
  <1>1. /\ sent \in Seq(Frame) /\ wire \in Seq(Byte) /\ buf \in Seq(Byte)
        /\ got \in Seq([opcode : Byte, payload : Seq(Byte)]) /\ reading = TRUE
        /\ s \in Nat /\ g \in Nat /\ g < s
    <2>1. g <= s /\ g # s
      BY <1>a, NothingBuffered DEF CodecInv, InOrder
    <2> QED
      BY <1>a, <2>1 DEF CodecInv, Types, TryRead
  <1>b. PICK f : f = sent[g + 1]
    OBVIOUS
  <1>c. PICK k, base : k = Len(Encoded(f)) /\ base = EndOf(g)
    OBVIOUS
  <1>2. f \in Frame /\ BeginsWith(buf, f) /\ k \in Nat
    BY <1>a, <1>b, <1>c, <1>1, BufferedFirst, EncodedBytes
  <1>3. Len(buf) >= k
    BY <1>1, <1>2, <1>c, ReadsWholeFrames
  <1>4. buf[1] = f.opcode /\ Payload(buf) = f.payload /\ Off(buf) + PayloadLen(buf) = k
    BY <1>1, <1>2, <1>3, <1>c, ReadsFrame
  <1>d. PICK rest : rest = SubSeq(buf, k + 1, Len(buf))
    OBVIOUS
  <1>5. /\ got' = Append(got, Content(f)) /\ buf' = rest
        /\ UNCHANGED <<reading, sent, wire, ends>>
    BY <1>4, <1>d DEF TryRead, Content
  <1>6. /\ rest \in Seq(Byte) /\ Len(rest) = Len(buf) - k
        /\ \A i \in 1..Len(rest) : rest[i] = buf[k + i]
    <2>1. PICK m : m = Len(buf) - k
      OBVIOUS
    <2>2. m \in Nat /\ k + m = Len(buf)
      BY <1>1, <1>2, <1>3, <2>1
    <2>3. /\ SubSeq(buf, k + 1, k + m) \in Seq(Byte) /\ Len(SubSeq(buf, k + 1, k + m)) = m
          /\ \A i \in 1..m : SubSeq(buf, k + 1, k + m)[i] = buf[k + i]
      BY <1>1, <1>2, <2>2, Cut
    <2> QED
      BY <1>d, <2>1, <2>2, <2>3
  <1>7. Content(f) \in [opcode : Byte, payload : Seq(Byte)]
    BY <1>2, FrameParts DEF Content
  <1>8. /\ got' \in Seq([opcode : Byte, payload : Seq(Byte)]) /\ Len(got') = g + 1
        /\ got'[g + 1] = Content(f) /\ \A i \in 1..g : got'[i] = got[i]
    BY <1>1, <1>5, <1>7, <1>a, AppendProperties
  <1>9. Types'
    BY <1>5, <1>6, <1>8 DEF CodecInv, Types
  <1>10. EndsAdd' /\ EndsGrow'
    BY <1>5 DEF CodecInv, EndsAdd, EndsGrow, EndOf
  <1>11. InOrder'
    <2>1. \A i \in 1..g + 1 : got'[i] = Content(sent[i])
      <3>1. \A i \in 1..g : got[i] = Content(sent[i])
        BY <1>a DEF CodecInv, InOrder
      <3>2. ASSUME NEW i \in 1..g + 1 PROVE i = g + 1 \/ i \in 1..g
        BY <1>1
      <3>3. got'[g + 1] = Content(sent[g + 1])
        BY <1>8, <1>b
      <3>4. \A i \in 1..g : got'[i] = Content(sent[i])
        BY <1>8, <3>1
      <3> QED
        BY <3>2, <3>3, <3>4, Zenon
    <2> QED
      BY <1>1, <1>5, <1>8, <1>a, <2>1 DEF InOrder
  <1>12. \A i : EndOf(i)' = EndOf(i) /\ Until(i)' = EndOf(i) - (base + k) /\ Until(i) = EndOf(i) - base
    <2>1. \A i : EndOf(i)' = EndOf(i)
      BY <1>5 DEF EndOf
    <2>2. EndOf(g + 1) = base + k
      BY <1>1, <1>a, <1>b, <1>c DEF CodecInv, EndsAdd
    <2>3. Until(0)' = EndOf(0)' - EndOf(g + 1)'
      BY <1>8 DEF Until
    <2>4. \A i : Until(i)' = EndOf(i)' - EndOf(g + 1)'
      BY <1>8 DEF Until
    <2> QED
      BY <2>1, <2>2, <2>4, <1>a, <1>c DEF Until
  <1>e. PICK m : m = Len(Stream)
    OBVIOUS
  <1>13. /\ m = Len(buf) + Len(wire) /\ m \in Nat /\ Len(Stream') = m - k
         /\ \A i \in 1..m - k : Stream'[i] = Stream[k + i]
    <2>1. /\ Len(Stream) = Len(buf) + Len(wire)
          /\ \A i \in 1..Len(buf) : Stream[i] = buf[i]
          /\ \A i \in 1..Len(wire) : Stream[Len(buf) + i] = wire[i]
      BY <1>1, Joined DEF Stream
    <2>2. /\ Len(rest \o wire) = Len(rest) + Len(wire)
          /\ \A i \in 1..Len(rest) : (rest \o wire)[i] = rest[i]
          /\ \A i \in 1..Len(wire) : (rest \o wire)[Len(rest) + i] = wire[i]
      <3>1. rest \in Seq(Byte) /\ wire \in Seq(Byte)
        BY <1>1, <1>6
      <3> QED
        BY <3>1, Joined
    <2>3. PICK t : t = rest \o wire
      OBVIOUS
    <2>4. Stream' = t
      BY <1>5, <2>3 DEF Stream
    <2>5. m = Len(buf) + Len(wire) /\ m \in Nat /\ Len(t) = m - k
      BY <1>1, <1>2, <1>3, <1>6, <1>e, <2>1, <2>2, <2>3
    <2>6. ASSUME NEW i \in 1..m - k PROVE t[i] = Stream[k + i]
      <3>1. CASE i <= Len(rest)
        <4>1. i \in 1..Len(rest) /\ k + i \in 1..Len(buf)
          BY <1>1, <1>2, <1>3, <1>6, <3>1
        <4> QED
          BY <1>6, <2>1, <2>2, <2>3, <4>1
      <3>2. CASE ~(i <= Len(rest))
        <4>1. PICK j : j = i - Len(rest)
          OBVIOUS
        <4>2. j \in 1..Len(wire) /\ Len(rest) + j = i /\ Len(buf) + j = k + i
          BY <1>1, <1>2, <1>3, <1>6, <2>5, <3>2, <4>1
        <4> QED
          BY <2>1, <2>2, <2>3, <4>2
      <3> QED
        BY <3>1, <3>2
    <2> QED
      BY <2>4, <2>5, <2>6
  <1>14. Placed'
    <2>1. Len(Stream') = Until(s)'
      <3>1. m = EndOf(s) - base
        BY <1>a, <1>c, <1>e DEF CodecInv, Placed, Until
      <3>2. EndOf(s) \in Nat /\ base \in Nat
        BY <1>1, <1>a, <1>c, EndsNat DEF CodecInv
      <3> QED
        BY <1>2, <1>12, <1>13, <3>1, <3>2
    <2>2. ASSUME NEW i \in g + 2..s, NEW j \in 1..Len(Encoded(sent[i]))
          PROVE  Stream'[Until(i - 1)' + j] = Encoded(sent[i])[j]
      <3>1. i \in g + 1..s /\ i - 1 \in 0..s /\ i \in 1..s
        BY <1>1
      <3>2. EndOf(i - 1) \in Nat /\ base \in Nat
        BY <1>1, <1>a, <1>c, <3>1, EndsNat DEF CodecInv
      <3>3. EndOf(i - 1) >= base + k
        <4>1. EndOf(g + 1) = base + k
          BY <1>1, <1>a, <1>b, <1>c DEF CodecInv, EndsAdd
        <4>2. g + 1 \in 0..s /\ i - 1 \in 0..s /\ g + 1 <= i - 1
          BY <1>1
        <4>3. EndOf(g + 1) <= EndOf(i - 1)
          BY <4>2, <1>a DEF CodecInv, EndsGrow
        <4>4. EndOf(g + 1) \in Nat
          BY <4>2, <1>a, EndsNat DEF CodecInv
        <4> QED
          BY <3>2, <4>1, <4>3, <4>4
      <3>4. Until(i - 1) + j \in 1..m
        BY <1>a, <1>e, <3>1, EndsWithin
      <3>5. Stream[Until(i - 1) + j] = Encoded(sent[i])[j]
        BY <1>a, <3>1 DEF CodecInv, Placed
      <3>6. PICK p : p = Until(i - 1)' + j
        OBVIOUS
      <3>7. Len(Encoded(sent[i])) \in Nat /\ j \in Nat /\ j >= 1
        BY <1>1, <1>a, <3>1, EncodedBytes
      <3>8. p \in 1..m - k /\ k + p = Until(i - 1) + j
        BY <1>2, <1>12, <1>13, <3>2, <3>3, <3>4, <3>6, <3>7
      <3> QED
        BY <1>13, <3>5, <3>6, <3>8
    <2>3. Len(got') + 1 = g + 2 /\ Len(sent') = s /\ sent' = sent
      BY <1>1, <1>5, <1>8, <1>a
    <2>4. Until(Len(sent))' = Until(s)'
      BY <2>3 DEF Until
    <2> QED
      BY <2>1, <2>2, <2>3, <2>4 DEF Placed
  <1>15. DecodedAtOnce'
    BY <1>1, <1>5 DEF DecodedAtOnce
  <1> QED
    BY <1>9, <1>10, <1>11, <1>14, <1>15 DEF CodecInv

(* and the loop ends where the bytes of the first frame are not all there. *)
LEMMA LastTurnKeeps ==
  ASSUME CodecInv, TryRead, ~Complete(buf)
  PROVE  CodecInv'
  <1>1. reading' = FALSE /\ UNCHANGED <<sent, wire, buf, got, ends>>
    BY DEF TryRead
  <1>2. Types' /\ EndsAdd' /\ EndsGrow' /\ InOrder'
    BY <1>1 DEF CodecInv, Types, EndsAdd, EndsGrow, InOrder, EndOf
  <1>3. Placed'
    BY <1>1 DEF CodecInv, Placed, Until, EndOf, Stream
  <1>4. DecodedAtOnce'
    <2> SUFFICES ASSUME Len(got) < Len(sent)
                 PROVE  Len(buf) < Len(Encoded(sent[Len(got) + 1]))
      BY <1>1 DEF DecodedAtOnce
    <2>1. PICK f : f = sent[Len(got) + 1]
      OBVIOUS
    <2>2. f \in Frame /\ BeginsWith(buf, f) /\ buf \in Seq(Byte)
      BY <2>1, BufferedFirst DEF CodecInv, Types
    <2>3. ~(Len(buf) >= Len(Encoded(f)))
      BY <2>2, ReadsWholeFrames
    <2>4. Len(buf) \in Nat /\ Len(Encoded(f)) \in Nat
      BY <2>2, EncodedBytes
    <2> QED
      BY <2>1, <2>3, <2>4
  <1> QED
    BY <1>2, <1>3, <1>4 DEF CodecInv

LEMMA CodecAlways == Spec => []CodecInv
  <1>1. Init => CodecInv
    BY CodecStarts
  <1>2. CodecInv /\ [Next]_vars => CodecInv'
    <2> SUFFICES ASSUME CodecInv, [Next]_vars PROVE CodecInv'
      OBVIOUS
    <2>1. CASE UNCHANGED vars
      <3>1. Types' /\ EndsAdd' /\ EndsGrow' /\ InOrder' /\ DecodedAtOnce'
        BY <2>1 DEF vars, CodecInv, Types, EndsAdd, EndsGrow, InOrder, EndOf, DecodedAtOnce
      <3>2. Placed'
        BY <2>1 DEF vars, CodecInv, Placed, Until, EndOf, Stream
      <3> QED
        BY <3>1, <3>2 DEF CodecInv
    <2>2. CASE \E f \in Frame : Send(f)
      BY <2>2, SendKeeps
    <2>3. CASE \E n \in 1..Len(wire) : Push(n)
      BY <2>3, PushKeeps
    <2>4. CASE TryRead
      BY <2>4, TurnKeeps, LastTurnKeeps
    <2> QED
      BY <2>1, <2>2, <2>3, <2>4 DEF Next
  <1> QED
    BY <1>1, <1>2, PTL DEF Spec

-----------------------------------------------------------------------------

LEMMA PlacedInWhole == CodecInv => DecodedAsSent
  <1> SUFFICES ASSUME CodecInv PROVE DecodedAsSent
    OBVIOUS
  <1>1. Len(got) <= Len(sent) /\ \A i \in 1..Len(got) : got[i] = Content(sent[i])
    BY DEF CodecInv, InOrder
  <1>2. Len(Stream) = EndOf(Len(sent)) - EndOf(Len(got))
    BY DEF CodecInv, Placed, Until
  <1>3. ASSUME NEW i \in Len(got) + 1..Len(sent)
        PROVE  SubSeq(Stream, EndOf(i - 1) - EndOf(Len(got)) + 1, EndOf(i) - EndOf(Len(got)))
                 = Encoded(sent[i])
    <2>1. PICK e, o, n : e = Encoded(sent[i]) /\ o = Until(i - 1) /\ n = Len(e)
      OBVIOUS
    <2>2. i \in 1..Len(sent) /\ sent[i] \in Frame /\ Len(got) \in Nat /\ Len(sent) \in Nat
      BY DEF CodecInv, Types
    <2>3. e \in Seq(Byte) /\ n \in Nat /\ n >= 1
      BY <2>1, <2>2, EncodedBytes
    <2>4. Stream \in Seq(Byte)
      <3>1. buf \in Seq(Byte) /\ wire \in Seq(Byte)
        BY DEF CodecInv, Types
      <3> QED
        BY <3>1, Joined DEF Stream
    <2>5. EndOf(i - 1) \in Nat /\ EndOf(i) \in Nat /\ EndOf(Len(got)) \in Nat
      BY <2>2, EndsNat, <1>1 DEF CodecInv
    <2>6. EndOf(i) - EndOf(Len(got)) = o + n /\ o \in Nat
      <3>1. EndOf(i) = EndOf(i - 1) + n
        BY <2>1, <2>2 DEF CodecInv, EndsAdd
      <3>2. EndOf(Len(got)) <= EndOf(i - 1)
        BY <2>2, <1>1 DEF CodecInv, EndsGrow
      <3> QED
        BY <2>1, <2>3, <2>5, <3>1, <3>2 DEF Until
    <2>7. o + n <= Len(Stream)
      <3>1. o + n \in 1..Len(Stream)
        <4>1. n \in 1..n
          BY <2>3
        <4> QED
          BY <2>1, <4>1, EndsWithin
      <3> QED
        BY <2>3, <2>6, <3>1
    <2>8. PICK t : t = SubSeq(Stream, o + 1, o + n)
      OBVIOUS
    <2>9. t \in Seq(Byte) /\ Len(t) = n /\ \A j \in 1..n : t[j] = Stream[o + j]
      <3>1. PICK st : st = Stream
        OBVIOUS
      <3>2. st \in Seq(Byte) /\ o + n <= Len(st)
        BY <2>4, <2>7, <3>1
      <3>3. /\ SubSeq(st, o + 1, o + n) \in Seq(Byte) /\ Len(SubSeq(st, o + 1, o + n)) = n
            /\ \A j \in 1..n : SubSeq(st, o + 1, o + n)[j] = st[o + j]
        BY <2>3, <2>6, <3>2, Cut
      <3> QED
        BY <2>8, <3>1, <3>3
    <2>10. \A j \in 1..n : Stream[o + j] = e[j]
      BY <2>1 DEF CodecInv, Placed
    <2>11. t = e
      BY <2>1, <2>3, <2>9, <2>10, SeqEqual
    <2> QED
      BY <2>1, <2>6, <2>8, <2>11 DEF Until
  <1> QED
    BY <1>1, <1>2, <1>3 DEF DecodedAsSent

(* However the network cuts the bytes, FrameDecoder's push hands over the frames that *)
(* encodeFrame wrote, unmasked and in order, and loses or invents no byte of the rest. *)
THEOREM FramesComeThrough == Spec => []DecodedAsSent
  BY CodecAlways, PlacedInWhole, PTL

(* When push returns, no whole frame is left in #buf. *)
THEOREM NothingHeldBack == Spec => []DecodedAtOnce
  <1>1. CodecInv => DecodedAtOnce
    BY DEF CodecInv
  <1> QED
    BY CodecAlways, <1>1, PTL

-----------------------------------------------------------------------------
(* The channel of frames *)

LEMMA ContentsAre ==
  ASSUME NEW q \in Seq(Frame)
  PROVE  /\ [i \in DOMAIN q |-> Content(q[i])] \in Seq({Content(f) : f \in Frame})
         /\ Len([i \in DOMAIN q |-> Content(q[i])]) = Len(q)
         /\ \A i \in 1..Len(q) : [j \in DOMAIN q |-> Content(q[j])][i] = Content(q[i])
  <1>1. DOMAIN q = 1..Len(q) /\ Len(q) \in Nat /\ \A i \in 1..Len(q) : q[i] \in Frame
    OBVIOUS
  <1>2. PICK c : c = [i \in 1..Len(q) |-> Content(q[i])]
    OBVIOUS
  <1>3. c \in [1..Len(q) -> {Content(f) : f \in Frame}]
    BY <1>1, <1>2
  <1>4. c \in Seq({Content(f) : f \in Frame}) /\ Len(c) = Len(q)
    BY <1>1, <1>3
  <1> QED
    BY <1>1, <1>2, <1>4

(* What Send appends to the frames is appended to their contents. *)
LEMMA SendGives ==
  ASSUME CodecInv, NEW f \in Frame, Send(f)
  PROVE  Channel!Give(Content(f))
  <1>1. /\ sent \in Seq(Frame) /\ sent' = Append(sent, f) /\ got' = got
        /\ Append(sent, f) \in Seq(Frame)
    BY DEF CodecInv, Types, Send
  <1>a. PICK s, q, r, c, d :
          /\ s = Len(sent) /\ q = sent /\ r = Append(sent, f)
          /\ c = [i \in DOMAIN q |-> Content(q[i])] /\ d = [i \in DOMAIN r |-> Content(r[i])]
    OBVIOUS
  <1>2. /\ q \in Seq(Frame) /\ r \in Seq(Frame) /\ s \in Nat /\ s = Len(q) /\ Len(r) = s + 1
        /\ r[s + 1] = f /\ \A i \in 1..s : r[i] = q[i]
    BY <1>1, <1>a, AppendProperties
  <1>3. /\ c \in Seq({Content(g) : g \in Frame}) /\ Len(c) = s
        /\ \A i \in 1..s : c[i] = Content(q[i])
    BY <1>2, <1>a, ContentsAre
  <1>4. /\ d \in Seq({Content(g) : g \in Frame}) /\ Len(d) = s + 1
        /\ \A i \in 1..s + 1 : d[i] = Content(r[i])
    BY <1>2, <1>a, ContentsAre
  <1>5. d = Append(c, Content(f))
    <2>1. Content(f) \in {Content(g) : g \in Frame}
      OBVIOUS
    <2>2. /\ Append(c, Content(f)) \in Seq({Content(g) : g \in Frame})
          /\ Len(Append(c, Content(f))) = s + 1
          /\ Append(c, Content(f))[s + 1] = Content(f)
          /\ \A i \in 1..s : Append(c, Content(f))[i] = c[i]
      BY <1>3, <2>1, AppendProperties
    <2>3. \A i \in 1..s + 1 : d[i] = Append(c, Content(f))[i]
      <3>1. ASSUME NEW i \in 1..s + 1 PROVE i = s + 1 \/ i \in 1..s
        BY <1>2
      <3>2. d[s + 1] = Content(f) /\ \A i \in 1..s : d[i] = c[i]
        BY <1>2, <1>3, <1>4
      <3> QED
        BY <2>2, <3>1, <3>2
    <2> QED
      BY <1>4, <2>2, <2>3, SeqEqual
  <1>6. Contents = c /\ Contents' = d
    BY <1>1, <1>a DEF Contents
  <1> QED
    BY <1>1, <1>5, <1>6 DEF Channel!Give

(* A turn of the loop that completes a frame reads the next message. *)
LEMMA TurnTakes ==
  ASSUME CodecInv, TryRead, Complete(buf)
  PROVE  Channel!Take
  <1>a. PICK s, g : s = Len(sent) /\ g = Len(got)
    OBVIOUS
  <1>1. CodecInv'
    BY TurnKeeps
  <1>2. sent \in Seq(Frame) /\ s \in Nat /\ g \in Nat /\ g < s /\ UNCHANGED sent
    <2>1. g <= s /\ g # s
      BY <1>a, NothingBuffered DEF CodecInv, InOrder
    <2> QED
      BY <1>a, <2>1 DEF CodecInv, Types, TryRead
  <1>3. PICK m : got' = Append(got, m)
    BY DEF TryRead
  <1>4. /\ got \in Seq([opcode : Byte, payload : Seq(Byte)])
        /\ got' \in Seq([opcode : Byte, payload : Seq(Byte)])
    BY <1>1 DEF CodecInv, Types
  <1>5. Len(got') = g + 1 /\ got'[g + 1] = m
    BY <1>3, <1>4, <1>a
  <1>6. m = Content(sent[g + 1])
    BY <1>1, <1>2, <1>5 DEF CodecInv, InOrder
  <1>7. Len(Contents) = s /\ Contents[g + 1] = m
    <2>1. g + 1 \in 1..s
      BY <1>2
    <2> QED
      BY <1>2, <1>6, <1>a, <2>1, ContentsAre DEF Contents
  <1>8. UNCHANGED Contents
    BY <1>2 DEF Contents
  <1> QED
    BY <1>2, <1>3, <1>7, <1>8, <1>a DEF Channel!Take

(***************************************************************************)
(* encodeFrame, any cutting of the bytes and FrameDecoder together are a    *)
(* channel that hands over whole frames in order, none lost and none twice: *)
(* for bytes, lengths and keys of any size, and any frames.                 *)
(***************************************************************************)
THEOREM CodecImplementsChannel == Spec => ImplementsChannel
  <1>1. Init => Channel!Init
    <2>1. ASSUME Init PROVE got = <<>> /\ Contents = <<>>
      <3>1. sent = <<>> /\ got = <<>> /\ DOMAIN <<>> = {}
        BY <2>1 DEF Init
      <3>2. Contents \in [{} -> {}]
        BY <3>1 DEF Contents
      <3> QED
        BY <3>1, <3>2
    <2> QED
      BY <2>1 DEF Channel!Init
  <1>2. CodecInv /\ [Next]_vars => [Channel!Next]_<<Contents, got>>
    <2> SUFFICES ASSUME CodecInv, [Next]_vars PROVE Channel!Next \/ UNCHANGED <<Contents, got>>
      OBVIOUS
    <2>1. CASE \E f \in Frame : Send(f)
      <3>1. PICK f \in Frame : Send(f)
        BY <2>1
      <3> QED
        BY <3>1, SendGives DEF Channel!Next
    <2>2. CASE \E n \in 1..Len(wire) : Push(n)
      <3>1. UNCHANGED <<sent, got>>
        BY <2>2 DEF Push
      <3> QED
        BY <3>1 DEF Contents
    <2>3. CASE TryRead
      <3>1. CASE Complete(buf)
        BY <2>3, <3>1, TurnTakes DEF Channel!Next
      <3>2. CASE ~Complete(buf)
        <4>1. UNCHANGED <<sent, got>>
          BY <2>3, <3>2 DEF TryRead
        <4> QED
          BY <4>1 DEF Contents
      <3> QED
        BY <3>1, <3>2
    <2>4. CASE UNCHANGED vars
      <3>1. UNCHANGED <<sent, got>>
        BY <2>4 DEF vars
      <3> QED
        BY <3>1 DEF Contents
    <2> QED
      BY <2>1, <2>2, <2>3, <2>4 DEF Next
  <1> QED
    BY <1>1, <1>2, CodecAlways, PTL DEF Spec, ImplementsChannel, Channel!Spec
=============================================================================
