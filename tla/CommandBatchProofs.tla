------------------------- MODULE CommandBatchProofs -------------------------
(***************************************************************************)
(* Proofs about CommandBatch, for any number of values of a byte from      *)
(* three up, any raw buffers that a uint16_t can measure and any commands. *)
(***************************************************************************)
EXTENDS CommandBatch, LeastNumber, SequenceTheorems, TLAPS

Byte8 == 0 .. Base - 1

\* The arithmetic of two bytes in a uint16_t.
LEMMA WidthFacts == Width \in Nat /\ Width >= 9 /\ Base \in Nat /\ Base >= 3
<1>1. Base \in Nat /\ Base >= 3
  BY CommandBatchAssumption
<1>2. Base * Base \in Nat /\ Base * Base >= 9
  BY <1>1
<1>. QED  BY <1>1, <1>2 DEF Width

LEMMA TwoBytes ==
    ASSUME NEW x \in Byte8, NEW y \in Byte8
    PROVE  /\ Base * x + y \in 0 .. Width - 1
           /\ (Base * x + y) \div Base = x /\ (Base * x + y) % Base = y
<1>1. Base \in Nat /\ Base >= 3 /\ x \in Nat /\ y \in Nat /\ x <= Base - 1 /\ y <= Base - 1
  BY WidthFacts DEF Byte8
<1>2. Base * x + y \in Nat
  BY <1>1
<1>3. Base * x <= Base * (Base - 1)
  BY <1>1
<1>4. Base * (Base - 1) = Base * Base - Base
  BY <1>1
<1>5. Base * x \in Nat /\ Base * Base \in Nat
  BY <1>1
<1>6. Base * x + y <= Base * Base - 1
  BY <1>1, <1>3, <1>4, <1>5
<1>. QED  BY <1>1, <1>2, <1>5, <1>6 DEF Width

LEMMA HtonsFacts ==
    ASSUME NEW n \in 0 .. Width - 1
    PROVE  /\ Htons(n) \in Seq(Byte8) /\ Len(Htons(n)) = 2
           /\ n = Base * Htons(n)[1] + Htons(n)[2]
<1>1. Base \in Nat /\ Base >= 3 /\ n \in Nat /\ n < Base * Base
  BY WidthFacts DEF Width
<1>0. PICK q, m : q = n \div Base /\ m = n % Base
  OBVIOUS
<1>2. q \in Nat /\ m \in 0 .. Base - 1 /\ n = Base * q + m
  BY <1>0, <1>1
<1>3. q < Base
  <2>1. ASSUME q >= Base PROVE FALSE
    <3>1. Base * q >= Base * Base
      BY <1>1, <1>2, <2>1
    <3>. QED  BY <1>1, <1>2, <3>1
  <2>. QED  BY <1>1, <1>2, <2>1
<1>4. q \in Byte8 /\ m \in Byte8
  BY <1>1, <1>2, <1>3 DEF Byte8
<1>5. Htons(n) = <<q, m>>
  BY <1>0 DEF Htons
<1>6. Htons(n) \in Seq(Byte8) /\ Len(Htons(n)) = 2 /\ Htons(n)[1] = q /\ Htons(n)[2] = m
  BY <1>4, <1>5
<1>. QED  BY <1>2, <1>6

\* The recursion of Whole has a solution: the offsets from which a chain of
\* whole commands leads to the end.
Closed(b, S) ==
    \A i \in S : \/ i = Len(b)
                 \/ \E n \in 0 .. Len(b) - i - Header :
                        n = Base * b[i + 3] + b[i + 4] /\ i + Header + n \in S

LEMMA WholeFacts ==
    ASSUME NEW b \in Seq(Byte8), NEW i \in 0 .. Len(b)
    PROVE  Whole(b)[i] <=> \/ i = Len(b)
                           \/ \E n \in 0 .. Len(b) - i - Header :
                                  n = Base * b[i + 3] + b[i + 4]
                                  /\ Whole(b)[i + Header + n]
<1> DEFINE L == Len(b)
           Good(f, j) == \/ j = L
                         \/ \E n \in 0 .. L - j - Header :
                                n = Base * b[j + 3] + b[j + 4] /\ f[j + Header + n]
           Is(f) == f = [j \in 0 .. L |-> Good(f, j)]
           g == [j \in 0 .. L |-> \E S \in SUBSET (0 .. L) : j \in S /\ Closed(b, S)]
<1>1. L \in Nat
  BY LenProperties
<1>2. ASSUME NEW j \in 0 .. L PROVE g[j] = Good(g, j)
  <2>1. ASSUME g[j] PROVE Good(g, j)
    <3>1. PICK S \in SUBSET (0 .. L) : j \in S /\ Closed(b, S)
      BY <2>1
    <3>2. CASE j = L
      BY <3>2
    <3>3. CASE j # L
      <4>1. PICK n \in 0 .. L - j - Header :
                n = Base * b[j + 3] + b[j + 4] /\ j + Header + n \in S
        BY <3>1, <3>3 DEF Closed
      <4>2. j + Header + n \in 0 .. L
        BY <3>1, <4>1
      <4>3. g[j + Header + n]
        BY <3>1, <4>1, <4>2
      <4>. QED  BY <4>1, <4>3
    <3>. QED  BY <3>2, <3>3
  <2>2. ASSUME Good(g, j) PROVE g[j]
    <3>1. CASE j = L
      <4>1. {L} \in SUBSET (0 .. L) /\ Closed(b, {L})
        BY <1>1 DEF Closed
      <4>. QED  BY <3>1, <4>1
    <3>2. CASE j # L
      <4>1. PICK n \in 0 .. L - j - Header :
                n = Base * b[j + 3] + b[j + 4] /\ g[j + Header + n]
        BY <2>2, <3>2
      <4>2. j + Header + n \in 0 .. L
        BY <1>1, <4>1 DEF Header
      <4>3. PICK S \in SUBSET (0 .. L) : j + Header + n \in S /\ Closed(b, S)
        BY <4>1, <4>2
      <4>4. Closed(b, S \cup {j})
        BY <4>1, <4>3 DEF Closed
      <4>5. S \cup {j} \in SUBSET (0 .. L)
        BY <4>3
      <4>. QED  BY <4>4, <4>5
    <3>. QED  BY <3>1, <3>2
  <2>. QED  BY <2>1, <2>2
<1>3. Is(g)
  <2> HIDE DEF L
  <2>. QED  BY <1>2
<1>4. Is(Whole(b))
  <2>1. Whole(b) = CHOOSE f : Is(f)
    BY DEF Whole
  <2> HIDE DEF Is, g
  <2>. QED  BY <1>3, <2>1, Zenon
<1>. QED  BY <1>4


\* The header of a buffer of bytes at an offset where one fits.
LEMMA HeaderFacts ==
    ASSUME NEW b \in Seq(Byte8), NEW i \in Nat, i + Header <= Len(b)
    PROVE  /\ Ntohs(b, i + 2) = Base * b[i + 3] + b[i + 4]
           /\ Ntohs(b, i + 2) \in 0 .. Width - 1
           /\ Host(b, i) \in 0 .. Width - 1
<1>1. Len(b) \in Nat /\ \A j \in 1 .. Len(b) : b[j] \in Byte8
  BY LenProperties, ElementOfSeq
<1>2. /\ i + 1 \in 1 .. Len(b) /\ i + 2 \in 1 .. Len(b)
      /\ i + 3 \in 1 .. Len(b) /\ i + 4 \in 1 .. Len(b)
      /\ i < Len(b) /\ i + 1 < Len(b) /\ i + 2 < Len(b) /\ i + 3 < Len(b)
      /\ (i + 2) + 1 = i + 3 /\ (i + 3) + 1 = i + 4 /\ (i + 1) + 1 = i + 2
  BY <1>1 DEF Header
<1>3. Ntohs(b, i + 2) = Base * b[i + 3] + b[i + 4]
  BY <1>2 DEF Ntohs, Byte
<1>4. Host(b, i) = b[i + 1] + Base * b[i + 2]
  BY <1>2 DEF Host, Byte
<1>5. b[i + 1] + Base * b[i + 2] = Base * b[i + 2] + b[i + 1]
  BY <1>1, <1>2, WidthFacts DEF Byte8
<1>. QED  BY <1>1, <1>2, <1>3, <1>4, <1>5, TwoBytes

\* ntohs in place: two bytes, and two bytes, change places.
LEMMA SwappedFacts ==
    ASSUME NEW b \in Seq(Byte8), NEW i \in Nat, i + Header <= Len(b)
    PROVE  /\ Swapped(b, i) \in Seq(Byte8) /\ Len(Swapped(b, i)) = Len(b)
           /\ Host(Swapped(b, i), i + 2) = Ntohs(b, i + 2)
           /\ Host(Swapped(b, i), i) = Ntohs(b, i)
           /\ \A j \in i + Header + 1 .. Len(b) : Swapped(b, i)[j] = b[j]
<1> DEFINE c == Swapped(b, i)
           L == Len(b)
<1>1. L \in Nat /\ b \in [1 .. L -> Byte8]
  BY LenProperties
<1>2. /\ i + 1 \in 1 .. L /\ i + 2 \in 1 .. L /\ i + 3 \in 1 .. L /\ i + 4 \in 1 .. L
      /\ i < L /\ i + 1 < L /\ i + 2 < L /\ i + 3 < L
      /\ (i + 2) + 1 = i + 3 /\ (i + 3) + 1 = i + 4 /\ (i + 1) + 1 = i + 2
  BY <1>1 DEF Header
<1>3. c = [b EXCEPT ![i + 1] = b[i + 2], ![i + 2] = b[i + 1],
                    ![i + 3] = b[i + 4], ![i + 4] = b[i + 3]]
  BY DEF Swapped
<1> HIDE DEF c, L
<1>4. c \in [1 .. L -> Byte8]
  BY <1>1, <1>2, <1>3
<1>5. c \in Seq(Byte8) /\ Len(c) = L
  <2>1. c \in Seq(Byte8)
    BY <1>1, <1>4, SeqDef
  <2>. QED  BY <1>1, <1>4, <2>1, LenProperties
<1>6. c[i + 1] = b[i + 2] /\ c[i + 2] = b[i + 1] /\ c[i + 3] = b[i + 4] /\ c[i + 4] = b[i + 3]
  BY <1>1, <1>2, <1>3
<1>7. \A j \in i + Header + 1 .. L : c[j] = b[j]
  BY <1>1, <1>3 DEF Header
<1>8. Host(c, i + 2) = b[i + 4] + Base * b[i + 3] /\ Host(c, i) = b[i + 2] + Base * b[i + 1]
  BY <1>2, <1>5, <1>6 DEF Host, Byte
<1>9. Ntohs(b, i + 2) = Base * b[i + 3] + b[i + 4] /\ Ntohs(b, i) = Base * b[i + 1] + b[i + 2]
  BY <1>2 DEF Ntohs, Byte, L
<1>10. /\ b[i + 4] + Base * b[i + 3] = Base * b[i + 3] + b[i + 4]
       /\ b[i + 2] + Base * b[i + 1] = Base * b[i + 1] + b[i + 2]
  BY <1>1, <1>2, WidthFacts DEF Byte8
<1>. QED  BY <1>5, <1>7, <1>8, <1>9, <1>10 DEF c, L

LEMMA BoundedIsSeq ==
    ASSUME NEW S, NEW m \in Nat, NEW b \in BoundedSeq(S, m)
    PROVE  b \in Seq(S) /\ Len(b) \in 0 .. m /\ DOMAIN b = 1 .. Len(b)
<1>1. PICK k \in 0 .. m : b \in [1 .. k -> S]
  BY DEF BoundedSeq, SeqOf
<1>2. k \in Nat
  BY <1>1
<1>3. b \in Seq(S)
  BY <1>1, <1>2, SeqDef
<1>4. Len(b) = k
  BY <1>1, <1>2, <1>3, LenProperties
<1>. QED  BY <1>1, <1>3, <1>4
-----------------------------------------------------------------------------
\* The length of one sequence after another.
LEMMA Concat ==
    ASSUME NEW S, NEW s \in Seq(S), NEW t \in Seq(S)
    PROVE  s \o t \in Seq(S) /\ Len(s \o t) = Len(s) + Len(t)
  BY ConcatProperties

\* The bytes of a command are its header, two by two, and its value.
LEMMA CodeLength ==
    ASSUME NEW S, NEW x \in Seq(S), NEW y \in Seq(S), NEW v \in Seq(S),
           Len(x) = 2, Len(y) = 2
    PROVE  x \o y \o v \in Seq(S) /\ Len(x \o y \o v) = Header + Len(v)
<1>1. PICK h : h = x \o y
  OBVIOUS
<1>2. h \in Seq(S) /\ Len(h) = Len(x) + Len(y)
  BY <1>1, Concat
<1>3. Len(h) = 4
  BY <1>2
<1>4. h \o v \in Seq(S) /\ Len(h \o v) = Len(h) + Len(v)
  BY <1>2, Concat
<1>. QED  BY <1>1, <1>3, <1>4 DEF Header

\* The first bytes of a sequence.
LEMMA Prefix ==
    ASSUME NEW S, NEW s \in Seq(S), NEW n \in 0 .. Len(s)
    PROVE  SubSeq(s, 1, n) \in Seq(S) /\ Len(SubSeq(s, 1, n)) = n
<1>1. Len(s) \in Nat
  BY LenProperties
<1>2. \A i \in 1 .. n : s[i] \in S
  BY <1>1, ElementOfSeq
<1>. QED  BY <1>1, <1>2, SubSeqProperties

LEMMA InitIInv == Init => IInv
<1> SUFFICES ASSUME Init PROVE IInv
  OBVIOUS
<1>1. Width \in Nat /\ Width >= 9
  BY WidthFacts
<1>2. TypeOK
  <2>1. /\ pc = "fill" /\ buf = <<>> /\ length = 0 /\ overrun = FALSE
        /\ p = 0 /\ tmp_len = 0 /\ status = "none" /\ past = FALSE
    BY DEF Init, NoBatch
  <2>2. 0 \in 0 .. Width - 1 /\ 0 \in Nat /\ <<>> \in Seq(0 .. Base - 1)
    BY <1>1
  <2>. QED  BY <2>1, <2>2 DEF TypeOK
<1>3. Lengths
  BY <1>1 DEF Init, NoBatch, Lengths
<1>. QED  BY <1>2, <1>3
  DEF Init, IInv, Filling, Validating, Walking, AcceptsExactly, InBounds

\* atlas_cmd_batch_add: the block is as long as the length says, even when the
\* length has wrapped.
LEMMA AddStep ==
    ASSUME IInv, NEW c \in Commands, Add(c)
    PROVE  IInv'
<1> DEFINE all == buf \o Block(c)
           len == NewLength(Len(c.value))
<1>1. /\ buf \in Seq(Byte8) /\ length = Len(buf) /\ pc = "fill" /\ InBounds
      /\ raw \in Seq(Byte8) /\ Len(raw) < Width /\ status = "none" /\ visited = <<>>
  BY DEF IInv, TypeOK, Lengths, Filling, Add, Byte8
<1>2. c.type \in 0 .. Width - 1 /\ c.value \in BoundedSeq(Bytes, MaxValue)
  BY CommandBatchAssumption DEF Commands
<1>3. c.value \in Seq(Byte8) /\ Len(c.value) \in 0 .. Width - 1
  <2>1. c.value \in Seq(Bytes) /\ Len(c.value) \in 0 .. MaxValue
    BY <1>2, BoundedIsSeq, CommandBatchAssumption, WidthFacts
  <2>2. Bytes \subseteq Byte8
    BY CommandBatchAssumption DEF Byte8
  <2>3. c.value \in Seq(Byte8)
    BY <2>1, <2>2, SeqMonotonic
  <2>. QED  BY <2>1, <2>3, CommandBatchAssumption, WidthFacts
<1>4. /\ Htons(c.type) \in Seq(Byte8) /\ Len(Htons(c.type)) = 2
      /\ Htons(Len(c.value)) \in Seq(Byte8) /\ Len(Htons(Len(c.value))) = 2
  BY <1>2, <1>3, HtonsFacts
<1>5. all \in Seq(Byte8) /\ Len(all) = Len(buf) + Header + Len(c.value)
  <2>1. Block(c) = Htons(c.type) \o Htons(Len(c.value)) \o c.value
    BY DEF Block
  <2>2. Block(c) \in Seq(Byte8) /\ Len(Block(c)) = Header + Len(c.value)
    <3>1. PICK x, y, v : x = Htons(c.type) /\ y = Htons(Len(c.value)) /\ v = c.value
      OBVIOUS
    <3>2. /\ x \in Seq(Byte8) /\ y \in Seq(Byte8) /\ v \in Seq(Byte8)
          /\ Len(x) = 2 /\ Len(y) = 2
      BY <1>3, <1>4, <3>1
    <3>3. x \o y \o v \in Seq(Byte8) /\ Len(x \o y \o v) = Header + Len(v)
      BY <3>2, CodeLength
    <3>. QED  BY <2>1, <3>1, <3>3
  <2>3. all \in Seq(Byte8) /\ Len(all) = Len(buf) + Len(Block(c))
    BY <1>1, <2>2, Concat
  <2>4. Len(buf) \in Nat /\ Len(c.value) \in Nat
    BY <1>1, <1>3, LenProperties
  <2>5. PICK k, l, m : k = Len(buf) /\ l = Len(c.value) /\ m = Len(Block(c))
    OBVIOUS
  <2>6. k + m = k + Header + l
    <3>1. m = Header + l
      BY <2>2, <2>5, Zenon
    <3>2. k \in Nat /\ l \in Nat
      BY <2>4, <2>5, Zenon
    <3>. QED  BY <3>1, <3>2 DEF Header
  <2> HIDE DEF all
  <2>. QED  BY <2>3, <2>5, <2>6
<1>6. /\ len = Len(all) % Width
      /\ buf' = SubSeq(all, 1, len) /\ length' = len /\ overrun' = (Len(all) > len)
      /\ UNCHANGED <<pc, raw, p, tmp_len, status, visited, past>>
  BY <1>1, <1>5 DEF Add, NewLength
<1> HIDE DEF all, len
<1>7. len \in 0 .. Width - 1 /\ len <= Len(all) /\ Len(all) \in Nat
  BY <1>5, <1>6, WidthFacts, LenProperties
<1>8. buf' \in Seq(Byte8) /\ Len(buf') = len
  BY <1>5, <1>6, <1>7, Prefix
<1>9. TypeOK'
  BY <1>6, <1>7, <1>8 DEF IInv, TypeOK, Byte8
<1>. QED  BY <1>1, <1>6, <1>8, <1>9
  DEF IInv, Lengths, Filling, Validating, Walking, AcceptsExactly, InBounds, Byte8

\* atlas_cmd_batch_set_raw is called.
LEMMA SetRawStep ==
    ASSUME IInv, NEW bytes \in Seq(Byte8), Len(bytes) < Width, SetRaw(bytes)
    PROVE  IInv'
<1>1. /\ pc = "fill" /\ raw' = bytes /\ p' = 0 /\ tmp_len' = Len(bytes)
      /\ buf' = <<>> /\ length' = 0 /\ UNCHANGED <<added, overrun, visited, past>>
      /\ bytes = <<>> => pc' = "end" /\ status' = "INVALID_INPUT"
      /\ bytes # <<>> => pc' = "validate" /\ status' = status
      /\ status = "none" /\ visited = <<>>
  BY DEF SetRaw, IInv, Filling
<1>2. Len(bytes) \in 0 .. Width - 1
  BY LenProperties, WidthFacts
<1>3. TypeOK'
  BY <1>1, <1>2, WidthFacts DEF IInv, TypeOK
<1>4. Lengths'
  BY <1>1 DEF Lengths, Byte8
<1>5. Validating'
  BY <1>1, <1>2 DEF Validating
<1>6. AcceptsExactly'
  BY <1>1 DEF AcceptsExactly, WellFormed
<1>. QED  BY <1>1, <1>3, <1>4, <1>5, <1>6 DEF IInv, Filling, Walking, InBounds

LEMMA ReceiveStep ==
    ASSUME IInv, SendBatch \/ Receive PROVE IInv'
<1>1. CASE SendBatch
  <2>1. /\ buf \in Seq(Byte8) /\ length = Len(buf) /\ length \in 0 .. Width - 1
    BY DEF IInv, TypeOK, Lengths, Byte8
  <2>2. /\ SubSeq(buf, 1, length) \in Seq(Byte8)
        /\ Len(SubSeq(buf, 1, length)) < Width
    BY <2>1, Prefix, LenProperties, WidthFacts
  <2>. QED  BY <1>1, <2>2, SetRawStep DEF SendBatch
<1>2. CASE Receive
  <2>1. PICK bytes \in BoundedSeq(Bytes, MaxRaw) : SetRaw(bytes)
    BY <1>2 DEF Receive
  <2>2. bytes \in Seq(Bytes) /\ Len(bytes) \in 0 .. MaxRaw
    BY BoundedIsSeq, CommandBatchAssumption, WidthFacts
  <2>3. bytes \in Seq(Byte8) /\ Len(bytes) < Width
    <3>1. Bytes \subseteq Byte8
      BY CommandBatchAssumption DEF Byte8
    <3>2. bytes \in Seq(Byte8)
      BY <2>2, <3>1, SeqMonotonic
    <3>. QED  BY <2>2, <3>2, CommandBatchAssumption, WidthFacts
  <2>. QED  BY <2>1, <2>3, SetRawStep
<1>. QED  BY <1>1, <1>2


\* One round of the validation.  The bytes that are left are those from p on,
\* so a command fits exactly if Whole can go on from p.
LEMMA RoundFacts ==
    ASSUME IInv, pc = "validate", tmp_len > 0
    PROVE  /\ HeaderFits => p + Header <= Len(raw)
           /\ HeaderFits /\ ValueFits =>
                  /\ p + Advance \in 0 .. Len(raw) /\ Advance \in Nat
                  /\ (tmp_len - Advance) % Width = tmp_len - Advance
                  /\ (Whole(raw)[p] <=> Whole(raw)[p + Advance])
           /\ ~(HeaderFits /\ ValueFits) => ~Whole(raw)[p]
<1> DEFINE L == Len(raw)
<1>1. /\ raw \in Seq(Byte8) /\ L \in Nat /\ L < Width /\ p \in Nat
      /\ tmp_len \in 0 .. Width - 1 /\ p + tmp_len = L
  BY LenProperties DEF IInv, TypeOK, Lengths, Validating, Byte8
<1>2. p \in 0 .. L /\ p # L
  BY <1>1
<1>3. HeaderFits <=> p + Header <= L
  BY <1>1 DEF HeaderFits, Header
<1>4. Whole(raw)[p] <=> \E n \in 0 .. L - p - Header : /\ n = Base * raw[p + 3] + raw[p + 4]
                                                         /\ Whole(raw)[p + Header + n]
  BY <1>1, <1>2, WholeFacts
<1>5. CASE p + Header <= L
  <2>1. CmdLen = Base * raw[p + 3] + raw[p + 4] /\ CmdLen \in 0 .. Width - 1
    BY <1>1, <1>5, HeaderFacts DEF CmdLen
  <2>2. ValueFits <=> CmdLen \in 0 .. L - p - Header
    BY <1>1, <1>5, <2>1, WidthFacts DEF ValueFits, Header
  <2>3. CASE ValueFits
    <3>1. Whole(raw)[p] <=> Whole(raw)[p + Header + CmdLen]
      BY <1>4, <2>1, <2>2, <2>3
    <3>2. p + Header + CmdLen = p + Advance
      BY <1>1, <2>1, WidthFacts DEF Advance, Header
    <3>3. p + Advance \in 0 .. L /\ Advance \in Nat /\ tmp_len - Advance \in 0 .. Width - 1
      <4>1. CmdLen \in 0 .. Width - 1 /\ CmdLen \in 0 .. L - p - Header
        BY <2>1, <2>2, <2>3
      <4> HIDE DEF L
      <4>. QED  BY <1>1, <4>1, WidthFacts DEF Advance, Header
    <3>4. (tmp_len - Advance) % Width = tmp_len - Advance
      BY <3>3, WidthFacts
    <3>5. Whole(raw)[p] <=> Whole(raw)[p + Advance]
      BY <3>1, <3>2, Zenon
    <3>. QED  BY <1>3, <1>5, <2>3, <3>3, <3>4, <3>5, Zenon
  <2>4. CASE ~ValueFits
    <3>1. ~Whole(raw)[p]
      BY <1>4, <2>1, <2>2, <2>4
    <3>. QED  BY <1>5, <2>4, <3>1
  <2>. QED  BY <2>3, <2>4
<1>6. CASE ~(p + Header <= L)
  <2>1. 0 .. L - p - Header = {}
    BY <1>1, <1>6 DEF Header
  <2>2. ~Whole(raw)[p]
    BY <1>4, <2>1
  <2>. QED  BY <1>3, <1>6, <2>2
<1>. QED  BY <1>5, <1>6

LEMMA ValidateStep == IInv /\ Validate => IInv'
<1> SUFFICES ASSUME IInv, Validate PROVE IInv'
  OBVIOUS
<1>1. /\ pc = "validate" /\ tmp_len > 0 /\ status = "none" /\ visited = <<>>
      /\ raw # <<>> /\ p + tmp_len = Len(raw) /\ (Whole(raw)[p] <=> Whole(raw)[0])
      /\ past = FALSE
      /\ UNCHANGED <<buf, length, added, overrun, raw, visited>>
  <2>1. past = FALSE
    BY DEF IInv, InBounds, TypeOK
  <2>. QED  BY <2>1 DEF Validate, IInv, Validating
<1>2. /\ raw \in Seq(Byte8) /\ Len(raw) \in Nat /\ Len(raw) < Width /\ p \in Nat
      /\ tmp_len \in 0 .. Width - 1
  BY LenProperties DEF IInv, TypeOK, Lengths, Byte8
<1>3. past' = FALSE
  <2>1. ~(HeaderFits /\ p + Header > Len(raw))
    BY <1>1, <1>2, RoundFacts DEF Header
  <2>. QED  BY <1>1, <2>1 DEF Validate
<1>4. CASE HeaderFits /\ ValueFits
  <2>1. /\ p' = p + Advance /\ tmp_len' = tmp_len - Advance /\ UNCHANGED <<pc, status>>
        /\ p + Advance \in 0 .. Len(raw) /\ Advance \in Nat
        /\ (Whole(raw)[p] <=> Whole(raw)[p + Advance])
    BY <1>1, <1>4, RoundFacts DEF Validate
  <2>2. p' \in Nat /\ tmp_len' \in 0 .. Width - 1 /\ p' + tmp_len' = Len(raw)
    <3>1. PICK a, l : a = Advance /\ l = Len(raw)
      OBVIOUS
    <3>2. /\ p' = p + a /\ tmp_len' = tmp_len - a /\ p + a \in 0 .. l /\ a \in Nat
          /\ p + tmp_len = l /\ p \in Nat /\ tmp_len \in 0 .. Width - 1
      BY <1>1, <1>2, <2>1, <3>1
    <3>3. p' \in Nat /\ tmp_len' \in 0 .. Width - 1 /\ p' + tmp_len' = l
      BY <3>2, WidthFacts
    <3>. QED  BY <3>1, <3>3
  <2>3. TypeOK'
    BY <1>1, <1>3, <2>1, <2>2 DEF IInv, TypeOK
  <2>4. Validating'
    BY <1>1, <2>1, <2>2 DEF Validating
  <2>. QED  BY <1>1, <1>3, <2>1, <2>3, <2>4
    DEF IInv, Lengths, Filling, Walking, AcceptsExactly, InBounds
<1>5. CASE ~(HeaderFits /\ ValueFits)
  <2>1. pc' = "end" /\ status' = "CORRUPTED_COMMAND" /\ UNCHANGED <<p, tmp_len>>
    BY <1>5 DEF Validate
  <2>2. ~Whole(raw)[0]
    BY <1>1, <1>5, RoundFacts
  <2>3. TypeOK'
    BY <1>1, <1>3, <2>1 DEF IInv, TypeOK
  <2>4. AcceptsExactly'
    BY <1>1, <2>1, <2>2 DEF AcceptsExactly, WellFormed
  <2>. QED  BY <1>1, <1>3, <2>1, <2>3, <2>4
    DEF IInv, Lengths, Filling, Validating, Walking, InBounds
<1>. QED  BY <1>4, <1>5

LEMMA AcceptStep == IInv /\ Accept => IInv'
<1> SUFFICES ASSUME IInv, Accept PROVE IInv'
  OBVIOUS
<1>1. /\ pc = "validate" /\ tmp_len = 0 /\ visited = <<>>
      /\ raw # <<>> /\ p + tmp_len = Len(raw) /\ (Whole(raw)[p] <=> Whole(raw)[0])
      /\ pc' = "walk" /\ status' = "OK" /\ buf' = raw /\ length' = Len(raw)
      /\ UNCHANGED <<added, overrun, raw, p, tmp_len, visited, past>>
  BY DEF Accept, IInv, Validating
<1>2. /\ raw \in Seq(Byte8) /\ Len(raw) \in Nat /\ Len(raw) < Width /\ p \in Nat
  BY LenProperties DEF IInv, TypeOK, Lengths, Byte8
<1>3. Whole(raw)[0]
  <2>1. p = Len(raw) /\ p \in 0 .. Len(raw)
    BY <1>1, <1>2
  <2>2. Whole(raw)[p]
    BY <1>2, <2>1, WholeFacts
  <2>. QED  BY <1>1, <2>2
<1>4. TypeOK'
  BY <1>1, <1>2, WidthFacts DEF IInv, TypeOK, Byte8
<1>5. WellFormed(raw)
  BY <1>1, <1>3 DEF WellFormed
<1>6. Walking' /\ AcceptsExactly'
  BY <1>1, <1>5 DEF Walking, AcceptsExactly
<1>. QED  BY <1>1, <1>4, <1>6 DEF IInv, Lengths, Filling, Validating, InBounds


\* atlas_cmd_batch_get hands out a command: from an offset with whole commands
\* only the header and the value are inside the buffer, and the header is the
\* one that came, because only earlier ones have been converted.
LEMMA HandOutStep ==
    ASSUME IInv, pc = "walk", NEW i \in 0 .. Len(raw), i # Len(raw), Whole(raw)[i],
           \A j \in i + 1 .. Len(raw) : buf[j] = raw[j], HandOut(i)
    PROVE  IInv'
<1> DEFINE L == Len(raw)
           b == Swapped(buf, i)
           n == Host(b, i + 2)
<1>1. /\ raw \in Seq(Byte8) /\ L \in Nat /\ L < Width
      /\ buf \in Seq(Byte8) /\ Len(buf) = L /\ length = L
      /\ status = "OK" /\ WellFormed(raw) /\ past = FALSE
  <2>1. past = FALSE
    BY DEF IInv, InBounds, TypeOK
  <2>. QED  BY <2>1, LenProperties DEF IInv, TypeOK, Lengths, Walking, Byte8
<1>2. PICK m \in 0 .. L - i - Header :
          m = Base * raw[i + 3] + raw[i + 4] /\ Whole(raw)[i + Header + m]
  BY <1>1, WholeFacts
<1>3. i \in Nat /\ i + Header <= L /\ i + Header + m <= L /\ m \in Nat
  BY <1>1, <1>2 DEF Header
<1>4. m = Ntohs(raw, i + 2)
  BY <1>1, <1>2, <1>3, HeaderFacts
<1>5. Ntohs(buf, i + 2) = Ntohs(raw, i + 2)
  <2>1. i + 3 \in i + 1 .. L /\ i + 4 \in i + 1 .. L
    BY <1>1, <1>3 DEF Header
  <2>2. buf[i + 3] = raw[i + 3] /\ buf[i + 4] = raw[i + 4]
    BY <2>1
  <2>. QED  BY <1>1, <1>3, <2>2, HeaderFacts
<1>6. /\ b \in Seq(Byte8) /\ Len(b) = L /\ n = Ntohs(buf, i + 2)
      /\ \A j \in i + Header + 1 .. L : b[j] = buf[j]
  BY <1>1, <1>3, SwappedFacts
<1>7. n = m
  BY <1>4, <1>5, <1>6
<1>8. /\ p' = i /\ buf' = b /\ Len(visited') = Len(visited) + 1
      /\ past' = (past \/ i + Header + n > Len(buf))
      /\ UNCHANGED <<pc, length, added, overrun, raw, tmp_len, status>>
      /\ visited' # <<>>
  <2>1. i + Header <= Len(buf)
    BY <1>1, <1>3
  <2>. QED  BY <2>1 DEF HandOut
<1> HIDE DEF b, n
<1>9. past' = FALSE
  <2>1. PICK k : k = i + Header + n
    OBVIOUS
  <2>2. k <= L /\ k \in Nat
    BY <1>3, <1>7, <2>1 DEF Header
  <2>3. ~(k > Len(buf))
    BY <1>1, <2>2
  <2>. QED  BY <1>1, <1>8, <2>1, <2>3
<1>10. TypeOK'
  BY <1>1, <1>3, <1>6, <1>8, <1>9 DEF IInv, TypeOK, Byte8
<1>11. Lengths'
  BY <1>1, <1>6, <1>8 DEF Lengths, Byte8
<1>12. Walking'
  <2>1. NextCmd' = i + Header + m
    BY <1>7, <1>8 DEF NextCmd, n
  <2>2. Host(buf', p' + 2) = Ntohs(raw', p' + 2)
    BY <1>4, <1>7, <1>8 DEF n
  <2>3. \A j \in i + Header + 1 .. L : b[j] = raw[j]
    BY <1>1, <1>3, <1>6 DEF Header
  <2>. QED  BY <1>1, <1>2, <1>3, <1>6, <1>8, <2>1, <2>2, <2>3 DEF Walking
<1>13. AcceptsExactly'
  BY <1>1, <1>8 DEF AcceptsExactly
<1>. QED  BY <1>8, <1>9, <1>10, <1>11, <1>12, <1>13 DEF IInv, Filling, Validating, InBounds

LEMMA WalkStep ==
    ASSUME IInv, GetFirst \/ GetNext \/ GetNull PROVE IInv'
<1>1. /\ pc = "walk" /\ raw \in Seq(Byte8) /\ Len(raw) \in Nat /\ length = Len(raw)
      /\ raw # <<>> /\ Whole(raw)[0] /\ p \in Nat /\ status = "OK"
  BY LenProperties
  DEF IInv, TypeOK, Lengths, Walking, WellFormed, GetFirst, GetNext, GetNull, Byte8
<1>2. CASE GetFirst
  <2>1. buf = raw /\ HandOut(0)
    BY <1>1, <1>2 DEF IInv, Walking, GetFirst
  <2>2. 0 \in 0 .. Len(raw) /\ 0 # Len(raw)
    BY <1>1, EmptySeq
  <2>. QED  BY <1>1, <2>1, <2>2, HandOutStep
<1>3. CASE GetNext
  <2> DEFINE i == NextCmd
  <2>1. /\ i <= Len(raw) /\ ~(i >= length) /\ HandOut(i) /\ Whole(raw)[i]
        /\ p + Header <= Len(raw) /\ Host(buf, p + 2) = Ntohs(raw, p + 2)
        /\ \A j \in p + Header + 1 .. Len(raw) : buf[j] = raw[j]
    BY <1>1, <1>3 DEF IInv, Walking, GetNext, AtEnd
  <2>2. Ntohs(raw, p + 2) \in Nat
    BY <1>1, <2>1, HeaderFacts
  <2>3. i = p + Header + Ntohs(raw, p + 2)
    BY <2>1 DEF NextCmd
  <2> HIDE DEF i
  <2>4. i \in 0 .. Len(raw) /\ i # Len(raw) /\ i >= p + Header
    BY <1>1, <2>1, <2>2, <2>3 DEF Header
  <2>5. \A j \in i + 1 .. Len(raw) : buf[j] = raw[j]
    BY <1>1, <2>1, <2>4 DEF Header
  <2>. QED  BY <1>1, <2>1, <2>4, <2>5, HandOutStep
<1>4. CASE GetNull
  <2>1. pc' = "end" /\ UNCHANGED <<buf, length, added, overrun, raw, p, tmp_len, status,
                                   visited, past>>
    BY <1>4 DEF GetNull
  <2>2. TypeOK'
    BY <2>1 DEF IInv, TypeOK
  <2>3. AcceptsExactly'
    BY <1>1, <2>1 DEF AcceptsExactly, WellFormed
  <2>. QED  BY <2>1, <2>2, <2>3 DEF IInv, Lengths, Filling, Validating, Walking, InBounds
<1>. QED  BY <1>2, <1>3, <1>4

LEMMA FreeStep == Free => IInv'
<1> SUFFICES ASSUME Free PROVE IInv'
  OBVIOUS
<1>1. Init'
  BY DEF Free, Init, NoBatch
<1>2. Init' => IInv'
  BY InitIInv, PTL
<1>. QED  BY <1>1, <1>2

LEMMA NextIInv == IInv /\ [Next]_vars => IInv'
<1> SUFFICES ASSUME IInv, [Next]_vars PROVE IInv'
  OBVIOUS
<1>1. CASE Fill
  BY <1>1, AddStep DEF Fill
<1>2. CASE SendBatch \/ Receive
  BY <1>2, ReceiveStep
<1>3. CASE Parse
  BY <1>3, ValidateStep, AcceptStep, WalkStep DEF Parse
<1>4. CASE Free
  BY <1>4, FreeStep
<1>5. CASE UNCHANGED vars
  <2>1. UNCHANGED <<pc, buf, length, added, overrun, raw, p, tmp_len, status, visited, past>>
    BY <1>5 DEF vars
  <2>2. TypeOK' /\ Lengths' /\ Filling' /\ Validating'
    BY <2>1 DEF IInv, TypeOK, Lengths, Filling, Validating
  <2>3. Walking' /\ AcceptsExactly' /\ InBounds'
    BY <2>1 DEF IInv, Walking, NextCmd, AcceptsExactly, InBounds
  <2>. QED  BY <2>2, <2>3 DEF IInv
<1>. QED  BY <1>1, <1>2, <1>3, <1>4, <1>5 DEF Next

\* The codec, for all buffers and batches.
THEOREM CodecInductive == Spec => []IInv
<1>. QED  BY InitIInv, NextIInv, PTL DEF Spec

\* atlas_cmd_batch_set_raw accepts exactly the sequences of whole commands.
THEOREM AlwaysAcceptsExactly == Spec => []AcceptsExactly
<1>1. IInv => AcceptsExactly
  BY DEF IInv
<1>. QED  BY <1>1, CodecInductive, PTL

\* Neither atlas_cmd_batch_set_raw nor atlas_cmd_batch_get reads past the buffer.
THEOREM AlwaysInBounds == Spec => []InBounds
<1>1. IInv => InBounds
  BY DEF IInv
<1>. QED  BY <1>1, CodecInductive, PTL


-----------------------------------------------------------------------------
\* The bytes of a command.
LEMMA CodeFacts ==
    ASSUME NEW c \in AnyCommand
    PROVE  /\ Code(c) \in Seq(Byte8) /\ Len(Code(c)) = Header + Len(c.value)
           /\ Len(c.value) \in 0 .. Width - 1 /\ c.value \in Seq(Byte8)
           /\ c.type = Base * Code(c)[1] + Code(c)[2]
           /\ Len(c.value) = Base * Code(c)[3] + Code(c)[4]
           /\ \A j \in 1 .. Len(c.value) : Code(c)[Header + j] = c.value[j]
<1>1. PICK x, y, v : x = Htons(c.type) /\ y = Htons(Len(c.value)) /\ v = c.value
  OBVIOUS
<1>2. /\ v \in Seq(Byte8) /\ Len(v) \in 0 .. Width - 1 /\ c.type \in 0 .. Width - 1
  BY <1>1, LenProperties, WidthFacts DEF AnyCommand, Byte8
<1>3. /\ x \in Seq(Byte8) /\ y \in Seq(Byte8) /\ Len(x) = 2 /\ Len(y) = 2
      /\ c.type = Base * x[1] + x[2] /\ Len(v) = Base * y[1] + y[2]
  BY <1>1, <1>2, HtonsFacts
<1>4. PICK h, d : h = x \o y /\ d = h \o v
  OBVIOUS
<1>5. /\ h \in Seq(Byte8) /\ Len(h) = Len(x) + Len(y)
      /\ \A i \in 1 .. Len(x) + Len(y) : h[i] = IF i <= Len(x) THEN x[i] ELSE y[i - Len(x)]
  BY <1>3, <1>4, ConcatProperties
<1>6. Len(h) = 4 /\ h[1] = x[1] /\ h[2] = x[2] /\ h[3] = y[1] /\ h[4] = y[2]
  BY <1>3, <1>5
<1>7. /\ d \in Seq(Byte8) /\ Len(d) = Len(h) + Len(v)
      /\ \A i \in 1 .. Len(h) + Len(v) : d[i] = IF i <= Len(h) THEN h[i] ELSE v[i - Len(h)]
  BY <1>2, <1>4, <1>5, ConcatProperties
<1>8. PICK n : n = Len(v) /\ n \in Nat
  BY <1>2, WidthFacts
<1>9. /\ Len(d) = 4 + n /\ d[1] = h[1] /\ d[2] = h[2] /\ d[3] = h[3] /\ d[4] = h[4]
      /\ \A j \in 1 .. n : d[4 + j] = v[j]
  <2>1. \A i \in 1 .. 4 + n : d[i] = IF i <= 4 THEN h[i] ELSE v[i - 4]
    BY <1>6, <1>7, <1>8
  <2>2. 1 \in 1 .. 4 + n /\ 2 \in 1 .. 4 + n /\ 3 \in 1 .. 4 + n /\ 4 \in 1 .. 4 + n
    BY <1>8
  <2>3. \A j \in 1 .. n : d[4 + j] = v[j]
    BY <1>8, <2>1
  <2>. QED  BY <1>6, <1>7, <1>8, <2>1, <2>2, <2>3
<1>10. Code(c) = d
  BY <1>1, <1>4 DEF Code
<1>. QED  BY <1>1, <1>2, <1>3, <1>6, <1>7, <1>8, <1>9, <1>10 DEF Header

\* Encoded is defined by its recursion.
LEMMA EncodedFacts ==
    ASSUME NEW cs \in Seq(AnyCommand)
    PROVE  /\ Encoded(cs) \in [0 .. Len(cs) -> Seq(Byte8)]
           /\ Encoded(cs)[0] = <<>>
           /\ \A i \in 1 .. Len(cs) : Encoded(cs)[i] = Encoded(cs)[i - 1] \o Code(cs[i])
<1> DEFINE n == Len(cs)
           Is(e) == e = [i \in 0 .. n |-> IF i = 0 THEN <<>> ELSE e[i - 1] \o Code(cs[i])]
           F == [z \in (1 .. n) \X Seq(Byte8) |-> z[2] \o Code(cs[z[1]])]
<1>1. n \in Nat /\ <<>> \in Seq(Byte8)
  BY LenProperties
<1>2. ASSUME NEW i \in 1 .. n, NEW s \in Seq(Byte8) PROVE s \o Code(cs[i]) \in Seq(Byte8)
  <2>1. cs[i] \in AnyCommand
    BY <1>1, ElementOfSeq
  <2>2. Code(cs[i]) \in Seq(Byte8)
    BY <2>1, CodeFacts
  <2>. QED  BY <2>2, Concat
<1>3. StepsIn(Seq(Byte8), n, F)
  BY <1>2 DEF StepsIn
<1>4. PICK t : Follows(t, Seq(Byte8), <<>>, n, F)
  <2> HIDE DEF F, n
  <2>. QED  BY <1>1, <1>3, Recursion
<1>5. Is(t)
  <2>1. ASSUME NEW i \in 0 .. n
        PROVE  t[i] = IF i = 0 THEN <<>> ELSE t[i - 1] \o Code(cs[i])
    <3>1. CASE i = 0
      BY <1>4, <3>1 DEF Follows
    <3>2. CASE i # 0
      <4>1. i \in 1 .. n /\ i - 1 \in 0 .. n
        BY <1>1, <3>2
      <4>2. t[i - 1] \in Seq(Byte8)
        BY <1>4, <4>1 DEF Follows
      <4>3. F[<<i, t[i - 1]>>] = t[i - 1] \o Code(cs[i])
        BY <4>1, <4>2
      <4>. QED  BY <1>4, <3>2, <4>1, <4>3 DEF Follows
    <3>. QED  BY <3>1, <3>2
  <2>2. t = [i \in 0 .. n |-> t[i]]
    BY <1>4 DEF Follows
  <2> HIDE DEF n
  <2>. QED  BY <2>1, <2>2
<1>6. PICK u : u = Encoded(cs) /\ Is(u)
  <2>1. Encoded(cs) = CHOOSE e : Is(e)
    BY DEF Encoded
  <2> HIDE DEF Is
  <2>. QED  BY <1>5, <2>1, Zenon
<1>7. u[0] = <<>> /\ \A i \in 1 .. n : u[i] = u[i - 1] \o Code(cs[i])
  <2> HIDE DEF n
  <2>. QED  BY <1>1, <1>6
<1>8. ASSUME NEW i \in 1 .. n, u[i - 1] \in Seq(Byte8) PROVE u[i] \in Seq(Byte8)
  BY <1>2, <1>7, <1>8
<1>9. \A i \in 0 .. n : u[i] \in Seq(Byte8)
  <2> HIDE DEF n
  <2>. QED  BY <1>1, <1>7, <1>8, UpTo
<1>10. u = [i \in 0 .. n |-> u[i]]
  <2> HIDE DEF n
  <2>. QED  BY <1>6
<1>11. u \in [0 .. n -> Seq(Byte8)]
  BY <1>9, <1>10
<1>. QED  BY <1>6, <1>7, <1>11


\* The encoding of one more command.
LEMMA EncodeAppend ==
    ASSUME NEW cs \in Seq(AnyCommand), NEW c \in AnyCommand
    PROVE  /\ Encode(Append(cs, c)) = Encode(cs) \o Code(c)
           /\ Encode(cs) \in Seq(Byte8)
<1>1. PICK n, ds : n = Len(cs) /\ ds = Append(cs, c)
  OBVIOUS
<1>2. /\ n \in Nat /\ ds \in Seq(AnyCommand) /\ Len(ds) = n + 1
      /\ ds[n + 1] = c /\ \A i \in 1 .. n : ds[i] = cs[i]
  BY <1>1, AppendProperties, LenProperties
<1>3. PICK u, v : u = Encoded(cs) /\ v = Encoded(ds)
  OBVIOUS
<1>4. /\ u \in [0 .. n -> Seq(Byte8)] /\ u[0] = <<>>
      /\ \A i \in 1 .. n : u[i] = u[i - 1] \o Code(cs[i])
  BY <1>1, <1>3, EncodedFacts
<1>5. /\ v \in [0 .. n + 1 -> Seq(Byte8)] /\ v[0] = <<>>
      /\ \A i \in 1 .. n + 1 : v[i] = v[i - 1] \o Code(ds[i])
  BY <1>2, <1>3, EncodedFacts
<1> DEFINE t == [i \in 0 .. n |-> <<u[i], v[i]>>]
           X == {z \in Seq(Byte8) \X Seq(Byte8) : z[1] = z[2]}
<1>6. \A i \in 0 .. n : t[i] \in X <=> u[i] = v[i]
  BY <1>2, <1>4, <1>5
<1>7. t[0] \in X
  BY <1>2, <1>4, <1>5
<1>8. ASSUME NEW i \in 1 .. n, t[i - 1] \in X PROVE t[i] \in X
  <2>1. i - 1 \in 0 .. n /\ i \in 0 .. n /\ i \in 1 .. n + 1
    BY <1>2
  <2> HIDE DEF t, X
  <2>2. u[i - 1] = v[i - 1] /\ ds[i] = cs[i]
    BY <1>2, <1>6, <1>8, <2>1
  <2>3. u[i] = v[i]
    BY <1>4, <1>5, <2>1, <2>2
  <2>. QED  BY <1>6, <2>1, <2>3
<1>9. \A i \in 0 .. n : t[i] \in X
  <2> HIDE DEF t, X
  <2>. QED  BY <1>2, <1>7, <1>8, UpTo
<1>10. u[n] = v[n] /\ n \in 0 .. n
  <2> HIDE DEF t, X
  <2>. QED  BY <1>2, <1>6, <1>9
<1>11. v[n + 1] = v[n] \o Code(c)
  <2>1. n + 1 \in 1 .. n + 1 /\ (n + 1) - 1 = n
    BY <1>2
  <2>. QED  BY <1>2, <1>5, <2>1
<1>12. Encode(ds) = v[n + 1] /\ Encode(cs) = u[n]
  BY <1>1, <1>2, <1>3 DEF Encode
<1>. QED  BY <1>1, <1>4, <1>10, <1>11, <1>12

\* Sequence b begins with sequence a.
Begins(a, b) ==
    /\ a \in Seq(Byte8) /\ b \in Seq(Byte8) /\ Len(a) <= Len(b)
    /\ \A j \in 1 .. Len(a) : b[j] = a[j]

LEMMA BeginsFacts ==
    ASSUME NEW a, NEW b, Begins(a, b), NEW s \in Seq(Byte8)
    PROVE  Begins(a, b \o s)
<1>1. PICK d : d = b \o s
  OBVIOUS
<1>2. PICK k, l, m : k = Len(a) /\ l = Len(b) /\ m = Len(s)
  OBVIOUS
<1>3. /\ a \in Seq(Byte8) /\ b \in Seq(Byte8) /\ k <= l /\ k \in Nat /\ l \in Nat /\ m \in Nat
      /\ \A j \in 1 .. k : b[j] = a[j]
  BY <1>2, LenProperties DEF Begins
<1>4. /\ d \in Seq(Byte8) /\ Len(d) = l + m
      /\ \A i \in 1 .. l + m : d[i] = IF i <= l THEN b[i] ELSE s[i - l]
  BY <1>1, <1>2, <1>3, ConcatProperties
<1>5. k <= l + m /\ \A j \in 1 .. k : j \in 1 .. l + m /\ j <= l
  BY <1>3
<1>6. \A j \in 1 .. k : d[j] = a[j]
  BY <1>3, <1>4, <1>5
<1>. QED  BY <1>1, <1>2, <1>3, <1>4, <1>5, <1>6 DEF Begins

\* What the first k commands come to is the beginning of what all come to.
LEMMA EncodedBegins ==
    ASSUME NEW cs \in Seq(AnyCommand), NEW k \in 0 .. Len(cs)
    PROVE  Begins(Encoded(cs)[k], Encode(cs))
<1>1. PICK n, u : n = Len(cs) /\ u = Encoded(cs)
  OBVIOUS
<1>2. n \in Nat /\ k \in 0 .. n
  BY <1>1, LenProperties
<1>3. /\ u \in [0 .. n -> Seq(Byte8)]
      /\ \A i \in 1 .. n : u[i] = u[i - 1] \o Code(cs[i])
  BY <1>1, EncodedFacts
<1> DEFINE t == [i \in 0 .. n - k |-> u[k + i]]
           X == {s \in Seq(Byte8) : Begins(u[k], s)}
<1>4. n - k \in Nat /\ \A i \in 0 .. n - k : k + i \in 0 .. n
  BY <1>2
<1>5. t[0] = u[k] /\ t[n - k] = u[n]
  BY <1>2
<1>6. u[k] \in X
  BY <1>2, <1>3, LenProperties DEF Begins
<1>7. ASSUME NEW i \in 1 .. n - k, t[i - 1] \in X PROVE t[i] \in X
  <2>1. i - 1 \in 0 .. n - k /\ i \in 0 .. n - k /\ k + i \in 1 .. n /\ (k + i) - 1 = k + (i - 1)
    BY <1>2
  <2>2. t[i] = u[k + i] /\ t[i - 1] = u[k + (i - 1)]
    BY <2>1
  <2>3. u[k + i] = u[k + (i - 1)] \o Code(cs[k + i])
    BY <1>3, <2>1
  <2>4. Code(cs[k + i]) \in Seq(Byte8)
    BY <1>1, <2>1, ElementOfSeq, CodeFacts
  <2> HIDE DEF t
  <2>5. Begins(u[k], u[k + i])
    BY <1>7, <2>2, <2>3, <2>4, BeginsFacts
  <2>. QED  BY <2>2, <2>5 DEF Begins
<1>8. \A i \in 0 .. n - k : t[i] \in X
  <2> HIDE DEF t, X
  <2>. QED  BY <1>4, <1>5, <1>6, <1>7, UpTo
<1>9. u[n] \in X
  <2> HIDE DEF t, X
  <2>. QED  BY <1>4, <1>5, <1>8
<1>. QED  BY <1>1, <1>9 DEF Encode

\* Command c is in b at offset i.
At(b, i, c) ==
    /\ i + Len(Code(c)) <= Len(b)
    /\ \A j \in 1 .. Len(Code(c)) : b[i + j] = Code(c)[j]

\* The next command is where the ones before it end.
LEMMA EncodedAt ==
    ASSUME NEW cs \in Seq(AnyCommand), NEW k \in 1 .. Len(cs)
    PROVE  /\ At(Encode(cs), Len(Encoded(cs)[k - 1]), cs[k])
           /\ Len(Encoded(cs)[k]) = Len(Encoded(cs)[k - 1]) + Len(Code(cs[k]))
           /\ Len(Encoded(cs)[k]) <= Len(Encode(cs))
<1>1. PICK u, e, c : u = Encoded(cs) /\ e = Encode(cs) /\ c = Code(cs[k])
  OBVIOUS
<1>2. k \in 0 .. Len(cs) /\ k - 1 \in 0 .. Len(cs) /\ Len(cs) \in Nat
  BY LenProperties
<1>3. u[k - 1] \in Seq(Byte8) /\ u[k] = u[k - 1] \o c
  BY <1>1, <1>2, EncodedFacts
<1>4. c \in Seq(Byte8)
  BY <1>1, ElementOfSeq, CodeFacts
<1>5. PICK a, b : a = u[k - 1] /\ b = u[k]
  OBVIOUS
<1>6. PICK l, m : l = Len(a) /\ m = Len(c)
  OBVIOUS
<1>7. l \in Nat /\ m \in Nat
  BY <1>3, <1>4, <1>5, <1>6, LenProperties
<1>8. /\ Len(b) = l + m
      /\ \A i \in 1 .. l + m : b[i] = IF i <= l THEN a[i] ELSE c[i - l]
  BY <1>3, <1>4, <1>5, <1>6, ConcatProperties
<1>9. Begins(b, e)
  BY <1>1, <1>2, <1>5, EncodedBegins
<1>10. /\ l + m <= Len(e) /\ \A j \in 1 .. l + m : e[j] = b[j]
  BY <1>8, <1>9 DEF Begins
<1>11. ASSUME NEW j \in 1 .. m PROVE e[l + j] = c[j]
  <2>1. l + j \in 1 .. l + m /\ ~(l + j <= l) /\ (l + j) - l = j
    BY <1>7
  <2>. QED  BY <1>8, <1>10, <2>1
<1>12. At(e, l, cs[k])
  BY <1>1, <1>6, <1>10, <1>11 DEF At
<1>. QED  BY <1>1, <1>5, <1>6, <1>8, <1>10, <1>12


LEMMA SameBytes ==
    ASSUME NEW x \in Byte8, NEW y \in Byte8, NEW v \in Byte8, NEW w \in Byte8,
           Base * x + y = Base * v + w
    PROVE  x = v /\ y = w
<1>1. /\ (Base * x + y) \div Base = x /\ (Base * x + y) % Base = y
      /\ (Base * v + w) \div Base = v /\ (Base * v + w) % Base = w
  BY TwoBytes
<1>. QED  BY <1>1, Zenon

\* What is read of a command that is in b.
LEMMA AtFacts ==
    ASSUME NEW b \in Seq(Byte8), NEW i \in Nat, NEW c \in AnyCommand, At(b, i, c)
    PROVE  /\ i + Header + Len(c.value) <= Len(b)
           /\ Ntohs(b, i) = c.type /\ Ntohs(b, i + 2) = Len(c.value)
           /\ \A j \in 1 .. Len(c.value) : b[i + Header + j] = c.value[j]
<1>1. PICK d, n, L : d = Code(c) /\ n = Len(c.value) /\ L = Len(b)
  OBVIOUS
<1>2. /\ Len(d) = 4 + n /\ n \in Nat
      /\ c.type = Base * d[1] + d[2] /\ n = Base * d[3] + d[4]
      /\ \A j \in 1 .. n : d[4 + j] = c.value[j]
  BY <1>1, CodeFacts, WidthFacts DEF Header
<1>3. L \in Nat /\ i + (4 + n) <= L /\ \A j \in 1 .. 4 + n : b[i + j] = d[j]
  BY <1>1, <1>2, LenProperties DEF At
<1>4. b[i + 1] = d[1] /\ b[i + 2] = d[2] /\ b[i + 3] = d[3] /\ b[i + 4] = d[4]
  BY <1>2, <1>3
<1>5. /\ i < L /\ i + 1 < L /\ i + 2 < L /\ i + 3 < L
      /\ (i + 1) + 1 = i + 2 /\ (i + 2) + 1 = i + 3 /\ (i + 3) + 1 = i + 4
  BY <1>2, <1>3
<1>6. Ntohs(b, i) = Base * b[i + 1] + b[i + 2] /\ Ntohs(b, i + 2) = Base * b[i + 3] + b[i + 4]
  BY <1>1, <1>5 DEF Ntohs, Byte
<1>7. ASSUME NEW j \in 1 .. n PROVE b[i + 4 + j] = c.value[j]
  <2>1. 4 + j \in 1 .. 4 + n /\ i + (4 + j) = i + 4 + j
    BY <1>2
  <2>. QED  BY <1>2, <1>3, <2>1
<1>8. i + 4 + n <= L
  BY <1>2, <1>3
<1>. QED  BY <1>1, <1>2, <1>4, <1>6, <1>7, <1>8 DEF Header

LEMMA AtUnique ==
    ASSUME NEW b \in Seq(Byte8), NEW i \in Nat, NEW c \in AnyCommand, NEW d \in AnyCommand,
           At(b, i, c), At(b, i, d)
    PROVE  c = d
<1>1. c.type = d.type /\ Len(c.value) = Len(d.value)
  BY AtFacts
<1>2. \A j \in 1 .. Len(c.value) : c.value[j] = d.value[j]
  BY <1>1, AtFacts
<1>3. c.value \in Seq(Byte8) /\ d.value \in Seq(Byte8)
  BY DEF AnyCommand, Byte8
<1>4. c.value = d.value
  BY <1>1, <1>2, <1>3, SeqEqual
<1>. QED  BY <1>1, <1>4 DEF AnyCommand

\* The command that atlas_cmd_batch_get reads at an offset is at that offset.
LEMMA ReadAt ==
    ASSUME NEW b \in Seq(Byte8), NEW i \in Nat, NEW m \in Nat,
           i + Header + m <= Len(b), m = Ntohs(b, i + 2), Len(b) < Width,
           NEW c, c = [type |-> Ntohs(b, i),
                       value |-> [j \in 1 .. m |-> b[i + Header + j]]]
    PROVE  c \in AnyCommand /\ Len(c.value) = m /\ At(b, i, c)
<1>1. PICK L, v : L = Len(b) /\ v = c.value
  OBVIOUS
<1>2. /\ L \in Nat /\ \A j \in 1 .. L : b[j] \in Byte8
      /\ \A j \in 1 .. m : i + 4 + j \in 1 .. L
      /\ i + 1 \in 1 .. L /\ i + 2 \in 1 .. L /\ i + 3 \in 1 .. L /\ i + 4 \in 1 .. L
      /\ i < L /\ i + 1 < L /\ i + 2 < L /\ i + 3 < L
      /\ (i + 1) + 1 = i + 2 /\ (i + 2) + 1 = i + 3 /\ (i + 3) + 1 = i + 4
  <2>1. L \in Nat /\ \A j \in 1 .. L : b[j] \in Byte8
    BY <1>1, LenProperties, ElementOfSeq
  <2>. QED  BY <1>1, <2>1 DEF Header
<1>3. v = [j \in 1 .. m |-> b[i + 4 + j]]
  BY <1>1 DEF Header
<1>4. v \in [1 .. m -> Byte8]
  BY <1>2, <1>3
<1>5. v \in Seq(Byte8) /\ Len(v) = m
  <2>1. v \in Seq(Byte8)
    BY <1>4, SeqDef
  <2>. QED  BY <1>4, <2>1, LenProperties
<1>6. Ntohs(b, i) = Base * b[i + 1] + b[i + 2] /\ m = Base * b[i + 3] + b[i + 4]
  BY <1>1, <1>2 DEF Ntohs, Byte
<1>7. Ntohs(b, i) \in 0 .. Width - 1
  BY <1>2, <1>6, TwoBytes
<1>8. m < Width
  BY <1>1, <1>2, WidthFacts DEF Header
<1>9. c \in AnyCommand
  <2>1. v \in {x \in Seq(0 .. Base - 1) : Len(x) < Width}
    BY <1>5, <1>8 DEF Byte8
  <2>2. c = [type |-> Ntohs(b, i), value |-> v]
    BY <1>1
  <2>. QED  BY <1>7, <2>1, <2>2 DEF AnyCommand
<1>10. PICK d : d = Code(c)
  OBVIOUS
<1>11. /\ d \in Seq(Byte8) /\ Len(d) = 4 + m
       /\ Base * b[i + 1] + b[i + 2] = Base * d[1] + d[2]
       /\ Base * b[i + 3] + b[i + 4] = Base * d[3] + d[4]
       /\ \A j \in 1 .. m : d[4 + j] = v[j]
  BY <1>1, <1>5, <1>6, <1>9, <1>10, CodeFacts DEF Header
<1>12. d[1] \in Byte8 /\ d[2] \in Byte8 /\ d[3] \in Byte8 /\ d[4] \in Byte8
  <2>1. 1 \in 1 .. 4 + m /\ 2 \in 1 .. 4 + m /\ 3 \in 1 .. 4 + m /\ 4 \in 1 .. 4 + m
    OBVIOUS
  <2>. QED  BY <1>11, <2>1, ElementOfSeq
<1>13. b[i + 1] = d[1] /\ b[i + 2] = d[2]
  BY <1>2, <1>11, <1>12, SameBytes
<1>14. b[i + 3] = d[3] /\ b[i + 4] = d[4]
  BY <1>2, <1>11, <1>12, SameBytes
<1>15. ASSUME NEW j \in 1 .. 4 + m PROVE b[i + j] = d[j]
  <2>1. CASE j \in 1 .. 4
    <3>1. j = 1 \/ j = 2 \/ j = 3 \/ j = 4
      BY <2>1
    <3>. QED  BY <1>13, <1>14, <3>1
  <2>2. CASE j \notin 1 .. 4
    <3>1. PICK k : k = j - 4
      OBVIOUS
    <3>2. k \in 1 .. m /\ j = 4 + k /\ i + j = i + 4 + k
      BY <2>2, <3>1
    <3>3. d[4 + k] = b[i + 4 + k]
      BY <1>3, <1>11, <3>2
    <3>. QED  BY <3>2, <3>3
  <2>. QED  BY <2>1, <2>2
<1>16. i + (4 + m) <= L
  BY <1>1, <1>2 DEF Header
<1>17. At(b, i, c)
  BY <1>1, <1>10, <1>11, <1>15, <1>16 DEF At
<1>. QED  BY <1>1, <1>5, <1>9, <1>17

\* A command that is in b adds itself to what is in front of it.
LEMMA PrefixAt ==
    ASSUME NEW b \in Seq(Byte8), NEW i \in Nat, NEW c \in AnyCommand, At(b, i, c)
    PROVE  SubSeq(b, 1, i) \o Code(c) = SubSeq(b, 1, i + Len(Code(c)))
<1>1. PICK d, m, L : d = Code(c) /\ m = Len(Code(c)) /\ L = Len(b)
  OBVIOUS
<1>2. d \in Seq(Byte8) /\ m \in Nat /\ L \in Nat /\ i + m <= L
  <2>1. d \in Seq(Byte8)
    BY <1>1, CodeFacts
  <2>. QED  BY <1>1, <2>1, LenProperties DEF At
<1>3. /\ \A j \in 1 .. L : b[j] \in Byte8
      /\ \A j \in 1 .. i : j \in 1 .. L /\ 1 + j - 1 = j
      /\ \A j \in 1 .. i + m : j \in 1 .. L /\ 1 + j - 1 = j
      /\ i - 1 + 1 = i /\ (i + m) - 1 + 1 = i + m
  <2>1. \A j \in 1 .. L : b[j] \in Byte8
    BY <1>1, ElementOfSeq
  <2>. QED  BY <1>2, <2>1
<1>4. PICK s, t : s = SubSeq(b, 1, i) /\ t = SubSeq(b, 1, i + m)
  OBVIOUS
<1>5. s \in Seq(Byte8) /\ Len(s) = i /\ \A j \in 1 .. i : s[j] = b[j]
  BY <1>2, <1>3, <1>4, SubSeqProperties
<1>6. t \in Seq(Byte8) /\ Len(t) = i + m /\ \A j \in 1 .. i + m : t[j] = b[j]
  BY <1>2, <1>3, <1>4, SubSeqProperties
<1>7. PICK e : e = s \o d
  OBVIOUS
<1>8. /\ e \in Seq(Byte8) /\ Len(e) = i + m
      /\ \A j \in 1 .. i + m : e[j] = IF j <= i THEN s[j] ELSE d[j - i]
  BY <1>1, <1>2, <1>5, <1>7, ConcatProperties
<1>9. ASSUME NEW j \in 1 .. i + m PROVE e[j] = t[j]
  <2>1. CASE j <= i
    BY <1>5, <1>6, <1>8, <2>1
  <2>2. CASE ~(j <= i)
    <3>1. PICK k : k = j - i
      OBVIOUS
    <3>2. k \in 1 .. m /\ i + k = j
      BY <1>2, <2>2, <3>1
    <3>3. b[i + k] = d[k]
      BY <1>1, <3>2 DEF At
    <3>. QED  BY <1>6, <1>8, <2>2, <3>1, <3>2, <3>3
  <2>. QED  BY <2>1, <2>2
<1>10. e = t
  BY <1>6, <1>8, <1>9, SeqEqual
<1>. QED  BY <1>1, <1>4, <1>7, <1>10


-----------------------------------------------------------------------------
\* The commands that are added fit.
LEMMA CommandsAny == Commands \subseteq AnyCommand
<1>1. ASSUME NEW c \in Commands PROVE c \in AnyCommand
  <2>1. /\ c = [type |-> c.type, value |-> c.value]
        /\ c.type \in 0 .. Width - 1 /\ c.value \in BoundedSeq(Bytes, MaxValue)
    BY CommandBatchAssumption DEF Commands
  <2>2. c.value \in Seq(Bytes) /\ Len(c.value) \in 0 .. MaxValue
    BY <2>1, BoundedIsSeq, CommandBatchAssumption, WidthFacts
  <2>3. Bytes \subseteq 0 .. Base - 1
    BY CommandBatchAssumption
  <2>4. c.value \in Seq(0 .. Base - 1)
    BY <2>2, <2>3, SeqMonotonic
  <2>5. Len(c.value) < Width
    BY <2>2, CommandBatchAssumption, WidthFacts
  <2>6. c.value \in {v \in Seq(0 .. Base - 1) : Len(v) < Width}
    BY <2>4, <2>5
  <2>. QED  BY <2>1, <2>6 DEF AnyCommand
<1>. QED  BY <1>1

\* A batch that was added to is not empty, nor is what it comes to.
LEMMA AddedFacts ==
    ASSUME Sent
    PROVE  /\ added \in Seq(AnyCommand) /\ Len(added) \in Nat
           /\ Encode(added) \in Seq(Byte8)
           /\ added # <<>> => Len(added) > 0 /\ Encode(added) # <<>>
<1>1. Commands \subseteq AnyCommand
  BY CommandsAny
<1>2. added \in Seq(AnyCommand)
  BY <1>1, SeqMonotonic DEF Sent
<1>3. Len(added) \in Nat
  BY <1>2, LenProperties
<1>4. Encode(added) \in Seq(Byte8)
  <2>1. Encoded(added) \in [0 .. Len(added) -> Seq(Byte8)]
    BY <1>2, EncodedFacts
  <2>. QED  BY <1>3, <2>1 DEF Encode
<1>5. ASSUME added # <<>> PROVE Len(added) > 0 /\ Encode(added) # <<>>
  <2>1. Len(added) > 0
    BY <1>2, <1>3, <1>5, EmptySeq
  <2>2. 1 \in 1 .. Len(added) /\ 1 \in 0 .. Len(added) /\ 1 - 1 = 0
    BY <1>3, <2>1
  <2>3. PICK l, m, n : /\ l = Len(Encoded(added)[0]) /\ m = Len(Code(added[1]))
                       /\ n = Len(Encode(added))
    OBVIOUS
  <2>4. l + m <= n /\ l = 0
    <3>1. Encoded(added)[0] = <<>>
      BY <1>2, EncodedFacts
    <3>2. PICK x, y : x = Encoded(added)[1 - 1] /\ y = Encoded(added)[1]
      OBVIOUS
    <3>3. Len(y) = Len(x) + m /\ Len(y) <= n
      BY <1>2, <2>2, <2>3, <3>2, EncodedAt
    <3>4. x = Encoded(added)[0]
      BY <2>2, <3>2
    <3>. QED  BY <2>3, <3>1, <3>3, <3>4
  <2>5. m \in Nat /\ m >= 4
    <3>1. added[1] \in AnyCommand
      BY <1>2, <2>2, ElementOfSeq
    <3>2. m = Header + Len(added[1].value) /\ Len(added[1].value) \in 0 .. Width - 1
      BY <2>3, <3>1, CodeFacts
    <3>. QED  BY <3>2, WidthFacts DEF Header
  <2>6. n # 0
    BY <2>4, <2>5
  <2>. QED  BY <2>1, <2>3, <2>6
<1>. QED  BY <1>2, <1>3, <1>4, <1>5

LEMMA InitRInv == Init => RInv
<1> SUFFICES ASSUME Init PROVE RInv
  OBVIOUS
<1>1. IInv
  BY InitIInv
<1>2. added = <<>> /\ buf = <<>> /\ overrun = FALSE /\ pc = "fill"
  BY DEF Init, NoBatch
<1>3. added \in Seq(Commands) /\ added \in Seq(AnyCommand)
  BY <1>2
<1>4. Encode(added) = <<>> /\ Len(Encode(added)) = 0
  <2>1. Encoded(added)[0] = <<>> /\ Len(added) = 0
    BY <1>2, <1>3, EncodedFacts
  <2>. QED  BY <2>1 DEF Encode
<1>5. ~(Len(Encode(added)) >= Width)
  BY <1>4, WidthFacts
<1>. QED  BY <1>1, <1>2, <1>3, <1>4, <1>5
  DEF RInv, Sent, Between, Delivering, WalkExact, RoundTrip

\* atlas_cmd_batch_add writes the code of the command behind the others, or
\* past the block as soon as the length has wrapped.
LEMMA AddRInv ==
    ASSUME RInv, NEW c \in Commands, Add(c)
    PROVE  RInv'
<1> DEFINE all == buf \o Block(c)
           len == NewLength(Len(c.value))
<1>1. IInv'
  BY AddStep DEF RInv
<1>2. /\ pc = "fill" /\ ~overrun /\ buf = Encode(added) /\ length = Len(buf)
      /\ pc' = "fill" /\ added' = Append(added, c) /\ added \in Seq(Commands)
      /\ buf' = SubSeq(all, 1, len) /\ overrun' = (Len(all) > len)
  BY DEF RInv, Sent, Add, IInv, Lengths
<1>3. added' \in Seq(Commands) /\ added' # <<>>
  BY <1>2, AppendProperties
<1>4. /\ added \in Seq(AnyCommand) /\ c \in AnyCommand /\ buf \in Seq(Byte8)
  <2>1. added \in Seq(AnyCommand) /\ buf \in Seq(Byte8)
    BY <1>2, AddedFacts DEF RInv
  <2>. QED  BY <2>1, CommandsAny
<1>5. Block(c) = Code(c)
  BY DEF Block, Code
<1>6. Encode(added') = all
  BY <1>2, <1>4, <1>5, EncodeAppend
<1>7. Len(all) = Len(buf) + Header + Len(c.value) /\ all \in Seq(Byte8) /\ Len(all) \in Nat
  <2>1. /\ Code(c) \in Seq(Byte8) /\ Len(Code(c)) = Header + Len(c.value)
        /\ Len(c.value) \in 0 .. Width - 1
    BY <1>4, CodeFacts
  <2>2. all \in Seq(Byte8) /\ Len(all) = Len(buf) + Len(Code(c))
    BY <1>4, <1>5, <2>1, Concat
  <2>3. PICK k, l, m : k = Len(buf) /\ l = Len(c.value) /\ m = Len(Code(c))
    OBVIOUS
  <2>4. m = 4 + l /\ k \in Nat /\ l \in Nat
    BY <1>4, <2>1, <2>3, LenProperties, WidthFacts DEF Header
  <2>5. k + m = k + 4 + l /\ k + m \in Nat
    BY <2>4
  <2> HIDE DEF all
  <2>. QED  BY <2>2, <2>3, <2>5 DEF Header
<1>8. len = Len(all) % Width
  BY <1>2, <1>7 DEF NewLength
<1> HIDE DEF all, len
<1>9. CASE Len(all) < Width
  <2>1. len = Len(all) /\ ~(Len(all) > len)
    BY <1>7, <1>8, <1>9, WidthFacts
  <2>2. buf' = all
    BY <1>2, <1>7, <2>1, SubSeqFull
  <2>3. overrun' = FALSE /\ ~(Len(all) >= Width)
    <3>0. overrun' \in BOOLEAN /\ (overrun' <=> Len(all) > len)
      BY <1>1, <1>2 DEF IInv, TypeOK
    <3>1. overrun' = FALSE
      BY <2>1, <3>0
    <3>. QED  BY <1>7, <1>9, <3>1, WidthFacts
  <2>. QED  BY <1>1, <1>2, <1>3, <1>6, <2>2, <2>3
    DEF RInv, Sent, Between, Delivering, WalkExact, RoundTrip
<1>10. CASE ~(Len(all) < Width)
  <2>1. len < Width
    BY <1>7, <1>8, WidthFacts
  <2>2. overrun' = TRUE /\ Len(all) >= Width
    <3>1. Len(all) >= Width /\ Len(all) > len
      <4>1. len \in Nat
        BY <1>7, <1>8, WidthFacts
      <4>. QED  BY <1>7, <1>10, <2>1, <4>1, WidthFacts
    <3>. QED  BY <1>2, <3>1
  <2>. QED  BY <1>1, <1>2, <1>3, <1>6, <2>2
    DEF RInv, Sent, Between, Delivering, WalkExact, RoundTrip
<1>. QED  BY <1>9, <1>10


\* The raw bytes of the batch are its code, and atlas_cmd_batch_set_raw begins
\* in front of its first command.
LEMMA ReceiveRInv ==
    ASSUME RInv, SendBatch \/ Receive PROVE RInv'
<1>1. IInv'
  BY ReceiveStep DEF RInv
<1>2. PICK bytes : SetRaw(bytes) /\ (added = <<>> \/ bytes = SubSeq(buf, 1, length))
  BY DEF SendBatch, Receive
<1>3. /\ pc = "fill" /\ ~overrun /\ raw' = bytes /\ p' = 0
      /\ pc' \in {"validate", "end"} /\ (pc' = "end" => bytes = <<>> /\ status' # "OK")
      /\ UNCHANGED <<added, overrun, visited>> /\ buf = Encode(added)
      /\ buf \in Seq(Byte8) /\ length = Len(buf)
  BY <1>2 DEF SetRaw, RInv, Sent, IInv, TypeOK, Lengths, Byte8
<1>4. added # <<>> => bytes = Encode(added) /\ bytes # <<>>
  <2>1. SubSeq(buf, 1, Len(buf)) = buf
    BY <1>3, SubSeqFull
  <2>. QED  BY <1>2, <1>3, <2>1, AddedFacts DEF RInv
<1>5. Sent'
  BY <1>3, <1>4 DEF RInv, Sent
<1>6. Between'
  <2>1. /\ added \in Seq(AnyCommand) /\ Len(added) \in Nat
        /\ Encoded(added)[0] = <<>> /\ Len(Encoded(added)[0]) = 0
    <3>1. added \in Seq(AnyCommand) /\ Len(added) \in Nat
      BY AddedFacts DEF RInv
    <3>2. Encoded(added)[0] = <<>>
      BY <3>1, EncodedFacts
    <3>. QED  BY <3>1, <3>2
  <2>2. 0 \in 0 .. Len(added)
    BY <2>1
  <2>. QED  BY <1>3, <2>1, <2>2 DEF Between
<1>7. Delivering' /\ WalkExact'
  BY <1>3 DEF Delivering, WalkExact
<1>8. RoundTrip'
  BY <1>3, <1>4 DEF RInv, RoundTrip
<1>. QED  BY <1>1, <1>5, <1>6, <1>7, <1>8 DEF RInv

\* At the end of k commands of a batch that was sent there is the next one, or
\* the end of the batch.
LEMMA NextSent ==
    ASSUME RInv, pc # "fill", added # <<>>, NEW k \in 0 .. Len(added),
           NEW i, i = Len(Encoded(added)[k]), i # Len(raw)
    PROVE  /\ k + 1 \in 1 .. Len(added) /\ added[k + 1] \in AnyCommand
           /\ i \in Nat /\ At(raw, i, added[k + 1])
           /\ Len(Encoded(added)[k + 1]) = i + Header + Len(added[k + 1].value)
<1>1. /\ added \in Seq(AnyCommand) /\ Len(added) \in Nat /\ raw = Encode(added)
  BY AddedFacts DEF RInv, Sent
<1>2. k # Len(added)
  BY <1>1 DEF Encode
<1>3. k + 1 \in 1 .. Len(added) /\ (k + 1) - 1 = k
  BY <1>1, <1>2
<1>4. added[k + 1] \in AnyCommand
  BY <1>1, <1>3, ElementOfSeq
<1>5. i \in Nat
  <2>1. Encoded(added)[k] \in Seq(Byte8)
    BY <1>1, EncodedFacts
  <2>. QED  BY <2>1, LenProperties
<1>6. PICK l, m, n : /\ l = Len(Code(added[k + 1])) /\ m = Len(added[k + 1].value)
                     /\ n = Len(Encoded(added)[k + 1])
  OBVIOUS
<1>7. At(raw, i, added[k + 1]) /\ n = i + l
  BY <1>1, <1>3, <1>6, EncodedAt
<1>8. l = 4 + m /\ m \in Nat
  BY <1>4, <1>6, CodeFacts, WidthFacts DEF Header
<1>9. n = i + 4 + m
  <2>1. PICK x : x = i
    OBVIOUS
  <2>2. x \in Nat /\ n = x + l
    BY <1>5, <1>7, <2>1, Zenon
  <2>3. n = x + 4 + m
    BY <1>8, <2>2
  <2>. QED  BY <2>1, <2>3, Zenon
<1>. QED  BY <1>3, <1>4, <1>5, <1>6, <1>7, <1>9 DEF Header

\* The validation of a batch that was sent goes from command to command.
LEMMA ValidateRInv == RInv /\ Validate => RInv'
<1> SUFFICES ASSUME RInv, Validate PROVE RInv'
  OBVIOUS
<1>1. IInv /\ IInv'
  BY ValidateStep DEF RInv
<1>2. /\ pc = "validate" /\ tmp_len > 0 /\ p + tmp_len = Len(raw)
      /\ pc' \in {"validate", "end"} /\ (pc' = "end" => status' # "OK")
      /\ UNCHANGED <<buf, length, added, overrun, raw, visited>>
  BY <1>1 DEF Validate, IInv, Validating
<1>3. /\ raw \in Seq(Byte8) /\ Len(raw) \in Nat /\ p \in Nat /\ tmp_len \in Nat
  BY <1>1, LenProperties, WidthFacts DEF IInv, TypeOK, Lengths, Byte8
<1>4. ASSUME added # <<>>
      PROVE  /\ pc' = "validate"
             /\ \E k \in 0 .. Len(added) : p' = Len(Encoded(added)[k])
  <2>1. PICK k \in 0 .. Len(added) : p = Len(Encoded(added)[k])
    BY <1>2, <1>4 DEF RInv, Between
  <2>2. p # Len(raw)
    BY <1>2, <1>3
  <2>3. PICK c, m : c = added[k + 1] /\ m = Len(c.value)
    OBVIOUS
  <2>4. /\ k + 1 \in 1 .. Len(added) /\ c \in AnyCommand /\ At(raw, p, c)
        /\ Len(Encoded(added)[k + 1]) = p + Header + m
    BY <1>2, <1>4, <2>1, <2>2, <2>3, NextSent
  <2>5. m \in Nat
    BY <2>3, <2>4, CodeFacts, WidthFacts
  <2>6. p + Header + m <= Len(raw) /\ CmdLen = m
    BY <1>3, <2>3, <2>4, AtFacts DEF CmdLen
  <2>7. HeaderFits /\ ValueFits
    BY <1>2, <1>3, <2>5, <2>6 DEF HeaderFits, ValueFits, Header
  <2>8. pc' = "validate" /\ p' = p + Advance
    BY <1>2, <2>7 DEF Validate
  <2>9. p' = p + Header + m
    BY <1>3, <2>5, <2>6, <2>8 DEF Advance, Header
  <2>10. k + 1 \in 0 .. Len(added)
    BY <2>4
  <2>. QED  BY <2>4, <2>8, <2>9, <2>10
<1>5. Sent' /\ Between'
  BY <1>2, <1>4 DEF RInv, Sent, Between
<1>6. Delivering' /\ WalkExact' /\ RoundTrip'
  BY <1>2, <1>4 DEF RInv, Delivering, WalkExact, RoundTrip
<1>. QED  BY <1>1, <1>5, <1>6 DEF RInv

LEMMA AcceptRInv == RInv /\ Accept => RInv'
<1> SUFFICES ASSUME RInv, Accept PROVE RInv'
  OBVIOUS
<1>1. IInv'
  BY AcceptStep DEF RInv
<1>2. /\ pc = "validate" /\ pc' = "walk" /\ visited = <<>>
      /\ UNCHANGED <<added, overrun, raw, visited>>
  BY DEF Accept, RInv, IInv, Validating
<1>3. added \in Seq(AnyCommand) /\ Len(added) \in Nat
  BY AddedFacts DEF RInv
<1>4. Delivering'
  <2>1. SubSeq(added, 1, 0) = <<>>
    BY SubSeqEmpty
  <2>2. Len(<<>>) = 0 /\ <<>> \in Seq(AnyCommand)
    OBVIOUS
  <2>. QED  BY <1>2, <1>3, <2>1, <2>2 DEF Delivering
<1>. QED  BY <1>1, <1>2, <1>4 DEF RInv, Sent, Between, WalkExact, RoundTrip


\* The command that is handed out is the one that is in the raw bytes.
LEMMA HandOutFacts ==
    ASSUME IInv, pc = "walk", NEW i \in 0 .. Len(raw), i # Len(raw), Whole(raw)[i],
           \A j \in i + 1 .. Len(raw) : buf[j] = raw[j], HandOut(i)
    PROVE  \E m \in Nat :
               /\ i + Header + m <= Len(raw) /\ m = Ntohs(raw, i + 2)
               /\ NextCmd' = i + Header + m
               /\ visited' = Append(visited,
                      [type |-> Ntohs(raw, i),
                       value |-> [j \in 1 .. m |-> raw[i + Header + j]]])
               /\ UNCHANGED <<pc, length, added, overrun, raw, tmp_len, status>>
<1> DEFINE b == Swapped(buf, i)
           n == Host(b, i + 2)
<1>0. PICK L : L = Len(raw)
  OBVIOUS
<1>1. /\ raw \in Seq(Byte8) /\ L \in Nat /\ buf \in Seq(Byte8) /\ Len(buf) = L
  BY <1>0, LenProperties DEF IInv, TypeOK, Lengths, Walking, Byte8
<1>2. PICK m \in 0 .. L - i - Header :
          m = Base * raw[i + 3] + raw[i + 4] /\ Whole(raw)[i + Header + m]
  BY <1>0, <1>1, WholeFacts
<1>3. i \in Nat /\ i + Header <= L /\ i + Header + m <= L /\ m \in Nat
  BY <1>0, <1>1, <1>2 DEF Header
<1>4. m = Ntohs(raw, i + 2)
  BY <1>0, <1>1, <1>2, <1>3, HeaderFacts
<1>5. Ntohs(buf, i + 2) = Ntohs(raw, i + 2) /\ Ntohs(buf, i) = Ntohs(raw, i)
  <2>1. /\ i + 1 \in i + 1 .. L /\ i + 2 \in i + 1 .. L
        /\ i + 3 \in i + 1 .. L /\ i + 4 \in i + 1 .. L
        /\ i < L /\ i + 1 < L /\ i + 2 < L /\ i + 3 < L
        /\ (i + 1) + 1 = i + 2 /\ (i + 2) + 1 = i + 3 /\ (i + 3) + 1 = i + 4
    BY <1>1, <1>3 DEF Header
  <2>2. /\ buf[i + 1] = raw[i + 1] /\ buf[i + 2] = raw[i + 2]
        /\ buf[i + 3] = raw[i + 3] /\ buf[i + 4] = raw[i + 4]
    BY <1>0, <2>1
  <2>3. /\ Ntohs(buf, i) = Base * buf[i + 1] + buf[i + 2]
        /\ Ntohs(buf, i + 2) = Base * buf[i + 3] + buf[i + 4]
        /\ Ntohs(raw, i) = Base * raw[i + 1] + raw[i + 2]
        /\ Ntohs(raw, i + 2) = Base * raw[i + 3] + raw[i + 4]
    BY <1>0, <1>1, <2>1 DEF Ntohs, Byte
  <2>. QED  BY <2>2, <2>3
<1>6. /\ b \in Seq(Byte8) /\ Len(b) = L
      /\ n = Ntohs(buf, i + 2) /\ Host(b, i) = Ntohs(buf, i)
      /\ \A j \in i + Header + 1 .. L : b[j] = buf[j]
  BY <1>1, <1>3, SwappedFacts
<1>7. n = m /\ Host(b, i) = Ntohs(raw, i)
  BY <1>4, <1>5, <1>6
<1>8. /\ p' = i /\ buf' = b
      /\ visited' = Append(visited,
             [type |-> Host(b, i),
              value |-> [j \in 1 .. n |-> Byte(b, i + Header + j - 1)]])
      /\ UNCHANGED <<pc, length, added, overrun, raw, tmp_len, status>>
  <2>1. i + Header <= Len(buf)
    BY <1>1, <1>3
  <2>. QED  BY <2>1 DEF HandOut
<1>9. NextCmd' = i + Header + m
  BY <1>7, <1>8 DEF NextCmd
<1> HIDE DEF b, n
<1>10. [j \in 1 .. n |-> Byte(b, i + Header + j - 1)] = [j \in 1 .. m |-> raw[i + Header + j]]
  <2>1. ASSUME NEW j \in 1 .. m PROVE Byte(b, i + Header + j - 1) = raw[i + Header + j]
    <3>1. /\ i + Header + j - 1 < L /\ (i + Header + j - 1) + 1 = i + Header + j
          /\ i + Header + j \in i + Header + 1 .. L /\ i + Header + j \in i + 1 .. L
      BY <1>1, <1>3 DEF Header
    <3>2. Byte(b, i + Header + j - 1) = b[i + Header + j]
      BY <1>6, <3>1 DEF Byte
    <3>3. b[i + Header + j] = buf[i + Header + j]
      BY <1>6, <3>1
    <3>4. buf[i + Header + j] = raw[i + Header + j]
      BY <1>0, <3>1
    <3>. QED  BY <3>2, <3>3, <3>4
  <2>. QED  BY <1>7, <2>1
<1>11. visited' = Append(visited, [type |-> Ntohs(raw, i),
                                   value |-> [j \in 1 .. m |-> raw[i + Header + j]]])
  BY <1>7, <1>8, <1>10
<1>. QED  BY <1>0, <1>3, <1>4, <1>8, <1>9, <1>11

\* So the commands that are handed out are those of the raw bytes in front of
\* the next one and, of a batch that was sent, the first that were added.
LEMMA HandOutRInv ==
    ASSUME RInv, pc = "walk", NEW i \in 0 .. Len(raw), i # Len(raw), Whole(raw)[i],
           \A j \in i + 1 .. Len(raw) : buf[j] = raw[j], HandOut(i),
           Encode(visited) = SubSeq(raw, 1, i),
           added # <<>> => i = Len(Encoded(added)[Len(visited)])
    PROVE  RInv'
<1>1. IInv /\ IInv'
  BY HandOutStep DEF RInv
<1>2. PICK m \in Nat :
          /\ i + Header + m <= Len(raw) /\ m = Ntohs(raw, i + 2)
          /\ NextCmd' = i + Header + m
          /\ visited' = Append(visited,
                 [type |-> Ntohs(raw, i),
                  value |-> [j \in 1 .. m |-> raw[i + Header + j]]])
          /\ UNCHANGED <<pc, length, added, overrun, raw, tmp_len, status>>
  BY <1>1, HandOutFacts
<1>3. PICK c : c = [type |-> Ntohs(raw, i),
                    value |-> [j \in 1 .. m |-> raw[i + Header + j]]]
  OBVIOUS
<1>4. raw \in Seq(Byte8) /\ Len(raw) \in Nat /\ Len(raw) < Width /\ i \in Nat
  BY <1>1, LenProperties DEF IInv, Lengths, Byte8
<1>5. c \in AnyCommand /\ Len(c.value) = m /\ At(raw, i, c)
  BY <1>2, <1>3, <1>4, ReadAt
<1>6. visited \in Seq(AnyCommand) /\ visited' = Append(visited, c)
  BY <1>2, <1>3 DEF RInv, Delivering
<1>7. /\ visited' \in Seq(AnyCommand) /\ visited' # <<>> /\ Len(visited') = Len(visited) + 1
      /\ \A j \in 1 .. Len(visited) : visited'[j] = visited[j]
      /\ visited'[Len(visited) + 1] = c
  BY <1>5, <1>6, AppendProperties
<1>8. Encode(visited') = SubSeq(raw, 1, NextCmd')
  <2>1. Encode(visited') = SubSeq(raw, 1, i) \o Code(c)
    BY <1>5, <1>6, EncodeAppend
  <2>2. SubSeq(raw, 1, i) \o Code(c) = SubSeq(raw, 1, i + Len(Code(c)))
    BY <1>4, <1>5, PrefixAt
  <2>3. Len(Code(c)) = Header + m
    BY <1>5, CodeFacts
  <2>4. i + (Header + m) = i + Header + m
    BY <1>2, <1>4 DEF Header
  <2>. QED  BY <1>2, <2>1, <2>2, <2>3, <2>4
<1>9. ASSUME added # <<>>
      PROVE  /\ Len(visited') <= Len(added)
             /\ visited' = SubSeq(added, 1, Len(visited'))
             /\ NextCmd' = Len(Encoded(added)[Len(visited')])
  <2>1. PICK k : k = Len(visited)
    OBVIOUS
  <2>2. /\ k \in 0 .. Len(added) /\ visited = SubSeq(added, 1, k)
        /\ added \in Seq(AnyCommand) /\ Len(added) \in Nat
    BY <1>6, <1>9, <2>1, AddedFacts, LenProperties DEF RInv, Delivering
  <2>3. /\ k + 1 \in 1 .. Len(added) /\ added[k + 1] \in AnyCommand
        /\ At(raw, i, added[k + 1])
        /\ Len(Encoded(added)[k + 1]) = i + Header + Len(added[k + 1].value)
    BY <1>9, <2>1, <2>2, NextSent
  <2>4. c = added[k + 1]
    BY <1>4, <1>5, <2>3, AtUnique
  <2>5. \A j \in 1 .. k : visited[j] = added[j]
    <3>1. /\ \A j \in 1 .. k : added[j] \in AnyCommand
          /\ \A j \in 1 .. k : j \in 1 .. k - 1 + 1 /\ 1 + j - 1 = j
      BY <2>2, ElementOfSeq
    <3>. QED  BY <2>2, <3>1, SubSeqProperties
  <2>6. PICK s : s = SubSeq(added, 1, k + 1)
    OBVIOUS
  <2>7. /\ s \in Seq(AnyCommand) /\ Len(s) = k + 1
        /\ \A j \in 1 .. k + 1 : s[j] = added[j]
    <3>1. /\ \A j \in 1 .. k + 1 : added[j] \in AnyCommand
          /\ \A j \in 1 .. k + 1 : j \in 1 .. k + 1 - 1 + 1 /\ 1 + j - 1 = j
          /\ k + 1 \in Int /\ 1 <= k + 1 /\ k + 1 - 1 + 1 = k + 1
      BY <2>2, <2>3, ElementOfSeq
    <3>. QED  BY <2>6, <3>1, SubSeqProperties
  <2>8. visited' = s
    <3>1. \A j \in 1 .. k + 1 : visited'[j] = s[j]
      BY <1>7, <2>1, <2>2, <2>4, <2>5, <2>7
    <3>. QED  BY <1>7, <2>1, <2>7, <3>1, SeqEqual
  <2>9. Len(visited') = k + 1
    BY <1>7, <2>1
  <2>10. k + 1 <= Len(added)
    BY <2>3
  <2>11. NextCmd' = Len(Encoded(added)[k + 1])
    BY <1>2, <1>5, <2>3, <2>4, Zenon
  <2>. QED  BY <2>6, <2>8, <2>9, <2>10, <2>11, Zenon
<1>10. Sent' /\ Between'
  BY <1>2 DEF RInv, Sent, Between
<1>11. Delivering'
  BY <1>2, <1>7, <1>8, <1>9 DEF Delivering
<1>12. WalkExact' /\ RoundTrip'
  BY <1>2 DEF RInv, WalkExact, RoundTrip
<1>. QED  BY <1>1, <1>10, <1>11, <1>12 DEF RInv


LEMMA WalkRInv ==
    ASSUME RInv, GetFirst \/ GetNext \/ GetNull PROVE RInv'
<1>1. IInv
  BY DEF RInv
<1>2. /\ pc = "walk" /\ raw \in Seq(Byte8) /\ Len(raw) \in Nat /\ length = Len(raw)
      /\ raw # <<>> /\ Whole(raw)[0] /\ p \in Nat /\ visited \in Seq(AnyCommand)
  BY LenProperties
  DEF RInv, IInv, TypeOK, Lengths, Walking, WellFormed, Delivering, GetFirst, GetNext,
      GetNull, Byte8
<1>3. CASE GetFirst
  <2>1. buf = raw /\ HandOut(0) /\ visited = <<>>
    BY <1>1, <1>2, <1>3 DEF IInv, Walking, GetFirst
  <2>2. 0 \in 0 .. Len(raw) /\ 0 # Len(raw)
    BY <1>2, EmptySeq
  <2>3. Encode(visited) = <<>> /\ SubSeq(raw, 1, 0) = <<>>
    <3>1. Encoded(visited)[0] = <<>> /\ Len(visited) = 0
      BY <1>2, <2>1, EncodedFacts
    <3>. QED  BY <3>1, SubSeqEmpty DEF Encode
  <2>4. added # <<>> => 0 = Len(Encoded(added)[Len(visited)])
    <3>1. Len(visited) = 0 /\ added \in Seq(AnyCommand)
      BY <2>1, AddedFacts DEF RInv
    <3>2. Encoded(added)[0] = <<>>
      BY <3>1, EncodedFacts
    <3>. QED  BY <3>1, <3>2
  <2>. QED  BY <1>2, <2>1, <2>2, <2>3, <2>4, HandOutRInv
<1>4. CASE GetNext
  <2> DEFINE i == NextCmd
  <2>1. /\ i <= Len(raw) /\ ~(i >= length) /\ HandOut(i) /\ Whole(raw)[i]
        /\ p + Header <= Len(raw) /\ Host(buf, p + 2) = Ntohs(raw, p + 2)
        /\ \A j \in p + Header + 1 .. Len(raw) : buf[j] = raw[j]
    BY <1>1, <1>2, <1>4 DEF IInv, Walking, GetNext, AtEnd
  <2>2. Ntohs(raw, p + 2) \in Nat
    BY <1>2, <2>1, HeaderFacts
  <2>3. i = p + Header + Ntohs(raw, p + 2)
    BY <2>1 DEF NextCmd
  <2>4. /\ Encode(visited) = SubSeq(raw, 1, i)
        /\ added # <<>> => i = Len(Encoded(added)[Len(visited)])
    BY <1>2, <1>4 DEF RInv, Delivering, GetNext
  <2> HIDE DEF i
  <2>5. i \in 0 .. Len(raw) /\ i # Len(raw) /\ i >= p + Header
    BY <1>2, <2>1, <2>2, <2>3 DEF Header
  <2>6. \A j \in i + 1 .. Len(raw) : buf[j] = raw[j]
    BY <1>2, <2>1, <2>5 DEF Header
  <2>. QED  BY <1>2, <2>1, <2>4, <2>5, <2>6, HandOutRInv
<1>5. CASE GetNull
  <2>1. /\ pc' = "end" /\ UNCHANGED <<buf, length, added, overrun, raw, p, tmp_len, status,
                                      visited, past>>
        /\ visited # <<>> /\ NextCmd >= Len(raw)
    BY <1>2, <1>5 DEF GetNull, AtEnd
  <2>2. IInv'
    BY <1>1, <1>5, WalkStep
  <2>3. NextCmd = Len(raw)
    <3>1. /\ NextCmd <= Len(raw) /\ p + Header <= Len(raw)
          /\ Host(buf, p + 2) = Ntohs(raw, p + 2)
      BY <1>1, <1>2, <2>1 DEF IInv, Walking
    <3>2. Ntohs(raw, p + 2) \in Nat
      BY <1>2, <3>1, HeaderFacts
    <3>3. PICK x : x = NextCmd /\ x \in Nat
      BY <1>2, <3>1, <3>2 DEF NextCmd, Header
    <3>. QED  BY <1>2, <2>1, <3>1, <3>3
  <2>4. Encode(visited) = raw
    <3>1. SubSeq(raw, 1, Len(raw)) = raw
      BY <1>2, SubSeqFull
    <3>. QED  BY <1>2, <2>1, <2>3, <3>1 DEF RInv, Delivering
  <2>5. ASSUME added # <<>> PROVE visited = added
    <3>1. PICK k : k = Len(visited)
      OBVIOUS
    <3>2. /\ k \in 0 .. Len(added) /\ visited = SubSeq(added, 1, k)
          /\ added \in Seq(AnyCommand) /\ Len(added) \in Nat
          /\ Len(raw) = Len(Encoded(added)[k])
      BY <1>2, <2>1, <2>3, <2>5, <3>1, AddedFacts, LenProperties DEF RInv, Delivering
    <3>3. k = Len(added)
      <4>1. ASSUME k # Len(added) PROVE FALSE
        <5>1. k + 1 \in 1 .. Len(added) /\ (k + 1) - 1 = k
          BY <3>2, <4>1
        <5>2. added[k + 1] \in AnyCommand
          BY <3>2, <5>1, ElementOfSeq
        <5>3. PICK l, n : l = Len(Code(added[k + 1])) /\ n = Len(Encoded(added)[k + 1])
          OBVIOUS
        <5>4. n = Len(raw) + l /\ n <= Len(raw)
          <6>1. raw = Encode(added)
            BY <1>2, <2>5 DEF RInv, Sent
          <6>2. PICK j : j = k + 1 /\ j \in 1 .. Len(added) /\ j - 1 = k
            BY <5>1
          <6>3. /\ Len(Encoded(added)[j]) = Len(Encoded(added)[j - 1]) + Len(Code(added[j]))
                /\ Len(Encoded(added)[j]) <= Len(Encode(added))
            BY <3>2, <6>2, EncodedAt
          <6>. QED  BY <3>2, <5>3, <6>1, <6>2, <6>3, Zenon
        <5>5. l \in Nat /\ l > 0
          BY <5>2, <5>3, CodeFacts, WidthFacts DEF Header
        <5>. QED  BY <1>2, <5>4, <5>5
      <4>. QED  BY <4>1
    <3>. QED  BY <3>2, <3>3, SubSeqFull
  <2>6. WalkExact' /\ RoundTrip'
    BY <2>1, <2>4, <2>5 DEF RInv, WalkExact, RoundTrip
  <2>7. Sent' /\ Between' /\ Delivering'
    BY <1>2, <2>1 DEF RInv, Sent, Between, Delivering
  <2>. QED  BY <2>2, <2>6, <2>7 DEF RInv
<1>. QED  BY <1>3, <1>4, <1>5

LEMMA NextRInv == RInv /\ [Next]_vars => RInv'
<1> SUFFICES ASSUME RInv, [Next]_vars PROVE RInv'
  OBVIOUS
<1>1. CASE Fill
  BY <1>1, AddRInv DEF Fill
<1>2. CASE SendBatch \/ Receive
  BY <1>2, ReceiveRInv
<1>3. CASE Parse
  BY <1>3, ValidateRInv, AcceptRInv, WalkRInv DEF Parse
<1>4. CASE Free
  <2>1. Init'
    BY <1>4 DEF Free, Init, NoBatch
  <2>2. Init' => RInv'
    BY InitRInv, PTL
  <2>. QED  BY <2>1, <2>2
<1>5. CASE UNCHANGED vars
  <2>1. UNCHANGED <<pc, buf, length, added, overrun, raw, p, tmp_len, status, visited, past>>
    BY <1>5 DEF vars
  <2>2. IInv'
    BY <1>5, NextIInv DEF RInv
  <2>3. Sent' /\ Between' /\ Delivering'
    BY <2>1 DEF RInv, Sent, Between, Delivering, NextCmd
  <2>4. WalkExact' /\ RoundTrip'
    BY <2>1 DEF RInv, WalkExact, RoundTrip
  <2>. QED  BY <2>2, <2>3, <2>4 DEF RInv
<1>. QED  BY <1>1, <1>2, <1>3, <1>4, <1>5 DEF Next

\* The way of a batch from the sender to the receiver.
THEOREM TransferInductive == Spec => []RInv
<1>. QED  BY InitRInv, NextRInv, PTL DEF Spec

\* atlas_cmd_batch_get hands out exactly the commands of an accepted buffer.
THEOREM AlwaysWalkExact == Spec => []WalkExact
<1>1. RInv => WalkExact
  BY DEF RInv
<1>. QED  BY <1>1, TransferInductive, PTL

\* What is added with atlas_cmd_batch_add is what atlas_cmd_batch_get hands out,
\* and the block is overrun exactly when the batch is too long for a uint16_t.
THEOREM AlwaysRoundTrip == Spec => []RoundTrip
<1>1. RInv => RoundTrip
  BY DEF RInv
<1>. QED  BY <1>1, TransferInductive, PTL
=============================================================================
