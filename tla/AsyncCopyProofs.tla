--------------------------- MODULE AsyncCopyProofs --------------------------
(***************************************************************************)
(* Proofs about AsyncCopy for every input file, block size and number of   *)
(* buffers: the requests in flight are counted and listed exactly, no two  *)
(* buffers hold one block, and the program implements FileCopy up to its   *)
(* liveness.                                                               *)
(***************************************************************************)
EXTENDS AsyncCopy, FiniteSetTheorems, SequenceTheorems, TLAPS

\* The next block to take begins at a multiple of the block size.
OffOK == off % BSZ = 0

\* Only the buffer of the last block is ever marked, and then nothing remains.
LastOK == \A b \in Bufs : last[b] => off >= Size

\* What a buffer holds once its read has ended: the bytes of its block as they
\* are in the input, and after translate() as they belong in the output.
Plain(b) == \A j \in 1 .. Len(data[b]) : data[b][j] = Input[aio_offset[b] + j]
Enciphered(b) ==
    \A j \in 1 .. Len(data[b]) : data[b][j] = FC!Rot13(Input[aio_offset[b] + j])

DataOK ==
    \A b \in Bufs :
        /\ op[b] # "UNUSED" => aio_offset[b] < Size
        /\ op[b] = "READ_PENDING" /\ aio[b] = "done" =>
              aio_offset[b] + Len(data[b]) <= Len(Input) /\ Plain(b)
        /\ op[b] = "WRITE_PENDING" =>
              /\ aio_offset[b] + Len(data[b]) <= Len(Input) /\ Enciphered(b)
              /\ aio_nbytes[b] = Len(data[b])
              /\ Len(data[b]) = BSZ \/ last[b]

\* The inductive invariant.
IInv ==
    /\ TypeOK /\ NumopTrue /\ OneBufferEach
    /\ OffOK /\ LastOK /\ DataOK

-----------------------------------------------------------------------------
\* Facts about the operators.

LEMMA DivMod ==
    ASSUME NEW a \in Nat, NEW b \in Nat \ {0}
    PROVE  a = b * (a \div b) + (a % b) /\ a % b \in 0 .. (b - 1) /\ a \div b \in Nat
OBVIOUS

LEMMA FactorUnique ==
    ASSUME NEW b \in Nat \ {0}, NEW k \in Nat, NEW m \in Nat,
           b * k <= b * m, b * m < b * k + b
    PROVE  k = m
OBVIOUS

\* Two multiples of b less than b apart are equal.
LEMMA MultiplesApart ==
    ASSUME NEW a \in Nat, NEW c \in Nat, NEW b \in Nat \ {0},
           a % b = 0, c % b = 0, a <= c, c < a + b
    PROVE  c = a
<1>1. a = b * (a \div b) /\ a \div b \in Nat
  BY DivMod
<1>2. c = b * (c \div b) /\ c \div b \in Nat
  BY DivMod
<1>3. a \div b = c \div b
  BY <1>1, <1>2, FactorUnique
<1>4. QED
  BY <1>1, <1>2, <1>3

LEMMA NextMultiple ==
    ASSUME NEW a \in Nat, NEW b \in Nat \ {0}, a % b = 0
    PROVE  (a + b) % b = 0
<1> DEFINE q == (a + b) \div b
           k == a \div b
<1>1. a = b * k /\ k \in Nat
  BY DivMod
<1>2. a + b \in Nat
  OBVIOUS
<1>3. /\ a + b = b * q + ((a + b) % b)
      /\ q \in Nat /\ (a + b) % b \in 0 .. (b - 1)
  BY <1>2, DivMod
<1> HIDE DEF q, k
<1>4. b * (k + 1) = b * k + b
  BY <1>1
<1>5. b * q <= b * (k + 1) /\ b * (k + 1) < b * q + b
  BY <1>1, <1>3, <1>4
<1>6. q = k + 1
  BY <1>1, <1>3, <1>5, FactorUnique
<1>7. QED
  BY <1>1, <1>3, <1>4, <1>6

\* What a read finds between two offsets of the input.
LEMMA ReadBytes ==
    ASSUME NEW m \in Nat, NEW n \in Nat, n <= Len(Input),
           NEW t, t = SubSeq(Input, m + 1, n)
    PROVE  /\ t \in Seq(Byte)
           /\ Len(t) = IF m < n THEN n - m ELSE 0
           /\ \A j \in 1 .. Len(t) : t[j] = Input[m + j]
BY InputAssumption

\* The comparisons of translate() compute the rotation of FileCopy.
LEMMA TranslateIsRot13 ==
    ASSUME NEW c \in Byte
    PROVE  translate(c) = FC!Rot13(c) /\ translate(c) \in Byte
BY DEF translate, isalpha, FC!Rot13, Byte

LEMMA SeqOfFunction ==
    ASSUME NEW S, NEW n \in Nat, NEW f \in [1 .. n -> S]
    PROVE  f \in Seq(S)
OBVIOUS

LEMMA LenOfDomain ==
    ASSUME NEW S, NEW n \in Nat, NEW f \in Seq(S), DOMAIN f = 1 .. n
    PROVE  Len(f) = n
OBVIOUS

\* The loop over a buffer.
LEMMA TranslateBuffer ==
    ASSUME NEW d \in Seq(Byte), NEW e, e = [j \in DOMAIN d |-> translate(d[j])]
    PROVE  /\ e \in Seq(Byte) /\ Len(e) = Len(d)
           /\ \A j \in 1 .. Len(d) : e[j] = FC!Rot13(d[j])
<1>1. DOMAIN d = 1 .. Len(d) /\ Len(d) \in Nat
  OBVIOUS
<1>2. \A j \in 1 .. Len(d) :
         d[j] \in Byte /\ e[j] = FC!Rot13(d[j]) /\ e[j] \in Byte
  <2>1. SUFFICES ASSUME NEW j \in 1 .. Len(d)
                 PROVE  d[j] \in Byte /\ e[j] = FC!Rot13(d[j]) /\ e[j] \in Byte
    OBVIOUS
  <2>2. d[j] \in Byte
    BY ElementOfSeq
  <2>3. e[j] = translate(d[j])
    BY <1>1
  <2>4. QED
    BY <2>2, <2>3, TranslateIsRot13
<1>3. e \in [1 .. Len(d) -> Byte]
  BY <1>1, <1>2
<1>4. e \in Seq(Byte)
  BY <1>1, <1>3, SeqOfFunction
<1>5. DOMAIN e = 1 .. Len(d)
  BY <1>1
<1>6. Len(e) = Len(d)
  BY <1>1, <1>4, <1>5, LenOfDomain
<1>7. QED
  BY <1>2, <1>4, <1>6

-----------------------------------------------------------------------------
\* The invariant.

USE InputAssumption, SizesAssumption

LEMMA SmallSet ==
    ASSUME NEW S \in SUBSET Bufs
    PROVE  IsFiniteSet(S) /\ Cardinality(S) \in 0 .. NBUF
<1>1. IsFiniteSet(Bufs) /\ Cardinality(Bufs) = NBUF
  <2>1. 0 \in Int /\ NBUF - 1 \in Int /\ ~(0 > NBUF - 1) /\ (NBUF - 1) - 0 + 1 = NBUF
    OBVIOUS
  <2>2. QED
    BY <2>1, FS_Interval DEF Bufs
<1>2. IsFiniteSet(S) /\ Cardinality(S) <= NBUF
  BY <1>1, FS_Subset
<1>3. Cardinality(S) \in Nat
  BY <1>2, FS_CardinalityType
<1>4. QED
  BY <1>2, <1>3

LEMMA InFlightSubset == InFlight \subseteq Bufs /\ InFlight \in SUBSET Bufs
BY DEF InFlight

LEMMA IInvInit == Init => IInv
<1> SUFFICES ASSUME Init PROVE IInv
  OBVIOUS
<1> USE DEF Init
<1>1. TypeOK
  <2>1. << >> \in Seq(Byte) /\ Len(<< >>) = 0
    BY EmptySeq
  <2>2. data \in [Bufs -> Seq(Byte)]
    BY <2>1
  <2>3. \A b \in Bufs : Len(data[b]) <= BSZ
    BY <2>1
  <2>4. aiolist \subseteq Bufs
    BY Zenon
  <2>5. out \in [1 .. Len(Input) -> Byte \cup {-1}]
    OBVIOUS
  <2>6. Len(Input) \in Nat
    OBVIOUS
  <2>7. QED
    BY <2>2, <2>3, <2>4, <2>5, <2>6 DEF TypeOK, Ended
<1>2. InFlight = {}
  BY DEF InFlight
<1>3. NumopTrue
  BY <1>2, FS_EmptySet DEF NumopTrue
<1>4. OneBufferEach
  BY <1>2 DEF OneBufferEach
<1>5. OffOK
  BY DEF OffOK
<1>6. LastOK /\ DataOK
  BY DEF LastOK, DataOK
<1>7. QED
  BY <1>1, <1>3, <1>4, <1>5, <1>6 DEF IInv

\* Steps of the loop and of another program that touch no buffer.
LEMMA OthersKeep ==
    ASSUME IInv, UNCHANGED <<bufs, aio, loop, out>>,
           pc' \in {"scan", "suspend"} \cup Ended, i' \in 0 .. NBUF,
           ilen' \in 0 .. Len(Input)
    PROVE  IInv'
<1> USE DEF IInv, bufs, loop
<1>1. TypeOK'
  BY DEF TypeOK
<1>2. InFlight' = InFlight
  BY DEF InFlight
<1>3. NumopTrue' /\ OneBufferEach'
  BY <1>2 DEF NumopTrue, OneBufferEach
<1>4. OffOK' /\ LastOK'
  BY DEF OffOK, LastOK
<1>5. DataOK'
  BY DEF DataOK, Plain, Enciphered
<1>6. QED
  BY <1>1, <1>3, <1>4, <1>5

LEMMA ReadKeeps == IInv /\ aio_read => IInv'
<1> SUFFICES ASSUME IInv, aio_read PROVE IInv'
  OBVIOUS
<1> USE DEF IInv
<1>0. i \in Bufs /\ op[i] = "UNUSED" /\ off < Size /\ off \in Nat /\ Size \in Nat
  BY DEF aio_read, At, TypeOK
<1>1. TypeOK' /\ off' = off + BSZ
  <2>1. /\ op' \in [Bufs -> {"UNUSED", "READ_PENDING", "WRITE_PENDING"}]
        /\ aio' \in [Bufs -> {"none", "EINPROGRESS", "done", "error"}]
    BY <1>0 DEF aio_read, TypeOK
  <2>2. last' \in [Bufs -> BOOLEAN]
    BY <1>0 DEF aio_read, TypeOK
  <2>3. aio_offset' \in [Bufs -> 0 .. Size] /\ aio_nbytes' \in [Bufs -> 0 .. BSZ]
    BY <1>0 DEF aio_read, TypeOK
  <2>4. aiolist' \subseteq Bufs
    BY <1>0 DEF aio_read, TypeOK, Listed
  <2>5. off' = off + BSZ /\ off' \in 0 .. (Size + BSZ)
    BY <1>0 DEF aio_read, NextOff
  <2>6. numop' \in 0 .. NBUF
    <3>1. i \notin InFlight /\ InFlight \cup {i} \in SUBSET Bufs
      BY <1>0 DEF InFlight
    <3>2. Cardinality(InFlight \cup {i}) = Cardinality(InFlight) + 1
      BY <3>1, InFlightSubset, SmallSet, FS_AddElement
    <3>3. Cardinality(InFlight \cup {i}) \in 0 .. NBUF
      BY <3>1, SmallSet
    <3>4. QED
      BY <3>2, <3>3 DEF aio_read, NumopTrue
  <2>7. i' \in 0 .. NBUF
    BY <1>0 DEF aio_read, Bufs
  <2>8. UNCHANGED <<data, pc, ilen, out>>
    BY DEF aio_read
  <2>9. QED
    BY <2>1, <2>2, <2>3, <2>4, <2>5, <2>6, <2>7, <2>8 DEF TypeOK
<1>2. InFlight' = InFlight \cup {i} /\ i \notin InFlight
  BY <1>0 DEF InFlight, aio_read, TypeOK
<1>3. NumopTrue'
  <2>1. Cardinality(InFlight') = Cardinality(InFlight) + 1
    BY <1>2, InFlightSubset, SmallSet, FS_AddElement
  <2>2. \A b \in Bufs : (aio'[b] = "none") <=> (op'[b] = "UNUSED")
    BY <1>0 DEF aio_read, TypeOK, NumopTrue
  <2>3. numop' = Cardinality(InFlight')
    BY <2>1 DEF aio_read, NumopTrue
  <2>4. aiolist' = InFlight'
    BY <1>2 DEF aio_read, NumopTrue, Listed
  <2>5. QED
    BY <2>2, <2>3, <2>4 DEF NumopTrue
<1>4. /\ aio_offset'[i] = off
      /\ \A b \in Bufs \ {i} : aio_offset'[b] = aio_offset[b] /\ last'[b] = last[b]
      /\ last'[i] <=> last[i] \/ off + BSZ >= Size
  <2>1. /\ aio_offset'[i] = off
        /\ \A b \in Bufs \ {i} : aio_offset'[b] = aio_offset[b]
    BY <1>0 DEF aio_read, TypeOK
  <2>2. \A b \in Bufs \ {i} : last'[b] = last[b]
    BY <1>0 DEF aio_read, TypeOK
  <2>3. last'[i] <=> last[i] \/ NextOff >= Size
    BY <1>0, Zenon DEF aio_read, TypeOK
  <2>4. QED
    BY <2>1, <2>2, <2>3 DEF NextOff
<1>5. \A b \in Bufs : ~last[b]
  BY <1>0 DEF LastOK
<1>6. OneBufferEach'
  <2>1. \A b \in InFlight : b \in Bufs \ {i} /\ aio_offset[b] < off /\ aio_offset[b] \in Nat
    BY <1>2, InFlightSubset DEF OneBufferEach, TypeOK
  <2>2. ASSUME NEW b \in InFlight', NEW c \in InFlight', b # c
        PROVE  aio_offset'[b] # aio_offset'[c]
    <3>1. CASE b = i
      BY <1>0, <1>2, <1>4, <2>1, <2>2, <3>1
    <3>2. CASE c = i
      BY <1>0, <1>2, <1>4, <2>1, <2>2, <3>2
    <3>3. CASE b # i /\ c # i
      BY <1>2, <1>4, <2>1, <2>2, <3>3 DEF OneBufferEach
    <3>4. QED
      BY <3>1, <3>2, <3>3
  <2>3. ASSUME NEW b \in InFlight'
        PROVE  /\ aio_offset'[b] < off' /\ aio_offset'[b] % BSZ = 0
               /\ last'[b] <=> aio_offset'[b] + BSZ >= Size
    <3>1. CASE b = i
      BY <1>0, <1>1, <1>4, <1>5, <3>1 DEF OffOK
    <3>2. CASE b # i
      <4>1. b \in InFlight /\ b \in Bufs \ {i}
        BY <1>2, <2>1, <3>2
      <4>2. aio_offset[b] < off /\ aio_offset[b] % BSZ = 0
               /\ (last[b] <=> aio_offset[b] + BSZ >= Size)
        BY <4>1 DEF OneBufferEach
      <4>3. QED
        BY <1>0, <1>1, <1>4, <2>1, <4>1, <4>2
    <3>3. QED
      BY <3>1, <3>2
  <2>4. QED
    BY <2>2, <2>3 DEF OneBufferEach
<1>7. OffOK'
  BY <1>0, <1>1, NextMultiple DEF OffOK
<1>8. LastOK'
  BY <1>0, <1>1, <1>4, <1>5 DEF LastOK
<1>9. DataOK'
  <2>1. op'[i] = "READ_PENDING" /\ aio'[i] = "EINPROGRESS"
    BY <1>0 DEF aio_read, TypeOK
  <2>2. \A b \in Bufs \ {i} : /\ op'[b] = op[b] /\ aio'[b] = aio[b]
                              /\ aio_nbytes'[b] = aio_nbytes[b] /\ data'[b] = data[b]
    BY <1>0 DEF aio_read, TypeOK
  <2>3. QED
    BY <1>0, <1>4, <2>1, <2>2 DEF DataOK, Plain, Enciphered
<1>10. QED
  BY <1>1, <1>3, <1>6, <1>7, <1>8, <1>9

LEMMA WriteKeeps == IInv /\ aio_write => IInv'
<1> SUFFICES ASSUME IInv, aio_write PROVE IInv'
  OBVIOUS
<1> USE DEF IInv
<1>0. /\ i \in Bufs /\ op[i] = "READ_PENDING" /\ aio[i] = "done" /\ ~Short(i)
      /\ data[i] \in Seq(Byte)
  BY DEF aio_write, At, TypeOK
<1> DEFINE d == data[i]
           e == [j \in DOMAIN d |-> translate(d[j])]
<1>1. /\ e \in Seq(Byte) /\ Len(e) = Len(d) /\ Len(d) \in Nat
      /\ \A j \in 1 .. Len(d) : e[j] = FC!Rot13(d[j])
  BY <1>0, TranslateBuffer
<1>2. data' = [data EXCEPT ![i] = e]
  BY <1>0 DEF aio_write, TypeOK
<1> HIDE DEF e
<1>3. /\ data'[i] = e /\ aio_nbytes'[i] = Len(d)
      /\ op'[i] = "WRITE_PENDING" /\ aio'[i] = "EINPROGRESS"
      /\ \A b \in Bufs \ {i} : /\ op'[b] = op[b] /\ aio'[b] = aio[b]
                               /\ aio_nbytes'[b] = aio_nbytes[b] /\ data'[b] = data[b]
  BY <1>0, <1>2 DEF aio_write, TypeOK
<1>4. TypeOK'
  <2>1. /\ op' \in [Bufs -> {"UNUSED", "READ_PENDING", "WRITE_PENDING"}]
        /\ aio' \in [Bufs -> {"none", "EINPROGRESS", "done", "error"}]
    BY <1>0 DEF aio_write, TypeOK
  <2>2. data' \in [Bufs -> Seq(Byte)]
    BY <1>0, <1>1, <1>2 DEF TypeOK
  <2>3. Len(d) <= BSZ /\ Len(d) \in 0 .. BSZ
    BY <1>0, <1>1 DEF TypeOK
  <2>4. \A b \in Bufs : Len(data'[b]) <= BSZ
    BY <1>1, <1>3, <2>3 DEF TypeOK
  <2>5. aio_nbytes' \in [Bufs -> 0 .. BSZ]
    BY <1>0, <2>3 DEF aio_write, TypeOK
  <2>6. i' \in 0 .. NBUF
    BY <1>0 DEF aio_write, Bufs
  <2>7. UNCHANGED <<last, aio_offset, aiolist, numop, off, pc, ilen, out>>
    BY DEF aio_write, loop
  <2>8. QED
    BY <2>1, <2>2, <2>4, <2>5, <2>6, <2>7 DEF TypeOK
<1>5. InFlight' = InFlight
  BY <1>0, <1>3 DEF InFlight
<1>6. UNCHANGED <<aiolist, numop, off, last, aio_offset>>
  BY DEF aio_write, loop
<1>7. NumopTrue' /\ OneBufferEach'
  <2>1. \A b \in Bufs : (aio'[b] = "none") <=> (op'[b] = "UNUSED")
    BY <1>3 DEF NumopTrue
  <2>2. QED
    BY <1>5, <1>6, <2>1 DEF NumopTrue, OneBufferEach
<1>8. OffOK' /\ LastOK'
  BY <1>6 DEF OffOK, LastOK
<1>9. DataOK'
  <2>1. /\ aio_offset[i] + Len(d) <= Len(Input)
        /\ \A j \in 1 .. Len(d) : d[j] = Input[aio_offset[i] + j]
        /\ Len(d) = BSZ \/ last[i]
    BY <1>0 DEF DataOK, Plain, Short
  <2>2. \A j \in 1 .. Len(data'[i]) :
           data'[i][j] = FC!Rot13(Input[aio_offset'[i] + j])
    BY <1>1, <1>3, <1>6, <2>1
  <2>3. /\ aio_offset'[i] + Len(data'[i]) <= Len(Input)
        /\ aio_nbytes'[i] = Len(data'[i]) /\ (Len(data'[i]) = BSZ \/ last'[i])
    BY <1>1, <1>3, <1>6, <2>1
  <2>4. QED
    BY <1>0, <1>3, <1>6, <2>2, <2>3 DEF DataOK, Plain, Enciphered
<1>10. QED
  BY <1>4, <1>7, <1>8, <1>9

LEMMA DoneKeeps == IInv /\ write_done => IInv'
<1> SUFFICES ASSUME IInv, write_done PROVE IInv'
  OBVIOUS
<1> USE DEF IInv
<1>0. i \in Bufs /\ op[i] = "WRITE_PENDING"
  BY DEF write_done, At
<1>1. /\ op'[i] = "UNUSED" /\ aio'[i] = "none"
      /\ \A b \in Bufs \ {i} : op'[b] = op[b] /\ aio'[b] = aio[b]
      /\ UNCHANGED <<last, aio_offset, aio_nbytes, data, off, pc, ilen, out>>
  BY <1>0 DEF write_done, TypeOK
<1>2. InFlight' = InFlight \ {i} /\ i \in InFlight
  BY <1>0, <1>1 DEF InFlight
<1>3. Cardinality(InFlight') = Cardinality(InFlight) - 1
  BY <1>2, InFlightSubset, SmallSet, FS_RemoveElement
<1>4. NumopTrue'
  <2>1. numop' = Cardinality(InFlight') /\ aiolist' = InFlight'
    BY <1>2, <1>3 DEF write_done, NumopTrue
  <2>2. QED
    BY <1>1, <2>1 DEF NumopTrue
<1>5. TypeOK'
  <2>1. /\ op' \in [Bufs -> {"UNUSED", "READ_PENDING", "WRITE_PENDING"}]
        /\ aio' \in [Bufs -> {"none", "EINPROGRESS", "done", "error"}]
    BY <1>0 DEF write_done, TypeOK
  <2>2. InFlight' \in SUBSET Bufs
    BY <1>2, InFlightSubset
  <2>3. aiolist' \subseteq Bufs
    BY <1>4, <2>2 DEF NumopTrue
  <2>4. numop' \in 0 .. NBUF
    BY <1>4, <2>2, SmallSet DEF NumopTrue
  <2>5. i' \in 0 .. NBUF
    BY <1>0 DEF write_done, Bufs
  <2>6. QED
    BY <1>1, <2>1, <2>3, <2>4, <2>5 DEF TypeOK
<1>6. OneBufferEach'
  BY <1>1, <1>2 DEF OneBufferEach
<1>7. OffOK' /\ LastOK'
  BY <1>1 DEF OffOK, LastOK
<1>8. DataOK'
  BY <1>1 DEF DataOK, Plain, Enciphered
<1>9. QED
  BY <1>4, <1>5, <1>6, <1>7, <1>8

LEMMA ReadCompletesKeeps ==
    ASSUME IInv, NEW b \in Bufs, ReadCompletes(b) PROVE IInv'
<1> USE DEF IInv
<1> DEFINE end == IF ilen < aio_offset[b] + BSZ THEN ilen ELSE aio_offset[b] + BSZ
           d == SubSeq(Input, aio_offset[b] + 1, end)
<1>0. op[b] = "READ_PENDING" /\ aio[b] = "EINPROGRESS"
  BY DEF ReadCompletes
<1>1. /\ aio_offset[b] \in Nat /\ end \in Nat /\ end <= Len(Input)
      /\ end <= aio_offset[b] + BSZ
  BY DEF TypeOK
<1>2. data' = [data EXCEPT ![b] = d]
  BY DEF ReadCompletes
<1> HIDE DEF end
<1>3. d = SubSeq(Input, aio_offset[b] + 1, end)
  OBVIOUS
<1> HIDE DEF d
<1>4. /\ d \in Seq(Byte)
      /\ Len(d) = IF aio_offset[b] < end THEN end - aio_offset[b] ELSE 0
      /\ \A j \in 1 .. Len(d) : d[j] = Input[aio_offset[b] + j]
  <2>1. PICK m \in Nat : m = aio_offset[b]
    BY <1>1
  <2>2. PICK n \in Nat : n = end
    BY <1>1
  <2>3. n <= Len(Input) /\ d = SubSeq(Input, m + 1, n)
    BY <1>1, <1>3, <2>1, <2>2
  <2>4. /\ d \in Seq(Byte)
        /\ Len(d) = IF m < n THEN n - m ELSE 0
        /\ \A j \in 1 .. Len(d) : d[j] = Input[m + j]
    <3>1. \A t : t = SubSeq(Input, m + 1, n) =>
             /\ t \in Seq(Byte)
             /\ Len(t) = IF m < n THEN n - m ELSE 0
             /\ \A j \in 1 .. Len(t) : t[j] = Input[m + j]
      BY <2>3, ReadBytes, Zenon
    <3>2. QED
      BY <2>3, <3>1, Zenon
  <2>5. QED
    BY <2>1, <2>2, <2>4, Zenon
<1>5. /\ data'[b] = d /\ aio'[b] = "done"
      /\ \A c \in Bufs \ {b} : data'[c] = data[c] /\ aio'[c] = aio[c]
      /\ UNCHANGED <<op, last, aio_offset, aio_nbytes, aiolist, numop, off>>
      /\ UNCHANGED <<pc, i, ilen, out>>
  BY <1>2 DEF ReadCompletes, TypeOK, loop
<1>6. TypeOK'
  <2>1. aio' \in [Bufs -> {"none", "EINPROGRESS", "done", "error"}]
    BY DEF ReadCompletes, TypeOK
  <2>2. data' \in [Bufs -> Seq(Byte)]
    BY <1>2, <1>4 DEF TypeOK
  <2>3. Len(d) <= BSZ
    BY <1>1, <1>4
  <2>4. \A c \in Bufs : Len(data'[c]) <= BSZ
    BY <1>5, <2>3 DEF TypeOK
  <2>5. QED
    BY <1>5, <2>1, <2>2, <2>4 DEF TypeOK
<1>7. InFlight' = InFlight
  BY <1>5 DEF InFlight
<1>8. NumopTrue' /\ OneBufferEach'
  <2>1. \A c \in Bufs : (aio'[c] = "none") <=> (op'[c] = "UNUSED")
    BY <1>0, <1>5 DEF NumopTrue
  <2>2. QED
    BY <1>5, <1>7, <2>1 DEF NumopTrue, OneBufferEach
<1>9. OffOK' /\ LastOK'
  BY <1>5 DEF OffOK, LastOK
<1>10. DataOK'
  <2>1. aio_offset[b] <= Len(Input)
    BY DEF TypeOK
  <2>2. aio_offset'[b] + Len(data'[b]) <= Len(Input)
    BY <1>1, <1>4, <1>5, <2>1
  <2>3. Plain(b)'
    BY <1>4, <1>5 DEF Plain
  <2>4. QED
    BY <1>0, <1>5, <2>2, <2>3 DEF DataOK, Plain, Enciphered
<1>11. QED
  BY <1>6, <1>8, <1>9, <1>10

\* A completed write, or an error: only the status of the request changes.
LEMMA StatusKeeps ==
    ASSUME IInv, NEW b \in Bufs, WriteCompletes(b) \/ Fails(b),
           out' \in [1 .. Len(Input) -> Byte \cup {-1}]
    PROVE  IInv'
<1> USE DEF IInv
<1>0. aio[b] = "EINPROGRESS" /\ op[b] # "UNUSED"
  BY DEF WriteCompletes, Fails, NumopTrue
<1>1. PICK s \in {"done", "error"} : aio' = [aio EXCEPT ![b] = s]
  BY DEF WriteCompletes, Fails
<1>2. op[b] = "WRITE_PENDING" \/ s = "error"
  BY <1>1 DEF WriteCompletes, Fails, TypeOK
<1>3. UNCHANGED <<op, last, aio_offset, aio_nbytes, data, aiolist, numop, off, pc, i, ilen>>
  BY DEF WriteCompletes, Fails, bufs, loop
<1>4. aio'[b] = s /\ \A c \in Bufs \ {b} : aio'[c] = aio[c]
  BY <1>1 DEF TypeOK
<1>5. TypeOK'
  BY <1>1, <1>3 DEF TypeOK
<1>6. InFlight' = InFlight
  BY <1>3 DEF InFlight
<1>7. NumopTrue' /\ OneBufferEach'
  <2>1. \A c \in Bufs : (aio'[c] = "none") <=> (op'[c] = "UNUSED")
    BY <1>0, <1>3, <1>4 DEF NumopTrue
  <2>2. QED
    BY <1>3, <1>6, <2>1 DEF NumopTrue, OneBufferEach
<1>8. OffOK' /\ LastOK'
  BY <1>3 DEF OffOK, LastOK
<1>9. DataOK'
  BY <1>2, <1>3, <1>4 DEF DataOK, Plain, Enciphered
<1>10. QED
  BY <1>5, <1>7, <1>8, <1>9

\* What a completed write leaves in the output file, in the terms of FileCopy.
LEMMA WriteEffect ==
    ASSUME IInv, NEW b \in Bufs, WriteCompletes(b)
    PROVE  /\ out' = [p \in DOMAIN out |->
                        IF p \in (aio_offset[b] + 1) .. (aio_offset[b] + aio_nbytes[b])
                        THEN FC!Rot13(Input[p]) ELSE out[p]]
           /\ out' \in [1 .. Len(Input) -> Byte \cup {-1}]
<1> USE DEF IInv
<1> DEFINE o == aio_offset[b]
           n == aio_nbytes[b]
<1>0. op[b] = "WRITE_PENDING"
  BY DEF WriteCompletes
<1>1. /\ o \in Nat /\ n \in Nat /\ n = Len(data[b]) /\ data[b] \in Seq(Byte)
      /\ \A j \in 1 .. n : data[b][j] = FC!Rot13(Input[o + j])
  BY <1>0 DEF TypeOK, DataOK, Enciphered
<1>2. DOMAIN out = 1 .. Len(Input)
  BY DEF TypeOK
<1>3. out' = [p \in DOMAIN out |-> IF p - o \in 1 .. n THEN data[b][p - o] ELSE out[p]]
  BY DEF WriteCompletes
<1> HIDE DEF o, n
<1>4. ASSUME NEW p \in DOMAIN out
      PROVE  /\ p - o \in 1 .. n <=> p \in (o + 1) .. (o + n)
             /\ p - o \in 1 .. n => /\ data[b][p - o] = FC!Rot13(Input[p])
                                    /\ data[b][p - o] \in Byte
  <2>1. p \in Int
    BY <1>2
  <2>2. p - o \in 1 .. n <=> p \in (o + 1) .. (o + n)
    BY <1>1, <2>1
  <2>3. ASSUME p - o \in 1 .. n
        PROVE  data[b][p - o] = FC!Rot13(Input[p]) /\ data[b][p - o] \in Byte
    <3>1. o + (p - o) = p
      BY <1>1, <2>1
    <3>2. data[b][p - o] = FC!Rot13(Input[o + (p - o)])
      BY <1>1, <2>3
    <3>3. data[b][p - o] \in Byte
      BY <1>1, <2>3, ElementOfSeq
    <3>4. QED
      BY <3>1, <3>2, <3>3
  <2>4. QED
    BY <2>2, <2>3
<1>5. out' = [p \in DOMAIN out |-> IF p \in (o + 1) .. (o + n)
                                   THEN FC!Rot13(Input[p]) ELSE out[p]]
  BY <1>3, <1>4
<1>6. out' \in [1 .. Len(Input) -> Byte \cup {-1}]
  BY <1>2, <1>3, <1>4 DEF TypeOK
<1>7. QED
  BY <1>5, <1>6 DEF o, n

LEMMA IInvStep == IInv /\ [Next]_vars => IInv'
<1> SUFFICES ASSUME IInv, [Next]_vars PROVE IInv'
  OBVIOUS
<1>1. /\ pc \in {"scan", "suspend"} \cup Ended /\ i \in 0 .. NBUF /\ ilen \in 0 .. Len(Input)
      /\ out \in [1 .. Len(Input) -> Byte \cup {-1}]
  BY DEF IInv, TypeOK
<1>2. CASE aio_read
  BY <1>2, ReadKeeps
<1>3. CASE aio_write
  BY <1>3, WriteKeeps
<1>4. CASE write_done
  BY <1>4, DoneKeeps
<1>5. CASE skip
  <2>1. i' \in 0 .. NBUF
    BY <1>5 DEF skip, At, Bufs
  <2>2. QED
    BY <1>1, <1>5, <2>1, OthersKeep DEF skip
<1>6. CASE quit
  BY <1>1, <1>6, OthersKeep DEF quit, Ended
<1>7. CASE scan_end
  BY <1>1, <1>7, OthersKeep DEF scan_end, Ended
<1>8. CASE aio_suspend
  BY <1>1, <1>8, OthersKeep DEF aio_suspend
<1>9. ASSUME NEW b \in Bufs, ReadCompletes(b) PROVE IInv'
  BY <1>9, ReadCompletesKeeps
<1>10. ASSUME NEW b \in Bufs, WriteCompletes(b) PROVE IInv'
  BY <1>10, WriteEffect, StatusKeeps
<1>11. ASSUME NEW b \in Bufs, Fails(b) PROVE IInv'
  <2>1. out' \in [1 .. Len(Input) -> Byte \cup {-1}]
    BY <1>1, <1>11 DEF Fails
  <2>2. QED
    BY <1>11, <2>1, StatusKeeps
<1>12. CASE Resize
  BY <1>1, <1>12, OthersKeep DEF Resize
<1>13. CASE UNCHANGED vars
  BY <1>1, <1>13, OthersKeep DEF vars
<1>14. QED
  BY <1>2, <1>3, <1>4, <1>5, <1>6, <1>7, <1>8, <1>9, <1>10, <1>11, <1>12, <1>13
     DEF Next, Main

LEMMA Invariance == Spec => []IInv
BY IInvInit, IInvStep, PTL DEF Spec

\* The count and the list of requests are exact in every reachable state, so the
\* main loop neither leaves while a request is in flight nor sleeps without one.
THEOREM RequestsCounted == Spec => []NumopTrue
<1>1. IInv => NumopTrue
  BY DEF IInv
<1>2. QED
  BY <1>1, Invariance, PTL

\* Every block is in at most one buffer, is taken only once, and only the buffer
\* of the last block is marked so.
THEOREM BlocksApart == Spec => []OneBufferEach
<1>1. IInv => OneBufferEach
  BY DEF IInv
<1>2. QED
  BY <1>1, Invariance, PTL

-----------------------------------------------------------------------------
\* The refinement.

\* The block of buffer b has been taken and is not yet in the output file.
Pending(b) == op[b] # "UNUSED" /\ (op[b] = "READ_PENDING" \/ aio[b] # "done")

LEMMA UnwrittenPending ==
    ASSUME NEW k PROVE Unwritten(k) <=> \E b \in Bufs : Pending(b) /\ aio_offset[b] = k
BY DEF Unwritten, InFlight, Pending

LEMMA UnwrittenPendingNext ==
    ASSUME NEW k
    PROVE  Unwritten(k)' <=> \E b \in Bufs : Pending(b)' /\ aio_offset'[b] = k
BY DEF Unwritten, InFlight, Pending

LEMMA SameCopied ==
    ASSUME off' = off, \A b \in Bufs : Pending(b)' <=> Pending(b),
           \A b \in Bufs : Pending(b) => aio_offset'[b] = aio_offset[b]
    PROVE  copied' = copied
<1>1. ASSUME NEW k PROVE Unwritten(k)' <=> Unwritten(k)
  BY UnwrittenPending, UnwrittenPendingNext
<1>2. QED
  BY <1>1 DEF copied, Blocks

LEMMA RefinesInit == Init => FC!Init
<1> SUFFICES ASSUME Init PROVE FC!Init
  OBVIOUS
<1>1. copied = {}
  <2>1. ASSUME NEW k \in Blocks, k < off PROVE FALSE
    BY <2>1 DEF Blocks, Init
  <2>2. QED
    BY <2>1 DEF copied
<1>2. out = [p \in 1 .. Len(Input) |-> -1] /\ status = "running"
  BY DEF Init, status, Ended
<1>3. QED
  BY <1>1, <1>2 DEF FC!Init, FC!Hole

\* A block taken is not a block copied.
LEMMA ReadRefines ==
    ASSUME IInv, aio_read PROVE copied' = copied
<1> USE DEF IInv
<1>1. /\ i \in Bufs /\ op[i] = "UNUSED" /\ off < Size /\ off \in Nat
      /\ off' = off + BSZ
  BY DEF aio_read, At, TypeOK, NextOff
<1>2. /\ op'[i] = "READ_PENDING" /\ aio_offset'[i] = off
      /\ \A b \in Bufs \ {i} : /\ op'[b] = op[b] /\ aio'[b] = aio[b]
                               /\ aio_offset'[b] = aio_offset[b]
  BY <1>1 DEF aio_read, TypeOK
<1>3. ~Pending(i) /\ op'[i] # "UNUSED"
  BY <1>1, <1>2 DEF Pending
<1>4. \A b \in Bufs \ {i} : Pending(b)' <=> Pending(b)
  BY <1>2 DEF Pending
<1>5. ASSUME NEW k \in Blocks
      PROVE  k < off' /\ ~Unwritten(k)' <=> k < off /\ ~Unwritten(k)
  <2>1. k \in Nat /\ k % BSZ = 0
    BY DEF Blocks
  <2>2. CASE k < off
    <3>1. Unwritten(k)' <=> Unwritten(k)
      BY <1>1, <1>2, <1>3, <1>4, <2>1, <2>2, UnwrittenPending, UnwrittenPendingNext
    <3>2. k < off'
      BY <1>1, <2>1, <2>2
    <3>3. QED
      BY <2>2, <3>1, <3>2
  <2>3. CASE k = off
    <3>1. op'[i] = "READ_PENDING" /\ aio_offset'[i] = k
      BY <1>2, <2>3
    <3>2. \E b \in Bufs : Pending(b)' /\ aio_offset'[b] = k
      BY <1>1, <3>1 DEF Pending
    <3>3. Unwritten(k)'
      BY <3>2, UnwrittenPendingNext
    <3>4. QED
      BY <1>1, <2>3, <3>3
  <2>4. CASE k > off
    <3>1. ASSUME k < off' PROVE FALSE
      <4>1. off <= k /\ k < off + BSZ /\ k # off
        BY <1>1, <2>1, <2>4, <3>1
      <4>2. off % BSZ = 0
        BY DEF OffOK
      <4>3. k = off
        BY <1>1, <2>1, <4>1, <4>2, MultiplesApart, Zenon
      <4>4. QED
        BY <4>1, <4>3
    <3>2. QED
      BY <1>1, <2>1, <2>4, <3>1
  <2>5. QED
    BY <1>1, <2>1, <2>2, <2>3, <2>4
<1>6. QED
  BY <1>5, Zenon DEF copied, Blocks

\* A completed write is the step Put of its block.
LEMMA WriteRefines ==
    ASSUME IInv, NEW b \in Bufs, WriteCompletes(b)
    PROVE  FC!Next
<1> USE DEF IInv
<1> DEFINE o == aio_offset[b]
           n == aio_nbytes[b]
<1>1. /\ pc \notin Ended /\ op[b] = "WRITE_PENDING" /\ aio[b] = "EINPROGRESS"
      /\ UNCHANGED <<op, last, aio_offset, aio_nbytes, data, off, pc>>
      /\ aio' = [aio EXCEPT ![b] = "done"]
  BY DEF WriteCompletes, Running, bufs, loop
<1>2. b \in InFlight
  BY <1>1 DEF InFlight
<1>3. /\ o \in Nat /\ o < off /\ off \in Nat /\ o % BSZ = 0
      /\ n \in 0 .. BSZ /\ n = Len(data[b])
      /\ last[b] <=> o + BSZ >= Size
      /\ Len(data[b]) = BSZ \/ last[b]
  BY <1>1, <1>2 DEF TypeOK, OneBufferEach, DataOK
<1>4. o \in Blocks
  <2>1. o < Size
    BY <1>1 DEF DataOK
  <2>2. QED
    BY <1>3, <2>1 DEF Blocks
<1>5. Pending(b) /\ ~Pending(b)' /\ \A c \in Bufs \ {b} : Pending(c)' <=> Pending(c)
  BY <1>1 DEF Pending, TypeOK
<1>6. \A c \in Bufs \ {b} : Pending(c) => aio_offset[c] # o
  BY <1>2, <1>5 DEF Pending, InFlight, OneBufferEach
<1>7. o \notin copied
  BY <1>5, UnwrittenPending DEF copied
<1>8. copied' = copied \cup {o}
  <2>1. ASSUME NEW k \in Blocks
        PROVE  k < off' /\ ~Unwritten(k)' <=> (k < off /\ ~Unwritten(k)) \/ k = o
    <3>1. CASE k = o
      <4>1. ~Unwritten(k)'
        BY <1>1, <1>5, <1>6, <3>1, UnwrittenPendingNext
      <4>2. QED
        BY <1>1, <1>3, <3>1, <4>1
    <3>2. CASE k # o
      <4>1. Unwritten(k)' <=> Unwritten(k)
        BY <1>1, <1>5, <3>2, UnwrittenPending, UnwrittenPendingNext
      <4>2. QED
        BY <1>1, <3>2, <4>1
    <3>3. QED
      BY <3>1, <3>2
  <2>2. Blocks' = Blocks
    BY DEF Blocks
  <2>3. QED
    BY <1>4, <2>1, <2>2, Zenon DEF copied
<1>9. status = "running" /\ status' = status
  BY <1>1 DEF status
<1>10. o + BSZ < Size => n = BSZ
  BY <1>3
<1>11. out' = [p \in DOMAIN out |-> IF p \in (o + 1) .. (o + n)
                                    THEN FC!Rot13(Input[p]) ELSE out[p]]
  BY WriteEffect
<1> HIDE DEF o, n
<1>12. FC!Put(o, n)
  BY <1>7, <1>8, <1>9, <1>10, <1>11 DEF FC!Put
<1>13. o \in FC!Blocks
  BY <1>4 DEF Blocks, FC!Blocks
<1>14. QED
  BY <1>3, <1>12, <1>13 DEF FC!Next

\* The program leaves the loop only when every block is in the output file.
LEMMA EndRefines ==
    ASSUME IInv, scan_end PROVE FC!Next \/ UNCHANGED FC!vars
<1> USE DEF IInv
<1>1. pc = "scan" /\ UNCHANGED <<op, aio_offset, aio, off, out>>
  BY DEF scan_end, bufs, loop
<1>2. copied' = copied
  BY <1>1, SameCopied DEF Pending
<1>3. status = "running"
  BY <1>1 DEF status, Ended
<1>4. CASE pc' \in {"suspend", "scan"}
  <2>1. status' = status
    BY <1>3, <1>4 DEF status, Ended
  <2>2. QED
    BY <1>1, <1>2, <2>1 DEF FC!vars
<1>5. CASE pc' = "failed"
  <2>1. status' = "failed"
    BY <1>5 DEF status, Ended
  <2>2. FC!Fail
    BY <1>1, <1>2, <1>3, <2>1 DEF FC!Fail
  <2>3. QED
    BY <2>2 DEF FC!Next
<1>6. CASE pc' = "exit"
  <2>1. numop = 0 /\ off >= Size
    BY <1>6 DEF scan_end
  <2>2. InFlight = {}
    BY <2>1, InFlightSubset, SmallSet, FS_EmptySet DEF NumopTrue
  <2>3. \A k \in Blocks : k < off /\ ~Unwritten(k)
    <3>1. ASSUME NEW k \in Blocks PROVE k < off
      BY <2>1 DEF Blocks, TypeOK
    <3>2. QED
      BY <2>2, <3>1 DEF Unwritten
  <2>4. copied = Blocks
    BY <2>3, Zenon DEF copied
  <2>5. copied = FC!Blocks
    BY <2>4 DEF Blocks, FC!Blocks
  <2>6. status' = "exit"
    BY <1>6 DEF status, Ended
  <2>7. FC!Succeed
    BY <1>1, <1>2, <1>3, <2>5, <2>6 DEF FC!Succeed
  <2>8. QED
    BY <2>7 DEF FC!Next
<1>7. QED
  BY <1>4, <1>5, <1>6 DEF scan_end, Ended

LEMMA RefinesStep == IInv /\ [Next]_vars => [FC!Next]_(FC!vars)
<1> SUFFICES ASSUME IInv, [Next]_vars PROVE FC!Next \/ UNCHANGED FC!vars
  OBVIOUS
<1>1. ASSUME copied' = copied, pc' = pc, out' = out PROVE UNCHANGED FC!vars
  BY <1>1 DEF FC!vars, status
<1>2. CASE aio_read
  BY <1>1, <1>2, ReadRefines DEF aio_read
<1>3. CASE aio_write
  <2>1. /\ i \in Bufs /\ op[i] = "READ_PENDING" /\ aio_offset' = aio_offset /\ off' = off
        /\ pc' = pc /\ out' = out
    BY <1>3 DEF aio_write, At, loop
  <2>2. /\ op'[i] = "WRITE_PENDING" /\ aio'[i] = "EINPROGRESS"
        /\ \A b \in Bufs \ {i} : op'[b] = op[b] /\ aio'[b] = aio[b]
    BY <1>3, <2>1 DEF aio_write, IInv, TypeOK
  <2>3. \A b \in Bufs : Pending(b)' <=> Pending(b)
    BY <2>1, <2>2 DEF Pending
  <2>4. QED
    BY <1>1, <2>1, <2>3, SameCopied
<1>4. CASE write_done
  <2>1. /\ i \in Bufs /\ op[i] = "WRITE_PENDING" /\ aio[i] = "done"
        /\ aio_offset' = aio_offset /\ off' = off /\ pc' = pc /\ out' = out
    BY <1>4 DEF write_done, At
  <2>2. /\ op'[i] = "UNUSED"
        /\ \A b \in Bufs \ {i} : op'[b] = op[b] /\ aio'[b] = aio[b]
    BY <1>4, <2>1 DEF write_done, IInv, TypeOK
  <2>3. \A b \in Bufs : Pending(b)' <=> Pending(b)
    BY <2>1, <2>2 DEF Pending
  <2>4. QED
    BY <1>1, <2>1, <2>3, SameCopied
<1>5. CASE skip \/ aio_suspend \/ Resize \/ UNCHANGED vars
  <2>1. UNCHANGED <<op, aio_offset, aio, off, out>>
    BY <1>5 DEF skip, aio_suspend, Resize, vars, bufs, loop
  <2>2. copied' = copied
    BY <2>1, SameCopied DEF Pending
  <2>3. status' = status
    BY <1>5 DEF skip, aio_suspend, Resize, vars, status, Ended
  <2>4. QED
    BY <2>1, <2>2, <2>3 DEF FC!vars
<1>6. CASE quit
  <2>1. UNCHANGED <<op, aio_offset, aio, off, out>> /\ pc = "scan" /\ pc' = "failed"
    BY <1>6 DEF quit, At, bufs, loop
  <2>2. copied' = copied
    BY <2>1, SameCopied DEF Pending
  <2>3. status = "running" /\ status' = "failed"
    BY <2>1 DEF status, Ended
  <2>4. FC!Fail
    BY <2>1, <2>2, <2>3 DEF FC!Fail
  <2>5. QED
    BY <2>4 DEF FC!Next
<1>7. CASE scan_end
  BY <1>7, EndRefines
<1>8. ASSUME NEW b \in Bufs, ReadCompletes(b) \/ Fails(b)
      PROVE  UNCHANGED FC!vars
  <2>1. /\ UNCHANGED <<op, aio_offset, off, pc, out>> /\ aio[b] = "EINPROGRESS"
        /\ op[b] = "READ_PENDING" \/ aio' = [aio EXCEPT ![b] = "error"]
        /\ aio'[b] \in {"done", "error"} /\ \A c \in Bufs \ {b} : aio'[c] = aio[c]
    BY <1>8 DEF ReadCompletes, Fails, bufs, loop, IInv, TypeOK
  <2>2. \A c \in Bufs : Pending(c)' <=> Pending(c)
    BY <2>1 DEF Pending, IInv, TypeOK
  <2>3. QED
    BY <1>1, <2>1, <2>2, SameCopied
<1>9. ASSUME NEW b \in Bufs, WriteCompletes(b) PROVE FC!Next
  BY <1>9, WriteRefines
<1>10. QED
  BY <1>2, <1>3, <1>4, <1>5, <1>6, <1>7, <1>8, <1>9 DEF Next, Main

\* The program does what FileCopy allows, whatever the order of completions:
\* every block reaches the output once, at its own offset and enciphered, only
\* the last may be short, and success is reported only after all of them.
THEOREM CopiesSafely == Spec => FC!Init /\ [][FC!Next]_(FC!vars)
BY RefinesInit, RefinesStep, Invariance, PTL DEF Spec
=============================================================================
