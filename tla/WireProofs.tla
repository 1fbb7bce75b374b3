----------------------------- MODULE WireProofs -----------------------------
(***************************************************************************)
(* What the varint and framing operators of Varint and Framing compute,    *)
(* for every width of a segment and of a value and for all byte strings.   *)
(***************************************************************************)
EXTENDS Framing, Induction

-----------------------------------------------------------------------------
(* Reading a varint.                                                       *)

ReaderState == [status : {"reading", "done", "invalid"},
                value : Nat, position : Nat, count : Nat]

ReadStep(r, byte) == IF r.status = "reading" THEN ReadRound(r, byte) ELSE r

LEMMA ByteParts ==
    /\ CONTINUE_BIT \in Nat \ {0}
    /\ Modulus \in Nat \ {0}
    /\ SignBit \in Nat \ {0}
    /\ \A byte \in VarintByte : byte \in Nat /\ segment(byte) \in 0..CONTINUE_BIT-1
<1>1. CONTINUE_BIT \in Nat \ {0} /\ Modulus \in Nat \ {0} /\ SignBit \in Nat \ {0}
  <2>1. SegmentWidth \in Nat /\ Digits \in Nat /\ Digits - 1 \in Nat
    BY VarintAssumption
  <2> QED BY <2>1, Pow2Positive DEF CONTINUE_BIT, Modulus, SignBit
<1>2. ASSUME NEW byte \in VarintByte
      PROVE  byte \in Nat /\ segment(byte) \in 0..CONTINUE_BIT-1
  <2>1. byte \in Nat
    BY <1>1 DEF VarintByte
  <2> QED BY <1>1, <2>1, DivMod DEF segment
<1> QED BY <1>1, <1>2

LEMMA ReadRoundType ==
    ASSUME NEW r \in ReaderState, NEW byte \in VarintByte
    PROVE  /\ ReadRound(r, byte) \in ReaderState
           /\ ReadRound(r, byte).count = r.count + 1
<1> DEFINE value == (r.value + segment(byte) * Pow2[r.position]) % Modulus
<1>1. value \in Nat
  <2>1. segment(byte) \in Nat /\ Pow2[r.position] \in Nat /\ r.value \in Nat
    BY ByteParts, Pow2Def DEF ReaderState
  <2> DEFINE sum == r.value + segment(byte) * Pow2[r.position]
  <2>2. sum \in Nat
    <3> DEFINE x == segment(byte) y == Pow2[r.position]
    <3>1. x \in Nat /\ y \in Nat
      BY <2>1
    <3> HIDE DEF x, y
    <3>2. r.value + x * y \in Nat
      BY <2>1, <3>1
    <3> QED BY <3>2 DEF x, y
  <2> HIDE DEF sum
  <2>3. sum % Modulus \in Nat
    BY <2>2, ByteParts, DivMod
  <2> QED BY <2>3 DEF sum
<1> HIDE DEF value
<1>2. r.position \in Nat /\ r.position + SegmentWidth \in Nat /\ r.count + 1 \in Nat
  BY VarintAssumption DEF ReaderState
<1> QED BY <1>1, <1>2 DEF ReadRound, ReaderState, value

LEMMA ReadStepType ==
    ASSUME NEW r \in ReaderState, NEW byte \in VarintByte
    PROVE  ReadStep(r, byte) \in ReaderState
BY ReadRoundType DEF ReadStep

LEMMA ReadStartType == ReadStart \in ReaderState
BY DEF ReadStart, ReaderState

\* Read is what its recursive definition says: the states after each byte.
ReadStates(s, after) ==
    /\ after \in [0..Len(s) -> ReaderState]
    /\ after[0] = ReadStart
    /\ \A i \in 1..Len(s) : after[i] = ReadStep(after[i - 1], s[i])

LEMMA ReadDef ==
    ASSUME NEW s \in Seq(VarintByte)
    PROVE  \E after : ReadStates(s, after) /\ Read(s) = after[Len(s)]
<1> DEFINE D == 0..Len(s)
           V == ReaderState
           step == [p \in D \X [D -> V] |->
                        IF p[1] = 0 THEN ReadStart ELSE ReadStep(p[2][p[1] - 1], s[p[1]])]
           body(f) == [i \in 0..Len(s) |->
                          IF i = 0 THEN ReadStart
                          ELSE LET r == f[i - 1]
                               IN  IF r.status = "reading" THEN ReadRound(r, s[i]) ELSE r]
<1>0. Len(s) \in Nat /\ \A i \in 1..Len(s) : s[i] \in VarintByte /\ i - 1 \in D /\ i \in D
  BY ElementOfSeq
<1>1. \A i \in D, f \in [D -> V] :
          step[<<i, f>>] = IF i = 0 THEN ReadStart ELSE ReadStep(f[i - 1], s[i])
  OBVIOUS
<1>2. step \in [D \X [D -> V] -> V]
  <2>1. ASSUME NEW i \in D, NEW f \in [D -> V]
        PROVE  (IF i = 0 THEN ReadStart ELSE ReadStep(f[i - 1], s[i])) \in V
    <3>1. CASE i = 0
      BY <3>1, ReadStartType
    <3>2. CASE i # 0
      <4>1. i \in 1..Len(s)
        BY <1>0, <3>2
      <4>2. f[i - 1] \in V /\ s[i] \in VarintByte
        BY <1>0, <4>1
      <4> QED BY <3>2, <4>2, ReadStepType
    <3> QED BY <3>1, <3>2
  <2> HIDE DEF D, V
  <2> QED BY <2>1
<1>3. Recursion(step, D, V)
  <2>1. V # {}
    BY ReadStartType
  <2>2. D \in SUBSET Nat
    BY <1>0
  <2>3. ASSUME NEW i \in D, NEW f \in [D -> V], NEW g \in [D -> V],
               \A j \in D : j < i => f[j] = g[j]
        PROVE  step[<<i, f>>] = step[<<i, g>>]
    <3>1. CASE i = 0
      BY <1>1, <3>1
    <3>2. CASE i # 0
      <4>1. i \in 1..Len(s) /\ i - 1 \in D /\ i - 1 < i
        BY <1>0, <3>2
      <4>2. f[i - 1] = g[i - 1]
        BY <2>3, <4>1
      <4> QED BY <1>1, <3>2, <4>2
    <3> QED BY <3>1, <3>2
  <2> HIDE DEF D, V, step
  <2> QED BY <1>2, <2>1, <2>2, <2>3 DEF Recursion
<1> HIDE DEF step
<1>4. PICK f : Solves(f, step, D, V)
  BY <1>3, RecursionExists
<1>5. f \in [D -> V] /\ \A i \in D : f[i] = IF i = 0 THEN ReadStart ELSE ReadStep(f[i - 1], s[i])
  BY <1>1, <1>4 DEF Solves
<1>6. f = body(f)
  BY <1>5 DEF ReadStep
<1> DEFINE after == CHOOSE g : g = body(g)
<1>7. after = body(after)
  <2> HIDE DEF body
  <2> QED BY <1>6
<1>8. Read(s) = after[Len(s)]
  BY DEF Read
<1> HIDE DEF after
<1>9. DOMAIN after = D
  BY <1>7
<1>10. after[0] = ReadStart
  BY <1>0, <1>7
<1>11. \A i \in 1..Len(s) : after[i] = ReadStep(after[i - 1], s[i])
  BY <1>0, <1>7 DEF ReadStep
<1>12. after \in [D -> V]
  <2> DEFINE S == {i \in D : after[i] \in V}
  <2>1. 0 \in S
    BY <1>0, <1>10, ReadStartType
  <2>2. ASSUME NEW i \in 0..Len(s)-1, i \in S PROVE i + 1 \in S
    <3>1. i + 1 \in 1..Len(s) /\ (i + 1) - 1 = i /\ s[i + 1] \in VarintByte /\ i + 1 \in D
      BY <1>0
    <3>2. after[i + 1] = ReadStep(after[i], s[i + 1])
      BY <1>11, <3>1
    <3>3. after[i] \in V
      BY <2>2
    <3> QED BY <3>1, <3>2, <3>3, ReadStepType
  <2>3. D \subseteq S
    <3> HIDE DEF S
    <3> QED BY <1>0, <2>1, <2>2, BoundedInduction
  <2>4. after = [i \in D |-> after[i]]
    BY <1>7
  <2> QED BY <2>3, <2>4
<1> QED BY <1>8, <1>10, <1>11, <1>12 DEF ReadStates

LEMMA ReadType ==
    ASSUME NEW s \in Seq(VarintByte)
    PROVE  Read(s) \in ReaderState
<1>1. PICK after : ReadStates(s, after) /\ Read(s) = after[Len(s)]
  BY ReadDef
<1>2. Len(s) \in 0..Len(s)
  OBVIOUS
<1> QED BY <1>1, <1>2 DEF ReadStates

LEMMA ReadEmpty == Read(<<>>) = ReadStart
<1>1. <<>> \in Seq(VarintByte) /\ Len(<<>>) = 0
  OBVIOUS
<1>2. PICK after : ReadStates(<<>>, after) /\ Read(<<>>) = after[Len(<<>>)]
  BY <1>1, ReadDef
<1> QED BY <1>1, <1>2 DEF ReadStates

\* One byte more is one round more, if there is still something to read.
LEMMA ReadAppend ==
    ASSUME NEW s \in Seq(VarintByte), NEW byte \in VarintByte
    PROVE  Read(Append(s, byte)) = ReadStep(Read(s), byte)
<1> DEFINE t == Append(s, byte)
<1>1. t \in Seq(VarintByte) /\ Len(t) = Len(s) + 1 /\ Len(s) \in Nat /\ t[Len(t)] = byte
      /\ \A i \in 1..Len(s) : t[i] = s[i]
  OBVIOUS
<1> HIDE DEF t
<1>2. PICK a : ReadStates(s, a) /\ Read(s) = a[Len(s)]
  BY ReadDef
<1>3. PICK b : ReadStates(t, b) /\ Read(t) = b[Len(t)]
  BY <1>1, ReadDef
<1> DEFINE S == {i \in 0..Len(s) : a[i] = b[i]}
<1>4. 0 \in S
  BY <1>1, <1>2, <1>3 DEF ReadStates
<1>5. ASSUME NEW i \in 0..Len(s)-1, i \in S PROVE i + 1 \in S
  <2>1. i + 1 \in 1..Len(s) /\ i + 1 \in 1..Len(t) /\ i + 1 \in 0..Len(s) /\ (i + 1) - 1 = i
    BY <1>1
  <2>2. a[i + 1] = ReadStep(a[i], s[i + 1]) /\ b[i + 1] = ReadStep(b[i], t[i + 1])
    BY <1>2, <1>3, <2>1 DEF ReadStates
  <2> QED BY <1>1, <1>5, <2>1, <2>2
<1>6. Len(s) \in S
  <2>1. 0..Len(s) \subseteq S
    <3> HIDE DEF S
    <3> QED BY <1>1, <1>4, <1>5, BoundedInduction
  <2> QED BY <1>1, <2>1
<1>7. b[Len(t)] = ReadStep(b[Len(s)], byte)
  <2>1. Len(t) \in 1..Len(t) /\ Len(t) - 1 = Len(s)
    BY <1>1
  <2> QED BY <1>1, <1>3, <2>1 DEF ReadStates
<1> QED BY <1>2, <1>3, <1>6, <1>7 DEF t

\* How many bytes have been read: all while reading, at least one after.
LEMMA ReadCount ==
    ASSUME NEW s \in Seq(VarintByte)
    PROVE  /\ Read(s).count <= Len(s)
           /\ Read(s).status = "reading" => Read(s).count = Len(s)
           /\ Read(s).status # "reading" => Read(s).count >= 1
<1> DEFINE P(q) == /\ Read(q).count <= Len(q)
                   /\ Read(q).status = "reading" => Read(q).count = Len(q)
                   /\ Read(q).status # "reading" => Read(q).count >= 1
           S == {q \in Seq(VarintByte) : P(q)}
<1>1. <<>> \in S
  BY ReadEmpty DEF ReadStart
<1>2. ASSUME NEW q \in Seq(VarintByte), NEW byte \in VarintByte, q \in S
      PROVE  Append(q, byte) \in S
  <2>1. Read(q) \in ReaderState /\ Read(Append(q, byte)) = ReadStep(Read(q), byte)
    BY ReadType, ReadAppend
  <2>2. Len(Append(q, byte)) = Len(q) + 1 /\ Len(q) \in Nat /\ Append(q, byte) \in Seq(VarintByte)
    OBVIOUS
  <2>3. Read(q).count \in Nat
    BY <2>1 DEF ReaderState
  <2>4. CASE Read(q).status = "reading"
    <3>1. Read(Append(q, byte)).count = Read(q).count + 1
      BY <2>1, <2>4, ReadRoundType DEF ReadStep
    <3>2. Read(q).count = Len(q)
      BY <1>2, <2>4
    <3>3. P(Append(q, byte))
      BY <2>2, <2>3, <3>1, <3>2
    <3> QED BY <2>2, <3>3
  <2>5. CASE Read(q).status # "reading"
    <3>1. Read(Append(q, byte)) = Read(q)
      BY <2>1, <2>5 DEF ReadStep
    <3>2. P(Append(q, byte))
      BY <1>2, <2>2, <2>3, <2>5, <3>1
    <3> QED BY <2>2, <3>2
  <2> QED BY <2>4, <2>5
<1>3. Seq(VarintByte) \subseteq S
  <2> HIDE DEF S
  <2> QED BY <1>1, <1>2, SequenceInduction
<1> QED BY <1>3

\* A reader that has finished does not look at what follows.
LEMMA ReadConcat ==
    ASSUME NEW s \in Seq(VarintByte), NEW t \in Seq(VarintByte), Read(s).status # "reading"
    PROVE  Read(s \o t) = Read(s)
<1> DEFINE S == {q \in Seq(VarintByte) : Read(s \o q) = Read(s)}
<1>1. <<>> \in S
  <2>1. s \o <<>> = s
    OBVIOUS
  <2> QED BY <2>1
<1>2. ASSUME NEW q \in Seq(VarintByte), NEW byte \in VarintByte, q \in S
      PROVE  Append(q, byte) \in S
  <2>1. s \o Append(q, byte) = Append(s \o q, byte)
    OBVIOUS
  <2>2. s \o q \in Seq(VarintByte) /\ Append(q, byte) \in Seq(VarintByte)
    OBVIOUS
  <2>3. Read(s \o Append(q, byte)) = Read(s)
    BY <1>2, <2>1, <2>2, ReadAppend DEF ReadStep
  <2> QED BY <2>2, <2>3
<1>3. Seq(VarintByte) \subseteq S
  <2> HIDE DEF S
  <2> QED BY <1>1, <1>2, SequenceInduction
<1> QED BY <1>3

-----------------------------------------------------------------------------
(* Reading what write_impl has written.                                    *)

\* What write_impl has left after n rounds.
Rest(v, n) == v \div Pow2[SegmentWidth * n]

LEMMA RoundsType ==
    ASSUME NEW n \in Nat
    PROVE  /\ SegmentWidth * n \in Nat
           /\ Pow2[SegmentWidth * n] \in Nat \ {0}
           /\ SegmentWidth * (n + 1) = SegmentWidth * n + SegmentWidth
           /\ Pow2[SegmentWidth * (n + 1)] = Pow2[SegmentWidth * n] * CONTINUE_BIT
<1>1. SegmentWidth \in Nat
  BY VarintAssumption
<1>2. SegmentWidth * n \in Nat /\ SegmentWidth * (n + 1) = SegmentWidth * n + SegmentWidth
  BY <1>1
<1>3. Pow2[SegmentWidth * n] \in Nat \ {0}
  BY <1>2, Pow2Positive
<1>4. Pow2[SegmentWidth * (n + 1)] = Pow2[SegmentWidth * n] * CONTINUE_BIT
  BY <1>1, <1>2, Pow2Sum DEF CONTINUE_BIT
<1> QED BY <1>2, <1>3, <1>4

LEMMA RestType ==
    ASSUME NEW v \in Nat, NEW n \in Nat
    PROVE  Rest(v, n) \in Nat /\ Rest(v, n + 1) = WriteShift(Rest(v, n)) /\ Rest(v, 0) = v
<1>1. Rest(v, n) \in Nat
  BY RoundsType, DivMod DEF Rest
<1>2. Rest(v, n + 1) = WriteShift(Rest(v, n))
  <2> DEFINE p == Pow2[SegmentWidth * n]
             c == CONTINUE_BIT
  <2>1. p \in Nat \ {0} /\ c \in Nat \ {0} /\ v \in Nat
    BY RoundsType, ByteParts
  <2>2. Pow2[SegmentWidth * (n + 1)] = p * c
    BY RoundsType
  <2>3. v \div (p * c) = (v \div p) \div c
    <3> HIDE DEF p, c
    <3> QED BY <2>1, DivProduct, Zenon
  <2> QED BY <2>2, <2>3 DEF Rest, WriteShift
<1>3. Rest(v, 0) = v
  <2>1. SegmentWidth * 0 = 0
    BY VarintAssumption
  <2>2. v \div 1 = v
    OBVIOUS
  <2> QED BY <2>1, <2>2, Pow2Def DEF Rest
<1> QED BY <1>1, <1>2, <1>3

LEMMA WriteByteType ==
    ASSUME NEW u \in Nat
    PROVE  /\ WriteByte(u) \in VarintByte
           /\ segment(WriteByte(u)) = u % CONTINUE_BIT
           /\ continues(WriteByte(u)) <=> ~WriteLast(u)
<1> DEFINE c == CONTINUE_BIT
<1>1. c \in Nat \ {0}
  BY ByteParts
<1>2. CASE u < c
  <2>1. WriteByte(u) = u
    BY <1>2 DEF WriteByte, WriteLast
  <2>2. u \in VarintByte
    BY <1>1, <1>2 DEF VarintByte
  <2> QED BY <1>1, <1>2, <2>1, <2>2 DEF segment, continues, WriteLast
<1>3. CASE ~ (u < c)
  <2> DEFINE r == u % c
  <2>1. r \in 0..c-1
    BY <1>1, DivMod
  <2>2. WriteByte(u) = r + c
    BY <1>3 DEF WriteByte, WriteLast, segment
  <2> HIDE DEF r
  <2>3. r + c = c * 1 + r /\ 1 \in Nat
    BY <1>1, <2>1
  <2>4. (r + c) % c = r
    <3> HIDE DEF c
    <3> QED BY <1>1, <2>1, <2>3, DivModUnique
  <2>5. WriteByte(u) \in VarintByte
    BY <1>1, <2>1, <2>2 DEF VarintByte
  <2>6. continues(WriteByte(u)) /\ ~WriteLast(u)
    BY <1>1, <1>3, <2>1, <2>2 DEF continues, WriteLast
  <2>7. segment(WriteByte(u)) = r
    BY <2>2, <2>4 DEF segment
  <2> QED BY <2>5, <2>6, <2>7 DEF r
<1> QED BY <1>2, <1>3

LEMMA SegmentsFit ==
    ASSUME NEW v \in Unsigned, NEW n \in Nat, ~WriteLast(Rest(v, n))
    PROVE  SegmentWidth * (n + 1) < Digits
<1> DEFINE p == Pow2[SegmentWidth * n]
           c == CONTINUE_BIT
           u == v \div p
<1>1. p \in Nat \ {0} /\ c \in Nat \ {0} /\ v \in Nat /\ v < Modulus
  BY RoundsType, ByteParts DEF Unsigned
<1>2. Pow2[SegmentWidth * (n + 1)] = p * c
  BY RoundsType
<1> HIDE DEF p
<1>3. u \in Nat /\ v >= p * u
  <2>1. u \in Nat /\ v % p \in 0..p-1 /\ v = p * u + (v % p)
    BY <1>1, DivMod, Zenon
  <2> DEFINE r == v % p
  <2>2. r \in 0..p-1 /\ v = p * u + r
    BY <2>1
  <2> HIDE DEF r, u
  <2> QED BY <1>1, <2>1, <2>2
<1>4. u >= c
  BY <1>1, <1>3 DEF WriteLast, Rest, p
<1> HIDE DEF c, u
<1>5. p * u >= p * c
  BY <1>1, <1>3, <1>4
<1>6. Pow2[SegmentWidth * (n + 1)] < Modulus
  <2>1. p * u \in Nat /\ p * c \in Nat /\ Modulus \in Nat
    BY <1>1, <1>3, ByteParts
  <2> QED BY <1>1, <1>2, <1>3, <1>5, <2>1
<1>7. SegmentWidth * (n + 1) \in Nat /\ Digits \in Nat
  BY RoundsType, VarintAssumption
<1>8. SUFFICES ASSUME Digits <= SegmentWidth * (n + 1) PROVE FALSE
  BY <1>7
<1>9. Modulus <= Pow2[SegmentWidth * (n + 1)]
  BY <1>7, <1>8, Pow2Monotone DEF Modulus
<1> QED BY <1>1, <1>2, <1>6, <1>9, ByteParts

\* The reader after n bytes of v that continue, and after the last one.
Midway(v, n) ==
    [status |-> "reading", value |-> v % Pow2[SegmentWidth * n],
     position |-> SegmentWidth * n, count |-> n]

Finished(v, n) ==
    [status |-> "done", value |-> v, position |-> SegmentWidth * (n - 1), count |-> n]

\* A round of reading undoes a round of writing.
LEMMA RoundReads ==
    ASSUME NEW v \in Unsigned, NEW n \in Nat
    PROVE  ReadRound(Midway(v, n), WriteByte(Rest(v, n))) =
               IF WriteLast(Rest(v, n)) THEN Finished(v, n + 1) ELSE Midway(v, n + 1)
<1> DEFINE p == Pow2[SegmentWidth * n]
           c == CONTINUE_BIT
           u == Rest(v, n)
           byte == WriteByte(u)
           sum == (v % p) + segment(byte) * p
<1>1. p \in Nat \ {0} /\ c \in Nat \ {0} /\ v \in Nat /\ v \in 0..Modulus-1 /\ Modulus \in Nat \ {0}
  BY RoundsType, ByteParts DEF Unsigned
<1>2. u \in Nat /\ u = v \div p
  BY <1>1, RestType DEF Rest
<1>3. segment(byte) = u % c /\ (continues(byte) <=> ~WriteLast(u))
  BY <1>2, WriteByteType
<1>4. Pow2[SegmentWidth * (n + 1)] = p * c
  BY RoundsType
<1>5. SegmentWidth * (n + 1) = SegmentWidth * n + SegmentWidth
      /\ SegmentWidth * ((n + 1) - 1) = SegmentWidth * n
  BY RoundsType
<1>6. sum = v % (p * c) /\ p * c \in Nat \ {0}
  <2>1. p * c \in Nat \ {0} /\ v % (p * c) = (v % p) + ((v \div p) % c) * p
    <3> HIDE DEF p, c
    <3> QED BY <1>1, ModProduct, Zenon
  <2> HIDE DEF p, c, u, byte
  <2> QED BY <1>2, <1>3, <2>1, Zenon
<1>7. ReadRound(Midway(v, n), byte) =
        [status |-> IF ~continues(byte) THEN "done"
                    ELSE IF SegmentWidth * (n + 1) >= Digits THEN "invalid" ELSE "reading",
         value |-> sum % Modulus,
         position |-> IF ~continues(byte) THEN SegmentWidth * n ELSE SegmentWidth * (n + 1),
         count |-> n + 1]
  BY <1>5 DEF ReadRound, Midway
<1>8. CASE WriteLast(u)
  <2>1. sum = v
    <3>1. u < c
      BY <1>8 DEF WriteLast
    <3>2. u % c = u
      <4> HIDE DEF c, u
      <4> QED BY <1>1, <1>2, <3>1, ModSmall
    <3>3. v = p * u + (v % p) /\ v % p \in Nat
      <4> HIDE DEF p, u
      <4> QED BY <1>1, <1>2, DivMod
    <3>4. p * u = u * p
      <4> HIDE DEF p, u
      <4> QED BY <1>1, <1>2
    <3> HIDE DEF p, u, c, byte
    <3>5. u * p \in Nat
      BY <1>1, <1>2
    <3>6. (v % p) + u * p = v
      BY <3>3, <3>4, <3>5
    <3> QED BY <1>3, <3>2, <3>6
  <2>2. v % Modulus = v
    BY <1>1, ModSmall
  <2> QED BY <1>3, <1>5, <1>7, <1>8, <2>1, <2>2 DEF Finished
<1>9. CASE ~WriteLast(u)
  <2>1. ~ (SegmentWidth * (n + 1) >= Digits)
    <3>1. SegmentWidth * (n + 1) < Digits
      BY <1>9, SegmentsFit
    <3> QED BY <3>1, RoundsType, VarintAssumption
  <2>2. sum \in 0..Modulus-1
    <3> DEFINE m == p * c
    <3>1. m \in Nat \ {0} /\ sum = v % m
      BY <1>6
    <3> HIDE DEF m, sum
    <3>2. v % m \in 0..m-1 /\ v = m * (v \div m) + (v % m) /\ v \div m \in Nat
      BY <1>1, <3>1, DivMod
    <3>3. m * (v \div m) >= 0
      BY <3>1, <3>2
    <3>4. v % m <= v
      BY <3>1, <3>2, <3>3, <1>1
    <3> QED BY <1>1, <3>1, <3>2, <3>4
  <2>3. sum % Modulus = sum
    <3> HIDE DEF sum
    <3> QED BY <1>1, <2>2, ModSmall
  <2> HIDE DEF sum
  <2> QED BY <1>3, <1>4, <1>6, <1>7, <1>9, <2>1, <2>3 DEF Midway
<1> QED BY <1>8, <1>9

\* The bytes of v as far as write_impl has written them: all but the last of
\* them continue.
Wrote(v, e) ==
    /\ e \in Seq(VarintByte)
    /\ \A i \in 1..Len(e) : e[i] = WriteByte(Rest(v, i - 1))
    /\ \A i \in 1..Len(e)-1 : ~WriteLast(Rest(v, i - 1))

Complete(v, e) == Len(e) > 0 /\ WriteLast(Rest(v, Len(e) - 1))

\* What async_read_impl makes of them: it is done with the last byte, with the
\* value that was written.
LEMMA ReadWrote ==
    ASSUME NEW v \in Unsigned, NEW e, Wrote(v, e)
    PROVE  Read(e) = IF Complete(v, e) THEN Finished(v, Len(e)) ELSE Midway(v, Len(e))
<1> DEFINE S == {i \in 0..Len(e) : i < Len(e) \/ ~Complete(v, e)
                                       => Read(SubSeq(e, 1, i)) = Midway(v, i)}
<1>1. /\ e \in Seq(VarintByte) /\ Len(e) \in Nat
      /\ \A i \in 1..Len(e) : e[i] = WriteByte(Rest(v, i - 1))
      /\ \A i \in 1..Len(e)-1 : ~WriteLast(Rest(v, i - 1))
  BY DEF Wrote
<1>2. 0 \in S
  <2>1. SubSeq(e, 1, 0) = <<>>
    BY SubSeqEmpty
  <2>2. Pow2[SegmentWidth * 0] = 1 /\ SegmentWidth * 0 = 0
    <3>1. SegmentWidth * 0 = 0
      BY VarintAssumption
    <3> QED BY <3>1, Pow2Def
  <2>3. v % 1 = 0
    BY ByteParts DEF Unsigned
  <2>4. Read(SubSeq(e, 1, 0)) = Midway(v, 0)
    BY <2>1, <2>2, <2>3, ReadEmpty DEF Midway, ReadStart
  <2>5. 0 \in 0..Len(e)
    BY <1>1
  <2> QED BY <2>4, <2>5, Zenon
<1>3. ASSUME NEW i \in 0..Len(e)-1
      PROVE  /\ i + 1 \in 1..Len(e) /\ i \in 0..Len(e) /\ i + 1 \in 0..Len(e) /\ i < Len(e) /\ i \in Nat
             /\ e[i + 1] = WriteByte(Rest(v, i))
             /\ Read(SubSeq(e, 1, i + 1)) = ReadStep(Read(SubSeq(e, 1, i)), e[i + 1])
             /\ i + 1 < Len(e) => ~WriteLast(Rest(v, i))
  <2>1. i + 1 \in 1..Len(e) /\ (i + 1) - 1 = i /\ i \in 0..Len(e) /\ i + 1 \in 0..Len(e) /\ i < Len(e) /\ i \in Nat
        /\ (i + 1 < Len(e) => i + 1 \in 1..Len(e)-1)
    BY <1>1
  <2>2. e[i + 1] = WriteByte(Rest(v, i)) /\ (i + 1 < Len(e) => ~WriteLast(Rest(v, i)))
    BY <1>1, <2>1
  <2>3. SubSeq(e, 1, i) \in Seq(VarintByte) /\ e[i + 1] \in VarintByte
        /\ SubSeq(e, 1, i + 1) = Append(SubSeq(e, 1, i), e[i + 1])
    BY <1>1, PrefixGrows
  <2> QED BY <2>1, <2>2, <2>3, ReadAppend
<1>4. ASSUME NEW i \in 0..Len(e)-1, i \in S PROVE i + 1 \in S
  <2>1. SUFFICES ASSUME i + 1 < Len(e) \/ ~Complete(v, e)
                 PROVE  Read(SubSeq(e, 1, i + 1)) = Midway(v, i + 1)
    BY <1>3
  <2>2. Read(SubSeq(e, 1, i)) = Midway(v, i)
    BY <1>3, <1>4
  <2>3. ~WriteLast(Rest(v, i))
    <3>1. CASE i + 1 < Len(e)
      BY <1>3, <3>1
    <3>2. CASE ~ (i + 1 < Len(e))
      <4>1. ~Complete(v, e) /\ i = Len(e) - 1 /\ Len(e) > 0
        BY <1>1, <2>1, <3>2
      <4> QED BY <4>1 DEF Complete
    <3> QED BY <3>1, <3>2
  <2>4. ReadRound(Midway(v, i), e[i + 1]) = Midway(v, i + 1)
    BY <1>3, <2>3, RoundReads
  <2> QED BY <1>3, <2>2, <2>4 DEF ReadStep, Midway
<1>5. 0..Len(e) \subseteq S
  <2> HIDE DEF S
  <2> QED BY <1>1, <1>2, <1>4, BoundedInduction
<1>6. SubSeq(e, 1, Len(e)) = e
  BY <1>1, SubSeqFull
<1>7. CASE ~Complete(v, e)
  <2>1. Len(e) \in S
    BY <1>1, <1>5
  <2> QED BY <1>6, <1>7, <2>1
<1>8. CASE Complete(v, e)
  <2> DEFINE i == Len(e) - 1
  <2>1. i \in 0..Len(e)-1 /\ i + 1 = Len(e) /\ WriteLast(Rest(v, i)) /\ i < Len(e) /\ i \in 0..Len(e)
    BY <1>1, <1>8 DEF Complete
  <2> HIDE DEF i
  <2>2. Read(SubSeq(e, 1, i)) = Midway(v, i)
    BY <1>5, <2>1
  <2>3. ReadRound(Midway(v, i), e[i + 1]) = Finished(v, i + 1)
    BY <1>3, <2>1, RoundReads
  <2>4. Read(SubSeq(e, 1, i + 1)) = Finished(v, i + 1)
    BY <1>3, <2>1, <2>2, <2>3 DEF ReadStep, Midway
  <2> QED BY <1>6, <1>8, <2>1, <2>4
<1> QED BY <1>7, <1>8

LEMMA EncodedWrote ==
    ASSUME NEW v \in Unsigned
    PROVE  Wrote(v, Encoded(v)) /\ Complete(v, Encoded(v)) /\ Len(Encoded(v)) \in 1..Digits
<1> DEFINE left(i) == v \div Pow2[SegmentWidth * (i - 1)]
           Is(n) == WriteLast(left(n)) /\ \A i \in 1..n-1 : ~WriteLast(left(i))
           rounds == CHOOSE n \in 1..Digits : Is(n)
<1>1. v \in Nat /\ Digits \in Nat /\ Digits >= 1
  BY VarintAssumption, ByteParts DEF Unsigned
<1>2. \A i \in Nat \ {0} : left(i) = Rest(v, i - 1)
  BY DEF Rest
<1>3. Encoded(v) = [i \in 1..rounds |-> WriteByte(left(i))]
  BY DEF Encoded
<1>4. \E n \in 1..Digits : Is(n)
  <2> DEFINE A == {n \in 1..Digits : WriteLast(left(n))}
  <2>1. Digits \in A
    <3>1. SUFFICES ASSUME ~WriteLast(Rest(v, Digits - 1)) PROVE FALSE
      BY <1>1, <1>2
    <3>2. Digits - 1 \in Nat /\ (Digits - 1) + 1 = Digits
      BY <1>1
    <3>3. SegmentWidth * Digits < Digits
      BY <3>1, <3>2, SegmentsFit
    <3>4. SegmentWidth \in Nat /\ SegmentWidth >= 1
      BY VarintAssumption
    <3> HIDE DEF left
    <3> QED BY <1>1, <3>3, <3>4
  <2>2. PICK n \in A : \A m \in A : n <= m
    <3>1. A \in SUBSET Nat /\ A # {}
      BY <2>1
    <3> HIDE DEF A
    <3> QED BY <3>1, LeastNatural
  <2>3. \A i \in 1..n-1 : i \notin A /\ i \in 1..Digits
    BY <1>1, <2>2
  <2>4. \A i \in 1..n-1 : ~WriteLast(left(i))
    <3> HIDE DEF left
    <3> QED BY <2>3
  <2>5. n \in 1..Digits /\ WriteLast(left(n))
    <3> HIDE DEF left
    <3> QED OBVIOUS
  <2> HIDE DEF left
  <2> QED BY <2>4, <2>5
<1>5. rounds \in 1..Digits /\ Is(rounds)
  <2> HIDE DEF Is
  <2> QED BY <1>4
<1> DEFINE e == Encoded(v)
<1> HIDE DEF rounds
<1>6. rounds \in Nat \ {0} /\ \A i \in 1..rounds : i \in Nat \ {0} /\ i - 1 \in Nat
  BY <1>1, <1>5
<1>7. \A i \in 1..rounds : Rest(v, i - 1) \in Nat /\ WriteByte(Rest(v, i - 1)) \in VarintByte
  BY <1>1, <1>6, RestType, WriteByteType
<1>8. \A i \in 1..rounds : left(i) = Rest(v, i - 1)
  BY <1>2, <1>6
<1> HIDE DEF left
<1>9. e = [i \in 1..rounds |-> WriteByte(Rest(v, i - 1))]
  BY <1>3, <1>8
<1>10. e \in Seq(VarintByte) /\ Len(e) = rounds
       /\ \A i \in 1..rounds : e[i] = WriteByte(Rest(v, i - 1))
  BY <1>6, <1>7, <1>9
<1>11. WriteLast(Rest(v, rounds - 1)) /\ \A i \in 1..rounds-1 : ~WriteLast(Rest(v, i - 1))
  <2>1. rounds \in 1..rounds /\ \A i \in 1..rounds-1 : i \in 1..rounds
    BY <1>6
  <2> QED BY <1>5, <1>8, <2>1
<1>12. Wrote(v, e)
  <2> HIDE DEF e
  <2> QED BY <1>10, <1>11 DEF Wrote
<1>13. Complete(v, e) /\ Len(e) \in 1..Digits
  <2> HIDE DEF e
  <2> QED BY <1>5, <1>6, <1>10, <1>11 DEF Complete
<1> QED BY <1>12, <1>13

\* Whatever follows, a value that has been written whole is read back.
LEMMA ReadEncoded ==
    ASSUME NEW v \in Unsigned, NEW t \in Seq(VarintByte)
    PROVE  /\ Encoded(v) \in Seq(VarintByte) /\ Len(Encoded(v)) \in Nat \ {0}
           /\ Read(Encoded(v) \o t) = Finished(v, Len(Encoded(v)))
<1> DEFINE e == Encoded(v)
<1>1. Wrote(v, e) /\ Complete(v, e) /\ Len(e) \in Nat \ {0}
  BY EncodedWrote, VarintAssumption
<1>2. e \in Seq(VarintByte)
  BY <1>1 DEF Wrote
<1> HIDE DEF e
<1>3. Read(e) = Finished(v, Len(e))
  BY <1>1, ReadWrote
<1>4. Read(e).status # "reading"
  BY <1>3 DEF Finished
<1>5. Read(e \o t) = Read(e)
  BY <1>2, <1>4, ReadConcat
<1> QED BY <1>1, <1>2, <1>3, <1>5 DEF e

-----------------------------------------------------------------------------
(* Cutting bytes up into packets.                                          *)

PacketType == [id : Int, payload : Seq(VarintByte)]

LEMMA ToSignedType == \A u \in Nat : ToSigned(u) \in Int
BY ByteParts DEF ToSigned

LEMMA FrameType ==
    ASSUME NEW s \in Seq(VarintByte)
    PROVE  /\ Frame(s).size \in 0..Len(s)
           /\ Frame(s).size # 0 => Frame(s).packet \in PacketType
<1> DEFINE head == Read(s)
           length == ToSigned(head.value)
           size == head.count + length
           body == SubSeq(s, head.count + 1, size)
           id == Read(body)
           whole == /\ head.status = "done"
                    /\ length \in 1..MaxLength
                    /\ size <= Len(s)
                    /\ id.status = "done"
           packet == [id |-> ToSigned(id.value), payload |-> SubSeq(body, id.count + 1, length)]
<1>1. Frame(s) = IF whole THEN [size |-> size, packet |-> packet] ELSE [size |-> 0]
  BY DEF Frame
<1>2. head \in ReaderState /\ head.count \in Nat /\ length \in Int /\ Len(s) \in Nat
  BY ReadType, ToSignedType DEF ReaderState
<1> HIDE DEF head, length
<1>3. CASE whole
  <2>1. size \in 0..Len(s) /\ head.count + 1 \in 1..Len(s)+1 /\ length \in Nat
    BY <1>2, <1>3
  <2>2. body \in Seq(VarintByte) /\ Len(body) = length
    <3>1. \A i \in (head.count + 1)..size : i \in 1..Len(s) /\ s[i] \in VarintByte
      BY <1>2, <2>1, ElementOfSeq
    <3> HIDE DEF size
    <3>2. body \in Seq(VarintByte) /\ Len(body) = IF head.count + 1 <= size THEN size - (head.count + 1) + 1 ELSE 0
      BY <1>2, <2>1, <3>1, SubSeqProperties
    <3>3. (IF head.count + 1 <= size THEN size - (head.count + 1) + 1 ELSE 0) = length
      BY <1>2, <1>3, <2>1 DEF size
    <3> HIDE DEF body
    <3> QED BY <3>2, <3>3
  <2> HIDE DEF body
  <2>3. id \in ReaderState /\ id.count <= Len(body) /\ id.count \in Nat
    BY <2>2, ReadType, ReadCount DEF ReaderState
  <2>4. SubSeq(body, id.count + 1, length) \in Seq(VarintByte)
    <3>1. \A i \in (id.count + 1)..length : i \in 1..Len(body)
      BY <2>1, <2>2, <2>3
    <3> HIDE DEF id
    <3> QED BY <2>1, <2>2, <2>3, <3>1, SubSeqProperties
  <2>5. packet \in PacketType
    BY <2>3, <2>4, ToSignedType DEF PacketType, ReaderState
  <2> HIDE DEF packet, size
  <2> QED BY <1>1, <1>3, <2>1, <2>5
<1>4. CASE ~whole
  <2> HIDE DEF whole, packet, size
  <2>1. Frame(s).size = 0
    BY <1>1, <1>4
  <2> QED BY <1>2, <2>1
<1> QED BY <1>3, <1>4

\* What a packet takes is a byte at least, and it is the same whatever follows.
LEMMA FrameSize ==
    ASSUME NEW s \in Seq(VarintByte), Frame(s).size # 0
    PROVE  /\ Read(s).status = "done" /\ ToSigned(Read(s).value) \in 1..MaxLength
           /\ Frame(s).size = Read(s).count + ToSigned(Read(s).value)
           /\ Read(s).count \in Nat \ {0}
<1>1. Read(s).status = "done" /\ ToSigned(Read(s).value) \in 1..MaxLength
      /\ Frame(s).size = Read(s).count + ToSigned(Read(s).value)
  BY DEF Frame
<1>2. Read(s).count \in Nat /\ Read(s).count >= 1
  BY <1>1, ReadType, ReadCount DEF ReaderState
<1> QED BY <1>1, <1>2

LEMMA SubSeqOfConcat ==
    ASSUME NEW M, NEW s \in Seq(M), NEW t \in Seq(M), NEW m \in 1..Len(s)+1, NEW n \in 0..Len(s)
    PROVE  SubSeq(s \o t, m, n) = SubSeq(s, m, n)
OBVIOUS

LEMMA FrameConcat ==
    ASSUME NEW s \in Seq(VarintByte), NEW t \in Seq(VarintByte), Frame(s).size # 0
    PROVE  Frame(s \o t) = Frame(s)
<1> DEFINE head == Read(s)
           length == ToSigned(head.value)
           size == head.count + length
<1>1. head.status = "done" /\ length \in 1..MaxLength /\ size = Frame(s).size
      /\ head.count \in Nat \ {0}
  BY FrameSize
<1>2. size \in 0..Len(s) /\ Len(s \o t) = Len(s) + Len(t) /\ Len(s) \in Nat /\ Len(t) \in Nat
  BY <1>1, FrameType
<1>3. Read(s \o t) = head
  BY <1>1, ReadConcat
<1>4. SubSeq(s \o t, head.count + 1, size) = SubSeq(s, head.count + 1, size)
  <2>1. head.count + 1 \in 1..Len(s)+1
    <3>1. length \in Nat
      BY <1>1
    <3> HIDE DEF head, length
    <3> QED BY <1>1, <1>2, <3>1
  <2> HIDE DEF head, size
  <2> QED BY <1>2, <2>1, SubSeqOfConcat
<1>5. size <= Len(s) /\ size <= Len(s \o t)
  <2> HIDE DEF size
  <2> QED BY <1>2
<1> QED BY <1>3, <1>4, <1>5 DEF Frame

\* The last n bytes of s.
Suffix(s, n) == SubSeq(s, Len(s) - n + 1, Len(s))

EndsAs(M, t, s, n) == t \in Seq(M) /\ Len(t) = n /\ \A i \in 1..n : t[i] = s[Len(s) - n + i]

LEMMA SuffixType ==
    ASSUME NEW M, NEW s \in Seq(M), NEW n \in 0..Len(s)
    PROVE  EndsAs(M, Suffix(s, n), s, n)
<1> DEFINE m == Len(s) - n + 1
<1>1. Len(s) \in Nat /\ m \in Int /\ m \in 1..Len(s)+1 /\ Len(s) - m + 1 = n
  OBVIOUS
<1>2. \A i \in m..Len(s) : s[i] \in M
  <2>1. \A i \in m..Len(s) : i \in 1..Len(s)
    BY <1>1
  <2> QED BY <2>1, ElementOfSeq
<1>3. /\ SubSeq(s, m, Len(s)) \in Seq(M)
      /\ Len(SubSeq(s, m, Len(s))) = IF m <= Len(s) THEN Len(s) - m + 1 ELSE 0
      /\ \A i \in 1..Len(s)-m+1 : SubSeq(s, m, Len(s))[i] = s[m + i - 1]
  <2> HIDE DEF m
  <2> QED BY <1>1, <1>2, SubSeqProperties
<1>4. \A i \in 1..n : m + i - 1 = Len(s) - n + i
  BY <1>1
<1> QED BY <1>1, <1>3, <1>4 DEF Suffix, EndsAs

LEMMA SuffixOfSuffix ==
    ASSUME NEW M, NEW s \in Seq(M), NEW n \in 0..Len(s), NEW k \in 0..n
    PROVE  Suffix(Suffix(s, n), k) = Suffix(s, k)
<1> DEFINE t == Suffix(s, n)
<1>1. t \in Seq(M) /\ Len(t) = n /\ \A i \in 1..n : t[i] = s[Len(s) - n + i]
  BY SuffixType DEF EndsAs
<1>2. Len(s) \in Nat /\ n \in Nat /\ k \in 0..Len(s) /\ k \in 0..Len(t)
  BY <1>1
<1> HIDE DEF t
<1>3. Suffix(t, k) \in Seq(M) /\ Len(Suffix(t, k)) = k
      /\ \A i \in 1..k : Suffix(t, k)[i] = t[Len(t) - k + i]
  <2>1. EndsAs(M, Suffix(t, k), t, k)
    BY <1>1, <1>2, SuffixType, Zenon
  <2> QED BY <2>1, Zenon DEF EndsAs
<1>4. Suffix(s, k) \in Seq(M) /\ Len(Suffix(s, k)) = k
      /\ \A i \in 1..k : Suffix(s, k)[i] = s[Len(s) - k + i]
  BY <1>2, SuffixType DEF EndsAs
<1>5. \A i \in 1..k : Suffix(t, k)[i] = Suffix(s, k)[i]
  <2> TAKE i \in 1..k
  <2>1. n - k + i \in 1..n /\ Len(s) - n + (n - k + i) = Len(s) - k + i
    BY <1>2
  <2> QED BY <1>1, <1>3, <1>4, <2>1
<1>6. Suffix(t, k) = Suffix(s, k)
  BY <1>3, <1>4, <1>5, SeqEqual
<1> QED BY <1>6 DEF t

\* Frames is what its recursive definition says, on every suffix.
NextFrames(frame, f, n) ==
    IF frame.size = 0 THEN <<>> ELSE <<frame.packet>> \o f[n - frame.size]

FrameStates(s, f) ==
    /\ f \in [0..Len(s) -> Seq(PacketType)]
    /\ \A n \in 0..Len(s) : f[n] = NextFrames(Frame(Suffix(s, n)), f, n)

LEMMA NextFramesType ==
    ASSUME NEW s \in Seq(VarintByte), NEW n \in 0..Len(s)
    PROVE  /\ \A f \in [0..Len(s) -> Seq(PacketType)] :
                  NextFrames(Frame(Suffix(s, n)), f, n) \in Seq(PacketType)
           /\ \A f, g : (\A k \in 0..Len(s) : k < n => f[k] = g[k])
                  => NextFrames(Frame(Suffix(s, n)), f, n) = NextFrames(Frame(Suffix(s, n)), g, n)
<1> DEFINE frame == Frame(Suffix(s, n))
<1>1. frame.size \in 0..n /\ (frame.size # 0 => frame.packet \in PacketType)
  BY SuffixType, FrameType DEF EndsAs
<1> HIDE DEF frame
<1>2. frame.size # 0 => n - frame.size \in 0..Len(s) /\ n - frame.size < n
  BY <1>1
<1>3. ASSUME NEW f \in [0..Len(s) -> Seq(PacketType)]
      PROVE  NextFrames(frame, f, n) \in Seq(PacketType)
  BY <1>1, <1>2 DEF NextFrames
<1>4. ASSUME NEW f, NEW g, \A k \in 0..Len(s) : k < n => f[k] = g[k]
      PROVE  NextFrames(frame, f, n) = NextFrames(frame, g, n)
  BY <1>2, <1>4 DEF NextFrames
<1> QED BY <1>3, <1>4 DEF frame

LEMMA FramesDef ==
    ASSUME NEW s \in Seq(VarintByte)
    PROVE  \E f : FrameStates(s, f) /\ Frames(s) = f[Len(s)]
<1> DEFINE D == 0..Len(s)
           V == Seq(PacketType)
           step == [p \in D \X [D -> V] |-> NextFrames(Frame(Suffix(s, p[1])), p[2], p[1])]
           body(f) == [n \in 0..Len(s) |->
                          LET frame == Frame(SubSeq(s, Len(s) - n + 1, Len(s)))
                          IN  IF frame.size = 0 THEN <<>>
                              ELSE <<frame.packet>> \o f[n - frame.size]]
<1>0. Len(s) \in Nat
  OBVIOUS
<1>1. \A n \in D, f \in [D -> V] : step[<<n, f>>] = NextFrames(Frame(Suffix(s, n)), f, n)
  OBVIOUS
<1>2. step \in [D \X [D -> V] -> V]
  <2>1. ASSUME NEW n \in D, NEW f \in [D -> V]
        PROVE  NextFrames(Frame(Suffix(s, n)), f, n) \in V
    BY NextFramesType
  <2> HIDE DEF D, V
  <2> QED BY <2>1
<1>3. Recursion(step, D, V)
  <2>1. V # {}
    <3>1. <<>> \in V
      OBVIOUS
    <3> QED BY <3>1
  <2>2. D \in SUBSET Nat
    BY <1>0
  <2>3. ASSUME NEW n \in D, NEW f \in [D -> V], NEW g \in [D -> V],
               \A j \in D : j < n => f[j] = g[j]
        PROVE  step[<<n, f>>] = step[<<n, g>>]
    <3>1. NextFrames(Frame(Suffix(s, n)), f, n) = NextFrames(Frame(Suffix(s, n)), g, n)
      BY <2>3, NextFramesType
    <3> HIDE DEF step, D, V
    <3> QED BY <1>1, <3>1
  <2> HIDE DEF D, V, step
  <2> QED BY <1>2, <2>1, <2>2, <2>3 DEF Recursion
<1> HIDE DEF step
<1>4. PICK f : Solves(f, step, D, V)
  BY <1>3, RecursionExists
<1>5. f \in [D -> V] /\ \A n \in D : f[n] = NextFrames(Frame(Suffix(s, n)), f, n)
  BY <1>1, <1>4 DEF Solves
<1>6. f = body(f)
  BY <1>5 DEF NextFrames, Suffix
<1> DEFINE last == CHOOSE g : g = body(g)
<1>7. last = body(last)
  <2> HIDE DEF body
  <2> QED BY <1>6
<1>8. Frames(s) = last[Len(s)]
  BY DEF Frames
<1> HIDE DEF last
<1>9. \A n \in D : last[n] = NextFrames(Frame(Suffix(s, n)), last, n)
  BY <1>7 DEF NextFrames, Suffix
<1>10. last \in [D -> V]
  <2> DEFINE S == {n \in Nat : n \in D => last[n] = f[n]}
  <2>1. ASSUME NEW n \in Nat, \A m \in Nat : m < n => m \in S PROVE n \in S
    <3>1. SUFFICES ASSUME n \in D PROVE last[n] = f[n]
      OBVIOUS
    <3>2. \A k \in D : k < n => last[k] = f[k]
      BY <1>0, <2>1
    <3>3. NextFrames(Frame(Suffix(s, n)), last, n) = NextFrames(Frame(Suffix(s, n)), f, n)
      BY <3>1, <3>2, NextFramesType
    <3> QED BY <1>5, <1>9, <3>1, <3>3
  <2>2. Nat \subseteq S
    <3> HIDE DEF S
    <3> QED BY <2>1, CompleteInduction
  <2>3. \A n \in D : last[n] \in V
    BY <1>0, <1>5, <2>2
  <2>4. last = [n \in D |-> last[n]]
    BY <1>7
  <2> HIDE DEF D, V
  <2> QED BY <2>3, <2>4
<1> QED BY <1>8, <1>9, <1>10 DEF FrameStates

LEMMA FramesType ==
    ASSUME NEW s \in Seq(VarintByte)
    PROVE  Frames(s) \in Seq(PacketType)
<1>1. PICK f : FrameStates(s, f) /\ Frames(s) = f[Len(s)]
  BY FramesDef
<1>2. Len(s) \in 0..Len(s)
  OBVIOUS
<1> QED BY <1>1, <1>2 DEF FrameStates

\* The packets of s are its first packet and the packets of what follows it.
LEMMA FramesUnfold ==
    ASSUME NEW s \in Seq(VarintByte)
    PROVE  /\ Frame(s).size = 0 => Frames(s) = <<>>
           /\ Frame(s).size # 0 =>
                 Frames(s) = <<Frame(s).packet>> \o Frames(SubSeq(s, Frame(s).size + 1, Len(s)))
<1>1. PICK f : FrameStates(s, f) /\ Frames(s) = f[Len(s)]
  BY FramesDef
<1>2. Len(s) \in Nat /\ Len(s) \in 0..Len(s)
  OBVIOUS
<1>3. Suffix(s, Len(s)) = s
  <2>1. Len(s) - Len(s) + 1 = 1
    BY <1>2
  <2> QED BY <2>1, SubSeqFull DEF Suffix
<1>4. f[Len(s)] = NextFrames(Frame(s), f, Len(s))
  BY <1>1, <1>2, <1>3 DEF FrameStates
<1>5. CASE Frame(s).size = 0
  BY <1>1, <1>4, <1>5 DEF NextFrames
<1>6. CASE Frame(s).size # 0
  <2> DEFINE m == Len(s) - Frame(s).size
             t == Suffix(s, m)
  <2>1. Frame(s).size \in 0..Len(s)
    BY FrameType
  <2>2. m \in 0..Len(s) /\ m \in Nat /\ Len(s) - m + 1 = Frame(s).size + 1
    BY <1>2, <2>1
  <2>3. t = SubSeq(s, Frame(s).size + 1, Len(s))
    BY <2>2 DEF Suffix
  <2> HIDE DEF m
  <2>4. t \in Seq(VarintByte) /\ Len(t) = m
    BY <2>2, SuffixType DEF EndsAs
  <2>5. \A n \in 0..m : Suffix(t, n) = Suffix(s, n) /\ n \in 0..Len(s) /\ n \in 0..Len(t)
    BY <1>2, <2>2, <2>4, SuffixOfSuffix
  <2> HIDE DEF t
  <2>6. PICK g : FrameStates(t, g) /\ Frames(t) = g[m]
    BY <2>4, FramesDef
  <2> DEFINE S == {n \in Nat : n <= m => f[n] = g[n]}
  <2>7. ASSUME NEW n \in Nat, \A k \in Nat : k < n => k \in S PROVE n \in S
    <3>1. SUFFICES ASSUME n <= m PROVE f[n] = g[n]
      OBVIOUS
    <3>2. n \in 0..m
      BY <2>2, <3>1
    <3>3. \A k \in 0..Len(t) : k < n => f[k] = g[k]
      BY <2>2, <2>4, <2>7, <3>1
    <3>4. f[n] = NextFrames(Frame(Suffix(t, n)), f, n)
      BY <1>1, <2>5, <3>2 DEF FrameStates
    <3>5. g[n] = NextFrames(Frame(Suffix(t, n)), g, n)
      BY <2>5, <2>6, <3>2 DEF FrameStates
    <3>6. NextFrames(Frame(Suffix(t, n)), f, n) = NextFrames(Frame(Suffix(t, n)), g, n)
      BY <2>4, <2>5, <3>2, <3>3, NextFramesType
    <3> QED BY <3>4, <3>5, <3>6
  <2>8. Nat \subseteq S
    <3> HIDE DEF S
    <3> QED BY <2>7, CompleteInduction
  <2>9. f[m] = g[m]
    BY <2>2, <2>8
  <2> QED BY <1>1, <1>4, <1>6, <2>3, <2>6, <2>9 DEF NextFrames, m
<1> QED BY <1>5, <1>6

LEMMA FramesOfEmpty == Frames(<<>>) = <<>>
<1>1. <<>> \in Seq(VarintByte) /\ Len(<<>>) = 0
  OBVIOUS
<1>2. Frame(<<>>).size \in 0..0
  BY <1>1, FrameType
<1>3. Frame(<<>>).size = 0
  BY <1>2
<1> QED BY <1>1, <1>3, FramesUnfold

\* What begins with a packet has that packet and the packets of the rest.
LEMMA FramesOfConcat ==
    ASSUME NEW s \in Seq(VarintByte), NEW t \in Seq(VarintByte),
           Frame(s).size # 0, Frame(s).size = Len(s)
    PROVE  Frames(s \o t) = <<Frame(s).packet>> \o Frames(t)
<1>1. s \o t \in Seq(VarintByte) /\ Frame(s \o t) = Frame(s)
  BY FrameConcat
<1>2. SubSeq(s \o t, Len(s) + 1, Len(s \o t)) = t
  OBVIOUS
<1> QED BY <1>1, <1>2, FramesUnfold

-----------------------------------------------------------------------------
(* What a sender puts on the wire, a receiver reads.                       *)

\* A packet's id and payload with their length in front.
Wire(id, payload) == Encoded(Len(Encoded(id) \o payload)) \o (Encoded(id) \o payload)

LEMMA FrameOfWire ==
    ASSUME NEW id \in Unsigned, NEW payload \in Seq(VarintByte),
           MaxLength \in Nat, MaxLength < SignBit, Len(Encoded(id) \o payload) <= MaxLength
    PROVE  /\ Wire(id, payload) \in Seq(VarintByte)
           /\ Len(Wire(id, payload)) # 0
           /\ Frame(Wire(id, payload)).size = Len(Wire(id, payload))
           /\ Frame(Wire(id, payload)).packet = [id |-> ToSigned(id), payload |-> payload]
<1> DEFINE body == Encoded(id) \o payload
           n == Len(body)
           head == Encoded(n)
           s == head \o body
<1>1. Encoded(id) \in Seq(VarintByte) /\ Len(Encoded(id)) \in Nat \ {0}
      /\ Read(body) = Finished(id, Len(Encoded(id)))
  BY ReadEncoded
<1>2. body \in Seq(VarintByte) /\ n = Len(Encoded(id)) + Len(payload) /\ Len(payload) \in Nat
  BY <1>1
<1>3. SubSeq(body, Len(Encoded(id)) + 1, n) = payload
  <2> DEFINE e == Encoded(id)
  <2>1. e \in Seq(VarintByte)
    BY <1>1
  <2> HIDE DEF e
  <2>2. SubSeq(e \o payload, Len(e) + 1, Len(e \o payload)) = payload
    BY <2>1
  <2> QED BY <2>2 DEF e
<1>4. n \in 1..MaxLength
  BY <1>1, <1>2
<1> HIDE DEF body
<1>5. n \in Unsigned /\ ToSigned(n) = n
  <2>1. SignBit <= Modulus /\ SignBit \in Nat /\ Modulus \in Nat
    <3>1. Digits - 1 \in Nat /\ Digits \in Nat /\ Digits - 1 <= Digits
      BY VarintAssumption
    <3> QED BY <3>1, Pow2Monotone, ByteParts DEF SignBit, Modulus
  <2> HIDE DEF n
  <2> QED BY <1>4, <2>1 DEF Unsigned, ToSigned
<1>6. head \in Seq(VarintByte) /\ Len(head) \in Nat \ {0} /\ Read(s) = Finished(n, Len(head))
  BY <1>2, <1>5, ReadEncoded
<1> HIDE DEF head
<1>7. s \in Seq(VarintByte) /\ Len(s) = Len(head) + n /\ SubSeq(s, Len(head) + 1, Len(head) + n) = body
  <2>1. body \in Seq(VarintByte) /\ Len(body) = n /\ head \in Seq(VarintByte)
    BY <1>2, <1>6
  <2>2. s \in Seq(VarintByte) /\ Len(s) = Len(head) + n
    BY <2>1
  <2>3. SubSeq(head \o body, Len(head) + 1, Len(head) + Len(body)) = body
    <3> HIDE DEF n
    <3> QED BY <2>1
  <2> QED BY <2>1, <2>2, <2>3
<1> HIDE DEF s
<1>8. Read(s).status = "done" /\ Read(s).value = n /\ Read(s).count = Len(head)
  BY <1>6 DEF Finished
<1>9. Read(body).status = "done" /\ Read(body).value = id /\ Read(body).count = Len(Encoded(id))
  BY <1>1 DEF Finished
<1>10. Frame(s) = [size |-> Len(head) + n,
                   packet |-> [id |-> ToSigned(id), payload |-> payload]]
  <2>1. Len(head) + n <= Len(s)
    BY <1>2, <1>6, <1>7
  <2> HIDE DEF n
  <2> QED BY <1>3, <1>4, <1>5, <1>7, <1>8, <1>9, <2>1 DEF Frame
<1>11. Wire(id, payload) = s
  BY DEF Wire, s, head, n, body
<1>12. Len(s) # 0
  BY <1>2, <1>4, <1>6, <1>7
<1> QED BY <1>7, <1>10, <1>11, <1>12

\* A packet that has not been sent whole is not a packet yet.
LEMMA FramesOfPart ==
    ASSUME NEW s \in Seq(VarintByte), Frame(s).size = Len(s), NEW n \in 0..Len(s)-1
    PROVE  Frames(SubSeq(s, 1, n)) = <<>>
<1> DEFINE p == SubSeq(s, 1, n)
           q == SubSeq(s, n + 1, Len(s))
<1>1. p \in Seq(VarintByte) /\ q \in Seq(VarintByte) /\ s = p \o q /\ Len(p) = n /\ Len(s) \in Nat
  OBVIOUS
<1> HIDE DEF p, q
<1>2. CASE Frame(p).size # 0
  <2>1. Frame(s) = Frame(p) /\ Frame(p).size \in 0..n
    BY <1>1, <1>2, FrameConcat, FrameType
  <2> QED BY <1>1, <2>1
<1>3. CASE Frame(p).size = 0
  BY <1>1, <1>3, FramesUnfold DEF p
<1> QED BY <1>2, <1>3

\* The bytes are these packets, each of them whole: whatever follows the bytes is
\* cut up into packets as if they had not been there.
Carries(bytes, packets) ==
    \A t \in Seq(VarintByte) : Frames(bytes \o t) = packets \o Frames(t)

LEMMA CarriesNone == Carries(<<>>, <<>>)
<1>1. ASSUME NEW t \in Seq(VarintByte) PROVE Frames(<<>> \o t) = <<>> \o Frames(t)
  <2>1. <<>> \o t = t /\ Frames(t) \in Seq(PacketType)
    BY FramesType
  <2>2. <<>> \o Frames(t) = Frames(t)
    BY <2>1
  <2> QED BY <2>1, <2>2
<1> QED BY <1>1 DEF Carries

\* A packet more: what was carried, and the packet.
LEMMA CarriesNext ==
    ASSUME NEW before \in Seq(VarintByte), NEW packets \in Seq(PacketType), Carries(before, packets),
           NEW s \in Seq(VarintByte), Len(s) # 0, Frame(s).size = Len(s)
    PROVE  Carries(before \o s, Append(packets, Frame(s).packet))
<1> SUFFICES ASSUME NEW t \in Seq(VarintByte)
             PROVE  Frames((before \o s) \o t) = Append(packets, Frame(s).packet) \o Frames(t)
  BY DEF Carries
<1>1. Frame(s).packet \in PacketType /\ Frames(t) \in Seq(PacketType)
  BY FrameType, FramesType
<1>2. (before \o s) \o t = before \o (s \o t) /\ s \o t \in Seq(VarintByte)
  OBVIOUS
<1>3. Frames(before \o (s \o t)) = packets \o Frames(s \o t)
  BY <1>2 DEF Carries
<1>4. Frames(s \o t) = <<Frame(s).packet>> \o Frames(t)
  BY FramesOfConcat
<1> DEFINE p == Frame(s).packet
           f == Frames(t)
<1>5. packets \o (<<p>> \o f) = Append(packets, p) \o f
  <2>1. p \in PacketType /\ f \in Seq(PacketType)
    BY <1>1
  <2> HIDE DEF p, f
  <2>2. <<p>> \in Seq(PacketType) /\ Append(packets, p) = packets \o <<p>>
    BY <2>1, AppendIsConcat
  <2>3. packets \in Seq(PacketType)
    OBVIOUS
  <2>4. (packets \o <<p>>) \o f = packets \o (<<p>> \o f)
    <3>1. Associate(packets, <<p>>, f)
      BY <2>1, <2>2, <2>3, ConcatAssociates, Zenon
    <3> QED BY <3>1, Zenon DEF Associate
  <2> QED BY <2>2, <2>4, Zenon
<1> QED BY <1>2, <1>3, <1>4, <1>5

LEMMA CarriesAll ==
    ASSUME NEW before \in Seq(VarintByte), NEW packets \in Seq(PacketType), Carries(before, packets)
    PROVE  Frames(before) = packets
<1>1. <<>> \in Seq(VarintByte) /\ before \o <<>> = before /\ packets \o <<>> = packets
  OBVIOUS
<1>2. Frames(before \o <<>>) = packets \o Frames(<<>>)
  BY <1>1 DEF Carries
<1> QED BY <1>1, <1>2, FramesOfEmpty

-----------------------------------------------------------------------------
(* Bits.                                                                   *)

\* The segment that bit j is in.
LEMMA SegmentOfBit ==
    ASSUME NEW w \in Nat \ {0}, NEW n \in Nat, NEW j \in Nat
    PROVE  /\ j \div w \in Nat
           /\ j < w * n => j \div w < n
           /\ w * n <= j /\ j < w * n + w => j \div w = n /\ j % w = j - w * n
           /\ w * n + w <= j => n < j \div w
<1> DEFINE q == j \div w
           r == j % w
           x == w * n
<1>1. q \in Nat /\ r \in 0..w-1 /\ j = w * q + r
  BY DivMod
<1>2. x \in Nat
  OBVIOUS
<1> HIDE DEF q, r
<1>3. w * q \in Nat
  BY <1>1
<1>4. n <= q => x <= w * q
  BY <1>1
<1>5. q <= n => w * q <= x
  BY <1>1
<1>6. ASSUME x <= j, j < x + w PROVE q = n /\ r = j - x
  <2> DEFINE t == j - x
  <2>1. t \in 0..w-1 /\ j = x + t
    BY <1>2, <1>6
  <2> HIDE DEF t
  <2>2. j = w * n + t
    BY <2>1
  <2>3. j \div w = n /\ j % w = t
    BY <2>1, <2>2, DivModUnique
  <2> QED BY <2>3 DEF q, r, t
<1> HIDE DEF x
<1>7. j < x => q < n
  BY <1>1, <1>2, <1>3, <1>4
<1>8. x + w <= j => n < q
  BY <1>1, <1>2, <1>3, <1>5
<1> QED BY <1>1, <1>6, <1>7, <1>8 DEF x, q, r
=============================================================================
