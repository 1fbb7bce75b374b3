-------------------------- MODULE AlgorithmsProofs --------------------------
(***************************************************************************)
(* Proofs about Algorithms, for values of any width: extract_bits takes    *)
(* the entries of a section out of its words, packet_reader reads back     *)
(* what packet_writer wrote, every kind of field, and a state's iterator   *)
(* gives the properties and values it stands for.  And for sections and    *)
(* models of any size: the mesh is the boundary of what is solid, or the   *)
(* faces drawn of the models, and is seen from outside.                    *)
(*                                                                         *)
(* The fields are what the packet of a chunk consists of, and so the proof *)
(* about ChunkPacket follows: the trees, nested however deep, are read as  *)
(* they were sent, and the block entities from where they begin, in a      *)
(* packet that ends anywhere.                                              *)
(***************************************************************************)
EXTENDS Algorithms, ChunkPacket, WireProofs

-----------------------------------------------------------------------------
(* Bits of a shifted and masked word.                                      *)

\* Some bits of x, with the lowest at position d.
LEMMA BitOfShift ==
    ASSUME NEW x \in Nat, NEW d \in Nat, NEW j \in Nat
    PROVE  Bit(x \div Pow2[d], j) = Bit(x, d + j)
<1> DEFINE p == Pow2[d]
           h == Pow2[j]
<1>1. p \in Nat \ {0} /\ h \in Nat \ {0}
  BY Pow2Positive
<1>2. Pow2[d + j] = p * h
  BY Pow2Sum
<1> HIDE DEF p, h
<1>3. x \div (p * h) = (x \div p) \div h
  BY <1>1, DivProduct, Zenon
<1> QED BY <1>2, <1>3 DEF Bit, p, h

\* n bits of x from position d on, and what it is to be them.
Part(x, d, n) == (x \div Pow2[d]) % Pow2[n]
IsPart(y, x, d, n) == y \in 0 .. Pow2[n] - 1 /\ \A j \in 0 .. n - 1 : Bit(y, j) = Bit(x, d + j)

LEMMA PartRange ==
    ASSUME NEW x \in Nat, NEW d \in Nat, NEW n \in Nat
    PROVE  Part(x, d, n) \in 0 .. Pow2[n] - 1
<1>1. PICK p \in Nat \ {0} : p = Pow2[d]
  BY Pow2Positive
<1>2. PICK y \in Nat : y = x \div p
  BY DivMod
<1>3. PICK q \in Nat \ {0} : q = Pow2[n]
  BY Pow2Positive
<1>4. y % q \in 0 .. q - 1
  BY DivMod
<1> QED BY <1>1, <1>2, <1>3, <1>4 DEF Part

LEMMA BitOfPart ==
    ASSUME NEW x \in Nat, NEW d \in Nat, NEW n \in Nat
    PROVE  IsPart(Part(x, d, n), x, d, n)
<1>1. PICK p \in Nat \ {0} : p = Pow2[d]
  BY Pow2Positive
<1>2. PICK y \in Nat : y = x \div p
  BY DivMod
<1>3. ASSUME NEW j \in 0 .. n - 1 PROVE Bit(Part(x, d, n), j) = Bit(x, d + j)
  <2>1. PICK i \in Nat : i = j
    OBVIOUS
  <2>2. Bit(x \div Pow2[d], i) = Bit(x, d + i)
    BY BitOfShift
  <2>3. Bit(y % Pow2[n], j) = Bit(y, j)
    BY BitOfMod
  <2> QED BY <1>1, <1>2, <2>1, <2>2, <2>3, Zenon DEF Part
<1> QED BY <1>3, PartRange DEF IsPart

\* Two fields side by side.
Joined(x, n, y) == x * Pow2[n] + y
HasBoth(z, m, x, n, y) == /\ \A j \in 0 .. n - 1 : Bit(z, j) = Bit(y, j)
                          /\ \A j \in 0 .. m - 1 : Bit(z, n + j) = Bit(x, j)

LEMMA JoinedRange ==
    ASSUME NEW m \in Nat, NEW n \in Nat, NEW x \in 0 .. Pow2[m] - 1, NEW y \in 0 .. Pow2[n] - 1
    PROVE  Joined(x, n, y) \in 0 .. Pow2[m + n] - 1
<1> DEFINE p == Pow2[m]
           q == Pow2[n]
<1>1. p \in Nat \ {0} /\ q \in Nat \ {0}
  BY Pow2Positive
<1>2. x \in 0 .. p - 1 /\ y \in 0 .. q - 1
  OBVIOUS
<1>3. Pow2[m + n] = p * q
  BY Pow2Sum
<1>4. x * q + y \in 0 .. p * q - 1
  <2> HIDE DEF p, q
  <2>1. x * q \in Nat /\ x * q <= (p - 1) * q
    BY <1>1, <1>2
  <2>2. (p - 1) * q = p * q - q /\ p * q \in Nat
    BY <1>1
  <2> QED BY <1>1, <1>2, <2>1, <2>2
<1> QED BY <1>3, <1>4 DEF Joined

LEMMA BitOfJoined ==
    ASSUME NEW m \in Nat, NEW n \in Nat, NEW x \in 0 .. Pow2[m] - 1, NEW y \in 0 .. Pow2[n] - 1
    PROVE  HasBoth(Joined(x, n, y), m, x, n, y)
<1>1. x \in Nat /\ y \in Nat
  BY Pow2Positive
<1>2. PICK q \in Nat \ {0} : q = Pow2[n]
  BY Pow2Positive
<1>3. Joined(x, n, y) = y + x * Pow2[n]
  <2>1. x * q + y = y + x * q
    BY <1>1
  <2> QED BY <1>2, <2>1 DEF Joined
<1>4. ASSUME NEW j \in 0 .. n - 1 PROVE Bit(Joined(x, n, y), j) = Bit(y, j)
  <2>1. Bit(y + x * Pow2[n], j) = Bit(y, j)
    BY <1>1, BitOfSum
  <2> QED BY <1>3, <2>1, Zenon
<1>5. ASSUME NEW j \in 0 .. m - 1 PROVE Bit(Joined(x, n, y), n + j) = Bit(x, j)
  <2>1. PICK k \in Nat : k = n + j /\ n <= k /\ k - n = j
    OBVIOUS
  <2>2. Bit(y + x * Pow2[n], k) = Bit(x, k - n)
    BY <1>1, <2>1, BitShifted
  <2> QED BY <1>3, <2>1, <2>2, Zenon
<1> QED BY <1>4, <1>5, Zenon DEF HasBoth

-----------------------------------------------------------------------------
(* The entries of a section.                                               *)

\* A bit of the row that is f behind the first of word p + 1, or in the word after.
LEMMA RowPlace ==
    ASSUME NEW words, NEW p \in Nat, NEW f \in 0 .. WordBits - 1
    PROVE  BitInRow(words, WordBits * p + f) = Bit(words[p + 1], WordBits - 1 - f)
<1>1. WordBits \in Nat \ {0}
  BY ExtractBitsAssumption
<1>2. (WordBits * p + f) \div WordBits = p /\ (WordBits * p + f) % WordBits = f
  BY <1>1, DivModUnique, Zenon
<1> QED BY <1>2 DEF BitInRow

\* The words hold the entries of all blocks, and nothing else.
LEMMA WordsExact ==
    ASSUME NEW bits \in 1..WordBits
    PROVE  /\ u64_count(bits) \in Nat
           /\ WordBits * u64_count(bits) = Blocks * bits
<1>1. WordBits \in Nat \ {0} /\ Blocks \in Nat \ {0} /\ Blocks % WordBits = 0 /\ bits \in Nat
  BY ExtractBitsAssumption, AlgorithmsAssumption
<1>2. PICK k \in Nat : Blocks = WordBits * k
  <2>1. Blocks \div WordBits \in Nat /\ Blocks = WordBits * (Blocks \div WordBits) + (Blocks % WordBits)
    BY <1>1, DivMod
  <2>2. PICK k \in Nat : k = Blocks \div WordBits
    BY <2>1
  <2>3. WordBits * k \in Nat
    BY <1>1
  <2>4. Blocks = WordBits * k + 0
    BY <1>1, <2>1, <2>2
  <2> QED BY <2>3, <2>4
<1>3. PICK c \in Nat : c = k * bits
  BY <1>1
<1>4. Blocks * bits = WordBits * c
  BY <1>1, <1>2, <1>3
<1>5. (WordBits * c + 0) \div WordBits = c
  <2>1. 0 \in 0 .. WordBits - 1
    BY <1>1
  <2> QED BY <1>1, <2>1, DivModUnique, Zenon
<1>6. WordBits * c + 0 = WordBits * c
  BY <1>1
<1> QED BY <1>4, <1>5, <1>6 DEF u64_count

\* extract_bits, in words that reach far enough.
LEMMA EntryBits ==
    ASSUME NEW data, NEW p \in Nat, NEW f \in 0 .. WordBits - 1, NEW bits \in 1..WordBits,
           data[p + 1] \in Nat, data[p + 2] \in Nat
    PROVE  LET e == extract_bits(data, WordBits * p + f, bits)
           IN  /\ e \in 0 .. Pow2[bits] - 1
               /\ \A j \in 0 .. bits - 1 :
                     Bit(e, bits - 1 - j) = IF f + j < WordBits
                                            THEN Bit(data[p + 1], WordBits - 1 - (f + j))
                                            ELSE Bit(data[p + 2], WordBits - 1 - (f + j - WordBits))
<1>1. WordBits \in Nat \ {0}
  BY ExtractBitsAssumption
<1>2. (WordBits * p + f) \div WordBits = p /\ (WordBits * p + f) % WordBits = f
  BY <1>1, DivModUnique, Zenon
<1>3. PICK n \in Nat : n = IF bits > WordBits - f THEN WordBits - f ELSE bits
  <2>1. (IF bits > WordBits - f THEN WordBits - f ELSE bits) \in Nat
    BY <1>1
  <2> QED BY <2>1
<1>4. PICK d \in Nat : d = WordBits - f - n
  <2>1. WordBits - f - n \in Nat
    BY <1>1, <1>3
  <2> QED BY <2>1
<1>5. PICK s \in Nat : s = bits - n
  BY <1>1, <1>3
<1>6. s # 0 => n = WordBits - f
  BY <1>1, <1>3, <1>5
<1>7. n + s = bits /\ s <= WordBits
  BY <1>1, <1>3, <1>5
<1>8. PICK first : first = Part(data[p + 1], d, n)
  OBVIOUS
<1>9. PICK second : second = SecondPart(data[p + 2], s)
  OBVIOUS
<1>10. PICK e : e = extract_bits(data, WordBits * p + f, bits)
  OBVIOUS
<1>11. e = Joined(first, s, second)
  BY <1>2, <1>3, <1>4, <1>5, <1>8, <1>9, <1>10 DEF extract_bits, Part, Joined
<1>12. IsPart(first, data[p + 1], d, n)
  BY <1>8, BitOfPart, Zenon
<1>13. IsPart(second, data[p + 2], WordBits - s, s)
  <2>1. CASE s = 0
    <3>1. second = 0
      BY <1>9, <2>1 DEF SecondPart
    <3>2. Pow2[s] = 1
      BY <2>1, Pow2Def
    <3> QED BY <2>1, <3>1, <3>2 DEF IsPart
  <2>2. CASE s # 0
    <3>1. PICK h \in Nat : h = WordBits - s
      BY <1>1, <1>7
    <3>2. second = Part(data[p + 2], h, s)
      BY <1>9, <2>2, <3>1 DEF SecondPart, Part
    <3> QED BY <3>1, <3>2, BitOfPart, Zenon
  <2> QED BY <2>1, <2>2
<1>14. e \in 0 .. Pow2[bits] - 1 /\ HasBoth(e, n, first, s, second)
  <2>1. first \in 0 .. Pow2[n] - 1 /\ second \in 0 .. Pow2[s] - 1
    BY <1>12, <1>13 DEF IsPart
  <2>2. e \in 0 .. Pow2[n + s] - 1
    BY <1>11, <2>1, JoinedRange
  <2> QED BY <1>7, <1>11, <2>1, <2>2, BitOfJoined, Zenon
<1>15. ASSUME NEW j \in 0 .. bits - 1, f + j < WordBits
       PROVE  Bit(e, bits - 1 - j) = Bit(data[p + 1], WordBits - 1 - (f + j))
  <2>1. j < n
    BY <1>1, <1>3, <1>15
  <2>2. PICK k \in 0 .. n - 1 : k = n - 1 - j
    BY <2>1
  <2>3. s + k = bits - 1 - j /\ d + k = WordBits - 1 - (f + j)
    BY <1>1, <1>4, <1>5, <2>2
  <2>4. Bit(e, s + k) = Bit(first, k) /\ Bit(first, k) = Bit(data[p + 1], d + k)
    BY <1>12, <1>14 DEF IsPart, HasBoth
  <2> QED BY <2>3, <2>4
<1>16. ASSUME NEW j \in 0 .. bits - 1, ~(f + j < WordBits)
       PROVE  Bit(e, bits - 1 - j) = Bit(data[p + 2], WordBits - 1 - (f + j - WordBits))
  <2>1. n <= j /\ n = WordBits - f
    BY <1>1, <1>3, <1>16
  <2>2. PICK k \in 0 .. s - 1 : k = bits - 1 - j
    BY <1>5, <2>1
  <2>3. WordBits - s + k = WordBits - 1 - (f + j - WordBits)
    BY <1>1, <1>5, <2>1, <2>2
  <2>4. Bit(e, k) = Bit(second, k) /\ Bit(second, k) = Bit(data[p + 2], WordBits - s + k)
    BY <1>13, <1>14 DEF IsPart, HasBoth
  <2> QED BY <2>2, <2>3, <2>4
<1> QED BY <1>10, <1>14, <1>15, <1>16

\* The entry of a block, from the words and the one behind them.
LEMMA EntryOfWords ==
    ASSUME NEW bits \in 1..WordBits, NEW i \in 0 .. Blocks - 1,
           NEW words \in [1 .. u64_count(bits) -> 0 .. Pow2[WordBits] - 1]
    PROVE  /\ Entries(words, bits)[i] \in 0 .. Pow2[bits] - 1
           /\ \A j \in 0 .. bits - 1 :
                 Bit(Entries(words, bits)[i], bits - 1 - j) = BitInRow(words, i * bits + j)
<1>1. WordBits \in Nat \ {0} /\ Blocks \in Nat \ {0} /\ bits \in Nat \ {0} /\ i \in Nat
  BY ExtractBitsAssumption
<1>2. PICK c \in Nat : c = u64_count(bits) /\ WordBits * c = Blocks * bits
  BY WordsExact
<1>3. PICK o \in Nat : o = i * bits
  BY <1>1
<1>4. o + bits <= WordBits * c
  <2>1. i + 1 <= Blocks
    BY <1>1
  <2>2. (i + 1) * bits <= Blocks * bits
    BY <1>1, <2>1
  <2>3. (i + 1) * bits = i * bits + bits
    BY <1>1
  <2> QED BY <1>2, <1>3, <2>2, <2>3
<1>5. PICK p \in Nat, f \in 0 .. WordBits - 1 : o = WordBits * p + f
  <2>1. o \div WordBits \in Nat /\ o % WordBits \in 0 .. WordBits - 1
        /\ o = WordBits * (o \div WordBits) + (o % WordBits)
    BY <1>1, DivMod
  <2> QED BY <2>1, Zenon
<1>6. \A k \in Nat, g \in 0 .. WordBits - 1 : WordBits * k + g < WordBits * c => k < c
  <2> SUFFICES ASSUME NEW k \in Nat, NEW g \in 0 .. WordBits - 1, c <= k
               PROVE  WordBits * c <= WordBits * k + g
    BY <1>1
  <2>1. WordBits * c <= WordBits * k /\ WordBits * k \in Nat /\ WordBits * c \in Nat
    BY <1>1
  <2> QED BY <2>1
<1>7. p < c
  BY <1>1, <1>4, <1>5, <1>6
<1>8. PICK data : data = Padded(words)
  OBVIOUS
<1>9. words \in [1..c -> Nat]
  <2>1. 0 .. Pow2[WordBits] - 1 \subseteq Nat
    OBVIOUS
  <2> QED BY <1>2, <2>1
<1>10. /\ \A k \in 1..c : data[k] = words[k] /\ data[k] \in Nat
       /\ data[c + 1] = 0
  <2>1. words \in Seq(Nat) /\ Len(words) = c
    BY <1>9
  <2>2. data = Append(words, 0)
    BY <1>8 DEF Padded
  <2>3. \A k \in 1..c : data[k] = words[k]
    BY <2>1, <2>2
  <2>4. data[c + 1] = 0
    BY <2>1, <2>2
  <2> QED BY <1>9, <2>3, <2>4
<1>11. data[p + 1] \in Nat /\ data[p + 2] \in Nat
  <2>1. p + 1 \in 1..c /\ (p + 2 \in 1..c \/ p + 2 = c + 1)
    BY <1>7
  <2> QED BY <1>10, <2>1
<1>12. PICK e : e = extract_bits(data, WordBits * p + f, bits)
  OBVIOUS
<1>13. Entries(words, bits)[i] = e
  BY <1>3, <1>5, <1>8, <1>12 DEF Entries
<1>14. /\ e \in 0 .. Pow2[bits] - 1
       /\ \A j \in 0 .. bits - 1 :
             Bit(e, bits - 1 - j) = IF f + j < WordBits
                                    THEN Bit(data[p + 1], WordBits - 1 - (f + j))
                                    ELSE Bit(data[p + 2], WordBits - 1 - (f + j - WordBits))
  BY <1>11, <1>12, EntryBits
<1>15. ASSUME NEW j \in 0 .. bits - 1
       PROVE  Bit(e, bits - 1 - j) = BitInRow(words, i * bits + j)
  <2>1. CASE f + j < WordBits
    <3>1. PICK g \in 0 .. WordBits - 1 : g = f + j
      BY <1>1, <2>1
    <3>2. i * bits + j = WordBits * p + g
      <4>1. WordBits * p \in Nat
        BY <1>1
      <4> QED BY <1>3, <1>5, <3>1, <4>1
    <3>3. BitInRow(words, WordBits * p + g) = Bit(words[p + 1], WordBits - 1 - g)
      BY RowPlace, Zenon
    <3>4. data[p + 1] = words[p + 1]
      BY <1>7, <1>10
    <3> QED BY <1>14, <2>1, <3>1, <3>2, <3>3, <3>4
  <2>2. CASE ~(f + j < WordBits)
    <3>1. PICK g \in 0 .. WordBits - 1 : g = f + j - WordBits
      BY <1>1, <2>2
    <3>2. PICK q \in Nat : q = p + 1
      OBVIOUS
    <3>3. i * bits + j = WordBits * q + g
      <4>1. WordBits * p \in Nat /\ WordBits * (p + 1) = WordBits * p + WordBits
        BY <1>1
      <4> QED BY <1>1, <1>3, <1>5, <3>1, <3>2, <4>1
    <3>4. BitInRow(words, WordBits * q + g) = Bit(words[q + 1], WordBits - 1 - g)
      BY RowPlace, Zenon
    <3>5. WordBits * q + g < WordBits * c
      <4>1. i * bits + j < WordBits * c
        BY <1>1, <1>3, <1>4
      <4> QED BY <3>3, <4>1
    <3>6. q < c
      BY <1>6, <3>5
    <3>7. data[q + 1] = words[q + 1] /\ q + 1 = p + 2
      BY <1>10, <3>2, <3>6
    <3> QED BY <1>14, <2>2, <3>1, <3>3, <3>4, <3>7
  <2> QED BY <2>1, <2>2
<1> QED BY <1>13, <1>14, <1>15
-----------------------------------------------------------------------------
(* Numbers and their bytes.                                                *)

LEMMA FieldConstants ==
    /\ ByteBits \in Nat \ {0} /\ ByteBits > 1 /\ SegmentWidth = ByteBits - 1
    /\ IntBytes \in Nat \ {0} /\ ShortBytes \in Nat \ {0} /\ LongBytes \in Nat \ {0}
    /\ PositionXZBits \in Nat \ {0} /\ PositionYBits \in Nat \ {0}
    /\ Digits = ByteBits * IntBytes
    /\ 2 * PositionXZBits + PositionYBits <= ByteBits * LongBytes
  BY PacketFieldsAssumption

LEMMA BytesAreVarintBytes == Byte = VarintByte /\ Pow2[ByteBits] \in Nat \ {0}
<1>1. PICK w \in Nat : w = SegmentWidth /\ ByteBits = w + 1
  BY FieldConstants
<1>2. Pow2[w + 1] = 2 * Pow2[w]
  BY Pow2Def
<1> QED BY <1>1, <1>2, Pow2Positive DEF Byte, VarintByte, CONTINUE_BIT

\* The numbers made of the first bytes, more and more of them.
Sums(value, b) ==
    /\ value \in [0..Len(b) -> Nat]
    /\ value[0] = 0
    /\ \A i \in 1..Len(b) : value[i] = value[i - 1] * Pow2[ByteBits] + b[i]

LEMMA FromBytesDef ==
    ASSUME NEW b \in Seq(Byte)
    PROVE  \E value : Sums(value, b) /\ FromBytes(b) = value[Len(b)]
<1> DEFINE D == 0..Len(b)
           p == Pow2[ByteBits]
           step == [x \in D \X [D -> Nat] |-> IF x[1] = 0 THEN 0 ELSE x[2][x[1] - 1] * p + b[x[1]]]
           body(f) == [i \in 0..Len(b) |-> IF i = 0 THEN 0 ELSE f[i - 1] * Pow2[ByteBits] + b[i]]
<1>1. p \in Nat
  BY BytesAreVarintBytes
<1>2. /\ Len(b) \in Nat /\ D \in SUBSET Nat
      /\ \A i \in D : i # 0 => i - 1 \in D /\ i - 1 < i /\ b[i] \in Nat
  <2>1. \A i \in 1..Len(b) : b[i] \in Byte
    BY ElementOfSeq
  <2> QED BY <1>1, <2>1 DEF Byte
<1> HIDE DEF p
<1>3. \A i \in D, f \in [D -> Nat] :
          step[<<i, f>>] = IF i = 0 THEN 0 ELSE f[i - 1] * p + b[i]
  OBVIOUS
<1>4. \A i \in D, f \in [D -> Nat] : (IF i = 0 THEN 0 ELSE f[i - 1] * p + b[i]) \in Nat
  <2> SUFFICES ASSUME NEW i \in D, NEW f \in [D -> Nat], i # 0 PROVE f[i - 1] * p + b[i] \in Nat
    OBVIOUS
  <2>1. f[i - 1] \in Nat /\ b[i] \in Nat
    BY <1>2
  <2> QED BY <1>1, <2>1
<1>5. Recursion(step, D, Nat)
  <2>1. step \in [D \X [D -> Nat] -> Nat]
    <3> HIDE DEF D
    <3> QED BY <1>4
  <2>2. ASSUME NEW i \in D, NEW f \in [D -> Nat], NEW g \in [D -> Nat],
               \A j \in D : j < i => f[j] = g[j]
        PROVE  step[<<i, f>>] = step[<<i, g>>]
    <3>1. i # 0 => f[i - 1] = g[i - 1]
      <4> HIDE DEF D
      <4> QED BY <1>2, <2>2
    <3> HIDE DEF step
    <3> QED BY <1>3, <3>1
  <2>3. D \in SUBSET Nat
    BY <1>2
  <2> HIDE DEF D, step
  <2> QED BY <2>1, <2>2, <2>3 DEF Recursion
<1> HIDE DEF step
<1>6. PICK f : Solves(f, step, D, Nat)
  BY <1>5, RecursionExists
<1>7. f \in [D -> Nat] /\ \A i \in D : f[i] = IF i = 0 THEN 0 ELSE f[i - 1] * p + b[i]
  BY <1>3, <1>6 DEF Solves
<1>8. f = body(f)
  BY <1>7 DEF p
<1> DEFINE value == CHOOSE g : g = body(g)
<1>9. value = body(value)
  <2> HIDE DEF body
  <2> QED BY <1>8
<1>10. FromBytes(b) = value[Len(b)]
  BY <1>2 DEF FromBytes
<1> HIDE DEF value
<1>11. \A i \in D : value[i] = IF i = 0 THEN 0 ELSE value[i - 1] * p + b[i]
  BY <1>9 DEF p
<1>12. value \in [D -> Nat]
  <2> DEFINE S == {i \in Nat : i \in D => value[i] \in Nat}
  <2>1. 0 \in S
    BY <1>11
  <2>2. ASSUME NEW i \in Nat, i \in S PROVE i + 1 \in S
    <3>1. i + 1 \in D => i \in D /\ value[i + 1] = value[i] * p + b[i + 1] /\ b[i + 1] \in Nat
      <4>1. i + 1 \in D => i \in D /\ i + 1 # 0 /\ (i + 1) - 1 = i
        BY <1>2
      <4> HIDE DEF D
      <4> QED BY <1>2, <1>11, <4>1
    <3> HIDE DEF D
    <3> QED BY <1>1, <2>2, <3>1
  <2>3. Nat \subseteq S
    <3> HIDE DEF S
    <3> QED BY <2>1, <2>2, NaturalInduction
  <2>4. \A i \in D : value[i] \in Nat
    BY <1>2, <2>3
  <2>5. value = [i \in D |-> value[i]]
    BY <1>9
  <2> QED BY <2>4, <2>5
<1> QED BY <1>10, <1>11, <1>12 DEF Sums, p

\* The bytes of a number, the most significant first, make the number again.
LEMMA BytesOfNumber ==
    ASSUME NEW n \in Nat \ {0}, NEW u \in 0 .. Pow2[ByteBits * n] - 1,
           NEW b \in [1..n -> Byte],
           \A i \in 1..n : b[i] = (u \div Pow2[ByteBits * (n - i)]) % Pow2[ByteBits]
    PROVE  FromBytes(b) = u
<1> DEFINE left(i) == u \div Pow2[ByteBits * (n - i)]
<1>1. b \in Seq(Byte) /\ Len(b) = n
  OBVIOUS
<1>2. PICK value : Sums(value, b) /\ FromBytes(b) = value[n]
  BY <1>1, FromBytesDef
<1>3. ByteBits \in Nat /\ Pow2[ByteBits] \in Nat \ {0} /\ u \in Nat
  BY FieldConstants, BytesAreVarintBytes
<1>4. left(0) = 0
  <2>1. PICK m \in Nat : m = ByteBits * n
    BY <1>3
  <2>2. Pow2[m] \in Nat \ {0} /\ u \in 0 .. Pow2[m] - 1
    BY <2>1, Pow2Positive
  <2>3. u \div Pow2[m] = 0
    <3> DEFINE q == Pow2[m]
    <3> HIDE DEF q
    <3>1. q \in Nat \ {0} /\ u \in 0 .. q - 1
      BY <2>2 DEF q
    <3>2. u \div q = 0
      BY <3>1, ModSmall, Zenon
    <3> QED BY <3>2 DEF q
  <2>4. n - 0 = n
    OBVIOUS
  <2> QED BY <2>1, <2>3, <2>4
<1>5. ASSUME NEW i \in 0 .. n - 1
      PROVE  left(i + 1) = left(i) * Pow2[ByteBits] + b[i + 1]
  <2>1. PICK m \in Nat : m = ByteBits * (n - (i + 1))
    <3>1. n - (i + 1) \in Nat
      OBVIOUS
    <3> QED BY <1>3, <3>1
  <2>2. ByteBits * (n - i) = m + ByteBits
    BY <1>3, <2>1
  <2>3. PICK q \in Nat : q = u \div Pow2[m]
    BY <1>3, Pow2Positive, DivMod
  <2>4. Pow2[m + ByteBits] = Pow2[m] * Pow2[ByteBits]
    BY <1>3, Pow2Sum
  <2>5. u \div (Pow2[m] * Pow2[ByteBits]) = (u \div Pow2[m]) \div Pow2[ByteBits]
    <3>1. Pow2[m] \in Nat \ {0}
      BY Pow2Positive
    <3>2. PICK a \in Nat \ {0}, c \in Nat \ {0} : a = Pow2[m] /\ c = Pow2[ByteBits]
      BY <3>1, FieldConstants, Pow2Positive
    <3>3. u \in Nat
      BY <1>3
    <3>4. u \div (a * c) = (u \div a) \div c
      BY <3>3, DivProduct, Zenon
    <3> QED BY <3>2, <3>4, Zenon
  <2>6. left(i) = q \div Pow2[ByteBits] /\ left(i + 1) = q
    BY <2>1, <2>2, <2>3, <2>4, <2>5
  <2>7. b[i + 1] = q % Pow2[ByteBits]
    <3>1. i + 1 \in 1..n
      OBVIOUS
    <3> QED BY <2>1, <2>3, <3>1
  <2>8. q = Pow2[ByteBits] * (q \div Pow2[ByteBits]) + (q % Pow2[ByteBits])
    BY <1>3, DivMod
  <2>9. Pow2[ByteBits] * (q \div Pow2[ByteBits]) = (q \div Pow2[ByteBits]) * Pow2[ByteBits]
    <3>1. q \div Pow2[ByteBits] \in Nat
      BY <1>3, DivMod
    <3> QED BY <1>3, <3>1
  <2> QED BY <2>6, <2>7, <2>8, <2>9
<1> HIDE DEF left
<1>6. DEFINE S == {i \in Nat : i <= n => value[i] = left(i)}
<1>7. 0 \in S
  BY <1>2, <1>4 DEF Sums
<1>8. ASSUME NEW i \in Nat, i \in S PROVE i + 1 \in S
  <2>1. i + 1 <= n => value[i + 1] = value[i] * Pow2[ByteBits] + b[i + 1] /\ value[i] = left(i)
    <3>1. i + 1 <= n => i + 1 \in 1..Len(b) /\ (i + 1) - 1 = i
      BY <1>1
    <3> QED BY <1>2, <1>8, <3>1 DEF Sums
  <2>2. i + 1 <= n => left(i + 1) = left(i) * Pow2[ByteBits] + b[i + 1]
    BY <1>5
  <2> QED BY <2>1, <2>2
<1>9. Nat \subseteq S
  <2> HIDE DEF S
  <2> QED BY <1>7, <1>8, NaturalInduction
<1>10. value[n] = left(n)
  BY <1>9
<1>11. left(n) = u
  <2>1. n - n = 0 /\ ByteBits * 0 = 0
    BY <1>3
  <2>2. left(n) = u \div Pow2[0]
    BY <2>1 DEF left
  <2>3. u \div 1 = u
    BY <1>3
  <2> QED BY <2>2, <2>3, Pow2Def
<1> QED BY <1>2, <1>10, <1>11

LEMMA SignedBack ==
    ASSUME NEW n \in Nat \ {0}, NEW v \in SignedRange(n)
    PROVE  FromUnsigned(ToUnsigned(v, n), n) = v /\ ToUnsigned(v, n) \in UnsignedRange(n)
<1>1. PICK h \in Nat : h = Pow2[n - 1] /\ Pow2[n] = 2 * h /\ h # 0
  <2>1. n - 1 \in Nat /\ (n - 1) + 1 = n
    OBVIOUS
  <2> QED BY <2>1, Pow2Def, Pow2Positive
<1>2. v \in -h .. h - 1
  BY <1>1 DEF SignedRange
<1>3. v \in Int /\ 2 * h \in Nat \ {0}
  BY <1>1, <1>2
<1>4. CASE v >= 0
  <2>1. v \in 0 .. 2 * h - 1
    BY <1>1, <1>2, <1>4
  <2>2. v % (2 * h) = v
    BY <1>3, <2>1, ModSmall
  <2> QED BY <1>1, <1>2, <2>1, <2>2 DEF FromUnsigned, ToUnsigned, UnsignedRange
<1>5. CASE v < 0
  <2>1. v % (2 * h) = v + 2 * h
    <3>1. PICK m \in Nat \ {0} : m = 2 * h
      BY <1>1
    <3>2. v + m \in 0 .. m - 1
      BY <1>1, <1>2, <1>5, <3>1
    <3>3. v % m = v + m
      <4>1. v % m \in 0 .. m - 1 /\ v = m * (v \div m) + (v % m) /\ v \div m \in Int
        BY <1>3, <3>1
      <4>2. PICK k \in Int : k = v \div m
        BY <4>1
      <4>3. PICK r \in 0 .. m - 1 : r = v % m
        BY <4>1
      <4>4. v = m * k + r
        BY <4>1, <4>2, <4>3
      <4>5. k = -1
        <5>1. k >= 0 => m * k >= 0
          BY <3>1
        <5>2. k <= -2 => m * k <= m * (-2)
          BY <3>1
        <5>3. m * k \in Int /\ m * (-2) = -(2 * m)
          BY <3>1
        <5> QED BY <1>3, <1>5, <3>2, <4>4, <5>1, <5>2, <5>3
      <4>6. m * (-1) = -m
        OBVIOUS
      <4> QED BY <1>3, <4>3, <4>4, <4>5, <4>6
    <3> QED BY <3>1, <3>3
  <2> QED BY <1>1, <1>2, <1>5, <2>1 DEF FromUnsigned, ToUnsigned, UnsignedRange
<1> QED BY <1>3, <1>4, <1>5

LEMMA UnsignedBack ==
    ASSUME NEW n \in Nat, NEW v \in UnsignedRange(n)
    PROVE  ToUnsigned(v, n) = v
<1>1. PICK m \in Nat \ {0} : m = Pow2[n]
  BY Pow2Positive
<1>2. v \in 0 .. m - 1
  BY <1>1 DEF UnsignedRange
<1>3. v % m = v
  BY <1>2, ModSmall
<1> QED BY <1>1, <1>3 DEF ToUnsigned

\* write_int writes the bytes of the number.
LEMMA WriteInt ==
    ASSUME NEW n \in Nat \ {0}, NEW v, ToUnsigned(v, n * ByteBits) \in UnsignedRange(n * ByteBits)
    PROVE  /\ write_int(v, n) \in Seq(Byte) /\ Len(write_int(v, n)) = n
           /\ FromBytes(write_int(v, n)) = ToUnsigned(v, n * ByteBits)
<1>1. PICK u : u = ToUnsigned(v, n * ByteBits)
  OBVIOUS
<1>2. n * ByteBits = ByteBits * n /\ ByteBits \in Nat
  BY FieldConstants
<1>3. u \in 0 .. Pow2[ByteBits * n] - 1 /\ u \in Nat
  BY <1>1, <1>2 DEF UnsignedRange
<1>4. PICK b : b = write_int(v, n)
  OBVIOUS
<1> DEFINE digit(i) == (u \div Pow2[ByteBits * (i - 1)]) % Pow2[ByteBits]
<1>5. b = Reverse([i \in 1..n |-> digit(i)])
  BY <1>1, <1>4 DEF write_int
<1>6. \A i \in 1..n : digit(i) \in Byte
  <2> SUFFICES ASSUME NEW i \in 1..n PROVE digit(i) \in Byte
    OBVIOUS
  <2>1. PICK k \in Nat : k = ByteBits * (i - 1)
    <3>1. i - 1 \in Nat
      OBVIOUS
    <3> QED BY <1>2, <3>1
  <2>2. Part(u, k, ByteBits) \in 0 .. Pow2[ByteBits] - 1
    BY <1>2, <1>3, PartRange
  <2> QED BY <2>1, <2>2 DEF Byte, Part
<1> HIDE DEF digit
<1>7. b = [i \in 1..n |-> digit(n - i + 1)]
  <2>1. Len([i \in 1..n |-> digit(i)]) = n
    OBVIOUS
  <2>2. \A i \in 1..n : n - i + 1 \in 1..n
    OBVIOUS
  <2> QED BY <1>5, <2>1, <2>2 DEF Reverse
<1>8. b \in [1..n -> Byte]
  <2>1. \A i \in 1..n : n - i + 1 \in 1..n
    OBVIOUS
  <2> QED BY <1>6, <1>7, <2>1
<1>9. \A i \in 1..n : b[i] = (u \div Pow2[ByteBits * (n - i)]) % Pow2[ByteBits]
  <2> SUFFICES ASSUME NEW i \in 1..n PROVE b[i] = (u \div Pow2[ByteBits * (n - i)]) % Pow2[ByteBits]
    OBVIOUS
  <2>1. b[i] = digit(n - i + 1) /\ (n - i + 1) - 1 = n - i
    BY <1>7
  <2> QED BY <2>1 DEF digit
<1>10. FromBytes(b) = u
  BY <1>3, <1>8, <1>9, BytesOfNumber
<1> QED BY <1>1, <1>4, <1>8, <1>10

-----------------------------------------------------------------------------
(* Where a field lies in a packet.                                         *)

\* The bytes w are behind the first at ones of s.
LiesAt(s, at, w) ==
    /\ at \in Nat /\ at + Len(w) <= Len(s)
    /\ \A i \in 1..Len(w) : s[at + i] = w[i]

LEMMA LiesInParts ==
    ASSUME NEW s \in Seq(Byte), NEW at, NEW v \in Seq(Byte), NEW w \in Seq(Byte), LiesAt(s, at, v \o w)
    PROVE  LiesAt(s, at, v) /\ LiesAt(s, at + Len(v), w)
<1>1. /\ at \in Nat /\ at + (Len(v) + Len(w)) <= Len(s)
      /\ \A i \in 1 .. Len(v) + Len(w) : s[at + i] = (v \o w)[i]
  BY ConcatProperties DEF LiesAt
<1>2. Len(v) \in Nat /\ Len(w) \in Nat /\ Len(s) \in Nat
  OBVIOUS
<1>3. ASSUME NEW i \in 1..Len(v) PROVE s[at + i] = v[i]
  <2>1. i \in 1 .. Len(v) + Len(w) /\ i <= Len(v)
    BY <1>2
  <2> QED BY <1>1, <2>1, ConcatProperties
<1>4. ASSUME NEW i \in 1..Len(w) PROVE s[(at + Len(v)) + i] = w[i]
  <2>1. PICK j \in 1 .. Len(v) + Len(w) : j = Len(v) + i
    BY <1>2
  <2>2. (v \o w)[j] = w[i]
    BY <2>1, <1>2, ConcatProperties
  <2>3. at + j = (at + Len(v)) + i
    BY <1>1, <1>2, <2>1
  <2> QED BY <1>1, <2>2, <2>3
<1> QED BY <1>1, <1>2, <1>3, <1>4 DEF LiesAt

\* What is read from there on begins with these bytes.
IsInFront(s, at, w) == /\ SubSeq(s, at + 1, at + Len(w)) = w
                       /\ \E t \in Seq(Byte) : SubSeq(s, at + 1, Len(s)) = w \o t

LEMMA LiesInFront ==
    ASSUME NEW s \in Seq(Byte), NEW at, NEW w \in Seq(Byte), LiesAt(s, at, w)
    PROVE  IsInFront(s, at, w)
<1>1. at \in Nat /\ at + Len(w) <= Len(s) /\ \A i \in 1..Len(w) : s[at + i] = w[i]
  BY DEF LiesAt
<1>2. Len(w) \in Nat /\ Len(s) \in Nat
  OBVIOUS
<1>3. SubSeq(s, at + 1, at + Len(w)) = w
  BY <1>1, <1>2
<1>4. PICK t \in Seq(Byte) : t = SubSeq(s, at + Len(w) + 1, Len(s))
  <2>1. at + Len(w) + 1 \in Int /\ Len(s) \in Int /\ \A i \in at + Len(w) + 1 .. Len(s) : s[i] \in Byte
    <3>1. \A i \in at + Len(w) + 1 .. Len(s) : i \in 1..Len(s)
      BY <1>1, <1>2
    <3> QED BY <1>1, <1>2, <3>1, ElementOfSeq
  <2>2. SubSeq(s, at + Len(w) + 1, Len(s)) \in Seq(Byte)
    BY <2>1, SubSeqProperties
  <2> QED BY <2>2
<1>5. SubSeq(s, at + 1, Len(s)) = w \o t
  BY <1>1, <1>2, <1>4
<1> QED BY <1>3, <1>5 DEF IsInFront

LEMMA ReadBytesAt ==
    ASSUME NEW s \in Seq(Byte), NEW at, NEW w \in Seq(Byte), LiesAt(s, at, w)
    PROVE  read_bytes(s, at, Len(s), Len(w)) = Ok(at + Len(w), w)
<1>1. IsInFront(s, at, w)
  BY LiesInFront, Zenon
<1>2. at + Len(w) <= Len(s)
  BY Zenon DEF LiesAt
<1> QED BY <1>1, <1>2, Zenon DEF read_bytes, IsInFront

\* An integer is read from the bytes that write_int wrote.
LEMMA ReadUnsigned ==
    ASSUME NEW s \in Seq(Byte), NEW at, NEW kind \in DOMAIN IntWidth, ~IsSigned(kind),
           NEW v \in UnsignedRange(IntWidth[kind] * ByteBits),
           LiesAt(s, at, write_int(v, IntWidth[kind]))
    PROVE  /\ read_int(s, at, Len(s), kind) = Ok(at + IntWidth[kind], v)
           /\ write_int(v, IntWidth[kind]) \in Seq(Byte) /\ Len(write_int(v, IntWidth[kind])) = IntWidth[kind]
<1>1. PICK n \in Nat \ {0} : n = IntWidth[kind] /\ n * ByteBits \in Nat
  BY FieldConstants DEF IntWidth
<1>2. ToUnsigned(v, n * ByteBits) = v
  BY <1>1, UnsignedBack
<1>3. PICK w : w = write_int(v, n)
  OBVIOUS
<1>4. w \in Seq(Byte) /\ Len(w) = n /\ FromBytes(w) = v
  BY <1>1, <1>2, <1>3, WriteInt
<1>5. read_bytes(s, at, Len(s), n) = Ok(at + n, w)
  BY <1>1, <1>3, <1>4, ReadBytesAt
<1> QED BY <1>1, <1>3, <1>4, <1>5 DEF read_int, Then, Ok

LEMMA ReadSigned ==
    ASSUME NEW s \in Seq(Byte), NEW at, NEW kind \in DOMAIN IntWidth, IsSigned(kind),
           NEW v \in SignedRange(IntWidth[kind] * ByteBits),
           LiesAt(s, at, write_int(v, IntWidth[kind]))
    PROVE  /\ read_int(s, at, Len(s), kind) = Ok(at + IntWidth[kind], v)
           /\ write_int(v, IntWidth[kind]) \in Seq(Byte) /\ Len(write_int(v, IntWidth[kind])) = IntWidth[kind]
<1>1. PICK n \in Nat \ {0} : n = IntWidth[kind]
  BY FieldConstants DEF IntWidth
<1>2. PICK bits \in Nat \ {0} : bits = n * ByteBits
  <2>1. n * ByteBits \in Nat /\ n * ByteBits # 0
    BY FieldConstants
  <2> QED BY <2>1
<1>3. FromUnsigned(ToUnsigned(v, bits), bits) = v /\ ToUnsigned(v, bits) \in UnsignedRange(bits)
  BY <1>1, <1>2, SignedBack
<1>4. PICK w : w = write_int(v, n)
  OBVIOUS
<1>5. w \in Seq(Byte) /\ Len(w) = n /\ FromBytes(w) = ToUnsigned(v, bits)
  BY <1>2, <1>3, <1>4, WriteInt
<1>6. read_bytes(s, at, Len(s), n) = Ok(at + n, w)
  BY <1>1, <1>4, <1>5, ReadBytesAt
<1> QED BY <1>1, <1>2, <1>3, <1>4, <1>5, <1>6 DEF read_int, Then, Ok

\* The bytes of a varint.
LEMMA VarintBytesWritten ==
    ASSUME NEW v \in SignedRange(Digits)
    PROVE  write_varint(v) \in Seq(Byte)
<1>1. PICK u : u = ToUnsigned(v, Digits)
  OBVIOUS
<1>2. u \in Unsigned
  BY <1>1, SignedBack, VarintAssumption DEF Unsigned, Modulus, UnsignedRange
<1>3. <<>> \in Seq(VarintByte)
  OBVIOUS
<1> QED BY <1>1, <1>2, <1>3, ReadEncoded, BytesAreVarintBytes DEF write_varint

\* A varint is read from the bytes that write_varint wrote.
LEMMA ReadVarintAt ==
    ASSUME NEW s \in Seq(Byte), NEW at, NEW v \in SignedRange(Digits), LiesAt(s, at, write_varint(v))
    PROVE  /\ read_varint(s, at, Len(s)) = Ok(at + Len(write_varint(v)), v)
           /\ write_varint(v) \in Seq(Byte)
<1>1. Digits \in Nat \ {0}
  BY VarintAssumption
<1>2. PICK u : u = ToUnsigned(v, Digits)
  OBVIOUS
<1>3. u \in Unsigned /\ ToSigned(u) = v
  BY <1>1, <1>2, SignedBack DEF Unsigned, Modulus, UnsignedRange, ToSigned, SignBit, FromUnsigned
<1>4. PICK w : w = write_varint(v)
  OBVIOUS
<1>5. w = Encoded(u) /\ Byte = VarintByte
  BY <1>2, <1>4, BytesAreVarintBytes DEF write_varint
<1>6. <<>> \in Seq(VarintByte)
  OBVIOUS
<1>7. w \in Seq(Byte)
  BY <1>3, <1>5, <1>6, ReadEncoded
<1>8. PICK t \in Seq(Byte) : SubSeq(s, at + 1, Len(s)) = w \o t
  <2>1. LiesAt(s, at, w)
    BY <1>4
  <2>2. IsInFront(s, at, w)
    BY <1>7, <2>1, LiesInFront, Zenon
  <2> QED BY <2>2, Zenon DEF IsInFront
<1>9. Read(w \o t) = Finished(u, Len(w))
  BY <1>3, <1>5, ReadEncoded
<1>10. PICK r : r = Read(SubSeq(s, at + 1, Len(s)))
  OBVIOUS
<1>11. r = Finished(u, Len(w))
  BY <1>8, <1>9, <1>10
<1>12. r.status = "done" /\ r.value = u /\ r.count = Len(w)
  BY <1>11 DEF Finished
<1>13. read_varint(s, at, Len(s)) = Ok(at + Len(w), v)
  BY <1>3, <1>10, <1>12 DEF read_varint
<1> QED BY <1>4, <1>7, <1>13

-----------------------------------------------------------------------------
(* Every kind of field.                                                    *)

\* A field lies at a place and is read there: its value, and exactly its bytes.
ReadsBack(f, s, at) ==
    /\ write_field(f) \in Seq(Byte)
    /\ read_field(f, s, at, Len(s)) = Ok(at + Len(write_field(f)), f.value)

LEMMA IntReadsBack ==
    ASSUME NEW f, f.kind \in DOMAIN IntWidth, IsField(f),
           NEW s \in Seq(Byte), NEW at, LiesAt(s, at, write_field(f))
    PROVE  ReadsBack(f, s, at)
<1>0. f.kind \notin {"varint", "string", "uuid", "position"}
  BY DEF IntWidth
<1>1. write_field(f) = write_int(f.value, IntWidth[f.kind])
  BY <1>0 DEF write_field
<1>2. CASE f.kind # "bool"
  <2>1. f.value \in IF IsSigned(f.kind) THEN SignedRange(IntWidth[f.kind] * ByteBits)
                                        ELSE UnsignedRange(IntWidth[f.kind] * ByteBits)
    BY <1>2 DEF IsField, IntWidth
  <2>2. read_field(f, s, at, Len(s)) = read_int(s, at, Len(s), f.kind)
    BY <1>0, <1>2 DEF read_field
  <2>3. CASE IsSigned(f.kind)
    BY <1>1, <2>1, <2>2, <2>3, ReadSigned DEF ReadsBack
  <2>4. CASE ~IsSigned(f.kind)
    BY <1>1, <2>1, <2>2, <2>4, ReadUnsigned DEF ReadsBack
  <2> QED BY <2>3, <2>4
<1>3. CASE f.kind = "bool"
  <2>1. f.value \in {0, 1}
    BY <1>3 DEF IsField, IntWidth
  <2>2. IntWidth["bool"] = IntWidth["u8"] /\ "u8" \in DOMAIN IntWidth /\ ~IsSigned("u8")
    BY DEF IntWidth, IsSigned
  <2>3. f.value \in UnsignedRange(IntWidth["u8"] * ByteBits)
    <3>1. PICK k \in Nat : ByteBits = k + 1
      <4>1. ByteBits - 1 \in Nat /\ ByteBits = (ByteBits - 1) + 1
        BY FieldConstants
      <4> QED BY <4>1
    <3>2. Pow2[k + 1] = 2 * Pow2[k] /\ Pow2[k] \in Nat \ {0}
      BY Pow2Def, Pow2Positive
    <3>3. IntWidth["u8"] * ByteBits = k + 1
      BY <3>1 DEF IntWidth
    <3> QED BY <2>1, <3>2, <3>3 DEF UnsignedRange
  <2>4. LiesAt(s, at, write_int(f.value, IntWidth["u8"]))
    BY <1>1, <1>3, <2>2
  <2>5. /\ read_int(s, at, Len(s), "u8") = Ok(at + IntWidth["u8"], f.value)
        /\ write_int(f.value, IntWidth["u8"]) \in Seq(Byte)
        /\ Len(write_int(f.value, IntWidth["u8"])) = IntWidth["u8"]
    BY <2>2, <2>3, <2>4, ReadUnsigned
  <2>6. read_bool(s, at, Len(s)) = Ok(at + IntWidth["u8"], f.value)
    BY <2>1, <2>5 DEF read_bool, Then, Ok
  <2>7. read_field(f, s, at, Len(s)) = read_bool(s, at, Len(s))
    BY <1>3 DEF read_field
  <2> QED BY <1>1, <1>3, <2>2, <2>5, <2>6, <2>7 DEF ReadsBack
<1> QED BY <1>2, <1>3

LEMMA VarintReadsBack ==
    ASSUME NEW f, f.kind = "varint", IsField(f),
           NEW s \in Seq(Byte), NEW at, LiesAt(s, at, write_field(f))
    PROVE  ReadsBack(f, s, at)
<1>1. f.value \in SignedRange(Digits)
  BY DEF IsField, IntWidth
<1>2. write_field(f) = write_varint(f.value)
  BY DEF write_field, IntWidth
<1>3. read_field(f, s, at, Len(s)) = read_varint(s, at, Len(s))
  BY DEF read_field, IntWidth
<1> QED BY <1>1, <1>2, <1>3, ReadVarintAt DEF ReadsBack

\* The length of a string that the writer lets pass is one of the numbers of a varint.
LEMMA StringLength ==
    ASSUME NEW f, f.kind = "string", IsField(f), ~Refused(f)
    PROVE  /\ f.value \in Seq(Byte) /\ f.max \in Nat
           /\ Len(f.value) \in SignedRange(Digits)
<1>1. f.value \in Seq(Byte) /\ f.max \in Nat /\ 4 * f.max < SignBit
  BY DEF IsField, IntWidth
<1>2. Len(f.value) \in Nat /\ Len(f.value) <= 4 * f.max
  BY <1>1 DEF Refused, StringTooLong
<1>3. SignBit = Pow2[Digits - 1] /\ Pow2[Digits - 1] \in Nat
  <2>1. Digits - 1 \in Nat
    BY VarintAssumption
  <2> QED BY <2>1, Pow2Positive DEF SignBit
<1> QED BY <1>1, <1>2, <1>3 DEF SignedRange

\* A string within four times its limit is written; beyond its limit it is not read.
LEMMA StringReadsBack ==
    ASSUME NEW f, f.kind = "string", IsField(f), ~Refused(f),
           NEW s \in Seq(Byte), NEW at, LiesAt(s, at, write_field(f))
    PROVE  /\ write_field(f) \in Seq(Byte)
           /\ Len(f.value) > f.max => read_field(f, s, at, Len(s)) = Thrown
           /\ Len(f.value) <= f.max => ReadsBack(f, s, at)
<1>1. f.value \in Seq(Byte) /\ f.max \in Nat /\ Len(f.value) \in SignedRange(Digits)
  BY StringLength
<1>2. PICK n \in Nat : n = Len(f.value)
  BY <1>1
<1>3. PICK max \in Nat : max = f.max
  BY <1>1
<1>5. n \in SignedRange(Digits)
  BY <1>1, <1>2
<1>6. PICK head : head = write_varint(n)
  OBVIOUS
<1>7. write_field(f) = head \o f.value
  BY <1>2, <1>6 DEF write_field, write_string, IntWidth
<1>8. write_varint(n) \in Seq(Byte)
  BY <1>5, VarintBytesWritten
<1>9. LiesAt(s, at, head) /\ LiesAt(s, at + Len(head), f.value)
  BY <1>1, <1>6, <1>7, <1>8, LiesInParts
<1>10. read_varint(s, at, Len(s)) = Ok(at + Len(head), n)
  BY <1>5, <1>6, <1>9, ReadVarintAt
<1>11. read_bytes(s, at + Len(head), Len(s), n) = Ok((at + Len(head)) + n, f.value)
  BY <1>1, <1>2, <1>9, ReadBytesAt
<1>12. read_field(f, s, at, Len(s)) = read_string(s, at, Len(s), max)
  BY <1>3 DEF read_field, IntWidth
<1>13. read_string(s, at, Len(s), max) =
          IF n > max THEN Thrown ELSE Ok((at + Len(head)) + n, f.value)
  <2>1. ~(n < 0)
    OBVIOUS
  <2> QED BY <1>10, <1>11, <2>1 DEF read_string, Then, Ok
<1>14. write_field(f) \in Seq(Byte) /\ Len(write_field(f)) = Len(head) + n
  BY <1>1, <1>2, <1>6, <1>7, <1>8, ConcatProperties
<1>15. (at + Len(head)) + n = at + (Len(head) + n)
  BY <1>6, <1>8, <1>9 DEF LiesAt
<1> QED BY <1>2, <1>3, <1>12, <1>13, <1>14, <1>15 DEF ReadsBack

\* The widths of the kinds uuid and position are those of u64.
LEMMA LongKind ==
    /\ "u64" \in DOMAIN IntWidth /\ ~IsSigned("u64") /\ IntWidth["u64"] = LongBytes
    /\ LongBytes \in Nat
  BY FieldConstants DEF IntWidth, IsSigned

\* The two halves of a uuid are written one behind the other.
LEMMA UuidBytes ==
    ASSUME NEW f, f.kind = "uuid", IsField(f)
    PROVE  \E high, low \in UnsignedRange(LongBytes * ByteBits) :
              /\ f.value = [high |-> high, low |-> low]
              /\ write_int(high, LongBytes) \in Seq(Byte) /\ Len(write_int(high, LongBytes)) = LongBytes
              /\ write_int(low, LongBytes) \in Seq(Byte) /\ Len(write_int(low, LongBytes)) = LongBytes
              /\ write_field(f) = write_int(high, LongBytes) \o write_int(low, LongBytes)
              /\ write_field(f) \in Seq(Byte)
<1>1. f.value \in [high : UnsignedRange(LongBytes * ByteBits), low : UnsignedRange(LongBytes * ByteBits)]
  BY DEF IsField, IntWidth
<1>2. PICK high, low : high = f.value.high /\ low = f.value.low
  OBVIOUS
<1>3. /\ f.value = [high |-> high, low |-> low]
      /\ high \in UnsignedRange(LongBytes * ByteBits) /\ low \in UnsignedRange(LongBytes * ByteBits)
  BY <1>1, <1>2
<1>4. ToUnsigned(high, LongBytes * ByteBits) = high /\ ToUnsigned(low, LongBytes * ByteBits) = low
  <2>1. LongBytes * ByteBits \in Nat
    BY FieldConstants
  <2> QED BY <1>3, <2>1, UnsignedBack
<1>5. /\ write_int(high, LongBytes) \in Seq(Byte) /\ Len(write_int(high, LongBytes)) = LongBytes
      /\ write_int(low, LongBytes) \in Seq(Byte) /\ Len(write_int(low, LongBytes)) = LongBytes
  BY <1>3, <1>4, FieldConstants, WriteInt
<1>6. write_field(f) = write_int(high, LongBytes) \o write_int(low, LongBytes)
  BY <1>2 DEF write_field, write_uuid, IntWidth
<1>7. write_field(f) \in Seq(Byte)
  BY <1>5, <1>6
<1> QED BY <1>3, <1>5, <1>6, <1>7, Zenon

LEMMA UuidReadsBack ==
    ASSUME NEW f, f.kind = "uuid", IsField(f),
           NEW s \in Seq(Byte), NEW at, LiesAt(s, at, write_field(f))
    PROVE  ReadsBack(f, s, at)
<1>1. PICK high, low \in UnsignedRange(LongBytes * ByteBits) :
          /\ f.value = [high |-> high, low |-> low]
          /\ write_int(high, LongBytes) \in Seq(Byte) /\ Len(write_int(high, LongBytes)) = LongBytes
          /\ write_int(low, LongBytes) \in Seq(Byte) /\ Len(write_int(low, LongBytes)) = LongBytes
          /\ write_field(f) = write_int(high, LongBytes) \o write_int(low, LongBytes)
  BY UuidBytes
<1>7. LiesAt(s, at, write_int(high, LongBytes)) /\ LiesAt(s, at + LongBytes, write_int(low, LongBytes))
  BY <1>1, LiesInParts
<1>8. read_int(s, at, Len(s), "u64") = Ok(at + LongBytes, high)
  BY <1>1, <1>7, LongKind, ReadUnsigned
<1>9. read_int(s, at + LongBytes, Len(s), "u64") = Ok((at + LongBytes) + LongBytes, low)
  BY <1>1, <1>7, LongKind, ReadUnsigned
<1>10. read_uuid(s, at, Len(s)) = Ok((at + LongBytes) + LongBytes, [high |-> high, low |-> low])
  BY <1>8, <1>9 DEF read_uuid, Then, Ok
<1>11. write_field(f) \in Seq(Byte) /\ Len(write_field(f)) = LongBytes + LongBytes
  <2>1. PICK u \in Seq(Byte), v \in Seq(Byte) : u = write_int(high, LongBytes) /\ v = write_int(low, LongBytes)
    BY <1>1, Zenon
  <2>2. u \o v \in Seq(Byte) /\ Len(u \o v) = Len(u) + Len(v)
    OBVIOUS
  <2> QED BY <1>1, <2>1, <2>2, Zenon
<1>12. read_field(f, s, at, Len(s)) = read_uuid(s, at, Len(s))
  BY DEF read_field, IntWidth
<1>13. (at + LongBytes) + LongBytes = at + (LongBytes + LongBytes)
  BY <1>7, LongKind DEF LiesAt
<1> QED BY <1>1, <1>10, <1>11, <1>12, <1>13 DEF ReadsBack

\* Three numbers side by side are taken apart again.
LEMMA SideBySide ==
    ASSUME NEW a \in Nat, NEW c \in Nat,
           NEW x \in UnsignedRange(a), NEW z \in UnsignedRange(a), NEW y \in UnsignedRange(c),
           NEW raw, raw = x * Pow2[a + c] + z * Pow2[c] + y
    PROVE  /\ raw \in UnsignedRange(a + a + c)
           /\ raw % Pow2[c] = y
           /\ (raw \div Pow2[c]) % Pow2[a] = z
           /\ (raw \div Pow2[a + c]) % Pow2[a] = x
<1>1. PICK p \in Nat \ {0}, q \in Nat \ {0} : p = Pow2[a] /\ q = Pow2[c]
  BY Pow2Positive
<1>2. Pow2[a + c] = q * p /\ Pow2[a + a + c] = (p * p) * q
  <2>1. Pow2[a + c] = p * q
    BY <1>1, Pow2Sum
  <2>2. PICK n \in Nat : n = a + a
    OBVIOUS
  <2>3. Pow2[n] = p * p
    BY <1>1, <2>2, Pow2Sum
  <2>4. Pow2[n + c] = Pow2[n] * q
    BY <1>1, Pow2Sum
  <2>5. p * q = q * p
    OBVIOUS
  <2> QED BY <2>1, <2>2, <2>3, <2>4, <2>5
<1>3. x \in 0 .. p - 1 /\ z \in 0 .. p - 1 /\ y \in 0 .. q - 1
  BY <1>1 DEF UnsignedRange
<1>4. PICK m \in Nat : m = p * x + z /\ m <= p * p - 1
  <2>1. p * x \in Nat /\ p * x <= p * (p - 1) /\ p * (p - 1) = p * p - p
    BY <1>3
  <2>2. p * x + z \in Nat /\ p * x + z <= p * p - 1
    BY <1>3, <2>1
  <2> QED BY <2>2
<1>5. raw = q * m + y
  <2>1. x * (q * p) = q * (p * x) /\ z * q = q * z
    BY <1>3
  <2>2. q * (p * x + z) = q * (p * x) + q * z
    BY <1>3
  <2> QED BY <1>1, <1>2, <1>4, <2>1, <2>2
<1>6. raw \in Nat /\ raw \in 0 .. (p * p) * q - 1
  <2>1. PICK k \in Nat \ {0} : k = p * p
    OBVIOUS
  <2>2. m <= k - 1
    BY <1>4, <2>1
  <2>3. q * m \in Nat /\ q * m <= q * (k - 1)
    BY <2>2
  <2>4. q * (k - 1) = k * q - q
    BY <1>1
  <2>5. q * m + y \in 0 .. k * q - 1
    BY <1>3, <2>3, <2>4
  <2> QED BY <1>5, <2>1, <2>5
<1>7. raw \div q = m /\ raw % q = y
  BY <1>3, <1>5, DivModUnique
<1>8. m \div p = x /\ m % p = z
  <2>1. x \in Nat /\ (p * x + z) \div p = x /\ (p * x + z) % p = z
    <3>1. x \in Nat
      BY <1>3
    <3> QED BY <1>3, <3>1, DivModUnique, Zenon
  <2> QED BY <1>4, <2>1, Zenon
<1>9. raw \div (q * p) = (raw \div q) \div p
  BY <1>6, DivProduct, Zenon
<1>10. x % p = x
  BY <1>3, ModSmall
<1> QED BY <1>1, <1>2, <1>6, <1>7, <1>8, <1>9, <1>10 DEF UnsignedRange

\* The raw form of a position is a number of 64 bits that holds its three numbers.
LEMMA PositionRawRange ==
    ASSUME NEW f, f.kind = "position", IsField(f)
    PROVE  /\ PositionRaw(f.value) \in UnsignedRange(LongBytes * ByteBits)
           /\ PositionOf(PositionRaw(f.value)) = f.value
<1>1. PICK a \in Nat \ {0}, c \in Nat \ {0} : a = PositionXZBits /\ c = PositionYBits
  BY FieldConstants
<1>2. f.value \in [x : SignedRange(a), z : SignedRange(a), y : SignedRange(c)]
  BY <1>1 DEF IsField, IntWidth
<1>3. PICK vx \in SignedRange(a), vz \in SignedRange(a), vy \in SignedRange(c) :
          f.value = [x |-> vx, z |-> vz, y |-> vy]
  BY <1>2
<1>4. PICK x, z, y : x = ToUnsigned(vx, a) /\ z = ToUnsigned(vz, a) /\ y = ToUnsigned(vy, c)
  OBVIOUS
<1>5. /\ x \in UnsignedRange(a) /\ z \in UnsignedRange(a) /\ y \in UnsignedRange(c)
      /\ FromUnsigned(x, a) = vx /\ FromUnsigned(z, a) = vz /\ FromUnsigned(y, c) = vy
  BY <1>4, SignedBack
<1>6. PICK raw : raw = PositionRaw(f.value)
  OBVIOUS
<1>7. raw = x * Pow2[a + c] + z * Pow2[c] + y
  BY <1>1, <1>3, <1>4, <1>6 DEF PositionRaw
<1>8. /\ raw \in UnsignedRange(a + a + c)
      /\ raw % Pow2[c] = y
      /\ (raw \div Pow2[c]) % Pow2[a] = z
      /\ (raw \div Pow2[a + c]) % Pow2[a] = x
  BY <1>5, <1>7, SideBySide
<1>9. PositionOf(raw) = f.value
  BY <1>1, <1>3, <1>5, <1>8 DEF PositionOf
<1>10. raw \in UnsignedRange(LongBytes * ByteBits)
  <2>1. PICK m \in Nat, n \in Nat : m = a + a + c /\ n = LongBytes * ByteBits /\ m <= n
    <3>1. 2 * a + c <= ByteBits * LongBytes
      BY <1>1, FieldConstants
    <3>2. LongBytes * ByteBits \in Nat /\ ByteBits * LongBytes = LongBytes * ByteBits
      BY FieldConstants
    <3> QED BY <3>1, <3>2
  <2>2. Pow2[m] \in Nat /\ Pow2[n] \in Nat /\ Pow2[m] <= Pow2[n]
    BY <2>1, Pow2Monotone, Pow2Positive
  <2>3. raw \in 0 .. Pow2[m] - 1
    BY <1>8, <2>1 DEF UnsignedRange
  <2> QED BY <2>1, <2>2, <2>3 DEF UnsignedRange
<1> QED BY <1>6, <1>9, <1>10

LEMMA PositionReadsBack ==
    ASSUME NEW f, f.kind = "position", IsField(f),
           NEW s \in Seq(Byte), NEW at, LiesAt(s, at, write_field(f))
    PROVE  ReadsBack(f, s, at)
<1>1. PICK raw : raw = PositionRaw(f.value)
  OBVIOUS
<1>2. raw \in UnsignedRange(LongBytes * ByteBits) /\ PositionOf(raw) = f.value
  BY <1>1, PositionRawRange
<1>3. write_field(f) = write_int(raw, LongBytes)
  BY <1>1 DEF write_field, IntWidth
<1>4. /\ read_int(s, at, Len(s), "u64") = Ok(at + LongBytes, raw)
      /\ write_int(raw, LongBytes) \in Seq(Byte) /\ Len(write_int(raw, LongBytes)) = LongBytes
  BY <1>2, <1>3, LongKind, ReadUnsigned
<1>5. read_field(f, s, at, Len(s)) = Ok(at + LongBytes, PositionOf(raw))
  BY <1>4 DEF read_field, read_position, Then, Ok, IntWidth
<1> QED BY <1>2, <1>3, <1>4, <1>5 DEF ReadsBack

LEMMA IntBytesWritten ==
    ASSUME NEW f, f.kind \in DOMAIN IntWidth, IsField(f)
    PROVE  write_field(f) \in Seq(Byte)
<1>1. write_field(f) = write_int(f.value, IntWidth[f.kind])
  BY DEF write_field, IntWidth
<1>2. PICK n \in Nat \ {0} : n = IntWidth[f.kind]
  BY FieldConstants DEF IntWidth
<1>3. PICK bits \in Nat \ {0} : bits = n * ByteBits
  <2>1. n * ByteBits \in Nat /\ n * ByteBits # 0
    BY FieldConstants
  <2> QED BY <2>1
<1>4. \/ f.value \in SignedRange(bits)
      \/ f.value \in UnsignedRange(bits)
      \/ f.kind = "bool" /\ f.value \in {0, 1}
  BY <1>2, <1>3 DEF IsField, IntWidth
<1>5. {0, 1} \subseteq UnsignedRange(bits)
  <2>1. PICK k \in Nat : bits = k + 1
    <3>1. bits - 1 \in Nat /\ bits = (bits - 1) + 1
      OBVIOUS
    <3> QED BY <3>1
  <2>2. Pow2[k + 1] = 2 * Pow2[k] /\ Pow2[k] \in Nat \ {0}
    BY Pow2Def, Pow2Positive
  <2> QED BY <2>1, <2>2 DEF UnsignedRange
<1>6. ToUnsigned(f.value, bits) \in UnsignedRange(bits)
  <2>1. CASE f.value \in SignedRange(bits)
    BY <2>1, SignedBack
  <2>2. CASE f.value \in UnsignedRange(bits)
    BY <2>2, UnsignedBack
  <2> QED BY <1>4, <1>5, <2>1, <2>2
<1> QED BY <1>1, <1>2, <1>3, <1>6, WriteInt

\* Every field but a refused string is written as bytes.
LEMMA FieldBytes ==
    ASSUME NEW f, IsField(f), ~Refused(f)
    PROVE  write_field(f) \in Seq(Byte)
<1>1. CASE f.kind \in DOMAIN IntWidth
  BY <1>1, IntBytesWritten
<1>2. CASE f.kind = "varint"
  <2>1. f.value \in SignedRange(Digits)
    BY <1>2 DEF IsField, IntWidth
  <2>2. write_field(f) = write_varint(f.value)
    BY <1>2 DEF write_field, IntWidth
  <2> QED BY <2>1, <2>2, VarintBytesWritten
<1>3. CASE f.kind = "string"
  <2>1. f.value \in Seq(Byte) /\ Len(f.value) \in SignedRange(Digits)
    BY <1>3, StringLength
  <2>2. write_field(f) = write_varint(Len(f.value)) \o f.value
    BY <1>3 DEF write_field, write_string, IntWidth
  <2>3. write_varint(Len(f.value)) \in Seq(Byte)
    BY <2>1, VarintBytesWritten
  <2> QED BY <2>1, <2>2, <2>3
<1>4. CASE f.kind = "uuid"
  BY <1>4, UuidBytes
<1>5. CASE f.kind = "position"
  <2>1. PositionRaw(f.value) \in UnsignedRange(LongBytes * ByteBits)
    BY <1>5, PositionRawRange
  <2>2. write_field(f) = write_int(PositionRaw(f.value), LongBytes)
    BY <1>5 DEF write_field, IntWidth
  <2>3. ToUnsigned(PositionRaw(f.value), LongBytes * ByteBits) = PositionRaw(f.value)
    <3>1. LongBytes * ByteBits \in Nat
      BY FieldConstants
    <3> QED BY <2>1, <3>1, UnsignedBack
  <2> QED BY <2>1, <2>2, <2>3, FieldConstants, WriteInt
<1> QED BY <1>1, <1>2, <1>3, <1>4, <1>5 DEF IsField, IntWidth

\* Every kind of field is read back; a string beyond its limit is not.
LEMMA FieldReadsBack ==
    ASSUME NEW f, IsField(f), ~Refused(f),
           NEW s \in Seq(Byte), NEW at, LiesAt(s, at, write_field(f))
    PROVE  IF f.kind = "string" /\ Len(f.value) > f.max
           THEN read_field(f, s, at, Len(s)) = Thrown
           ELSE ReadsBack(f, s, at)
<1>1. CASE f.kind \in DOMAIN IntWidth
  <2>1. f.kind # "string"
    BY <1>1 DEF IntWidth
  <2> QED BY <1>1, <2>1, IntReadsBack
<1>2. CASE f.kind = "varint"
  BY <1>2, VarintReadsBack
<1>3. CASE f.kind = "string"
  <2>1. f.value \in Seq(Byte) /\ f.max \in Nat
    BY <1>3 DEF IsField, IntWidth
  <2>2. Len(f.value) > f.max \/ Len(f.value) <= f.max
    BY <2>1
  <2> QED BY <1>3, <2>1, <2>2, StringReadsBack
<1>4. CASE f.kind = "uuid"
  BY <1>4, UuidReadsBack
<1>5. CASE f.kind = "position"
  BY <1>5, PositionReadsBack
<1> QED BY <1>1, <1>2, <1>3, <1>4, <1>5 DEF IsField, IntWidth
-----------------------------------------------------------------------------
\* The two fields of a packet, one behind the other.
LEMMA PairReadsBack ==
    ASSUME NEW pair, NEW f, NEW g, f = pair[1], g = pair[2],
           IsField(f), IsField(g), ~Refused(f), ~Refused(g)
    PROVE  \E first, second :
              /\ ReadBack(pair) = <<first, second>>
              /\ first = IF Long(f) THEN Thrown ELSE Ok(Len(write_field(f)), f.value)
              /\ second = IF Long(f) \/ Long(g)
                          THEN Thrown
                          ELSE Ok(Len(write_field(f)) + Len(write_field(g)), g.value)
<1>1. PICK v, w : v = write_field(f) /\ w = write_field(g)
  OBVIOUS
<1>2. v \in Seq(Byte) /\ w \in Seq(Byte)
  BY <1>1, FieldBytes
<1>3. PICK s \in Seq(Byte) : s = v \o w
  <2>1. v \o w \in Seq(Byte)
    BY <1>2
  <2> QED BY <2>1
<1>4. LiesAt(s, 0, v) /\ LiesAt(s, Len(v), w)
  <2>1. LiesAt(s, 0, v \o w)
    BY <1>2, <1>3 DEF LiesAt
  <2>2. LiesAt(s, 0, v) /\ LiesAt(s, 0 + Len(v), w)
    BY <1>2, <2>1, LiesInParts
  <2>3. 0 + Len(v) = Len(v)
    BY <1>2
  <2> QED BY <2>2, <2>3
<1>5. PICK first, second :
         /\ first = read_field(f, s, 0, Len(s))
         /\ second = IF first.status = "ok" THEN read_field(g, s, first.at, Len(s)) ELSE first
  OBVIOUS
<1>6. ReadBack(pair) = <<first, second>>
  <2>1. \A k \in 1..2 : ~Refused(pair[k])
    OBVIOUS
  <2> QED BY <1>1, <1>3, <1>5, <2>1 DEF ReadBack, Then
<1>7. IF Long(f) THEN first = Thrown ELSE first = Ok(Len(v), f.value)
  <2>1. IF Long(f) THEN first = Thrown ELSE ReadsBack(f, s, 0)
    BY <1>1, <1>4, <1>5, FieldReadsBack DEF Long
  <2>2. 0 + Len(v) = Len(v)
    BY <1>2
  <2> QED BY <1>1, <1>5, <2>1, <2>2 DEF ReadsBack
<1>8. Long(f) => second = Thrown
  BY <1>5, <1>7 DEF Thrown
<1>9. ~Long(f) => second = read_field(g, s, Len(v), Len(s))
  BY <1>5, <1>7 DEF Ok
<1>10. IF Long(g) THEN read_field(g, s, Len(v), Len(s)) = Thrown ELSE ReadsBack(g, s, Len(v))
  BY <1>1, <1>4, FieldReadsBack DEF Long
<1>11. ~Long(f) => IF Long(g) THEN second = Thrown ELSE second = Ok(Len(v) + Len(w), g.value)
  BY <1>1, <1>9, <1>10 DEF ReadsBack
<1>12. second = IF Long(f) \/ Long(g) THEN Thrown ELSE Ok(Len(v) + Len(w), g.value)
  BY <1>8, <1>11
<1> QED BY <1>1, <1>6, <1>7, <1>12

\* The two fields of a packet are read back as they should.
LEMMA PairRight ==
    ASSUME NEW pair \in FieldPairs, NEW i \in 1..2, WithinLimit(pair, i)
    PROVE  IsReadBack(pair, ReadBack(pair), i)
<1>1. PICK f, g : f = pair[1] /\ g = pair[2] /\ IsField(f) /\ IsField(g)
  BY AlgorithmsAssumption
<1>2. PICK both : both = ReadBack(pair)
  OBVIOUS
<1>3. ~Refused(f) /\ ~Refused(g) /\ ~Long(f)
  BY <1>1 DEF WithinLimit
<1>4. PICK n, m : n = Len(write_field(f)) /\ m = Len(write_field(g))
  OBVIOUS
<1>5. n \in Nat /\ m \in Nat
  BY <1>1, <1>3, <1>4, FieldBytes
<1>6. PICK first, second :
         /\ both = <<first, second>>
         /\ first = IF Long(f) THEN Thrown ELSE Ok(n, f.value)
         /\ second = IF Long(f) \/ Long(g) THEN Thrown ELSE Ok(n + m, g.value)
  BY <1>1, <1>2, <1>3, <1>4, PairReadsBack
<1>7. IsReadBack(pair, both, 1)
  <2>1. first = Ok(n, f.value) /\ n + 0 = n
    BY <1>3, <1>5, <1>6
  <2> QED BY <1>1, <1>4, <1>6, <2>1 DEF Ok, IsReadBack
<1>8. ~Long(g) => IsReadBack(pair, both, 2)
  BY <1>1, <1>3, <1>4, <1>6 DEF Ok, IsReadBack
<1>9. IsReadBack(pair, both, i)
  <2>1. i = 1 \/ i = 2
    OBVIOUS
  <2>2. i = 2 => ~Long(g)
    BY <1>1 DEF WithinLimit
  <2> QED BY <1>7, <1>8, <2>1, <2>2
<1> QED BY <1>2, <1>9
-----------------------------------------------------------------------------
(* Sums, products and sequences put together.                              *)

LEMMA TotalDef ==
    ASSUME NEW s \in Seq(Nat)
    PROVE  \E total : /\ total \in [0..Len(s) -> Nat] /\ total[0] = 0
                      /\ \A i \in 1..Len(s) : total[i] = total[i - 1] + s[i]
                      /\ Total(s) = total[Len(s)]
<1> DEFINE n == Len(s)
           step == [x \in (1..n) \X Nat |-> x[2] + s[x[1]]]
           body(f) == [i \in 0..Len(s) |-> IF i = 0 THEN 0 ELSE f[i - 1] + s[i]]
<1>1. n \in Nat /\ \A i \in 1..n : s[i] \in Nat
  BY ElementOfSeq
<1>2. /\ step \in [(1..n) \X Nat -> Nat]
      /\ \A i \in 1..n, v \in Nat : step[<<i, v>>] = v + s[i]
  <2>1. \A x \in (1..n) \X Nat : x[1] \in 1..n /\ x[2] \in Nat
    OBVIOUS
  <2>2. \A x \in (1..n) \X Nat : x[2] + s[x[1]] \in Nat
    <3> HIDE DEF n
    <3> QED BY <1>1, <2>1
  <2> HIDE DEF n
  <2> QED BY <2>2
<1> HIDE DEF step
<1>3. PICK f : Folded(f, 0, step, n, Nat)
  BY <1>1, <1>2, FoldExists
<1>4. f = body(f)
  <2>1. f \in [0..n -> Nat] /\ f[0] = 0 /\ \A i \in 1..n : f[i] = step[<<i, f[i - 1]>>]
    <3> HIDE DEF n
    <3> QED BY <1>3 DEF Folded
  <2>2. \A i \in 1..n : i - 1 \in 0..n
    BY <1>1
  <2>3. \A i \in 1..n : f[i - 1] \in Nat
    <3> HIDE DEF n
    <3> QED BY <2>1, <2>2
  <2>4. \A i \in 1..n : f[i] = f[i - 1] + s[i]
    <3> HIDE DEF n
    <3> QED BY <1>2, <2>1, <2>3
  <2>5. \A i \in 0..n : i # 0 => i \in 1..n
    BY <1>1
  <2> QED BY <2>1, <2>4, <2>5
<1> DEFINE total == CHOOSE g : g = body(g)
<1>5. total = body(total)
  <2> HIDE DEF body
  <2> QED BY <1>4
<1>6. Total(s) = total[n]
  BY <1>1 DEF Total
<1> HIDE DEF total
<1>7. total \in [0..n -> Nat] /\ total[0] = 0 /\ \A i \in 1..n : total[i] = total[i - 1] + s[i]
  <2>1. total = [i \in 0..n |-> total[i]]
    BY <1>5
  <2>2. total[0] = 0 /\ \A i \in 1..n : total[i] = total[i - 1] + s[i]
    BY <1>1, <1>5
  <2>3. \A i \in 1..n : total[i - 1] \in Nat => total[i] = step[<<i, total[i - 1]>>]
    BY <1>2, <2>2
  <2>4. 0 \in Nat
    OBVIOUS
  <2>5. Folded(total, 0, step, n, Nat)
    <3> HIDE DEF n
    <3> QED BY <1>1, <1>2, <2>1, <2>2, <2>3, <2>4, FoldUnfolds, Zenon
  <2>6. total \in [0..n -> Nat]
    <3> HIDE DEF n
    <3> QED BY <2>5 DEF Folded
  <2> QED BY <2>2, <2>6
<1> QED BY <1>6, <1>7

LEMMA ProductDef ==
    ASSUME NEW s \in Seq(Nat)
    PROVE  \E product : /\ product \in [0..Len(s) -> Nat] /\ product[0] = 1
                        /\ \A i \in 1..Len(s) : product[i] = product[i - 1] * s[i]
                        /\ Product(s) = product[Len(s)]
<1> DEFINE n == Len(s)
           step == [x \in (1..n) \X Nat |-> x[2] * s[x[1]]]
           body(f) == [i \in 0..Len(s) |-> IF i = 0 THEN 1 ELSE f[i - 1] * s[i]]
<1>1. n \in Nat /\ \A i \in 1..n : s[i] \in Nat
  BY ElementOfSeq
<1>2. /\ step \in [(1..n) \X Nat -> Nat]
      /\ \A i \in 1..n, v \in Nat : step[<<i, v>>] = v * s[i]
  <2> HIDE DEF n
  <2>1. \A v, w \in Nat : v * w \in Nat
    OBVIOUS
  <2> QED BY <1>1, <2>1
<1> HIDE DEF step
<1>3. PICK f : Folded(f, 1, step, n, Nat)
  BY <1>1, <1>2, FoldExists
<1>4. f = body(f)
  <2>1. f \in [0..n -> Nat] /\ f[0] = 1 /\ \A i \in 1..n : f[i] = step[<<i, f[i - 1]>>]
    <3> HIDE DEF n
    <3> QED BY <1>3 DEF Folded
  <2>2. \A i \in 1..n : i - 1 \in 0..n
    BY <1>1
  <2>3. \A i \in 1..n : f[i - 1] \in Nat
    <3> HIDE DEF n
    <3> QED BY <2>1, <2>2
  <2>4. \A i \in 1..n : f[i] = f[i - 1] * s[i]
    <3> HIDE DEF n
    <3> QED BY <1>2, <2>1, <2>3
  <2>5. \A i \in 0..n : i # 0 => i \in 1..n
    BY <1>1
  <2> QED BY <2>1, <2>4, <2>5
<1> DEFINE product == CHOOSE g : g = body(g)
<1>5. product = body(product)
  <2> HIDE DEF body
  <2> QED BY <1>4
<1>6. Product(s) = product[n]
  BY <1>1 DEF Product
<1> HIDE DEF product
<1>7. product \in [0..n -> Nat] /\ product[0] = 1 /\ \A i \in 1..n : product[i] = product[i - 1] * s[i]
  <2>1. product = [i \in 0..n |-> product[i]]
    BY <1>5
  <2>2. product[0] = 1 /\ \A i \in 1..n : product[i] = product[i - 1] * s[i]
    <3>1. 0 \in 0..n /\ \A i \in 1..n : i # 0 /\ i \in 0..n
      BY <1>1
    <3> QED BY <1>5, <3>1, Zenon
  <2>3. \A i \in 1..n : product[i - 1] \in Nat => product[i] = step[<<i, product[i - 1]>>]
    BY <1>2, <2>2
  <2>4. 1 \in Nat
    OBVIOUS
  <2>5. Folded(product, 1, step, n, Nat)
    <3> HIDE DEF n
    <3> QED BY <1>1, <1>2, <2>1, <2>2, <2>3, <2>4, FoldUnfolds, Zenon
  <2>6. product \in [0..n -> Nat]
    <3> HIDE DEF n
    <3> QED BY <2>5 DEF Folded
  <2> QED BY <2>2, <2>6
<1> QED BY <1>6, <1>7

\* A number more.
LEMMA TotalAppended ==
    ASSUME NEW s \in Seq(Nat), NEW t \in Seq(Nat), Len(t) = Len(s) + 1, \A i \in 1..Len(s) : t[i] = s[i]
    PROVE  Total(t) = Total(s) + t[Len(t)] /\ Total(s) \in Nat
<1>1. PICK f : /\ f \in [0..Len(s) -> Nat] /\ f[0] = 0
               /\ \A i \in 1..Len(s) : f[i] = f[i - 1] + s[i]
               /\ Total(s) = f[Len(s)]
  BY TotalDef
<1>2. PICK g : /\ g \in [0..Len(t) -> Nat] /\ g[0] = 0
               /\ \A i \in 1..Len(t) : g[i] = g[i - 1] + t[i]
               /\ Total(t) = g[Len(t)]
  BY TotalDef
<1>3. PICK n \in Nat : n = Len(s) /\ Len(t) = n + 1
  <2>1. Len(s) \in Nat
    OBVIOUS
  <2> QED BY <2>1, Zenon
<1> DEFINE S == {i \in Nat : i <= n => f[i] = g[i]}
<1>4. 0 \in S
  BY <1>1, <1>2
<1>5. ASSUME NEW i \in Nat, i \in S PROVE i + 1 \in S
  <2>1. i + 1 <= n => i + 1 \in 1..n /\ i + 1 \in 1 .. n + 1 /\ (i + 1) - 1 = i
    OBVIOUS
  <2>2. i + 1 <= n => f[i + 1] = f[i] + s[i + 1] /\ g[i + 1] = g[i] + t[i + 1] /\ t[i + 1] = s[i + 1]
    BY <1>1, <1>2, <1>3, <2>1
  <2> QED BY <1>5, <2>2
<1>6. Nat \subseteq S
  <2> HIDE DEF S
  <2> QED BY <1>4, <1>5, NaturalInduction
<1>7. f[n] = g[n]
  BY <1>6
<1>8. g[n + 1] = g[n] + t[n + 1]
  <2>1. n + 1 \in 1 .. n + 1 /\ (n + 1) - 1 = n
    OBVIOUS
  <2> QED BY <1>2, <1>3, <2>1
<1>9. f[n] \in Nat
  <2>1. f \in [0..n -> Nat] /\ n \in 0..n
    BY <1>1, <1>3
  <2> QED BY <2>1, Zenon
<1> QED BY <1>1, <1>2, <1>3, <1>7, <1>8, <1>9

\* A factor more, in front.
LEMMA ProductPrepended ==
    ASSUME NEW s \in Seq(Nat), NEW t \in Seq(Nat), Len(t) = Len(s) + 1, \A i \in 1..Len(s) : t[i + 1] = s[i]
    PROVE  Product(t) = t[1] * Product(s)
<1>1. PICK f : /\ f \in [0..Len(s) -> Nat] /\ f[0] = 1
               /\ \A i \in 1..Len(s) : f[i] = f[i - 1] * s[i]
               /\ Product(s) = f[Len(s)]
  BY ProductDef
<1>2. PICK g : /\ g \in [0..Len(t) -> Nat] /\ g[0] = 1
               /\ \A i \in 1..Len(t) : g[i] = g[i - 1] * t[i]
               /\ Product(t) = g[Len(t)]
  BY ProductDef
<1>3. PICK n \in Nat : n = Len(s) /\ Len(t) = n + 1
  OBVIOUS
<1>4. t[1] \in Nat /\ \A i \in 1..n : s[i] \in Nat
  <2>1. 1 \in 1..Len(t)
    BY <1>3
  <2> QED BY <1>3, <2>1, ElementOfSeq
<1> DEFINE S == {i \in Nat : i <= n => g[i + 1] = t[1] * f[i]}
<1>5. 0 \in S
  <2>1. 1 \in 1..Len(t) /\ 1 - 1 = 0
    BY <1>3
  <2>2. g[1] = g[0] * t[1]
    BY <1>2, <2>1
  <2>3. 1 * t[1] = t[1] /\ t[1] * 1 = t[1]
    BY <1>4
  <2> QED BY <1>1, <1>2, <2>2, <2>3
<1>6. ASSUME NEW i \in Nat, i \in S PROVE i + 1 \in S
  <2>1. i + 1 <= n => /\ i + 1 \in 1..n /\ (i + 1) + 1 \in 1 .. n + 1
                      /\ (i + 1) - 1 = i /\ ((i + 1) + 1) - 1 = i + 1
    OBVIOUS
  <2>2. ASSUME i + 1 <= n PROVE g[(i + 1) + 1] = t[1] * f[i + 1]
    <3>1. f[i + 1] = f[i] * s[i + 1] /\ g[(i + 1) + 1] = g[i + 1] * t[(i + 1) + 1]
      BY <1>1, <1>2, <1>3, <2>1, <2>2
    <3>2. t[(i + 1) + 1] = s[i + 1] /\ g[i + 1] = t[1] * f[i]
      BY <1>3, <1>6, <2>1, <2>2
    <3>3. PICK a \in Nat, b \in Nat, c \in Nat : a = t[1] /\ b = f[i] /\ c = s[i + 1]
      <4>1. t[1] \in Nat
        BY <1>4
      <4>2. f[i] \in Nat
        <5>1. f \in [0..n -> Nat] /\ i \in 0..n
          BY <1>1, <1>3, <2>2
        <5> QED BY <5>1, Zenon
      <4>3. s[i + 1] \in Nat
        BY <1>3, <2>1, <2>2, ElementOfSeq
      <4> QED BY <4>1, <4>2, <4>3, Zenon
    <3>4. (a * b) * c = a * (b * c)
      OBVIOUS
    <3> QED BY <3>1, <3>2, <3>3, <3>4
  <2> QED BY <2>2
<1>7. Nat \subseteq S
  <2> HIDE DEF S
  <2> QED BY <1>5, <1>6, NaturalInduction
<1>8. g[n + 1] = t[1] * f[n]
  BY <1>7
<1> QED BY <1>1, <1>2, <1>3, <1>8

LEMMA EmptyFolds == ASSUME NEW s \in Seq(Nat), Len(s) = 0 PROVE Total(s) = 0 /\ Product(s) = 1
BY TotalDef, ProductDef

LEMMA ProductPositive ==
    ASSUME NEW s \in Seq(Nat \ {0})
    PROVE  Product(s) \in Nat \ {0}
<1>1. PICK f : /\ f \in [0..Len(s) -> Nat] /\ f[0] = 1
               /\ \A i \in 1..Len(s) : f[i] = f[i - 1] * s[i]
               /\ Product(s) = f[Len(s)]
  <2>1. s \in Seq(Nat)
    OBVIOUS
  <2> QED BY <2>1, ProductDef
<1>2. PICK n \in Nat : n = Len(s)
  OBVIOUS
<1> DEFINE S == {i \in Nat : i <= n => f[i] # 0}
<1>3. 0 \in S
  BY <1>1
<1>4. ASSUME NEW i \in Nat, i \in S PROVE i + 1 \in S
  <2>1. ASSUME i + 1 <= n PROVE f[i + 1] # 0
    <3>1. i + 1 \in 1..n /\ (i + 1) - 1 = i
      BY <2>1
    <3>2. f[i + 1] = f[i] * s[i + 1]
      BY <1>1, <1>2, <3>1
    <3>3. PICK a \in Nat \ {0}, b \in Nat \ {0} : a = f[i] /\ b = s[i + 1]
      <4>1. f[i] \in Nat /\ f[i] # 0
        BY <1>1, <1>2, <1>4, <2>1
      <4>2. s[i + 1] \in Nat \ {0}
        BY <1>2, <3>1, ElementOfSeq
      <4> QED BY <4>1, <4>2
    <3>4. a * b # 0
      OBVIOUS
    <3> QED BY <3>2, <3>3, <3>4
  <2> QED BY <2>1
<1>5. Nat \subseteq S
  <2> HIDE DEF S
  <2> QED BY <1>3, <1>4, NaturalInduction
<1> QED BY <1>1, <1>2, <1>5

\* How many entries the first i sequences of s have, and where those of the next lie.
LengthTo(s, i) == Total([c \in 1..i |-> Len(s[c])])

LEMMA LengthsAdd ==
    ASSUME NEW M, NEW s \in Seq(Seq(M))
    PROVE  /\ LengthTo(s, 0) = 0
           /\ \A i \in 0..Len(s) : LengthTo(s, i) \in Nat
           /\ \A i \in 0 .. Len(s) - 1 : LengthTo(s, i + 1) = LengthTo(s, i) + Len(s[i + 1])
<1>1. \A i \in 1..Len(s) : Len(s[i]) \in Nat
  <2>1. \A i \in 1..Len(s) : s[i] \in Seq(M)
    BY ElementOfSeq
  <2> QED BY <2>1
<1>2. Len(s) \in Nat
  OBVIOUS
<1>3. \A i \in 0..Len(s) : /\ [c \in 1..i |-> Len(s[c])] \in Seq(Nat)
                           /\ Len([c \in 1..i |-> Len(s[c])]) = i
  <2> TAKE i \in 0..Len(s)
  <2>1. \A c \in 1..i : c \in 1..Len(s)
    BY <1>2
  <2>2. i \in Nat
    BY <1>2
  <2> QED BY <1>1, <2>1, <2>2
<1>4. LengthTo(s, 0) = 0
  <2>1. 0 \in 0..Len(s)
    BY <1>2
  <2> QED BY <1>3, <2>1, EmptyFolds DEF LengthTo
<1>5. ASSUME NEW i \in 0..Len(s) PROVE LengthTo(s, i) \in Nat
  <2> DEFINE u == [c \in 1..i |-> Len(s[c])]
  <2>1. u \in Seq(Nat)
    BY <1>3
  <2> HIDE DEF u
  <2>2. PICK f : f \in [0..Len(u) -> Nat] /\ Total(u) = f[Len(u)]
    BY <2>1, TotalDef, Zenon
  <2>3. Len(u) \in 0..Len(u)
    BY <2>1
  <2>4. Total(u) \in Nat
    BY <2>2, <2>3
  <2> QED BY <2>4 DEF u, LengthTo
<1>6. ASSUME NEW i \in 0 .. Len(s) - 1 PROVE LengthTo(s, i + 1) = LengthTo(s, i) + Len(s[i + 1])
  <2> DEFINE u == [c \in 1..i |-> Len(s[c])]
             v == [c \in 1 .. i + 1 |-> Len(s[c])]
  <2>1. i \in 0..Len(s) /\ i + 1 \in 0..Len(s)
    BY <1>2
  <2>2. u \in Seq(Nat) /\ Len(u) = i /\ v \in Seq(Nat) /\ Len(v) = i + 1
    BY <1>3, <2>1
  <2>3. \A c \in 1..i : v[c] = u[c]
    OBVIOUS
  <2>4. v[i + 1] = Len(s[i + 1])
    OBVIOUS
  <2> HIDE DEF u, v
  <2>5. Total(v) = Total(u) + v[Len(v)]
    BY <2>2, <2>3, TotalAppended
  <2> QED BY <2>2, <2>4, <2>5 DEF u, v, LengthTo
<1> QED BY <1>4, <1>5, <1>6

LEMMA FlattenAt ==
    ASSUME NEW M, NEW s \in Seq(Seq(M)), NEW b \in 1..Len(s), NEW k \in 1..Len(s[b])
    PROVE  FlattenSeq(s)[LengthTo(s, b - 1) + k] = s[b][k]
<1>1. PICK f : Flattens(f, s, M) /\ FlattenSeq(s) = f[Len(s)]
  BY FlattenDef
<1>2. PICK n \in Nat : n = Len(s)
  OBVIOUS
<1>3. PICK at : at = LengthTo(s, b - 1) + k
  OBVIOUS
<1>4. /\ s[1] \in Seq(M) /\ LengthTo(s, 1) = Len(s[1])
      /\ b - 1 \in 0 .. n - 1 /\ s[b] \in Seq(M) /\ Len(s[b]) \in Nat /\ LengthTo(s, b - 1) \in Nat
  <2>1. 1 \in 1..n /\ 0 \in 0 .. n - 1 /\ 0 + 1 = 1 /\ b - 1 \in 0 .. n - 1 /\ b - 1 \in 0..n
    BY <1>2
  <2>2. s[1] \in Seq(M) /\ s[b] \in Seq(M)
    BY <1>2, <2>1, ElementOfSeq
  <2>3. Len(s[1]) \in Nat /\ Len(s[b]) \in Nat
    BY <2>2
  <2>4. LengthTo(s, 0 + 1) = LengthTo(s, 0) + Len(s[0 + 1]) /\ LengthTo(s, 0) = 0
    BY <1>2, <2>1, LengthsAdd
  <2>5. LengthTo(s, 1) = Len(s[1])
    BY <2>3, <2>4
  <2>6. LengthTo(s, b - 1) \in Nat
    BY <1>2, <2>1, LengthsAdd
  <2> QED BY <2>1, <2>2, <2>3, <2>5, <2>6
<1> DEFINE R(i) == /\ f[i] \in Seq(M) /\ Len(f[i]) = LengthTo(s, i)
                   /\ b <= i => at \in 1..Len(f[i]) /\ f[i][at] = s[b][k]
           S == {i \in Nat : i \in 1..n => R(i)}
<1>5. 0 \in S
  OBVIOUS
<1>6. ASSUME NEW i \in Nat, i \in S PROVE i + 1 \in S
  <2> SUFFICES ASSUME i + 1 \in 1..n PROVE R(i + 1)
    OBVIOUS
  <2>1. CASE i = 0
    <3>1. f[1] = s[1]
      BY <1>1 DEF Flattens
    <3>2. b <= 1 => b = 1 /\ b - 1 = 0
      BY <1>2
    <3>3. b <= 1 => at = k
      <4>1. LengthTo(s, 0) = 0
        BY LengthsAdd
      <4> QED BY <1>3, <1>4, <3>2, <4>1
    <3>4. i + 1 = 1
      BY <2>1
    <3> QED BY <1>4, <3>1, <3>2, <3>3, <3>4
  <2>2. CASE i # 0
    <3>1. i \in 1..n /\ i + 1 \in 2..n /\ (i + 1) - 1 = i /\ i \in 0 .. n - 1
      BY <2>2
    <3>2. R(i)
      BY <1>6, <3>1
    <3>3. f[i + 1] = f[i] \o s[i + 1] /\ s[i + 1] \in Seq(M)
      BY <1>1, <1>2, <3>1, ElementOfSeq DEF Flattens
    <3>4. LengthTo(s, i + 1) = LengthTo(s, i) + Len(s[i + 1])
      BY <1>2, <3>1, LengthsAdd
    <3>5. PICK x \in Seq(M), y \in Seq(M) : x = f[i] /\ y = s[i + 1]
      BY <3>2, <3>3
    <3>6. /\ x \o y \in Seq(M) /\ Len(x \o y) = Len(x) + Len(y)
          /\ \A j \in 1..Len(x) : (x \o y)[j] = x[j]
          /\ \A j \in 1..Len(y) : (x \o y)[Len(x) + j] = y[j]
      BY ConcatProperties
    <3>7. /\ Len(x) \in Nat /\ Len(y) \in Nat /\ f[i + 1] = x \o y
          /\ f[i + 1] \in Seq(M) /\ Len(f[i + 1]) = LengthTo(s, i + 1)
      BY <3>2, <3>3, <3>4, <3>5, <3>6
    <3> HIDE DEF S
    <3>8. CASE b <= i
      <4>1. at \in 1..Len(x) /\ x[at] = s[b][k]
        BY <3>2, <3>5, <3>8
      <4>2. (x \o y)[at] = s[b][k] /\ at \in 1..Len(x \o y)
        <5>1. \A j \in 1..Len(x) : j \in 1 .. Len(x) + Len(y)
          BY <3>7
        <5> QED BY <3>6, <4>1, <5>1
      <4> QED BY <3>7, <4>2
    <3>9. CASE b = i + 1
      <4>1. at = Len(x) + k /\ s[b] = y /\ k \in 1..Len(y)
        BY <1>3, <3>1, <3>2, <3>5, <3>9
      <4>2. (x \o y)[at] = s[b][k] /\ at \in 1..Len(x \o y)
        <5>1. \A j \in 1..Len(y) : Len(x) + j \in 1 .. Len(x) + Len(y)
          BY <3>7
        <5> QED BY <3>6, <4>1, <5>1
      <4> QED BY <3>7, <4>2
    <3>10. CASE ~ b <= i + 1
      BY <3>7, <3>10
    <3>11. b <= i \/ b = i + 1 \/ ~ b <= i + 1
      BY <1>2, <1>4
    <3> QED BY <3>8, <3>9, <3>10, <3>11
  <2> QED BY <2>1, <2>2
<1>7. Nat \subseteq S
  <2> HIDE DEF S
  <2> QED BY <1>5, <1>6, NaturalInduction
<1>8. R(n)
  <2>1. n \in 1..n
    BY <1>2
  <2> QED BY <1>7, <2>1
<1> QED BY <1>1, <1>2, <1>3, <1>8

-----------------------------------------------------------------------------
(* The tables of blocks and the states of a block.                         *)

LEMMA FewValues == ASSUME NEW p, parse_props(p) PROVE Len(p.values) < 32
BY DEF parse_props

\* What the generator's assertions say of a table.
LEMMA TableParts ==
    ASSUME NEW t, IsTable(t)
    PROVE  /\ Len(t.blocks) \in Nat \ {0} /\ t.blocks \in Seq(Seq(DOMAIN t.props))
           /\ \A b \in 1..Len(t.blocks) : /\ t.blocks[b] \in Seq(DOMAIN t.props)
                                          /\ prop_offset(t.blocks, b) < 2048
           /\ DOMAIN t.props = 1..Len(t.props) /\ Len(t.props) \in Nat
           /\ \A i \in DOMAIN t.props : /\ t.props[i].kind \in {"enum", "bool", "int"}
                                        /\ t.props[i].values \in Seq(Range(t.props[i].values))
                                        /\ Len(t.props[i].values) \in 1..31
                                        /\ t.props[i].kind = "int" => t.props[i].values[1] \in {0, 1}
<1>1. Len(t.blocks) \in Nat \ {0} /\ t.blocks \in Seq(Seq(DOMAIN t.props)) /\ DOMAIN t.blocks = 1..Len(t.blocks)
  BY DEF IsTable
<1>2. ASSUME NEW b \in 1..Len(t.blocks)
      PROVE  t.blocks[b] \in Seq(DOMAIN t.props) /\ prop_offset(t.blocks, b) < 2048
  <2>1. t.blocks[b] \in Seq(DOMAIN t.props)
    BY <1>1, ElementOfSeq
  <2>2. prop_offset(t.blocks, b) < 2048
    <3>1. \A c \in DOMAIN t.blocks : prop_offset(t.blocks, c) < 2048
      BY Zenon DEF IsTable
    <3>2. b \in DOMAIN t.blocks
      BY <1>1
    <3> QED BY <3>1, <3>2
  <2> QED BY <2>1, <2>2
<1>3. DOMAIN t.props = 1..Len(t.props) /\ Len(t.props) \in Nat
  BY DEF IsTable
<1>4. ASSUME NEW i \in DOMAIN t.props
      PROVE  /\ t.props[i].kind \in {"enum", "bool", "int"}
             /\ t.props[i].values \in Seq(Range(t.props[i].values))
             /\ Len(t.props[i].values) \in 1..31
             /\ t.props[i].kind = "int" => t.props[i].values[1] \in {0, 1}
  <2> DEFINE p == t.props[i]
  <2>1. p \in Range(t.props)
    BY DEF Range
  <2> HIDE DEF p
  <2>2. /\ p.kind \in {"enum", "bool", "int"} /\ parse_props(p)
        /\ p.values \in Seq(Range(p.values)) /\ p.values # <<>>
    BY <2>1 DEF IsTable
  <2>3. Len(p.values) \in 1..31
    <3>1. Len(p.values) \in Nat /\ Len(p.values) # 0
      BY <2>2
    <3>2. Len(p.values) < 32
      BY <2>2, FewValues
    <3>3. \A n \in Nat \ {0} : n < 32 => n \in 1..31
      OBVIOUS
    <3> QED BY <3>1, <3>2, <3>3, Zenon
  <2>4. p.kind = "int" => p.values[1] \in {0, 1}
    BY <2>2 DEF parse_props
  <2> QED BY <2>2, <2>3, <2>4 DEF p
<1> QED BY <1>1, <1>2, <1>3, <1>4

\* The words of a property, and where they begin in the table of all words.
WordsOf(p) == IF p.kind = "enum" THEN p.values ELSE <<>>
AllWords(props) == [i \in DOMAIN props |-> WordsOf(props[i])]

LEMMA WordsTable ==
    ASSUME NEW t, IsTable(t)
    PROVE  /\ \E M : AllWords(t.props) \in Seq(Seq(M))
           /\ Len(AllWords(t.props)) = Len(t.props)
           /\ values(t.props) = FlattenSeq(AllWords(t.props))
           /\ \A i \in DOMAIN t.props : /\ AllWords(t.props)[i] = WordsOf(t.props[i])
                                        /\ value_offset(t.props, i) = LengthTo(AllWords(t.props), i - 1)
<1> DEFINE M == UNION {Range(t.props[i].values) : i \in DOMAIN t.props}
<1>1. ASSUME NEW i \in DOMAIN t.props PROVE WordsOf(t.props[i]) \in Seq(M)
  <2> DEFINE v == t.props[i].values
  <2>1. v \in Seq(Range(v))
    BY TableParts
  <2>2. Range(v) \subseteq M
    OBVIOUS
  <2> HIDE DEF M, v
  <2>3. v \in Seq(M)
    BY <2>1, <2>2
  <2>4. <<>> \in Seq(M)
    OBVIOUS
  <2> QED BY <2>3, <2>4 DEF WordsOf, v
<1> HIDE DEF M
<1>2. DOMAIN t.props = 1..Len(t.props) /\ Len(t.props) \in Nat
  BY TableParts
<1>3. AllWords(t.props) \in Seq(Seq(M)) /\ Len(AllWords(t.props)) = Len(t.props)
  BY <1>1, <1>2 DEF AllWords
<1>4. values(t.props) = FlattenSeq(AllWords(t.props))
  BY DEF values, AllWords, WordsOf
<1>5. ASSUME NEW i \in DOMAIN t.props
      PROVE  value_offset(t.props, i) = LengthTo(AllWords(t.props), i - 1)
  <2>1. ASSUME NEW j \in 1 .. i - 1 PROVE Words(t.props[j]) = Len(AllWords(t.props)[j])
    <3>1. j \in DOMAIN t.props
      BY <1>2
    <3> QED BY <3>1 DEF Words, AllWords, WordsOf
  <2> DEFINE u == [j \in 1 .. i - 1 |-> Words(t.props[j])]
             v == [j \in 1 .. i - 1 |-> Len(AllWords(t.props)[j])]
  <2>2. u = v
    BY <2>1
  <2>3. value_offset(t.props, i) = Total(u) /\ LengthTo(AllWords(t.props), i - 1) = Total(v)
    BY DEF value_offset, LengthTo
  <2> HIDE DEF u, v
  <2> QED BY <2>2, <2>3
<1> QED BY <1>3, <1>4, <1>5 DEF AllWords

LEMMA FlagsParts ==
    ASSUME NEW t, IsTable(t), NEW i \in DOMAIN t.props
    PROVE  /\ count(flags(t.props, i)) = Len(t.props[i].values) % 16
           /\ t.props[i].kind = "enum" => values_offset(flags(t.props, i)) = value_offset(t.props, i)
<1> DEFINE p == t.props[i]
<1>1. PICK l \in 1..31 : l = Len(p.values)
  BY TableParts
<1>2. PICK o \in Nat : o = value_offset(t.props, i)
  <2>1. PICK M : AllWords(t.props) \in Seq(Seq(M))
    BY WordsTable
  <2>2. i - 1 \in 0..Len(AllWords(t.props))
    BY WordsTable, TableParts
  <2>3. LengthTo(AllWords(t.props), i - 1) \in Nat
    BY <2>1, <2>2, LengthsAdd
  <2> QED BY <2>3, WordsTable
<1>3. /\ p.kind \in {"enum", "bool", "int"}
      /\ p.kind = "int" => p.values[1] \in {0, 1}
  BY TableParts
<1> HIDE DEF p
<1>4. (o * 256 + l) % 16 = l % 16 /\ (o * 256 + l) \div 256 = o
  OBVIOUS
<1>5. (32 + l) % 16 = l % 16 /\ (64 + l) % 16 = l % 16 /\ (96 + l) % 16 = l % 16
  OBVIOUS
<1>9. \A f : count(f) = f % 16 /\ values_offset(f) = f \div 256
  <2>1. COUNT_MASK + 1 = 16
    BY DEF COUNT_MASK
  <2> QED BY <2>1, Zenon DEF count, values_offset
<1>10. flags(t.props, i) = (CASE p.kind = "enum" -> o * 256 [] p.kind = "bool" -> 32
                              [] p.kind = "int" -> IF p.values[1] = 0 THEN 64 ELSE 96) + l
  BY <1>1, <1>2, Zenon DEF flags, p
<1>6. CASE p.kind = "enum"
  <2>1. flags(t.props, i) = o * 256 + l
    BY <1>6, <1>10
  <2> QED BY <1>1, <1>2, <1>4, <1>9, <2>1, Zenon DEF p
<1>7. CASE p.kind = "bool"
  <2>1. flags(t.props, i) = 32 + l
    BY <1>7, <1>10
  <2>2. p.kind # "enum"
    BY <1>7
  <2> QED BY <1>1, <1>5, <1>9, <2>1, <2>2, Zenon DEF p
<1>8. CASE p.kind = "int"
  <2>1. flags(t.props, i) = 64 + l \/ flags(t.props, i) = 96 + l
    BY <1>8, <1>10
  <2>2. p.kind # "enum"
    BY <1>8
  <2> QED BY <1>1, <1>5, <1>9, <2>1, <2>2, Zenon DEF p
<1> QED BY <1>3, <1>6, <1>7, <1>8

\* A value of an enum is the property's own word.
LEMMA WordOfValue ==
    ASSUME NEW t, IsTable(t), NEW i \in DOMAIN t.props, t.props[i].kind = "enum",
           NEW v \in 0 .. Len(t.props[i].values) - 1
    PROVE  Word(t.props, flags(t.props, i), v) = t.props[i].values[v + 1]
<1> DEFINE s == AllWords(t.props)
<1>1. PICK M : s \in Seq(Seq(M))
  BY WordsTable
<1>2. i \in 1..Len(s) /\ s[i] = t.props[i].values
  BY WordsTable, TableParts DEF WordsOf
<1>3. v + 1 \in 1..Len(s[i])
  BY <1>2, TableParts
<1>4. FlattenSeq(s)[LengthTo(s, i - 1) + (v + 1)] = s[i][v + 1]
  <2> HIDE DEF s
  <2> QED BY <1>1, <1>2, <1>3, FlattenAt
<1>5. values_offset(flags(t.props, i)) = LengthTo(s, i - 1) /\ values(t.props) = FlattenSeq(s)
  BY FlagsParts, WordsTable
<1>6. LengthTo(s, i - 1) \in Nat
  <2>1. i - 1 \in 0..Len(s)
    BY <1>2, TableParts, WordsTable
  <2> HIDE DEF s
  <2> QED BY <1>1, <2>1, LengthsAdd
<1>7. LengthTo(s, i - 1) + (v + 1) = LengthTo(s, i - 1) + v + 1
  BY <1>6
<1> QED BY <1>2, <1>4, <1>5, <1>7 DEF Word

\* The table of all blocks' properties has those of a block where it should, the
\* last first.
MapHas(t, b) ==
    /\ properties_count(t.blocks, b) = Len(t.blocks[b]) /\ Len(t.blocks[b]) \in Nat
    /\ \A n \in 1..Len(t.blocks[b]) : property_map(t.blocks)[properties_start(t.blocks, b) + n]
                                         = t.blocks[b][Len(t.blocks[b]) + 1 - n]

LEMMA MapAt ==
    ASSUME NEW t, IsTable(t), NEW b \in 1..Len(t.blocks)
    PROVE  MapHas(t, b)
<1> DEFINE N == Len(t.blocks)
           D == DOMAIN t.props
           s == [c \in DOMAIN t.blocks |-> Reverse(t.blocks[c])]
<1>1. N \in Nat \ {0} /\ DOMAIN t.blocks = 1..N /\ \A c \in 1..N : t.blocks[c] \in Seq(D)
  BY TableParts
<1>2. \A c \in 1..N : /\ Reverse(t.blocks[c]) \in Seq(D) /\ Len(Reverse(t.blocks[c])) = Len(t.blocks[c])
                      /\ Len(t.blocks[c]) \in Nat
                      /\ \A n \in 1..Len(t.blocks[c]) :
                            Reverse(t.blocks[c])[n] = t.blocks[c][(Len(t.blocks[c]) - n) + 1]
  <2> TAKE c \in 1..N
  <2> DEFINE u == t.blocks[c]
  <2>1. u \in Seq(D)
    BY <1>1
  <2> HIDE DEF u, D, N
  <2>2. Len(u) \in Nat /\ \A n \in 1..Len(u) : u[n] \in D /\ (Len(u) - n) + 1 \in 1..Len(u)
    BY <2>1, ElementOfSeq
  <2>3. Reverse(u) = [n \in 1..Len(u) |-> u[(Len(u) - n) + 1]]
    BY DEF Reverse
  <2>4. Reverse(u) \in Seq(D) /\ Len(Reverse(u)) = Len(u)
    BY <2>2, <2>3
  <2> QED BY <2>2, <2>3, <2>4 DEF u
<1>3. s \in Seq(Seq(D)) /\ Len(s) = N /\ \A c \in 1..N : s[c] = Reverse(t.blocks[c])
  <2> HIDE DEF D, N
  <2> QED BY <1>1, <1>2
<1>4. prop_offset(t.blocks, b) = LengthTo(s, b - 1)
  <2> DEFINE u == [c \in 1 .. b - 1 |-> Len(t.blocks[c])]
             v == [c \in 1 .. b - 1 |-> Len(s[c])]
  <2>1. \A c \in 1 .. b - 1 : c \in 1..N
    BY <1>1
  <2>2. u = v
    <3> HIDE DEF s, N
    <3> QED BY <1>2, <1>3, <2>1
  <2>3. prop_offset(t.blocks, b) = Total(u) /\ LengthTo(s, b - 1) = Total(v)
    BY DEF prop_offset, LengthTo
  <2> HIDE DEF u, v
  <2> QED BY <2>2, <2>3
<1>5. property_map(t.blocks) = FlattenSeq(s)
  BY DEF property_map
<1> HIDE DEF s
<1>6. PICK o \in Nat : o = prop_offset(t.blocks, b) /\ o < 2048
  <2>1. b - 1 \in 0..Len(s)
    BY <1>1, <1>3
  <2>2. LengthTo(s, b - 1) \in Nat
    BY <1>3, <2>1, LengthsAdd
  <2>3. LengthTo(s, b - 1) < 2048
    BY <1>4, TableParts
  <2> QED BY <1>4, <2>2, <2>3
<1>7. PICK l \in Nat : l = Len(t.blocks[b])
  BY <1>2
<1>8. properties_start(t.blocks, b) = o /\ properties_count(t.blocks, b) = l
  <2>1. (o + l * 2048) % 2048 = o /\ (o + l * 2048) \div 2048 = l
    <3>1. PICK n \in Nat \ {0} : n = 2048
      OBVIOUS
    <3>2. o < n
      BY <1>6, <3>1
    <3>3. o \in 0 .. n - 1 /\ n * l + o = o + l * n
      BY <3>2
    <3>4. (n * l + o) \div n = l /\ (n * l + o) % n = o
      BY <3>3, DivModUnique, Zenon
    <3> QED BY <3>1, <3>3, <3>4
  <2> QED BY <1>6, <1>7, <2>1 DEF properties_start, properties_count, properties
<1>9. ASSUME NEW n \in 1..l PROVE property_map(t.blocks)[o + n] = t.blocks[b][l + 1 - n]
  <2>1. n \in 1..Len(s[b]) /\ b \in 1..Len(s)
    BY <1>2, <1>3, <1>7
  <2>2. FlattenSeq(s)[LengthTo(s, b - 1) + n] = s[b][n]
    BY <1>3, <2>1, FlattenAt
  <2>3. (l - n) + 1 = l + 1 - n
    OBVIOUS
  <2> QED BY <1>2, <1>3, <1>4, <1>5, <1>6, <1>7, <2>2, <2>3
<1> QED BY <1>7, <1>8, <1>9 DEF MapHas

\* How many states a block has, and what its last n properties have of them.
LastOf(block, n) == SubSeq(block, Len(block) + 1 - n, Len(block))
ValueCounts(props, block) == [j \in 1..Len(block) |-> Len(props[block[j]].values)]

LEMMA StatesOf ==
    ASSUME NEW t, IsTable(t), NEW block \in Seq(DOMAIN t.props)
    PROVE  /\ ValueCounts(t.props, block) \in Seq(Nat) /\ Len(ValueCounts(t.props, block)) = Len(block)
           /\ StateCount(t.props, block) = Product(ValueCounts(t.props, block))
           /\ StateCount(t.props, block) \in Nat \ {0}
<1> DEFINE u == ValueCounts(t.props, block)
<1>1. Len(block) \in Nat /\ \A j \in 1..Len(block) : Len(t.props[block[j]].values) \in Nat \ {0}
  <2>1. \A j \in 1..Len(block) : block[j] \in DOMAIN t.props
    BY ElementOfSeq
  <2>2. \A j \in 1..Len(block) : Len(t.props[block[j]].values) \in 1..31
    BY <2>1, TableParts
  <2>3. \A n \in 1..31 : n \in Nat \ {0}
    OBVIOUS
  <2>4. Len(block) \in Nat
    OBVIOUS
  <2> QED BY <2>2, <2>3, <2>4, Zenon
<1>2. u \in Seq(Nat \ {0}) /\ u \in Seq(Nat) /\ Len(u) = Len(block)
  BY <1>1 DEF ValueCounts
<1>3. StateCount(t.props, block) = Product(u)
  BY DEF StateCount, ValueCounts
<1> HIDE DEF u
<1>4. Product(u) \in Nat \ {0}
  BY <1>2, ProductPositive
<1> QED BY <1>2, <1>3, <1>4 DEF u

LEMMA StatesBehind ==
    ASSUME NEW t, IsTable(t), NEW block \in Seq(DOMAIN t.props)
    PROVE  /\ StateCount(t.props, LastOf(block, 0)) = 1
           /\ \A n \in 0..Len(block) : /\ LastOf(block, n) \in Seq(DOMAIN t.props)
                                       /\ StateCount(t.props, LastOf(block, n)) \in Nat \ {0}
           /\ \A n \in 0 .. Len(block) - 1 :
                 StateCount(t.props, LastOf(block, n + 1))
                     = Len(t.props[block[Len(block) - n]].values) * StateCount(t.props, LastOf(block, n))
<1>1. PICK l \in Nat : l = Len(block)
  OBVIOUS
<1>2. ASSUME NEW n \in 0..l
      PROVE  /\ LastOf(block, n) \in Seq(DOMAIN t.props) /\ Len(LastOf(block, n)) = n
             /\ \A j \in 1..n : LastOf(block, n)[j] = block[l - n + j]
  <2> DEFINE m == l + 1 - n
  <2>1. m \in 1 .. l + 1 /\ l - m + 1 = n /\ (\A i \in 1..n : m + i - 1 = l - n + i)
    OBVIOUS
  <2>2. LastOf(block, n) = SubSeq(block, m, l)
    BY <1>1 DEF LastOf
  <2> HIDE DEF m
  <2>3. \A i \in m..l : i \in 1..l
    BY <2>1
  <2>4. /\ SubSeq(block, m, l) \in Seq(DOMAIN t.props)
        /\ Len(SubSeq(block, m, l)) = IF m <= l THEN l - m + 1 ELSE 0
        /\ \A i \in 1 .. l - m + 1 : SubSeq(block, m, l)[i] = block[m + i - 1]
    <3>1. \A i \in m..l : block[i] \in DOMAIN t.props
      BY <1>1, <2>3, ElementOfSeq
    <3>2. m \in Int /\ l \in Int
      BY <2>1
    <3>3. SubSeq(block, m, l) \in Seq(DOMAIN t.props)
      BY <3>1, <3>2, SubSeqProperties, Zenon
    <3>4. Len(SubSeq(block, m, l)) = IF m <= l THEN l - m + 1 ELSE 0
      BY <3>1, <3>2, SubSeqProperties, Zenon
    <3>5. \A i \in 1 .. l - m + 1 : SubSeq(block, m, l)[i] = block[m + i - 1]
      BY <3>2
    <3> QED BY <3>3, <3>4, <3>5
  <2>5. Len(SubSeq(block, m, l)) = n
    BY <2>1, <2>4
  <2> QED BY <2>1, <2>2, <2>4, <2>5
<1>3. \A n \in 0..l : StateCount(t.props, LastOf(block, n)) \in Nat \ {0}
  BY <1>2, StatesOf
<1>4. StateCount(t.props, LastOf(block, 0)) = 1
  <2> DEFINE u == ValueCounts(t.props, LastOf(block, 0))
  <2>1. 0 \in 0..l
    OBVIOUS
  <2>2. u \in Seq(Nat) /\ Len(u) = 0 /\ StateCount(t.props, LastOf(block, 0)) = Product(u)
    BY <1>2, <2>1, StatesOf
  <2> HIDE DEF u
  <2> QED BY <2>2, EmptyFolds
<1>5. ASSUME NEW n \in 0 .. l - 1
      PROVE  StateCount(t.props, LastOf(block, n + 1))
                 = Len(t.props[block[l - n]].values) * StateCount(t.props, LastOf(block, n))
  <2> DEFINE u == ValueCounts(t.props, LastOf(block, n))
             v == ValueCounts(t.props, LastOf(block, n + 1))
  <2>1. n \in 0..l /\ n + 1 \in 0..l /\ n \in Nat
    OBVIOUS
  <2>2. /\ u \in Seq(Nat) /\ Len(u) = n /\ StateCount(t.props, LastOf(block, n)) = Product(u)
        /\ v \in Seq(Nat) /\ Len(v) = n + 1 /\ StateCount(t.props, LastOf(block, n + 1)) = Product(v)
    BY <1>2, <2>1, StatesOf
  <2>3. ASSUME NEW i \in 1..n PROVE v[i + 1] = u[i]
    <3>1. i + 1 \in 1 .. n + 1 /\ l - (n + 1) + (i + 1) = l - n + i
      OBVIOUS
    <3>2. LastOf(block, n + 1)[i + 1] = LastOf(block, n)[i]
      <4>1. LastOf(block, n + 1)[i + 1] = block[l - (n + 1) + (i + 1)]
        BY <1>2, <2>1, <3>1
      <4>2. LastOf(block, n)[i] = block[l - n + i]
        BY <1>2, <2>1
      <4> QED BY <3>1, <4>1, <4>2
    <3>3. Len(LastOf(block, n)) = n /\ Len(LastOf(block, n + 1)) = n + 1
      BY <1>2, <2>1
    <3> QED BY <3>1, <3>2, <3>3 DEF ValueCounts
  <2>4. v[1] = Len(t.props[block[l - n]].values)
    <3>1. 1 \in 1 .. n + 1 /\ l - (n + 1) + 1 = l - n
      OBVIOUS
    <3>2. LastOf(block, n + 1)[1] = block[l - n]
      BY <1>2, <2>1, <3>1
    <3>3. Len(LastOf(block, n + 1)) = n + 1
      BY <1>2, <2>1
    <3> QED BY <3>1, <3>2, <3>3 DEF ValueCounts
  <2> HIDE DEF u, v
  <2>5. Product(v) = v[1] * Product(u)
    BY <2>2, <2>3, ProductPrepended
  <2> QED BY <2>2, <2>4, <2>5
<1> QED BY <1>1, <1>2, <1>3, <1>4, <1>5

\* The states of the blocks are numbered without a gap.
LEMMA FirstStates ==
    ASSUME NEW t, IsTable(t)
    PROVE  /\ first_state_id(t.props, t.blocks, 1) = 0
           /\ \A b \in 1 .. Len(t.blocks) + 1 : first_state_id(t.props, t.blocks, b) \in Nat
           /\ \A b \in 1..Len(t.blocks) :
                 first_state_id(t.props, t.blocks, b + 1)
                     = first_state_id(t.props, t.blocks, b) + StateCount(t.props, t.blocks[b])
<1>1. PICK N \in Nat \ {0} : N = Len(t.blocks)
  <2>1. Len(t.blocks) \in Nat \ {0}
    BY TableParts
  <2> QED BY <2>1
<1> DEFINE u(b) == [c \in 1 .. b - 1 |-> StateCount(t.props, t.blocks[c])]
<1>2. \A c \in 1..N : StateCount(t.props, t.blocks[c]) \in Nat
  BY <1>1, TableParts, StatesOf
<1>3. ASSUME NEW b \in 1 .. N + 1
      PROVE  u(b) \in Seq(Nat) /\ Len(u(b)) = b - 1 /\ first_state_id(t.props, t.blocks, b) = Total(u(b))
  <2>1. b - 1 \in Nat /\ \A c \in 1 .. b - 1 : c \in 1..N
    OBVIOUS
  <2>2. u(b) \in Seq(Nat) /\ Len(u(b)) = b - 1
    BY <1>2, <2>1
  <2> QED BY <2>2 DEF first_state_id
<1>4. first_state_id(t.props, t.blocks, 1) = 0
  <2> DEFINE w == u(1)
  <2>1. 1 \in 1 .. N + 1 /\ 1 - 1 = 0
    OBVIOUS
  <2>2. w \in Seq(Nat) /\ Len(w) = 0 /\ first_state_id(t.props, t.blocks, 1) = Total(w)
    BY <1>3, <2>1
  <2> HIDE DEF w
  <2> QED BY <2>2, EmptyFolds
<1>5. ASSUME NEW b \in 1..N
      PROVE  /\ first_state_id(t.props, t.blocks, b) \in Nat
             /\ first_state_id(t.props, t.blocks, b + 1)
                    = first_state_id(t.props, t.blocks, b) + StateCount(t.props, t.blocks[b])
  <2> DEFINE v == u(b)
             w == u(b + 1)
  <2>1. b \in 1 .. N + 1 /\ b + 1 \in 1 .. N + 1 /\ (b + 1) - 1 = b
    OBVIOUS
  <2>2. /\ v \in Seq(Nat) /\ Len(v) = b - 1 /\ first_state_id(t.props, t.blocks, b) = Total(v)
        /\ w \in Seq(Nat) /\ Len(w) = b /\ first_state_id(t.props, t.blocks, b + 1) = Total(w)
    BY <1>3, <2>1
  <2>3. (\A c \in 1 .. b - 1 : w[c] = v[c]) /\ w[b] = StateCount(t.props, t.blocks[b])
    BY <2>1
  <2> HIDE DEF v, w
  <2>4. Len(w) = Len(v) + 1
    BY <2>2
  <2>5. Total(w) = Total(v) + w[Len(w)] /\ Total(v) \in Nat
    BY <2>2, <2>3, <2>4, TotalAppended
  <2> QED BY <2>2, <2>3, <2>5
<1>6. first_state_id(t.props, t.blocks, N + 1) \in Nat
  <2>1. N \in 1..N
    OBVIOUS
  <2>2. /\ first_state_id(t.props, t.blocks, N) \in Nat
        /\ first_state_id(t.props, t.blocks, N + 1)
               = first_state_id(t.props, t.blocks, N) + StateCount(t.props, t.blocks[N])
        /\ StateCount(t.props, t.blocks[N]) \in Nat
    BY <1>2, <1>5, <2>1
  <2> QED BY <2>2
<1>7. \A b \in 1 .. N + 1 : b \in 1..N \/ b = N + 1
  OBVIOUS
<1> QED BY <1>1, <1>4, <1>5, <1>6, <1>7

\* Every state is one of a block.
LEMMA BlockOfState ==
    ASSUME NEW t, IsTable(t), NEW id \in 0..LastState(t)
    PROVE  LET b == StateBlock(t.props, t.blocks, id)
           IN  b \in 1..Len(t.blocks) /\ id - first_state_id(t.props, t.blocks, b) \in Nat
<1> DEFINE first(b) == first_state_id(t.props, t.blocks, b)
           states(b) == StateCount(t.props, t.blocks[b])
           N == Len(t.blocks)
           Holds(b) == first(b) <= id /\ id < first(b) + states(b)
<1>1. /\ N \in Nat \ {0} /\ DOMAIN t.blocks = 1..N
      /\ first(1) = 0 /\ \A b \in 1..N : /\ first(b) \in Nat /\ states(b) \in Nat
                                         /\ first(b + 1) = first(b) + states(b)
  <2>1. N \in Nat \ {0} /\ DOMAIN t.blocks = 1..N
    BY TableParts
  <2>2. \A b \in 1..N : t.blocks[b] \in Seq(DOMAIN t.props)
    BY TableParts
  <2>3. \A b \in 1..N : states(b) \in Nat
    BY <2>2, StatesOf
  <2>4. \A b \in 1..N : b \in 1 .. N + 1
    BY <2>1
  <2> HIDE DEF states
  <2>5. first(1) = 0 /\ \A b \in 1..N : first(b) \in Nat
    BY <2>4, FirstStates
  <2>6. \A b \in 1..N : first(b + 1) = first(b) + states(b)
    BY FirstStates DEF states
  <2> HIDE DEF first, N
  <2> QED BY <2>1, <2>3, <2>5, <2>6
<1>2. LastState(t) = first(N) + states(N) - 1
  BY DEF LastState
<1>3. StateBlock(t.props, t.blocks, id) = CHOOSE b \in DOMAIN t.blocks : Holds(b)
  BY DEF StateBlock
<1> HIDE DEF first, states, N
<1>4. id \in Nat /\ id < first(N) + states(N)
  <2>1. N \in 1..N
    BY <1>1
  <2>2. first(N) \in Nat /\ states(N) \in Nat
    BY <1>1, <2>1
  <2> QED BY <1>2, <2>2
<1>5. \E b \in 1..N : Holds(b)
  <2> SUFFICES ASSUME \A b \in 1..N : ~Holds(b) PROVE FALSE
    OBVIOUS
  <2> DEFINE S == {i \in Nat : i + 1 \in 1..N => first(i + 1) <= id}
  <2>1. 0 \in S
    BY <1>1, <1>4
  <2>2. ASSUME NEW i \in Nat, i \in S PROVE i + 1 \in S
    <3> SUFFICES ASSUME (i + 1) + 1 \in 1..N PROVE first((i + 1) + 1) <= id
      OBVIOUS
    <3>1. i + 1 \in 1..N
      BY <1>1
    <3>2. first(i + 1) <= id
      BY <2>2, <3>1
    <3>3. ~ id < first(i + 1) + states(i + 1)
      BY <3>1, <3>2
    <3>4. first(i + 1) \in Nat /\ states(i + 1) \in Nat /\ first((i + 1) + 1) = first(i + 1) + states(i + 1)
      BY <1>1, <3>1
    <3> QED BY <1>4, <3>3, <3>4
  <2>3. Nat \subseteq S
    <3> HIDE DEF S
    <3> QED BY <2>1, <2>2, NaturalInduction
  <2>4. N - 1 \in Nat /\ (N - 1) + 1 = N /\ N \in 1..N
    BY <1>1
  <2>5. first(N) <= id
    BY <2>3, <2>4
  <2> QED BY <1>4, <2>4, <2>5
<1>6. PICK b \in 1..N : b = StateBlock(t.props, t.blocks, id) /\ Holds(b)
  <2>1. \E b \in DOMAIN t.blocks : Holds(b)
    BY <1>1, <1>5
  <2> HIDE DEF Holds
  <2>2. /\ StateBlock(t.props, t.blocks, id) \in DOMAIN t.blocks
        /\ Holds(StateBlock(t.props, t.blocks, id))
    BY <1>3, <2>1, Zenon
  <2> QED BY <1>1, <2>2
<1>7. id - first(b) \in Nat
  BY <1>1, <1>4, <1>6
<1> QED BY <1>6, <1>7 DEF first, N

-----------------------------------------------------------------------------
(* Iterating over the properties of a state.                               *)

IteratorState(props) ==
    [trap : BOOLEAN, m_value : Nat, seen : Seq([property : DOMAIN props, value : Nat])]

LEMMA AdvanceState ==
    ASSUME NEW t, IsTable(t), NEW s \in IteratorState(t.props), NEW i \in DOMAIN t.props
    PROVE  /\ Advance(t.props, s, i) \in IteratorState(t.props)
           /\ Advance(t.props, s, i).trap <=> s.trap \/ Len(t.props[i].values) = 16
           /\ ~s.trap /\ Len(t.props[i].values) <= 15 =>
                  Advance(t.props, s, i) =
                      [trap |-> FALSE, m_value |-> s.m_value \div Len(t.props[i].values),
                       seen |-> Append(s.seen, [property |-> i,
                                                value |-> s.m_value % Len(t.props[i].values)])]
<1>1. PICK l \in 1..31 : l = Len(t.props[i].values)
  BY TableParts
<1>2. PICK n \in Nat : n = l % 16 /\ (n = 0 <=> l = 16) /\ (l <= 15 => n = l)
  OBVIOUS
<1>3. count(flags(t.props, i)) = n
  BY <1>1, <1>2, FlagsParts
<1>4. Advance(t.props, s, i) =
          IF s.trap \/ n = 0 THEN [s EXCEPT !.trap = TRUE]
          ELSE [trap |-> FALSE, m_value |-> s.m_value \div n,
                seen |-> Append(s.seen, [property |-> i, value |-> s.m_value % n])]
  BY <1>3, Zenon DEF Advance
<1>5. /\ s.trap \in BOOLEAN /\ s.m_value \in Nat
      /\ s.seen \in Seq([property : DOMAIN t.props, value : Nat])
  BY DEF IteratorState
<1>6. CASE s.trap \/ n = 0
  <2>1. Advance(t.props, s, i) = [s EXCEPT !.trap = TRUE]
    BY <1>4, <1>6
  <2>2. [s EXCEPT !.trap = TRUE] \in IteratorState(t.props) /\ [s EXCEPT !.trap = TRUE].trap
    BY DEF IteratorState
  <2>3. s.trap \/ l = 16
    BY <1>2, <1>6
  <2>4. ~(~s.trap /\ l <= 15)
    BY <2>3
  <2> QED BY <1>1, <2>1, <2>2, <2>3, <2>4, Zenon
<1>7. CASE ~s.trap /\ n # 0
  <2>1. s.m_value \div n \in Nat /\ s.m_value % n \in Nat
    <3>1. n \in Nat \ {0}
      BY <1>7
    <3>2. s.m_value \div n \in Nat /\ s.m_value % n \in 0 .. n - 1
      BY <1>5, <3>1, DivMod
    <3> QED BY <3>1, <3>2
  <2> DEFINE entry == [property |-> i, value |-> s.m_value % n]
             next == [trap |-> FALSE, m_value |-> s.m_value \div n, seen |-> Append(s.seen, entry)]
  <2>2. entry \in [property : DOMAIN t.props, value : Nat]
    BY <2>1
  <2> HIDE DEF entry
  <2>3. Append(s.seen, entry) \in Seq([property : DOMAIN t.props, value : Nat])
    BY <1>5, <2>2, AppendProperties
  <2>4. next \in IteratorState(t.props) /\ next.trap = FALSE
    BY <2>1, <2>3 DEF IteratorState
  <2>5. Advance(t.props, s, i) = next
    BY <1>4, <1>7, Zenon DEF entry
  <2>6. ~s.trap /\ l # 16
    BY <1>2, <1>7
  <2>7. l <= 15 => next = [trap |-> FALSE, m_value |-> s.m_value \div l,
                           seen |-> Append(s.seen, [property |-> i, value |-> s.m_value % l])]
    BY <1>2, Zenon DEF entry
  <2> HIDE DEF next
  <2> QED BY <1>1, <2>4, <2>5, <2>6, <2>7, Zenon
<1> QED BY <1>5, <1>6, <1>7

Iterates(t, block, k, f) ==
    /\ f \in [0..Len(block) -> IteratorState(t.props)]
    /\ f[0] = [trap |-> FALSE, m_value |-> k, seen |-> <<>>]
    /\ \A n \in 1..Len(block) : f[n] = Advance(t.props, f[n - 1], block[Len(block) + 1 - n])

LEMMA IteratorDef ==
    ASSUME NEW t, IsTable(t), NEW id \in 0..LastState(t)
    PROVE  LET b == StateBlock(t.props, t.blocks, id)
           IN  \E f : /\ Iterates(t, t.blocks[b], id - first_state_id(t.props, t.blocks, b), f)
                      /\ StateProperties(t.props, t.blocks, id) = f[Len(t.blocks[b])]
<1>1. PICK b \in 1..Len(t.blocks) : b = StateBlock(t.props, t.blocks, id)
  BY BlockOfState
<1>2. PICK k \in Nat : k = id - first_state_id(t.props, t.blocks, b)
  BY <1>1, BlockOfState
<1>3. PICK block \in Seq(DOMAIN t.props) : block = t.blocks[b]
  BY TableParts
<1>4. PICK end \in Nat : end = Len(block) /\ end = properties_count(t.blocks, b)
  BY <1>3, MapAt DEF MapHas
<1> DEFINE V == IteratorState(t.props)
           start == [trap |-> FALSE, m_value |-> k, seen |-> <<>>]
           at(n) == property_map(t.blocks)[properties_start(t.blocks, b) + n]
           step == [x \in (1..end) \X V |-> Advance(t.props, x[2], block[end + 1 - x[1]])]
           body(f) == [n \in 0..end |-> IF n = 0 THEN start ELSE Advance(t.props, f[n - 1], at(n))]
           iterator == CHOOSE f : f = body(f)
<1>5. StateProperties(t.props, t.blocks, id) = iterator[end]
  BY <1>1, <1>2, <1>4, Zenon DEF StateProperties
<1>6. start \in V
  BY DEF IteratorState
<1>7. \A n \in 1..end : at(n) = block[end + 1 - n] /\ block[end + 1 - n] \in DOMAIN t.props
  <2>1. \A n \in 1..end : end + 1 - n \in 1..end
    OBVIOUS
  <2>2. \A n \in 1..end : block[end + 1 - n] \in DOMAIN t.props
    BY <1>4, <2>1, ElementOfSeq
  <2>3. \A n \in 1..end : at(n) = block[end + 1 - n]
    <3>1. MapHas(t, b)
      BY MapAt, Zenon
    <3> QED BY <1>3, <1>4, <3>1, Zenon DEF MapHas
  <2> QED BY <2>2, <2>3
<1> HIDE DEF at, V
<1>8. /\ step \in [(1..end) \X V -> V]
      /\ \A n \in 1..end, s \in V : step[<<n, s>>] = Advance(t.props, s, block[end + 1 - n])
  <2>1. \A n \in 1..end, s \in V : Advance(t.props, s, block[end + 1 - n]) \in V
    BY <1>7, AdvanceState DEF V
  <2> QED BY <2>1
<1> HIDE DEF step, start
<1>9. PICK f : Folded(f, start, step, end, V)
  BY <1>6, <1>8, FoldExists
<1>10. \A n \in 1..end : n - 1 \in 0..end
  OBVIOUS
<1>11. f = body(f)
  <2>1. f \in [0..end -> V] /\ f[0] = start /\ \A n \in 1..end : f[n] = step[<<n, f[n - 1]>>]
    BY <1>9 DEF Folded
  <2>2. \A n \in 1..end : f[n] = Advance(t.props, f[n - 1], at(n))
    BY <1>7, <1>8, <1>10, <2>1
  <2>3. \A n \in 0..end : n # 0 => n \in 1..end
    OBVIOUS
  <2> QED BY <2>1, <2>2, <2>3
<1>12. iterator = body(iterator)
  <2> HIDE DEF body
  <2> QED BY <1>11
<1> HIDE DEF iterator
<1>13. /\ iterator = [n \in 0..end |-> iterator[n]] /\ iterator[0] = start
       /\ \A n \in 1..end : iterator[n] = Advance(t.props, iterator[n - 1], block[end + 1 - n])
  <2>1. iterator = [n \in 0..end |-> iterator[n]]
    BY <1>12
  <2>2. iterator[0] = start
    BY <1>12
  <2>3. \A n \in 1..end : n \in 0..end /\ n # 0
    OBVIOUS
  <2>4. \A n \in 1..end : iterator[n] = Advance(t.props, iterator[n - 1], at(n))
    BY <1>12, <2>3
  <2> QED BY <1>7, <2>1, <2>2, <2>4
<1>14. \A n \in 1..end : iterator[n - 1] \in V => iterator[n] = step[<<n, iterator[n - 1]>>]
  BY <1>8, <1>13
<1>15. Folded(iterator, start, step, end, V)
  BY <1>6, <1>8, <1>13, <1>14, FoldUnfolds, Zenon
<1>16. iterator \in [0..end -> V]
  BY <1>15 DEF Folded
<1>17. Iterates(t, block, k, iterator)
  BY <1>4, <1>13, <1>16 DEF Iterates, start, V
<1> QED BY <1>1, <1>2, <1>3, <1>4, <1>5, <1>17

\* What the iterator has seen behind n properties: their numbers, the last first,
\* with the values the game numbered the state by.
Sees(t, block, k, n, s) ==
    /\ s.trap = FALSE /\ Len(s.seen) = n
    /\ s.m_value = k \div StateCount(t.props, LastOf(block, n))
    /\ \A m \in 1..n :
          s.seen[m] = [property |-> block[Len(block) + 1 - m],
                       value |-> (k \div StateCount(t.props, LastOf(block, m - 1)))
                                     % Len(t.props[block[Len(block) + 1 - m]].values)]

LEMMA IteratorSees ==
    ASSUME NEW t, IsTable(t), NEW block \in Seq(DOMAIN t.props), NEW k \in Nat, NEW f,
           Iterates(t, block, k, f), \A i \in Range(block) : Len(t.props[i].values) <= 15
    PROVE  Sees(t, block, k, Len(block), f[Len(block)])
<1>1. PICK l \in Nat : l = Len(block)
  OBVIOUS
<1> DEFINE S == {n \in Nat : n <= l => Sees(t, block, k, n, f[n])}
<1>2. 0 \in S
  <2>1. f[0] = [trap |-> FALSE, m_value |-> k, seen |-> <<>>]
    BY DEF Iterates
  <2>2. StateCount(t.props, LastOf(block, 0)) = 1 /\ k \div 1 = k
    BY StatesBehind
  <2> QED BY <2>1, <2>2 DEF Sees
<1>3. ASSUME NEW n \in Nat, n \in S PROVE n + 1 \in S
  <2> SUFFICES ASSUME n + 1 <= l PROVE Sees(t, block, k, n + 1, f[n + 1])
    OBVIOUS
  <2>1. /\ n + 1 \in 1..l /\ (n + 1) - 1 = n /\ n \in 0..l /\ n <= l /\ n \in 0 .. l - 1
        /\ l + 1 - (n + 1) = l - n /\ l - n \in 1..l
    OBVIOUS
  <2>2. PICK i \in DOMAIN t.props : i = block[l - n] /\ Len(t.props[i].values) <= 15
    <3>1. block[l - n] \in DOMAIN t.props
      BY <1>1, <2>1, ElementOfSeq
    <3>2. block[l - n] \in Range(block)
      BY <1>1, <2>1 DEF Range
    <3> QED BY <3>1, <3>2
  <2>3. f[n + 1] = Advance(t.props, f[n], i) /\ f[n] \in IteratorState(t.props)
    BY <1>1, <2>1, <2>2 DEF Iterates
  <2>4. Sees(t, block, k, n, f[n])
    BY <1>3, <2>1
  <2>5. PICK c \in Nat \ {0} : c = Len(t.props[i].values)
    <3>1. Len(t.props[i].values) \in 1..31
      BY TableParts
    <3>2. \A x \in 1..31 : x \in Nat \ {0}
      OBVIOUS
    <3> QED BY <3>1, <3>2
  <2>6. PICK p \in Nat \ {0} : p = StateCount(t.props, LastOf(block, n))
    BY <1>1, <2>1, StatesBehind
  <2>7. StateCount(t.props, LastOf(block, n + 1)) = c * p
    BY <1>1, <2>1, <2>2, <2>5, <2>6, StatesBehind
  <2> DEFINE entry == [property |-> i, value |-> (k \div p) % c]
  <2>8. f[n].m_value = k \div p /\ Len(f[n].seen) = n /\ ~f[n].trap
    BY <2>4, <2>6 DEF Sees
  <2>9. f[n + 1] = [trap |-> FALSE, m_value |-> (k \div p) \div c, seen |-> Append(f[n].seen, entry)]
    <3>1. PICK s \in IteratorState(t.props) : s = f[n]
      BY <2>3
    <3>2. ~s.trap /\ Len(t.props[i].values) <= 15 =>
              Advance(t.props, s, i) =
                  [trap |-> FALSE, m_value |-> s.m_value \div Len(t.props[i].values),
                   seen |-> Append(s.seen, [property |-> i,
                                            value |-> s.m_value % Len(t.props[i].values)])]
      BY AdvanceState, Zenon
    <3> QED BY <2>2, <2>3, <2>5, <2>8, <3>1, <3>2, Zenon
  <2>10. (k \div p) \div c = k \div (c * p)
    <3>1. k \div (p * c) = (k \div p) \div c
      BY DivProduct, Zenon
    <3>2. p * c = c * p
      OBVIOUS
    <3> QED BY <3>1, <3>2
  <2>11. f[n].seen \in Seq([property : DOMAIN t.props, value : Nat])
    BY <2>3 DEF IteratorState
  <2> HIDE DEF entry
  <2>12. PICK s \in Seq([property : DOMAIN t.props, value : Nat]) : s = f[n].seen /\ Len(s) = n
    BY <2>8, <2>11
  <2>13. /\ Len(Append(s, entry)) = n + 1 /\ Append(s, entry)[n + 1] = entry
         /\ \A m \in 1..n : Append(s, entry)[m] = s[m]
    BY <2>12, AppendProperties
  <2>14. ASSUME NEW m \in 1 .. n + 1
         PROVE  f[n + 1].seen[m] = [property |-> block[l + 1 - m],
                                    value |-> (k \div StateCount(t.props, LastOf(block, m - 1)))
                                                  % Len(t.props[block[l + 1 - m]].values)]
    <3>1. f[n + 1].seen = Append(s, entry)
      BY <2>9, <2>12
    <3>2. CASE m = n + 1
      <4>1. m - 1 = n /\ l + 1 - m = l - n
        BY <3>2
      <4> QED BY <2>2, <2>5, <2>6, <2>13, <3>1, <3>2, <4>1, Zenon DEF entry
    <3>3. CASE m \in 1..n
      BY <1>1, <2>4, <2>12, <2>13, <3>1, <3>3, Zenon DEF Sees
    <3> QED BY <3>2, <3>3
  <2>15. f[n + 1].trap = FALSE /\ f[n + 1].m_value = k \div (c * p) /\ Len(f[n + 1].seen) = n + 1
    BY <2>9, <2>10, <2>12, <2>13
  <2> QED BY <1>1, <2>7, <2>14, <2>15, Zenon DEF Sees
<1>4. Nat \subseteq S
  <2> HIDE DEF S
  <2> QED BY <1>2, <1>3, NaturalInduction
<1>5. Sees(t, block, k, l, f[l])
  <2>1. l \in S /\ l <= l
    BY <1>4
  <2> QED BY <2>1
<1> QED BY <1>1, <1>5

LEMMA StateDecoded ==
    ASSUME NEW t, IsTable(t), NEW id \in 0..LastState(t), CountsFit(t, id)
    PROVE  IsDecoded(t, id, StateProperties(t.props, t.blocks, id))
<1>1. PICK b \in 1..Len(t.blocks) : b = StateBlock(t.props, t.blocks, id)
  BY BlockOfState
<1>2. PICK k \in Nat : k = id - first_state_id(t.props, t.blocks, b)
  BY <1>1, BlockOfState
<1>3. PICK block \in Seq(DOMAIN t.props) : block = t.blocks[b]
  BY TableParts
<1>4. PICK l \in Nat : l = Len(block)
  OBVIOUS
<1>5. PICK f, s : Iterates(t, block, k, f) /\ s = StateProperties(t.props, t.blocks, id) /\ s = f[l]
  BY <1>1, <1>2, <1>3, <1>4, IteratorDef
<1>6. \A i \in Range(block) : Len(t.props[i].values) <= 15
  BY <1>1, <1>3 DEF CountsFit, COUNT_MASK
<1>7. Sees(t, block, k, l, s)
  BY <1>4, <1>5, <1>6, IteratorSees
<1>8. /\ ~s.trap
      /\ Len(s.seen) = l
      /\ \A n \in DOMAIN s.seen :
            LET i == s.seen[n].property
            IN  /\ i = block[l + 1 - n]
                /\ s.seen[n].value + 1 = GameValue(t.props, block, k, l + 1 - n)
                /\ t.props[i].kind = "enum" =>
                      Word(t.props, flags(t.props, i), s.seen[n].value)
                          = t.props[i].values[GameValue(t.props, block, k, l + 1 - n)]
  <2>1. ~s.trap
    BY <1>7 DEF Sees
  <2>2. Len(s.seen) = l
    BY <1>7 DEF Sees
  <2>3. DOMAIN s.seen = 1..l
    <3>1. l \in 0..l
      OBVIOUS
    <3>2. s \in IteratorState(t.props)
      BY <1>4, <1>5, <3>1 DEF Iterates
    <3>3. s.seen \in Seq([property : DOMAIN t.props, value : Nat])
      BY <3>2 DEF IteratorState
    <3> QED BY <2>2, <3>3
  <2>4. ASSUME NEW n \in 1..l
        PROVE  LET i == s.seen[n].property
               IN  /\ i = block[l + 1 - n]
                   /\ s.seen[n].value + 1 = GameValue(t.props, block, k, l + 1 - n)
                   /\ t.props[i].kind = "enum" =>
                         Word(t.props, flags(t.props, i), s.seen[n].value)
                             = t.props[i].values[GameValue(t.props, block, k, l + 1 - n)]
    <3>1. l + 1 - n \in 1..l /\ (l + 1 - n) + 1 = l + 1 - (n - 1) /\ n - 1 \in 0..l
      OBVIOUS
    <3>2. PICK j \in 1..l : j = l + 1 - n
      BY <3>1
    <3>3. PICK i \in DOMAIN t.props : i = block[j]
      BY <1>4, ElementOfSeq
    <3>4. PICK c \in Nat \ {0} : c = Len(t.props[i].values)
      <4>1. Len(t.props[i].values) \in 1..31
        BY TableParts
      <4>2. \A x \in 1..31 : x \in Nat \ {0}
        OBVIOUS
      <4> QED BY <4>1, <4>2
    <3>5. PICK p \in Nat \ {0} : p = StateCount(t.props, LastOf(block, n - 1))
      BY <1>4, <3>1, StatesBehind
    <3>6. PICK v : v = (k \div p) % c
      OBVIOUS
    <3>7. v \in 0 .. c - 1
      <4>1. k \div p \in Nat
        BY DivMod
      <4> QED BY <3>6, <4>1, DivMod
    <3>8. s.seen[n] = [property |-> i, value |-> v]
      <4>1. s.seen[n] = [property |-> block[l + 1 - n],
                         value |-> (k \div StateCount(t.props, LastOf(block, n - 1)))
                                       % Len(t.props[block[l + 1 - n]].values)]
        BY <1>4, <1>7, Zenon DEF Sees
      <4> QED BY <3>2, <3>3, <3>4, <3>5, <3>6, <4>1, Zenon
    <3>9. GameValue(t.props, block, k, j) = v + 1
      <4>1. SubSeq(block, j + 1, Len(block)) = LastOf(block, n - 1)
        BY <1>4, <3>1, <3>2, Zenon DEF LastOf
      <4> QED BY <3>3, <3>4, <3>5, <3>6, <4>1, Zenon DEF GameValue
    <3>10. t.props[i].kind = "enum" => Word(t.props, flags(t.props, i), v) = t.props[i].values[v + 1]
      BY <3>4, <3>7, WordOfValue
    <3>11. s.seen[n].property = i /\ s.seen[n].value = v
      BY <3>8
    <3> QED BY <3>2, <3>3, <3>9, <3>10, <3>11, Zenon
  <2> QED BY <2>1, <2>2, <2>3, <2>4
<1>9. IsDecoded(t, id, s)
  BY <1>1, <1>2, <1>3, <1>4, <1>8, Zenon DEF IsDecoded
<1> QED BY <1>5, <1>9
-----------------------------------------------------------------------------
(* The corners of a face.                                                  *)

Vector == [1..3 -> Int]

LEMMA FaceCases ==
    ASSUME NEW n \in Range(Faces)
    PROVE  /\ n = [k \in 1..3 |-> n[k]]
           /\ \/ n[1] = 1 /\ n[2] = 0 /\ n[3] = 0
              \/ n[1] = -1 /\ n[2] = 0 /\ n[3] = 0
              \/ n[1] = 0 /\ n[2] = 1 /\ n[3] = 0
              \/ n[1] = 0 /\ n[2] = -1 /\ n[3] = 0
              \/ n[1] = 0 /\ n[2] = 0 /\ n[3] = 1
              \/ n[1] = 0 /\ n[2] = 0 /\ n[3] = -1
<1>1. Range(Faces) = {<<1, 0, 0>>, <<-1, 0, 0>>, <<0, 1, 0>>, <<0, -1, 0>>, <<0, 0, 1>>, <<0, 0, -1>>}
  BY DEF Range, Faces
<1> QED BY <1>1

\* The coordinates of the corners of a face.
CornersAre(n, d) ==
    /\ \A i \in 1..4 : d[i] \in Vector
    /\ d[1][1] = n[2] - n[3] /\ d[1][2] = n[3] - n[1] /\ d[1][3] = n[1] - n[2]
    /\ d[2][1] = n[2] * (n[1] - n[2]) - n[3] * (n[3] - n[1])
    /\ d[2][2] = n[3] * (n[2] - n[3]) - n[1] * (n[1] - n[2])
    /\ d[2][3] = n[1] * (n[3] - n[1]) - n[2] * (n[2] - n[3])
    /\ \A k \in 1..3 : d[3][k] = -d[1][k] /\ d[4][k] = -d[2][k]

LEMMA CrossAt ==
    ASSUME NEW x \in Vector, NEW y \in Vector
    PROVE  /\ cross(x, y) \in Vector
           /\ cross(x, y)[1] = x[2] * y[3] - y[2] * x[3]
           /\ cross(x, y)[2] = x[3] * y[1] - y[3] * x[1]
           /\ cross(x, y)[3] = x[1] * y[2] - y[1] * x[2]
  BY DEF cross, Vector

LEMMA AddAt ==
    ASSUME NEW x \in Vector, NEW y \in Vector
    PROVE  Add(x, y) \in Vector /\ \A k \in 1..3 : Add(x, y)[k] = x[k] + y[k]
  BY DEF Add, Vector

LEMMA NegAt ==
    ASSUME NEW x \in Vector
    PROVE  Neg(x) \in Vector /\ \A k \in 1..3 : Neg(x)[k] = -x[k]
  BY DEF Neg, Vector

LEMMA TwiceAt ==
    ASSUME NEW x \in Vector
    PROVE  Twice(x) \in Vector /\ \A k \in 1..3 : Twice(x)[k] = 2 * x[k]
  BY DEF Twice, Vector

LEMMA FaceVector == \A n \in Range(Faces) : n \in Vector
<1> SUFFICES ASSUME NEW n \in Range(Faces) PROVE n \in Vector
  OBVIOUS
<1>1. n = [k \in 1..3 |-> n[k]]
  BY FaceCases
<1>2. \A k \in 1..3 : n[k] \in Int
  BY FaceCases
<1> QED BY <1>1, <1>2 DEF Vector

LEMMA CornersOfFace ==
    ASSUME NEW n \in Range(Faces)
    PROVE  CornersAre(n, FaceCorners(n))
<1> DEFINE a == cross(n, <<1, 0, 0>>)
           b == cross(n, <<0, 1, 0>>)
           c == cross(n, <<0, 0, 1>>)
           p0 == Add(Add(a, b), c)
           p1 == cross(n, p0)
<1>1. n \in Vector
  BY FaceVector
<1>2. /\ <<1, 0, 0>> \in Vector /\ <<0, 1, 0>> \in Vector /\ <<0, 0, 1>> \in Vector
      /\ \A k \in 1..3 : /\ <<1, 0, 0>>[k] = (IF k = 1 THEN 1 ELSE 0)
                         /\ <<0, 1, 0>>[k] = (IF k = 2 THEN 1 ELSE 0)
                         /\ <<0, 0, 1>>[k] = (IF k = 3 THEN 1 ELSE 0)
  BY DEF Vector
<1>3. n[1] \in Int /\ n[2] \in Int /\ n[3] \in Int
  BY <1>1 DEF Vector
<1>4. a \in Vector /\ a[1] = 0 /\ a[2] = n[3] /\ a[3] = -n[2]
  BY <1>1, <1>3 DEF cross, Vector
<1>5. b \in Vector /\ b[1] = -n[3] /\ b[2] = 0 /\ b[3] = n[1]
  BY <1>1, <1>3 DEF cross, Vector
<1>6. c \in Vector /\ c[1] = n[2] /\ c[2] = -n[1] /\ c[3] = 0
  BY <1>1, <1>3 DEF cross, Vector
<1> HIDE DEF a, b, c
<1>7. Add(a, b) \in Vector /\ \A k \in 1..3 : Add(a, b)[k] = a[k] + b[k]
  BY <1>4, <1>5, AddAt
<1>8. p0 \in Vector /\ \A k \in 1..3 : p0[k] = Add(a, b)[k] + c[k]
  BY <1>6, <1>7, AddAt
<1>9. p0[1] = n[2] - n[3] /\ p0[2] = n[3] - n[1] /\ p0[3] = n[1] - n[2]
  BY <1>3, <1>4, <1>5, <1>6, <1>7, <1>8
<1> HIDE DEF p0
<1>10. /\ p1 \in Vector
       /\ p1[1] = n[2] * p0[3] - p0[2] * n[3]
       /\ p1[2] = n[3] * p0[1] - p0[3] * n[1]
       /\ p1[3] = n[1] * p0[2] - p0[1] * n[2]
  BY <1>1, <1>8, CrossAt, Zenon
<1>11. /\ p1[1] = n[2] * (n[1] - n[2]) - n[3] * (n[3] - n[1])
       /\ p1[2] = n[3] * (n[2] - n[3]) - n[1] * (n[1] - n[2])
       /\ p1[3] = n[1] * (n[3] - n[1]) - n[2] * (n[2] - n[3])
  BY <1>3, <1>9, <1>10
<1> HIDE DEF p1
<1>12. /\ Neg(p0) \in Vector /\ \A k \in 1..3 : Neg(p0)[k] = -p0[k]
       /\ Neg(p1) \in Vector /\ \A k \in 1..3 : Neg(p1)[k] = -p1[k]
  BY <1>8, <1>10, NegAt
<1>13. FaceCorners(n) = <<p0, p1, Neg(p0), Neg(p1)>>
  BY Zenon DEF FaceCorners, p0, p1, a, b, c
<1>14. PICK d : d = FaceCorners(n)
  OBVIOUS
<1>15. d[1] = p0 /\ d[2] = p1 /\ d[3] = Neg(p0) /\ d[4] = Neg(p1)
  BY <1>13, <1>14
<1>16. \A i \in 1..4 : d[i] \in Vector
  BY <1>8, <1>10, <1>12, <1>15
<1>17. \A k \in 1..3 : d[3][k] = -d[1][k] /\ d[4][k] = -d[2][k]
  BY <1>12, <1>15
<1> QED BY <1>9, <1>11, <1>14, <1>15, <1>16, <1>17, Zenon DEF CornersAre

\* What makes the corners of a face a square that is seen from where n points.
Square4(n, d) ==
    /\ n \in Vector /\ \A i \in 1..4 : d[i] \in Vector
    /\ \A k \in 1..3 : n[k] \in -1..1
    /\ n[1] + n[2] + n[3] \in {-1, 1}
    /\ \A i \in 1..4, k \in 1..3 : IF n[k] = 0 THEN d[i][k] \in {-1, 1} ELSE d[i][k] = 0
    /\ \A k \in 1..3 : d[3][k] = -d[1][k] /\ d[4][k] = -d[2][k]
    /\ \A e \in Vector : (\A k \in 1..3 : IF n[k] = 0 THEN e[k] \in {-1, 1} ELSE e[k] = 0)
                            => \E i \in 1..4 : \A k \in 1..3 : e[k] = d[i][k]
    /\ \A i, j \in 1..4 : i # j => \E k \in 1..3 : d[i][k] # d[j][k]

LEMMA FaceIsSquare ==
    ASSUME NEW n \in Range(Faces)
    PROVE  Square4(n, FaceCorners(n))
<1>1. PICK d : d = FaceCorners(n) /\ CornersAre(n, d)
  BY CornersOfFace
<1>2. n \in Vector /\ \A k \in 1..3 : n[k] \in -1..1
  BY FaceCases, FaceVector
<1>3. n[1] + n[2] + n[3] \in {-1, 1}
  BY FaceCases
<1>4. \A i \in 1..4 : d[i] \in Vector /\ d[i][1] \in Int /\ d[i][2] \in Int /\ d[i][3] \in Int
  BY <1>1 DEF CornersAre, Vector
<1>5. \A i \in 1..4, k \in 1..3 : IF n[k] = 0 THEN d[i][k] \in {-1, 1} ELSE d[i][k] = 0
  BY <1>1, FaceCases DEF CornersAre
<1>6. \A k \in 1..3 : d[3][k] = -d[1][k] /\ d[4][k] = -d[2][k]
  BY <1>1 DEF CornersAre
<1>7. ASSUME NEW e \in Vector, \A k \in 1..3 : IF n[k] = 0 THEN e[k] \in {-1, 1} ELSE e[k] = 0
      PROVE  \E i \in 1..4 : \A k \in 1..3 : e[k] = d[i][k]
  BY <1>1, <1>7, FaceCases DEF CornersAre
<1>8. \A i, j \in 1..4 : i # j => \E k \in 1..3 : d[i][k] # d[j][k]
  BY <1>1, FaceCases DEF CornersAre
<1> QED BY <1>1, <1>2, <1>3, <1>4, <1>5, <1>6, <1>7, <1>8 DEF Square4

-----------------------------------------------------------------------------
(* The two triangles of a face.                                            *)

\* A face f is a block's position and a normal.
Cells == Side \X Side \X Side

Vertex(f, c) == Add(Add(Twice(f[1]), f[2]), FaceCorners(f[2])[c])
FirstTriangle(f) == <<Vertex(f, 1), Vertex(f, 2), Vertex(f, 4)>>
SecondTriangle(f) == <<Vertex(f, 2), Vertex(f, 3), Vertex(f, 4)>>

LEMMA CellVector ==
    ASSUME NEW p \in Cells
    PROVE  p \in Vector /\ \A k \in 1..3 : p[k] \in Side
<1>1. PICK x \in Side, y \in Side, z \in Side : p = <<x, y, z>>
  BY DEF Cells
<1>2. x \in Int /\ y \in Int /\ z \in Int
  BY ChunkMeshAssumption DEF Side
<1> QED BY <1>1, <1>2 DEF Vector

\* Where the corners of a face are, and that it has the corners of a square.
VerticesAre(f, d) ==
    /\ Square4(f[2], d)
    /\ f[1] \in Vector /\ \A k \in 1..3 : f[1][k] \in Side
    /\ \A c \in 1..4 : Vertex(f, c) \in Vector
    /\ \A c \in 1..4, k \in 1..3 : Vertex(f, c)[k] = 2 * f[1][k] + f[2][k] + d[c][k]

LEMMA VertexAt ==
    ASSUME NEW f \in Cells \X Range(Faces)
    PROVE  VerticesAre(f, FaceCorners(f[2]))
<1>1. PICK p \in Cells, n \in Range(Faces) : f = <<p, n>>
  OBVIOUS
<1>2. f[1] = p /\ f[2] = n
  BY <1>1
<1>3. p \in Vector /\ \A k \in 1..3 : p[k] \in Side
  BY CellVector
<1>4. PICK d : d = FaceCorners(n)
  OBVIOUS
<1>5. Square4(n, d)
  BY <1>4, FaceIsSquare
<1>6. n \in Vector /\ \A c \in 1..4 : d[c] \in Vector
  BY <1>5 DEF Square4
<1> DEFINE a == Twice(p)
           b == Add(a, n)
<1>7. a \in Vector /\ \A k \in 1..3 : a[k] = 2 * p[k]
  BY <1>3, TwiceAt
<1> HIDE DEF a
<1>8. b \in Vector /\ \A k \in 1..3 : b[k] = a[k] + n[k]
  BY <1>6, <1>7, AddAt
<1> HIDE DEF b
<1>9. \A c \in 1..4 : Vertex(f, c) = Add(b, d[c])
  BY <1>2, <1>4, Zenon DEF Vertex, a, b
<1>10. \A c \in 1..4 : Add(b, d[c]) \in Vector /\ \A k \in 1..3 : Add(b, d[c])[k] = b[k] + d[c][k]
  BY <1>6, <1>8, AddAt
<1>11. \A c \in 1..4, k \in 1..3 : Vertex(f, c)[k] = 2 * p[k] + n[k] + d[c][k]
  BY <1>7, <1>8, <1>9, <1>10
<1> QED BY <1>2, <1>3, <1>4, <1>5, <1>9, <1>10, <1>11, Zenon DEF VerticesAre

\* Two vertices differ where their corners do, and only there.
LEMMA VectorsEqual ==
    ASSUME NEW v \in Vector, NEW w \in Vector, \A k \in 1..3 : v[k] = w[k]
    PROVE  v = w
  BY DEF Vector

LEMMA VerticesDiffer ==
    ASSUME NEW f \in Cells \X Range(Faces), NEW i \in 1..4, NEW j \in 1..4, i # j
    PROVE  Vertex(f, i) # Vertex(f, j)
<1>1. PICK d : VerticesAre(f, d)
  BY VertexAt
<1>2. PICK k \in 1..3 : d[i][k] # d[j][k]
  BY <1>1 DEF VerticesAre, Square4
<1>3. f[1][k] \in Int /\ f[2][k] \in Int /\ d[i][k] \in Int /\ d[j][k] \in Int
  BY <1>1 DEF VerticesAre, Square4, Vector
<1>4. Vertex(f, i)[k] = 2 * f[1][k] + f[2][k] + d[i][k] /\ Vertex(f, j)[k] = 2 * f[1][k] + f[2][k] + d[j][k]
  BY <1>1 DEF VerticesAre
<1> QED BY <1>2, <1>3, <1>4

LEMMA SquareOfVertices ==
    ASSUME NEW f \in Cells \X Range(Faces)
    PROVE  Square(f) = {Vertex(f, 1), Vertex(f, 2), Vertex(f, 3), Vertex(f, 4)}
<1>1. PICK d : VerticesAre(f, d)
  BY VertexAt
<1>2. /\ Square4(f[2], d) /\ \A k \in 1..3 : f[1][k] \in Side
      /\ \A c \in 1..4 : Vertex(f, c) \in Vector
      /\ \A c \in 1..4, k \in 1..3 : Vertex(f, c)[k] = 2 * f[1][k] + f[2][k] + d[c][k]
  BY <1>1 DEF VerticesAre
<1>3. \A k \in 1..3 : f[1][k] \in Int /\ 0 <= f[1][k] /\ f[1][k] <= Size - 1
  BY <1>2, ChunkMeshAssumption DEF Side
<1>4. \A k \in 1..3 : f[2][k] \in -1..1
  BY <1>2 DEF Square4
<1> DEFINE on(e, k) == IF f[2][k] = 0 THEN e[k] \in {2 * f[1][k] - 1, 2 * f[1][k] + 1}
                                      ELSE e[k] = 2 * f[1][k] + f[2][k]
<1>5. Square(f) = {e \in [1..3 -> -1 .. 2 * Size] : \A k \in 1..3 : on(e, k)}
  BY Zenon DEF Square
<1>6. ASSUME NEW c \in 1..4 PROVE Vertex(f, c) \in Square(f)
  <2>1. \A k \in 1..3 : IF f[2][k] = 0 THEN d[c][k] \in {-1, 1} ELSE d[c][k] = 0
    BY <1>2 DEF Square4
  <2>2. \A k \in 1..3 : Vertex(f, c)[k] = 2 * f[1][k] + f[2][k] + d[c][k]
    BY <1>2
  <2>3. \A k \in 1..3 : on(Vertex(f, c), k)
    BY <1>3, <1>4, <2>1, <2>2
  <2>4. \A k \in 1..3 : Vertex(f, c)[k] \in -1 .. 2 * Size
    BY <1>3, <1>4, <2>1, <2>2, ChunkMeshAssumption
  <2>5. Vertex(f, c) \in Vector
    BY <1>2
  <2> HIDE DEF on
  <2>6. Vertex(f, c) \in [1..3 -> -1 .. 2 * Size]
    BY <2>4, <2>5 DEF Vector
  <2> QED BY <1>5, <2>3, <2>6
<1>7. ASSUME NEW v \in Square(f) PROVE \E c \in 1..4 : v = Vertex(f, c)
  <2>1. v \in Vector /\ \A k \in 1..3 : on(v, k)
    <3> HIDE DEF on
    <3>1. v \in [1..3 -> -1 .. 2 * Size] /\ \A k \in 1..3 : on(v, k)
      BY <1>5
    <3>2. -1 .. 2 * Size \subseteq Int
      OBVIOUS
    <3> QED BY <3>1, <3>2 DEF Vector
  <2> DEFINE e == [k \in 1..3 |-> v[k] - 2 * f[1][k] - f[2][k]]
  <2>2. \A k \in 1..3 : v[k] \in Int
    BY <2>1 DEF Vector
  <2>3. e \in Vector
    BY <1>3, <1>4, <2>2 DEF Vector
  <2>4. \A k \in 1..3 : IF f[2][k] = 0 THEN e[k] \in {-1, 1} ELSE e[k] = 0
    BY <1>3, <1>4, <2>1, <2>2
  <2>5. \A k \in 1..3 : v[k] = 2 * f[1][k] + f[2][k] + e[k]
    BY <1>3, <1>4, <2>2
  <2> HIDE DEF e
  <2>6. PICK c \in 1..4 : \A k \in 1..3 : e[k] = d[c][k]
    BY <1>2, <2>3, <2>4 DEF Square4
  <2>7. \A k \in 1..3 : v[k] = Vertex(f, c)[k]
    BY <1>2, <2>5, <2>6
  <2> QED BY <1>2, <2>1, <2>7, VectorsEqual
<1>8. 1 \in 1..4 /\ 2 \in 1..4 /\ 3 \in 1..4 /\ 4 \in 1..4 /\ \A c \in 1..4 : c = 1 \/ c = 2 \/ c = 3 \/ c = 4
  OBVIOUS
<1>9. /\ Vertex(f, 1) \in Square(f) /\ Vertex(f, 2) \in Square(f)
      /\ Vertex(f, 3) \in Square(f) /\ Vertex(f, 4) \in Square(f)
  BY <1>6, <1>8, Zenon
<1>10. \A v \in Square(f) : v = Vertex(f, 1) \/ v = Vertex(f, 2) \/ v = Vertex(f, 3) \/ v = Vertex(f, 4)
  BY <1>7, <1>8, Zenon
<1> QED BY <1>9, <1>10

\* A triangle's normal from the coordinates of its corners.
LEMMA NormalAt ==
    ASSUME NEW a \in Vector, NEW b \in Vector, NEW c \in Vector
    PROVE  LET m == Normal(<<a, b, c>>)
           IN  /\ m[1] = (b[2] - a[2]) * (c[3] - a[3]) - (c[2] - a[2]) * (b[3] - a[3])
               /\ m[2] = (b[3] - a[3]) * (c[1] - a[1]) - (c[3] - a[3]) * (b[1] - a[1])
               /\ m[3] = (b[1] - a[1]) * (c[2] - a[2]) - (c[1] - a[1]) * (b[2] - a[2])
<1> DEFINE x == Add(b, Neg(a))
           y == Add(c, Neg(a))
<1>1. Neg(a) \in Vector /\ \A k \in 1..3 : Neg(a)[k] = -a[k]
  BY NegAt
<1>2. /\ x \in Vector /\ \A k \in 1..3 : x[k] = b[k] + Neg(a)[k]
      /\ y \in Vector /\ \A k \in 1..3 : y[k] = c[k] + Neg(a)[k]
  BY <1>1, AddAt
<1> HIDE DEF x, y
<1>3. \A k \in 1..3 : a[k] \in Int /\ b[k] \in Int /\ c[k] \in Int
  BY DEF Vector
<1>4. /\ x[1] = b[1] - a[1] /\ x[2] = b[2] - a[2] /\ x[3] = b[3] - a[3]
      /\ y[1] = c[1] - a[1] /\ y[2] = c[2] - a[2] /\ y[3] = c[3] - a[3]
  BY <1>1, <1>2, <1>3
<1>5. Normal(<<a, b, c>>) = cross(x, y)
  BY DEF Normal, x, y
<1>6. /\ cross(x, y)[1] = x[2] * y[3] - y[2] * x[3]
      /\ cross(x, y)[2] = x[3] * y[1] - y[3] * x[1]
      /\ cross(x, y)[3] = x[1] * y[2] - y[1] * x[2]
  BY <1>2, CrossAt, Zenon
<1> QED BY <1>4, <1>5, <1>6, Zenon

Outward(normal, m) ==
    \A k \in 1..3 : IF normal[k] = 0 THEN m[k] = 0 ELSE normal[k] * m[k] > 0

\* What turns from d2 - d1 to d4 - d1 turns around the face's normal.
AreEdges(d, i, v, w) == \A k \in 1..3 : v[k] = d[i + 1][k] - d[i][k] /\ w[k] = d[4][k] - d[i][k]
IsCross(v, w, m) ==
    /\ m[1] = v[2] * w[3] - w[2] * v[3]
    /\ m[2] = v[3] * w[1] - w[3] * v[1]
    /\ m[3] = v[1] * w[2] - w[1] * v[2]

LEMMA CornersTurn ==
    ASSUME NEW n \in Range(Faces), NEW d, CornersAre(n, d),
           NEW i \in {1, 2}, NEW v, NEW w, NEW m, AreEdges(d, i, v, w), IsCross(v, w, m)
    PROVE  Outward(n, m)
<1>1. CASE i = 1
  BY <1>1, FaceCases DEF CornersAre, Outward, AreEdges, IsCross
<1>2. CASE i = 2
  BY <1>2, FaceCases DEF CornersAre, Outward, AreEdges, IsCross
<1> QED BY <1>1, <1>2

LEMMA TrianglesTurn ==
    ASSUME NEW f \in Cells \X Range(Faces), NEW i \in {1, 2}
    PROVE  Outward(f[2], Normal(<<Vertex(f, i), Vertex(f, i + 1), Vertex(f, 4)>>))
<1>1. PICK d : VerticesAre(f, d) /\ CornersAre(f[2], d)
  BY VertexAt, CornersOfFace
<1>2. f[2] \in Range(Faces) /\ i \in 1..4 /\ i + 1 \in 1..4
  OBVIOUS
<1> DEFINE a == Vertex(f, i)
           b == Vertex(f, i + 1)
           c == Vertex(f, 4)
           v == [k \in 1..3 |-> b[k] - a[k]]
           w == [k \in 1..3 |-> c[k] - a[k]]
           m == Normal(<<a, b, c>>)
<1>3. /\ a \in Vector /\ b \in Vector /\ c \in Vector
      /\ \A k \in 1..3 : /\ a[k] = 2 * f[1][k] + f[2][k] + d[i][k]
                         /\ b[k] = 2 * f[1][k] + f[2][k] + d[i + 1][k]
                         /\ c[k] = 2 * f[1][k] + f[2][k] + d[4][k]
  BY <1>1, <1>2 DEF VerticesAre
<1> HIDE DEF a, b, c
<1>4. \A k \in 1..3 : f[1][k] \in Int /\ f[2][k] \in Int /\ \A j \in 1..4 : d[j][k] \in Int
  BY <1>1 DEF VerticesAre, Square4, Vector
<1>5. AreEdges(d, i, v, w)
  BY <1>2, <1>3, <1>4 DEF AreEdges
<1>6. /\ m[1] = (b[2] - a[2]) * (c[3] - a[3]) - (c[2] - a[2]) * (b[3] - a[3])
      /\ m[2] = (b[3] - a[3]) * (c[1] - a[1]) - (c[3] - a[3]) * (b[1] - a[1])
      /\ m[3] = (b[1] - a[1]) * (c[2] - a[2]) - (c[1] - a[1]) * (b[2] - a[2])
  BY <1>3, NormalAt, Zenon
<1>7. /\ v[1] = b[1] - a[1] /\ v[2] = b[2] - a[2] /\ v[3] = b[3] - a[3]
      /\ w[1] = c[1] - a[1] /\ w[2] = c[2] - a[2] /\ w[3] = c[3] - a[3]
  OBVIOUS
<1> HIDE DEF v, w, m
<1>8. IsCross(v, w, m)
  BY <1>6, <1>7, Zenon DEF IsCross
<1>9. Outward(f[2], m)
  BY <1>1, <1>2, <1>5, <1>8, CornersTurn, Zenon
<1> QED BY <1>9 DEF m, a, b, c

LEMMA TwoElements ==
    ASSUME NEW a, NEW b, a # b
    PROVE  IsFiniteSet({a, b}) /\ Cardinality({a, b}) = 2
<1>1. IsFiniteSet({a}) /\ Cardinality({a}) = 1
  BY FS_Singleton
<1>2. /\ IsFiniteSet({a} \cup {b})
      /\ Cardinality({a} \cup {b}) = IF b \in {a} THEN Cardinality({a}) ELSE Cardinality({a}) + 1
  BY <1>1, FS_AddElement, Zenon
<1>3. b \notin {a} /\ {a} \cup {b} = {a, b}
  OBVIOUS
<1> QED BY <1>1, <1>2, <1>3

LEMMA ThreeElements ==
    ASSUME NEW a, NEW b, NEW c, a # b, a # c, b # c
    PROVE  Cardinality({a, b, c}) = 3
<1>1. IsFiniteSet({a, b}) /\ Cardinality({a, b}) = 2
  BY TwoElements
<1>2. Cardinality({a, b} \cup {c}) = IF c \in {a, b} THEN Cardinality({a, b}) ELSE Cardinality({a, b}) + 1
  BY <1>1, FS_AddElement, Zenon
<1>3. c \notin {a, b} /\ {a, b} \cup {c} = {a, b, c}
  OBVIOUS
<1> QED BY <1>1, <1>2, <1>3

LEMMA TrianglesCover ==
    ASSUME NEW f \in Cells \X Range(Faces)
    PROVE  Covers(FirstTriangle(f), SecondTriangle(f), Square(f), f[2])
<1> DEFINE t == FirstTriangle(f)
           u == SecondTriangle(f)
<1>1. PICK v1, v2, v3, v4 : /\ v1 = Vertex(f, 1) /\ v2 = Vertex(f, 2)
                            /\ v3 = Vertex(f, 3) /\ v4 = Vertex(f, 4)
  OBVIOUS
<1>2. /\ v1 # v2 /\ v1 # v3 /\ v1 # v4
      /\ v2 # v3 /\ v2 # v4 /\ v3 # v4
  <2>1. 1 \in 1..4 /\ 2 \in 1..4 /\ 3 \in 1..4 /\ 4 \in 1..4
        /\ 1 # 2 /\ 1 # 3 /\ 1 # 4 /\ 2 # 3 /\ 2 # 4 /\ 3 # 4
    OBVIOUS
  <2> QED BY <1>1, <2>1, VerticesDiffer, Zenon
<1>3. t = <<v1, v2, v4>> /\ u = <<v2, v3, v4>>
  BY <1>1, Zenon DEF FirstTriangle, SecondTriangle
<1>4. Range(t) = {v1, v2, v4} /\ Range(u) = {v2, v3, v4}
  BY <1>3 DEF Range
<1>5. Square(f) = {v1, v2, v3, v4}
  BY <1>1, SquareOfVertices, Zenon
<1>6. Outward(f[2], Normal(t)) /\ Outward(f[2], Normal(u))
  <2>1. 1 \in {1, 2} /\ 2 \in {1, 2} /\ 1 + 1 = 2 /\ 2 + 1 = 3
    OBVIOUS
  <2> QED BY <1>1, <1>3, <2>1, TrianglesTurn, Zenon
<1> HIDE DEF t, u
<1>7. Range(t) \union Range(u) = Square(f)
  BY <1>4, <1>5
<1>8. Range(t) \intersect Range(u) = {v2, v4}
  BY <1>2, <1>4
<1>9. Cardinality(Range(t) \intersect Range(u)) = 2
  <2>1. Cardinality({v2, v4}) = 2
    BY <1>2, TwoElements
  <2> QED BY <1>8, <2>1, Zenon
<1>10. Cardinality(Range(t)) = 3 /\ Cardinality(Range(u)) = 3
  <2>1. Cardinality({v1, v2, v4}) = 3
    BY <1>2, ThreeElements
  <2>2. Cardinality({v2, v3, v4}) = 3
    BY <1>2, ThreeElements
  <2> QED BY <1>4, <2>1, <2>2, Zenon
<1>11. Covers(t, u, Square(f), f[2])
  BY <1>6, <1>7, <1>9, <1>10, Zenon DEF Covers, Outward
<1> QED BY <1>11 DEF t, u

-----------------------------------------------------------------------------
(* Faces of a section have no triangle in common.                          *)

LEMMA BoundaryDrawn ==
    \A blocks, f : f \in Boundary(blocks) <=> f \in Cells \X Range(Faces) /\ Drawn(blocks, f)
  BY DEF Boundary, Cells, Drawn, is_air_at

\* The coordinates of a vertex added up.
LEMMA VertexSum ==
    ASSUME NEW f \in Cells \X Range(Faces)
    PROVE  \E s \in Int :
              /\ Vertex(f, 1)[1] + Vertex(f, 1)[2] + Vertex(f, 1)[3] = s
              /\ Vertex(f, 2)[1] + Vertex(f, 2)[2] + Vertex(f, 2)[3] = s - 2
              /\ Vertex(f, 3)[1] + Vertex(f, 3)[2] + Vertex(f, 3)[3] = s
<1>1. PICK d : VerticesAre(f, d) /\ CornersAre(f[2], d)
  BY VertexAt, CornersOfFace
<1>2. f[2] \in Range(Faces)
  OBVIOUS
<1>3. /\ d[1][1] + d[1][2] + d[1][3] = 0 /\ d[2][1] + d[2][2] + d[2][3] = -2
      /\ d[3][1] + d[3][2] + d[3][3] = 0
  BY <1>1, <1>2, FaceCases DEF CornersAre
<1>4. \A k \in 1..3 : f[1][k] \in Int /\ f[2][k] \in Int /\ \A j \in 1..4 : d[j][k] \in Int
  BY <1>1 DEF VerticesAre, Square4, Vector
<1>5. \A c \in 1..3, k \in 1..3 : Vertex(f, c)[k] = 2 * f[1][k] + f[2][k] + d[c][k]
  BY <1>1 DEF VerticesAre
<1> QED BY <1>3, <1>4, <1>5

\* The middle of a face, and that it tells the face but for the side it is seen from.
LEMMA Diagonal ==
    ASSUME NEW f \in Cells \X Range(Faces), NEW k \in 1..3
    PROVE  Vertex(f, 2)[k] + Vertex(f, 4)[k] = 2 * (2 * f[1][k] + f[2][k])
<1>1. PICK d : VerticesAre(f, d)
  BY VertexAt
<1>2. d[4][k] = -d[2][k]
  BY <1>1 DEF VerticesAre, Square4
<1>3. f[1][k] \in Int /\ f[2][k] \in Int /\ d[2][k] \in Int
  BY <1>1 DEF VerticesAre, Square4, Vector
<1>4. Vertex(f, 2)[k] = 2 * f[1][k] + f[2][k] + d[2][k] /\ Vertex(f, 4)[k] = 2 * f[1][k] + f[2][k] + d[4][k]
  BY <1>1 DEF VerticesAre
<1> QED BY <1>2, <1>3, <1>4

SameMiddle(p, n, q, m) == \A k \in 1..3 : 2 * p[k] + n[k] = 2 * q[k] + m[k]
SameCoordinates(v, w) == \A k \in 1..3 : v[k] = w[k]
IsBehind(q, p, n) == \A k \in 1..3 : q[k] = p[k] + n[k]

LEMMA MiddleOfFace ==
    ASSUME NEW p \in Vector, NEW q \in Vector, NEW n \in Range(Faces), NEW m \in Range(Faces),
           SameMiddle(p, n, q, m)
    PROVE  (SameCoordinates(p, q) /\ SameCoordinates(n, m)) \/ IsBehind(q, p, n)
<1>1. \A k \in 1..3 : p[k] \in Int /\ q[k] \in Int
  BY DEF Vector
<1> QED BY <1>1, FaceCases DEF SameMiddle, SameCoordinates, IsBehind

LEMMA FaceOfMiddle ==
    ASSUME NEW blocks, NEW f \in Boundary(blocks), NEW g \in Boundary(blocks),
           \A k \in 1..3 : 2 * f[1][k] + f[2][k] = 2 * g[1][k] + g[2][k]
    PROVE  f = g
<1>1. PICK p \in Cells, n \in Range(Faces) : f = <<p, n>>
  BY BoundaryDrawn
<1>2. PICK q \in Cells, m \in Range(Faces) : g = <<q, m>>
  BY BoundaryDrawn
<1>3. f[1] = p /\ f[2] = n /\ g[1] = q /\ g[2] = m
  BY <1>1, <1>2
<1>4. p \in Vector /\ q \in Vector /\ n \in Vector /\ m \in Vector /\ \A k \in 1..3 : q[k] \in Side
  BY CellVector, FaceVector
<1>5. ~IsBehind(q, p, n)
  <2> SUFFICES ASSUME \A k \in 1..3 : q[k] = p[k] + n[k] PROVE FALSE
    BY Zenon DEF IsBehind
  <2>1. Add(p, n) \in Vector /\ \A k \in 1..3 : Add(p, n)[k] = p[k] + n[k]
    BY <1>4, AddAt
  <2>2. Add(p, n) = q
    BY <1>4, <2>1, VectorsEqual
  <2>3. Drawn(blocks, f) /\ Drawn(blocks, g)
    BY BoundaryDrawn
  <2>4. is_air_at(blocks, q) /\ ~blocks[Slot(q)]
    BY <1>3, <2>2, <2>3, Zenon DEF Drawn
  <2> QED BY <1>4, <2>4, Zenon DEF is_air_at
<1>6. SameMiddle(p, n, q, m)
  BY <1>3, Zenon DEF SameMiddle
<1>7. SameCoordinates(p, q) /\ SameCoordinates(n, m)
  BY <1>4, <1>5, <1>6, MiddleOfFace, Zenon
<1>8. p = q /\ n = m
  BY <1>4, <1>7, VectorsEqual DEF SameCoordinates
<1> QED BY <1>1, <1>2, <1>8

LEMMA TrianglesApart ==
    ASSUME NEW blocks, NEW f \in Boundary(blocks), NEW g \in Boundary(blocks)
    PROVE  /\ FirstTriangle(f) = FirstTriangle(g) => f = g
           /\ SecondTriangle(f) = SecondTriangle(g) => f = g
           /\ FirstTriangle(f) # SecondTriangle(g)
<1>1. f \in Cells \X Range(Faces) /\ g \in Cells \X Range(Faces)
  BY BoundaryDrawn
<1>2. ASSUME Vertex(f, 2) = Vertex(g, 2), Vertex(f, 4) = Vertex(g, 4) PROVE f = g
  <2>1. \A k \in 1..3 : 2 * (2 * f[1][k] + f[2][k]) = 2 * (2 * g[1][k] + g[2][k])
    BY <1>1, <1>2, Diagonal, Zenon
  <2>2. \A k \in 1..3 : f[1][k] \in Int /\ f[2][k] \in Int /\ g[1][k] \in Int /\ g[2][k] \in Int
    BY <1>1, CellVector, FaceVector DEF Vector
  <2>3. ASSUME NEW k \in 1..3 PROVE 2 * f[1][k] + f[2][k] = 2 * g[1][k] + g[2][k]
    <3>1. PICK a \in Int, b \in Int, c \in Int, e \in Int :
              a = f[1][k] /\ b = f[2][k] /\ c = g[1][k] /\ e = g[2][k]
      BY <2>2
    <3>2. 2 * (2 * a + b) = 2 * (2 * c + e)
      BY <2>1, <3>1
    <3>3. 2 * a + b = 2 * c + e
      BY <3>2
    <3> QED BY <3>1, <3>3
  <2> QED BY <2>3, FaceOfMiddle, Zenon
<1>3. ~(Vertex(f, 1) = Vertex(g, 2) /\ Vertex(f, 2) = Vertex(g, 3))
  <2>1. PICK s \in Int :
              /\ Vertex(f, 1)[1] + Vertex(f, 1)[2] + Vertex(f, 1)[3] = s
              /\ Vertex(f, 2)[1] + Vertex(f, 2)[2] + Vertex(f, 2)[3] = s - 2
    BY <1>1, VertexSum, Zenon
  <2>2. PICK r \in Int :
              /\ Vertex(g, 2)[1] + Vertex(g, 2)[2] + Vertex(g, 2)[3] = r - 2
              /\ Vertex(g, 3)[1] + Vertex(g, 3)[2] + Vertex(g, 3)[3] = r
    BY <1>1, VertexSum, Zenon
  <2> SUFFICES ASSUME Vertex(f, 1) = Vertex(g, 2), Vertex(f, 2) = Vertex(g, 3) PROVE FALSE
    OBVIOUS
  <2>3. s = r - 2 /\ s - 2 = r
    BY <2>1, <2>2, Zenon
  <2> QED BY <2>3
<1>4. \A a, b, c, x, y, z : <<a, b, c>> = <<x, y, z>> => a = x /\ b = y /\ c = z
  OBVIOUS
<1> QED BY <1>2, <1>3, <1>4, Zenon DEF FirstTriangle, SecondTriangle

-----------------------------------------------------------------------------
(* BlockFaces has every face of every block once.                          *)

LEMMA SlotAt ==
    ASSUME NEW x \in Side, NEW y \in Side, NEW z \in Side
    PROVE  LET m == Slot(<<x, y, z>>)
           IN  /\ m \in 0 .. Size * Size * Size - 1
               /\ (m \div Size) % Size = x /\ m % Size = y /\ m \div (Size * Size) = z
<1> DEFINE q == Size * z + x
           m == Size * q + y
<1>1. Size \in Nat \ {0} /\ x \in 0 .. Size - 1 /\ y \in 0 .. Size - 1 /\ z \in 0 .. Size - 1
  BY ChunkMeshAssumption DEF Side
<1>2. q \in Nat /\ q \div Size = z /\ q % Size = x
  <2>1. z \in Nat
    BY <1>1
  <2>2. Size * z \in Nat
    BY <1>1, <2>1
  <2>3. q \div Size = z /\ q % Size = x
    BY <1>1, <2>1, DivModUnique, Zenon
  <2>4. q \in Nat
    BY <1>1, <2>2
  <2> QED BY <2>3, <2>4
<1>3. Size * q \in Nat
  <2> HIDE DEF q
  <2> QED BY <1>1, <1>2
<1>4. m \in Nat /\ m \div Size = q /\ m % Size = y
  <2> HIDE DEF q
  <2>1. m \div Size = q /\ m % Size = y
    BY <1>1, <1>2, DivModUnique, Zenon
  <2>2. m \in Nat
    BY <1>1, <1>3
  <2> QED BY <2>1, <2>2
<1>5. m \div (Size * Size) = z
  <2> HIDE DEF m, q
  <2>1. m \div (Size * Size) = (m \div Size) \div Size
    BY <1>1, <1>4, DivProduct, Zenon
  <2>2. (m \div Size) \div Size = q \div Size
    BY <1>4, Zenon
  <2> QED BY <1>2, <2>1, <2>2, Zenon
<1>6. m <= Size * Size * Size - 1
  <2>1. Size * z <= Size * Size - Size
    BY <1>1
  <2>2. Size * z \in Nat /\ Size * Size \in Nat
    BY <1>1
  <2>3. q <= Size * Size - 1
    BY <1>1, <2>1, <2>2
  <2> HIDE DEF q
  <2>4. Size * q <= Size * (Size * Size) - Size
    <3>1. PICK a \in Nat : a = Size * Size
      BY <1>1
    <3>2. q <= a - 1
      BY <2>3, <3>1
    <3>3. Size * q <= Size * a - Size
      BY <1>1, <1>2, <3>1, <3>2
    <3> QED BY <3>1, <3>3
  <2>5. Size * (Size * Size) \in Nat /\ Size * (Size * Size) = Size * Size * Size
    BY <1>1
  <2> QED BY <1>1, <1>3, <2>4, <2>5
<1>7. Slot(<<x, y, z>>) = m
  <2>1. Size * q = Size * (Size * z) + Size * x
    BY <1>1
  <2>2. Size * (Size * z) = z * Size * Size /\ Size * x = x * Size
    BY <1>1
  <2>3. Slot(<<x, y, z>>) = z * Size * Size + x * Size + y
    BY DEF Slot
  <2> QED BY <2>1, <2>2, <2>3
<1>8. m \in 0 .. Size * Size * Size - 1
  <2>1. Size * Size * Size \in Nat
    BY <1>1
  <2> HIDE DEF m
  <2> QED BY <1>4, <1>6, <2>1
<1> HIDE DEF m
<1> QED BY <1>2, <1>4, <1>5, <1>7, <1>8

LEMMA PositionAt ==
    LET total == Size * Size * Size
    IN  /\ total \in Nat \ {0} /\ Len(Positions) = total
        /\ \A m \in 0 .. total - 1 : Positions[m + 1] \in Cells /\ Slot(Positions[m + 1]) = m
        /\ \A p \in Cells : Slot(p) \in 0 .. total - 1 /\ Positions[Slot(p) + 1] = p
<1> DEFINE total == Size * Size * Size
           at(m) == << (m \div Size) % Size, m % Size, m \div (Size * Size) >>
<1>1. Size \in Nat \ {0} /\ Size * Size \in Nat \ {0}
  BY ChunkMeshAssumption
<1>2. total \in Nat \ {0} /\ total = Size * (Size * Size)
  BY <1>1
<1> HIDE DEF total
<1>3. Positions = [n \in 1..total |-> at(n - 1)]
  BY Zenon DEF Positions, total
<1>4. \A m \in 0 .. total - 1 : m + 1 \in 1..total /\ (m + 1) - 1 = m
  BY <1>2
<1>5. \A m \in 0 .. total - 1 : Positions[m + 1] = at(m)
  <2> HIDE DEF at
  <2> QED BY <1>3, <1>4
<1>6. Len(Positions) = total
  <2> HIDE DEF at
  <2>0. total \in Nat
    BY <1>2
  <2>1. DOMAIN Positions = 1..total /\ Positions = [n \in 1..total |-> Positions[n]]
    BY <1>3
  <2>2. Positions \in Seq({Positions[n] : n \in 1..total})
    BY <2>0, <2>1
  <2> QED BY <2>0, <2>1, <2>2, LenProperties
<1>7. ASSUME NEW m \in 0 .. total - 1 PROVE at(m) \in Cells /\ Slot(at(m)) = m
  <2>0. m \in Nat
    BY <1>2
  <2>1. PICK q \in Nat, y \in 0 .. Size - 1 : q = m \div Size /\ y = m % Size /\ m = Size * q + y
    <3>1. m \div Size \in Nat /\ m % Size \in 0 .. Size - 1 /\ m = Size * (m \div Size) + (m % Size)
      BY <1>1, <2>0, DivMod, Zenon
    <3> QED BY <3>1, Zenon
  <2>2. PICK z \in Nat, x \in 0 .. Size - 1 : z = q \div Size /\ x = q % Size /\ q = Size * z + x
    <3>1. q \div Size \in Nat /\ q % Size \in 0 .. Size - 1 /\ q = Size * (q \div Size) + (q % Size)
      BY <1>1, DivMod, Zenon
    <3> QED BY <3>1, Zenon
  <2>3. m \div (Size * Size) = z
    <3>1. m \div (Size * Size) = (m \div Size) \div Size
      BY <1>1, <2>0, DivProduct, Zenon
    <3> QED BY <2>1, <2>2, <3>1, Zenon
  <2>4. z <= Size - 1
    <3> SUFFICES ASSUME z >= Size PROVE FALSE
      BY <1>1
    <3>1. Size * z >= Size * Size /\ Size * z \in Nat
      BY <1>1
    <3>2. q >= Size * Size
      BY <1>1, <2>2, <3>1
    <3>3. Size * q >= Size * (Size * Size) /\ Size * q \in Nat
      <4>1. PICK a \in Nat : a = Size * Size
        BY <1>1
      <4>2. Size * q >= Size * a /\ Size * q \in Nat
        BY <1>1, <3>2, <4>1
      <4> QED BY <4>1, <4>2
    <3> QED BY <1>1, <1>2, <2>1, <3>3
  <2>5. at(m) = <<x, y, z>>
    BY <2>1, <2>2, <2>3, Zenon
  <2>6. x \in Side /\ y \in Side /\ z \in Side
    BY <1>1, <2>4 DEF Side
  <2>7. Slot(<<x, y, z>>) = m
    <3>1. Slot(<<x, y, z>>) = z * Size * Size + x * Size + y
      BY DEF Slot
    <3>2. Size * q = Size * (Size * z) + Size * x
      BY <1>1, <2>2
    <3>3. Size * (Size * z) = z * Size * Size /\ Size * x = x * Size
      BY <1>1
    <3> QED BY <2>1, <3>1, <3>2, <3>3
  <2> HIDE DEF at
  <2>8. <<x, y, z>> \in Cells
    BY <2>6, Zenon DEF Cells
  <2> QED BY <2>5, <2>7, <2>8
<1>8. ASSUME NEW p \in Cells PROVE Slot(p) \in 0 .. total - 1 /\ at(Slot(p)) = p
  <2>1. PICK x \in Side, y \in Side, z \in Side : p = <<x, y, z>>
    BY DEF Cells
  <2>2. /\ Slot(p) \in 0 .. total - 1
        /\ (Slot(p) \div Size) % Size = x /\ Slot(p) % Size = y /\ Slot(p) \div (Size * Size) = z
    <3>1. PICK m : m = Slot(<<x, y, z>>)
      OBVIOUS
    <3>2. m \in 0 .. total - 1 /\ (m \div Size) % Size = x /\ m % Size = y /\ m \div (Size * Size) = z
      BY <3>1, SlotAt DEF total
    <3> QED BY <2>1, <3>1, <3>2, Zenon
  <2> QED BY <2>1, <2>2, Zenon
<1> HIDE DEF at
<1> QED BY <1>2, <1>5, <1>6, <1>7, <1>8, Zenon DEF total

\* The six normals, each at a place of its own.
LEMMA FacesDiffer ==
    /\ \A i \in 1..6 : Faces[i] \in Range(Faces)
    /\ \A n \in Range(Faces) : \E i \in 1..6 : n = Faces[i]
    /\ \A i, j \in 1..6 : Faces[i] = Faces[j] => i = j
<1>1. /\ Faces[1] = <<1, 0, 0>> /\ Faces[2] = <<-1, 0, 0>> /\ Faces[3] = <<0, 1, 0>>
      /\ Faces[4] = <<0, -1, 0>> /\ Faces[5] = <<0, 0, 1>> /\ Faces[6] = <<0, 0, -1>>
  BY DEF Faces
<1>2. DOMAIN Faces = 1..6
  BY DEF Faces
<1>3. Range(Faces) = {Faces[i] : i \in 1..6}
  BY <1>2 DEF Range
<1>4. \A i, j \in 1..6 : Faces[i] = Faces[j] => i = j
  BY <1>1
<1> QED BY <1>3, <1>4

\* What makes BlockFaces the list of all faces of all blocks.
AllFaces ==
    /\ \A n \in 1..Len(BlockFaces) : BlockFaces[n] \in Cells \X Range(Faces)
    /\ \A f \in Cells \X Range(Faces) : \E n \in 1..Len(BlockFaces) : BlockFaces[n] = f
    /\ \A n, m \in 1..Len(BlockFaces) : BlockFaces[n] = BlockFaces[m] => n = m

LEMMA BlockFacesAll == Len(BlockFaces) \in Nat /\ AllFaces
<1>1. PICK total \in Nat \ {0} :
        /\ Len(Positions) = total
        /\ \A m \in 0 .. total - 1 : Positions[m + 1] \in Cells /\ Slot(Positions[m + 1]) = m
        /\ \A p \in Cells : Slot(p) \in 0 .. total - 1 /\ Positions[Slot(p) + 1] = p
  BY PositionAt, Zenon
<1> DEFINE last == 6 * total
           at(n) == << Positions[(n - 1) \div 6 + 1], Faces[((n - 1) % 6) + 1] >>
<1>2. BlockFaces = [n \in 1..last |-> at(n)]
  BY <1>1, Zenon DEF BlockFaces
<1>3. Len(BlockFaces) = last
  <2> HIDE DEF at
  <2>1. BlockFaces \in Seq({at(n) : n \in 1..last}) /\ DOMAIN BlockFaces = 1..last
    BY <1>2
  <2> QED BY <2>1, LenProperties
<1>4. ASSUME NEW n \in 1..last
      PROVE  \E m \in 0 .. total - 1, i \in 1..6 :
                n = 6 * m + i /\ BlockFaces[n] = <<Positions[m + 1], Faces[i]>>
  <2>1. (n - 1) \div 6 \in 0 .. total - 1 /\ ((n - 1) % 6) + 1 \in 1..6
        /\ n = 6 * ((n - 1) \div 6) + (((n - 1) % 6) + 1)
    OBVIOUS
  <2>2. BlockFaces[n] = at(n)
    BY <1>2
  <2> QED BY <2>1, <2>2
<1>5. ASSUME NEW m \in 0 .. total - 1, NEW i \in 1..6
      PROVE  6 * m + i \in 1..last /\ BlockFaces[6 * m + i] = <<Positions[m + 1], Faces[i]>>
  <2>1. 6 * m + i \in 1..last
    OBVIOUS
  <2>2. ((6 * m + i) - 1) \div 6 = m /\ (((6 * m + i) - 1) % 6) + 1 = i
    OBVIOUS
  <2>3. BlockFaces[6 * m + i] = at(6 * m + i)
    <3> HIDE DEF at
    <3> QED BY <1>2, <2>1
  <2> QED BY <2>1, <2>2, <2>3
<1> HIDE DEF at, last
<1>6. ASSUME NEW n \in 1..last PROVE BlockFaces[n] \in Cells \X Range(Faces)
  <2>1. PICK m \in 0 .. total - 1, i \in 1..6 : BlockFaces[n] = <<Positions[m + 1], Faces[i]>>
    BY <1>4, Zenon
  <2>2. Positions[m + 1] \in Cells /\ Faces[i] \in Range(Faces)
    BY <1>1, FacesDiffer, Zenon
  <2> QED BY <2>1, <2>2
<1>7. ASSUME NEW f \in Cells \X Range(Faces) PROVE \E n \in 1..last : BlockFaces[n] = f
  <2>1. PICK p \in Cells, d \in Range(Faces) : f = <<p, d>>
    OBVIOUS
  <2>2. PICK i \in 1..6 : d = Faces[i]
    BY FacesDiffer
  <2>3. Slot(p) \in 0 .. total - 1 /\ Positions[Slot(p) + 1] = p
    BY <1>1
  <2> QED BY <1>5, <2>1, <2>2, <2>3, Zenon
<1>8. ASSUME NEW n \in 1..last, NEW m \in 1..last, BlockFaces[n] = BlockFaces[m] PROVE n = m
  <2>1. PICK a \in 0 .. total - 1, i \in 1..6 :
            n = 6 * a + i /\ BlockFaces[n] = <<Positions[a + 1], Faces[i]>>
    BY <1>4, Zenon
  <2>2. PICK b \in 0 .. total - 1, j \in 1..6 :
            m = 6 * b + j /\ BlockFaces[m] = <<Positions[b + 1], Faces[j]>>
    BY <1>4, Zenon
  <2>3. Positions[a + 1] = Positions[b + 1] /\ Faces[i] = Faces[j]
    BY <1>8, <2>1, <2>2
  <2>4. i = j
    BY <2>3, FacesDiffer, Zenon
  <2>5. a = b
    BY <1>1, <2>3, Zenon
  <2> QED BY <2>1, <2>2, <2>4, <2>5
<1>9. AllFaces
  BY <1>3, <1>6, <1>7, <1>8, Zenon DEF AllFaces
<1>10. last \in Nat
  BY <1>1 DEF last
<1> QED BY <1>3, <1>9, <1>10

-----------------------------------------------------------------------------
(* The mesh shows the faces drawn, one after the other.                    *)

AnyFace == Cells \X Range(Faces)
Meshes == [vertices : Seq(Vector), indices : Seq(Int)]

\* Where the triangles of a quad begin among its corners, as generate_face has them.
Order == <<0, 1, 3, 1, 2, 3>>

\* q is the faces drawn of the first n.
Lists(q, blocks, n) ==
    /\ q \in Seq(AnyFace)
    /\ \A i \in 1..Len(q) : \E k \in 1..n : q[i] = BlockFaces[k] /\ Drawn(blocks, BlockFaces[k])
    /\ \A k \in 1..n : Drawn(blocks, BlockFaces[k]) => \E i \in 1..Len(q) : q[i] = BlockFaces[k]
    /\ \A i, j \in 1..Len(q) : q[i] = q[j] => i = j

\* mesh is the mesh of the faces q.
Shows(mesh, q) ==
    /\ mesh \in Meshes
    /\ Len(mesh.vertices) = 4 * Len(q) /\ Len(mesh.indices) = 6 * Len(q)
    /\ \A j \in 1..Len(q), c \in 1..4 : mesh.vertices[4 * (j - 1) + c] = Vertex(q[j], c)
    /\ \A j \in 1..Len(q), i \in 1..6 : mesh.indices[6 * (j - 1) + i] = 4 * (j - 1) + Order[i]

LEMMA ListsNone == \A blocks : Lists(<<>>, blocks, 0) /\ Shows(EmptyMesh, <<>>)
<1>1. \A blocks : Lists(<<>>, blocks, 0)
  BY DEF Lists
<1>2. <<>> \in Seq(Vector) /\ <<>> \in Seq(Int) /\ Len(<<>>) = 0
  OBVIOUS
<1>3. EmptyMesh \in Meshes /\ EmptyMesh.vertices = <<>> /\ EmptyMesh.indices = <<>>
  BY <1>2 DEF Meshes, EmptyMesh
<1>4. \A j : j \notin 1..0
  OBVIOUS
<1>5. 0 = 4 * 0 /\ 0 = 6 * 0
  OBVIOUS
<1>6. Shows(EmptyMesh, <<>>)
  BY <1>2, <1>3, <1>4, <1>5, Zenon DEF Shows
<1> QED BY <1>1, <1>6

LEMMA ListsOneMore ==
    ASSUME NEW q, NEW blocks, NEW n \in Nat, n + 1 \in 1..Len(BlockFaces), Lists(q, blocks, n)
    PROVE  IF Drawn(blocks, BlockFaces[n + 1])
           THEN Lists(Append(q, BlockFaces[n + 1]), blocks, n + 1)
           ELSE Lists(q, blocks, n + 1)
<1> DEFINE f == BlockFaces[n + 1]
           r == Append(q, f)
<1>1. PICK l \in Nat : l = Len(q)
  BY DEF Lists
<1>2. f \in AnyFace /\ \A k \in 1..n : BlockFaces[k] # f
  <2>1. \A k \in 1..n : k \in 1..Len(BlockFaces) /\ k # n + 1
    BY BlockFacesAll
  <2> QED BY <2>1, BlockFacesAll, Zenon DEF AllFaces, AnyFace
<1>3. \A k : k \in 1 .. n + 1 <=> k \in 1..n \/ k = n + 1
  OBVIOUS
<1>4. q \in Seq(AnyFace)
  BY DEF Lists
<1>5. r \in Seq(AnyFace) /\ Len(r) = l + 1 /\ r[l + 1] = f /\ \A i \in 1..l : r[i] = q[i]
  BY <1>1, <1>2, <1>4, AppendProperties
<1>6. \A i : i \in 1 .. l + 1 <=> i \in 1..l \/ i = l + 1
  OBVIOUS
<1>7. /\ \A i \in 1..l : \E k \in 1..n : q[i] = BlockFaces[k] /\ Drawn(blocks, BlockFaces[k])
      /\ \A k \in 1..n : Drawn(blocks, BlockFaces[k]) => \E i \in 1..l : q[i] = BlockFaces[k]
      /\ \A i, j \in 1..l : q[i] = q[j] => i = j
  BY <1>1, Zenon DEF Lists
<1>8. CASE ~Drawn(blocks, f)
  <2>1. Lists(q, blocks, n + 1)
    BY <1>1, <1>3, <1>4, <1>7, <1>8, Zenon DEF Lists
  <2> QED BY <1>8, <2>1
<1>9. CASE Drawn(blocks, f)
  <2> HIDE DEF r
  <2>1. \A i \in 1 .. l + 1 : \E k \in 1 .. n + 1 : r[i] = BlockFaces[k] /\ Drawn(blocks, BlockFaces[k])
    <3>1. \A i \in 1..l : \E k \in 1 .. n + 1 : r[i] = BlockFaces[k] /\ Drawn(blocks, BlockFaces[k])
      BY <1>3, <1>5, <1>7, Zenon
    <3>2. n + 1 \in 1 .. n + 1
      OBVIOUS
    <3> QED BY <1>5, <1>6, <1>9, <3>1, <3>2, Zenon
  <2>2. \A k \in 1 .. n + 1 : Drawn(blocks, BlockFaces[k]) => \E i \in 1 .. l + 1 : r[i] = BlockFaces[k]
    <3>1. \A k \in 1..n : Drawn(blocks, BlockFaces[k]) => \E i \in 1 .. l + 1 : r[i] = BlockFaces[k]
      BY <1>5, <1>6, <1>7, Zenon
    <3>2. l + 1 \in 1 .. l + 1
      OBVIOUS
    <3> QED BY <1>3, <1>5, <3>1, <3>2, Zenon
  <2>3. \A i, j \in 1 .. l + 1 : r[i] = r[j] => i = j
    <3>1. ASSUME NEW i \in 1..l PROVE r[i] # f
      <4>1. PICK k \in 1..n : q[i] = BlockFaces[k]
        BY <1>7, Zenon
      <4>2. BlockFaces[k] # f
        BY <1>2, Zenon
      <4>3. r[i] = q[i]
        BY <1>5, Zenon
      <4> QED BY <4>1, <4>2, <4>3, Zenon
    <3>2. \A i, j \in 1..l : r[i] = r[j] => i = j
      BY <1>5, <1>7, Zenon
    <3> QED BY <1>5, <1>6, <3>1, <3>2, Zenon
  <2>4. Lists(r, blocks, n + 1)
    BY <1>5, <2>1, <2>2, <2>3, Zenon DEF Lists
  <2> QED BY <1>9, <2>4 DEF r
<1> QED BY <1>8, <1>9

LEMMA OrderOfSix == Order \in Seq(0..3) /\ Len(Order) = 6 /\ \A i \in 1..6 : Order[i] \in 0..3
  BY DEF Order

\* What Extend appends: four corners, and six indices of them.
Appended(mesh, corners, order, next) ==
    LET v == Len(mesh.vertices)
        w == Len(mesh.indices)
    IN  /\ next \in Meshes
        /\ Len(next.vertices) = v + 4 /\ Len(next.indices) = w + 6
        /\ \A i \in 1..v : next.vertices[i] = mesh.vertices[i]
        /\ \A c \in 1..4 : next.vertices[v + c] = corners[c]
        /\ \A i \in 1..w : next.indices[i] = mesh.indices[i]
        /\ \A i \in 1..6 : next.indices[w + i] = v + order[i]

LEMMA ExtendAppends ==
    ASSUME NEW mesh \in Meshes, NEW corners \in Seq(Vector), Len(corners) = 4,
           NEW order \in Seq(0..3), Len(order) = 6
    PROVE  Appended(mesh, corners, order, Extend(mesh, corners, order))
<1>1. PICK s \in Seq(Vector), t \in Seq(Int) : s = mesh.vertices /\ t = mesh.indices
  BY DEF Meshes
<1>2. PICK v \in Nat, w \in Nat : v = Len(s) /\ w = Len(t)
  OBVIOUS
<1> DEFINE places == [i \in 1..6 |-> v + order[i]]
           next == Extend(mesh, corners, order)
<1>3. \A i \in 1..6 : order[i] \in 0..3
  BY ElementOfSeq
<1>4. places \in Seq(Int) /\ Len(places) = 6 /\ \A i \in 1..6 : places[i] = v + order[i]
  <2>1. \A i \in 1..6 : v + order[i] \in Int
    BY <1>3
  <2>2. places \in [1..6 -> Int]
    BY <2>1
  <2> QED BY <2>2
<1>5. DOMAIN order = 1..6
  OBVIOUS
<1>6. next = [vertices |-> s \o corners, indices |-> t \o places]
  BY <1>1, <1>2, <1>5, Zenon DEF Extend
<1> HIDE DEF places, next
<1>7. /\ s \o corners \in Seq(Vector) /\ Len(s \o corners) = v + 4
      /\ \A i \in 1 .. v + 4 : (s \o corners)[i] = IF i <= v THEN s[i] ELSE corners[i - v]
  <2>1. /\ s \o corners \in Seq(Vector) /\ Len(s \o corners) = Len(s) + Len(corners)
        /\ \A i \in 1 .. Len(s) + Len(corners) :
              (s \o corners)[i] = IF i <= Len(s) THEN s[i] ELSE corners[i - Len(s)]
    BY ConcatProperties
  <2> QED BY <1>2, <2>1
<1>8. /\ t \o places \in Seq(Int) /\ Len(t \o places) = w + 6
      /\ \A i \in 1 .. w + 6 : (t \o places)[i] = IF i <= w THEN t[i] ELSE places[i - w]
  <2>1. /\ t \o places \in Seq(Int) /\ Len(t \o places) = Len(t) + Len(places)
        /\ \A i \in 1 .. Len(t) + Len(places) :
              (t \o places)[i] = IF i <= Len(t) THEN t[i] ELSE places[i - Len(t)]
    BY <1>4, ConcatProperties
  <2> QED BY <1>2, <1>4, <2>1
<1>9. next \in Meshes /\ next.vertices = s \o corners /\ next.indices = t \o places
  BY <1>6, <1>7, <1>8 DEF Meshes
<1>10. PICK x, y : x = s \o corners /\ y = t \o places
  OBVIOUS
<1>11. (\A i \in 1..v : x[i] = s[i]) /\ \A c \in 1..4 : x[v + c] = corners[c]
  <2>1. \A i \in 1..v : i \in 1 .. v + 4 /\ i <= v
    OBVIOUS
  <2>2. \A c \in 1..4 : v + c \in 1 .. v + 4 /\ ~(v + c <= v) /\ (v + c) - v = c
    OBVIOUS
  <2> QED BY <1>7, <1>10, <2>1, <2>2, Zenon
<1>12. (\A i \in 1..w : y[i] = t[i]) /\ \A i \in 1..6 : y[w + i] = v + order[i]
  <2>1. \A i \in 1..w : i \in 1 .. w + 6 /\ i <= w
    OBVIOUS
  <2>2. \A i \in 1..6 : w + i \in 1 .. w + 6 /\ ~(w + i <= w) /\ (w + i) - w = i
    OBVIOUS
  <2>3. \A i \in 1..6 : y[w + i] = places[i]
    BY <1>8, <1>10, <2>2, Zenon
  <2>4. \A i \in 1..w : y[i] = t[i]
    BY <1>8, <1>10, <2>1, Zenon
  <2> QED BY <1>4, <2>3, <2>4, Zenon
<1>13. Len(next.vertices) = v + 4 /\ Len(next.indices) = w + 6
  BY <1>7, <1>8, <1>9, Zenon
<1>14. next.vertices = x /\ next.indices = y
  BY <1>9, <1>10, Zenon
<1>15. Len(mesh.vertices) = v /\ Len(mesh.indices) = w
  BY <1>1, <1>2, Zenon
<1>16. next \in Meshes
  BY <1>9
<1>17. Appended(mesh, corners, order, next)
  BY <1>1, <1>11, <1>12, <1>13, <1>14, <1>15, <1>16, Zenon DEF Appended
<1> QED BY <1>17 DEF next

LEMMA FaceAppended ==
    ASSUME NEW mesh \in Meshes, NEW f \in AnyFace
    PROVE  \E corners : /\ \A c \in 1..4 : corners[c] = Vertex(f, c)
                        /\ Appended(mesh, corners, Order, generate_face(mesh, f[1], f[2]))
<1> DEFINE corners == [i \in 1..4 |-> Vertex(f, i)]
<1>1. corners \in Seq(Vector) /\ Len(corners) = 4 /\ \A c \in 1..4 : corners[c] = Vertex(f, c)
  <2>1. \A c \in 1..4 : Vertex(f, c) \in Vector
    BY VertexAt, Zenon DEF VerticesAre, AnyFace
  <2>2. corners \in [1..4 -> Vector]
    BY <2>1
  <2> QED BY <2>2
<1>2. generate_face(mesh, f[1], f[2]) = Extend(mesh, corners, Order)
  BY Zenon DEF generate_face, Vertex, Order
<1> HIDE DEF corners
<1>3. Appended(mesh, corners, Order, Extend(mesh, corners, Order))
  BY <1>1, ExtendAppends, OrderOfSix, Zenon
<1> QED BY <1>1, <1>2, <1>3, Zenon

LEMMA ShowsOneMore ==
    ASSUME NEW mesh, NEW q \in Seq(AnyFace), Shows(mesh, q), NEW f \in AnyFace
    PROVE  Shows(generate_face(mesh, f[1], f[2]), Append(q, f))
<1>1. PICK l \in Nat : l = Len(q)
  OBVIOUS
<1>2. PICK r : r = Append(q, f)
  OBVIOUS
<1>3. Len(r) = l + 1 /\ r[l + 1] = f /\ \A j \in 1..l : r[j] = q[j]
  BY <1>1, <1>2, AppendProperties
<1>4. /\ mesh \in Meshes /\ Len(mesh.vertices) = 4 * l /\ Len(mesh.indices) = 6 * l
      /\ \A j \in 1..l, c \in 1..4 : mesh.vertices[4 * (j - 1) + c] = Vertex(q[j], c)
      /\ \A j \in 1..l, i \in 1..6 : mesh.indices[6 * (j - 1) + i] = 4 * (j - 1) + Order[i]
  BY <1>1, Zenon DEF Shows
<1>5. PICK next : next = generate_face(mesh, f[1], f[2])
  OBVIOUS
<1>6. /\ next \in Meshes
      /\ Len(next.vertices) = 4 * l + 4 /\ Len(next.indices) = 6 * l + 6
      /\ \A i \in 1 .. 4 * l : next.vertices[i] = mesh.vertices[i]
      /\ \A c \in 1..4 : next.vertices[4 * l + c] = Vertex(f, c)
      /\ \A i \in 1 .. 6 * l : next.indices[i] = mesh.indices[i]
      /\ \A i \in 1..6 : next.indices[6 * l + i] = 4 * l + Order[i]
  <2>1. PICK corners : (\A c \in 1..4 : corners[c] = Vertex(f, c)) /\ Appended(mesh, corners, Order, next)
    BY <1>4, <1>5, FaceAppended, Zenon
  <2> QED BY <1>4, <2>1, Zenon DEF Appended
<1>7. Len(next.vertices) = 4 * (l + 1) /\ Len(next.indices) = 6 * (l + 1)
  BY <1>6
<1>8. ASSUME NEW j \in 1 .. l + 1, NEW c \in 1..4 PROVE next.vertices[4 * (j - 1) + c] = Vertex(r[j], c)
  <2>1. CASE j = l + 1
    <3>1. 4 * (j - 1) + c = 4 * l + c
      BY <2>1
    <3> QED BY <1>3, <1>6, <2>1, <3>1, Zenon
  <2>2. CASE j # l + 1
    <3>1. j \in 1..l /\ 4 * (j - 1) + c \in 1 .. 4 * l
      BY <2>2
    <3>2. next.vertices[4 * (j - 1) + c] = mesh.vertices[4 * (j - 1) + c]
      BY <1>6, <3>1, Zenon
    <3>3. mesh.vertices[4 * (j - 1) + c] = Vertex(q[j], c)
      BY <1>4, <3>1, Zenon
    <3>4. r[j] = q[j]
      BY <1>3, <3>1, Zenon
    <3> QED BY <3>2, <3>3, <3>4, Zenon
  <2> QED BY <2>1, <2>2
<1>9. ASSUME NEW j \in 1 .. l + 1, NEW i \in 1..6 PROVE next.indices[6 * (j - 1) + i] = 4 * (j - 1) + Order[i]
  <2>1. CASE j = l + 1
    <3>1. 6 * (j - 1) + i = 6 * l + i /\ j - 1 = l
      BY <2>1
    <3> QED BY <1>6, <3>1, Zenon
  <2>2. CASE j # l + 1
    <3>1. j \in 1..l /\ 6 * (j - 1) + i \in 1 .. 6 * l
      BY <2>2
    <3>2. next.indices[6 * (j - 1) + i] = mesh.indices[6 * (j - 1) + i]
      BY <1>6, <3>1, Zenon
    <3>3. mesh.indices[6 * (j - 1) + i] = 4 * (j - 1) + Order[i]
      BY <1>4, <3>1, Zenon
    <3> QED BY <3>2, <3>3, Zenon
  <2> QED BY <2>1, <2>2
<1>10. Shows(next, r)
  BY <1>3, <1>6, <1>7, <1>8, <1>9, Zenon DEF Shows
<1> QED BY <1>2, <1>5, <1>10

\* generate_vertices as a fold over the faces.
NextMesh(blocks, mesh, f) == IF Drawn(blocks, f) THEN generate_face(mesh, f[1], f[2]) ELSE mesh

MeshFold(blocks, g) ==
    /\ g[0] = EmptyMesh
    /\ \A n \in 1..Len(BlockFaces) : g[n] = NextMesh(blocks, g[n - 1], BlockFaces[n])

LEMMA MeshFolds ==
    ASSUME NEW blocks
    PROVE  \E g : MeshFold(blocks, g) /\ generate_vertices(blocks) = g[Len(BlockFaces)]
<1>1. PICK last \in Nat : last = Len(BlockFaces)
  BY BlockFacesAll
<1> DEFINE step == [x \in (1..last) \X Meshes |-> NextMesh(blocks, x[2], BlockFaces[x[1]])]
           body(g) == [n \in 0..last |-> IF n = 0 THEN EmptyMesh
                                         ELSE NextMesh(blocks, g[n - 1], BlockFaces[n])]
           fold == CHOOSE g : g = body(g)
<1>2. generate_vertices(blocks) = fold[last]
  BY <1>1, Zenon DEF generate_vertices, NextMesh
<1>3. ASSUME NEW n \in 1..last, NEW mesh \in Meshes PROVE NextMesh(blocks, mesh, BlockFaces[n]) \in Meshes
  <2>1. BlockFaces[n] \in AnyFace
    BY <1>1, BlockFacesAll, Zenon DEF AllFaces, AnyFace
  <2>2. generate_face(mesh, BlockFaces[n][1], BlockFaces[n][2]) \in Meshes
    BY <2>1, FaceAppended, Zenon DEF Appended
  <2> QED BY <2>2, Zenon DEF NextMesh
<1>4. /\ step \in [(1..last) \X Meshes -> Meshes]
      /\ \A n \in 1..last, mesh \in Meshes : step[<<n, mesh>>] = NextMesh(blocks, mesh, BlockFaces[n])
  BY <1>3
<1> HIDE DEF step
<1>5. EmptyMesh \in Meshes
  BY ListsNone, Zenon DEF Shows
<1>6. PICK g : Folded(g, EmptyMesh, step, last, Meshes)
  BY <1>4, <1>5, FoldExists
<1>7. \A n \in 1..last : n - 1 \in 0..last /\ n \in 0..last /\ n # 0
  OBVIOUS
<1>8. g = body(g)
  <2>1. g \in [0..last -> Meshes] /\ g[0] = EmptyMesh /\ \A n \in 1..last : g[n] = step[<<n, g[n - 1]>>]
    BY <1>6 DEF Folded
  <2>2. \A n \in 1..last : g[n] = NextMesh(blocks, g[n - 1], BlockFaces[n])
    BY <1>4, <1>7, <2>1
  <2>3. \A n \in 0..last : n # 0 => n \in 1..last
    OBVIOUS
  <2> QED BY <2>1, <2>2, <2>3
<1>9. fold = body(fold)
  <2> HIDE DEF body
  <2> QED BY <1>8
<1> HIDE DEF fold
<1>10. fold[0] = EmptyMesh
  BY <1>9
<1>11. \A n \in 1..last : fold[n] = NextMesh(blocks, fold[n - 1], BlockFaces[n])
  BY <1>7, <1>9
<1>12. MeshFold(blocks, fold)
  BY <1>1, <1>10, <1>11, Zenon DEF MeshFold
<1> QED BY <1>1, <1>2, <1>12

\* The mesh of a section shows a list of the faces drawn.
ShowsDrawn(blocks, n, mesh) == \E q : Lists(q, blocks, n) /\ Shows(mesh, q)

LEMMA FoldShows ==
    ASSUME NEW blocks, NEW g, MeshFold(blocks, g)
    PROVE  ShowsDrawn(blocks, Len(BlockFaces), g[Len(BlockFaces)])
<1>1. PICK last \in Nat : last = Len(BlockFaces)
  BY BlockFacesAll
<1> DEFINE S == {n \in Nat : n <= last => ShowsDrawn(blocks, n, g[n])}
<1>2. 0 \in S
  <2>1. ShowsDrawn(blocks, 0, g[0])
    BY ListsNone, Zenon DEF ShowsDrawn, MeshFold
  <2> QED BY <2>1
<1>3. ASSUME NEW n \in Nat, n \in S PROVE n + 1 \in S
  <2> SUFFICES ASSUME n + 1 <= last PROVE ShowsDrawn(blocks, n + 1, g[n + 1])
    OBVIOUS
  <2>1. n + 1 \in 1..last /\ (n + 1) - 1 = n /\ n <= last
    OBVIOUS
  <2>2. PICK q : Lists(q, blocks, n) /\ Shows(g[n], q)
    BY <1>3, <2>1 DEF ShowsDrawn
  <2>3. PICK f : f = BlockFaces[n + 1]
    OBVIOUS
  <2>4. f \in AnyFace
    BY <1>1, <2>1, <2>3, BlockFacesAll, Zenon DEF AllFaces, AnyFace
  <2>5. g[n + 1] = NextMesh(blocks, g[n], f)
    BY <1>1, <2>1, <2>3 DEF MeshFold
  <2>6. IF Drawn(blocks, f) THEN Lists(Append(q, f), blocks, n + 1) ELSE Lists(q, blocks, n + 1)
    BY <1>1, <2>1, <2>2, <2>3, ListsOneMore
  <2>7. CASE Drawn(blocks, f)
    <3>1. q \in Seq(AnyFace)
      BY <2>2 DEF Lists
    <3>2. Shows(generate_face(g[n], f[1], f[2]), Append(q, f))
      BY <2>2, <2>4, <3>1, ShowsOneMore, Zenon
    <3>3. g[n + 1] = generate_face(g[n], f[1], f[2])
      BY <2>5, <2>7, Zenon DEF NextMesh
    <3>4. Lists(Append(q, f), blocks, n + 1)
      BY <2>6, <2>7
    <3> QED BY <3>2, <3>3, <3>4, Zenon DEF ShowsDrawn
  <2>8. CASE ~Drawn(blocks, f)
    <3>1. g[n + 1] = g[n]
      BY <2>5, <2>8, Zenon DEF NextMesh
    <3>2. Lists(q, blocks, n + 1)
      BY <2>6, <2>8
    <3> QED BY <2>2, <3>1, <3>2, Zenon DEF ShowsDrawn
  <2> QED BY <2>7, <2>8
<1>4. Nat \subseteq S
  <2> HIDE DEF S
  <2> QED BY <1>2, <1>3, NaturalInduction
<1> QED BY <1>1, <1>4

LEMMA SectionShows ==
    \A blocks : ShowsDrawn(blocks, Len(BlockFaces), generate_vertices(blocks))
<1> SUFFICES ASSUME NEW blocks PROVE ShowsDrawn(blocks, Len(BlockFaces), generate_vertices(blocks))
  OBVIOUS
<1>1. PICK g : MeshFold(blocks, g) /\ generate_vertices(blocks) = g[Len(BlockFaces)]
  BY MeshFolds
<1>2. ShowsDrawn(blocks, Len(BlockFaces), g[Len(BlockFaces)])
  BY <1>1, FoldShows
<1> QED BY <1>1, <1>2

-----------------------------------------------------------------------------
(* What is shown is the boundary.                                          *)

LEMMA SameSize ==
    ASSUME NEW S, IsFiniteSet(S), NEW T, NEW f \in [S -> T],
           \A x, y \in S : f[x] = f[y] => x = y, \A t \in T : \E s \in S : f[s] = t
    PROVE  IsFiniteSet(T) /\ Cardinality(T) = Cardinality(S)
<1>1. f \in Bijection(S, T)
  BY DEF Bijection, Injection, Surjection, IsInjective
<1>2. ExistsBijection(S, T)
  BY <1>1 DEF ExistsBijection
<1> QED BY <1>2, FS_Bijection

\* q is the boundary, each face once.
LEMMA ListsBoundary ==
    ASSUME NEW q, NEW blocks, Lists(q, blocks, Len(BlockFaces))
    PROVE  /\ \A i \in 1..Len(q) : q[i] \in Boundary(blocks)
           /\ \A f \in Boundary(blocks) : \E i \in 1..Len(q) : q[i] = f
           /\ IsFiniteSet(Boundary(blocks)) /\ Cardinality(Boundary(blocks)) = Len(q)
<1>1. PICK l \in Nat : l = Len(q)
  BY DEF Lists
<1>2. ASSUME NEW i \in 1..l PROVE q[i] \in Boundary(blocks)
  <2>1. PICK k \in 1..Len(BlockFaces) : q[i] = BlockFaces[k] /\ Drawn(blocks, BlockFaces[k])
    BY <1>1, Zenon DEF Lists
  <2>2. BlockFaces[k] \in Cells \X Range(Faces)
    BY BlockFacesAll, Zenon DEF AllFaces
  <2> QED BY <2>1, <2>2, BoundaryDrawn, Zenon
<1>3. ASSUME NEW f \in Boundary(blocks) PROVE \E i \in 1..l : q[i] = f
  <2>1. f \in Cells \X Range(Faces) /\ Drawn(blocks, f)
    BY BoundaryDrawn, Zenon
  <2>2. PICK k \in 1..Len(BlockFaces) : BlockFaces[k] = f
    BY <2>1, BlockFacesAll, Zenon DEF AllFaces
  <2> QED BY <1>1, <2>1, <2>2, Zenon DEF Lists
<1>4. q \in [1..l -> Boundary(blocks)]
  <2>1. q \in Seq(AnyFace)
    BY DEF Lists
  <2>2. q = [i \in 1..l |-> q[i]]
    BY <1>1, <2>1
  <2> QED BY <1>2, <2>2
<1>5. \A i, j \in 1..l : q[i] = q[j] => i = j
  BY <1>1, Zenon DEF Lists
<1>6. IsFiniteSet(1..l) /\ Cardinality(1..l) = l
  BY FS_Interval
<1>7. IsFiniteSet(Boundary(blocks)) /\ Cardinality(Boundary(blocks)) = Cardinality(1..l)
  BY <1>3, <1>4, <1>5, <1>6, SameSize, Zenon
<1> QED BY <1>1, <1>2, <1>3, <1>6, <1>7

\* The vertex the n-th index is of.
Corner(mesh, n) == mesh.vertices[mesh.indices[n] + 1]

LEMMA CornerShown ==
    ASSUME NEW mesh, NEW q, NEW l \in Nat, l = Len(q), Shows(mesh, q), NEW j \in 1..l, NEW i \in 1..6
    PROVE  Corner(mesh, 6 * (j - 1) + i) = Vertex(q[j], Order[i] + 1)
<1>1. Order[i] \in 0..3 /\ Order[i] + 1 \in 1..4
  BY OrderOfSix
<1>2. mesh.indices[6 * (j - 1) + i] = 4 * (j - 1) + Order[i]
  BY Zenon DEF Shows
<1>3. (4 * (j - 1) + Order[i]) + 1 = 4 * (j - 1) + (Order[i] + 1)
  BY <1>1
<1>4. mesh.vertices[4 * (j - 1) + (Order[i] + 1)] = Vertex(q[j], Order[i] + 1)
  BY <1>1, Zenon DEF Shows
<1> QED BY <1>2, <1>3, <1>4, Zenon DEF Corner

\* The n-th triangle of a mesh.
TriangleAt(mesh, n) == <<Corner(mesh, 3 * n + 1), Corner(mesh, 3 * n + 2), Corner(mesh, 3 * n + 3)>>

LEMMA TrianglesOfFace ==
    ASSUME NEW mesh, NEW q, NEW l \in Nat, l = Len(q), Shows(mesh, q), NEW j \in 1..l
    PROVE  /\ TriangleAt(mesh, 2 * (j - 1)) = FirstTriangle(q[j])
           /\ TriangleAt(mesh, 2 * (j - 1) + 1) = SecondTriangle(q[j])
<1> DEFINE corner(n) == Corner(mesh, n)
<1>1. \A i \in 1..6 : corner(6 * (j - 1) + i) = Vertex(q[j], Order[i] + 1)
  BY CornerShown, Zenon
<1>2. /\ Order[1] + 1 = 1 /\ Order[2] + 1 = 2 /\ Order[3] + 1 = 4
      /\ Order[4] + 1 = 2 /\ Order[5] + 1 = 3 /\ Order[6] + 1 = 4
  BY DEF Order
<1>3. 1 \in 1..6 /\ 2 \in 1..6 /\ 3 \in 1..6 /\ 4 \in 1..6 /\ 5 \in 1..6 /\ 6 \in 1..6
  OBVIOUS
<1> HIDE DEF corner
<1>4. /\ corner(6 * (j - 1) + 1) = Vertex(q[j], 1) /\ corner(6 * (j - 1) + 2) = Vertex(q[j], 2)
      /\ corner(6 * (j - 1) + 3) = Vertex(q[j], 4) /\ corner(6 * (j - 1) + 4) = Vertex(q[j], 2)
      /\ corner(6 * (j - 1) + 5) = Vertex(q[j], 3) /\ corner(6 * (j - 1) + 6) = Vertex(q[j], 4)
  BY <1>1, <1>2, <1>3, Zenon
<1>5. \A n : TriangleAt(mesh, n) = <<corner(3 * n + 1), corner(3 * n + 2), corner(3 * n + 3)>>
  BY Zenon DEF TriangleAt, corner
<1>6. /\ 3 * (2 * (j - 1)) + 1 = 6 * (j - 1) + 1 /\ 3 * (2 * (j - 1)) + 2 = 6 * (j - 1) + 2
      /\ 3 * (2 * (j - 1)) + 3 = 6 * (j - 1) + 3
      /\ 3 * (2 * (j - 1) + 1) + 1 = 6 * (j - 1) + 4 /\ 3 * (2 * (j - 1) + 1) + 2 = 6 * (j - 1) + 5
      /\ 3 * (2 * (j - 1) + 1) + 3 = 6 * (j - 1) + 6
  OBVIOUS
<1>7. TriangleAt(mesh, 2 * (j - 1)) = FirstTriangle(q[j])
  <2>1. TriangleAt(mesh, 2 * (j - 1)) = <<corner(6 * (j - 1) + 1), corner(6 * (j - 1) + 2), corner(6 * (j - 1) + 3)>>
    BY <1>5, <1>6, Zenon
  <2> QED BY <1>4, <2>1, Zenon DEF FirstTriangle
<1>8. TriangleAt(mesh, 2 * (j - 1) + 1) = SecondTriangle(q[j])
  <2>1. TriangleAt(mesh, 2 * (j - 1) + 1) = <<corner(6 * (j - 1) + 4), corner(6 * (j - 1) + 5), corner(6 * (j - 1) + 6)>>
    BY <1>5, <1>6, Zenon
  <2> QED BY <1>4, <2>1, Zenon DEF SecondTriangle
<1> QED BY <1>7, <1>8

FirstTriangles(blocks) == {FirstTriangle(f) : f \in Boundary(blocks)}
SecondTriangles(blocks) == {SecondTriangle(f) : f \in Boundary(blocks)}

LEMMA TrianglesShown ==
    ASSUME NEW mesh, NEW q, NEW blocks, Lists(q, blocks, Len(BlockFaces)), Shows(mesh, q)
    PROVE  Triangles(mesh) = FirstTriangles(blocks) \union SecondTriangles(blocks)
<1>1. PICK l \in Nat : l = Len(q)
  BY DEF Lists
<1>2. /\ \A i \in 1..l : q[i] \in Boundary(blocks)
      /\ \A f \in Boundary(blocks) : \E i \in 1..l : q[i] = f
  BY <1>1, ListsBoundary
<1>3. Triangles(mesh) = {TriangleAt(mesh, n) : n \in 0 .. 2 * l - 1}
  <2>1. Len(mesh.indices) = 6 * l
    BY <1>1 DEF Shows
  <2>2. (Len(mesh.indices) \div 3) - 1 = 2 * l - 1
    BY <2>1
  <2> QED BY <2>2, Zenon DEF Triangles, TriangleAt, Corner
<1>4. \A j \in 1..l : /\ TriangleAt(mesh, 2 * (j - 1)) = FirstTriangle(q[j])
                      /\ TriangleAt(mesh, 2 * (j - 1) + 1) = SecondTriangle(q[j])
  BY <1>1, TrianglesOfFace, Zenon
<1>5. ASSUME NEW t \in Triangles(mesh) PROVE t \in FirstTriangles(blocks) \union SecondTriangles(blocks)
  <2>1. PICK n \in 0 .. 2 * l - 1 : t = TriangleAt(mesh, n)
    BY <1>3
  <2>2. PICK j \in 1..l : n = 2 * (j - 1) \/ n = 2 * (j - 1) + 1
    <3>1. n \div 2 + 1 \in 1..l /\ (n = 2 * ((n \div 2 + 1) - 1) \/ n = 2 * ((n \div 2 + 1) - 1) + 1)
      OBVIOUS
    <3> QED BY <3>1
  <2>3. t = FirstTriangle(q[j]) \/ t = SecondTriangle(q[j])
    BY <1>4, <2>1, <2>2, Zenon
  <2> QED BY <1>2, <2>3 DEF FirstTriangles, SecondTriangles
<1>6. ASSUME NEW f \in Boundary(blocks)
      PROVE  FirstTriangle(f) \in Triangles(mesh) /\ SecondTriangle(f) \in Triangles(mesh)
  <2>1. PICK j \in 1..l : q[j] = f
    BY <1>2
  <2>2. 2 * (j - 1) \in 0 .. 2 * l - 1 /\ 2 * (j - 1) + 1 \in 0 .. 2 * l - 1
    OBVIOUS
  <2>3. \A n \in 0 .. 2 * l - 1 : TriangleAt(mesh, n) \in Triangles(mesh)
    BY <1>3
  <2> QED BY <1>4, <2>1, <2>2, <2>3, Zenon
<1> QED BY <1>5, <1>6 DEF FirstTriangles, SecondTriangles

LEMMA TrianglesCounted ==
    ASSUME NEW blocks, IsFiniteSet(Boundary(blocks))
    PROVE  Cardinality(FirstTriangles(blocks) \union SecondTriangles(blocks)) = 2 * Cardinality(Boundary(blocks))
<1> DEFINE B == Boundary(blocks)
           S == FirstTriangles(blocks)
           T == SecondTriangles(blocks)
<1>1. PICK n \in Nat : n = Cardinality(B)
  BY FS_CardinalityType
<1>2. IsFiniteSet(S) /\ Cardinality(S) = n
  <2> DEFINE m == [f \in B |-> FirstTriangle(f)]
  <2>1. m \in [B -> S] /\ \A t \in S : \E f \in B : m[f] = t
    BY DEF FirstTriangles
  <2>2. \A f, g \in B : m[f] = m[g] => f = g
    BY TrianglesApart
  <2> HIDE DEF m
  <2> QED BY <1>1, <2>1, <2>2, SameSize
<1>3. IsFiniteSet(T) /\ Cardinality(T) = n
  <2> DEFINE m == [f \in B |-> SecondTriangle(f)]
  <2>1. m \in [B -> T] /\ \A t \in T : \E f \in B : m[f] = t
    BY DEF SecondTriangles
  <2>2. \A f, g \in B : m[f] = m[g] => f = g
    BY TrianglesApart
  <2> HIDE DEF m
  <2> QED BY <1>1, <2>1, <2>2, SameSize
<1>4. S \cap T = {}
  BY TrianglesApart DEF FirstTriangles, SecondTriangles
<1>5. Cardinality({}) = 0
  BY FS_EmptySet
<1>6. Cardinality(S \cup T) = Cardinality(S) + Cardinality(T) - Cardinality(S \cap T)
  BY <1>2, <1>3, FS_Union, Zenon
<1>7. Cardinality(S \cup T) = n + n - 0
  BY <1>2, <1>3, <1>4, <1>5, <1>6, Zenon
<1> HIDE DEF S, T
<1>8. Cardinality(S \cup T) = 2 * n
  BY <1>7
<1> QED BY <1>1, <1>8 DEF S, T

\* Both triangles of a face are among those of its square, and cover it.
LEMMA FaceCovered ==
    ASSUME NEW blocks, NEW f \in Boundary(blocks)
    PROVE  \E t, u \in {s \in FirstTriangles(blocks) \union SecondTriangles(blocks) : Range(s) \subseteq Square(f)} :
              Covers(t, u, Square(f), f[2])
<1> DEFINE t == FirstTriangle(f)
           u == SecondTriangle(f)
<1>1. t \in FirstTriangles(blocks) /\ u \in SecondTriangles(blocks)
  BY Zenon DEF FirstTriangles, SecondTriangles
<1>2. f \in Cells \X Range(Faces)
  BY BoundaryDrawn
<1>3. Covers(t, u, Square(f), f[2])
  BY <1>2, TrianglesCover, Zenon
<1> HIDE DEF t, u
<1>4. Range(t) \union Range(u) = Square(f)
  BY <1>3, Zenon DEF Covers
<1>5. Range(t) \subseteq Square(f) /\ Range(u) \subseteq Square(f)
  BY <1>4
<1> QED BY <1>1, <1>3, <1>5

\* What MeshIsBoundary says of a section and a mesh.
IsBoundaryOf(mesh, blocks) ==
    /\ Len(mesh.indices) = 6 * Cardinality(Boundary(blocks))
    /\ Cardinality(Triangles(mesh)) = 2 * Cardinality(Boundary(blocks))
    /\ \A b \in Boundary(blocks) :
          \E t, u \in {s \in Triangles(mesh) : Range(s) \subseteq Square(b)} :
              Covers(t, u, Square(b), b[2])

LEMMA SectionIsBoundary ==
    ASSUME NEW blocks
    PROVE  IsBoundaryOf(generate_vertices(blocks), blocks)
<1>1. PICK mesh : mesh = generate_vertices(blocks)
  OBVIOUS
<1>2. PICK q : Lists(q, blocks, Len(BlockFaces)) /\ Shows(mesh, q)
  BY <1>1, SectionShows, Zenon DEF ShowsDrawn
<1>3. IsFiniteSet(Boundary(blocks)) /\ Cardinality(Boundary(blocks)) = Len(q)
  BY <1>2, ListsBoundary
<1>4. Triangles(mesh) = FirstTriangles(blocks) \union SecondTriangles(blocks)
  BY <1>2, TrianglesShown
<1>5. Len(mesh.indices) = 6 * Len(q)
  BY <1>2, Zenon DEF Shows
<1>6. Cardinality(Triangles(mesh)) = 2 * Cardinality(Boundary(blocks))
  BY <1>3, <1>4, TrianglesCounted, Zenon
<1>7. \A b \in Boundary(blocks) :
          \E t, u \in {s \in Triangles(mesh) : Range(s) \subseteq Square(b)} : Covers(t, u, Square(b), b[2])
  BY <1>4, FaceCovered, Zenon
<1> QED BY <1>1, <1>3, <1>5, <1>6, <1>7, Zenon DEF IsBoundaryOf

-----------------------------------------------------------------------------
(* The mesh of a model shows the faces drawn of its elements.              *)

\* FlattenSeq from nothing on: what is put together of the first i.
Gathers(f, s, M) ==
    /\ f \in [0..Len(s) -> Seq(M)]
    /\ f[0] = <<>>
    /\ \A i \in 1..Len(s) : f[i] = f[i - 1] \o s[i]

LEMMA FlattenGathers ==
    ASSUME NEW M, NEW s \in Seq(Seq(M))
    PROVE  \E f : Gathers(f, s, M) /\ FlattenSeq(s) = f[Len(s)]
<1>1. PICK l \in Nat : l = Len(s)
  OBVIOUS
<1>2. <<>> \in Seq(M)
  OBVIOUS
<1>3. CASE l = 0
  <2> DEFINE f == [i \in 0..0 |-> <<>>]
  <2>0. Len(s) = 0
    BY <1>1, <1>3
  <2>1. s = <<>>
    BY <2>0
  <2>2. FlattenSeq(s) = <<>>
    BY <2>1 DEF FlattenSeq
  <2>3. f \in [0..0 -> Seq(M)] /\ f[0] = <<>>
    BY <1>2
  <2>4. \A i : i \notin 1..0
    OBVIOUS
  <2> HIDE DEF f
  <2>5. Gathers(f, s, M)
    BY <1>1, <1>3, <2>3, <2>4, Zenon DEF Gathers
  <2> QED BY <1>1, <1>3, <2>2, <2>3, <2>5, Zenon
<1>4. CASE l # 0
  <2>1. PICK g : Flattens(g, s, M) /\ FlattenSeq(s) = g[l]
    BY <1>1, <1>4, FlattenDef
  <2> DEFINE f == [i \in 0..l |-> IF i = 0 THEN <<>> ELSE g[i]]
  <2>2. g \in [1..l -> Seq(M)] /\ g[1] = s[1] /\ \A i \in 2..l : g[i] = g[i - 1] \o s[i]
    BY <1>1, <2>1, Zenon DEF Flattens
  <2>3. f \in [0..l -> Seq(M)]
    <3>1. \A i \in 0..l : i # 0 => i \in 1..l
      OBVIOUS
    <3> QED BY <1>2, <2>2, <3>1
  <2>4. f[0] = <<>> /\ \A i \in 1..l : f[i] = g[i]
    OBVIOUS
  <2> HIDE DEF f
  <2>5. ASSUME NEW i \in 1..l PROVE f[i] = f[i - 1] \o s[i]
    <3>1. CASE i = 1
      <4>1. s[1] \in Seq(M)
        BY <1>1, <1>4, ElementOfSeq
      <4>2. <<>> \o s[1] = s[1]
        BY <4>1, ConcatEmptySeq
      <4>3. i - 1 = 0
        BY <3>1
      <4> QED BY <2>2, <2>4, <3>1, <4>2, <4>3, Zenon
    <3>2. CASE i # 1
      <4>1. i \in 2..l /\ i - 1 \in 1..l
        BY <3>2
      <4> QED BY <2>2, <2>4, <4>1, Zenon
    <3> QED BY <3>1, <3>2
  <2>6. Gathers(f, s, M)
    BY <1>1, <2>3, <2>4, <2>5, Zenon DEF Gathers
  <2>7. l \in 1..l
    BY <1>4
  <2> QED BY <1>1, <2>1, <2>4, <2>6, <2>7, Zenon
<1> QED BY <1>3, <1>4

\* A quad is its four corners.
Quad == [1..4 -> Vector]

\* mesh is the mesh of the quads w.
Quads(mesh, w) ==
    /\ mesh \in Meshes /\ w \in Seq(Quad)
    /\ Len(mesh.vertices) = 4 * Len(w) /\ Len(mesh.indices) = 6 * Len(w)
    /\ \A j \in 1..Len(w), c \in 1..4 : mesh.vertices[4 * (j - 1) + c] = w[j][c]
    /\ \A j \in 1..Len(w), i \in 1..6 : mesh.indices[6 * (j - 1) + i] = 4 * (j - 1) + QuadOrder[i]

LEMMA QuadOrderOfSix == QuadOrder \in Seq(0..3) /\ Len(QuadOrder) = 6 /\ \A i \in 1..6 : QuadOrder[i] \in 0..3
  BY DEF QuadOrder

LEMMA QuadIsSeq == \A q \in Quad : q \in Seq(Vector) /\ Len(q) = 4
<1> SUFFICES ASSUME NEW q \in Quad PROVE q \in Seq(Vector) /\ Len(q) = 4
  OBVIOUS
<1>1. q \in [1..4 -> Vector] /\ DOMAIN q = 1..4
  BY DEF Quad
<1>2. 4 \in Nat /\ [1..4 -> Vector] \in {[1..n -> Vector] : n \in Nat}
  OBVIOUS
<1>3. q \in Seq(Vector)
  BY <1>1, <1>2, SeqDef, Zenon
<1>4. PICK l \in Nat : l = Len(q)
  BY <1>3, LenProperties
<1>5. DOMAIN q = 1..l
  BY <1>3, <1>4, LenProperties
<1>6. l = 4
  <2>1. \A i \in Nat : i \in 1..l <=> i \in 1..4
    BY <1>1, <1>5
  <2>2. 4 \in 1..l /\ 5 \notin 1..l
    BY <2>1
  <2> QED BY <2>2
<1> QED BY <1>3, <1>4, <1>6

LEMMA QuadsOneMore ==
    ASSUME NEW mesh, NEW w, Quads(mesh, w), NEW corners \in Quad
    PROVE  Quads(Extend(mesh, corners, QuadOrder), Append(w, corners))
<1>1. PICK l \in Nat : l = Len(w) /\ w \in Seq(Quad)
  BY DEF Quads
<1>2. PICK r : r = Append(w, corners)
  OBVIOUS
<1>3. r \in Seq(Quad) /\ Len(r) = l + 1 /\ r[l + 1] = corners /\ \A j \in 1..l : r[j] = w[j]
  BY <1>1, <1>2, AppendProperties
<1>4. /\ mesh \in Meshes /\ Len(mesh.vertices) = 4 * l /\ Len(mesh.indices) = 6 * l
      /\ \A j \in 1..l, c \in 1..4 : mesh.vertices[4 * (j - 1) + c] = w[j][c]
      /\ \A j \in 1..l, i \in 1..6 : mesh.indices[6 * (j - 1) + i] = 4 * (j - 1) + QuadOrder[i]
  BY <1>1, Zenon DEF Quads
<1>5. PICK next : next = Extend(mesh, corners, QuadOrder)
  OBVIOUS
<1>6. /\ next \in Meshes
      /\ Len(next.vertices) = 4 * l + 4 /\ Len(next.indices) = 6 * l + 6
      /\ \A i \in 1 .. 4 * l : next.vertices[i] = mesh.vertices[i]
      /\ \A c \in 1..4 : next.vertices[4 * l + c] = corners[c]
      /\ \A i \in 1 .. 6 * l : next.indices[i] = mesh.indices[i]
      /\ \A i \in 1..6 : next.indices[6 * l + i] = 4 * l + QuadOrder[i]
  <2>1. corners \in Seq(Vector) /\ Len(corners) = 4
    BY QuadIsSeq, Zenon
  <2>2. Appended(mesh, corners, QuadOrder, next)
    BY <1>4, <1>5, <2>1, ExtendAppends, QuadOrderOfSix, Zenon
  <2> QED BY <1>4, <2>2, Zenon DEF Appended
<1>7. Len(next.vertices) = 4 * (l + 1) /\ Len(next.indices) = 6 * (l + 1)
  BY <1>6
<1>8. ASSUME NEW j \in 1 .. l + 1, NEW c \in 1..4 PROVE next.vertices[4 * (j - 1) + c] = r[j][c]
  <2>1. CASE j = l + 1
    <3>1. 4 * (j - 1) + c = 4 * l + c
      BY <2>1
    <3> QED BY <1>3, <1>6, <2>1, <3>1, Zenon
  <2>2. CASE j # l + 1
    <3>1. j \in 1..l /\ 4 * (j - 1) + c \in 1 .. 4 * l
      BY <2>2
    <3>2. next.vertices[4 * (j - 1) + c] = mesh.vertices[4 * (j - 1) + c]
      BY <1>6, <3>1, Zenon
    <3>3. mesh.vertices[4 * (j - 1) + c] = w[j][c]
      BY <1>4, <3>1, Zenon
    <3>4. r[j] = w[j]
      BY <1>3, <3>1, Zenon
    <3> QED BY <3>2, <3>3, <3>4, Zenon
  <2> QED BY <2>1, <2>2
<1>9. ASSUME NEW j \in 1 .. l + 1, NEW i \in 1..6 PROVE next.indices[6 * (j - 1) + i] = 4 * (j - 1) + QuadOrder[i]
  <2>1. CASE j = l + 1
    <3>1. 6 * (j - 1) + i = 6 * l + i /\ j - 1 = l
      BY <2>1
    <3> QED BY <1>6, <3>1, Zenon
  <2>2. CASE j # l + 1
    <3>1. j \in 1..l /\ 6 * (j - 1) + i \in 1 .. 6 * l
      BY <2>2
    <3>2. next.indices[6 * (j - 1) + i] = mesh.indices[6 * (j - 1) + i]
      BY <1>6, <3>1, Zenon
    <3>3. mesh.indices[6 * (j - 1) + i] = 4 * (j - 1) + QuadOrder[i]
      BY <1>4, <3>1, Zenon
    <3> QED BY <3>2, <3>3, Zenon
  <2> QED BY <2>1, <2>2
<1>10. Quads(next, r)
  BY <1>3, <1>6, <1>7, <1>8, <1>9, Zenon DEF Quads
<1> QED BY <1>2, <1>5, <1>10


\* Boxes, and the faces of some elements that are moved down.
AreBoxes(E) == \A e \in E : e.from \in Int \X Int \X Int /\ e.to \in Int \X Int \X Int
FacesOf(E, down) == {[elem |-> e, name |-> name, down |-> down] : e \in E, name \in Range(ModelFaces)}

QuadOf(d) == ModelFace(d.name, d.elem.from, d.elem.to).corners
QuadsOf(q) == [j \in 1..Len(q) |-> QuadOf(q[j])]

LEMMA SixNames ==
    /\ DOMAIN ModelFaces = 1..6 /\ Len(ModelFaces) = 6
    /\ \A i \in 1..6 : ModelFaces[i] \in Range(ModelFaces)
    /\ Range(ModelFaces) = {"down", "up", "north", "south", "east", "west"}
<1>1. DOMAIN ModelFaces = 1..6 /\ Len(ModelFaces) = 6
  BY DEF ModelFaces
<1>2. Range(ModelFaces) = {ModelFaces[i] : i \in 1..6}
  BY <1>1 DEF Range
<1>3. /\ ModelFaces[1] = "down" /\ ModelFaces[2] = "up" /\ ModelFaces[3] = "north"
      /\ ModelFaces[4] = "south" /\ ModelFaces[5] = "east" /\ ModelFaces[6] = "west"
  BY DEF ModelFaces
<1>4. {ModelFaces[i] : i \in 1..6} = {"down", "up", "north", "south", "east", "west"}
  BY <1>3
<1> QED BY <1>1, <1>2, <1>4

LEMMA QuadTyped ==
    ASSUME NEW E, AreBoxes(E), NEW e \in E, NEW name \in Range(ModelFaces)
    PROVE  ModelFace(name, e.from, e.to).corners \in Quad
<1>1. PICK f \in Int \X Int \X Int, t \in Int \X Int \X Int : f = e.from /\ t = e.to
  BY DEF AreBoxes
<1>2. f[1] \in Int /\ f[2] \in Int /\ f[3] \in Int /\ t[1] \in Int /\ t[2] \in Int /\ t[3] \in Int
  OBVIOUS
<1>3. \A x, y, z \in Int : <<x, y, z>> \in Vector
  BY DEF Vector
<1>4. \A a, b, c, d \in Vector : <<a, b, c, d>> \in Quad
  BY DEF Quad
<1>5. name \in {"down", "up", "north", "south", "east", "west"}
  BY SixNames
<1>6. CASE name = "down"
  <2>1. ModelFace(name, f, t).corners =
            << <<f[1], f[2], f[3]>>, <<t[1], f[2], f[3]>>, <<f[1], f[2], t[3]>>, <<t[1], f[2], t[3]>> >>
    BY <1>6 DEF ModelFace
  <2>2. <<f[1], f[2], f[3]>> \in Vector /\ <<t[1], f[2], f[3]>> \in Vector
    BY <1>2, <1>3, Zenon
  <2>3. <<f[1], f[2], t[3]>> \in Vector /\ <<t[1], f[2], t[3]>> \in Vector
    BY <1>2, <1>3, Zenon
  <2>4. << <<f[1], f[2], f[3]>>, <<t[1], f[2], f[3]>>, <<f[1], f[2], t[3]>>, <<t[1], f[2], t[3]>> >> \in Quad
    BY <1>4, <2>2, <2>3, Zenon
  <2> QED BY <1>1, <2>1, <2>4, Zenon
<1>7. CASE name = "up"
  <2>1. ModelFace(name, f, t).corners =
            << <<f[1], t[2], f[3]>>, <<f[1], t[2], t[3]>>, <<t[1], t[2], f[3]>>, <<t[1], t[2], t[3]>> >>
    BY <1>7 DEF ModelFace
  <2>2. <<f[1], t[2], f[3]>> \in Vector /\ <<f[1], t[2], t[3]>> \in Vector
    BY <1>2, <1>3, Zenon
  <2>3. <<t[1], t[2], f[3]>> \in Vector /\ <<t[1], t[2], t[3]>> \in Vector
    BY <1>2, <1>3, Zenon
  <2>4. << <<f[1], t[2], f[3]>>, <<f[1], t[2], t[3]>>, <<t[1], t[2], f[3]>>, <<t[1], t[2], t[3]>> >> \in Quad
    BY <1>4, <2>2, <2>3, Zenon
  <2> QED BY <1>1, <2>1, <2>4, Zenon
<1>8. CASE name = "north"
  <2>1. ModelFace(name, f, t).corners =
            << <<f[1], f[2], f[3]>>, <<f[1], t[2], f[3]>>, <<t[1], f[2], f[3]>>, <<t[1], t[2], f[3]>> >>
    BY <1>8 DEF ModelFace
  <2>2. <<f[1], f[2], f[3]>> \in Vector /\ <<f[1], t[2], f[3]>> \in Vector
    BY <1>2, <1>3, Zenon
  <2>3. <<t[1], f[2], f[3]>> \in Vector /\ <<t[1], t[2], f[3]>> \in Vector
    BY <1>2, <1>3, Zenon
  <2>4. << <<f[1], f[2], f[3]>>, <<f[1], t[2], f[3]>>, <<t[1], f[2], f[3]>>, <<t[1], t[2], f[3]>> >> \in Quad
    BY <1>4, <2>2, <2>3, Zenon
  <2> QED BY <1>1, <2>1, <2>4, Zenon
<1>9. CASE name = "south"
  <2>1. ModelFace(name, f, t).corners =
            << <<f[1], f[2], t[3]>>, <<t[1], f[2], t[3]>>, <<f[1], t[2], t[3]>>, <<t[1], t[2], t[3]>> >>
    BY <1>9 DEF ModelFace
  <2>2. <<f[1], f[2], t[3]>> \in Vector /\ <<t[1], f[2], t[3]>> \in Vector
    BY <1>2, <1>3, Zenon
  <2>3. <<f[1], t[2], t[3]>> \in Vector /\ <<t[1], t[2], t[3]>> \in Vector
    BY <1>2, <1>3, Zenon
  <2>4. << <<f[1], f[2], t[3]>>, <<t[1], f[2], t[3]>>, <<f[1], t[2], t[3]>>, <<t[1], t[2], t[3]>> >> \in Quad
    BY <1>4, <2>2, <2>3, Zenon
  <2> QED BY <1>1, <2>1, <2>4, Zenon
<1>10. CASE name = "east"
  <2>1. ModelFace(name, f, t).corners =
            << <<t[1], f[2], f[3]>>, <<t[1], t[2], f[3]>>, <<t[1], f[2], t[3]>>, <<t[1], t[2], t[3]>> >>
    BY <1>10 DEF ModelFace
  <2>2. <<t[1], f[2], f[3]>> \in Vector /\ <<t[1], t[2], f[3]>> \in Vector
    BY <1>2, <1>3, Zenon
  <2>3. <<t[1], f[2], t[3]>> \in Vector /\ <<t[1], t[2], t[3]>> \in Vector
    BY <1>2, <1>3, Zenon
  <2>4. << <<t[1], f[2], f[3]>>, <<t[1], t[2], f[3]>>, <<t[1], f[2], t[3]>>, <<t[1], t[2], t[3]>> >> \in Quad
    BY <1>4, <2>2, <2>3, Zenon
  <2> QED BY <1>1, <2>1, <2>4, Zenon
<1>11. CASE name = "west"
  <2>1. ModelFace(name, f, t).corners =
            << <<f[1], f[2], f[3]>>, <<f[1], f[2], t[3]>>, <<f[1], t[2], f[3]>>, <<f[1], t[2], t[3]>> >>
    BY <1>11 DEF ModelFace
  <2>2. <<f[1], f[2], f[3]>> \in Vector /\ <<f[1], f[2], t[3]>> \in Vector
    BY <1>2, <1>3, Zenon
  <2>3. <<f[1], t[2], f[3]>> \in Vector /\ <<f[1], t[2], t[3]>> \in Vector
    BY <1>2, <1>3, Zenon
  <2>4. << <<f[1], f[2], f[3]>>, <<f[1], f[2], t[3]>>, <<f[1], t[2], f[3]>>, <<f[1], t[2], t[3]>> >> \in Quad
    BY <1>4, <2>2, <2>3, Zenon
  <2> QED BY <1>1, <2>1, <2>4, Zenon
<1> QED BY <1>5, <1>6, <1>7, <1>8, <1>9, <1>10, <1>11

LEMMA DownOfFace == \A E, down : \A d \in FacesOf(E, down) : d.down = down
<1> SUFFICES ASSUME NEW E, NEW down, NEW d \in FacesOf(E, down) PROVE d.down = down
  OBVIOUS
<1>1. PICK e \in E, name \in Range(ModelFaces) : d = [elem |-> e, name |-> name, down |-> down]
  BY DEF FacesOf
<1> QED BY <1>1

LEMMA QuadOfFace ==
    ASSUME NEW E, AreBoxes(E), NEW down, NEW d \in FacesOf(E, down)
    PROVE  QuadOf(d) \in Quad
<1>1. PICK e \in E, name \in Range(ModelFaces) : d = [elem |-> e, name |-> name, down |-> down]
  BY DEF FacesOf
<1>2. d.elem = e /\ d.name = name
  BY <1>1
<1> QED BY <1>2, QuadTyped, Zenon DEF QuadOf

LEMMA QuadsOfSeq ==
    ASSUME NEW E, AreBoxes(E), NEW down, NEW q \in Seq(FacesOf(E, down))
    PROVE  QuadsOf(q) \in Seq(Quad) /\ Len(QuadsOf(q)) = Len(q)
<1>1. PICK l \in Nat : l = Len(q)
  OBVIOUS
<1>2. \A j \in 1..l : QuadOf(q[j]) \in Quad
  <2>1. \A j \in 1..l : q[j] \in FacesOf(E, down)
    BY <1>1, ElementOfSeq
  <2> QED BY <2>1, QuadOfFace, Zenon
<1>3. QuadsOf(q) = [j \in 1..l |-> QuadOf(q[j])]
  BY <1>1, Zenon DEF QuadsOf
<1>4. QuadsOf(q) \in [1..l -> Quad]
  BY <1>2, <1>3
<1> QED BY <1>1, <1>4

LEMMA QuadsOfMore ==
    ASSUME NEW E, AreBoxes(E), NEW down, NEW q \in Seq(FacesOf(E, down)), NEW d \in FacesOf(E, down)
    PROVE  QuadsOf(q \o <<d>>) = Append(QuadsOf(q), QuadOf(d))
<1>1. PICK l \in Nat : l = Len(q)
  OBVIOUS
<1>2. PICK r : r = Append(q, d)
  OBVIOUS
<1>3. /\ r \in Seq(FacesOf(E, down)) /\ Len(r) = l + 1 /\ r[l + 1] = d
      /\ \A j \in 1..l : r[j] = q[j]
  BY <1>1, <1>2, AppendProperties
<1>4. q \o <<d>> = r
  BY <1>2, AppendIsConcat
<1>5. PICK a \in Seq(Quad) : a = QuadsOf(q) /\ Len(a) = l
  BY <1>1, QuadsOfSeq
<1>6. QuadOf(d) \in Quad
  BY QuadOfFace
<1>7. PICK b : b = Append(a, QuadOf(d))
  OBVIOUS
<1>8. b \in Seq(Quad) /\ Len(b) = l + 1 /\ b[l + 1] = QuadOf(d) /\ \A j \in 1..l : b[j] = a[j]
  BY <1>5, <1>6, <1>7, AppendProperties
<1>9. \A j \in 1..l : a[j] = QuadOf(q[j])
  BY <1>1, <1>5 DEF QuadsOf
<1>10. \A j \in 1 .. l + 1 : b[j] = QuadOf(r[j])
  <2>1. \A j \in 1 .. l + 1 : j \in 1..l \/ j = l + 1
    OBVIOUS
  <2> QED BY <1>3, <1>8, <1>9, <2>1, Zenon
<1>11. b = [j \in 1 .. l + 1 |-> b[j]]
  BY <1>8
<1>12. QuadsOf(r) = [j \in 1 .. l + 1 |-> QuadOf(r[j])]
  BY <1>3, Zenon DEF QuadsOf
<1>13. QuadsOf(r) = b
  BY <1>10, <1>11, <1>12, Zenon
<1> QED BY <1>4, <1>5, <1>7, <1>13, Zenon

\* A quad put behind others, before or after what is in front of them.
LEMMA ConcatAppend ==
    ASSUME NEW S, NEW w \in Seq(S), NEW a \in Seq(S), NEW e \in S
    PROVE  w \o Append(a, e) = Append(w \o a, e)
<1>1. <<e>> \in Seq(S)
  OBVIOUS
<1>2. Append(a, e) = a \o <<e>>
  BY AppendIsConcat
<1>3. PICK b \in Seq(S) : b = w \o a
  BY ConcatProperties
<1>4. Append(b, e) = b \o <<e>>
  BY AppendIsConcat
<1>5. Associate(w, a, <<e>>)
  BY <1>1, ConcatAssociates
<1> QED BY <1>2, <1>3, <1>4, <1>5, Zenon DEF Associate

\* ElementMesh as a fold over the faces.
NextQuad(mesh, elem, i) ==
    IF should_draw_face(elem, ModelFaces[i])
    THEN Extend(mesh, ModelFace(ModelFaces[i], elem.from, elem.to).corners, QuadOrder)
    ELSE mesh

ElementFold(mesh, elem, g) ==
    /\ g[0] = mesh
    /\ \A i \in 1..6 : g[i] = NextQuad(g[i - 1], elem, i)

LEMMA NextQuadMesh ==
    ASSUME NEW E, AreBoxes(E), NEW elem \in E, NEW i \in 1..6, NEW mesh \in Meshes
    PROVE  NextQuad(mesh, elem, i) \in Meshes
<1>1. PICK corners : corners = ModelFace(ModelFaces[i], elem.from, elem.to).corners
  OBVIOUS
<1>2. corners \in Quad
  BY <1>1, SixNames, QuadTyped, Zenon
<1>3. corners \in Seq(Vector) /\ Len(corners) = 4
  BY <1>2, QuadIsSeq, Zenon
<1>4. Appended(mesh, corners, QuadOrder, Extend(mesh, corners, QuadOrder))
  BY <1>3, ExtendAppends, QuadOrderOfSix, Zenon
<1> QED BY <1>1, <1>4, Zenon DEF NextQuad, Appended

LEMMA ElementFolds ==
    ASSUME NEW E, AreBoxes(E), NEW elem \in E, NEW mesh \in Meshes
    PROVE  \E g : ElementFold(mesh, elem, g) /\ ElementMesh(mesh, elem) = g[6]
<1>0. PICK last \in Nat : last = Len(ModelFaces) /\ last = 6
  BY SixNames
<1> DEFINE step == [x \in (1..last) \X Meshes |-> NextQuad(x[2], elem, x[1])]
           body(g) == [i \in 0..last |-> IF i = 0 THEN mesh ELSE NextQuad(g[i - 1], elem, i)]
           fold == CHOOSE g : g = body(g)
<1>1. ElementMesh(mesh, elem) = fold[last]
  BY <1>0, Zenon DEF ElementMesh, NextQuad
<1>2. /\ step \in [(1..last) \X Meshes -> Meshes]
      /\ \A i \in 1..last, m \in Meshes : step[<<i, m>>] = NextQuad(m, elem, i)
  <2>0. \A i \in 1..last : i \in 1..6
    BY <1>0
  <2>1. \A i \in 1..last, m \in Meshes : NextQuad(m, elem, i) \in Meshes
    BY <2>0, NextQuadMesh, Zenon
  <2> QED BY <2>1
<1> HIDE DEF step
<1>3. PICK g : Folded(g, mesh, step, last, Meshes)
  BY <1>2, FoldExists
<1>4. \A i \in 1..last : i - 1 \in 0..last /\ i \in 0..last /\ i # 0
  OBVIOUS
<1>5. g = body(g)
  <2>1. g \in [0..last -> Meshes] /\ g[0] = mesh /\ \A i \in 1..last : g[i] = step[<<i, g[i - 1]>>]
    BY <1>3, Zenon DEF Folded
  <2>2. \A i \in 1..last : g[i] = NextQuad(g[i - 1], elem, i)
    BY <1>2, <1>4, <2>1
  <2>3. \A i \in 0..last : i # 0 => i \in 1..last
    OBVIOUS
  <2> QED BY <2>1, <2>2, <2>3
<1>6. fold = body(fold)
  <2> HIDE DEF body
  <2> QED BY <1>5
<1> HIDE DEF fold
<1>7. fold[0] = mesh
  BY <1>6
<1>8. \A i \in 1..last : fold[i] = NextQuad(fold[i - 1], elem, i)
  BY <1>4, <1>6
<1>9. ElementFold(mesh, elem, fold)
  BY <1>0, <1>7, <1>8, Zenon DEF ElementFold
<1> QED BY <1>0, <1>1, <1>9

\* The faces drawn of an element, and of each of its sides.
FaceOf(elem, down, i) ==
    IF ModelFaces[i] \in elem.drawn THEN <<[elem |-> elem, name |-> ModelFaces[i], down |-> down]>> ELSE <<>>
ElementFaces(elem, down) == FlattenSeq([i \in DOMAIN ModelFaces |-> FaceOf(elem, down, i)])

\* The mesh shows, behind the quads w, the faces q.
Shown(mesh, w, q) == Quads(mesh, w \o QuadsOf(q))

LEMMA SideShown ==
    ASSUME NEW E, AreBoxes(E), NEW elem \in E, NEW down, NEW i \in 1..6,
           NEW w \in Seq(Quad), NEW q \in Seq(FacesOf(E, down)), NEW mesh, Shown(mesh, w, q)
    PROVE  /\ FaceOf(elem, down, i) \in Seq(FacesOf(E, down))
           /\ Shown(NextQuad(mesh, elem, i), w, q \o FaceOf(elem, down, i))
<1>1. PICK F : F = FacesOf(E, down)
  OBVIOUS
<1>2. CASE ModelFaces[i] \in elem.drawn
  <2> DEFINE d == [elem |-> elem, name |-> ModelFaces[i], down |-> down]
             corners == ModelFace(ModelFaces[i], elem.from, elem.to).corners
  <2>1. d \in F
    BY <1>1, SixNames DEF FacesOf
  <2>2. FaceOf(elem, down, i) = <<d>>
    BY <1>2, Zenon DEF FaceOf
  <2>3. QuadOf(d) = corners /\ corners \in Quad
    <3>1. d.elem = elem /\ d.name = ModelFaces[i]
      OBVIOUS
    <3>2. QuadOf(d) = ModelFace(d.name, d.elem.from, d.elem.to).corners
      BY Zenon DEF QuadOf
    <3>3. corners \in Quad
      BY SixNames, QuadTyped, Zenon
    <3> QED BY <3>1, <3>2, <3>3, Zenon
  <2>4. NextQuad(mesh, elem, i) = Extend(mesh, corners, QuadOrder)
    BY <1>2, Zenon DEF NextQuad, should_draw_face
  <2> HIDE DEF d, corners
  <2>5. QuadsOf(q \o <<d>>) = Append(QuadsOf(q), corners)
    <3>1. d \in FacesOf(E, down)
      BY <1>1, <2>1
    <3>2. QuadsOf(q \o <<d>>) = Append(QuadsOf(q), QuadOf(d))
      BY <3>1, QuadsOfMore
    <3> QED BY <2>3, <3>2
  <2>6. PICK a \in Seq(Quad) : a = QuadsOf(q)
    BY QuadsOfSeq, Zenon
  <2>7. w \o Append(QuadsOf(q), corners) = Append(w \o QuadsOf(q), corners)
    <3>1. w \o Append(a, corners) = Append(w \o a, corners)
      BY <2>3, ConcatAppend
    <3> QED BY <2>6, <3>1
  <2>8. Quads(Extend(mesh, corners, QuadOrder), Append(w \o QuadsOf(q), corners))
    BY <2>3, QuadsOneMore, Zenon DEF Shown
  <2>9. Shown(NextQuad(mesh, elem, i), w, q \o <<d>>)
    BY <2>4, <2>5, <2>7, <2>8, Zenon DEF Shown
  <2>10. <<d>> \in Seq(F)
    BY <2>1
  <2> QED BY <1>1, <2>2, <2>9, <2>10, Zenon
<1>3. CASE ModelFaces[i] \notin elem.drawn
  <2>1. FaceOf(elem, down, i) = <<>>
    BY <1>3, Zenon DEF FaceOf
  <2>2. NextQuad(mesh, elem, i) = mesh
    BY <1>3, Zenon DEF NextQuad, should_draw_face
  <2>3. q \o <<>> = q /\ <<>> \in Seq(F)
    BY <1>1, ConcatEmptySeq
  <2> QED BY <1>1, <2>1, <2>2, <2>3, Zenon
<1> QED BY <1>2, <1>3

\* An element's faces behind the quads w.
ElementShown(E, down, elem, mesh, w) ==
    /\ ElementFaces(elem, down) \in Seq(FacesOf(E, down))
    /\ Shown(ElementMesh(mesh, elem), w, ElementFaces(elem, down))

LEMMA ElementShows ==
    ASSUME NEW E, AreBoxes(E), NEW elem \in E, NEW down, NEW w \in Seq(Quad), NEW mesh, Quads(mesh, w)
    PROVE  ElementShown(E, down, elem, mesh, w)
<1>1. PICK F : F = FacesOf(E, down)
  OBVIOUS
<1>2. mesh \in Meshes
  BY DEF Quads
<1>3. PICK g : ElementFold(mesh, elem, g) /\ ElementMesh(mesh, elem) = g[6]
  BY <1>2, ElementFolds
<1>4. Shown(mesh, w, <<>>)
  <2>1. QuadsOf(<<>>) = <<>>
    BY DEF QuadsOf
  <2>2. w \o <<>> = w
    BY ConcatEmptySeq
  <2> QED BY <2>1, <2>2, Zenon DEF Shown
<1>5. \A i \in 1..6 : FaceOf(elem, down, i) \in Seq(F)
  BY <1>1, <1>4, SideShown, EmptySeq
<1>6. PICK s \in Seq(Seq(F)) : /\ Len(s) = 6 /\ \A i \in 1..6 : s[i] = FaceOf(elem, down, i)
                               /\ ElementFaces(elem, down) = FlattenSeq(s)
  <2> DEFINE s == [i \in 1..6 |-> FaceOf(elem, down, i)]
  <2>1. s \in Seq(Seq(F)) /\ Len(s) = 6 /\ \A i \in 1..6 : s[i] = FaceOf(elem, down, i)
    BY <1>5
  <2>2. ElementFaces(elem, down) = FlattenSeq(s)
    BY SixNames, Zenon DEF ElementFaces
  <2> QED BY <2>1, <2>2
<1>7. PICK f : Gathers(f, s, F) /\ FlattenSeq(s) = f[6]
  BY <1>6, FlattenGathers
<1>8. f[0] = <<>> /\ \A i \in 1..6 : f[i] = f[i - 1] \o FaceOf(elem, down, i)
  BY <1>6, <1>7 DEF Gathers
<1>9. \A i \in 0..6 : f[i] \in Seq(F)
  BY <1>6, <1>7 DEF Gathers
<1> DEFINE S == {i \in Nat : i <= 6 => Shown(g[i], w, f[i])}
<1>10. 0 \in S
  <2>1. Shown(g[0], w, f[0])
    BY <1>3, <1>4, <1>8, Zenon DEF ElementFold
  <2> QED BY <2>1
<1>11. ASSUME NEW i \in Nat, i \in S PROVE i + 1 \in S
  <2> SUFFICES ASSUME i + 1 <= 6 PROVE Shown(g[i + 1], w, f[i + 1])
    OBVIOUS
  <2>1. i + 1 \in 1..6 /\ (i + 1) - 1 = i /\ i <= 6 /\ i \in 0..6
    OBVIOUS
  <2>2. Shown(g[i], w, f[i]) /\ f[i] \in Seq(F)
    BY <1>9, <1>11, <2>1
  <2>3. g[i + 1] = NextQuad(g[i], elem, i + 1)
    BY <1>3, <2>1 DEF ElementFold
  <2>4. f[i + 1] = f[i] \o FaceOf(elem, down, i + 1)
    BY <1>8, <2>1
  <2>5. f[i] \in Seq(FacesOf(E, down))
    BY <1>1, <2>2
  <2>6. Shown(NextQuad(g[i], elem, i + 1), w, f[i] \o FaceOf(elem, down, i + 1))
    BY <2>1, <2>2, <2>5, SideShown, Zenon
  <2> QED BY <2>3, <2>4, <2>6, Zenon
<1>12. Nat \subseteq S
  <2> HIDE DEF S
  <2> QED BY <1>10, <1>11, NaturalInduction
<1>13. Shown(g[6], w, f[6]) /\ f[6] \in Seq(F)
  BY <1>9, <1>12
<1> QED BY <1>1, <1>3, <1>6, <1>7, <1>13, Zenon DEF ElementShown

\* generate_model_mesh as a fold over the elements.
ModelFold(mesh, model, g) ==
    /\ g[0] = mesh
    /\ \A e \in 1..Len(model) : g[e] = ElementMesh(g[e - 1], model[e])

LEMMA ElementMeshIsMesh ==
    ASSUME NEW E, AreBoxes(E), NEW elem \in E, NEW mesh \in Meshes
    PROVE  ElementMesh(mesh, elem) \in Meshes
<1>1. PICK g : ElementFold(mesh, elem, g) /\ ElementMesh(mesh, elem) = g[6]
  BY ElementFolds
<1> DEFINE S == {i \in Nat : i <= 6 => g[i] \in Meshes}
<1>2. 0 \in S
  BY <1>1 DEF ElementFold
<1>3. ASSUME NEW i \in Nat, i \in S PROVE i + 1 \in S
  <2> SUFFICES ASSUME i + 1 <= 6 PROVE g[i + 1] \in Meshes
    OBVIOUS
  <2>1. i + 1 \in 1..6 /\ (i + 1) - 1 = i /\ g[i] \in Meshes
    BY <1>3
  <2>2. g[i + 1] = NextQuad(g[i], elem, i + 1)
    BY <1>1, <2>1 DEF ElementFold
  <2>3. NextQuad(g[i], elem, i + 1) \in Meshes
    BY <2>1, NextQuadMesh, Zenon
  <2> QED BY <2>2, <2>3
<1>4. Nat \subseteq S
  <2> HIDE DEF S
  <2> QED BY <1>2, <1>3, NaturalInduction
<1> QED BY <1>1, <1>4

LEMMA ModelFolds ==
    ASSUME NEW E, AreBoxes(E), NEW model \in Seq(E), NEW mesh \in Meshes
    PROVE  \E g : ModelFold(mesh, model, g) /\ generate_model_mesh(mesh, model) = g[Len(model)]
<1>0. PICK last \in Nat : last = Len(model)
  OBVIOUS
<1> DEFINE step == [x \in (1..last) \X Meshes |-> ElementMesh(x[2], model[x[1]])]
           body(g) == [i \in 0..last |-> IF i = 0 THEN mesh ELSE ElementMesh(g[i - 1], model[i])]
           fold == CHOOSE g : g = body(g)
<1>1. generate_model_mesh(mesh, model) = fold[last]
  BY <1>0, Zenon DEF generate_model_mesh
<1>2. /\ step \in [(1..last) \X Meshes -> Meshes]
      /\ \A i \in 1..last, m \in Meshes : step[<<i, m>>] = ElementMesh(m, model[i])
  <2>1. \A i \in 1..last : model[i] \in E
    BY <1>0, ElementOfSeq
  <2>2. \A i \in 1..last, m \in Meshes : ElementMesh(m, model[i]) \in Meshes
    BY <2>1, ElementMeshIsMesh, Zenon
  <2> QED BY <2>2
<1> HIDE DEF step
<1>3. PICK g : Folded(g, mesh, step, last, Meshes)
  BY <1>2, FoldExists
<1>4. \A i \in 1..last : i - 1 \in 0..last /\ i \in 0..last /\ i # 0
  OBVIOUS
<1>5. g = body(g)
  <2>1. g \in [0..last -> Meshes] /\ g[0] = mesh /\ \A i \in 1..last : g[i] = step[<<i, g[i - 1]>>]
    BY <1>3, Zenon DEF Folded
  <2>2. \A i \in 1..last : g[i] = ElementMesh(g[i - 1], model[i])
    BY <1>2, <1>4, <2>1
  <2>3. \A i \in 0..last : i # 0 => i \in 1..last
    OBVIOUS
  <2> QED BY <2>1, <2>2, <2>3
<1>6. fold = body(fold)
  <2> HIDE DEF body
  <2> QED BY <1>5
<1> HIDE DEF fold
<1>7. fold[0] = mesh
  BY <1>6
<1>8. \A i \in 1..last : fold[i] = ElementMesh(fold[i - 1], model[i])
  BY <1>4, <1>6
<1>9. ModelFold(mesh, model, fold)
  BY <1>0, <1>7, <1>8, Zenon DEF ModelFold
<1> QED BY <1>0, <1>1, <1>9

\* The faces of one more sequence behind those of another.
JoinQuads(p, q) == QuadsOf(p \o q) = QuadsOf(p) \o QuadsOf(q)

LEMMA QuadsOfJoined ==
    ASSUME NEW E, AreBoxes(E), NEW down, NEW p \in Seq(FacesOf(E, down)), NEW q \in Seq(FacesOf(E, down))
    PROVE  JoinQuads(p, q)
<1>1. PICK F : F = FacesOf(E, down)
  OBVIOUS
<1>2. PICK a \in Seq(Quad), b \in Seq(Quad) :
          a = QuadsOf(p) /\ b = QuadsOf(q) /\ Len(a) = Len(p) /\ Len(b) = Len(q)
  BY QuadsOfSeq, Zenon
<1>3. PICK k \in Nat, l \in Nat : k = Len(p) /\ l = Len(q)
  OBVIOUS
<1>4. PICK r : r = p \o q
  OBVIOUS
<1>5. r \in Seq(F) /\ Len(r) = k + l /\ \A j \in 1 .. k + l : r[j] = IF j <= k THEN p[j] ELSE q[j - k]
  BY <1>1, <1>3, <1>4, ConcatProperties
<1>6. PICK c : c = a \o b
  OBVIOUS
<1>7. c \in Seq(Quad) /\ Len(c) = k + l /\ \A j \in 1 .. k + l : c[j] = IF j <= k THEN a[j] ELSE b[j - k]
  <2>1. /\ c \in Seq(Quad) /\ Len(c) = Len(a) + Len(b)
        /\ \A j \in 1 .. Len(a) + Len(b) : c[j] = IF j <= Len(a) THEN a[j] ELSE b[j - Len(a)]
    BY <1>6, ConcatProperties
  <2>2. Len(a) = k /\ Len(b) = l
    BY <1>2, <1>3
  <2> QED BY <2>1, <2>2, Zenon
<1>8. PICK d \in Seq(Quad) : d = QuadsOf(r) /\ Len(d) = k + l
  BY <1>1, <1>5, QuadsOfSeq
<1>9. ASSUME NEW j \in 1 .. k + l PROVE c[j] = d[j]
  <2>1. d[j] = QuadOf(r[j])
    BY <1>5, <1>8 DEF QuadsOf
  <2>2. CASE j <= k
    <3>1. j \in 1..k
      BY <2>2
    <3>2. a[j] = QuadOf(p[j])
      BY <1>2, <1>3, <3>1 DEF QuadsOf
    <3>3. r[j] = p[j] /\ c[j] = a[j]
      BY <1>5, <1>7, <2>2
    <3> QED BY <2>1, <3>2, <3>3, Zenon
  <2>3. CASE ~(j <= k)
    <3>1. j - k \in 1..l
      BY <2>3
    <3>2. b[j - k] = QuadOf(q[j - k])
      BY <1>2, <1>3, <3>1 DEF QuadsOf
    <3>3. r[j] = q[j - k] /\ c[j] = b[j - k]
      BY <1>5, <1>7, <2>3
    <3> QED BY <2>1, <3>2, <3>3, Zenon
  <2> QED BY <2>2, <2>3
<1>10. c = d
  BY <1>7, <1>8, <1>9, SeqEqual
<1> QED BY <1>2, <1>4, <1>6, <1>8, <1>10, Zenon DEF JoinQuads

\* A model's faces behind the quads w.
ModelShown(E, down, model, mesh, w) ==
    /\ FacesDrawn(model, down) \in Seq(FacesOf(E, down))
    /\ Shown(generate_model_mesh(mesh, model), w, FacesDrawn(model, down))

LEMMA ModelShows ==
    ASSUME NEW E, AreBoxes(E), NEW model \in Seq(E), NEW down \in Int,
           NEW w \in Seq(Quad), NEW mesh, Quads(mesh, w)
    PROVE  ModelShown(E, down, model, mesh, w)
<1>1. PICK F : F = FacesOf(E, down)
  OBVIOUS
<1>2. mesh \in Meshes
  BY DEF Quads
<1>0. PICK l \in Nat : l = Len(model)
  OBVIOUS
<1>3. PICK g : ModelFold(mesh, model, g) /\ generate_model_mesh(mesh, model) = g[l]
  BY <1>0, <1>2, ModelFolds
<1>4. Shown(mesh, w, <<>>)
  <2>1. QuadsOf(<<>>) = <<>>
    BY DEF QuadsOf
  <2>2. w \o <<>> = w
    BY ConcatEmptySeq
  <2> QED BY <2>1, <2>2, Zenon DEF Shown
<1>5. \A e \in 1..l : model[e] \in E
  BY <1>0, ElementOfSeq
<1>6. PICK s \in Seq(Seq(F)) : /\ Len(s) = l /\ \A e \in 1..l : s[e] = ElementFaces(model[e], down)
                               /\ FacesDrawn(model, down) = FlattenSeq(s)
  <2>1. \A e \in 1..l : ElementFaces(model[e], down) \in Seq(F)
    BY <1>1, <1>5, ElementShows, Zenon DEF ElementShown
  <2> DEFINE s == [e \in 1..l |-> ElementFaces(model[e], down)]
  <2>2. s \in Seq(Seq(F)) /\ Len(s) = l /\ \A e \in 1..l : s[e] = ElementFaces(model[e], down)
    BY <2>1
  <2>3. DOMAIN model = 1..l
    BY <1>0
  <2>4. FacesDrawn(model, down) = FlattenSeq(s)
    BY <2>3, Zenon DEF FacesDrawn, ElementFaces, FaceOf
  <2> QED BY <2>2, <2>4
<1>7. PICK f : Gathers(f, s, F) /\ FlattenSeq(s) = f[l]
  BY <1>6, FlattenGathers
<1>8. f[0] = <<>> /\ \A e \in 1..l : f[e] = f[e - 1] \o ElementFaces(model[e], down)
  BY <1>6, <1>7 DEF Gathers
<1>9. \A e \in 0..l : f[e] \in Seq(F)
  BY <1>6, <1>7 DEF Gathers
<1> DEFINE S == {e \in Nat : e <= l => Shown(g[e], w, f[e])}
<1>10. 0 \in S
  <2>1. Shown(g[0], w, f[0])
    BY <1>3, <1>4, <1>8, Zenon DEF ModelFold
  <2> QED BY <2>1
<1>11. ASSUME NEW e \in Nat, e \in S PROVE e + 1 \in S
  <2> SUFFICES ASSUME e + 1 <= l PROVE Shown(g[e + 1], w, f[e + 1])
    OBVIOUS
  <2>1. e + 1 \in 1..l /\ (e + 1) - 1 = e /\ e <= l /\ e \in 0..l
    OBVIOUS
  <2>2. Shown(g[e], w, f[e]) /\ f[e] \in Seq(F)
    BY <1>9, <1>11, <2>1
  <2>3. PICK elem \in E : elem = model[e + 1]
    BY <1>5, <2>1
  <2>4. g[e + 1] = ElementMesh(g[e], elem)
    BY <1>0, <1>3, <2>1, <2>3 DEF ModelFold
  <2>5. PICK q : q = ElementFaces(elem, down)
    OBVIOUS
  <2>6. f[e + 1] = f[e] \o q
    BY <1>8, <2>1, <2>3, <2>5
  <2>7. PICK a \in Seq(Quad) : a = QuadsOf(f[e])
    BY <1>1, <2>2, QuadsOfSeq
  <2>8. PICK v \in Seq(Quad) : v = w \o a
    BY ConcatProperties
  <2>9. Quads(g[e], v)
    BY <2>2, <2>7, <2>8, Zenon DEF Shown
  <2>10. ElementShown(E, down, elem, g[e], v)
    BY <2>9, ElementShows, Zenon
  <2>11. q \in Seq(F) /\ Quads(ElementMesh(g[e], elem), v \o QuadsOf(q))
    BY <1>1, <2>5, <2>10, Zenon DEF ElementShown, Shown
  <2>12. PICK b \in Seq(Quad) : b = QuadsOf(q)
    BY <1>1, <2>11, QuadsOfSeq
  <2>13. v \o b = w \o (a \o b)
    <3>1. Associate(w, a, b)
      BY ConcatAssociates
    <3> QED BY <2>8, <3>1, Zenon DEF Associate
  <2>14. QuadsOf(f[e] \o q) = a \o b
    <3>1. f[e] \in Seq(FacesOf(E, down)) /\ q \in Seq(FacesOf(E, down))
      BY <1>1, <2>2, <2>11
    <3>2. PICK p \in Seq(FacesOf(E, down)) : p = f[e]
      BY <3>1
    <3>3. JoinQuads(p, q)
      BY <3>1, QuadsOfJoined, Zenon
    <3> QED BY <2>7, <2>12, <3>2, <3>3, Zenon DEF JoinQuads
  <2> QED BY <2>4, <2>6, <2>11, <2>12, <2>13, <2>14, Zenon DEF Shown
<1>12. Nat \subseteq S
  <2> HIDE DEF S
  <2> QED BY <1>10, <1>11, NaturalInduction
<1>13. Shown(g[l], w, f[l]) /\ f[l] \in Seq(F)
  BY <1>9, <1>12
<1> QED BY <1>1, <1>3, <1>6, <1>7, <1>13, Zenon DEF ModelShown

\* The quads w, each lowered by so much.
Low(v, down) == Add(v, <<0, -down, 0>>)
Lowered(w, down) == [j \in 1..Len(w) |-> [c \in 1..4 |-> Low(w[j][c], down)]]
LoweredMesh(mesh, down) ==
    [mesh EXCEPT !.vertices = [i \in DOMAIN @ |-> Add(@[i], <<0, -down, 0>>)]]

LEMMA LowVector == \A v \in Vector, down \in Int : Low(v, down) \in Vector
  BY DEF Low, Vector, Add

LEMMA LoweredQuads ==
    ASSUME NEW mesh, NEW w, Quads(mesh, w), NEW down \in Int
    PROVE  Quads(LoweredMesh(mesh, down), Lowered(w, down))
<1>1. PICK l \in Nat : l = Len(w) /\ w \in Seq(Quad)
  BY DEF Quads
<1>2. PICK s \in Seq(Vector), t \in Seq(Int) : s = mesh.vertices /\ t = mesh.indices /\ mesh = [vertices |-> s, indices |-> t]
  BY DEF Quads, Meshes
<1>3. /\ Len(s) = 4 * l /\ Len(t) = 6 * l
      /\ \A j \in 1..l, c \in 1..4 : s[4 * (j - 1) + c] = w[j][c]
      /\ \A j \in 1..l, i \in 1..6 : t[6 * (j - 1) + i] = 4 * (j - 1) + QuadOrder[i]
  BY <1>1, <1>2, Zenon DEF Quads
<1>4. PICK r : r = [i \in 1 .. 4 * l |-> Low(s[i], down)]
  OBVIOUS
<1>5. r \in Seq(Vector) /\ Len(r) = 4 * l /\ \A i \in 1 .. 4 * l : r[i] = Low(s[i], down)
  <2>1. \A i \in 1 .. 4 * l : s[i] \in Vector
    BY <1>3, ElementOfSeq
  <2>2. \A i \in 1 .. 4 * l : Low(s[i], down) \in Vector
    BY <2>1, LowVector, Zenon
  <2>3. 4 * l \in Nat
    OBVIOUS
  <2> QED BY <1>4, <2>2, <2>3
<1>6. LoweredMesh(mesh, down) = [vertices |-> r, indices |-> t]
  <2>1. DOMAIN s = 1 .. 4 * l
    BY <1>3
  <2>2. [i \in DOMAIN s |-> Add(s[i], <<0, -down, 0>>)] = r
    BY <1>4, <2>1, Zenon DEF Low
  <2>3. LoweredMesh(mesh, down) = [mesh EXCEPT !.vertices = r]
    <3>1. mesh.vertices = s
      BY <1>2, Zenon
    <3>2. LoweredMesh(mesh, down)
              = [mesh EXCEPT !.vertices = [i \in DOMAIN mesh.vertices |-> Add(mesh.vertices[i], <<0, -down, 0>>)]]
      BY Zenon DEF LoweredMesh
    <3> QED BY <2>2, <3>1, <3>2, Zenon
  <2>4. [[vertices |-> s, indices |-> t] EXCEPT !.vertices = r] = [vertices |-> r, indices |-> t]
    OBVIOUS
  <2> QED BY <1>2, <2>3, <2>4, Zenon
<1>7. PICK v : v = Lowered(w, down)
  OBVIOUS
<1>8. v \in Seq(Quad) /\ Len(v) = l /\ \A j \in 1..l, c \in 1..4 : v[j][c] = Low(w[j][c], down)
  <2>1. \A j \in 1..l, c \in 1..4 : w[j][c] \in Vector
    <3>1. \A j \in 1..l : w[j] \in Quad
      BY <1>1, ElementOfSeq
    <3> QED BY <3>1 DEF Quad
  <2>2. \A j \in 1..l, c \in 1..4 : Low(w[j][c], down) \in Vector
    BY <2>1, LowVector, Zenon
  <2>3. \A j \in 1..l : [c \in 1..4 |-> Low(w[j][c], down)] \in Quad
    BY <2>2 DEF Quad
  <2>4. v = [j \in 1..l |-> [c \in 1..4 |-> Low(w[j][c], down)]]
    BY <1>1, <1>7, Zenon DEF Lowered
  <2> QED BY <2>3, <2>4
<1>9. PICK next : next = [vertices |-> r, indices |-> t]
  OBVIOUS
<1>10. next.vertices = r /\ next.indices = t /\ next \in Meshes
  BY <1>5, <1>9 DEF Meshes
<1>11. ASSUME NEW j \in 1..l, NEW c \in 1..4 PROVE r[4 * (j - 1) + c] = v[j][c]
  <2>1. 4 * (j - 1) + c \in 1 .. 4 * l
    OBVIOUS
  <2>2. r[4 * (j - 1) + c] = Low(s[4 * (j - 1) + c], down)
    BY <1>5, <2>1, Zenon
  <2>3. s[4 * (j - 1) + c] = w[j][c]
    BY <1>3, Zenon
  <2>4. v[j][c] = Low(w[j][c], down)
    BY <1>8, Zenon
  <2> QED BY <2>2, <2>3, <2>4, Zenon
<1>12. Quads(next, v)
  BY <1>3, <1>5, <1>8, <1>10, <1>11, Zenon DEF Quads
<1> QED BY <1>6, <1>7, <1>9, <1>12, Zenon

\* The quad a face is drawn as.
IsQuadOf(quad, d) == \A c \in 1..4 : quad[c] = Low(QuadOf(d)[c], d.down)

LEMMA LowByNothing == \A v \in Vector : Low(v, 0) = v
<1> SUFFICES ASSUME NEW v \in Vector PROVE Low(v, 0) = v
  OBVIOUS
<1>1. v \in [1..3 -> Int]
  BY DEF Vector
<1>2. Low(v, 0) = [i \in 1..3 |-> v[i] + <<0, 0, 0>>[i]]
  BY DEF Low, Add
<1>3. \A i \in 1..3 : <<0, 0, 0>>[i] = 0
  OBVIOUS
<1>4. \A i \in 1..3 : v[i] + <<0, 0, 0>>[i] = v[i]
  BY <1>1, <1>3
<1>5. [i \in 1..3 |-> v[i] + <<0, 0, 0>>[i]] = [i \in 1..3 |-> v[i]]
  BY <1>4
<1> QED BY <1>1, <1>2, <1>5

\* Every face drawn of the two models is a quad of the mesh.
AllDrawn(first, second, block) == FacesDrawn(first, block) \o FacesDrawn(second, 0)

LEMMA EmptyShown == Quads(EmptyMesh, <<>>) /\ <<>> \in Seq(Quad)
<1>1. /\ EmptyMesh.vertices = <<>> /\ EmptyMesh.indices = <<>> /\ EmptyMesh \in Meshes
      /\ Len(<<>>) = 0 /\ <<>> \in Seq(Quad)
  BY DEF EmptyMesh, Meshes
<1>2. 4 * 0 = 0 /\ 6 * 0 = 0 /\ \A j : j \notin 1..0
  OBVIOUS
<1> QED BY <1>1, <1>2, Zenon DEF Quads

LEMMA RendererShows ==
    ASSUME NEW E, AreBoxes(E), NEW first \in Seq(E), NEW second \in Seq(E), NEW block \in Int
    PROVE  \E w : /\ Quads(RendererMesh(first, second, block), w)
                  /\ Len(AllDrawn(first, second, block)) = Len(w)
                  /\ \A k \in 1..Len(w) :
                        LET d == AllDrawn(first, second, block)[k]
                        IN  d \in FacesOf(E, block) \union FacesOf(E, 0) /\ IsQuadOf(w[k], d)
<1>1. PICK p, q : p = FacesDrawn(first, block) /\ q = FacesDrawn(second, 0)
  OBVIOUS
<1>2. PICK mesh : mesh = generate_model_mesh(EmptyMesh, first)
  OBVIOUS
<1>3. PICK lowered : lowered = LoweredMesh(mesh, block)
  OBVIOUS
<1>4. PICK next : next = generate_model_mesh(lowered, second)
  OBVIOUS
<1>5. RendererMesh(first, second, block) = next
  BY <1>2, <1>3, <1>4, Zenon DEF RendererMesh, LoweredMesh
<1>6. p \in Seq(FacesOf(E, block)) /\ Quads(mesh, QuadsOf(p))
  <2>1. Quads(EmptyMesh, <<>>) /\ <<>> \in Seq(Quad)
    BY EmptyShown
  <2>2. ModelShown(E, block, first, EmptyMesh, <<>>)
    BY <2>1, ModelShows
  <2>3. p \in Seq(FacesOf(E, block)) /\ Quads(mesh, <<>> \o QuadsOf(p))
    BY <1>1, <1>2, <2>2, Zenon DEF ModelShown, Shown
  <2>4. QuadsOf(p) \in Seq(Quad)
    BY <2>3, QuadsOfSeq, Zenon
  <2>5. <<>> \o QuadsOf(p) = QuadsOf(p)
    BY <2>4, ConcatEmptySeq
  <2> QED BY <2>3, <2>5
<1>7. PICK a \in Seq(Quad) : a = QuadsOf(p) /\ Len(a) = Len(p)
  BY <1>6, QuadsOfSeq
<1>8. PICK v : v = Lowered(a, block)
  OBVIOUS
<1>9. Quads(lowered, v)
  BY <1>3, <1>6, <1>7, <1>8, LoweredQuads, Zenon
<1>10. v \in Seq(Quad)
  BY <1>9, Zenon DEF Quads
<1>11. q \in Seq(FacesOf(E, 0)) /\ Quads(next, v \o QuadsOf(q))
  <2>1. 0 \in Int
    OBVIOUS
  <2>2. ModelShown(E, 0, second, lowered, v)
    BY <1>9, <1>10, <2>1, ModelShows
  <2> QED BY <1>1, <1>4, <2>2, Zenon DEF ModelShown, Shown
<1>12. PICK b \in Seq(Quad) : b = QuadsOf(q) /\ Len(b) = Len(q)
  BY <1>11, QuadsOfSeq
<1>13. PICK k \in Nat, l \in Nat : k = Len(p) /\ l = Len(q)
  BY <1>6, <1>11
<1>14. PICK w : w = v \o b
  OBVIOUS
<1>15. Len(v) = k /\ \A j \in 1..k, c \in 1..4 : v[j][c] = Low(a[j][c], block)
  BY <1>7, <1>8, <1>13 DEF Lowered
<1>16. Len(w) = k + l /\ \A j \in 1 .. k + l : w[j] = IF j <= k THEN v[j] ELSE b[j - k]
  <2>1. Len(w) = Len(v) + Len(b) /\ \A j \in 1 .. Len(v) + Len(b) : w[j] = IF j <= Len(v) THEN v[j] ELSE b[j - Len(v)]
    BY <1>10, <1>14, ConcatProperties
  <2>2. Len(b) = l
    BY <1>12, <1>13
  <2> QED BY <1>15, <2>1, <2>2, Zenon
<1>17. PICK all : all = AllDrawn(first, second, block)
  OBVIOUS
<1>18. Len(all) = k + l /\ \A j \in 1 .. k + l : all[j] = IF j <= k THEN p[j] ELSE q[j - k]
  <2>1. PICK F : F = FacesOf(E, block) \union FacesOf(E, 0)
    OBVIOUS
  <2>2. p \in Seq(F) /\ q \in Seq(F)
    BY <1>6, <1>11, <2>1, SeqMonotonic
  <2>3. all = p \o q
    BY <1>1, <1>17, Zenon DEF AllDrawn
  <2>4. Len(all) = Len(p) + Len(q) /\ \A j \in 1 .. Len(p) + Len(q) : all[j] = IF j <= Len(p) THEN p[j] ELSE q[j - Len(p)]
    BY <2>2, <2>3, ConcatProperties
  <2> QED BY <1>13, <2>4, Zenon
<1>19. ASSUME NEW j \in 1 .. k + l
       PROVE  all[j] \in FacesOf(E, block) \union FacesOf(E, 0) /\ IsQuadOf(w[j], all[j])
  <2>1. CASE j <= k
    <3>1. j \in 1..k
      BY <2>1
    <3>2. PICK d \in FacesOf(E, block) : d = p[j]
      BY <1>6, <1>13, <3>1, ElementOfSeq
    <3>3. d.down = block
      BY <3>2, DownOfFace, Zenon
    <3>4. a[j] = QuadOf(d)
      BY <1>7, <1>13, <3>1, <3>2 DEF QuadsOf
    <3>5. all[j] = d /\ w[j] = v[j]
      BY <1>16, <1>18, <2>1, <3>2
    <3>6. IsQuadOf(v[j], d)
      BY <1>15, <3>1, <3>3, <3>4, Zenon DEF IsQuadOf
    <3> QED BY <3>5, <3>6
  <2>2. CASE ~(j <= k)
    <3>1. j - k \in 1..l
      BY <2>2
    <3>2. PICK d \in FacesOf(E, 0) : d = q[j - k]
      BY <1>11, <1>13, <3>1, ElementOfSeq
    <3>3. d.down = 0
      BY <3>2, DownOfFace, Zenon
    <3>4. b[j - k] = QuadOf(d)
      BY <1>12, <1>13, <3>1, <3>2 DEF QuadsOf
    <3>5. all[j] = d /\ w[j] = b[j - k]
      BY <1>16, <1>18, <2>2, <3>2
    <3>6. \A c \in 1..4 : QuadOf(d)[c] \in Vector
      <4>1. QuadOf(d) \in Quad
        BY QuadOfFace
      <4> QED BY <4>1 DEF Quad
    <3>7. \A c \in 1..4 : Low(QuadOf(d)[c], 0) = QuadOf(d)[c]
      BY <3>6, LowByNothing, Zenon
    <3>8. IsQuadOf(b[j - k], d)
      BY <3>3, <3>4, <3>7, Zenon DEF IsQuadOf
    <3> QED BY <3>5, <3>8
  <2> QED BY <2>1, <2>2
<1> QED BY <1>5, <1>11, <1>12, <1>14, <1>16, <1>17, <1>18, <1>19, Zenon

-----------------------------------------------------------------------------
(* The quad of a face is the rectangle seen from outside.                  *)

\* Two edges along the axes i and j turn around k, upwards for 1 and downwards for -1.
Turn(i, j, k, s) ==
    <<i, j, k, s>> \in {<<1, 3, 2, -1>>, <<3, 1, 2, 1>>, <<2, 1, 3, -1>>, <<1, 2, 3, 1>>, <<2, 3, 1, 1>>, <<3, 2, 1, -1>>}

Points(normal, i, j, k, s) == normal[i] = 0 /\ normal[j] = 0 /\ normal[k] = s

LEMMA TurnCases ==
    ASSUME NEW i, NEW j, NEW k, NEW s, Turn(i, j, k, s)
    PROVE  \/ i = 1 /\ j = 3 /\ k = 2 /\ s = -1
           \/ i = 3 /\ j = 1 /\ k = 2 /\ s = 1
           \/ i = 2 /\ j = 1 /\ k = 3 /\ s = -1
           \/ i = 1 /\ j = 2 /\ k = 3 /\ s = 1
           \/ i = 2 /\ j = 3 /\ k = 1 /\ s = 1
           \/ i = 3 /\ j = 2 /\ k = 1 /\ s = -1
  BY DEF Turn

LEMMA EdgesTurn ==
    ASSUME NEW i, NEW j, NEW k, NEW s, Turn(i, j, k, s),
           NEW p \in Int, NEW q \in Int, p * q > 0,
           NEW v, NEW w, v[i] = p, v[j] = 0, v[k] = 0, w[i] = 0, w[j] = q, w[k] = 0,
           NEW m, IsCross(v, w, m), NEW normal, Points(normal, i, j, k, s)
    PROVE  Outward(normal, m)
<1>1. PICK a \in Int : a = p * q /\ a > 0
  OBVIOUS
<1>2. q * p = a /\ 0 * 0 = 0 /\ p * 0 = 0 /\ 0 * p = 0 /\ q * 0 = 0 /\ 0 * q = 0
  BY <1>1
<1>3. CASE i = 1 /\ j = 3 /\ k = 2 /\ s = -1
  <2>1. /\ v[1] = p /\ v[3] = 0 /\ v[2] = 0 /\ w[1] = 0 /\ w[3] = q /\ w[2] = 0
        /\ normal[1] = 0 /\ normal[3] = 0 /\ normal[2] = -1
    BY <1>3 DEF Points
  <2>2. m[1] = 0 /\ m[3] = 0 /\ m[2] = -a
    BY <1>1, <1>2, <2>1 DEF IsCross
  <2> QED BY <1>1, <2>1, <2>2 DEF Outward
<1>4. CASE i = 3 /\ j = 1 /\ k = 2 /\ s = 1
  <2>1. /\ v[3] = p /\ v[1] = 0 /\ v[2] = 0 /\ w[3] = 0 /\ w[1] = q /\ w[2] = 0
        /\ normal[3] = 0 /\ normal[1] = 0 /\ normal[2] = 1
    BY <1>4 DEF Points
  <2>2. m[3] = 0 /\ m[1] = 0 /\ m[2] = a
    BY <1>1, <1>2, <2>1 DEF IsCross
  <2> QED BY <1>1, <2>1, <2>2 DEF Outward
<1>5. CASE i = 2 /\ j = 1 /\ k = 3 /\ s = -1
  <2>1. /\ v[2] = p /\ v[1] = 0 /\ v[3] = 0 /\ w[2] = 0 /\ w[1] = q /\ w[3] = 0
        /\ normal[2] = 0 /\ normal[1] = 0 /\ normal[3] = -1
    BY <1>5 DEF Points
  <2>2. m[2] = 0 /\ m[1] = 0 /\ m[3] = -a
    BY <1>1, <1>2, <2>1 DEF IsCross
  <2> QED BY <1>1, <2>1, <2>2 DEF Outward
<1>6. CASE i = 1 /\ j = 2 /\ k = 3 /\ s = 1
  <2>1. /\ v[1] = p /\ v[2] = 0 /\ v[3] = 0 /\ w[1] = 0 /\ w[2] = q /\ w[3] = 0
        /\ normal[1] = 0 /\ normal[2] = 0 /\ normal[3] = 1
    BY <1>6 DEF Points
  <2>2. m[1] = 0 /\ m[2] = 0 /\ m[3] = a
    BY <1>1, <1>2, <2>1 DEF IsCross
  <2> QED BY <1>1, <2>1, <2>2 DEF Outward
<1>7. CASE i = 2 /\ j = 3 /\ k = 1 /\ s = 1
  <2>1. /\ v[2] = p /\ v[3] = 0 /\ v[1] = 0 /\ w[2] = 0 /\ w[3] = q /\ w[1] = 0
        /\ normal[2] = 0 /\ normal[3] = 0 /\ normal[1] = 1
    BY <1>7 DEF Points
  <2>2. m[2] = 0 /\ m[3] = 0 /\ m[1] = a
    BY <1>1, <1>2, <2>1 DEF IsCross
  <2> QED BY <1>1, <2>1, <2>2 DEF Outward
<1>8. CASE i = 3 /\ j = 2 /\ k = 1 /\ s = -1
  <2>1. /\ v[3] = p /\ v[2] = 0 /\ v[1] = 0 /\ w[3] = 0 /\ w[2] = q /\ w[1] = 0
        /\ normal[3] = 0 /\ normal[2] = 0 /\ normal[1] = -1
    BY <1>8 DEF Points
  <2>2. m[3] = 0 /\ m[2] = 0 /\ m[1] = -a
    BY <1>1, <1>2, <2>1 DEF IsCross
  <2> QED BY <1>1, <2>1, <2>2 DEF Outward
<1> QED BY <1>3, <1>4, <1>5, <1>6, <1>7, <1>8, TurnCases

\* v2 lies p from v1 along i, v3 lies q from it along j, and v4 both.
IsRectangle(i, j, k, p, q, v1, v2, v3, v4) ==
    /\ v1 \in Vector /\ v2 \in Vector /\ v3 \in Vector /\ v4 \in Vector
    /\ v2[i] = v1[i] + p /\ v2[j] = v1[j] /\ v2[k] = v1[k]
    /\ v3[i] = v1[i] /\ v3[j] = v1[j] + q /\ v3[k] = v1[k]
    /\ v4[i] = v1[i] + p /\ v4[j] = v1[j] + q /\ v4[k] = v1[k]

LEMMA CornerTurns ==
    ASSUME NEW i, NEW j, NEW k, NEW s, Turn(i, j, k, s), NEW normal, Points(normal, i, j, k, s),
           NEW a \in Vector, NEW b \in Vector, NEW c \in Vector,
           NEW p \in Int, NEW q \in Int, p * q > 0,
           b[i] = a[i] + p, b[j] = a[j], b[k] = a[k], c[i] = a[i], c[j] = a[j] + q, c[k] = a[k]
    PROVE  Outward(normal, Normal(<<a, b, c>>))
<1> DEFINE v == [x \in 1..3 |-> b[x] - a[x]]
           w == [x \in 1..3 |-> c[x] - a[x]]
           m == Normal(<<a, b, c>>)
<1>1. \A x \in 1..3 : a[x] \in Int /\ b[x] \in Int /\ c[x] \in Int
  BY DEF Vector
<1>2. i \in 1..3 /\ j \in 1..3 /\ k \in 1..3
  BY TurnCases
<1>3. \A x \in 1..3 : v[x] = b[x] - a[x] /\ w[x] = c[x] - a[x]
  OBVIOUS
<1>4. /\ m[1] = (b[2] - a[2]) * (c[3] - a[3]) - (c[2] - a[2]) * (b[3] - a[3])
      /\ m[2] = (b[3] - a[3]) * (c[1] - a[1]) - (c[3] - a[3]) * (b[1] - a[1])
      /\ m[3] = (b[1] - a[1]) * (c[2] - a[2]) - (c[1] - a[1]) * (b[2] - a[2])
  BY NormalAt, Zenon
<1>5. /\ v[1] = b[1] - a[1] /\ v[2] = b[2] - a[2] /\ v[3] = b[3] - a[3]
      /\ w[1] = c[1] - a[1] /\ w[2] = c[2] - a[2] /\ w[3] = c[3] - a[3]
  OBVIOUS
<1> HIDE DEF v, w, m
<1>6. IsCross(v, w, m)
  BY <1>4, <1>5, Zenon DEF IsCross
<1>7. v[i] = p /\ v[j] = 0 /\ v[k] = 0 /\ w[i] = 0 /\ w[j] = q /\ w[k] = 0
  BY <1>1, <1>2, <1>3
<1>8. Outward(normal, m)
  BY <1>6, <1>7, EdgesTurn, Zenon
<1> QED BY <1>8 DEF m

LEMMA RectangleCovers ==
    ASSUME NEW i, NEW j, NEW k, NEW s, Turn(i, j, k, s), NEW normal, Points(normal, i, j, k, s),
           NEW p \in Int, NEW q \in Int, p > 0, q > 0,
           NEW v1, NEW v2, NEW v3, NEW v4, IsRectangle(i, j, k, p, q, v1, v2, v3, v4)
    PROVE  Covers(<<v1, v2, v3>>, <<v4, v3, v2>>, {v1, v2, v3, v4}, normal)
<1> DEFINE t == <<v1, v2, v3>>
           u == <<v4, v3, v2>>
<1>1. /\ v1 \in Vector /\ v2 \in Vector /\ v3 \in Vector /\ v4 \in Vector
      /\ v2[i] = v1[i] + p /\ v2[j] = v1[j] /\ v2[k] = v1[k]
      /\ v3[i] = v1[i] /\ v3[j] = v1[j] + q /\ v3[k] = v1[k]
      /\ v4[i] = v1[i] + p /\ v4[j] = v1[j] + q /\ v4[k] = v1[k]
  BY Zenon DEF IsRectangle
<1>2. i \in 1..3 /\ j \in 1..3 /\ k \in 1..3
  BY TurnCases
<1>3. /\ v1[i] \in Int /\ v2[i] \in Int /\ v3[i] \in Int /\ v4[i] \in Int
      /\ v1[j] \in Int /\ v2[j] \in Int /\ v3[j] \in Int /\ v4[j] \in Int
  BY <1>1, <1>2 DEF Vector
<1>4. v1 # v2 /\ v1 # v3 /\ v2 # v3 /\ v2 # v4 /\ v3 # v4
  BY <1>1, <1>3
<1>5. Outward(normal, Normal(t))
  <2>1. p * q > 0
    OBVIOUS
  <2> QED BY <1>1, <2>1, CornerTurns
<1>6. Outward(normal, Normal(u))
  <2>1. PICK x \in Int, y \in Int : x = -p /\ y = -q
    OBVIOUS
  <2>2. x * y > 0
    BY <2>1
  <2>3. v3[i] = v4[i] + x /\ v3[j] = v4[j] /\ v3[k] = v4[k] /\ v2[i] = v4[i] /\ v2[j] = v4[j] + y /\ v2[k] = v4[k]
    BY <1>1, <1>3, <2>1
  <2> QED BY <1>1, <2>2, <2>3, CornerTurns
<1>7. Range(t) = {v1, v2, v3} /\ Range(u) = {v4, v3, v2}
  BY DEF Range
<1> HIDE DEF t, u
<1>8. Range(t) \union Range(u) = {v1, v2, v3, v4}
  BY <1>7
<1>9. Cardinality(Range(t) \intersect Range(u)) = 2
  <2>1. v1 # v4
    BY <1>1, <1>3
  <2>2. Range(t) \intersect Range(u) = {v2, v3}
    BY <1>4, <1>7, <2>1
  <2>3. Cardinality({v2, v3}) = 2
    BY <1>4, TwoElements
  <2> QED BY <2>2, <2>3, Zenon
<1>10. Cardinality(Range(t)) = 3 /\ Cardinality(Range(u)) = 3
  <2>1. Cardinality({v1, v2, v3}) = 3
    BY <1>4, ThreeElements
  <2>2. Cardinality({v4, v3, v2}) = 3
    BY <1>4, ThreeElements
  <2> QED BY <1>7, <2>1, <2>2, Zenon
<1>11. Covers(t, u, {v1, v2, v3, v4}, normal)
  BY <1>5, <1>6, <1>8, <1>9, <1>10, Zenon DEF Covers, Outward
<1> QED BY <1>11 DEF t, u

\* The corner of these coordinates, lowered.
IsCorner(v, x, y, z, down) == v \in Vector /\ v[1] = x /\ v[2] = y - down /\ v[3] = z

LEMMA LowAt ==
    ASSUME NEW x \in Int, NEW y \in Int, NEW z \in Int, NEW down \in Int
    PROVE  IsCorner(Low(<<x, y, z>>, down), x, y, z, down)
<1>1. PICK v : v = [i \in 1..3 |-> <<x, y, z>>[i] + <<0, -down, 0>>[i]]
  OBVIOUS
<1>2. Low(<<x, y, z>>, down) = v
  BY <1>1, Zenon DEF Low, Add
<1>3. /\ <<x, y, z>>[1] = x /\ <<x, y, z>>[2] = y /\ <<x, y, z>>[3] = z
      /\ <<0, -down, 0>>[1] = 0 /\ <<0, -down, 0>>[2] = -down /\ <<0, -down, 0>>[3] = 0
  OBVIOUS
<1>4. v[1] = x /\ v[2] = y - down /\ v[3] = z
  BY <1>1, <1>3
<1>5. v = [i \in 1..3 |-> v[i]]
  BY <1>1
<1>6. v \in Vector
  BY <1>4, <1>5 DEF Vector
<1> QED BY <1>2, <1>4, <1>6, Zenon DEF IsCorner

\* What there is between sides of a box, lowered.
Between(X, Y, Z, down) == {Low(<<x, y, z>>, down) : x \in X, y \in Y, z \in Z}

\* The quad of a face.
FaceRectangle(d, quad) ==
    /\ \E i, j, k, s :
          /\ Turn(i, j, k, s) /\ Points(ModelFace(d.name, d.elem.from, d.elem.to).normal, i, j, k, s)
          /\ IsRectangle(i, j, k, d.elem.to[i] - d.elem.from[i], d.elem.to[j] - d.elem.from[j],
                         quad[1], quad[2], quad[3], quad[4])
    /\ QuadCorners(d) = {quad[1], quad[2], quad[3], quad[4]}

LEMMA FaceIsRectangle ==
    ASSUME NEW E, AreBoxes(E), NEW down \in Int, NEW d \in FacesOf(E, down), NEW quad, IsQuadOf(quad, d)
    PROVE  FaceRectangle(d, quad)
<1>1. PICK e \in E, name \in Range(ModelFaces) : d = [elem |-> e, name |-> name, down |-> down]
  BY DEF FacesOf
<1>2. PICK f \in Int \X Int \X Int, t \in Int \X Int \X Int : f = e.from /\ t = e.to
  BY DEF AreBoxes
<1>3. d.elem = e /\ d.name = name /\ d.down = down
  BY <1>1
<1>4. d.elem.from = f /\ d.elem.to = t
  BY <1>2, <1>3
<1>5. f[1] \in Int /\ f[2] \in Int /\ f[3] \in Int /\ t[1] \in Int /\ t[2] \in Int /\ t[3] \in Int
  OBVIOUS
<1>6. name \in {"down", "up", "north", "south", "east", "west"}
  BY SixNames
<1>7. \A c \in 1..4 : quad[c] = Low(ModelFace(name, f, t).corners[c], down)
  BY <1>3, <1>4, Zenon DEF IsQuadOf, QuadOf
<1>8. 1 \in 1..4 /\ 2 \in 1..4 /\ 3 \in 1..4 /\ 4 \in 1..4
  OBVIOUS
<1>9. CASE name = "down"
  <2>1. PICK corners : /\ corners = << <<f[1], f[2], f[3]>>, <<t[1], f[2], f[3]>>, <<f[1], f[2], t[3]>>, <<t[1], f[2], t[3]>> >>
                       /\ ModelFace(name, f, t).corners = corners
                       /\ ModelFace(name, f, t).normal = <<0, -1, 0>>
    BY <1>9 DEF ModelFace
  <2>2. /\ corners[1] = <<f[1], f[2], f[3]>> /\ corners[2] = <<t[1], f[2], f[3]>>
        /\ corners[3] = <<f[1], f[2], t[3]>> /\ corners[4] = <<t[1], f[2], t[3]>>
    BY <2>1
  <2>3. /\ quad[1] = Low(<<f[1], f[2], f[3]>>, down) /\ quad[2] = Low(<<t[1], f[2], f[3]>>, down)
        /\ quad[3] = Low(<<f[1], f[2], t[3]>>, down) /\ quad[4] = Low(<<t[1], f[2], t[3]>>, down)
    BY <1>7, <1>8, <2>1, <2>2, Zenon
  <2>4. IsCorner(quad[1], f[1], f[2], f[3], down)
    BY <1>5, <2>3, LowAt, Zenon
  <2>5. IsCorner(quad[2], t[1], f[2], f[3], down)
    BY <1>5, <2>3, LowAt, Zenon
  <2>6. IsCorner(quad[3], f[1], f[2], t[3], down)
    BY <1>5, <2>3, LowAt, Zenon
  <2>7. IsCorner(quad[4], t[1], f[2], t[3], down)
    BY <1>5, <2>3, LowAt, Zenon
  <2>8. IsRectangle(1, 3, 2, t[1] - f[1], t[3] - f[3], quad[1], quad[2], quad[3], quad[4])
    BY <1>5, <2>4, <2>5, <2>6, <2>7 DEF IsRectangle, IsCorner
  <2>9. Turn(1, 3, 2, -1) /\ Points(ModelFace(name, f, t).normal, 1, 3, 2, -1)
    BY <2>1 DEF Turn, Points
  <2>10. QuadCorners(d) = Between({f[1], t[1]}, {f[2]}, {f[3], t[3]}, down)
    BY <1>3, <1>4, <1>9 DEF QuadCorners, Between, Low
  <2>11. Between({f[1], t[1]}, {f[2]}, {f[3], t[3]}, down) = {quad[1], quad[2], quad[3], quad[4]}
    BY <2>3 DEF Between
  <2>12. QuadCorners(d) = {quad[1], quad[2], quad[3], quad[4]}
    BY <2>10, <2>11
  <2> QED BY <1>3, <1>4, <2>8, <2>9, <2>12, Zenon DEF FaceRectangle
<1>10. CASE name = "up"
  <2>1. PICK corners : /\ corners = << <<f[1], t[2], f[3]>>, <<f[1], t[2], t[3]>>, <<t[1], t[2], f[3]>>, <<t[1], t[2], t[3]>> >>
                       /\ ModelFace(name, f, t).corners = corners
                       /\ ModelFace(name, f, t).normal = <<0, 1, 0>>
    BY <1>10 DEF ModelFace
  <2>2. /\ corners[1] = <<f[1], t[2], f[3]>> /\ corners[2] = <<f[1], t[2], t[3]>>
        /\ corners[3] = <<t[1], t[2], f[3]>> /\ corners[4] = <<t[1], t[2], t[3]>>
    BY <2>1
  <2>3. /\ quad[1] = Low(<<f[1], t[2], f[3]>>, down) /\ quad[2] = Low(<<f[1], t[2], t[3]>>, down)
        /\ quad[3] = Low(<<t[1], t[2], f[3]>>, down) /\ quad[4] = Low(<<t[1], t[2], t[3]>>, down)
    BY <1>7, <1>8, <2>1, <2>2, Zenon
  <2>4. IsCorner(quad[1], f[1], t[2], f[3], down)
    BY <1>5, <2>3, LowAt, Zenon
  <2>5. IsCorner(quad[2], f[1], t[2], t[3], down)
    BY <1>5, <2>3, LowAt, Zenon
  <2>6. IsCorner(quad[3], t[1], t[2], f[3], down)
    BY <1>5, <2>3, LowAt, Zenon
  <2>7. IsCorner(quad[4], t[1], t[2], t[3], down)
    BY <1>5, <2>3, LowAt, Zenon
  <2>8. IsRectangle(3, 1, 2, t[3] - f[3], t[1] - f[1], quad[1], quad[2], quad[3], quad[4])
    BY <1>5, <2>4, <2>5, <2>6, <2>7 DEF IsRectangle, IsCorner
  <2>9. Turn(3, 1, 2, 1) /\ Points(ModelFace(name, f, t).normal, 3, 1, 2, 1)
    BY <2>1 DEF Turn, Points
  <2>10. QuadCorners(d) = Between({f[1], t[1]}, {t[2]}, {f[3], t[3]}, down)
    BY <1>3, <1>4, <1>10 DEF QuadCorners, Between, Low
  <2>11. Between({f[1], t[1]}, {t[2]}, {f[3], t[3]}, down) = {quad[1], quad[2], quad[3], quad[4]}
    BY <2>3 DEF Between
  <2>12. QuadCorners(d) = {quad[1], quad[2], quad[3], quad[4]}
    BY <2>10, <2>11
  <2> QED BY <1>3, <1>4, <2>8, <2>9, <2>12, Zenon DEF FaceRectangle
<1>11. CASE name = "north"
  <2>1. PICK corners : /\ corners = << <<f[1], f[2], f[3]>>, <<f[1], t[2], f[3]>>, <<t[1], f[2], f[3]>>, <<t[1], t[2], f[3]>> >>
                       /\ ModelFace(name, f, t).corners = corners
                       /\ ModelFace(name, f, t).normal = <<0, 0, -1>>
    BY <1>11 DEF ModelFace
  <2>2. /\ corners[1] = <<f[1], f[2], f[3]>> /\ corners[2] = <<f[1], t[2], f[3]>>
        /\ corners[3] = <<t[1], f[2], f[3]>> /\ corners[4] = <<t[1], t[2], f[3]>>
    BY <2>1
  <2>3. /\ quad[1] = Low(<<f[1], f[2], f[3]>>, down) /\ quad[2] = Low(<<f[1], t[2], f[3]>>, down)
        /\ quad[3] = Low(<<t[1], f[2], f[3]>>, down) /\ quad[4] = Low(<<t[1], t[2], f[3]>>, down)
    BY <1>7, <1>8, <2>1, <2>2, Zenon
  <2>4. IsCorner(quad[1], f[1], f[2], f[3], down)
    BY <1>5, <2>3, LowAt, Zenon
  <2>5. IsCorner(quad[2], f[1], t[2], f[3], down)
    BY <1>5, <2>3, LowAt, Zenon
  <2>6. IsCorner(quad[3], t[1], f[2], f[3], down)
    BY <1>5, <2>3, LowAt, Zenon
  <2>7. IsCorner(quad[4], t[1], t[2], f[3], down)
    BY <1>5, <2>3, LowAt, Zenon
  <2>8. IsRectangle(2, 1, 3, t[2] - f[2], t[1] - f[1], quad[1], quad[2], quad[3], quad[4])
    BY <1>5, <2>4, <2>5, <2>6, <2>7 DEF IsRectangle, IsCorner
  <2>9. Turn(2, 1, 3, -1) /\ Points(ModelFace(name, f, t).normal, 2, 1, 3, -1)
    BY <2>1 DEF Turn, Points
  <2>10. QuadCorners(d) = Between({f[1], t[1]}, {f[2], t[2]}, {f[3]}, down)
    BY <1>3, <1>4, <1>11 DEF QuadCorners, Between, Low
  <2>11. Between({f[1], t[1]}, {f[2], t[2]}, {f[3]}, down) = {quad[1], quad[2], quad[3], quad[4]}
    BY <2>3 DEF Between
  <2>12. QuadCorners(d) = {quad[1], quad[2], quad[3], quad[4]}
    BY <2>10, <2>11
  <2> QED BY <1>3, <1>4, <2>8, <2>9, <2>12, Zenon DEF FaceRectangle
<1>12. CASE name = "south"
  <2>1. PICK corners : /\ corners = << <<f[1], f[2], t[3]>>, <<t[1], f[2], t[3]>>, <<f[1], t[2], t[3]>>, <<t[1], t[2], t[3]>> >>
                       /\ ModelFace(name, f, t).corners = corners
                       /\ ModelFace(name, f, t).normal = <<0, 0, 1>>
    BY <1>12 DEF ModelFace
  <2>2. /\ corners[1] = <<f[1], f[2], t[3]>> /\ corners[2] = <<t[1], f[2], t[3]>>
        /\ corners[3] = <<f[1], t[2], t[3]>> /\ corners[4] = <<t[1], t[2], t[3]>>
    BY <2>1
  <2>3. /\ quad[1] = Low(<<f[1], f[2], t[3]>>, down) /\ quad[2] = Low(<<t[1], f[2], t[3]>>, down)
        /\ quad[3] = Low(<<f[1], t[2], t[3]>>, down) /\ quad[4] = Low(<<t[1], t[2], t[3]>>, down)
    BY <1>7, <1>8, <2>1, <2>2, Zenon
  <2>4. IsCorner(quad[1], f[1], f[2], t[3], down)
    BY <1>5, <2>3, LowAt, Zenon
  <2>5. IsCorner(quad[2], t[1], f[2], t[3], down)
    BY <1>5, <2>3, LowAt, Zenon
  <2>6. IsCorner(quad[3], f[1], t[2], t[3], down)
    BY <1>5, <2>3, LowAt, Zenon
  <2>7. IsCorner(quad[4], t[1], t[2], t[3], down)
    BY <1>5, <2>3, LowAt, Zenon
  <2>8. IsRectangle(1, 2, 3, t[1] - f[1], t[2] - f[2], quad[1], quad[2], quad[3], quad[4])
    BY <1>5, <2>4, <2>5, <2>6, <2>7 DEF IsRectangle, IsCorner
  <2>9. Turn(1, 2, 3, 1) /\ Points(ModelFace(name, f, t).normal, 1, 2, 3, 1)
    BY <2>1 DEF Turn, Points
  <2>10. QuadCorners(d) = Between({f[1], t[1]}, {f[2], t[2]}, {t[3]}, down)
    BY <1>3, <1>4, <1>12 DEF QuadCorners, Between, Low
  <2>11. Between({f[1], t[1]}, {f[2], t[2]}, {t[3]}, down) = {quad[1], quad[2], quad[3], quad[4]}
    BY <2>3 DEF Between
  <2>12. QuadCorners(d) = {quad[1], quad[2], quad[3], quad[4]}
    BY <2>10, <2>11
  <2> QED BY <1>3, <1>4, <2>8, <2>9, <2>12, Zenon DEF FaceRectangle
<1>13. CASE name = "east"
  <2>1. PICK corners : /\ corners = << <<t[1], f[2], f[3]>>, <<t[1], t[2], f[3]>>, <<t[1], f[2], t[3]>>, <<t[1], t[2], t[3]>> >>
                       /\ ModelFace(name, f, t).corners = corners
                       /\ ModelFace(name, f, t).normal = <<1, 0, 0>>
    BY <1>13 DEF ModelFace
  <2>2. /\ corners[1] = <<t[1], f[2], f[3]>> /\ corners[2] = <<t[1], t[2], f[3]>>
        /\ corners[3] = <<t[1], f[2], t[3]>> /\ corners[4] = <<t[1], t[2], t[3]>>
    BY <2>1
  <2>3. /\ quad[1] = Low(<<t[1], f[2], f[3]>>, down) /\ quad[2] = Low(<<t[1], t[2], f[3]>>, down)
        /\ quad[3] = Low(<<t[1], f[2], t[3]>>, down) /\ quad[4] = Low(<<t[1], t[2], t[3]>>, down)
    BY <1>7, <1>8, <2>1, <2>2, Zenon
  <2>4. IsCorner(quad[1], t[1], f[2], f[3], down)
    BY <1>5, <2>3, LowAt, Zenon
  <2>5. IsCorner(quad[2], t[1], t[2], f[3], down)
    BY <1>5, <2>3, LowAt, Zenon
  <2>6. IsCorner(quad[3], t[1], f[2], t[3], down)
    BY <1>5, <2>3, LowAt, Zenon
  <2>7. IsCorner(quad[4], t[1], t[2], t[3], down)
    BY <1>5, <2>3, LowAt, Zenon
  <2>8. IsRectangle(2, 3, 1, t[2] - f[2], t[3] - f[3], quad[1], quad[2], quad[3], quad[4])
    BY <1>5, <2>4, <2>5, <2>6, <2>7 DEF IsRectangle, IsCorner
  <2>9. Turn(2, 3, 1, 1) /\ Points(ModelFace(name, f, t).normal, 2, 3, 1, 1)
    BY <2>1 DEF Turn, Points
  <2>10. QuadCorners(d) = Between({t[1]}, {f[2], t[2]}, {f[3], t[3]}, down)
    BY <1>3, <1>4, <1>13 DEF QuadCorners, Between, Low
  <2>11. Between({t[1]}, {f[2], t[2]}, {f[3], t[3]}, down) = {quad[1], quad[2], quad[3], quad[4]}
    BY <2>3 DEF Between
  <2>12. QuadCorners(d) = {quad[1], quad[2], quad[3], quad[4]}
    BY <2>10, <2>11
  <2> QED BY <1>3, <1>4, <2>8, <2>9, <2>12, Zenon DEF FaceRectangle
<1>14. CASE name = "west"
  <2>1. PICK corners : /\ corners = << <<f[1], f[2], f[3]>>, <<f[1], f[2], t[3]>>, <<f[1], t[2], f[3]>>, <<f[1], t[2], t[3]>> >>
                       /\ ModelFace(name, f, t).corners = corners
                       /\ ModelFace(name, f, t).normal = <<-1, 0, 0>>
    BY <1>14 DEF ModelFace
  <2>2. /\ corners[1] = <<f[1], f[2], f[3]>> /\ corners[2] = <<f[1], f[2], t[3]>>
        /\ corners[3] = <<f[1], t[2], f[3]>> /\ corners[4] = <<f[1], t[2], t[3]>>
    BY <2>1
  <2>3. /\ quad[1] = Low(<<f[1], f[2], f[3]>>, down) /\ quad[2] = Low(<<f[1], f[2], t[3]>>, down)
        /\ quad[3] = Low(<<f[1], t[2], f[3]>>, down) /\ quad[4] = Low(<<f[1], t[2], t[3]>>, down)
    BY <1>7, <1>8, <2>1, <2>2, Zenon
  <2>4. IsCorner(quad[1], f[1], f[2], f[3], down)
    BY <1>5, <2>3, LowAt, Zenon
  <2>5. IsCorner(quad[2], f[1], f[2], t[3], down)
    BY <1>5, <2>3, LowAt, Zenon
  <2>6. IsCorner(quad[3], f[1], t[2], f[3], down)
    BY <1>5, <2>3, LowAt, Zenon
  <2>7. IsCorner(quad[4], f[1], t[2], t[3], down)
    BY <1>5, <2>3, LowAt, Zenon
  <2>8. IsRectangle(3, 2, 1, t[3] - f[3], t[2] - f[2], quad[1], quad[2], quad[3], quad[4])
    BY <1>5, <2>4, <2>5, <2>6, <2>7 DEF IsRectangle, IsCorner
  <2>9. Turn(3, 2, 1, -1) /\ Points(ModelFace(name, f, t).normal, 3, 2, 1, -1)
    BY <2>1 DEF Turn, Points
  <2>10. QuadCorners(d) = Between({f[1]}, {f[2], t[2]}, {f[3], t[3]}, down)
    BY <1>3, <1>4, <1>14 DEF QuadCorners, Between, Low
  <2>11. Between({f[1]}, {f[2], t[2]}, {f[3], t[3]}, down) = {quad[1], quad[2], quad[3], quad[4]}
    BY <2>3 DEF Between
  <2>12. QuadCorners(d) = {quad[1], quad[2], quad[3], quad[4]}
    BY <2>10, <2>11
  <2> QED BY <1>3, <1>4, <2>8, <2>9, <2>12, Zenon DEF FaceRectangle
<1> QED BY <1>6, <1>9, <1>10, <1>11, <1>12, <1>13, <1>14

\* The triangles of the quad of a face.
IsSeenFromOutside(d, quad) ==
    LET t == <<quad[1], quad[2], quad[3]>>
        u == <<quad[4], quad[3], quad[2]>>
    IN  IF Cardinality(QuadCorners(d)) = 4 /\ IsUpright(d.elem)
        THEN Covers(t, u, QuadCorners(d), ModelFace(d.name, d.elem.from, d.elem.to).normal)
        ELSE Range(t) \union Range(u) = QuadCorners(d)

LEMMA FewElements == ASSUME NEW a, NEW b, NEW c PROVE Cardinality({a, b, c}) # 4
<1>1. IsFiniteSet({a}) /\ Cardinality({a}) = 1
  BY FS_Singleton
<1>2. /\ IsFiniteSet({a} \cup {b})
      /\ Cardinality({a} \cup {b}) = IF b \in {a} THEN Cardinality({a}) ELSE Cardinality({a}) + 1
  BY <1>1, FS_AddElement, Zenon
<1>3. /\ Cardinality(({a} \cup {b}) \cup {c})
             = IF c \in {a} \cup {b} THEN Cardinality({a} \cup {b}) ELSE Cardinality({a} \cup {b}) + 1
  BY <1>2, FS_AddElement, Zenon
<1>4. PICK m, n : m = Cardinality({a} \cup {b}) /\ n = Cardinality(({a} \cup {b}) \cup {c})
  OBVIOUS
<1>5. (m = 1 \/ m = 2) /\ (n = m \/ n = m + 1)
  BY <1>1, <1>2, <1>3, <1>4
<1>6. ({a} \cup {b}) \cup {c} = {a, b, c} /\ n # 4
  BY <1>5
<1> QED BY <1>4, <1>6, Zenon

LEMMA FaceSeen ==
    ASSUME NEW E, AreBoxes(E), NEW down \in Int, NEW d \in FacesOf(E, down), NEW quad, IsQuadOf(quad, d)
    PROVE  IsSeenFromOutside(d, quad)
<1>1. FaceRectangle(d, quad)
  BY FaceIsRectangle
<1>2. PICK f \in Int \X Int \X Int, t \in Int \X Int \X Int : f = d.elem.from /\ t = d.elem.to
  <2>1. PICK e \in E, name \in Range(ModelFaces) : d = [elem |-> e, name |-> name, down |-> down]
    BY DEF FacesOf
  <2>2. d.elem = e
    BY <2>1
  <2> QED BY <2>2 DEF AreBoxes
<1>3. PICK v1, v2, v3, v4 : v1 = quad[1] /\ v2 = quad[2] /\ v3 = quad[3] /\ v4 = quad[4]
  OBVIOUS
<1>4. PICK normal : normal = ModelFace(d.name, d.elem.from, d.elem.to).normal
  OBVIOUS
<1>5. QuadCorners(d) = {v1, v2, v3, v4}
  BY <1>1, <1>3, Zenon DEF FaceRectangle
<1>6. PICK i, j, k, s : /\ Turn(i, j, k, s) /\ Points(normal, i, j, k, s)
                        /\ IsRectangle(i, j, k, t[i] - f[i], t[j] - f[j], v1, v2, v3, v4)
  BY <1>1, <1>2, <1>3, <1>4, Zenon DEF FaceRectangle
<1>7. CASE Cardinality(QuadCorners(d)) = 4 /\ IsUpright(d.elem)
  <2>1. /\ i \in 1..3 /\ j \in 1..3 /\ k \in 1..3
        /\ i # j /\ i # k /\ j # k /\ \A x \in 1..3 : x = i \/ x = j \/ x = k
    BY <1>6, TurnCases
  <2>2. f[i] \in Int /\ t[i] \in Int /\ f[j] \in Int /\ t[j] \in Int
    BY <2>1
  <2>3. f[i] <= t[i] /\ f[j] <= t[j]
    BY <1>2, <1>7, <2>1 DEF IsUpright
  <2>4. PICK p \in Int, q \in Int : p = t[i] - f[i] /\ q = t[j] - f[j] /\ p >= 0 /\ q >= 0
    BY <2>2, <2>3
  <2>5. IsRectangle(i, j, k, p, q, v1, v2, v3, v4)
    BY <1>6, <2>4
  <2>6. /\ v1 \in Vector /\ v2 \in Vector /\ v3 \in Vector
        /\ v2[i] = v1[i] + p /\ v2[j] = v1[j] /\ v2[k] = v1[k]
        /\ v3[i] = v1[i] /\ v3[j] = v1[j] + q /\ v3[k] = v1[k]
    BY <2>5, Zenon DEF IsRectangle
  <2>7. v1[i] \in Int /\ v1[j] \in Int
    BY <2>1, <2>6 DEF Vector
  <2>8. p # 0
    <3> SUFFICES ASSUME p = 0 PROVE FALSE
      OBVIOUS
    <3>1. v2[i] = v1[i]
      BY <2>6, <2>7
    <3>2. \A x \in 1..3 : v2[x] = v1[x]
      BY <2>1, <2>6, <3>1, Zenon
    <3>3. v2 = v1
      BY <2>6, <3>2, VectorsEqual
    <3>4. QuadCorners(d) = {v1, v3, v4}
      BY <1>5, <3>3
    <3> QED BY <1>7, <3>4, FewElements, Zenon
  <2>9. q # 0
    <3> SUFFICES ASSUME q = 0 PROVE FALSE
      OBVIOUS
    <3>1. v3[j] = v1[j]
      BY <2>6, <2>7
    <3>2. \A x \in 1..3 : v3[x] = v1[x]
      BY <2>1, <2>6, <3>1, Zenon
    <3>3. v3 = v1
      BY <2>6, <3>2, VectorsEqual
    <3>4. QuadCorners(d) = {v1, v2, v4}
      BY <1>5, <3>3
    <3> QED BY <1>7, <3>4, FewElements, Zenon
  <2>10. p > 0 /\ q > 0
    BY <2>4, <2>8, <2>9
  <2>11. Covers(<<v1, v2, v3>>, <<v4, v3, v2>>, {v1, v2, v3, v4}, normal)
    BY <1>6, <2>5, <2>10, RectangleCovers
  <2> QED BY <1>3, <1>4, <1>5, <1>7, <2>11, Zenon DEF IsSeenFromOutside
<1>8. CASE ~(Cardinality(QuadCorners(d)) = 4 /\ IsUpright(d.elem))
  <2>1. Range(<<v1, v2, v3>>) = {v1, v2, v3} /\ Range(<<v4, v3, v2>>) = {v4, v3, v2}
    BY DEF Range
  <2>2. Range(<<v1, v2, v3>>) \union Range(<<v4, v3, v2>>) = {v1, v2, v3, v4}
    BY <2>1
  <2> QED BY <1>3, <1>5, <1>8, <2>2, Zenon DEF IsSeenFromOutside
<1> QED BY <1>7, <1>8

\* The triangles of the k-th quad.
LEMMA CornersShown ==
    ASSUME NEW mesh, NEW w, Quads(mesh, w), NEW k \in 1..Len(w)
    PROVE  /\ Corner(mesh, 6 * k - 5) = w[k][1] /\ Corner(mesh, 6 * k - 4) = w[k][2]
           /\ Corner(mesh, 6 * k - 3) = w[k][3] /\ Corner(mesh, 6 * k - 2) = w[k][4]
           /\ Corner(mesh, 6 * k - 1) = w[k][3] /\ Corner(mesh, 6 * k) = w[k][2]
<1>1. PICK l \in Nat : l = Len(w)
  BY DEF Quads
<1>2. PICK s, t : s = mesh.vertices /\ t = mesh.indices
  OBVIOUS
<1>3. k \in 1..l
  BY <1>1
<1>4. /\ \A c \in 1..4 : s[4 * (k - 1) + c] = w[k][c]
      /\ \A i \in 1..6 : t[6 * (k - 1) + i] = 4 * (k - 1) + QuadOrder[i]
  BY <1>1, <1>2, <1>3, Zenon DEF Quads
<1>5. /\ QuadOrder[1] = 0 /\ QuadOrder[2] = 1 /\ QuadOrder[3] = 2
      /\ QuadOrder[4] = 3 /\ QuadOrder[5] = 2 /\ QuadOrder[6] = 1
  BY DEF QuadOrder
<1>6. /\ 6 * (k - 1) + 1 = 6 * k - 5 /\ 6 * (k - 1) + 2 = 6 * k - 4 /\ 6 * (k - 1) + 3 = 6 * k - 3
      /\ 6 * (k - 1) + 4 = 6 * k - 2 /\ 6 * (k - 1) + 5 = 6 * k - 1 /\ 6 * (k - 1) + 6 = 6 * k
  BY <1>3
<1>7. 1 \in 1..6 /\ 2 \in 1..6 /\ 3 \in 1..6 /\ 4 \in 1..6 /\ 5 \in 1..6 /\ 6 \in 1..6
  OBVIOUS
<1>8. /\ t[6 * k - 5] = 4 * (k - 1) + 0 /\ t[6 * k - 4] = 4 * (k - 1) + 1 /\ t[6 * k - 3] = 4 * (k - 1) + 2
      /\ t[6 * k - 2] = 4 * (k - 1) + 3 /\ t[6 * k - 1] = 4 * (k - 1) + 2 /\ t[6 * k] = 4 * (k - 1) + 1
  BY <1>4, <1>5, <1>6, <1>7, Zenon
<1>9. /\ (4 * (k - 1) + 0) + 1 = 4 * (k - 1) + 1 /\ (4 * (k - 1) + 1) + 1 = 4 * (k - 1) + 2
      /\ (4 * (k - 1) + 2) + 1 = 4 * (k - 1) + 3 /\ (4 * (k - 1) + 3) + 1 = 4 * (k - 1) + 4
  BY <1>3
<1>10. /\ s[t[6 * k - 5] + 1] = s[4 * (k - 1) + 1] /\ s[t[6 * k - 4] + 1] = s[4 * (k - 1) + 2]
       /\ s[t[6 * k - 3] + 1] = s[4 * (k - 1) + 3] /\ s[t[6 * k - 2] + 1] = s[4 * (k - 1) + 4]
       /\ s[t[6 * k - 1] + 1] = s[4 * (k - 1) + 3] /\ s[t[6 * k] + 1] = s[4 * (k - 1) + 2]
  BY <1>8, <1>9, Zenon
<1>11. 1 \in 1..4 /\ 2 \in 1..4 /\ 3 \in 1..4 /\ 4 \in 1..4
  OBVIOUS
<1>12. /\ s[4 * (k - 1) + 1] = w[k][1] /\ s[4 * (k - 1) + 2] = w[k][2]
       /\ s[4 * (k - 1) + 3] = w[k][3] /\ s[4 * (k - 1) + 4] = w[k][4]
  BY <1>4, <1>11, Zenon
<1> QED BY <1>2, <1>10, <1>12, Zenon DEF Corner

\* What ModelsFaceOutward says of a mesh and each of its faces.
FaceOutward(mesh, d, k) ==
    LET t == <<Corner(mesh, 6 * k - 5), Corner(mesh, 6 * k - 4), Corner(mesh, 6 * k - 3)>>
        u == <<Corner(mesh, 6 * k - 2), Corner(mesh, 6 * k - 1), Corner(mesh, 6 * k)>>
    IN  IF Cardinality(QuadCorners(d)) = 4 /\ IsUpright(d.elem)
        THEN Covers(t, u, QuadCorners(d), ModelFace(d.name, d.elem.from, d.elem.to).normal)
        ELSE Range(t) \union Range(u) = QuadCorners(d)

FacesOutward(mesh, faces) ==
    /\ Len(mesh.indices) = 6 * Len(faces)
    /\ \A k \in DOMAIN faces : FaceOutward(mesh, faces[k], k)

LEMMA ModelsOutward ==
    ASSUME NEW first, NEW second, IsModel(first), IsModel(second), NEW block \in Int
    PROVE  FacesOutward(RendererMesh(first, second, block), AllDrawn(first, second, block))
<1>1. PICK E : E = Range(first) \union Range(second)
  OBVIOUS
<1>2. AreBoxes(E) /\ first \in Seq(E) /\ second \in Seq(E)
  <2>1. first \in Seq(Range(first)) /\ second \in Seq(Range(second))
    BY Zenon DEF IsModel
  <2>2. Range(first) \subseteq E /\ Range(second) \subseteq E
    BY <1>1
  <2>3. first \in Seq(E) /\ second \in Seq(E)
    BY <2>1, <2>2, SeqMonotonic
  <2>4. \A e \in E : e \in Range(first) \/ e \in Range(second)
    BY <1>1
  <2>5. AreBoxes(E)
    BY <2>4, Zenon DEF IsModel, AreBoxes
  <2> QED BY <2>3, <2>5
<1>3. PICK mesh, faces : mesh = RendererMesh(first, second, block) /\ faces = AllDrawn(first, second, block)
  OBVIOUS
<1>4. PICK w : /\ Quads(mesh, w) /\ Len(faces) = Len(w)
               /\ \A k \in 1..Len(w) :
                     faces[k] \in FacesOf(E, block) \union FacesOf(E, 0) /\ IsQuadOf(w[k], faces[k])
  BY <1>2, <1>3, RendererShows, Zenon
<1>5. PICK l \in Nat : l = Len(w) /\ Len(mesh.indices) = 6 * l
  <2>1. w \in Seq(Quad) /\ Len(mesh.indices) = 6 * Len(w)
    BY <1>4, Zenon DEF Quads
  <2>2. Len(w) \in Nat
    BY <2>1, LenProperties
  <2> QED BY <2>1, <2>2
<1>6. ASSUME NEW k \in 1..l PROVE IsSeenFromOutside(faces[k], w[k])
  <2>1. IsQuadOf(w[k], faces[k])
    BY <1>4, <1>5
  <2>2. CASE faces[k] \in FacesOf(E, block)
    BY <1>2, <2>1, <2>2, FaceSeen
  <2>3. CASE faces[k] \in FacesOf(E, 0)
    <3>1. 0 \in Int
      OBVIOUS
    <3> QED BY <1>2, <2>1, <2>3, <3>1, FaceSeen
  <2>4. faces[k] \in FacesOf(E, block) \/ faces[k] \in FacesOf(E, 0)
    BY <1>4, <1>5
  <2> QED BY <2>2, <2>3, <2>4
<1>7. DOMAIN faces = 1..l /\ Len(faces) = l
  <2>1. PICK F : F = FacesOf(E, block) \union FacesOf(E, 0)
    OBVIOUS
  <2>2. FacesDrawn(first, block) \in Seq(F) /\ FacesDrawn(second, 0) \in Seq(F)
    <3>1. Quads(EmptyMesh, <<>>) /\ <<>> \in Seq(Quad)
      BY EmptyShown
    <3>2. 0 \in Int
      OBVIOUS
    <3>3. ModelShown(E, block, first, EmptyMesh, <<>>) /\ ModelShown(E, 0, second, EmptyMesh, <<>>)
      BY <1>2, <3>1, <3>2, ModelShows
    <3>4. FacesDrawn(first, block) \in Seq(FacesOf(E, block)) /\ FacesDrawn(second, 0) \in Seq(FacesOf(E, 0))
      BY <3>3, Zenon DEF ModelShown
    <3> QED BY <2>1, <3>4, SeqMonotonic
  <2>3. faces \in Seq(F)
    BY <1>3, <2>2, ConcatProperties DEF AllDrawn
  <2> QED BY <1>4, <1>5, <2>3
<1>8. ASSUME NEW k \in 1..l
      PROVE  LET t == <<Corner(mesh, 6 * k - 5), Corner(mesh, 6 * k - 4), Corner(mesh, 6 * k - 3)>>
                 u == <<Corner(mesh, 6 * k - 2), Corner(mesh, 6 * k - 1), Corner(mesh, 6 * k)>>
             IN  t = <<w[k][1], w[k][2], w[k][3]>> /\ u = <<w[k][4], w[k][3], w[k][2]>>
  <2>1. k \in 1..Len(w)
    BY <1>5
  <2>2. /\ Corner(mesh, 6 * k - 5) = w[k][1] /\ Corner(mesh, 6 * k - 4) = w[k][2]
        /\ Corner(mesh, 6 * k - 3) = w[k][3] /\ Corner(mesh, 6 * k - 2) = w[k][4]
        /\ Corner(mesh, 6 * k - 1) = w[k][3] /\ Corner(mesh, 6 * k) = w[k][2]
    BY <1>4, <2>1, CornersShown
  <2> QED BY <2>2, Zenon
<1>9. ASSUME NEW k \in 1..l PROVE FaceOutward(mesh, faces[k], k)
  BY <1>6, <1>8, Zenon DEF FaceOutward, IsSeenFromOutside
<1>10. FacesOutward(mesh, faces)
  BY <1>5, <1>7, <1>9, Zenon DEF FacesOutward
<1> QED BY <1>3, <1>10

-----------------------------------------------------------------------------
\* An algorithm has its job's result, or none yet.
OutputInv ==
    /\ job \in Jobs
    /\ Done("entries") => output = <<Entries(job.input.words, job.input.bits)>>
    /\ Done("fields") => output = <<ReadBack(job.input)>>
    /\ Done("states") =>
          output = <<[id \in 0..LastState(job.input) |->
                         StateProperties(job.input.props, job.input.blocks, id)]>>
    /\ Done("section") => output = <<generate_vertices(job.input)>>
    /\ Done("models") => output = <<RendererMesh(job.input.first, job.input.second, job.input.block)>>

LEMMA InitOutput == Init => OutputInv
  BY DEF Init, OutputInv, Done

LEMMA OtherJobs == Next => \/ ExtractEntries
                           \/ Fields
                           \/ DecodeStates
                           \/ SectionMesh
                           \/ ModelMesh
                           \/ job.of \notin {"entries", "fields", "states", "section", "models"} /\ UNCHANGED job
  BY Zenon DEF Next, MatchVariant, Runs

LEMMA NextOutput == OutputInv /\ [Next]_algorithmVars => OutputInv'
<1>1. ASSUME OutputInv, ExtractEntries PROVE OutputInv'
  BY <1>1 DEF OutputInv, ExtractEntries, Runs, Done
<1>2. ASSUME OutputInv, Fields PROVE OutputInv'
  BY <1>2 DEF OutputInv, Fields, Runs, Done
<1>3. ASSUME OutputInv, job.of \notin {"entries", "fields", "states", "section", "models"}, UNCHANGED job PROVE OutputInv'
  BY <1>3 DEF OutputInv, Done
<1>4. ASSUME OutputInv, DecodeStates PROVE OutputInv'
  BY <1>4 DEF OutputInv, DecodeStates, Runs, Done
<1>5. ASSUME OutputInv, UNCHANGED algorithmVars PROVE OutputInv'
  BY <1>5 DEF OutputInv, Done, algorithmVars
<1>6. ASSUME OutputInv, SectionMesh PROVE OutputInv'
  BY <1>6 DEF OutputInv, SectionMesh, Runs, Done
<1>7. ASSUME OutputInv, ModelMesh PROVE OutputInv'
  BY <1>7 DEF OutputInv, ModelMesh, Runs, Done
<1> QED BY <1>1, <1>2, <1>3, <1>4, <1>5, <1>6, <1>7, OtherJobs

LEMMA EntriesOfOutput == OutputInv => EntriesReadBack
<1> SUFFICES ASSUME OutputInv, Done("entries")
             PROVE  LET bits == job.input.bits
                    IN  \A i \in 0 .. Blocks - 1 :
                          /\ output[1][i] \in 0 .. Pow2[bits] - 1
                          /\ \A j \in 0 .. bits - 1 :
                                Bit(output[1][i], bits - 1 - j) = BitInRow(job.input.words, i * bits + j)
  BY DEF EntriesReadBack
<1>1. PICK input \in EntryInputs : input = job.input
  BY DEF OutputInv, Jobs, Done
<1>2. PICK bits \in 1..WordBits : bits = input.bits
  BY AlgorithmsAssumption
<1>3. PICK words \in [1 .. u64_count(bits) -> 0 .. Pow2[WordBits] - 1] : words = input.words
  BY <1>2, AlgorithmsAssumption
<1>4. output[1] = Entries(words, bits)
  BY <1>1, <1>2, <1>3 DEF OutputInv
<1>5. \A i \in 0 .. Blocks - 1 :
          /\ Entries(words, bits)[i] \in 0 .. Pow2[bits] - 1
          /\ \A j \in 0 .. bits - 1 :
                Bit(Entries(words, bits)[i], bits - 1 - j) = BitInRow(words, i * bits + j)
  BY EntryOfWords
<1> QED BY <1>1, <1>2, <1>3, <1>4, <1>5

\* What extract_bits returns of a block's entry are the bits of that entry: in
\* words and entries of any width and for any number of blocks, none is lost at
\* the end of a word and none taken from a neighbour.
THEOREM AlgorithmsEntries == Spec => []EntriesReadBack
<1>1. Init => OutputInv
  BY InitOutput
<1> QED BY <1>1, NextOutput, EntriesOfOutput, PTL DEF Spec

LEMMA FieldsOfOutput == OutputInv => FieldsReadBack
<1> SUFFICES ASSUME OutputInv, Done("fields"), NEW i \in 1..2, WithinLimit(job.input, i)
             PROVE  IsReadBack(job.input, output[1], i)
  BY Zenon DEF FieldsReadBack
<1>1. PICK pair \in FieldPairs : pair = job.input
  BY DEF OutputInv, Jobs, Done
<1>2. output[1] = ReadBack(pair)
  BY <1>1 DEF OutputInv
<1> QED BY <1>1, <1>2, PairRight

\* What packet_writer wrote of a field, integers of either sign, varints, strings,
\* uuids and positions, packet_reader reads: the value, and exactly the bytes that
\* were written, so that the field behind it is found.  For bytes and integers of
\* any width, values of all the range, and strings of no more bytes than their limit.
THEOREM AlgorithmsFields == Spec => []FieldsReadBack
<1>1. Init => OutputInv
  BY InitOutput
<1> QED BY <1>1, NextOutput, FieldsOfOutput, PTL DEF Spec

LEMMA StatesOfOutput == OutputInv => StatesDecode
<1> SUFFICES ASSUME OutputInv, Done("states"), NEW id \in DOMAIN output[1], CountsFit(job.input, id)
             PROVE  IsDecoded(job.input, id, output[1][id])
  BY Zenon DEF StatesDecode
<1>1. PICK t \in Tables : t = job.input
  BY DEF OutputInv, Jobs, Done
<1>2. output[1] = [i \in 0..LastState(t) |-> StateProperties(t.props, t.blocks, i)]
  BY <1>1 DEF OutputInv
<1>3. id \in 0..LastState(t) /\ output[1][id] = StateProperties(t.props, t.blocks, id)
  BY <1>2
<1>4. IsTable(t)
  BY AlgorithmsAssumption
<1> QED BY <1>1, <1>3, <1>4, StateDecoded

\* Iterating over a state gives its block's properties, the last first, each with the
\* value the game numbered the state by, and the words of an enum are its own, and
\* nothing traps: in all tables the generator accepts, whatever values the properties of
\* other blocks have, for every block of which no property has more than fifteen
\* (COUNT_MASK).  Of the blocks with more, which it accepts too, nothing is said.
THEOREM AlgorithmsStates == Spec => []StatesDecode
<1>1. Init => OutputInv
  BY InitOutput
<1> QED BY <1>1, NextOutput, StatesOfOutput, PTL DEF Spec

LEMMA SectionOfOutput == OutputInv => MeshIsBoundary
<1> SUFFICES ASSUME OutputInv, Done("section")
             PROVE  IsBoundaryOf(output[1], job.input)
  BY Zenon DEF MeshIsBoundary, IsBoundaryOf
<1>1. output[1] = generate_vertices(job.input)
  BY DEF OutputInv
<1> QED BY <1>1, SectionIsBoundary

\* Of a section of any size and any blocks the mesh is the boundary between what is
\* solid and the air: two triangles for each of its faces, which cover it and are
\* seen from the air, and no other.
THEOREM AlgorithmsMesh == Spec => []MeshIsBoundary
<1>1. Init => OutputInv
  BY InitOutput
<1> QED BY <1>1, NextOutput, SectionOfOutput, PTL DEF Spec

LEMMA ModelsOfOutput == OutputInv => ModelsFaceOutward
<1> SUFFICES ASSUME OutputInv, Done("models")
             PROVE  FacesOutward(output[1], AllDrawn(job.input.first, job.input.second, job.input.block))
  BY Zenon DEF ModelsFaceOutward, FacesOutward, FaceOutward, AllDrawn, Corner
<1>1. PICK input \in ModelPairs : input = job.input
  BY DEF OutputInv, Jobs, Done
<1>2. IsModel(input.first) /\ IsModel(input.second) /\ input.block \in Int
  BY AlgorithmsAssumption
<1>3. output[1] = RendererMesh(input.first, input.second, input.block)
  BY <1>1 DEF OutputInv
<1> QED BY <1>1, <1>2, <1>3, ModelsOutward, Zenon

\* Of any two models, of any boxes, with any faces left out, the renderer's mesh is the
\* quads of the faces drawn in their order, the first model's a block lower, and
\* each that is a rectangle of an upright box is seen from outside it.
THEOREM AlgorithmsModels == Spec => []ModelsFaceOutward
<1>1. Init => OutputInv
  BY InitOutput
<1> QED BY <1>1, NextOutput, ModelsOfOutput, PTL DEF Spec
-----------------------------------------------------------------------------
(* Reading what was written, from a packet that may have been cut short.   *)

\* Behind the first at bytes of s comes w, as far as s goes.
Agrees(s, at, w) == /\ at \in 0..Len(s)
                    /\ \A i \in 1..Len(w) : at + i <= Len(s) => s[at + i] = w[i]

\* r is what reading v from w comes to: w has been taken, or the packet is too short.
Reads(r, s, at, w, v) == IF at + Len(w) <= Len(s) THEN r = Ok(at + Len(w), v) ELSE r.status # "ok"

LEMMA AgreesInParts ==
    ASSUME NEW s \in Seq(Byte), NEW at, NEW v \in Seq(Byte), NEW w \in Seq(Byte), Agrees(s, at, v \o w)
    PROVE  /\ Agrees(s, at, v)
           /\ at + Len(v) <= Len(s) => Agrees(s, at + Len(v), w)
<1>1. /\ at \in Nat /\ at <= Len(s)
      /\ \A i \in 1 .. Len(v) + Len(w) : at + i <= Len(s) => s[at + i] = (v \o w)[i]
  BY ConcatProperties DEF Agrees
<1>2. Len(v) \in Nat /\ Len(w) \in Nat /\ Len(s) \in Nat
  OBVIOUS
<1>3. ASSUME NEW i \in 1..Len(v), at + i <= Len(s) PROVE s[at + i] = v[i]
  <2>1. i \in 1 .. Len(v) + Len(w) /\ i <= Len(v)
    BY <1>2
  <2> QED BY <1>1, <1>3, <2>1, ConcatProperties
<1>4. ASSUME NEW i \in 1..Len(w), (at + Len(v)) + i <= Len(s) PROVE s[(at + Len(v)) + i] = w[i]
  <2>1. PICK j \in 1 .. Len(v) + Len(w) : j = Len(v) + i
    BY <1>2
  <2>2. (v \o w)[j] = w[i]
    BY <2>1, <1>2, ConcatProperties
  <2>3. at + j = (at + Len(v)) + i
    BY <1>1, <1>2, <2>1
  <2> QED BY <1>1, <1>4, <2>2, <2>3
<1>5. Agrees(s, at, v)
  BY <1>1, <1>2, <1>3 DEF Agrees
<1>6. ASSUME at + Len(v) <= Len(s) PROVE Agrees(s, at + Len(v), w)
  <2>1. at + Len(v) \in 0..Len(s)
    BY <1>1, <1>2, <1>6
  <2> QED BY <1>4, <2>1 DEF Agrees
<1> QED BY <1>5, <1>6

LEMMA AgreesLies ==
    ASSUME NEW s \in Seq(Byte), NEW at, NEW w \in Seq(Byte), Agrees(s, at, w), at + Len(w) <= Len(s)
    PROVE  LiesAt(s, at, w)
<1>1. at \in Nat /\ Len(s) \in Nat /\ Len(w) \in Nat
  BY DEF Agrees
<1>2. ASSUME NEW i \in 1..Len(w) PROVE s[at + i] = w[i]
  <2>1. at + i <= Len(s)
    BY <1>1
  <2> QED BY <2>1 DEF Agrees
<1> QED BY <1>1, <1>2 DEF LiesAt

\* One read behind another: q is what follows r.
LEMMA ReadsOn ==
    ASSUME NEW s \in Seq(Byte), NEW at, NEW v \in Seq(Byte), NEW w \in Seq(Byte), Agrees(s, at, v \o w),
           NEW r, NEW q, NEW x, NEW y, Reads(r, s, at, v, x),
           at + Len(v) <= Len(s) => Reads(q, s, at + Len(v), w, y)
    PROVE  Reads(IF r.status = "ok" THEN q ELSE r, s, at, v \o w, y)
<1>1. at \in Nat /\ Len(s) \in Nat /\ Len(w) \in Nat /\ Len(v) \in Nat /\ Len(v \o w) = Len(v) + Len(w)
  BY ConcatProperties DEF Agrees
<1>2. CASE at + Len(v) <= Len(s)
  <2>1. r.status = "ok"
    BY <1>2 DEF Reads, Ok
  <2>2. Reads(q, s, at + Len(v), w, y)
    BY <1>2
  <2>3. (at + Len(v)) + Len(w) = at + Len(v \o w)
    BY <1>1
  <2> QED BY <2>1, <2>2, <2>3 DEF Reads
<1>3. CASE ~ (at + Len(v) <= Len(s))
  <2>1. r.status # "ok"
    BY <1>3 DEF Reads
  <2>2. ~ (at + Len(v \o w) <= Len(s))
    BY <1>1, <1>3
  <2> QED BY <2>1, <2>2 DEF Reads
<1> QED BY <1>2, <1>3

\* A read whose result is used, without taking more.
LEMMA ReadsAs ==
    ASSUME NEW s, NEW at, NEW w, NEW r, NEW q, NEW x, NEW y, Reads(r, s, at, w, x),
           at + Len(w) <= Len(s) => q = Ok(at + Len(w), y)
    PROVE  Reads(IF r.status = "ok" THEN q ELSE r, s, at, w, y)
  BY DEF Reads, Ok

LEMMA ReadsBytes ==
    ASSUME NEW s \in Seq(Byte), NEW at, NEW w \in Seq(Byte), Agrees(s, at, w)
    PROVE  Reads(read_bytes(s, at, Len(s), Len(w)), s, at, w, w)
<1>1. CASE at + Len(w) <= Len(s)
  <2>1. LiesAt(s, at, w)
    BY <1>1, AgreesLies, Zenon
  <2>2. read_bytes(s, at, Len(s), Len(w)) = Ok(at + Len(w), w)
    BY <2>1, ReadBytesAt, Zenon
  <2> QED BY <1>1, <2>2 DEF Reads
<1>2. CASE ~ (at + Len(w) <= Len(s))
  BY <1>2 DEF Reads, read_bytes, Aborted
<1> QED BY <1>1, <1>2

\* An integer takes its bytes or aborts.
LEMMA ReadIntTakes ==
    ASSUME NEW s, NEW at, NEW end, NEW kind \in DOMAIN IntWidth
    PROVE  IF at + IntWidth[kind] <= end
           THEN \E x : read_int(s, at, end, kind) = Ok(at + IntWidth[kind], x)
           ELSE read_int(s, at, end, kind) = Aborted
<1>1. PICK n : n = IntWidth[kind]
  OBVIOUS
<1>2. CASE at + n <= end
  <2>1. PICK b : read_bytes(s, at, end, n) = Ok(at + n, b)
    BY <1>2 DEF read_bytes
  <2>2. PICK x : x = IF IsSigned(kind) THEN FromUnsigned(FromBytes(b), n * ByteBits) ELSE FromBytes(b)
    OBVIOUS
  <2>3. read_int(s, at, end, kind) = Ok(at + n, x)
    BY <1>1, <2>1, <2>2 DEF read_int, Then, Ok
  <2> QED BY <1>1, <1>2, <2>3
<1>3. CASE ~ (at + n <= end)
  <2>1. read_bytes(s, at, end, n) = Aborted
    BY <1>3 DEF read_bytes
  <2> QED BY <1>1, <1>3, <2>1 DEF read_int, Then, Aborted
<1> QED BY <1>1, <1>2, <1>3

LEMMA ReadsUnsigned ==
    ASSUME NEW s \in Seq(Byte), NEW at, NEW kind \in DOMAIN IntWidth, ~IsSigned(kind),
           NEW v \in UnsignedRange(IntWidth[kind] * ByteBits), Agrees(s, at, write_int(v, IntWidth[kind]))
    PROVE  Reads(read_int(s, at, Len(s), kind), s, at, write_int(v, IntWidth[kind]), v)
<1>1. PICK n \in Nat \ {0} : n = IntWidth[kind]
  BY FieldConstants DEF IntWidth
<1>2. PICK w : w = write_int(v, n)
  OBVIOUS
<1>3. w \in Seq(Byte) /\ Len(w) = n
  <2>1. PICK bits \in Nat : bits = n * ByteBits
    BY FieldConstants
  <2>2. ToUnsigned(v, bits) \in UnsignedRange(bits)
    BY <1>1, <2>1, UnsignedBack
  <2> QED BY <1>2, <2>1, <2>2, WriteInt
<1>4. CASE at + n <= Len(s)
  <2>1. LiesAt(s, at, w)
    BY <1>1, <1>2, <1>3, <1>4, AgreesLies
  <2>2. read_int(s, at, Len(s), kind) = Ok(at + n, v)
    BY <1>1, <1>2, <2>1, ReadUnsigned
  <2> QED BY <1>1, <1>2, <1>3, <1>4, <2>2 DEF Reads
<1>5. CASE ~ (at + n <= Len(s))
  <2>1. read_int(s, at, Len(s), kind) = Aborted
    BY <1>1, <1>5, ReadIntTakes
  <2> QED BY <1>1, <1>2, <1>3, <1>5, <2>1 DEF Reads, Aborted
<1> QED BY <1>4, <1>5

LEMMA ReadsSigned ==
    ASSUME NEW s \in Seq(Byte), NEW at, NEW kind \in DOMAIN IntWidth, IsSigned(kind),
           NEW v \in SignedRange(IntWidth[kind] * ByteBits), Agrees(s, at, write_int(v, IntWidth[kind]))
    PROVE  Reads(read_int(s, at, Len(s), kind), s, at, write_int(v, IntWidth[kind]), v)
<1>1. PICK n \in Nat \ {0} : n = IntWidth[kind]
  BY FieldConstants DEF IntWidth
<1>2. PICK bits \in Nat \ {0} : bits = n * ByteBits
  <2>1. n * ByteBits \in Nat /\ n * ByteBits # 0
    BY FieldConstants
  <2> QED BY <2>1
<1>3. PICK w : w = write_int(v, n)
  OBVIOUS
<1>4. w \in Seq(Byte) /\ Len(w) = n
  <2>1. ToUnsigned(v, bits) \in UnsignedRange(bits)
    BY <1>1, <1>2, SignedBack
  <2> QED BY <1>2, <1>3, <2>1, WriteInt
<1>5. CASE at + n <= Len(s)
  <2>1. LiesAt(s, at, w)
    BY <1>1, <1>3, <1>4, <1>5, AgreesLies
  <2>2. read_int(s, at, Len(s), kind) = Ok(at + n, v)
    BY <1>1, <1>3, <2>1, ReadSigned
  <2> QED BY <1>1, <1>3, <1>4, <1>5, <2>2 DEF Reads
<1>6. CASE ~ (at + n <= Len(s))
  <2>1. read_int(s, at, Len(s), kind) = Aborted
    BY <1>1, <1>6, ReadIntTakes
  <2> QED BY <1>1, <1>3, <1>4, <1>6, <2>1 DEF Reads, Aborted
<1> QED BY <1>5, <1>6

LEMMA FromOneByte == ASSUME NEW b \in Byte PROVE FromBytes(<<b>>) = b
<1>1. <<b>> \in Seq(Byte) /\ Len(<<b>>) = 1 /\ <<b>>[1] = b
  OBVIOUS
<1>2. PICK value : Sums(value, <<b>>) /\ FromBytes(<<b>>) = value[1]
  BY <1>1, FromBytesDef
<1>3. value[0] = 0 /\ value[1] = value[0] * Pow2[ByteBits] + b
  BY <1>1, <1>2 DEF Sums
<1>4. b \in Nat /\ Pow2[ByteBits] \in Nat
  BY BytesAreVarintBytes DEF Byte
<1> QED BY <1>2, <1>3, <1>4

\* A u8 is its byte.
LEMMA ReadByte ==
    ASSUME NEW s \in Seq(Byte), NEW at \in Nat
    PROVE  IF at + 1 <= Len(s) THEN read_int(s, at, Len(s), "u8") = Ok(at + 1, s[at + 1]) /\ s[at + 1] \in Byte
                               ELSE read_int(s, at, Len(s), "u8") = Aborted
<1>1. "u8" \in DOMAIN IntWidth /\ IntWidth["u8"] = 1 /\ ~IsSigned("u8")
  BY DEF IntWidth, IsSigned
<1>2. CASE at + 1 <= Len(s)
  <2>1. s[at + 1] \in Byte
    BY <1>2, ElementOfSeq
  <2>2. SubSeq(s, at + 1, at + 1) = <<s[at + 1]>>
    <3>1. PICK i \in 1..Len(s) : i = at + 1
      BY <1>2
    <3>2. SubSeq(s, i, i) = <<s[i]>> \o SubSeq(s, i + 1, i)
      BY SubSeqRecursiveFirst
    <3>3. SubSeq(s, i + 1, i) = <<>>
      BY SubSeqEmpty
    <3>4. <<s[i]>> \o <<>> = <<s[i]>>
      BY <2>1, <3>1
    <3> QED BY <3>1, <3>2, <3>3, <3>4
  <2>3. FromBytes(SubSeq(s, at + 1, at + 1)) = s[at + 1]
    BY <2>1, <2>2, FromOneByte
  <2>4. PICK b : b = SubSeq(s, at + 1, at + 1)
    OBVIOUS
  <2>5. read_bytes(s, at, Len(s), 1) = Ok(at + 1, b)
    BY <1>2, <2>4 DEF read_bytes
  <2>6. read_int(s, at, Len(s), "u8") = Ok(at + 1, FromBytes(b))
    BY <1>1, <2>5 DEF read_int, Then, Ok
  <2> QED BY <1>2, <2>1, <2>3, <2>4, <2>6
<1>3. CASE ~ (at + 1 <= Len(s))
  BY <1>1, <1>3, ReadIntTakes
<1> QED BY <1>2, <1>3

LEMMA ReadsByte ==
    ASSUME NEW s \in Seq(Byte), NEW at, NEW b \in Byte, Agrees(s, at, <<b>>)
    PROVE  Reads(read_int(s, at, Len(s), "u8"), s, at, <<b>>, b)
<1>1. at \in Nat /\ Len(<<b>>) = 1 /\ (at + 1 <= Len(s) => s[at + 1] = b)
  BY DEF Agrees
<1>2. CASE at + 1 <= Len(s)
  <2>1. read_int(s, at, Len(s), "u8") = Ok(at + 1, b)
    BY <1>1, <1>2, ReadByte
  <2> QED BY <1>1, <1>2, <2>1 DEF Reads
<1>3. CASE ~ (at + 1 <= Len(s))
  <2>1. read_int(s, at, Len(s), "u8") = Aborted
    BY <1>1, <1>3, ReadByte
  <2> QED BY <1>1, <1>3, <2>1 DEF Reads, Aborted
<1> QED BY <1>2, <1>3

\* A varint is read from its bytes, and aborts if one of them is missing.
LEMMA ReadsVarint ==
    ASSUME NEW s \in Seq(Byte), NEW at, NEW v \in SignedRange(Digits), Agrees(s, at, write_varint(v))
    PROVE  Reads(read_varint(s, at, Len(s)), s, at, write_varint(v), v)
<1>1. PICK w \in Seq(Byte) : w = write_varint(v)
  BY VarintBytesWritten
<1>2. CASE at + Len(w) <= Len(s)
  <2>1. LiesAt(s, at, w)
    BY <1>1, <1>2, AgreesLies
  <2>2. read_varint(s, at, Len(s)) = Ok(at + Len(w), v)
    BY <1>1, <2>1, ReadVarintAt
  <2> QED BY <1>1, <1>2, <2>2 DEF Reads
<1>3. CASE ~ (at + Len(w) <= Len(s))
  <2>1. PICK u \in Unsigned : w = Encoded(u)
    <3>1. ToUnsigned(v, Digits) \in Unsigned
      BY SignedBack, VarintAssumption DEF Unsigned, Modulus, UnsignedRange
    <3> QED BY <1>1, <3>1 DEF write_varint
  <2>2. at \in Nat /\ at <= Len(s) /\ Len(s) \in Nat /\ Len(w) \in Nat
    BY DEF Agrees
  <2>3. PICK k \in 0 .. Len(w) - 1 : k = Len(s) - at
    <3>1. PICK m \in Nat, n \in Nat : m = Len(s) /\ n = Len(w)
      BY <2>2
    <3>2. ~ (at + n <= m)
      BY <1>3, <3>1
    <3>3. m - at \in 0 .. n - 1
      BY <2>2, <3>1, <3>2
    <3> QED BY <3>1, <3>3
  <2>4. PICK t : t = SubSeq(s, at + 1, Len(s))
    OBVIOUS
  <2>5. t = SubSeq(w, 1, k)
    <3>1. \A i \in 1..k : s[at + i] = w[i]
      BY <1>1, <2>2, <2>3 DEF Agrees
    <3>2. Len(t) = k /\ \A i \in 1..k : t[i] = s[at + i]
      BY <2>2, <2>3, <2>4
    <3>3. Len(SubSeq(w, 1, k)) = k /\ \A i \in 1..k : SubSeq(w, 1, k)[i] = w[i]
      BY <2>2, <2>3
    <3>4. t \in Seq(Byte) /\ SubSeq(w, 1, k) \in Seq(Byte)
      BY <2>2, <2>3, <2>4
    <3> QED BY <3>1, <3>2, <3>3, <3>4, SeqEqual
  <2>6. PICK rest \in Seq(Byte) : w = t \o rest /\ t \in Seq(Byte) /\ Len(t) = k
    <3>1. SubSeq(w, k + 1, Len(w)) \in Seq(Byte) /\ w = SubSeq(w, 1, k) \o SubSeq(w, k + 1, Len(w))
      <4>1. k \in 0..Len(w) /\ 1 \in 1 .. Len(w) + 1 /\ k \in 1 - 1 .. Len(w) /\ Len(w) \in k..Len(w)
        BY <2>2
      <4>2. SubSeq(w, 1, k) \o SubSeq(w, k + 1, Len(w)) = SubSeq(w, 1, Len(w))
        BY <4>1, ConcatAdjacentSubSeq
      <4>3. SubSeq(w, 1, Len(w)) = w
        BY SubSeqFull
      <4>4. SubSeq(w, k + 1, Len(w)) \in Seq(Byte)
        BY <2>2
      <4> QED BY <4>2, <4>3, <4>4
    <3>2. SubSeq(w, 1, k) \in Seq(Byte) /\ Len(SubSeq(w, 1, k)) = k
      BY <2>2, <2>3
    <3> QED BY <2>5, <3>1, <3>2
  <2>7. Read(w) = Finished(u, Len(w))
    <3>1. <<>> \in Seq(VarintByte) /\ w \o <<>> = w
      OBVIOUS
    <3> QED BY <2>1, <3>1, ReadEncoded
  <2>8. Read(t).status = "reading"
    <3> SUFFICES ASSUME Read(t).status # "reading" PROVE FALSE
      OBVIOUS
    <3>1. Read(w) = Read(t)
      BY <2>6, BytesAreVarintBytes, ReadConcat
    <3>2. Read(t).count <= k
      BY <2>6, BytesAreVarintBytes, ReadCount
    <3>3. Read(t).count = Len(w)
      BY <2>7, <3>1 DEF Finished
    <3> QED BY <2>2, <2>3, <3>2, <3>3
  <2>9. read_varint(s, at, Len(s)) = Aborted
    BY <2>4, <2>8 DEF read_varint
  <2> QED BY <1>1, <1>3, <2>9 DEF Reads, Aborted
<1> QED BY <1>2, <1>3

\* A varint that is read ends behind its beginning and no later than it may.
LEMMA ReadVarintTakes ==
    ASSUME NEW s \in Seq(Byte), NEW end \in 0..Len(s), NEW at \in 0..end,
           read_varint(s, at, end).status = "ok"
    PROVE  read_varint(s, at, end).at \in at + 1 .. end /\ read_varint(s, at, end).value \in Int
<1>1. PICK t : t = SubSeq(s, at + 1, end)
  OBVIOUS
<1>2. t \in Seq(VarintByte) /\ Len(t) = end - at
  BY <1>1, BytesAreVarintBytes
<1>3. PICK r : r = Read(t)
  OBVIOUS
<1>4. r \in ReaderState /\ r.count <= Len(t) /\ (r.status # "reading" => r.count >= 1)
  BY <1>2, <1>3, ReadType, ReadCount
<1>5. r.status = "done"
  <2>1. r.status \in {"reading", "done", "invalid"}
    BY <1>4 DEF ReaderState
  <2>2. r.status = "reading" => read_varint(s, at, end) = Aborted
    BY <1>1, <1>3 DEF read_varint
  <2>3. r.status = "invalid" => read_varint(s, at, end) = Thrown
    BY <1>1, <1>3 DEF read_varint
  <2> QED BY <2>1, <2>2, <2>3 DEF Aborted, Thrown
<1>6. read_varint(s, at, end) = Ok(at + r.count, ToSigned(r.value))
  BY <1>1, <1>3, <1>5 DEF read_varint
<1>7. r.count \in Nat /\ r.value \in Nat
  BY <1>4 DEF ReaderState, Unsigned
<1>8. PICK q : q = read_varint(s, at, end)
  OBVIOUS
<1>9. q.at = at + r.count /\ q.value = ToSigned(r.value)
  BY <1>6, <1>8 DEF Ok
<1>10. ToSigned(r.value) \in Int
  BY <1>7, ToSignedType
<1>11. at + r.count \in at + 1 .. end
  <2>1. r.count >= 1 /\ r.count <= end - at
    BY <1>2, <1>4, <1>5
  <2> QED BY <1>7, <2>1
<1> QED BY <1>8, <1>9, <1>10, <1>11

\* The lengths of names and arrays as integers of their widths.
LEMMA ShortBytesWritten ==
    ASSUME NEW n \in Nat, IsShort(n)
    PROVE  /\ n \in UnsignedRange(ShortBytes * ByteBits)
           /\ write_int(n, ShortBytes) \in Seq(Byte) /\ Len(write_int(n, ShortBytes)) = ShortBytes
<1>1. PICK bits \in Nat : bits = ShortBytes * ByteBits
  BY FieldConstants
<1>2. n \in UnsignedRange(bits)
  BY <1>1, Pow2Positive DEF IsShort, UnsignedRange
<1>3. ToUnsigned(n, bits) \in UnsignedRange(bits)
  BY <1>1, <1>2, UnsignedBack
<1> QED BY <1>1, <1>2, <1>3, WriteInt, FieldConstants

LEMMA IntBytesOfLength ==
    ASSUME NEW n \in Nat, IsInt(n)
    PROVE  /\ n \in SignedRange(IntBytes * ByteBits)
           /\ write_int(n, IntBytes) \in Seq(Byte) /\ Len(write_int(n, IntBytes)) = IntBytes
<1>1. PICK bits \in Nat \ {0} : bits = IntBytes * ByteBits
  <2>1. IntBytes * ByteBits \in Nat /\ IntBytes * ByteBits # 0
    BY FieldConstants
  <2> QED BY <2>1
<1>2. PICK h \in Nat : h = Pow2[bits - 1]
  <2>1. bits - 1 \in Nat
    OBVIOUS
  <2> QED BY <2>1, Pow2Positive
<1>3. n \in SignedRange(bits)
  BY <1>1, <1>2 DEF IsInt, SignedRange
<1>4. ToUnsigned(n, bits) \in UnsignedRange(bits)
  BY <1>3, SignedBack
<1> QED BY <1>1, <1>3, <1>4, WriteInt, FieldConstants

LEMMA ReadsShort ==
    ASSUME NEW s \in Seq(Byte), NEW at, NEW n \in Nat, IsShort(n), Agrees(s, at, write_int(n, ShortBytes))
    PROVE  Reads(read_int(s, at, Len(s), "u16"), s, at, write_int(n, ShortBytes), n)
<1>1. "u16" \in DOMAIN IntWidth /\ ~IsSigned("u16") /\ IntWidth["u16"] = ShortBytes
  BY DEF IntWidth, IsSigned
<1>2. n \in UnsignedRange(IntWidth["u16"] * ByteBits)
  BY <1>1, ShortBytesWritten
<1>3. Agrees(s, at, write_int(n, IntWidth["u16"]))
  BY <1>1
<1>4. Reads(read_int(s, at, Len(s), "u16"), s, at, write_int(n, IntWidth["u16"]), n)
  BY <1>1, <1>2, <1>3, ReadsUnsigned
<1> QED BY <1>1, <1>4

LEMMA ReadsInt ==
    ASSUME NEW s \in Seq(Byte), NEW at, NEW n \in Nat, IsInt(n), Agrees(s, at, write_int(n, IntBytes))
    PROVE  Reads(read_int(s, at, Len(s), "i32"), s, at, write_int(n, IntBytes), n)
<1>1. "i32" \in DOMAIN IntWidth /\ IsSigned("i32") /\ IntWidth["i32"] = IntBytes
  BY DEF IntWidth, IsSigned
<1>2. n \in SignedRange(IntWidth["i32"] * ByteBits)
  BY <1>1, IntBytesOfLength
<1>3. Agrees(s, at, write_int(n, IntWidth["i32"]))
  BY <1>1
<1>4. Reads(read_int(s, at, Len(s), "i32"), s, at, write_int(n, IntWidth["i32"]), n)
  BY <1>1, <1>2, <1>3, ReadsSigned
<1> QED BY <1>1, <1>4

LEMMA ReadsName ==
    ASSUME NEW s \in Seq(Byte), NEW at, NEW name \in Seq(Byte), IsShort(Len(name)), Agrees(s, at, NameBytes(name))
    PROVE  Reads(read_name(s, at, Len(s)), s, at, NameBytes(name), name)
<1>1. PICK n \in Nat : n = Len(name)
  OBVIOUS
<1>2. PICK head \in Seq(Byte) : head = write_int(n, ShortBytes)
  BY <1>1, ShortBytesWritten
<1>3. NameBytes(name) = head \o name
  BY <1>1, <1>2 DEF NameBytes
<1>4. Agrees(s, at, head) /\ (at + Len(head) <= Len(s) => Agrees(s, at + Len(head), name))
  BY <1>3, AgreesInParts
<1>5. PICK r : r = read_int(s, at, Len(s), "u16")
  OBVIOUS
<1>6. Reads(r, s, at, head, n)
  BY <1>1, <1>2, <1>4, <1>5, ReadsShort
<1>7. PICK q : q = read_bytes(s, r.at, Len(s), r.value)
  OBVIOUS
<1>8. ASSUME at + Len(head) <= Len(s) PROVE Reads(q, s, at + Len(head), name, name)
  <2>1. r.at = at + Len(head) /\ r.value = n
    BY <1>6, <1>8 DEF Reads, Ok
  <2> QED BY <1>1, <1>4, <1>7, <1>8, <2>1, ReadsBytes
<1>9. Reads(IF r.status = "ok" THEN q ELSE r, s, at, head \o name, name)
  BY <1>3, <1>6, <1>8, ReadsOn
<1>10. read_name(s, at, Len(s)) = IF r.status = "ok" THEN q ELSE r
  BY <1>5, <1>7 DEF read_name, Then
<1> QED BY <1>3, <1>9, <1>10

LEMMA ReadsArray ==
    ASSUME NEW s \in Seq(Byte), NEW at, NEW width \in Nat \ {0}, NEW b, IsArray(b, width),
           Agrees(s, at, ArrayBytes(b, width))
    PROVE  Reads(read_array(s, at, Len(s), width), s, at, ArrayBytes(b, width), b)
<1>1. b \in Seq(Byte) /\ Len(b) \in Nat
  BY DEF IsArray
<1>2. PICK n \in Nat : n = Len(b) \div width /\ Len(b) = n * width /\ IsInt(n)
  <2>1. Len(b) \div width \in Nat /\ Len(b) = width * (Len(b) \div width) + (Len(b) % width)
    BY <1>1, DivMod
  <2>2. PICK k \in Nat : k = Len(b) \div width
    BY <2>1
  <2>3. Len(b) % width = 0 /\ IsInt(k)
    BY <2>2 DEF IsArray
  <2>4. Len(b) = width * k
    BY <2>1, <2>2, <2>3
  <2>5. width * k = k * width
    OBVIOUS
  <2> QED BY <2>2, <2>3, <2>4, <2>5
<1>3. PICK head \in Seq(Byte) : head = write_int(n, IntBytes)
  BY <1>2, IntBytesOfLength
<1>4. ArrayBytes(b, width) = head \o b
  BY <1>2, <1>3 DEF ArrayBytes
<1>5. Agrees(s, at, head) /\ (at + Len(head) <= Len(s) => Agrees(s, at + Len(head), b))
  BY <1>1, <1>4, AgreesInParts
<1>6. PICK r : r = read_int(s, at, Len(s), "i32")
  OBVIOUS
<1>7. Reads(r, s, at, head, n)
  BY <1>2, <1>3, <1>5, <1>6, ReadsInt
<1>8. PICK q : q = IF r.value <= 0 THEN Ok(r.at, <<>>) ELSE read_bytes(s, r.at, Len(s), r.value * width)
  OBVIOUS
<1>9. ASSUME at + Len(head) <= Len(s) PROVE Reads(q, s, at + Len(head), b, b)
  <2>1. r.at = at + Len(head) /\ r.value = n
    BY <1>7, <1>9 DEF Reads, Ok
  <2>2. CASE n = 0
    <3>1. b = <<>> /\ Len(b) = 0
      <4>1. 0 * width = 0
        OBVIOUS
      <4>2. Len(b) = 0
        BY <1>2, <2>2, <4>1
      <4> QED BY <1>1, <4>2
    <3>2. q = Ok(at + Len(head), <<>>)
      BY <1>8, <2>1, <2>2
    <3>3. at + Len(head) \in Nat
      BY <1>5 DEF Agrees
    <3> QED BY <1>9, <3>1, <3>2, <3>3 DEF Reads
  <2>3. CASE n # 0
    <3>1. q = read_bytes(s, at + Len(head), Len(s), Len(b))
      BY <1>2, <1>8, <2>1, <2>3
    <3> QED BY <1>1, <1>5, <1>9, <3>1, ReadsBytes
  <2> QED BY <2>2, <2>3
<1>10. Reads(IF r.status = "ok" THEN q ELSE r, s, at, head \o b, b)
  BY <1>1, <1>4, <1>7, <1>9, ReadsOn
<1>11. read_array(s, at, Len(s), width) = IF r.status = "ok" THEN q ELSE r
  BY <1>6, <1>8 DEF read_array, Then
<1> QED BY <1>4, <1>10, <1>11
-----------------------------------------------------------------------------
(* The constructors of the tags: their recursive definition has a value.   *)

\* What a read takes ends behind at and no later than at end.
Takes(r, at, end) == r.status = "ok" => r.at \in at + 1 .. end

LEMMA FromBytesType == ASSUME NEW b \in Seq(Byte) PROVE FromBytes(b) \in Nat
  BY FromBytesDef DEF Sums

LEMMA ReadIntType ==
    ASSUME NEW s \in Seq(Byte), NEW at \in Nat, NEW kind \in DOMAIN IntWidth,
           NEW r, r = read_int(s, at, Len(s), kind), r.status = "ok"
    PROVE  /\ at + IntWidth[kind] <= Len(s) /\ r.at = at + IntWidth[kind] /\ IntWidth[kind] \in Nat \ {0}
           /\ r.value \in Int /\ (~IsSigned(kind) => r.value \in Nat)
<1>1. PICK n \in Nat \ {0} : n = IntWidth[kind]
  BY FieldConstants DEF IntWidth
<1>2. at + n <= Len(s)
  BY <1>1, ReadIntTakes DEF Aborted
<1>3. PICK b : b = SubSeq(s, at + 1, at + n)
  OBVIOUS
<1>4. b \in Seq(Byte)
  BY <1>2, <1>3
<1>5. read_bytes(s, at, Len(s), n) = Ok(at + n, b)
  BY <1>2, <1>3 DEF read_bytes
<1>6. PICK x : x = IF IsSigned(kind) THEN FromUnsigned(FromBytes(b), n * ByteBits) ELSE FromBytes(b)
  OBVIOUS
<1>7. r = Ok(at + n, x)
  BY <1>1, <1>5, <1>6 DEF read_int, Then, Ok
<1>8. PICK u \in Nat : u = FromBytes(b)
  BY <1>4, FromBytesType
<1>9. FromUnsigned(u, n * ByteBits) \in Int
  <2>1. PICK m \in Nat : m = n * ByteBits
    BY FieldConstants
  <2>2. Pow2[m] \in Nat
    BY Pow2Positive
  <2> QED BY <2>1, <2>2 DEF FromUnsigned
<1> QED BY <1>1, <1>2, <1>6, <1>7, <1>8, <1>9 DEF Ok

LEMMA ReadBytesTakes ==
    ASSUME NEW s, NEW at \in Nat, NEW n \in Nat, NEW end \in Nat,
           NEW r, r = read_bytes(s, at, end, n), r.status = "ok"
    PROVE  r.at = at + n /\ at + n <= end
<1>1. at + n <= end
  BY DEF read_bytes, Aborted
<1> QED BY <1>1 DEF read_bytes, Ok

LEMMA ReadNameTakes ==
    ASSUME NEW s \in Seq(Byte), NEW at \in Nat
    PROVE  Takes(read_name(s, at, Len(s)), at, Len(s))
<1>1. PICK q : q = read_name(s, at, Len(s))
  OBVIOUS
<1> SUFFICES ASSUME q.status = "ok" PROVE q.at \in at + 1 .. Len(s)
  BY <1>1 DEF Takes
<1>2. PICK r : r = read_int(s, at, Len(s), "u16")
  OBVIOUS
<1>3. q = IF r.status = "ok" THEN read_bytes(s, r.at, Len(s), r.value) ELSE r
  BY <1>1, <1>2 DEF read_name, Then
<1>4. r.status = "ok" /\ q = read_bytes(s, r.at, Len(s), r.value)
  BY <1>3
<1>5. "u16" \in DOMAIN IntWidth /\ ~IsSigned("u16")
  BY DEF IntWidth, IsSigned
<1>6. r.at \in Nat /\ r.at >= at + 1 /\ r.value \in Nat
  BY <1>2, <1>4, <1>5, ReadIntType
<1>7. q.at = r.at + r.value /\ r.at + r.value <= Len(s)
  BY <1>4, <1>6, ReadBytesTakes
<1> QED BY <1>6, <1>7

LEMMA ReadArrayTakes ==
    ASSUME NEW s \in Seq(Byte), NEW at \in Nat, NEW width \in Nat \ {0}
    PROVE  Takes(read_array(s, at, Len(s), width), at, Len(s))
<1>1. PICK q : q = read_array(s, at, Len(s), width)
  OBVIOUS
<1> SUFFICES ASSUME q.status = "ok" PROVE q.at \in at + 1 .. Len(s)
  BY <1>1 DEF Takes
<1>2. PICK r : r = read_int(s, at, Len(s), "i32")
  OBVIOUS
<1>3. q = IF r.status = "ok"
          THEN IF r.value <= 0 THEN Ok(r.at, <<>>) ELSE read_bytes(s, r.at, Len(s), r.value * width)
          ELSE r
  BY <1>1, <1>2 DEF read_array, Then
<1>4. r.status = "ok"
  BY <1>3
<1>5. "i32" \in DOMAIN IntWidth
  BY DEF IntWidth
<1>6. r.at \in Nat /\ r.at >= at + 1 /\ r.at <= Len(s) /\ r.value \in Int
  BY <1>2, <1>4, <1>5, ReadIntType
<1>7. CASE r.value <= 0
  BY <1>3, <1>4, <1>6, <1>7 DEF Ok
<1>8. CASE ~ (r.value <= 0)
  <2>1. PICK n \in Nat : n = r.value * width
    BY <1>6, <1>8
  <2>2. q = read_bytes(s, r.at, Len(s), n)
    BY <1>3, <1>4, <1>8, <2>1
  <2>3. q.at = r.at + n /\ r.at + n <= Len(s)
    BY <1>6, <2>2, ReadBytesTakes
  <2> QED BY <1>6, <2>3
<1> QED BY <1>7, <1>8

NumberTypes == 1..6
OtherTypes == {TAG_STRING, TAG_LIST, TAG_COMPOUND, TAG_INT_ARRAY, TAG_LONG_ARRAY}

LEMMA NumberTypesDef ==
    /\ DOMAIN NumberBytes = NumberTypes
    /\ \A type \in NumberTypes : NumberBytes[type] \in Nat \ {0}
<1>1. NumberTypes = {1, 2, 3, 4, 5, 6} /\ DOMAIN NumberBytes = NumberTypes
  BY DEF NumberTypes, NumberBytes
<1>2. /\ NumberBytes[1] = 1 /\ NumberBytes[2] = ShortBytes /\ NumberBytes[3] = IntBytes
      /\ NumberBytes[4] = LongBytes /\ NumberBytes[5] = IntBytes /\ NumberBytes[6] = LongBytes
  BY DEF NumberBytes
<1> QED BY <1>1, <1>2, FieldConstants

\* What is read, as a tag.
Tagged(type, r) == IF r.status = "ok" THEN Ok(r.at, Tag(type, r.value)) ELSE r

\* The items of a list.
ListItems(f, s, at) ==
    LET r == read_int(s, at, Len(s), "u8")
        q == read_int(s, r.at, Len(s), "i32")
    IN  IF r.status # "ok" THEN r ELSE IF q.status # "ok" THEN q
        ELSE IF q.value <= 0 THEN Ok(q.at, <<>>) ELSE f[<<"items", r.value, q.value, q.at>>]

CreateNumber(f, s, type, at) ==
    type \in NumberTypes => create(f, s, Len(s), type, at) = Tagged(type, read_bytes(s, at, Len(s), NumberBytes[type]))
CreateOther(f, s, type, at) ==
    /\ type = TAG_STRING => create(f, s, Len(s), type, at) = Tagged(type, read_name(s, at, Len(s)))
    /\ type = TAG_INT_ARRAY => create(f, s, Len(s), type, at) = Tagged(type, read_array(s, at, Len(s), IntBytes))
    /\ type = TAG_LONG_ARRAY => create(f, s, Len(s), type, at) = Tagged(type, read_array(s, at, Len(s), LongBytes))
    /\ type = TAG_COMPOUND => create(f, s, Len(s), type, at) = Tagged(type, f[<<"pairs", type, 0, at>>])
    /\ type = TAG_LIST => create(f, s, Len(s), type, at) = Tagged(type, ListItems(f, s, at))
    /\ type \notin NumberTypes \union OtherTypes =>
          create(f, s, Len(s), type, at) = IF type = TAG_END THEN Aborted ELSE Thrown

LEMMA CreateCases ==
    ASSUME NEW f, NEW s, NEW type \in Nat, NEW at
    PROVE  CreateNumber(f, s, type, at) /\ CreateOther(f, s, type, at)
<1> USE NumberTypesDef DEF TAG_END, TAG_STRING, TAG_LIST, TAG_COMPOUND, TAG_INT_ARRAY, TAG_LONG_ARRAY, TAG_BYTE_ARRAY
<1>1. CASE type \in NumberTypes
  <2>1. create(f, s, Len(s), type, at) = Tagged(type, read_bytes(s, at, Len(s), NumberBytes[type]))
    <3>1. type \in DOMAIN NumberBytes
      BY <1>1
    <3>2. /\ type # TAG_END /\ type # TAG_STRING /\ type # TAG_INT_ARRAY /\ type # TAG_LONG_ARRAY
          /\ type # TAG_COMPOUND /\ type # TAG_LIST /\ ~ (type = TAG_BYTE_ARRAY \/ type > TAG_LONG_ARRAY)
      BY <1>1 DEF NumberTypes
    <3> HIDE NumberTypesDef DEF TAG_END, TAG_STRING, TAG_LIST, TAG_COMPOUND, TAG_INT_ARRAY, TAG_LONG_ARRAY, TAG_BYTE_ARRAY
    <3>3. create(f, s, Len(s), type, at) =
              Then(read_bytes(s, at, Len(s), NumberBytes[type]), LAMBDA i, v : Ok(i, Tag(type, v)))
      BY <3>1, <3>2 DEF create
    <3> QED BY <3>3 DEF Then, Tagged
  <2> QED BY <1>1, <2>1 DEF CreateNumber, CreateOther, NumberTypes, OtherTypes
<1>2. CASE type = TAG_STRING
  <2>1. create(f, s, Len(s), type, at) = Tagged(type, read_name(s, at, Len(s)))
    BY <1>2 DEF create, Then, Tagged, NumberTypes
  <2> QED BY <1>2, <2>1 DEF CreateNumber, CreateOther, NumberTypes, OtherTypes
<1>3. CASE type = TAG_INT_ARRAY
  <2>1. create(f, s, Len(s), type, at) = Tagged(type, read_array(s, at, Len(s), IntBytes))
    BY <1>3 DEF create, Then, Tagged, NumberTypes
  <2> QED BY <1>3, <2>1 DEF CreateNumber, CreateOther, NumberTypes, OtherTypes
<1>4. CASE type = TAG_LONG_ARRAY
  <2>1. create(f, s, Len(s), type, at) = Tagged(type, read_array(s, at, Len(s), LongBytes))
    BY <1>4 DEF create, Then, Tagged, NumberTypes
  <2> QED BY <1>4, <2>1 DEF CreateNumber, CreateOther, NumberTypes, OtherTypes
<1>5. CASE type = TAG_COMPOUND
  <2>1. create(f, s, Len(s), type, at) = Tagged(type, f[<<"pairs", type, 0, at>>])
    BY <1>5 DEF create, Then, Tagged, NumberTypes
  <2> QED BY <1>5, <2>1 DEF CreateNumber, CreateOther, NumberTypes, OtherTypes
<1>6. CASE type = TAG_LIST
  <2>1. create(f, s, Len(s), type, at) = Tagged(type, ListItems(f, s, at))
    BY <1>6 DEF create, Then, Tagged, NumberTypes, ListItems
  <2> QED BY <1>6, <2>1 DEF CreateNumber, CreateOther, NumberTypes, OtherTypes
<1>7. CASE type \notin NumberTypes \union OtherTypes
  <2>1. create(f, s, Len(s), type, at) = IF type = TAG_END THEN Aborted ELSE Thrown
    <3>1. type \notin DOMAIN NumberBytes
      BY <1>7
    <3>2. /\ type # TAG_STRING /\ type # TAG_INT_ARRAY /\ type # TAG_LONG_ARRAY /\ type # TAG_COMPOUND /\ type # TAG_LIST
          /\ IF type = TAG_END THEN ~ (type = TAG_BYTE_ARRAY \/ type > TAG_LONG_ARRAY)
                               ELSE type = TAG_BYTE_ARRAY \/ type > TAG_LONG_ARRAY
      BY <1>7 DEF NumberTypes, OtherTypes
    <3> HIDE NumberTypesDef DEF TAG_END, TAG_STRING, TAG_LIST, TAG_COMPOUND, TAG_INT_ARRAY, TAG_LONG_ARRAY, TAG_BYTE_ARRAY
    <3> QED BY <3>1, <3>2 DEF create
  <2> QED BY <1>7, <2>1 DEF CreateNumber, CreateOther, NumberTypes, OtherTypes
<1> QED BY <1>1, <1>2, <1>3, <1>4, <1>5, <1>6, <1>7 DEF OtherTypes

\* What is constructed ends no later than at end; a tag and pairs take at least a byte.
Ends(r, g, end) ==
    r.status = "ok" => IF g[1] = "items" THEN r.at \in Nat /\ r.at >= g[4] /\ (g[4] <= end => r.at <= end)
                                         ELSE r.at \in g[4] + 1 .. end

\* A construction calls others of smaller rank: they begin further on, or are next in the
\* order of items, tag, pairs.
Room(end, at) == IF at <= end THEN end + 1 - at ELSE 0
Rank(end, g) == 3 * Room(end, g[4]) + (IF g[1] = "items" THEN 2 ELSE IF g[1] = "tag" THEN 1 ELSE 0)

LEMMA RankType ==
    ASSUME NEW end \in Nat, NEW g \in Constructed
    PROVE  Rank(end, g) \in Nat
<1>1. g[4] \in Nat
  BY DEF Constructed
<1>2. Room(end, g[4]) \in Nat
  BY <1>1 DEF Room
<1> QED BY <1>2 DEF Rank

LEMMA RankFalls ==
    ASSUME NEW end \in Nat, NEW g \in Constructed, NEW c \in Constructed,
           \/ c[4] \in g[4] + 1 .. end
           \/ c[4] = g[4] /\ <<g[1], c[1]>> \in {<<"items", "tag">>, <<"tag", "pairs">>}
    PROVE  Rank(end, c) < Rank(end, g)
<1>1. g[4] \in Nat /\ c[4] \in Nat
  BY DEF Constructed
<1>2. PICK m \in Nat, n \in Nat : m = Room(end, c[4]) /\ n = Room(end, g[4])
  BY <1>1 DEF Room
<1>3. CASE c[4] \in g[4] + 1 .. end
  <2>1. m + 1 <= n
    BY <1>1, <1>2, <1>3 DEF Room
  <2> QED BY <1>2, <2>1 DEF Rank
<1>4. CASE ~ (c[4] \in g[4] + 1 .. end)
  <2>1. c[4] = g[4] /\ <<g[1], c[1]>> \in {<<"items", "tag">>, <<"tag", "pairs">>}
    BY <1>4
  <2>2. m = n
    BY <1>2, <2>1
  <2> QED BY <1>2, <2>1, <2>2 DEF Rank
<1> QED BY <1>3, <1>4

\* f and h agree on what g calls, and it ends where it should.
CallsAgree(f, h, end, g) ==
    \A c \in Constructed : Rank(end, c) < Rank(end, g) => f[c] = h[c] /\ Ends(f[c], c, end)

LEMMA TaggedTakes ==
    ASSUME NEW r, NEW type, NEW at, NEW end, Takes(r, at, end)
    PROVE  Takes(Tagged(type, r), at, end)
  BY DEF Takes, Tagged, Ok

LEMMA ListAgrees ==
    ASSUME NEW s \in Seq(Byte), NEW g \in Constructed, g[1] = "tag",
           NEW f, NEW h, CallsAgree(f, h, Len(s), g)
    PROVE  ListItems(f, s, g[4]) = ListItems(h, s, g[4]) /\ Takes(ListItems(f, s, g[4]), g[4], Len(s))
<1>1. PICK at \in Nat, end \in Nat : at = g[4] /\ end = Len(s)
  BY DEF Constructed
<1>2. PICK r : r = read_int(s, at, end, "u8")
  OBVIOUS
<1>3. PICK q : q = read_int(s, r.at, end, "i32")
  OBVIOUS
<1>4. \A e : ListItems(e, s, at) =
          IF r.status # "ok" THEN r ELSE IF q.status # "ok" THEN q
          ELSE IF q.value <= 0 THEN Ok(q.at, <<>>) ELSE e[<<"items", r.value, q.value, q.at>>]
  BY <1>1, <1>2, <1>3 DEF ListItems
<1>5. CASE r.status # "ok" \/ q.status # "ok"
  BY <1>1, <1>4, <1>5 DEF Takes
<1>6. CASE r.status = "ok" /\ q.status = "ok"
  <2>1. r.at = at + 1 /\ at + 1 <= end /\ r.value \in Byte
    BY <1>1, <1>2, <1>6, ReadByte DEF Ok, Aborted
  <2>2. "i32" \in DOMAIN IntWidth /\ at + 1 \in Nat
    BY DEF IntWidth
  <2>3. q.at \in at + 1 .. end /\ q.value \in Int
    BY <1>1, <1>3, <1>6, <2>1, <2>2, ReadIntType
  <2>4. CASE q.value <= 0
    <3>1. \A e : ListItems(e, s, at) = Ok(q.at, <<>>)
      BY <1>4, <1>6, <2>4
    <3> QED BY <1>1, <2>3, <3>1 DEF Takes, Ok
  <2>5. CASE ~ (q.value <= 0)
    <3>1. PICK c : c = <<"items", r.value, q.value, q.at>>
      OBVIOUS
    <3>2. c \in Constructed /\ c[1] = "items" /\ c[4] = q.at
      BY <2>1, <2>3, <2>5, <3>1 DEF Constructed
    <3>3. Rank(end, c) < Rank(end, g)
      BY <1>1, <2>3, <3>2, RankFalls
    <3>4. f[c] = h[c] /\ Ends(f[c], c, end)
      BY <1>1, <3>2, <3>3 DEF CallsAgree
    <3>5. \A e : ListItems(e, s, at) = e[c]
      BY <1>4, <1>6, <2>5, <3>1
    <3>6. f[c].status = "ok" => f[c].at \in at + 1 .. end
      BY <2>3, <3>2, <3>4 DEF Ends
    <3> QED BY <1>1, <3>4, <3>5, <3>6 DEF Takes
  <2> QED BY <2>4, <2>5
<1> QED BY <1>5, <1>6

LEMMA CreateAgrees ==
    ASSUME NEW s \in Seq(Byte), NEW g \in Constructed, g[1] = "tag",
           NEW f, NEW h, CallsAgree(f, h, Len(s), g)
    PROVE  /\ create(f, s, Len(s), g[2], g[4]) = create(h, s, Len(s), g[2], g[4])
           /\ Takes(create(f, s, Len(s), g[2], g[4]), g[4], Len(s))
<1>1. PICK at \in Nat, end \in Nat, type \in Byte : at = g[4] /\ end = Len(s) /\ type = g[2]
  BY DEF Constructed
<1>2. type \in Nat
  BY DEF Byte
<1>3. \A e : CreateNumber(e, s, type, at) /\ CreateOther(e, s, type, at)
  BY <1>2, CreateCases
<1> DEFINE Agree(q) == /\ create(f, s, Len(s), type, at) = q /\ create(h, s, Len(s), type, at) = q
                       /\ Takes(q, at, Len(s))
<1> SUFFICES \E q : Agree(q)
  BY <1>1
<1>4. CASE type \in NumberTypes
  <2>1. PICK n \in Nat \ {0} : n = NumberBytes[type]
    BY <1>4, NumberTypesDef
  <2>2. PICK r : r = read_bytes(s, at, Len(s), n)
    OBVIOUS
  <2>3. Takes(r, at, Len(s))
    BY <1>1, <2>2, ReadBytesTakes DEF Takes
  <2>4. Takes(Tagged(type, r), at, Len(s))
    BY <2>3, TaggedTakes
  <2> QED BY <1>3, <1>4, <2>1, <2>2, <2>4 DEF CreateNumber
<1>5. CASE type = TAG_STRING
  <2>1. Takes(Tagged(type, read_name(s, at, Len(s))), at, Len(s))
    BY ReadNameTakes, TaggedTakes
  <2> QED BY <1>3, <1>5, <2>1 DEF CreateOther
<1>6. CASE type = TAG_INT_ARRAY
  <2>1. Takes(Tagged(type, read_array(s, at, Len(s), IntBytes)), at, Len(s))
    BY FieldConstants, ReadArrayTakes, TaggedTakes
  <2> QED BY <1>3, <1>6, <2>1 DEF CreateOther
<1>7. CASE type = TAG_LONG_ARRAY
  <2>1. Takes(Tagged(type, read_array(s, at, Len(s), LongBytes)), at, Len(s))
    BY FieldConstants, ReadArrayTakes, TaggedTakes
  <2> QED BY <1>3, <1>7, <2>1 DEF CreateOther
<1>8. CASE type = TAG_COMPOUND
  <2>1. PICK c : c = <<"pairs", type, 0, at>>
    OBVIOUS
  <2>2. c \in Constructed /\ c[1] = "pairs" /\ c[4] = at
    BY <2>1 DEF Constructed
  <2>3. Rank(end, c) < Rank(end, g)
    BY <1>1, <2>2, RankFalls
  <2>4. f[c] = h[c] /\ Ends(f[c], c, end)
    BY <1>1, <2>2, <2>3 DEF CallsAgree
  <2>5. Takes(f[c], at, Len(s))
    BY <1>1, <2>2, <2>4 DEF Ends, Takes
  <2>6. Takes(Tagged(type, f[c]), at, Len(s))
    BY <2>5, TaggedTakes
  <2> QED BY <1>3, <1>8, <2>1, <2>4, <2>6 DEF CreateOther
<1>9. CASE type = TAG_LIST
  <2>1. ListItems(f, s, at) = ListItems(h, s, at) /\ Takes(ListItems(f, s, at), at, Len(s))
    BY <1>1, ListAgrees
  <2>2. Takes(Tagged(type, ListItems(f, s, at)), at, Len(s))
    BY <2>1, TaggedTakes
  <2> QED BY <1>3, <1>9, <2>1, <2>2 DEF CreateOther
<1>10. CASE type \notin NumberTypes \union OtherTypes
  <2>1. Takes(IF type = TAG_END THEN Aborted ELSE Thrown, at, Len(s))
    BY DEF Takes, Aborted, Thrown
  <2> QED BY <1>3, <1>10, <2>1 DEF CreateOther
<1> QED BY <1>4, <1>5, <1>6, <1>7, <1>8, <1>9, <1>10 DEF OtherTypes

\* What a round of the loop of a list comes to: r is what is read first, q what comes behind it.
LEMMA ItemsCases ==
    ASSUME NEW f, NEW type, NEW n, NEW at
    PROVE  /\ n = 0 => items(f, type, n, at) = Ok(at, <<>>)
           /\ n # 0 => LET r == f[<<"tag", type, 0, at>>]
                           q == f[<<"items", type, n - 1, r.at>>]
                       IN  items(f, type, n, at) =
                              IF r.status = "ok"
                              THEN IF q.status = "ok" THEN Ok(q.at, <<r.value>> \o q.value) ELSE q
                              ELSE r
  BY DEF items, Then

LEMMA ItemsAgree ==
    ASSUME NEW s \in Seq(Byte), NEW g \in Constructed, g[1] = "items",
           NEW f, NEW h, CallsAgree(f, h, Len(s), g)
    PROVE  /\ items(f, g[2], g[3], g[4]) = items(h, g[2], g[3], g[4])
           /\ Ends(items(f, g[2], g[3], g[4]), g, Len(s))
<1>1. PICK at \in Nat, end \in Nat, type \in Byte, n \in Nat :
          at = g[4] /\ end = Len(s) /\ type = g[2] /\ n = g[3]
  BY DEF Constructed
<1>2. CASE n = 0
  <2>1. items(f, type, n, at) = Ok(at, <<>>) /\ items(h, type, n, at) = Ok(at, <<>>)
    BY <1>2, ItemsCases
  <2> QED BY <1>1, <2>1 DEF Ends, Ok
<1>3. CASE n # 0
  <2>1. PICK c : c = <<"tag", type, 0, at>>
    OBVIOUS
  <2>2. c \in Constructed /\ c[1] = "tag" /\ c[4] = at
    BY <2>1 DEF Constructed
  <2>3. Rank(end, c) < Rank(end, g)
    <3>1. c[4] = g[4] /\ g[1] = "items" /\ c[1] = "tag"
      BY <1>1, <2>2
    <3> QED BY <2>2, <3>1, RankFalls, Zenon
  <2>4. PICK r : r = f[c] /\ r = h[c] /\ Ends(r, c, end)
    BY <1>1, <2>2, <2>3 DEF CallsAgree
  <2>5. PICK d : d = <<"items", type, n - 1, r.at>>
    OBVIOUS
  <2>6. /\ items(f, type, n, at) = IF r.status = "ok"
                                   THEN IF f[d].status = "ok" THEN Ok(f[d].at, <<r.value>> \o f[d].value) ELSE f[d]
                                   ELSE r
        /\ items(h, type, n, at) = IF r.status = "ok"
                                   THEN IF h[d].status = "ok" THEN Ok(h[d].at, <<r.value>> \o h[d].value) ELSE h[d]
                                   ELSE r
    <3>1. \A e : e[c] = r => items(e, type, n, at) =
                                 IF r.status = "ok"
                                 THEN IF e[d].status = "ok" THEN Ok(e[d].at, <<r.value>> \o e[d].value) ELSE e[d]
                                 ELSE r
      BY <1>3, <2>1, <2>5 DEF items, Then
    <3> QED BY <2>4, <3>1
  <2>7. CASE r.status # "ok"
    BY <1>1, <2>6, <2>7 DEF Ends
  <2>8. CASE r.status = "ok"
    <3>1. r.at \in at + 1 .. end
      BY <2>2, <2>4, <2>8 DEF Ends
    <3>2. d \in Constructed /\ d[1] = "items" /\ d[4] = r.at
      BY <1>3, <2>5, <3>1 DEF Constructed
    <3>3. Rank(end, d) < Rank(end, g)
      BY <1>1, <3>1, <3>2, RankFalls
    <3>4. PICK q : q = f[d] /\ q = h[d] /\ Ends(q, d, end)
      BY <1>1, <3>2, <3>3 DEF CallsAgree
    <3>5. PICK x : x = IF q.status = "ok" THEN Ok(q.at, <<r.value>> \o q.value) ELSE q
      OBVIOUS
    <3>6. items(f, type, n, at) = x /\ items(h, type, n, at) = x
      BY <2>6, <2>8, <3>4, <3>5
    <3>7. x.status = "ok" => q.status = "ok" /\ x.at = q.at
      BY <3>5 DEF Ok
    <3>8. x.status = "ok" => x.at \in Nat /\ x.at >= r.at /\ x.at <= end
      BY <3>1, <3>2, <3>4, <3>7 DEF Ends
    <3>9. x.status = "ok" => x.at \in Nat /\ x.at >= at /\ x.at <= end
      BY <3>1, <3>8
    <3> QED BY <1>1, <3>6, <3>9 DEF Ends
  <2> QED BY <2>7, <2>8
<1> QED BY <1>2, <1>3

LEMMA PairsAgree ==
    ASSUME NEW s \in Seq(Byte), NEW g \in Constructed, g[1] = "pairs",
           NEW f, NEW h, CallsAgree(f, h, Len(s), g)
    PROVE  /\ pairs(f, s, Len(s), g[4]) = pairs(h, s, Len(s), g[4])
           /\ Takes(pairs(f, s, Len(s), g[4]), g[4], Len(s))
<1>1. PICK at \in Nat, end \in Nat : at = g[4] /\ end = Len(s)
  BY DEF Constructed
<1>2. PICK r : r = read_int(s, at, Len(s), "u8")
  OBVIOUS
<1>3. PICK name : name = read_name(s, r.at, Len(s))
  OBVIOUS
<1>4. PICK c : c = <<"tag", r.value, 0, name.at>>
  OBVIOUS
<1> DEFINE after(e) == e[<<"pairs", TAG_COMPOUND, 0, e[c].at>>]
           whole(e) == IF r.status # "ok" THEN r
                       ELSE IF r.value = TAG_END THEN Ok(r.at, <<>>)
                       ELSE IF name.status # "ok" THEN name
                       ELSE IF e[c].status # "ok" THEN e[c]
                       ELSE IF after(e).status # "ok" THEN after(e)
                       ELSE Ok(after(e).at, << <<name.value, e[c].value>> >> \o after(e).value)
<1>5. pairs(f, s, Len(s), at) = whole(f) /\ pairs(h, s, Len(s), at) = whole(h)
  <2>1. \A e : pairs(e, s, Len(s), at) = whole(e)
    BY <1>2, <1>3, <1>4 DEF pairs, Then
  <2> QED BY <2>1
<1> SUFFICES whole(f) = whole(h) /\ Takes(whole(f), at, end)
  BY <1>1, <1>5
<1>6. CASE r.status # "ok"
  BY <1>6 DEF Takes
<1>7. CASE r.status = "ok" /\ r.value = TAG_END
  <2>1. r.at = at + 1 /\ at + 1 <= end
    <3>1. CASE at + 1 <= Len(s)
      <4>1. r = Ok(at + 1, s[at + 1])
        BY <1>2, <3>1, ReadByte
      <4> QED BY <1>1, <3>1, <4>1 DEF Ok
    <3>2. CASE ~ (at + 1 <= Len(s))
      <4>1. r = Aborted
        BY <1>2, <3>2, ReadByte
      <4> QED BY <1>7, <4>1 DEF Aborted
    <3> QED BY <3>1, <3>2
  <2>2. whole(f) = Ok(r.at, <<>>) /\ whole(h) = Ok(r.at, <<>>)
    BY <1>7
  <2> QED BY <2>1, <2>2 DEF Takes, Ok
<1>8. CASE r.status = "ok" /\ r.value # TAG_END /\ name.status # "ok"
  BY <1>8 DEF Takes
<1>9. CASE r.status = "ok" /\ r.value # TAG_END /\ name.status = "ok"
  <2>1. r.at = at + 1 /\ at + 1 <= end /\ r.value \in Byte
    BY <1>1, <1>2, <1>9, ReadByte DEF Ok, Aborted
  <2>2. name.at \in (at + 1) + 1 .. end
    BY <1>1, <1>3, <1>9, <2>1, ReadNameTakes DEF Takes
  <2>3. c \in Constructed /\ c[1] = "tag" /\ c[4] = name.at /\ name.at \in at + 1 .. end
    BY <1>4, <2>1, <2>2 DEF Constructed
  <2>4. Rank(end, c) < Rank(end, g)
    BY <1>1, <2>3, RankFalls
  <2>5. PICK tag : tag = f[c] /\ tag = h[c] /\ Ends(tag, c, end)
    BY <1>1, <2>3, <2>4 DEF CallsAgree
  <2>6. CASE tag.status # "ok"
    BY <1>9, <2>5, <2>6 DEF Takes
  <2>7. CASE tag.status = "ok"
    <3>1. tag.at \in name.at + 1 .. end
      BY <2>3, <2>5, <2>7 DEF Ends
    <3>2. PICK d : d = <<"pairs", TAG_COMPOUND, 0, tag.at>>
      OBVIOUS
    <3>3. TAG_COMPOUND \in Byte
      BY NbtAssumption, BytesAreVarintBytes DEF Byte, TAG_COMPOUND, TAG_LONG_ARRAY
    <3>4. d \in Constructed /\ d[1] = "pairs" /\ d[4] = tag.at /\ tag.at \in at + 1 .. end
      BY <2>3, <3>1, <3>2, <3>3 DEF Constructed
    <3>5. Rank(end, d) < Rank(end, g)
      BY <1>1, <3>4, RankFalls
    <3>6. PICK q : q = f[d] /\ q = h[d] /\ Ends(q, d, end)
      BY <1>1, <3>4, <3>5 DEF CallsAgree
    <3>7. PICK x : x = IF q.status # "ok" THEN q ELSE Ok(q.at, << <<name.value, tag.value>> >> \o q.value)
      OBVIOUS
    <3>8. whole(f) = x /\ whole(h) = x
      BY <1>9, <2>5, <2>7, <3>2, <3>6, <3>7
    <3>9. x.status = "ok" => q.status = "ok" /\ x.at = q.at
      BY <3>7 DEF Ok
    <3>10. x.status = "ok" => x.at \in at + 1 .. end
      BY <3>4, <3>6, <3>9 DEF Ends
    <3> HIDE DEF whole
    <3> QED BY <3>8, <3>10 DEF Takes
  <2> QED BY <2>6, <2>7
<1> QED BY <1>6, <1>7, <1>8, <1>9

Made(f, s, g) == CASE g[1] = "tag"   -> create(f, s, Len(s), g[2], g[4])
                   [] g[1] = "items" -> items(f, g[2], g[3], g[4])
                   [] g[1] = "pairs" -> pairs(f, s, Len(s), g[4])

LEMMA MadeAgrees ==
    ASSUME NEW s \in Seq(Byte), NEW g \in Constructed, NEW f, NEW h, CallsAgree(f, h, Len(s), g)
    PROVE  Made(f, s, g) = Made(h, s, g) /\ Ends(Made(f, s, g), g, Len(s))
<1>1. CASE g[1] = "tag"
  <2>1. Made(f, s, g) = create(f, s, Len(s), g[2], g[4]) /\ Made(h, s, g) = create(h, s, Len(s), g[2], g[4])
    BY <1>1 DEF Made
  <2> QED BY <1>1, <2>1, CreateAgrees DEF Takes, Ends
<1>2. CASE g[1] = "items"
  <2>1. Made(f, s, g) = items(f, g[2], g[3], g[4]) /\ Made(h, s, g) = items(h, g[2], g[3], g[4])
    BY <1>2 DEF Made
  <2> QED BY <1>2, <2>1, ItemsAgree
<1>3. CASE g[1] = "pairs"
  <2>1. Made(f, s, g) = pairs(f, s, Len(s), g[4]) /\ Made(h, s, g) = pairs(h, s, Len(s), g[4])
    BY <1>3 DEF Made
  <2> QED BY <1>3, <2>1, PairsAgree DEF Takes, Ends
<1>4. g[1] \in {"tag", "items", "pairs"}
  BY DEF Constructed
<1> QED BY <1>1, <1>2, <1>3, <1>4

\* A function that is right for everything of a rank below k; there is one for each k.
Constructs(f, s, k) == \A g \in Constructed : Rank(Len(s), g) < k => f[g] = Made(f, s, g) /\ Ends(f[g], g, Len(s))

LEMMA ConstructsMore ==
    ASSUME NEW s \in Seq(Byte), NEW k \in Nat, NEW f, Constructs(f, s, k)
    PROVE  \E h : Constructs(h, s, k + 1)
<1> DEFINE h == [g \in Constructed |-> IF Rank(Len(s), g) < k THEN f[g] ELSE Made(f, s, g)]
<1>1. Len(s) \in Nat
  OBVIOUS
<1>2. \A g \in Constructed : h[g] = IF Rank(Len(s), g) < k THEN f[g] ELSE Made(f, s, g)
  OBVIOUS
<1> HIDE DEF h
<1>3. ASSUME NEW g \in Constructed, Rank(Len(s), g) < k + 1
      PROVE  h[g] = Made(h, s, g) /\ Ends(h[g], g, Len(s))
  <2>1. CallsAgree(f, h, Len(s), g)
    <3> SUFFICES ASSUME NEW c \in Constructed, Rank(Len(s), c) < Rank(Len(s), g)
                 PROVE  f[c] = h[c] /\ Ends(f[c], c, Len(s))
      BY DEF CallsAgree
    <3>1. Rank(Len(s), c) \in Nat /\ Rank(Len(s), g) \in Nat
      BY <1>1, RankType
    <3>2. Rank(Len(s), c) < k
      BY <1>3, <3>1
    <3> QED BY <1>2, <3>2 DEF Constructs
  <2>2. Made(f, s, g) = Made(h, s, g) /\ Ends(Made(f, s, g), g, Len(s))
    BY <2>1, MadeAgrees
  <2>3. h[g] = Made(f, s, g)
    BY <1>2 DEF Constructs
  <2> QED BY <2>2, <2>3
<1> QED BY <1>3 DEF Constructs

LEMMA ConstructDef ==
    ASSUME NEW s \in Seq(Byte)
    PROVE  \A g \in Constructed : Construct(s, Len(s))[g] = Made(Construct(s, Len(s)), s, g)
<1> DEFINE S == {k \in Nat : \E f : Constructs(f, s, k)}
           body(f) == [g \in Constructed |-> Made(f, s, g)]
           all == 3 * Len(s) + 6
<1>1. Len(s) \in Nat /\ all \in Nat /\ \A g \in Constructed : Rank(Len(s), g) < all
  <2>1. PICK end \in Nat : end = Len(s)
    OBVIOUS
  <2>2. ASSUME NEW g \in Constructed PROVE Rank(end, g) < 3 * end + 6
    <3>1. g[4] \in Nat
      BY DEF Constructed
    <3>2. PICK m \in Nat : m = Room(end, g[4]) /\ m <= end + 1
      BY <3>1 DEF Room
    <3>3. Rank(end, g) <= 3 * m + 2
      BY <3>2 DEF Rank
    <3>4. PICK r \in Nat : r = Rank(end, g)
      BY RankType
    <3>5. r <= 3 * m + 2
      BY <3>3, <3>4
    <3>6. r < 3 * end + 6
      BY <3>2, <3>5
    <3> QED BY <3>4, <3>6
  <2> QED BY <2>1, <2>2
<1> HIDE DEF all
<1>2. 0 \in S
  <2>1. Constructs(<<>>, s, 0)
    <3>1. \A g \in Constructed : ~ (Rank(Len(s), g) < 0)
      <4>1. \A g \in Constructed : Rank(Len(s), g) \in Nat
        BY <1>1, RankType
      <4> QED BY <4>1
    <3> QED BY <3>1 DEF Constructs
  <2> QED BY <2>1
<1>3. ASSUME NEW k \in Nat, k \in S PROVE k + 1 \in S
  BY <1>3, ConstructsMore
<1>4. Nat \subseteq S
  <2> HIDE DEF S
  <2> QED BY <1>2, <1>3, NaturalInduction
<1>5. PICK f : Constructs(f, s, all)
  BY <1>1, <1>4
<1> DEFINE h == [g \in Constructed |-> f[g]]
<1>6. \A g \in Constructed : h[g] = f[g] /\ f[g] = Made(f, s, g) /\ Ends(f[g], g, Len(s))
  BY <1>1, <1>5 DEF Constructs
<1>7. h = [g \in Constructed |-> h[g]]
  OBVIOUS
<1> HIDE DEF h
<1>8. h = body(h)
  <2>1. ASSUME NEW g \in Constructed PROVE h[g] = Made(h, s, g)
    <3>1. CallsAgree(f, h, Len(s), g)
      BY <1>6 DEF CallsAgree
    <3>2. Made(f, s, g) = Made(h, s, g)
      BY <3>1, MadeAgrees
    <3> QED BY <1>6, <3>2
  <2> QED BY <1>7, <2>1
<1> DEFINE construct == CHOOSE e : e = body(e)
<1>9. construct = body(construct)
  <2> HIDE DEF body
  <2> QED BY <1>8
<1>10. Construct(s, Len(s)) = construct
  BY DEF Construct, Made
<1> HIDE DEF construct
<1> QED BY <1>9, <1>10

\* Each constructor calls the others.
LEMMA ConstructParts ==
    ASSUME NEW s \in Seq(Byte), NEW f, f = Construct(s, Len(s)), NEW at \in Nat, NEW type \in Byte, NEW n \in Nat
    PROVE  /\ f[<<"tag", type, 0, at>>] = create(f, s, Len(s), type, at)
           /\ f[<<"items", type, n, at>>] = items(f, type, n, at)
           /\ f[<<"pairs", type, 0, at>>] = pairs(f, s, Len(s), at)
<1>1. \A g \in Constructed : f[g] = Made(f, s, g)
  BY ConstructDef
<1>2. PICK c : c = <<"tag", type, 0, at>>
  OBVIOUS
<1>3. c \in Constructed /\ Made(f, s, c) = create(f, s, Len(s), type, at)
  BY <1>2 DEF Constructed, Made
<1>4. PICK d : d = <<"items", type, n, at>>
  OBVIOUS
<1>5. d \in Constructed /\ Made(f, s, d) = items(f, type, n, at)
  BY <1>4 DEF Constructed, Made
<1>6. PICK e : e = <<"pairs", type, 0, at>>
  OBVIOUS
<1>7. e \in Constructed /\ Made(f, s, e) = pairs(f, s, Len(s), at)
  BY <1>6 DEF Constructed, Made
<1> QED BY <1>1, <1>2, <1>3, <1>4, <1>5, <1>6, <1>7
-----------------------------------------------------------------------------
(* The bytes of a tag: their recursive definition has a value.             *)

Files == [Tags -> Seq(Byte)]

\* The parts of a list and of a compound.
ItemsOf(p, v) == [i \in DOMAIN v |-> p[v[i]]]
PairsOf(p, v) == [i \in DOMAIN v |-> PairBytes(p, v[i])]


\* The types are bytes.
LEMMA SomeTypes == 0..12 \subseteq Byte /\ TAG_END \in Byte /\ TAG_COMPOUND \in Byte
<1>1. PICK m \in Nat : m = Pow2[ByteBits]
  BY BytesAreVarintBytes
<1>2. 12 \in 0 .. m - 1
  BY <1>1, NbtAssumption DEF Byte, TAG_LONG_ARRAY
<1>3. 0..12 \subseteq 0 .. m - 1
  BY <1>2
<1> QED BY <1>1, <1>3 DEF Byte, TAG_END, TAG_COMPOUND

LEMMA TagTypes ==
    ASSUME NEW t, IsTag(t)
    PROVE  t = Tag(t.type, t.value) /\ t.type \in NumberTypes \union OtherTypes /\ t.type \in Byte /\ t.type # TAG_END
<1>1. t = Tag(t.type, t.value)
  BY DEF IsTag
<1>2. t.type \in NumberTypes \union OtherTypes
  BY NumberTypesDef DEF IsTag, OtherTypes
<1>3. \A type \in NumberTypes \union OtherTypes : type \in 1..12 /\ type # TAG_END
  BY DEF NumberTypes, OtherTypes, TAG_END, TAG_STRING, TAG_LIST, TAG_COMPOUND, TAG_INT_ARRAY, TAG_LONG_ARRAY
<1> QED BY <1>1, <1>2, <1>3, SomeTypes

\* Which case of the definition a tag is.
LEMMA PayloadCases ==
    ASSUME NEW t, NEW p
    PROVE  /\ t.type \in NumberTypes => PayloadOf(p, t) = t.value
           /\ t.type = TAG_STRING => PayloadOf(p, t) = NameBytes(t.value)
           /\ t.type = TAG_INT_ARRAY => PayloadOf(p, t) = ArrayBytes(t.value, IntBytes)
           /\ t.type = TAG_LONG_ARRAY => PayloadOf(p, t) = ArrayBytes(t.value, LongBytes)
           /\ t.type = TAG_LIST => PayloadOf(p, t) = ListHead(t.value) \o FlattenSeq(ItemsOf(p, t.value))
           /\ t.type = TAG_COMPOUND => PayloadOf(p, t) = FlattenSeq(PairsOf(p, t.value)) \o <<TAG_END>>
<1> USE NumberTypesDef DEF TAG_STRING, TAG_LIST, TAG_COMPOUND, TAG_INT_ARRAY, TAG_LONG_ARRAY
<1>1. t.type \in NumberTypes => PayloadOf(p, t) = t.value
  BY DEF PayloadOf, NumberTypes
<1>2. t.type = TAG_STRING => PayloadOf(p, t) = NameBytes(t.value)
  BY DEF PayloadOf, NumberTypes
<1>3. t.type = TAG_INT_ARRAY => PayloadOf(p, t) = ArrayBytes(t.value, IntBytes)
  BY DEF PayloadOf, NumberTypes
<1>4. t.type = TAG_LONG_ARRAY => PayloadOf(p, t) = ArrayBytes(t.value, LongBytes)
  BY DEF PayloadOf, NumberTypes
<1>5. t.type = TAG_LIST => PayloadOf(p, t) = ListHead(t.value) \o FlattenSeq(ItemsOf(p, t.value))
  BY DEF PayloadOf, ItemsOf, NumberTypes
<1>6. t.type = TAG_COMPOUND => PayloadOf(p, t) = FlattenSeq(PairsOf(p, t.value)) \o <<TAG_END>>
  BY DEF PayloadOf, PairsOf, NumberTypes
<1> QED BY <1>1, <1>2, <1>3, <1>4, <1>5, <1>6

\* The tags in a list and in a compound.
LEMMA ListValue ==
    ASSUME NEW t \in Tags, t.type = TAG_LIST
    PROVE  /\ t.value \in Seq(Tags) /\ IsInt(Len(t.value))
           /\ \A i \in 1..Len(t.value) : /\ t.value[i] \in Tags /\ t.value[i] \in Children(t)
                                         /\ t.value[i].type = t.value[1].type
<1>1. IsTag(t)
  BY ChunkPacketAssumption
<1>2. t.value \in Seq(Tags) /\ IsInt(Len(t.value)) /\ \A i \in DOMAIN t.value : t.value[i].type = t.value[1].type
  BY <1>1 DEF IsTag
<1>3. DOMAIN t.value = 1..Len(t.value)
  BY <1>2
<1>4. Children(t) = Range(t.value)
  BY DEF Children, TAG_LIST, TAG_COMPOUND
<1>5. \A i \in 1..Len(t.value) : t.value[i] \in Tags
  BY <1>2, ElementOfSeq
<1> QED BY <1>2, <1>3, <1>4, <1>5 DEF Range

LEMMA CompoundValue ==
    ASSUME NEW t \in Tags, t.type = TAG_COMPOUND
    PROVE  /\ t.value \in Seq(Seq(Byte) \X Tags)
           /\ \A i \in 1..Len(t.value) : /\ t.value[i] = <<t.value[i][1], t.value[i][2]>>
                                         /\ t.value[i][1] \in Seq(Byte) /\ IsShort(Len(t.value[i][1]))
                                         /\ t.value[i][2] \in Tags /\ t.value[i][2] \in Children(t)
<1>1. IsTag(t)
  BY ChunkPacketAssumption
<1>2. t.value \in Seq(Seq(Byte) \X Tags) /\ \A i \in DOMAIN t.value : IsShort(Len(t.value[i][1]))
  BY <1>1 DEF IsTag
<1>3. DOMAIN t.value = 1..Len(t.value)
  BY <1>2
<1>4. Children(t) = {pair[2] : pair \in Range(t.value)}
  BY DEF Children, TAG_LIST, TAG_COMPOUND
<1>5. ASSUME NEW i \in 1..Len(t.value)
      PROVE  /\ t.value[i] = <<t.value[i][1], t.value[i][2]>>
             /\ t.value[i][1] \in Seq(Byte) /\ t.value[i][2] \in Tags
  <2>1. t.value[i] \in Seq(Byte) \X Tags
    BY <1>2, ElementOfSeq
  <2> QED BY <2>1
<1>6. \A i \in 1..Len(t.value) : t.value[i][2] \in Children(t)
  BY <1>3, <1>4 DEF Range
<1> QED BY <1>2, <1>3, <1>5, <1>6

LEMMA NameBytesType ==
    ASSUME NEW name \in Seq(Byte), IsShort(Len(name))
    PROVE  NameBytes(name) \in Seq(Byte)
<1>1. write_int(Len(name), ShortBytes) \in Seq(Byte)
  BY ShortBytesWritten
<1> QED BY <1>1 DEF NameBytes

LEMMA ArrayBytesType ==
    ASSUME NEW width \in Nat \ {0}, NEW b, IsArray(b, width)
    PROVE  ArrayBytes(b, width) \in Seq(Byte)
<1>1. b \in Seq(Byte) /\ IsInt(Len(b) \div width)
  BY DEF IsArray
<1>2. Len(b) \div width \in Nat
  BY <1>1, DivMod
<1>3. write_int(Len(b) \div width, IntBytes) \in Seq(Byte)
  BY <1>1, <1>2, IntBytesOfLength
<1> QED BY <1>1, <1>3 DEF ArrayBytes

\* A byte in front of a sequence of bytes.
LEMMA ByteInFront == ASSUME NEW b \in Byte, NEW w \in Seq(Byte) PROVE <<b>> \in Seq(Byte) /\ <<b>> \o w \in Seq(Byte)
  OBVIOUS

LEMMA ListHeadType ==
    ASSUME NEW t \in Tags, t.type = TAG_LIST
    PROVE  ListHead(t.value) \in Seq(Byte)
<1>1. PICK b \in Byte : b = IF t.value = <<>> THEN TAG_END ELSE t.value[1].type
  <2>1. CASE t.value = <<>>
    BY <2>1, BytesAreVarintBytes DEF TAG_END, Byte
  <2>2. CASE t.value # <<>>
    <3>1. 1 \in 1..Len(t.value)
      BY <2>2, ListValue
    <3>2. IsTag(t.value[1])
      BY <3>1, ListValue, ChunkPacketAssumption
    <3> QED BY <2>2, <3>2, TagTypes
  <2> QED BY <2>1, <2>2
<1>2. write_int(Len(t.value), IntBytes) \in Seq(Byte)
  BY ListValue, IntBytesOfLength
<1>3. ListHead(t.value) = <<b>> \o write_int(Len(t.value), IntBytes)
  BY <1>1 DEF ListHead
<1> QED BY <1>2, <1>3, ByteInFront

\* The parts of a list and a compound.
LEMMA ItemsType ==
    ASSUME NEW p \in Files, NEW t \in Tags, t.type = TAG_LIST
    PROVE  ItemsOf(p, t.value) \in Seq(Seq(Byte)) /\ Len(ItemsOf(p, t.value)) = Len(t.value)
<1>1. Len(t.value) \in Nat /\ DOMAIN t.value = 1..Len(t.value)
  BY ListValue
<1>2. \A i \in 1..Len(t.value) : p[t.value[i]] \in Seq(Byte)
  BY ListValue DEF Files
<1>3. ItemsOf(p, t.value) = [i \in 1..Len(t.value) |-> p[t.value[i]]]
  BY <1>1 DEF ItemsOf
<1> QED BY <1>1, <1>2, <1>3

LEMMA PairBytesType ==
    ASSUME NEW p \in Files, NEW name \in Seq(Byte), IsShort(Len(name)), NEW u \in Tags
    PROVE  PairBytes(p, <<name, u>>) = (<<u.type>> \o NameBytes(name)) \o p[u]
           /\ <<u.type>> \o NameBytes(name) \in Seq(Byte) /\ p[u] \in Seq(Byte) /\ <<u.type>> \in Seq(Byte)
           /\ PairBytes(p, <<name, u>>) \in Seq(Byte)
<1>1. u.type \in Byte /\ p[u] \in Seq(Byte)
  BY ChunkPacketAssumption, TagTypes DEF Files
<1>2. NameBytes(name) \in Seq(Byte)
  BY NameBytesType
<1>3. <<u.type>> \o NameBytes(name) \in Seq(Byte) /\ <<u.type>> \in Seq(Byte)
  BY <1>1, <1>2, ByteInFront
<1>4. PairBytes(p, <<name, u>>) = (<<u.type>> \o NameBytes(name)) \o p[u]
  BY DEF PairBytes
<1>5. PICK v \in Seq(Byte), w \in Seq(Byte) : v = <<u.type>> \o NameBytes(name) /\ w = p[u]
  BY <1>1, <1>3
<1>6. v \o w \in Seq(Byte)
  OBVIOUS
<1> QED BY <1>1, <1>3, <1>4, <1>5, <1>6

LEMMA PairsType ==
    ASSUME NEW p \in Files, NEW t \in Tags, t.type = TAG_COMPOUND
    PROVE  PairsOf(p, t.value) \in Seq(Seq(Byte)) /\ Len(PairsOf(p, t.value)) = Len(t.value)
<1>1. Len(t.value) \in Nat /\ DOMAIN t.value = 1..Len(t.value)
  BY CompoundValue
<1>2. ASSUME NEW i \in 1..Len(t.value) PROVE PairBytes(p, t.value[i]) \in Seq(Byte)
  <2>1. PICK name \in Seq(Byte), u \in Tags : t.value[i] = <<name, u>> /\ IsShort(Len(name))
    BY CompoundValue
  <2> QED BY <2>1, PairBytesType
<1>3. PairsOf(p, t.value) = [i \in 1..Len(t.value) |-> PairBytes(p, t.value[i])]
  BY <1>1 DEF PairsOf
<1> QED BY <1>1, <1>2, <1>3

LEMMA PayloadOfType ==
    ASSUME NEW p \in Files, NEW t \in Tags
    PROVE  PayloadOf(p, t) \in Seq(Byte)
<1>1. IsTag(t)
  BY ChunkPacketAssumption
<1>2. CASE t.type \in NumberTypes
  <2>1. t.value \in [1..NumberBytes[t.type] -> Byte] /\ NumberBytes[t.type] \in Nat
    BY <1>1, <1>2, NumberTypesDef DEF IsTag
  <2> QED BY <1>2, <2>1, PayloadCases
<1>3. CASE t.type = TAG_STRING
  BY <1>1, <1>3, PayloadCases, NameBytesType DEF IsTag
<1>4. CASE t.type = TAG_INT_ARRAY
  BY <1>1, <1>4, PayloadCases, ArrayBytesType, FieldConstants DEF IsTag
<1>5. CASE t.type = TAG_LONG_ARRAY
  BY <1>1, <1>5, PayloadCases, ArrayBytesType, FieldConstants DEF IsTag
<1>6. CASE t.type = TAG_LIST
  <2>1. PICK v \in Seq(Byte), w \in Seq(Byte) : v = ListHead(t.value) /\ w = FlattenSeq(ItemsOf(p, t.value))
    BY <1>6, ListHeadType, ItemsType, FlattenType
  <2>2. v \o w \in Seq(Byte)
    OBVIOUS
  <2>3. PayloadOf(p, t) = v \o w
    BY <1>6, <2>1, PayloadCases
  <2> QED BY <2>2, <2>3
<1>7. CASE t.type = TAG_COMPOUND
  <2>1. FlattenSeq(PairsOf(p, t.value)) \in Seq(Byte)
    BY <1>7, PairsType, FlattenType
  <2>2. <<TAG_END>> \in Seq(Byte)
    BY BytesAreVarintBytes DEF TAG_END, Byte
  <2>3. FlattenSeq(PairsOf(p, t.value)) \o <<TAG_END>> \in Seq(Byte)
    BY <2>1, <2>2
  <2> QED BY <1>7, <2>3, PayloadCases
<1> QED BY <1>1, <1>2, <1>3, <1>4, <1>5, <1>6, <1>7, TagTypes DEF OtherTypes

\* The bytes of a tag depend on those of the tags in it.
LEMMA PayloadOfChildren ==
    ASSUME NEW p, NEW q, NEW t \in Tags, \A u \in Children(t) : p[u] = q[u]
    PROVE  PayloadOf(p, t) = PayloadOf(q, t)
<1>1. IsTag(t)
  BY ChunkPacketAssumption
<1>2. CASE t.type = TAG_LIST
  <2>1. DOMAIN t.value = 1..Len(t.value)
    BY <1>2, ListValue
  <2>2. \A i \in DOMAIN t.value : p[t.value[i]] = q[t.value[i]]
    BY <1>2, <2>1, ListValue
  <2>3. ItemsOf(p, t.value) = ItemsOf(q, t.value)
    BY <2>2 DEF ItemsOf
  <2> QED BY <1>2, <2>3, PayloadCases
<1>3. CASE t.type = TAG_COMPOUND
  <2>1. DOMAIN t.value = 1..Len(t.value)
    BY <1>3, CompoundValue
  <2>2. \A i \in DOMAIN t.value : PairBytes(p, t.value[i]) = PairBytes(q, t.value[i])
    BY <1>3, <2>1, CompoundValue DEF PairBytes
  <2>3. PairsOf(p, t.value) = PairsOf(q, t.value)
    BY <2>2 DEF PairsOf
  <2> QED BY <1>3, <2>3, PayloadCases
<1>4. CASE t.type \in NumberTypes \/ t.type = TAG_STRING \/ t.type = TAG_INT_ARRAY \/ t.type = TAG_LONG_ARRAY
  BY <1>4, PayloadCases
<1> QED BY <1>1, <1>2, <1>3, <1>4, TagTypes DEF OtherTypes

\* The tags in a tag are nested less.
LEMMA ChildrenNested ==
    \A t \in Tags : /\ Nesting[t] \in Nat
                    /\ \A u \in Children(t) : u \in Tags /\ Nesting[u] \in Nat /\ Nesting[u] < Nesting[t]
<1> SUFFICES ASSUME NEW t \in Tags
             PROVE  /\ Nesting[t] \in Nat
                    /\ \A u \in Children(t) : u \in Tags /\ Nesting[u] \in Nat /\ Nesting[u] < Nesting[t]
  OBVIOUS
<1>1. Nesting[t] \in Nat /\ \A u \in Children(t) : Nesting[u] < Nesting[t]
  BY ChunkPacketAssumption
<1>2. Children(t) \subseteq Tags
  <2>1. CASE t.type = TAG_LIST
    <3>1. Children(t) = Range(t.value) /\ DOMAIN t.value = 1..Len(t.value)
      BY <2>1, ListValue DEF Children, TAG_LIST, TAG_COMPOUND
    <3> QED BY <2>1, <3>1, ListValue DEF Range
  <2>2. CASE t.type = TAG_COMPOUND
    <3>1. Children(t) = {pair[2] : pair \in Range(t.value)} /\ DOMAIN t.value = 1..Len(t.value)
      BY <2>2, CompoundValue DEF Children, TAG_LIST, TAG_COMPOUND
    <3> QED BY <2>2, <3>1, CompoundValue DEF Range
  <2>3. CASE t.type # TAG_LIST /\ t.type # TAG_COMPOUND
    BY <2>3 DEF Children
  <2> QED BY <2>1, <2>2, <2>3
<1>3. \A u \in Children(t) : Nesting[u] \in Nat
  BY <1>2, ChunkPacketAssumption
<1> QED BY <1>1, <1>2, <1>3

\* The bytes of the tags up to a depth, more and more of them.
LEMMA PayloadDef ==
    /\ Payload \in Files
    /\ \A t \in Tags : Payload[t] = PayloadOf(Payload, t)
<1> DEFINE first == [t \in Tags |-> <<>>]
           step == [x \in Nat \X [Nat -> Files] |->
                       IF x[1] = 0 THEN first ELSE [t \in Tags |-> PayloadOf(x[2][x[1] - 1], t)]]
           body(p) == [t \in Tags |-> PayloadOf(p, t)]
<1>1. first \in Files /\ \A p \in Files : body(p) \in Files
  <2>1. <<>> \in Seq(Byte)
    OBVIOUS
  <2> QED BY <2>1, PayloadOfType DEF Files
<1>2. \A i \in Nat, f \in [Nat -> Files] : step[<<i, f>>] = IF i = 0 THEN first ELSE body(f[i - 1])
  OBVIOUS
<1>3. Recursion(step, Nat, Files)
  <2>1. ASSUME NEW i \in Nat, NEW f \in [Nat -> Files] PROVE step[<<i, f>>] \in Files
    <3>1. i # 0 => f[i - 1] \in Files
      OBVIOUS
    <3> HIDE DEF step, body, first
    <3> QED BY <1>1, <1>2, <3>1
  <2>2. step = [x \in Nat \X [Nat -> Files] |-> step[x]]
    OBVIOUS
  <2> HIDE DEF step, body, first
  <2>5. \A x \in Nat \X [Nat -> Files] : step[x] \in Files
    <3> SUFFICES ASSUME NEW x \in Nat \X [Nat -> Files] PROVE step[x] \in Files
      OBVIOUS
    <3>1. x[1] \in Nat /\ x[2] \in [Nat -> Files] /\ x = <<x[1], x[2]>>
      OBVIOUS
    <3>2. step[<<x[1], x[2]>>] \in Files
      BY <2>1, <3>1
    <3> QED BY <3>1, <3>2
  <2>6. step \in [Nat \X [Nat -> Files] -> Files]
    BY <2>2, <2>5
  <2>4. ASSUME NEW i \in Nat, NEW f \in [Nat -> Files], NEW g \in [Nat -> Files], \A j \in Nat : j < i => f[j] = g[j]
        PROVE  step[<<i, f>>] = step[<<i, g>>]
    <3>1. i # 0 => f[i - 1] = g[i - 1]
      BY <2>4
    <3> QED BY <1>2, <3>1
  <2> QED BY <1>1, <2>4, <2>6 DEF Recursion
<1> HIDE DEF step
<1>4. PICK h : Solves(h, step, Nat, Files)
  BY <1>3, RecursionExists
<1>5. \A i \in Nat : h[i] \in Files /\ h[i + 1] = body(h[i])
  <2>1. h \in [Nat -> Files] /\ \A i \in Nat : h[i] = step[<<i, h>>]
    BY <1>4 DEF Solves
  <2>2. ASSUME NEW i \in Nat PROVE h[i + 1] = body(h[i])
    <3>1. i + 1 \in Nat /\ (i + 1) - 1 = i /\ i + 1 # 0
      OBVIOUS
    <3>2. h[i + 1] = step[<<i + 1, h>>]
      BY <2>1, <3>1
    <3>3. step[<<i + 1, h>>] = body(h[(i + 1) - 1])
      BY <1>2, <2>1, <3>1
    <3> QED BY <3>1, <3>2, <3>3
  <2>3. \A i \in Nat : h[i] \in Files
    BY <2>1
  <2> QED BY <2>2, <2>3
<1>6. \A i \in Nat, t \in Tags : h[i + 1][t] = PayloadOf(h[i], t)
  BY <1>5
<1> HIDE DEF first, body
<1>7. \A t \in Tags : /\ Nesting[t] \in Nat
                      /\ \A u \in Children(t) : u \in Tags /\ Nesting[u] \in Nat /\ Nesting[u] < Nesting[t]
  BY ChildrenNested
<1> DEFINE Stable(i) == \A t \in Tags : Nesting[t] < i => h[i + 1][t] = h[i][t]
           S == {i \in Nat : Stable(i)}
<1>8. 0 \in S
  <2>1. \A t \in Tags : ~ (Nesting[t] < 0)
    BY <1>7
  <2> QED BY <2>1
<1>9. ASSUME NEW i \in Nat, i \in S PROVE i + 1 \in S
  <2> SUFFICES ASSUME NEW t \in Tags, Nesting[t] < i + 1 PROVE h[(i + 1) + 1][t] = h[i + 1][t]
    OBVIOUS
  <2>1. \A u \in Children(t) : h[i + 1][u] = h[i][u]
    <3> SUFFICES ASSUME NEW u \in Children(t) PROVE h[i + 1][u] = h[i][u]
      OBVIOUS
    <3>1. u \in Tags /\ Nesting[u] < i
      BY <1>7
    <3> QED BY <1>9, <3>1
  <2>2. PayloadOf(h[i + 1], t) = PayloadOf(h[i], t)
    BY <2>1, PayloadOfChildren
  <2> QED BY <1>6, <2>2
<1>10. Nat \subseteq S
  <2> HIDE DEF S
  <2> QED BY <1>8, <1>9, NaturalInduction
<1> DEFINE p == [t \in Tags |-> h[Nesting[t] + 1][t]]
<1>11. p \in Files
  BY <1>5, <1>7 DEF Files
<1>12. \A t \in Tags : p[t] = h[Nesting[t] + 1][t]
  OBVIOUS
<1> HIDE DEF p
<1>13. \A t \in Tags : \A i \in Nat : Nesting[t] < i => h[i][t] = p[t]
  <2> SUFFICES ASSUME NEW t \in Tags PROVE \A i \in Nat : Nesting[t] < i => h[i][t] = p[t]
    OBVIOUS
  <2> DEFINE T == {i \in Nat : Nesting[t] < i => h[i][t] = p[t]}
  <2>1. 0 \in T
    BY <1>7
  <2>2. ASSUME NEW i \in Nat, i \in T PROVE i + 1 \in T
    <3>1. Nesting[t] \in Nat
      BY <1>7
    <3>2. CASE Nesting[t] = i
      BY <1>12, <3>2
    <3>3. CASE Nesting[t] < i
      <4>1. h[i + 1][t] = h[i][t]
        BY <1>10, <3>3
      <4> QED BY <2>2, <3>3, <4>1
    <3>4. CASE ~ (Nesting[t] < i + 1)
      BY <3>4
    <3> QED BY <3>1, <3>2, <3>3, <3>4
  <2>3. Nat \subseteq T
    <3> HIDE DEF T
    <3> QED BY <2>1, <2>2, NaturalInduction
  <2> QED BY <2>3
<1>14. ASSUME NEW t \in Tags PROVE p[t] = PayloadOf(p, t)
  <2>1. p[t] = PayloadOf(h[Nesting[t]], t)
    BY <1>6, <1>7, <1>12
  <2>2. \A u \in Children(t) : h[Nesting[t]][u] = p[u]
    BY <1>7, <1>13
  <2>3. PayloadOf(h[Nesting[t]], t) = PayloadOf(p, t)
    BY <2>2, PayloadOfChildren
  <2> QED BY <2>1, <2>3
<1>15. p = body(p)
  BY <1>11, <1>14 DEF Files, body
<1> DEFINE payload == CHOOSE q : q = body(q)
<1>16. payload = body(payload)
  BY <1>15
<1>17. Payload = payload
  BY DEF Payload, body
<1> HIDE DEF payload
<1>18. \A t \in Tags : Payload[t] = PayloadOf(Payload, t)
  BY <1>16, <1>17 DEF body
<1>19. Payload = [t \in Tags |-> Payload[t]]
  BY <1>16, <1>17 DEF body
<1> DEFINE U == {i \in Nat : \A t \in Tags : Nesting[t] = i => Payload[t] = p[t]}
<1>20. ASSUME NEW i \in Nat, \A j \in Nat : j < i => j \in U PROVE i \in U
  <2> SUFFICES ASSUME NEW t \in Tags, Nesting[t] = i PROVE Payload[t] = p[t]
    OBVIOUS
  <2>1. \A u \in Children(t) : Payload[u] = p[u]
    BY <1>7, <1>20
  <2>2. PayloadOf(Payload, t) = PayloadOf(p, t)
    BY <2>1, PayloadOfChildren
  <2> QED BY <1>14, <1>18, <2>2
<1>21. Nat \subseteq U
  <2> HIDE DEF U
  <2> QED BY <1>20, CompleteInduction
<1>22. \A t \in Tags : Payload[t] = p[t]
  BY <1>7, <1>21
<1>23. Payload \in Files
  BY <1>11, <1>19, <1>22 DEF Files
<1> QED BY <1>18, <1>23
-----------------------------------------------------------------------------
(* The parts of a flattened sequence, where the whole of it agrees.        *)

\* Where part i of q begins behind `at', and the whole of it: f gives the concatenations.
PartsAgree(s, at, q, f) ==
    /\ f[0] = <<>>
    /\ \A i \in 0..Len(q) : f[i] \in Seq(Byte) /\ Len(f[i]) <= Len(f[Len(q)])
    /\ \A i \in 1..Len(q) : /\ q[i] \in Seq(Byte)
                            /\ Len(f[i]) = Len(f[i - 1]) + Len(q[i])
                            /\ at + Len(f[i - 1]) <= Len(s) => Agrees(s, at + Len(f[i - 1]), q[i])

LEMMA GathersAgree ==
    ASSUME NEW s \in Seq(Byte), NEW q \in Seq(Seq(Byte)), NEW f, Gathers(f, q, Byte), NEW at,
           Agrees(s, at, f[Len(q)])
    PROVE  PartsAgree(s, at, q, f)
<1>1. PICK l \in Nat : l = Len(q)
  OBVIOUS
<1>2. /\ f[0] = <<>> /\ \A i \in 0..l : f[i] \in Seq(Byte)
      /\ \A i \in 1..l : q[i] \in Seq(Byte) /\ f[i] = f[i - 1] \o q[i]
  <2>1. \A i \in 1..l : q[i] \in Seq(Byte)
    BY <1>1, ElementOfSeq
  <2>2. f \in [0..l -> Seq(Byte)] /\ f[0] = <<>> /\ \A i \in 1..l : f[i] = f[i - 1] \o q[i]
    BY <1>1 DEF Gathers
  <2> QED BY <2>1, <2>2
<1>3. \A i \in 0..l : Len(f[i]) \in Nat
  BY <1>2
<1>4. \A i \in 1..l : Len(f[i]) = Len(f[i - 1]) + Len(q[i]) /\ Len(f[i - 1]) <= Len(f[i]) /\ Len(q[i]) \in Nat
  <2> SUFFICES ASSUME NEW i \in 1..l
               PROVE  Len(f[i]) = Len(f[i - 1]) + Len(q[i]) /\ Len(f[i - 1]) <= Len(f[i]) /\ Len(q[i]) \in Nat
    OBVIOUS
  <2>1. i - 1 \in 0..l
    OBVIOUS
  <2>2. PICK v \in Seq(Byte), w \in Seq(Byte) : v = f[i - 1] /\ w = q[i]
    BY <1>2, <2>1
  <2>3. Len(v \o w) = Len(v) + Len(w) /\ Len(v) \in Nat /\ Len(w) \in Nat
    OBVIOUS
  <2>4. f[i] = v \o w
    BY <1>2, <2>2
  <2>5. Len(f[i]) = Len(v) + Len(w)
    BY <2>3, <2>4
  <2>6. Len(v) <= Len(f[i])
    BY <2>3, <2>5
  <2> QED BY <2>2, <2>3, <2>5, <2>6
<1> DEFINE S == {k \in 0..l : Agrees(s, at, f[l - k]) /\ Len(f[l - k]) <= Len(f[l])}
<1>5. 0 \in S
  BY <1>1, <1>3
<1>6. ASSUME NEW k \in 0 .. l - 1, k \in S PROVE k + 1 \in S
  <2>1. PICK i \in 1..l : i = l - k
    OBVIOUS
  <2>2. i - 1 \in 0..l /\ i \in 0..l /\ l - (k + 1) = i - 1 /\ k + 1 \in 0..l
    BY <2>1
  <2>3. PICK v \in Seq(Byte), w \in Seq(Byte) : v = f[i - 1] /\ w = q[i] /\ f[i] = v \o w
    BY <1>2, <2>2
  <2>4. Agrees(s, at, v \o w)
    BY <1>6, <2>1, <2>3
  <2>5. Agrees(s, at, v)
    BY <2>4, AgreesInParts
  <2>6. Len(f[i - 1]) <= Len(f[l])
    <3>1. Len(f[i]) <= Len(f[l]) /\ Len(f[i - 1]) <= Len(f[i])
      BY <1>4, <1>6, <2>1
    <3>2. Len(f[i]) \in Nat /\ Len(f[i - 1]) \in Nat /\ Len(f[l]) \in Nat
      BY <1>3, <2>2
    <3> QED BY <3>1, <3>2
  <2> QED BY <2>2, <2>3, <2>5, <2>6
<1>7. 0..l \subseteq S
  <2> HIDE DEF S
  <2> QED BY <1>5, <1>6, BoundedInduction
<1>8. \A i \in 0..l : Agrees(s, at, f[i]) /\ Len(f[i]) <= Len(f[l])
  <2> SUFFICES ASSUME NEW i \in 0..l PROVE Agrees(s, at, f[i]) /\ Len(f[i]) <= Len(f[l])
    OBVIOUS
  <2>1. l - i \in 0..l /\ l - (l - i) = i
    OBVIOUS
  <2>2. l - i \in S
    BY <1>7, <2>1
  <2> QED BY <2>1, <2>2
<1>9. ASSUME NEW i \in 1..l, at + Len(f[i - 1]) <= Len(s) PROVE Agrees(s, at + Len(f[i - 1]), q[i])
  <2>1. i - 1 \in 0..l /\ i \in 0..l
    OBVIOUS
  <2>2. PICK v \in Seq(Byte), w \in Seq(Byte) : v = f[i - 1] /\ w = q[i] /\ f[i] = v \o w
    BY <1>2, <2>1
  <2>3. Agrees(s, at, v \o w)
    BY <1>8, <2>1, <2>2
  <2> QED BY <1>9, <2>2, <2>3, AgreesInParts
<1> QED BY <1>1, <1>2, <1>4, <1>8, <1>9 DEF PartsAgree
-----------------------------------------------------------------------------
(* A tag read from its bytes.                                              *)

LEMMA ReadsOk ==
    ASSUME NEW r, NEW s, NEW at, NEW w, NEW v, Reads(r, s, at, w, v)
    PROVE  /\ r.status = "ok" <=> at + Len(w) <= Len(s)
           /\ r.status = "ok" => r.at = at + Len(w) /\ r.value = v
  BY DEF Reads, Ok

LEMMA TaggedReads ==
    ASSUME NEW s, NEW at, NEW w, NEW r, NEW t, t = Tag(t.type, t.value), Reads(r, s, at, w, t.value)
    PROVE  Reads(Tagged(t.type, r), s, at, w, t)
<1>1. CASE at + Len(w) <= Len(s)
  <2>1. r.status = "ok" /\ r.at = at + Len(w) /\ r.value = t.value
    BY <1>1, ReadsOk
  <2>2. Tagged(t.type, r) = Ok(at + Len(w), t)
    BY <2>1 DEF Tagged
  <2> QED BY <1>1, <2>2 DEF Reads
<1>2. CASE ~ (at + Len(w) <= Len(s))
  <2>1. r.status # "ok"
    BY <1>2, ReadsOk
  <2>2. Tagged(t.type, r) = r
    BY <2>1 DEF Tagged
  <2> QED BY <1>2, <2>1, <2>2 DEF Reads
<1> QED BY <1>1, <1>2

TagReads(s, t) ==
    \A at : Agrees(s, at, Payload[t]) =>
               Reads(Construct(s, Len(s))[<<"tag", t.type, 0, at>>], s, at, Payload[t], t)

LEMMA PayloadType == \A t \in Tags : Payload[t] \in Seq(Byte)
  BY PayloadDef DEF Files

LEMMA SuffixOfMore ==
    ASSUME NEW M, NEW v \in Seq(M), NEW i \in 1..Len(v), NEW k, k = Len(v) - i
    PROVE  <<v[i]>> \o Suffix(v, k) = Suffix(v, k + 1)
<1>1. PICK n \in Nat : n = Len(v)
  OBVIOUS
<1>2. Suffix(v, k) = SubSeq(v, i + 1, n) /\ Suffix(v, k + 1) = SubSeq(v, i, n)
  BY <1>1 DEF Suffix
<1>3. SubSeq(v, i + 1, n) \in Seq(M) /\ Len(SubSeq(v, i + 1, n)) = n - i
  BY <1>1
<1>4. SubSeq(v, i, n) \in Seq(M) /\ Len(SubSeq(v, i, n)) = (n - i) + 1
  BY <1>1
<1>5. v[i] \in M
  BY ElementOfSeq
<1>6. PICK e \in M, w \in Seq(M), u \in Seq(M) : e = v[i] /\ w = SubSeq(v, i + 1, n) /\ u = SubSeq(v, i, n)
  BY <1>3, <1>4, <1>5
<1>7. \A j \in 1..(n - i) : w[j] = v[i + j]
  BY <1>1, <1>6
<1>8. \A j \in 1..(n - i) + 1 : u[j] = v[i + j - 1]
  BY <1>1, <1>6
<1>9. u = <<e>> \o w
  BY <1>3, <1>4, <1>6, <1>7, <1>8
<1> QED BY <1>2, <1>6, <1>9

LEMMA SuffixAll == ASSUME NEW M, NEW v \in Seq(M) PROVE Suffix(v, 0) = <<>> /\ Suffix(v, Len(v)) = v
<1>1. PICK n \in Nat : n = Len(v)
  OBVIOUS
<1>2. Suffix(v, 0) = SubSeq(v, n + 1, n) /\ Suffix(v, Len(v)) = SubSeq(v, 1, n)
  BY <1>1 DEF Suffix
<1>3. SubSeq(v, n + 1, n) = <<>> /\ SubSeq(v, 1, n) = v
  BY <1>1
<1> QED BY <1>2, <1>3

\* What the constructors call.

LEMMA ConstructItems ==
    ASSUME NEW s \in Seq(Byte), NEW type \in Byte, NEW n \in Nat, NEW at \in Nat
    PROVE  Construct(s, Len(s))[<<"items", type, n, at>>] = items(Construct(s, Len(s)), type, n, at)
  BY ConstructParts

LEMMA ConstructPairs ==
    ASSUME NEW s \in Seq(Byte), NEW at \in Nat
    PROVE  Construct(s, Len(s))[<<"pairs", TAG_COMPOUND, 0, at>>] = pairs(Construct(s, Len(s)), s, Len(s), at)
<1>1. TAG_COMPOUND \in Byte /\ 0 \in Nat
  BY SomeTypes
<1> QED BY <1>1, ConstructParts

LEMMA ConstructTag ==
    ASSUME NEW s \in Seq(Byte), NEW type \in Byte, NEW at \in Nat
    PROVE  Construct(s, Len(s))[<<"tag", type, 0, at>>] = create(Construct(s, Len(s)), s, Len(s), type, at)
<1>1. 0 \in Nat
  OBVIOUS
<1> QED BY <1>1, ConstructParts

\* r is what reading the last k of the n parts of v comes to, from behind `at' and those
\* before them; f gives where the parts begin, and `last' bytes lie behind them.
ReadsRest(r, s, at, f, n, last, v, k) ==
    at + Len(f[n - k]) <= Len(s) =>
        IF at + Len(f[n]) + last <= Len(s) THEN r = Ok(at + Len(f[n]) + last, Suffix(v, k)) ELSE r.status # "ok"

\* The items of a list.
LEMMA ItemsRead ==
    ASSUME NEW s \in Seq(Byte), NEW t \in Tags, t.type = TAG_LIST, t.value # <<>>,
           \A u \in Children(t) : TagReads(s, u), NEW at,
           NEW g, g = FlattenSeq(ItemsOf(Payload, t.value)), Agrees(s, at, g)
    PROVE  Reads(Construct(s, Len(s))[<<"items", t.value[1].type, Len(t.value), at>>], s, at, g, t.value)
<1>1. PICK F : F = Construct(s, Len(s))
  OBVIOUS
<1>2. PICK type : type = t.value[1].type
  OBVIOUS
<1>3. PICK v \in Seq(Tags) : v = t.value
  BY ListValue
<1>4. PICK n \in Nat : n = Len(v)
  OBVIOUS
<1>5. \A i \in 1..n : v[i] \in Tags /\ v[i].type = type /\ TagReads(s, v[i])
  BY <1>2, <1>3, <1>4, ListValue
<1>6. n # 0 /\ type \in Byte
  <2>1. n # 0
    BY <1>3, <1>4
  <2>2. v[1] \in Tags /\ v[1].type = type
    BY <1>5, <2>1
  <2> QED BY <2>1, <2>2, ChunkPacketAssumption, TagTypes
<1>7. PICK q \in Seq(Seq(Byte)) : q = ItemsOf(Payload, v) /\ Len(q) = n
  BY <1>3, <1>4, ItemsType, PayloadDef
<1>8. \A i \in 1..n : q[i] = Payload[v[i]]
  BY <1>4, <1>7 DEF ItemsOf
<1>9. PICK f : Gathers(f, q, Byte) /\ g = f[n]
  BY <1>3, <1>7, FlattenGathers
<1>10. PartsAgree(s, at, q, f)
  BY <1>7, <1>9, GathersAgree
<1>11. at \in Nat /\ Len(s) \in Nat
  BY DEF Agrees
<1>12. \A i \in 0..n : Len(f[i]) \in Nat /\ Len(f[i]) <= Len(f[n])
  BY <1>7, <1>10 DEF PartsAgree
<1> DEFINE R(k) == F[<<"items", type, k, at + Len(f[n - k])>>]
           S == {k \in 0..n : ReadsRest(R(k), s, at, f, n, 0, v, k)}
<1>13. 0 \in S
  <2>1. n - 0 = n /\ 0 \in 0..n
    OBVIOUS
  <2>2. PICK p \in Nat : p = at + Len(f[n])
    BY <1>11, <1>12
  <2>3. F[<<"items", type, 0, p>>] = items(F, type, 0, p)
    <3>1. 0 \in Nat
      OBVIOUS
    <3> QED BY <1>1, <1>6, <3>1, ConstructItems
  <2>4. items(F, type, 0, p) = Ok(p, <<>>)
    BY DEF items
  <2>5. Suffix(v, 0) = <<>> /\ p + 0 = p
    BY SuffixAll
  <2>6. R(0) = Ok(p, <<>>)
    BY <2>1, <2>2, <2>3, <2>4
  <2> QED BY <2>1, <2>2, <2>5, <2>6 DEF ReadsRest
<1>14. ASSUME NEW k \in 0 .. n - 1, k \in S PROVE k + 1 \in S
  <2>1. PICK i \in 1..n : i = n - k
    OBVIOUS
  <2>2. i - 1 \in 0..n /\ n - (k + 1) = i - 1 /\ k + 1 \in 0..n /\ k + 1 \in Nat /\ k \in Nat /\ k + 1 # 0
        /\ (k + 1) - 1 = k /\ i \in 0..n
    BY <2>1
  <2>3. PICK p \in Nat, e \in Nat, l \in Nat : p = at + Len(f[i - 1]) /\ e = at + Len(f[i]) /\ l = at + Len(f[n])
    <3>1. Len(f[i - 1]) \in Nat /\ Len(f[i]) \in Nat /\ Len(f[n]) \in Nat
      BY <1>12, <2>2
    <3>2. \A m \in Nat : at + m \in Nat
      BY <1>11
    <3> QED BY <3>1, <3>2
  <2>4. PICK w \in Seq(Byte) : w = q[i] /\ e = p + Len(w) /\ e <= l
    <3>1. q[i] \in Seq(Byte) /\ Len(f[i]) = Len(f[i - 1]) + Len(q[i])
      BY <1>7, <1>10 DEF PartsAgree
    <3>2. PICK w \in Seq(Byte) : w = q[i]
      BY <3>1
    <3>3. Len(f[i - 1]) \in Nat /\ Len(f[i]) \in Nat /\ Len(f[n]) \in Nat /\ Len(w) \in Nat /\ Len(f[i]) <= Len(f[n])
      BY <1>12, <2>2
    <3>4. e = p + Len(w) /\ e <= l
      <4>1. PICK a \in Nat, b \in Nat, c \in Nat, d \in Nat :
               a = Len(f[i - 1]) /\ b = Len(f[i]) /\ c = Len(f[n]) /\ d = Len(w)
        BY <3>3
      <4>2. b = a + d /\ b <= c
        BY <3>1, <3>2, <3>3, <4>1
      <4>3. p = at + a /\ e = at + b /\ l = at + c
        BY <2>3, <4>1
      <4> QED BY <1>11, <4>1, <4>2, <4>3
    <3> QED BY <3>2, <3>4
  <2> SUFFICES ASSUME p <= Len(s)
               PROVE  IF l <= Len(s) THEN R(k + 1) = Ok(l, Suffix(v, k + 1)) ELSE R(k + 1).status # "ok"
    BY <2>2, <2>3 DEF ReadsRest
  <2>5. PICK r : r = F[<<"tag", type, 0, p>>]
    OBVIOUS
  <2>6. Reads(r, s, p, w, v[i])
    <3>1. Agrees(s, p, w)
      BY <1>7, <1>10, <2>3, <2>4 DEF PartsAgree
    <3>2. v[i].type = type /\ TagReads(s, v[i]) /\ w = Payload[v[i]]
      BY <1>5, <1>8, <2>4
    <3> QED BY <1>1, <2>5, <3>1, <3>2 DEF TagReads
  <2>12. PICK m \in Nat : m = k + 1 /\ m # 0 /\ m - 1 = k
    BY <2>2
  <2>7. R(k + 1) = items(F, type, m, p)
    <3>1. F[<<"items", type, m, p>>] = items(F, type, m, p)
      BY <1>1, <1>6, ConstructItems
    <3> QED BY <2>2, <2>3, <2>12, <3>1
  <2>8. PICK z : z = F[<<"items", type, k, r.at>>]
    OBVIOUS
  <2>9. R(k + 1) = IF r.status = "ok" THEN IF z.status = "ok" THEN Ok(z.at, <<r.value>> \o z.value) ELSE z ELSE r
    <3>1. items(F, type, m, p) =
             IF r.status = "ok" THEN IF z.status = "ok" THEN Ok(z.at, <<r.value>> \o z.value) ELSE z ELSE r
      <4>1. z = F[<<"items", type, m - 1, r.at>>]
        BY <2>8, <2>12
      <4> QED BY <2>5, <2>12, <4>1 DEF items, Then
    <3> QED BY <2>7, <3>1
  <2>10. CASE e <= Len(s)
    <3>1. r.status = "ok" /\ r.at = e /\ r.value = v[i]
      BY <2>4, <2>6, <2>10, ReadsOk
    <3>2. ReadsRest(z, s, at, f, n, 0, v, k)
      BY <1>14, <2>1, <2>3, <2>8, <3>1
    <3>3. IF l <= Len(s) THEN z = Ok(l, Suffix(v, k)) ELSE z.status # "ok"
      <4>1. l + 0 = l
        OBVIOUS
      <4> QED BY <2>1, <2>3, <2>10, <3>2, <4>1 DEF ReadsRest
    <3>4. <<v[i]>> \o Suffix(v, k) = Suffix(v, k + 1)
      <4>1. k = Len(v) - i /\ i \in 1..Len(v)
        BY <1>4, <2>1
      <4> QED BY <4>1, SuffixOfMore
    <3>5. CASE l <= Len(s)
      <4>1. z.status = "ok" /\ z.at = l /\ z.value = Suffix(v, k)
        BY <3>3, <3>5 DEF Ok
      <4>2. R(k + 1) = Ok(z.at, <<r.value>> \o z.value)
        BY <2>9, <3>1, <4>1
      <4> QED BY <3>1, <3>4, <3>5, <4>1, <4>2
    <3>6. CASE ~ (l <= Len(s))
      BY <2>9, <3>1, <3>3, <3>6
    <3> QED BY <3>5, <3>6
  <2>11. CASE ~ (e <= Len(s))
    <3>1. r.status # "ok"
      BY <2>4, <2>6, <2>11, ReadsOk
    <3>2. ~ (l <= Len(s))
      BY <1>11, <2>4, <2>11
    <3> QED BY <2>9, <3>1, <3>2
  <2> QED BY <2>10, <2>11
<1>15. n \in S
  <2> HIDE DEF S
  <2>1. 0..n \subseteq S
    BY <1>13, <1>14, BoundedInduction
  <2> QED BY <2>1
<1>16. f[0] = <<>> /\ Len(f[0]) = 0 /\ n - n = 0
  BY <1>10 DEF PartsAgree
<1>17. R(n) = F[<<"items", type, n, at>>]
  <2>1. at + Len(f[n - n]) = at
    <3>1. f[n - n] = f[0]
      BY <1>16
    <3>2. at + 0 = at
      BY <1>11
    <3> QED BY <1>16, <3>1, <3>2
  <2> QED BY <2>1
<1>18. at <= Len(s)
  BY DEF Agrees
<1>19. Suffix(v, n) = v
  BY <1>4, SuffixAll
<1>20. IF at + Len(g) <= Len(s) THEN R(n) = Ok(at + Len(g), v) ELSE R(n).status # "ok"
  <2>1. PICK l \in Nat : l = at + Len(f[n])
    BY <1>11, <1>12
  <2>2. l + 0 = l /\ at + 0 = at
    BY <1>11
  <2> QED BY <1>9, <1>15, <1>16, <1>18, <1>19, <2>1, <2>2 DEF ReadsRest
<1> QED BY <1>1, <1>2, <1>3, <1>4, <1>17, <1>20 DEF Reads

LEMMA ListRead ==
    ASSUME NEW s \in Seq(Byte), NEW t \in Tags, t.type = TAG_LIST,
           \A u \in Children(t) : TagReads(s, u), NEW at, Agrees(s, at, Payload[t])
    PROVE  Reads(ListItems(Construct(s, Len(s)), s, at), s, at, Payload[t], t.value)
<1>1. PICK F : F = Construct(s, Len(s))
  OBVIOUS
<1>2. PICK n \in Nat, v \in Seq(Tags) : v = t.value /\ n = Len(v) /\ IsInt(n)
  BY ListValue
<1>3. PICK b \in Byte : b = IF v = <<>> THEN TAG_END ELSE v[1].type
  <2>1. CASE v = <<>>
    BY <2>1, SomeTypes
  <2>2. CASE v # <<>>
    <3>1. 1 \in 1..Len(v)
      BY <2>2
    <3>2. v[1] \in Tags
      BY <3>1, ElementOfSeq
    <3> QED BY <2>2, <3>2, ChunkPacketAssumption, TagTypes
  <2> QED BY <2>1, <2>2
<1>4. PICK a \in Seq(Byte), c \in Seq(Byte), g \in Seq(Byte) :
          /\ a = <<b>> /\ Len(a) = 1 /\ c = write_int(n, IntBytes) /\ g = FlattenSeq(ItemsOf(Payload, v))
  <2>1. <<b>> \in Seq(Byte) /\ Len(<<b>>) = 1
    OBVIOUS
  <2>2. write_int(n, IntBytes) \in Seq(Byte)
    BY <1>2, IntBytesOfLength
  <2>3. FlattenSeq(ItemsOf(Payload, v)) \in Seq(Byte)
    BY <1>2, ItemsType, PayloadDef, FlattenType
  <2> QED BY <2>1, <2>2, <2>3
<1>5. Payload[t] = (a \o c) \o g
  <2>1. Payload[t] = ListHead(t.value) \o FlattenSeq(ItemsOf(Payload, t.value))
    BY PayloadDef, PayloadCases
  <2> QED BY <1>2, <1>3, <1>4, <2>1 DEF ListHead
<1>6. a \o c \in Seq(Byte)
  OBVIOUS
<1>7. Agrees(s, at, (a \o c) \o g) /\ Agrees(s, at, a \o c) /\ Agrees(s, at, a)
  <2>1. Agrees(s, at, (a \o c) \o g)
    BY <1>5
  <2>2. Agrees(s, at, a \o c)
    BY <1>6, <2>1, AgreesInParts
  <2>3. Agrees(s, at, a)
    BY <2>2, AgreesInParts
  <2> QED BY <2>1, <2>2, <2>3
<1>8. at \in Nat /\ Len(s) \in Nat /\ Len(a) \in Nat /\ Len(c) \in Nat /\ Len(a \o c) = Len(a) + Len(c)
  BY DEF Agrees
<1>9. PICK r : r = read_int(s, at, Len(s), "u8")
  OBVIOUS
<1>10. Reads(r, s, at, a, b)
  BY <1>4, <1>7, <1>9, ReadsByte
<1>11. PICK q : q = read_int(s, r.at, Len(s), "i32")
  OBVIOUS
<1>12. at + Len(a) <= Len(s) => Reads(q, s, at + Len(a), c, n)
  <2> SUFFICES ASSUME at + Len(a) <= Len(s) PROVE Reads(q, s, at + Len(a), c, n)
    OBVIOUS
  <2>1. r.at = at + Len(a)
    BY <1>10, ReadsOk
  <2>2. Agrees(s, at + Len(a), c)
    BY <1>7, AgreesInParts
  <2> QED BY <1>2, <1>4, <1>11, <2>1, <2>2, ReadsInt
<1>13. PICK x : x = IF r.status = "ok" THEN q ELSE r
  OBVIOUS
<1>14. Reads(x, s, at, a \o c, n)
  BY <1>7, <1>10, <1>12, <1>13, ReadsOn
<1>15. PICK z : z = IF q.value <= 0 THEN Ok(q.at, <<>>) ELSE F[<<"items", r.value, q.value, q.at>>]
  OBVIOUS
<1>16. at + Len(a \o c) <= Len(s) => Reads(z, s, at + Len(a \o c), g, v)
  <2> SUFFICES ASSUME at + Len(a \o c) <= Len(s) PROVE Reads(z, s, at + Len(a \o c), g, v)
    OBVIOUS
  <2>1. at + Len(a) <= Len(s)
    BY <1>8
  <2>2. r.status = "ok" /\ r.at = at + Len(a) /\ r.value = b
    BY <1>10, <2>1, ReadsOk
  <2>3. x = q /\ q.at = at + Len(a \o c) /\ q.value = n
    <3>1. x = q
      BY <1>13, <2>2
    <3>2. x.at = at + Len(a \o c) /\ x.value = n
      BY <1>14, ReadsOk
    <3> QED BY <3>1, <3>2
  <2>4. PICK p \in Nat : p = at + Len(a \o c)
    BY <1>8
  <2>5. Agrees(s, p, g)
    BY <1>6, <1>7, <2>4, AgreesInParts
  <2>6. CASE v = <<>>
    <3>1. n = 0 /\ z = Ok(p, <<>>)
      BY <1>2, <1>15, <2>3, <2>4, <2>6
    <3>2. g = <<>> /\ Len(g) = 0
      <4>1. Len(ItemsOf(Payload, v)) = 0 /\ ItemsOf(Payload, v) \in Seq(Seq(Byte))
        BY <1>2, <3>1, ItemsType, PayloadDef
      <4>2. ItemsOf(Payload, v) = <<>>
        BY <4>1
      <4> QED BY <1>4, <4>2 DEF FlattenSeq
    <3>3. p + Len(g) = p
      BY <3>2
    <3> QED BY <2>4, <2>6, <3>1, <3>3 DEF Reads
  <2>7. CASE v # <<>>
    <3>1. n # 0 /\ ~ (q.value <= 0)
      BY <1>2, <2>3, <2>7
    <3>2. z = F[<<"items", b, n, p>>]
      BY <1>15, <2>2, <2>3, <2>4, <3>1
    <3>3. b = t.value[1].type /\ t.value # <<>>
      BY <1>2, <1>3, <2>7
    <3>4. Reads(F[<<"items", t.value[1].type, Len(t.value), p>>], s, p, g, t.value)
      BY <1>1, <1>2, <1>4, <2>5, <3>3, ItemsRead
    <3> QED BY <1>2, <2>4, <3>2, <3>3, <3>4
  <2> QED BY <2>6, <2>7
<1>17. Reads(IF x.status = "ok" THEN z ELSE x, s, at, (a \o c) \o g, v)
  BY <1>6, <1>7, <1>14, <1>16, ReadsOn
<1>18. ListItems(F, s, at) = IF x.status = "ok" THEN z ELSE x
  BY <1>9, <1>11, <1>13, <1>15 DEF ListItems
<1> QED BY <1>1, <1>2, <1>5, <1>17, <1>18

\* The first pair of a compound: r, name and tag are what a round of the loop reads.
ReadsPair(h, r, name, s, at, n, u) ==
    /\ Reads(h, s, at, PairBytes(Payload, <<n, u>>), u)
    /\ r.status = "ok" => r.value # TAG_END
    /\ r.status = "ok" /\ name.status = "ok" => name.value = n
LEMMA PairRead ==
    ASSUME NEW s \in Seq(Byte), NEW n \in Seq(Byte), IsShort(Len(n)), NEW u \in Tags, TagReads(s, u), NEW at,
           Agrees(s, at, PairBytes(Payload, <<n, u>>)),
           NEW r, r = read_int(s, at, Len(s), "u8"), NEW name, name = read_name(s, r.at, Len(s)),
           NEW tag, tag = Construct(s, Len(s))[<<"tag", r.value, 0, name.at>>],
           NEW h, h = IF r.status # "ok" THEN r ELSE IF name.status # "ok" THEN name ELSE tag
    PROVE  ReadsPair(h, r, name, s, at, n, u)
<1>1. PICK a \in Seq(Byte), c \in Seq(Byte), g \in Seq(Byte) :
          a = <<u.type>> /\ Len(a) = 1 /\ c = NameBytes(n) /\ g = Payload[u] /\ a \o c \in Seq(Byte)
  <2>1. u.type \in Byte
    BY ChunkPacketAssumption, TagTypes
  <2>2. <<u.type>> \in Seq(Byte) /\ Len(<<u.type>>) = 1
    BY <2>1
  <2>3. PICK x \in Seq(Byte), y \in Seq(Byte) : x = <<u.type>> /\ y = NameBytes(n)
    BY <2>2, NameBytesType
  <2>4. x \o y \in Seq(Byte)
    OBVIOUS
  <2> QED BY <2>2, <2>3, <2>4, PayloadType
<1>2. PairBytes(Payload, <<n, u>>) = (a \o c) \o g
  BY <1>1, PairBytesType, PayloadDef
<1>3. Agrees(s, at, (a \o c) \o g) /\ Agrees(s, at, a \o c) /\ Agrees(s, at, a)
  <2>1. Agrees(s, at, (a \o c) \o g)
    BY <1>2
  <2>2. Agrees(s, at, a \o c)
    BY <1>1, <2>1, AgreesInParts
  <2>3. Agrees(s, at, a)
    BY <2>2, AgreesInParts
  <2> QED BY <2>1, <2>2, <2>3
<1>4. at \in Nat /\ Len(s) \in Nat /\ Len(a) \in Nat /\ Len(c) \in Nat /\ Len(a \o c) = Len(a) + Len(c)
  BY DEF Agrees
<1>5. Reads(r, s, at, a, u.type)
  <2>1. u.type \in Byte
    BY ChunkPacketAssumption, TagTypes
  <2> QED BY <1>1, <1>3, <2>1, ReadsByte
<1>6. at + Len(a) <= Len(s) => Reads(name, s, at + Len(a), c, n)
  <2> SUFFICES ASSUME at + Len(a) <= Len(s) PROVE Reads(name, s, at + Len(a), c, n)
    OBVIOUS
  <2>1. r.at = at + Len(a)
    BY <1>5, ReadsOk
  <2>2. Agrees(s, at + Len(a), c)
    BY <1>3, AgreesInParts
  <2> QED BY <1>1, <2>1, <2>2, ReadsName
<1>7. PICK x : x = IF r.status = "ok" THEN name ELSE r
  OBVIOUS
<1>8. Reads(x, s, at, a \o c, n)
  BY <1>3, <1>5, <1>6, <1>7, ReadsOn
<1>9. r.status = "ok" => r.value = u.type /\ r.value # TAG_END
  BY <1>5, ReadsOk, ChunkPacketAssumption, TagTypes
<1>10. r.status = "ok" /\ name.status = "ok" => name.value = n
  <2> SUFFICES ASSUME r.status = "ok", name.status = "ok" PROVE name.value = n
    OBVIOUS
  <2>1. x = name
    BY <1>7
  <2> QED BY <1>8, <2>1, ReadsOk
<1>11. at + Len(a \o c) <= Len(s) => Reads(tag, s, at + Len(a \o c), g, u)
  <2> SUFFICES ASSUME at + Len(a \o c) <= Len(s) PROVE Reads(tag, s, at + Len(a \o c), g, u)
    OBVIOUS
  <2>1. at + Len(a) <= Len(s)
    BY <1>4
  <2>2. r.status = "ok" /\ r.value = u.type
    BY <1>5, <1>9, <2>1, ReadsOk
  <2>3. name.at = at + Len(a \o c)
    <3>1. x = name
      BY <1>7, <2>2
    <3>2. x.at = at + Len(a \o c)
      BY <1>8, ReadsOk
    <3> QED BY <3>1, <3>2
  <2>4. Agrees(s, at + Len(a \o c), g)
    BY <1>1, <1>3, AgreesInParts
  <2> QED BY <1>1, <2>2, <2>3, <2>4 DEF TagReads
<1>12. Reads(IF x.status = "ok" THEN tag ELSE x, s, at, (a \o c) \o g, u)
  BY <1>1, <1>3, <1>8, <1>11, ReadsOn
<1>13. (IF x.status = "ok" THEN tag ELSE x) = h
  BY <1>7
<1> QED BY <1>2, <1>9, <1>10, <1>12, <1>13 DEF ReadsPair

LEMMA PairsRead ==
    ASSUME NEW s \in Seq(Byte), NEW t \in Tags, t.type = TAG_COMPOUND,
           \A u \in Children(t) : TagReads(s, u), NEW at, Agrees(s, at, Payload[t])
    PROVE  Reads(Construct(s, Len(s))[<<"pairs", TAG_COMPOUND, 0, at>>], s, at, Payload[t], t.value)
<1>1. PICK F : F = Construct(s, Len(s))
  OBVIOUS
<1>25. PICK v \in Seq(Seq(Byte) \X Tags) : v = t.value
  BY CompoundValue
<1>2. PICK n \in Nat : v = t.value /\ n = Len(v)
  BY <1>25
<1>3. \A i \in 1..n : \E name \in Seq(Byte), u \in Tags :
          v[i] = <<name, u>> /\ IsShort(Len(name)) /\ TagReads(s, u)
  BY <1>2, CompoundValue
<1>4. PICK q \in Seq(Seq(Byte)) : q = PairsOf(Payload, v) /\ Len(q) = n
  BY <1>2, PairsType, PayloadDef
<1>5. \A i \in 1..n : q[i] = PairBytes(Payload, v[i])
  BY <1>2, <1>4 DEF PairsOf
<1>6. PICK f : Gathers(f, q, Byte) /\ FlattenSeq(q) = f[n]
  BY <1>4, FlattenGathers
<1>7. PICK g \in Seq(Byte), o \in Seq(Byte) : g = f[n] /\ o = <<TAG_END>> /\ Len(o) = 1
  <2>1. f[n] \in Seq(Byte)
    BY <1>4, <1>6, FlattenType
  <2>2. <<TAG_END>> \in Seq(Byte) /\ Len(<<TAG_END>>) = 1
    BY SomeTypes
  <2> QED BY <2>1, <2>2
<1>8. Payload[t] = g \o o /\ Agrees(s, at, g \o o)
  <2>1. Payload[t] = FlattenSeq(PairsOf(Payload, t.value)) \o <<TAG_END>>
    BY PayloadDef, PayloadCases
  <2>2. PairsOf(Payload, t.value) = q
    BY <1>2, <1>4
  <2> QED BY <1>6, <1>7, <2>1, <2>2
<1>9. Agrees(s, at, g)
  BY <1>8, AgreesInParts
<1>10. PartsAgree(s, at, q, f)
  BY <1>4, <1>6, <1>7, <1>9, GathersAgree
<1>11. at \in Nat /\ Len(s) \in Nat
  BY <1>9 DEF Agrees
<1>12. \A i \in 0..n : Len(f[i]) \in Nat /\ Len(f[i]) <= Len(f[n])
  BY <1>4, <1>10 DEF PartsAgree
<1> DEFINE R(k) == F[<<"pairs", TAG_COMPOUND, 0, at + Len(f[n - k])>>]
           S == {k \in 0..n : ReadsRest(R(k), s, at, f, n, 1, v, k)}
<1>13. 0 \in S
  <2>1. n - 0 = n /\ 0 \in 0..n
    OBVIOUS
  <2>2. PICK p \in Nat : p = at + Len(f[n])
    <3>1. Len(f[n]) \in Nat
      BY <1>12
    <3>2. \A m \in Nat : at + m \in Nat
      BY <1>11
    <3> QED BY <3>1, <3>2
  <2> SUFFICES ASSUME p <= Len(s)
               PROVE  IF p + 1 <= Len(s) THEN R(0) = Ok(p + 1, <<>>) ELSE R(0).status # "ok"
    <3>1. Suffix(v, 0) = <<>>
      BY SuffixAll
    <3> QED BY <2>1, <2>2, <3>1 DEF ReadsRest
  <2>3. Agrees(s, p, o)
    BY <1>7, <1>8, <2>2, AgreesInParts
  <2>4. PICK r : r = read_int(s, p, Len(s), "u8")
    OBVIOUS
  <2>5. Reads(r, s, p, o, TAG_END)
    BY <1>7, <2>3, <2>4, SomeTypes, ReadsByte
  <2>6. R(0) = pairs(F, s, Len(s), p)
    BY <1>1, <2>1, <2>2, ConstructPairs
  <2>7. pairs(F, s, Len(s), p) = IF r.status = "ok" THEN IF r.value = TAG_END THEN Ok(r.at, <<>>)
                                                         ELSE pairs(F, s, Len(s), p)
                                 ELSE r
    BY <2>4 DEF pairs, Then
  <2>10. /\ r.status = "ok" <=> p + Len(o) <= Len(s)
         /\ r.status = "ok" => r.at = p + Len(o) /\ r.value = TAG_END
    BY <2>5, ReadsOk
  <2>8. CASE p + 1 <= Len(s)
    <3>1. r.status = "ok" /\ r.at = p + 1 /\ r.value = TAG_END
      BY <1>7, <2>8, <2>10
    <3> QED BY <2>6, <2>7, <2>8, <3>1
  <2>9. CASE ~ (p + 1 <= Len(s))
    <3>1. r.status # "ok"
      BY <1>7, <2>9, <2>10
    <3> QED BY <2>6, <2>7, <2>9, <3>1
  <2> QED BY <2>8, <2>9
<1>14. ASSUME NEW k \in 0 .. n - 1, k \in S PROVE k + 1 \in S
  <2>1. PICK i \in 1..n : i = n - k
    OBVIOUS
  <2>2. i - 1 \in 0..n /\ n - (k + 1) = i - 1 /\ k + 1 \in 0..n /\ i \in 0..n
    BY <2>1
  <2>3. PICK p \in Nat, e \in Nat, l \in Nat : p = at + Len(f[i - 1]) /\ e = at + Len(f[i]) /\ l = at + Len(f[n])
    <3>1. Len(f[i - 1]) \in Nat /\ Len(f[i]) \in Nat /\ Len(f[n]) \in Nat
      BY <1>12, <2>2
    <3>2. \A m \in Nat : at + m \in Nat
      BY <1>11
    <3> QED BY <3>1, <3>2
  <2>4. PICK w \in Seq(Byte) : w = q[i] /\ e = p + Len(w) /\ e <= l
    <3>1. q[i] \in Seq(Byte) /\ Len(f[i]) = Len(f[i - 1]) + Len(q[i])
      BY <1>4, <1>10 DEF PartsAgree
    <3>2. PICK w \in Seq(Byte) : w = q[i]
      BY <3>1
    <3>3. Len(f[i - 1]) \in Nat /\ Len(f[i]) \in Nat /\ Len(f[n]) \in Nat /\ Len(w) \in Nat /\ Len(f[i]) <= Len(f[n])
      BY <1>12, <2>2
    <3>4. e = p + Len(w) /\ e <= l
      <4>1. PICK a \in Nat, b \in Nat, c \in Nat, d \in Nat :
               a = Len(f[i - 1]) /\ b = Len(f[i]) /\ c = Len(f[n]) /\ d = Len(w)
        BY <3>3
      <4>2. b = a + d /\ b <= c
        BY <3>1, <3>2, <3>3, <4>1
      <4>3. p = at + a /\ e = at + b /\ l = at + c
        BY <2>3, <4>1
      <4> QED BY <1>11, <4>1, <4>2, <4>3
    <3> QED BY <3>2, <3>4
  <2> SUFFICES ASSUME p <= Len(s)
               PROVE  IF l + 1 <= Len(s) THEN R(k + 1) = Ok(l + 1, Suffix(v, k + 1)) ELSE R(k + 1).status # "ok"
    BY <2>2, <2>3 DEF ReadsRest
  <2>5. PICK m \in Seq(Byte), u \in Tags : v[i] = <<m, u>> /\ IsShort(Len(m)) /\ TagReads(s, u)
    BY <1>3
  <2>6. w = PairBytes(Payload, <<m, u>>) /\ Agrees(s, p, w)
    <3>1. Agrees(s, p, w)
      BY <1>4, <1>10, <2>3, <2>4 DEF PartsAgree
    <3> QED BY <1>5, <2>4, <2>5, <3>1
  <2>7. PICK r : r = read_int(s, p, Len(s), "u8")
    OBVIOUS
  <2>8. PICK name : name = read_name(s, r.at, Len(s))
    OBVIOUS
  <2>9. PICK tag : tag = F[<<"tag", r.value, 0, name.at>>]
    OBVIOUS
  <2>10. PICK h : h = IF r.status # "ok" THEN r ELSE IF name.status # "ok" THEN name ELSE tag
    OBVIOUS
  <2>11. /\ Reads(h, s, p, w, u)
         /\ r.status = "ok" => r.value # TAG_END
         /\ r.status = "ok" /\ name.status = "ok" => name.value = m
    <3>1. tag = Construct(s, Len(s))[<<"tag", r.value, 0, name.at>>] /\ Agrees(s, p, PairBytes(Payload, <<m, u>>))
      BY <1>1, <2>6, <2>9
    <3>2. ReadsPair(h, r, name, s, p, m, u)
      BY <2>5, <2>7, <2>8, <2>10, <3>1, PairRead, Zenon
    <3> QED BY <2>6, <3>2 DEF ReadsPair
  <2>12. PICK z : z = F[<<"pairs", TAG_COMPOUND, 0, tag.at>>]
    OBVIOUS
  <2>13. R(k + 1) = pairs(F, s, Len(s), p)
    BY <1>1, <2>2, <2>3, ConstructPairs
  <2>14. pairs(F, s, Len(s), p) =
            IF r.status = "ok"
            THEN IF r.value = TAG_END THEN Ok(r.at, <<>>)
                 ELSE IF name.status = "ok"
                      THEN IF tag.status = "ok"
                           THEN IF z.status = "ok" THEN Ok(z.at, << <<name.value, tag.value>> >> \o z.value) ELSE z
                           ELSE tag
                      ELSE name
            ELSE r
    BY <2>7, <2>8, <2>9, <2>12 DEF pairs, Then
  <2>15. CASE e <= Len(s)
    <3>1. h.status = "ok" /\ h.at = e /\ h.value = u
      <4>1. p + Len(w) <= Len(s) /\ e = p + Len(w)
        BY <2>4, <2>15
      <4>2. Reads(h, s, p, w, u)
        BY <2>11
      <4> QED BY <4>1, <4>2, ReadsOk
    <3>2. r.status = "ok" /\ name.status = "ok" /\ h = tag
      BY <2>10, <3>1
    <3>3. R(k + 1) = IF z.status = "ok" THEN Ok(z.at, <<v[i]>> \o z.value) ELSE z
      BY <2>5, <2>11, <2>13, <2>14, <3>1, <3>2
    <3>4. ReadsRest(z, s, at, f, n, 1, v, k)
      BY <1>14, <2>1, <2>3, <2>12, <3>1, <3>2
    <3>5. IF l + 1 <= Len(s) THEN z = Ok(l + 1, Suffix(v, k)) ELSE z.status # "ok"
      BY <2>1, <2>3, <2>15, <3>4 DEF ReadsRest
    <3>6. <<v[i]>> \o Suffix(v, k) = Suffix(v, k + 1)
      <4>1. k = Len(v) - i /\ i \in 1..Len(v)
        BY <1>2, <2>1
      <4> QED BY <4>1, SuffixOfMore
    <3>7. CASE l + 1 <= Len(s)
      <4>1. z.status = "ok" /\ z.at = l + 1 /\ z.value = Suffix(v, k)
        BY <3>5, <3>7 DEF Ok
      <4>2. R(k + 1) = Ok(z.at, <<v[i]>> \o z.value)
        BY <3>3, <4>1
      <4> QED BY <3>6, <3>7, <4>1, <4>2
    <3>8. CASE ~ (l + 1 <= Len(s))
      BY <3>3, <3>5, <3>8
    <3> QED BY <3>7, <3>8
  <2>16. CASE ~ (e <= Len(s))
    <3>1. h.status # "ok"
      BY <2>4, <2>11, <2>16, ReadsOk
    <3>2. R(k + 1) = h
      BY <2>10, <2>11, <2>13, <2>14, <3>1
    <3>3. ~ (l + 1 <= Len(s))
      BY <1>11, <2>4, <2>16
    <3> QED BY <3>1, <3>2, <3>3
  <2> QED BY <2>15, <2>16
<1>15. n \in S
  <2> HIDE DEF S
  <2>1. 0..n \subseteq S
    BY <1>13, <1>14, BoundedInduction
  <2> QED BY <2>1
<1>16. f[0] = <<>> /\ Len(f[0]) = 0 /\ n - n = 0
  BY <1>10 DEF PartsAgree
<1>17. at + Len(f[n - n]) = at
  <2>1. f[n - n] = f[0]
    BY <1>16
  <2>2. at + 0 = at
    BY <1>11
  <2> QED BY <1>16, <2>1, <2>2
<1>18. at <= Len(s)
  BY <1>9 DEF Agrees
<1>19. Suffix(v, n) = v
  BY <1>2, SuffixAll
<1>20. PICK l \in Nat : l = at + Len(g)
  BY <1>7, <1>11
<1>21. Len(g \o o) = Len(g) + 1 /\ at + Len(g \o o) = l + 1
  <2>1. Len(g \o o) = Len(g) + 1 /\ Len(g) \in Nat
    BY <1>7
  <2> QED BY <1>11, <1>20, <2>1
<1>22. ReadsRest(R(n), s, at, f, n, 1, v, n)
  BY <1>15
<1>23. IF l + 1 <= Len(s) THEN R(n) = Ok(l + 1, v) ELSE R(n).status # "ok"
  BY <1>7, <1>17, <1>18, <1>19, <1>20, <1>22 DEF ReadsRest
<1>24. R(n) = F[<<"pairs", TAG_COMPOUND, 0, at>>]
  BY <1>17
<1> QED BY <1>1, <1>2, <1>8, <1>21, <1>23, <1>24 DEF Reads

\* A tag whose bytes are there is read from exactly them.
LEMMA TagRead ==
    ASSUME NEW s \in Seq(Byte), NEW t \in Tags, \A u \in Children(t) : TagReads(s, u)
    PROVE  TagReads(s, t)
<1> SUFFICES ASSUME NEW at, Agrees(s, at, Payload[t])
             PROVE  Reads(Construct(s, Len(s))[<<"tag", t.type, 0, at>>], s, at, Payload[t], t)
  BY DEF TagReads
<1>1. PICK F : F = Construct(s, Len(s))
  OBVIOUS
<1>2. IsTag(t) /\ t = Tag(t.type, t.value) /\ t.type \in NumberTypes \union OtherTypes /\ t.type \in Byte
  BY ChunkPacketAssumption, TagTypes
<1>3. at \in Nat
  BY DEF Agrees
<1>4. PICK type \in Byte : type = t.type /\ type \in Nat
  <2>1. \A b \in Byte : b \in Nat
    BY BytesAreVarintBytes DEF Byte
  <2> QED BY <1>2, <2>1
<1>5. PICK c : c = create(F, s, Len(s), type, at)
  OBVIOUS
<1>6. F[<<"tag", type, 0, at>>] = c
  BY <1>1, <1>3, <1>5, ConstructTag
<1>7. CreateNumber(F, s, type, at) /\ CreateOther(F, s, type, at)
  BY <1>4, CreateCases
<1>8. PICK w : w = Payload[t] /\ w = PayloadOf(Payload, t)
  BY PayloadDef
<1> SUFFICES \E r : c = Tagged(type, r) /\ Reads(r, s, at, w, t.value)
  <2> SUFFICES ASSUME NEW r, c = Tagged(type, r), Reads(r, s, at, w, t.value)
               PROVE  Reads(c, s, at, w, t)
    BY <1>1, <1>4, <1>6, <1>8
  <2>1. Reads(Tagged(t.type, r), s, at, w, t)
    BY <1>2, TaggedReads
  <2> QED BY <1>4, <2>1
<1>9. CASE type \in NumberTypes
  <2>1. w = t.value
    BY <1>4, <1>8, <1>9, PayloadCases
  <2>2. t.value \in [1..NumberBytes[type] -> Byte] /\ NumberBytes[type] \in Nat
    BY <1>2, <1>4, <1>9, NumberTypesDef DEF IsTag
  <2>3. w \in Seq(Byte) /\ Len(w) = NumberBytes[type]
    BY <2>1, <2>2
  <2>4. Reads(read_bytes(s, at, Len(s), Len(w)), s, at, w, w)
    BY <1>8, <2>3, ReadsBytes
  <2>5. c = Tagged(type, read_bytes(s, at, Len(s), Len(w)))
    BY <1>5, <1>7, <1>9, <2>3 DEF CreateNumber
  <2>6. Reads(read_bytes(s, at, Len(s), Len(w)), s, at, w, t.value)
    BY <2>1, <2>4
  <2> QED BY <2>5, <2>6, Zenon
<1>10. CASE type = TAG_STRING
  <2>1. w = NameBytes(t.value) /\ t.value \in Seq(Byte) /\ IsShort(Len(t.value))
    BY <1>2, <1>4, <1>8, <1>10, PayloadCases DEF IsTag
  <2>2. Reads(read_name(s, at, Len(s)), s, at, w, t.value)
    BY <1>8, <2>1, ReadsName
  <2>3. c = Tagged(type, read_name(s, at, Len(s)))
    BY <1>5, <1>7, <1>10 DEF CreateOther
  <2> QED BY <2>2, <2>3, Zenon
<1>11. CASE type = TAG_INT_ARRAY
  <2>1. w = ArrayBytes(t.value, IntBytes) /\ IsArray(t.value, IntBytes)
    BY <1>2, <1>4, <1>8, <1>11, PayloadCases DEF IsTag
  <2>2. Reads(read_array(s, at, Len(s), IntBytes), s, at, w, t.value)
    BY <1>8, <2>1, ReadsArray, FieldConstants
  <2>3. c = Tagged(type, read_array(s, at, Len(s), IntBytes))
    BY <1>5, <1>7, <1>11 DEF CreateOther
  <2> QED BY <2>2, <2>3, Zenon
<1>12. CASE type = TAG_LONG_ARRAY
  <2>1. w = ArrayBytes(t.value, LongBytes) /\ IsArray(t.value, LongBytes)
    BY <1>2, <1>4, <1>8, <1>12, PayloadCases DEF IsTag
  <2>2. Reads(read_array(s, at, Len(s), LongBytes), s, at, w, t.value)
    BY <1>8, <2>1, ReadsArray, FieldConstants
  <2>3. c = Tagged(type, read_array(s, at, Len(s), LongBytes))
    BY <1>5, <1>7, <1>12 DEF CreateOther
  <2> QED BY <2>2, <2>3, Zenon
<1>13. CASE type = TAG_LIST
  <2>1. Reads(ListItems(F, s, at), s, at, w, t.value)
    BY <1>1, <1>4, <1>8, <1>13, ListRead
  <2>2. c = Tagged(type, ListItems(F, s, at))
    BY <1>5, <1>7, <1>13 DEF CreateOther
  <2> QED BY <2>1, <2>2, Zenon
<1>14. CASE type = TAG_COMPOUND
  <2>1. Reads(F[<<"pairs", TAG_COMPOUND, 0, at>>], s, at, w, t.value)
    BY <1>1, <1>4, <1>8, <1>14, PairsRead
  <2>2. c = Tagged(type, F[<<"pairs", TAG_COMPOUND, 0, at>>])
    BY <1>5, <1>7, <1>14 DEF CreateOther
  <2> QED BY <2>1, <2>2, Zenon
<1> QED BY <1>2, <1>4, <1>9, <1>10, <1>11, <1>12, <1>13, <1>14 DEF OtherTypes

LEMMA TagsRead == ASSUME NEW s \in Seq(Byte) PROVE \A t \in Tags : TagReads(s, t)
<1> DEFINE S == {i \in Nat : \A t \in Tags : Nesting[t] = i => TagReads(s, t)}
<1>1. ASSUME NEW i \in Nat, \A j \in Nat : j < i => j \in S PROVE i \in S
  <2> SUFFICES ASSUME NEW t \in Tags, Nesting[t] = i PROVE TagReads(s, t)
    OBVIOUS
  <2>1. \A u \in Children(t) : u \in Tags /\ Nesting[u] \in Nat /\ Nesting[u] < i
    BY ChildrenNested
  <2>2. \A u \in Children(t) : TagReads(s, u)
    BY <1>1, <2>1
  <2> QED BY <2>2, TagRead
<1>2. Nat \subseteq S
  <2> HIDE DEF S
  <2> QED BY <1>1, CompleteInduction
<1>3. \A t \in Tags : Nesting[t] \in Nat
  BY ChunkPacketAssumption
<1> QED BY <1>2, <1>3

\* The name of a root.
LEMMA OneName == <<1>> \in Seq(Byte) /\ IsShort(Len(<<1>>))
<1>1. 1 \in Byte
  BY SomeTypes
<1>2. PICK n \in Nat \ {0} : n = ShortBytes * ByteBits
  <2>1. PICK a \in Nat \ {0}, b \in Nat \ {0} : a = ShortBytes /\ b = ByteBits
    BY FieldConstants
  <2> QED BY <2>1
<1>3. 1 < Pow2[n]
  <2>1. Pow2[(n - 1) + 1] = 2 * Pow2[n - 1] /\ Pow2[n - 1] \in Nat \ {0}
    BY Pow2Def, Pow2Positive
  <2> QED BY <2>1
<1>4. Len(<<1>>) = 1
  OBVIOUS
<1> QED BY <1>1, <1>2, <1>3, <1>4 DEF IsShort

\* So is a tree: t is a tag, or there is no root.
TreeType == Tags \union {NoTag}

LEMMA TreeBytes == \A t \in TreeType : Tree(t) \in Seq(Byte)
<1> SUFFICES ASSUME NEW t \in TreeType PROVE Tree(t) \in Seq(Byte)
  OBVIOUS
<1>1. CASE t.type = TAG_END
  BY <1>1, SomeTypes DEF Tree
<1>2. CASE t.type # TAG_END
  <2>1. t \in Tags
    BY <1>2 DEF TreeType, NoTag, Tag
  <2>2. PairBytes(Payload, << <<1>>, t>>) \in Seq(Byte)
    BY <2>1, OneName, PairBytesType, PayloadDef
  <2>3. Tree(t) = PairBytes(Payload, << <<1>>, t>>)
    BY <1>2 DEF Tree, PairBytes
  <2> QED BY <2>2, <2>3
<1> QED BY <1>1, <1>2

LEMMA TreeRead ==
    ASSUME NEW s \in Seq(Byte), NEW t \in TreeType, NEW at, Agrees(s, at, Tree(t))
    PROVE  Reads(read_nbt(s, at, Len(s)), s, at, Tree(t), t)
<1>1. PICK r : r = read_int(s, at, Len(s), "u8")
  OBVIOUS
<1>2. PICK z : z = read_nbt(s, at, Len(s))
  OBVIOUS
<1>3. CASE t.type = TAG_END
  <2>1. t = NoTag /\ t = Tag(TAG_END, <<>>)
    BY <1>3, ChunkPacketAssumption, TagTypes DEF TreeType, NoTag
  <2>2. PICK w : w = <<TAG_END>> /\ Tree(t) = w /\ TAG_END \in Byte
    BY <1>3, SomeTypes DEF Tree
  <2>3. Reads(r, s, at, w, TAG_END)
    BY <1>1, <2>2, ReadsByte
  <2>4. z = IF r.status = "ok" THEN IF r.value = TAG_END THEN Ok(r.at, Tag(TAG_END, <<>>)) ELSE z ELSE r
    BY <1>1, <1>2 DEF read_nbt, Then
  <2>5. Reads(IF r.status = "ok" THEN z ELSE r, s, at, w, t)
    <3>1. at + Len(w) <= Len(s) => z = Ok(at + Len(w), t)
      <4> SUFFICES ASSUME at + Len(w) <= Len(s) PROVE z = Ok(at + Len(w), t)
        OBVIOUS
      <4>1. r.status = "ok" /\ r.at = at + Len(w) /\ r.value = TAG_END
        BY <2>3, ReadsOk
      <4> QED BY <2>1, <2>4, <4>1
    <3> QED BY <2>3, <3>1, ReadsAs
  <2>6. z = IF r.status = "ok" THEN z ELSE r
    BY <2>4
  <2> QED BY <1>2, <2>2, <2>5, <2>6
<1>4. CASE t.type # TAG_END
  <2>1. t \in Tags /\ TagReads(s, t)
    BY <1>4, TagsRead DEF TreeType, NoTag, Tag
  <2>2. Tree(t) = PairBytes(Payload, << <<1>>, t>>)
    BY <1>4 DEF Tree, PairBytes
  <2>3. PICK name : name = read_name(s, r.at, Len(s))
    OBVIOUS
  <2>4. PICK tag : tag = Construct(s, Len(s))[<<"tag", r.value, 0, name.at>>]
    OBVIOUS
  <2>5. PICK h : h = IF r.status # "ok" THEN r ELSE IF name.status # "ok" THEN name ELSE tag
    OBVIOUS
  <2>6. Agrees(s, at, PairBytes(Payload, << <<1>>, t>>))
    BY <2>2
  <2>7. ReadsPair(h, r, name, s, at, <<1>>, t)
    BY <1>1, <2>1, <2>3, <2>4, <2>5, <2>6, OneName, PairRead, Zenon
  <2>8. z = IF r.status = "ok"
            THEN IF r.value = TAG_END THEN Ok(r.at, Tag(TAG_END, <<>>))
                 ELSE IF name.status = "ok" THEN tag ELSE name
            ELSE r
    BY <1>1, <1>2, <2>3, <2>4 DEF read_nbt, Then
  <2>9. z = h
    BY <2>5, <2>7, <2>8 DEF ReadsPair
  <2> QED BY <1>2, <2>2, <2>7, <2>9 DEF ReadsPair
<1> QED BY <1>3, <1>4
-----------------------------------------------------------------------------
(* What servers send: the parts of a packet.                               *)

\* Any integer is written in as many bytes as were asked for.
LEMMA AnyInt ==
    ASSUME NEW x \in Int, NEW n \in Nat \ {0}
    PROVE  write_int(x, n) \in Seq(Byte) /\ Len(write_int(x, n)) = n
<1>1. PICK bits \in Nat : bits = n * ByteBits
  <2>1. PICK b \in Nat : b = ByteBits
    BY FieldConstants
  <2>2. n * b \in Nat
    OBVIOUS
  <2> QED BY <2>1, <2>2
<1>2. PICK m \in Nat \ {0} : m = Pow2[bits]
  BY Pow2Positive
<1>3. x % m \in 0 .. m - 1
  OBVIOUS
<1>4. ToUnsigned(x, n * ByteBits) \in UnsignedRange(n * ByteBits)
  BY <1>1, <1>2, <1>3 DEF ToUnsigned, UnsignedRange
<1> QED BY <1>4, WriteInt

\* An integer whose value is not used: it takes the bytes it was written in.
LEMMA ReadsAny ==
    ASSUME NEW s, NEW at, NEW kind \in DOMAIN IntWidth, NEW w, Len(w) = IntWidth[kind],
           NEW r, r = read_int(s, at, Len(s), kind)
    PROVE  \E x : Reads(r, s, at, w, x)
<1>1. CASE at + Len(w) <= Len(s)
  <2>1. PICK x : r = Ok(at + Len(w), x)
    BY <1>1, ReadIntTakes
  <2>2. Reads(r, s, at, w, x)
    BY <1>1, <2>1 DEF Reads
  <2> QED BY <2>2
<1>2. CASE ~ (at + Len(w) <= Len(s))
  <2>1. r = Aborted
    BY <1>2, ReadIntTakes
  <2>2. \A x : Reads(r, s, at, w, x)
    BY <1>2, <2>1 DEF Reads, Aborted
  <2> QED BY <2>2
<1> QED BY <1>1, <1>2

LEMMA VarintBytes ==
    ASSUME NEW v, IsVarint(v)
    PROVE  v \in SignedRange(Digits) /\ write_varint(v) \in Seq(Byte)
<1>1. v \in SignedRange(Digits)
  BY DEF IsVarint, SignBit, SignedRange
<1> QED BY <1>1, VarintBytesWritten

\* The type in front of a block entity fits.
LEMMA ThreeIsVarint == IsVarint(3)
<1>1. PICK b \in Nat \ {0} : b = ByteBits
  BY FieldConstants
<1>2. Pow2[0] = 1 /\ Pow2[1] = 2 /\ Pow2[2] = 4 /\ Pow2[3] = 8
  <2>1. Pow2[0 + 1] = 2 * Pow2[0] /\ Pow2[1 + 1] = 2 * Pow2[1] /\ Pow2[2 + 1] = 2 * Pow2[2]
    BY Pow2Def
  <2> QED BY <2>1, Pow2Def
<1>3. b > 3
  <2>1. PICK m \in Nat : m = Pow2[b]
    BY Pow2Positive
  <2>2. 12 \in 0 .. m - 1
    BY <1>1, <2>1, NbtAssumption DEF Byte, TAG_LONG_ARRAY
  <2>3. b <= 3 => m <= 8
    <3>1. b <= 3 => Pow2[b] <= Pow2[3]
      BY Pow2Monotone
    <3> QED BY <1>2, <2>1, <3>1
  <2> QED BY <2>2, <2>3
<1>4. PICK d \in Nat : d = Digits - 1 /\ d >= 3
  <2>1. PICK i \in Nat \ {0} : i = IntBytes
    BY FieldConstants
  <2>2. b * i >= b
    OBVIOUS
  <2>3. Digits = b * i
    BY <1>1, <2>1, FieldConstants
  <2>4. b * i \in Nat
    OBVIOUS
  <2> QED BY <1>3, <2>2, <2>3, <2>4
<1>5. PICK h \in Nat : h = Pow2[d] /\ h >= 8
  <2>1. Pow2[3] <= Pow2[d] /\ Pow2[d] \in Nat
    BY <1>4, Pow2Monotone, Pow2Positive
  <2> QED BY <1>2, <2>1
<1> QED BY <1>4, <1>5 DEF IsVarint, SignBit

\* Where the parts of the packet made from p end.
EntityBytes(p) == [i \in DOMAIN p.entities |-> Entity(p.entities[i])]
DataEnd(p) == Len(Header(p)) + Len(p.data)
EntitiesAt(p) == DataEnd(p) + Len(write_varint(Len(p.entities)))
EntitiesTo(p) == CHOOSE f : Gathers(f, EntityBytes(p), Byte) /\ FlattenSeq(EntityBytes(p)) = f[Len(EntityBytes(p))]
EntityAt(p, i) == EntitiesAt(p) + Len(EntitiesTo(p)[i])

SentType(p) ==
    /\ p.heightmaps \in TreeType /\ p.x \in Int /\ p.cut \in Nat /\ p.data \in Seq(Byte) /\ p.light \in Seq(Byte)
    /\ p.lie \in Int /\ Len(p.entities) \in Nat /\ Len(p.data) \in Nat
    /\ p.entities \in Seq(TreeType) /\ \A i \in 1..Len(p.entities) : p.entities[i] \in TreeType
    /\ IsVarint(Len(p.data) + p.lie) /\ IsVarint(Len(p.entities))

LEMMA SentTypes == \A p \in Sent : SentType(p)
<1> SUFFICES ASSUME NEW p \in Sent PROVE SentType(p)
  OBVIOUS
<1>1. /\ p.heightmaps \in TreeType /\ p.x \in Int /\ p.lie \in Int /\ p.cut \in Nat
      /\ p.data \in Seq(Byte) /\ p.light \in Seq(Byte) /\ p.entities \in Seq(TreeType)
      /\ IsVarint(Len(p.data) + p.lie) /\ IsVarint(Len(p.entities))
  BY ChunkPacketAssumption DEF TreeType
<1>2. Len(p.entities) \in Nat /\ Len(p.data) \in Nat
  BY <1>1
<1>3. \A i \in 1..Len(p.entities) : p.entities[i] \in TreeType
  BY <1>1, ElementOfSeq
<1> QED BY <1>1, <1>2, <1>3 DEF SentType

\* The parts of a header.
HeaderParts(a, b, c, d, p) ==
    /\ a \in Seq(Byte) /\ b \in Seq(Byte) /\ c \in Seq(Byte) /\ d \in Seq(Byte)
    /\ a = write_int(p.x, IntBytes) /\ Len(a) = IntBytes /\ b = write_int(0, IntBytes) /\ Len(b) = IntBytes
    /\ c = Tree(p.heightmaps) /\ d = write_varint(Len(p.data) + p.lie)
    /\ a \o b \in Seq(Byte) /\ (a \o b) \o c \in Seq(Byte)
    /\ Header(p) \in Seq(Byte) /\ Header(p) = ((a \o b) \o c) \o d

LEMMA HeaderBytes == ASSUME NEW p \in Sent PROVE \E a, b, c, d : HeaderParts(a, b, c, d, p)
<1>1. SentType(p)
  BY SentTypes
<1>2. PICK a \in Seq(Byte) : a = write_int(p.x, IntBytes) /\ Len(a) = IntBytes
  BY <1>1, AnyInt, FieldConstants DEF SentType
<1>3. PICK b \in Seq(Byte) : b = write_int(0, IntBytes) /\ Len(b) = IntBytes
  <2>1. 0 \in Int
    OBVIOUS
  <2> QED BY <2>1, AnyInt, FieldConstants
<1>4. PICK c \in Seq(Byte) : c = Tree(p.heightmaps)
  BY <1>1, TreeBytes DEF SentType
<1>5. PICK d \in Seq(Byte) : d = write_varint(Len(p.data) + p.lie)
  BY <1>1, VarintBytes DEF SentType
<1>6. a \o b \in Seq(Byte)
  OBVIOUS
<1>7. (a \o b) \o c \in Seq(Byte)
  BY <1>6
<1>8. ((a \o b) \o c) \o d \in Seq(Byte)
  BY <1>7
<1>9. Header(p) = ((a \o b) \o c) \o d
  BY <1>2, <1>3, <1>4, <1>5 DEF Header
<1>10. HeaderParts(a, b, c, d, p)
  BY <1>2, <1>3, <1>4, <1>5, <1>6, <1>7, <1>8, <1>9 DEF HeaderParts
<1> QED BY <1>10

\* The parts of a block entity.
EntityParts(a, b, c, d, t) ==
    /\ a \in Seq(Byte) /\ b \in Seq(Byte) /\ c \in Seq(Byte) /\ d \in Seq(Byte)
    /\ a = <<1>> /\ b = write_int(2, ShortBytes) /\ Len(b) = ShortBytes
    /\ c = write_varint(3) /\ d = Tree(t)
    /\ a \o b \in Seq(Byte) /\ (a \o b) \o c \in Seq(Byte)
    /\ Entity(t) \in Seq(Byte) /\ Entity(t) = ((a \o b) \o c) \o d

LEMMA OneEntityBytes == ASSUME NEW t \in TreeType PROVE \E a, b, c, d : EntityParts(a, b, c, d, t)
<1>1. PICK a \in Seq(Byte) : a = <<1>>
  BY OneName
<1>2. PICK b \in Seq(Byte) : b = write_int(2, ShortBytes) /\ Len(b) = ShortBytes
  <2>1. 2 \in Int
    OBVIOUS
  <2> QED BY <2>1, AnyInt, FieldConstants
<1>3. PICK c \in Seq(Byte) : c = write_varint(3)
  BY ThreeIsVarint, VarintBytes
<1>4. PICK d \in Seq(Byte) : d = Tree(t)
  BY TreeBytes
<1>6. a \o b \in Seq(Byte)
  OBVIOUS
<1>7. (a \o b) \o c \in Seq(Byte)
  BY <1>6
<1>8. ((a \o b) \o c) \o d \in Seq(Byte)
  BY <1>7
<1>9. Entity(t) = ((a \o b) \o c) \o d
  BY <1>1, <1>2, <1>3, <1>4 DEF Entity
<1>10. EntityParts(a, b, c, d, t)
  BY <1>1, <1>2, <1>3, <1>4, <1>6, <1>7, <1>8, <1>9 DEF EntityParts
<1> QED BY <1>10

LEMMA EntityBytesType ==
    ASSUME NEW p \in Sent
    PROVE  /\ EntityBytes(p) \in Seq(Seq(Byte)) /\ Len(EntityBytes(p)) = Len(p.entities)
           /\ \A i \in 1..Len(p.entities) : EntityBytes(p)[i] = Entity(p.entities[i])
           /\ Gathers(EntitiesTo(p), EntityBytes(p), Byte)
           /\ FlattenSeq(EntityBytes(p)) = EntitiesTo(p)[Len(p.entities)]
<1>1. PICK n \in Nat : n = Len(p.entities) /\ DOMAIN p.entities = 1..n
  BY SentTypes DEF SentType
<1>2. \A i \in 1..n : Entity(p.entities[i]) \in Seq(Byte)
  <2> SUFFICES ASSUME NEW i \in 1..n PROVE Entity(p.entities[i]) \in Seq(Byte)
    OBVIOUS
  <2>1. p.entities[i] \in TreeType
    BY <1>1, SentTypes DEF SentType
  <2> QED BY <2>1, OneEntityBytes DEF EntityParts
<1>3. EntityBytes(p) = [i \in 1..n |-> Entity(p.entities[i])]
  BY <1>1 DEF EntityBytes
<1>4. EntityBytes(p) \in Seq(Seq(Byte)) /\ Len(EntityBytes(p)) = n
  BY <1>2, <1>3
<1>5. \E f : Gathers(f, EntityBytes(p), Byte) /\ FlattenSeq(EntityBytes(p)) = f[Len(EntityBytes(p))]
  BY <1>4, FlattenGathers
<1>6. Gathers(EntitiesTo(p), EntityBytes(p), Byte)
      /\ FlattenSeq(EntityBytes(p)) = EntitiesTo(p)[Len(EntityBytes(p))]
  BY <1>5 DEF EntitiesTo
<1> QED BY <1>1, <1>3, <1>4, <1>6

\* How s agrees with p, part by part.
Laid(s, p) ==
    /\ s \in Seq(Byte)
    /\ Agrees(s, 0, Header(p))
    /\ DataEnd(p) <= Len(s) => Agrees(s, DataEnd(p), write_varint(Len(p.entities)))
    /\ EntitiesAt(p) <= Len(s) => PartsAgree(s, EntitiesAt(p), EntityBytes(p), EntitiesTo(p))
    /\ EntityAt(p, Len(p.entities)) <= Len(s) => Agrees(s, EntityAt(p, Len(p.entities)), <<1>>)
    /\ p.cut = 0 => EntityAt(p, Len(p.entities)) + 1 <= Len(s)

\* A sequence of which the last bytes are missing agrees with it.
LEMMA CutAgrees ==
    ASSUME NEW w \in Seq(Byte), NEW cut \in Nat, NEW s, s = SubSeq(w, 1, Len(w) - cut)
    PROVE  s \in Seq(Byte) /\ Agrees(s, 0, w) /\ (cut = 0 => Len(s) = Len(w))
<1>1. PICK n \in Nat : n = Len(w)
  OBVIOUS
<1>2. CASE n - cut >= 0
  <2>1. n - cut \in 0..n
    BY <1>2
  <2>2. s \in Seq(Byte) /\ Len(s) = n - cut /\ \A i \in 1..n-cut : s[i] = w[i]
    BY <1>1, <2>1
  <2> QED BY <1>1, <2>1, <2>2 DEF Agrees
<1>3. CASE ~ (n - cut >= 0)
  <2>1. s = <<>> /\ Len(s) = 0
    BY <1>1, <1>3
  <2>2. cut # 0
    BY <1>3
  <2> QED BY <1>1, <2>1, <2>2 DEF Agrees
<1> QED BY <1>2, <1>3

LEMMA ConcatType ==
    ASSUME NEW v \in Seq(Byte), NEW w \in Seq(Byte)
    PROVE  \E u \in Seq(Byte) : u = v \o w /\ Len(u) = Len(v) + Len(w)
<1>1. v \o w \in Seq(Byte) /\ Len(v \o w) = Len(v) + Len(w)
  OBVIOUS
<1> QED BY <1>1

LEMMA PacketLaid == ASSUME NEW p \in Sent PROVE Laid(Bytes(p), p)
<1>1. PICK s : s = Bytes(p)
  OBVIOUS
<1>2. SentType(p)
  BY SentTypes
<1>3. PICK n \in Nat : n = Len(p.entities)
  BY <1>2 DEF SentType
<1>4. PICK h \in Seq(Byte), d \in Seq(Byte), v \in Seq(Byte), g \in Seq(Byte), o \in Seq(Byte), l \in Seq(Byte) :
          /\ h = Header(p) /\ d = p.data /\ v = write_varint(n) /\ g = FlattenSeq(EntityBytes(p))
          /\ o = <<1>> /\ Len(o) = 1 /\ l = p.light
  <2>1. Header(p) \in Seq(Byte)
    BY HeaderBytes DEF HeaderParts
  <2>2. write_varint(n) \in Seq(Byte)
    BY <1>2, <1>3, VarintBytes DEF SentType
  <2>3. FlattenSeq(EntityBytes(p)) \in Seq(Byte)
    BY EntityBytesType, FlattenType
  <2>4. <<1>> \in Seq(Byte) /\ Len(<<1>>) = 1
    BY OneName
  <2>5. p.data \in Seq(Byte) /\ p.light \in Seq(Byte)
    BY <1>2 DEF SentType
  <2> QED BY <2>1, <2>2, <2>3, <2>4, <2>5
<1>5. PICK w1 \in Seq(Byte) : w1 = h \o d /\ Len(w1) = Len(h) + Len(d)
  BY ConcatType
<1>6. PICK w2 \in Seq(Byte) : w2 = w1 \o v /\ Len(w2) = Len(w1) + Len(v)
  BY ConcatType
<1>7. PICK w3 \in Seq(Byte) : w3 = w2 \o g /\ Len(w3) = Len(w2) + Len(g)
  BY ConcatType
<1>8. PICK w4 \in Seq(Byte) : w4 = w3 \o o /\ Len(w4) = Len(w3) + 1
  BY <1>4, ConcatType
<1>9. PICK w5 \in Seq(Byte) : w5 = w4 \o l /\ Len(w5) = Len(w4) + Len(l)
  BY ConcatType
<1>10. s = SubSeq(w5, 1, Len(w5) - p.cut)
  <2>1. w5 = Header(p) \o p.data \o write_varint(Len(p.entities))
                 \o FlattenSeq([i \in DOMAIN p.entities |-> Entity(p.entities[i])]) \o <<1>> \o p.light
    BY <1>3, <1>4, <1>5, <1>6, <1>7, <1>8, <1>9 DEF EntityBytes
  <2> QED BY <1>1, <2>1 DEF Bytes
<1>11. s \in Seq(Byte) /\ Agrees(s, 0, w5) /\ (p.cut = 0 => Len(s) = Len(w5))
  BY <1>2, <1>10, CutAgrees DEF SentType
<1>12. Agrees(s, 0, w4) /\ Agrees(s, 0, w3) /\ Agrees(s, 0, w2) /\ Agrees(s, 0, w1) /\ Agrees(s, 0, h)
  <2>1. Agrees(s, 0, w4)
    BY <1>9, <1>11, AgreesInParts
  <2>2. Agrees(s, 0, w3)
    BY <1>8, <1>11, <2>1, AgreesInParts
  <2>3. Agrees(s, 0, w2)
    BY <1>7, <1>11, <2>2, AgreesInParts
  <2>4. Agrees(s, 0, w1)
    BY <1>6, <1>11, <2>3, AgreesInParts
  <2>5. Agrees(s, 0, h)
    BY <1>5, <1>11, <2>4, AgreesInParts
  <2> QED BY <2>1, <2>2, <2>3, <2>4, <2>5
<1>13. /\ DataEnd(p) = Len(w1) /\ EntitiesAt(p) = Len(w2) /\ EntityAt(p, n) = Len(w3)
       /\ g = EntitiesTo(p)[n]
  <2>1. g = EntitiesTo(p)[n]
    BY <1>3, <1>4, EntityBytesType
  <2>2. DataEnd(p) = Len(w1)
    BY <1>4, <1>5 DEF DataEnd
  <2>3. EntitiesAt(p) = Len(w2)
    BY <1>3, <1>4, <1>6, <2>2 DEF EntitiesAt
  <2> QED BY <1>7, <2>1, <2>2, <2>3 DEF EntityAt
<1>14. \A k \in Nat : 0 + k = k
  OBVIOUS
<1>15. Len(w1) \in Nat /\ Len(w2) \in Nat /\ Len(w3) \in Nat /\ Len(w4) \in Nat /\ Len(w5) \in Nat /\ Len(l) \in Nat
  OBVIOUS
<1>16. Len(w1) <= Len(s) => Agrees(s, Len(w1), v)
  <2>1. 0 + Len(w1) <= Len(s) => Agrees(s, 0 + Len(w1), v)
    BY <1>6, <1>11, <1>12, AgreesInParts
  <2> QED BY <1>14, <1>15, <2>1
<1>17. Len(w2) <= Len(s) => Agrees(s, Len(w2), g)
  <2>1. 0 + Len(w2) <= Len(s) => Agrees(s, 0 + Len(w2), g)
    BY <1>7, <1>11, <1>12, AgreesInParts
  <2> QED BY <1>14, <1>15, <2>1
<1>18. Len(w3) <= Len(s) => Agrees(s, Len(w3), o)
  <2>1. 0 + Len(w3) <= Len(s) => Agrees(s, 0 + Len(w3), o)
    BY <1>8, <1>11, <1>12, AgreesInParts
  <2> QED BY <1>14, <1>15, <2>1
<1>19. Len(w2) <= Len(s) => PartsAgree(s, Len(w2), EntityBytes(p), EntitiesTo(p))
  BY <1>3, <1>11, <1>13, <1>17, EntityBytesType, GathersAgree
<1>20. p.cut = 0 => Len(w3) + 1 <= Len(s)
  <2> SUFFICES ASSUME p.cut = 0 PROVE Len(w3) + 1 <= Len(s)
    OBVIOUS
  <2>1. Len(s) = (Len(w3) + 1) + Len(l)
    BY <1>8, <1>9, <1>11
  <2> QED BY <1>15, <2>1
<1> QED BY <1>1, <1>3, <1>4, <1>11, <1>12, <1>13, <1>16, <1>18, <1>19, <1>20 DEF Laid
-----------------------------------------------------------------------------
(* The handler's reads.                                                    *)

\* r is where the first of four reads one behind the other has failed, or the last.
FirstFailed(r, q, t, z) == IF r.status # "ok" THEN r ELSE IF q.status # "ok" THEN q
                           ELSE IF t.status # "ok" THEN t ELSE z

ReadsFour(r, q, t, z, x, s, at, w, u, y) ==
    /\ Reads(x, s, at, w, y)
    /\ x.status = "ok" => r.status = "ok" /\ q.status = "ok" /\ t.status = "ok" /\ t.value = u /\ x = z

LEMMA FourRead ==
    ASSUME NEW s \in Seq(Byte), NEW at, NEW a \in Seq(Byte), NEW b \in Seq(Byte), NEW c \in Seq(Byte), NEW d \in Seq(Byte),
           a \o b \in Seq(Byte), (a \o b) \o c \in Seq(Byte), Agrees(s, at, ((a \o b) \o c) \o d),
           NEW r, NEW q, NEW t, NEW z, NEW x, NEW m, NEW n, NEW u, NEW y,
           Reads(r, s, at, a, m),
           r.status = "ok" /\ Agrees(s, r.at, b) => Reads(q, s, r.at, b, n),
           q.status = "ok" /\ Agrees(s, q.at, c) => Reads(t, s, q.at, c, u),
           t.status = "ok" /\ Agrees(s, t.at, d) => Reads(z, s, t.at, d, y),
           x = FirstFailed(r, q, t, z)
    PROVE  ReadsFour(r, q, t, z, x, s, at, ((a \o b) \o c) \o d, u, y)
<1>1. PICK ab \in Seq(Byte), abc \in Seq(Byte) : ab = a \o b /\ abc = ab \o c
  OBVIOUS
<1>2. Agrees(s, at, abc \o d) /\ Agrees(s, at, ab \o c) /\ Agrees(s, at, a \o b)
  <2>1. Agrees(s, at, abc \o d)
    BY <1>1
  <2>2. Agrees(s, at, abc)
    BY <2>1, AgreesInParts
  <2>3. Agrees(s, at, ab)
    BY <1>1, <2>2, AgreesInParts
  <2> QED BY <1>1, <2>1, <2>2, <2>3
<1>3. PICK x2 : x2 = IF r.status = "ok" THEN q ELSE r
  OBVIOUS
<1>4. Reads(x2, s, at, ab, n)
  <2>1. at + Len(a) <= Len(s) => Reads(q, s, at + Len(a), b, n)
    <3> SUFFICES ASSUME at + Len(a) <= Len(s) PROVE Reads(q, s, at + Len(a), b, n)
      OBVIOUS
    <3>1. r.status = "ok" /\ r.at = at + Len(a)
      BY ReadsOk
    <3>2. Agrees(s, at + Len(a), b)
      BY <1>2, AgreesInParts
    <3> QED BY <3>1, <3>2
  <2> QED BY <1>1, <1>2, <1>3, <2>1, ReadsOn
<1>5. PICK x3 : x3 = IF x2.status = "ok" THEN t ELSE x2
  OBVIOUS
<1>6. Reads(x3, s, at, abc, u)
  <2>1. at + Len(ab) <= Len(s) => Reads(t, s, at + Len(ab), c, u)
    <3> SUFFICES ASSUME at + Len(ab) <= Len(s) PROVE Reads(t, s, at + Len(ab), c, u)
      OBVIOUS
    <3>1. x2.status = "ok" /\ x2.at = at + Len(ab)
      BY <1>4, ReadsOk
    <3>2. q.status = "ok" /\ q.at = at + Len(ab)
      BY <1>3, <3>1
    <3>3. Agrees(s, at + Len(ab), c)
      BY <1>2, AgreesInParts
    <3> QED BY <3>2, <3>3
  <2> QED BY <1>1, <1>2, <1>4, <1>5, <2>1, ReadsOn
<1>7. PICK x4 : x4 = IF x3.status = "ok" THEN z ELSE x3
  OBVIOUS
<1>8. Reads(x4, s, at, abc \o d, y)
  <2>1. at + Len(abc) <= Len(s) => Reads(z, s, at + Len(abc), d, y)
    <3> SUFFICES ASSUME at + Len(abc) <= Len(s) PROVE Reads(z, s, at + Len(abc), d, y)
      OBVIOUS
    <3>1. x3.status = "ok" /\ x3.at = at + Len(abc)
      BY <1>6, ReadsOk
    <3>2. t.status = "ok" /\ t.at = at + Len(abc)
      BY <1>3, <1>5, <3>1
    <3>3. Agrees(s, at + Len(abc), d)
      BY <1>2, AgreesInParts
    <3> QED BY <3>2, <3>3
  <2> QED BY <1>2, <1>6, <1>7, <2>1, ReadsOn
<1>9. x = x4
  BY <1>3, <1>5, <1>7 DEF FirstFailed
<1>10. x.status = "ok" => r.status = "ok" /\ q.status = "ok" /\ t.status = "ok" /\ x = z
  BY DEF FirstFailed
<1>11. x.status = "ok" => t.value = u
  <2> SUFFICES ASSUME x.status = "ok" PROVE t.value = u
    OBVIOUS
  <2>1. x3 = t /\ t.status = "ok"
    BY <1>3, <1>5, <1>10
  <2> QED BY <1>6, <2>1, ReadsOk
<1> QED BY <1>1, <1>8, <1>9, <1>10, <1>11 DEF ReadsFour

\* The header is read from exactly its bytes.
LEMMA HeaderRead ==
    ASSUME NEW p \in Sent, NEW s \in Seq(Byte), Agrees(s, 0, Header(p)), NEW k, k = Len(p.data) + p.lie
    PROVE  IF Len(Header(p)) <= Len(s) /\ k >= 0
           THEN read_header(s) = Ok(Len(Header(p)), [tree |-> p.heightmaps, end |-> Len(Header(p)) + k])
           ELSE read_header(s).status # "ok"
<1>1. PICK a, b, c, d : HeaderParts(a, b, c, d, p)
  BY HeaderBytes
<1>2. /\ a \in Seq(Byte) /\ b \in Seq(Byte) /\ c \in Seq(Byte) /\ d \in Seq(Byte)
      /\ a \o b \in Seq(Byte) /\ (a \o b) \o c \in Seq(Byte) /\ Header(p) = ((a \o b) \o c) \o d
      /\ Len(a) = IntWidth["i32"] /\ Len(b) = IntWidth["i32"] /\ "i32" \in DOMAIN IntWidth
      /\ c = Tree(p.heightmaps) /\ d = write_varint(k) /\ Header(p) \in Seq(Byte)
  BY <1>1 DEF HeaderParts, IntWidth
<1>3. k \in Int /\ k \in SignedRange(Digits) /\ p.heightmaps \in TreeType
  BY SentTypes, VarintBytes DEF SentType
<1>4. PICK r : r = read_int(s, 0, Len(s), "i32")
  OBVIOUS
<1>5. PICK q : q = read_int(s, r.at, Len(s), "i32")
  OBVIOUS
<1>6. PICK t : t = read_nbt(s, q.at, Len(s))
  OBVIOUS
<1>7. PICK z : z = read_varint(s, t.at, Len(s))
  OBVIOUS
<1>8. PICK x : x = FirstFailed(r, q, t, z)
  OBVIOUS
<1>9. PICK m : Reads(r, s, 0, a, m)
  BY <1>2, <1>4, ReadsAny
<1>10. PICK n : Reads(q, s, r.at, b, n)
  BY <1>2, <1>5, ReadsAny
<1>11. q.status = "ok" /\ Agrees(s, q.at, c) => Reads(t, s, q.at, c, p.heightmaps)
  BY <1>2, <1>3, <1>6, TreeRead
<1>12. t.status = "ok" /\ Agrees(s, t.at, d) => Reads(z, s, t.at, d, k)
  BY <1>2, <1>3, <1>7, ReadsVarint
<1>13. ReadsFour(r, q, t, z, x, s, 0, Header(p), p.heightmaps, k)
  <2>1. Agrees(s, 0, ((a \o b) \o c) \o d)
    BY <1>2
  <2>2. r.status = "ok" /\ Agrees(s, r.at, b) => Reads(q, s, r.at, b, n)
    BY <1>10
  <2>3. ReadsFour(r, q, t, z, x, s, 0, ((a \o b) \o c) \o d, p.heightmaps, k)
    BY <1>2, <1>8, <1>9, <1>11, <1>12, <2>1, <2>2, FourRead, Zenon
  <2> QED BY <1>2, <2>3
<1>14. read_header(s) =
          IF x.status = "ok"
          THEN IF z.value < 0 THEN Thrown ELSE Ok(z.at, [tree |-> t.value, end |-> z.at + z.value])
          ELSE x
  <2>1. read_header(s) =
           IF r.status = "ok"
           THEN IF q.status = "ok"
                THEN IF t.status = "ok"
                     THEN IF z.status = "ok"
                          THEN IF z.value < 0 THEN Thrown ELSE Ok(z.at, [tree |-> t.value, end |-> z.at + z.value])
                          ELSE z
                     ELSE t
                ELSE q
           ELSE r
    BY <1>4, <1>5, <1>6, <1>7 DEF read_header, Then
  <2> QED BY <1>8, <2>1 DEF FirstFailed
<1>15. PICK h \in Nat : h = Len(Header(p)) /\ 0 + h = h
  BY <1>2
<1>16. Reads(x, s, 0, Header(p), k)
  BY <1>13 DEF ReadsFour
<1>17. CASE h <= Len(s)
  <2>1. x.status = "ok" /\ x.at = h /\ x.value = k
    BY <1>15, <1>16, <1>17, ReadsOk
  <2>2. t.value = p.heightmaps /\ x = z
    BY <1>13, <2>1 DEF ReadsFour
  <2>3. read_header(s) = IF k < 0 THEN Thrown ELSE Ok(h, [tree |-> p.heightmaps, end |-> h + k])
    BY <1>14, <2>1, <2>2
  <2>4. CASE k >= 0
    BY <1>3, <1>15, <1>17, <2>3, <2>4
  <2>5. CASE ~ (k >= 0)
    <3>1. read_header(s) = Thrown
      BY <1>3, <2>3, <2>5
    <3> QED BY <2>5, <3>1 DEF Thrown
  <2> QED BY <2>4, <2>5
<1>18. CASE ~ (h <= Len(s))
  <2>1. x.status # "ok"
    BY <1>15, <1>16, <1>18, ReadsOk
  <2> QED BY <1>14, <1>15, <1>18, <2>1
<1> QED BY <1>17, <1>18

\* And so is a block entity.
LEMMA EntityRead ==
    ASSUME NEW e \in TreeType, NEW s \in Seq(Byte), NEW at, Agrees(s, at, Entity(e))
    PROVE  Reads(read_block_entity(s, at), s, at, Entity(e), e)
<1>1. PICK a, b, c, d : EntityParts(a, b, c, d, e)
  BY OneEntityBytes
<1>2. /\ a \in Seq(Byte) /\ b \in Seq(Byte) /\ c \in Seq(Byte) /\ d \in Seq(Byte)
      /\ a \o b \in Seq(Byte) /\ (a \o b) \o c \in Seq(Byte) /\ Entity(e) = ((a \o b) \o c) \o d
      /\ Len(a) = IntWidth["u8"] /\ Len(b) = IntWidth["i16"] /\ "u8" \in DOMAIN IntWidth /\ "i16" \in DOMAIN IntWidth
      /\ c = write_varint(3) /\ d = Tree(e)
  BY <1>1 DEF EntityParts, IntWidth
<1>3. 3 \in SignedRange(Digits)
  BY ThreeIsVarint, VarintBytes
<1>4. PICK r : r = read_int(s, at, Len(s), "u8")
  OBVIOUS
<1>5. PICK q : q = read_int(s, r.at, Len(s), "i16")
  OBVIOUS
<1>6. PICK t : t = read_varint(s, q.at, Len(s))
  OBVIOUS
<1>7. PICK z : z = read_nbt(s, t.at, Len(s))
  OBVIOUS
<1>8. PICK x : x = FirstFailed(r, q, t, z)
  OBVIOUS
<1>9. PICK m : Reads(r, s, at, a, m)
  BY <1>2, <1>4, ReadsAny
<1>10. PICK n : Reads(q, s, r.at, b, n)
  BY <1>2, <1>5, ReadsAny
<1>11. q.status = "ok" /\ Agrees(s, q.at, c) => Reads(t, s, q.at, c, 3)
  BY <1>2, <1>3, <1>6, ReadsVarint
<1>12. t.status = "ok" /\ Agrees(s, t.at, d) => Reads(z, s, t.at, d, e)
  BY <1>2, <1>7, TreeRead
<1>13. Reads(x, s, at, Entity(e), e)
  <2>1. Agrees(s, at, ((a \o b) \o c) \o d)
    BY <1>2
  <2>2. r.status = "ok" /\ Agrees(s, r.at, b) => Reads(q, s, r.at, b, n)
    BY <1>10
  <2>3. ReadsFour(r, q, t, z, x, s, at, ((a \o b) \o c) \o d, 3, e)
    BY <1>2, <1>8, <1>9, <1>11, <1>12, <2>1, <2>2, FourRead, Zenon
  <2> QED BY <1>2, <2>3 DEF ReadsFour
<1>14. read_block_entity(s, at) = x
  <2>1. read_block_entity(s, at) =
           IF r.status = "ok" THEN IF q.status = "ok" THEN IF t.status = "ok" THEN z ELSE t ELSE q ELSE r
    BY <1>4, <1>5, <1>6, <1>7 DEF read_block_entity, Then
  <2> QED BY <1>8, <2>1 DEF FirstFailed
<1> QED BY <1>13, <1>14
-----------------------------------------------------------------------------
(* Reading a section: wherever it stops, it is between where it began and  *)
(* where the sections end.                                                 *)

\* What reading numbers from here to there may come to.
Within(from, end) == {Aborted, Thrown} \union UNION {{Ok(i, v) : v \in Int} : i \in from..end}

LEMMA WithinNumbers ==
    ASSUME NEW from, NEW end, NEW i \in from..end, NEW v \in Int
    PROVE  Ok(i, v) \in Within(from, end)
<1>1. Ok(i, v) \in {Ok(i, u) : u \in Int}
  OBVIOUS
<1>2. {Ok(i, u) : u \in Int} \in {{Ok(j, u) : u \in Int} : j \in from..end}
  OBVIOUS
<1>3. Ok(i, v) \in UNION {{Ok(j, u) : u \in Int} : j \in from..end}
  BY <1>1, <1>2
<1> QED BY <1>3 DEF Within

LEMMA WithinOk ==
    ASSUME NEW from \in Nat, NEW end \in Nat, NEW r \in Within(from, end), r.status = "ok"
    PROVE  r.at \in from..end
<1>1. r # Aborted /\ r # Thrown
  BY DEF Aborted, Thrown
<1>2. PICK i \in from..end, v \in Int : r = Ok(i, v)
  BY <1>1 DEF Within
<1> QED BY <1>2 DEF Ok

LEMMA WithinVarint ==
    ASSUME NEW s \in Seq(Byte), NEW end \in 0..Len(s), NEW from \in 0..end, NEW at \in from..end
    PROVE  read_varint(s, at, end) \in Within(from, end)
<1>1. PICK r : r = read_varint(s, at, end)
  OBVIOUS
<1>4. Read(SubSeq(s, at + 1, end)).status \in {"reading", "done", "invalid"}
  <2>1. SubSeq(s, at + 1, end) \in Seq(VarintByte)
    BY BytesAreVarintBytes
  <2>2. Read(SubSeq(s, at + 1, end)) \in ReaderState
    BY <2>1, ReadType
  <2> QED BY <2>2 DEF ReaderState
<1>2. CASE r.status = "ok"
  <2>1. at \in 0..end
    OBVIOUS
  <2>2. r.at \in at + 1 .. end /\ r.value \in Int
    BY <1>1, <1>2, <2>1, ReadVarintTakes
  <2>3. r.at \in from..end
    BY <2>2
  <2>4. r = Ok(r.at, r.value)
    <3>1. PICK t : t = Read(SubSeq(s, at + 1, end))
      OBVIOUS
    <3>2. r = CASE t.status = "done" -> Ok(at + t.count, ToSigned(t.value))
                [] t.status = "invalid" -> Thrown
                [] t.status = "reading" -> Aborted
      BY <1>1, <3>1 DEF read_varint
    <3>3. r = Ok(at + t.count, ToSigned(t.value))
      BY <1>2, <1>4, <3>1, <3>2 DEF Thrown, Aborted
    <3> QED BY <3>3 DEF Ok
  <2>5. Ok(r.at, r.value) \in Within(from, end)
    BY <2>2, <2>3, WithinNumbers
  <2> QED BY <1>1, <2>4, <2>5
<1>3. CASE r.status # "ok"
  <2>1. r = Aborted \/ r = Thrown
    <3>1. PICK t : t = Read(SubSeq(s, at + 1, end))
      OBVIOUS
    <3>2. t.status \in {"reading", "done", "invalid"}
      BY <1>4, <3>1
    <3>3. r = CASE t.status = "done" -> Ok(at + t.count, ToSigned(t.value))
                [] t.status = "invalid" -> Thrown
                [] t.status = "reading" -> Aborted
      BY <1>1, <3>1 DEF read_varint
    <3> QED BY <1>3, <3>2, <3>3 DEF Ok
  <2> QED BY <1>1, <2>1 DEF Within
<1> QED BY <1>2, <1>3

LEMMA ReadVarintsTakes ==
    ASSUME NEW s \in Seq(Byte), NEW end \in 0..Len(s), NEW n \in Nat, NEW from \in 0..end
    PROVE  read_varints(s, end, n, from) \in Within(from, end)
<1> DEFINE V == Within(from, end)
           base == Ok(from, 0)
           next(r) == IF r.status = "ok" THEN read_varint(s, r.at, end) ELSE r
           step == [x \in (1..n) \X V |-> next(x[2])]
           body(f) == [i \in 0..n |-> IF i = 0 THEN base ELSE next(f[i - 1])]
<1>1. base \in V
  <2>1. from \in from..end /\ 0 \in Int
    OBVIOUS
  <2> QED BY <2>1, WithinNumbers
<1>2. \A r \in V : next(r) \in V
  <2> SUFFICES ASSUME NEW r \in V, r.status = "ok" PROVE read_varint(s, r.at, end) \in V
    OBVIOUS
  <2>1. r.at \in from..end
    BY WithinOk
  <2> QED BY <2>1, WithinVarint
<1> HIDE DEF V, base, next
<1>3. step \in [(1..n) \X V -> V] /\ \A i \in 1..n, r \in V : step[<<i, r>>] = next(r)
  BY <1>2
<1> HIDE DEF step
<1>4. PICK f : Folded(f, base, step, n, V)
  BY <1>1, <1>3, FoldExists
<1>5. f = body(f)
  <2>1. /\ f \in [0..n -> V] /\ f[0] = base
        /\ \A i \in 1..n : f[i] = step[<<i, f[i - 1]>>]
    BY <1>4 DEF Folded
  <2>2. \A i \in 1..n : f[i] = next(f[i - 1])
    <3> SUFFICES ASSUME NEW i \in 1..n PROVE f[i] = next(f[i - 1])
      OBVIOUS
    <3>1. i - 1 \in 0..n
      OBVIOUS
    <3> QED BY <1>3, <2>1, <3>1
  <2>3. \A i \in 0..n : f[i] = IF i = 0 THEN base ELSE next(f[i - 1])
    BY <2>1, <2>2
  <2> QED BY <2>1, <2>3
<1> DEFINE after == CHOOSE g : g = body(g)
<1>6. after = body(after)
  <2> HIDE DEF body
  <2> QED BY <1>5
<1>7. read_varints(s, end, n, from) = after[n]
  BY DEF read_varints, Then, next, base
<1> HIDE DEF after
<1>8. Folded(after, base, step, n, V)
  <2>1. after = [i \in 0..n |-> after[i]]
    BY <1>6
  <2>2. after[0] = base /\ \A i \in 1..n : after[i] = next(after[i - 1])
    BY <1>6
  <2>3. \A i \in 1..n : after[i - 1] \in V => after[i] = step[<<i, after[i - 1]>>]
    BY <1>3, <2>2
  <2> QED BY <1>1, <1>3, <2>1, <2>2, <2>3, FoldUnfolds
<1>9. after[n] \in V
  <2>1. n \in 0..n
    OBVIOUS
  <2> QED BY <1>8, <2>1 DEF Folded
<1> QED BY <1>7, <1>9 DEF V

\* An integer is the same wherever reading has to end, if it ends before that.
LEMMA ReadIntBefore ==
    ASSUME NEW s \in Seq(Byte), NEW end \in 0..Len(s), NEW at \in 0..end, NEW kind \in DOMAIN IntWidth,
           NEW r, r = read_int(s, at, end, kind), r.status = "ok"
    PROVE  /\ r.at \in at..end
           /\ ~IsSigned(kind) => r.value \in Nat
<1>1. PICK n \in Nat \ {0} : n = IntWidth[kind]
  BY FieldConstants DEF IntWidth
<1>2. at + n <= end
  BY <1>1, ReadIntTakes DEF Aborted
<1>3. at + n <= Len(s) /\ at \in Nat
  BY <1>2
<1>4. read_bytes(s, at, end, n) = read_bytes(s, at, Len(s), n)
  BY <1>2, <1>3 DEF read_bytes
<1>5. r = read_int(s, at, Len(s), kind)
  BY <1>1, <1>4 DEF read_int
<1>6. r.at = at + n /\ (~IsSigned(kind) => r.value \in Nat)
  BY <1>1, <1>3, <1>5, ReadIntType
<1> QED BY <1>2, <1>6

LEMMA WordsType == ASSUME NEW bits \in Nat PROVE u64_count(bits) * LongBytes \in Nat
<1>1. PICK w \in Nat \ {0}, b \in Nat, l \in Nat : w = WordBits /\ b = Blocks /\ l = LongBytes
  BY ExtractBitsAssumption, FieldConstants
<1>2. PICK m \in Nat : m = b * bits
  <2>1. b * bits \in Nat
    OBVIOUS
  <2> QED BY <2>1
<1>3. PICK q \in Nat : q = m \div w
  <2>1. m \div w \in Nat
    OBVIOUS
  <2> QED BY <2>1
<1>4. q * l \in Nat
  OBVIOUS
<1> QED BY <1>1, <1>2, <1>3, <1>4 DEF u64_count

\* What a section with a palette and its entries comes to, read by read.
LEMMA IndirectBlocks ==
    ASSUME NEW s, NEW end, NEW air, NEW at, NEW b, b = read_int(s, at, end, "u8"), b.status = "ok", b.value \in 1..8,
           NEW e, e = IF b.value < 4 THEN 4 ELSE b.value,
           NEW p, p = read_varint(s, b.at, end),
           NEW v, v = read_varints(s, end, p.value + 1, p.at),
           NEW w, w = read_bytes(s, v.at, end, u64_count(e) * LongBytes)
    PROVE  load_blocks(s, at, end, air) =
              IF p.status = "ok"
              THEN IF p.value < 0 THEN Thrown
                   ELSE IF v.status = "ok" THEN IF w.status = "ok" THEN Ok(w.at, air) ELSE w ELSE v
              ELSE p
<1>1. ~ (b.value = 0) /\ ~ (b.value > 8)
  OBVIOUS
<1>2. load_blocks(s, at, end, air) =
         Then(read_varint(s, b.at, end), LAMBDA i, palette_length :
              IF palette_length < 0 THEN Thrown
              ELSE Then(read_varints(s, end, palette_length + 1, i), LAMBDA j, u :
                   Then(read_bytes(s, j, end, u64_count(e) * LongBytes), LAMBDA k, words : Ok(k, air))))
  BY <1>1 DEF load_blocks, Then, Ok
<1> QED BY <1>2 DEF Then

LEMMA LoadTakes ==
    ASSUME NEW s \in Seq(Byte), NEW end \in 0..Len(s), NEW begin \in 0..end, NEW air,
           load(s, begin, end, air).status = "ok"
    PROVE  load(s, begin, end, air).at \in begin..end
<1>1. PICK x : x = load(s, begin, end, air)
  OBVIOUS
<1>2. PICK c : c = read_int(s, begin, end, "i16")
  OBVIOUS
<1>3. x = IF c.status = "ok" THEN load_blocks(s, c.at, end, air) ELSE c
  BY <1>1, <1>2 DEF load, Then
<1>4. c.status = "ok"
  BY <1>1, <1>3
<1>5. c.at \in begin..end /\ c.at \in 0..end
  <2>1. "i16" \in DOMAIN IntWidth
    BY DEF IntWidth
  <2>2. c.at \in begin..end
    BY <1>2, <1>4, <2>1, ReadIntBefore
  <2> QED BY <2>2
<1>6. PICK b : b = read_int(s, c.at, end, "u8")
  OBVIOUS
<1>7. b.status = "ok"
  BY <1>1, <1>3, <1>4, <1>6 DEF load_blocks, Then
<1>8. b.at \in c.at..end /\ b.value \in Nat
  <2>1. "u8" \in DOMAIN IntWidth /\ ~IsSigned("u8")
    BY DEF IntWidth, IsSigned
  <2> QED BY <1>5, <1>6, <1>7, <2>1, ReadIntBefore
<1>9. b.at \in 0..end /\ \A i \in b.at..end : i \in begin..end /\ i \in 0..end
  BY <1>5, <1>8
<1> DEFINE entry == IF b.value < 4 THEN 4 ELSE b.value
           palette == read_varint(s, b.at, end)
           blocks == read_varints(s, end, palette.value + 1, palette.at)
           words == read_bytes(s, blocks.at, end, u64_count(entry) * LongBytes)
<1>13. b.value = 0 => x = Then(read_varints(s, end, 2, b.at), LAMBDA j, v : Ok(j, FALSE))
  BY <1>3, <1>4, <1>6, <1>7 DEF load_blocks, Then, Ok
<1>14. b.value \in 1..8 =>
          x = IF palette.status = "ok"
              THEN IF palette.value < 0 THEN Thrown
                   ELSE IF blocks.status = "ok" THEN IF words.status = "ok" THEN Ok(words.at, air) ELSE words
                        ELSE blocks
              ELSE palette
  BY <1>3, <1>4, <1>6, <1>7, IndirectBlocks
<1>15. b.value > 8 /\ b.value # 0 /\ b.value \notin 1..8 => x = Ok(b.at, air)
  BY <1>3, <1>4, <1>6, <1>7 DEF load_blocks, Then
<1>10. CASE b.value = 0
  <2>1. PICK v : v = read_varints(s, end, 2, b.at)
    OBVIOUS
  <2>2. x = IF v.status = "ok" THEN Ok(v.at, FALSE) ELSE v
    BY <1>8, <1>10, <1>13, <2>1 DEF Then
  <2>3. v.status = "ok" /\ x.at = v.at
    BY <1>1, <2>2 DEF Ok
  <2>4. v \in Within(b.at, end)
    BY <1>9, <2>1, ReadVarintsTakes
  <2>5. v.at \in b.at..end
    BY <1>9, <2>3, <2>4, WithinOk
  <2> QED BY <1>1, <1>9, <2>3, <2>5
<1>11. CASE b.value \in 1..8
  <2>1. PICK e \in Nat : e = IF b.value < 4 THEN 4 ELSE b.value
    BY <1>11
  <2>2. PICK p : p = read_varint(s, b.at, end)
    OBVIOUS
  <2>3. PICK v : v = read_varints(s, end, p.value + 1, p.at)
    OBVIOUS
  <2>4. PICK n \in Nat : n = u64_count(e) * LongBytes
    BY WordsType
  <2>5. PICK w : w = read_bytes(s, v.at, end, n)
    OBVIOUS
  <2>6. x = IF p.status = "ok"
            THEN IF p.value < 0 THEN Thrown
                 ELSE IF v.status = "ok" THEN IF w.status = "ok" THEN Ok(w.at, air) ELSE w ELSE v
            ELSE p
    BY <1>8, <1>11, <1>14, <2>1, <2>2, <2>3, <2>4, <2>5
  <2>7. p.status = "ok" /\ ~(p.value < 0) /\ v.status = "ok" /\ w.status = "ok" /\ x.at = w.at
    BY <1>1, <2>6 DEF Ok, Thrown
  <2>8. p.at \in b.at + 1 .. end /\ p.value \in Int
    BY <1>9, <2>2, <2>7, ReadVarintTakes
  <2>9. p.at \in 0..end /\ p.value + 1 \in Nat /\ p.at \in Nat /\ end \in Nat
    BY <1>9, <2>7, <2>8
  <2>10. v \in Within(p.at, end)
    BY <2>3, <2>9, ReadVarintsTakes
  <2>11. v.at \in p.at..end
    BY <2>7, <2>9, <2>10, WithinOk
  <2>12. v.at \in Nat
    BY <2>9, <2>11
  <2>13. w.at = v.at + n /\ v.at + n <= end
    BY <2>5, <2>7, <2>9, <2>12, ReadBytesTakes
  <2>14. w.at \in b.at..end
    BY <1>9, <2>8, <2>9, <2>11, <2>12, <2>13
  <2> QED BY <1>1, <1>9, <2>7, <2>14
<1>12. CASE b.value > 8
  <2>1. x = Ok(b.at, air)
    BY <1>8, <1>12, <1>15
  <2>2. b.at \in b.at..end
    BY <1>9
  <2> QED BY <1>1, <1>9, <2>1, <2>2 DEF Ok
<1> QED BY <1>8, <1>10, <1>11, <1>12
-----------------------------------------------------------------------------
(* The handler of a chunk: where it stands in the packet, and what it has  *)
(* read by then.                                                           *)

HeaderInv ==
    /\ sent \in Sent /\ packet = Bytes(sent)
    /\ section \in Nat
    /\ phase \in {"header", "sections", "entities", "done"}
    /\ phase = "header" => /\ heightmaps = <<>> /\ section = 0
                           /\ sent.cut = 0 /\ sent.lie >= 0 => process = "running"
    /\ phase # "header" => heightmaps = <<sent.heightmaps>>
    /\ phase = "sections" /\ section = 0 => taken = Len(Header(sent))

EntitiesInv ==
    sent.lie = 0 =>
        /\ phase \in {"header", "sections"} => entities = <<>>
        /\ phase = "sections" => data_end = DataEnd(sent) /\ taken \in 0..SectionsEnd
        /\ phase = "entities" =>
              /\ entity_count = Len(sent.entities)
              /\ Len(entities) \in 0..entity_count /\ entities = SubSeq(sent.entities, 1, Len(entities))
              /\ taken = EntityAt(sent, Len(entities)) /\ taken <= Len(packet)
              /\ sent.cut = 0 => process = "running"
        /\ phase = "done" => entities = sent.entities /\ taken = Len(packet)

ChunkInv == HeaderInv /\ EntitiesInv

\* The places in a packet.
Places(p) ==
    /\ Len(Header(p)) \in Nat /\ DataEnd(p) \in Nat /\ EntitiesAt(p) \in Nat
    /\ Len(Header(p)) <= DataEnd(p) /\ DataEnd(p) <= EntitiesAt(p)
    /\ EntityAt(p, 0) = EntitiesAt(p)
    /\ \A i \in 0..Len(p.entities) : EntityAt(p, i) \in Nat /\ EntitiesAt(p) <= EntityAt(p, i)

LEMMA PlacesType == ASSUME NEW p \in Sent PROVE Places(p)
<1>1. PICK n \in Nat : n = Len(p.entities) /\ 0 \in 0..n /\ n \in 0..n
  BY SentTypes DEF SentType
<1>2. PICK h \in Nat : h = Len(Header(p))
  BY HeaderBytes DEF HeaderParts
<1>3. PICK d \in Nat : d = Len(p.data)
  BY SentTypes DEF SentType
<1>4. PICK v \in Nat : v = Len(write_varint(n))
  BY <1>1, SentTypes, VarintBytes DEF SentType
<1>5. EntitiesTo(p)[0] = <<>> /\ \A i \in 0..n : EntitiesTo(p)[i] \in Seq(Byte)
  BY <1>1, EntityBytesType DEF Gathers
<1>6. DataEnd(p) = h + d
  BY <1>2, <1>3 DEF DataEnd
<1>7. EntitiesAt(p) = (h + d) + v
  BY <1>1, <1>4, <1>6 DEF EntitiesAt
<1>8. \A i \in 0..n : Len(EntitiesTo(p)[i]) \in Nat
  BY <1>5
<1>9. \A i \in 0..n : EntityAt(p, i) = ((h + d) + v) + Len(EntitiesTo(p)[i])
  BY <1>7 DEF EntityAt
<1>10. Len(EntitiesTo(p)[0]) = 0
  BY <1>5
<1>11. EntityAt(p, 0) = EntitiesAt(p)
  <2>1. ((h + d) + v) + 0 = (h + d) + v
    OBVIOUS
  <2>2. EntityAt(p, 0) = EntitiesAt(p) + 0
    BY <1>10 DEF EntityAt
  <2> QED BY <1>7, <2>1, <2>2
<1>12. \A i \in 0..n : EntityAt(p, i) \in Nat /\ EntitiesAt(p) <= EntityAt(p, i)
  <2> SUFFICES ASSUME NEW i \in 0..n PROVE EntityAt(p, i) \in Nat /\ EntitiesAt(p) <= EntityAt(p, i)
    OBVIOUS
  <2>1. PICK m \in Nat : m = Len(EntitiesTo(p)[i])
    BY <1>8
  <2>2. EntityAt(p, i) = ((h + d) + v) + m
    BY <1>9, <2>1
  <2> QED BY <1>7, <2>2
<1> QED BY <1>1, <1>2, <1>6, <1>7, <1>11, <1>12 DEF Places

LEMMA ChunkStart == ChunkInit => ChunkInv
  BY DEF ChunkInit, ChunkInv, HeaderInv, EntitiesInv

\* A step that fails before the block entities, where it may.
LEMMA FailedEarly ==
    ASSUME ChunkInv,
           UNCHANGED <<sent, packet, taken, phase, data_end, section, heightmaps, entity_count, entities>>,
           phase = "sections"
    PROVE  ChunkInv'
  BY DEF ChunkInv, HeaderInv, EntitiesInv, SectionsEnd

\* Each action: its read goes well and leads on, or it fails and leaves all as it was.
LEMMA HeaderStep == ChunkInv /\ ReadHeader => ChunkInv'
<1> SUFFICES ASSUME ChunkInv, ReadHeader PROVE ChunkInv'
  OBVIOUS
<1>1. /\ sent \in Sent /\ packet = Bytes(sent) /\ section = 0 /\ heightmaps = <<>>
      /\ phase = "header" /\ process = "running" /\ sent' = sent /\ packet' = packet
  BY DEF ChunkInv, HeaderInv, ReadHeader, At
<1>2. Laid(packet, sent) /\ Places(sent) /\ SentType(sent)
  BY <1>1, PacketLaid, PlacesType, SentTypes
<1>3. PICK r : r = read_header(packet)
  OBVIOUS
<1>4. PICK h \in Nat : h = Len(Header(sent))
  BY <1>2 DEF Places
<1>5. PICK k \in Int : k = Len(sent.data) + sent.lie
  BY <1>2 DEF SentType
<1>6. PICK l \in Nat : l = Len(packet)
  <2>1. packet \in Seq(Byte)
    BY <1>2 DEF Laid
  <2> QED BY <2>1
<1>7. IF h <= l /\ k >= 0 THEN r = Ok(h, [tree |-> sent.heightmaps, end |-> h + k]) ELSE r.status # "ok"
  <2>1. packet \in Seq(Byte) /\ Agrees(packet, 0, Header(sent))
    BY <1>2 DEF Laid
  <2> QED BY <1>1, <1>3, <1>4, <1>5, <1>6, <2>1, HeaderRead
<1>8. CASE h <= l /\ k >= 0
  <2>1. r.status = "ok" /\ r.at = h /\ r.value.tree = sent.heightmaps /\ r.value.end = h + k
    BY <1>7, <1>8 DEF Ok
  <2>2. /\ heightmaps' = <<sent.heightmaps>> /\ data_end' = h + k /\ phase' = "sections"
        /\ section' = section /\ entities' = entities /\ taken' = h
    BY <1>3, <2>1 DEF ReadHeader, Reading
  <2>3. HeaderInv'
    BY <1>1, <1>4, <2>2 DEF HeaderInv
  <2>4. ASSUME sent.lie = 0 PROVE data_end' = DataEnd(sent) /\ taken' \in 0..SectionsEnd'
    <3>1. k = Len(sent.data)
      BY <1>2, <1>5, <2>4 DEF SentType
    <3>2. data_end' = DataEnd(sent)
      BY <1>4, <2>2, <3>1 DEF DataEnd
    <3>3. SectionsEnd' = IF h + k < l THEN h + k ELSE l
      BY <1>1, <1>6, <2>2 DEF SectionsEnd
    <3> QED BY <1>8, <2>2, <3>2, <3>3
  <2>5. sent.lie = 0 => entities = <<>>
    BY <1>1 DEF ChunkInv, EntitiesInv
  <2>6. EntitiesInv'
    BY <1>1, <2>2, <2>4, <2>5 DEF EntitiesInv
  <2> QED BY <2>3, <2>6 DEF ChunkInv
<1>9. CASE ~ (h <= l /\ k >= 0)
  <2>1. r.status # "ok"
    BY <1>7, <1>9
  <2>2. UNCHANGED <<taken, phase, data_end, section, is_air, heightmaps, entity_count, entities>>
    BY <1>3, <2>1 DEF ReadHeader, Reading
  <2>3. ~ (sent.cut = 0 /\ sent.lie >= 0)
    <3> SUFFICES ASSUME sent.cut = 0, sent.lie >= 0 PROVE FALSE
      OBVIOUS
    <3>1. k >= 0
      BY <1>2, <1>5 DEF SentType
    <3>2. EntityAt(sent, Len(sent.entities)) + 1 <= Len(packet)
      BY <1>2 DEF Laid
    <3>3. Len(sent.entities) \in 0..Len(sent.entities)
      BY <1>2 DEF SentType
    <3>4. h <= l
      BY <1>2, <1>4, <1>6, <3>2, <3>3 DEF Places
    <3> QED BY <1>9, <3>1, <3>4
  <2>4. HeaderInv'
    BY <1>1, <2>2, <2>3 DEF HeaderInv
  <2>5. EntitiesInv'
    BY <1>1, <2>2 DEF ChunkInv, EntitiesInv
  <2> QED BY <2>4, <2>5 DEF ChunkInv
<1> QED BY <1>8, <1>9

LEMMA SectionStep == ChunkInv /\ LoadSection => ChunkInv'
<1> SUFFICES ASSUME ChunkInv, LoadSection PROVE ChunkInv'
  OBVIOUS
<1>1. /\ sent \in Sent /\ packet = Bytes(sent) /\ section \in Nat /\ heightmaps = <<sent.heightmaps>>
      /\ phase = "sections" /\ sent' = sent /\ packet' = packet
  BY DEF ChunkInv, HeaderInv, LoadSection, At
<1>2. Laid(packet, sent) /\ Places(sent)
  BY <1>1, PacketLaid, PlacesType
<1>3. PICK air : air = IF section < Height THEN is_air[section + 1] ELSE TRUE
  OBVIOUS
<1>4. PICK r : r = load(packet, taken, SectionsEnd, air)
  OBVIOUS
<1>5. CASE r.status = "ok"
  <2>1. /\ section' = section + 1 /\ taken' = r.at
        /\ UNCHANGED <<phase, data_end, heightmaps, entity_count, entities>>
    BY <1>3, <1>4, <1>5 DEF LoadSection, Reading
  <2>2. HeaderInv'
    <3>1. section' \in Nat /\ section' # 0
      BY <1>1, <2>1
    <3> QED BY <1>1, <2>1, <3>1 DEF HeaderInv
  <2>3. EntitiesInv'
    <3> SUFFICES ASSUME sent.lie = 0 PROVE data_end = DataEnd(sent) /\ entities = <<>> /\ r.at \in 0..SectionsEnd
      BY <1>1, <2>1 DEF EntitiesInv, SectionsEnd
    <3>1. data_end = DataEnd(sent) /\ entities = <<>> /\ taken \in 0..SectionsEnd
      BY <1>1 DEF ChunkInv, EntitiesInv
    <3>2. packet \in Seq(Byte) /\ data_end \in Nat
      BY <1>2, <3>1 DEF Laid, Places
    <3>3. SectionsEnd \in 0..Len(packet)
      <4>1. PICK l \in Nat : l = Len(packet)
        BY <3>2
      <4> QED BY <3>2, <4>1 DEF SectionsEnd
    <3>4. r.at \in taken..SectionsEnd
      BY <1>4, <1>5, <3>1, <3>2, <3>3, LoadTakes
    <3> QED BY <3>1, <3>3, <3>4
  <2> QED BY <2>2, <2>3 DEF ChunkInv
<1>6. CASE r.status # "ok"
  <2>1. UNCHANGED <<taken, phase, data_end, section, is_air, heightmaps, entity_count, entities>>
    BY <1>3, <1>4, <1>6 DEF LoadSection, Reading
  <2> QED BY <1>1, <2>1, FailedEarly
<1> QED BY <1>5, <1>6

LEMMA StrayStep == ChunkInv /\ StrayWrite => ChunkInv'
  BY FailedEarly DEF StrayWrite, At

LEMMA SkipStep == ChunkInv /\ EndSections => ChunkInv'
<1> SUFFICES ASSUME ChunkInv, EndSections PROVE ChunkInv'
  OBVIOUS
<1>1. /\ sent \in Sent /\ packet = Bytes(sent) /\ section \in Nat /\ heightmaps = <<sent.heightmaps>>
      /\ phase = "sections" /\ process = "running" /\ sent' = sent /\ packet' = packet
  BY DEF ChunkInv, HeaderInv, EndSections, At
<1>2. Laid(packet, sent) /\ Places(sent) /\ SentType(sent)
  BY <1>1, PacketLaid, PlacesType, SentTypes
<1>3. PICK q : q = SkipData(packet, taken, data_end)
  OBVIOUS
<1>4. PICK v : v = read_varint(packet, q.at, Len(packet))
  OBVIOUS
<1>5. PICK r : r = IF q.status = "ok" THEN v ELSE q
  OBVIOUS
<1>6. IF r.status = "ok"
      THEN /\ entity_count' = r.value /\ taken' = r.at /\ phase' = "entities" /\ process' = process
           /\ UNCHANGED <<data_end, section, is_air, heightmaps, entities>>
      ELSE UNCHANGED <<taken, phase, data_end, section, is_air, heightmaps, entity_count, entities>>
  BY <1>3, <1>4, <1>5 DEF EndSections, Reading, Then
<1>7. CASE r.status = "ok"
  <2>1. /\ entity_count' = r.value /\ taken' = r.at /\ phase' = "entities" /\ process' = process
        /\ UNCHANGED <<data_end, section, is_air, heightmaps, entities>>
    BY <1>6, <1>7
  <2>2. HeaderInv'
    BY <1>1, <2>1 DEF HeaderInv
  <2>3. ASSUME sent.lie = 0
        PROVE  /\ r.value = Len(sent.entities) /\ r.at = EntityAt(sent, 0) /\ r.at <= Len(packet)
               /\ entities = <<>> /\ Len(sent.entities) \in Nat
    <3>1. data_end = DataEnd(sent) /\ entities = <<>> /\ taken \in 0..SectionsEnd
      BY <1>1, <2>3 DEF ChunkInv, EntitiesInv
    <3>2. packet \in Seq(Byte) /\ data_end \in Nat
      BY <1>2, <3>1 DEF Laid, Places
    <3>3. PICK l \in Nat : l = Len(packet)
      BY <3>2
    <3>4. taken \in Nat
      BY <3>1
    <3>5. q.status = "ok" /\ r = v
      BY <1>5, <1>7
    <3>6. data_end <= l /\ q.at = data_end
      <4>1. taken + (data_end - taken) = data_end
        BY <3>2, <3>4
      <4> QED BY <1>3, <3>3, <3>5, <4>1 DEF SkipData, discard, read_bytes, Ok, Aborted
    <3>7. Agrees(packet, DataEnd(sent), write_varint(Len(sent.entities)))
      BY <1>2, <3>1, <3>3, <3>6 DEF Laid
    <3>8. Len(sent.entities) \in SignedRange(Digits)
      BY <1>2, VarintBytes DEF SentType
    <3>9. Reads(r, packet, DataEnd(sent), write_varint(Len(sent.entities)), Len(sent.entities))
      BY <1>4, <3>1, <3>2, <3>5, <3>6, <3>7, <3>8, ReadsVarint
    <3>10. EntitiesAt(sent) <= Len(packet) /\ r.at = EntitiesAt(sent) /\ r.value = Len(sent.entities)
      BY <1>7, <3>9, ReadsOk DEF EntitiesAt
    <3> QED BY <1>2, <3>1, <3>10 DEF Places, SentType
  <2>4. EntitiesInv'
    <3>1. Len(<<>>) = 0
      OBVIOUS
    <3>2. \A e : SubSeq(e, 1, 0) = <<>>
      OBVIOUS
    <3> QED BY <1>1, <2>1, <2>3, <3>1, <3>2 DEF EntitiesInv
  <2> QED BY <2>2, <2>4 DEF ChunkInv
<1>8. CASE r.status # "ok"
  <2>1. UNCHANGED <<taken, phase, data_end, section, is_air, heightmaps, entity_count, entities>>
    BY <1>6, <1>8
  <2> QED BY <1>1, <2>1, FailedEarly
<1> QED BY <1>7, <1>8

LEMMA EntityStep == ChunkInv /\ LoadEntity => ChunkInv'
<1> SUFFICES ASSUME ChunkInv, LoadEntity PROVE ChunkInv'
  OBVIOUS
<1>1. /\ sent \in Sent /\ packet = Bytes(sent) /\ section \in Nat /\ heightmaps = <<sent.heightmaps>>
      /\ phase = "entities" /\ process = "running" /\ sent' = sent /\ packet' = packet
      /\ Len(entities) < entity_count
  BY DEF ChunkInv, HeaderInv, LoadEntity, At
<1>2. Laid(packet, sent) /\ Places(sent) /\ SentType(sent)
  BY <1>1, PacketLaid, PlacesType, SentTypes
<1>3. PICK r : r = read_block_entity(packet, taken)
  OBVIOUS
<1>4. IF r.status = "ok"
      THEN /\ entities' = Append(entities, r.value) /\ taken' = r.at /\ process' = process
           /\ UNCHANGED <<phase, data_end, section, is_air, heightmaps, entity_count>>
      ELSE UNCHANGED <<taken, phase, data_end, section, is_air, heightmaps, entity_count, entities>>
  BY <1>3 DEF LoadEntity, Reading
<1>5. HeaderInv'
  <2>1. UNCHANGED <<sent, packet, phase, section, heightmaps>>
    BY <1>1, <1>4
  <2> QED BY <1>1, <2>1 DEF HeaderInv
<1>6. EntitiesInv'
  <2> SUFFICES ASSUME sent.lie = 0 PROVE EntitiesInv'
    BY <1>1 DEF EntitiesInv
  <2>1. /\ entity_count = Len(sent.entities) /\ Len(entities) \in 0..entity_count
        /\ entities = SubSeq(sent.entities, 1, Len(entities))
        /\ taken = EntityAt(sent, Len(entities)) /\ taken <= Len(packet)
    BY <1>1 DEF ChunkInv, EntitiesInv
  <2>2. PICK n \in Nat : n = Len(sent.entities)
    BY <1>2 DEF SentType
  <2>3. PICK i \in 0..n : i = Len(entities) /\ i < n
    BY <1>1, <2>1, <2>2
  <2>4. PICK l \in Nat : l = Len(packet) /\ packet \in Seq(Byte)
    BY <1>2 DEF Laid
  <2>5. i + 1 \in 1..n /\ i + 1 \in 0..n /\ (i + 1) - 1 = i /\ n \in 0..n
    BY <2>3
  <2>6. PICK e : e = sent.entities[i + 1]
    OBVIOUS
  <2>7. e \in TreeType
    BY <1>2, <2>2, <2>5, <2>6 DEF SentType
  <2>8. EntitiesAt(sent) <= Len(packet)
    BY <1>2, <2>1, <2>2, <2>3, <2>4 DEF Places
  <2>9. /\ EntitiesTo(sent)[i + 1] \in Seq(Byte) /\ EntitiesTo(sent)[i] \in Seq(Byte)
        /\ EntitiesTo(sent)[n] \in Seq(Byte)
        /\ Len(EntitiesTo(sent)[i + 1]) <= Len(EntitiesTo(sent)[n])
        /\ Len(EntitiesTo(sent)[i + 1]) = Len(EntitiesTo(sent)[i]) + Len(Entity(e)) /\ Entity(e) \in Seq(Byte)
        /\ taken <= Len(packet) => Agrees(packet, taken, Entity(e))
    <3>1. PartsAgree(packet, EntitiesAt(sent), EntityBytes(sent), EntitiesTo(sent))
      BY <1>2, <2>8 DEF Laid
    <3>2. Len(EntityBytes(sent)) = n /\ EntityBytes(sent)[i + 1] = Entity(e)
      BY <1>1, <2>2, <2>5, <2>6, EntityBytesType
    <3>3. /\ EntitiesTo(sent)[i + 1] \in Seq(Byte) /\ EntitiesTo(sent)[i] \in Seq(Byte)
          /\ EntitiesTo(sent)[n] \in Seq(Byte)
          /\ Len(EntitiesTo(sent)[i + 1]) <= Len(EntitiesTo(sent)[n])
      BY <2>3, <2>5, <3>1, <3>2 DEF PartsAgree
    <3>4. /\ Entity(e) \in Seq(Byte)
          /\ Len(EntitiesTo(sent)[i + 1]) = Len(EntitiesTo(sent)[i]) + Len(Entity(e))
          /\ EntitiesAt(sent) + Len(EntitiesTo(sent)[i]) <= Len(packet) =>
                Agrees(packet, EntitiesAt(sent) + Len(EntitiesTo(sent)[i]), Entity(e))
      BY <2>5, <3>1, <3>2 DEF PartsAgree
    <3>5. taken = EntitiesAt(sent) + Len(EntitiesTo(sent)[i])
      BY <2>1, <2>3 DEF EntityAt
    <3> QED BY <3>3, <3>4, <3>5
  <2>10. /\ taken + Len(Entity(e)) = EntityAt(sent, i + 1) /\ EntityAt(sent, i + 1) <= EntityAt(sent, n)
         /\ EntityAt(sent, n) \in Nat /\ EntityAt(sent, i + 1) \in Nat
    <3>1. PICK a \in Nat, b \in Nat, c \in Nat, d \in Nat, f \in Nat :
             /\ a = EntitiesAt(sent) /\ b = Len(EntitiesTo(sent)[i]) /\ c = Len(EntitiesTo(sent)[i + 1])
             /\ d = Len(Entity(e)) /\ f = Len(EntitiesTo(sent)[n])
      <4>1. /\ EntitiesAt(sent) \in Nat /\ Len(EntitiesTo(sent)[i]) \in Nat
            /\ Len(EntitiesTo(sent)[i + 1]) \in Nat /\ Len(Entity(e)) \in Nat
            /\ Len(EntitiesTo(sent)[n]) \in Nat
        BY <1>2, <2>9 DEF Places
      <4> QED BY <4>1
    <3>2. EntityAt(sent, i) = a + b /\ EntityAt(sent, i + 1) = a + c /\ EntityAt(sent, n) = a + f
      BY <3>1 DEF EntityAt
    <3>3. c = b + d /\ c <= f /\ taken = a + b
      BY <2>1, <2>3, <2>9, <3>1, <3>2
    <3>4. (a + b) + d = a + c /\ a + c <= a + f /\ a + f \in Nat /\ a + c \in Nat
      BY <3>3
    <3> QED BY <3>1, <3>2, <3>3, <3>4
  <2>11. Reads(r, packet, taken, Entity(e), e)
    BY <1>3, <2>1, <2>4, <2>7, <2>9, EntityRead
  <2>12. CASE r.status = "ok"
    <3>1. r.at = EntityAt(sent, i + 1) /\ r.value = e /\ EntityAt(sent, i + 1) <= Len(packet)
      BY <2>10, <2>11, <2>12, ReadsOk
    <3>2. /\ entities' = Append(entities, e) /\ taken' = EntityAt(sent, i + 1) /\ process' = process
          /\ UNCHANGED <<phase, data_end, section, is_air, heightmaps, entity_count>>
      BY <1>4, <2>12, <3>1
    <3>3. entities' = SubSeq(sent.entities, 1, i + 1) /\ Len(entities') = i + 1
      <4>1. sent.entities \in Seq(TreeType)
        BY <1>2 DEF SentType
      <4>2. SubSeq(sent.entities, 1, i + 1) = Append(SubSeq(sent.entities, 1, i), sent.entities[i + 1])
            /\ Len(SubSeq(sent.entities, 1, i + 1)) = i + 1
        BY <2>2, <2>3, <2>5, <4>1
      <4> QED BY <2>1, <2>3, <2>6, <3>2, <4>2
    <3>4. i + 1 \in 0..entity_count /\ phase' = "entities" /\ entity_count' = Len(sent.entities)
      BY <1>1, <2>1, <2>2, <2>5, <3>2
    <3> QED BY <1>1, <3>1, <3>2, <3>3, <3>4 DEF EntitiesInv
  <2>13. CASE r.status # "ok"
    <3>1. UNCHANGED <<taken, phase, data_end, section, is_air, heightmaps, entity_count, entities>>
      BY <1>4, <2>13
    <3>2. sent.cut # 0
      <4> SUFFICES ASSUME sent.cut = 0 PROVE FALSE
        OBVIOUS
      <4>1. EntityAt(sent, n) + 1 <= l
        BY <1>2, <2>2, <2>4 DEF Laid
      <4>2. taken + Len(Entity(e)) <= Len(packet)
        BY <2>4, <2>10, <4>1
      <4> QED BY <2>11, <2>13, <4>2, ReadsOk
    <3> QED BY <1>1, <2>1, <3>1, <3>2 DEF EntitiesInv
  <2> QED BY <2>12, <2>13
<1> QED BY <1>5, <1>6 DEF ChunkInv

LEMMA EndStep == ChunkInv /\ EndPacket => ChunkInv'
<1> SUFFICES ASSUME ChunkInv, EndPacket PROVE ChunkInv'
  OBVIOUS
<1>1. /\ sent \in Sent /\ packet = Bytes(sent) /\ section \in Nat /\ heightmaps = <<sent.heightmaps>>
      /\ phase = "entities" /\ process = "running" /\ sent' = sent /\ packet' = packet
      /\ Len(entities) >= entity_count
  BY DEF ChunkInv, HeaderInv, EndPacket, At
<1>2. Laid(packet, sent) /\ Places(sent) /\ SentType(sent)
  BY <1>1, PacketLaid, PlacesType, SentTypes
<1>3. PICK b : b = read_bool(packet, taken, Len(packet))
  OBVIOUS
<1>4. PICK d : d = discard(packet, b.at, Len(packet), Len(packet) - b.at)
  OBVIOUS
<1>5. PICK r : r = IF b.status = "ok" THEN d ELSE b
  OBVIOUS
<1>6. IF r.status = "ok"
      THEN /\ phase' = "done" /\ taken' = r.at
           /\ UNCHANGED <<data_end, section, is_air, heightmaps, entity_count, entities>>
      ELSE UNCHANGED <<taken, phase, data_end, section, is_air, heightmaps, entity_count, entities>>
  BY <1>3, <1>4, <1>5 DEF EndPacket, Reading, Then
<1>7. HeaderInv'
  <2>1. UNCHANGED <<sent, packet, section, heightmaps>> /\ (phase' = "done" \/ phase' = phase)
    BY <1>1, <1>6
  <2> QED BY <1>1, <2>1 DEF HeaderInv
<1>8. EntitiesInv'
  <2> SUFFICES ASSUME sent.lie = 0 PROVE EntitiesInv'
    BY <1>1 DEF EntitiesInv
  <2>1. /\ entity_count = Len(sent.entities) /\ Len(entities) \in 0..entity_count
        /\ entities = SubSeq(sent.entities, 1, Len(entities))
        /\ taken = EntityAt(sent, Len(entities)) /\ taken <= Len(packet)
    BY <1>1 DEF ChunkInv, EntitiesInv
  <2>2. PICK n \in Nat : n = Len(sent.entities)
    BY <1>2 DEF SentType
  <2>3. n = Len(entities) /\ n \in 0..n
    BY <1>1, <2>1, <2>2
  <2>4. entities = sent.entities
    <3>1. sent.entities \in Seq(TreeType)
      BY <1>2 DEF SentType
    <3>2. SubSeq(sent.entities, 1, n) = sent.entities
      BY <2>2, <3>1
    <3> QED BY <2>1, <2>3, <3>2
  <2>5. PICK l \in Nat : l = Len(packet) /\ packet \in Seq(Byte)
    BY <1>2 DEF Laid
  <2>6. taken \in Nat /\ taken <= l /\ taken = EntityAt(sent, n)
    BY <1>2, <2>1, <2>2, <2>3, <2>5 DEF Places
  <2>7. Agrees(packet, taken, <<1>>)
    BY <1>2, <2>2, <2>5, <2>6 DEF Laid
  <2>8. PICK c : c = read_int(packet, taken, Len(packet), "u8")
    OBVIOUS
  <2>9. (c.status = "ok" <=> taken + 1 <= l) /\ (c.status = "ok" => c.at = taken + 1 /\ c.value = 1)
    <3>1. PICK o : o = <<1>> /\ Len(o) = 1
      <4>1. Len(<<1>>) = 1
        OBVIOUS
      <4> QED BY <4>1
    <3>2. Reads(c, packet, taken, o, 1)
      BY <2>5, <2>7, <2>8, <3>1, OneName, ReadsByte
    <3>3. /\ c.status = "ok" <=> taken + Len(o) <= Len(packet)
          /\ c.status = "ok" => c.at = taken + Len(o) /\ c.value = 1
      BY <3>2, ReadsOk
    <3> QED BY <2>5, <3>1, <3>3
  <2>10. b = IF c.status = "ok" THEN IF c.value \in {0, 1} THEN Ok(c.at, c.value) ELSE Thrown ELSE c
    BY <1>3, <2>8 DEF read_bool, Then
  <2>11. CASE taken + 1 <= l
    <3>1. c.status = "ok" /\ c.at = taken + 1 /\ c.value = 1
      BY <2>9, <2>11
    <3>2. b.status = "ok" /\ b.at = taken + 1
      BY <2>10, <3>1 DEF Ok
    <3>3. (taken + 1) + (l - (taken + 1)) = l /\ l <= l
      BY <2>5, <2>6
    <3>4. d.status = "ok" /\ d.at = l
      BY <1>4, <2>5, <3>2, <3>3 DEF discard, read_bytes, Ok
    <3>5. phase' = "done" /\ taken' = Len(packet) /\ entities' = entities
      BY <1>5, <1>6, <2>5, <3>2, <3>4
    <3> QED BY <1>1, <2>4, <3>5 DEF EntitiesInv
  <2>12. CASE ~ (taken + 1 <= l)
    <3>1. c.status # "ok"
      BY <2>9, <2>12
    <3>2. UNCHANGED <<taken, phase, data_end, section, is_air, heightmaps, entity_count, entities>>
      BY <1>5, <1>6, <2>10, <3>1
    <3>3. sent.cut # 0
      BY <1>2, <2>2, <2>5, <2>6, <2>12 DEF Laid
    <3> QED BY <1>1, <2>1, <3>2, <3>3 DEF EntitiesInv
  <2> QED BY <2>11, <2>12
<1> QED BY <1>7, <1>8 DEF ChunkInv

LEMMA ChunkKeeps == ChunkInv /\ [ChunkNext]_chunkVars => ChunkInv'
<1> SUFFICES ASSUME ChunkInv, [ChunkNext]_chunkVars PROVE ChunkInv'
  OBVIOUS
<1>1. CASE ReadHeader
  BY <1>1, HeaderStep
<1>2. CASE LoadSection
  BY <1>2, SectionStep
<1>3. CASE StrayWrite
  BY <1>3, StrayStep
<1>4. CASE EndSections
  BY <1>4, SkipStep
<1>5. CASE LoadEntity
  BY <1>5, EntityStep
<1>6. CASE EndPacket
  BY <1>6, EndStep
<1>7. CASE UNCHANGED chunkVars
  BY <1>7 DEF chunkVars, ChunkInv, HeaderInv, EntitiesInv, SectionsEnd
<1> QED BY <1>1, <1>2, <1>3, <1>4, <1>5, <1>6, <1>7 DEF ChunkNext

LEMMA ChunkNbtInv == ChunkInv => NbtExact
  BY DEF ChunkInv, HeaderInv, NbtExact

LEMMA ChunkEntitiesInv == ChunkInv => BlockEntitiesAligned
<1> SUFFICES ASSUME ChunkInv, sent.lie = 0 PROVE BlockEntitiesAligned
  BY DEF BlockEntitiesAligned
<1>1. SentType(sent)
  BY SentTypes DEF ChunkInv, HeaderInv
<1>2. phase \in {"header", "sections", "entities", "done"} /\ (phase = "header" => section = 0)
  BY DEF ChunkInv, HeaderInv
<1>3. entities = SubSeq(sent.entities, 1, Len(entities))
  <2>1. CASE phase \in {"header", "sections"}
    <3>1. entities = <<>>
      BY <2>1 DEF ChunkInv, EntitiesInv
    <3>2. Len(<<>>) = 0 /\ SubSeq(sent.entities, 1, 0) = <<>>
      OBVIOUS
    <3> QED BY <3>1, <3>2
  <2>2. CASE phase = "entities"
    BY <2>2 DEF ChunkInv, EntitiesInv
  <2>3. CASE phase = "done"
    <3>1. entities = sent.entities /\ sent.entities \in Seq(TreeType)
      BY <1>1, <2>3 DEF ChunkInv, EntitiesInv, SentType
    <3> QED BY <3>1
  <2> QED BY <1>2, <2>1, <2>2, <2>3
<1> QED BY <1>3 DEF ChunkInv, EntitiesInv, BlockEntitiesAligned

\* The trees in a packet are read as they were sent, from exactly their bytes
\* (nbt.cc, and the handler in front of its sections): trees of every type of tag
\* but TAG_BYTE_ARRAY, whose constructor throws (nbt.cc:129), nested to any depth.
THEOREM ChunkNbt == ChunkSpec => []NbtExact
  BY ChunkStart, ChunkKeeps, ChunkNbtInv, PTL DEF ChunkSpec

\* The block entities are read from where they begin, whatever lies in the sections
\* and wherever reading them stops (level_chunk_with_light_packet.cc).
THEOREM ChunkEntities == ChunkSpec => []BlockEntitiesAligned
  BY ChunkStart, ChunkKeeps, ChunkEntitiesInv, PTL DEF ChunkSpec
=============================================================================
