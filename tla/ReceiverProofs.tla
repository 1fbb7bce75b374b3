--------------------------- MODULE ReceiverProofs ---------------------------
(***************************************************************************)
(* Proofs about the ring and its receiver, for every capacity, every set   *)
(* of bytes, every packet length and every stream.  First RingBuffer: its  *)
(* inductive invariant RingInv adds to the checked invariants where the    *)
(* handed spans begin and how much room they still have; without SpansFit  *)
(* nothing would say that a later Fill writes into slots that are free.    *)
(* Then Receiver: every step of a connection leaves the ring as a step of  *)
(* the ring does, so RingInv holds of the read buffer; the invariant of    *)
(* the control flow, ControlInv, says which of main loop, completion       *)
(* handler and coroutine runs, who waits, and what is posted on the        *)
(* socket; PacketsInv says what the coroutine has made of the stream.      *)
(***************************************************************************)
EXTENDS Receiver, WireProofs

-----------------------------------------------------------------------------
(* The ring.                                                               *)

\* The spans handed out begin at the write position, are split at the end of
\* the array, and offer no more room than there is.
SpansFit ==
    IF spans.handed
    THEN /\ spans.front = FrontSpan(m_written % N, Room)
         /\ spans.back = BackSpan(m_written % N, Room)
         /\ Room <= writable
    ELSE spans = NoSpans

RingInv == RingTypeOK /\ CountersAgree /\ UnreadIntact /\ SpansFit

-----------------------------------------------------------------------------
\* Arithmetic of the slot index.

LEMMA ModBasic ==
    ASSUME NEW a \in Nat
    PROVE  /\ a % N \in 0..N-1
           /\ a \div N \in Nat
           /\ a = N * (a \div N) + (a % N)
BY RingAssumption, Z3

LEMMA ModUnique ==
    ASSUME NEW q \in Nat, NEW r \in 0..N-1
    PROVE  (N * q + r) % N = r
BY RingAssumption, SMT

\* The slot d places after the slot of a, for less than a full turn.
LEMMA ModStep ==
    ASSUME NEW a \in Nat, NEW d \in 0..N-1
    PROVE  (a + d) % N = IF (a % N) + d < N THEN (a % N) + d
                                            ELSE (a % N) + d - N
<1> DEFINE q == a \div N
           r == a % N
<1>1. q \in Nat /\ r \in 0..N-1 /\ a = N * q + r
  BY ModBasic
<1>2. CASE r + d < N
  <2>1. r + d \in 0..N-1
    BY <1>1, <1>2, RingAssumption
  <2>2. a + d = N * q + (r + d)
    BY <1>1, RingAssumption
  <2> HIDE DEF q, r
  <2>3. (N * q + (r + d)) % N = r + d
    BY <1>1, <2>1, ModUnique
  <2>4. QED
    BY <1>2, <2>2, <2>3 DEF r
<1>3. CASE ~(r + d < N)
  <2>1. r + d - N \in 0..N-1
    BY <1>1, <1>3, RingAssumption
  <2> HIDE DEF q, r
  <2>2. a + d = N * (q + 1) + (r + d - N)
    BY <1>1, RingAssumption
  <2>3. (N * (q + 1) + (r + d - N)) % N = r + d - N
    <3>1. q + 1 \in Nat
      BY <1>1
    <3>2. QED
      BY <2>1, <3>1, ModUnique
  <2>4. QED
    BY <1>3, <2>2, <2>3 DEF r
<1>4. QED
  BY <1>2, <1>3

\* A full turn comes back to the same slot.
LEMMA ModTurn ==
    ASSUME NEW a \in Nat
    PROVE  (a + N) % N = a % N
<1> DEFINE q == a \div N
           r == a % N
<1>1. q \in Nat /\ r \in 0..N-1 /\ a = N * q + r
  BY ModBasic
<1> HIDE DEF q, r
<1>2. a + N = N * (q + 1) + r
  BY <1>1, RingAssumption
<1>3. (N * (q + 1) + r) % N = r
  <2>1. q + 1 \in Nat
    BY <1>1
  <2>2. QED
    BY <1>1, <2>1, ModUnique
<1>4. QED
  BY <1>2, <1>3 DEF r

-----------------------------------------------------------------------------
\* The d-th free slot after the write position is the (d+1)-st place of the
\* handed spans, and a slot beyond the room they offer has no place in them.
LEMMA PlaceOfSlot ==
    ASSUME RingTypeOK, CountersAgree, SpansFit, spans.handed,
           NEW d \in 0..N-1
    PROVE  /\ d < Room => Place((m_written + d) % N) = d + 1
           /\ d >= Room => Place((m_written + d) % N) \notin 1..Room
<1> DEFINE w == m_written % N
           s == (m_written + d) % N
<1>1. w \in 0..N-1 /\ m_written \in Nat
  BY ModBasic DEF RingTypeOK
<1>2. s = IF w + d < N THEN w + d ELSE w + d - N
  BY <1>1, ModStep
<1>3. Room \in 0..N
  BY RingAssumption DEF SpansFit, CountersAgree, RingTypeOK, Room, Span, readable, writable
<1>4. /\ spans.front.start = w
      /\ spans.back.start = 0
      /\ spans.front.count = IF Room > N - w THEN N - w ELSE Room
  BY DEF SpansFit, FrontSpan, BackSpan, clamp
<1>5. Place(s) = IF s >= w /\ s < w + spans.front.count
                 THEN s - w + 1 ELSE s - 0 + spans.front.count + 1
  BY <1>4 DEF Place
<1> HIDE DEF w, s
<1>6. QED
  <2>1. CASE w + d < N
    BY <1>1, <1>2, <1>3, <1>4, <1>5, <2>1, RingAssumption DEF s
  <2>2. CASE ~(w + d < N)
    BY <1>1, <1>2, <1>3, <1>4, <1>5, <2>2, RingAssumption DEF s
  <2>3. QED
    BY <2>1, <2>2

\* No slot of an unread byte has a place in the handed spans.
LEMMA UnreadHasNoPlace ==
    ASSUME RingTypeOK, CountersAgree, SpansFit, spans.handed,
           NEW k \in m_read .. m_written - 1
    PROVE  Place(k % N) \notin 1..Room
<1> DEFINE d == k + N - m_written
<1>1. k \in Nat /\ m_written \in Nat /\ m_read \in Nat
  BY DEF RingTypeOK
<1>2. d \in 0..N-1 /\ d >= Room
  BY <1>1, RingAssumption
  DEF SpansFit, CountersAgree, RingTypeOK, Room, Span, readable, writable
<1>3. m_written + d = k + N
  BY <1>1, RingAssumption
<1>4. k % N = (m_written + d) % N
  BY <1>1, <1>3, ModTurn
<1> HIDE DEF d
<1>5. QED
  BY <1>2, <1>4, PlaceOfSlot
-----------------------------------------------------------------------------
\* The spans computed by write_front and write_back are spans of the array.
LEMMA SpanTypes ==
    ASSUME NEW start \in 0..N-1, NEW total \in 0..N
    PROVE  /\ FrontSpan(start, total) \in Span
           /\ BackSpan(start, total) \in Span
           /\ FrontSpan(start, total).count + BackSpan(start, total).count = total
BY RingAssumption DEF FrontSpan, BackSpan, clamp, Span

LEMMA NoSpansType == NoSpans \in [front : Span, back : Span, handed : BOOLEAN]
BY RingAssumption DEF NoSpans, FrontSpan, clamp, Span

\* The invariant holds initially.
LEMMA RingInitInv == RingInit => RingInv
<1> SUFFICES ASSUME RingInit PROVE RingInv
  OBVIOUS
<1>1. RingTypeOK
  BY NoSpansType DEF RingInit, RingTypeOK
<1>2. CountersAgree
  BY RingAssumption DEF RingInit, CountersAgree, readable
<1>3. UnreadIntact
  BY DEF RingInit, UnreadIntact
<1>4. SpansFit
  BY DEF RingInit, SpansFit, NoSpans
<1>5. QED
  BY <1>1, <1>2, <1>3, <1>4 DEF RingInv

\* The spans handed out offer all the room there is.
LEMMA TakeSpansRoom ==
    ASSUME RingTypeOK, CountersAgree, TakeSpans
    PROVE  Room' = N - readable
<1>1. /\ m_written % N \in 0..N-1
      /\ writable \in 0..N
  BY ModBasic, RingAssumption DEF RingTypeOK, CountersAgree, readable, writable
<1>2. spans' = [front |-> write_front, back |-> write_back, handed |-> TRUE]
  BY DEF TakeSpans
<1>3. QED
  BY <1>1, <1>2, SpanTypes DEF Room, write_front, write_back, writable

\* Handing out the spans preserves it.
LEMMA TakeSpansInv ==
    ASSUME RingInv, TakeSpans
    PROVE  RingInv'
<1>1. /\ m_written % N \in 0..N-1
      /\ writable \in 0..N
  BY ModBasic, RingAssumption
  DEF RingInv, RingTypeOK, CountersAgree, readable, writable
<1>2. spans' = [front |-> write_front, back |-> write_back, handed |-> TRUE]
  BY DEF TakeSpans
<1>3. Room' = writable
  BY TakeSpansRoom DEF RingInv, writable
<1>4. RingTypeOK'
  BY <1>1, <1>2, SpanTypes
  DEF RingInv, RingTypeOK, TakeSpans, write_front, write_back
<1>5. CountersAgree' /\ UnreadIntact'
  BY DEF RingInv, CountersAgree, UnreadIntact, TakeSpans, readable
<1>6. SpansFit'
  BY <1>1, <1>2, <1>3, RingAssumption
  DEF SpansFit, TakeSpans, write_front, write_back, writable, readable
<1>7. QED
  BY <1>4, <1>5, <1>6 DEF RingInv

\* Giving them back unused preserves it.
LEMMA DropSpansInv ==
    ASSUME RingInv, DropSpans
    PROVE  RingInv'
<1>1. RingTypeOK'
  BY NoSpansType DEF RingInv, RingTypeOK, DropSpans
<1>2. CountersAgree' /\ UnreadIntact'
  BY DEF RingInv, CountersAgree, UnreadIntact, DropSpans, readable
<1>3. SpansFit'
  BY DEF SpansFit, DropSpans, NoSpans
<1>4. QED
  BY <1>1, <1>2, <1>3 DEF RingInv

\* Erasing read bytes preserves it, also while spans are handed out: the room
\* they offer can only become smaller than what is writable.
LEMMA EraseInv ==
    ASSUME RingInv, NEW n \in Nat, erase(n)
    PROVE  RingInv'
<1>1. RingTypeOK'
  BY DEF RingInv, RingTypeOK, erase
<1>2. CountersAgree'
  BY RingAssumption DEF RingInv, RingTypeOK, CountersAgree, erase, readable
<1>3. UnreadIntact'
  BY DEF RingInv, RingTypeOK, UnreadIntact, erase
<1>4. SpansFit'
  <2>1. Room' = Room /\ UNCHANGED <<spans, m_written>>
    BY DEF erase, Room
  <2>2. Room \in Nat
    BY RingAssumption DEF RingInv, RingTypeOK, Room, Span
  <2>3. writable' >= writable /\ writable \in Int /\ writable' \in Int
    BY RingAssumption DEF RingInv, RingTypeOK, erase, writable, readable
  <2>4. QED
    BY <2>1, <2>2, <2>3 DEF RingInv, SpansFit
<1>5. QED
  BY <1>1, <1>2, <1>3, <1>4 DEF RingInv

\* Filling the spans preserves it: an unread byte keeps its slot, and a new
\* byte lands in the slot its place in the stream leads to.
LEMMA FillInv ==
    ASSUME RingInv, NEW bytes \in Seq(Byte), Fill(bytes)
    PROVE  RingInv'
<1> DEFINE n == Len(bytes)
<1>1. /\ n \in Nat
      /\ spans.handed
      /\ n <= Room
      /\ m_written' = m_written + n
      /\ m_read' = m_read
      /\ stream' = stream \o bytes
      /\ spans' = NoSpans
  BY DEF Fill, mark_write
<1>2. /\ m_read \in Nat /\ m_written \in Nat
      /\ stream \in Seq(Byte)
      /\ m_data \in [0..N-1 -> Byte \cup {Unset}]
      /\ readable \in 0..N
      /\ m_written = Len(stream)
      /\ Room \in 0..N
      /\ Room <= N - readable
  BY <1>1, RingAssumption
  DEF RingInv, RingTypeOK, CountersAgree, SpansFit, Room, Span, readable, writable
<1>3. RingTypeOK'
  <2>1. m_data' \in [0..N-1 -> Byte \cup {Unset}]
    BY <1>1, <1>2 DEF Fill
  <2>2. QED
    BY <1>1, <1>2, <2>1, NoSpansType DEF RingTypeOK
<1>4. CountersAgree'
  BY <1>1, <1>2, RingAssumption DEF CountersAgree, readable
<1>5. UnreadIntact'
  <2> SUFFICES ASSUME NEW k \in m_read' .. m_written' - 1
               PROVE  m_data'[k % N] = stream'[k + 1]
    BY DEF UnreadIntact
  <2>0. k \in Nat /\ m_read <= k /\ k < m_written + n
    BY <1>1, <1>2
  <2>1. k % N \in 0..N-1
    BY <2>0, ModBasic
  <2>2. m_data'[k % N] = IF Place(k % N) \in 1..n THEN bytes[Place(k % N)]
                                                  ELSE m_data[k % N]
    BY <2>1 DEF Fill
  <2>3. CASE k < m_written
    <3>1. k \in m_read .. m_written - 1
      BY <1>2, <2>0, <2>3
    <3>2. Place(k % N) \notin 1..Room
      BY <1>1, <3>1, UnreadHasNoPlace DEF RingInv
    <3>3. m_data[k % N] = stream[k + 1]
      BY <3>1 DEF RingInv, UnreadIntact
    <3>4. stream'[k + 1] = stream[k + 1]
      BY <1>1, <1>2, <2>0, <2>3
    <3>5. m_data'[k % N] = m_data[k % N]
      BY <1>1, <1>2, <2>2, <3>2
    <3>6. QED
      BY <3>3, <3>4, <3>5
  <2>4. CASE k >= m_written
    <3> DEFINE d == k - m_written
    <3>1. d \in 0..N-1 /\ d < Room /\ d < n /\ k = m_written + d
      BY <1>1, <1>2, <2>0, <2>4, RingAssumption
    <3> HIDE DEF d
    <3>2. Place(k % N) = d + 1
      BY <1>1, <3>1, PlaceOfSlot DEF RingInv
    <3>3. m_data'[k % N] = bytes[d + 1]
      BY <1>1, <2>2, <3>1, <3>2
    <3>4. stream'[k + 1] = bytes[d + 1]
      BY <1>1, <1>2, <3>1
    <3>5. QED
      BY <3>3, <3>4
  <2>5. QED
    BY <1>2, <2>0, <2>3, <2>4
<1>6. SpansFit'
  BY <1>1 DEF SpansFit, NoSpans
<1>7. QED
  BY <1>3, <1>4, <1>5, <1>6 DEF RingInv

\* Every step preserves the invariant.
LEMMA RingNextInv == RingInv /\ [RingNext]_ringVars => RingInv'
<1> SUFFICES ASSUME RingInv, [RingNext]_ringVars PROVE RingInv'
  OBVIOUS
<1>1. CASE TakeSpans
  BY <1>1, TakeSpansInv
<1>2. ASSUME NEW n \in 0..N, NEW bytes \in [1..n -> Byte], Fill(bytes)
      PROVE  RingInv'
  <2>1. bytes \in Seq(Byte)
    BY RingAssumption
  <2>2. QED
    BY <1>2, <2>1, FillInv
<1>3. CASE DropSpans
  BY <1>3, DropSpansInv
<1>4. ASSUME NEW n \in 1..N, erase(n)
      PROVE  RingInv'
  BY <1>4, EraseInv, RingAssumption
<1>5. CASE UNCHANGED ringVars
  BY <1>5 DEF ringVars, RingInv, RingTypeOK, CountersAgree, UnreadIntact,
              SpansFit, Room, readable, writable, FrontSpan, BackSpan, clamp, NoSpans
<1>6. QED
  BY <1>1, <1>2, <1>3, <1>4, <1>5 DEF RingNext
\* The inductive invariant holds in every reachable state.
LEMMA RingInvariant == RingSpec => []RingInv
BY RingInitInv, RingNextInv, PTL DEF RingSpec

-----------------------------------------------------------------------------
\* While the producer holds spans, no unread byte lies in a slot it may write.
LEMMA InvSpansAreFree == RingInv => SpansAreFree
BY UnreadHasNoPlace DEF RingInv, SpansAreFree

\* The two read spans, one after the other, are the unread part of the stream.
LEMMA InvReadSpansExact == RingInv => ReadSpansExact
<1> SUFFICES ASSUME RingInv PROVE ReadSpansExact
  OBVIOUS
<1> DEFINE Unread == SubSeq(stream, m_read + 1, m_written)
<1>1. /\ m_read \in Nat /\ m_written \in Nat
      /\ stream \in Seq(Byte)
      /\ readable \in 0..N
      /\ m_written = m_read + readable
      /\ m_written = Len(stream)
  BY RingAssumption DEF RingInv, RingTypeOK, CountersAgree, readable
<1>2. Unread = [j \in 1..readable |-> stream[m_read + j]]
  BY <1>1
<1>3. ASSUME NEW j \in 1..readable
      PROVE  Readable[j] = stream[m_read + j]
  <2> DEFINE w == m_read % N
             k == m_read + (j - 1)
  <2>1. w \in 0..N-1
    BY <1>1, ModBasic
  <2>2. j - 1 \in 0..N-1 /\ k \in m_read .. m_written - 1
    <3>1. j \in Int /\ 1 <= j /\ j <= readable /\ readable <= N
      BY <1>1, <1>3, RingAssumption
    <3>2. QED
      BY <1>1, <3>1, RingAssumption
  <2>3. k % N = IF w + (j - 1) < N THEN w + (j - 1) ELSE w + (j - 1) - N
    BY <1>1, <2>2, ModStep
  <2>4. m_data[k % N] = stream[k + 1]
    BY <2>2 DEF RingInv, UnreadIntact
  <2>5. /\ read_front.start = w
        /\ read_front.count = IF readable > N - w THEN N - w ELSE readable
        /\ read_back.start = 0
    BY DEF read_front, read_back, FrontSpan, BackSpan, clamp
  <2>6. Readable[j] = IF j <= read_front.count
                      THEN m_data[read_front.start + j - 1]
                      ELSE m_data[read_back.start + j - read_front.count - 1]
    BY <1>3 DEF Readable
  <2>7. k + 1 = m_read + j
    BY <1>1, <1>3
  <2> HIDE DEF w, k
  <2>8. Readable[j] = m_data[k % N]
    <3>1. CASE w + (j - 1) < N
      BY <1>1, <1>3, <2>1, <2>3, <2>5, <2>6, <3>1, RingAssumption
    <3>2. CASE ~(w + (j - 1) < N)
      <4>1. /\ j > N - w
            /\ readable > N - w
        BY <1>1, <1>3, <2>1, <3>2, RingAssumption
      <4>2. read_front.count = N - w /\ ~(j <= read_front.count)
        BY <1>1, <1>3, <2>1, <2>5, <4>1, RingAssumption
      <4>3. read_back.start + j - read_front.count - 1 = w + (j - 1) - N
        BY <1>1, <1>3, <2>1, <2>5, <4>2, RingAssumption
      <4>4. QED
        BY <2>3, <2>6, <3>2, <4>2, <4>3
    <3>3. QED
      BY <3>1, <3>2
  <2>9. QED
    BY <2>4, <2>7, <2>8
<1>4. QED
  <2>1. Readable = [j \in 1..readable |-> Readable[j]]
    BY DEF Readable
  <2> HIDE DEF Unread
  <2>2. Readable = Unread
    BY <1>2, <1>3, <2>1
  <2>3. QED
    BY <2>2 DEF ReadSpansExact, Unread

\* The ring's types hold in every reachable state.
THEOREM RingTypeSafe == RingSpec => []RingTypeOK
<1>1. RingInv => RingTypeOK
  BY DEF RingInv
<1>2. QED
  BY <1>1, RingInvariant, PTL

\* For every capacity and every stream, no unread byte is overwritten, lost or
\* made up, although the producer writes into spans it took earlier.
THEOREM RingSafe == RingSpec => [](CountersAgree /\ UnreadIntact /\ SpansAreFree)
<1>1. RingInv => CountersAgree /\ UnreadIntact /\ SpansAreFree
  BY InvSpansAreFree DEF RingInv
<1>2. QED
  BY <1>1, RingInvariant, PTL

\* The two read spans always show exactly the unread bytes, in order.
THEOREM RingReadSpansExact == RingSpec => []ReadSpansExact
BY InvReadSpansExact, RingInvariant, PTL

-----------------------------------------------------------------------------
\* What follows the first r elements of a concatenation.
LEMMA TailOfConcat ==
    ASSUME NEW S, NEW s \in Seq(S), NEW t \in Seq(S), NEW r \in Nat, r <= Len(s)
    PROVE  SubSeq(s \o t, r + 1, Len(s) + Len(t)) = SubSeq(s, r + 1, Len(s)) \o t
<1> DEFINE lhs == SubSeq(s \o t, r + 1, Len(s) + Len(t))
           kept == SubSeq(s, r + 1, Len(s))
<1>1. /\ s \o t \in Seq(S) /\ Len(s \o t) = Len(s) + Len(t)
      /\ \A i \in 1..Len(s) + Len(t) :
            (s \o t)[i] = IF i <= Len(s) THEN s[i] ELSE t[i - Len(s)]
  BY ConcatProperties
<1>2. lhs = [i \in 1..Len(s) + Len(t) - r |-> (s \o t)[r + i]]
  BY <1>1
<1>3. kept = [i \in 1..Len(s) - r |-> s[r + i]]
  OBVIOUS
<1>4. kept \in Seq(S) /\ Len(kept) = Len(s) - r
  BY <1>3
<1> HIDE DEF lhs, kept
<1>5. /\ kept \o t \in Seq(S)
      /\ Len(kept \o t) = Len(kept) + Len(t)
      /\ \A i \in 1..Len(kept) + Len(t) :
            (kept \o t)[i] = IF i <= Len(kept) THEN kept[i]
                                                   ELSE t[i - Len(kept)]
  BY <1>4, ConcatProperties
<1>6. lhs \in Seq(S) /\ Len(lhs) = Len(s) - r + Len(t)
  <2>1. Len(s) + Len(t) - r \in Nat
    OBVIOUS
  <2>2. ASSUME NEW i \in 1..Len(s) + Len(t) - r
        PROVE  (s \o t)[r + i] \in S
    <3>1. r + i \in 1..Len(s \o t)
      BY <1>1
    <3>2. QED
      BY <1>1, <3>1, ElementOfSeq
  <2>3. lhs \in Seq(S)
    BY <1>2, <2>1, <2>2
  <2>4. QED
    BY <1>2, <2>1, <2>3, LenProperties
<1>7. ASSUME NEW i \in 1..Len(lhs)
      PROVE  lhs[i] = (kept \o t)[i]
  BY <1>1, <1>2, <1>3, <1>4, <1>5, <1>6
<1>8. QED
  BY <1>4, <1>5, <1>6, <1>7, SeqEqual DEF lhs, kept

\* Under the invariant every step of the ring is a step of the queue, or
\* leaves the queue unchanged.
LEMMA RingStepRefines ==
    RingInv /\ RingInv' /\ [RingNext]_ringVars => [Queue!Next]_Readable
<1> SUFFICES ASSUME RingInv, RingInv', [RingNext]_ringVars
             PROVE  Queue!Next \/ Readable' = Readable
  OBVIOUS
<1>1. /\ Readable = SubSeq(stream, m_read + 1, m_written)
      /\ Readable' = SubSeq(stream', m_read' + 1, m_written')
  <2>1. ReadSpansExact
    BY InvReadSpansExact
  <2>2. ReadSpansExact'
    BY InvReadSpansExact, PTL
  <2>3. QED
    BY <2>1, <2>2 DEF ReadSpansExact
<1>2. /\ m_read \in Nat /\ m_written \in Nat
      /\ stream \in Seq(Byte)
      /\ m_written = Len(stream)
      /\ m_written - m_read \in 0..N
      /\ m_written' - m_read' \in 0..N
  BY DEF RingInv, RingTypeOK, CountersAgree, readable
<1>3. CASE TakeSpans
  BY <1>1, <1>3 DEF TakeSpans
<1>4. CASE DropSpans
  BY <1>1, <1>4 DEF DropSpans
<1>5. ASSUME NEW n \in 0..N, NEW bytes \in [1..n -> Byte], Fill(bytes)
      PROVE  Queue!Next
  <2>1. /\ bytes \in Seq(Byte) /\ Len(bytes) = n
        /\ m_read' = m_read /\ m_written' = m_written + n
        /\ stream' = stream \o bytes
    BY <1>5, RingAssumption DEF Fill, mark_write
  <2>2. Len(Readable) = m_written - m_read
    BY <1>1, <1>2
  <2>3. Readable' = Readable \o bytes
    <3>1. m_read <= Len(stream) /\ m_written + n = Len(stream) + Len(bytes)
      BY <1>2, <2>1
    <3>2. QED
      BY <1>1, <1>2, <2>1, <3>1, TailOfConcat
  <2>4. Len(Readable) + Len(bytes) <= N
    BY <1>2, <2>1, <2>2, RingAssumption
  <2>5. QED
    BY <1>5, <2>3, <2>4 DEF Queue!Next, Queue!Put
<1>6. ASSUME NEW n \in 1..N, erase(n)
      PROVE  Queue!Next
  <2>1. /\ m_read' = m_read + n /\ n <= m_written - m_read
        /\ UNCHANGED <<m_written, stream>>
    BY <1>6 DEF erase, readable
  <2>2. Len(Readable) = m_written - m_read
    BY <1>1, <1>2
  <2>3. Readable' = SubSeq(Readable, n + 1, Len(Readable))
    BY <1>1, <1>2, <2>1, <2>2
  <2>4. n \in 0..N /\ n <= Len(Readable)
    BY <2>1, <2>2, RingAssumption
  <2>5. QED
    BY <2>3, <2>4 DEF Queue!Next, Queue!Get
<1>7. CASE UNCHANGED ringVars
  BY <1>1, <1>7 DEF ringVars
<1>8. QED
  BY <1>3, <1>4, <1>5, <1>6, <1>7 DEF RingNext

\* The ring buffer implements the first-in first-out queue.
THEOREM RingImplementsQueue == RingSpec => ImplementsQueue
<1>1. RingInit => Queue!Init
  <2> SUFFICES ASSUME RingInit PROVE Readable = <<>>
    BY DEF Queue!Init
  <2>1. readable = 0
    BY DEF RingInit, readable
  <2>2. QED
    BY <2>1 DEF Readable
<1>2. QED
  BY <1>1, RingInvariant, RingStepRefines, PTL
  DEF RingSpec, ImplementsQueue, Queue!Spec

-----------------------------------------------------------------------------
(* The receiver.                                                           *)

\* The coroutine waits, and what it waits for can come or the connection is over.
Waiting ==
    /\ pc \in {"length", "body"}
    /\ m_resume = IF pc = "length" THEN "read_byte" ELSE "recv_until"
    /\ IF ReadOutstanding THEN Room >= 1 ELSE peer # "open"

\* Nobody waits and nothing is posted.
Quiet == m_resume = NoHandle /\ ~ReadOutstanding

\* Who runs, and what that says of the coroutine.
ControlInv ==
    /\ pc = "done" <=> exception # "none"
    /\ pc = "body" => packet_length \in 1..MaxLength
    /\ pc \in {"id", "handler"} => remaining <= readable
    /\ connection = "none" => control = "app" /\ pc = "start" /\ Quiet
    /\ connection \in {"none", "connecting"} => readable = 0 /\ packets = <<>>
    /\ connection = "connecting" => control # "app" /\ pc = "length"
    /\ control = "receiver" => pc \in {"length", "body", "id", "handler"} /\ Quiet
    /\ control = "caller" => pc = "done" \/ Waiting
    /\ control = "app" /\ connection = "connected" /\ process = "running" => Waiting
    /\ control = "app" /\ pc = "done" => process = "terminated"

\* The bytes read and on their way are no more than the peer sends.
WireBounded == Len(stream) + Len(wire) <= MaxStream

ReceiverInv == RingInv /\ ControlTypeOK /\ WireBounded /\ ControlInv

-----------------------------------------------------------------------------
\* Erasing at most what is readable is a step of the ring, or none.
LEMMA EraseIsRingStep ==
    ASSUME RingTypeOK, CountersAgree, NEW n \in Nat, erase(n)
    PROVE  [RingNext]_ringVars
<1>1. CASE n = 0
  BY <1>1 DEF erase, RingTypeOK, ringVars
<1>2. CASE n # 0
  <2>1. n \in 1..N
    BY <1>2, RingAssumption DEF erase, CountersAgree
  <2>2. QED
    BY <2>1 DEF RingNext
<1>3. QED
  BY <1>1, <1>2

\* A completed read fills the ring with bytes of the wire.
LEMMA ReadIsRingStep ==
    ASSUME ControlTypeOK, WireBounded, NEW n \in 0..N, read_complete(n)
    PROVE  RingNext
<1> DEFINE bytes == SubSeq(wire, 1, n)
<1>1. wire \in Seq(Byte) /\ stream \in Seq(Byte) /\ n <= Len(wire) /\ n \in Nat
  BY RingAssumption DEF ControlTypeOK, TcpTypeOK, RingTypeOK, read_complete
<1>2. bytes \in [1..n -> Byte]
  <2>1. bytes = [i \in 1..n |-> wire[i]]
    BY <1>1
  <2>2. \A i \in 1..n : wire[i] \in Byte
    BY <1>1, ElementOfSeq
  <2>3. QED
    BY <2>1, <2>2
<1>3. Len(stream) + n <= MaxStream
  BY <1>1, RingAssumption DEF WireBounded
<1>4. Fill(bytes)
  BY DEF read_complete
<1>5. QED
  BY <1>2, <1>3, <1>4 DEF RingNext

\* Every step of a connection is a step of the ring, or leaves it alone.
LEMMA StepIsRingStep ==
    ASSUME RingInv, ControlTypeOK, WireBounded, [Next]_vars
    PROVE  [RingNext]_ringVars
<1>1. RingTypeOK /\ CountersAgree
  BY DEF RingInv
<1>2. CASE AwaitByte \/ AwaitPacket
  BY <1>2 DEF AwaitByte, AwaitPacket, Await, resume_on_readable, RingNext
<1>3. CASE ReadLength \/ ReadId
  <2>1. erase(1)
    BY <1>3 DEF ReadLength, ReadId, pop_front
  <2>2. QED
    BY <1>1, <2>1, EraseIsRingStep
<1>4. ASSUME NEW n \in 0..MaxLength, HandlePacket(n)
      PROVE  [RingNext]_ringVars
  <2>1. erase(n) /\ n \in Nat
    BY <1>4, RingAssumption, ReceiverAssumption DEF HandlePacket, pop_front
  <2>2. QED
    BY <1>1, <2>1, EraseIsRingStep
<1>5. CASE ReadComplete
  BY <1>5, ReadIsRingStep DEF ReadComplete
<1>6. CASE ReadFailed
  BY <1>6 DEF ReadFailed, read_eof, read_error, RingNext
<1>7. CASE StartPacket \/ IdPastEnd
  BY <1>7 DEF StartPacket, IdPastEnd
<1>8. CASE on_tcp_connect \/ connect_failed \/ on_connect \/ on_readable
  BY <1>8 DEF on_tcp_connect, connect_failed, on_connect, on_readable
<1>9. CASE Peer
  BY <1>9 DEF Peer, PeerSend, PeerCloses
<1>10. CASE UNCHANGED vars
  BY <1>10 DEF vars
<1>11. QED
  BY <1>2, <1>3, <1>4, <1>5, <1>6, <1>7, <1>8, <1>9, <1>10 DEF Next, Coroutine, App
-----------------------------------------------------------------------------
\* Initially everything is quiet.
LEMMA ReceiverInitInv == ReceiverInit => ReceiverInv
<1> SUFFICES ASSUME ReceiverInit PROVE ReceiverInv
  OBVIOUS
<1>1. RingInv
  BY RingInitInv DEF ReceiverInit, TcpInit
<1>2. ControlTypeOK
  BY <1>1, ReceiverAssumption, RingAssumption
  DEF RingInv, ReceiverInit, TcpInit, ControlTypeOK, TcpTypeOK, ReadStart
<1>3. WireBounded
  BY RingAssumption DEF ReceiverInit, TcpInit, RingInit, WireBounded
<1>4. ControlInv
  BY DEF ReceiverInit, TcpInit, RingInit, ControlInv, Quiet, ReadOutstanding, NoSpans, readable
<1>5. QED
  BY <1>1, <1>2, <1>3, <1>4 DEF ReceiverInv

\* A step keeps the types and the bound on what is sent.
LEMMA StepTypes ==
    ASSUME RingInv, RingInv', ControlTypeOK, WireBounded, ControlInv, [Next]_vars
    PROVE  ControlTypeOK' /\ WireBounded'
<1>1. /\ wire \in Seq(Byte) /\ stream \in Seq(Byte)
      /\ m_resume \in Handle \cup {NoHandle} /\ peer \in {"open", "closed", "reset"}
      /\ MaxStream \in Nat /\ N \in Nat
      /\ MaxLength \in Nat /\ packet_length \in 0..MaxLength
      /\ remaining \in 0..MaxLength
  BY RingAssumption, ReceiverAssumption DEF ControlTypeOK, TcpTypeOK, RingTypeOK
<1>2. RingTypeOK'
  BY DEF RingInv
<1>3. \A byte \in Byte : ReadRound(varint, byte).status \in {"reading", "done", "invalid"}
  BY DEF ReadRound
<1>4. ReadStart.status \in {"reading", "done", "invalid"}
  BY DEF ReadStart
<1>5. CASE AwaitByte \/ AwaitPacket
  BY <1>1, <1>2, <1>5
  DEF AwaitByte, AwaitPacket, Await, resume_on_readable, TakeSpans, receiverVars, appVars,
      ControlTypeOK, TcpTypeOK, WireBounded, Handle, Running
<1>6. CASE ReadLength
  <2>1. varint'.status \in {"reading", "done", "invalid"}
    BY <1>6 DEF ReadLength, ReadRound
  <2>2. packet_length' \in 0..MaxLength
    BY <1>1, <1>6 DEF ReadLength, LengthOK, Throw, appVars
  <2>3. QED
    BY <1>1, <1>2, <1>6, <2>1, <2>2
    DEF ReadLength, Throw, pop_front, erase, tcpVars, appVars, ControlTypeOK, TcpTypeOK,
        WireBounded
<1>7. CASE ReadId
  <2>1. varint'.status \in {"reading", "done", "invalid"}
    BY <1>7 DEF ReadId, ReadRound
  <2>2. remaining' \in 0..MaxLength
    BY <1>1, <1>7 DEF ReadId
  <2>3. QED
    BY <1>1, <1>2, <1>7, <2>1, <2>2
    DEF ReadId, Throw, pop_front, erase, tcpVars, appVars, ControlTypeOK, TcpTypeOK,
        WireBounded
<1>8. ASSUME NEW n \in 0..MaxLength, HandlePacket(n)
      PROVE  ControlTypeOK' /\ WireBounded'
  <2>1. remaining' \in 0..MaxLength
    BY <1>1, <1>8 DEF HandlePacket
  <2>2. varint'.status \in {"reading", "done", "invalid"}
    BY <1>4, <1>8 DEF HandlePacket, ControlTypeOK
  <2>3. QED
    BY <1>1, <1>2, <1>8, <2>1, <2>2
    DEF HandlePacket, Throw, pop_front, erase, tcpVars, appVars, ControlTypeOK, TcpTypeOK,
        WireBounded
<1>9. ASSUME NEW n \in 0..N, read_complete(n), control' = "receiver",
             UNCHANGED <<receiverVars, appVars, packets>>
      PROVE  ControlTypeOK' /\ WireBounded'
  <2>1. n \in Nat /\ n <= Len(wire)
    BY <1>1, <1>9 DEF read_complete
  <2>2. /\ stream' = stream \o SubSeq(wire, 1, n)
        /\ wire' = SubSeq(wire, n + 1, Len(wire))
    BY <1>9 DEF read_complete, Fill
  <2>3. Len(stream') + Len(wire') = Len(stream) + Len(wire)
    <3>1. SubSeq(wire, 1, n) \in Seq(Byte) /\ Len(SubSeq(wire, 1, n)) = n
      BY <1>1, <2>1
    <3>2. Len(wire') = Len(wire) - n
      BY <1>1, <2>1, <2>2
    <3>3. Len(stream') = Len(stream) + n
      BY <1>1, <2>2, <3>1
    <3>4. QED
      BY <1>1, <2>1, <3>2, <3>3
  <2>4. wire' \in Seq(Byte)
    BY <1>1, <2>1, <2>2
  <2>5. QED
    BY <1>1, <1>2, <1>9, <2>3, <2>4
    DEF read_complete, receiverVars, appVars, ControlTypeOK, TcpTypeOK, WireBounded
<1>10. CASE ReadComplete
  BY <1>9, <1>10 DEF ReadComplete
<1>11. CASE ReadFailed
  BY <1>1, <1>2, <1>11
  DEF ReadFailed, read_eof, read_error, DropSpans, tcpVars, receiverVars, appVars,
      ControlTypeOK, TcpTypeOK, WireBounded
<1>12. CASE StartPacket
  BY <1>1, <1>2, <1>4, <1>12
  DEF StartPacket, ringVars, tcpVars, appVars, ControlTypeOK, TcpTypeOK, WireBounded
<1>13. CASE IdPastEnd \/ on_tcp_connect \/ connect_failed \/ on_connect \/ on_readable
  BY <1>1, <1>2, <1>13
  DEF IdPastEnd, on_tcp_connect, connect_failed, on_connect, on_readable, ringVars,
      tcpVars, receiverVars, ControlTypeOK, TcpTypeOK, WireBounded
<1>14. ASSUME NEW byte \in Byte, PeerSend(byte),
              UNCHANGED <<receiverVars, appVars, control, packets>>
       PROVE  ControlTypeOK' /\ WireBounded'
  BY <1>1, <1>2, <1>14
  DEF PeerSend, ringVars, receiverVars, appVars, ControlTypeOK, TcpTypeOK, WireBounded
<1>15. CASE Peer
  <2>1. CASE PeerCloses
    BY <1>1, <1>2, <1>15, <2>1
    DEF Peer, PeerCloses, ringVars, receiverVars, appVars, ControlTypeOK, TcpTypeOK,
        WireBounded
  <2>2. QED
    BY <1>14, <1>15, <2>1 DEF Peer
<1>16. CASE UNCHANGED vars
  BY <1>1, <1>2, <1>16
  DEF vars, ringVars, tcpVars, receiverVars, appVars, ControlTypeOK, TcpTypeOK, WireBounded
<1>17. QED
  BY <1>5, <1>6, <1>7, <1>8, <1>10, <1>11, <1>12, <1>13, <1>15, <1>16
  DEF Next, Coroutine, App
-----------------------------------------------------------------------------
\* The invariant of the control flow, one action at a time.

LEMMA AwaitControl ==
    ASSUME ReceiverInv, AwaitByte \/ AwaitPacket
    PROVE  ControlInv'
<1>1. /\ readable \in 0..N /\ N \in Nat \ {0}
      /\ packet_length \in 0..MaxLength /\ MaxLength \in 1..N
      /\ RingTypeOK /\ CountersAgree
  BY RingAssumption, ReceiverAssumption
  DEF ReceiverInv, RingInv, CountersAgree, ControlTypeOK
<1>2. /\ TakeSpans /\ control' = "caller"
      /\ UNCHANGED <<pc, packet_length, remaining, exception, connection, process, packets, peer>>
      /\ m_resume' = IF pc = "length" THEN "read_byte" ELSE "recv_until"
      /\ pc \in {"length", "body"}
      /\ readable < N
  BY <1>1 DEF AwaitByte, AwaitPacket, Await, resume_on_readable, Running, receiverVars, appVars
<1>3. Room' = N - readable /\ Room' >= 1
  BY <1>1, <1>2, TakeSpansRoom
<1>4. spans'.handed /\ readable' = readable
  BY <1>2 DEF TakeSpans, readable
<1>5. Waiting'
  BY <1>2, <1>3, <1>4 DEF Waiting, ReadOutstanding
<1>6. QED
  BY <1>2, <1>4, <1>5 DEF ReceiverInv, ControlInv

LEMMA ReadLengthControl ==
    ASSUME ReceiverInv, ReadLength
    PROVE  ControlInv'
<1>1. /\ UNCHANGED <<spans, m_resume, connection, packets, process>>
      /\ control = "receiver" /\ pc = "length" /\ readable >= 1
  BY DEF ReadLength, pop_front, erase, tcpVars, appVars, Running, Throw
<1>2. \/ pc' = "length" /\ UNCHANGED <<packet_length, exception, control>>
      \/ pc' = "body" /\ packet_length' \in 1..MaxLength /\ UNCHANGED <<exception, control>>
      \/ pc' = "done" /\ exception' = "decode_error" /\ control' = "caller"
  BY <1>1 DEF ReadLength, LengthOK, Throw
<1>3. connection = "connected"
  BY <1>1 DEF ReceiverInv, ControlInv, ControlTypeOK
<1>4. QED
  BY <1>1, <1>2, <1>3 DEF ReceiverInv, ControlInv, ControlTypeOK, Quiet, ReadOutstanding

LEMMA StartPacketControl ==
    ASSUME ReceiverInv, StartPacket
    PROVE  ControlInv'
BY DEF StartPacket, Running, ReceiverInv, ControlInv, Quiet, ReadOutstanding, ringVars,
       tcpVars, appVars, readable

LEMMA ReadIdControl ==
    ASSUME ReceiverInv, ReadId
    PROVE  ControlInv'
<1>1. /\ UNCHANGED <<spans, m_resume, connection, process>>
      /\ control = "receiver" /\ pc = "id" /\ remaining' = remaining - 1
      /\ m_read' = m_read + 1 /\ m_written' = m_written
  BY DEF ReadId, pop_front, erase, tcpVars, appVars, Running, Throw
<1>2. \/ pc' = "id" /\ UNCHANGED <<exception, control>>
      \/ pc' = "handler" /\ UNCHANGED <<exception, control>>
      \/ pc' = "done" /\ exception' = "decode_error" /\ control' = "caller"
  BY <1>1 DEF ReadId, Throw
<1>3. connection = "connected"
  BY <1>1 DEF ReceiverInv, ControlInv, ControlTypeOK
<1>4. remaining' <= readable'
  <2>1. m_read \in Nat /\ m_written \in Nat /\ remaining \in Int
    BY ReceiverAssumption, RingAssumption DEF ReceiverInv, RingInv, RingTypeOK, ControlTypeOK
  <2>2. remaining <= readable
    BY <1>1 DEF ReceiverInv, ControlInv
  <2>3. QED
    BY <1>1, <2>1, <2>2 DEF readable
<1>5. QED
  BY <1>1, <1>2, <1>3, <1>4 DEF ReceiverInv, ControlInv, Quiet, ReadOutstanding

LEMMA HandlePacketControl ==
    ASSUME ReceiverInv, NEW n \in 0..MaxLength, HandlePacket(n)
    PROVE  ControlInv'
<1>1. /\ UNCHANGED <<spans, m_resume, connection, packets>>
      /\ control = "receiver" /\ pc = "handler" /\ remaining' = remaining - n
      /\ m_read' = m_read + n /\ m_written' = m_written
  BY DEF HandlePacket, pop_front, erase, tcpVars, appVars, Running, Throw
<1>2. \/ pc' = "length" /\ UNCHANGED <<exception, control>>
      \/ pc' = "done" /\ exception' \in {"decode_error", "handler_error"} /\ control' = "caller"
      \/ pc' = "handler" /\ UNCHANGED <<exception, control>>
  BY <1>1 DEF HandlePacket, Throw
<1>3. connection = "connected"
  BY <1>1 DEF ReceiverInv, ControlInv, ControlTypeOK
<1>4. remaining' <= readable'
  <2>1. m_read \in Nat /\ m_written \in Nat /\ remaining \in Int /\ n \in Int
    BY ReceiverAssumption, RingAssumption DEF ReceiverInv, RingInv, RingTypeOK, ControlTypeOK
  <2>2. remaining <= readable
    BY <1>1 DEF ReceiverInv, ControlInv
  <2>3. QED
    BY <1>1, <2>1, <2>2 DEF readable
<1>5. QED
  BY <1>1, <1>2, <1>3, <1>4 DEF ReceiverInv, ControlInv, Quiet, ReadOutstanding

LEMMA ReadCompleteControl ==
    ASSUME ReceiverInv, ReadComplete
    PROVE  ControlInv'
<1>1. /\ Waiting /\ connection = "connected"
      /\ control' = "receiver" /\ m_resume' = NoHandle /\ ~spans'.handed
      /\ UNCHANGED <<pc, packet_length, exception, connection, process>>
  BY DEF ReadComplete, read_complete, Fill, NoSpans, ReceiverInv, ControlInv, receiverVars,
         appVars
<1>2. QED
  BY <1>1 DEF ReceiverInv, ControlInv, Waiting, Quiet, ReadOutstanding

LEMMA ReadFailedControl ==
    ASSUME ReceiverInv, ReadFailed
    PROVE  ControlInv'
<1>1. /\ Waiting /\ connection = "connected" /\ control = "app" /\ process = "running"
      /\ peer # "open" /\ ~spans'.handed
      /\ UNCHANGED <<pc, packet_length, exception, connection, process, control, peer, m_resume>>
  BY DEF ReadFailed, read_eof, read_error, DropSpans, NoSpans, ReceiverInv, ControlInv,
         receiverVars, appVars, tcpVars
<1>2. QED
  BY <1>1 DEF ReceiverInv, ControlInv, Waiting, ReadOutstanding

LEMMA ConnectControl ==
    ASSUME ReceiverInv,
           on_tcp_connect \/ connect_failed \/ on_connect \/ on_readable \/ IdPastEnd
    PROVE  ControlInv'
<1>1. CASE on_tcp_connect
  BY <1>1 DEF on_tcp_connect, ReceiverInv, ControlInv, Quiet, ReadOutstanding, ringVars,
              tcpVars, readable
<1>2. CASE connect_failed
  BY <1>2 DEF connect_failed, ReceiverInv, ControlInv, Waiting, Quiet, ReadOutstanding, Room,
              ringVars, tcpVars, receiverVars, readable
<1>3. CASE on_connect
  BY <1>3 DEF on_connect, ReceiverInv, ControlInv, Waiting, Quiet, ReadOutstanding, Room,
              ringVars, tcpVars, receiverVars, readable
<1>4. CASE on_readable
  BY <1>4 DEF on_readable, ReceiverInv, ControlInv, Waiting, Quiet, ReadOutstanding, Room,
              ringVars, tcpVars, receiverVars, readable
<1>5. CASE IdPastEnd
  BY <1>5 DEF IdPastEnd, Running, ReceiverInv, ControlInv, Waiting, Quiet, ReadOutstanding,
              Room, ringVars, tcpVars, receiverVars, readable
<1>6. QED
  BY <1>1, <1>2, <1>3, <1>4, <1>5

LEMMA PeerControl ==
    ASSUME ReceiverInv, Peer
    PROVE  ControlInv'
<1>1. /\ UNCHANGED <<ringVars, m_resume, receiverVars, appVars, control, packets>>
      /\ peer # "open" => peer' # "open"
  BY DEF Peer, PeerSend, PeerCloses
<1>2. Waiting => Waiting'
  BY <1>1 DEF Waiting, ReadOutstanding, Room, ringVars, receiverVars
<1>3. QED
  BY <1>1, <1>2 DEF ReceiverInv, ControlInv, Quiet, ReadOutstanding, ringVars, receiverVars,
                    appVars, readable

\* Every step preserves the whole invariant.
LEMMA ReceiverNextInv == ReceiverInv /\ [Next]_vars => ReceiverInv'
<1> SUFFICES ASSUME ReceiverInv, [Next]_vars PROVE ReceiverInv'
  OBVIOUS
<1>1. RingInv'
  BY StepIsRingStep, RingNextInv DEF ReceiverInv
<1>2. ControlTypeOK' /\ WireBounded'
  BY <1>1, StepTypes DEF ReceiverInv
<1>3. ControlInv'
  <2>1. ASSUME NEW n \in 0..MaxLength, HandlePacket(n)
        PROVE  ControlInv'
    BY <2>1, HandlePacketControl
  <2>2. CASE UNCHANGED vars
    BY <2>2 DEF ReceiverInv, ControlInv, Waiting, Quiet, ReadOutstanding, Room, vars, ringVars,
                tcpVars, receiverVars, appVars, readable
  <2>3. QED
    BY <2>1, <2>2, AwaitControl, ReadLengthControl, StartPacketControl, ReadIdControl,
       ReadCompleteControl, ReadFailedControl, ConnectControl, PeerControl
    DEF Next, Coroutine, App
<1>4. QED
  BY <1>1, <1>2, <1>3 DEF ReceiverInv

LEMMA ReceiverInvariant == Spec => []ReceiverInv
BY ReceiverInitInv, ReceiverNextInv, PTL DEF Spec

-----------------------------------------------------------------------------
\* The read buffer of a connection is a ring buffer: all that is proved of
\* RingBuffer, and so of the first-in first-out queue, holds of it.
THEOREM ReceiverUsesRing == Spec => UsesRing
<1>1. ReceiverInit => RingInit
  BY DEF ReceiverInit, TcpInit
<1>2. ReceiverInv /\ [Next]_vars => [RingNext]_ringVars
  BY StepIsRingStep DEF ReceiverInv
<1>3. QED
  BY <1>1, <1>2, ReceiverInvariant, PTL DEF Spec, UsesRing, RingSpec

\* For every buffer and every packet length, between two frames one read is
\* outstanding and has room, unless the end of the connection has been logged.
THEOREM ReceiverOneRead == Spec => []OneReadOutstanding
<1>1. ReceiverInv => OneReadOutstanding
  BY DEF ReceiverInv, ControlInv, Waiting, OneReadOutstanding
<1>2. QED
  BY <1>1, ReceiverInvariant, PTL

\* No assertion of the read buffer can fail, whatever the peer sends.
THEOREM ReceiverAssertionsHold == Spec => []AssertionsHold
<1>1. ReceiverInv => AssertionsHold
  <2> SUFFICES ASSUME ReceiverInv, process = "running", control = "receiver"
               PROVE  /\ m_resume = NoHandle
                      /\ ~ReadOutstanding
                      /\ pc \in {"id", "handler"} => remaining <= readable
                      /\ pc = "body" => packet_length <= N
                      /\ pc = "body" /\ readable < packet_length => writable >= 1
    BY DEF AssertionsHold
  <2>1. pc = "body" /\ readable < packet_length => writable >= 1
    BY RingAssumption, ReceiverAssumption
    DEF ReceiverInv, RingInv, CountersAgree, ControlTypeOK, writable
  <2>2. pc = "body" => packet_length <= N
    BY RingAssumption, ReceiverAssumption DEF ReceiverInv, ControlTypeOK
  <2>3. QED
    BY <2>1, <2>2 DEF ReceiverInv, ControlInv, Quiet
<1>2. QED
  BY <1>1, ReceiverInvariant, PTL

\* What ends the coroutine ends the process, and nothing is handed on before
\* connect has returned.
THEOREM ReceiverFailureSurfaces == Spec => [](FailureSurfaces /\ ConnectFirst)
<1>1. ReceiverInv => FailureSurfaces /\ ConnectFirst
  BY DEF ReceiverInv, ControlInv, ControlTypeOK, FailureSurfaces, ConnectFirst
<1>2. QED
  BY <1>1, ReceiverInvariant, PTL

-----------------------------------------------------------------------------
(* The packets.  The bytes taken from the stream end where a packet begins, *)
(* within its length, before its id, within its id, or in the handler.      *)

\* The bytes m+1..n of the stream.
Part(m, n) == SubSeq(stream, m + 1, n)

\* The packets handed on are those of the first b bytes; the bytes from there
\* to m are the next packet's length.
Headed(b, m) ==
    /\ b \in 0..m /\ m \in 0..m_read
    /\ Carries(Part(0, b), packets)
    /\ Read(Part(b, m)).status = "done" /\ Read(Part(b, m)).count = m - b
    /\ packet_length = ToSigned(Read(Part(b, m)).value)
    /\ packet_length \in 1..MaxLength

InLength(b) ==
    /\ b \in 0..m_read
    /\ Carries(Part(0, b), packets)
    /\ varint = Read(Part(b, m_read)) /\ varint.status = "reading"

InId(b, m) ==
    /\ Headed(b, m)
    /\ remaining = packet_length - (m_read - m)
    /\ varint = Read(Part(m, m_read)) /\ varint.status = "reading"

PacketsInv ==
    /\ packets \in Seq(PacketType)
    /\ pc \in {"start", "length"} => \E b : InLength(b)
    /\ pc = "body" => \E b : Headed(b, m_read)
    /\ pc = "id" => \E b, m : InId(b, m)
    /\ pc = "handler" => Carries(Part(0, m_read + remaining), packets)

\* While the coroutine does not run, what it waits for has not all arrived.
WaitInv ==
    control # "receiver" =>
        /\ pc = "length" => readable = 0
        /\ pc = "body" => readable < packet_length

-----------------------------------------------------------------------------
\* Cutting a sequence into pieces.
LEMMA PieceType ==
    ASSUME NEW M, NEW s \in Seq(M), NEW n \in 0..Len(s), NEW k \in 0..n
    PROVE  SubSeq(s, k + 1, n) \in Seq(M) /\ Len(SubSeq(s, k + 1, n)) = n - k
<1>1. \A i \in 1..Len(s) : s[i] \in M
  BY ElementOfSeq
<1> QED BY <1>1

LEMMA PiecesJoin ==
    ASSUME NEW M, NEW s \in Seq(M), NEW n \in 0..Len(s), NEW m \in 0..n, NEW k \in 0..m
    PROVE  SubSeq(s, k + 1, m) \o SubSeq(s, m + 1, n) = SubSeq(s, k + 1, n)
<1>1. \A i \in 1..Len(s) : s[i] \in M
  BY ElementOfSeq
<1> QED BY <1>1

LEMMA PieceGrows ==
    ASSUME NEW M, NEW s \in Seq(M), NEW m \in 0..Len(s)-1, NEW k \in 0..m
    PROVE  SubSeq(s, k + 1, m + 1) = Append(SubSeq(s, k + 1, m), s[m + 1])
<1>1. \A i \in 1..Len(s) : s[i] \in M
  BY ElementOfSeq
<1> QED BY <1>1

\* A length, an id and a payload of this length are a packet.
IsFrameOf(s, head, id, payload) ==
    Frame(s) = [size |-> Len(head) + (Len(id) + Len(payload)),
                packet |-> [id |-> ToSigned(Read(id).value), payload |-> payload]]

LEMMA FrameOfParts ==
    ASSUME NEW head \in Seq(VarintByte), NEW id \in Seq(VarintByte), NEW payload \in Seq(VarintByte),
           Read(head).status = "done", Read(head).count = Len(head),
           Read(id).status = "done", Read(id).count = Len(id),
           ToSigned(Read(head).value) = Len(id) + Len(payload), ToSigned(Read(head).value) \in 1..MaxLength
    PROVE  IsFrameOf(head \o (id \o payload), head, id, payload)
<1> DEFINE body == id \o payload
           s == head \o body
           length == ToSigned(Read(head).value)
<1>1. body \in Seq(VarintByte) /\ Len(body) = length /\ s \in Seq(VarintByte)
      /\ Len(s) = Len(head) + length /\ Len(head) \in Nat /\ length \in 1..MaxLength /\ Len(id) \in Nat
  OBVIOUS
<1>2. SubSeq(s, Len(head) + 1, Len(head) + length) = body
  <2> HIDE DEF length
  <2>1. body \in Seq(VarintByte) /\ Len(body) = length
    BY <1>1
  <2> HIDE DEF body
  <2>2. SubSeq(head \o body, Len(head) + 1, Len(head) + Len(body)) = body
    BY <2>1
  <2> QED BY <2>1, <2>2, Zenon DEF s
<1>3. SubSeq(body, Len(id) + 1, length) = payload
  <2>1. SubSeq(id \o payload, Len(id) + 1, Len(id \o payload)) = payload
    OBVIOUS
  <2> HIDE DEF length
  <2> QED BY <1>1, <2>1
<1>4. Read(s) = Read(head) /\ Read(body) = Read(id)
  <2>1. Read(body) = Read(id)
    BY ReadConcat
  <2> HIDE DEF body
  <2> QED BY <1>1, <2>1, ReadConcat
<1> HIDE DEF s, body
<1>5. Read(s).status = "done" /\ Read(s).count = Len(head) /\ ToSigned(Read(s).value) = length
      /\ Read(body).status = "done" /\ Read(body).count = Len(id)
  BY <1>4
<1>6. Frame(s) = [size |-> Len(head) + length,
                  packet |-> [id |-> ToSigned(Read(body).value), payload |-> payload]]
  <2>1. Len(head) + length <= Len(s) /\ length \in 1..MaxLength
    BY <1>1
  <2>2. SubSeq(s, Read(s).count + 1, Read(s).count + length) = body
        /\ SubSeq(body, Read(body).count + 1, length) = payload
    BY <1>2, <1>3, <1>5
  <2> HIDE DEF length
  <2> QED BY <1>5, <2>1, <2>2, Zenon DEF Frame
<1> QED BY <1>4, <1>6 DEF s, body, IsFrameOf

\* What the coroutine sees of the stream.
LEMMA StreamSeen ==
    ASSUME ReceiverInv
    PROVE  /\ stream \in Seq(VarintByte)
           /\ m_read \in 0..Len(stream)
           /\ readable = Len(stream) - m_read
           /\ readable >= 1 => front = stream[m_read + 1] /\ stream[m_read + 1] \in VarintByte
           /\ Readable = Part(m_read, Len(stream))
<1>1. /\ stream \in Seq(VarintByte) /\ m_read \in Nat /\ m_written = Len(stream) /\ Len(stream) \in Nat
      /\ readable \in 0..N /\ N \in Nat
  BY ReceiverAssumption, RingAssumption DEF ReceiverInv, RingInv, RingTypeOK, CountersAgree
<1>2. readable = Len(stream) - m_read /\ m_read \in 0..Len(stream)
  BY <1>1 DEF readable
<1>3. ASSUME readable >= 1
      PROVE  front = stream[m_read + 1] /\ stream[m_read + 1] \in VarintByte
  <2>1. m_read \in m_read .. m_written - 1
    BY <1>1, <1>2, <1>3
  <2>2. front = stream[m_read + 1]
    BY <2>1 DEF ReceiverInv, RingInv, UnreadIntact, front
  <2>3. m_read + 1 \in 1..Len(stream)
    BY <1>1, <2>1
  <2> QED BY <1>1, <2>2, <2>3, ElementOfSeq
<1>4. Readable = Part(m_read, Len(stream))
  BY <1>1, InvReadSpansExact DEF ReceiverInv, ReadSpansExact, Part
<1> QED BY <1>1, <1>2, <1>3, <1>4

\* The next byte of the stream read into a varint.
LEMMA NextByte ==
    ASSUME ReceiverInv, readable >= 1, NEW k \in 0..m_read,
           varint = Read(Part(k, m_read)), varint.status = "reading"
    PROVE  /\ ReadRound(varint, front) = Read(Part(k, m_read + 1))
           /\ Read(Part(k, m_read + 1)).count = m_read + 1 - k
           /\ Part(k, m_read + 1) \in Seq(VarintByte) /\ Len(Part(k, m_read + 1)) = m_read + 1 - k
<1>1. /\ stream \in Seq(VarintByte) /\ m_read \in 0..Len(stream)-1 /\ m_read + 1 \in 0..Len(stream)
      /\ k \in 0..m_read+1 /\ Len(stream) \in Nat
      /\ front = stream[m_read + 1] /\ stream[m_read + 1] \in VarintByte
  BY StreamSeen
<1> DEFINE p == Part(k, m_read)
           q == Part(k, m_read + 1)
<1>2. p \in Seq(VarintByte) /\ Len(p) = m_read - k /\ q \in Seq(VarintByte) /\ Len(q) = m_read + 1 - k
  BY <1>1, PieceType DEF Part
<1>3. q = Append(p, front)
  BY <1>1, PieceGrows DEF Part
<1>4. varint \in ReaderState /\ varint.count = Len(p)
  BY <1>2, ReadType, ReadCount
<1> HIDE DEF p, q
<1>5. Read(q) = ReadRound(varint, front)
  <2>1. varint = Read(p) /\ varint.status = "reading"
    BY DEF p
  <2>2. Read(Append(p, front)) = ReadStep(Read(p), front)
    BY <1>1, <1>2, ReadAppend
  <2> QED BY <1>3, <2>1, <2>2 DEF ReadStep
<1>6. Read(q).count = m_read + 1 - k
  <2>1. ReadRound(varint, front).count = varint.count + 1
    BY <1>1, <1>4, ReadRoundType
  <2> QED BY <1>1, <1>2, <1>4, <1>5, <2>1
<1> QED BY <1>2, <1>5, <1>6 DEF p, q

LEMMA ReadLengthPackets ==
    ASSUME ReceiverInv, PacketsInv, ReadLength
    PROVE  PacketsInv'
<1>1. /\ pc = "length" /\ readable >= 1 /\ m_read' = m_read + 1
      /\ UNCHANGED <<stream, packets>>
      /\ varint' = ReadRound(varint, front)
  BY DEF ReadLength, Running, pop_front, erase
<1>2. PICK b : InLength(b)
  BY <1>1 DEF PacketsInv
<1>3. m_read \in Nat /\ b \in 0..m_read /\ b \in 0..m_read+1 /\ m_read + 1 \in 0..m_read+1
  BY <1>2, StreamSeen DEF InLength
<1>4. /\ varint' = Read(Part(b, m_read + 1))
      /\ Read(Part(b, m_read + 1)).count = m_read + 1 - b
  BY <1>1, <1>2, <1>3, NextByte DEF InLength
<1>5. Part(b, m_read)' = Part(b, m_read + 1) /\ Part(0, b)' = Part(0, b)
  BY <1>1 DEF Part
<1>6. Carries(Part(0, b), packets)'
  BY <1>1, <1>2, <1>5 DEF InLength
<1>7. CASE varint'.status = "reading" /\ UNCHANGED pc
  <2>1. InLength(b)'
    BY <1>1, <1>3, <1>4, <1>5, <1>6, <1>7 DEF InLength
  <2> QED BY <1>1, <1>7, <2>1 DEF PacketsInv
<1>8. CASE /\ varint'.status = "done" /\ LengthOK(ToSigned(varint'.value))
           /\ pc' = "body" /\ packet_length' = ToSigned(varint'.value)
  <2>1. Headed(b, m_read)'
    BY <1>1, <1>3, <1>4, <1>5, <1>6, <1>8 DEF Headed, LengthOK
  <2> QED BY <1>1, <1>8, <2>1 DEF PacketsInv
<1>9. CASE pc' = "done"
  BY <1>1, <1>9 DEF PacketsInv
<1>10. \/ varint'.status = "reading" /\ UNCHANGED pc
       \/ /\ varint'.status = "done" /\ LengthOK(ToSigned(varint'.value))
          /\ pc' = "body" /\ packet_length' = ToSigned(varint'.value)
       \/ pc' = "done"
  BY <1>1 DEF ReadLength, Throw
<1> QED BY <1>7, <1>8, <1>9, <1>10

LEMMA StartPacketPackets ==
    ASSUME ReceiverInv, PacketsInv, StartPacket
    PROVE  PacketsInv'
<1>1. /\ pc = "body" /\ pc' = "id" /\ varint' = ReadStart /\ remaining' = packet_length
      /\ UNCHANGED <<stream, m_read, packets, packet_length>>
  BY DEF StartPacket, Running, ringVars
<1>2. PICK b : Headed(b, m_read)
  BY <1>1 DEF PacketsInv
<1>3. m_read \in Nat /\ packet_length \in Int
  BY StreamSeen, ReceiverAssumption, RingAssumption DEF ReceiverInv, ControlTypeOK
<1>4. Part(m_read, m_read) = <<>>
  BY <1>3, StreamSeen DEF Part
<1>5. Part(b, m_read)' = Part(b, m_read) /\ Part(0, b)' = Part(0, b)
      /\ Part(m_read, m_read)' = Part(m_read, m_read)
  BY <1>1 DEF Part
<1>6. Headed(b, m_read)'
  BY <1>1, <1>2, <1>5 DEF Headed
<1>7. varint' = Read(Part(m_read, m_read)) /\ varint'.status = "reading"
  BY <1>1, <1>4, ReadEmpty DEF ReadStart
<1>8. InId(b, m_read)'
  BY <1>1, <1>3, <1>5, <1>6, <1>7 DEF InId
<1> QED BY <1>1, <1>8 DEF PacketsInv

\* With the last byte of its id the packet is all there: it is what the next
\* bytes of the stream are.
LEMMA PacketRead ==
    ASSUME ReceiverInv, PacketsInv, ReadId, pc' = "handler"
    PROVE  /\ packets' \in Seq(PacketType)
           /\ Carries(Part(0, m_read + remaining), packets)'
           /\ m_read' + remaining' \in 0..Len(stream)
           /\ \E packet : packets' = Append(packets, packet)
<1> DEFINE r == ReadRound(varint, front)
           packet == [id |-> ToSigned(r.value), payload |-> SubSeq(Readable, 2, remaining)]
           n == m_read + remaining
<1>1. /\ pc = "id" /\ remaining > 0 /\ m_read' = m_read + 1 /\ remaining' = remaining - 1
      /\ UNCHANGED <<stream, packet_length>>
      /\ r.status = "done" /\ packets' = Append(packets, packet)
  BY DEF ReadId, Running, pop_front, erase, Throw
<1>2. PICK b, m : InId(b, m)
  BY <1>1 DEF PacketsInv
<1>3. /\ stream \in Seq(VarintByte) /\ Len(stream) \in Nat /\ m_read \in 0..Len(stream)
      /\ b \in 0..m /\ m \in 0..m_read /\ remaining \in Nat \ {0}
      /\ m_read + remaining <= Len(stream)
      /\ packet_length \in 1..MaxLength /\ MaxLength \in Nat
      /\ remaining = packet_length - (m_read - m)
      /\ readable >= 1
  <2>1. remaining \in Nat /\ remaining <= readable /\ MaxLength \in Nat
    BY <1>1, ReceiverAssumption, RingAssumption DEF ReceiverInv, ControlTypeOK, ControlInv
  <2>2. b \in 0..m /\ m \in 0..m_read /\ remaining = packet_length - (m_read - m)
        /\ packet_length \in 1..MaxLength
    BY <1>2 DEF InId, Headed
  <2>3. stream \in Seq(VarintByte) /\ m_read \in 0..Len(stream) /\ readable = Len(stream) - m_read
    BY StreamSeen
  <2> QED BY <1>1, <2>1, <2>2, <2>3
<1> DEFINE head == Part(b, m)
           id == Part(m, m_read + 1)
           payload == Part(m_read + 1, n)
<1>4. /\ head \in Seq(VarintByte) /\ Len(head) = m - b
      /\ payload \in Seq(VarintByte) /\ Len(payload) = n - (m_read + 1)
      /\ n \in 0..Len(stream)
  <2>1. n \in 0..Len(stream) /\ m_read + 1 \in 0..n /\ m \in 0..Len(stream)
    BY <1>3
  <2> HIDE DEF n
  <2> QED BY <1>3, <2>1, PieceType DEF Part
<1>5. /\ id \in Seq(VarintByte) /\ Len(id) = m_read + 1 - m
      /\ Read(id) = r /\ Read(id).count = m_read + 1 - m
  <2>1. m \in 0..m_read /\ varint = Read(Part(m, m_read)) /\ varint.status = "reading"
    BY <1>2, <1>3 DEF InId
  <2> QED BY <1>3, <2>1, NextByte
<1>6. /\ Read(head).status = "done" /\ Read(head).count = Len(head)
      /\ ToSigned(Read(head).value) = packet_length
  BY <1>2, <1>4 DEF InId, Headed
<1>7. payload = SubSeq(Readable, 2, remaining)
  <2>1. Readable = SubSeq(stream, m_read + 1, Len(stream))
    BY StreamSeen DEF Part
  <2>2. \A i \in 1..Len(stream) : stream[i] \in VarintByte
    BY <1>3, ElementOfSeq
  <2> QED BY <1>3, <2>1, <2>2 DEF Part
<1> HIDE DEF r
<1>8. Len(id) + Len(payload) = packet_length
  <2> HIDE DEF id, payload
  <2> QED BY <1>3, <1>4, <1>5
<1> DEFINE s == head \o (id \o payload)
<1>9. Frame(s) = [size |-> Len(head) + (Len(id) + Len(payload)), packet |-> packet]
  <2>1. Frame(s) = [size |-> Len(head) + (Len(id) + Len(payload)),
                    packet |-> [id |-> ToSigned(Read(id).value), payload |-> payload]]
    <3>1. Read(id).status = "done" /\ Read(id).count = Len(id)
      BY <1>1, <1>5
    <3>2. ToSigned(Read(head).value) = Len(id) + Len(payload)
          /\ ToSigned(Read(head).value) \in 1..MaxLength
      BY <1>3, <1>6, <1>8
    <3>3. head \in Seq(VarintByte) /\ id \in Seq(VarintByte) /\ payload \in Seq(VarintByte)
      BY <1>4, <1>5
    <3> HIDE DEF head, id, payload, s
    <3>4. IsFrameOf(s, head, id, payload)
      BY <1>6, <3>1, <3>2, <3>3, FrameOfParts, Zenon DEF s
    <3> QED BY <3>4, Zenon DEF IsFrameOf
  <2> QED BY <1>5, <1>7, <2>1
<1>10. s = Part(b, n) /\ Part(0, b) \o s = Part(0, n)
  <2>1. /\ n \in 0..Len(stream) /\ m_read + 1 \in 0..n /\ m \in 0..n /\ b \in 0..n
        /\ m \in 0..m_read+1 /\ 0 \in 0..b
    BY <1>3
  <2> HIDE DEF n
  <2>2. id \o payload = Part(m, n)
    BY <1>3, <2>1, PiecesJoin DEF Part
  <2>3. head \o Part(m, n) = Part(b, n)
    BY <1>3, <2>1, PiecesJoin DEF Part
  <2>4. Part(0, b) \o Part(b, n) = Part(0, n)
    BY <1>3, <2>1, PiecesJoin DEF Part
  <2> HIDE DEF head, id, payload
  <2> QED BY <2>2, <2>3, <2>4
<1>11. s \in Seq(VarintByte) /\ Len(s) # 0 /\ Frame(s).size = Len(s) /\ Frame(s).packet = packet
  <2>1. head \in Seq(VarintByte) /\ id \in Seq(VarintByte) /\ payload \in Seq(VarintByte)
        /\ Len(id) >= 1
    BY <1>3, <1>4, <1>5
  <2> HIDE DEF head, id, payload, packet
  <2>2. s \in Seq(VarintByte) /\ Len(s) = Len(head) + (Len(id) + Len(payload)) /\ Len(s) # 0
    BY <2>1
  <2> HIDE DEF s
  <2> QED BY <1>9, <2>2
<1>12. packets \in Seq(PacketType) /\ Part(0, b) \in Seq(VarintByte) /\ Carries(Part(0, b), packets)
  <2>1. b \in 0..Len(stream) /\ 0 \in 0..b
    BY <1>3
  <2> QED BY <1>2, <1>3, <2>1, PieceType DEF InId, Headed, PacketsInv, Part
<1> HIDE DEF s, packet
<1>13. Carries(Part(0, b) \o s, Append(packets, Frame(s).packet))
  BY <1>11, <1>12, CarriesNext
<1>14. packet \in PacketType
  BY <1>11, FrameType
<1>15. Carries(Part(0, n), packets')
  BY <1>1, <1>10, <1>11, <1>13
<1>16. m_read' + remaining' = n /\ stream' = stream
  BY <1>1, <1>3
<1> HIDE DEF n
<1>17. Carries(Part(0, m_read + remaining), packets)'
  BY <1>15, <1>16 DEF Part
<1> QED BY <1>1, <1>4, <1>12, <1>14, <1>16, <1>17

LEMMA ReadIdPackets ==
    ASSUME ReceiverInv, PacketsInv, ReadId
    PROVE  PacketsInv'
<1>1. /\ pc = "id" /\ remaining > 0 /\ m_read' = m_read + 1 /\ remaining' = remaining - 1
      /\ UNCHANGED <<stream, packet_length>>
      /\ varint' = ReadRound(varint, front)
      /\ \/ varint'.status = "reading" /\ UNCHANGED <<pc, packets>>
         \/ pc' = "handler"
         \/ pc' = "done" /\ UNCHANGED packets
  BY DEF ReadId, Running, pop_front, erase, Throw
<1>2. CASE varint'.status = "reading" /\ UNCHANGED <<pc, packets>>
  <2>1. PICK b, m : InId(b, m)
    BY <1>1 DEF PacketsInv
  <2>2. remaining \in Nat /\ remaining <= readable
    BY <1>1, ReceiverAssumption, RingAssumption DEF ReceiverInv, ControlTypeOK, ControlInv
  <2>3. m_read \in Nat /\ readable \in Int /\ m \in 0..m_read /\ b \in 0..m
        /\ packet_length \in Int /\ readable >= 1
    <3>1. m_read \in 0..Len(stream) /\ readable = Len(stream) - m_read /\ stream \in Seq(VarintByte)
      BY StreamSeen
    <3>2. m_read \in Nat /\ readable \in Int
      BY <3>1
    <3>3. m \in 0..m_read /\ b \in 0..m /\ packet_length \in 1..MaxLength
      BY <2>1, Zenon DEF InId, Headed
    <3> QED BY <1>1, <2>2, <3>2, <3>3, ReceiverAssumption
  <2>4. varint' = Read(Part(m, m_read + 1))
    BY <1>1, <2>1, <2>3, NextByte DEF InId
  <2>5. Part(b, m)' = Part(b, m) /\ Part(0, b)' = Part(0, b) /\ Part(m, m_read)' = Part(m, m_read + 1)
    BY <1>1 DEF Part
  <2>6. Headed(b, m)'
    BY <1>1, <1>2, <2>1, <2>3, <2>5 DEF InId, Headed
  <2>7. remaining' = packet_length' - (m_read' - m)
    BY <1>1, <2>1, <2>3 DEF InId
  <2>8. InId(b, m)'
    BY <1>2, <2>4, <2>5, <2>6, <2>7 DEF InId
  <2> QED BY <1>1, <1>2, <2>8 DEF PacketsInv
<1>3. CASE pc' = "handler"
  BY <1>3, PacketRead DEF PacketsInv
<1>4. CASE pc' = "done" /\ UNCHANGED packets
  BY <1>4 DEF PacketsInv
<1> QED BY <1>1, <1>2, <1>3, <1>4

LEMMA HandlePacketPackets ==
    ASSUME ReceiverInv, PacketsInv, NEW n \in 0..MaxLength, HandlePacket(n)
    PROVE  PacketsInv'
<1>1. /\ pc = "handler" /\ m_read' = m_read + n /\ remaining' = remaining - n
      /\ UNCHANGED <<stream, packets>>
      /\ \/ n = remaining /\ pc' = "length" /\ varint' = ReadStart
         \/ pc' \in {"done", "handler"}
  BY DEF HandlePacket, Running, pop_front, erase, Throw
<1>2. m_read \in Nat /\ n \in Nat /\ remaining \in Nat
  BY StreamSeen, ReceiverAssumption, RingAssumption DEF ReceiverInv, ControlTypeOK
<1>3. Carries(Part(0, m_read + remaining), packets)
  BY <1>1 DEF PacketsInv
<1>4. CASE n = remaining /\ pc' = "length" /\ varint' = ReadStart
  <2>1. PICK c : c = m_read + remaining
    OBVIOUS
  <2>2. c \in Nat /\ m_read' = c /\ c \in 0..c
    BY <1>1, <1>2, <1>4, <2>1
  <2>3. Carries(Part(0, c), packets)'
    BY <1>1, <1>3, <2>1 DEF Part
  <2>4. Part(c, m_read)' = <<>>
    BY <1>1, <2>2, StreamSeen DEF Part
  <2>5. varint' = Read(<<>>) /\ varint'.status = "reading"
    BY <1>4, ReadEmpty DEF ReadStart
  <2>6. InLength(c)'
    BY <2>2, <2>3, <2>4, <2>5 DEF InLength
  <2> QED BY <1>1, <1>4, <2>6 DEF PacketsInv
<1>5. CASE pc' \in {"done", "handler"}
  <2>1. m_read' + remaining' = m_read + remaining
    BY <1>1, <1>2
  <2>2. Carries(Part(0, m_read + remaining), packets)'
    BY <1>1, <1>3, <2>1 DEF Part
  <2> QED BY <1>1, <1>5, <2>2 DEF PacketsInv
<1> QED BY <1>1, <1>4, <1>5

\* The other steps take nothing from the stream; a completed read adds to it.
LEMMA StreamGrowsPackets ==
    ASSUME ReceiverInv, PacketsInv,
           UNCHANGED <<varint, packet_length, remaining, packets, m_read>>,
           pc' = pc \/ (pc = "start" /\ pc' = "length"),
           NEW t \in Seq(VarintByte), stream' = stream \o t
    PROVE  PacketsInv'
<1>1. stream \in Seq(VarintByte) /\ m_read \in 0..Len(stream) /\ Len(stream) \in Nat
  BY StreamSeen
<1>2. ASSUME NEW k \in 0..Len(stream), NEW m \in 0..Len(stream)
      PROVE  SubSeq(stream', k + 1, m) = SubSeq(stream, k + 1, m)
  <2>1. k + 1 \in 1..Len(stream)+1
    BY <1>1
  <2> QED BY <1>1, <1>2, <2>1, SubSeqOfConcat
<1>3. ASSUME NEW b, InLength(b) PROVE InLength(b)'
  <2>1. b \in 0..Len(stream) /\ 0 \in 0..Len(stream)
    BY <1>1, <1>3 DEF InLength
  <2>2. Part(0, b)' = Part(0, b) /\ Part(b, m_read)' = Part(b, m_read)
    BY <1>1, <1>2, <2>1 DEF Part
  <2> QED BY <1>3, <2>2 DEF InLength
<1>4. ASSUME NEW b, NEW m, Headed(b, m) PROVE Headed(b, m)'
  <2>1. b \in 0..Len(stream) /\ m \in 0..Len(stream) /\ 0 \in 0..Len(stream)
    BY <1>1, <1>4 DEF Headed
  <2>2. Part(0, b)' = Part(0, b) /\ Part(b, m)' = Part(b, m)
    BY <1>2, <2>1 DEF Part
  <2> QED BY <1>4, <2>2 DEF Headed
<1>5. ASSUME NEW b, NEW m, InId(b, m) PROVE InId(b, m)'
  <2>1. m \in 0..Len(stream)
    BY <1>1, <1>5 DEF InId, Headed
  <2>2. Part(m, m_read)' = Part(m, m_read)
    BY <1>1, <1>2, <2>1 DEF Part
  <2> QED BY <1>4, <1>5, <2>2 DEF InId
<1>6. pc = "handler" => Carries(Part(0, m_read + remaining), packets)'
  <2> SUFFICES ASSUME pc = "handler" PROVE Carries(Part(0, m_read + remaining), packets)'
    OBVIOUS
  <2>1. remaining \in Nat /\ remaining <= readable /\ readable = Len(stream) - m_read
    BY StreamSeen, ReceiverAssumption, RingAssumption DEF ReceiverInv, ControlTypeOK, ControlInv
  <2>2. m_read + remaining \in 0..Len(stream) /\ 0 \in 0..Len(stream)
    BY <1>1, <2>1
  <2>3. Part(0, m_read + remaining)' = Part(0, m_read + remaining)
    BY <1>2, <2>2 DEF Part
  <2> QED BY <2>3 DEF PacketsInv
<1>7. pc \in {"start", "length"} => \E b : InLength(b)'
  BY <1>3 DEF PacketsInv
<1>8. pc = "body" => \E b : Headed(b, m_read)'
  <2> SUFFICES ASSUME pc = "body" PROVE \E b : Headed(b, m_read)'
    OBVIOUS
  <2>1. PICK b, m : Headed(b, m) /\ m = m_read
    BY DEF PacketsInv
  <2>2. Headed(b, m)'
    BY <1>4, <2>1
  <2> QED BY <2>1, <2>2 DEF Headed
<1>9. pc = "id" => \E b, m : InId(b, m)'
  BY <1>5 DEF PacketsInv
<1>10. pc' \in {"start", "length"} => pc \in {"start", "length"}
  OBVIOUS
<1> QED BY <1>6, <1>7, <1>8, <1>9, <1>10 DEF PacketsInv

LEMMA ReadCompletePackets ==
    ASSUME ReceiverInv, PacketsInv, ReadComplete
    PROVE  PacketsInv'
<1>1. PICK n \in 0..N : read_complete(n)
  BY DEF ReadComplete
<1>2. SubSeq(wire, 1, n) \in Seq(VarintByte)
  <2>1. wire \in Seq(VarintByte) /\ n \in 0..Len(wire)
    BY <1>1, RingAssumption, ReceiverAssumption DEF ReceiverInv, ControlTypeOK, TcpTypeOK, read_complete
  <2>2. \A i \in 1..Len(wire) : wire[i] \in VarintByte
    BY <2>1, ElementOfSeq
  <2> QED BY <2>1, <2>2
<1>3. stream' = stream \o SubSeq(wire, 1, n) /\ m_read' = m_read
  BY <1>1 DEF read_complete, Fill
<1>4. UNCHANGED <<pc, varint, packet_length, remaining, packets>>
  BY DEF ReadComplete, receiverVars
<1> QED BY <1>2, <1>3, <1>4, StreamGrowsPackets

LEMMA OtherPackets ==
    ASSUME ReceiverInv, PacketsInv,
           \/ AwaitByte \/ AwaitPacket \/ IdPastEnd \/ on_tcp_connect \/ connect_failed
           \/ on_connect \/ ReadFailed \/ on_readable \/ Peer \/ UNCHANGED vars
    PROVE  PacketsInv'
<1>1. UNCHANGED <<varint, packet_length, remaining, packets, m_read, stream>>
  BY DEF AwaitByte, AwaitPacket, Await, resume_on_readable, TakeSpans, IdPastEnd,
         on_tcp_connect, connect_failed, on_connect, ReadFailed, read_eof, read_error, DropSpans,
         on_readable, Peer, PeerSend, PeerCloses, vars, receiverVars, ringVars
<1>2. pc' = pc \/ (pc = "start" /\ pc' = "length")
  <2>1. CASE on_tcp_connect
    BY <2>1 DEF on_tcp_connect, ReceiverInv, ControlInv
  <2>2. CASE ~on_tcp_connect
    BY <2>2 DEF AwaitByte, AwaitPacket, Await, IdPastEnd, connect_failed, on_connect, ReadFailed,
                on_readable, Peer, vars, receiverVars
  <2> QED BY <2>1, <2>2
<1>3. <<>> \in Seq(VarintByte) /\ stream' = stream \o <<>>
  BY <1>1, StreamSeen
<1> QED BY <1>1, <1>2, <1>3, StreamGrowsPackets

\* The coroutine gives up control only where what it needs has not arrived.
LEMMA StepWaits ==
    ASSUME ReceiverInv, WaitInv, [Next]_vars
    PROVE  WaitInv'
<1>1. readable \in Int
  BY StreamSeen
<1>2. CASE AwaitByte \/ AwaitPacket
  <2>1. readable \in Nat
    BY StreamSeen
  <2> QED BY <1>2, <2>1 DEF AwaitByte, AwaitPacket, Await, Running, resume_on_readable, TakeSpans,
                            receiverVars, readable, WaitInv
<1>3. CASE ReadLength \/ ReadId
  BY <1>3 DEF ReadLength, ReadId, Running, Throw, WaitInv
<1>4. CASE StartPacket \/ IdPastEnd
  BY <1>4 DEF StartPacket, IdPastEnd, Running, WaitInv, receiverVars
<1>5. ASSUME NEW n \in 0..MaxLength, HandlePacket(n) PROVE WaitInv'
  BY <1>5 DEF HandlePacket, Running, Throw, WaitInv
<1>6. CASE on_tcp_connect \/ ReadComplete
  BY <1>6 DEF on_tcp_connect, ReadComplete, WaitInv
<1>7. CASE connect_failed \/ on_connect \/ on_readable
  <2>1. control # "receiver" /\ UNCHANGED <<ringVars, receiverVars>>
    BY <1>7 DEF connect_failed, on_connect, on_readable
  <2> QED BY <2>1 DEF WaitInv, ringVars, receiverVars, readable
<1>8. CASE ReadFailed
  <2>1. control # "receiver" /\ UNCHANGED <<m_read, m_written, receiverVars>>
    BY <1>8 DEF ReadFailed, read_eof, read_error, DropSpans
  <2> QED BY <2>1 DEF WaitInv, receiverVars, readable
<1>9. CASE Peer \/ UNCHANGED vars
  <2>1. UNCHANGED <<ringVars, receiverVars, control>>
    BY <1>9 DEF Peer, PeerSend, PeerCloses, vars
  <2> QED BY <2>1 DEF WaitInv, ringVars, receiverVars, readable
<1> QED BY <1>2, <1>3, <1>4, <1>5, <1>6, <1>7, <1>8, <1>9 DEF Next, Coroutine, App

LEMMA InitPackets == ReceiverInit => PacketsInv /\ WaitInv
<1> SUFFICES ASSUME ReceiverInit PROVE PacketsInv /\ WaitInv
  OBVIOUS
<1>1. stream = <<>> /\ m_read = 0 /\ packets = <<>> /\ varint = ReadStart /\ pc = "start"
  BY DEF ReceiverInit, TcpInit, RingInit
<1>2. Part(0, 0) = <<>> /\ Part(0, m_read) = <<>>
  BY <1>1 DEF Part
<1>3. InLength(0)
  BY <1>1, <1>2, CarriesNone, ReadEmpty DEF InLength, ReadStart
<1> QED BY <1>1, <1>3 DEF PacketsInv, WaitInv

LEMMA PacketsInvariant == Spec => [](ReceiverInv /\ PacketsInv /\ WaitInv)
<1>1. ReceiverInv /\ PacketsInv /\ WaitInv /\ [Next]_vars => PacketsInv'
  <2> SUFFICES ASSUME ReceiverInv, PacketsInv, [Next]_vars PROVE PacketsInv'
    OBVIOUS
  <2>1. ASSUME NEW n \in 0..MaxLength, HandlePacket(n) PROVE PacketsInv'
    BY <2>1, HandlePacketPackets
  <2> QED BY <2>1, ReadLengthPackets, StartPacketPackets, ReadIdPackets, ReadCompletePackets,
             OtherPackets DEF Next, Coroutine, App
<1>2. ReceiverInv /\ WaitInv /\ [Next]_vars => WaitInv'
  BY StepWaits
<1> QED BY <1>1, <1>2, InitPackets, ReceiverInvariant, PTL DEF Spec

-----------------------------------------------------------------------------
\* Where a packet's length is not there, or not all of the packet, what has
\* arrived has no more packets than were handed on.
LEMMA NothingMore ==
    ASSUME ReceiverInv, PacketsInv, NEW b \in 0..m_read, Carries(Part(0, b), packets),
           Frame(Part(b, Len(stream))).size = 0
    PROVE  packets = Frames(stream)
<1>1. stream \in Seq(VarintByte) /\ m_read \in 0..Len(stream) /\ Len(stream) \in Nat
      /\ packets \in Seq(PacketType)
  BY StreamSeen DEF PacketsInv
<1>2. Len(stream) \in 0..Len(stream) /\ b \in 0..Len(stream) /\ 0 \in 0..b
  BY <1>1
<1>3. Part(b, Len(stream)) \in Seq(VarintByte)
  BY <1>1, <1>2, PieceType DEF Part
<1>4. Part(0, b) \o Part(b, Len(stream)) = stream
  <2>1. Part(0, b) \o Part(b, Len(stream)) = Part(0, Len(stream))
    BY <1>1, <1>2, PiecesJoin DEF Part
  <2>2. Part(0, Len(stream)) = stream
    BY <1>1, SubSeqFull DEF Part
  <2> QED BY <2>1, <2>2
<1>5. Frames(Part(b, Len(stream))) = <<>>
  BY <1>3, FramesUnfold
<1>6. Frames(stream) = packets \o <<>>
  BY <1>3, <1>4, <1>5 DEF Carries
<1> QED BY <1>1, <1>6

LEMMA InvCaughtUp == ReceiverInv /\ PacketsInv /\ WaitInv => CaughtUp
<1> SUFFICES ASSUME ReceiverInv, PacketsInv, WaitInv, process = "running", control = "app"
             PROVE  packets = Frames(stream)
  BY DEF CaughtUp
<1>1. \/ pc \in {"start", "length"} /\ readable = 0
      \/ pc = "body" /\ readable < packet_length
  BY DEF ReceiverInv, ControlInv, ControlTypeOK, Waiting, WaitInv
<1>2. stream \in Seq(VarintByte) /\ m_read \in 0..Len(stream) /\ Len(stream) \in Nat
      /\ readable = Len(stream) - m_read
  BY StreamSeen
<1>3. CASE pc \in {"start", "length"} /\ readable = 0
  <2>1. PICK b : InLength(b)
    BY <1>3 DEF PacketsInv
  <2>2. m_read = Len(stream)
    BY <1>2, <1>3
  <2>3. Read(Part(b, Len(stream))).status = "reading"
    BY <2>1, <2>2 DEF InLength
  <2>4. Frame(Part(b, Len(stream))).size = 0
    BY <2>3 DEF Frame
  <2> QED BY <2>1, <2>4, NothingMore DEF InLength
<1>4. CASE pc = "body" /\ readable < packet_length
  <2>1. PICK b : Headed(b, m_read)
    BY <1>4 DEF PacketsInv
  <2> DEFINE head == Part(b, m_read)
             more == Part(m_read, Len(stream))
             rest == Part(b, Len(stream))
  <2>2. b \in 0..m_read /\ b \in 0..Len(stream) /\ Len(stream) \in 0..Len(stream)
    BY <1>2, <2>1 DEF Headed
  <2>3. /\ head \in Seq(VarintByte) /\ Len(head) = m_read - b
        /\ rest \in Seq(VarintByte) /\ Len(rest) = Len(stream) - b
        /\ more \in Seq(VarintByte)
    BY <1>2, <2>2, PieceType DEF Part
  <2>4. head \o more = rest
    BY <1>2, <2>2, PiecesJoin DEF Part
  <2>5. /\ Read(head).status = "done" /\ Read(head).count = m_read - b
        /\ ToSigned(Read(head).value) = packet_length /\ packet_length \in 1..MaxLength
    BY <2>1 DEF Headed
  <2> HIDE DEF head, more, rest
  <2>6. Read(rest) = Read(head)
    BY <2>3, <2>4, <2>5, ReadConcat
  <2>7. Frame(rest).size = 0
    <3> SUFFICES ASSUME Frame(rest).size # 0 PROVE FALSE
      OBVIOUS
    <3>1. Frame(rest).size = (m_read - b) + packet_length
      BY <2>3, <2>5, <2>6, FrameSize
    <3>2. Frame(rest).size <= Len(rest)
      BY <2>3, FrameType
    <3>3. packet_length \in Int /\ readable \in Int
      BY <1>2, <2>5
    <3> QED BY <1>2, <1>4, <2>2, <2>3, <3>1, <3>2, <3>3
  <2> QED BY <2>1, <2>2, <2>7, NothingMore DEF Headed, rest
<1> QED BY <1>1, <1>3, <1>4

\* Whenever control is back in the main loop, every packet that has arrived whole
\* has been handed on (async_recv_until and async_read_byte wait only for bytes
\* that are not there), for every capacity, stream and way of cutting it up.
THEOREM ReceiverCaughtUp == Spec => []CaughtUp
<1>1. ReceiverInv /\ PacketsInv /\ WaitInv => CaughtUp
  BY InvCaughtUp
<1> QED BY <1>1, PacketsInvariant, PTL

-----------------------------------------------------------------------------
\* Handing a packet on is a step that delivers the next packet of the stream.
LEMMA PacketDelivered ==
    ASSUME ReceiverInv, PacketsInv, ReadId, pc' = "handler"
    PROVE  Stream!Deliver
<1>1. process = "running" /\ UNCHANGED <<stream, process>>
  BY DEF ReadId, Running, pop_front, erase, Throw, appVars
<1> DEFINE n == m_read' + remaining'
           rest == Part(n, Len(stream))
<1>0. /\ packets' \in Seq(PacketType)
      /\ Carries(Part(0, m_read + remaining), packets)'
      /\ n \in 0..Len(stream)
      /\ \E packet : packets' = Append(packets, packet)
  BY PacketRead, Zenon
<1>2. PICK packet : packets' = Append(packets, packet)
  BY <1>0, Zenon
<1>3. n \in 0..Len(stream) /\ packets' \in Seq(PacketType) /\ packets \in Seq(PacketType)
      /\ stream \in Seq(VarintByte) /\ Len(stream) \in Nat
  <2>1. stream \in Seq(VarintByte)
    BY StreamSeen, Zenon
  <2>2. packets \in Seq(PacketType)
    BY Zenon DEF PacketsInv
  <2> QED BY <1>0, <2>1, <2>2
<1>4. Carries(Part(0, n), packets')
  BY <1>0, <1>1, Zenon DEF Part
<1> HIDE DEF n
<1>5. rest \in Seq(VarintByte) /\ Part(0, n) \o rest = stream
  <2>1. Len(stream) \in 0..Len(stream) /\ n \in 0..Len(stream) /\ 0 \in 0..n
    BY <1>3
  <2>2. Part(0, n) \o rest = Part(0, Len(stream))
    BY <1>3, <2>1, PiecesJoin DEF Part
  <2>3. Part(0, Len(stream)) = stream
    BY <1>3, SubSeqFull DEF Part
  <2>4. rest \in Seq(VarintByte)
    BY <1>3, <2>1, PieceType, Zenon DEF Part
  <2> QED BY <2>2, <2>3, <2>4, Zenon
<1> HIDE DEF rest
<1>6. Frames(stream) = packets' \o Frames(rest) /\ Frames(rest) \in Seq(PacketType)
  BY <1>4, <1>5, FramesType DEF Carries
<1>7. /\ Len(packets') = Len(packets) + 1 /\ packets'[Len(packets) + 1] = packet
      /\ Len(packets) \in Nat
  BY <1>2, <1>3
<1>8. /\ Len(packets) < Len(Frames(stream))
      /\ Frames(stream)[Len(packets) + 1] = packet
  BY <1>3, <1>6, <1>7
<1> QED BY <1>1, <1>2, <1>8 DEF Stream!Deliver

LEMMA StepRefinesStream ==
    ASSUME ReceiverInv, PacketsInv, [Next]_vars
    PROVE  Stream!Arrive \/ Stream!Deliver \/ Stream!Fail \/ UNCHANGED Stream!streamVars
<1>1. CASE ReadLength \/ ReadId
  <2>1. UNCHANGED <<stream, process>>
    BY <1>1 DEF ReadLength, ReadId, pop_front, erase, Throw, appVars
  <2>2. UNCHANGED packets \/ (ReadId /\ pc' = "handler")
    BY <1>1 DEF ReadLength, ReadId, Throw
  <2> QED BY <2>1, <2>2, PacketDelivered DEF Stream!streamVars
<1>2. CASE ReadComplete
  <2>1. PICK n \in 0..N : read_complete(n)
    BY <1>2 DEF ReadComplete
  <2> DEFINE bytes == SubSeq(wire, 1, n)
  <2>2. bytes \in Seq(VarintByte)
    <3>1. wire \in Seq(VarintByte) /\ n \in 0..Len(wire)
      BY <2>1, RingAssumption, ReceiverAssumption
      DEF ReceiverInv, ControlTypeOK, TcpTypeOK, read_complete
    <3>2. \A i \in 1..Len(wire) : wire[i] \in VarintByte
      BY <3>1, ElementOfSeq
    <3> QED BY <3>1, <3>2
  <2>3. stream' = stream \o bytes /\ UNCHANGED <<packets, process>>
    BY <1>2, <2>1 DEF ReadComplete, read_complete, Fill, appVars
  <2>4. stream \in Seq(VarintByte) /\ Len(stream) \in Nat
    BY StreamSeen
  <2> HIDE DEF bytes
  <2>5. CASE bytes = <<>>
    BY <2>3, <2>4, <2>5 DEF Stream!streamVars
  <2>6. CASE bytes # <<>>
    <3>1. Len(stream') = Len(stream) + Len(bytes) /\ Len(bytes) \in Nat \ {0}
      BY <2>2, <2>3, <2>4, <2>6
    <3>2. SubSeq(stream', 1, Len(stream)) = stream
      <4>1. 1 \in 1..Len(stream)+1 /\ Len(stream) \in 0..Len(stream)
        BY <2>4
      <4>2. SubSeq(stream \o bytes, 1, Len(stream)) = SubSeq(stream, 1, Len(stream))
        BY <2>2, <2>4, <4>1, SubSeqOfConcat
      <4> QED BY <2>3, <2>4, <4>2, SubSeqFull
    <3> QED BY <2>3, <2>4, <3>1, <3>2 DEF Stream!Arrive
  <2> QED BY <2>5, <2>6
<1>3. ASSUME NEW n \in 0..MaxLength, HandlePacket(n)
      PROVE  Stream!Fail \/ UNCHANGED Stream!streamVars
  <2>1. UNCHANGED <<stream, packets>> /\ (UNCHANGED process \/ process' = "aborted")
    BY <1>3 DEF HandlePacket, pop_front, erase, Throw, appVars
  <2> QED BY <2>1 DEF Stream!Fail, Stream!streamVars
<1>4. CASE AwaitByte \/ AwaitPacket \/ StartPacket \/ ReadFailed \/ Peer \/ UNCHANGED vars
  <2>1. UNCHANGED <<stream, packets, process>>
    BY <1>4 DEF AwaitByte, AwaitPacket, Await, resume_on_readable, TakeSpans, StartPacket,
                ReadFailed, read_eof, read_error, DropSpans, Peer, PeerSend, PeerCloses, vars,
                ringVars, appVars
  <2> QED BY <2>1 DEF Stream!streamVars
<1>5. CASE IdPastEnd \/ on_tcp_connect \/ connect_failed \/ on_connect \/ on_readable
  <2>1. /\ UNCHANGED <<stream, packets>>
        /\ UNCHANGED process \/ process' \in {"terminated", "aborted"}
    BY <1>5 DEF IdPastEnd, on_tcp_connect, connect_failed, on_connect, on_readable, ringVars
  <2> QED BY <2>1 DEF Stream!Fail, Stream!streamVars
<1> QED BY <1>1, <1>2, <1>3, <1>4, <1>5 DEF Next, Coroutine, App

\* The receiver implements the stream of packets: however the peer's bytes are
\* cut up and wrap around the ring, each packet is handed on once, whole and in
\* order, and nothing is after a failure (receiver_task, async_recv_until).
THEOREM ReceiverDeliversStream == Spec => DeliversStream
<1>1. ReceiverInit => Stream!Init
  BY DEF ReceiverInit, TcpInit, RingInit, Stream!Init
<1>2. ReceiverInv /\ PacketsInv /\ [Next]_vars
          => [Stream!Arrive \/ Stream!Deliver \/ Stream!Fail]_(Stream!streamVars)
  BY StepRefinesStream
<1> QED BY <1>1, <1>2, PacketsInvariant, PTL DEF Spec, DeliversStream, Stream!Spec
=============================================================================
