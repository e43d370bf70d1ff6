--------------------------- MODULE FramingProofs ---------------------------
(***************************************************************************)
(* Framing for frames of every length and streams of every content: what   *)
(* feed finds are the frames of the stream, taken greedily from the left,  *)
(* however the stream was cut into chunks.                                 *)
(***************************************************************************)
EXTENDS Framing, SequenceTheorems, WellFoundedInduction, TLAPS

USE FramingAssumption DEF FramingAssumption

\* The buffer is the part of the stream that was not taken.
TailInv ==
    /\ buf \in Seq(Int) /\ stream \in Seq(Int) /\ taken \in Nat
    /\ splitting \in BOOLEAN
    /\ taken + Len(buf) = Len(stream)
    /\ \A i \in 1 .. Len(buf) : buf[i] = stream[taken + i]
    /\ ~splitting => Len(buf) < PacketLen

\* The frames found lie in the part that was taken, and apart.
FramesInv ==
    /\ frames \subseteq Nat
    /\ \A p \in frames : p > 0 /\ FrameAt(p) /\ p + PacketLen - 1 <= taken
    /\ \A p, q \in frames : p # q => p + PacketLen <= q \/ q + PacketLen <= p

Covered(p) == \E q \in frames : q <= p /\ p < q + PacketLen

\* No frame begins at p, whatever is received later.
Refuted(p) ==
    \/ stream[p] # 170
    \/ p + 1 <= Len(stream) /\ stream[p + 1] # 85
    \/ /\ p + PacketLen - 1 <= Len(stream)
       /\ ~SuffixAt(stream, p + PacketLen - 2)

\* A byte leaves the buffer only as part of a frame, or when it is certain
\* that no frame begins with it.
TakenInv == \A p \in 1 .. taken : Covered(p) \/ Refuted(p)

FramingInv == TailInv /\ FramesInv /\ TakenInv

\* What a cut leaves is what followed the bytes deleted.
LEMMA CutLeavesTail ==
    ASSUME TailInv, NEW n \in 0 .. Len(buf), Cut(n)
    PROVE  /\ buf' \in Seq(Int) /\ Len(buf') = Len(buf) - n
           /\ taken' \in Nat /\ taken' = taken + n
           /\ taken' + Len(buf') = Len(stream)
           /\ \A i \in 1 .. Len(buf') : buf'[i] = stream[taken' + i]
<1>. DEFINE L == Len(buf)
<1>1. /\ L \in Nat /\ n \in Nat /\ n <= L /\ taken \in Nat
      /\ \A i \in n + 1 .. L : buf[i] \in Int
      /\ \A i \in 1 .. L : buf[i] = stream[taken + i]
  BY DEF TailInv
<1>. HIDE DEF L
<1>2. /\ buf' \in Seq(Int)
      /\ Len(buf') = IF n + 1 <= L THEN L - (n + 1) + 1 ELSE 0
      /\ \A i \in 1 .. L - (n + 1) + 1 : buf'[i] = buf[n + 1 + i - 1]
  <2>1. buf' = SubSeq(buf, n + 1, L) /\ n + 1 \in Int /\ L \in Int
    BY <1>1 DEF Cut, L
  <2>. QED
    BY <1>1, <2>1, SubSeqProperties
<1>3. Len(buf') = L - n /\ \A i \in 1 .. L - n : buf'[i] = buf[n + i]
  BY <1>1, <1>2
<1>4. \A i \in 1 .. L - n : buf'[i] = stream[taken + n + i]
  BY <1>1, <1>3
<1>5. taken' = taken + n /\ taken + L = Len(stream)
  BY DEF Cut, TailInv, L
<1>6. \A i \in 1 .. Len(buf') : buf'[i] = stream[taken' + i]
  BY <1>3, <1>4, <1>5
<1>7. taken' \in Nat /\ taken' + Len(buf') = Len(stream)
  <2>1. L \in Nat /\ n \in Nat /\ n <= L /\ taken \in Nat
    BY <1>1
  <2>2. Len(buf') = L - n
    BY <1>3
  <2>. QED
    BY <2>1, <2>2, <1>5
<1>8. Len(buf') = Len(buf) - n
  BY <1>3 DEF L
<1>. QED
  BY <1>2, <1>5, <1>6, <1>7, <1>8

\* Bytes whose fate is settled stay settled when frames are added and the
\* stream grows.
LEMMA SettledStays ==
    ASSUME TailInv, stream' \in Seq(Int), Len(stream) <= Len(stream'),
           \A i \in 1 .. Len(stream) : stream'[i] = stream[i],
           frames \subseteq frames',
           NEW p \in 1 .. Len(stream), Covered(p) \/ Refuted(p)
    PROVE  (Covered(p) \/ Refuted(p))'
<1>1. CASE Covered(p)
  BY <1>1 DEF Covered
<1>2. CASE Refuted(p)
  <2>. DEFINE L == Len(stream)
  <2>1. /\ L \in Nat /\ Len(stream') \in Nat /\ L <= Len(stream')
        /\ \A i \in 1 .. L : stream'[i] = stream[i]
        /\ p \in 1 .. L
    BY DEF TailInv
  <2>2. CASE stream[p] # 170
    BY <2>1, <2>2 DEF Refuted
  <2>3. CASE p + 1 <= L /\ stream[p + 1] # 85
    <3>1. stream'[p + 1] = stream[p + 1] /\ p + 1 <= Len(stream')
      BY <2>1, <2>3
    <3>. QED
      BY <2>3, <3>1 DEF Refuted
  <2>4. CASE /\ p + PacketLen - 1 <= L
             /\ ~SuffixAt(stream, p + PacketLen - 2)
    <3>. DEFINE e == p + PacketLen - 2
    <3>1. e \in 1 .. L /\ e + 1 \in 1 .. L /\ ~SuffixAt(stream, e)
      BY <2>1, <2>4
    <3>2. p + PacketLen - 1 <= Len(stream')
      BY <2>1, <2>4
    <3>. HIDE DEF e
    <3>3. stream'[e] = stream[e] /\ stream'[e + 1] = stream[e + 1]
      BY <2>1, <3>1
    <3>4. ~SuffixAt(stream', e)
      BY <2>1, <3>1, <3>3 DEF SuffixAt
    <3>. QED
      BY <3>2, <3>4 DEF Refuted, e
  <2>. QED
    BY <1>2, <2>2, <2>3, <2>4 DEF Refuted
<1>. QED
  BY <1>1, <1>2

\* No frame begins before the first prefix of the buffer.
LEMMA RefutedBeforePrefix ==
    ASSUME TailInv, NEW i \in 1 .. Len(buf),
           \A j \in 1 .. i - 1 : ~PrefixAt(buf, j)
    PROVE  \A p \in taken + 1 .. taken + i - 1 : Refuted(p)
<1>1. SUFFICES ASSUME NEW p \in taken + 1 .. taken + i - 1
               PROVE  Refuted(p)
  OBVIOUS
<1>. DEFINE L == Len(buf)
<1>2. PICK j \in 1 .. i - 1 : p = taken + j
  BY DEF TailInv
<1>3. /\ L \in Nat /\ taken \in Nat /\ j \in 1 .. L /\ j + 1 \in 1 .. L
      /\ p + 1 <= Len(stream) /\ p + 1 = taken + (j + 1)
  BY <1>2 DEF TailInv
<1>4. buf[j] = stream[p] /\ buf[j + 1] = stream[p + 1]
  BY <1>2, <1>3 DEF TailInv
<1>5. buf[j] # 170 \/ buf[j + 1] # 85
  BY <1>2, <1>3 DEF PrefixAt
<1>. QED
  BY <1>3, <1>4, <1>5 DEF Refuted

\* Cutting bytes whose fate is settled keeps the invariant.
LEMMA CutKeepsInv ==
    ASSUME TailInv, TakenInv, NEW n \in 0 .. Len(buf), Cut(n),
           stream' = stream, frames \subseteq frames', splitting' \in BOOLEAN,
           ~splitting' => Len(buf) - n < PacketLen,
           \A p \in taken + 1 .. taken + n : (Covered(p) \/ Refuted(p))'
    PROVE  TailInv' /\ TakenInv'
<1>1. TailInv'
  BY CutLeavesTail DEF TailInv
<1>2. ASSUME NEW p \in 1 .. taken'
      PROVE  (Covered(p) \/ Refuted(p))'
  <2>1. taken' = taken + n /\ taken \in Nat /\ n \in Nat /\ taken <= Len(stream)
    BY DEF Cut, TailInv
  <2>2. CASE p \in 1 .. taken
    <3>1. Covered(p) \/ Refuted(p)
      BY <2>2 DEF TakenInv
    <3>2. p \in 1 .. Len(stream)
      BY <2>1, <2>2
    <3>. QED
      BY <3>1, <3>2, SettledStays DEF TailInv
  <2>3. CASE p \in taken + 1 .. taken + n
    BY <2>3
  <2>. QED
    BY <2>1, <2>2, <2>3
<1>. QED
  BY <1>1, <1>2 DEF TakenInv

LEMMA InitFraming == Init => FramingInv
<1>. SUFFICES ASSUME Init PROVE FramingInv
  OBVIOUS
<1>1. /\ buf = <<>> /\ stream = <<>> /\ taken = 0 /\ frames = {}
      /\ splitting = FALSE
  BY DEF Init
<1>2. TailInv
  <2>1. buf \in Seq(Int) /\ stream \in Seq(Int) /\ Len(buf) = 0 /\ Len(stream) = 0
    BY <1>1
  <2>2. splitting \in BOOLEAN
    BY <1>1, Zenon
  <2>3. 0 < PacketLen
    OBVIOUS
  <2>. QED
    BY <1>1, <2>1, <2>2, <2>3 DEF TailInv
<1>3. FramesInv /\ TakenInv
  BY <1>1 DEF FramesInv, TakenInv
<1>. QED
  BY <1>2, <1>3 DEF FramingInv

LEMMA FeedKeeps ==
    ASSUME FramingInv, NEW n \in 1 .. MaxChunk, NEW chunk \in [1 .. n -> Bytes],
           Feed(chunk)
    PROVE  FramingInv'
<1>. USE DEF FramingInv
<1>1. chunk \in Seq(Int) /\ Len(chunk) \in Nat
  <2>1. n \in Nat /\ Bytes \subseteq Int
    OBVIOUS
  <2>2. chunk \in Seq(Bytes) /\ Len(chunk) = n
    BY <2>1
  <2>3. \A i \in 1 .. n : chunk[i] \in Int
    BY <2>1
  <2>4. chunk \in [1 .. n -> Int]
    BY <2>3
  <2>. QED
    BY <2>1, <2>2, <2>4
<1>2. TailInv'
  <2>. DEFINE L == Len(buf)  M == Len(stream)  C == Len(chunk)
  <2>1. /\ L \in Nat /\ M \in Nat /\ C \in Nat /\ taken \in Nat /\ taken + L = M
        /\ \A i \in 1 .. L : buf[i] = stream[taken + i]
    BY <1>1 DEF TailInv
  <2>2. /\ buf' \in Seq(Int) /\ Len(buf') = L + C
        /\ \A i \in 1 .. L + C : buf'[i] = IF i <= L THEN buf[i] ELSE chunk[i - L]
    BY <1>1, ConcatProperties DEF Feed, TailInv
  <2>3. /\ stream' \in Seq(Int) /\ Len(stream') = M + C
        /\ \A i \in 1 .. M + C : stream'[i] = IF i <= M THEN stream[i] ELSE chunk[i - M]
    BY <1>1, ConcatProperties DEF Feed, TailInv
  <2>. HIDE DEF L, M, C
  <2>4. ASSUME NEW i \in 1 .. L + C
        PROVE  buf'[i] = stream'[taken + i]
    <3>. DEFINE k == taken + i
    <3>1. /\ k \in 1 .. M + C /\ i \in Int
          /\ (i <= L <=> k <= M) /\ i - L = k - M
      BY <2>1
    <3>2. i <= L => buf[i] = stream[k]
      BY <2>1
    <3>. HIDE DEF k
    <3>3. stream'[k] = IF k <= M THEN stream[k] ELSE chunk[k - M]
      BY <2>3, <3>1
    <3>4. buf'[i] = IF i <= L THEN buf[i] ELSE chunk[i - L]
      BY <2>2
    <3>5. buf'[i] = stream'[k]
      BY <3>1, <3>2, <3>3, <3>4
    <3>. QED
      BY <3>5 DEF k
  <2>5. taken' = taken /\ splitting' = TRUE
    BY DEF Feed
  <2>. QED
    BY <2>1, <2>2, <2>3, <2>4, <2>5 DEF TailInv
<1>3. /\ stream' \in Seq(Int) /\ Len(stream) <= Len(stream')
      /\ \A i \in 1 .. Len(stream) : stream'[i] = stream[i]
      /\ Len(stream) \in Nat /\ Len(stream') \in Nat
  BY <1>1, ConcatProperties DEF Feed, TailInv
<1>4. FramesInv'
  <2>1. frames' = frames /\ taken' = taken
    BY DEF Feed
  <2>2. ASSUME NEW p \in frames
        PROVE  p > 0 /\ FrameAt(p)' /\ p + PacketLen - 1 <= taken
    <3>. DEFINE e == p + PacketLen - 2
    <3>1. p \in Nat /\ p > 0 /\ FrameAt(p) /\ p + PacketLen - 1 <= taken
      BY DEF FramesInv
    <3>2. /\ p \in 1 .. Len(stream) /\ p + 1 \in 1 .. Len(stream)
          /\ e \in 1 .. Len(stream) /\ e + 1 \in 1 .. Len(stream)
      <4>1. e + 1 <= Len(stream)
        BY <3>1 DEF FrameAt, FrameIn, SuffixAt
      <4>2. Len(stream) \in Nat /\ p \in Nat /\ p > 0
        BY <1>3, <3>1
      <4>. QED
        BY <4>1, <4>2
    <3>3. PrefixAt(stream, p) /\ SuffixAt(stream, e)
      BY <3>1 DEF FrameAt, FrameIn
    <3>. HIDE DEF e
    <3>4. PrefixAt(stream', p)
      BY <1>3, <3>2, <3>3 DEF PrefixAt
    <3>5. SuffixAt(stream', e)
      BY <1>3, <3>2, <3>3 DEF SuffixAt
    <3>. QED
      BY <3>1, <3>4, <3>5 DEF FrameAt, FrameIn, e
  <2>. QED
    BY <2>1, <2>2 DEF FramesInv
<1>5. TakenInv'
  <2>1. taken' = taken /\ frames' = frames
    BY DEF Feed
  <2>2. ASSUME NEW p \in 1 .. taken
        PROVE  (Covered(p) \/ Refuted(p))'
    <3>1. (Covered(p) \/ Refuted(p)) /\ p \in 1 .. Len(stream)
      BY DEF TakenInv, TailInv
    <3>. QED
      BY <1>3, <2>1, <3>1, SettledStays
  <2>. QED
    BY <2>1, <2>2 DEF TakenInv
<1>. QED
  BY <1>2, <1>4, <1>5

LEMMA NoPrefixKeeps ==
    ASSUME FramingInv, NoPrefix
    PROVE  FramingInv'
<1>. USE DEF FramingInv
<1>. DEFINE L == Len(buf)
            keep == L > 0 /\ buf[L] = 170
            n == IF keep THEN L - 1 ELSE L
<1>1. L \in Nat /\ taken \in Nat /\ n \in 0 .. L /\ L - n <= 1
  BY DEF TailInv
<1>2. Cut(n)
  <2>1. buf # <<>> <=> L > 0
    BY DEF TailInv
  <2>. QED
    BY <2>1 DEF NoPrefix
<1>3. stream' = stream /\ frames' = frames /\ splitting' = FALSE
  BY DEF NoPrefix
<1>4. ASSUME NEW p \in taken + 1 .. taken + n
      PROVE  Refuted(p)
  <2>1. CASE p < taken + L
    <3>1. L \in 1 .. L /\ \A j \in 1 .. L - 1 : ~PrefixAt(buf, j)
      BY <1>1, <2>1 DEF NoPrefix
    <3>. QED
      BY <1>1, <2>1, <3>1, RefutedBeforePrefix
  <2>2. CASE p = taken + L
    <3>1. L \in 1 .. L /\ buf[L] # 170
      BY <1>1, <2>2
    <3>. QED
      BY <2>2, <3>1 DEF Refuted, TailInv
  <2>. QED
    BY <1>1, <2>1, <2>2
<1>5. \A p \in taken + 1 .. taken + n : (Covered(p) \/ Refuted(p))'
  BY <1>3, <1>4 DEF Refuted
<1>6. TailInv' /\ TakenInv'
  <2>1. splitting' \in BOOLEAN
    BY <1>3, Zenon
  <2>2. L - n < PacketLen
    BY <1>1
  <2>. HIDE DEF n
  <2>. QED
    BY <1>1, <1>2, <1>3, <1>5, <2>1, <2>2, CutKeepsInv
<1>7. FramesInv'
  <2>1. taken' \in Nat /\ taken <= taken'
    BY <1>1, <1>2 DEF Cut
  <2>. QED
    BY <1>1, <1>3, <2>1 DEF FramesInv, FrameAt, FrameIn
<1>. QED
  BY <1>6, <1>7

LEMMA IncompleteKeeps ==
    ASSUME FramingInv, NEW i \in 1 .. Len(buf), Incomplete(i)
    PROVE  FramingInv'
<1>. USE DEF FramingInv
<1>1. /\ Len(buf) \in Nat /\ taken \in Nat /\ i - 1 \in 0 .. Len(buf)
      /\ Len(buf) - (i - 1) < PacketLen /\ taken + (i - 1) = taken + i - 1
  BY DEF TailInv, Incomplete
<1>2. /\ Cut(i - 1) /\ stream' = stream /\ frames' = frames /\ splitting' = FALSE
      /\ splitting' \in BOOLEAN
  BY DEF Incomplete
<1>3. \A p \in taken + 1 .. taken + i - 1 : Refuted(p)
  BY RefutedBeforePrefix DEF Incomplete, Found
<1>4. \A p \in taken + 1 .. taken + (i - 1) : (Covered(p) \/ Refuted(p))'
  BY <1>1, <1>2, <1>3 DEF Refuted
<1>5. TailInv' /\ TakenInv'
  BY <1>1, <1>2, <1>4, CutKeepsInv
<1>6. FramesInv'
  <2>1. taken' \in Nat /\ taken <= taken'
    BY <1>1, <1>2 DEF Cut
  <2>. QED
    BY <1>1, <1>2, <2>1 DEF FramesInv, FrameAt, FrameIn
<1>. QED
  BY <1>5, <1>6

LEMMA SlideKeeps ==
    ASSUME FramingInv, NEW i \in 1 .. Len(buf), Slide(i)
    PROVE  FramingInv'
<1>. USE DEF FramingInv
<1>1. /\ Len(buf) \in Nat /\ taken \in Nat /\ i \in 0 .. Len(buf)
      /\ taken + Len(buf) = Len(stream)
  BY DEF TailInv
<1>2. /\ Cut(i) /\ stream' = stream /\ frames' = frames /\ splitting' = splitting
      /\ splitting = TRUE /\ Len(buf) - i + 1 >= PacketLen
      /\ ~SuffixAt(buf, i + PacketLen - 2)
  BY DEF Slide, TailInv
<1>3. \A p \in taken + 1 .. taken + i - 1 : Refuted(p)
  BY RefutedBeforePrefix DEF Slide, Found
<1>4. Refuted(taken + i)
  <2>. DEFINE e == i + PacketLen - 2
              f == taken + i + PacketLen - 2
  <2>1. /\ e \in 1 .. Len(buf) /\ e + 1 \in 1 .. Len(buf) /\ f = taken + e
        /\ f + 1 = taken + (e + 1) /\ f + 1 <= Len(stream)
        /\ taken + i + PacketLen - 1 = f + 1
    BY <1>1, <1>2
  <2>2. ~SuffixAt(buf, e)
    BY <1>2
  <2>. HIDE DEF e, f
  <2>3. buf[e] = stream[f] /\ buf[e + 1] = stream[f + 1]
    BY <2>1 DEF TailInv
  <2>4. ~SuffixAt(stream, f)
    BY <2>1, <2>2, <2>3 DEF SuffixAt
  <2>. QED
    BY <2>1, <2>4 DEF Refuted, f
<1>5. \A p \in taken + 1 .. taken + i : (Covered(p) \/ Refuted(p))'
  <2>1. ASSUME NEW p \in taken + 1 .. taken + i
        PROVE  Refuted(p)
    BY <1>1, <1>3, <1>4
  <2>. QED
    BY <1>2, <2>1 DEF Refuted
<1>6. TailInv' /\ TakenInv'
  <2>1. splitting' \in BOOLEAN /\ splitting'
    BY <1>2, Zenon
  <2>. QED
    BY <1>1, <1>2, <1>5, <2>1, CutKeepsInv
<1>7. FramesInv'
  <2>1. taken' \in Nat /\ taken <= taken'
    BY <1>1, <1>2 DEF Cut
  <2>. QED
    BY <1>1, <1>2, <2>1 DEF FramesInv, FrameAt, FrameIn
<1>. QED
  BY <1>6, <1>7

LEMMA AcceptKeeps ==
    ASSUME FramingInv, NEW i \in 1 .. Len(buf), Accept(i)
    PROVE  FramingInv'
<1>. USE DEF FramingInv
<1>. DEFINE n == i + PacketLen - 1
            q == taken + i
<1>1. /\ Len(buf) \in Nat /\ taken \in Nat /\ n \in 0 .. Len(buf)
      /\ taken + Len(buf) = Len(stream) /\ q \in Nat /\ q > taken
      /\ taken + n = q + PacketLen - 1
  BY DEF TailInv, Accept
<1>2. /\ Cut(n) /\ stream' = stream /\ frames' = frames \cup {q}
      /\ splitting' = splitting /\ splitting = TRUE
  BY DEF Accept, TailInv
<1>3. FrameAt(q)
  <2>. DEFINE e == i + PacketLen - 2
              f == q + PacketLen - 2
  <2>1. /\ i \in 1 .. Len(buf) /\ i + 1 \in 1 .. Len(buf)
        /\ buf[i] = 170 /\ buf[i + 1] = 85
    BY DEF Accept, Found, PrefixAt
  <2>2. e \in 1 .. Len(buf) /\ e + 1 \in 1 .. Len(buf) /\ SuffixAt(buf, e)
    BY DEF Accept, SuffixAt
  <2>3. /\ q = taken + i /\ q + 1 = taken + (i + 1) /\ q + 1 <= Len(stream)
        /\ f = taken + e /\ f + 1 = taken + (e + 1) /\ f + 1 <= Len(stream)
    BY <1>1, <2>1, <2>2
  <2>. HIDE DEF e, f, q
  <2>4. stream[q] = 170 /\ stream[q + 1] = 85
    <3>1. buf[i] = stream[taken + i] /\ buf[i + 1] = stream[taken + (i + 1)]
      BY <2>1 DEF TailInv
    <3>. QED
      BY <2>1, <2>3, <3>1
  <2>5. stream[f] = 13 /\ stream[f + 1] = 13
    BY <2>2, <2>3 DEF TailInv, SuffixAt
  <2>. QED
    BY <2>3, <2>4, <2>5 DEF FrameAt, FrameIn, PrefixAt, SuffixAt, f
<1>4. \A p \in taken + 1 .. taken + n : (Covered(p) \/ Refuted(p))'
  <2>0. \A p \in taken + 1 .. taken + i - 1 : Refuted(p)
    BY RefutedBeforePrefix DEF Accept, Found
  <2>1. ASSUME NEW p \in taken + 1 .. taken + i - 1
        PROVE  Refuted(p)'
    <3>1. Refuted(p)
      BY <2>0
    <3>. QED
      BY <1>2, <3>1 DEF Refuted
  <2>2. ASSUME NEW p \in q .. q + PacketLen - 1
        PROVE  Covered(p)'
    <3>1. q \in frames' /\ q <= p /\ p < q + PacketLen
      BY <1>1, <1>2
    <3>. HIDE DEF q
    <3>. QED
      BY <3>1 DEF Covered
  <2>. QED
    BY <1>1, <2>1, <2>2
<1>5. TailInv' /\ TakenInv'
  <2>1. splitting' \in BOOLEAN /\ splitting'
    BY <1>2, Zenon
  <2>2. frames \subseteq frames'
    BY <1>2
  <2>. HIDE DEF n, q
  <2>. QED
    BY <1>1, <1>2, <1>4, <2>1, <2>2, CutKeepsInv
<1>6. FramesInv'
  <2>. HIDE DEF n, q
  <2>1. taken' = q + PacketLen - 1
    BY <1>1, <1>2 DEF Cut
  <2>2. \A p \in frames : p \in Nat /\ p + PacketLen <= q
    BY <1>1 DEF FramesInv
  <2>3. \A p \in frames' : p > 0 /\ FrameAt(p)' /\ p + PacketLen - 1 <= taken'
    BY <1>1, <1>2, <1>3, <2>1, <2>2 DEF FramesInv, FrameAt, FrameIn
  <2>. QED
    BY <1>1, <1>2, <2>2, <2>3 DEF FramesInv
<1>. QED
  BY <1>5, <1>6

\* The inductive invariant of the framing.
THEOREM FramingInvariant == Spec => []FramingInv
<1>1. ASSUME FramingInv, [Next]_vars
      PROVE  FramingInv'
  <2>1. ASSUME NEW chunk \in UNION {[1 .. n -> Bytes] : n \in 1 .. MaxChunk}, Feed(chunk)
        PROVE  FramingInv'
    <3>1. PICK n \in 1 .. MaxChunk : chunk \in [1 .. n -> Bytes]
      OBVIOUS
    <3>. QED
      BY <1>1, <2>1, <3>1, FeedKeeps
  <2>2. CASE NoPrefix
    BY <1>1, <2>2, NoPrefixKeeps
  <2>3. ASSUME NEW i \in 1 .. Len(buf), Incomplete(i)
        PROVE  FramingInv'
    BY <1>1, <2>3, IncompleteKeeps
  <2>4. ASSUME NEW i \in 1 .. Len(buf), Slide(i)
        PROVE  FramingInv'
    BY <1>1, <2>4, SlideKeeps
  <2>5. ASSUME NEW i \in 1 .. Len(buf), Accept(i)
        PROVE  FramingInv'
    BY <1>1, <2>5, AcceptKeeps
  <2>6. CASE Reconnect
    BY <1>1, <2>6 DEF Reconnect, FramingInv, TailInv, FramesInv, TakenInv,
                      FrameAt, FrameIn, Covered, Refuted
  <2>7. CASE UNCHANGED vars
    BY <1>1, <2>7 DEF vars, FramingInv, TailInv, FramesInv, TakenInv,
                      FrameAt, FrameIn, Covered, Refuted
  <2>. QED
    BY <1>1, <2>1, <2>2, <2>3, <2>4, <2>5, <2>6, <2>7 DEF Next, Turn
<1>. QED
  BY <1>1, InitFraming, PTL DEF Spec

\* The buffer holds the end of the stream, and less than one frame between
\* two calls of feed (controller.py, _split_buf).
THEOREM BufferHoldsTail == Spec => []BufferIsTail
<1>1. FramingInv => BufferIsTail
  BY DEF FramingInv, TailInv, BufferIsTail
<1>. QED
  BY <1>1, FramingInvariant, PTL

\* Every frame handed to _dispatch_packet stands in the stream, and no two
\* share a byte.
THEOREM FoundFramesAreReal == Spec => []FramesAreReal
<1>1. FramingInv => FramesAreReal
  BY DEF FramingInv, FramesInv, FramesAreReal
<1>. QED
  BY <1>1, FramingInvariant, PTL

\* Whatever the chunks and the noise, feed misses no frame but those that
\* overlap an earlier one.
THEOREM NoFrameIsLost == Spec => []NothingLost
<1>1. ASSUME FramingInv, ~splitting, NEW p \in 1 .. Len(stream), FrameAt(p)
      PROVE  \E q \in frames : q <= p /\ p < q + PacketLen
  <2>1. /\ Len(stream) \in Nat /\ taken \in Nat /\ Len(buf) \in Nat
        /\ Len(buf) < PacketLen /\ taken + Len(buf) = Len(stream)
    BY <1>1 DEF FramingInv, TailInv
  <2>2. p + PacketLen - 1 <= Len(stream)
    BY <1>1 DEF FrameAt, FrameIn, SuffixAt
  <2>3. p \in 1 .. taken
    BY <2>1, <2>2
  <2>4. ~Refuted(p)
    BY <1>1 DEF Refuted, FrameAt, FrameIn, PrefixAt
  <2>. QED
    BY <1>1, <2>3, <2>4 DEF FramingInv, TakenInv, Covered
<1>2. FramingInv => NothingLost
  BY <1>1 DEF NothingLost
<1>. QED
  BY <1>2, FramingInvariant, PTL

\* Every variable of the framing keeps its type, and only what was found as a
\* frame is dispatched (_split_buf, _dispatch_packet).
THEOREM FramingTypeCorrect == Spec => []TypeOK
<1>1. Init => TypeOK
  <2>. SUFFICES ASSUME Init PROVE TypeOK
    OBVIOUS
  <2>1. splitting \in BOOLEAN
    BY Zenon DEF Init
  <2>. QED
    BY <2>1 DEF Init, TypeOK
<1>2. ASSUME TypeOK, FramingInv, [Next]_vars
      PROVE  TypeOK'
  <2>0. /\ Len(buf) \in Nat /\ taken \in Nat /\ buf \in Seq(Bytes)
        /\ stream \in Seq(Bytes) /\ frames \subseteq Nat /\ delivered \subseteq frames
        /\ base \in Nat /\ splitting \in BOOLEAN
    BY <1>2 DEF TypeOK
  <2>1. ASSUME NEW n \in 0 .. Len(buf), Cut(n)
        PROVE  buf' \in Seq(Bytes) /\ taken' \in Nat
    <3>1. \A i \in n + 1 .. Len(buf) : buf[i] \in Bytes
      BY <2>0
    <3>2. buf' = SubSeq(buf, n + 1, Len(buf)) /\ n + 1 \in Int /\ Len(buf) \in Int
      BY <2>0, <2>1 DEF Cut
    <3>3. SubSeq(buf, n + 1, Len(buf)) \in Seq(Bytes)
      BY <3>1, <3>2, SubSeqProperties
    <3>. QED
      BY <2>0, <2>1, <3>2, <3>3 DEF Cut
  <2>2. ASSUME NEW chunk \in UNION {[1 .. n -> Bytes] : n \in 1 .. MaxChunk}, Feed(chunk)
        PROVE  TypeOK'
    <3>1. PICK n \in 1 .. MaxChunk : chunk \in [1 .. n -> Bytes]
      OBVIOUS
    <3>2. chunk \in Seq(Bytes)
      BY <3>1
    <3>3. buf' \in Seq(Bytes) /\ stream' \in Seq(Bytes)
      BY <2>0, <2>2, <3>2, ConcatProperties DEF Feed
    <3>4. splitting' \in BOOLEAN
      BY <2>2, Zenon DEF Feed
    <3>. QED
      BY <2>0, <2>2, <3>3, <3>4 DEF Feed, TypeOK
  <2>3. CASE NoPrefix
    <3>. DEFINE n == IF buf # <<>> /\ buf[Len(buf)] = 170 THEN Len(buf) - 1 ELSE Len(buf)
    <3>1. n \in 0 .. Len(buf) /\ Cut(n)
      BY <2>0, <2>3 DEF NoPrefix
    <3>. HIDE DEF n
    <3>2. buf' \in Seq(Bytes) /\ taken' \in Nat
      BY <2>1, <3>1
    <3>3. splitting' \in BOOLEAN
      BY <2>3, Zenon DEF NoPrefix
    <3>. QED
      BY <2>0, <2>3, <3>2, <3>3 DEF NoPrefix, TypeOK
  <2>4. ASSUME NEW i \in 1 .. Len(buf), Incomplete(i)
        PROVE  TypeOK'
    <3>1. i - 1 \in 0 .. Len(buf) /\ Cut(i - 1)
      BY <2>0, <2>4 DEF Incomplete
    <3>2. buf' \in Seq(Bytes) /\ taken' \in Nat
      BY <2>1, <3>1
    <3>3. splitting' \in BOOLEAN
      BY <2>4, Zenon DEF Incomplete
    <3>. QED
      BY <2>0, <2>4, <3>2, <3>3 DEF Incomplete, TypeOK
  <2>5. ASSUME NEW i \in 1 .. Len(buf), Slide(i)
        PROVE  TypeOK'
    <3>1. buf' \in Seq(Bytes) /\ taken' \in Nat
      BY <2>0, <2>1, <2>5 DEF Slide
    <3>. QED
      BY <2>0, <2>5, <3>1 DEF Slide, TypeOK
  <2>6. ASSUME NEW i \in 1 .. Len(buf), Accept(i)
        PROVE  TypeOK'
    <3>1. i + PacketLen - 1 \in 0 .. Len(buf) /\ Cut(i + PacketLen - 1)
      BY <2>0, <2>6 DEF Accept
    <3>2. buf' \in Seq(Bytes) /\ taken' \in Nat
      BY <2>1, <3>1
    <3>3. frames' \subseteq Nat /\ delivered' \subseteq frames' /\ taken + i \in Nat
      BY <2>0, <2>6 DEF Accept
    <3>. QED
      BY <2>0, <2>6, <3>2, <3>3 DEF Accept, TypeOK
  <2>7. CASE Reconnect
    BY <2>0, <2>7 DEF Reconnect, TypeOK
  <2>8. CASE UNCHANGED vars
    BY <2>0, <2>8 DEF vars, TypeOK
  <2>. QED
    BY <1>2, <2>2, <2>3, <2>4, <2>5, <2>6, <2>7, <2>8 DEF Next, Turn
<1>. QED
  BY <1>1, <1>2, FramingInvariant, PTL DEF Spec

----------------------------------------------------------------------------
(* What is found is determined by the stream.  Selected is recursive; what  *)
(* it selects is shown to be the one solution of its equation, existence    *)
(* and uniqueness by the least counterexample.                              *)

\* F is what is selected among the first n bytes of s.
Solves(s, n, F) ==
    /\ F \in SUBSET (1 .. n)
    /\ \A p \in 1 .. n :
          p \in F <=> FrameIn(s, p) /\ \A q \in 1 .. p - 1 : p < q + PacketLen => q \notin F

\* A set of natural numbers that is not empty has a least element.
LEMMA LeastNatural ==
    ASSUME NEW B \in SUBSET Nat, B # {}
    PROVE  \E n \in B : \A m \in B : n <= m
<1>1. OpToRel(<, Nat) = {ss \in Nat \X Nat : ss[1] < ss[2]}
  BY DEF OpToRel
<1>2. PICK n \in B : \A m \in B : ~(<<m, n>> \in OpToRel(<, Nat))
  BY WFMin, NatLessThanWellFounded
<1>3. ASSUME NEW m \in B
      PROVE  n <= m
  <2>1. <<m, n>> \in Nat \X Nat
    OBVIOUS
  <2>2. ~(<<m, n>> \in {ss \in Nat \X Nat : ss[1] < ss[2]})
    BY <1>1, <1>2
  <2>. QED
    BY <2>1, <2>2
<1>. QED
  BY <1>3

\* Two selections agree where both are defined.
LEMMA SolutionIsUnique ==
    ASSUME NEW s, NEW n \in Nat, NEW m \in Nat, n <= m,
           NEW F, NEW H, Solves(s, n, F), Solves(s, m, H)
    PROVE  F = {p \in H : p <= n}
<1>. DEFINE Bad == {p \in 1 .. n : ~(p \in F <=> p \in H)}
<1>1. SUFFICES ASSUME Bad # {} PROVE FALSE
  <2>1. F \subseteq 1 .. n /\ H \subseteq 1 .. m
    BY DEF Solves
  <2>2. ASSUME Bad = {}
        PROVE  \A p \in 1 .. n : p \in F <=> p \in H
    BY <2>2
  <2>3. \A p \in 1 .. m : p <= n <=> p \in 1 .. n
    OBVIOUS
  <2>. HIDE DEF Bad
  <2>4. Bad = {} => F = {p \in H : p <= n}
    BY <2>1, <2>2, <2>3
  <2>. QED
    BY <2>4
<1>2. PICK p \in Bad : \A q \in Bad : p <= q
  <2>1. Bad \in SUBSET Nat
    OBVIOUS
  <2>. HIDE DEF Bad
  <2>. QED
    BY <1>1, <2>1, LeastNatural
<1>3. p \in 1 .. n /\ p \in 1 .. m /\ \A q \in 1 .. p - 1 : q \in F <=> q \in H
  BY <1>2
<1>4. /\ p \in F <=> FrameIn(s, p) /\ \A q \in 1 .. p - 1 : p < q + PacketLen => q \notin F
      /\ p \in H <=> FrameIn(s, p) /\ \A q \in 1 .. p - 1 : p < q + PacketLen => q \notin H
  BY <1>3 DEF Solves
<1>5. p \in F <=> p \in H
  <2>. HIDE DEF Bad
  <2>. QED
    BY <1>3, <1>4
<1>. QED
  BY <1>2, <1>5

\* There is a selection for any number of bytes.
LEMMA SolutionExists ==
    ASSUME NEW s, NEW n \in Nat
    PROVE  \E F : Solves(s, n, F)
<1>. DEFINE Bad == {k \in Nat : ~\E F : Solves(s, k, F)}
<1>1. SUFFICES ASSUME Bad # {} PROVE FALSE
  OBVIOUS
<1>2. PICK k \in Bad : \A j \in Bad : k <= j
  <2>1. Bad \in SUBSET Nat
    OBVIOUS
  <2>. HIDE DEF Bad
  <2>. QED
    BY <1>1, <2>1, LeastNatural
<1>3. CASE k = 0
  <2>1. Solves(s, 0, {})
    BY DEF Solves
  <2>. QED
    BY <1>2, <1>3, <2>1
<1>4. CASE k > 0
  <2>1. k \in Nat /\ k - 1 \in Nat /\ k - 1 \notin Bad
    BY <1>2, <1>4
  <2>2. PICK F : Solves(s, k - 1, F)
    BY <2>1
  <2>3. F \subseteq 1 .. k - 1
    BY <2>2 DEF Solves
  <2>. DEFINE Takes == FrameIn(s, k) /\ \A q \in 1 .. k - 1 : k < q + PacketLen => q \notin F
              H == IF Takes THEN F \cup {k} ELSE F
  <2>4. H \in SUBSET (1 .. k) /\ (k \in H <=> Takes) /\ \A q \in 1 .. k - 1 : q \in H <=> q \in F
    BY <2>1, <2>3
  <2>. HIDE DEF H
  <2>5. ASSUME NEW p \in 1 .. k
        PROVE  p \in H <=> FrameIn(s, p) /\ \A q \in 1 .. p - 1 : p < q + PacketLen => q \notin H
    <3>1. CASE p = k
      BY <2>1, <2>4, <3>1
    <3>2. CASE p # k
      <4>1. p \in 1 .. k - 1 /\ \A q \in 1 .. p - 1 : q \in 1 .. k - 1
        BY <2>1, <3>2
      <4>. HIDE DEF Takes
      <4>2. p \in F <=> FrameIn(s, p) /\ \A q \in 1 .. p - 1 : p < q + PacketLen => q \notin F
        BY <2>2, <4>1 DEF Solves
      <4>. QED
        BY <2>4, <4>1, <4>2
    <3>. QED
      BY <3>1, <3>2
  <2>6. Solves(s, k, H)
    BY <2>4, <2>5 DEF Solves
  <2>. QED
    BY <1>2, <2>6
<1>. QED
  BY <1>2, <1>3, <1>4

\* Selected satisfies its equation.
LEMMA SelectedSolves ==
    ASSUME NEW s, Len(s) \in Nat
    PROVE  Solves(s, Len(s), Selected(s))
<1>. DEFINE S == 1 .. Len(s)
            sel == CHOOSE sel : sel = [p \in S |->
                     FrameIn(s, p) /\ \A q \in 1 .. p - 1 : p < q + PacketLen => ~sel[q]]
<1>1. Selected(s) = {p \in S : sel[p]}
  BY DEF Selected
<1>2. PICK F : Solves(s, Len(s), F)
  BY SolutionExists
<1>. DEFINE f == [p \in S |-> p \in F]
<1>3. f = [p \in S |-> FrameIn(s, p) /\ \A q \in 1 .. p - 1 : p < q + PacketLen => ~f[q]]
  <2>1. ASSUME NEW p \in S
        PROVE  (p \in F) = (FrameIn(s, p) /\ \A q \in 1 .. p - 1 : p < q + PacketLen => ~f[q])
    <3>1. p \in Nat /\ p <= Len(s)
      OBVIOUS
    <3>2. \A q \in 1 .. p - 1 : q \in S
      BY <3>1
    <3>3. \A q \in S : f[q] = (q \in F)
      OBVIOUS
    <3>4. p \in F <=> FrameIn(s, p) /\ \A q \in 1 .. p - 1 : p < q + PacketLen => q \notin F
      BY <1>2 DEF Solves
    <3>. HIDE DEF f
    <3>5. (\A q \in 1 .. p - 1 : p < q + PacketLen => ~f[q])
             <=> (\A q \in 1 .. p - 1 : p < q + PacketLen => q \notin F)
      BY <3>2, <3>3
    <3>. QED
      BY <3>4, <3>5
  <2>. QED
    BY <2>1
<1>4. sel = [p \in S |-> FrameIn(s, p) /\ \A q \in 1 .. p - 1 : p < q + PacketLen => ~sel[q]]
  <2>. HIDE DEF f
  <2>. QED
    BY <1>3, Zenon
<1>. HIDE DEF sel
<1>5. ASSUME NEW p \in S
      PROVE  p \in Selected(s) <=>
               /\ FrameIn(s, p)
               /\ \A q \in 1 .. p - 1 : p < q + PacketLen => q \notin Selected(s)
  <2>1. sel[p] = (FrameIn(s, p) /\ \A q \in 1 .. p - 1 : p < q + PacketLen => ~sel[q])
    <3>. HIDE DEF S
    <3>. QED
      BY <1>4, Zenon
  <2>2. \A q \in 1 .. p - 1 : q \in S
    OBVIOUS
  <2>. QED
    BY <1>1, <2>1, <2>2
<1>6. Selected(s) \in SUBSET S
  BY <1>1
<1>. QED
  BY <1>5, <1>6 DEF Solves

\* The frames found are what is selected among the bytes taken.
LEMMA FoundAreSelected ==
    ASSUME FramingInv
    PROVE  /\ frames = {p \in Selected(stream) : p <= taken}
           /\ ~splitting => frames = Selected(stream)
<1>1. /\ taken \in Nat /\ Len(stream) \in Nat /\ taken <= Len(stream)
      /\ frames \subseteq Nat
      /\ ~splitting => Len(stream) < taken + PacketLen
  BY DEF FramingInv, TailInv, FramesInv
<1>2. frames \in SUBSET (1 .. taken)
  BY <1>1 DEF FramingInv, FramesInv
<1>3. ASSUME NEW p \in frames
      PROVE  FrameIn(stream, p) /\ \A q \in 1 .. p - 1 : p < q + PacketLen => q \notin frames
  <2>1. p \in Nat /\ FrameIn(stream, p) /\ \A q \in frames : p # q => p + PacketLen <= q \/ q + PacketLen <= p
    BY <1>3 DEF FramingInv, FramesInv, FrameAt
  <2>. QED
    BY <2>1
<1>4. ASSUME NEW p \in 1 .. taken, FrameIn(stream, p),
             \A q \in 1 .. p - 1 : p < q + PacketLen => q \notin frames
      PROVE  p \in frames
  <2>1. ~Refuted(p)
    BY <1>4 DEF Refuted, FrameIn, PrefixAt
  <2>2. PICK q \in frames : q <= p /\ p < q + PacketLen
    BY <2>1 DEF FramingInv, TakenInv, Covered
  <2>3. q \in 1 .. taken /\ (q = p \/ q \in 1 .. p - 1)
    BY <1>2, <2>2
  <2>. QED
    BY <1>4, <2>2, <2>3
<1>5. Solves(stream, taken, frames)
  BY <1>2, <1>3, <1>4 DEF Solves
<1>6. Solves(stream, Len(stream), Selected(stream))
  BY <1>1, SelectedSolves
<1>7. frames = {p \in Selected(stream) : p <= taken}
  BY <1>1, <1>5, <1>6, SolutionIsUnique
<1>8. ASSUME ~splitting, NEW p \in Selected(stream)
      PROVE  p <= taken
  <2>1. p \in 1 .. Len(stream) /\ FrameIn(stream, p)
    BY <1>6 DEF Solves
  <2>2. p + PacketLen - 2 + 1 <= Len(stream)
    BY <2>1 DEF FrameIn, SuffixAt
  <2>. QED
    BY <1>1, <1>8, <2>1, <2>2
<1>. QED
  BY <1>7, <1>8

----------------------------------------------------------------------------
(* The checksum, which stays opaque.                                       *)

\* The same bytes have the same checksum.
LEMMA SameBytesSameChecksum ==
    ASSUME NEW s \in Seq(Int), NEW t \in Seq(Int), NEW i \in Nat, NEW j \in Nat,
           i > 0, j > 0, i + PacketLen - 1 <= Len(s), j + PacketLen - 1 <= Len(t),
           \A k \in 0 .. PacketLen - 1 : s[i + k] = t[j + k]
    PROVE  ChecksumAt(s, i) <=> ChecksumAt(t, j)
<1>. DEFINE u == SubSeq(s, i + 2, i + PacketLen - 4)
            v == SubSeq(t, j + 2, j + PacketLen - 4)
<1>1. Len(s) \in Nat /\ Len(t) \in Nat
  OBVIOUS
<1>2. /\ \A k \in i + 2 .. i + PacketLen - 4 : s[k] \in Int
      /\ \A k \in j + 2 .. j + PacketLen - 4 : t[k] \in Int
  BY <1>1
<1>3. /\ u \in Seq(Int) /\ Len(u) = PacketLen - 5
      /\ \A k \in 1 .. PacketLen - 5 : u[k] = s[i + (k + 1)]
  <2>1. i + 2 \in Int /\ i + PacketLen - 4 \in Int
    OBVIOUS
  <2>2. /\ u \in Seq(Int)
        /\ Len(u) = IF i + 2 <= i + PacketLen - 4 THEN i + PacketLen - 4 - (i + 2) + 1 ELSE 0
        /\ \A k \in 1 .. i + PacketLen - 4 - (i + 2) + 1 : u[k] = s[i + 2 + k - 1]
    BY <1>2, <2>1, SubSeqProperties
  <2>. HIDE DEF u
  <2>3. ASSUME NEW k \in 1 .. PacketLen - 5 PROVE u[k] = s[i + (k + 1)]
    <3>1. k \in 1 .. i + PacketLen - 4 - (i + 2) + 1 /\ i + 2 + k - 1 = i + (k + 1)
      OBVIOUS
    <3>. QED
      BY <2>2, <3>1
  <2>. QED
    BY <2>2, <2>3
<1>4. /\ v \in Seq(Int) /\ Len(v) = PacketLen - 5
      /\ \A k \in 1 .. PacketLen - 5 : v[k] = t[j + (k + 1)]
  <2>1. j + 2 \in Int /\ j + PacketLen - 4 \in Int
    OBVIOUS
  <2>2. /\ v \in Seq(Int)
        /\ Len(v) = IF j + 2 <= j + PacketLen - 4 THEN j + PacketLen - 4 - (j + 2) + 1 ELSE 0
        /\ \A k \in 1 .. j + PacketLen - 4 - (j + 2) + 1 : v[k] = t[j + 2 + k - 1]
    BY <1>2, <2>1, SubSeqProperties
  <2>. HIDE DEF v
  <2>3. ASSUME NEW k \in 1 .. PacketLen - 5 PROVE v[k] = t[j + (k + 1)]
    <3>1. k \in 1 .. j + PacketLen - 4 - (j + 2) + 1 /\ j + 2 + k - 1 = j + (k + 1)
      OBVIOUS
    <3>. QED
      BY <2>2, <3>1
  <2>. QED
    BY <2>2, <2>3
<1>. HIDE DEF u, v
<1>5. \A k \in 1 .. PacketLen - 5 : k + 1 \in 0 .. PacketLen - 1
  OBVIOUS
<1>6. u = v
  <2>1. \A k \in 1 .. Len(u) : u[k] = v[k]
    BY <1>3, <1>4, <1>5
  <2>. QED
    BY <1>3, <1>4, <2>1, SeqEqual
<1>7. s[i + PacketLen - 3] = t[j + PacketLen - 3]
  <2>1. PacketLen - 3 \in 0 .. PacketLen - 1 /\ i + (PacketLen - 3) = i + PacketLen - 3
        /\ j + (PacketLen - 3) = j + PacketLen - 3
    OBVIOUS
  <2>. QED
    BY <2>1
<1>. QED
  BY <1>6, <1>7 DEF ChecksumAt, u, v

\* What is dispatched are the frames whose checksum is right in the stream.
DeliveredInv == delivered = {p \in frames : ChecksumAt(stream, p)}

\* The open connection began less than a frame after what was taken.
BaseInv == base \in Nat /\ base < taken + PacketLen

\* Only Accept finds a frame, and only Feed receives.
LEMMA StepsOfFraming ==
    ASSUME FramingInv, [Next]_vars
    PROVE  /\ taken' \in Nat /\ taken <= taken'
           /\ \/ /\ frames' = frames /\ delivered' = delivered
                 /\ stream' = stream \/ \E n \in 1 .. MaxChunk : \E chunk \in [1 .. n -> Bytes] : Feed(chunk)
              \/ \E i \in 1 .. Len(buf) : Accept(i) /\ stream' = stream
           /\ base' = base \/ (base' = Len(stream) /\ ~splitting /\ taken' = taken)
<1>1. taken \in Nat /\ Len(buf) \in Nat
  BY DEF FramingInv, TailInv
<1>2. ASSUME NEW chunk \in UNION {[1 .. n -> Bytes] : n \in 1 .. MaxChunk}, Feed(chunk)
      PROVE  /\ taken' = taken /\ frames' = frames /\ delivered' = delivered /\ base' = base
             /\ \E n \in 1 .. MaxChunk : \E c \in [1 .. n -> Bytes] : Feed(c)
  <2>1. PICK n \in 1 .. MaxChunk : chunk \in [1 .. n -> Bytes]
    OBVIOUS
  <2>. QED
    BY <1>2, <2>1 DEF Feed
<1>3. CASE NoPrefix
  BY <1>1, <1>3 DEF NoPrefix, Cut
<1>4. ASSUME NEW i \in 1 .. Len(buf), Incomplete(i) \/ Slide(i)
      PROVE  /\ taken' \in Nat /\ taken <= taken' /\ frames' = frames
             /\ delivered' = delivered /\ stream' = stream /\ base' = base
  BY <1>1, <1>4 DEF Incomplete, Slide, Cut
<1>5. ASSUME NEW i \in 1 .. Len(buf), Accept(i)
      PROVE  taken' \in Nat /\ taken <= taken' /\ stream' = stream /\ base' = base
  BY <1>1, <1>5 DEF Accept, Cut
<1>6. CASE Reconnect
  BY <1>1, <1>6 DEF Reconnect
<1>7. CASE UNCHANGED vars
  BY <1>1, <1>7 DEF vars
<1>. QED
  BY <1>1, <1>2, <1>3, <1>4, <1>5, <1>6, <1>7 DEF Next, Turn

\* A received chunk leaves what was received before.
LEMMA FeedExtends ==
    ASSUME FramingInv, NEW n \in 1 .. MaxChunk, NEW chunk \in [1 .. n -> Bytes],
           Feed(chunk)
    PROVE  /\ Len(stream) < Len(stream') /\ Len(stream) \in Nat /\ Len(stream') \in Nat
           /\ \A i \in 1 .. Len(stream) : stream'[i] = stream[i]
<1>1. chunk \in Seq(Int) /\ Len(chunk) = n /\ n \in Nat /\ n > 0
  <2>1. n \in Nat /\ n > 0 /\ Bytes \subseteq Int
    OBVIOUS
  <2>2. chunk \in Seq(Bytes) /\ Len(chunk) = n
    BY <2>1
  <2>3. chunk \in [1 .. n -> Int]
    BY <2>1
  <2>. QED
    BY <2>1, <2>2, <2>3
<1>. QED
  BY <1>1, ConcatProperties DEF Feed, FramingInv, TailInv

LEMMA DeliveredKeeps ==
    ASSUME FramingInv, FramingInv', DeliveredInv, [Next]_vars
    PROVE  DeliveredInv'
<1>1. ASSUME frames' = frames, delivered' = delivered,
             \A p \in frames : ChecksumAt(stream', p) <=> ChecksumAt(stream, p)
      PROVE  DeliveredInv'
  BY <1>1 DEF DeliveredInv
<1>2. CASE frames' = frames /\ delivered' = delivered /\ stream' = stream
  BY <1>1, <1>2
<1>3. ASSUME frames' = frames, delivered' = delivered,
             NEW n \in 1 .. MaxChunk, NEW chunk \in [1 .. n -> Bytes], Feed(chunk)
      PROVE  DeliveredInv'
  <2>1. /\ Len(stream) < Len(stream') /\ Len(stream) \in Nat /\ Len(stream') \in Nat
        /\ \A i \in 1 .. Len(stream) : stream'[i] = stream[i]
        /\ stream \in Seq(Int) /\ stream' \in Seq(Int) /\ taken <= Len(stream)
        /\ taken \in Nat
    BY <1>3, FeedExtends DEF FramingInv, TailInv
  <2>2. ASSUME NEW p \in frames
        PROVE  ChecksumAt(stream', p) <=> ChecksumAt(stream, p)
    <3>1. p \in Nat /\ p > 0 /\ p + PacketLen - 1 <= taken
      BY DEF FramingInv, FramesInv
    <3>2. p + PacketLen - 1 <= Len(stream) /\ p + PacketLen - 1 <= Len(stream')
      BY <2>1, <3>1
    <3>3. \A k \in 0 .. PacketLen - 1 : p + k \in 1 .. Len(stream)
      BY <2>1, <3>1, <3>2
    <3>4. \A k \in 0 .. PacketLen - 1 : stream'[p + k] = stream[p + k]
      BY <2>1, <3>3
    <3>. QED
      BY <2>1, <3>1, <3>2, <3>4, SameBytesSameChecksum
  <2>. QED
    BY <1>1, <1>3, <2>2
<1>4. ASSUME NEW i \in 1 .. Len(buf), Accept(i), stream' = stream
      PROVE  DeliveredInv'
  <2>. DEFINE q == taken + i
  <2>1. /\ buf \in Seq(Int) /\ stream \in Seq(Int) /\ taken \in Nat /\ i \in Nat /\ i > 0
        /\ taken + Len(buf) = Len(stream) /\ Len(buf) \in Nat
        /\ \A k \in 1 .. Len(buf) : buf[k] = stream[taken + k]
    <3>1. /\ buf \in Seq(Int) /\ stream \in Seq(Int) /\ taken \in Nat
          /\ taken + Len(buf) = Len(stream)
          /\ \A k \in 1 .. Len(buf) : buf[k] = stream[taken + k]
      BY DEF FramingInv, TailInv
    <3>2. Len(buf) \in Nat
      BY <3>1
    <3>3. i \in Nat /\ i > 0
      BY <3>2
    <3>. QED
      BY <3>1, <3>2, <3>3
  <2>2. /\ i + PacketLen - 1 <= Len(buf) /\ q \in Nat /\ q > 0
        /\ q + PacketLen - 1 <= Len(stream)
    BY <1>4, <2>1 DEF Accept
  <2>3. ASSUME NEW k \in 0 .. PacketLen - 1
        PROVE  buf[i + k] = stream[q + k]
    <3>0. k \in Int /\ 0 <= k /\ k <= PacketLen - 1
      OBVIOUS
    <3>1. i + k \in 1 .. Len(buf) /\ q + k = taken + (i + k)
      <4>1. /\ i \in Nat /\ i > 0 /\ taken \in Nat /\ Len(buf) \in Nat
            /\ i + PacketLen - 1 <= Len(buf)
        BY <2>1, <2>2
      <4>. QED
        BY <3>0, <4>1
    <3>2. buf[i + k] = stream[taken + (i + k)]
      BY <2>1, <3>1
    <3>. QED
      BY <3>1, <3>2
  <2>. HIDE DEF q
  <2>4. ChecksumAt(buf, i) <=> ChecksumAt(stream, q)
    BY <2>1, <2>2, <2>3, SameBytesSameChecksum
  <2>5. /\ frames' = frames \cup {q}
        /\ delivered' = IF ChecksumAt(buf, i) THEN delivered \cup {q} ELSE delivered
    BY <1>4 DEF Accept, q
  <2>. QED
    BY <1>4, <2>4, <2>5 DEF DeliveredInv
<1>. QED
  BY <1>2, <1>3, <1>4, StepsOfFraming

\* What is dispatched is determined by the bytes received, for every way to
\* cut them into chunks and for any checksum (feed, _split_buf and
\* _dispatch_packet; test_every_split_offset_for_each_report).
THEOREM ChunksDoNotMatter == Spec => []FramesOfStream
<1>1. Init => DeliveredInv
  BY DEF Init, DeliveredInv
<1>2. FramingInv /\ FramingInv' /\ DeliveredInv /\ [Next]_vars => DeliveredInv'
  BY DeliveredKeeps
<1>3. FramingInv /\ DeliveredInv => FramesOfStream
  BY FoundAreSelected DEF DeliveredInv, FramesOfStream
<1>. QED
  BY <1>1, <1>2, <1>3, FramingInvariant, PTL DEF Spec

\* No frame is found that was complete before the open connection began.
THEOREM FramesEndFresh == Spec => FrameEndsFresh
<1>1. Init => BaseInv
  BY DEF Init, BaseInv
<1>2. ASSUME FramingInv, BaseInv, [Next]_vars
      PROVE  BaseInv'
  <2>1. CASE base' = base
    BY <1>2, <2>1, StepsOfFraming DEF BaseInv, FramingInv, TailInv
  <2>2. CASE base' = Len(stream) /\ ~splitting /\ taken' = taken
    BY <1>2, <2>2 DEF BaseInv, FramingInv, TailInv
  <2>. QED
    BY <1>2, <2>1, <2>2, StepsOfFraming
<1>3. ASSUME FramingInv, BaseInv, [Next]_vars
      PROVE  \A p \in frames' \ frames : p + PacketLen - 1 > base
  <2>1. ASSUME NEW i \in 1 .. Len(buf), Accept(i)
        PROVE  \A p \in frames' \ frames : p + PacketLen - 1 > base
    <3>1. taken \in Nat /\ base \in Nat /\ base < taken + PacketLen /\ i \in Nat /\ i > 0
      BY <1>3 DEF BaseInv, FramingInv, TailInv
    <3>2. frames' = frames \cup {taken + i}
      BY <2>1 DEF Accept
    <3>. QED
      BY <3>1, <3>2
  <2>. QED
    BY <1>3, <2>1, StepsOfFraming
<1>4. FramingInv /\ BaseInv /\ [Next]_vars =>
          [\A p \in frames' \ frames : p + PacketLen - 1 > base]_vars
  BY <1>3
<1>. QED
  BY <1>1, <1>2, <1>4, FramingInvariant, PTL DEF Spec, FrameEndsFresh

----------------------------------------------------------------------------
(* The refinement of FrameScan.                                            *)

\* Between two chunks no frame of the stream waits to be found.
LEMMA NothingOpen ==
    ASSUME FramingInv, ~splitting
    PROVE  Scan!Open = {}
<1>1. SUFFICES ASSUME NEW p \in Scan!Open PROVE FALSE
  OBVIOUS
<1>2. /\ Len(stream) \in Nat /\ taken \in Nat /\ Len(stream) < taken + PacketLen
      /\ p \in 1 .. Len(stream) /\ Scan!FrameAt(p)
      /\ \A q \in frames : p < q \/ q + PacketLen <= p
  BY DEF FramingInv, TailInv, Scan!Open
<1>3. p \in 1 .. taken
  BY <1>2 DEF Scan!FrameAt
<1>4. ~Refuted(p)
  BY <1>2 DEF Refuted, Scan!FrameAt, SuffixAt
<1>5. PICK q \in frames : q <= p /\ p < q + PacketLen
  BY <1>3, <1>4 DEF FramingInv, TakenInv, Covered
<1>. QED
  BY <1>2, <1>5 DEF FramingInv, FramesInv

\* What Accept finds is the first frame that waits.
LEMMA AcceptFinds ==
    ASSUME FramingInv, NEW i \in 1 .. Len(buf), Accept(i)
    PROVE  \E p \in Scan!Open : Scan!Find(p)
<1>. DEFINE p == taken + i
<1>1. /\ taken \in Nat /\ Len(buf) \in Nat /\ Len(stream) = taken + Len(buf)
      /\ i \in Nat /\ i > 0 /\ p \in 1 .. Len(stream) /\ p > taken
      /\ i + PacketLen - 1 <= Len(buf) /\ p + PacketLen - 1 <= Len(stream)
        /\ frames' = frames \cup {p} /\ stream' = stream
  <2>1. taken \in Nat /\ Len(stream) = taken + Len(buf)
    BY DEF FramingInv, TailInv
  <2>2. Len(buf) \in Nat
    BY DEF FramingInv, TailInv
  <2>3. i \in Nat /\ i > 0 /\ i <= Len(buf)
    BY <2>2
  <2>4. /\ Len(buf) - i + 1 >= PacketLen
        /\ frames' = frames \cup {p} /\ stream' = stream
    BY DEF Accept
  <2>. QED
    BY <2>1, <2>2, <2>3, <2>4
<1>2. Scan!FrameAt(p)
  <2>. DEFINE e == i + PacketLen - 2
  <2>1. /\ i \in 1 .. Len(buf) /\ i + 1 \in 1 .. Len(buf) /\ buf[i] = 170 /\ buf[i + 1] = 85
        /\ e \in 1 .. Len(buf) /\ e + 1 \in 1 .. Len(buf) /\ buf[e] = 13 /\ buf[e + 1] = 13
    BY <1>1 DEF Accept, Found, PrefixAt, SuffixAt
  <2>2. /\ p = taken + i /\ p + 1 = taken + (i + 1) /\ p + PacketLen - 2 = taken + e
        /\ p + PacketLen - 1 = taken + (e + 1)
    BY <1>1
  <2>. HIDE DEF e, p
  <2>3. /\ buf[i] = stream[taken + i] /\ buf[i + 1] = stream[taken + (i + 1)]
        /\ buf[e] = stream[taken + e] /\ buf[e + 1] = stream[taken + (e + 1)]
    BY <2>1 DEF FramingInv, TailInv
  <2>. QED
    BY <1>1, <2>1, <2>2, <2>3 DEF Scan!FrameAt
<1>3. \A q \in frames : q + PacketLen <= p
  BY <1>1 DEF FramingInv, FramesInv
<1>4. p \in Scan!Open
  BY <1>1, <1>2, <1>3 DEF Scan!Open
<1>5. ASSUME NEW q \in Scan!Open
      PROVE  p <= q
  <2>1. /\ q \in 1 .. Len(stream) /\ Scan!FrameAt(q)
        /\ \A r \in frames : q < r \/ r + PacketLen <= q
    BY DEF Scan!Open
  <2>2. ~Refuted(q)
    BY <1>1, <2>1 DEF Refuted, Scan!FrameAt, SuffixAt
  <2>3. q \notin 1 .. taken
    <3>1. ASSUME NEW r \in frames, r <= q, q < r + PacketLen PROVE FALSE
      BY <1>1, <2>1, <3>1 DEF FramingInv, FramesInv
    <3>. QED
      BY <2>2, <3>1 DEF FramingInv, TakenInv, Covered
  <2>4. q \notin taken + 1 .. taken + i - 1
    BY <2>2, RefutedBeforePrefix DEF FramingInv, Accept, Found
  <2>. QED
    BY <1>1, <2>1, <2>3, <2>4
<1>. HIDE DEF p
<1>. QED
  BY <1>1, <1>4, <1>5 DEF Scan!Find

\* The framing implements FrameScan: it finds the frames of the stream in
\* their order, each before a byte more than its last is asked for.
THEOREM FramingScansStream == Spec => ScansStream
<1>1. Init => Scan!Init
  BY DEF Init, Scan!Init
<1>2. ASSUME FramingInv, TypeOK', [Next]_vars
      PROVE  [Scan!Next]_Scan!vars
  <2>1. ASSUME NEW n \in 1 .. MaxChunk, NEW chunk \in [1 .. n -> Bytes], Feed(chunk)
        PROVE  Scan!Receive
    <3>1. Scan!Open = {}
      BY <1>2, <2>1, NothingOpen DEF Feed
    <3>2. stream' \in Seq(Bytes) /\ frames' = frames
      BY <1>2, <2>1 DEF TypeOK, Feed
    <3>. QED
      BY <1>2, <2>1, <3>1, <3>2, FeedExtends DEF Scan!Receive
  <2>2. ASSUME NEW i \in 1 .. Len(buf), Accept(i)
        PROVE  \E p \in Scan!Open : Scan!Find(p)
    BY <1>2, <2>2, AcceptFinds
  <2>. QED
    BY <1>2, <2>1, <2>2, StepsOfFraming DEF Scan!Next, Scan!vars
<1>. QED
  BY <1>1, <1>2, FramingInvariant, FramingTypeCorrect, PTL DEF Spec, ScansStream, Scan!Spec

----------------------------------------------------------------------------
(* Why the loop of _split_buf ends: in every state of the loop one of its   *)
(* branches applies, and each either leaves the loop or shortens the        *)
(* buffer.  With the fairness of FairSpec that is FeedReturns.              *)

BranchApplies ==
    splitting =>
        \/ \A i \in 1 .. Len(buf) : ~PrefixAt(buf, i)
        \/ \E i \in 1 .. Len(buf) :
              /\ Found(buf, i)
              /\ \/ Len(buf) - i + 1 < PacketLen
                 \/ /\ Len(buf) - i + 1 >= PacketLen
                    /\ SuffixAt(buf, i + PacketLen - 2)
                 \/ /\ Len(buf) - i + 1 >= PacketLen
                    /\ ~SuffixAt(buf, i + PacketLen - 2)

Shortens == splitting' => Len(buf') < Len(buf)

\* The loop of _split_buf never lacks a branch to take and never repeats a
\* buffer, whatever was received.
THEOREM LoopEnds == Spec => []BranchApplies /\ [][Turn => Shortens]_vars
<1>1. ASSUME FramingInv
      PROVE  BranchApplies
  <2>. DEFINE P == {i \in 1 .. Len(buf) : PrefixAt(buf, i)}
  <2>1. Len(buf) \in Nat
    BY <1>1 DEF FramingInv, TailInv
  <2>2. CASE P = {}
    BY <2>2 DEF BranchApplies
  <2>3. CASE P # {}
    <3>1. PICK i \in P : \A j \in P : i <= j
      <4>1. P \in SUBSET Nat
        OBVIOUS
      <4>. HIDE DEF P
      <4>. QED
        BY <2>3, <4>1, LeastNatural
    <3>2. i \in 1 .. Len(buf) /\ Found(buf, i)
      BY <2>1, <3>1 DEF Found
    <3>3. Len(buf) - i + 1 < PacketLen \/ Len(buf) - i + 1 >= PacketLen
      BY <2>1, <3>2
    <3>. HIDE DEF P
    <3>. QED
      BY <3>2, <3>3 DEF BranchApplies
  <2>. QED
    BY <2>2, <2>3
<1>2. ASSUME FramingInv, Turn
      PROVE  Shortens
  <2>1. Len(buf) \in Nat
    BY <1>2 DEF FramingInv, TailInv
  <2>2. ASSUME NEW i \in 1 .. Len(buf), Slide(i)
        PROVE  Len(buf') < Len(buf)
    <3>1. i \in 0 .. Len(buf) /\ i > 0 /\ Cut(i)
      BY <2>1, <2>2 DEF Slide
    <3>2. Len(buf') = Len(buf) - i
      BY <1>2, <3>1, CutLeavesTail DEF FramingInv
    <3>. QED
      BY <2>1, <3>1, <3>2
  <2>3. ASSUME NEW i \in 1 .. Len(buf), Accept(i)
        PROVE  Len(buf') < Len(buf)
    <3>. DEFINE n == i + PacketLen - 1
    <3>1. n \in 0 .. Len(buf) /\ n > 0 /\ Cut(n)
      BY <2>1, <2>3 DEF Accept
    <3>. HIDE DEF n
    <3>2. Len(buf') = Len(buf) - n
      BY <1>2, <3>1, CutLeavesTail DEF FramingInv
    <3>. QED
      BY <2>1, <3>1, <3>2
  <2>4. NoPrefix \/ (\E i \in 1 .. Len(buf) : Incomplete(i)) => ~splitting'
    BY DEF NoPrefix, Incomplete
  <2>. QED
    BY <1>2, <2>2, <2>3, <2>4 DEF Turn, Shortens
<1>3. FramingInv /\ [Next]_vars => [Turn => Shortens]_vars
  BY <1>2
<1>. QED
  BY <1>1, <1>3, FramingInvariant, PTL DEF Spec
=============================================================================
