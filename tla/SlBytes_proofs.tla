--------------------------- MODULE SlBytes_proofs ---------------------------
(* Proofs about SlBytes, for every choice of bytes and every size of       *)
(* memory: what masks, shifts and widening do to integers lane by lane,    *)
(* where the words of a loop over n bytes lie, and what the loops have     *)
(* done after each word.                                                   *)
EXTENDS SlBytes, FiniteSetTheorems, TLAPS

-----------------------------------------------------------------------------
(* The operators of HtoN.                                                  *)

LEMMA LanesFact ==
  /\ Lanes(2) = {0, 1} /\ Lanes(4) = {0, 1, 2, 3} /\ Lanes(8) = {0, 1, 2, 3, 4, 5, 6, 7}
  BY DEF Lanes

LEMMA LanesCard == ASSUME NEW k \in Nat PROVE Cardinality(Lanes(k)) = k
  BY FS_Interval DEF Lanes

LEMMA Swap16 ==
  ASSUME NEW x, DOMAIN x = Lanes(2)
  PROVE  HtoN16(x) = [i \in Lanes(2) |-> x[1 - i]]
  <1>1. DOMAIN HtoN16(x) = Lanes(2) /\ HtoN16(x) = [i \in Lanes(2) |-> HtoN16(x)[i]]
    BY DEF HtoN16, Or, Shr, Shl
  <1>2. \A i \in Lanes(2) : HtoN16(x)[i] = x[1 - i]
    BY LanesFact DEF HtoN16, Or, Shr, Shl
  <1> QED
    BY <1>1, <1>2

LEMMA Swap32 ==
  ASSUME NEW x, DOMAIN x = Lanes(4)
  PROVE  HtoN32(x) = [i \in Lanes(4) |-> x[3 - i]]
  <1>1. HtoN32(x) = [i \in Lanes(4) |-> HtoN32(x)[i]]
    BY DEF HtoN32, Or, Shr, Shl, Mask
  <1>2. \A i \in Lanes(4) : HtoN32(x)[i] = x[3 - i]
    BY LanesFact DEF HtoN32, Or, Shr, Shl, Mask
  <1> QED
    BY <1>1, <1>2

LEMMA Swap64 ==
  ASSUME NEW x, DOMAIN x = Lanes(8)
  PROVE  HtoN64(x) = [i \in Lanes(8) |-> x[7 - i]]
  <1> DEFINE lo == HtoN32(Low(x))
             hi == HtoN32(Low(Shr(x, 4)))
  <1>1. lo = [i \in Lanes(4) |-> x[3 - i]]
    <2>1. DOMAIN Low(x) = Lanes(4) /\ \A i \in Lanes(4) : Low(x)[3 - i] = x[3 - i]
      BY LanesFact DEF Low
    <2> QED
      BY <2>1, Swap32
  <1>2. hi = [i \in Lanes(4) |-> x[7 - i]]
    <2>1. DOMAIN Low(Shr(x, 4)) = Lanes(4)
      BY DEF Low
    <2>2. \A i \in Lanes(4) : Low(Shr(x, 4))[3 - i] = x[7 - i]
      BY LanesFact DEF Low, Shr
    <2> QED
      BY <2>1, <2>2, Swap32
  <1> HIDE DEF lo, hi
  <1>3. HtoN64(x) = Or(Shl(Widen(lo), 4), Widen(hi))
    BY DEF HtoN64, lo, hi
  <1>4. HtoN64(x) = [i \in Lanes(8) |-> HtoN64(x)[i]]
    BY <1>3 DEF Or, Shl, Widen
  <1>5. \A i \in Lanes(8) : HtoN64(x)[i] = x[7 - i]
    BY <1>1, <1>2, <1>3, LanesFact DEF Or, Shl, Widen
  <1> QED
    BY <1>4, <1>5
-----------------------------------------------------------------------------
(* The patterns of MemSet.                                                 *)

LEMMA Repeat8 ==
  ASSUME NEW v, DOMAIN v = Lanes(1)
  PROVE  Pattern8(v) = [i \in Lanes(8) |-> v[i % 1]]
  <1> DEFINE u == Widen(v)
  <1>1. \A i \in Lanes(8), k \in Lanes(8) : Shl(u, k)[i] = IF k = i THEN v[0] ELSE {}
    BY LanesFact DEF Lanes, Shl, Widen
  <1>2. ASSUME NEW i \in Lanes(8) PROVE UNION {Shl(u, k)[i] : k \in Lanes(8)} = v[i % 1]
    <2>1. i % 1 = 0
      BY LanesFact
    <2>2. \A b : b \in UNION {Shl(u, k)[i] : k \in Lanes(8)} <=> b \in v[0]
      BY <1>1, <1>2
    <2> QED
      BY <2>1, <2>2
  <1> QED
    BY <1>2 DEF Pattern8

LEMMA Repeat16 ==
  ASSUME NEW v, DOMAIN v = Lanes(2), 7 \notin v[1]
  PROVE  Pattern16(v) = [i \in Lanes(8) |-> v[i % 2]]
  <1> DEFINE u == SignExtend(v, 2)
  <1>1. \A i \in Lanes(8), k \in {0, 2, 4, 6} :
          Shl(u, k)[i] = IF i = k THEN v[0] ELSE IF i = k + 1 THEN v[1] ELSE {}
    BY LanesFact DEF Shl, SignExtend
  <1>2. ASSUME NEW i \in Lanes(8) PROVE UNION {Shl(u, k)[i] : k \in {0, 2, 4, 6}} = v[i % 2]
    <2>1. /\ i \in {0, 2, 4, 6} => i % 2 = 0
          /\ i \in {1, 3, 5, 7} => i % 2 = 1 /\ i - 1 \in {0, 2, 4, 6}
      OBVIOUS
    <2>2. i \in {0, 2, 4, 6} \/ i \in {1, 3, 5, 7}
      BY LanesFact
    <2>3. \A b : b \in UNION {Shl(u, k)[i] : k \in {0, 2, 4, 6}} <=> b \in v[i % 2]
      BY <1>1, <1>2, <2>1, <2>2
    <2> QED
      BY <2>3
  <1> QED
    BY <1>2 DEF Pattern16

LEMMA Repeat32 ==
  ASSUME NEW v, DOMAIN v = Lanes(4), 7 \notin v[3]
  PROVE  Pattern32(v) = [i \in Lanes(8) |-> v[i % 4]]
  <1> DEFINE u == SignExtend(v, 4)
  <1>1. \A i \in Lanes(8) : u[i] = IF i < 4 THEN v[i] ELSE {}
    BY LanesFact DEF SignExtend
  <1>2. \A i \in Lanes(8) : Shl(u, 4)[i] = IF i >= 4 THEN v[i - 4] ELSE {}
    BY <1>1, LanesFact DEF Shl, SignExtend
  <1>3. \A i \in Lanes(8) : i % 4 = IF i >= 4 THEN i - 4 ELSE i
    BY LanesFact
  <1>4. Pattern32(v) = [i \in Lanes(8) |-> u[i] \cup Shl(u, 4)[i]]
    BY DEF Pattern32, Or, SignExtend
  <1>5. \A i \in Lanes(8) : u[i] \cup Shl(u, 4)[i] = v[i % 4]
    BY <1>1, <1>2, <1>3, LanesFact
  <1> QED
    BY <1>4, <1>5

-----------------------------------------------------------------------------
(* The words of a loop.                                                    *)

\* Where the words up to the k-th end.
End(n, k) == IF k = 0 THEN 0 ELSE WordAt(n, k).at + WordAt(n, k).width

LEMMA DivFact ==
  ASSUME NEW n \in Nat
  PROVE  /\ n \div 8 \in Nat /\ n % 8 \in 0 .. 7
         /\ n = 8 * (n \div 8) + (n % 8)
         /\ Limit(n) = 8 * (n \div 8)
  BY DEF Limit

LEMMA TailFact ==
  /\ TailWords(0) = <<>>
  /\ TailWords(1) = <<Word(1, 0)>> /\ TailWords(2) = <<Word(2, 0)>>
  /\ TailWords(3) = <<Word(2, 0), Word(2, 1)>>
  /\ TailWords(4) = <<Word(4, 0)>>
  /\ TailWords(5) = <<Word(4, 0), Word(4, 1)>>
  /\ TailWords(6) = <<Word(4, 0), Word(4, 2)>>
  /\ TailWords(7) = <<Word(4, 0), Word(4, 3)>>
  <1>0. TailWords(0) = <<>>
    BY DEF TailWords
  <1>1. TailWords(1) = <<Word(1, 0)>>
    BY DEF TailWords
  <1>2. TailWords(2) = <<Word(2, 0)>>
    BY DEF TailWords
  <1>3. TailWords(3) = <<Word(2, 0), Word(2, 1)>>
    BY DEF TailWords
  <1>4. TailWords(4) = <<Word(4, 0)>>
    BY DEF TailWords
  <1>5. TailWords(5) = <<Word(4, 0), Word(4, 1)>>
    BY DEF TailWords
  <1>6. TailWords(6) = <<Word(4, 0), Word(4, 2)>>
    BY DEF TailWords
  <1>7. TailWords(7) = <<Word(4, 0), Word(4, 3)>>
    BY DEF TailWords
  <1> QED
    BY <1>0, <1>1, <1>2, <1>3, <1>4, <1>5, <1>6, <1>7

\* The k-th word of a tail of r bytes: it continues or overlaps what the words
\* before it covered, by at most 3 bytes, and the last one ends where r does.
\* The k-th word of a tail of r bytes: it continues or overlaps what the words
\* before it covered, by at most 3 bytes, and the last one ends where r does.
TailEnd(r, k) == IF k = 0 THEN 0 ELSE TailWords(r)[k].at + TailWords(r)[k].width

LEMMA TailCovers ==
  ASSUME NEW r \in 0 .. 7
  PROVE  /\ Len(TailWords(r)) \in 0 .. 2
         /\ Len(TailWords(r)) = 0 <=> r = 0
         /\ \A k \in 1 .. Len(TailWords(r)) :
              /\ TailWords(r)[k].at \in 0 .. 3 /\ TailWords(r)[k].width \in {1, 2, 4}
              /\ k = 1 \/ k = 2
              /\ TailEnd(r, k - 1) \in Nat
              /\ TailWords(r)[k].at <= TailEnd(r, k - 1)
              /\ TailEnd(r, k - 1) <= TailWords(r)[k].at + 3
              /\ TailEnd(r, k - 1) <= TailEnd(r, k)
              /\ TailEnd(r, k) = TailWords(r)[k].at + TailWords(r)[k].width
              /\ TailEnd(r, k) <= r
              /\ k = Len(TailWords(r)) => TailEnd(r, k) = r
  <1>1. r \in {0, 1, 2, 3, 4, 5, 6, 7}
    OBVIOUS
  <1>2. CASE r \in {1, 2, 4}
    <2>1. TailWords(r) = <<Word(r, 0)>>
      BY <1>2, TailFact
    <2>2. Len(TailWords(r)) = 1 /\ TailWords(r)[1].at = 0 /\ TailWords(r)[1].width = r
      BY <2>1 DEF Word
    <2>3. TailEnd(r, 0) = 0 /\ TailEnd(r, 1) = r
      BY <1>2, <2>2 DEF TailEnd
    <2>4. \A k \in 1 .. 1 : k = 1 /\ k - 1 = 0
      OBVIOUS
    <2> QED
      BY <1>2, <2>2, <2>3, <2>4
  <1>3. CASE r = 0
    BY <1>3, TailFact
  <1>4. ASSUME NEW d \in {2, 4}, NEW a \in 1 .. 3, a + d = r, a <= d, d <= a + 3,
               TailWords(r) = <<Word(d, 0), Word(d, a)>>
        PROVE  /\ Len(TailWords(r)) = 2
               /\ \A k \in 1 .. 2 :
                    /\ TailWords(r)[k].at \in 0 .. 3 /\ TailWords(r)[k].width \in {1, 2, 4}
                    /\ k = 1 \/ k = 2
                    /\ TailEnd(r, k - 1) \in Nat
                    /\ TailWords(r)[k].at <= TailEnd(r, k - 1)
                    /\ TailEnd(r, k - 1) <= TailWords(r)[k].at + 3
                    /\ TailEnd(r, k - 1) <= TailEnd(r, k)
                    /\ TailEnd(r, k) = TailWords(r)[k].at + TailWords(r)[k].width
                    /\ TailEnd(r, k) <= r
                    /\ k = Len(TailWords(r)) => TailEnd(r, k) = r
    <2>1. /\ Len(TailWords(r)) = 2
          /\ TailWords(r)[1].at = 0 /\ TailWords(r)[1].width = d
          /\ TailWords(r)[2].at = a /\ TailWords(r)[2].width = d
      BY <1>4 DEF Word
    <2>2. TailEnd(r, 0) = 0 /\ TailEnd(r, 1) = d /\ TailEnd(r, 2) = r
      BY <1>4, <2>1 DEF TailEnd
    <2>3. \A k \in 1 .. 2 : (k = 1 /\ k - 1 = 0) \/ (k = 2 /\ k - 1 = 1)
      OBVIOUS
    <2> QED
      BY <1>4, <2>1, <2>2, <2>3
  <1>5. CASE r = 3
    <2>1. TailWords(r) = <<Word(2, 0), Word(2, 1)>>
      BY <1>5, TailFact
    <2>2. r # 0 /\ 2 \in {2, 4} /\ 1 \in 1 .. 3 /\ 1 + 2 = r
      BY <1>5
    <2> QED
      BY <2>1, <2>2, <1>4
  <1>6. CASE r \in {5, 6, 7}
    <2>1. TailWords(r) = <<Word(4, 0), Word(4, r - 4)>>
      BY <1>6, TailFact
    <2>2. r # 0 /\ 4 \in {2, 4} /\ r - 4 \in 1 .. 3 /\ r - 4 + 4 = r
      BY <1>6
    <2>3. r - 4 <= 4 /\ 4 <= r - 4 + 3
      BY <1>6
    <2> QED
      BY <2>1, <2>2, <2>3, <1>4
  <1> QED
    BY <1>1, <1>2, <1>3, <1>5, <1>6

LEMMA CountFact ==
  ASSUME NEW n \in Nat
  PROVE  WordCount(n) \in Nat /\ n \div 8 <= WordCount(n)
  BY DivFact, TailCovers DEF WordCount

\* Where the words of n bytes lie: whole words, then the words of the tail.
LEMMA WordFact ==
  ASSUME NEW n \in Nat
  PROVE  \E q \in Nat, r \in 0 .. 7 :
           /\ n = 8 * q + r
           /\ WordCount(n) = q + Len(TailWords(r))
           /\ \A i \in 1 .. q : WordAt(n, i).at = 8 * (i - 1) /\ WordAt(n, i).width = 8
           /\ \A i \in 0 .. q : End(n, i) = 8 * i
           /\ \A k \in 1 .. Len(TailWords(r)) :
                /\ WordAt(n, q + k).at = 8 * q + TailWords(r)[k].at
                /\ WordAt(n, q + k).width = TailWords(r)[k].width
           /\ \A k \in 0 .. Len(TailWords(r)) : End(n, q + k) = 8 * q + TailEnd(r, k)
  <1>1. PICK q \in Nat, r \in 0 .. 7 :
          q = n \div 8 /\ r = n % 8 /\ n = 8 * q + r /\ Limit(n) = 8 * q
    BY DivFact
  <1>2. WordCount(n) = q + Len(TailWords(r))
    BY <1>1 DEF WordCount
  <1>3. ASSUME NEW i \in 1 .. q
        PROVE  WordAt(n, i).at = 8 * (i - 1) /\ WordAt(n, i).width = 8
    BY <1>1 DEF WordAt, Word
  <1>4. \A i \in 0 .. q : End(n, i) = 8 * i
    BY <1>3 DEF End
  <1>5. ASSUME NEW k \in 1 .. Len(TailWords(r))
        PROVE  /\ WordAt(n, q + k).at = 8 * q + TailWords(r)[k].at
               /\ WordAt(n, q + k).width = TailWords(r)[k].width
    <2>1. k \in {1, 2}
      BY TailCovers
    <2>2. ~(q + k <= q) /\ q + k - q = k
      BY <2>1
    <2> QED
      BY <1>1, <2>2 DEF WordAt, Word
  <1>6. ASSUME NEW k \in 0 .. Len(TailWords(r))
        PROVE  End(n, q + k) = 8 * q + TailEnd(r, k)
    <2>1. CASE k = 0
      BY <1>4, <2>1 DEF TailEnd
    <2>2. CASE k # 0
      <3>1. k \in 1 .. Len(TailWords(r)) /\ Len(TailWords(r)) \in 0 .. 2
        BY <2>2, TailCovers
      <3>2. q + k # 0
        BY <3>1
      <3>3. TailWords(r)[k].at \in 0 .. 3 /\ TailWords(r)[k].width \in {1, 2, 4}
        BY <3>1, TailCovers
      <3>4. End(n, q + k) = WordAt(n, q + k).at + WordAt(n, q + k).width
        BY <3>2 DEF End
      <3>5. End(n, q + k) = (8 * q + TailWords(r)[k].at) + TailWords(r)[k].width
        BY <1>5, <3>1, <3>4
      <3>6. TailEnd(r, k) = TailWords(r)[k].at + TailWords(r)[k].width
        BY <2>2 DEF TailEnd
      <3> QED
        BY <3>3, <3>5, <3>6
    <2> QED
      BY <2>1, <2>2
  <1> QED
    BY <1>1, <1>2, <1>3, <1>4, <1>5, <1>6

\* The i-th word of n bytes starts within what the words before it covered,
\* at most 3 bytes before its end, and does not reach beyond n.
LEMMA WordCovers ==
  ASSUME NEW n \in Nat, NEW i \in 1 .. WordCount(n)
  PROVE  /\ WordAt(n, i).at \in Nat /\ WordAt(n, i).width \in {1, 2, 4, 8}
         /\ (WordAt(n, i).at % 8) + WordAt(n, i).width <= 8
         /\ End(n, i - 1) \in Nat
         /\ WordAt(n, i).at <= End(n, i - 1) /\ End(n, i - 1) <= WordAt(n, i).at + 3
         /\ End(n, i - 1) <= End(n, i)
         /\ End(n, i) = WordAt(n, i).at + WordAt(n, i).width
         /\ End(n, i) <= n
         /\ i = WordCount(n) => End(n, i) = n
  <1>1. PICK q \in Nat, r \in 0 .. 7 :
           /\ n = 8 * q + r
           /\ WordCount(n) = q + Len(TailWords(r))
           /\ \A j \in 1 .. q : WordAt(n, j).at = 8 * (j - 1) /\ WordAt(n, j).width = 8
           /\ \A j \in 0 .. q : End(n, j) = 8 * j
           /\ \A k \in 1 .. Len(TailWords(r)) :
                /\ WordAt(n, q + k).at = 8 * q + TailWords(r)[k].at
                /\ WordAt(n, q + k).width = TailWords(r)[k].width
           /\ \A k \in 0 .. Len(TailWords(r)) : End(n, q + k) = 8 * q + TailEnd(r, k)
    BY WordFact
  <1>2. PICK t \in 0 .. 2 : t = Len(TailWords(r)) /\ (t = 0 <=> r = 0)
    BY TailCovers
  <1>3. i \in Nat /\ i >= 1 /\ i <= q + t
    BY <1>1, <1>2
  <1>4. CASE i <= q
    <2>1. i \in 1 .. q /\ i \in 0 .. q /\ i - 1 \in 0 .. q
      BY <1>3, <1>4
    <2>2. /\ WordAt(n, i).at = 8 * (i - 1) /\ WordAt(n, i).width = 8
          /\ End(n, i) = 8 * i /\ End(n, i - 1) = 8 * (i - 1)
      BY <1>1, <2>1
    <2>3. (8 * (i - 1)) % 8 = 0
      BY <1>3
    <2>4. i = WordCount(n) => n = 8 * i
      BY <1>1, <1>2, <2>1
    <2>5. 8 * i <= n /\ 8 * (i - 1) \in Nat /\ 8 * (i - 1) + 8 = 8 * i
      BY <1>1, <1>3, <1>4
    <2> QED
      BY <1>3, <2>2, <2>3, <2>4, <2>5
  <1>5. CASE i > q
    <2>1. PICK k \in 1 .. t : i = q + k /\ i - 1 = q + (k - 1) /\ k - 1 \in 0 .. t /\ k \in 0 .. t
      <3>1. i - q \in 1 .. t
        BY <1>3, <1>5
      <3> QED
        BY <1>3, <3>1
    <2>2. k \in 1 .. Len(TailWords(r))
      BY <1>2
    <2>3. /\ TailWords(r)[k].at \in 0 .. 3 /\ TailWords(r)[k].width \in {1, 2, 4}
          /\ TailEnd(r, k - 1) \in Nat
      BY <2>2, TailCovers
    <2>4. PICK a \in 0 .. 3, d \in {1, 2, 4}, e \in Nat :
            a = TailWords(r)[k].at /\ d = TailWords(r)[k].width /\ e = TailEnd(r, k - 1)
      BY <2>3
    <2>5. /\ a <= e /\ e <= a + 3
          /\ e <= TailEnd(r, k) /\ TailEnd(r, k) = a + d /\ TailEnd(r, k) <= r
          /\ k = Len(TailWords(r)) => TailEnd(r, k) = r
      BY <2>2, <2>4, TailCovers
    <2>6. WordAt(n, i).at = 8 * q + a /\ WordAt(n, i).width = d
      BY <1>1, <2>1, <2>2, <2>4
    <2>7. End(n, i - 1) = 8 * q + e /\ End(n, i) = 8 * q + (a + d)
      BY <1>1, <1>2, <2>1, <2>4, <2>5
    <2>8. (8 * q + a) % 8 = a
      BY <2>4
    <2>9. i = WordCount(n) => k = Len(TailWords(r))
      BY <1>1, <1>2, <2>1
    <2>10. n = 8 * q + r
      BY <1>1
    <2>11. /\ a <= e /\ e <= a + 3 /\ e <= a + d /\ a + d <= r /\ a + d <= 8
           /\ i = WordCount(n) => a + d = r
      BY <2>5, <2>9
    <2> QED
      BY <2>6, <2>7, <2>8, <2>10, <2>11
  <1> QED
    BY <1>3, <1>4, <1>5

LEMMA AllCovered == ASSUME NEW n \in Nat PROVE End(n, WordCount(n)) = n
  <1>1. CASE WordCount(n) = 0
    <2>1. PICK q \in Nat, r \in 0 .. 7 : n = 8 * q + r /\ WordCount(n) = q + Len(TailWords(r))
      BY WordFact
    <2>2. Len(TailWords(r)) \in 0 .. 2 /\ (Len(TailWords(r)) = 0 <=> r = 0)
      BY TailCovers
    <2>3. n = 0
      BY <1>1, <2>1, <2>2
    <2> QED
      BY <1>1, <2>3 DEF End
  <1>2. CASE WordCount(n) # 0
    BY <1>2, CountFact, WordCovers
  <1> QED
    BY <1>1, <1>2

-----------------------------------------------------------------------------
(* The loops.                                                              *)

Looping == call.op \in {"MemCpy", "MemSet", "MemCmp"}

\* What the loops have done when cursor words are handled.
CopyInv ==
  call.op = "MemCpy" =>
    memory = [a \in Cells |-> IF a - Dst \in Lanes(End(Length, cursor)) THEN a - Dst + Src ELSE a]
SetInv ==
  call.op = "MemSet" =>
    memory = [a \in Cells |->
                IF a - Dst \in Lanes(End(Length, cursor)) THEN Size + ((a - Dst) % 8) ELSE a]
CompareInv ==
  call.op = "MemCmp" =>
    /\ memory = Twice(Dst, Src, Length, call.x)
    /\ result = <<>> => \A j \in Lanes(End(Length, cursor)) : memory[Dst + j] = memory[Src + j]
CursorInv == call \in Calls /\ (Looping => cursor \in 0 .. WordCount(Length))
LoopInv == CursorInv /\ CopyInv /\ SetInv /\ CompareInv /\ CompareExact

LEMMA CallFact ==
  ASSUME call \in Calls
  PROVE  /\ Looping => /\ Dst \in Cells /\ Src \in Cells /\ Length \in 0 .. Size
                       /\ Dst + Length <= Size /\ Src + Length <= Size
         /\ call.op = "MemCpy" => MayCopy(Dst, Src, Length)
         /\ call.op = "MemCmp" => Apart(Dst, Src, Length) /\ call.x \in Cells \cup {-1}
  BY DEF Calls, Places, Looping, Dst, Src, Length

\* The word a loop is about to handle.
LEMMA NextCovers ==
  ASSUME CursorInv, NEW op, op \in {"MemCpy", "MemSet", "MemCmp"}, NextWord(op)
  PROVE  LET w == WordAt(Length, cursor + 1)
             e == End(Length, cursor)
         IN  /\ Dst \in Nat /\ Src \in Nat /\ Length \in Nat /\ cursor \in Nat
             /\ Dst + Length <= Size /\ Src + Length <= Size
             /\ w.at \in Nat /\ w.width \in Nat /\ e \in Nat
             /\ (w.at % 8) + w.width <= 8
             /\ w.at <= e /\ e <= w.at + 3 /\ e <= w.at + w.width
             /\ End(Length, cursor + 1) = w.at + w.width
             /\ w.at + w.width <= Length
             /\ cursor' = cursor + 1 /\ cursor + 1 \in 1 .. WordCount(Length)
             /\ call' = call /\ result' = result
  <1>1. Looping /\ call.op = op
    BY DEF NextWord, Looping
  <1>2. Dst \in Nat /\ Src \in Nat /\ Length \in Nat /\ Dst + Length <= Size /\ Src + Length <= Size
    BY <1>1, CallFact, SlBytesAssumption DEF CursorInv, Cells
  <1>3. cursor \in Nat /\ cursor + 1 \in 1 .. WordCount(Length) /\ cursor + 1 - 1 = cursor
    BY <1>1, <1>2, CountFact DEF CursorInv, NextWord
  <1>4. cursor' = cursor + 1 /\ call' = call /\ result' = result
    BY DEF NextWord
  <1>5. PICK i : i = cursor + 1 /\ i \in 1 .. WordCount(Length) /\ i - 1 = cursor
    BY <1>3
  <1>6. /\ WordAt(Length, i).at \in Nat /\ WordAt(Length, i).width \in Nat
        /\ (WordAt(Length, i).at % 8) + WordAt(Length, i).width <= 8
        /\ End(Length, i - 1) \in Nat
        /\ WordAt(Length, i).at <= End(Length, i - 1)
        /\ End(Length, i - 1) <= WordAt(Length, i).at + 3
        /\ End(Length, i - 1) <= End(Length, i)
        /\ End(Length, i) = WordAt(Length, i).at + WordAt(Length, i).width
        /\ End(Length, i) <= Length
    <2>1. WordAt(Length, i).width \in {1, 2, 4, 8}
      BY <1>2, <1>5, WordCovers
    <2> QED
      BY <2>1, <1>2, <1>5, WordCovers
  <1> QED
    BY <1>2, <1>3, <1>4, <1>5, <1>6

LEMMA CopyStep ==
  ASSUME CursorInv, CopyInv, CopyWord
  PROVE  CopyInv'
  <1> DEFINE w == WordAt(Length, cursor + 1)
             e == End(Length, cursor)
  <1>1. NextWord("MemCpy") /\ call.op = "MemCpy"
    BY DEF CopyWord, NextWord
  <1>2. /\ Dst \in Nat /\ Src \in Nat /\ Length \in Nat
        /\ Dst + Length <= Size /\ Src + Length <= Size
        /\ w.at \in Nat /\ w.width \in Nat /\ e \in Nat
        /\ w.at <= e /\ e <= w.at + 3 /\ e <= w.at + w.width
        /\ End(Length, cursor + 1) = w.at + w.width
        /\ w.at + w.width <= Length
        /\ cursor' = cursor + 1 /\ call' = call
    BY <1>1, NextCovers
  <1>3. memory = [a \in Cells |-> IF a - Dst \in 0 .. e - 1 THEN a - Dst + Src ELSE a]
    BY <1>1 DEF CopyInv, Lanes
  <1>4. memory' = [a \in Cells |->
                     IF a - Dst \in w.at .. w.at + w.width - 1 THEN memory[a - Dst + Src]
                                                               ELSE memory[a]]
    BY <1>3 DEF CopyWord, Covers
  <1>5. Dst + Length <= Src \/ Src + Length <= Dst \/ Src - Dst >= 3
    BY <1>1, CallFact DEF CursorInv, MayCopy, Apart
  <1> HIDE DEF w, e
  <1>6. PICK d \in Nat, s \in Nat, n \in Nat, at \in Nat, width \in Nat :
          d = Dst /\ s = Src /\ n = Length /\ at = w.at /\ width = w.width
    BY <1>2
  <1>7. ASSUME NEW a \in Cells
        PROVE  memory'[a] = IF a - d \in 0 .. at + width - 1 THEN a - d + s ELSE a
    <2>1. a \in Int
      BY SlBytesAssumption DEF Cells
    <2>2. CASE a - d \in at .. at + width - 1
      <3>1. memory'[a] = memory[a - d + s]
        BY <1>4, <1>6, <2>2
      <3>2. a - d + s \in Cells
        BY <1>2, <1>6, <2>1, <2>2, SlBytesAssumption DEF Cells
      <3>3. ~((a - d + s) - d \in 0 .. e - 1)
        BY <1>2, <1>5, <1>6, <2>1, <2>2
      <3>4. memory[a - d + s] = a - d + s
        BY <1>3, <1>6, <3>2, <3>3
      <3>5. a - d \in 0 .. at + width - 1
        BY <1>6, <2>1, <2>2
      <3> QED
        BY <3>1, <3>4, <3>5
    <2>3. CASE ~(a - d \in at .. at + width - 1)
      <3>1. memory'[a] = IF a - d \in 0 .. e - 1 THEN a - d + s ELSE a
        BY <1>3, <1>4, <1>6, <2>3
      <3>2. a - d \in 0 .. e - 1 <=> a - d \in 0 .. at + width - 1
        BY <1>2, <1>6, <2>1, <2>3
      <3> QED
        BY <3>1, <3>2
    <2> QED
      BY <2>2, <2>3
  <1>8. memory' = [a \in Cells |-> IF a - d \in 0 .. at + width - 1 THEN a - d + s ELSE a]
    BY <1>4, <1>7
  <1>9. /\ Dst' = d /\ Src' = s /\ End(Length, cursor)' = at + width
    BY <1>2, <1>6 DEF Dst, Src, Length, End, WordAt
  <1> QED
    BY <1>8, <1>9 DEF CopyInv, Lanes

LEMMA SetStep ==
  ASSUME CursorInv, SetInv, SetWord
  PROVE  SetInv'
  <1> DEFINE w == WordAt(Length, cursor + 1)
             e == End(Length, cursor)
  <1>1. NextWord("MemSet") /\ call.op = "MemSet"
    BY DEF SetWord, NextWord
  <1>2. /\ Dst \in Nat /\ Length \in Nat /\ Dst + Length <= Size
        /\ w.at \in Nat /\ w.width \in Nat /\ e \in Nat
        /\ (w.at % 8) + w.width <= 8
        /\ w.at <= e /\ e <= w.at + w.width
        /\ End(Length, cursor + 1) = w.at + w.width
        /\ w.at + w.width <= Length
        /\ cursor' = cursor + 1 /\ call' = call
    BY <1>1, NextCovers
  <1>3. memory = [a \in Cells |->
                    IF a - Dst \in 0 .. e - 1 THEN Size + ((a - Dst) % 8) ELSE a]
    BY <1>1 DEF SetInv, Lanes
  <1>4. memory' = [a \in Cells |->
                     IF a - Dst \in w.at .. w.at + w.width - 1
                     THEN Pattern[(w.at % 8) + a - Dst - w.at]
                     ELSE memory[a]]
    BY <1>3 DEF SetWord, Covers
  <1> HIDE DEF w, e
  <1>5. PICK d \in Nat, n \in Nat, at \in Nat, width \in Nat :
          d = Dst /\ n = Length /\ at = w.at /\ width = w.width
    BY <1>2
  <1>6. ASSUME NEW a \in Cells
        PROVE  memory'[a] = IF a - d \in 0 .. at + width - 1 THEN Size + ((a - d) % 8) ELSE a
    <2>1. a \in Int
      BY SlBytesAssumption DEF Cells
    <2>2. CASE a - d \in at .. at + width - 1
      <3>1. memory'[a] = Pattern[(at % 8) + a - d - at]
        BY <1>4, <1>5, <2>2
      <3>2. PICK j \in Nat : a - d = at + j /\ j < width
        <4>1. a - d - at \in Nat /\ a - d - at < width
          BY <1>5, <2>1, <2>2
        <4> QED
          BY <1>5, <2>1, <4>1
      <3>3. (at % 8) + a - d - at = (at % 8) + j /\ (at % 8) + j \in 0 .. 7
        BY <1>2, <1>5, <2>1, <3>2
      <3>4. (at + j) % 8 = (at % 8) + j
        BY <1>5, <3>2, <3>3
      <3>5. Pattern[(at % 8) + j] = Size + ((at % 8) + j)
        BY <3>3 DEF Pattern, Lanes
      <3>6. a - d \in 0 .. at + width - 1
        BY <1>5, <2>1, <2>2
      <3> QED
        BY <3>1, <3>2, <3>3, <3>4, <3>5, <3>6
    <2>3. CASE ~(a - d \in at .. at + width - 1)
      <3>1. memory'[a] = IF a - d \in 0 .. e - 1 THEN Size + ((a - d) % 8) ELSE a
        BY <1>3, <1>4, <1>5, <2>3
      <3>2. a - d \in 0 .. e - 1 <=> a - d \in 0 .. at + width - 1
        BY <1>2, <1>5, <2>1, <2>3
      <3> QED
        BY <3>1, <3>2
    <2> QED
      BY <2>2, <2>3
  <1>7. memory' = [a \in Cells |->
                     IF a - d \in 0 .. at + width - 1 THEN Size + ((a - d) % 8) ELSE a]
    BY <1>4, <1>6
  <1>8. Dst' = d /\ End(Length, cursor)' = at + width
    BY <1>2, <1>5 DEF Dst, Length, End, WordAt
  <1> QED
    BY <1>7, <1>8 DEF SetInv, Lanes

LEMMA CompareStep ==
  ASSUME CursorInv, CompareInv, CompareWord
  PROVE  CompareInv'
  <1> DEFINE w == WordAt(Length, cursor + 1)
             e == End(Length, cursor)
  <1>1. NextWord("MemCmp") /\ call.op = "MemCmp" /\ memory' = memory /\ result = <<>>
    BY DEF CompareWord, NextWord
  <1>2. /\ w.at \in Nat /\ w.width \in Nat /\ e \in Nat /\ w.at <= e
        /\ End(Length, cursor + 1) = w.at + w.width
        /\ cursor' = cursor + 1 /\ call' = call
    BY <1>1, NextCovers
  <1>3. \A j \in 0 .. e - 1 : memory[Dst + j] = memory[Src + j]
    BY <1>1 DEF CompareInv, Lanes
  <1>4. \A j \in w.at .. w.at + w.width - 1 : memory[Dst + j] = memory[Src + j]
    BY DEF CompareWord, Equal, Covers
  <1> HIDE DEF w, e
  <1>5. ASSUME NEW j \in 0 .. w.at + w.width - 1
        PROVE  memory[Dst + j] = memory[Src + j]
    <2>1. j \in 0 .. e - 1 \/ j \in w.at .. w.at + w.width - 1
      BY <1>2
    <2> QED
      BY <1>3, <1>4, <2>1
  <1>6. /\ Dst' = Dst /\ Src' = Src /\ Length' = Length
        /\ End(Length, cursor)' = w.at + w.width
    BY <1>2 DEF Dst, Src, Length, End, WordAt, w
  <1>7. memory' = Twice(Dst, Src, Length, call'.x)
    BY <1>1, <1>2 DEF CompareInv
  <1>8. memory' = Twice(Dst, Src, Length, call.x)'
    BY <1>6, <1>7 DEF Twice
  <1>9. \A j \in Lanes(w.at + w.width) : memory'[Dst + j] = memory'[Src + j]
    <2>1. Lanes(w.at + w.width) = 0 .. w.at + w.width - 1
      BY <1>2 DEF Lanes
    <2> QED
      BY <1>1, <1>2, <1>5, <2>1
  <1>10. (\A j \in Lanes(End(Length, cursor)) : memory[Dst + j] = memory[Src + j])'
    BY <1>6, <1>9
  <1> QED
    BY <1>8, <1>10 DEF CompareInv

\* In a memory made by Twice, the only bytes that differ are where x is.
LEMMA TwiceFact ==
  ASSUME NEW d \in Nat, NEW s \in Nat, NEW n \in Nat, d + n <= Size, s + n <= Size,
         NEW x \in Int, Apart(d, s, n), NEW j \in Lanes(n)
  PROVE  /\ Twice(d, s, n, x)[d + j] = IF d + j = x THEN "x" ELSE "byte"
         /\ Twice(d, s, n, x)[s + j] = IF s + j = x THEN "x" ELSE "byte"
         /\ d + j # s + j
  <1>1. j \in Int /\ 0 <= j /\ j < n
    BY DEF Lanes
  <1>2. d + j \in Cells /\ s + j \in Cells /\ d + j - d = j /\ s + j - s = j
    BY <1>1, SlBytesAssumption DEF Cells
  <1>3. d + j # s + j
    BY <1>1 DEF Apart
  <1>4. \A a \in Cells : a - d \in Lanes(n) \/ a - s \in Lanes(n) =>
          Twice(d, s, n, x)[a] = IF a = x THEN "x" ELSE "byte"
    BY DEF Twice
  <1>5. Twice(d, s, n, x)[d + j] = IF d + j = x THEN "x" ELSE "byte"
    <2>1. PICK a \in Cells : a = d + j /\ a - d \in Lanes(n)
      BY <1>1, <1>2
    <2> QED
      BY <1>1, <1>4, <2>1
  <1>6. Twice(d, s, n, x)[s + j] = IF s + j = x THEN "x" ELSE "byte"
    <2>1. PICK a \in Cells : a = s + j /\ a - s \in Lanes(n)
      BY <1>1, <1>2
    <2> QED
      BY <1>1, <1>4, <2>1
  <1> QED
    BY <1>3, <1>5, <1>6

LEMMA CompareFailsStep ==
  ASSUME CursorInv, CompareInv, CompareFails
  PROVE  CompareExact'
  <1>1. /\ call.op = "MemCmp" /\ result' = <<FALSE>> /\ call' = call
        /\ cursor < WordCount(Length) /\ result = <<>>
    BY DEF CompareFails, Returns
  <1>2. /\ Dst \in Nat /\ Src \in Nat /\ Length \in Nat
        /\ Dst + Length <= Size /\ Src + Length <= Size
        /\ Apart(Dst, Src, Length) /\ call.x \in Int
    BY <1>1, CallFact, SlBytesAssumption DEF CursorInv, Looping, Cells
  <1>3. cursor \in Nat /\ cursor + 1 \in 1 .. WordCount(Length)
    <2>1. cursor \in 0 .. WordCount(Length) /\ WordCount(Length) \in Nat
      BY <1>1, <1>2, CountFact DEF CursorInv, Looping
    <2> QED
      BY <1>1, <2>1
  <1>4. \A j \in Covers(WordAt(Length, cursor + 1)) : j \in Lanes(Length)
    <2>1. PICK i \in 1 .. WordCount(Length) : i = cursor + 1
      BY <1>3
    <2>2. /\ WordAt(Length, i).at \in Nat /\ WordAt(Length, i).width \in {1, 2, 4, 8}
          /\ End(Length, i) = WordAt(Length, i).at + WordAt(Length, i).width
          /\ End(Length, i) <= Length
      BY <1>2, WordCovers
    <2> QED
      BY <1>2, <2>1, <2>2 DEF Covers, Lanes
  <1>5. PICK j \in Lanes(Length) : memory[Dst + j] # memory[Src + j]
    BY <1>4 DEF CompareFails, Equal
  <1>6. j \in Int
    BY DEF Lanes
  <1>7. call.x = Dst + j \/ call.x = Src + j
    BY <1>1, <1>2, <1>5, TwiceFact DEF CompareInv
  <1>8. call.x - Dst = j \/ call.x - Src = j
    BY <1>2, <1>6, <1>7
  <1>9. ~(\A p \in {Dst, Src} : call.x - p \notin Lanes(Length))
    BY <1>8
  <1>10. Dst' = Dst /\ Src' = Src /\ Length' = Length
    BY <1>1 DEF Dst, Src, Length
  <1>11. result'[1] = FALSE
    BY <1>1
  <1> QED
    BY <1>1, <1>9, <1>10, <1>11 DEF CompareExact, Done

LEMMA CompareEndsStep ==
  ASSUME CursorInv, CompareInv, CompareEnds
  PROVE  CompareExact'
  <1>1. /\ call.op = "MemCmp" /\ result' = <<TRUE>> /\ call' = call
        /\ cursor = WordCount(Length) /\ result = <<>>
    BY DEF CompareEnds, Returns
  <1>2. /\ Dst \in Nat /\ Src \in Nat /\ Length \in Nat
        /\ Dst + Length <= Size /\ Src + Length <= Size
        /\ Apart(Dst, Src, Length) /\ call.x \in Int
    BY <1>1, CallFact, SlBytesAssumption DEF CursorInv, Looping, Cells
  <1>3. \A j \in Lanes(Length) : memory[Dst + j] = memory[Src + j]
    BY <1>1, <1>2, AllCovered DEF CompareInv
  <1>4. \A j \in Lanes(Length) : call.x # Dst + j /\ call.x # Src + j
    BY <1>1, <1>2, <1>3, TwiceFact DEF CompareInv
  <1>5. ASSUME NEW p \in {Dst, Src} PROVE call.x - p \notin Lanes(Length)
    <2>1. p \in Nat /\ p + (call.x - p) = call.x
      BY <1>2
    <2> QED
      BY <1>4, <2>1
  <1>6. Dst' = Dst /\ Src' = Src /\ Length' = Length
    BY <1>1 DEF Dst, Src, Length
  <1>7. result'[1] = TRUE
    BY <1>1
  <1> QED
    BY <1>1, <1>5, <1>6, <1>7 DEF CompareExact, Done

LEMMA LoopInit == Init => LoopInv
  <1> SUFFICES ASSUME Init PROVE LoopInv
    OBVIOUS
  <1>1. call \in Calls /\ cursor = 0 /\ result = <<>>
    BY DEF Init
  <1>2. CursorInv
    <2>1. Looping => Length \in Nat
      BY <1>1, CallFact, SlBytesAssumption
    <2> QED
      BY <1>1, <2>1, CountFact DEF CursorInv
  <1>3. \A j : j \notin Lanes(End(Length, cursor))
    BY <1>1 DEF End, Lanes
  <1>4. CASE call.op = "MemCpy"
    <2>1. memory = Distinct
      BY <1>4 DEF Init
    <2> QED
      BY <1>1, <1>2, <1>3, <1>4, <2>1
      DEF LoopInv, CopyInv, SetInv, CompareInv, CompareExact, Done, Distinct
  <1>5. CASE call.op = "MemSet"
    <2>1. memory = Distinct
      BY <1>5 DEF Init
    <2> QED
      BY <1>1, <1>2, <1>3, <1>5, <2>1
      DEF LoopInv, CopyInv, SetInv, CompareInv, CompareExact, Done, Distinct
  <1>6. CASE call.op = "MemCmp"
    <2>1. memory = Twice(Dst, Src, Length, call.x)
      BY <1>6 DEF Init
    <2> QED
      BY <1>1, <1>2, <1>3, <1>6, <2>1
      DEF LoopInv, CopyInv, SetInv, CompareInv, CompareExact, Done
  <1>7. CASE call.op \notin {"MemCpy", "MemSet", "MemCmp"}
    BY <1>2, <1>7 DEF LoopInv, CopyInv, SetInv, CompareInv, CompareExact, Done
  <1> QED
    BY <1>4, <1>5, <1>6, <1>7

LEMMA LoopNext == LoopInv /\ [Next]_vars => LoopInv'
  <1> SUFFICES ASSUME LoopInv, [Next]_vars PROVE LoopInv'
    OBVIOUS
  <1> USE DEF LoopInv
  <1>1. ASSUME NEW op, op \in {"MemCpy", "MemSet", "MemCmp"}, NextWord(op)
        PROVE  CursorInv' /\ call' = call /\ result' = result /\ call.op = op
    <2>1. cursor' = cursor + 1 /\ cursor + 1 \in 1 .. WordCount(Length) /\ call' = call
      BY <1>1, NextCovers
    <2>2. cursor + 1 \in 0 .. WordCount(Length)
      <3>1. Length \in Nat /\ cursor \in Nat
        BY <1>1, NextCovers
      <3> QED
        BY <2>1, <3>1, CountFact
    <2> QED
      BY <1>1, <2>1, <2>2 DEF CursorInv, NextWord, WordCount, Length
  <1>2. CASE CopyWord
    <2>1. CursorInv' /\ call' = call /\ call.op = "MemCpy"
      BY <1>1, <1>2 DEF CopyWord
    <2>2. CopyInv'
      BY <1>2, CopyStep
    <2> QED
      BY <2>1, <2>2 DEF SetInv, CompareInv, CompareExact, Done
  <1>3. CASE SetWord
    <2>1. CursorInv' /\ call' = call /\ call.op = "MemSet"
      BY <1>1, <1>3 DEF SetWord
    <2>2. SetInv'
      BY <1>3, SetStep
    <2> QED
      BY <2>1, <2>2 DEF CopyInv, CompareInv, CompareExact, Done
  <1>4. CASE CompareWord
    <2>1. CursorInv' /\ call' = call /\ call.op = "MemCmp" /\ result' = <<>>
      BY <1>1, <1>4 DEF CompareWord
    <2>2. CompareInv'
      BY <1>4, CompareStep
    <2> QED
      BY <2>1, <2>2 DEF CopyInv, SetInv, CompareExact, Done
  <1>5. ASSUME NEW op, NEW r, Returns(op, r)
        PROVE  CursorInv' /\ CopyInv' /\ SetInv' /\ CompareInv' /\ call.op = op /\ call' = call
    <2>1. /\ call' = call /\ memory' = memory /\ cursor' = cursor /\ call.op = op
          /\ result' = <<r>>
      BY <1>5 DEF Returns
    <2>2. Dst' = Dst /\ Src' = Src /\ Length' = Length
      BY <2>1 DEF Dst, Src, Length
    <2>3. CursorInv'
      BY <2>1, <2>2 DEF CursorInv, Looping, WordCount
    <2>4. End(Length, cursor)' = End(Length, cursor)
      BY <2>1, <2>2 DEF End, WordAt
    <2>5. CopyInv' /\ SetInv'
      BY <2>1, <2>2, <2>4 DEF CopyInv, SetInv
    <2>6. CompareInv'
      BY <2>1, <2>2 DEF CompareInv
    <2> QED
      BY <2>1, <2>3, <2>5, <2>6
  <1>6. CASE CompareFails
    BY <1>5, <1>6, CompareFailsStep DEF CompareFails
  <1>7. CASE CompareEnds
    BY <1>5, <1>7, CompareEndsStep DEF CompareEnds
  <1>8. CASE Spread \/ Swap
    <2>1. PICK op \in {"Pattern", "HtoN"} : \E r : Returns(op, r)
      BY <1>8 DEF Spread, Swap
    <2> QED
      BY <1>5, <2>1 DEF CompareExact, Done
  <1>9. CASE UNCHANGED vars
    <2>1. call' = call /\ memory' = memory /\ cursor' = cursor /\ result' = result
      BY <1>9 DEF vars
    <2>2. Dst' = Dst /\ Src' = Src /\ Length' = Length
      BY <2>1 DEF Dst, Src, Length
    <2>3. End(Length, cursor)' = End(Length, cursor)
      BY <2>1, <2>2 DEF End, WordAt
    <2>4. CursorInv' /\ CopyInv' /\ SetInv'
      BY <2>1, <2>2, <2>3 DEF CursorInv, Looping, WordCount, CopyInv, SetInv
    <2>5. CompareInv' /\ CompareExact'
      BY <2>1, <2>2, <2>3 DEF CompareInv, CompareExact, Done
    <2> QED
      BY <2>4, <2>5
  <1> QED
    BY <1>2, <1>3, <1>4, <1>6, <1>7, <1>8, <1>9 DEF Next

\* A finished loop has covered its n bytes.
LEMMA LoopDone == LoopInv => CopyExact /\ SetExact
  <1> SUFFICES ASSUME LoopInv PROVE CopyExact /\ SetExact
    OBVIOUS
  <1>1. ASSUME NEW op \in {"MemCpy", "MemSet"}, Finished(op)
        PROVE  End(Length, cursor) = Length /\ call.op = op
    <2>1. Length \in Nat
      BY <1>1, CallFact, SlBytesAssumption DEF LoopInv, CursorInv, Finished, Looping
    <2> QED
      BY <1>1, <2>1, AllCovered DEF Finished
  <1>2. CopyExact
    BY <1>1 DEF LoopInv, CopyInv, CopyExact
  <1>3. SetExact
    BY <1>1 DEF LoopInv, SetInv, SetExact
  <1> QED
    BY <1>2, <1>3

-----------------------------------------------------------------------------
(* The theorems.                                                           *)

\* The widths the two functions are called with.
WidthInv ==
  /\ call.op = "HtoN" => \E k \in {2, 4, 8} : DOMAIN call.v = Lanes(k)
  /\ call.op = "Pattern" => \E k \in {1, 2, 4} : DOMAIN call.v = Lanes(k)

LEMMA WidthInit == Init => WidthInv
  <1> SUFFICES ASSUME call \in Calls PROVE WidthInv
    BY DEF Init
  <1> QED
    BY DEF Calls, WidthInv, Integer

LEMMA LanesDiffer ==
  /\ Lanes(1) # Lanes(2) /\ Lanes(1) # Lanes(4)
  /\ Lanes(2) # Lanes(4) /\ Lanes(2) # Lanes(8) /\ Lanes(4) # Lanes(8)
  BY DEF Lanes

\* HtoN reverses every integer of 2, 4 or 8 bytes.
THEOREM SwapSafe == Spec => []SwapReverses
  <1>1. Init => WidthInv /\ SwapReverses
    BY WidthInit DEF Init, SwapReverses, Done
  <1>2. WidthInv /\ SwapReverses /\ [Next]_vars => (WidthInv /\ SwapReverses)'
    <2> SUFFICES ASSUME WidthInv, SwapReverses, [Next]_vars
                 PROVE  WidthInv' /\ SwapReverses'
      OBVIOUS
    <2>1. call' = call
      BY DEF Next, vars, CopyWord, SetWord, CompareWord, CompareFails, CompareEnds,
             Spread, Swap, NextWord, Returns
    <2>2. WidthInv'
      BY <2>1 DEF WidthInv
    <2>3. CASE result' = result
      BY <2>1, <2>2, <2>3 DEF SwapReverses, Done
    <2>4. CASE call.op # "HtoN"
      BY <2>1, <2>2, <2>4 DEF SwapReverses, Done
    <2>5. ASSUME Swap, NEW k \in {2, 4, 8}, DOMAIN call.v = Lanes(k)
          PROVE  SwapReverses'
      <3>1. Cardinality(Lanes(k)) = k
        BY LanesCard
      <3>2. CASE k = 2
        <4>1. result' = <<HtoN16(call.v)>>
          BY <2>5, <3>2, LanesDiffer DEF Swap, Returns
        <4> QED
          BY <2>1, <2>5, <3>1, <3>2, <4>1, Swap16 DEF SwapReverses
      <3>3. CASE k = 4
        <4>1. result' = <<HtoN32(call.v)>>
          BY <2>5, <3>3, LanesDiffer DEF Swap, Returns
        <4> QED
          BY <2>1, <2>5, <3>1, <3>3, <4>1, Swap32 DEF SwapReverses
      <3>4. CASE k = 8
        <4>1. result' = <<HtoN64(call.v)>>
          BY <2>5, <3>4, LanesDiffer DEF Swap, Returns
        <4> QED
          BY <2>1, <2>5, <3>1, <3>4, <4>1, Swap64 DEF SwapReverses
      <3> QED
        BY <3>2, <3>3, <3>4
    <2>6. ASSUME call.op = "HtoN", result' # result PROVE Swap
      BY <2>6 DEF Next, vars, CopyWord, SetWord, CompareWord, CompareFails, CompareEnds,
                    Spread, NextWord, Returns
    <2>7. CASE call.op = "HtoN" /\ result' # result
      BY <2>2, <2>5, <2>6, <2>7 DEF WidthInv
    <2> QED
      BY <2>2, <2>3, <2>4, <2>7
  <1> QED
    BY <1>1, <1>2, PTL DEF Spec

\* A MemSet of a byte, or of a short or int that is not negative, repeats it.
THEOREM PatternSafe == Spec => []PatternRepeats
  <1>1. Init => WidthInv /\ PatternRepeats
    BY WidthInit DEF Init, PatternRepeats, Done
  <1>2. WidthInv /\ PatternRepeats /\ [Next]_vars => (WidthInv /\ PatternRepeats)'
    <2> SUFFICES ASSUME WidthInv, PatternRepeats, [Next]_vars
                 PROVE  WidthInv' /\ PatternRepeats'
      OBVIOUS
    <2>1. call' = call
      BY DEF Next, vars, CopyWord, SetWord, CompareWord, CompareFails, CompareEnds,
             Spread, Swap, NextWord, Returns
    <2>2. WidthInv'
      BY <2>1 DEF WidthInv
    <2>3. CASE result' = result
      BY <2>1, <2>2, <2>3 DEF PatternRepeats, Done
    <2>4. CASE call.op # "Pattern"
      BY <2>1, <2>2, <2>4 DEF PatternRepeats, Done
    <2>5. ASSUME Spread, NEW k \in {1, 2, 4}, DOMAIN call.v = Lanes(k)
          PROVE  PatternRepeats'
      <3>1. Cardinality(Lanes(k)) = k
        BY LanesCard
      <3>2. CASE k = 1
        <4>1. result' = <<Pattern8(call.v)>>
          BY <2>5, <3>2, LanesDiffer DEF Spread, Returns
        <4> QED
          BY <2>1, <2>5, <3>1, <3>2, <4>1, Repeat8 DEF PatternRepeats
      <3>3. CASE k = 2
        <4>1. result' = <<Pattern16(call.v)>>
          BY <2>5, <3>3, LanesDiffer DEF Spread, Returns
        <4> QED
          BY <2>1, <2>5, <3>1, <3>3, <4>1, Repeat16 DEF PatternRepeats
      <3>4. CASE k = 4
        <4>1. result' = <<Pattern32(call.v)>>
          BY <2>5, <3>4, LanesDiffer DEF Spread, Returns
        <4> QED
          BY <2>1, <2>5, <3>1, <3>4, <4>1, Repeat32 DEF PatternRepeats
      <3> QED
        BY <3>2, <3>3, <3>4
    <2>6. ASSUME call.op = "Pattern", result' # result PROVE Spread
      BY <2>6 DEF Next, vars, CopyWord, SetWord, CompareWord, CompareFails, CompareEnds,
                    Swap, NextWord, Returns
    <2>7. CASE call.op = "Pattern" /\ result' # result
      BY <2>2, <2>5, <2>6, <2>7 DEF WidthInv
    <2> QED
      BY <2>2, <2>3, <2>4, <2>7
  <1> QED
    BY <1>1, <1>2, PTL DEF Spec

\* A finished MemCpy has copied its n bytes and nothing else, for every memory,
\* length and two places that do not overlap or lie at least 3 bytes apart downwards.
THEOREM CopySafe == Spec => []CopyExact
  BY LoopInit, LoopNext, LoopDone, PTL DEF Spec

\* A finished MemSet has repeated its pattern through its n bytes and nowhere else.
THEOREM SetSafe == Spec => []SetExact
  BY LoopInit, LoopNext, LoopDone, PTL DEF Spec

\* MemCmp answers whether its n bytes are equal, wherever one of them differs.
THEOREM CompareSafe == Spec => []CompareExact
  <1>1. LoopInv => CompareExact
    BY DEF LoopInv
  <1> QED
    BY <1>1, LoopInit, LoopNext, PTL DEF Spec
=============================================================================
