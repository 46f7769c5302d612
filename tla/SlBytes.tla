------------------------------- MODULE SlBytes -------------------------------
(***************************************************************************)
(* The byte utilities of Scripts/Util.cs: MemCpy, MemSet and MemCmp, loops *)
(* over words of 8 bytes that finish with overlapping shorter ones, and    *)
(* HtoN, which swaps bytes by masks and shifts.  NtoH is HtoN.             *)
(*                                                                         *)
(* A byte is the set of its bits that are set.  Memory and integers are    *)
(* functions from positions to bytes, the lowest byte of an integer at 0   *)
(* (the code assumes little endian).  A pointer is an index into memory:   *)
(* base and offset are added before anything else is done with them.       *)
(* byteLength is at least 0.                                               *)
(***************************************************************************)
EXTENDS Integers, Sequences, FiniteSets

CONSTANTS
  Size,    \* cells of memory
  Bytes    \* the bytes integers are made of

Bits == 0 .. 7
ASSUME SlBytesAssumption == Size \in Nat /\ Bytes \subseteq SUBSET Bits

VARIABLES
  call,    \* the call and its arguments
  memory,  \* what MemCpy, MemSet and MemCmp work on
  cursor,  \* how many words they have handled
  result   \* <<>>, then <<what the call returned>>: an integer or a Boolean

vars == <<call, memory, cursor, result>>

Cells == 0 .. Size - 1
Lanes(k) == 0 .. k - 1
Integer(k) == [Lanes(k) -> Bytes]

-----------------------------------------------------------------------------
(* Integers.                                                               *)

\* x << 8k, x >> 8k and x & mask, where mask keeps whole bytes.
Shl(x, k) == [i \in DOMAIN x |-> IF i >= k THEN x[i - k] ELSE {}]
Shr(x, k) == [i \in DOMAIN x |-> IF i + k \in DOMAIN x THEN x[i + k] ELSE {}]
Mask(x, kept) == [i \in DOMAIN x |-> IF i \in kept THEN x[i] ELSE {}]

\* x | y, and x + y as well as long as they have no bit in common.
Or(x, y) == [i \in DOMAIN x |-> x[i] \cup y[i]]

\* (ulong)x of an unsigned and of a signed integer, and (uint)x.
Widen(x) == [i \in Lanes(8) |-> IF i \in DOMAIN x THEN x[i] ELSE {}]
SignExtend(x, k) ==
  [i \in Lanes(8) |-> IF i < k THEN x[i] ELSE IF 7 \in x[k - 1] THEN Bits ELSE {}]
Low(x) == [i \in Lanes(4) |-> x[i]]

HtoN16(x) == Or(Shr(x, 1), Shl(x, 1))

\* As if the two masks were exchanged.                      (mutant of HtoN32)
HtoN32Exchanged(x) ==
  Or(Or(Shr(Mask(x, {1, 3}), 1), Shl(Mask(x, {1, 3}), 3)),
     Or(Shl(Mask(x, {0, 2}), 1), Shr(Mask(x, {0, 2}), 3)))
HtoN32(x) ==
  LET num1 == Mask(x, {0, 2})
      num2 == Mask(x, {1, 3})
  IN  Or(Or(Shr(num1, 1), Shl(num1, 3)), Or(Shl(num2, 1), Shr(num2, 3)))

HtoN64(x) == Or(Shl(Widen(HtoN32(Low(x))), 4), Widen(HtoN32(Low(Shr(x, 4)))))

\* The pattern of MemSet: a byte, a short or an int, repeated in a ulong.
Pattern8(v) ==
  LET u == Widen(v) IN [i \in Lanes(8) |-> UNION {Shl(u, k)[i] : k \in Lanes(8)}]

\* As if ulval << 48 were missing.                       (mutant of Pattern16)
Pattern16Short(v) ==
  LET u == SignExtend(v, 2) IN [i \in Lanes(8) |-> UNION {Shl(u, k)[i] : k \in {0, 2, 4}}]
Pattern16(v) ==
  LET u == SignExtend(v, 2) IN [i \in Lanes(8) |-> UNION {Shl(u, k)[i] : k \in {0, 2, 4, 6}}]
Pattern32(v) == LET u == SignExtend(v, 4) IN Or(u, Shl(u, 4))

-----------------------------------------------------------------------------
(* Memory.                                                                 *)

Word(width, at) == [width |-> width, at |-> at]

\* As if Copy7 and Cmp7 were written like Copy6 and Cmp6.  (mutant of TailWords)
TailWordsEven(n) ==
  CASE n = 0 -> <<>>
    [] n \in {1, 2, 4} -> <<Word(n, 0)>>
    [] n = 3 -> <<Word(2, 0), Word(2, 1)>>
    [] n \in {5, 6, 7} -> <<Word(4, 0), Word(4, IF n = 5 THEN 1 ELSE 2)>>

\* The words in which fewer than 8 bytes are handled, in order.
TailWords(n) ==
  CASE n = 0 -> <<>>
    [] n \in {1, 2, 4} -> <<Word(n, 0)>>
    [] n = 3 -> <<Word(2, 0), Word(2, 1)>>
    [] n \in {5, 6, 7} -> <<Word(4, 0), Word(4, n - 4)>>

Limit(n) == n - (n % 8)                      \* longWriteLimit

\* The words in which n bytes are handled, in order: 8 bytes at a time, then the
\* tail.
WordCount(n) == n \div 8 + Len(TailWords(n % 8))
WordAt(n, i) ==
  IF i <= n \div 8
  THEN Word(8, 8 * (i - 1))
  ELSE LET w == TailWords(n % 8)[i - n \div 8] IN Word(w.width, Limit(n) + w.at)

\* The bytes of a word, counted from the first byte of the call.
Covers(w) == w.at .. w.at + w.width - 1

-----------------------------------------------------------------------------
(* The calls.  Memory holds the names of its cells, except for MemCmp.     *)

Distinct == [a \in Cells |-> a]
Pattern == [i \in Lanes(8) |-> Size + i]     \* ulongValue of MemSet
Apart(d, s, n) == d + n <= s \/ s + n <= d

\* A copy within one array is allowed when it moves bytes down by 3 or more.
MayCopy(d, s, n) == Apart(d, s, n) \/ s - d >= 3

\* The same n bytes at d and at s, but for cell x, if it is there at all.
Twice(d, s, n, x) ==
  [a \in Cells |-> CASE a = x -> "x"
                     [] a # x /\ a - d \in Lanes(n) -> "byte"
                     [] a # x /\ a - s \in Lanes(n) -> "byte"
                     [] OTHER -> "other"]

Places == {p \in Cells \X Cells \X (0 .. Size) : p[1] + p[3] <= Size /\ p[2] + p[3] <= Size}

Calls ==
       [op : {"MemCpy"}, at : {p \in Places : MayCopy(p[1], p[2], p[3])}]
  \cup [op : {"MemCmp"}, at : {p \in Places : Apart(p[1], p[2], p[3])}, x : Cells \cup {-1}]
  \cup [op : {"MemSet"}, at : {p \in Places : p[2] = 0}]
  \cup [op : {"Pattern"}, v : UNION {Integer(k) : k \in {1, 2, 4}}]
  \cup [op : {"HtoN"}, v : UNION {Integer(k) : k \in {2, 4}}]
  \cup [op : {"HtoN"}, v : {x \in [Lanes(8) -> Bytes] : \A i \in 2 .. 5 : x[i] = x[i - 2]}]

\* pdst, psrc and byteLength.
Dst == call.at[1]
Src == call.at[2]
Length == call.at[3]

Init ==
  /\ call \in Calls
  /\ memory = CASE call.op \in {"MemCpy", "MemSet"} -> Distinct
                [] call.op = "MemCmp" -> Twice(Dst, Src, Length, call.x)
                [] call.op \in {"Pattern", "HtoN"} -> <<>>
  /\ cursor = 0
  /\ result = <<>>

\* A loop of op goes on to its next word.
NextWord(op) ==
  /\ call.op = op /\ cursor < WordCount(Length)
  /\ cursor' = cursor + 1
  /\ UNCHANGED <<call, result>>

Returns(op, r) ==
  /\ call.op = op /\ result = <<>>
  /\ result' = <<r>>
  /\ UNCHANGED <<call, memory, cursor>>

\* One assignment of a word from psrc to pdst.
CopyWord ==
  /\ NextWord("MemCpy")
  /\ LET w == WordAt(Length, cursor + 1) IN
     memory' = [a \in DOMAIN memory |->
                  IF a - Dst \in Covers(w) THEN memory[a - Dst + Src] ELSE memory[a]]

\* Ulong values are copied from the start of the pattern; the words of the tail
\* lie in it where they lie in the tail.
SetWord ==
  /\ NextWord("MemSet")
  /\ LET w == WordAt(Length, cursor + 1) IN
     memory' = [a \in DOMAIN memory |->
                  IF a - Dst \in Covers(w)
                  THEN Pattern[(w.at % 8) + a - Dst - w.at]
                  ELSE memory[a]]

\* One comparison: the first word that differs ends the call.
Equal(w) == \A j \in Covers(w) : memory[Dst + j] = memory[Src + j]
CompareWord ==
  /\ NextWord("MemCmp") /\ UNCHANGED memory
  /\ result = <<>> /\ Equal(WordAt(Length, cursor + 1))
CompareFails ==
  /\ Returns("MemCmp", FALSE)
  /\ cursor < WordCount(Length) /\ ~Equal(WordAt(Length, cursor + 1))
CompareEnds == Returns("MemCmp", TRUE) /\ cursor = WordCount(Length)

Spread ==
  Returns("Pattern", CASE DOMAIN call.v = Lanes(1) -> Pattern8(call.v)
                       [] DOMAIN call.v = Lanes(2) -> Pattern16(call.v)
                       [] DOMAIN call.v = Lanes(4) -> Pattern32(call.v))
Swap ==
  Returns("HtoN", CASE DOMAIN call.v = Lanes(2) -> HtoN16(call.v)
                    [] DOMAIN call.v = Lanes(4) -> HtoN32(call.v)
                    [] DOMAIN call.v = Lanes(8) -> HtoN64(call.v))

Next ==
  CopyWord \/ SetWord \/ CompareWord \/ CompareFails \/ CompareEnds \/ Spread \/ Swap

Spec == Init /\ [][Next]_vars

-----------------------------------------------------------------------------
(* Properties.                                                             *)

Done(op) == call.op = op /\ result # <<>>
Finished(op) == call.op = op /\ cursor = WordCount(Length)

\* MemCpy copies the n bytes of the source and touches no other byte, for every
\* length and position, though the words of its tail overlap; also when it moves
\* bytes down within one array.
CopyExact ==
  Finished("MemCpy") =>
    memory = [a \in Cells |-> IF a - Dst \in Lanes(Length) THEN a - Dst + Src ELSE a]

\* MemCmp sees a difference in any of the n bytes and none outside them.
CompareExact ==
  Done("MemCmp") => result[1] = \A p \in {Dst, Src} : call.x - p \notin Lanes(Length)

\* MemSet repeats the 8 bytes of the pattern from the first byte on, cuts it at
\* the last, and touches no other byte.
SetExact ==
  Finished("MemSet") =>
    memory = [a \in Cells |->
                IF a - Dst \in Lanes(Length) THEN Size + ((a - Dst) % 8) ELSE a]

\* The pattern made of a byte, or of a short or int that is not negative,
\* repeats it through all 8 bytes.  (Those of negative ones do not: the sign
\* is extended into the rest of the pattern before it is repeated.)
PatternRepeats ==
  Done("Pattern") =>
    LET k == Cardinality(DOMAIN call.v) IN
    k = 1 \/ 7 \notin call.v[k - 1] => result[1] = [i \in Lanes(8) |-> call.v[i % k]]

\* HtoN reverses the bytes of integers of 16, 32 and 64 bits.
SwapReverses ==
  Done("HtoN") =>
    LET k == Cardinality(DOMAIN call.v) IN
    result[1] = [i \in Lanes(k) |-> call.v[k - 1 - i]]
=============================================================================
