-------------------------- MODULE SlLayout_proofs --------------------------
(* Proofs about SlLayout, for every compiler and every set of user macros. *)
EXTENDS SlLayout, WellFoundedInduction, TLAPS

-----------------------------------------------------------------------------
(* Induction on sets of numbers.                                           *)

\* A set of numbers has a least one.
LEMMA NatMin ==
  ASSUME NEW T \in SUBSET Nat, T # {}
  PROVE  \E n \in T : \A m \in T : n <= m
  <1> DEFINE R == {p \in Nat \X Nat : p[1] < p[2]}
  <1>1. IsWellFoundedOn(R, Nat)
    BY NatLessThanWellFounded DEF OpToRel
  <1>2. \A x, y \in Nat : y < x => <<y, x>> \in R
    OBVIOUS
  <1> HIDE DEF R
  <1>3. PICK x \in T : \A y \in T : ~ (<<y, x>> \in R)
    BY <1>1, WFMin
  <1>4. ASSUME NEW m \in T PROVE x <= m
    <2>1. x \in Nat /\ m \in Nat
      OBVIOUS
    <2>2. ~ (m < x)
      BY <1>2, <1>3, <2>1
    <2> QED
      BY <2>1, <2>2
  <1> QED
    BY <1>4

\* One that holds 0 and the successor of each of its numbers holds them all.
LEMMA NatSets ==
  ASSUME NEW S, 0 \in S, \A n \in Nat : n \in S => n + 1 \in S
  PROVE  Nat \subseteq S
  <1> SUFFICES ASSUME Nat \ S # {} PROVE FALSE
    OBVIOUS
  <1>1. PICK n \in Nat \ S : \A m \in Nat \ S : n <= m
    BY NatMin
  <1>2. n # 0 /\ n - 1 \in Nat /\ n - 1 < n
    BY <1>1
  <1>3. n - 1 \in S
    BY <1>1, <1>2
  <1>4. (n - 1) + 1 \in S
    BY <1>2, <1>3
  <1> QED
    BY <1>1, <1>4

-----------------------------------------------------------------------------
(* What Struct lays out, for any declaration.                              *)

Aligns == {1, 2, 4, 8}

\* The fields of a struct have different names.
Declared(decl) ==
  /\ Len(decl) \in Nat \ {0} /\ DOMAIN decl = 1 .. Len(decl)
  /\ \A i \in 1 .. Len(decl) : decl[i].size \in Nat /\ decl[i].align \in Aligns
  /\ \A i, j \in 1 .. Len(decl) : decl[i].name = decl[j].name => i = j

LEMMA UpFact ==
  ASSUME NEW n \in Nat, NEW a \in Aligns
  PROVE  Up(n, a) \in Nat /\ n <= Up(n, a) /\ Up(n, a) % a = 0
  <1>1. CASE a = 1
    BY <1>1 DEF Up
  <1>2. CASE a = 2
    BY <1>2 DEF Up
  <1>3. CASE a = 4
    BY <1>3 DEF Up
  <1>4. CASE a = 8
    BY <1>4 DEF Up
  <1> QED
    BY <1>1, <1>2, <1>3, <1>4 DEF Aligns

\* Where the first k fields end, given where those before each do.
EndsOf(decl, g, k) ==
  [i \in 0 .. k |-> IF i = 0 THEN 0 ELSE Up(g[i - 1], decl[i].align) + decl[i].size]

LEMMA EndsExist ==
  ASSUME NEW decl, NEW n \in Nat
  PROVE  \E g : g = EndsOf(decl, g, n)
  <1> DEFINE S == {k \in Nat : \E g : g = EndsOf(decl, g, k)}
  <1>1. 0 \in S
    <2>1. [i \in 0 .. 0 |-> 0] = EndsOf(decl, [i \in 0 .. 0 |-> 0], 0)
      BY DEF EndsOf
    <2> QED
      BY <2>1
  <1>2. ASSUME NEW k \in Nat, k \in S PROVE k + 1 \in S
    <2>1. PICK g : g = EndsOf(decl, g, k)
      BY <1>2
    <2> DEFINE last == Up(g[k], decl[k + 1].align) + decl[k + 1].size
               h == [i \in 0 .. k + 1 |-> IF i = k + 1 THEN last ELSE g[i]]
    <2>2. \A i \in 0 .. k : g[i] = IF i = 0 THEN 0 ELSE Up(g[i - 1], decl[i].align) + decl[i].size
      BY <2>1 DEF EndsOf
    <2>3. \A i \in 0 .. k + 1 :
            h[i] = IF i = 0 THEN 0 ELSE Up(h[i - 1], decl[i].align) + decl[i].size
      <3> SUFFICES ASSUME NEW i \in 0 .. k + 1
                   PROVE  h[i] = IF i = 0 THEN 0 ELSE Up(h[i - 1], decl[i].align) + decl[i].size
        OBVIOUS
      <3>1. CASE i = k + 1
        <4>1. k \in 0 .. k + 1 /\ k # k + 1 /\ i # 0 /\ i - 1 = k
          BY <3>1
        <4>2. h[k] = g[k] /\ h[i] = last
          BY <3>1, <4>1
        <4> HIDE DEF h
        <4> QED
          BY <3>1, <4>1, <4>2
      <3>2. CASE i \in 0 .. k
        <4>1. i # k + 1 /\ h[i] = g[i]
          BY <3>2
        <4>2. i # 0 => i - 1 \in 0 .. k + 1 /\ i - 1 # k + 1 /\ h[i - 1] = g[i - 1]
          BY <3>2
        <4> HIDE DEF h
        <4> QED
          BY <2>2, <3>2, <4>1, <4>2
      <3> QED
        BY <3>1, <3>2
    <2>4. h = [i \in 0 .. k + 1 |-> h[i]]
      OBVIOUS
    <2> HIDE DEF h
    <2>5. h = EndsOf(decl, h, k + 1)
      BY <2>3, <2>4 DEF EndsOf
    <2> QED
      BY <2>5
  <1>3. Nat \subseteq S
    <2> HIDE DEF S
    <2> QED
      BY <1>1, <1>2, NatSets
  <1> QED
    BY <1>3

LEMMA EndsFact ==
  ASSUME NEW decl, Len(decl) \in Nat
  PROVE  Ends(decl) = EndsOf(decl, Ends(decl), Len(decl))
  <1>1. \E g : g = EndsOf(decl, g, Len(decl))
    BY EndsExist
  <1> QED
    BY <1>1 DEF Ends, EndsOf

LEMMA EndFact ==
  ASSUME NEW decl, Declared(decl)
  PROVE  /\ Ends(decl)[0] = 0
         /\ \A i \in 1 .. Len(decl) :
              Ends(decl)[i] = Up(Ends(decl)[i - 1], decl[i].align) + decl[i].size
  <1>1. Len(decl) \in Nat
    BY DEF Declared
  <1>2. Ends(decl) = EndsOf(decl, Ends(decl), Len(decl))
    BY <1>1, EndsFact
  <1>3. \A i \in 0 .. Len(decl) : Ends(decl)[i] =
          IF i = 0 THEN 0 ELSE Up(Ends(decl)[i - 1], decl[i].align) + decl[i].size
    BY <1>2 DEF EndsOf
  <1> QED
    BY <1>1, <1>3

\* Where field i starts.
Start(decl, i) == Up(Ends(decl)[i - 1], decl[i].align)

LEMMA EndType ==
  ASSUME NEW decl, Declared(decl)
  PROVE  \A i \in 0 .. Len(decl) : Ends(decl)[i] \in Nat
  <1> DEFINE S == {i \in Nat : i <= Len(decl) => Ends(decl)[i] \in Nat}
  <1>0. Len(decl) \in Nat
    BY DEF Declared
  <1>1. 0 \in S
    BY EndFact
  <1>2. ASSUME NEW i \in Nat, i \in S PROVE i + 1 \in S
    <2> SUFFICES ASSUME i + 1 <= Len(decl) PROVE Ends(decl)[i + 1] \in Nat
      OBVIOUS
    <2>1. i + 1 \in 1 .. Len(decl) /\ (i + 1) - 1 = i /\ Ends(decl)[i] \in Nat
      BY <1>0, <1>2
    <2>2. decl[i + 1].align \in Aligns /\ decl[i + 1].size \in Nat
      BY <2>1 DEF Declared
    <2>3. Ends(decl)[i + 1] = Up(Ends(decl)[i], decl[i + 1].align) + decl[i + 1].size
      BY <2>1, EndFact
    <2>4. Up(Ends(decl)[i], decl[i + 1].align) \in Nat
      BY <2>1, <2>2, UpFact
    <2> QED
      BY <2>2, <2>3, <2>4
  <1>3. Nat \subseteq S
    <2> HIDE DEF S
    <2> QED
      BY <1>1, <1>2, NatSets
  <1> QED
    BY <1>0, <1>3

\* A field starts where the one before it has ended, aligned.
LEMMA StartFact ==
  ASSUME NEW decl, Declared(decl), NEW i \in 1 .. Len(decl)
  PROVE  /\ Start(decl, i) \in Nat /\ Ends(decl)[i - 1] <= Start(decl, i)
         /\ Start(decl, i) % decl[i].align = 0
         /\ Ends(decl)[i] = Start(decl, i) + decl[i].size
         /\ Ends(decl)[i] \in Nat /\ Ends(decl)[i - 1] \in Nat
         /\ Start(decl, i) <= Ends(decl)[i] /\ Ends(decl)[i - 1] <= Ends(decl)[i]
  <1>0. Len(decl) \in Nat /\ decl[i].align \in Aligns /\ decl[i].size \in Nat
    BY DEF Declared
  <1>1. i - 1 \in 0 .. Len(decl) /\ i \in 0 .. Len(decl)
    BY <1>0
  <1>2. Ends(decl)[i - 1] \in Nat /\ Ends(decl)[i] \in Nat
    BY <1>1, EndType
  <1>3. /\ Start(decl, i) \in Nat /\ Ends(decl)[i - 1] <= Start(decl, i)
        /\ Start(decl, i) % decl[i].align = 0
    BY <1>0, <1>2, UpFact DEF Start
  <1>4. Ends(decl)[i] = Start(decl, i) + decl[i].size
    BY EndFact DEF Start
  <1> QED
    BY <1>0, <1>2, <1>3, <1>4

\* Where a field is, given where the one before it ends.
LEMMA NextField ==
  ASSUME NEW decl, Declared(decl), NEW i \in 1 .. Len(decl), NEW p, Ends(decl)[i - 1] = p
  PROVE  /\ Start(decl, i) = Up(p, decl[i].align)
         /\ Ends(decl)[i] = Up(p, decl[i].align) + decl[i].size
  BY EndFact DEF Start

\* Every field ends before every later one starts.
LEMMA EndsInOrder ==
  ASSUME NEW decl, Declared(decl), NEW i \in 1 .. Len(decl)
  PROVE  \A j \in i + 1 .. Len(decl) : Ends(decl)[i] <= Start(decl, j)
  <1> DEFINE S == {k \in Nat : i + k <= Len(decl) => Ends(decl)[i] <= Ends(decl)[i + k]}
  <1>0. Len(decl) \in Nat /\ i \in Nat
    BY DEF Declared
  <1>1. 0 \in S
    BY <1>0, StartFact
  <1>2. ASSUME NEW k \in Nat, k \in S PROVE k + 1 \in S
    <2> SUFFICES ASSUME i + (k + 1) <= Len(decl) PROVE Ends(decl)[i] <= Ends(decl)[i + (k + 1)]
      OBVIOUS
    <2>1. i + k <= Len(decl) /\ i + (k + 1) \in 1 .. Len(decl) /\ (i + (k + 1)) - 1 = i + k
      BY <1>0
    <2>2. Ends(decl)[i] <= Ends(decl)[i + k]
      BY <1>2, <2>1
    <2>3. /\ Ends(decl)[i + k] <= Ends(decl)[i + (k + 1)]
          /\ Ends(decl)[i + k] \in Nat /\ Ends(decl)[i + (k + 1)] \in Nat
      BY <2>1, StartFact
    <2>4. Ends(decl)[i] \in Nat
      BY StartFact
    <2> QED
      BY <2>2, <2>3, <2>4
  <1>3. Nat \subseteq S
    <2> HIDE DEF S
    <2> QED
      BY <1>1, <1>2, NatSets
  <1>4. ASSUME NEW j \in i + 1 .. Len(decl) PROVE Ends(decl)[i] <= Start(decl, j)
    <2>1. j \in 1 .. Len(decl) /\ (j - 1) - i \in Nat /\ i + ((j - 1) - i) = j - 1 /\ j - 1 <= Len(decl)
      BY <1>0
    <2>2. (j - 1) - i \in S
      BY <1>3, <2>1
    <2>3. Ends(decl)[i] <= Ends(decl)[j - 1]
      BY <2>1, <2>2
    <2>4. Ends(decl)[j - 1] <= Start(decl, j) /\ Start(decl, j) \in Nat /\ Ends(decl)[j - 1] \in Nat
      BY <2>1, StartFact
    <2>5. Ends(decl)[i] \in Nat
      BY StartFact
    <2> QED
      BY <2>3, <2>4, <2>5
  <1> QED
    BY <1>4

\* The alignment of a struct is that of one of its fields.
LEMMA AlignFact ==
  ASSUME NEW decl, Declared(decl)
  PROVE  Max({decl[i].align : i \in DOMAIN decl}) \in Aligns
  <1> DEFINE A == {decl[i].align : i \in DOMAIN decl}
  <1>1. A \subseteq Aligns /\ A # {}
    BY DEF Declared
  <1> HIDE DEF A
  <1>2. \E x \in A : \A y \in A : x >= y
    <2>1. CASE 8 \in A
      BY <1>1, <2>1 DEF Aligns
    <2>2. CASE 8 \notin A /\ 4 \in A
      BY <1>1, <2>2 DEF Aligns
    <2>3. CASE 8 \notin A /\ 4 \notin A /\ 2 \in A
      BY <1>1, <2>3 DEF Aligns
    <2>4. CASE A = {1}
      BY <2>4
    <2> QED
      BY <1>1, <2>1, <2>2, <2>3, <2>4 DEF Aligns
  <1>3. Max(A) \in A
    BY <1>2 DEF Max
  <1> QED
    BY <1>1, <1>3 DEF A

At(l, n, at, size) == n \in DOMAIN l.at /\ l.at[n].at = at /\ l.at[n].size = size

\* The fields of a struct and where they are.
LEMMA StructFact ==
  ASSUME NEW decl, Declared(decl)
  PROVE  /\ DOMAIN Struct(decl).at = {decl[i].name : i \in 1 .. Len(decl)}
         /\ \A i \in 1 .. Len(decl) : At(Struct(decl), decl[i].name, Start(decl, i), decl[i].size)
         /\ Struct(decl).align = Max({decl[i].align : i \in DOMAIN decl})
         /\ Struct(decl).size = Up(Ends(decl)[Len(decl)], Struct(decl).align)
         /\ Struct(decl).size \in Nat /\ Ends(decl)[Len(decl)] <= Struct(decl).size
  <1> DEFINE l == Struct(decl)
             align == Max({decl[i].align : i \in DOMAIN decl})
             Place(i) == [at |-> Ends(decl)[i] - decl[i].size, size |-> decl[i].size]
             Named(n) == CHOOSE i \in DOMAIN decl : decl[i].name = n
             places == [n \in {decl[i].name : i \in DOMAIN decl} |-> Place(Named(n))]
  <1>0. /\ DOMAIN decl = 1 .. Len(decl) /\ Len(decl) \in 1 .. Len(decl)
        /\ \A i \in 1 .. Len(decl) : decl[i].size \in Nat
    BY DEF Declared
  <1>1. l = [at |-> places, size |-> Up(Ends(decl)[Len(decl)], align), align |-> align]
    BY DEF Struct
  <1>2. l.at = places /\ l.size = Up(Ends(decl)[Len(decl)], align) /\ l.align = align
    <2> HIDE DEF l, places, align
    <2> QED
      BY <1>1
  <1>3. ASSUME NEW i \in 1 .. Len(decl)
        PROVE  /\ decl[i].name \in DOMAIN places
               /\ places[decl[i].name].at = Start(decl, i)
               /\ places[decl[i].name].size = decl[i].size
    <2>1. Named(decl[i].name) = i
      BY <1>0 DEF Declared
    <2>2. Place(i) = [at |-> Start(decl, i), size |-> decl[i].size]
      <3>1. Ends(decl)[i] = Start(decl, i) + decl[i].size /\ Start(decl, i) \in Nat
        BY StartFact
      <3>2. Ends(decl)[i] - decl[i].size = Start(decl, i)
        BY <1>0, <3>1
      <3> QED
        BY <3>2
    <2>3. decl[i].name \in {decl[j].name : j \in DOMAIN decl}
      BY <1>0
    <2> HIDE DEF Named, Place
    <2>4. decl[i].name \in DOMAIN places /\ places[decl[i].name] = Place(i)
      BY <2>1, <2>3
    <2> HIDE DEF places
    <2> QED
      BY <2>2, <2>4
  <1>4. DOMAIN places = {decl[i].name : i \in 1 .. Len(decl)}
    BY <1>0
  <1>5. l.size \in Nat /\ Ends(decl)[Len(decl)] <= l.size
    <2>1. Ends(decl)[Len(decl)] \in Nat
      BY <1>0, StartFact
    <2>2. align \in Aligns
      BY AlignFact
    <2> HIDE DEF l, align
    <2> QED
      BY <1>2, <2>1, <2>2, UpFact
  <1> HIDE DEF l, places, align
  <1>6. /\ DOMAIN l.at = {decl[i].name : i \in 1 .. Len(decl)}
        /\ \A i \in 1 .. Len(decl) : At(l, decl[i].name, Start(decl, i), decl[i].size)
    BY <1>2, <1>3, <1>4 DEF At
  <1> QED
    BY <1>2, <1>5, <1>6 DEF l, align

-----------------------------------------------------------------------------
(* Fields that do not overlap.                                             *)

Beyond(f) == f.at + f.size

Sound(l) ==
  /\ l.size \in Nat
  /\ \A n \in DOMAIN l.at :
       /\ l.at[n].at \in Nat /\ l.at[n].size \in Nat
       /\ Beyond(l.at[n]) <= l.size
  /\ \A m, n \in DOMAIN l.at :
       m # n => Beyond(l.at[m]) <= l.at[n].at \/ Beyond(l.at[n]) <= l.at[m].at

LEMMA StructSound ==
  ASSUME NEW decl, Declared(decl)
  PROVE  Sound(Struct(decl))
  <1> DEFINE l == Struct(decl)
  <1>0. /\ Len(decl) \in Nat /\ Len(decl) \in 1 .. Len(decl)
        /\ \A i \in 1 .. Len(decl) : decl[i].size \in Nat
    BY DEF Declared
  <1>1. /\ DOMAIN l.at = {decl[i].name : i \in 1 .. Len(decl)}
        /\ \A i \in 1 .. Len(decl) :
             /\ l.at[decl[i].name].at = Start(decl, i)
             /\ l.at[decl[i].name].size = decl[i].size
        /\ l.size \in Nat /\ Ends(decl)[Len(decl)] <= l.size
    BY StructFact DEF At
  <1> HIDE DEF l
  <1>2. ASSUME NEW i \in 1 .. Len(decl)
        PROVE  /\ l.at[decl[i].name].at \in Nat /\ l.at[decl[i].name].size \in Nat
               /\ Beyond(l.at[decl[i].name]) = Ends(decl)[i] /\ Ends(decl)[i] \in Nat
    <2>1. /\ Start(decl, i) \in Nat /\ Ends(decl)[i] = Start(decl, i) + decl[i].size
          /\ Ends(decl)[i] \in Nat
      BY StartFact
    <2>2. l.at[decl[i].name].at = Start(decl, i) /\ l.at[decl[i].name].size = decl[i].size
      BY <1>1
    <2> QED
      BY <1>0, <2>1, <2>2 DEF Beyond
  <1>3. ASSUME NEW i \in 1 .. Len(decl) PROVE Ends(decl)[i] <= l.size
    <2>1. CASE i = Len(decl)
      BY <1>1, <2>1
    <2>2. CASE i # Len(decl)
      <3>1. Len(decl) \in i + 1 .. Len(decl)
        BY <1>0, <2>2
      <3>2. Ends(decl)[i] <= Start(decl, Len(decl))
        BY <3>1, EndsInOrder
      <3>3. /\ Start(decl, Len(decl)) <= Ends(decl)[Len(decl)] /\ Start(decl, Len(decl)) \in Nat
            /\ Ends(decl)[Len(decl)] \in Nat
        BY <1>0, StartFact
      <3> QED
        BY <1>1, <1>2, <3>2, <3>3
    <2> QED
      BY <2>1, <2>2
  <1>4. ASSUME NEW i \in 1 .. Len(decl), NEW j \in 1 .. Len(decl), i # j
        PROVE  \/ Beyond(l.at[decl[i].name]) <= l.at[decl[j].name].at
               \/ Beyond(l.at[decl[j].name]) <= l.at[decl[i].name].at
    <2>1. j \in i + 1 .. Len(decl) \/ i \in j + 1 .. Len(decl)
      BY <1>0, <1>4
    <2>2. CASE j \in i + 1 .. Len(decl)
      BY <1>1, <1>2, <2>2, EndsInOrder
    <2>3. CASE i \in j + 1 .. Len(decl)
      BY <1>1, <1>2, <2>3, EndsInOrder
    <2> QED
      BY <2>1, <2>2, <2>3
  <1>5. ASSUME NEW n \in DOMAIN l.at PROVE \E i \in 1 .. Len(decl) : n = decl[i].name
    BY <1>1
  <1>6. Sound(l)
    <2>1. ASSUME NEW n \in DOMAIN l.at
          PROVE  /\ l.at[n].at \in Nat /\ l.at[n].size \in Nat
                 /\ Beyond(l.at[n]) <= l.size
      <3>1. PICK i \in 1 .. Len(decl) : n = decl[i].name
        BY <1>5
      <3> QED
        BY <1>2, <1>3, <3>1
    <2>2. ASSUME NEW m \in DOMAIN l.at, NEW n \in DOMAIN l.at, m # n
          PROVE  Beyond(l.at[m]) <= l.at[n].at \/ Beyond(l.at[n]) <= l.at[m].at
      <3>1. PICK i \in 1 .. Len(decl) : m = decl[i].name
        BY <1>5
      <3>2. PICK j \in 1 .. Len(decl) : n = decl[j].name
        BY <1>5
      <3> QED
        BY <1>4, <2>2, <3>1, <3>2
    <2> QED
      BY <1>1, <2>1, <2>2 DEF Sound
  <1> QED
    BY <1>6 DEF l

\* The second struct of an array is laid out as the first one.
LEMMA SecondFact ==
  ASSUME NEW l, Sound(l)
  PROVE  /\ Sound(Second(l))
         /\ DOMAIN Second(l).at = DOMAIN l.at
         /\ \A n \in DOMAIN l.at :
              /\ Second(l).at[n].at = l.at[n].at + l.size
              /\ Second(l).at[n].size = l.at[n].size
  <1> DEFINE k == Second(l)
  <1>1. /\ k.size = 2 * l.size /\ DOMAIN k.at = DOMAIN l.at
        /\ \A n \in DOMAIN l.at : k.at[n] = [at |-> l.at[n].at + l.size, size |-> l.at[n].size]
    BY DEF Second
  <1> HIDE DEF k
  <1>2. ASSUME NEW n \in DOMAIN l.at
        PROVE  k.at[n].at = l.at[n].at + l.size /\ k.at[n].size = l.at[n].size
    <2> DEFINE f == [at |-> l.at[n].at + l.size, size |-> l.at[n].size]
    <2>1. f.at = l.at[n].at + l.size /\ f.size = l.at[n].size
      OBVIOUS
    <2> HIDE DEF f
    <2>2. k.at[n] = f
      BY <1>1 DEF f
    <2> QED
      BY <2>1, <2>2
  <1>3. Sound(k)
    <2>1. l.size \in Nat /\ k.size \in Nat
      BY <1>1 DEF Sound
    <2>2. ASSUME NEW n \in DOMAIN l.at
          PROVE  /\ l.at[n].at \in Nat /\ l.at[n].size \in Nat /\ Beyond(l.at[n]) <= l.size
                 /\ Beyond(k.at[n]) = Beyond(l.at[n]) + l.size /\ k.at[n].at \in Nat
                 /\ Beyond(l.at[n]) \in Nat
      BY <1>2, <2>1 DEF Sound, Beyond
    <2>3. ASSUME NEW m \in DOMAIN l.at, NEW n \in DOMAIN l.at, m # n
          PROVE  Beyond(k.at[m]) <= k.at[n].at \/ Beyond(k.at[n]) <= k.at[m].at
      <3>1. Beyond(l.at[m]) <= l.at[n].at \/ Beyond(l.at[n]) <= l.at[m].at
        BY <2>3 DEF Sound
      <3> QED
        BY <1>2, <2>1, <2>2, <3>1
    <2> QED
      BY <1>1, <1>2, <2>1, <2>2, <2>3 DEF Sound
  <1> QED
    BY <1>1, <1>2, <1>3 DEF k

\* What is written as a field is read as that field by whoever has it in the
\* same place: no other field of the writer reaches there.
LEMMA ReadBack ==
  ASSUME NEW w, NEW r, Sound(w), NEW n \in DOMAIN w.at, n \in DOMAIN r.at,
         r.at[n].at = w.at[n].at, r.at[n].size = w.at[n].size
  PROVE  ReadFrom(r, Written(w))[n] = Value(n, w.at[n].size)
  <1> DEFINE mem == Written(w)
  <1>1. w.at[n].at \in Nat /\ w.at[n].size \in Nat /\ w.size \in Nat /\ Beyond(w.at[n]) <= w.size
    BY DEF Sound
  <1>2. ASSUME NEW i \in 0 .. w.at[n].size - 1
        PROVE  w.at[n].at + i \in DOMAIN mem /\ mem[w.at[n].at + i] = <<n, i>>
    <2> DEFINE p == w.at[n].at + i
    <2>1. p \in 0 .. w.size - 1
      BY <1>1 DEF Beyond
    <2>2. Holds(w, n, p) /\ p - w.at[n].at = i
      BY <1>1 DEF Holds
    <2>3. ASSUME NEW m \in DOMAIN w.at, Holds(w, m, p) PROVE m = n
      <3> SUFFICES ASSUME m # n PROVE FALSE
        OBVIOUS
      <3>1. /\ w.at[m].at \in Nat /\ w.at[m].size \in Nat
            /\ Beyond(w.at[m]) <= w.at[n].at \/ Beyond(w.at[n]) <= w.at[m].at
        BY DEF Sound
      <3>2. p - w.at[m].at \in 0 .. w.at[m].size - 1
        BY <2>3 DEF Holds
      <3> QED
        BY <1>1, <3>1, <3>2 DEF Beyond
    <2> HIDE DEF p
    <2>4. (CHOOSE m \in DOMAIN w.at : Holds(w, m, p)) = n
      BY <2>2, <2>3
    <2>5. \E m \in DOMAIN w.at : Holds(w, m, p)
      BY <2>2
    <2>6. DOMAIN mem = 0 .. w.size - 1 /\ mem[p] = <<n, p - w.at[n].at>>
      BY <2>1, <2>4, <2>5 DEF Written
    <2> QED
      BY <2>1, <2>2, <2>6 DEF p
  <1> HIDE DEF mem
  <1>3. ReadFrom(r, mem)[n] =
          [i \in 0 .. w.at[n].size - 1 |->
             IF w.at[n].at + i \in DOMAIN mem THEN mem[w.at[n].at + i] ELSE <<"beyond", i>>]
    BY DEF ReadFrom
  <1> QED
    BY <1>2, <1>3 DEF Value, mem

-----------------------------------------------------------------------------
(* The structs of the project.                                             *)

LEMMA UpValues ==
  /\ \A a \in Aligns : Up(0, a) = 0
  /\ Up(2, 2) = 2 /\ Up(4, 2) = 4 /\ Up(4, 4) = 4 /\ Up(6, 2) = 6 /\ Up(8, 1) = 8
  /\ Up(8, 4) = 8 /\ Up(12, 4) = 12 /\ Up(16, 4) = 16 /\ Up(20, 4) = 20
  /\ Up(24, 4) = 24 /\ Up(28, 4) = 28 /\ Up(32, 4) = 32
  /\ Up(8, 8) = 8 /\ Up(4, 8) = 8 /\ Up(16, 8) = 16
  BY DEF Up, Aligns

\* A declaration with one field put before it.
LEMMA Prepended ==
  ASSUME NEW a, NEW s, NEW n \in Nat, s = [i \in 1 .. n |-> s[i]]
  PROVE  LET d == <<a>> \o s IN
         /\ Len(d) = n + 1 /\ DOMAIN d = 1 .. n + 1 /\ d[1] = a
         /\ \A i \in 1 .. n : d[i + 1] = s[i]
  <1> DEFINE S == {a} \cup {s[i] : i \in 1 .. n}
             d == <<a>> \o s
  <1>1. <<a>> \in Seq(S) /\ Len(<<a>>) = 1
    OBVIOUS
  <1>2. s \in Seq(S)
    OBVIOUS
  <1>3. Len(s) = n
    BY <1>2
  <1> HIDE DEF S
  <1>4. d \in Seq(S) /\ Len(d) = Len(<<a>>) + Len(s)
    BY <1>1, <1>2
  <1>5. \A i \in 1 .. Len(d) : d[i] = IF i <= 1 THEN <<a>>[i] ELSE s[i - 1]
    BY <1>1, <1>2, <1>4
  <1>6. DOMAIN d = 1 .. n + 1 /\ Len(d) = n + 1
    BY <1>1, <1>3, <1>4
  <1>7. d[1] = a /\ \A i \in 1 .. n : d[i + 1] = s[i]
    BY <1>5, <1>6
  <1> QED
    BY <1>6, <1>7

\* Without the length of BSD.
LEMMA Addr4Fact ==
  /\ Sound(Addr4(FALSE)) /\ DOMAIN Addr4(FALSE).at = {"af", "port", "addr4", "pad"}
  /\ At(Addr4(FALSE), "af", 0, 2) /\ At(Addr4(FALSE), "port", 2, 2)
  /\ At(Addr4(FALSE), "addr4", 4, 4)
  <1> DEFINE rest == <<Uint("port", 2), Uint("addr4", 4), Field("pad", 8, 1)>>
             decl == <<Uint("af", 2)>> \o rest
  <1>1. Addr4(FALSE) = Struct(decl)
    BY DEF Addr4, Family
  <1>2. /\ Len(decl) = 4 /\ DOMAIN decl = 1 .. 4
        /\ decl[1] = [name |-> "af", size |-> 2, align |-> 2]
        /\ decl[2] = [name |-> "port", size |-> 2, align |-> 2]
        /\ decl[3] = [name |-> "addr4", size |-> 4, align |-> 4]
        /\ decl[4] = [name |-> "pad", size |-> 8, align |-> 1]
    <2>1. rest = [i \in 1 .. 3 |-> rest[i]]
      OBVIOUS
    <2>2. /\ rest[1] = [name |-> "port", size |-> 2, align |-> 2]
          /\ rest[2] = [name |-> "addr4", size |-> 4, align |-> 4]
          /\ rest[3] = [name |-> "pad", size |-> 8, align |-> 1]
      BY DEF Uint, Field
    <2> HIDE DEF rest
    <2>3. /\ Len(decl) = 3 + 1 /\ DOMAIN decl = 1 .. 3 + 1 /\ decl[1] = Uint("af", 2)
          /\ \A i \in 1 .. 3 : decl[i + 1] = rest[i]
      BY <2>1, Prepended
    <2> HIDE DEF decl
    <2>4. decl[1 + 1] = rest[1] /\ decl[2 + 1] = rest[2] /\ decl[3 + 1] = rest[3]
      BY <2>3
    <2> QED
      BY <2>2, <2>3, <2>4 DEF Uint, Field
  <1> HIDE DEF decl
  <1>3. \A i \in 1 .. 4 : i = 1 \/ i = 2 \/ i = 3 \/ i = 4
    OBVIOUS
  <1>4. Declared(decl)
    BY <1>2, <1>3 DEF Declared, Aligns
  <1>5. /\ Ends(decl)[0] = 0 /\ 1 - 1 = 0 /\ 2 - 1 = 1 /\ 3 - 1 = 2 /\ 4 - 1 = 3
        /\ 1 \in 1 .. 4 /\ 2 \in 1 .. 4 /\ 3 \in 1 .. 4 /\ 4 \in 1 .. 4
    BY <1>4, EndFact
  <1>6. /\ Start(decl, 1) = 0 /\ Ends(decl)[1] = 2
        /\ Start(decl, 2) = 2 /\ Ends(decl)[2] = 4
        /\ Start(decl, 3) = 4 /\ Ends(decl)[3] = 8
        /\ Start(decl, 4) = 8 /\ Ends(decl)[4] = 16
    <2>1. 1 \in 1 .. Len(decl) /\ Ends(decl)[1 - 1] = 0
      BY <1>2, <1>5
    <2>2. Start(decl, 1) = Up(0, decl[1].align) /\ Ends(decl)[1] = Up(0, decl[1].align) + decl[1].size
      BY <1>4, <2>1, NextField
    <2>3. Start(decl, 1) = 0 /\ Ends(decl)[1] = 2
      BY <1>2, <2>2, UpValues DEF Aligns
    <2>4. 2 \in 1 .. Len(decl) /\ Ends(decl)[2 - 1] = 2
      BY <1>2, <1>5, <2>3
    <2>5. Start(decl, 2) = Up(2, decl[2].align) /\ Ends(decl)[2] = Up(2, decl[2].align) + decl[2].size
      BY <1>4, <2>4, NextField
    <2>6. Start(decl, 2) = 2 /\ Ends(decl)[2] = 4
      BY <1>2, <2>5, UpValues DEF Aligns
    <2>7. 3 \in 1 .. Len(decl) /\ Ends(decl)[3 - 1] = 4
      BY <1>2, <1>5, <2>6
    <2>8. Start(decl, 3) = Up(4, decl[3].align) /\ Ends(decl)[3] = Up(4, decl[3].align) + decl[3].size
      BY <1>4, <2>7, NextField
    <2>9. Start(decl, 3) = 4 /\ Ends(decl)[3] = 8
      BY <1>2, <2>8, UpValues DEF Aligns
    <2>10. 4 \in 1 .. Len(decl) /\ Ends(decl)[4 - 1] = 8
      BY <1>2, <1>5, <2>9
    <2>11. Start(decl, 4) = Up(8, decl[4].align) /\ Ends(decl)[4] = Up(8, decl[4].align) + decl[4].size
      BY <1>4, <2>10, NextField
    <2>12. Start(decl, 4) = 8 /\ Ends(decl)[4] = 16
      BY <1>2, <2>11, UpValues DEF Aligns
    <2> QED
      BY <2>3, <2>6, <2>9, <2>12
  <1>7. DOMAIN Struct(decl).at = {"af", "port", "addr4", "pad"}
    <2>1. DOMAIN Struct(decl).at = {decl[i].name : i \in 1 .. 4}
      BY <1>2, <1>4, StructFact
    <2> QED
      BY <1>2, <2>1
  <1>8. \A i \in 1 .. 4 : At(Struct(decl), decl[i].name, Start(decl, i), decl[i].size)
    BY <1>2, <1>4, StructFact
  <1>9. /\ At(Struct(decl), "af", 0, 2) /\ At(Struct(decl), "port", 2, 2)
        /\ At(Struct(decl), "addr4", 4, 4)
    BY <1>2, <1>6, <1>8
  <1> QED
    BY <1>1, <1>4, <1>7, <1>9, StructSound

LEMMA Addr6Fact ==
  /\ Sound(Addr6(FALSE)) /\ DOMAIN Addr6(FALSE).at = {"af", "port", "flowinfo", "addr6", "scope_id"}
  /\ At(Addr6(FALSE), "af", 0, 2) /\ At(Addr6(FALSE), "port", 2, 2)
  /\ At(Addr6(FALSE), "flowinfo", 4, 4) /\ At(Addr6(FALSE), "addr6", 8, 16)
  /\ At(Addr6(FALSE), "scope_id", 24, 4)
  /\ Addr6(FALSE).size = 28 /\ Addr6(FALSE).align = 4
  <1> DEFINE rest == <<Uint("port", 2), Uint("flowinfo", 4), Field("addr6", 16, 1), Uint("scope_id", 4)>>
             decl == <<Uint("af", 2)>> \o rest
  <1>1. Addr6(FALSE) = Struct(decl)
    BY DEF Addr6, Family
  <1>2. /\ Len(decl) = 5 /\ DOMAIN decl = 1 .. 5
        /\ decl[1] = [name |-> "af", size |-> 2, align |-> 2]
        /\ decl[2] = [name |-> "port", size |-> 2, align |-> 2]
        /\ decl[3] = [name |-> "flowinfo", size |-> 4, align |-> 4]
        /\ decl[4] = [name |-> "addr6", size |-> 16, align |-> 1]
        /\ decl[5] = [name |-> "scope_id", size |-> 4, align |-> 4]
    <2>1. rest = [i \in 1 .. 4 |-> rest[i]]
      OBVIOUS
    <2>2. /\ rest[1] = [name |-> "port", size |-> 2, align |-> 2]
          /\ rest[2] = [name |-> "flowinfo", size |-> 4, align |-> 4]
          /\ rest[3] = [name |-> "addr6", size |-> 16, align |-> 1]
          /\ rest[4] = [name |-> "scope_id", size |-> 4, align |-> 4]
      BY DEF Uint, Field
    <2> HIDE DEF rest
    <2>3. /\ Len(decl) = 4 + 1 /\ DOMAIN decl = 1 .. 4 + 1 /\ decl[1] = Uint("af", 2)
          /\ \A i \in 1 .. 4 : decl[i + 1] = rest[i]
      BY <2>1, Prepended
    <2> HIDE DEF decl
    <2>4. /\ decl[1 + 1] = rest[1] /\ decl[2 + 1] = rest[2] /\ decl[3 + 1] = rest[3]
          /\ decl[4 + 1] = rest[4]
      BY <2>3
    <2> QED
      BY <2>2, <2>3, <2>4 DEF Uint, Field
  <1> HIDE DEF decl
  <1>3. \A i \in 1 .. 5 : i = 1 \/ i = 2 \/ i = 3 \/ i = 4 \/ i = 5
    OBVIOUS
  <1>4. Declared(decl)
    BY <1>2, <1>3 DEF Declared, Aligns
  <1>5. /\ Ends(decl)[0] = 0 /\ 1 - 1 = 0 /\ 2 - 1 = 1 /\ 3 - 1 = 2 /\ 4 - 1 = 3 /\ 5 - 1 = 4
        /\ 1 \in 1 .. 5 /\ 2 \in 1 .. 5 /\ 3 \in 1 .. 5 /\ 4 \in 1 .. 5 /\ 5 \in 1 .. 5
    BY <1>4, EndFact
  <1>6. /\ Start(decl, 1) = 0 /\ Ends(decl)[1] = 2
        /\ Start(decl, 2) = 2 /\ Ends(decl)[2] = 4
        /\ Start(decl, 3) = 4 /\ Ends(decl)[3] = 8
        /\ Start(decl, 4) = 8 /\ Ends(decl)[4] = 24
        /\ Start(decl, 5) = 24 /\ Ends(decl)[5] = 28
    <2>1. 1 \in 1 .. Len(decl) /\ Ends(decl)[1 - 1] = 0
      BY <1>2, <1>5
    <2>2. Start(decl, 1) = Up(0, decl[1].align) /\ Ends(decl)[1] = Up(0, decl[1].align) + decl[1].size
      BY <1>4, <2>1, NextField
    <2>3. Start(decl, 1) = 0 /\ Ends(decl)[1] = 2
      BY <1>2, <2>2, UpValues DEF Aligns
    <2>4. 2 \in 1 .. Len(decl) /\ Ends(decl)[2 - 1] = 2
      BY <1>2, <1>5, <2>3
    <2>5. Start(decl, 2) = Up(2, decl[2].align) /\ Ends(decl)[2] = Up(2, decl[2].align) + decl[2].size
      BY <1>4, <2>4, NextField
    <2>6. Start(decl, 2) = 2 /\ Ends(decl)[2] = 4
      BY <1>2, <2>5, UpValues DEF Aligns
    <2>7. 3 \in 1 .. Len(decl) /\ Ends(decl)[3 - 1] = 4
      BY <1>2, <1>5, <2>6
    <2>8. Start(decl, 3) = Up(4, decl[3].align) /\ Ends(decl)[3] = Up(4, decl[3].align) + decl[3].size
      BY <1>4, <2>7, NextField
    <2>9. Start(decl, 3) = 4 /\ Ends(decl)[3] = 8
      BY <1>2, <2>8, UpValues DEF Aligns
    <2>10. 4 \in 1 .. Len(decl) /\ Ends(decl)[4 - 1] = 8
      BY <1>2, <1>5, <2>9
    <2>11. Start(decl, 4) = Up(8, decl[4].align) /\ Ends(decl)[4] = Up(8, decl[4].align) + decl[4].size
      BY <1>4, <2>10, NextField
    <2>12. Start(decl, 4) = 8 /\ Ends(decl)[4] = 24
      BY <1>2, <2>11, UpValues DEF Aligns
    <2>13. 5 \in 1 .. Len(decl) /\ Ends(decl)[5 - 1] = 24
      BY <1>2, <1>5, <2>12
    <2>14. Start(decl, 5) = Up(24, decl[5].align) /\ Ends(decl)[5] = Up(24, decl[5].align) + decl[5].size
      BY <1>4, <2>13, NextField
    <2>15. Start(decl, 5) = 24 /\ Ends(decl)[5] = 28
      BY <1>2, <2>14, UpValues DEF Aligns
    <2> QED
      BY <2>3, <2>6, <2>9, <2>12, <2>15
  <1>7. DOMAIN Struct(decl).at = {"af", "port", "flowinfo", "addr6", "scope_id"}
    <2>1. DOMAIN Struct(decl).at = {decl[i].name : i \in 1 .. 5}
      BY <1>2, <1>4, StructFact
    <2> QED
      BY <1>2, <2>1
  <1>8. \A i \in 1 .. 5 : At(Struct(decl), decl[i].name, Start(decl, i), decl[i].size)
    BY <1>2, <1>4, StructFact
  <1>9. /\ At(Struct(decl), "af", 0, 2) /\ At(Struct(decl), "port", 2, 2)
        /\ At(Struct(decl), "flowinfo", 4, 4) /\ At(Struct(decl), "addr6", 8, 16)
        /\ At(Struct(decl), "scope_id", 24, 4)
    BY <1>2, <1>6, <1>8
  <1>10. Struct(decl).align = 4 /\ Struct(decl).size = 28
    <2>1. {decl[i].align : i \in DOMAIN decl} = {1, 2, 4}
      BY <1>2, <1>3
    <2>2. Max({1, 2, 4}) = 4
      BY DEF Max
    <2>3. Struct(decl).align = 4
      BY <1>4, <2>1, <2>2, StructFact
    <2>4. Struct(decl).size = Up(28, 4)
      BY <1>2, <1>4, <1>6, <2>3, StructFact
    <2> QED
      BY <2>3, <2>4, UpValues
  <1> QED
    BY <1>1, <1>4, <1>7, <1>9, <1>10, StructSound

LEMMA SysFact ==
  /\ Sound(Sys) /\ DOMAIN Sys.at = {"state", "af_inet", "af_inet6"}
  /\ At(Sys, "state", 0, 4) /\ At(Sys, "af_inet", 4, 2) /\ At(Sys, "af_inet6", 6, 2)
  <1> DEFINE decl == <<Uint("state", 4), Uint("af_inet", 2), Uint("af_inet6", 2)>>
  <1>1. Sys = Struct(decl)
    BY DEF Sys
  <1>2. /\ Len(decl) = 3 /\ DOMAIN decl = 1 .. 3
        /\ decl[1] = [name |-> "state", size |-> 4, align |-> 4]
        /\ decl[2] = [name |-> "af_inet", size |-> 2, align |-> 2]
        /\ decl[3] = [name |-> "af_inet6", size |-> 2, align |-> 2]
    BY DEF Uint, Field
  <1> HIDE DEF decl
  <1>3. \A i \in 1 .. 3 : i = 1 \/ i = 2 \/ i = 3
    OBVIOUS
  <1>4. Declared(decl)
    BY <1>2, <1>3 DEF Declared, Aligns
  <1>5. /\ Ends(decl)[0] = 0 /\ 1 - 1 = 0 /\ 2 - 1 = 1 /\ 3 - 1 = 2
        /\ 1 \in 1 .. 3 /\ 2 \in 1 .. 3 /\ 3 \in 1 .. 3
    BY <1>4, EndFact
  <1>6. /\ Start(decl, 1) = 0 /\ Ends(decl)[1] = 4
        /\ Start(decl, 2) = 4 /\ Ends(decl)[2] = 6
        /\ Start(decl, 3) = 6 /\ Ends(decl)[3] = 8
    <2>1. 1 \in 1 .. Len(decl) /\ Ends(decl)[1 - 1] = 0
      BY <1>2, <1>5
    <2>2. Start(decl, 1) = Up(0, decl[1].align) /\ Ends(decl)[1] = Up(0, decl[1].align) + decl[1].size
      BY <1>4, <2>1, NextField
    <2>3. Start(decl, 1) = 0 /\ Ends(decl)[1] = 4
      BY <1>2, <2>2, UpValues DEF Aligns
    <2>4. 2 \in 1 .. Len(decl) /\ Ends(decl)[2 - 1] = 4
      BY <1>2, <1>5, <2>3
    <2>5. Start(decl, 2) = Up(4, decl[2].align) /\ Ends(decl)[2] = Up(4, decl[2].align) + decl[2].size
      BY <1>4, <2>4, NextField
    <2>6. Start(decl, 2) = 4 /\ Ends(decl)[2] = 6
      BY <1>2, <2>5, UpValues DEF Aligns
    <2>7. 3 \in 1 .. Len(decl) /\ Ends(decl)[3 - 1] = 6
      BY <1>2, <1>5, <2>6
    <2>8. Start(decl, 3) = Up(6, decl[3].align) /\ Ends(decl)[3] = Up(6, decl[3].align) + decl[3].size
      BY <1>4, <2>7, NextField
    <2>9. Start(decl, 3) = 6 /\ Ends(decl)[3] = 8
      BY <1>2, <2>8, UpValues DEF Aligns
    <2> QED
      BY <2>3, <2>6, <2>9
  <1>7. DOMAIN Struct(decl).at = {"state", "af_inet", "af_inet6"}
    <2>1. DOMAIN Struct(decl).at = {decl[i].name : i \in 1 .. 3}
      BY <1>2, <1>4, StructFact
    <2> QED
      BY <1>2, <2>1
  <1>8. \A i \in 1 .. 3 : At(Struct(decl), decl[i].name, Start(decl, i), decl[i].size)
    BY <1>2, <1>4, StructFact
  <1>9. /\ At(Struct(decl), "state", 0, 4) /\ At(Struct(decl), "af_inet", 4, 2)
        /\ At(Struct(decl), "af_inet6", 6, 2)
    BY <1>2, <1>6, <1>8
  <1> QED
    BY <1>1, <1>4, <1>7, <1>9, StructSound

\* With an int64_t of 8 bytes, however it is aligned.
LEMMA SockFact ==
  ASSUME NEW b, Int64Size(b) = 8, b.tool.align8 \in {4, 8}, Platform(b) # "OSX"
  PROVE  LET l == sl_sock_t(b) IN
         /\ Sound(l)
         /\ DOMAIN l.at = {"fd", "dir", "state", "type", "proto", "error", "flags", "endpoint"}
         /\ At(l, "fd", 0, 8) /\ At(l, "dir", 8, 4) /\ At(l, "state", 12, 4)
         /\ At(l, "type", 16, 4) /\ At(l, "proto", 20, 4) /\ At(l, "error", 24, 4)
         /\ At(l, "flags", 28, 4) /\ At(l, "endpoint", 32, 28)
  <1> DEFINE decl == <<Field("fd", 8, b.tool.align8), Uint("dir", 4), Uint("state", 4),
                       Uint("type", 4), Uint("proto", 4), Uint("error", 4), Uint("flags", 4),
                       Field("endpoint", 28, 4)>>
             names == {"fd", "dir", "state", "type", "proto", "error", "flags", "endpoint"}
  <1>1. sl_sock_t(b) = Struct(decl)
    <2>1. Addr6(Platform(b) = "OSX").size = 28 /\ Addr6(Platform(b) = "OSX").align = 4
      <3>1. (Platform(b) = "OSX") = FALSE
        OBVIOUS
      <3> QED
        BY <3>1, Addr6Fact
    <2> QED
      BY <2>1 DEF sl_sock_t
  <1>2. /\ Len(decl) = 8 /\ DOMAIN decl = 1 .. 8
        /\ decl[1] = [name |-> "fd", size |-> 8, align |-> b.tool.align8]
        /\ decl[2] = [name |-> "dir", size |-> 4, align |-> 4]
        /\ decl[3] = [name |-> "state", size |-> 4, align |-> 4]
        /\ decl[4] = [name |-> "type", size |-> 4, align |-> 4]
        /\ decl[5] = [name |-> "proto", size |-> 4, align |-> 4]
        /\ decl[6] = [name |-> "error", size |-> 4, align |-> 4]
        /\ decl[7] = [name |-> "flags", size |-> 4, align |-> 4]
        /\ decl[8] = [name |-> "endpoint", size |-> 28, align |-> 4]
    BY DEF Uint, Field
  <1> HIDE DEF decl
  <1>3. \A i \in 1 .. 8 : i = 1 \/ i = 2 \/ i = 3 \/ i = 4 \/ i = 5 \/ i = 6 \/ i = 7 \/ i = 8
    OBVIOUS
  <1>4. Declared(decl)
    BY <1>2, <1>3 DEF Declared, Aligns
  <1>5. /\ Ends(decl)[0] = 0 /\ 1 - 1 = 0 /\ 2 - 1 = 1 /\ 3 - 1 = 2 /\ 4 - 1 = 3 /\ 5 - 1 = 4 /\ 6 - 1 = 5 /\ 7 - 1 = 6 /\ 8 - 1 = 7
        /\ 1 \in 1 .. 8 /\ 2 \in 1 .. 8 /\ 3 \in 1 .. 8 /\ 4 \in 1 .. 8 /\ 5 \in 1 .. 8 /\ 6 \in 1 .. 8 /\ 7 \in 1 .. 8 /\ 8 \in 1 .. 8
    BY <1>4, EndFact
  <1>6. /\ Start(decl, 1) = 0 /\ Ends(decl)[1] = 8
        /\ Start(decl, 2) = 8 /\ Ends(decl)[2] = 12
        /\ Start(decl, 3) = 12 /\ Ends(decl)[3] = 16
        /\ Start(decl, 4) = 16 /\ Ends(decl)[4] = 20
        /\ Start(decl, 5) = 20 /\ Ends(decl)[5] = 24
        /\ Start(decl, 6) = 24 /\ Ends(decl)[6] = 28
        /\ Start(decl, 7) = 28 /\ Ends(decl)[7] = 32
        /\ Start(decl, 8) = 32 /\ Ends(decl)[8] = 60
    <2>1. 1 \in 1 .. Len(decl) /\ Ends(decl)[1 - 1] = 0
      BY <1>2, <1>5
    <2>2. Start(decl, 1) = Up(0, decl[1].align) /\ Ends(decl)[1] = Up(0, decl[1].align) + decl[1].size
      BY <1>4, <2>1, NextField
    <2>3. Start(decl, 1) = 0 /\ Ends(decl)[1] = 8
      BY <1>2, <2>2, UpValues DEF Aligns
    <2>4. 2 \in 1 .. Len(decl) /\ Ends(decl)[2 - 1] = 8
      BY <1>2, <1>5, <2>3
    <2>5. Start(decl, 2) = Up(8, decl[2].align) /\ Ends(decl)[2] = Up(8, decl[2].align) + decl[2].size
      BY <1>4, <2>4, NextField
    <2>6. Start(decl, 2) = 8 /\ Ends(decl)[2] = 12
      BY <1>2, <2>5, UpValues DEF Aligns
    <2>7. 3 \in 1 .. Len(decl) /\ Ends(decl)[3 - 1] = 12
      BY <1>2, <1>5, <2>6
    <2>8. Start(decl, 3) = Up(12, decl[3].align) /\ Ends(decl)[3] = Up(12, decl[3].align) + decl[3].size
      BY <1>4, <2>7, NextField
    <2>9. Start(decl, 3) = 12 /\ Ends(decl)[3] = 16
      BY <1>2, <2>8, UpValues DEF Aligns
    <2>10. 4 \in 1 .. Len(decl) /\ Ends(decl)[4 - 1] = 16
      BY <1>2, <1>5, <2>9
    <2>11. Start(decl, 4) = Up(16, decl[4].align) /\ Ends(decl)[4] = Up(16, decl[4].align) + decl[4].size
      BY <1>4, <2>10, NextField
    <2>12. Start(decl, 4) = 16 /\ Ends(decl)[4] = 20
      BY <1>2, <2>11, UpValues DEF Aligns
    <2>13. 5 \in 1 .. Len(decl) /\ Ends(decl)[5 - 1] = 20
      BY <1>2, <1>5, <2>12
    <2>14. Start(decl, 5) = Up(20, decl[5].align) /\ Ends(decl)[5] = Up(20, decl[5].align) + decl[5].size
      BY <1>4, <2>13, NextField
    <2>15. Start(decl, 5) = 20 /\ Ends(decl)[5] = 24
      BY <1>2, <2>14, UpValues DEF Aligns
    <2>16. 6 \in 1 .. Len(decl) /\ Ends(decl)[6 - 1] = 24
      BY <1>2, <1>5, <2>15
    <2>17. Start(decl, 6) = Up(24, decl[6].align) /\ Ends(decl)[6] = Up(24, decl[6].align) + decl[6].size
      BY <1>4, <2>16, NextField
    <2>18. Start(decl, 6) = 24 /\ Ends(decl)[6] = 28
      BY <1>2, <2>17, UpValues DEF Aligns
    <2>19. 7 \in 1 .. Len(decl) /\ Ends(decl)[7 - 1] = 28
      BY <1>2, <1>5, <2>18
    <2>20. Start(decl, 7) = Up(28, decl[7].align) /\ Ends(decl)[7] = Up(28, decl[7].align) + decl[7].size
      BY <1>4, <2>19, NextField
    <2>21. Start(decl, 7) = 28 /\ Ends(decl)[7] = 32
      BY <1>2, <2>20, UpValues DEF Aligns
    <2>22. 8 \in 1 .. Len(decl) /\ Ends(decl)[8 - 1] = 32
      BY <1>2, <1>5, <2>21
    <2>23. Start(decl, 8) = Up(32, decl[8].align) /\ Ends(decl)[8] = Up(32, decl[8].align) + decl[8].size
      BY <1>4, <2>22, NextField
    <2>24. Start(decl, 8) = 32 /\ Ends(decl)[8] = 60
      BY <1>2, <2>23, UpValues DEF Aligns
    <2> QED
      BY <2>3, <2>6, <2>9, <2>12, <2>15, <2>18, <2>21, <2>24
  <1>7. DOMAIN Struct(decl).at = names
    <2>1. DOMAIN Struct(decl).at = {decl[i].name : i \in 1 .. 8}
      BY <1>2, <1>4, StructFact
    <2>2. /\ decl[1].name = "fd" /\ decl[2].name = "dir" /\ decl[3].name = "state"
          /\ decl[4].name = "type" /\ decl[5].name = "proto" /\ decl[6].name = "error"
          /\ decl[7].name = "flags" /\ decl[8].name = "endpoint"
      BY <1>2
    <2> QED
      BY <1>3, <2>1, <2>2
  <1>8. \A i \in 1 .. 8 : At(Struct(decl), decl[i].name, Start(decl, i), decl[i].size)
    BY <1>2, <1>4, StructFact
  <1>9. /\ At(Struct(decl), "fd", 0, 8) /\ At(Struct(decl), "dir", 8, 4)
        /\ At(Struct(decl), "state", 12, 4) /\ At(Struct(decl), "type", 16, 4)
        /\ At(Struct(decl), "proto", 20, 4) /\ At(Struct(decl), "error", 24, 4)
        /\ At(Struct(decl), "flags", 28, 4) /\ At(Struct(decl), "endpoint", 32, 28)
    BY <1>2, <1>6, <1>8
  <1> QED
    BY <1>1, <1>4, <1>7, <1>9, StructSound

\* A buffer, in either order of its fields.
LEMMA BufSound ==
  ASSUME NEW b, b.tool.ptr \in {4, 8}, NEW winsock
  PROVE  Sound(Buf(winsock, Pointer(b, "base"), Pointer(b, "len")))
  <1> DEFINE posix == <<Uint("base", b.tool.ptr), Uint("len", b.tool.ptr)>>
             wsabuf == <<Uint("len", 4), Uint("base", b.tool.ptr)>>
  <1>1. Declared(posix) /\ Declared(wsabuf)
    BY DEF Declared, Aligns, Uint, Field
  <1>2. Sound(Struct(posix)) /\ Sound(Struct(wsabuf))
    BY <1>1, StructSound
  <1> QED
    BY <1>2 DEF Buf, Pointer

-----------------------------------------------------------------------------
(* The two sides of a struct.                                              *)

\* What both know is in the same place.
Agree(w, r) ==
  \A n \in DOMAIN w.at \cap DOMAIN r.at : r.at[n].at = w.at[n].at /\ r.at[n].size = w.at[n].size

LEMMA ExplicitFact ==
  ASSUME NEW fields, NEW size
  PROVE  /\ Explicit(fields, size).size = size
         /\ DOMAIN Explicit(fields, size).at = DOMAIN fields
         /\ \A n \in DOMAIN fields : At(Explicit(fields, size), n, fields[n][1], fields[n][2])
  <1> DEFINE l == Explicit(fields, size)
  <1>1. l.size = size /\ l.at = [n \in DOMAIN fields |-> [at |-> fields[n][1], size |-> fields[n][2]]]
    BY DEF Explicit
  <1> HIDE DEF l
  <1>2. ASSUME NEW n \in DOMAIN fields PROVE At(l, n, fields[n][1], fields[n][2])
    <2> DEFINE f == [at |-> fields[n][1], size |-> fields[n][2]]
    <2>1. f.at = fields[n][1] /\ f.size = fields[n][2]
      OBVIOUS
    <2> HIDE DEF f
    <2>2. n \in DOMAIN l.at /\ l.at[n] = f
      BY <1>1 DEF f
    <2> QED
      BY <2>1, <2>2 DEF At
  <1> QED
    BY <1>1, <1>2 DEF l

LEMMA Addr4Mirror ==
  ASSUME NEW b
  PROVE  Sound(CSharp(b, "addr4")) /\ Agree(Addr4(FALSE), CSharp(b, "addr4"))
  <1> DEFINE fields == [af |-> <<0, 2>>, port |-> <<2, 2>>, addr4 |-> <<4, 4>>]
             l == CSharp(b, "addr4")
  <1>1. l = Explicit(fields, 28)
    BY DEF CSharp
  <1>2. DOMAIN fields = {"af", "port", "addr4"}
    OBVIOUS
  <1>3. fields["af"] = <<0, 2>> /\ fields["port"] = <<2, 2>> /\ fields["addr4"] = <<4, 4>>
    OBVIOUS
  <1> HIDE DEF fields, l
  <1>4. DOMAIN l.at = {"af", "port", "addr4"} /\ l.size = 28
    BY <1>1, <1>2, ExplicitFact
  <1>5. At(l, "af", 0, 2) /\ At(l, "port", 2, 2) /\ At(l, "addr4", 4, 4)
    <2>1. \A n \in {"af", "port", "addr4"} : At(l, n, fields[n][1], fields[n][2])
      BY <1>1, <1>2, ExplicitFact
    <2> QED
      BY <1>3, <2>1
  <1>6. Sound(l)
    BY <1>4, <1>5 DEF Sound, Beyond, At
  <1>7. Agree(Addr4(FALSE), l)
    BY <1>4, <1>5, Addr4Fact DEF Agree, At
  <1> QED
    BY <1>6, <1>7 DEF l

LEMMA Addr6Mirror ==
  ASSUME NEW b
  PROVE  Sound(CSharp(b, "addr6")) /\ Agree(Addr6(FALSE), CSharp(b, "addr6"))
  <1> DEFINE fields == [af |-> <<0, 2>>, port |-> <<2, 2>>, flowinfo |-> <<4, 4>>,
                        addr6 |-> <<8, 16>>, scope_id |-> <<24, 4>>]
             names == {"af", "port", "flowinfo", "addr6", "scope_id"}
             l == CSharp(b, "addr6")
  <1>1. l = Explicit(fields, 28)
    BY DEF CSharp
  <1>2. DOMAIN fields = names
    OBVIOUS
  <1>3. /\ fields["af"] = <<0, 2>> /\ fields["port"] = <<2, 2>> /\ fields["flowinfo"] = <<4, 4>>
        /\ fields["addr6"] = <<8, 16>> /\ fields["scope_id"] = <<24, 4>>
    OBVIOUS
  <1> HIDE DEF fields, l
  <1>4. DOMAIN l.at = names /\ l.size = 28
    BY <1>1, <1>2, ExplicitFact
  <1>5. /\ At(l, "af", 0, 2) /\ At(l, "port", 2, 2) /\ At(l, "flowinfo", 4, 4)
        /\ At(l, "addr6", 8, 16) /\ At(l, "scope_id", 24, 4)
    <2>1. \A n \in names : At(l, n, fields[n][1], fields[n][2])
      BY <1>1, <1>2, ExplicitFact
    <2> QED
      BY <1>3, <2>1
  <1>6. Sound(l)
    BY <1>4, <1>5 DEF Sound, Beyond, At
  <1>7. Agree(Addr6(FALSE), l)
    BY <1>4, <1>5, Addr6Fact DEF Agree, At
  <1> QED
    BY <1>6, <1>7 DEF l

LEMMA SysMirror ==
  ASSUME NEW b
  PROVE  Sound(CSharp(b, "sys")) /\ Agree(Sys, CSharp(b, "sys"))
  <1> DEFINE fields == [state |-> <<0, 4>>, af_inet |-> <<4, 2>>, af_inet6 |-> <<6, 2>>]
             names == {"state", "af_inet", "af_inet6"}
             l == CSharp(b, "sys")
  <1>1. l = Explicit(fields, 8)
    BY DEF CSharp
  <1>2. DOMAIN fields = names
    OBVIOUS
  <1>3. /\ fields["state"] = <<0, 4>> /\ fields["af_inet"] = <<4, 2>>
        /\ fields["af_inet6"] = <<6, 2>>
    OBVIOUS
  <1> HIDE DEF fields, l
  <1>4. DOMAIN l.at = names /\ l.size = 8
    BY <1>1, <1>2, ExplicitFact
  <1>5. At(l, "state", 0, 4) /\ At(l, "af_inet", 4, 2) /\ At(l, "af_inet6", 6, 2)
    <2>1. \A n \in names : At(l, n, fields[n][1], fields[n][2])
      BY <1>1, <1>2, ExplicitFact
    <2> QED
      BY <1>3, <2>1
  <1>6. Sound(l)
    BY <1>4, <1>5 DEF Sound, Beyond, At
  <1>7. Agree(Sys, l)
    BY <1>4, <1>5, SysFact DEF Agree, At
  <1> QED
    BY <1>6, <1>7 DEF l

LEMMA SockMirror ==
  ASSUME NEW b, Int64Size(b) = 8, b.tool.align8 \in {4, 8}, Platform(b) # "OSX"
  PROVE  /\ Sound(sl_sock_t(b)) /\ Sound(CSharp(b, "sock"))
         /\ Agree(sl_sock_t(b), CSharp(b, "sock"))
  <1> DEFINE fields == [fd |-> <<0, 8>>, dir |-> <<8, 4>>, state |-> <<12, 4>>,
                        type |-> <<16, 4>>, proto |-> <<20, 4>>, error |-> <<24, 4>>,
                        flags |-> <<28, 4>>, endpoint |-> <<32, 28>>]
             names == {"fd", "dir", "state", "type", "proto", "error", "flags", "endpoint"}
             l == CSharp(b, "sock")
             c == sl_sock_t(b)
  <1>1. l = Explicit(fields, 64)
    BY DEF CSharp
  <1>2. DOMAIN fields = names
    OBVIOUS
  <1>3. /\ fields["fd"] = <<0, 8>> /\ fields["dir"] = <<8, 4>> /\ fields["state"] = <<12, 4>>
        /\ fields["type"] = <<16, 4>> /\ fields["proto"] = <<20, 4>>
        /\ fields["error"] = <<24, 4>> /\ fields["flags"] = <<28, 4>>
        /\ fields["endpoint"] = <<32, 28>>
    OBVIOUS
  <1> HIDE DEF fields, l
  <1>4. DOMAIN l.at = names /\ l.size = 64
    BY <1>1, <1>2, ExplicitFact
  <1>5. /\ At(l, "fd", 0, 8) /\ At(l, "dir", 8, 4) /\ At(l, "state", 12, 4)
        /\ At(l, "type", 16, 4) /\ At(l, "proto", 20, 4) /\ At(l, "error", 24, 4)
        /\ At(l, "flags", 28, 4) /\ At(l, "endpoint", 32, 28)
    <2>1. \A n \in names : At(l, n, fields[n][1], fields[n][2])
      BY <1>1, <1>2, ExplicitFact
    <2> QED
      BY <1>3, <2>1
  <1>6. /\ Sound(c)
        /\ At(c, "fd", 0, 8) /\ At(c, "dir", 8, 4) /\ At(c, "state", 12, 4)
        /\ At(c, "type", 16, 4) /\ At(c, "proto", 20, 4) /\ At(c, "error", 24, 4)
        /\ At(c, "flags", 28, 4) /\ At(c, "endpoint", 32, 28)
    BY SockFact
  <1> HIDE DEF c
  <1>7. Sound(l)
    BY <1>4, <1>5 DEF Sound, Beyond, At
  <1>8. ASSUME NEW n \in names PROVE l.at[n].at = c.at[n].at /\ l.at[n].size = c.at[n].size
    BY <1>5, <1>6, <1>8 DEF At
  <1>9. Agree(c, l)
    BY <1>4, <1>8 DEF Agree
  <1> QED
    BY <1>6, <1>7, <1>9 DEF l, c

-----------------------------------------------------------------------------
(* The builds the theorems are about.                                      *)

\* Of all macros, Apple's headers alone define TARGET_OS_MAC, and only BSD
\* sockets have a length in their addresses.
NotApple ==
  /\ "TARGET_OS_MAC" \notin Defines
  /\ \A t \in Toolchains : "TARGET_OS_MAC" \notin t.macros /\ ~t.sa_len

\* The first line of common.h that a build meets names its platform.
LEMMA PlatformFact ==
  ASSUME NEW b
  PROVE  \/ /\ Platform(b) = "none"
            /\ \A i \in DOMAIN PlatformLines : PlatformLines[i].if \cap Macros(b) = {}
         \/ \E i \in DOMAIN PlatformLines :
              /\ PlatformLines[i].if \cap Macros(b) # {}
              /\ \A j \in DOMAIN PlatformLines : j < i => PlatformLines[j].if \cap Macros(b) = {}
              /\ Platform(b) = PlatformLines[i].names
  <1> DEFINE hits == {i \in DOMAIN PlatformLines : PlatformLines[i].if \cap Macros(b) # {}}
  <1>1. Platform(b) = IF hits = {} THEN "none" ELSE PlatformLines[Min(hits)].names
    BY DEF Platform
  <1>2. DOMAIN PlatformLines = 1 .. 9
    BY DEF PlatformLines
  <1>3. CASE hits = {}
    BY <1>1, <1>3
  <1>4. CASE hits # {}
    <2>1. hits \subseteq 1 .. 9
      BY <1>2
    <2> HIDE DEF hits
    <2>2. \E n \in hits : \A m \in hits : n <= m
      BY <1>4, <2>1, NatMin
    <2>3. Min(hits) \in hits /\ \A m \in hits : Min(hits) <= m
      BY <2>2 DEF Min
    <2>4. Platform(b) = PlatformLines[Min(hits)].names
      BY <1>1, <1>4
    <2>5. /\ Min(hits) \in DOMAIN PlatformLines
          /\ PlatformLines[Min(hits)].if \cap Macros(b) # {}
      BY <2>3 DEF hits
    <2>6. ASSUME NEW j \in DOMAIN PlatformLines, j < Min(hits)
          PROVE  PlatformLines[j].if \cap Macros(b) = {}
      <3>1. j \in Nat /\ Min(hits) \in Nat
        BY <1>2, <2>5
      <3>2. j \notin hits
        BY <2>3, <2>6, <3>1
      <3> QED
        BY <3>2 DEF hits
    <2> QED
      BY <2>4, <2>5, <2>6
  <1> QED
    BY <1>3, <1>4

LEMMA NotOSX ==
  ASSUME NotApple, NEW b \in Builds
  PROVE  Platform(b) # "OSX" /\ b.tool.sa_len = FALSE
  <1>1. b.tool \in Toolchains /\ b.defines \subseteq Defines
    BY DEF Builds
  <1>2. "TARGET_OS_MAC" \notin Macros(b)
    BY <1>1 DEF NotApple, Macros
  <1>3. \A i \in DOMAIN PlatformLines :
          PlatformLines[i].names = "OSX" => PlatformLines[i].if = {"TARGET_OS_MAC"}
    <2>1. DOMAIN PlatformLines = 1 .. 9
      BY DEF PlatformLines
    <2>2. /\ PlatformLines[1].names # "OSX" /\ PlatformLines[2].names # "OSX"
          /\ PlatformLines[3].names # "OSX" /\ PlatformLines[4].names # "OSX"
          /\ PlatformLines[5].names # "OSX" /\ PlatformLines[6].names # "OSX"
          /\ PlatformLines[8].names # "OSX" /\ PlatformLines[9].names # "OSX"
          /\ PlatformLines[7].if = {"TARGET_OS_MAC"}
      BY DEF PlatformLines
    <2>3. \A i \in 1 .. 9 : i = 1 \/ i = 2 \/ i = 3 \/ i = 4 \/ i = 5 \/ i = 6 \/ i = 7 \/ i = 8 \/ i = 9
      OBVIOUS
    <2> QED
      BY <2>1, <2>2, <2>3
  <1>4. Platform(b) # "OSX"
    <2>1. CASE Platform(b) = "none"
      BY <2>1
    <2>2. CASE \E i \in DOMAIN PlatformLines :
                 PlatformLines[i].if \cap Macros(b) # {} /\ Platform(b) = PlatformLines[i].names
      BY <1>2, <1>3, <2>2
    <2> QED
      BY <2>1, <2>2, PlatformFact
  <1>5. b.tool.sa_len \in BOOLEAN /\ ~b.tool.sa_len
    BY <1>1, SlLayoutAssumption DEF NotApple
  <1> QED
    BY <1>4, <1>5

\* What the static asserts establish: the structs of C are laid out as those
\* of managed code and of the kernel.
LEMMA LayoutsAgree ==
  ASSUME NotApple, NEW b \in Builds, Compiles(b), "SL_SKIP_STATIC_ASSERT" \notin Macros(b),
         NEW struct \in Structs, NEW by \in Sides(struct), NEW to \in Sides(struct)
  PROVE  Sound(Layout(b, by, struct)) /\ Agree(Layout(b, by, struct), Layout(b, to, struct))
  <1>1. /\ SockApi(b) = b.tool.api /\ Int64Size(b) = 8 /\ WordSize(b) = b.tool.ptr
    BY DEF Compiles, StaticAsserts
  <1>2. b.tool.ptr \in {4, 8} /\ b.tool.align8 \in {4, 8}
    BY SlLayoutAssumption DEF Builds
  <1>3. Platform(b) # "OSX" /\ b.tool.sa_len = FALSE /\ (Platform(b) = "OSX") = FALSE
    BY NotOSX
  <1>4. CASE struct \in {"addr4", "addr6", "sys", "sock"}
    <2>1. \A who \in Sides(struct) : Layout(b, who, struct) \in {C(b, struct), CSharp(b, struct)}
      <3>1. CASE struct \in {"sys", "sock"}
        BY <3>1 DEF Sides, Layout, View
      <3>2. CASE struct = "addr4"
        BY <1>3, <3>2 DEF Sides, Layout, View, C, Kernel
      <3>3. CASE struct = "addr6"
        BY <1>3, <3>3 DEF Sides, Layout, View, C, Kernel
      <3> QED
        BY <1>4, <3>1, <3>2, <3>3
    <2>2. /\ Sound(C(b, struct)) /\ Sound(CSharp(b, struct))
          /\ Agree(C(b, struct), CSharp(b, struct))
      <3>1. CASE struct = "addr4"
        <4>1. C(b, struct) = Addr4(FALSE)
          BY <1>3, <3>1 DEF C
        <4> QED
          BY <3>1, <4>1, Addr4Fact, Addr4Mirror
      <3>2. CASE struct = "addr6"
        <4>1. C(b, struct) = Addr6(FALSE)
          BY <1>3, <3>2 DEF C
        <4> QED
          BY <3>2, <4>1, Addr6Fact, Addr6Mirror
      <3>3. CASE struct = "sys"
        <4>1. C(b, struct) = Sys
          BY <3>3 DEF C
        <4> QED
          BY <3>3, <4>1, SysFact, SysMirror
      <3>4. CASE struct = "sock"
        <4>1. C(b, struct) = sl_sock_t(b)
          BY <3>4 DEF C
        <4> QED
          BY <1>1, <1>2, <1>3, <3>4, <4>1, SockMirror
      <3> QED
        BY <1>4, <3>1, <3>2, <3>3, <3>4
    <2> QED
      BY <2>1, <2>2 DEF Agree
  <1>5. CASE struct \in {"buf", "second buf"}
    <2> DEFINE buf == Buf(b.tool.api = "WINSOCK", Pointer(b, "base"), Pointer(b, "len"))
    <2>1. \A who \in {"C", "C#", "kernel"} : View(b, who, "buf") = buf
      <3>1. sl_buf_t(b) = buf
        BY <1>1 DEF sl_buf_t, Pointer
      <3>2. C(b, "buf") = buf /\ CSharp(b, "buf") = buf /\ Kernel(b, "buf") = buf
        BY <3>1 DEF C, CSharp, Kernel
      <3> HIDE DEF buf
      <3> QED
        BY <3>2 DEF View
    <2>2. Sound(buf)
      BY <1>2, BufSound
    <2> HIDE DEF buf
    <2>3. Sound(Second(buf))
      BY <2>2, SecondFact
    <2>4. \A l : Agree(l, l)
      BY DEF Agree
    <2>5. View(b, by, "buf") = buf /\ View(b, to, "buf") = buf
      BY <1>5, <2>1 DEF Sides
    <2>6. CASE struct = "buf"
      <3>1. Layout(b, by, struct) = buf /\ Layout(b, to, struct) = buf
        BY <2>5, <2>6 DEF Layout
      <3> QED
        BY <2>2, <2>4, <3>1
    <2>7. CASE struct = "second buf"
      <3>1. Layout(b, by, struct) = Second(buf) /\ Layout(b, to, struct) = Second(buf)
        BY <2>5, <2>7 DEF Layout
      <3> QED
        BY <2>3, <2>4, <3>1
    <2> QED
      BY <1>5, <2>6, <2>7
  <1> QED
    BY <1>4, <1>5 DEF Structs

-----------------------------------------------------------------------------
(* The inductive invariant.                                                *)

\* A struct is shared in a build only, and memory is what one side wrote.
LayoutInv ==
  /\ build \in Builds
  /\ phase \in {"source", "built", "rejected", "shared", "read"}
  /\ phase \in {"built", "shared", "read"} => Compiles(build)
  /\ phase = "rejected" => ~Compiles(build)
  /\ phase \in {"shared", "read"} =>
       /\ shared.struct \in Structs
       /\ shared.by \in Sides(shared.struct) /\ shared.to \in Sides(shared.struct)
       /\ memory = Written(Layout(build, shared.by, shared.struct))
  /\ phase = "read" => seen = ReadFrom(Layout(build, shared.to, shared.struct), memory)

\* The build is decided before anything is shared, and only what was written
\* is read.
THEOREM Invariance == Spec => []LayoutInv
  <1>1. Init => LayoutInv
    BY DEF Init, LayoutInv
  <1>2. ASSUME LayoutInv, [Next]_vars PROVE LayoutInv'
    <2>1. CASE Compile
      BY <1>2, <2>1 DEF LayoutInv, Compile
    <2>2. ASSUME NEW struct \in Structs, NEW by \in Sides(struct), NEW to \in Sides(struct),
                 Write(struct, by, to)
          PROVE  LayoutInv'
      <3>1. shared'.struct = struct /\ shared'.by = by /\ shared'.to = to
        BY <2>2 DEF Write
      <3>2. phase = "built" /\ phase' = "shared" /\ build' = build
        BY <2>2 DEF Write
      <3>3. memory' = Written(Layout(build, by, struct))
        BY <2>2 DEF Write
      <3>4. build \in Builds /\ Compiles(build)
        BY <1>2, <3>2 DEF LayoutInv
      <3> QED
        BY <3>1, <3>2, <3>3, <3>4 DEF LayoutInv
    <2>3. CASE Read
      BY <1>2, <2>3 DEF LayoutInv, Read
    <2>4. CASE UNCHANGED vars
      BY <1>2, <2>4 DEF LayoutInv, vars
    <2> QED
      BY <1>2, <2>1, <2>2, <2>3, <2>4 DEF Next
  <1> QED
    BY <1>1, <1>2, PTL DEF Spec

\* Whatever the compiler, its word sizes and its alignments, and whatever a
\* user forces: a build off Apple's platforms that passes the static asserts
\* of sock.h, sys.h and buf.h shares its structs with managed code and with
\* the kernel so that each reads what the other wrote.
THEOREM ReadSafe == NotApple /\ Spec => []ReadAsWritten
  <1> SUFFICES ASSUME NotApple PROVE Spec => []ReadAsWritten
    OBVIOUS
  <1>1. ASSUME LayoutInv PROVE ReadAsWritten
    <2> DEFINE w == Layout(build, shared.by, shared.struct)
               r == Layout(build, shared.to, shared.struct)
    <2> SUFFICES ASSUME phase = "read", "SL_SKIP_STATIC_ASSERT" \notin Macros(build),
                        NEW n \in DOMAIN w.at \cap DOMAIN seen
                 PROVE  seen[n] = Value(n, w.at[n].size)
      BY DEF ReadAsWritten
    <2>1. Sound(w) /\ Agree(w, r)
      BY <1>1, LayoutsAgree DEF LayoutInv
    <2>2. seen = ReadFrom(r, Written(w))
      BY <1>1 DEF LayoutInv
    <2> HIDE DEF w, r
    <2>3. DOMAIN seen = DOMAIN r.at
      BY <2>2 DEF ReadFrom
    <2>4. n \in DOMAIN w.at /\ n \in DOMAIN r.at
      BY <2>3
    <2>5. r.at[n].at = w.at[n].at /\ r.at[n].size = w.at[n].size
      BY <2>1, <2>4 DEF Agree
    <2> QED
      BY <2>1, <2>2, <2>4, <2>5, ReadBack
  <1> QED
    BY <1>1, Invariance, PTL

-----------------------------------------------------------------------------
(* A build that is told its word size.                                     *)

\* As large as two pointers, in either order of the fields.
LEMMA BufSize ==
  ASSUME NEW decl, Declared(decl), Len(decl) = 2,
         decl[1].align = decl[1].size, decl[2].align = decl[2].size,
         <<decl[1].size, decl[2].size>> \in {<<4, 4>>, <<4, 8>>, <<8, 8>>}
  PROVE  Struct(decl).size = 2 * decl[2].size
  <1>1. Ends(decl)[0] = 0 /\ 1 - 1 = 0 /\ 2 - 1 = 1 /\ DOMAIN decl = {1, 2}
    <2>1. DOMAIN decl = 1 .. 2
      BY DEF Declared
    <2> QED
      BY <2>1, EndFact
  <1>2. Ends(decl)[1] = decl[1].size
    <2>1. 1 \in 1 .. Len(decl) /\ Ends(decl)[1 - 1] = 0
      BY <1>1
    <2>2. Ends(decl)[1] = Up(0, decl[1].align) + decl[1].size
      BY <2>1, NextField
    <2> QED
      BY <2>2, UpValues DEF Aligns
  <1>3. Ends(decl)[2] = Up(decl[1].size, decl[2].size) + decl[2].size
    <2>1. 2 \in 1 .. Len(decl) /\ Ends(decl)[2 - 1] = decl[1].size
      BY <1>1, <1>2
    <2> QED
      BY <2>1, NextField
  <1>4. Ends(decl)[2] = 2 * decl[2].size
    BY <1>3, UpValues
  <1>5. Max({decl[i].align : i \in DOMAIN decl}) = decl[2].size
    <2>1. {decl[i].align : i \in DOMAIN decl} = {decl[1].size, decl[2].size}
      BY <1>1
    <2>2. Max({4, 4}) = 4 /\ Max({4, 8}) = 8 /\ Max({8, 8}) = 8
      BY DEF Max
    <2> QED
      BY <2>1, <2>2
  <1>6. Struct(decl).size = Up(2 * decl[2].size, decl[2].size)
    <2>1. Struct(decl).align = decl[2].size
      BY <1>5, StructFact
    <2> QED
      BY <1>4, <2>1, StructFact
  <1> QED
    BY <1>6, UpValues

\* What a user may say of a target without naming another platform.
WordDefines == {"SL_FORCE_32", "SL_FORCE_64", "SL_FORCE_C_NONE", "SL_SKIP_STATIC_ASSERT"}

\* The API of a build is the one that the compiler's macros name, unless the
\* user has forced another platform.
LEMMA ApiFact ==
  ASSUME NEW b, Recognised(b.tool), b.tool.api \in {"WINSOCK", "POSIX"},
         b.defines \subseteq WordDefines
  PROVE  SockApi(b) = b.tool.api
  <1>1. DOMAIN PlatformLines = 1 .. 9 /\ \A i \in 1 .. 9 : i = 1 \/ i = 2 \/ i = 3 \/ i = 4
          \/ i = 5 \/ i = 6 \/ i = 7 \/ i = 8 \/ i = 9
    BY DEF PlatformLines
  <1>2. /\ PlatformLines[1].if = {"SL_FORCE_PLATFORM_NONE"}
        /\ PlatformLines[2].if = {"SL_FORCE_PLATFORM_PS4"}
        /\ PlatformLines[3].if = {"SL_FORCE_PLATFORM_XBONE"}
        /\ PlatformLines[4].if = {"SL_FORCE_PLATFORM_SWITCH"}
        /\ PlatformLines[5].names = "WINDOWS" /\ PlatformLines[6].names = "IOS"
        /\ PlatformLines[7].names = "OSX" /\ PlatformLines[8].names = "ANDROID"
        /\ PlatformLines[9].names = "POSIX"
    BY DEF PlatformLines
  <1>3. \A i \in 5 .. 9 : WordDefines \cap PlatformLines[i].if = {}
    <2>1. \A i \in 5 .. 9 : i = 5 \/ i = 6 \/ i = 7 \/ i = 8 \/ i = 9
      OBVIOUS
    <2>2. /\ WordDefines \cap PlatformLines[5].if = {}
          /\ WordDefines \cap PlatformLines[6].if = {}
          /\ WordDefines \cap PlatformLines[7].if = {}
          /\ WordDefines \cap PlatformLines[8].if = {}
          /\ WordDefines \cap PlatformLines[9].if = {}
      BY DEF PlatformLines, WordDefines
    <2> QED
      BY <2>1, <2>2
  <1>4. \A i \in 5 .. 9 :
          PlatformLines[i].if \cap Macros(b) = PlatformLines[i].if \cap b.tool.macros
    BY <1>3 DEF Macros
  <1>5. \A i \in 1 .. 4 : PlatformLines[i].if \cap Macros(b) = {}
    <2>1. \A i \in 1 .. 4 : i = 1 \/ i = 2 \/ i = 3 \/ i = 4
      OBVIOUS
    <2> QED
      BY <1>2, <2>1 DEF Macros, Recognised, WordDefines
  <1>6. CASE b.tool.api = "WINSOCK"
    <2>1. PlatformLines[5].if \cap Macros(b) # {}
      BY <1>6 DEF Recognised, PlatformLines, Macros
    <2>2. Platform(b) = "WINDOWS"
      <3>1. 5 \in DOMAIN PlatformLines
        BY <1>1
      <3>2. PICK i \in DOMAIN PlatformLines :
              /\ PlatformLines[i].if \cap Macros(b) # {}
              /\ \A j \in DOMAIN PlatformLines : j < i => PlatformLines[j].if \cap Macros(b) = {}
              /\ Platform(b) = PlatformLines[i].names
        BY <2>1, <3>1, PlatformFact
      <3>3. i \in 1 .. 9 /\ i \notin 1 .. 4 /\ ~ (5 < i)
        BY <1>1, <1>5, <2>1, <3>1, <3>2
      <3>4. i = 5
        BY <3>3
      <3> QED
        BY <1>2, <3>2, <3>4
    <2> QED
      BY <1>6, <2>2 DEF SockApi
  <1>7. CASE b.tool.api = "POSIX"
    <2>1. PlatformLines[5].if \cap Macros(b) = {}
      <3>1. PlatformLines[5].if \cap Macros(b) = PlatformLines[5].if \cap b.tool.macros
        BY <1>4
      <3>2. PlatformLines[5].if = {"__CYGWIN32__", "WIN32", "_WIN32", "__WIN32__", "_WIN64",
                                   "WINAPI_FAMILY"}
        BY DEF PlatformLines
      <3> QED
        BY <1>7, <3>1, <3>2 DEF Recognised
    <2>2. \E i \in 6 .. 9 : PlatformLines[i].if \cap Macros(b) # {}
      <3>1. /\ "TARGET_OS_MAC" \in PlatformLines[7].if /\ "__ANDROID__" \in PlatformLines[8].if
            /\ "__linux__" \in PlatformLines[9].if /\ "__unix__" \in PlatformLines[9].if
        BY DEF PlatformLines
      <3>2. {"__linux__", "__ANDROID__", "__unix__", "TARGET_OS_MAC"} \cap Macros(b) # {}
        BY <1>7 DEF Recognised, Macros
      <3>3. 7 \in 6 .. 9 /\ 8 \in 6 .. 9 /\ 9 \in 6 .. 9
        OBVIOUS
      <3> QED
        BY <3>1, <3>2, <3>3
    <2>3. PICK i \in DOMAIN PlatformLines :
            PlatformLines[i].if \cap Macros(b) # {} /\ Platform(b) = PlatformLines[i].names
      <3>1. \A i \in 6 .. 9 : i \in DOMAIN PlatformLines
        BY <1>1
      <3> QED
        BY <2>2, <3>1, PlatformFact
    <2>4. i = 6 \/ i = 7 \/ i = 8 \/ i = 9
      BY <1>1, <1>5, <2>1, <2>3
    <2>5. Platform(b) \in {"POSIX", "OSX", "IOS", "ANDROID"}
      BY <1>2, <2>3, <2>4
    <2> QED
      BY <1>7, <2>5 DEF SockApi
  <1> QED
    BY <1>6, <1>7

LEMMA CompilesFact ==
  ASSUME NEW b \in Builds, Recognised(b.tool), b.defines \subseteq WordDefines,
         b.defines \cap {"SL_FORCE_32", "SL_FORCE_64"} =
           {IF b.tool.ptr = 8 THEN "SL_FORCE_64" ELSE "SL_FORCE_32"}
  PROVE  Compiles(b)
  <1>1. b.tool.ptr \in {4, 8} /\ b.tool.api \in {"WINSOCK", "POSIX"}
    BY SlLayoutAssumption DEF Builds
  <1>2. SockApi(b) = b.tool.api
    BY <1>1, ApiFact
  <1>3. HasStdint(b)
    BY DEF HasStdint, Macros, Recognised, WordDefines
  <1>4. SL_64(b) <=> b.tool.ptr = 8
    <2>1. CASE b.tool.ptr = 8
      BY <2>1 DEF SL_64, Macros, Recognised
    <2>2. CASE b.tool.ptr # 8
      BY <2>2 DEF SL_64, Macros
    <2> QED
      BY <2>1, <2>2
  <1>5. Int64Size(b) = 8 /\ WordSize(b) = b.tool.ptr
    BY <1>1, <1>3, <1>4 DEF Int64Size, WordSize
  <1>6. sl_buf_t(b).size = 2 * b.tool.ptr
    <2> DEFINE posix == <<Uint("base", b.tool.ptr), Uint("len", b.tool.ptr)>>
               wsabuf == <<Uint("len", 4), Uint("base", b.tool.ptr)>>
    <2>1. /\ Declared(posix) /\ Len(posix) = 2 /\ posix[1].size = b.tool.ptr
          /\ posix[2].size = b.tool.ptr /\ posix[1].align = b.tool.ptr
          /\ posix[2].align = b.tool.ptr
      BY <1>1 DEF Declared, Aligns, Uint, Field
    <2>2. /\ Declared(wsabuf) /\ Len(wsabuf) = 2 /\ wsabuf[1].size = 4
          /\ wsabuf[2].size = b.tool.ptr /\ wsabuf[1].align = 4
          /\ wsabuf[2].align = b.tool.ptr
      BY <1>1 DEF Declared, Aligns, Uint, Field
    <2>3. sl_buf_t(b) = IF SockApi(b) = "WINSOCK" THEN Struct(wsabuf) ELSE Struct(posix)
      BY <1>5 DEF sl_buf_t, Buf, Pointer
    <2> HIDE DEF posix, wsabuf
    <2>4. Struct(posix).size = 2 * b.tool.ptr
      BY <1>1, <2>1, BufSize
    <2>5. Struct(wsabuf).size = 2 * b.tool.ptr
      BY <1>1, <2>2, BufSize
    <2> QED
      BY <2>3, <2>4, <2>5
  <1>7. StaticAsserts(b)
    BY <1>1, <1>4, <1>5, <1>6 DEF StaticAsserts
  <1> QED
    BY <1>2, <1>3, <1>7 DEF Compiles

\* With a compiler that says what platform it is for, and of any architecture:
\* a build that is told the word size of its target, and whose platform and
\* headers are left as they are, is never rejected.
THEOREM ForceSafe == (\A t \in Toolchains : Recognised(t)) /\ Spec => []WordSizeForced
  <1> SUFFICES ASSUME \A t \in Toolchains : Recognised(t) PROVE Spec => []WordSizeForced
    OBVIOUS
  <1>1. ASSUME LayoutInv PROVE WordSizeForced
    <2> SUFFICES ASSUME phase = "rejected", build.defines \subseteq WordDefines,
                        build.defines \cap {"SL_FORCE_32", "SL_FORCE_64"} =
                          {IF build.tool.ptr = 8 THEN "SL_FORCE_64" ELSE "SL_FORCE_32"}
                 PROVE  FALSE
      BY DEF WordSizeForced, WordDefines
    <2>1. build \in Builds /\ ~Compiles(build)
      BY <1>1 DEF LayoutInv
    <2>2. Recognised(build.tool)
      BY <2>1 DEF Builds
    <2> QED
      BY <2>1, <2>2, CompilesFact
  <1> QED
    BY <1>1, Invariance, PTL
=============================================================================
