--------------------------- MODULE SequenceLemmas ---------------------------
(***************************************************************************)
(* Facts about lists for any length: induction over the natural numbers,   *)
(* what retain keeps of a list, and how a list without duplicates relates  *)
(* to the set of its elements.  The induction theorems of the library take *)
(* a predicate as a parameter; here the predicate is a set, which the      *)
(* well-foundedness of < turns into the same principle.                    *)
(***************************************************************************)
EXTENDS Integers, Sequences, FiniteSets, Retain, TLAPS, WellFoundedInduction, FiniteSetTheorems

-----------------------------------------------------------------------------
(* Induction                                                               *)

\* The order of the natural numbers is well-founded.
LEMMA LessThan == IsWellFoundedOn({ss \in Nat \X Nat : ss[1] < ss[2]}, Nat)
  BY NatLessThanWellFounded DEF OpToRel

\* A set that holds 0 and the successor of every number it holds, holds them all.
LEMMA SetInduction ==
  ASSUME NEW S, 0 \in S, \A n \in Nat : n \in S => n + 1 \in S
  PROVE Nat \subseteq S
<1> SUFFICES ASSUME Nat \ S # {} PROVE FALSE
  OBVIOUS
<1> DEFINE R == {ss \in Nat \X Nat : ss[1] < ss[2]}
<1>0. IsWellFoundedOn(R, Nat)   BY LessThan
<1>a. Nat \ S \subseteq Nat     OBVIOUS
<1> HIDE DEF R
<1>1. \E x \in Nat \ S : \A y \in Nat \ S : <<y, x>> \notin R   BY <1>0, <1>a, WFMin, Zenon
<1>2. PICK x \in Nat \ S : \A y \in Nat \ S : <<y, x>> \notin R   BY <1>1
<1>3. x \in Nat /\ x # 0 /\ x - 1 \in Nat /\ x - 1 + 1 = x /\ x - 1 < x   BY <1>2
<1>4. x - 1 \in Nat \ S   BY <1>2, <1>3
<1>5. <<x - 1, x>> \in R   BY <1>2, <1>3 DEF R
<1> QED   BY <1>2, <1>4, <1>5

-----------------------------------------------------------------------------
(* What Retain keeps                                                       *)

\* f lists what is kept of the first 0, 1, ... n elements of s.
Keeps(s, S, T, n, f) ==
    /\ f \in [0..n -> Seq(T)]
    /\ f[0] = << >>
    /\ \A i \in 1..n : f[i] = IF s[i] \in S THEN Append(f[i - 1], s[i]) ELSE f[i - 1]

\* The recursion of Retain is well-founded: such a series exists.
LEMMA RetainExists ==
  ASSUME NEW T, NEW s \in Seq(T), NEW S
  PROVE \E f : Keeps(s, S, T, Len(s), f)
<1> DEFINE P == {n \in Nat : n <= Len(s) => \E f : Keeps(s, S, T, n, f)}
<1>1. 0 \in P
  <2>1. Keeps(s, S, T, 0, [i \in 0..0 |-> << >>])
    BY DEF Keeps
  <2> QED BY <2>1
<1>2. ASSUME NEW n \in Nat, n \in P PROVE n + 1 \in P
  <2> SUFFICES ASSUME n + 1 <= Len(s) PROVE \E f : Keeps(s, S, T, n + 1, f)
    OBVIOUS
  <2>1. PICK f : Keeps(s, S, T, n, f)
    BY <1>2
  <2> DEFINE g == [i \in 0..n + 1 |-> IF i <= n THEN f[i]
                     ELSE IF s[n + 1] \in S THEN Append(f[n], s[n + 1]) ELSE f[n]]
  <2>2. s[n + 1] \in T /\ n + 1 \in 1..Len(s) /\ f[n] \in Seq(T)
    BY <2>1 DEF Keeps
  <2>3. g \in [0..n + 1 -> Seq(T)]
    BY <2>1, <2>2 DEF Keeps
  <2>4. ASSUME NEW i \in 1..n + 1
        PROVE g[i] = IF s[i] \in S THEN Append(g[i - 1], s[i]) ELSE g[i - 1]
    <3>1. CASE i <= n
      BY <3>1, <2>1 DEF Keeps
    <3>2. CASE i = n + 1
      BY <3>2, <2>1
    <3> QED BY <3>1, <3>2
  <2>5. g[0] = << >>
    BY <2>1 DEF Keeps
  <2>6. Keeps(s, S, T, n + 1, g)
    BY <2>3, <2>4, <2>5 DEF Keeps
  <2> QED BY <2>6
<1> HIDE DEF P
<1>3. Nat \subseteq P
  BY <1>1, <1>2, SetInduction
<1>4. Len(s) \in P
  BY <1>3
<1> QED BY <1>4 DEF P

\* The list kept is the last of a series of lists, one per position.
LEMMA RetainUnfolds ==
  ASSUME NEW T, NEW s \in Seq(T), NEW S
  PROVE \E f : Keeps(s, S, T, Len(s), f) /\ Retain(s, S) = f[Len(s)]
<1> DEFINE IsKept(f) == f = [n \in 0..Len(s) |->
            IF n = 0 THEN << >>
            ELSE IF s[n] \in S THEN Append(f[n - 1], s[n]) ELSE f[n - 1]]
<1>1. PICK f : Keeps(s, S, T, Len(s), f)
  BY RetainExists
<1>2. IsKept(f)
  <2> DEFINE h == [n \in 0..Len(s) |->
            IF n = 0 THEN << >>
            ELSE IF s[n] \in S THEN Append(f[n - 1], s[n]) ELSE f[n - 1]]
  <2>1. ASSUME NEW n \in 0..Len(s) PROVE f[n] = h[n]
    <3>1. h[n] = IF n = 0 THEN << >>
                 ELSE IF s[n] \in S THEN Append(f[n - 1], s[n]) ELSE f[n - 1]
      BY Zenon
    <3>2. n = 0 \/ n \in 1..Len(s)
      OBVIOUS
    <3> HIDE DEF h
    <3>3. CASE n = 0
      BY <1>1, <3>1, <3>3, Zenon DEF Keeps
    <3>4. CASE n # 0
      BY <1>1, <3>1, <3>2, <3>4, Zenon DEF Keeps
    <3> QED BY <3>3, <3>4
  <2>2. f \in [0..Len(s) -> Seq(T)]
    BY <1>1 DEF Keeps
  <2>3. h = [n \in DOMAIN h |-> h[n]] /\ DOMAIN h = 0..Len(s)
    OBVIOUS
  <2> HIDE DEF h
  <2>4. f = h
    BY <2>1, <2>2, <2>3
  <2> QED BY <2>4 DEF h
<1> DEFINE g == CHOOSE h : IsKept(h)
<1>3. IsKept(g)
  BY <1>2, Zenon
<1>4. Retain(s, S) = g[Len(s)]
  BY DEF Retain
<1> HIDE DEF g
<1>9. \A i \in 0..Len(s) : g[i] = IF i = 0 THEN << >>
                 ELSE IF s[i] \in S THEN Append(g[i - 1], s[i]) ELSE g[i - 1]
  <2> DEFINE k == [i \in 0..Len(s) |-> IF i = 0 THEN << >>
                 ELSE IF s[i] \in S THEN Append(g[i - 1], s[i]) ELSE g[i - 1]]
  <2>1. g = k
    BY <1>3
  <2>2. \A i \in 0..Len(s) : k[i] = IF i = 0 THEN << >>
                 ELSE IF s[i] \in S THEN Append(g[i - 1], s[i]) ELSE g[i - 1]
    BY Zenon
  <2> HIDE DEF k
  <2> QED BY <2>1, <2>2, Zenon
<1> DEFINE P == {n \in Nat : n <= Len(s) => g[n] = f[n]}
<1>5. 0 \in P
  BY <1>1, <1>3 DEF Keeps
<1>6. ASSUME NEW n \in Nat, n \in P PROVE n + 1 \in P
  <2> SUFFICES ASSUME n + 1 <= Len(s) PROVE g[n + 1] = f[n + 1]
    OBVIOUS
  <2>0. n + 1 <= Len(s) /\ n \in Nat /\ Len(s) \in Nat
    OBVIOUS
  <2>1. g[n + 1] = IF s[n + 1] \in S THEN Append(g[n], s[n + 1]) ELSE g[n]
    <3>1. n + 1 \in 0..Len(s) /\ n + 1 # 0 /\ n + 1 - 1 = n
      BY <2>0
    <3> QED BY <1>9, <3>1
  <2> QED BY <1>6, <2>1, <1>1 DEF Keeps
<1> HIDE DEF P
<1>7. Len(s) \in P
  BY <1>5, <1>6, SetInduction
<1>8. g[Len(s)] = f[Len(s)]
  BY <1>7 DEF P
<1> QED BY <1>1, <1>4, <1>8

\* q picks the elements of the first n of s that are in S: m says where each comes from.
Picks(s, S, T, n, q, m) ==
    /\ q \in Seq(T)
    /\ m \in [1..Len(q) -> 1..n]
    /\ \A i, j \in 1..Len(q) : i < j => m[i] < m[j]
    /\ \A j \in 1..Len(q) : q[j] = s[m[j]] /\ q[j] \in S
    /\ \A i \in 1..n : s[i] \in S => \E j \in 1..Len(q) : m[j] = i

\* Retain keeps the elements that are in S, all of them, in their order.
LEMMA RetainPicks ==
  ASSUME NEW T, NEW s \in Seq(T), NEW S
  PROVE \E m : Picks(s, S, T, Len(s), Retain(s, S), m)
<1>1. PICK f : Keeps(s, S, T, Len(s), f) /\ Retain(s, S) = f[Len(s)]
  BY RetainUnfolds
<1> DEFINE P == {n \in Nat : n <= Len(s) => \E m : Picks(s, S, T, n, f[n], m)}
<1>2. 0 \in P
  <2>1. f[0] = << >>
    BY <1>1 DEF Keeps
  <2>2. Picks(s, S, T, 0, << >>, [i \in 1..0 |-> i])
    BY DEF Picks
  <2> QED BY <2>1, <2>2
<1>3. ASSUME NEW n \in Nat, n \in P PROVE n + 1 \in P
  <2> SUFFICES ASSUME n + 1 <= Len(s) PROVE \E m : Picks(s, S, T, n + 1, f[n + 1], m)
    OBVIOUS
  <2>1. PICK m : Picks(s, S, T, n, f[n], m)
    BY <1>3
  <2> DEFINE q == f[n]
  <2>2. /\ n + 1 \in 1..Len(s) /\ n + 1 - 1 = n /\ s[n + 1] \in T
        /\ f[n + 1] = IF s[n + 1] \in S THEN Append(q, s[n + 1]) ELSE q
    BY <1>1 DEF Keeps
  <2>3. q \in Seq(T) /\ Len(q) \in Nat
    BY <2>1 DEF Picks
  <2> HIDE DEF q
  <2>4. Picks(s, S, T, n, q, m)
    BY <2>1 DEF q
  <2>5. CASE s[n + 1] \in S
    <3> DEFINE r == Append(q, s[n + 1])
               l == [i \in 1..Len(q) + 1 |-> IF i <= Len(q) THEN m[i] ELSE n + 1]
    <3>1. r \in Seq(T) /\ Len(r) = Len(q) + 1
      BY <2>2, <2>3
    <3>2. l \in [1..Len(r) -> 1..n + 1]
      BY <2>3, <2>4, <3>1 DEF Picks
    <3>3. \A i, j \in 1..Len(r) : i < j => l[i] < l[j]
      <4>1. /\ \A i \in 1..Len(q) : m[i] \in 1..n
            /\ \A i, j \in 1..Len(q) : i < j => m[i] < m[j]
        BY <2>4 DEF Picks
      <4> QED BY <2>3, <3>1, <4>1
    <3>4. \A j \in 1..Len(r) : r[j] = s[l[j]] /\ r[j] \in S
      <4> SUFFICES ASSUME NEW j \in 1..Len(r) PROVE r[j] = s[l[j]] /\ r[j] \in S
        OBVIOUS
      <4>1. CASE j <= Len(q)
        <5>1. j \in 1..Len(q) /\ r[j] = q[j] /\ l[j] = m[j]
          BY <2>3, <3>1, <4>1
        <5> QED BY <5>1, <2>4 DEF Picks
      <4>2. CASE j = Len(q) + 1
        BY <2>3, <2>5, <3>1, <4>2
      <4> QED BY <2>3, <3>1, <4>1, <4>2
    <3>5. \A i \in 1..n + 1 : s[i] \in S => \E j \in 1..Len(r) : l[j] = i
      <4> SUFFICES ASSUME NEW i \in 1..n + 1, s[i] \in S PROVE \E j \in 1..Len(r) : l[j] = i
        OBVIOUS
      <4>1. CASE i = n + 1
        <5>1. Len(q) + 1 \in 1..Len(r) /\ l[Len(q) + 1] = n + 1
          BY <2>3, <3>1
        <5> QED BY <4>1, <5>1
      <4>2. CASE i # n + 1
        <5>1. PICK j \in 1..Len(q) : m[j] = i
          BY <2>4, <4>2 DEF Picks
        <5>2. j \in 1..Len(r) /\ l[j] = i
          BY <2>3, <3>1, <5>1
        <5> QED BY <5>2
      <4> QED BY <4>1, <4>2
    <3> HIDE DEF r, l
    <3>6. Picks(s, S, T, n + 1, r, l)
      BY <3>1, <3>2, <3>3, <3>4, <3>5 DEF Picks
    <3> QED BY <2>2, <2>5, <3>6 DEF r
  <2>6. CASE s[n + 1] \notin S
    <3>1. Picks(s, S, T, n + 1, q, m)
      <4>1. \A i \in 1..n + 1 : s[i] \in S => i \in 1..n
        BY <2>6
      <4>2. m \in [1..Len(q) -> 1..n + 1]
        BY <2>4 DEF Picks
      <4> QED BY <2>4, <4>1, <4>2 DEF Picks
    <3> QED BY <2>2, <2>6, <3>1
  <2> QED BY <2>5, <2>6
<1> HIDE DEF P
<1>4. Len(s) \in P
  BY <1>2, <1>3, SetInduction
<1> QED BY <1>1, <1>4 DEF P

-----------------------------------------------------------------------------
(* Lists and the sets of their elements                                    *)

\* The elements of a list.
Elements(s) == {s[i] : i \in 1..Len(s)}

\* No element occurs twice in s.
NoDuplicates(s) == \A i, j \in 1..Len(s) : s[i] = s[j] => i = j

\* Retain in terms of sets: the elements kept are those in S.
LEMMA RetainElements ==
  ASSUME NEW T, NEW s \in Seq(T), NEW S
  PROVE /\ Retain(s, S) \in Seq(T)
        /\ Elements(Retain(s, S)) = Elements(s) \cap S
        /\ NoDuplicates(s) => NoDuplicates(Retain(s, S))
<1> DEFINE q == Retain(s, S)
<1>1. PICK m : Picks(s, S, T, Len(s), q, m)
  BY RetainPicks
<1> HIDE DEF q
<1>2. q \in Seq(T)
  BY <1>1 DEF Picks
<1>3. Elements(q) \subseteq Elements(s) \cap S
  BY <1>1, <1>2 DEF Picks, Elements
<1>4. ASSUME NEW x \in Elements(s) \cap S PROVE x \in Elements(q)
  <2>1. PICK i \in 1..Len(s) : s[i] = x
    BY <1>4 DEF Elements
  <2>2. PICK j \in 1..Len(q) : m[j] = i
    BY <1>1, <1>4, <2>1 DEF Picks
  <2> QED BY <1>1, <2>1, <2>2 DEF Picks, Elements
<1>5. ASSUME NoDuplicates(s) PROVE NoDuplicates(q)
  <2> SUFFICES ASSUME NEW i \in 1..Len(q), NEW j \in 1..Len(q), q[i] = q[j] PROVE i = j
    BY DEF NoDuplicates
  <2>0. /\ m[i] \in 1..Len(s) /\ m[j] \in 1..Len(s)
        /\ q[i] = s[m[i]] /\ q[j] = s[m[j]]
    BY <1>1 DEF Picks
  <2>1. m[i] = m[j]
    BY <1>5, <2>0 DEF NoDuplicates
  <2>2. i < j \/ j < i \/ i = j
    BY <1>2
  <2> QED BY <1>1, <2>0, <2>1, <2>2 DEF Picks
<1> QED BY <1>2, <1>3, <1>4, <1>5 DEF q

\* A list without duplicates is as long as its set of elements.
LEMMA LengthIsCount ==
  ASSUME NEW T, NEW s \in Seq(T), NoDuplicates(s)
  PROVE IsFiniteSet(Elements(s)) /\ Cardinality(Elements(s)) = Len(s)
<1>1. \A i \in 1..Len(s) : s[i] \in Elements(s)
  BY DEF Elements
<1> DEFINE f == [i \in 1..Len(s) |-> s[i]]
<1>2. f \in Bijection(1..Len(s), Elements(s))
  BY <1>1 DEF Elements, NoDuplicates, Bijection, Injection, Surjection, IsInjective
<1>3. Len(s) \in Nat
  OBVIOUS
<1> HIDE DEF f
<1>4. ExistsBijection(1..Len(s), Elements(s))
  BY <1>2 DEF ExistsBijection
<1> QED BY <1>3, <1>4, FS_CountingElements, FS_NatBijection

\* Retain makes no list without duplicates longer.
LEMMA RetainShorter ==
  ASSUME NEW T, NEW s \in Seq(T), NEW S, NoDuplicates(s)
  PROVE Len(Retain(s, S)) <= Len(s)
<1>1. /\ Retain(s, S) \in Seq(T) /\ NoDuplicates(Retain(s, S))
      /\ Elements(Retain(s, S)) \subseteq Elements(s)
  BY RetainElements
<1>2. /\ IsFiniteSet(Elements(s)) /\ Cardinality(Elements(s)) = Len(s)
      /\ Cardinality(Elements(Retain(s, S))) = Len(Retain(s, S))
  BY <1>1, LengthIsCount
<1>3. Cardinality(Elements(Retain(s, S))) <= Cardinality(Elements(s))
  BY <1>1, <1>2, FS_Subset, Zenon
<1> QED BY <1>2, <1>3

\* An element pushed at the back.
LEMMA AppendElements ==
  ASSUME NEW T, NEW s \in Seq(T), NEW x \in T
  PROVE /\ Elements(Append(s, x)) = Elements(s) \cup {x}
        /\ NoDuplicates(s) /\ x \notin Elements(s) => NoDuplicates(Append(s, x))
<1> DEFINE q == Append(s, x)
<1>1. /\ q \in Seq(T) /\ Len(q) = Len(s) + 1 /\ q[Len(s) + 1] = x
      /\ \A i \in 1..Len(s) : q[i] = s[i]
  OBVIOUS
<1>2. Len(s) \in Nat
  OBVIOUS
<1> HIDE DEF q
<1>3. Elements(q) \subseteq Elements(s) \cup {x}
  BY <1>1, <1>2 DEF Elements
<1>4. Elements(s) \cup {x} \subseteq Elements(q)
  <2>1. x \in Elements(q)
    BY <1>1, <1>2 DEF Elements
  <2>2. \A i \in 1..Len(s) : s[i] \in Elements(q)
    BY <1>1, <1>2 DEF Elements
  <2> QED BY <2>1, <2>2 DEF Elements
<1>5. NoDuplicates(s) /\ x \notin Elements(s) => NoDuplicates(q)
  BY <1>1, <1>2 DEF NoDuplicates, Elements
<1> QED BY <1>3, <1>4, <1>5 DEF q

\* The element at the front popped.
LEMMA TailElements ==
  ASSUME NEW T, NEW s \in Seq(T), s # << >>, NoDuplicates(s)
  PROVE /\ Head(s) \in Elements(s)
        /\ Elements(Tail(s)) = Elements(s) \ {Head(s)}
        /\ NoDuplicates(Tail(s))
<1> DEFINE q == Tail(s)
<1>1. /\ q \in Seq(T) /\ Len(q) = Len(s) - 1 /\ Head(s) = s[1]
      /\ \A i \in 1..Len(q) : q[i] = s[i + 1]
      /\ Len(s) \in Nat /\ Len(s) >= 1
  OBVIOUS
<1> HIDE DEF q
<1>2. Head(s) \in Elements(s)
  BY <1>1 DEF Elements
<1>3. Elements(q) \subseteq Elements(s) \ {Head(s)}
  BY <1>1 DEF Elements, NoDuplicates
<1>4. ASSUME NEW i \in 1..Len(s), s[i] # s[1] PROVE s[i] \in Elements(q)
  <2>1. i - 1 \in 1..Len(q) /\ q[i - 1] = s[i]
    BY <1>1, <1>4
  <2> QED BY <2>1 DEF Elements
<1>5. NoDuplicates(q)
  BY <1>1 DEF NoDuplicates
<1> QED BY <1>1, <1>2, <1>3, <1>4, <1>5 DEF q, Elements

-----------------------------------------------------------------------------
(* Lists written out                                                       *)

\* Two lists of the same length with the same elements are the same.
LEMMA SameElements ==
  ASSUME NEW T, NEW s \in Seq(T), NEW t \in Seq(T), Len(s) = Len(t), \A i \in 1..Len(s) : s[i] = t[i]
  PROVE s = t
  OBVIOUS

\* Lists of two joined.
LEMMA Joined ==
  ASSUME NEW a, NEW b, NEW c, NEW d
  PROVE /\ <<a, b>> \o <<c, d>> = <<a, b, c, d>>
        /\ << >> \o <<a, b>> = <<a, b>> /\ <<a, b>> \o << >> = <<a, b>>
<1>1. <<a, b>> \o <<c, d>> = <<a, b, c, d>>
  <2> DEFINE T == {a, b, c, d}
             s == <<a, b>> \o <<c, d>>
             t == <<a, b, c, d>>
  <2>1. s \in Seq(T) /\ t \in Seq(T) /\ Len(s) = 4 /\ Len(t) = 4
    OBVIOUS
  <2>2. \A i \in 1..4 : i = 1 \/ i = 2 \/ i = 3 \/ i = 4
    OBVIOUS
  <2>3. s[1] = a /\ s[2] = b /\ s[3] = c /\ s[4] = d
    OBVIOUS
  <2>4. t[1] = a /\ t[2] = b /\ t[3] = c /\ t[4] = d
    OBVIOUS
  <2> HIDE DEF s, t, T
  <2>5. \A i \in 1..Len(s) : s[i] = t[i]
    BY <2>1, <2>2, <2>3, <2>4
  <2> QED BY <2>1, <2>5, SameElements DEF s, t
<1>2. << >> \o <<a, b>> = <<a, b>> /\ <<a, b>> \o << >> = <<a, b>>
  OBVIOUS
<1> QED BY <1>1, <1>2

\* The first step of a plan, and the rest.
LEMMA HeadAndTail ==
  ASSUME NEW a, NEW b, NEW c, NEW d, NEW e
  PROVE /\ Head(<<a>>) = a /\ Tail(<<a>>) = << >> /\ <<a>> # << >>
        /\ Head(<<a, b>>) = a /\ Tail(<<a, b>>) = <<b>> /\ <<a, b>> # << >>
        /\ Head(<<a, b, c>>) = a /\ Tail(<<a, b, c>>) = <<b, c>> /\ <<a, b, c>> # << >>
        /\ Head(<<a, b, c, d>>) = a /\ Tail(<<a, b, c, d>>) = <<b, c, d>> /\ <<a, b, c, d>> # << >>
        /\ Head(<<a, b, c, d, e>>) = a /\ Tail(<<a, b, c, d, e>>) = <<b, c, d, e>>
        /\ <<a, b, c, d, e>> # << >>
<1>1. Head(<<a>>) = a /\ Tail(<<a>>) = << >> /\ <<a>> # << >>
  OBVIOUS
<1>2. Head(<<a, b>>) = a /\ Tail(<<a, b>>) = <<b>> /\ <<a, b>> # << >>
  OBVIOUS
<1>3. Head(<<a, b, c>>) = a /\ Tail(<<a, b, c>>) = <<b, c>> /\ <<a, b, c>> # << >>
  OBVIOUS
<1>4. Head(<<a, b, c, d>>) = a /\ Tail(<<a, b, c, d>>) = <<b, c, d>> /\ <<a, b, c, d>> # << >>
  OBVIOUS
<1>5. /\ Head(<<a, b, c, d, e>>) = a /\ Tail(<<a, b, c, d, e>>) = <<b, c, d, e>>
      /\ <<a, b, c, d, e>> # << >>
  OBVIOUS
<1> QED BY <1>1, <1>2, <1>3, <1>4, <1>5

\* Lists of up to five.
LEMMA ListsOf ==
  ASSUME NEW T, NEW a \in T, NEW b \in T
  PROVE /\ << >> \in Seq(T) /\ <<a>> \in Seq(T) /\ <<a, b>> \in Seq(T)
        /\ \A c, d, e \in T : <<a, b, c>> \in Seq(T) /\ <<a, b, c, d>> \in Seq(T)
                             /\ <<a, b, c, d, e>> \in Seq(T)
  OBVIOUS
=============================================================================
