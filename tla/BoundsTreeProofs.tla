-------------------------- MODULE BoundsTreeProofs -------------------------
(***************************************************************************)
(* The tree of bounds, for any number of children of a node and any        *)
(* rectangles: insert keeps it a tree that covers its leaves and gives the *)
(* new leaf the order one above the highest that it overlaps.              *)
(*                                                                         *)
(* The loops of the code are functions on the number of turns; their       *)
(* properties need induction, and that these functions exist.  Both follow *)
(* from the well-foundedness of Nat, which is a hypothesis here and is     *)
(* discharged where the theorems are stated.                               *)
(***************************************************************************)
EXTENDS BoundsTree, TLAPS

(***************************************************************************)
(* Induction and recursion over the natural numbers                        *)
(***************************************************************************)

\* Every non-empty set of natural numbers has a least element.
WellFounded ==
  \A T \in SUBSET Nat : T # {} => \E x \in T : \A y \in T : x <= y

\* Induction.
LEMMA Induction ==
  ASSUME WellFounded, NEW T \in SUBSET Nat, 0 \in T, \A n \in T : n + 1 \in T
  PROVE  T = Nat
  <1> SUFFICES ASSUME Nat \ T # {} PROVE FALSE
    BY Zenon
  <1>1. PICK x \in Nat \ T : \A y \in Nat \ T : x <= y
    BY Zenon DEF WellFounded
  <1>2. x # 0 /\ x - 1 \in Nat /\ x - 1 \notin Nat \ T
    BY <1>1
  <1> QED
    BY <1>1, <1>2

\* A function f on 0 .. L given by its first value and by a step H[n] from
\* each value to the next, which goes from V[n - 1] to V[n].
IsIteration(f, L, base, H) ==
  f = [n \in 0 .. L |-> IF n = 0 THEN base ELSE H[n][f[n - 1]]]

\* The values stay in the sets V, if the step does.
StaysIn(L, V, base, H) ==
  /\ L \in Nat /\ base \in V[0]
  /\ \A n \in 1 .. L : \A v \in V[n - 1] : H[n][v] \in V[n]
AllIn(f, L, V) == \A n \in 0 .. L : f[n] \in V[n]

\* It exists.
LEMMA Iteration ==
  ASSUME WellFounded, NEW L, NEW V, NEW base, NEW H, StaysIn(L, V, base, H)
  PROVE  \E f : IsIteration(f, L, base, H) /\ AllIn(f, L, V)
  <1> USE DEF IsIteration, StaysIn, AllIn
  <1> DEFINE Steps(f, m) ==
               /\ f = [n \in 0 .. m |-> IF n = 0 THEN base ELSE H[n][f[n - 1]]]
               /\ \A n \in 0 .. m : f[n] \in V[n]
             T == {m \in Nat : m <= L => \E f : Steps(f, m)}
  <1>1. 0 \in T
    <2> DEFINE f == [n \in 0 .. 0 |-> base]
    <2>1. Steps(f, 0)
      OBVIOUS
    <2> QED
      BY Zenon, <2>1
  <1>2. ASSUME NEW m \in T PROVE m + 1 \in T
    <2> SUFFICES ASSUME m + 1 <= L PROVE \E f : Steps(f, m + 1)
      OBVIOUS
    <2>1. PICK g : Steps(g, m)
      BY <1>2
    <2> DEFINE f == [n \in 0 .. m + 1 |-> IF n = m + 1 THEN H[m + 1][g[m]] ELSE g[n]]
    <2>2. \A n \in 0 .. m : f[n] = g[n]
      OBVIOUS
    <2>3. f[m + 1] = H[m + 1][f[m]] /\ f[m + 1] \in V[m + 1]
      <3>1. g[m] \in V[m] /\ m + 1 \in 1 .. L /\ (m + 1) - 1 = m
        BY <2>1
      <3>2. H[m + 1][g[m]] \in V[m + 1]
        BY Zenon, <3>1
      <3> QED
        BY <2>2, <3>2
    <2>4. \A n \in 0 .. m + 1 : f[n] \in V[n]
      <3>1. \A n \in 0 .. m : f[n] \in V[n]
        BY Zenon, <2>1, <2>2
      <3> HIDE DEF f
      <3> QED
        BY <2>3, <3>1
    <2>5. \A n \in 0 .. m + 1 : f[n] = IF n = 0 THEN base ELSE H[n][f[n - 1]]
      <3>1. ASSUME NEW n \in 0 .. m, n # 0 PROVE f[n] = H[n][f[n - 1]]
        <4>1. n - 1 \in 0 .. m
          BY <3>1
        <4>2. g[n] = H[n][g[n - 1]]
          BY Zenon, <2>1, <3>1
        <4> HIDE DEF f
        <4> QED
          BY Zenon, <2>2, <4>1, <4>2
      <3>2. f[0] = base
        BY <2>1
      <3>3. \A n \in 0 .. m + 1 : n \in 0 .. m \/ n = m + 1
        OBVIOUS
      <3>4. m + 1 # 0 /\ (m + 1) - 1 = m
        OBVIOUS
      <3> HIDE DEF f
      <3> QED
        BY Zenon, <2>3, <3>1, <3>2, <3>3, <3>4
    <2>6. f = [n \in 0 .. m + 1 |-> IF n = 0 THEN base ELSE H[n][f[n - 1]]]
      BY Zenon, <2>5
    <2> HIDE DEF f
    <2> QED
      BY Zenon, <2>4, <2>6
  <1>3. T = Nat
    <2>1. T \in SUBSET Nat
      BY Zenon
    <2> HIDE DEF T
    <2> QED
      BY Zenon, <1>1, <1>2, <2>1, Induction
  <1> QED
    BY <1>3

\* What holds of the first value and goes from each value to the next holds of
\* all of them.
LEMMA IterationIn ==
  ASSUME WellFounded, NEW L \in Nat, NEW V, NEW f, f[0] \in V[0],
         \A n \in 1 .. L : f[n - 1] \in V[n - 1] => f[n] \in V[n]
  PROVE  AllIn(f, L, V)
  <1> USE DEF AllIn
  <1> DEFINE T == {n \in Nat : n <= L => f[n] \in V[n]}
  <1>1. 0 \in T
    BY Zenon
  <1>2. ASSUME NEW n \in T PROVE n + 1 \in T
    <2>1. (n + 1) - 1 = n /\ n \in Nat
      OBVIOUS
    <2>2. n + 1 <= L => n + 1 \in 1 .. L /\ f[n] \in V[n]
      BY <1>2
    <2> QED
      BY <2>1, <2>2
  <1>3. T = Nat
    <2>1. T \in SUBSET Nat
      BY Zenon
    <2> HIDE DEF T
    <2> QED
      BY Zenon, <1>1, <1>2, <2>1, Induction
  <1> QED
    BY <1>3

\* The subsets of 1 .. n have sizes, up to n.
LEMMA Sizes ==
  ASSUME WellFounded, NEW n \in Nat
  PROVE  \E size \in [SUBSET (1 .. n) -> 0 .. n] :
           \A S, R \in SUBSET (1 .. n) : S \subseteq R /\ S # R => size[S] < size[R]
  <1> DEFINE IsSize(c, m) ==
               /\ c \in [SUBSET (1 .. m) -> 0 .. m]
               /\ \A S, R \in SUBSET (1 .. m) : S \subseteq R /\ S # R => c[S] < c[R]
             T == {m \in Nat : \E c : IsSize(c, m)}
  <1>1. 0 \in T
    <2> DEFINE c == [S \in SUBSET (1 .. 0) |-> 0]
    <2>1. IsSize(c, 0)
      <3>1. 1 .. 0 = {}
        OBVIOUS
      <3>2. \A S, R \in SUBSET (1 .. 0) : S = R
        BY Zenon, <3>1
      <3>3. c \in [SUBSET (1 .. 0) -> 0 .. 0]
        OBVIOUS
      <3> HIDE DEF c
      <3> QED
        BY Zenon, <3>2, <3>3
    <2> QED
      BY Zenon, <2>1
  <1>2. ASSUME NEW m \in T PROVE m + 1 \in T
    <2>1. PICK c : IsSize(c, m)
      BY Zenon, <1>2
    <2> DEFINE Low(S) == S \ {m + 1}
               d == [S \in SUBSET (1 .. m + 1) |-> IF m + 1 \in S THEN c[Low(S)] + 1
                                                  ELSE c[Low(S)]]
    <2>2. ASSUME NEW S \in SUBSET (1 .. m + 1)
          PROVE  Low(S) \in SUBSET (1 .. m) /\ c[Low(S)] \in 0 .. m
      <3>1. Low(S) \in SUBSET (1 .. m)
        OBVIOUS
      <3> QED
        BY Zenon, <2>1, <3>1
    <2>3. d \in [SUBSET (1 .. m + 1) -> 0 .. m + 1]
      <3> HIDE DEF Low
      <3> QED
        BY <2>2
    <2>4. ASSUME NEW S \in SUBSET (1 .. m + 1), NEW R \in SUBSET (1 .. m + 1),
                 S \subseteq R, S # R
          PROVE  d[S] < d[R]
      <3>1. CASE Low(S) = Low(R)
        <4>1. m + 1 \notin S /\ m + 1 \in R
          BY Zenon, <2>4, <3>1
        <4> HIDE DEF Low
        <4> QED
          BY <2>2, <3>1, <4>1
      <3>2. CASE Low(S) # Low(R)
        <4>1. Low(S) \subseteq Low(R) /\ (m + 1 \in S => m + 1 \in R)
          BY Zenon, <2>4
        <4> HIDE DEF Low
        <4>2. c[Low(S)] < c[Low(R)]
          BY Zenon, <2>1, <2>2, <3>2, <4>1
        <4> QED
          BY <2>2, <4>1, <4>2
      <3> QED
        BY Zenon, <3>1, <3>2
    <2> HIDE DEF d
    <2>5. IsSize(d, m + 1)
      BY Zenon, <2>3, <2>4
    <2> HIDE DEF IsSize
    <2> QED
      BY <2>5
  <1>3. T = Nat
    <2>1. T \in SUBSET Nat
      BY Zenon
    <2> HIDE DEF T
    <2> QED
      BY Zenon, <1>1, <1>2, <2>1, Induction
  <1> QED
    BY Zenon, <1>3

(***************************************************************************)
(* Bounds                                                                  *)
(***************************************************************************)

\* a lies in b.
Within(a, b) == \A d \in Axes : b[d].lo <= a[d].lo /\ a[d].hi <= b[d].hi

\* The union of two rectangles has both in it.
LEMMA UnionFacts ==
  ASSUME NEW a \in Bounds, NEW b \in Bounds
  PROVE  /\ UnionOf(a, b) \in Bounds
         /\ Within(a, UnionOf(a, b)) /\ Within(b, UnionOf(a, b))
         /\ UnionOf(UnionOf(a, b), b) = UnionOf(a, b)
  BY DEF UnionOf, Bounds, Axes, Within, Least, Greatest

\* The union grows with its parts, and is the least rectangle that has them.
LEMMA UnionGrows ==
  ASSUME NEW a \in Bounds, NEW b \in Bounds, NEW c \in Bounds
  PROVE  /\ Within(a, b) => Within(UnionOf(a, c), UnionOf(b, c))
         /\ Within(a, b) /\ Within(c, b) => Within(UnionOf(a, c), b)
  BY DEF UnionOf, Bounds, Axes, Within, Least, Greatest

\* Within is reflexive and transitive, and a rectangle meets what a part of it
\* meets.
LEMMA WithinFacts ==
  ASSUME NEW a \in Bounds, NEW b \in Bounds
  PROVE  /\ Within(a, a)
         /\ \A c \in Bounds : Within(a, b) /\ Within(b, c) => Within(a, c)
         /\ \A q \in Bounds : Within(a, b) /\ Intersects(q, a) => Intersects(q, b)
         /\ Intersects(a, b) = Intersects(b, a)
  <1>1. Within(a, a)
    BY DEF Bounds, Axes, Within
  <1>2. ASSUME NEW c \in Bounds, Within(a, b), Within(b, c) PROVE Within(a, c)
    BY <1>2 DEF Bounds, Axes, Within
  <1>3. ASSUME NEW q \in Bounds, Within(a, b), Intersects(q, a) PROVE Intersects(q, b)
    BY <1>3 DEF Bounds, Axes, Within, Intersects
  <1>4. Intersects(a, b) = Intersects(b, a)
    BY Zenon DEF Bounds, Axes, Intersects
  <1> QED
    BY Zenon, <1>1, <1>2, <1>3, <1>4

(***************************************************************************)
(* Sequences                                                               *)
(***************************************************************************)

\* Pushing on a vector.
LEMMA AppendFacts ==
  ASSUME NEW S, NEW s \in Seq(S), NEW x \in S
  PROVE  /\ Append(s, x) \in Seq(S) /\ Len(Append(s, x)) = Len(s) + 1
         /\ DOMAIN Append(s, x) = DOMAIN s \cup {Len(s) + 1}
         /\ \A i \in DOMAIN s : Append(s, x)[i] = s[i]
         /\ Append(s, x)[Len(s) + 1] = x /\ Top(Append(s, x)) = x
         /\ Range(Append(s, x)) = Range(s) \cup {x}
         /\ IsInjective(s) /\ x \notin Range(s) => IsInjective(Append(s, x))
  <1>1. /\ Append(s, x) \in Seq(S) /\ Len(Append(s, x)) = Len(s) + 1
        /\ DOMAIN Append(s, x) = DOMAIN s \cup {Len(s) + 1}
        /\ \A i \in DOMAIN s : Append(s, x)[i] = s[i]
        /\ Append(s, x)[Len(s) + 1] = x /\ Len(s) + 1 \notin DOMAIN s
    OBVIOUS
  <1> DEFINE t == Append(s, x)
             n == Len(s) + 1
  <1> HIDE DEF t, n
  <1>2. /\ DOMAIN t = DOMAIN s \cup {n} /\ t[n] = x /\ n \notin DOMAIN s
        /\ \A i \in DOMAIN s : t[i] = s[i]
    BY Zenon, <1>1 DEF t, n
  <1>3. Range(t) = Range(s) \cup {x}
    BY <1>2 DEF Range
  <1>4. IsInjective(s) /\ x \notin Range(s) => IsInjective(t)
    BY Zenon, <1>2 DEF Range, IsInjective
  <1> QED
    BY Zenon, <1>1, <1>3, <1>4 DEF t, Top

\* Popping from a vector.
LEMMA PopFacts ==
  ASSUME NEW S, NEW s \in Seq(S)
  PROVE  /\ Pop(s) \in Seq(S)
         /\ s # << >> => /\ Len(Pop(s)) = Len(s) - 1 /\ Len(s) \in DOMAIN s /\ Top(s) \in S
                         /\ DOMAIN s = DOMAIN Pop(s) \cup {Len(s)}
         /\ \A i \in DOMAIN Pop(s) : i \in DOMAIN s /\ i # Len(s) /\ Pop(s)[i] = s[i]
  <1>1. CASE s = << >>
    BY <1>1 DEF Pop
  <1>2. CASE s # << >>
    <2> DEFINE t == SubSeq(s, 1, Len(s) - 1)
    <2>1. Len(s) \in Nat /\ Len(s) # 0 /\ DOMAIN s = 1 .. Len(s)
      BY <1>2
    <2>2. t \in Seq(S) /\ Len(t) = Len(s) - 1 /\ \A i \in 1 .. Len(s) - 1 : t[i] = s[i]
      BY <2>1
    <2>3. DOMAIN t = 1 .. Len(t) /\ s[Len(s)] \in S
      BY <2>1, <2>2
    <2> HIDE DEF t
    <2>4. /\ t \in Seq(S) /\ Len(t) = Len(s) - 1 /\ Len(s) \in DOMAIN s /\ s[Len(s)] \in S
          /\ DOMAIN s = DOMAIN t \cup {Len(s)}
          /\ \A i \in DOMAIN t : i \in DOMAIN s /\ i # Len(s) /\ t[i] = s[i]
      BY <2>1, <2>2, <2>3
    <2> QED
      BY Zenon, <1>2, <2>4 DEF Pop, Top, t
  <1> QED
    BY Zenon, <1>1, <1>2

\* Swapping two elements.
LEMMA SwappedFacts ==
  ASSUME NEW S, NEW s \in Seq(S), NEW i \in DOMAIN s, NEW j \in DOMAIN s
  PROVE  /\ Swapped(s, i, j) \in Seq(S) /\ Len(Swapped(s, i, j)) = Len(s)
         /\ Range(Swapped(s, i, j)) = Range(s)
         /\ IsInjective(s) => IsInjective(Swapped(s, i, j))
  <1> DEFINE t == Swapped(s, i, j)
  <1>1. t \in Seq(S) /\ Len(t) = Len(s)
    BY DEF Swapped
  <1>2. /\ DOMAIN t = DOMAIN s /\ t[i] = s[j] /\ t[j] = s[i]
        /\ \A k \in DOMAIN s \ {i, j} : t[k] = s[k]
    BY Zenon DEF Swapped
  <1> HIDE DEF t
  <1>3. Range(t) = Range(s)
    BY Zenon, <1>2 DEF Range
  <1>4. IsInjective(s) => IsInjective(t)
    BY Zenon, <1>2 DEF IsInjective
  <1> QED
    BY Zenon, <1>1, <1>3, <1>4 DEF t

Replaced(s, i, x) == [s EXCEPT ![i] = x]

\* Replacing an element by one that is not in the vector.
LEMMA ReplacedFacts ==
  ASSUME NEW s \in Seq(Nat), NEW i \in DOMAIN s, NEW x \in Nat, IsInjective(s), x \notin Range(s)
  PROVE  /\ Replaced(s, i, x) \in Seq(Nat) /\ Len(Replaced(s, i, x)) = Len(s)
         /\ IsInjective(Replaced(s, i, x))
         /\ Range(Replaced(s, i, x)) = (Range(s) \ {s[i]}) \cup {x}
  <1> USE DEF Replaced
  <1> DEFINE t == [s EXCEPT ![i] = x]
  <1>1. t \in Seq(Nat) /\ Len(t) = Len(s)
    OBVIOUS
  <1>2. DOMAIN t = DOMAIN s /\ t[i] = x /\ \A k \in DOMAIN s \ {i} : t[k] = s[k]
    BY Zenon
  <1> HIDE DEF t
  <1>3. IsInjective(s) /\ x \notin Range(s) => IsInjective(t)
    BY Zenon, <1>2 DEF IsInjective, Range
  <1>4. IsInjective(s) => Range(t) = (Range(s) \ {s[i]}) \cup {x}
    BY <1>2 DEF IsInjective, Range
  <1> QED
    BY Zenon, <1>1, <1>3, <1>4 DEF t

\* Pushing one vector after another.
LEMMA ConcatFacts ==
  ASSUME NEW S, NEW s \in Seq(S), NEW t \in Seq(S)
  PROVE  /\ s \o t \in Seq(S) /\ Range(s \o t) = Range(s) \cup Range(t)
         /\ IsInjective(s) /\ IsInjective(t) /\ Range(s) \cap Range(t) = {} =>
              IsInjective(s \o t)
  <1> DEFINE r == s \o t
             m == Len(s)
             n == Len(t)
  <1>1. r \in Seq(S) /\ m \in Nat /\ n \in Nat
    OBVIOUS
  <1>2. DOMAIN s = 1 .. m /\ DOMAIN t = 1 .. n /\ DOMAIN r = 1 .. m + n
    OBVIOUS
  <1>3. \A i \in 1 .. m + n : r[i] = IF i <= m THEN s[i] ELSE t[i - m]
    OBVIOUS
  <1> HIDE DEF r, m, n
  <1>4. Range(r) = Range(s) \cup Range(t)
    <2>1. \A i \in 1 .. m : i \in 1 .. m + n /\ r[i] = s[i]
      BY <1>1, <1>3
    <2>2. \A j \in 1 .. n : j + m \in 1 .. m + n /\ r[j + m] = t[j]
      BY <1>1, <1>3
    <2>3. \A i \in 1 .. m + n : r[i] \in Range(s) \cup Range(t)
      <3> TAKE i \in 1 .. m + n
      <3>1. CASE i <= m
        <4>1. i \in 1 .. m
          BY <1>1, <3>1
        <4> QED
          BY Zenon, <1>2, <2>1, <4>1 DEF Range
      <3>2. CASE ~(i <= m)
        <4>1. i - m \in 1 .. n /\ r[i] = t[i - m]
          BY <1>1, <1>3, <3>2
        <4> QED
          BY Zenon, <1>2, <4>1 DEF Range
      <3> QED
        BY Zenon, <3>1, <3>2
    <2>4. Range(r) \subseteq Range(s) \cup Range(t)
      BY Zenon, <1>2, <2>3 DEF Range
    <2>5. Range(s) \subseteq Range(r)
      BY Zenon, <1>2, <2>1 DEF Range
    <2>6. Range(t) \subseteq Range(r)
      <3> SUFFICES ASSUME NEW j \in 1 .. n PROVE t[j] \in Range(r)
        BY Zenon, <1>2 DEF Range
      <3>1. j + m \in DOMAIN r /\ r[j + m] = t[j]
        BY Zenon, <1>2, <2>2
      <3> QED
        BY Zenon, <3>1 DEF Range
    <2> QED
      BY Zenon, <2>4, <2>5, <2>6
  <1>5. ASSUME IsInjective(s), IsInjective(t), Range(s) \cap Range(t) = {}
        PROVE  IsInjective(r)
    <2> SUFFICES ASSUME NEW i \in 1 .. m + n, NEW j \in 1 .. m + n, r[i] = r[j]
                 PROVE  i = j
      BY Zenon, <1>2 DEF IsInjective
    <2>1. \A a \in 1 .. m, b \in 1 .. n : s[a] # t[b]
      BY Zenon, <1>2, <1>5 DEF Range
    <2>2. (i <= m => i \in 1 .. m) /\ (~(i <= m) => i - m \in 1 .. n)
      BY <1>1
    <2>3. (j <= m => j \in 1 .. m) /\ (~(j <= m) => j - m \in 1 .. n)
      BY <1>1
    <2>4. CASE i <= m /\ j <= m
      BY Zenon, <1>2, <1>3, <1>5, <2>2, <2>3, <2>4 DEF IsInjective
    <2>5. CASE ~(i <= m) /\ ~(j <= m)
      <3>1. i - m = j - m
        BY Zenon, <1>2, <1>3, <1>5, <2>2, <2>3, <2>5 DEF IsInjective
      <3> QED
        BY <1>1, <3>1
    <2>6. CASE i <= m /\ ~(j <= m)
      BY Zenon, <1>3, <2>1, <2>2, <2>3, <2>6
    <2>7. CASE ~(i <= m) /\ j <= m
      BY Zenon, <1>3, <2>1, <2>2, <2>3, <2>7
    <2> QED
      BY Zenon, <2>4, <2>5, <2>6, <2>7
  <1> QED
    BY Zenon, <1>1, <1>4, <1>5 DEF r

\* Popping from a vector without duplicates.
LEMMA PoppedFacts ==
  ASSUME NEW S, NEW s \in Seq(S), s # << >>, IsInjective(s)
  PROVE  /\ Pop(s) \in Seq(S) /\ IsInjective(Pop(s)) /\ Top(s) \in Range(s) /\ Top(s) \in S
         /\ Range(Pop(s)) = Range(s) \ {Top(s)}
  <1> DEFINE t == Pop(s)
             n == Len(s)
  <1>1. /\ t \in Seq(S) /\ n \in DOMAIN s /\ Top(s) \in S
        /\ DOMAIN s = DOMAIN t \cup {n} /\ Top(s) = s[n]
        /\ \A i \in DOMAIN t : i \in DOMAIN s /\ i # n /\ t[i] = s[i]
    BY Zenon, PopFacts DEF Top
  <1> HIDE DEF t, n
  <1>2. IsInjective(t)
    BY Zenon, <1>1 DEF IsInjective
  <1>3. Range(t) = Range(s) \ {s[n]}
    BY <1>1 DEF IsInjective, Range
  <1>4. s[n] \in Range(s)
    BY Zenon, <1>1 DEF Range
  <1> QED
    BY Zenon, <1>1, <1>2, <1>3, <1>4 DEF t

(***************************************************************************)
(* The search                                                              *)
(***************************************************************************)

NodeSet == [bounds : Bounds, max : Nat, children : Seq(Nat)]
Kids(node) == Range(node.children)

\* find_max_ordering pushes the children that can improve on what it has found,
\* and no other.
LEMMA ImprovingFacts ==
  ASSUME WellFounded, NEW nodes, NEW children \in Seq(Nat), NEW found
  PROVE  LET r == Improving(nodes, children, found)
         IN  /\ r \in Seq(Nat)
             /\ Range(r) = {c \in Range(children) : nodes[c].max > found}
             /\ IsInjective(children) => IsInjective(r)
  <1> DEFINE L == Len(children)
             Good(i) == nodes[children[i]].max > found
             Upto(i) == {children[j] : j \in {m \in 1 .. i : Good(m)}}
             V == [i \in 0 .. L |->
                     {t \in Seq(Nat) : /\ Range(t) = Upto(i)
                                       /\ IsInjective(children) => IsInjective(t)}]
             Step(i, t) == IF Good(i) THEN Append(t, children[i]) ELSE t
             H == [i \in 1 .. L |-> [t \in V[i - 1] |-> Step(i, t)]]
             kept[i \in 0 .. Len(children)] ==
               IF i = 0 THEN <<>>
               ELSE IF nodes[children[i]].max > found THEN Append(kept[i - 1], children[i])
               ELSE kept[i - 1]
  <1>1. Improving(nodes, children, found) = kept[L]
    BY Zenon DEF Improving
  <1>2. L \in Nat /\ DOMAIN children = 1 .. L /\ \A i \in 1 .. L : children[i] \in Nat
    OBVIOUS
  <1>3. << >> \in V[0]
    <2>1. Upto(0) = {} /\ Range(<< >>) = {} /\ IsInjective(<< >>)
      BY DEF Range, IsInjective
    <2>2. 0 \in 0 .. L /\ << >> \in Seq(Nat)
      BY <1>2
    <2> HIDE DEF Upto, L
    <2> QED
      BY Zenon, <2>1, <2>2
  <1>4. ASSUME NEW i \in 1 .. L, NEW t \in V[i - 1] PROVE Step(i, t) \in V[i]
    <2>1. /\ t \in Seq(Nat) /\ Range(t) = Upto(i - 1)
          /\ IsInjective(children) => IsInjective(t)
      <3> HIDE DEF Upto
      <3> QED
        BY <1>2, <1>4
    <2>2. CASE Good(i)
      <3>1. Upto(i) = Upto(i - 1) \cup {children[i]}
        <4>1. {m \in 1 .. i : Good(m)} = {m \in 1 .. (i - 1) : Good(m)} \cup {i}
          <5> HIDE DEF Good
          <5> QED
            BY <2>2
        <4> HIDE DEF Good
        <4> QED
          BY Zenon, <4>1
      <3>2. IsInjective(children) => children[i] \notin Upto(i - 1)
        <4> SUFFICES ASSUME IsInjective(children), children[i] \in Upto(i - 1) PROVE FALSE
          BY Zenon
        <4> HIDE DEF Good
        <4>1. PICK m \in 1 .. (i - 1) : children[m] = children[i]
          BY Zenon
        <4>2. m \in DOMAIN children /\ i \in DOMAIN children /\ m # i
          BY <1>2, <4>1
        <4> QED
          BY Zenon, <4>1, <4>2 DEF IsInjective
      <3>3. /\ Append(t, children[i]) \in Seq(Nat)
            /\ Range(Append(t, children[i])) = Range(t) \cup {children[i]}
            /\ IsInjective(t) /\ children[i] \notin Range(t) =>
                 IsInjective(Append(t, children[i]))
        <4>1. children[i] \in Nat /\ t \in Seq(Nat)
          BY Zenon, <1>2, <2>1
        <4> HIDE DEF Upto, Good, L, V
        <4> QED
          BY SMTT(30), <4>1, AppendFacts
      <3>4. i \in 0 .. L
        BY <1>2
      <3> HIDE DEF Upto, Good, L
      <3> QED
        BY Zenon, <2>1, <2>2, <3>1, <3>2, <3>3, <3>4
    <2>3. CASE ~Good(i)
      <3>1. Upto(i) = Upto(i - 1)
        <4>1. {m \in 1 .. i : Good(m)} = {m \in 1 .. (i - 1) : Good(m)}
          <5> HIDE DEF Good
          <5> QED
            BY <2>3
        <4> QED
          BY Zenon, <4>1
      <3> HIDE DEF Upto, Good
      <3> QED
        BY <2>1, <2>3, <3>1
    <2> QED
      BY Zenon, <2>2, <2>3
  <1>5. \A i \in 1 .. L : \A t \in V[i - 1] : H[i][t] = Step(i, t) /\ H[i][t] \in V[i]
    <2> HIDE DEF V, Step
    <2> QED
      BY Zenon, <1>4
  <1>6. PICK f : /\ f = [i \in 0 .. L |-> IF i = 0 THEN << >> ELSE H[i][f[i - 1]]]
                 /\ \A i \in 0 .. L : f[i] \in V[i]
    <2> HIDE DEF V, H, L
    <2>1. StaysIn(L, V, << >>, H)
      BY Zenon, <1>2, <1>3, <1>5 DEF StaysIn
    <2>2. \E f : IsIteration(f, L, << >>, H) /\ AllIn(f, L, V)
      BY Zenon, <2>1, Iteration
    <2> QED
      BY Zenon, <2>2 DEF IsIteration, AllIn
  <1>7. f = [i \in 0 .. L |-> IF i = 0 THEN << >> ELSE Step(i, f[i - 1])]
    <2>1. ASSUME NEW i \in 1 .. L PROVE H[i][f[i - 1]] = Step(i, f[i - 1])
      <3>1. i - 1 \in 0 .. L
        BY <1>2
      <3>2. f[i - 1] \in V[i - 1]
        BY Zenon, <1>6, <3>1
      <3> HIDE DEF V, H, L, Step
      <3> QED
        BY Zenon, <1>5, <3>2
    <2>2. \A i \in 0 .. L : i # 0 => i \in 1 .. L
      BY <1>2
    <2> HIDE DEF V, H, L, Step
    <2> QED
      BY Zenon, <1>6, <2>1, <2>2
  <1>8. kept = [i \in 0 .. L |-> IF i = 0 THEN << >> ELSE Step(i, kept[i - 1])]
    BY ZenonT(30), <1>7
  <1>9. kept[L] \in V[L]
    <2>1. kept[0] = << >> /\ \A i \in 1 .. L : kept[i] = Step(i, kept[i - 1])
      <3> HIDE DEF kept, Step, L
      <3> QED
        BY <1>2, <1>8
    <2>2. \A i \in 1 .. L : kept[i - 1] \in V[i - 1] => kept[i] \in V[i]
      <3> HIDE DEF kept, Step, L, V
      <3> QED
        BY Zenon, <1>4, <2>1
    <2> HIDE DEF kept, Step, L, V
    <2>3. AllIn(kept, L, V)
      BY Zenon, <1>2, <1>3, <2>1, <2>2, IterationIn
    <2> QED
      BY <1>2, <2>3 DEF AllIn
  <1>10. Upto(L) = {c \in Range(children) : nodes[c].max > found}
    BY Zenon, <1>2 DEF Range
  <1>11. /\ kept[L] \in Seq(Nat) /\ Range(kept[L]) = Upto(L)
         /\ IsInjective(children) => IsInjective(kept[L])
    <2> HIDE DEF Upto, kept
    <2> QED
      BY <1>2, <1>9
  <1> HIDE DEF Upto, kept
  <1> QED
    BY Zenon, <1>1, <1>10, <1>11

\* nodes is a tree with this root, and anc has the ancestors of each node,
\* the node among them.
Ancestry(nodes, root, anc) ==
  /\ nodes \in Seq(NodeSet) /\ anc \in [DOMAIN nodes -> SUBSET DOMAIN nodes]
  /\ root \in DOMAIN nodes /\ anc[root] = {root}
  /\ \A u \in DOMAIN nodes : u \in anc[u] /\ root \in anc[u]
Branches(nodes, anc) ==
  \A v \in DOMAIN nodes :
    /\ IsInjective(nodes[v].children)
    /\ \A c \in Kids(nodes[v]) : /\ c \in DOMAIN nodes
                                 /\ c \notin anc[v] /\ anc[c] = anc[v] \cup {c}
Chains(nodes, anc) ==
  \A u \in DOMAIN nodes : \A v \in anc[u] :
    /\ anc[v] \subseteq anc[u]
    /\ v # u => \E c \in Kids(nodes[v]) : c \in anc[u]

\* What a node has below it lies in its bounds and is not of higher order.
Covers(nodes, anc) ==
  \A u \in DOMAIN nodes : \A v \in anc[u] :
    nodes[u].max <= nodes[v].max /\ Within(nodes[u].bounds, nodes[v].bounds)

IsTree(nodes, root, anc) ==
  /\ Ancestry(nodes, root, anc) /\ Branches(nodes, anc) /\ Chains(nodes, anc)
  /\ Covers(nodes, anc)

\* Of the nodes on the stack none is below another.
Apart(anc, R) == \A u, v \in R : u # v => u \notin anc[v]
\* What is below them.
Reached(nodes, anc, R) == {u \in DOMAIN nodes : \E r \in R : r \in anc[u]}

\* The search replaces a node of its stack by some of its children: the nodes
\* below the stack become fewer, and stay apart.
LEMMA Visit ==
  ASSUME NEW nodes, NEW root, NEW anc, IsTree(nodes, root, anc),
         NEW R \in SUBSET DOMAIN nodes, Apart(anc, R), NEW v \in R,
         NEW K, K \subseteq Kids(nodes[v])
  PROVE  LET Q == (R \ {v}) \cup K
         IN  /\ Q \subseteq DOMAIN nodes /\ Apart(anc, Q) /\ K \cap R = {}
             /\ Reached(nodes, anc, Q) \subseteq Reached(nodes, anc, R)
             /\ v \in Reached(nodes, anc, R) /\ v \notin Reached(nodes, anc, Q)
  <1> USE DEF IsTree
  <1> DEFINE N == DOMAIN nodes
             Q == (R \ {v}) \cup K
  <1>1. /\ anc \in [N -> SUBSET N] /\ \A u \in N : u \in anc[u]
        /\ \A u \in N : \A w \in anc[u] : anc[w] \subseteq anc[u]
    BY Zenon DEF Ancestry, Chains
  <1>2. \A c \in K : c \in N /\ c \notin anc[v] /\ anc[c] = anc[v] \cup {c}
    BY Zenon DEF Branches
  <1> HIDE DEF N
  <1>3. R \subseteq N
    BY Zenon DEF N
  <1>4. \A c \in K : v \in anc[c] /\ c # v
    BY ZenonT(60), <1>1, <1>2, <1>3
  <1>5. K \cap R = {}
    BY Zenon, <1>4 DEF Apart
  <1>6. \A r \in R \ {v} : v \notin anc[r] /\ r \notin anc[v]
    BY Zenon DEF Apart
  <1>7. \A r \in R \ {v}, c \in K : c \notin anc[r] /\ r \notin anc[c]
    BY <1>1, <1>2, <1>3, <1>4, <1>5, <1>6
  <1>8. \A c, d \in K : c # d => c \notin anc[d]
    BY Zenon, <1>2
  <1>9. Q \subseteq N /\ Apart(anc, Q)
    BY Zenon, <1>2, <1>3, <1>7, <1>8 DEF Apart
  <1>10. Reached(nodes, anc, Q) \subseteq Reached(nodes, anc, R)
    BY Zenon, <1>1, <1>4 DEF Reached, N
  <1>11. v \in Reached(nodes, anc, R)
    BY Zenon, <1>1, <1>3 DEF Reached, N
  <1>12. v \notin Reached(nodes, anc, Q)
    BY Zenon, <1>2, <1>6 DEF Reached
  <1> QED
    BY Zenon, <1>5, <1>9, <1>10, <1>11, <1>12 DEF N

\* The leaves that the query meets.
Met(nodes, q) == {l \in LeavesOf(nodes) : Intersects(q, nodes[l].bounds)}
\* f is the highest order among them, 0 if there are none.
Highest(nodes, q, f) ==
  /\ f \in Nat /\ \A l \in Met(nodes, q) : nodes[l].max <= f
  /\ f = 0 \/ \E l \in Met(nodes, q) : nodes[l].max = f

\* What the loop of find_max_ordering keeps true: what was found is the order
\* of a leaf, and a leaf of higher order is below a node of the stack.
Searching(nodes, anc, q, s) ==
  /\ s = [stack |-> s.stack, found |-> s.found]
  /\ s.stack \in Seq(Nat) /\ IsInjective(s.stack) /\ Range(s.stack) \subseteq DOMAIN nodes
  /\ Apart(anc, Range(s.stack))
  /\ s.found \in Nat /\ (s.found = 0 \/ \E l \in Met(nodes, q) : nodes[l].max = s.found)
  /\ \A l \in Met(nodes, q) :
       nodes[l].max > s.found => \E r \in Range(s.stack) : r \in anc[l]

\* The parts of a node have their types.
LEMMA NodeFacts ==
  ASSUME NEW nodes \in Seq(NodeSet), NEW v \in DOMAIN nodes
  PROVE  /\ nodes[v].bounds \in Bounds /\ nodes[v].max \in Nat
         /\ nodes[v].children \in Seq(Nat)
  <1>1. nodes[v] \in NodeSet
    OBVIOUS
  <1> QED
    BY Zenon, <1>1 DEF NodeSet

\* A turn of the loop keeps what the search has to find, and leaves fewer nodes
\* to look at: the loop ends.
LEMMA SearchTurn ==
  ASSUME WellFounded, NEW nodes, NEW root, NEW anc, IsTree(nodes, root, anc),
         NEW q \in Bounds, NEW s, Searching(nodes, anc, q, s), s.stack # << >>
  PROVE  LET t == SearchStep(nodes, q, s)
         IN  /\ Searching(nodes, anc, q, t)
             /\ Reached(nodes, anc, Range(t.stack)) \subseteq Reached(nodes, anc, Range(s.stack))
             /\ Reached(nodes, anc, Range(t.stack)) # Reached(nodes, anc, Range(s.stack))
  <1> DEFINE t == SearchStep(nodes, q, s)
             v == Top(s.stack)
             rest == Pop(s.stack)
             R == Range(s.stack)
             M == Met(nodes, q)
             After(K) == /\ Searching(nodes, anc, q, t)
                         /\ Range(t.stack) = (R \ {v}) \cup K
  <1> SUFFICES \E K : K \subseteq Kids(nodes[v]) /\ After(K)
    <2>1. PICK K : K \subseteq Kids(nodes[v]) /\ After(K)
      BY Zenon
    <2>2. v \in R /\ R \in SUBSET DOMAIN nodes /\ Apart(anc, R)
      BY Zenon, PoppedFacts DEF Searching
    <2> HIDE DEF t, v, R
    <2>3. LET Q == (R \ {v}) \cup K
          IN  /\ Reached(nodes, anc, Q) \subseteq Reached(nodes, anc, R)
              /\ v \in Reached(nodes, anc, R) /\ v \notin Reached(nodes, anc, Q)
      BY ZenonT(60), <2>1, <2>2, Visit
    <2> QED
      BY Zenon, <2>1, <2>3 DEF t, R
  <1>1. /\ rest \in Seq(Nat) /\ IsInjective(rest) /\ Range(rest) = R \ {v} /\ v \in R
        /\ R \subseteq DOMAIN nodes /\ Apart(anc, R) /\ v \in DOMAIN nodes /\ s.found \in Nat
        /\ s.found = 0 \/ \E l \in M : nodes[l].max = s.found
        /\ \A l \in M : nodes[l].max > s.found => \E r \in R : r \in anc[l]
    <2>1. /\ R \subseteq DOMAIN nodes /\ Apart(anc, R) /\ s.found \in Nat
          /\ s.found = 0 \/ \E l \in M : nodes[l].max = s.found
          /\ \A l \in M : nodes[l].max > s.found => \E r \in R : r \in anc[l]
          /\ s.stack \in Seq(Nat) /\ IsInjective(s.stack)
      BY Zenon DEF Searching
    <2>2. rest \in Seq(Nat) /\ IsInjective(rest) /\ Range(rest) = R \ {v} /\ v \in R
      BY Zenon, <2>1, PoppedFacts
    <2> HIDE DEF v, R, M, rest
    <2> QED
      BY Zenon, <2>1, <2>2
  <1>2. /\ nodes \in Seq(NodeSet) /\ nodes[v].bounds \in Bounds /\ nodes[v].max \in Nat
        /\ nodes[v].children \in Seq(Nat) /\ IsInjective(nodes[v].children)
    <2> HIDE DEF v, rest
    <2>1. nodes \in Seq(NodeSet) /\ IsInjective(nodes[v].children)
      BY Zenon, <1>1 DEF IsTree, Ancestry, Branches
    <2> QED
      BY Zenon, <1>1, <2>1, NodeFacts
  <1>3. ASSUME NEW l \in M
        PROVE  /\ l \in DOMAIN nodes /\ IsLeaf(nodes[l]) /\ Intersects(q, nodes[l].bounds)
               /\ nodes[l].bounds \in Bounds /\ nodes[l].max \in Nat
    <2>1. l \in DOMAIN nodes /\ IsLeaf(nodes[l]) /\ Intersects(q, nodes[l].bounds)
      BY Zenon DEF Met, LeavesOf
    <2> QED
      BY Zenon, <1>2, <2>1, NodeFacts
  <1>4. ASSUME NEW l \in M, v \in anc[l]
        PROVE  /\ nodes[l].max <= nodes[v].max /\ Intersects(q, nodes[v].bounds)
               /\ l # v => \E c \in Kids(nodes[v]) : c \in anc[l] /\ nodes[c].max >= nodes[l].max
    <2>1. nodes[l].max <= nodes[v].max /\ Within(nodes[l].bounds, nodes[v].bounds)
      BY Zenon, <1>3, <1>4 DEF IsTree, Covers
    <2>2. Intersects(q, nodes[v].bounds)
      BY <1>2, <1>3, <2>1, WithinFacts
    <2>3. ASSUME l # v
          PROVE  \E c \in Kids(nodes[v]) : c \in anc[l] /\ nodes[c].max >= nodes[l].max
      <3>1. PICK c \in Kids(nodes[v]) : c \in anc[l]
        BY Zenon, <1>3, <1>4, <2>3 DEF IsTree, Chains
      <3>2. c \in DOMAIN nodes /\ nodes[l].max <= nodes[c].max
        BY Zenon, <1>1, <1>3, <3>1 DEF IsTree, Covers, Branches
      <3>3. nodes[c].max \in Nat
        BY Zenon, <1>2, <3>2, NodeFacts
      <3> QED
        BY Zenon, <1>3, <3>1, <3>2, <3>3
    <2> QED
      BY Zenon, <2>1, <2>2, <2>3
  <1> HIDE DEF M
  <1>5. Apart(anc, R \ {v})
    BY Zenon, <1>1 DEF Apart
  <1>6. CASE nodes[v].max <= s.found \/ ~Intersects(q, nodes[v].bounds)
    <2>1. t = [stack |-> rest, found |-> s.found]
      BY Zenon, <1>6 DEF SearchStep
    <2>2. \A l \in M : nodes[l].max > s.found => \E r \in R \ {v} : r \in anc[l]
      <3> SUFFICES ASSUME NEW l \in M, nodes[l].max > s.found
                   PROVE  \E r \in R \ {v} : r \in anc[l]
        BY Zenon
      <3>1. v \notin anc[l]
        <4> HIDE DEF v
        <4> QED
          BY <1>1, <1>2, <1>3, <1>4, <1>6
      <3> QED
        BY Zenon, <1>1, <3>1
    <2>3. After({})
      <3> HIDE DEF v, R, rest, t
      <3>1. t.stack = rest /\ t.found = s.found
        BY Zenon, <2>1
      <3> QED
        BY Zenon, <1>1, <1>5, <2>1, <2>2, <3>1 DEF Searching, M
    <2> QED
      BY Zenon, <2>3
  <1>7. CASE nodes[v].max > s.found /\ Intersects(q, nodes[v].bounds) /\ IsLeaf(nodes[v])
    <2>1. t = [stack |-> rest, found |-> nodes[v].max]
      <3>1. ~(nodes[v].max <= s.found)
        BY <1>1, <1>2, <1>7
      <3> QED
        BY Zenon, <1>7, <3>1 DEF SearchStep
    <2>2. \A l \in M : nodes[l].max > nodes[v].max => \E r \in R \ {v} : r \in anc[l]
      <3> SUFFICES ASSUME NEW l \in M, nodes[l].max > nodes[v].max
                   PROVE  \E r \in R \ {v} : r \in anc[l]
        BY Zenon
      <3>1. v \notin anc[l] /\ nodes[l].max > s.found
        <4> HIDE DEF v
        <4> QED
          BY <1>1, <1>2, <1>3, <1>4, <1>7
      <3> QED
        BY Zenon, <1>1, <3>1
    <2>3. v \in M
      BY Zenon, <1>1, <1>7 DEF M, Met, LeavesOf
    <2>4. After({})
      <3> HIDE DEF v, R, rest, t
      <3>1. t.stack = rest /\ t.found = nodes[v].max
        BY Zenon, <2>1
      <3> QED
        BY Zenon, <1>1, <1>2, <1>5, <2>1, <2>2, <2>3, <3>1 DEF Searching, M
    <2> QED
      BY Zenon, <2>4
  <1>8. CASE nodes[v].max > s.found /\ Intersects(q, nodes[v].bounds) /\ ~IsLeaf(nodes[v])
    <2> DEFINE more == Improving(nodes, nodes[v].children, s.found)
               K == Range(more)
    <2>1. t = [stack |-> rest \o more, found |-> s.found]
      <3>1. ~(nodes[v].max <= s.found)
        BY <1>1, <1>2, <1>8
      <3> QED
        BY Zenon, <1>8, <3>1 DEF SearchStep
    <2>2. /\ more \in Seq(Nat) /\ IsInjective(more)
          /\ K = {c \in Kids(nodes[v]) : nodes[c].max > s.found}
      <3> HIDE DEF v
      <3> QED
        BY ZenonT(60), <1>2, ImprovingFacts DEF Kids
    <2> HIDE DEF more
    <2>3. K \subseteq Kids(nodes[v])
      BY Zenon, <2>2
    <2>4. (R \ {v}) \cup K \subseteq DOMAIN nodes /\ Apart(anc, (R \ {v}) \cup K) /\ K \cap R = {}
      <3> HIDE DEF v, R, K
      <3> QED
        BY ZenonT(60), <1>1, <2>3, Visit
    <2>5. /\ rest \o more \in Seq(Nat) /\ IsInjective(rest \o more)
          /\ Range(rest \o more) = (R \ {v}) \cup K
      <3>1. Range(rest) \cap Range(more) = {}
        BY Zenon, <1>1, <2>4
      <3> HIDE DEF v, R, rest
      <3> QED
        BY <1>1, <2>2, <3>1, ConcatFacts
    <2>6. \A l \in M : nodes[l].max > s.found => \E r \in (R \ {v}) \cup K : r \in anc[l]
      <3> SUFFICES ASSUME NEW l \in M, nodes[l].max > s.found
                   PROVE  \E r \in (R \ {v}) \cup K : r \in anc[l]
        BY Zenon
      <3>1. CASE v \in anc[l]
        <4>1. l # v
          BY Zenon, <1>3, <1>8
        <4>2. PICK c \in Kids(nodes[v]) : c \in anc[l] /\ nodes[c].max >= nodes[l].max
          BY Zenon, <1>4, <3>1, <4>1
        <4>3. nodes[c].max \in Nat
          BY Zenon, <1>1, <1>2, <4>2, NodeFacts DEF IsTree, Branches
        <4>4. nodes[c].max > s.found
          BY <1>1, <1>3, <4>2, <4>3
        <4> HIDE DEF v, R, K
        <4> QED
          BY Zenon, <2>2, <4>2, <4>4
      <3>2. CASE v \notin anc[l]
        BY Zenon, <1>1, <3>2
      <3> QED
        BY Zenon, <3>1, <3>2
    <2>7. After(K)
      <3> HIDE DEF v, R, rest, t, K
      <3>1. t.stack = rest \o more /\ t.found = s.found
        BY Zenon, <2>1
      <3> QED
        BY Zenon, <1>1, <2>1, <2>4, <2>5, <2>6, <3>1 DEF Searching, M
    <2> QED
      BY Zenon, <2>3, <2>7
  <1>9. (nodes[v].max <= s.found) \/ (nodes[v].max > s.found)
    BY <1>1, <1>2
  <1> QED
    BY Zenon, <1>6, <1>7, <1>8, <1>9

\* The loop ends within as many turns as there are nodes, and finds the
\* highest order.
LEMMA SearchFinds ==
  ASSUME WellFounded, NEW nodes, NEW root, NEW anc, IsTree(nodes, root, anc), NEW q \in Bounds
  PROVE  Highest(nodes, q, Search(nodes, q, root).found)
  <1> DEFINE N == Len(nodes)
             D == 1 .. N
             U == [stack : Seq(Nat), found : Nat]
             Reach(s) == Reached(nodes, anc, Range(s.stack))
             base == [stack |-> << root >>, found |-> 0]
             Step(s) == SearchStep(nodes, q, s)
             turn[n \in 0 .. Len(nodes)] ==
               IF n = 0 THEN [stack |-> << root >>, found |-> 0]
               ELSE SearchStep(nodes, q, turn[n - 1])
  <1>1. Search(nodes, q, root) = turn[N]
    BY Zenon DEF Search
  <1>2. /\ N \in Nat /\ DOMAIN nodes = D /\ root \in D /\ root \in Nat
        /\ \A u \in D : root \in anc[u]
    <2>1. nodes \in Seq(NodeSet) /\ root \in DOMAIN nodes /\ \A u \in DOMAIN nodes : root \in anc[u]
      BY Zenon DEF IsTree, Ancestry
    <2> QED
      BY <2>1
  <1>3. PICK size \in [SUBSET D -> 0 .. N] :
           \A S, R \in SUBSET D : S \subseteq R /\ S # R => size[S] < size[R]
    <2> HIDE DEF N
    <2> QED
      BY Zenon, <1>2, Sizes
  <1>4. \A s : Reach(s) \in SUBSET D
    BY Zenon, <1>2 DEF Reached
  <1> DEFINE V == [n \in 0 .. N |->
                     {s \in U : /\ Searching(nodes, anc, q, s)
                                /\ s.stack = << >> \/ size[Reach(s)] <= N - n}]
             H == [n \in 1 .. N |-> [s \in V[n - 1] |-> Step(s)]]
  <1>5. base \in V[0]
    <2>1. base.stack = << root >> /\ base.found = 0 /\ base \in U
      BY <1>2
    <2>2. << root >> \in Seq(Nat) /\ IsInjective(<< root >>) /\ Range(<< root >>) = {root}
      BY <1>2 DEF IsInjective, Range
    <2> HIDE DEF base, D, N
    <2>3. Met(nodes, q) \subseteq D
      BY Zenon, <1>2 DEF Met, LeavesOf
    <2>4. Searching(nodes, anc, q, base)
      <3>1. base = [stack |-> base.stack, found |-> base.found]
        BY Zenon DEF base
      <3>2. Apart(anc, {root})
        BY Zenon DEF Apart
      <3> QED
        BY Zenon, <1>2, <2>1, <2>2, <2>3, <3>1, <3>2 DEF Searching
    <2>5. size[Reach(base)] <= N - 0 /\ 0 \in 0 .. N
      <3> HIDE DEF Reach
      <3> QED
        BY <1>2, <1>3, <1>4 DEF D
    <2> HIDE DEF U, Reach
    <2> QED
      BY Zenon, <2>1, <2>4, <2>5
  <1>6. ASSUME NEW n \in 1 .. N, NEW s \in V[n - 1] PROVE Step(s) \in V[n]
    <2>1. n - 1 \in 0 .. N /\ n \in 0 .. N
      BY <1>2
    <2>2. /\ s \in U /\ Searching(nodes, anc, q, s)
          /\ s.stack = << >> \/ size[Reach(s)] <= N - (n - 1)
      <3> HIDE DEF U, Reach, N
      <3> QED
        BY Zenon, <1>6, <2>1
    <2>3. CASE s.stack = << >>
      <3>1. Step(s) = s
        BY Zenon, <2>3 DEF SearchStep
      <3> HIDE DEF U, Reach, N, Step
      <3> QED
        BY Zenon, <2>1, <2>2, <2>3, <3>1
    <2>4. CASE s.stack # << >>
      <3> HIDE DEF V, D, N
      <3>1. /\ Searching(nodes, anc, q, Step(s))
            /\ Reach(Step(s)) \subseteq Reach(s) /\ Reach(Step(s)) # Reach(s)
        BY Zenon, <2>2, <2>4, SearchTurn
      <3> HIDE DEF Step
      <3>2. Step(s) \in U
        BY Zenon, <3>1 DEF Searching
      <3> HIDE DEF Reach, U
      <3>3. size[Reach(Step(s))] < size[Reach(s)]
        BY Zenon, <1>3, <1>4, <3>1
      <3>4. size[Reach(Step(s))] \in 0 .. N /\ size[Reach(s)] \in 0 .. N
        BY Zenon, <1>3, <1>4
      <3>5. size[Reach(Step(s))] <= N - n
        BY <1>2, <2>2, <2>4, <3>3, <3>4
      <3> QED
        BY Zenon, <2>1, <3>1, <3>2, <3>5 DEF V
    <2> QED
      BY Zenon, <2>3, <2>4
  <1>7. \A n \in 1 .. N : \A s \in V[n - 1] : H[n][s] = Step(s) /\ H[n][s] \in V[n]
    <2> HIDE DEF V, Step, N
    <2> QED
      BY Zenon, <1>6
  <1>8. PICK f : IsIteration(f, N, base, H) /\ AllIn(f, N, V)
    <2> HIDE DEF V, H, N, base
    <2>1. StaysIn(N, V, base, H)
      BY Zenon, <1>2, <1>5, <1>7 DEF StaysIn
    <2> QED
      BY Zenon, <2>1, Iteration
  <1>9. f = [n \in 0 .. N |-> IF n = 0 THEN base ELSE Step(f[n - 1])]
    <2>1. ASSUME NEW n \in 1 .. N PROVE H[n][f[n - 1]] = Step(f[n - 1])
      <3>1. n - 1 \in 0 .. N
        BY <1>2
      <3> HIDE DEF V, H, N, Step
      <3>2. f[n - 1] \in V[n - 1]
        BY Zenon, <1>8, <3>1 DEF AllIn
      <3> QED
        BY Zenon, <1>7, <3>2
    <2>2. \A n \in 0 .. N : n # 0 => n \in 1 .. N
      BY <1>2
    <2> HIDE DEF V, H, N, Step, base
    <2> QED
      BY Zenon, <1>8, <2>1, <2>2 DEF IsIteration
  <1>10. turn = [n \in 0 .. N |-> IF n = 0 THEN base ELSE Step(turn[n - 1])]
    BY ZenonT(30), <1>9
  <1>11. turn[N] \in V[N]
    <2> HIDE DEF turn, Step, N, V, base
    <2>1. turn[0] = base /\ \A n \in 1 .. N : turn[n] = Step(turn[n - 1])
      BY <1>2, <1>10
    <2>2. \A n \in 1 .. N : turn[n - 1] \in V[n - 1] => turn[n] \in V[n]
      BY Zenon, <1>6, <2>1
    <2>3. AllIn(turn, N, V)
      BY Zenon, <1>2, <1>5, <2>1, <2>2, IterationIn
    <2> QED
      BY <1>2, <2>3 DEF AllIn
  <1> HIDE DEF turn
  <1>12. /\ Searching(nodes, anc, q, turn[N])
         /\ turn[N].stack = << >> \/ size[Reach(turn[N])] <= N - N
    <2> HIDE DEF U, Reach, N
    <2> QED
      BY <1>2, <1>11
  <1>13. Range(turn[N].stack) = {}
    <2> SUFFICES ASSUME NEW r \in Range(turn[N].stack) PROVE FALSE
      BY Zenon
    <2>1. turn[N].stack # << >>
      BY DEF Range
    <2>2. r \in D /\ r \in anc[r]
      BY Zenon, <1>2, <1>12 DEF Searching, IsTree, Ancestry
    <2>3. r \in Reach(turn[N])
      BY Zenon, <1>2, <2>2 DEF Reached
    <2> HIDE DEF Reach, N, D
    <2>4. size[{}] < size[Reach(turn[N])] /\ {} \in SUBSET D
      BY Zenon, <1>3, <1>4, <2>3
    <2>5. size[{}] \in Nat /\ size[Reach(turn[N])] \in Nat
      BY <1>2, <1>3, <1>4, <2>4
    <2> QED
      BY <1>2, <1>12, <2>1, <2>4, <2>5
  <1>14. \A l \in Met(nodes, q) : nodes[l].max \in Nat
    BY Zenon, NodeFacts DEF Met, LeavesOf, IsTree, Ancestry
  <1> HIDE DEF N
  <1> QED
    BY <1>1, <1>12, <1>13, <1>14 DEF Searching, Highest

(***************************************************************************)
(* Insertion                                                               *)
(***************************************************************************)

\* There is a best child.
LEMMA BestChildExists ==
  ASSUME WellFounded, NEW nodes, NEW i, nodes[i].children \in Seq(Nat),
         nodes[i].children # << >>, NEW b \in Bounds,
         \A c \in Kids(nodes[i]) : nodes[c].bounds \in Bounds
  PROVE  BestChild(nodes, i, b) \in DOMAIN nodes[i].children
  <1> DEFINE s == nodes[i].children
             cost(p) == HalfPerimeter(UnionOf(b, nodes[s[p]].bounds))
             Best(p, n) == /\ p \in 1 .. n
                           /\ \A r \in 1 .. n :
                                cost(p) < cost(r) \/ (cost(p) = cost(r) /\ p <= r)
             T == {n \in Nat : n + 1 <= Len(s) => \E p : Best(p, n + 1)}
  <1>1. Len(s) \in Nat /\ Len(s) # 0 /\ DOMAIN s = 1 .. Len(s)
    OBVIOUS
  <1>2. \A p \in DOMAIN s : cost(p) \in Int
    <2> TAKE p \in DOMAIN s
    <2>1. nodes[s[p]].bounds \in Bounds
      BY Zenon DEF Kids, Range
    <2>2. UnionOf(b, nodes[s[p]].bounds) \in Bounds
      BY Zenon, <2>1, UnionFacts
    <2>3. \A a \in Bounds : HalfPerimeter(a) \in Int
      BY DEF HalfPerimeter, Bounds, Axes
    <2> QED
      BY Zenon, <2>2, <2>3
  <1> HIDE DEF cost, s
  <1>3. 0 \in T
    <2>1. 1 <= Len(s) => Best(1, 1)
      BY <1>1, <1>2
    <2>2. 0 + 1 = 1
      OBVIOUS
    <2> HIDE DEF Best
    <2> QED
      BY Zenon, <2>1, <2>2
  <1>4. ASSUME NEW n \in T PROVE n + 1 \in T
    <2> SUFFICES ASSUME n + 2 <= Len(s) PROVE \E p : Best(p, n + 2)
      OBVIOUS
    <2>1. PICK p : Best(p, n + 1)
      <3> HIDE DEF Best
      <3> QED
        BY <1>1, <1>4
    <2>2. cost(n + 2) \in Int /\ \A r \in 1 .. n + 1 : cost(r) \in Int
      <3>1. n + 2 \in DOMAIN s /\ \A r \in 1 .. n + 1 : r \in DOMAIN s
        BY <1>1
      <3> QED
        BY Zenon, <1>2, <3>1
    <2>3. CASE cost(n + 2) < cost(p)
      <3>1. Best(n + 2, n + 2)
        <4>1. \A r \in 1 .. n + 2 : r = n + 2 \/ r \in 1 .. n + 1
          BY <1>4
        <4>2. \A r \in 1 .. n + 1 : cost(n + 2) < cost(r)
          <5>1. \A a, c, d \in Int : a < c /\ (c < d \/ c = d) => a < d
            OBVIOUS
          <5> QED
            BY Zenon, <2>1, <2>2, <2>3, <5>1
        <4>3. n + 2 \in 1 .. n + 2 /\ n + 2 <= n + 2
          BY <1>4
        <4> QED
          BY Zenon, <4>1, <4>2, <4>3
      <3> QED
        BY Zenon, <3>1
    <2>4. CASE ~(cost(n + 2) < cost(p))
      <3>1. Best(p, n + 2)
        BY <2>1, <2>2, <2>4
      <3> QED
        BY Zenon, <3>1
    <2> QED
      BY Zenon, <2>3, <2>4
  <1>5. T = Nat
    <2>1. T \in SUBSET Nat
      BY Zenon
    <2> HIDE DEF T
    <2> QED
      BY Zenon, <1>3, <1>4, <2>1, Induction
  <1>6. \E p : Best(p, Len(s))
    <2>1. Len(s) - 1 \in Nat /\ (Len(s) - 1) + 1 = Len(s)
      BY <1>1
    <2>2. Len(s) - 1 \in T
      BY Zenon, <1>5, <2>1
    <2> HIDE DEF Best
    <2> QED
      BY <1>1, <2>1, <2>2
  <1>7. \E p \in DOMAIN s :
          \A r \in DOMAIN s : cost(p) < cost(r) \/ (cost(p) = cost(r) /\ p <= r)
    BY Zenon, <1>1, <1>6
  <1> QED
    BY Zenon, <1>7 DEF BestChild, s, cost

\* A way from the root down to an internal node, the last of the path.
IsPath(nodes, root, anc, path) ==
  /\ path \in Seq(Nat) /\ path # << >> /\ IsInjective(path)
  /\ Top(path) \in DOMAIN nodes /\ ~IsLeaf(nodes[Top(path)])
  /\ Range(path) = anc[Top(path)]
  /\ \A k \in 1 .. Len(path) - 1 : path[k + 1] \in Kids(nodes[path[k]])

\* Descending to a child that is not a leaf keeps the path a path of the tree.
LEMMA DescendStep ==
  ASSUME WellFounded, NEW nodes, NEW root, NEW anc, IsTree(nodes, root, anc), NEW b \in Bounds,
         NEW more, \A v \in DOMAIN nodes : more[v] = nodes[v],
         NEW path, IsPath(nodes, root, anc, path)
  PROVE  IsPath(nodes, root, anc, Descend(more, b, path))
  <1> DEFINE v == Top(path)
             p == BestChild(more, v, b)
             child == more[v].children[p]
  <1>1. /\ path \in Seq(Nat) /\ path # << >> /\ IsInjective(path) /\ v \in DOMAIN nodes
        /\ ~IsLeaf(nodes[v]) /\ Range(path) = anc[v] /\ more[v] = nodes[v]
        /\ \A k \in 1 .. Len(path) - 1 : path[k + 1] \in Kids(nodes[path[k]])
    BY Zenon DEF IsPath
  <1>2. /\ nodes \in Seq(NodeSet) /\ nodes[v].children \in Seq(Nat)
        /\ \A c \in Kids(nodes[v]) : /\ c \in DOMAIN nodes /\ c \notin anc[v]
                                     /\ anc[c] = anc[v] \cup {c} /\ c \in Nat
    <2> HIDE DEF v
    <2>1. nodes \in Seq(NodeSet)
      BY Zenon DEF IsTree, Ancestry
    <2>2. nodes[v].children \in Seq(Nat)
      BY Zenon, <1>1, <2>1, NodeFacts
    <2>3. \A c \in Kids(nodes[v]) : /\ c \in DOMAIN nodes /\ c \notin anc[v]
                                    /\ anc[c] = anc[v] \cup {c}
      BY Zenon, <1>1 DEF IsTree, Branches
    <2>4. DOMAIN nodes \subseteq Nat
      BY <2>1
    <2> QED
      BY Zenon, <2>1, <2>2, <2>3, <2>4
  <1>3. p \in DOMAIN nodes[v].children
    <2> HIDE DEF v
    <2>1. \A c \in Kids(more[v]) : more[c].bounds \in Bounds
      BY Zenon, <1>1, <1>2, NodeFacts
    <2>2. more[v].children \in Seq(Nat) /\ more[v].children # << >>
      BY Zenon, <1>1, <1>2 DEF IsLeaf
    <2> QED
      BY Zenon, <1>1, <2>1, <2>2, BestChildExists
  <1>4. child \in Kids(nodes[v])
    BY Zenon, <1>1, <1>3 DEF Kids, Range
  <1> HIDE DEF p
  <1>5. child \in DOMAIN nodes /\ more[child] = nodes[child]
    BY Zenon, <1>2, <1>4
  <1>6. CASE IsLeaf(nodes[child])
    BY Zenon, <1>5, <1>6 DEF Descend, p
  <1>7. CASE ~IsLeaf(nodes[child])
    <2> HIDE DEF child, v
    <2> DEFINE t == Append(path, child)
               n == Len(path)
    <2>1. Descend(more, b, path) = t
      BY Zenon, <1>5, <1>7 DEF Descend, p, child, v
    <2>2. /\ t \in Seq(Nat) /\ Len(t) = n + 1 /\ Top(t) = child /\ IsInjective(t)
          /\ \A i \in DOMAIN path : t[i] = path[i] 
          /\ t[n + 1] = child /\ Range(t) = Range(path) \cup {child}
      <3>1. path \in Seq(Nat) /\ child \in Nat /\ IsInjective(path) /\ child \notin Range(path)
        BY Zenon, <1>1, <1>2, <1>4
      <3> QED
        BY <3>1, AppendFacts
    <2>3. n \in Nat /\ n # 0 /\ DOMAIN path = 1 .. n /\ path[n] = v
      BY <1>1 DEF Top, v
    <2> HIDE DEF t, n
    <2>4. t # << >>
      BY <2>2, <2>3
    <2>5. \A k \in 1 .. Len(t) - 1 : t[k + 1] \in Kids(nodes[t[k]])
      <3> TAKE k \in 1 .. Len(t) - 1
      <3>1. k \in 1 .. n
        BY <2>2, <2>3
      <3>2. CASE k = n
        BY <1>4, <2>2, <2>3, <3>2
      <3>3. CASE k # n
        <4>1. k \in 1 .. n - 1 /\ k + 1 \in 1 .. n
          BY <2>3, <3>1, <3>3
        <4> QED
          BY Zenon, <1>1, <2>2, <2>3, <3>1, <4>1 DEF n
      <3> QED
        BY Zenon, <3>2, <3>3
    <2>6. Range(t) = anc[child]
      BY Zenon, <1>1, <1>2, <1>4, <2>2
    <2> QED
      BY Zenon, <1>5, <1>7, <2>1, <2>2, <2>4, <2>5, <2>6 DEF IsPath
  <1> QED
    BY Zenon, <1>6, <1>7

\* The path of the descent goes from the root to a node whose best child is a
\* leaf, node by node.
LEMMA InsertPathFacts ==
  ASSUME WellFounded, NEW nodes, NEW root, NEW anc, IsTree(nodes, root, anc), NEW b \in Bounds,
         NEW more, \A v \in DOMAIN nodes : more[v] = nodes[v], Len(more) \in Nat,
         ~IsLeaf(nodes[root])
  PROVE  IsPath(nodes, root, anc, InsertPath(more, b, root))
  <1> DEFINE N == Len(more)
             W == {t \in Seq(Nat) : IsPath(nodes, root, anc, t)}
             V == [n \in 0 .. N |-> W]
             base == << root >>
             Step(t) == Descend(more, b, t)
             H == [n \in 1 .. N |-> [t \in V[n - 1] |-> Step(t)]]
             turn[n \in 0 .. Len(more)] ==
               IF n = 0 THEN << root >> ELSE Descend(more, b, turn[n - 1])
  <1>1. InsertPath(more, b, root) = turn[N]
    BY Zenon DEF InsertPath
  <1>2. N \in Nat /\ root \in Nat /\ root \in DOMAIN nodes /\ anc[root] = {root}
    <2>1. nodes \in Seq(NodeSet) /\ root \in DOMAIN nodes /\ anc[root] = {root}
      BY Zenon DEF IsTree, Ancestry
    <2> QED
      BY <2>1
  <1>3. base \in W
    <2>1. /\ base \in Seq(Nat) /\ base # << >> /\ IsInjective(base) /\ Top(base) = root
          /\ Range(base) = {root} /\ Len(base) = 1
      BY <1>2 DEF IsInjective, Top, Range
    <2>2. 1 .. 1 - 1 = {}
      OBVIOUS
    <2> HIDE DEF base
    <2> QED
      BY Zenon, <1>2, <2>1, <2>2 DEF IsPath
  <1>4. \A t \in W : Step(t) \in W
    <2> TAKE t \in W
    <2>1. IsPath(nodes, root, anc, Step(t))
      BY Zenon, DescendStep
    <2> HIDE DEF Step
    <2> QED
      BY Zenon, <2>1 DEF IsPath
  <1>5. \A n \in 0 .. N : V[n] = W
    BY Zenon
  <1> HIDE DEF W, Step, base, N
  <1>6. \A n \in 1 .. N : n - 1 \in 0 .. N /\ n \in 0 .. N
    BY <1>2
  <1>7. \A n \in 1 .. N : \A t \in V[n - 1] : H[n][t] = Step(t) /\ H[n][t] \in V[n]
    BY Zenon, <1>4, <1>5, <1>6
  <1>8. PICK f : IsIteration(f, N, base, H) /\ AllIn(f, N, V)
    <2>1. base \in V[0]
      BY <1>2, <1>3, <1>5
    <2> HIDE DEF V, H
    <2>2. StaysIn(N, V, base, H)
      BY Zenon, <1>2, <1>7, <2>1 DEF StaysIn
    <2> QED
      BY Zenon, <2>2, Iteration
  <1>9. f = [n \in 0 .. N |-> IF n = 0 THEN base ELSE Step(f[n - 1])]
    <2> HIDE DEF V, H
    <2>1. ASSUME NEW n \in 1 .. N PROVE H[n][f[n - 1]] = Step(f[n - 1])
      <3>1. f[n - 1] \in V[n - 1]
        BY Zenon, <1>6, <1>8 DEF AllIn
      <3> QED
        BY Zenon, <1>7, <3>1
    <2>2. \A n \in 0 .. N : n # 0 => n \in 1 .. N
      BY <1>2
    <2> QED
      BY Zenon, <1>8, <2>1, <2>2 DEF IsIteration
  <1>10. turn = [n \in 0 .. N |-> IF n = 0 THEN base ELSE Step(turn[n - 1])]
    BY ZenonT(30), <1>9 DEF N, base, Step
  <1>11. turn[N] \in W
    <2> HIDE DEF turn, V
    <2>1. turn[0] = base /\ \A n \in 1 .. N : turn[n] = Step(turn[n - 1])
      BY <1>2, <1>10
    <2>2. \A n \in 1 .. N : turn[n - 1] \in V[n - 1] => turn[n] \in V[n]
      BY <1>4, <1>5, <1>6, <2>1
    <2>3. turn[0] \in V[0] /\ N \in 0 .. N
      BY <1>2, <1>3, <1>5, <2>1
    <2>4. AllIn(turn, N, V)
      BY Zenon, <1>2, <2>2, <2>3, IterationIn
    <2> QED
      BY Zenon, <1>5, <2>3, <2>4 DEF AllIn
  <1> HIDE DEF turn
  <1> QED
    BY Zenon, <1>1, <1>11 DEF W

\* The nodes on the way to node a have become m: they cover b and order too.
Raised(nodes, anc, a, b, order, m) ==
  \A i \in DOMAIN nodes :
    /\ m[i].bounds = (IF i \in anc[a] THEN UnionOf(nodes[i].bounds, b) ELSE nodes[i].bounds)
    /\ m[i].max = (IF i \in anc[a] THEN Greatest(nodes[i].max, order) ELSE nodes[i].max)
    /\ IsInjective(m[i].children)

\* Raising the ancestors of a node by a rectangle and an order keeps every node
\* covered by its ancestors, and makes those cover the new leaf.
LEMMA RaisedCovers ==
  ASSUME NEW nodes, NEW root, NEW anc, IsTree(nodes, root, anc), NEW a \in DOMAIN nodes,
         NEW b \in Bounds, NEW order \in Nat, NEW m, Raised(nodes, anc, a, b, order, m)
  PROVE  /\ \A i \in DOMAIN nodes :
              /\ nodes[i].max <= m[i].max /\ Within(nodes[i].bounds, m[i].bounds)
              /\ m[i].max \in Nat /\ m[i].bounds \in Bounds
              /\ i \in anc[a] => order <= m[i].max /\ Within(b, m[i].bounds)
              /\ i \notin anc[a] => m[i].max = nodes[i].max /\ m[i].bounds = nodes[i].bounds
         /\ \A u \in DOMAIN nodes : \A v \in anc[u] :
              m[u].max <= m[v].max /\ Within(m[u].bounds, m[v].bounds)
  <1> DEFINE D == DOMAIN nodes
  <1>1. \A i \in D : nodes[i].max \in Nat /\ nodes[i].bounds \in Bounds
    BY Zenon, NodeFacts DEF IsTree, Ancestry
  <1>2. /\ anc \in [D -> SUBSET D]
        /\ \A u \in D : \A v \in anc[u] : anc[v] \subseteq anc[u]
        /\ \A u \in D : \A v \in anc[u] :
             nodes[u].max <= nodes[v].max /\ Within(nodes[u].bounds, nodes[v].bounds)
    BY Zenon DEF IsTree, Ancestry, Chains, Covers
  <1> HIDE DEF D
  <1>3. ASSUME NEW i \in D
        PROVE  /\ nodes[i].max <= m[i].max /\ Within(nodes[i].bounds, m[i].bounds)
               /\ m[i].max \in Nat /\ m[i].bounds \in Bounds
               /\ i \in anc[a] => order <= m[i].max /\ Within(b, m[i].bounds)
               /\ i \notin anc[a] => m[i].max = nodes[i].max /\ m[i].bounds = nodes[i].bounds
    <2>1. CASE i \in anc[a]
      <3>1. m[i].bounds = UnionOf(nodes[i].bounds, b) /\ m[i].max = Greatest(nodes[i].max, order)
        BY Zenon, <2>1 DEF Raised, D
      <3>2. m[i].bounds \in Bounds /\ Within(nodes[i].bounds, m[i].bounds) /\ Within(b, m[i].bounds)
        BY Zenon, <1>1, <3>1, UnionFacts
      <3>3. m[i].max \in Nat /\ nodes[i].max <= m[i].max /\ order <= m[i].max
        BY <1>1, <3>1 DEF Greatest
      <3> QED
        BY Zenon, <2>1, <3>2, <3>3
    <2>2. CASE i \notin anc[a]
      <3>1. m[i].bounds = nodes[i].bounds /\ m[i].max = nodes[i].max
        BY Zenon, <2>2 DEF Raised, D
      <3> QED
        BY <1>1, <2>2, <3>1, WithinFacts
    <2> QED
      BY Zenon, <2>1, <2>2
  <1>4. ASSUME NEW u \in D, NEW v \in anc[u]
        PROVE  m[u].max <= m[v].max /\ Within(m[u].bounds, m[v].bounds)
    <2>1. v \in D
      BY Zenon, <1>2
    <2>2. nodes[u].max <= nodes[v].max /\ Within(nodes[u].bounds, nodes[v].bounds)
      BY Zenon, <1>2
    <2>3. CASE u \in anc[a]
      <3>1. v \in anc[a]
        BY Zenon, <1>2, <2>3 DEF D
      <3>2. /\ m[u].bounds = UnionOf(nodes[u].bounds, b) /\ m[u].max = Greatest(nodes[u].max, order)
            /\ m[v].bounds = UnionOf(nodes[v].bounds, b) /\ m[v].max = Greatest(nodes[v].max, order)
        BY Zenon, <2>1, <2>3, <3>1 DEF Raised, D
      <3>3. m[u].max <= m[v].max
        BY <1>1, <2>1, <2>2, <3>2 DEF Greatest
      <3>4. Within(m[u].bounds, m[v].bounds)
        BY <1>1, <2>1, <2>2, <3>2, UnionGrows
      <3> QED
        BY Zenon, <3>3, <3>4
    <2>4. CASE u \notin anc[a]
      <3>1. m[u].max = nodes[u].max /\ m[u].bounds = nodes[u].bounds
        BY Zenon, <1>3, <2>4
      <3>2. nodes[v].max <= m[v].max /\ Within(nodes[v].bounds, m[v].bounds)
        BY Zenon, <1>3, <2>1
      <3>3. m[v].max \in Nat /\ m[v].bounds \in Bounds
        BY Zenon, <1>3, <2>1
      <3>4. m[u].max <= m[v].max
        BY <1>1, <2>1, <2>2, <3>1, <3>2, <3>3
      <3>5. Within(m[u].bounds, m[v].bounds)
        BY <1>1, <2>1, <2>2, <3>1, <3>2, <3>3, WithinFacts
      <3> QED
        BY Zenon, <3>4, <3>5
    <2> QED
      BY Zenon, <2>3, <2>4
  <1> QED
    BY Zenon, <1>3, <1>4 DEF D

\* The new leaf x is a child of node a.
HasLeaf(nodes, anc, a, b, order, x, m) ==
  /\ m \in Seq(NodeSet) /\ Raised(nodes, anc, a, b, order, m)
  /\ x \notin DOMAIN nodes /\ DOMAIN m = DOMAIN nodes \cup {x}
  /\ m[x] = Leaf(b, order) /\ Kids(m[a]) = Kids(nodes[a]) \cup {x}
  /\ \A i \in DOMAIN nodes \ {a} : Kids(m[i]) = Kids(nodes[i])

\* With the leaf added to a node that has room, the nodes are a tree.
LEMMA GrowLeaf ==
  ASSUME NEW nodes, NEW root, NEW anc, IsTree(nodes, root, anc), NEW a \in DOMAIN nodes,
         NEW b \in Bounds, NEW order \in Nat, NEW m, NEW x,
         HasLeaf(nodes, anc, a, b, order, x, m)
  PROVE  \E A : IsTree(m, root, A)
  <1> DEFINE D == DOMAIN nodes
             A == [u \in D \cup {x} |-> IF u = x THEN anc[a] \cup {x} ELSE anc[u]]
  <1>1. /\ anc \in [D -> SUBSET D] /\ root \in D /\ anc[root] = {root}
        /\ \A u \in D : u \in anc[u] /\ root \in anc[u]
        /\ a \in D /\ x \notin D /\ DOMAIN m = D \cup {x} /\ m \in Seq(NodeSet)
    BY Zenon DEF IsTree, Ancestry, HasLeaf
  <1>2. \A v \in D : \A c \in Kids(nodes[v]) : c \in D /\ c \notin anc[v] /\ anc[c] = anc[v] \cup {c}
    BY Zenon DEF IsTree, Branches
  <1>3. \A u \in D : \A v \in anc[u] :
          anc[v] \subseteq anc[u] /\ (v # u => \E c \in Kids(nodes[v]) : c \in anc[u])
    BY Zenon DEF IsTree, Chains
  <1>4. /\ \A i \in D : /\ m[i].max \in Nat /\ m[i].bounds \in Bounds /\ IsInjective(m[i].children)
                        /\ i \in anc[a] => order <= m[i].max /\ Within(b, m[i].bounds)
        /\ \A u \in D : \A v \in anc[u] :
              m[u].max <= m[v].max /\ Within(m[u].bounds, m[v].bounds)
    <2>1. m \in Seq(NodeSet) /\ Raised(nodes, anc, a, b, order, m) /\ D \subseteq DOMAIN m
      BY Zenon DEF HasLeaf
    <2>2. \A i \in D : IsInjective(m[i].children)
      BY Zenon, <2>1 DEF Raised
    <2> QED
      BY <2>1, <2>2, RaisedCovers
  <1>5. /\ m[x].max = order /\ m[x].bounds = b /\ Kids(m[x]) = {} /\ IsInjective(m[x].children)
    <2>1. m[x] = Leaf(b, order)
      BY Zenon DEF HasLeaf
    <2> QED
      BY <2>1 DEF Leaf, Kids, Range, IsInjective
  <1>6. /\ Kids(m[a]) = Kids(nodes[a]) \cup {x}
        /\ \A i \in D \ {a} : Kids(m[i]) = Kids(nodes[i])
    BY Zenon DEF HasLeaf
  <1> HIDE DEF D
  <1>7. A[x] = anc[a] \cup {x} /\ \A u \in D : A[u] = anc[u]
    BY Zenon, <1>1
  <1>8. A \in [D \cup {x} -> SUBSET (D \cup {x})]
    BY Zenon, <1>1
  <1> HIDE DEF A
  <1>9. Ancestry(m, root, A)
    BY Zenon, <1>1, <1>7, <1>8 DEF Ancestry
  <1>10. Branches(m, A)
    <2> SUFFICES ASSUME NEW v \in D \cup {x}
                 PROVE  /\ IsInjective(m[v].children)
                        /\ \A c \in Kids(m[v]) : /\ c \in D \cup {x}
                                                 /\ c \notin A[v] /\ A[c] = A[v] \cup {c}
      BY Zenon, <1>1 DEF Branches
    <2>1. CASE v = x
      BY Zenon, <1>5, <2>1
    <2>2. CASE v \in D /\ v # a
      BY <1>2, <1>4, <1>6, <1>7, <2>2
    <2>3. CASE v = a
      BY <1>1, <1>2, <1>4, <1>6, <1>7, <2>3
    <2> QED
      BY Zenon, <2>1, <2>2, <2>3
  <1>11. Chains(m, A)
    <2> SUFFICES ASSUME NEW u \in D \cup {x}, NEW v \in A[u]
                 PROVE  /\ A[v] \subseteq A[u]
                        /\ v # u => \E c \in Kids(m[v]) : c \in A[u]
      BY Zenon, <1>1 DEF Chains
    <2>1. CASE u \in D
      <3>1. v \in D /\ A[u] = anc[u] /\ A[v] = anc[v] /\ Kids(nodes[v]) \subseteq Kids(m[v])
        BY Zenon, <1>1, <1>6, <1>7, <2>1
      <3> QED
        BY Zenon, <1>3, <2>1, <3>1
    <2>2. CASE u = x /\ v = x
      BY Zenon, <2>2
    <2>3. CASE u = x /\ v # x
      <3>1. v \in anc[a] /\ v \in D /\ A[v] = anc[v] /\ A[u] = anc[a] \cup {x}
        BY Zenon, <1>1, <1>7, <2>3
      <3>2. A[v] \subseteq A[u]
        BY Zenon, <1>1, <1>3, <3>1
      <3>3. CASE v = a
        BY Zenon, <1>6, <3>1, <3>3
      <3>4. CASE v # a
        BY Zenon, <1>1, <1>3, <1>6, <3>1, <3>4
      <3> QED
        BY Zenon, <3>2, <3>3, <3>4
    <2> QED
      BY Zenon, <2>1, <2>2, <2>3
  <1>12. Covers(m, A)
    <2> SUFFICES ASSUME NEW u \in D \cup {x}, NEW v \in A[u]
                 PROVE  m[u].max <= m[v].max /\ Within(m[u].bounds, m[v].bounds)
      BY Zenon, <1>1 DEF Covers
    <2>1. CASE u \in D
      BY Zenon, <1>4, <1>7, <2>1
    <2>2. CASE u = x /\ v = x
      BY <1>5, <2>2, WithinFacts
    <2>3. CASE u = x /\ v # x
      <3>1. v \in anc[a] /\ v \in D
        BY Zenon, <1>1, <1>7, <2>3
      <3> QED
        BY Zenon, <1>4, <1>5, <2>3, <3>1
    <2> QED
      BY Zenon, <2>1, <2>2, <2>3
  <1> QED
    BY Zenon, <1>9, <1>10, <1>11, <1>12 DEF IsTree

\* The new leaf x is in a pair y with a child of node a.
HasPair(nodes, anc, a, b, order, x, y, old, m) ==
  /\ m \in Seq(NodeSet) /\ Raised(nodes, anc, a, b, order, m)
  /\ x \notin DOMAIN nodes /\ y \notin DOMAIN nodes /\ x # y
  /\ DOMAIN m = DOMAIN nodes \cup {x, y} /\ m[x] = Leaf(b, order)
  /\ old \in Kids(nodes[a])
  /\ m[y].bounds = UnionOf(nodes[old].bounds, b)
  /\ m[y].max = Greatest(nodes[old].max, order)
  /\ IsInjective(m[y].children) /\ Kids(m[y]) = {old, x}
  /\ Kids(m[a]) = (Kids(nodes[a]) \ {old}) \cup {y}
  /\ \A i \in DOMAIN nodes \ {a} : Kids(m[i]) = Kids(nodes[i])

\* With a pair in the place of a child, the nodes are a tree.
LEMMA GrowPair ==
  ASSUME NEW nodes, NEW root, NEW anc, IsTree(nodes, root, anc), NEW a \in DOMAIN nodes,
         NEW b \in Bounds, NEW order \in Nat, NEW m, NEW x, NEW y, NEW old,
         HasPair(nodes, anc, a, b, order, x, y, old, m)
  PROVE  \E A : IsTree(m, root, A)
  <1> DEFINE D == DOMAIN nodes
             A == [u \in D \cup {x, y} |->
                     IF u = x THEN anc[a] \cup {x, y} ELSE IF u = y THEN anc[a] \cup {y}
                     ELSE IF old \in anc[u] THEN anc[u] \cup {y} ELSE anc[u]]
  <1>1. /\ anc \in [D -> SUBSET D] /\ root \in D /\ anc[root] = {root}
        /\ \A u \in D : u \in anc[u] /\ root \in anc[u]
        /\ a \in D /\ x \notin D /\ y \notin D /\ x # y /\ DOMAIN m = D \cup {x, y}
    BY Zenon DEF IsTree, Ancestry, HasPair
  <1>2. \A v \in D : \A c \in Kids(nodes[v]) : c \in D /\ c \notin anc[v] /\ anc[c] = anc[v] \cup {c}
    BY Zenon DEF IsTree, Branches
  <1>3. \A u \in D : \A v \in anc[u] :
          anc[v] \subseteq anc[u] /\ (v # u => \E c \in Kids(nodes[v]) : c \in anc[u])
    BY Zenon DEF IsTree, Chains
  <1>4. /\ \A i \in D : /\ nodes[i].max <= m[i].max /\ Within(nodes[i].bounds, m[i].bounds)
                        /\ m[i].max \in Nat /\ m[i].bounds \in Bounds /\ IsInjective(m[i].children)
                        /\ i \in anc[a] => order <= m[i].max /\ Within(b, m[i].bounds)
                        /\ i \notin anc[a] => m[i].max = nodes[i].max /\ m[i].bounds = nodes[i].bounds
        /\ \A u \in D : \A v \in anc[u] :
              m[u].max <= m[v].max /\ Within(m[u].bounds, m[v].bounds)
    <2>1. m \in Seq(NodeSet) /\ Raised(nodes, anc, a, b, order, m) /\ D \subseteq DOMAIN m
      BY Zenon DEF HasPair
    <2>2. \A i \in D : IsInjective(m[i].children)
      BY Zenon, <2>1 DEF Raised
    <2> QED
      BY <2>1, <2>2, RaisedCovers
  <1>5. /\ m[x].max = order /\ m[x].bounds = b /\ Kids(m[x]) = {} /\ IsInjective(m[x].children)
    <2>1. m[x] = Leaf(b, order)
      BY Zenon DEF HasPair
    <2> QED
      BY <2>1 DEF Leaf, Kids, Range, IsInjective
  <1>6. /\ \A i \in D \ {a} : Kids(m[i]) = Kids(nodes[i])
        /\ \A i \in D : nodes[i].max \in Nat /\ nodes[i].bounds \in Bounds
    <2>1. \A i \in D : nodes[i].max \in Nat /\ nodes[i].bounds \in Bounds
      BY Zenon, NodeFacts DEF IsTree, Ancestry
    <2>2. \A i \in D \ {a} : Kids(m[i]) = Kids(nodes[i])
      BY Zenon DEF HasPair
    <2> QED
      BY Zenon, <2>1, <2>2
  <1>m. m \in Seq(NodeSet)
    BY Zenon DEF HasPair
  <1>k. /\ old \in Kids(nodes[a]) /\ IsInjective(m[y].children) /\ Kids(m[y]) = {old, x}
        /\ Kids(m[a]) = (Kids(nodes[a]) \ {old}) \cup {y}
    BY Zenon DEF HasPair
  <1>y. /\ m[y].bounds = UnionOf(nodes[old].bounds, b)
        /\ m[y].max = Greatest(nodes[old].max, order)
    BY Zenon DEF HasPair
  <1> HIDE DEF D
  <1>7. /\ A[x] = anc[a] \cup {x, y} /\ A[y] = anc[a] \cup {y}
        /\ \A u \in D : /\ old \in anc[u] => A[u] = anc[u] \cup {y}
                        /\ old \notin anc[u] => A[u] = anc[u]
    BY Zenon, <1>1
  <1>8. A \in [D \cup {x, y} -> SUBSET (D \cup {x, y})]
    BY Zenon, <1>1
  <1> HIDE DEF A
  <1>9. old \in D /\ old \notin anc[a] /\ anc[old] = anc[a] \cup {old}
    BY Zenon, <1>1, <1>2, <1>k
  <1>10. \A u \in anc[a] : u \in D /\ old \notin anc[u]
    BY Zenon, <1>1, <1>3, <1>9
  <1>11. Ancestry(m, root, A)
    <2>1. old # root /\ old \notin anc[root]
      BY Zenon, <1>1, <1>9
    <2>2. \A u \in D \cup {x, y} : u \in A[u] /\ root \in A[u]
      BY <1>1, <1>7
    <2> QED
      BY Zenon, <1>1, <1>7, <1>8, <1>m, <2>1, <2>2 DEF Ancestry
  <1>12. Branches(m, A)
    <2> SUFFICES ASSUME NEW v \in D \cup {x, y}
                 PROVE  /\ IsInjective(m[v].children)
                        /\ \A c \in Kids(m[v]) : /\ c \in D \cup {x, y}
                                                 /\ c \notin A[v] /\ A[c] = A[v] \cup {c}
      BY Zenon, <1>1 DEF Branches
    <2>1. CASE v = x
      BY Zenon, <1>5, <2>1
    <2>2. CASE v = y
      <3>1. A[old] = anc[a] \cup {old, y} /\ A[y] = anc[a] \cup {y}
        BY Zenon, <1>1, <1>7, <1>9
      <3>2. old \notin A[y] /\ x \notin A[y] /\ A[old] = A[y] \cup {old} /\ A[x] = A[y] \cup {x}
        BY Zenon, <1>1, <1>7, <1>9, <3>1
      <3> QED
        BY <1>1, <1>9, <1>k, <2>2, <3>2
    <2>3. CASE v \in D /\ v # a
      <3>1. \A c \in Kids(nodes[v]) : c # old
        <4> SUFFICES ASSUME old \in Kids(nodes[v]) PROVE FALSE
          BY Zenon
        <4>1. anc[v] \cup {old} = anc[a] \cup {old} /\ old \notin anc[v]
          BY Zenon, <1>2, <1>9, <2>3
        <4>2. anc[v] = anc[a]
          <5>1. old \notin anc[v] /\ old \notin anc[a]
            BY Zenon, <1>9, <4>1
          <5>2. \A w \in anc[v] : w \in anc[a] \cup {old} /\ w # old
            BY Zenon, <4>1, <5>1
          <5>3. \A w \in anc[a] : w \in anc[v] \cup {old} /\ w # old
            BY Zenon, <4>1, <5>1
          <5> QED
            BY Zenon, <5>2, <5>3
        <4>3. v \in anc[a] /\ a \in anc[v]
          BY Zenon, <1>1, <2>3, <4>2
        <4>4. PICK c \in Kids(nodes[v]) : c \in anc[a]
          BY Zenon, <1>1, <1>3, <2>3, <4>3
        <4> QED
          BY Zenon, <1>2, <2>3, <4>2, <4>4
      <3>2. Kids(m[v]) = Kids(nodes[v])
        BY Zenon, <1>6, <2>3
      <3>3. ASSUME NEW c \in Kids(nodes[v]) PROVE c \in D /\ c \notin A[v] /\ A[c] = A[v] \cup {c}
        <4>1. c \in D /\ c \notin anc[v] /\ anc[c] = anc[v] \cup {c} /\ c # old
          BY Zenon, <1>2, <2>3, <3>1
        <4>2. old \in anc[c] <=> old \in anc[v]
          BY Zenon, <4>1
        <4>3. CASE old \in anc[v]
          BY <1>1, <1>7, <2>3, <4>1, <4>2, <4>3
        <4>4. CASE old \notin anc[v]
          BY ZenonT(60), <1>1, <1>7, <2>3, <4>1, <4>2, <4>4
        <4> QED
          BY Zenon, <4>3, <4>4
      <3> QED
        BY Zenon, <1>4, <2>3, <3>2, <3>3
    <2>4. CASE v = a
      <3>1. A[a] = anc[a]
        BY Zenon, <1>1, <1>7, <1>10
      <3>2. ASSUME NEW c \in Kids(nodes[a]) \ {old} PROVE A[c] = anc[a] \cup {c} /\ c \in D
        <4>1. c \in D /\ anc[c] = anc[a] \cup {c} /\ old \notin anc[c]
          BY <1>1, <1>2, <1>9
        <4> QED
          BY Zenon, <1>7, <4>1
      <3> QED
        BY <1>1, <1>2, <1>4, <1>7, <1>k, <2>4, <3>1, <3>2
    <2> QED
      BY Zenon, <2>1, <2>2, <2>3, <2>4
  <1>13. Chains(m, A)
    <2> SUFFICES ASSUME NEW u \in D \cup {x, y}, NEW v \in A[u]
                 PROVE  /\ A[v] \subseteq A[u]
                        /\ v # u => \E c \in Kids(m[v]) : c \in A[u]
      BY Zenon, <1>1 DEF Chains
    <2>1. ASSUME NEW w \in anc[a]
          PROVE  /\ w \in D /\ A[w] = anc[w] /\ anc[w] \subseteq anc[a]
                 /\ w # a => \E c \in Kids(m[w]) : c \in anc[a]
                 /\ w = a => y \in Kids(m[w])
      BY Zenon, <1>1, <1>3, <1>6, <1>7, <1>10, <1>k
    <2>2. CASE u \in D /\ v \in D
      <3>1. v \in anc[u] /\ anc[v] \subseteq anc[u] /\ anc[u] \subseteq A[u]
        <4>1. v \in anc[u] /\ anc[u] \subseteq A[u]
          BY <1>1, <1>7, <2>2
        <4> QED
          BY Zenon, <1>3, <2>2, <4>1
      <3>2. A[v] \subseteq A[u]
        BY Zenon, <1>7, <2>2, <3>1
      <3>3. ASSUME v # u PROVE \E c \in Kids(m[v]) : c \in A[u]
        <4>1. PICK c \in Kids(nodes[v]) : c \in anc[u]
          BY Zenon, <1>3, <2>2, <3>1, <3>3
        <4>2. CASE c \in Kids(m[v])
          BY Zenon, <3>1, <4>1, <4>2
        <4>3. CASE c \notin Kids(m[v])
          <5>1. v = a /\ c = old
            BY Zenon, <1>6, <1>k, <2>2, <4>1, <4>3
          <5> QED
            BY Zenon, <1>7, <1>k, <2>2, <4>1, <5>1
        <4> QED
          BY Zenon, <4>2, <4>3
      <3> QED
        BY Zenon, <3>2, <3>3
    <2>3. CASE u \in D /\ v = y
      <3>1. old \in anc[u] /\ A[u] = anc[u] \cup {y}
        BY Zenon, <1>1, <1>7, <2>3
      <3>2. anc[old] \subseteq anc[u]
        BY Zenon, <1>3, <2>3, <3>1
      <3> QED
        BY Zenon, <1>7, <1>9, <1>k, <2>3, <3>1, <3>2
    <2>4. CASE u = x
      <3>1. CASE v = x \/ v = y
        BY Zenon, <1>7, <1>k, <2>4, <3>1
      <3>2. CASE v \in anc[a]
        BY Zenon, <1>7, <1>k, <2>1, <2>4, <3>2
      <3> QED
        BY Zenon, <1>7, <2>4, <3>1, <3>2
    <2>5. CASE u = y
      <3>1. CASE v = y
        BY Zenon, <2>5, <3>1
      <3>2. CASE v \in anc[a]
        BY Zenon, <1>7, <1>k, <2>1, <2>5, <3>2
      <3> QED
        BY Zenon, <1>7, <2>5, <3>1, <3>2
    <2>6. v \in D \/ v = y \/ v = x
      BY <1>8
    <2>7. u \in D => v # x
      BY <1>1, <1>7
    <2> QED
      BY Zenon, <2>2, <2>3, <2>4, <2>5, <2>6, <2>7
  <1>14. /\ m[y].max \in Nat /\ m[y].bounds \in Bounds
         /\ order <= m[y].max /\ Within(b, m[y].bounds)
         /\ nodes[old].max <= m[y].max /\ Within(nodes[old].bounds, m[y].bounds)
    <2>1. m[y].max \in Nat /\ order <= m[y].max /\ nodes[old].max <= m[y].max
      BY <1>6, <1>9, <1>y DEF Greatest
    <2> QED
      BY <1>6, <1>9, <1>y, <2>1, UnionFacts
  <1>15. ASSUME NEW v \in anc[a] PROVE m[y].max <= m[v].max /\ Within(m[y].bounds, m[v].bounds)
    <2>1. v \in D /\ v \in anc[old]
      BY Zenon, <1>9, <1>10
    <2>2. /\ m[old].max = nodes[old].max /\ m[old].bounds = nodes[old].bounds
          /\ m[old].max <= m[v].max /\ Within(m[old].bounds, m[v].bounds)
          /\ order <= m[v].max /\ Within(b, m[v].bounds)
          /\ m[v].max \in Nat /\ m[v].bounds \in Bounds
      BY Zenon, <1>4, <1>9, <2>1
    <2>3. m[y].max <= m[v].max
      BY Zenon, <1>6, <1>9, <1>y, <2>2 DEF Greatest
    <2> QED
      BY <1>6, <1>9, <1>y, <2>2, <2>3, UnionGrows
  <1>16. Covers(m, A)
    <2> SUFFICES ASSUME NEW u \in D \cup {x, y}, NEW v \in A[u]
                 PROVE  m[u].max <= m[v].max /\ Within(m[u].bounds, m[v].bounds)
      BY Zenon, <1>1 DEF Covers
    <2>1. CASE u = v
      <3>1. m[u].max \in Nat /\ m[u].bounds \in Bounds
        BY Zenon, <1>4, <1>5, <1>14
      <3> QED
        BY <2>1, <3>1, WithinFacts
    <2>2. CASE u \in D /\ v \in anc[u]
      BY Zenon, <1>4, <2>2
    <2>3. CASE u \in D /\ v = y
      <3>1. old \in anc[u]
        BY Zenon, <1>1, <1>7, <2>3
      <3>2. u \notin anc[a]
        BY Zenon, <1>10, <3>1
      <3>3. m[u].max = nodes[u].max /\ m[u].bounds = nodes[u].bounds
        BY Zenon, <1>4, <2>3, <3>2
      <3>4. nodes[u].max <= nodes[old].max /\ Within(nodes[u].bounds, nodes[old].bounds)
        BY Zenon, <2>3, <3>1 DEF IsTree, Covers, D
      <3>5. m[u].max <= m[v].max
        BY <1>6, <1>9, <1>14, <2>3, <3>3, <3>4
      <3> QED
        BY <1>6, <1>9, <1>14, <2>3, <3>3, <3>4, <3>5, WithinFacts
    <2>4. CASE u = x /\ v = y
      BY Zenon, <1>5, <1>14, <2>4
    <2>5. CASE u = x /\ v \in anc[a]
      BY Zenon, <1>4, <1>5, <1>10, <2>5
    <2>6. CASE u = y /\ v \in anc[a]
      BY Zenon, <1>15, <2>6
    <2>7. \/ u = v \/ (u \in D /\ v \in anc[u]) \/ (u \in D /\ v = y) \/ (u = x /\ v = y)
          \/ (u = x /\ v \in anc[a]) \/ (u = y /\ v \in anc[a])
      BY <1>7
    <2> QED
      BY Zenon, <2>1, <2>2, <2>3, <2>4, <2>5, <2>6, <2>7
  <1> QED
    BY Zenon, <1>11, <1>12, <1>13, <1>16 DEF IsTree

\* The root was a leaf: the new root y is a pair of it and the new leaf x.
HasRoot(nodes, root, b, order, x, y, m) ==
  /\ m \in Seq(NodeSet) /\ m[root] = nodes[root]
  /\ x \notin DOMAIN nodes /\ y \notin DOMAIN nodes /\ x # y
  /\ DOMAIN m = DOMAIN nodes \cup {x, y} /\ m[x] = Leaf(b, order)
  /\ m[y].bounds = UnionOf(nodes[root].bounds, b)
  /\ m[y].max = Greatest(nodes[root].max, order)
  /\ IsInjective(m[y].children) /\ Kids(m[y]) = {root, x}

\* With a pair as the new root, the nodes are a tree.
LEMMA GrowRoot ==
  ASSUME NEW nodes, NEW root, NEW anc, IsTree(nodes, root, anc), IsLeaf(nodes[root]),
         NEW b \in Bounds, NEW order \in Nat, NEW m, NEW x, NEW y,
         HasRoot(nodes, root, b, order, x, y, m)
  PROVE  DOMAIN nodes = {root} /\ \E A : IsTree(m, y, A)
  <1> DEFINE A == [u \in {root, x, y} |-> {u, y}]
  <1>1. /\ root \in DOMAIN nodes /\ \A u \in DOMAIN nodes : root \in anc[u]
        /\ nodes \in Seq(NodeSet) /\ m \in Seq(NodeSet) /\ m[root] = nodes[root]
    BY Zenon DEF IsTree, Ancestry, HasRoot
  <1>2. Kids(nodes[root]) = {}
    BY DEF IsLeaf, Kids, Range
  <1>3. DOMAIN nodes = {root}
    <2> SUFFICES ASSUME NEW u \in DOMAIN nodes, u # root PROVE FALSE
      BY Zenon, <1>1
    <2> QED
      BY Zenon, <1>1, <1>2 DEF IsTree, Chains
  <1>4. DOMAIN m = {root, x, y} /\ x # root /\ y # root /\ x # y
    BY Zenon, <1>1, <1>3 DEF HasRoot
  <1>5. A[root] = {root, y} /\ A[x] = {x, y} /\ A[y] = {y}
    BY Zenon, <1>4
  <1>6. A \in [{root, x, y} -> SUBSET {root, x, y}]
    BY Zenon
  <1> HIDE DEF A
  <1>7. /\ m[x].max = order /\ m[x].bounds = b /\ Kids(m[x]) = {} /\ IsInjective(m[x].children)
        /\ Kids(m[root]) = {} /\ IsInjective(m[root].children)
    <2>1. m[x] = Leaf(b, order)
      BY Zenon DEF HasRoot
    <2> QED
      BY <1>1, <1>2, <2>1 DEF Leaf, Kids, Range, IsInjective, IsLeaf
  <1>y. /\ m[y].bounds = UnionOf(nodes[root].bounds, b)
        /\ m[y].max = Greatest(nodes[root].max, order)
        /\ IsInjective(m[y].children) /\ Kids(m[y]) = {root, x}
    BY Zenon DEF HasRoot
  <1>8. Ancestry(m, y, A)
    BY Zenon, <1>1, <1>4, <1>5, <1>6 DEF Ancestry
  <1>9. Branches(m, A)
    <2> SUFFICES ASSUME NEW v \in {root, x, y}
                 PROVE  /\ IsInjective(m[v].children)
                        /\ \A c \in Kids(m[v]) : /\ c \in {root, x, y}
                                                 /\ c \notin A[v] /\ A[c] = A[v] \cup {c}
      BY Zenon, <1>4 DEF Branches
    <2>1. CASE v = root \/ v = x
      BY Zenon, <1>7, <2>1
    <2>2. CASE v = y
      BY Zenon, <1>4, <1>5, <1>y, <2>2
    <2> QED
      BY Zenon, <2>1, <2>2
  <1>10. Chains(m, A)
    BY Zenon, <1>4, <1>5, <1>y DEF Chains
  <1>11. Covers(m, A)
    <2>1. nodes[root].max \in Nat /\ nodes[root].bounds \in Bounds
      BY Zenon, <1>1, NodeFacts
    <2>2. /\ m[y].max \in Nat /\ m[root].max <= m[y].max /\ m[x].max <= m[y].max
          /\ m[root].max \in Nat /\ m[x].max \in Nat
      BY <1>1, <1>7, <1>y, <2>1 DEF Greatest
    <2>3. /\ m[y].bounds \in Bounds /\ Within(m[root].bounds, m[y].bounds)
          /\ Within(m[x].bounds, m[y].bounds)
      BY ZenonT(60), <1>1, <1>7, <1>y, <2>1, UnionFacts
    <2>4. Within(m[y].bounds, m[y].bounds) /\ Within(m[x].bounds, m[x].bounds)
          /\ Within(m[root].bounds, m[root].bounds)
      BY <1>1, <1>7, <2>1, <2>3, WithinFacts
    <2> SUFFICES ASSUME NEW u \in {root, x, y}, NEW v \in A[u]
                 PROVE  m[u].max <= m[v].max /\ Within(m[u].bounds, m[v].bounds)
      BY Zenon, <1>4 DEF Covers
    <2>5. v = u \/ v = y
      BY <1>5
    <2> QED
      BY <2>2, <2>3, <2>4, <2>5
  <1> QED
    BY Zenon, <1>3, <1>8, <1>9, <1>10, <1>11 DEF IsTree

\* The propagation raises the nodes of the path, and no other.
LEMMA PropagateFacts ==
  ASSUME NEW nodes \in Seq(NodeSet), NEW path \in Seq(Nat), IsInjective(path),
         Range(path) \subseteq DOMAIN nodes,
         \A k \in 1 .. Len(path) - 1 : path[k + 1] \in Kids(nodes[path[k]]),
         \A i \in Range(path) : IsInjective(nodes[i].children),
         NEW b \in Bounds, NEW order \in Nat
  PROVE  LET m == Propagate(nodes, path, b, order)
         IN  /\ m \in Seq(NodeSet) /\ Len(m) = Len(nodes) /\ DOMAIN m = DOMAIN nodes
             /\ \A i \in DOMAIN nodes \ Range(path) : m[i] = nodes[i]
             /\ \A i \in Range(path) :
                  /\ m[i].bounds = UnionOf(nodes[i].bounds, b)
                  /\ m[i].max = Greatest(nodes[i].max, order)
                  /\ IsInjective(m[i].children) /\ Kids(m[i]) = Kids(nodes[i])
  <1> DEFINE raised(k) ==
               LET node == nodes[path[k]]
                   pos == CHOOSE p \in DOMAIN node.children : node.children[p] = path[k + 1]
               IN  [bounds |-> UnionOf(node.bounds, b), max |-> Greatest(node.max, order),
                    children |-> IF node.max < order /\ k < Len(path)
                                 THEN Swapped(node.children, pos, Len(node.children))
                                 ELSE node.children]
             at(i) == CHOOSE k \in DOMAIN path : path[k] = i
             m == Propagate(nodes, path, b, order)
  <1>1. m = [i \in DOMAIN nodes |-> IF i \in Range(path) THEN raised(at(i)) ELSE nodes[i]]
    BY Zenon DEF Propagate
  <1>2. ASSUME NEW k \in DOMAIN path
        PROVE  LET i == path[k]
               IN  /\ raised(k) \in NodeSet
                   /\ raised(k).bounds = UnionOf(nodes[i].bounds, b)
                   /\ raised(k).max = Greatest(nodes[i].max, order)
                   /\ IsInjective(raised(k).children) /\ Kids(raised(k)) = Kids(nodes[i])
    <2> DEFINE i == path[k]
               s == nodes[i].children
               pos == CHOOSE p \in DOMAIN s : s[p] = path[k + 1]
               new == IF nodes[i].max < order /\ k < Len(path) THEN Swapped(s, pos, Len(s)) ELSE s
    <2>1. i \in DOMAIN nodes /\ IsInjective(s)
      BY Zenon DEF Range
    <2>2. nodes[i].bounds \in Bounds /\ nodes[i].max \in Nat /\ s \in Seq(Nat)
      <3> HIDE DEF i
      <3> QED
        BY Zenon, <2>1, NodeFacts
    <2>3. raised(k) = [bounds |-> UnionOf(nodes[i].bounds, b),
                       max |-> Greatest(nodes[i].max, order), children |-> new]
      BY Zenon
    <2>4. new \in Seq(Nat) /\ IsInjective(new) /\ Range(new) = Range(s)
      <3>1. CASE k < Len(path)
        <4>1. k \in 1 .. Len(path) - 1
          BY <3>1
        <4>2. path[k + 1] \in Range(s)
          BY Zenon, <4>1 DEF Kids
        <4> HIDE DEF s
        <4>3. \E p \in DOMAIN s : s[p] = path[k + 1]
          BY Zenon, <4>2 DEF Range
        <4>4. pos \in DOMAIN s
          BY Zenon, <4>3
        <4> HIDE DEF pos
        <4>5. Len(s) \in DOMAIN s
          BY <2>2, <4>4
        <4> QED
          BY Zenon, <2>1, <2>2, <4>4, <4>5, SwappedFacts
      <3>2. CASE ~(k < Len(path))
        BY Zenon, <2>1, <2>2, <3>2
      <3> QED
        BY Zenon, <3>1, <3>2
    <2> HIDE DEF new, s
    <2>5. UnionOf(nodes[i].bounds, b) \in Bounds /\ Greatest(nodes[i].max, order) \in Nat
      BY Zenon, <2>2, UnionFacts DEF Greatest
    <2> HIDE DEF raised, i, pos
    <2>6. /\ raised(k).bounds = UnionOf(nodes[i].bounds, b)
          /\ raised(k).max = Greatest(nodes[i].max, order) /\ raised(k).children = new
          /\ raised(k) \in NodeSet
      BY <2>3, <2>4, <2>5 DEF NodeSet
    <2>7. IsInjective(raised(k).children) /\ Kids(raised(k)) = Kids(nodes[i])
      BY Zenon, <2>4, <2>6 DEF Kids, s
    <2> QED
      BY Zenon, <2>6, <2>7 DEF i
  <1> HIDE DEF raised, m
  <1>3. ASSUME NEW i \in Range(path) PROVE at(i) \in DOMAIN path /\ path[at(i)] = i
    <2>1. \E k \in DOMAIN path : path[k] = i
      BY Zenon DEF Range
    <2> QED
      BY Zenon, <2>1
  <1> HIDE DEF at
  <1>4. \A i \in Range(path) : m[i] = raised(at(i)) /\ raised(at(i)) \in NodeSet
    BY Zenon, <1>1, <1>2, <1>3
  <1>5. m \in Seq(NodeSet) /\ Len(m) = Len(nodes) /\ DOMAIN m = DOMAIN nodes
    <2>1. Len(nodes) \in Nat /\ DOMAIN nodes = 1 .. Len(nodes)
      OBVIOUS
    <2>2. \A i \in DOMAIN nodes : m[i] \in NodeSet
      <3>1. \A i \in DOMAIN nodes : nodes[i] \in NodeSet
        OBVIOUS
      <3>2. \A i \in DOMAIN nodes : i \notin Range(path) => m[i] = nodes[i]
        BY Zenon, <1>1
      <3> QED
        BY Zenon, <1>4, <3>1, <3>2
    <2>3. m \in [1 .. Len(nodes) -> NodeSet]
      BY Zenon, <1>1, <2>1, <2>2
    <2> QED
      BY <2>1, <2>3
  <1>6. \A i \in DOMAIN nodes \ Range(path) : m[i] = nodes[i]
    BY Zenon, <1>1
  <1>7. ASSUME NEW i \in Range(path)
        PROVE  /\ m[i].bounds = UnionOf(nodes[i].bounds, b)
               /\ m[i].max = Greatest(nodes[i].max, order)
               /\ IsInjective(m[i].children) /\ Kids(m[i]) = Kids(nodes[i])
    BY ZenonT(60), <1>2, <1>3, <1>4
  <1> QED
    BY Zenon, <1>5, <1>6, <1>7 DEF m

\* A leaf is a node without children.
LEMMA LeafHasNoKids ==
  ASSUME NEW node, node.children \in Seq(Nat)
  PROVE  IsLeaf(node) <=> Kids(node) = {}
  <1> DEFINE s == node.children
  <1>1. s = << >> <=> DOMAIN s = {}
    <2>1. DOMAIN s = 1 .. Len(s) /\ Len(s) \in Nat
      OBVIOUS
    <2>2. s = << >> <=> Len(s) = 0
      OBVIOUS
    <2>3. 1 .. Len(s) = {} <=> Len(s) = 0
      <3> DEFINE n == Len(s)
      <3> HIDE DEF n
      <3>1. n \in Nat
        BY Zenon, <2>1 DEF n
      <3>2. n # 0 => 1 \in 1 .. n
        BY <3>1
      <3> QED
        BY <3>1, <3>2 DEF n
    <2> QED
      BY Zenon, <2>1, <2>2, <2>3
  <1> HIDE DEF s
  <1>2. DOMAIN s = {} <=> Range(s) = {}
    BY Zenon DEF Range
  <1> QED
    BY Zenon, <1>1, <1>2 DEF IsLeaf, Kids, s

\* A new leaf.
LEMMA LeafFacts ==
  ASSUME NEW b \in Bounds, NEW order \in Nat
  PROVE  Leaf(b, order) \in NodeSet /\ IsLeaf(Leaf(b, order))
  BY DEF Leaf, NodeSet, IsLeaf

\* A pair has the two leaves below it.
LEMMA PairFacts ==
  ASSUME NEW nodes, NEW old \in Nat, NEW new \in Nat, old # new,
         nodes[old] \in NodeSet, nodes[new] \in NodeSet
  PROVE  LET pair == Pair(nodes, old, new)
         IN  /\ pair \in NodeSet /\ ~IsLeaf(pair)
             /\ pair.bounds = UnionOf(nodes[old].bounds, nodes[new].bounds)
             /\ pair.max = Greatest(nodes[old].max, nodes[new].max)
             /\ IsInjective(pair.children) /\ Kids(pair) = {old, new}
  <1> DEFINE pair == Pair(nodes, old, new)
             s == IF nodes[new].max > nodes[old].max THEN << old, new >> ELSE << new, old >>
             u == UnionOf(nodes[old].bounds, nodes[new].bounds)
             g == Greatest(nodes[old].max, nodes[new].max)
  <1>1. pair = [bounds |-> u, max |-> g, children |-> s]
    BY Zenon DEF Pair
  <1>2. u \in Bounds /\ g \in Nat
    <2>1. /\ nodes[old].bounds \in Bounds /\ nodes[new].bounds \in Bounds
          /\ nodes[old].max \in Nat /\ nodes[new].max \in Nat
      BY Zenon DEF NodeSet
    <2> QED
      BY Zenon, <2>1, UnionFacts DEF Greatest
  <1>3. s = << old, new >> \/ s = << new, old >>
    BY Zenon
  <1> HIDE DEF s, u, g, pair
  <1>4. s \in Seq(Nat) /\ s # << >> /\ IsInjective(s) /\ Range(s) = {old, new}
    <2>1. /\ << old, new >> \in Seq(Nat) /\ << old, new >> # << >> /\ IsInjective(<< old, new >>)
          /\ Range(<< old, new >>) = {old, new}
      BY DEF IsInjective, Range
    <2>2. /\ << new, old >> \in Seq(Nat) /\ << new, old >> # << >> /\ IsInjective(<< new, old >>)
          /\ Range(<< new, old >>) = {old, new}
      BY DEF IsInjective, Range
    <2> QED
      BY Zenon, <1>3, <2>1, <2>2
  <1>5. pair \in NodeSet /\ pair.bounds = u /\ pair.max = g /\ pair.children = s
    BY Zenon, <1>1, <1>2, <1>4 DEF NodeSet
  <1> QED
    BY Zenon, <1>4, <1>5 DEF Kids, IsLeaf, pair, u, g

\* insert pushes the new leaf to the end of the vector.
LEMMA PushedFacts ==
  ASSUME NEW nodes \in Seq(NodeSet), NEW new \in NodeSet
  PROVE  LET more == Append(nodes, new)
             x == Len(nodes) + 1
         IN  /\ more \in Seq(NodeSet) /\ Len(more) = x /\ x \in Nat
             /\ DOMAIN more = DOMAIN nodes \cup {x} /\ x \notin DOMAIN nodes
             /\ x + 1 \notin DOMAIN nodes /\ x + 1 # x /\ DOMAIN nodes \subseteq Nat
             /\ more[x] = new /\ \A i \in DOMAIN nodes : more[i] = nodes[i]
  <1>1. Len(nodes) \in Nat /\ DOMAIN nodes = 1 .. Len(nodes)
    OBVIOUS
  <1> QED
    BY <1>1, AppendFacts

\* What the vector of nodes becomes when a leaf is inserted.
Grown(nodes, b, order, m) ==
  LET x == Len(nodes) + 1
  IN  /\ x \in DOMAIN m /\ DOMAIN nodes \subseteq DOMAIN m /\ m[x] = Leaf(b, order)
      /\ Len(m) > Len(nodes)
      /\ LeavesOf(m) = LeavesOf(nodes) \cup {x}
      /\ \A i \in LeavesOf(nodes) : m[i].bounds = nodes[i].bounds /\ m[i].max = nodes[i].max

\* The node a takes the leaf as a child of its own.
WithRoom(nodes, a, b, order, x, m) ==
  /\ m \in Seq(NodeSet) /\ DOMAIN m = DOMAIN nodes \cup {x}
  /\ \A i \in DOMAIN nodes \ {a} : m[i] = nodes[i]
  /\ m[x] = Leaf(b, order)
  /\ m[a].bounds = UnionOf(nodes[a].bounds, b)
  /\ m[a].max = Greatest(nodes[a].max, order)
  /\ IsInjective(m[a].children) /\ Kids(m[a]) = Kids(nodes[a]) \cup {x}

\* Attaching a leaf to a node that has room.
LEMMA AttachRoom ==
  ASSUME WellFounded, NEW nodes, NEW root, NEW anc, IsTree(nodes, root, anc), NEW b \in Bounds,
         NEW order \in Nat, NEW a \in DOMAIN nodes, ~IsLeaf(nodes[a]),
         Len(nodes[a].children) < MaxChildren
  PROVE  LET x == Len(nodes) + 1
         IN  WithRoom(nodes, a, b, order, x, Attach(Append(nodes, Leaf(b, order)), a, x))
  <1> DEFINE x == Len(nodes) + 1
             more == Append(nodes, Leaf(b, order))
             m == Attach(more, a, x)
             s == nodes[a].children
             n == Len(s)
             pushed == Append(s, x)
             c == IF order <= nodes[a].max THEN Swapped(pushed, n, n + 1) ELSE pushed
             node == [bounds |-> UnionOf(nodes[a].bounds, b),
                      max |-> Greatest(nodes[a].max, order), children |-> c]
  <1>1. nodes \in Seq(NodeSet) /\ \A k \in Kids(nodes[a]) : k \in DOMAIN nodes
    BY Zenon DEF IsTree, Ancestry, Branches
  <1>2. /\ nodes[a].bounds \in Bounds /\ nodes[a].max \in Nat /\ s \in Seq(Nat)
        /\ IsInjective(s)
    BY Zenon, <1>1, NodeFacts DEF IsTree, Branches
  <1>3. /\ more \in Seq(NodeSet) /\ DOMAIN more = DOMAIN nodes \cup {x} /\ x \notin DOMAIN nodes
        /\ x \in Nat /\ more[x] = Leaf(b, order) /\ \A i \in DOMAIN nodes : more[i] = nodes[i]
    BY Zenon, <1>1, LeafFacts, PushedFacts
  <1>4. more[x].bounds = b /\ more[x].max = order /\ more[a] = nodes[a]
    BY <1>3 DEF Leaf
  <1> HIDE DEF more, x
  <1>5. m = [more EXCEPT ![a] = node]
    BY Zenon, <1>4 DEF Attach
  <1>6. c \in Seq(Nat) /\ IsInjective(c) /\ Range(c) = Range(s) \cup {x}
    <2>1. x \notin Range(s)
      BY Zenon, <1>1, <1>3 DEF Kids
    <2> HIDE DEF s
    <2>2. /\ pushed \in Seq(Nat) /\ Len(pushed) = n + 1 /\ IsInjective(pushed)
          /\ Range(pushed) = Range(s) \cup {x}
      BY <1>2, <1>3, <2>1, AppendFacts
    <2>3. s # << >>
      BY Zenon DEF IsLeaf, s
    <2>4. n \in Nat /\ n # 0
      BY <1>2, <2>3
    <2> HIDE DEF pushed, n
    <2>5. n \in DOMAIN pushed /\ n + 1 \in DOMAIN pushed
      BY <2>2, <2>4
    <2>6. /\ Swapped(pushed, n, n + 1) \in Seq(Nat) /\ IsInjective(Swapped(pushed, n, n + 1))
          /\ Range(Swapped(pushed, n, n + 1)) = Range(pushed)
      BY ZenonT(60), <2>2, <2>5, SwappedFacts
    <2> QED
      BY Zenon, <2>2, <2>6
  <1> HIDE DEF c
  <1>7. /\ node \in NodeSet /\ node.bounds = UnionOf(nodes[a].bounds, b)
        /\ node.max = Greatest(nodes[a].max, order) /\ node.children = c
    <2>1. UnionOf(nodes[a].bounds, b) \in Bounds /\ Greatest(nodes[a].max, order) \in Nat
      BY Zenon, <1>2, UnionFacts DEF Greatest
    <2> QED
      BY Zenon, <1>6, <2>1 DEF NodeSet
  <1> HIDE DEF node, m, s
  <1>8. m \in Seq(NodeSet) /\ DOMAIN m = DOMAIN more /\ m[a] = node
        /\ \A i \in DOMAIN more \ {a} : m[i] = more[i]
    BY <1>3, <1>5, <1>7
  <1>9. a # x /\ \A i \in DOMAIN nodes \ {a} : i \in DOMAIN more \ {a}
    BY Zenon, <1>3
  <1>10. Kids(m[a]) = Kids(nodes[a]) \cup {x} /\ IsInjective(m[a].children)
    BY Zenon, <1>6, <1>7, <1>8 DEF Kids, s
  <1> QED
    <2>1. WithRoom(nodes, a, b, order, x, m)
      BY Zenon, <1>3, <1>7, <1>8, <1>9, <1>10 DEF WithRoom
    <2> QED
      BY Zenon, <2>1 DEF m, more, x

\* There is no room: a child of node a goes into a pair with the leaf.
WithoutRoom(nodes, a, b, order, x, y, m) ==
  /\ m \in Seq(NodeSet) /\ DOMAIN m = DOMAIN nodes \cup {x, y}
  /\ \A i \in DOMAIN nodes \ {a} : m[i] = nodes[i]
  /\ m[x] = Leaf(b, order)
  /\ m[a].bounds = nodes[a].bounds /\ m[a].max = nodes[a].max
  /\ IsInjective(m[a].children)
  /\ \E old \in Kids(nodes[a]) :
       /\ m[y].bounds = UnionOf(nodes[old].bounds, b)
       /\ m[y].max = Greatest(nodes[old].max, order)
       /\ IsInjective(m[y].children) /\ Kids(m[y]) = {old, x}
       /\ Kids(m[a]) = (Kids(nodes[a]) \ {old}) \cup {y}

\* Attaching a leaf to a node that is full: its best child becomes a pair.
LEMMA AttachPair ==
  ASSUME WellFounded, NEW nodes, NEW root, NEW anc, IsTree(nodes, root, anc), NEW b \in Bounds,
         NEW order \in Nat, NEW a \in DOMAIN nodes, ~IsLeaf(nodes[a]),
         ~(Len(nodes[a].children) < MaxChildren)
  PROVE  LET x == Len(nodes) + 1
             y == x + 1
         IN  WithoutRoom(nodes, a, b, order, x, y, Attach(Append(nodes, Leaf(b, order)), a, x))
  <1> DEFINE x == Len(nodes) + 1
             y == x + 1
             more == Append(nodes, Leaf(b, order))
             m == Attach(more, a, x)
             s == nodes[a].children
             n == Len(s)
             pos == BestChild(more, a, b)
             old == s[pos]
             pair == Pair(more, old, x)
             with == [s EXCEPT ![pos] = y]
             c == IF pair.max > nodes[a].max THEN Swapped(with, pos, n) ELSE with
             mid == [more EXCEPT ![a].children = c]
  <1>1. nodes \in Seq(NodeSet) /\ \A k \in Kids(nodes[a]) : k \in DOMAIN nodes
    BY Zenon DEF IsTree, Ancestry, Branches
  <1>2. nodes[a].bounds \in Bounds /\ nodes[a].max \in Nat /\ s \in Seq(Nat) /\ IsInjective(s)
    BY Zenon, <1>1, NodeFacts DEF IsTree, Branches
  <1>3. /\ more \in Seq(NodeSet) /\ Len(more) = x /\ DOMAIN more = DOMAIN nodes \cup {x}
        /\ x \notin DOMAIN nodes /\ y \notin DOMAIN nodes /\ DOMAIN nodes \subseteq Nat
        /\ x \in Nat /\ y # x
        /\ more[x] = Leaf(b, order) /\ \A i \in DOMAIN nodes : more[i] = nodes[i]
    BY <1>1, LeafFacts, PushedFacts
  <1>4. more[x].bounds = b /\ more[x].max = order /\ more[a] = nodes[a] /\ y \in Nat
    BY <1>3 DEF Leaf
  <1>5. pos \in DOMAIN s
    <2>1. \A k \in Kids(more[a]) : more[k].bounds \in Bounds
      BY Zenon, <1>1, <1>3, <1>4, NodeFacts
    <2>2. more[a].children \in Seq(Nat) /\ more[a].children # << >>
      BY Zenon, <1>2, <1>4 DEF IsLeaf
    <2> HIDE DEF more
    <2> QED
      BY Zenon, <1>4, <2>1, <2>2, BestChildExists
  <1> HIDE DEF more, x
  <1>6. m = Append(mid, pair)
    BY Zenon, <1>3, <1>4 DEF Attach
  <1> HIDE DEF pos, y
  <1>7. old \in Kids(nodes[a]) /\ old \in DOMAIN nodes /\ more[old] = nodes[old] /\ old \in Nat /\ old # x
    <2>1. old \in Kids(nodes[a])
      BY Zenon, <1>5 DEF Kids, Range
    <2> QED
      BY Zenon, <1>1, <1>3, <2>1
  <1>8. /\ pair \in NodeSet /\ pair.bounds = UnionOf(nodes[old].bounds, b)
        /\ pair.max = Greatest(nodes[old].max, order)
        /\ IsInjective(pair.children) /\ Kids(pair) = {old, x}
    <2>1. more[old] \in NodeSet /\ more[x] \in NodeSet
      <3>1. \A q \in Seq(NodeSet) : \A i \in DOMAIN q : q[i] \in NodeSet
        OBVIOUS
      <3> QED
        BY Zenon, <1>3, <1>7, <3>1
    <2> HIDE DEF old
    <2> QED
      BY <1>3, <1>4, <1>7, <2>1, PairFacts
  <1> HIDE DEF pair, mid, m
  <1>9. c \in Seq(Nat) /\ IsInjective(c) /\ Range(c) = (Range(s) \ {old}) \cup {y}
    <2>1. y \notin Range(s)
      BY Zenon, <1>1, <1>3 DEF Kids
    <2> HIDE DEF s
    <2>2. /\ with \in Seq(Nat) /\ Len(with) = n /\ IsInjective(with)
          /\ Range(with) = (Range(s) \ {old}) \cup {y}
      <3> HIDE DEF c
      <3>1. s \in Seq(Nat) /\ IsInjective(s)
        BY Zenon, <1>2
      <3>2. y \in Nat
        BY Zenon, <1>4
      <3> QED
        <4>1. with = Replaced(s, pos, y)
          BY Zenon DEF Replaced
        <4> HIDE DEF with
        <4>2. /\ Replaced(s, pos, y) \in Seq(Nat) /\ Len(Replaced(s, pos, y)) = Len(s)
              /\ IsInjective(Replaced(s, pos, y))
              /\ Range(Replaced(s, pos, y)) = (Range(s) \ {s[pos]}) \cup {y}
          <5> HIDE DEF n, old
          <5>1. s \in Seq(Nat)
            BY Zenon, <3>1
          <5>2. IsInjective(s)
            BY Zenon, <3>1
          <5>3. pos \in DOMAIN s
            BY Zenon, <1>5
          <5> QED
            BY Zenon, <2>1, <3>2, <5>1, <5>2, <5>3, ReplacedFacts
        <4> QED
          BY Zenon, <2>1, <3>1, <4>1, <4>2
    <2>3. n \in DOMAIN s /\ DOMAIN s = 1 .. n /\ n \in Nat
      BY <1>2, <1>5
    <2> HIDE DEF with, n, old
    <2>4. n \in DOMAIN with /\ pos \in DOMAIN with
      BY <1>5, <2>2, <2>3
    <2>5. /\ Swapped(with, pos, n) \in Seq(Nat) /\ IsInjective(Swapped(with, pos, n))
          /\ Range(Swapped(with, pos, n)) = Range(with)
      <3> HIDE DEF c
      <3>1. with \in Seq(Nat) /\ IsInjective(with)
        BY Zenon, <2>2
      <3>2. pos \in DOMAIN with
        BY Zenon, <2>4
      <3>3. n \in DOMAIN with
        BY Zenon, <2>4
      <3> QED
        BY Zenon, <3>1, <3>2, <3>3, SwappedFacts
    <2> QED
      BY Zenon, <2>2, <2>5
  <1> HIDE DEF c
  <1>10. /\ mid \in Seq(NodeSet) /\ DOMAIN mid = DOMAIN nodes \cup {x} /\ Len(mid) = x
         /\ \A i \in (DOMAIN nodes \cup {x}) \ {a} : mid[i] = more[i]
         /\ mid[a].bounds = nodes[a].bounds /\ mid[a].max = nodes[a].max /\ mid[a].children = c
    <2> DEFINE node == [nodes[a] EXCEPT !.children = c]
    <2>1. nodes[a] \in NodeSet
      BY <1>1
    <2>2. /\ node \in NodeSet /\ node.bounds = nodes[a].bounds /\ node.max = nodes[a].max
          /\ node.children = c
      BY Zenon, <1>9, <2>1 DEF NodeSet
    <2>3. mid = [more EXCEPT ![a] = node]
      BY Zenon, <1>4 DEF mid
    <2> HIDE DEF node
    <2> QED
      BY <1>3, <2>2, <2>3
  <1> HIDE DEF s, old
  <1>11. /\ m \in Seq(NodeSet) /\ DOMAIN m = DOMAIN nodes \cup {x, y} /\ m[y] = pair
         /\ \A i \in DOMAIN nodes \cup {x} : m[i] = mid[i]
    BY <1>6, <1>8, <1>10, AppendFacts DEF y
  <1>12. a # x /\ m[x] = Leaf(b, order) /\ m[a] = mid[a] /\ \A i \in DOMAIN nodes \ {a} : m[i] = nodes[i]
    BY Zenon, <1>3, <1>10, <1>11
  <1>13. Kids(m[a]) = (Kids(nodes[a]) \ {old}) \cup {y} /\ IsInjective(m[a].children)
    BY Zenon, <1>9, <1>10, <1>12 DEF Kids, s
  <1> QED
    <2>1. WithoutRoom(nodes, a, b, order, x, y, m)
      BY Zenon, <1>7, <1>8, <1>10, <1>11, <1>12, <1>13 DEF WithoutRoom
    <2> QED
      BY Zenon, <2>1 DEF m, more, x, y

\* A tree stays a tree when a leaf is inserted; the leaves it has keep their
\* bounds and their order.
LEMMA InsertLeafFacts ==
  ASSUME WellFounded, NEW tree, NEW anc, IsTree(tree.nodes, tree.root, anc), tree.root # 0,
         tree = [nodes |-> tree.nodes, root |-> tree.root, maxLeaf |-> tree.maxLeaf],
         NEW b \in Bounds, NEW order \in Nat
  PROVE  LET t == InsertLeaf(tree, b, order)
         IN  /\ t = [nodes |-> t.nodes, root |-> t.root, maxLeaf |-> tree.maxLeaf] /\ t.root # 0
             /\ \E A : IsTree(t.nodes, t.root, A)
             /\ Grown(tree.nodes, b, order, t.nodes)
  <1> DEFINE nodes == tree.nodes
             root == tree.root
             D == DOMAIN nodes
             x == Len(nodes) + 1
             y == x + 1
             more == Append(nodes, Leaf(b, order))
             t == InsertLeaf(tree, b, order)
             path == InsertPath(more, b, root)
             a == Top(path)
  <1>1. /\ nodes \in Seq(NodeSet) /\ anc \in [D -> SUBSET D] /\ root \in D
        /\ \A u \in D : u \in anc[u]
        /\ \A v \in D : IsInjective(nodes[v].children) /\ \A k \in Kids(nodes[v]) : k \in D
    BY Zenon DEF IsTree, Ancestry, Branches
  <1>2. /\ more \in Seq(NodeSet) /\ Len(more) = x /\ DOMAIN more = D \cup {x}
        /\ x \notin D /\ y \notin D /\ D \subseteq Nat /\ x \in Nat /\ y # x
        /\ more[x] = Leaf(b, order) /\ \A i \in D : more[i] = nodes[i]
    BY <1>1, LeafFacts, PushedFacts
  <1>3. more[x].bounds = b /\ more[x].max = order /\ y \in Nat /\ IsLeaf(Leaf(b, order))
        /\ more[root] = nodes[root]
    BY <1>1, <1>2, LeafFacts DEF Leaf
  <1>4. \A i \in D : IsLeaf(nodes[i]) <=> Kids(nodes[i]) = {}
    <2> TAKE i \in D
    <2>1. nodes[i].children \in Seq(Nat)
      BY Zenon, <1>1, NodeFacts
    <2> QED
      BY Zenon, <2>1, LeafHasNoKids
  <1> HIDE DEF more
  <1>5. CASE IsLeaf(nodes[root])
    <2> DEFINE pair == Pair(more, root, x)
               m == Append(more, pair)
    <2>1. t = [nodes |-> m, root |-> y, maxLeaf |-> tree.maxLeaf]
      BY Zenon, <1>2, <1>3, <1>5 DEF InsertLeaf, more
    <2>2. /\ pair \in NodeSet /\ ~IsLeaf(pair) /\ pair.bounds = UnionOf(nodes[root].bounds, b)
          /\ pair.max = Greatest(nodes[root].max, order)
          /\ IsInjective(pair.children) /\ Kids(pair) = {root, x}
      <3>1. root \in Nat /\ root # x /\ more[root] \in NodeSet /\ more[x] \in NodeSet
        BY <1>1, <1>2
      <3> HIDE DEF x, root
      <3> QED
        BY <1>2, <1>3, <3>1, PairFacts
    <2> HIDE DEF pair
    <2>3. /\ m \in Seq(NodeSet) /\ DOMAIN m = D \cup {x, y} /\ Len(m) = x + 1
          /\ m[y] = pair /\ \A i \in D \cup {x} : m[i] = more[i]
      <3> HIDE DEF x
      <3> QED
        BY <1>2, <2>2, AppendFacts
    <2> HIDE DEF m, t
    <2>4. m[root] = nodes[root] /\ m[x] = Leaf(b, order)
      BY Zenon, <1>1, <1>2, <2>3
    <2>5. D = {root} /\ \E A : IsTree(m, y, A)
      <3>1. /\ m[y].bounds = UnionOf(nodes[root].bounds, b)
            /\ m[y].max = Greatest(nodes[root].max, order)
            /\ IsInjective(m[y].children) /\ Kids(m[y]) = {root, x}
        BY Zenon, <2>2, <2>3
      <3> HIDE DEF x, y
      <3> QED
        <4>1. HasRoot(nodes, root, b, order, x, y, m)
          BY Zenon, <1>2, <2>3, <2>4, <3>1 DEF HasRoot
        <4> HIDE DEF nodes, root
        <4>2. IsTree(nodes, root, anc)
          BY Zenon DEF nodes, root
        <4> QED
          BY Zenon, <1>5, <4>1, <4>2, GrowRoot DEF D
    <2>6. Grown(nodes, b, order, m)
      <3>1. IsLeaf(m[x]) /\ IsLeaf(m[root]) /\ ~IsLeaf(m[y])
        BY Zenon, <1>3, <1>5, <2>2, <2>3, <2>4
      <3>2. LeavesOf(m) = {root, x} /\ LeavesOf(nodes) = {root}
        BY Zenon, <1>5, <2>3, <2>5, <3>1 DEF LeavesOf
      <3>3. Len(nodes) \in Nat
        BY <1>1
      <3> QED
        BY <2>3, <2>4, <3>2, <3>3 DEF Grown
    <2>7. t.nodes = m /\ t.root = y /\ y # 0
      BY <1>1, <2>1
    <2> HIDE DEF nodes, y
    <2> QED
      BY Zenon, <2>1, <2>5, <2>6, <2>7 DEF t, nodes
  <1>6. CASE ~IsLeaf(nodes[root])
    <2> DEFINE att == Attach(more, a, x)
               m == Propagate(att, path, b, order)
    <2>1. t = [nodes |-> m, root |-> root, maxLeaf |-> tree.maxLeaf]
      BY Zenon, <1>2, <1>3, <1>6 DEF InsertLeaf, more
    <2>2. IsPath(nodes, root, anc, path)
      <3>1. Len(more) \in Nat
        BY Zenon, <1>2
      <3> HIDE DEF root, nodes
      <3> QED
        BY Zenon, <1>2, <1>6, <3>1, InsertPathFacts DEF nodes, root
    <2> HIDE DEF path
    <2>3. /\ path \in Seq(Nat) /\ path # << >> /\ IsInjective(path) /\ a \in D
          /\ ~IsLeaf(nodes[a]) /\ Range(path) = anc[a]
          /\ \A k \in 1 .. Len(path) - 1 : path[k + 1] \in Kids(nodes[path[k]])
      BY Zenon, <2>2 DEF IsPath
    <2>4. ASSUME NEW k \in 1 .. Len(path) - 1 PROVE path[k] \in D /\ path[k] # a
      <3>1. k \in DOMAIN path /\ Len(path) \in DOMAIN path /\ k # Len(path)
        BY <2>3
      <3>2. path[k] \in Range(path)
        BY Zenon, <3>1 DEF Range
      <3> QED
        BY <1>1, <2>3, <3>1, <3>2 DEF Top, IsInjective
    <2> HIDE DEF a
    <2>5. \A u \in anc[a] : u \in D
      BY Zenon, <1>1, <2>3
    <2>6. \A i \in anc[a] : Kids(nodes[i]) # {}
      <3>1. \A i \in anc[a] : i # a => \E k \in Kids(nodes[i]) : k \in anc[a]
        BY Zenon, <2>3 DEF IsTree, Chains
      <3> QED
        BY Zenon, <1>4, <2>3, <3>1
    <2> HIDE DEF att, m, t
    <2> DEFINE Others == \A i \in D \ {a} : att[i] = nodes[i]
    <2>7. ASSUME att \in Seq(NodeSet), D \subseteq DOMAIN att, Others,
                 IsInjective(att[a].children),
                 UnionOf(att[a].bounds, b) = UnionOf(nodes[a].bounds, b),
                 Greatest(att[a].max, order) = Greatest(nodes[a].max, order)
          PROVE  /\ m \in Seq(NodeSet) /\ DOMAIN m = DOMAIN att
                 /\ \A i \in DOMAIN att \ D : m[i] = att[i]
                 /\ Raised(nodes, anc, a, b, order, m)
                 /\ \A i \in D : Kids(m[i]) = Kids(att[i])
      <3>1. \A k \in 1 .. Len(path) - 1 : path[k + 1] \in Kids(att[path[k]])
        BY Zenon, <2>3, <2>4, <2>7
      <3>2. \A i \in Range(path) : IsInjective(att[i].children)
        BY Zenon, <1>1, <2>3, <2>5, <2>7
      <3>3. Range(path) \subseteq DOMAIN att
        BY Zenon, <2>3, <2>5, <2>7
      <3>4. /\ m \in Seq(NodeSet) /\ DOMAIN m = DOMAIN att
            /\ \A i \in DOMAIN att \ anc[a] : m[i] = att[i]
            /\ \A i \in anc[a] :
                  /\ m[i].bounds = UnionOf(att[i].bounds, b)
                  /\ m[i].max = Greatest(att[i].max, order)
                  /\ IsInjective(m[i].children) /\ Kids(m[i]) = Kids(att[i])
        <4>1. att \in Seq(NodeSet)
          BY Zenon, <2>7
        <4>2. path \in Seq(Nat) /\ IsInjective(path)
          BY Zenon, <2>3
        <4>3. LET p == Propagate(att, path, b, order)
              IN  /\ p \in Seq(NodeSet) /\ Len(p) = Len(att) /\ DOMAIN p = DOMAIN att
                  /\ \A i \in DOMAIN att \ Range(path) : p[i] = att[i]
                  /\ \A i \in Range(path) :
                       /\ p[i].bounds = UnionOf(att[i].bounds, b)
                       /\ p[i].max = Greatest(att[i].max, order)
                       /\ IsInjective(p[i].children) /\ Kids(p[i]) = Kids(att[i])
          BY Zenon, <3>1, <3>2, <3>3, <4>1, <4>2, PropagateFacts
        <4>4. Range(path) = anc[a]
          BY Zenon, <2>3
        <4> QED
          BY Zenon, <4>3, <4>4 DEF m
      <3>5. Raised(nodes, anc, a, b, order, m)
        <4> SUFFICES ASSUME NEW i \in D
                     PROVE  /\ m[i].bounds = (IF i \in anc[a] THEN UnionOf(nodes[i].bounds, b)
                                              ELSE nodes[i].bounds)
                            /\ m[i].max = (IF i \in anc[a] THEN Greatest(nodes[i].max, order)
                                           ELSE nodes[i].max)
                            /\ IsInjective(m[i].children)
          BY Zenon DEF Raised
        <4>1. CASE i = a
          BY Zenon, <1>1, <2>3, <2>7, <3>4, <4>1
        <4>2. CASE i # a /\ i \in anc[a]
          BY Zenon, <2>7, <3>4, <4>2
        <4>3. CASE i # a /\ i \notin anc[a]
          <5>1. m[i] = nodes[i]
            BY Zenon, <2>7, <3>4, <4>3
          <5> QED
            BY Zenon, <1>1, <4>3, <5>1
        <4> QED
          BY Zenon, <4>1, <4>2, <4>3
      <3>6. \A i \in DOMAIN att \ D : m[i] = att[i]
        BY Zenon, <2>5, <3>4
      <3>7. \A i \in D : Kids(m[i]) = Kids(att[i])
        BY Zenon, <2>7, <3>4
      <3> QED
        BY Zenon, <3>4, <3>5, <3>6, <3>7
    <2>8. ASSUME m \in Seq(NodeSet), D \cup {x} \subseteq DOMAIN m, m[x] = Leaf(b, order),
                 DOMAIN m \subseteq D \cup {x, y}, y \in DOMAIN m => Kids(m[y]) # {},
                 Raised(nodes, anc, a, b, order, m),
                 \A i \in D \ {a} : Kids(m[i]) = Kids(nodes[i]), Kids(m[a]) # {}
          PROVE  Grown(nodes, b, order, m)
      <3>1. \A i \in DOMAIN m : IsLeaf(m[i]) <=> Kids(m[i]) = {}
        <4> TAKE i \in DOMAIN m
        <4>1. m[i].children \in Seq(Nat)
          BY Zenon, <2>8, NodeFacts
        <4> QED
          BY Zenon, <4>1, LeafHasNoKids
      <3>2. \A i \in D : IsLeaf(m[i]) <=> IsLeaf(nodes[i])
        BY Zenon, <1>4, <2>3, <2>8, <3>1
      <3>3. LeavesOf(m) = LeavesOf(nodes) \cup {x}
        BY Zenon, <1>3, <2>8, <3>1, <3>2 DEF LeavesOf
      <3>4. \A i \in LeavesOf(nodes) : i \in D /\ i \notin anc[a]
        BY Zenon, <1>4, <2>6 DEF LeavesOf
      <3>5. \A i \in LeavesOf(nodes) : m[i].bounds = nodes[i].bounds /\ m[i].max = nodes[i].max
        BY Zenon, <2>8, <3>4 DEF Raised
      <3>6. Len(m) > Len(nodes)
        BY <1>1, <2>8
      <3> QED
        BY Zenon, <2>8, <3>3, <3>5, <3>6 DEF Grown
    <2>9. (\E A : IsTree(m, root, A)) /\ Grown(nodes, b, order, m)
      <3>1. nodes[a].bounds \in Bounds /\ nodes[a].max \in Nat
        BY Zenon, <1>1, <2>3, NodeFacts
      <3>2. CASE Len(nodes[a].children) < MaxChildren
        <4>1. /\ att \in Seq(NodeSet) /\ DOMAIN att = D \cup {x} /\ Others
              /\ att[x] = Leaf(b, order)
              /\ att[a].bounds = UnionOf(nodes[a].bounds, b)
              /\ att[a].max = Greatest(nodes[a].max, order)
              /\ IsInjective(att[a].children) /\ Kids(att[a]) = Kids(nodes[a]) \cup {x}
          <5>1. IsTree(nodes, root, anc) /\ a \in DOMAIN nodes /\ ~IsLeaf(nodes[a])
            BY Zenon, <2>3
          <5>2. WithRoom(nodes, a, b, order, x, att)
            <6> HIDE DEF nodes, root
            <6> QED
              BY Zenon, <3>2, <5>1, AttachRoom DEF att, more, x
          <5> QED
            BY Zenon, <5>2 DEF WithRoom
        <4>2. /\ UnionOf(att[a].bounds, b) = UnionOf(nodes[a].bounds, b)
              /\ Greatest(att[a].max, order) = Greatest(nodes[a].max, order)
          BY Zenon, <3>1, <4>1, UnionFacts DEF Greatest
        <4>3. /\ m \in Seq(NodeSet) /\ DOMAIN m = D \cup {x} /\ m[x] = Leaf(b, order)
              /\ Raised(nodes, anc, a, b, order, m) /\ Kids(m[a]) = Kids(nodes[a]) \cup {x}
              /\ \A i \in D \ {a} : Kids(m[i]) = Kids(nodes[i])
          <5> HIDE DEF x
          <5> QED
            BY Zenon, <1>2, <2>3, <2>7, <4>1, <4>2
        <4>4. Grown(nodes, b, order, m)
          <5>1. Kids(m[a]) # {} /\ (y \in DOMAIN m => Kids(m[y]) # {})
            BY Zenon, <1>2, <4>3
          <5>2. D \cup {x} \subseteq DOMAIN m /\ DOMAIN m \subseteq D \cup {x, y}
            BY Zenon, <4>3
          <5> HIDE DEF x, y
          <5> QED
            BY Zenon, <2>8, <4>3, <5>1, <5>2
        <4>5. \E A : IsTree(m, root, A)
          <5>1. HasLeaf(nodes, anc, a, b, order, x, m)
            BY Zenon, <1>2, <4>3 DEF HasLeaf
          <5>2. IsTree(nodes, root, anc) /\ a \in DOMAIN nodes
            BY Zenon, <2>3
          <5> HIDE DEF x, nodes, root
          <5> QED
            BY Zenon, <5>1, <5>2, GrowLeaf
        <4> QED
          BY Zenon, <4>4, <4>5
      <3>3. CASE ~(Len(nodes[a].children) < MaxChildren)
        <4>1. /\ att \in Seq(NodeSet) /\ DOMAIN att = D \cup {x, y} /\ Others
              /\ att[x] = Leaf(b, order)
              /\ att[a].bounds = nodes[a].bounds /\ att[a].max = nodes[a].max
              /\ IsInjective(att[a].children)
              /\ \E old \in Kids(nodes[a]) :
                   /\ att[y].bounds = UnionOf(nodes[old].bounds, b)
                   /\ att[y].max = Greatest(nodes[old].max, order)
                   /\ IsInjective(att[y].children) /\ Kids(att[y]) = {old, x}
                   /\ Kids(att[a]) = (Kids(nodes[a]) \ {old}) \cup {y}
          <5>1. IsTree(nodes, root, anc) /\ a \in DOMAIN nodes /\ ~IsLeaf(nodes[a])
            BY Zenon, <2>3
          <5>2. WithoutRoom(nodes, a, b, order, x, y, att)
            <6> HIDE DEF nodes, root
            <6> QED
              BY Zenon, <3>3, <5>1, AttachPair DEF att, more, x, y
          <5> QED
            BY Zenon, <5>2 DEF WithoutRoom
        <4>2. /\ m \in Seq(NodeSet) /\ DOMAIN m = D \cup {x, y} /\ m[x] = Leaf(b, order)
              /\ m[y] = att[y]
              /\ Raised(nodes, anc, a, b, order, m) /\ Kids(m[a]) = Kids(att[a])
              /\ \A i \in D \ {a} : Kids(m[i]) = Kids(nodes[i])
          <5> HIDE DEF x, y
          <5> QED
            BY Zenon, <1>2, <2>3, <2>7, <4>1
        <4>3. PICK old \in Kids(nodes[a]) :
                   /\ m[y].bounds = UnionOf(nodes[old].bounds, b)
                   /\ m[y].max = Greatest(nodes[old].max, order)
                   /\ IsInjective(m[y].children) /\ Kids(m[y]) = {old, x}
                   /\ Kids(m[a]) = (Kids(nodes[a]) \ {old}) \cup {y}
          BY Zenon, <4>1, <4>2
        <4>4. Grown(nodes, b, order, m)
          <5>1. Kids(m[a]) # {} /\ Kids(m[y]) # {}
            BY Zenon, <4>3
          <5> HIDE DEF x, y
          <5> QED
            BY Zenon, <2>8, <4>2, <5>1
        <4>5. \E A : IsTree(m, root, A)
          <5> HIDE DEF x, y
          <5>1. HasPair(nodes, anc, a, b, order, x, y, old, m)
            BY Zenon, <1>2, <4>2, <4>3 DEF HasPair
          <5>2. IsTree(nodes, root, anc) /\ a \in DOMAIN nodes
            BY Zenon, <2>3
          <5> HIDE DEF nodes, root
          <5> QED
            BY Zenon, <5>1, <5>2, GrowPair
        <4> QED
          BY Zenon, <4>4, <4>5
      <3> QED
        BY Zenon, <3>2, <3>3
    <2>10. t.nodes = m /\ t.root = root
      BY Zenon, <2>1
    <2> HIDE DEF nodes, root
    <2> QED
      BY Zenon, <2>1, <2>9, <2>10 DEF t, nodes, root
  <1> QED
    BY Zenon, <1>5, <1>6

\* Intersecting is symmetric.
LEMMA IntersectsBothWays ==
  ASSUME NEW a \in Bounds, NEW b \in Bounds, Intersects(a, b) PROVE Intersects(b, a)
  BY Zenon DEF Intersects, Bounds, Axes

\* Every leaf is one above the highest of the earlier ones it intersects.
Ordered(nodes) ==
  \A j \in LeavesOf(nodes) :
    /\ \A i \in LeavesOf(nodes) :
         i < j /\ Intersects(nodes[i].bounds, nodes[j].bounds) => nodes[i].max < nodes[j].max
    /\ \/ nodes[j].max = 1
       \/ \E i \in LeavesOf(nodes) : /\ i < j /\ Intersects(nodes[i].bounds, nodes[j].bounds)
                                     /\ nodes[i].max + 1 = nodes[j].max

\* What the operations of a tree keep true.
HasHighest(nodes, leaf) ==
  leaf \in LeavesOf(nodes) /\ \A i \in LeavesOf(nodes) : nodes[i].max <= nodes[leaf].max
\* The invariant of the tree: empty, or a tree whose nodes cover what is below
\* them, with its highest leaf known; its leaves are in order.
IsBoundsTree(tree) ==
  /\ tree = [nodes |-> tree.nodes, root |-> tree.root, maxLeaf |-> tree.maxLeaf]
  /\ \/ tree.nodes = << >> /\ tree.root = 0 /\ tree.maxLeaf = 0
     \/ /\ tree.root # 0 /\ \E anc : IsTree(tree.nodes, tree.root, anc)
        /\ HasHighest(tree.nodes, tree.maxLeaf)
  /\ Ordered(tree.nodes)

\* The types of its nodes.
LEMMA IsBoundsTreeFacts ==
  ASSUME NEW tree, IsBoundsTree(tree)
  PROVE  /\ tree.nodes \in Seq(NodeSet) /\ Len(tree.nodes) \in Nat
         /\ \A i \in LeavesOf(tree.nodes) :
              /\ i \in DOMAIN tree.nodes /\ i \in 1 .. Len(tree.nodes)
              /\ tree.nodes[i].bounds \in Bounds /\ tree.nodes[i].max \in Nat
  <1>1. tree.nodes \in Seq(NodeSet)
    <2>1. CASE tree.nodes = << >>
      BY <2>1
    <2>2. CASE \E anc : IsTree(tree.nodes, tree.root, anc)
      BY Zenon, <2>2 DEF IsTree, Ancestry
    <2> QED
      BY Zenon, <2>1, <2>2 DEF IsBoundsTree
  <1> QED
    BY <1>1, NodeFacts DEF LeavesOf

\* find_max_ordering, with its short cut.
LEMMA FindMaxFacts ==
  ASSUME WellFounded, NEW tree, IsBoundsTree(tree), NEW q \in Bounds
  PROVE  Highest(tree.nodes, q, FindMaxOrdering(tree, q))
  <1> DEFINE nodes == tree.nodes
             top == tree.maxLeaf
  <1>1. CASE tree.root = 0
    <2>1. nodes = << >>
      BY Zenon, <1>1 DEF IsBoundsTree
    <2>2. Met(nodes, q) = {}
      BY <2>1 DEF Met, LeavesOf
    <2>3. FindMaxOrdering(tree, q) = 0
      BY Zenon, <1>1 DEF FindMaxOrdering
    <2> QED
      BY <2>2, <2>3 DEF Highest
  <1>2. CASE tree.root # 0 /\ Intersects(q, nodes[top].bounds)
    <2>1. HasHighest(nodes, top)
      BY Zenon, <1>2 DEF IsBoundsTree
    <2>2. FindMaxOrdering(tree, q) = nodes[top].max
      BY Zenon, <1>2 DEF FindMaxOrdering
    <2>3. nodes[top].max \in Nat
      BY Zenon, <2>1, IsBoundsTreeFacts DEF HasHighest
    <2> QED
      BY Zenon, <1>2, <2>1, <2>2, <2>3 DEF Highest, Met, HasHighest
  <1>3. CASE tree.root # 0 /\ ~Intersects(q, nodes[top].bounds)
    <2>1. PICK anc : IsTree(nodes, tree.root, anc)
      BY Zenon, <1>3 DEF IsBoundsTree
    <2>2. FindMaxOrdering(tree, q) = Search(nodes, q, tree.root).found
      BY Zenon, <1>3 DEF FindMaxOrdering
    <2> QED
      BY Zenon, <2>1, <2>2, SearchFinds
  <1> QED
    BY Zenon, <1>1, <1>2, <1>3

\* A leaf one above the highest it intersects keeps the leaves in order.
LEMMA GrownInOrder ==
  ASSUME NEW nodes, nodes \in Seq(NodeSet), Ordered(nodes), NEW b \in Bounds, NEW f,
         Highest(nodes, b, f), NEW m, Grown(nodes, b, f + 1, m)
  PROVE  Ordered(m)
  <1> DEFINE x == Len(nodes) + 1
             L == LeavesOf(nodes)
  <1>1. f \in Nat /\ x \in Nat /\ m[x].bounds = b /\ m[x].max = f + 1
    BY DEF Highest, Grown, Leaf
  <1>2. \A i \in L : /\ i \in Nat /\ i < x /\ nodes[i].bounds \in Bounds /\ nodes[i].max \in Nat
                     /\ m[i].bounds = nodes[i].bounds /\ m[i].max = nodes[i].max
    <2>1. \A i \in L : i \in DOMAIN nodes
      BY Zenon DEF LeavesOf
    <2>2. \A i \in L : i \in Nat /\ i < x
      BY <2>1
    <2> QED
      BY Zenon, <2>1, <2>2, NodeFacts DEF Grown
  <1>3. LeavesOf(m) = L \cup {x}
    BY Zenon DEF Grown
  <1>4. \A i \in L : Intersects(m[i].bounds, m[x].bounds) <=> i \in Met(nodes, b)
    BY Zenon, <1>1, <1>2, IntersectsBothWays DEF Met
  <1> HIDE DEF x, L
  <1> SUFFICES ASSUME NEW j \in L \cup {x}
               PROVE  /\ \A i \in L \cup {x} :
                           i < j /\ Intersects(m[i].bounds, m[j].bounds) => m[i].max < m[j].max
                      /\ \/ m[j].max = 1
                         \/ \E i \in L \cup {x} :
                              /\ i < j /\ Intersects(m[i].bounds, m[j].bounds)
                              /\ m[i].max + 1 = m[j].max
    BY Zenon, <1>3 DEF Ordered
  <1>5. CASE j \in L
    <2>1. ~(x < j)
      BY <1>1, <1>2, <1>5
    <2> QED
      BY Zenon, <1>2, <1>5, <2>1 DEF Ordered, L
  <1>6. CASE j = x
    <2>1. ASSUME NEW i \in L, Intersects(m[i].bounds, m[x].bounds) PROVE m[i].max < m[x].max
      <3>1. nodes[i].max <= f
        BY Zenon, <1>4, <2>1 DEF Highest
      <3> QED
        BY <1>1, <1>2, <3>1
    <2>2. \/ m[x].max = 1
          \/ \E i \in L : /\ i < x /\ Intersects(m[i].bounds, m[x].bounds)
                          /\ m[i].max + 1 = m[x].max
      <3>1. CASE f = 0
        BY <1>1, <3>1
      <3>2. CASE f # 0
        <4>1. PICK i \in Met(nodes, b) : nodes[i].max = f
          BY Zenon, <3>2 DEF Highest
        <4>2. i \in L
          BY Zenon DEF Met, L
        <4> QED
          BY Zenon, <1>1, <1>2, <1>4, <4>1, <4>2
      <3> QED
        BY Zenon, <3>1, <3>2
    <2>3. ~(x < x)
      BY <1>1
    <2> QED
      BY Zenon, <1>6, <2>1, <2>2, <2>3
  <1> QED
    BY Zenon, <1>5, <1>6

\* insert: the tree stays one, and the new leaf has the order returned.
LEMMA InsertFacts ==
  ASSUME WellFounded, NEW tree, IsBoundsTree(tree), NEW b \in Bounds
  PROVE  /\ IsBoundsTree(Insert(tree, b)) /\ OrderOf(tree, b) \in Nat
         /\ Grown(tree.nodes, b, OrderOf(tree, b), Insert(tree, b).nodes)
  <1> DEFINE nodes == tree.nodes
             f == FindMaxOrdering(tree, b)
             order == f + 1
             x == Len(nodes) + 1
             t == InsertLeaf(tree, b, order)
             top == IF tree.maxLeaf = 0 \/ nodes[tree.maxLeaf].max < order THEN x ELSE tree.maxLeaf
  <1>1. Highest(nodes, b, f) /\ f \in Nat
    BY Zenon, FindMaxFacts DEF Highest
  <1>2. order \in Nat /\ nodes \in Seq(NodeSet) /\ x \in Nat /\ x # 0
    BY <1>1, IsBoundsTreeFacts
  <1>3. OrderOf(tree, b) = order
    BY Zenon DEF OrderOf
  <1> HIDE DEF f
  <1>4. /\ t = [nodes |-> t.nodes, root |-> t.root, maxLeaf |-> tree.maxLeaf] /\ t.root # 0
        /\ \E A : IsTree(t.nodes, t.root, A)
        /\ Grown(nodes, b, order, t.nodes)
    <2>1. CASE tree.root = 0
      <3> DEFINE m == << Leaf(b, order) >>
      <3>1. nodes = << >> /\ x = 1
        BY <2>1 DEF IsBoundsTree
      <3>2. t = [nodes |-> m, root |-> 1, maxLeaf |-> tree.maxLeaf]
        <4>1. Append(nodes, Leaf(b, order)) = m /\ Len(m) = 1
          BY <3>1
        <4>2. tree = [nodes |-> nodes, root |-> tree.root, maxLeaf |-> tree.maxLeaf]
          BY Zenon DEF IsBoundsTree
        <4> HIDE DEF m
        <4> QED
          BY Zenon, <2>1, <4>1, <4>2 DEF InsertLeaf
      <3>3. Leaf(b, order) \in NodeSet /\ IsLeaf(Leaf(b, order))
        BY Zenon, <1>2, LeafFacts
      <3>4. m \in Seq(NodeSet) /\ Len(m) = 1 /\ DOMAIN m = {1} /\ m[1] = Leaf(b, order)
        BY <3>3
      <3>5. Kids(m[1]) = {} /\ IsInjective(m[1].children)
        BY <3>4 DEF Leaf, Kids, Range, IsInjective
      <3>6. m[1].bounds = b /\ m[1].max = order
        BY Zenon, <3>4 DEF Leaf
      <3> HIDE DEF m
      <3>7. IsTree(m, 1, [u \in {1} |-> {1}])
        <4> DEFINE A == [u \in {1} |-> {1}]
        <4>1. A \in [{1} -> SUBSET {1}] /\ A[1] = {1}
          BY Zenon
        <4> HIDE DEF A
        <4>2. Ancestry(m, 1, A)
          BY Zenon, <3>4, <4>1 DEF Ancestry
        <4>3. Branches(m, A) /\ Chains(m, A)
          BY Zenon, <3>4, <3>5, <4>1 DEF Branches, Chains
        <4>4. Covers(m, A)
          BY <1>2, <3>4, <3>6, <4>1, WithinFacts DEF Covers
        <4> QED
          BY Zenon, <4>2, <4>3, <4>4 DEF IsTree, A
      <3>8. LeavesOf(nodes) = {} /\ LeavesOf(m) = {1}
        BY <3>1, <3>3, <3>4 DEF LeavesOf
      <3>9. Grown(nodes, b, order, m)
        BY <3>1, <3>4, <3>8 DEF Grown
      <3>10. t.nodes = m /\ t.root = 1
        BY <3>2
      <3> HIDE DEF t
      <3> QED
        BY <3>2, <3>7, <3>9, <3>10
    <2>2. CASE tree.root # 0
      <3>1. PICK anc : IsTree(nodes, tree.root, anc)
        BY Zenon, <2>2 DEF IsBoundsTree
      <3>2. tree = [nodes |-> tree.nodes, root |-> tree.root, maxLeaf |-> tree.maxLeaf]
        BY Zenon DEF IsBoundsTree
      <3> QED
        BY Zenon, <1>2, <2>2, <3>1, <3>2, InsertLeafFacts
    <2> QED
      BY Zenon, <2>1, <2>2
  <1>5. Insert(tree, b) = [nodes |-> t.nodes, root |-> t.root, maxLeaf |-> top]
    <2>1. Insert(tree, b) = [t EXCEPT !.maxLeaf = top]
      BY Zenon DEF Insert, f
    <2> HIDE DEF t, top
    <2> QED
      BY Zenon, <1>4, <2>1
  <1> HIDE DEF t, x, order
  <1>6. Ordered(t.nodes)
    BY Zenon, <1>1, <1>2, <1>4, GrownInOrder DEF IsBoundsTree, order
  <1>7. HasHighest(t.nodes, top)
    <2>1. /\ LeavesOf(t.nodes) = LeavesOf(nodes) \cup {x} /\ t.nodes[x].max = order
          /\ \A i \in LeavesOf(nodes) : t.nodes[i].max = nodes[i].max /\ nodes[i].max \in Nat
      BY <1>4, IsBoundsTreeFacts DEF Grown, x, Leaf
    <2>2. CASE tree.maxLeaf = 0
      <3>1. LeavesOf(nodes) = {}
        <4>1. ~HasHighest(nodes, 0)
          BY IsBoundsTreeFacts DEF HasHighest
        <4>2. nodes = << >>
          BY Zenon, <2>2, <4>1 DEF IsBoundsTree
        <4> QED
          BY <4>2 DEF LeavesOf
      <3> QED
        BY <1>2, <2>1, <2>2, <3>1 DEF HasHighest
    <2>3. CASE tree.maxLeaf # 0
      <3>1. HasHighest(nodes, tree.maxLeaf)
        BY Zenon, <2>3 DEF IsBoundsTree
      <3> QED
        BY <1>2, <2>1, <2>3, <3>1 DEF HasHighest
    <2> QED
      BY Zenon, <2>2, <2>3
  <1> HIDE DEF top
  <1>8. IsBoundsTree(Insert(tree, b))
    BY <1>4, <1>5, <1>6, <1>7 DEF IsBoundsTree
  <1> QED
    BY <1>2, <1>3, <1>4, <1>5, <1>8
============================================================================
