--------------------------- MODULE KeyInputProofs --------------------------
(***************************************************************************)
(* The pending input of a window: its timeout, its observers, and the      *)
(* keystrokes it takes in and gives back, for every keymap, every number   *)
(* of keystrokes, focus handles and pause owners, and whatever listeners   *)
(* do while a key is dispatched.                                           *)
(***************************************************************************)
EXTENDS KeyInput, SequenceTheorems, TLAPS

----------------------------------------------------------------------------
(* Induction over the natural numbers, for sets instead of predicates, and *)
(* functions that recur on one smaller argument.                           *)

\* Every non-empty set of natural numbers has a least element.  The lemmas that
\* need it have it as a hypothesis; NatIsWellFounded takes it from the library.
WellFounded ==
  \A T \in SUBSET Nat : T # {} => \E x \in T : \A y \in T : x <= y

LEMMA LeastElement ==
  ASSUME WellFounded, NEW T \in SUBSET Nat, T # {}
  PROVE  \E x \in T : \A y \in T : x <= y
  BY Zenon DEF WellFounded

\* Every non-empty bounded set of natural numbers has a greatest element.
LEMMA GreatestElement ==
  ASSUME WellFounded, NEW m \in Nat, NEW T \in SUBSET (0 .. m), T # {}
  PROVE  Max(T) \in T /\ \A y \in T : Max(T) >= y
  <1> DEFINE U == {k \in Nat : m - k \in T}
  <1>1. U \in SUBSET Nat /\ U # {}
    <2>1. PICK y \in T : TRUE
      BY Zenon
    <2>2. m - y \in Nat /\ m - (m - y) = y
      BY <2>1
    <2> QED
      BY Zenon, <2>2
  <1>2. PICK k \in U : \A j \in U : k <= j
    <2> HIDE DEF U
    <2> QED
      BY Zenon, <1>1, LeastElement
  <1>3. m - k \in T /\ \A y \in T : m - k >= y
    <2>1. \A y \in T : m - y \in U
      OBVIOUS
    <2> QED
      BY <1>2, <2>1
  <1> QED
    BY Zenon, <1>3 DEF Max

\* Induction.
LEMMA Induction ==
  ASSUME WellFounded, NEW T \in SUBSET Nat, 0 \in T, \A n \in T : n + 1 \in T
  PROVE  T = Nat
  <1> SUFFICES ASSUME Nat \ T # {} PROVE FALSE
    BY Zenon
  <1>1. PICK x \in Nat \ T : \A y \in Nat \ T : x <= y
    BY Zenon, LeastElement
  <1>2. x # 0 /\ x - 1 \in Nat /\ x - 1 \notin Nat \ T
    BY <1>1
  <1> QED
    BY <1>1, <1>2

\* The value on Base is given by b; that at another argument t follows, by
\* H, from the value at the argument N[t], which has a smaller rank.
Recursion(S, V, Base, b, N, H, rank) ==
  /\ b \in [S -> V] /\ N \in [S -> S] /\ H \in [S \X V -> V]
  /\ rank \in [S -> Nat] /\ \A t \in S \ Base : rank[N[t]] < rank[t]

Solvable(S, V, Base, b, N, H) ==
  \E f \in [S -> V] :
    \A t \in S : f[t] = IF t \in Base THEN b[t] ELSE H[<<t, f[N[t]]>>]

\* Such a function exists.
LEMMA RecursionExists ==
  ASSUME WellFounded, NEW S, NEW V, NEW Base, NEW b, NEW N, NEW H, NEW rank,
         Recursion(S, V, Base, b, N, H, rank)
  PROVE  Solvable(S, V, Base, b, N, H)
  <1> USE DEF Recursion, Solvable
  <1> DEFINE Below(n) == {t \in S : rank[t] < n}
             Solves(g, n) ==
               \A t \in Below(n) :
                 g[t] = IF t \in Base THEN b[t] ELSE H[<<t, g[N[t]]>>]
             Good == {n \in Nat : \E g \in [Below(n) -> V] : Solves(g, n)}
  <1>1. Good = Nat
    <2>1. 0 \in Good
      <3>1. Below(0) = {}
        OBVIOUS
      <3>2. [t \in Below(0) |-> t] \in [Below(0) -> V]
        BY Zenon, <3>1
      <3> QED
        BY Zenon, <3>1, <3>2
    <2>2. ASSUME NEW n \in Good PROVE n + 1 \in Good
      <3>1. PICK g \in [Below(n) -> V] : Solves(g, n)
        BY Zenon, <2>2
      <3> DEFINE h == [t \in Below(n + 1) |->
                         IF t \in Base THEN b[t] ELSE H[<<t, g[N[t]]>>]]
      <3>2. ASSUME NEW t \in Below(n + 1), t \notin Base
            PROVE  N[t] \in Below(n) /\ N[t] \in Below(n + 1)
        BY <3>2
      <3>3. h \in [Below(n + 1) -> V]
        BY Zenon, <3>1, <3>2
      <3>4. \A u \in Below(n) : u \in Below(n + 1) /\ h[u] = g[u]
        BY <3>1
      <3>5. Solves(h, n + 1)
        <4> SUFFICES ASSUME NEW t \in Below(n + 1)
                     PROVE  h[t] = IF t \in Base THEN b[t] ELSE H[<<t, h[N[t]]>>]
          BY Zenon
        <4>1. CASE t \in Base
          BY Zenon, <4>1
        <4>2. CASE t \notin Base
          <5>1. h[N[t]] = g[N[t]]
            BY Zenon, <3>2, <3>4, <4>2
          <5> QED
            BY Zenon, <4>2, <5>1
        <4> QED
          BY Zenon, <4>1, <4>2
      <3> HIDE DEF h, Below, Solves
      <3> QED
        BY <3>3, <3>5
    <2> HIDE DEF Good
    <2>3. Good \in SUBSET Nat
      BY Zenon DEF Good
    <2> QED
      BY Zenon, <2>1, <2>2, <2>3, Induction
  <1>2. ASSUME NEW n \in Nat, NEW g, Solves(g, n), NEW m \in Nat, NEW h, Solves(h, m),
               NEW t \in Below(n), t \in Below(m)
        PROVE  g[t] = h[t]
    <2> DEFINE Bad == {k \in Nat : \E u \in Below(n) \cap Below(m) :
                                     rank[u] = k /\ g[u] # h[u]}
    <2> SUFFICES ASSUME Bad # {} PROVE FALSE
      BY Zenon, <1>2
    <2>1. PICK k \in Bad : \A j \in Bad : k <= j
      <3>1. Bad \in SUBSET Nat
        BY Zenon
      <3> HIDE DEF Bad
      <3> QED
        BY Zenon, <3>1, LeastElement
    <2>2. PICK u \in Below(n) \cap Below(m) : rank[u] = k /\ g[u] # h[u]
      BY Zenon, <2>1
    <2>3. CASE u \in Base
      BY Zenon, <1>2, <2>2, <2>3
    <2>4. CASE u \notin Base
      <3>1. /\ N[u] \in Below(n) \cap Below(m)
            /\ rank[N[u]] \in Nat /\ rank[N[u]] < k
        BY <2>2, <2>4
      <3>2. g[N[u]] = h[N[u]]
        BY <2>1, <3>1
      <3> QED
        BY ZenonT(60), <1>2, <2>2, <2>4, <3>2
    <2> QED
      BY Zenon, <2>3, <2>4
  <1> DEFINE G == [n \in Nat |-> CHOOSE g \in [Below(n) -> V] : Solves(g, n)]
             f == [t \in S |-> G[rank[t] + 1][t]]
  <1>3. ASSUME NEW n \in Nat PROVE G[n] \in [Below(n) -> V] /\ Solves(G[n], n)
    <2>1. \E g \in [Below(n) -> V] : Solves(g, n)
      BY Zenon, <1>1
    <2> HIDE DEF Below, Solves
    <2> QED
      BY Zenon, <2>1
  <1>4. ASSUME NEW t \in S, NEW n \in Nat, rank[t] < n PROVE f[t] = G[n][t]
    <2>1. rank[t] + 1 \in Nat /\ t \in Below(rank[t] + 1) /\ t \in Below(n)
      BY <1>4
    <2>2. Solves(G[rank[t] + 1], rank[t] + 1) /\ Solves(G[n], n)
      BY Zenon, <1>3, <2>1
    <2>3. G[rank[t] + 1][t] = G[n][t]
      <3> HIDE DEF Below, Solves, G
      <3> QED
        BY <1>2, <2>1, <2>2
    <2> QED
      BY Zenon, <2>3
  <1>5. f \in [S -> V]
    <2> SUFFICES ASSUME NEW t \in S PROVE G[rank[t] + 1][t] \in V
      BY Zenon
    <2>1. rank[t] + 1 \in Nat /\ t \in Below(rank[t] + 1)
      OBVIOUS
    <2> HIDE DEF G
    <2> QED
      BY Zenon, <1>3, <2>1
  <1>6. ASSUME NEW t \in S
        PROVE  f[t] = IF t \in Base THEN b[t] ELSE H[<<t, f[N[t]]>>]
    <2> DEFINE n == rank[t] + 1
    <2>1. n \in Nat /\ rank[t] < n /\ t \in Below(n)
      OBVIOUS
    <2>2. f[t] = G[n][t] /\ Solves(G[n], n)
      <3> HIDE DEF n, G, f, Solves
      <3> QED
        BY Zenon, <1>3, <1>4, <2>1
    <2>3. CASE t \in Base
      BY Zenon, <2>1, <2>2, <2>3
    <2>4. CASE t \notin Base
      <3>1. N[t] \in S /\ rank[N[t]] < n
        BY <2>4
      <3>2. f[N[t]] = G[n][N[t]]
        <4> HIDE DEF n, G, f
        <4> QED
          BY Zenon, <1>4, <2>1, <3>1
      <3> HIDE DEF n, G, f
      <3> QED
        BY Zenon, <2>1, <2>2, <2>4, <3>2
    <2> QED
      BY Zenon, <2>3, <2>4
  <1> HIDE DEF f
  <1> QED
    BY Zenon, <1>5, <1>6

----------------------------------------------------------------------------
(* What flush_dispatch and dispatch_key return: the keystrokes they were   *)
(* given, cut into blocks that are replayed in turn.                       *)

Stroke == [k : Keys, n : Nat]

\* Keystrokes in the order they were typed.
Sorted(s) == \A i, j \in DOMAIN s : i < j => s[i].n < s[j].n

\* Every serial of the set P is before every one of Q.
Before(P, Q) == \A x \in P, y \in Q : x < y

\* The lists of bindings a keymap gives at a node.
Menus(km, node) == {BindingsForInput(km, input, node) : input \in Seq(Keys)} \cup {<< >>}

\* Replays with lists of bindings of BB, and what dispatch_key returns.
Blocks(BB) == [keys : Seq(Stroke), bindings : BB]
Results(BB) == [replay : Seq(Blocks(BB)), pending : Seq(Stroke), bindings : BB,
                keys : Seq(Stroke)]

SerialsIn(r) == UNION {SerialsOf(r[i].keys) : i \in DOMAIN r}

\* Replays of keystrokes that were typed in the order they are replayed.
InTurn(r) == /\ \A i \in DOMAIN r : r[i].keys # << >>
             /\ \A i, j \in DOMAIN r :
                  i < j => Before(SerialsOf(r[i].keys), SerialsOf(r[j].keys))

LEMMA SerialsAreNumbers ==
  ASSUME NEW s \in Seq(Stroke)
  PROVE  SerialsOf(s) \in SUBSET Nat /\ \A i \in 1 .. Len(s) : s[i].n \in SerialsOf(s)
  <1>1. DOMAIN s = 1 .. Len(s) /\ \A i \in 1 .. Len(s) : s[i] \in Stroke
    BY Zenon, LenProperties, ElementOfSeq
  <1>2. \A i \in 1 .. Len(s) : s[i].n \in Nat
    BY Zenon, <1>1 DEF Stroke
  <1> QED
    BY Zenon, <1>1, <1>2 DEF SerialsOf

LEMMA LastIsSerial ==
  ASSUME NEW s \in Seq(Stroke), s # << >>
  PROVE  s[Len(s)].n \in SerialsOf(s) /\ s[Len(s)].n \in Nat
  <1>1. Len(s) \in 1 .. Len(s)
    BY EmptySeq, LenProperties
  <1> QED
    BY Zenon, <1>1, SerialsAreNumbers

\* Keystrokes cut in two.
LEMMA Cut ==
  ASSUME NEW t \in Seq(Stroke), NEW l \in 1 .. Len(t)
  PROVE  /\ SubSeq(t, 1, l) \in Seq(Stroke) /\ SubSeq(t, 1, l) # << >>
         /\ SubSeq(t, l + 1, Len(t)) \in Seq(Stroke)
         /\ Len(SubSeq(t, l + 1, Len(t))) = Len(t) - l
         /\ SerialsOf(t) = SerialsOf(SubSeq(t, 1, l))
                             \cup SerialsOf(SubSeq(t, l + 1, Len(t)))
         /\ Sorted(t) => /\ Sorted(SubSeq(t, l + 1, Len(t)))
                         /\ Before(SerialsOf(SubSeq(t, 1, l)),
                                   SerialsOf(SubSeq(t, l + 1, Len(t))))
  <1> DEFINE u == SubSeq(t, 1, l)
             v == SubSeq(t, l + 1, Len(t))
             m == Len(t)
  <1>0. m \in Nat /\ l \in Nat /\ 1 <= l /\ l <= m
    BY LenProperties
  <1>1. u \in Seq(Stroke) /\ Len(u) = l /\ \A i \in 1 .. l : u[i] = t[i]
    BY <1>0, SubSeqProperties
  <1>2. v \in Seq(Stroke) /\ Len(v) = m - l /\ \A i \in 1 .. m - l : v[i] = t[l + i]
    BY <1>0, SubSeqProperties
  <1>3. u # << >>
    BY <1>0, <1>1
  <1>4. DOMAIN u = 1 .. l /\ DOMAIN v = 1 .. m - l /\ DOMAIN t = 1 .. m
    BY Zenon, <1>1, <1>2, LenProperties
  <1>5. \A i \in 1 .. m : t[i] \in Stroke
    BY Zenon, <1>4, ElementOfSeq
  <1> HIDE DEF u, v, m
  <1>6. SerialsOf(t) = SerialsOf(u) \cup SerialsOf(v)
    <2>1. \A i \in 1 .. m : t[i].n \in SerialsOf(u) \cup SerialsOf(v)
      <3> SUFFICES ASSUME NEW i \in 1 .. m PROVE t[i].n \in SerialsOf(u) \cup SerialsOf(v)
        BY Zenon
      <3>1. CASE i <= l
        <4>1. i \in 1 .. l
          BY <1>0, <3>1
        <4> QED
          BY Zenon, <1>1, <1>4, <4>1 DEF SerialsOf
      <3>2. CASE i > l
        <4>1. i - l \in 1 .. m - l /\ v[i - l] = t[i]
          BY <1>0, <1>2, <3>2
        <4> QED
          BY Zenon, <1>4, <4>1 DEF SerialsOf
      <3> QED
        BY <1>0, <3>1, <3>2
    <2>2. \A i \in 1 .. l : u[i].n \in SerialsOf(t)
      <3>1. \A i \in 1 .. l : i \in 1 .. m
        BY <1>0
      <3> QED
        BY Zenon, <1>1, <1>4, <3>1 DEF SerialsOf
    <2>3. \A i \in 1 .. m - l : v[i].n \in SerialsOf(t)
      <3> SUFFICES ASSUME NEW i \in 1 .. m - l PROVE v[i].n \in SerialsOf(t)
        BY Zenon
      <3>1. l + i \in 1 .. m /\ v[i] = t[l + i]
        BY <1>0, <1>2
      <3> QED
        BY Zenon, <1>4, <3>1 DEF SerialsOf
    <2> QED
      BY Zenon, <1>4, <2>1, <2>2, <2>3 DEF SerialsOf
  <1>7. ASSUME Sorted(t) PROVE Sorted(v)
    <2> SUFFICES ASSUME NEW i \in 1 .. m - l, NEW j \in 1 .. m - l, i < j
                 PROVE  v[i].n < v[j].n
      BY Zenon, <1>4 DEF Sorted
    <2>1. /\ l + i \in 1 .. m /\ v[i] = t[l + i]
          /\ l + j \in 1 .. m /\ v[j] = t[l + j] /\ l + i < l + j
      BY <1>0, <1>2
    <2> QED
      BY Zenon, <1>4, <1>7, <2>1 DEF Sorted
  <1>8. ASSUME Sorted(t) PROVE Before(SerialsOf(u), SerialsOf(v))
    <2> SUFFICES ASSUME NEW i \in 1 .. l, NEW j \in 1 .. m - l
                 PROVE  u[i].n < v[j].n
      BY Zenon, <1>4 DEF Before, SerialsOf
    <2>1. /\ i \in 1 .. m /\ u[i] = t[i]
          /\ l + j \in 1 .. m /\ v[j] = t[l + j] /\ i < l + j
      BY <1>0, <1>1, <1>2
    <2> QED
      BY Zenon, <1>4, <1>8, <2>1 DEF Sorted
  <1> QED
    BY Zenon, <1>1, <1>2, <1>3, <1>6, <1>7, <1>8 DEF u, v, m

LEMMA NoBlocks ==
  ASSUME NEW BB
  PROVE  /\ << >> \in Seq(Blocks(BB)) /\ InTurn(<< >>) /\ SerialsIn(<< >>) = {}
         /\ SerialsOf(<< >>) = {} /\ Sorted(<< >>)
  <1>1. DOMAIN << >> = {}
    OBVIOUS
  <1> QED
    BY <1>1 DEF InTurn, SerialsIn, SerialsOf, Sorted

\* A keystroke added to the ones typed before it.
LEMMA Added ==
  ASSUME NEW t \in Seq(Stroke), NEW key \in Stroke
  PROVE  /\ Append(t, key) \in Seq(Stroke) /\ Append(t, key) # << >>
         /\ SerialsOf(Append(t, key)) = SerialsOf(t) \cup {key.n}
         /\ Sorted(t) /\ Before(SerialsOf(t), {key.n}) => Sorted(Append(t, key))
  <1> DEFINE q == Append(t, key)
             m == Len(t)
  <1>1. /\ m \in Nat /\ DOMAIN t = 1 .. m /\ q \in Seq(Stroke) /\ DOMAIN q = 1 .. (m + 1)
        /\ q[m + 1] = key /\ \A i \in 1 .. m : q[i] = t[i]
    BY AppendProperties, LenProperties
  <1> HIDE DEF q, m
  <1>2. SerialsOf(q) = SerialsOf(t) \cup {key.n}
    <2>1. m + 1 \in DOMAIN q /\ \A i \in DOMAIN q : i = m + 1 \/ i \in DOMAIN t
      BY <1>1
    <2>2. \A i \in DOMAIN t : i \in DOMAIN q /\ q[i] = t[i]
      BY <1>1
    <2> QED
      BY Zenon, <1>1, <2>1, <2>2 DEF SerialsOf
  <1>3. ASSUME Sorted(t), Before(SerialsOf(t), {key.n}) PROVE Sorted(q)
    <2> SUFFICES ASSUME NEW i \in DOMAIN q, NEW j \in DOMAIN q, i < j
                 PROVE  q[i].n < q[j].n
      BY Zenon DEF Sorted
    <2>1. i \in 1 .. m /\ q[i] = t[i]
      BY <1>1
    <2>2. CASE j = m + 1
      BY Zenon, <1>1, <1>3, <2>1, <2>2 DEF Before, SerialsOf
    <2>3. CASE j # m + 1
      <3>1. j \in 1 .. m /\ q[j] = t[j]
        BY <1>1, <2>3
      <3> QED
        BY Zenon, <1>1, <1>3, <2>1, <3>1 DEF Sorted
    <2> QED
      BY Zenon, <2>2, <2>3
  <1>4. q # << >>
    BY <1>1
  <1> QED
    BY Zenon, <1>1, <1>2, <1>3, <1>4 DEF q

\* A block put in front of replays.
LEMMA PutInFront ==
  ASSUME NEW BB, NEW x \in Blocks(BB), NEW r \in Seq(Blocks(BB))
  PROVE  /\ << x >> \o r \in Seq(Blocks(BB)) /\ << x >> \o r # << >>
         /\ SerialsIn(<< x >> \o r) = SerialsOf(x.keys) \cup SerialsIn(r)
         /\ x.keys # << >> /\ InTurn(r) /\ Before(SerialsOf(x.keys), SerialsIn(r))
              => InTurn(<< x >> \o r)
  <1> DEFINE q == << x >> \o r
             m == Len(r)
  <1>1. /\ m \in Nat /\ DOMAIN r = 1 .. m
        /\ q \in Seq(Blocks(BB)) /\ DOMAIN q = 1 .. (m + 1)
        /\ q[1] = x /\ \A i \in 1 .. m : q[i + 1] = r[i]
    <2>1. << x >> \in Seq(Blocks(BB)) /\ Len(<< x >>) = 1 /\ << x >>[1] = x
      OBVIOUS
    <2>2. Len(q) = 1 + m /\ q \in Seq(Blocks(BB)) /\ m \in Nat /\ DOMAIN r = 1 .. m
      BY Zenon, <2>1, ConcatProperties, LenProperties
    <2>3. q[1] = x
      BY <2>1, <2>2, ConcatProperties
    <2>4. ASSUME NEW i \in 1 .. m PROVE q[i + 1] = r[i]
      <3>1. i + 1 \in 1 .. Len(<< x >>) + Len(r) /\ ~ (i + 1 <= Len(<< x >>))
            /\ i + 1 - Len(<< x >>) = i
        BY <2>1, <2>2
      <3> QED
        BY <2>1, <3>1, ConcatProperties
    <2> QED
      BY <2>2, <2>3, <2>4, LenProperties
  <1> HIDE DEF q, m
  <1>2. \A i \in DOMAIN q : i = 1 \/ (i - 1 \in 1 .. m /\ q[i] = r[i - 1])
    <2> SUFFICES ASSUME NEW i \in DOMAIN q, i # 1
                 PROVE  i - 1 \in 1 .. m /\ q[i] = r[i - 1]
      BY Zenon
    <2>1. i - 1 \in 1 .. m /\ (i - 1) + 1 = i
      BY <1>1
    <2> QED
      BY Zenon, <1>1, <2>1
  <1>3. SerialsIn(q) = SerialsOf(x.keys) \cup SerialsIn(r)
    <2>1. \A i \in DOMAIN q : SerialsOf(q[i].keys) \subseteq SerialsOf(x.keys) \cup SerialsIn(r)
      BY <1>1, <1>2 DEF SerialsIn
    <2>2. SerialsOf(x.keys) \subseteq SerialsIn(q)
      <3>1. 1 \in DOMAIN q
        BY <1>1
      <3> QED
        BY Zenon, <1>1, <3>1 DEF SerialsIn
    <2>3. \A i \in DOMAIN r : SerialsOf(r[i].keys) \subseteq SerialsIn(q)
      <3> SUFFICES ASSUME NEW i \in DOMAIN r PROVE SerialsOf(r[i].keys) \subseteq SerialsIn(q)
        BY Zenon
      <3>1. i + 1 \in DOMAIN q /\ q[i + 1] = r[i]
        BY <1>1
      <3> QED
        BY Zenon, <3>1 DEF SerialsIn
    <2>4. SerialsIn(q) \subseteq SerialsOf(x.keys) \cup SerialsIn(r)
      BY Zenon, <2>1 DEF SerialsIn
    <2>5. SerialsIn(r) \subseteq SerialsIn(q)
      <3> HIDE DEF q
      <3>1. \A z \in SerialsIn(r) : \E i \in DOMAIN r : z \in SerialsOf(r[i].keys)
        BY Zenon DEF SerialsIn
      <3> QED
        BY Zenon, <2>3, <3>1
    <2> QED
      BY Zenon, <2>2, <2>4, <2>5
  <1>4. ASSUME x.keys # << >>, InTurn(r), Before(SerialsOf(x.keys), SerialsIn(r))
        PROVE  InTurn(q)
    <2>1. \A i \in DOMAIN q : q[i].keys # << >>
      BY <1>1, <1>2, <1>4 DEF InTurn
    <2>2. ASSUME NEW i \in DOMAIN q, NEW j \in DOMAIN q, i < j
          PROVE  Before(SerialsOf(q[i].keys), SerialsOf(q[j].keys))
      <3>1. j - 1 \in 1 .. m /\ q[j] = r[j - 1]
        BY <1>1, <1>2, <2>2
      <3>2. CASE i = 1
        <4>1. SerialsOf(q[j].keys) \subseteq SerialsIn(r)
          BY Zenon, <1>1, <3>1 DEF SerialsIn
        <4> QED
          BY Zenon, <1>1, <1>4, <3>2, <4>1 DEF Before
      <3>3. CASE i # 1
        <4>1. i - 1 \in 1 .. m /\ q[i] = r[i - 1] /\ i - 1 < j - 1
          BY <1>1, <1>2, <2>2, <3>1, <3>3
        <4> QED
          BY Zenon, <1>1, <1>4, <3>1, <4>1 DEF InTurn
      <3> QED
        BY Zenon, <3>2, <3>3
    <2> QED
      BY Zenon, <2>1, <2>2 DEF InTurn
  <1>5. q # << >>
    BY <1>1
  <1> QED
    BY Zenon, <1>1, <1>3, <1>4, <1>5 DEF q

\* replay_prefix takes at least one keystroke and at most all of them.
LEMMA PrefixLengthInRange ==
  ASSUME WellFounded, NEW km, NEW node, NEW t \in Seq(Stroke), t # << >>
  PROVE  PrefixLength(km, t, node) \in 1 .. Len(t)
  <1> DEFINE L == {l \in DOMAIN t : Resolved(km, SubSeq(KeysOf(t), 1, l), node) # {}}
  <1>1. Len(t) \in Nat /\ Len(t) # 0 /\ DOMAIN t = 1 .. Len(t)
    BY Zenon, EmptySeq, LenProperties
  <1>2. PrefixLength(km, t, node) = IF L = {} THEN 1 ELSE Max(L)
    BY Zenon DEF PrefixLength
  <1>3. L \subseteq 1 .. Len(t)
    BY Zenon, <1>1
  <1> HIDE DEF L
  <1>4. CASE L = {}
    BY <1>1, <1>2, <1>4
  <1>5. CASE L # {}
    <2>1. L \in SUBSET (0 .. Len(t))
      BY <1>1, <1>3
    <2>2. Max(L) \in L
      BY Zenon, <1>1, <1>5, <2>1, GreatestElement
    <2> QED
      BY Zenon, <1>2, <1>3, <1>5, <2>2
  <1> QED
    BY Zenon, <1>4, <1>5

LEMMA KeysAreKeys ==
  ASSUME NEW t \in Seq(Stroke)
  PROVE  KeysOf(t) \in Seq(Keys) /\ Len(KeysOf(t)) = Len(t)
  <1>1. Len(t) \in Nat /\ DOMAIN t = 1 .. Len(t) /\ \A i \in 1 .. Len(t) : t[i] \in Stroke
    BY Zenon, LenProperties, ElementOfSeq
  <1>2. KeysOf(t) = [i \in 1 .. Len(t) |-> t[i].k]
    BY Zenon, <1>1 DEF KeysOf
  <1>3. \A i \in 1 .. Len(t) : t[i].k \in Keys
    BY Zenon, <1>1 DEF Stroke
  <1> QED
    BY <1>1, <1>2, <1>3

\* The block replay_prefix makes of the first keystrokes, and the rest.
LEMMA ReplayPrefixCuts ==
  ASSUME WellFounded,
         NEW km, NEW node, NEW A \in SUBSET Stroke, NEW t \in Seq(A), t # << >>
  PROVE  LET x == ReplayPrefix(km, t, node)
             u == AfterPrefix(km, t, node)
         IN  /\ x \in Blocks(Menus(km, node)) /\ x.keys # << >>
             /\ u \in Seq(A) /\ Len(u) < Len(t)
             /\ SerialsOf(t) = SerialsOf(x.keys) \cup SerialsOf(u)
             /\ Sorted(t) => Sorted(u) /\ Before(SerialsOf(x.keys), SerialsOf(u))
  <1> DEFINE l == PrefixLength(km, t, node)
             x == ReplayPrefix(km, t, node)
             u == AfterPrefix(km, t, node)
  <1>1. t \in Seq(Stroke)
    OBVIOUS
  <1>2. l \in 1 .. Len(t) /\ Len(t) \in Nat
    BY Zenon, <1>1, PrefixLengthInRange, LenProperties
  <1>3. x.keys = SubSeq(t, 1, l)
    BY Zenon DEF ReplayPrefix
  <1>4. u = SubSeq(t, l + 1, Len(t))
    BY Zenon DEF AfterPrefix
  <1>5. x \in Blocks(Menus(km, node))
    <2>1. SubSeq(KeysOf(t), 1, l) \in Seq(Keys)
      <3>1. KeysOf(t) \in Seq(Keys) /\ Len(KeysOf(t)) = Len(t)
        BY Zenon, <1>1, KeysAreKeys
      <3>2. \A i \in 1 .. l : i \in 1 .. Len(KeysOf(t))
        BY <1>2, <3>1
      <3> HIDE DEF l
      <3> QED
        BY <1>2, <3>1, SubSeqProperties
    <2>2. BindingsForInput(km, SubSeq(KeysOf(t), 1, l), node) \in Menus(km, node)
      BY Zenon, <2>1 DEF Menus
    <2>3. SubSeq(t, 1, l) \in Seq(Stroke)
      <3> HIDE DEF l
      <3> QED
        BY Zenon, <1>1, <1>2, Cut
    <2>4. x = [keys |-> SubSeq(t, 1, l),
               bindings |-> BindingsForInput(km, SubSeq(KeysOf(t), 1, l), node)]
      BY Zenon DEF ReplayPrefix
    <2> HIDE DEF l, x
    <2> QED
      BY Zenon, <2>2, <2>3, <2>4 DEF Blocks
  <1>6. u \in Seq(A)
    <2>1. l + 1 \in 1 .. Len(t) + 1
      BY <1>2
    <2> HIDE DEF l, u
    <2> QED
      BY <1>2, <1>4, <2>1, SubSeqProperties
  <1> HIDE DEF l, x, u
  <1>7. Len(u) < Len(t)
    <2>1. Len(u) = Len(t) - l
      BY Zenon, <1>1, <1>2, <1>4, Cut
    <2> QED
      BY <1>2, <2>1
  <1>8. /\ x.keys # << >>
        /\ SerialsOf(t) = SerialsOf(x.keys) \cup SerialsOf(u)
        /\ Sorted(t) => Sorted(u) /\ Before(SerialsOf(x.keys), SerialsOf(u))
    BY Zenon, <1>1, <1>2, <1>3, <1>4, Cut
  <1> QED
    BY Zenon, <1>5, <1>6, <1>7, <1>8 DEF x, u

\* flush_dispatch replays exactly the pending keystrokes, in their order.
LEMMA FlushReplaysAll ==
  ASSUME WellFounded,
         NEW km, NEW node, NEW typedKeys \in Seq(Stroke), Sorted(typedKeys)
  PROVE  LET r == FlushDispatch(km, typedKeys, node)
         IN  /\ r \in Seq(Blocks(Menus(km, node))) /\ InTurn(r)
             /\ SerialsIn(r) = SerialsOf(typedKeys)
             /\ typedKeys # << >> => r # << >>
  <1> DEFINE A == Range(typedKeys)
             S == Seq(A)
             V == Seq(Blocks(Menus(km, node)))
             X(t) == ReplayPrefix(km, t, node)
             U(t) == AfterPrefix(km, t, node)
             flush[t \in Seq(Range(typedKeys))] ==
               IF t = << >> THEN << >>
               ELSE << ReplayPrefix(km, t, node) >> \o flush[AfterPrefix(km, t, node)]
  <1>1. A \in SUBSET Stroke /\ typedKeys \in S
    <2>1. /\ DOMAIN typedKeys = 1 .. Len(typedKeys)
          /\ \A i \in 1 .. Len(typedKeys) : typedKeys[i] \in Stroke
      BY Zenon, LenProperties, ElementOfSeq
    <2> QED
      BY <2>1, SeqDef DEF Range
  <1>2. FlushDispatch(km, typedKeys, node) = flush[typedKeys]
    BY Zenon DEF FlushDispatch
  <1>3. ASSUME NEW t \in S, t # << >>
        PROVE  /\ X(t) \in Blocks(Menus(km, node)) /\ X(t).keys # << >>
               /\ U(t) \in S /\ Len(U(t)) < Len(t)
               /\ SerialsOf(t) = SerialsOf(X(t).keys) \cup SerialsOf(U(t))
               /\ Sorted(t) => Sorted(U(t)) /\ Before(SerialsOf(X(t).keys), SerialsOf(U(t)))
    <2> HIDE DEF A
    <2> QED
      BY Zenon, <1>1, <1>3, ReplayPrefixCuts
  <1>4. \A t \in S : flush[t] = IF t = << >> THEN << >> ELSE << X(t) >> \o flush[U(t)]
    <2> DEFINE b == [t \in S |-> << >>]
               N == [t \in S |-> IF t = << >> THEN t ELSE U(t)]
               H == [p \in S \X V |-> IF p[1] = << >> THEN << >> ELSE << X(p[1]) >> \o p[2]]
               rank == [t \in S |-> Len(t)]
               Base == {<< >>}
    <2>1. b \in [S -> V] /\ N \in [S -> S] /\ rank \in [S -> Nat]
      <3>1. b \in [S -> V]
        OBVIOUS
      <3>2. N \in [S -> S]
        <4> HIDE DEF S, U
        <4> QED
          BY Zenon, <1>3
      <3>3. rank \in [S -> Nat]
        BY Zenon, LenProperties
      <3> QED
        BY Zenon, <3>1, <3>2, <3>3
    <2>2. H \in [S \X V -> V]
      <3> SUFFICES ASSUME NEW t \in S, NEW v \in V, t # << >>
                   PROVE  << X(t) >> \o v \in V
        OBVIOUS
      <3>1. X(t) \in Blocks(Menus(km, node))
        <4> HIDE DEF S, X
        <4> QED
          BY Zenon, <1>3
      <3> HIDE DEF X
      <3> QED
        BY Zenon, <3>1, PutInFront
    <2>3. \A t \in S \ Base : rank[N[t]] < rank[t]
      <3> HIDE DEF S, U
      <3> QED
        BY Zenon, <1>3
    <2>4. PICK f \in [S -> V] :
             \A t \in S : f[t] = IF t \in Base THEN b[t] ELSE H[<<t, f[N[t]]>>]
      <3> HIDE DEF b, N, H, rank, Base, S, V
      <3>1. Recursion(S, V, Base, b, N, H, rank)
        BY Zenon, <2>1, <2>2, <2>3 DEF Recursion
      <3>2. Solvable(S, V, Base, b, N, H)
        BY Zenon, <3>1, RecursionExists
      <3> QED
        BY Zenon, <3>2 DEF Solvable
    <2>5. ASSUME NEW t \in S
          PROVE  f[t] = IF t = << >> THEN << >> ELSE << X(t) >> \o f[U(t)]
      <3>1. t # << >> => N[t] = U(t) /\ f[U(t)] \in V
        <4> HIDE DEF S, U, V
        <4> QED
          BY Zenon, <1>3, <2>4
      <3>2. t # << >> => H[<<t, f[U(t)]>>] = << X(t) >> \o f[U(t)]
        <4> HIDE DEF S, U, V, X
        <4> QED
          BY Zenon, <3>1
      <3> HIDE DEF S, U, V, X, H, N
      <3> QED
        BY Zenon, <2>4, <3>1, <3>2
    <2>6. f = [t \in S |-> IF t = << >> THEN << >> ELSE << X(t) >> \o f[U(t)]]
      <3> HIDE DEF S, U, V, X
      <3> QED
        BY Zenon, <2>4, <2>5
    <2>7. flush = [t \in S |-> IF t = << >> THEN << >> ELSE << X(t) >> \o flush[U(t)]]
      BY ZenonT(30), <2>6
    <2> HIDE DEF flush, S, X, U
    <2> QED
      BY Zenon, <2>7
  <1> DEFINE Good(t) == /\ flush[t] \in V /\ InTurn(flush[t])
                        /\ SerialsIn(flush[t]) = SerialsOf(t)
                        /\ t # << >> => flush[t] # << >>
             Bad == {n \in Nat : \E t \in S : Len(t) = n /\ Sorted(t) /\ ~Good(t)}
  <1>5. Bad = {}
    <2> SUFFICES ASSUME Bad # {} PROVE FALSE
      BY Zenon
    <2>1. PICK n \in Bad : \A m \in Bad : n <= m
      <3>1. Bad \in SUBSET Nat
        BY Zenon
      <3> HIDE DEF Bad
      <3> QED
        BY Zenon, <3>1, LeastElement
    <2>2. PICK t \in S : Len(t) = n /\ Sorted(t) /\ ~Good(t)
      BY Zenon, <2>1
    <2>3. t # << >>
      <3> SUFFICES ASSUME t = << >> PROVE FALSE
        BY Zenon
      <3>1. flush[t] = << >>
        <4> HIDE DEF flush, S, X, U
        <4> QED
          BY ZenonT(30), <1>4
      <3>2. << >> \in V /\ InTurn(<< >>) /\ SerialsIn(<< >>) = {} /\ SerialsOf(<< >>) = {}
        BY Zenon, NoBlocks
      <3> HIDE DEF V, flush
      <3> QED
        BY Zenon, <2>2, <3>1, <3>2
    <2> HIDE DEF X, U, flush, S
    <2>4. /\ X(t) \in Blocks(Menus(km, node)) /\ X(t).keys # << >>
          /\ U(t) \in S /\ Len(U(t)) < Len(t)
          /\ SerialsOf(t) = SerialsOf(X(t).keys) \cup SerialsOf(U(t))
          /\ Sorted(U(t)) /\ Before(SerialsOf(X(t).keys), SerialsOf(U(t)))
      BY Zenon, <1>3, <2>2, <2>3
    <2>5. Good(U(t))
      <3>1. Len(U(t)) \in Nat
        BY Zenon, <2>4, LenProperties DEF S
      <3> HIDE DEF Good
      <3> QED
        BY <2>1, <2>2, <2>4, <3>1
    <2>6. flush[t] = << X(t) >> \o flush[U(t)]
      BY Zenon, <1>4, <2>3
    <2>7. /\ flush[t] \in V /\ flush[t] # << >> /\ InTurn(flush[t])
          /\ SerialsIn(flush[t]) = SerialsOf(X(t).keys) \cup SerialsOf(U(t))
      BY <2>4, <2>5, <2>6, PutInFront
    <2> QED
      BY Zenon, <2>2, <2>4, <2>7
  <1>6. Good(typedKeys)
    <2>1. Len(typedKeys) \in Nat
      BY Zenon, LenProperties
    <2> HIDE DEF Good, S, flush
    <2> QED
      BY Zenon, <1>1, <1>5, <2>1
  <1> HIDE DEF flush, S
  <1> QED
    BY Zenon, <1>2, <1>6

\* The keystrokes with the serials of P, as dispatch_key gives them back:
\* replays in turn, and then either a sequence to wait with or one to act on.
GivenBack(d, P) ==
  /\ InTurn(d.replay) /\ Sorted(d.pending)
  /\ (d.pending = << >>) = (d.keys # << >>)
  /\ SerialsIn(d.replay) \cup SerialsOf(d.pending) \cup SerialsOf(d.keys) = P
  /\ Before(SerialsIn(d.replay), SerialsOf(d.pending) \cup SerialsOf(d.keys))

\* dispatch_key gives back exactly the pending keystrokes and the new one, in
\* their order.
LEMMA DispatchGivesBackAll ==
  ASSUME WellFounded,
         NEW km, NEW node, NEW typedKeys \in Seq(Stroke), NEW key \in Stroke,
         Sorted(typedKeys), Before(SerialsOf(typedKeys), {key.n})
  PROVE  LET d == DispatchKey(km, typedKeys, key, node)
         IN  d \in Results(Menus(km, node)) /\ GivenBack(d, SerialsOf(typedKeys) \cup {key.n})
  <1> DEFINE A == Range(typedKeys)
             S == Seq(A)
             V == Results(Menus(km, node))
             X(t) == ReplayPrefix(km, t, node)
             U(t) == AfterPrefix(km, t, node)
             Waits(t) == PendingFor(km, KeysOf(Append(t, key)), node)
             Menu(t) == BindingsForInput(km, KeysOf(Append(t, key)), node)
             Pends(t) == [replay |-> << >>, pending |-> Append(t, key), bindings |-> << >>,
                          keys |-> << >>]
             Acts(t) == [replay |-> << >>, pending |-> << >>, bindings |-> Menu(t),
                         keys |-> Append(t, key)]
             Stops(t) == Waits(t) \/ Menu(t) # << >> \/ t = << >>
             InFront(t, d) == [d EXCEPT !.replay = << X(t) >> \o @]
             dispatch[t \in Seq(Range(typedKeys))] ==
               LET input == KeysOf(Append(t, key))
                   bindings == BindingsForInput(km, input, node)
               IN  CASE PendingFor(km, input, node) ->
                          [replay |-> << >>, pending |-> Append(t, key), bindings |-> << >>,
                           keys |-> << >>]
                     [] ~PendingFor(km, input, node) /\ (bindings # << >> \/ t = << >>) ->
                          [replay |-> << >>, pending |-> << >>, bindings |-> bindings,
                           keys |-> Append(t, key)]
                     [] OTHER ->
                          LET rest == dispatch[AfterPrefix(km, t, node)]
                          IN  [rest EXCEPT !.replay = << ReplayPrefix(km, t, node) >> \o @]
             Value(t, d) == IF Stops(t) THEN IF Waits(t) THEN Pends(t) ELSE Acts(t)
                            ELSE InFront(t, d)
  <1>1. A \in SUBSET Stroke /\ typedKeys \in S
    <2>1. /\ DOMAIN typedKeys = 1 .. Len(typedKeys)
          /\ \A i \in 1 .. Len(typedKeys) : typedKeys[i] \in Stroke
      BY Zenon, LenProperties, ElementOfSeq
    <2> QED
      BY <2>1, SeqDef DEF Range
  <1>2. DispatchKey(km, typedKeys, key, node) = dispatch[typedKeys]
    BY Zenon DEF DispatchKey
  <1>3. ASSUME NEW t \in S, t # << >>
        PROVE  /\ X(t) \in Blocks(Menus(km, node)) /\ X(t).keys # << >>
               /\ U(t) \in S /\ Len(U(t)) < Len(t)
               /\ SerialsOf(t) = SerialsOf(X(t).keys) \cup SerialsOf(U(t))
               /\ Sorted(t) => Sorted(U(t)) /\ Before(SerialsOf(X(t).keys), SerialsOf(U(t)))
    <2> HIDE DEF A
    <2> QED
      BY Zenon, <1>1, <1>3, ReplayPrefixCuts
  <1>4. ASSUME NEW t \in S
        PROVE  t \in Seq(Stroke) /\ Pends(t) \in V /\ Acts(t) \in V
    <2>1. t \in Seq(Stroke)
      BY <1>1
    <2>2. Append(t, key) \in Seq(Stroke)
      BY Zenon, <2>1, Added
    <2>3. Menu(t) \in Menus(km, node) /\ << >> \in Menus(km, node)
      BY Zenon, <2>2, KeysAreKeys DEF Menus
    <2>4. << >> \in Seq(Blocks(Menus(km, node))) /\ << >> \in Seq(Stroke)
      OBVIOUS
    <2> HIDE DEF Menu
    <2> QED
      BY Zenon, <2>1, <2>2, <2>3, <2>4 DEF Results
  <1>5. ASSUME NEW t \in S, t # << >>, NEW d \in V
        PROVE  /\ InFront(t, d) \in V
               /\ InFront(t, d).replay = << X(t) >> \o d.replay
               /\ InFront(t, d).pending = d.pending /\ InFront(t, d).keys = d.keys
    <2>1. X(t) \in Blocks(Menus(km, node))
      <3> HIDE DEF S, X, U
      <3> QED
        BY Zenon, <1>3, <1>5
    <2>2. d.replay \in Seq(Blocks(Menus(km, node)))
      BY Zenon DEF Results
    <2> HIDE DEF X
    <2>3. << X(t) >> \o d.replay \in Seq(Blocks(Menus(km, node)))
      BY Zenon, <2>1, <2>2, PutInFront
    <2> QED
      BY Zenon, <2>3 DEF Results
  <1>6. \A t \in S : dispatch[t] = Value(t, dispatch[U(t)])
    <2> DEFINE b == [t \in S |-> IF Waits(t) THEN Pends(t) ELSE Acts(t)]
               N == [t \in S |-> IF t = << >> THEN t ELSE U(t)]
               H == [p \in S \X V |-> IF p[1] = << >> THEN p[2] ELSE InFront(p[1], p[2])]
               rank == [t \in S |-> Len(t)]
               Base == {t \in S : Stops(t)}
    <2>1. b \in [S -> V]
      <3> HIDE DEF S, V, Waits, Pends, Acts
      <3> QED
        BY Zenon, <1>4
    <2>2. N \in [S -> S] /\ rank \in [S -> Nat]
      <3>1. N \in [S -> S]
        <4> HIDE DEF S, U, X
        <4> QED
          BY Zenon, <1>3
      <3>2. rank \in [S -> Nat]
        BY Zenon, LenProperties
      <3> QED
        BY Zenon, <3>1, <3>2
    <2>3. H \in [S \X V -> V]
      <3> HIDE DEF S, V, InFront
      <3> QED
        BY Zenon, <1>5
    <2>4. \A t \in S \ Base : rank[N[t]] < rank[t]
      <3> HIDE DEF S, U, X, Waits, Menu
      <3> QED
        BY Zenon, <1>3
    <2>5. PICK f \in [S -> V] :
             \A t \in S : f[t] = IF t \in Base THEN b[t] ELSE H[<<t, f[N[t]]>>]
      <3> HIDE DEF b, N, H, rank, Base, S, V
      <3>1. Recursion(S, V, Base, b, N, H, rank)
        BY Zenon, <2>1, <2>2, <2>3, <2>4 DEF Recursion
      <3>2. Solvable(S, V, Base, b, N, H)
        BY Zenon, <3>1, RecursionExists
      <3> QED
        BY Zenon, <3>2 DEF Solvable
    <2>6. ASSUME NEW t \in S PROVE f[t] = Value(t, f[U(t)])
      <3>1. CASE Stops(t)
        <4> HIDE DEF S, V, H, N, Waits, Pends, Acts, Menu
        <4> QED
          BY Zenon, <2>5, <3>1
      <3>2. CASE ~Stops(t)
        <4>1. t # << >> /\ t \notin Base
          BY Zenon, <3>2
        <4>2. N[t] = U(t) /\ U(t) \in S /\ f[U(t)] \in V
          <5> HIDE DEF S, U, V, X
          <5> QED
            BY Zenon, <1>3, <2>5, <4>1
        <4>3. H[<<t, f[U(t)]>>] = InFront(t, f[U(t)])
          <5> HIDE DEF S, V, U, InFront
          <5> QED
            BY Zenon, <4>1, <4>2
        <4> HIDE DEF S, V, U, H, N, Base, Stops, InFront, b
        <4> QED
          BY Zenon, <2>5, <3>2, <4>1, <4>2, <4>3
      <3> QED
        BY Zenon, <3>1, <3>2
    <2>7. f = [t \in S |-> Value(t, f[U(t)])]
      <3> HIDE DEF S, U, V, Value
      <3> QED
        BY ZenonT(60), <2>5, <2>6
    <2>8. dispatch = [t \in S |-> Value(t, dispatch[U(t)])]
      BY ZenonT(60), <2>7
    <2> HIDE DEF dispatch, S, U, Value
    <2> QED
      BY Zenon, <2>8
  <1> DEFINE Good(t) == /\ dispatch[t] \in V
                        /\ GivenBack(dispatch[t], SerialsOf(t) \cup {key.n})
             Bad == {n \in Nat : \E t \in S : /\ Len(t) = n /\ Sorted(t)
                                              /\ Before(SerialsOf(t), {key.n}) /\ ~Good(t)}
  <1>7. Bad = {}
    <2> SUFFICES ASSUME Bad # {} PROVE FALSE
      BY Zenon
    <2>1. PICK n \in Bad : \A m \in Bad : n <= m
      <3>1. Bad \in SUBSET Nat
        BY Zenon
      <3> HIDE DEF Bad
      <3> QED
        BY Zenon, <3>1, LeastElement
    <2>2. PICK t \in S : /\ Len(t) = n /\ Sorted(t) /\ Before(SerialsOf(t), {key.n})
                         /\ ~Good(t)
      BY ZenonT(30), <2>1
    <2>3. /\ t \in Seq(Stroke) /\ Append(t, key) # << >> /\ Sorted(Append(t, key))
          /\ SerialsOf(Append(t, key)) = SerialsOf(t) \cup {key.n}
          /\ Pends(t) \in V /\ Acts(t) \in V
      <3> HIDE DEF S, Pends, Acts, dispatch, V
      <3> QED
        BY Zenon, <1>4, <2>2, Added
    <2>4. /\ InTurn(<< >>) /\ SerialsIn(<< >>) = {} /\ SerialsOf(<< >>) = {} /\ Sorted(<< >>)
      BY Zenon, NoBlocks
    <2>5. GivenBack(Pends(t), SerialsOf(t) \cup {key.n})
      BY Zenon, <2>3, <2>4 DEF GivenBack, Before
    <2>6. GivenBack(Acts(t), SerialsOf(t) \cup {key.n})
      <3> HIDE DEF Menu
      <3> QED
        BY ZenonT(30), <2>3, <2>4 DEF GivenBack, Before
    <2>7. ~Stops(t)
      <3> SUFFICES ASSUME Stops(t) PROVE FALSE
        BY Zenon
      <3>1. dispatch[t] = Pends(t) \/ dispatch[t] = Acts(t)
        <4> HIDE DEF dispatch, S, U, Stops, Pends, Acts, Waits
        <4> QED
          BY Zenon, <1>6
      <3> HIDE DEF dispatch, Pends, Acts, V
      <3> QED
        BY Zenon, <2>2, <2>3, <2>5, <2>6, <3>1
    <2>8. t # << >> /\ dispatch[t] = InFront(t, dispatch[U(t)])
      <3>1. t # << >>
        BY Zenon, <2>7
      <3> HIDE DEF dispatch, S, U, Stops, InFront
      <3> QED
        BY Zenon, <1>6, <2>7, <3>1
    <2> HIDE DEF X, U, dispatch, S, InFront, V
    <2>9. /\ X(t) \in Blocks(Menus(km, node)) /\ X(t).keys # << >>
          /\ U(t) \in S /\ Len(U(t)) < Len(t)
          /\ SerialsOf(t) = SerialsOf(X(t).keys) \cup SerialsOf(U(t))
          /\ Sorted(U(t)) /\ Before(SerialsOf(X(t).keys), SerialsOf(U(t)))
      BY ZenonT(30), <1>3, <2>2, <2>8
    <2>10. Good(U(t))
      <3>1. Len(U(t)) \in Nat
        BY ZenonT(30), <2>9, LenProperties DEF S
      <3>2. Before(SerialsOf(U(t)), {key.n})
        BY Zenon, <2>2, <2>9 DEF Before
      <3> SUFFICES ASSUME ~Good(U(t)) PROVE FALSE
        BY Zenon
      <3> HIDE DEF Good
      <3>3. Len(U(t)) \in Bad
        BY Zenon, <2>9, <3>1, <3>2
      <3> HIDE DEF Bad
      <3> QED
        BY <2>1, <2>2, <2>9, <3>1, <3>3
    <2> DEFINE r == dispatch[U(t)].replay
               x == X(t)
               rest == SerialsOf(dispatch[U(t)].pending) \cup SerialsOf(dispatch[U(t)].keys)
    <2>11. /\ dispatch[t] \in V /\ dispatch[t].replay = << x >> \o r
           /\ dispatch[t].pending = dispatch[U(t)].pending
           /\ dispatch[t].keys = dispatch[U(t)].keys
      <3> DEFINE d == dispatch[U(t)]
      <3>1. d \in V
        BY Zenon, <2>10
      <3>2. dispatch[t] = InFront(t, d)
        BY Zenon, <2>8
      <3> HIDE DEF d
      <3>3. /\ InFront(t, d) \in V /\ InFront(t, d).replay = << X(t) >> \o d.replay
            /\ InFront(t, d).pending = d.pending /\ InFront(t, d).keys = d.keys
        BY Zenon, <1>5, <2>8, <3>1
      <3> QED
        BY Zenon, <3>2, <3>3 DEF d
    <2>12. r \in Seq(Blocks(Menus(km, node)))
      BY Zenon, <2>10 DEF V, Results
    <2>13. /\ InTurn(r) /\ SerialsIn(r) \cup rest = SerialsOf(U(t)) \cup {key.n}
           /\ Before(SerialsIn(r), rest)
      BY Zenon, <2>10 DEF GivenBack
    <2>14. Before(SerialsOf(x.keys), SerialsOf(U(t)) \cup {key.n})
      BY Zenon, <2>2, <2>9 DEF Before
    <2>15. Before(SerialsOf(x.keys), SerialsIn(r)) /\ Before(SerialsOf(x.keys), rest)
      <3> HIDE DEF rest, r, x
      <3> QED
        BY Zenon, <2>13, <2>14 DEF Before
    <2>16. /\ InTurn(<< x >> \o r)
           /\ SerialsIn(<< x >> \o r) = SerialsOf(x.keys) \cup SerialsIn(r)
      <3>1. x \in Blocks(Menus(km, node)) /\ x.keys # << >>
        BY Zenon, <2>9
      <3> HIDE DEF x, r
      <3> QED
        BY <2>12, <2>13, <2>15, <3>1, PutInFront
    <2>17. GivenBack(dispatch[t], SerialsOf(t) \cup {key.n})
      <3>1. /\ SerialsIn(dispatch[t].replay) = SerialsOf(x.keys) \cup SerialsIn(r)
            /\ SerialsOf(t) = SerialsOf(x.keys) \cup SerialsOf(U(t))
        BY ZenonT(30), <2>9, <2>11, <2>16
      <3>2. rest = SerialsOf(dispatch[t].pending) \cup SerialsOf(dispatch[t].keys)
        BY Zenon, <2>11
      <3>3. /\ Sorted(dispatch[t].pending)
            /\ (dispatch[t].pending = << >>) = (dispatch[t].keys # << >>)
        BY ZenonT(30), <2>10, <2>11 DEF GivenBack
      <3>4. InTurn(dispatch[t].replay)
        BY Zenon, <2>11, <2>16
      <3> HIDE DEF rest, r, x
      <3>5. SerialsIn(dispatch[t].replay) \cup rest = SerialsOf(t) \cup {key.n}
        BY Zenon, <2>13, <3>1
      <3>6. Before(SerialsIn(dispatch[t].replay), rest)
        BY Zenon, <2>13, <2>15, <3>1 DEF Before
      <3> QED
        BY Zenon, <3>2, <3>3, <3>4, <3>5, <3>6 DEF GivenBack
    <2> QED
      BY Zenon, <2>2, <2>11, <2>17
  <1>8. Good(typedKeys)
    <2>1. Len(typedKeys) \in Nat
      BY Zenon, LenProperties
    <2> HIDE DEF Good, S, dispatch
    <2> QED
      BY Zenon, <1>1, <1>7, <2>1
  <1> HIDE DEF dispatch, S
  <1> QED
    BY Zenon, <1>2, <1>8

----------------------------------------------------------------------------
(* The inductive invariant.                                                *)

Timeouts == [st : {"none", "running", "paused"}, task : Nat,
             owner : Owners \cup {NoOwner}, rem : Nat]
Pendings == [keys : Seq(Stroke), focus : Focuses \cup {NoFocus}, timeout : Timeouts]

\* A dispatch in progress, with lists of bindings of BB.
Works(BB) ==
  [stage : {"intercept", "match", "event", "replay", "pend", "prefer", "bind", "done"},
   key : Stroke, node : Focuses \cup {NoFocus, Root}, prefer : BOOLEAN, fresh : BOOLEAN,
   replay : Seq(Blocks(BB)), next : Seq(Stroke), bindings : BB, keys : Seq(Stroke),
   prev : Timeouts]

\* The timeout a dispatch has taken from the pending input.
Taken == IF work = Idle THEN NoTimeout ELSE work.prev

\* The task a timeout keeps alive.
Held(to) == IF to.st = "running" THEN {to.task} ELSE {}

\* The window between two calls.
WindowInv ==
  /\ focus \in Focuses \cup {NoFocus} /\ pending \in Pendings
  /\ deferred \in BOOLEAN /\ silent \in BOOLEAN
  /\ pending = None \/ (IsPending(pending) /\ pending.timeout.st # "none")
  /\ IsPending(pending) => pending.focus = focus
  /\ DOMAIN tasks \subseteq Nat \ {0}
  /\ \A t \in DOMAIN tasks : tasks[t] \in [age : Nat, rem : Nat] /\ tasks[t].age <= tasks[t].rem

\* The tasks alive while a dispatch holds the timeout to.
Timers(to) ==
  /\ DOMAIN tasks = Held(pending.timeout) \cup Held(to)
  /\ pending = None \/ to = NoTimeout

\* What a dispatch has taken and found, by its stage.
StageInv ==
  /\ work.stage \in {"intercept", "match"} => work.fresh /\ work.prev = NoTimeout
  /\ work.stage = "event" => ~work.fresh /\ work.prev = NoTimeout /\ work.keys # << >>
  /\ work.stage \in {"replay", "pend", "prefer", "bind", "done"} => pending = None
  /\ work.stage \in {"pend", "prefer", "bind", "done"} => work.fresh
  /\ work.stage = "replay" =>
       /\ work.replay # << >>
       /\ work.fresh => (work.next = << >>) = (work.keys # << >>)
       /\ ~work.fresh => work.prev = NoTimeout /\ work.next = << >> /\ work.keys = << >>
  /\ work.stage = "pend" => work.next # << >>
  /\ work.stage \in {"prefer", "bind"} => work.keys # << >>

WorkInv == work = Idle \/ ((\E BB : work \in Works(BB)) /\ StageInv)

TimeoutInv == WindowInv /\ Timers(Taken) /\ WorkInv /\ typed \in Nat /\ quiet \in Nat

\* The time a timeout still has to run.
Left == IF pending.timeout.st = "running"
        THEN tasks[pending.timeout.task].rem - tasks[pending.timeout.task].age
        ELSE pending.timeout.rem

QuietInv == IsPending(pending) => quiet + Left >= Timeout

\* The observers are told at the end of a dispatch that takes the pending
\* input; until then, and in every other one, they know it as it is.
Settled == \/ work = Idle \/ work.stage \in {"intercept", "event"}
           \/ work.stage = "replay" /\ ~work.fresh

ToldInv == Settled /\ ~deferred /\ ~silent => told = Status(pending, focus)

\* The keystrokes a dispatch has taken and not yet delivered.
InFlight ==
  IF work = Idle \/ work.stage = "done" THEN {}
  ELSE IF work.stage \in {"intercept", "match"} THEN {work.key.n}
  ELSE IF work.stage = "pend" THEN SerialsOf(work.next)
  ELSE IF work.stage = "replay"
       THEN SerialsIn(work.replay) \cup SerialsOf(work.next) \cup SerialsOf(work.keys)
  ELSE SerialsOf(work.keys)

\* Every keystroke typed is in exactly one of four places, and none that may
\* still be delivered is older than the last one delivered.
PlacesInv ==
  LET p == SerialsOf(pending.keys)
  IN  /\ 1 .. typed = handled \cup discarded \cup p \cup InFlight
      /\ handled \cap discarded = {} /\ p \cap (handled \cup discarded) = {}
      /\ InFlight \cap (handled \cup discarded \cup p) = {}
      /\ last \in Nat /\ last <= typed /\ Before({last}, p \cup InFlight)
      /\ Sorted(pending.keys)

QueueInv ==
  work # Idle =>
    /\ work.stage \in {"intercept", "match"} => work.key.n = typed
    /\ work.stage = "replay" =>
         /\ InTurn(work.replay)
         /\ Before(SerialsIn(work.replay), SerialsOf(work.next) \cup SerialsOf(work.keys))
    /\ work.stage \in {"replay", "pend"} => Sorted(work.next)

----------------------------------------------------------------------------
(* What the program's own code can do to the window.                       *)

Cleared ==
  /\ pending' = None /\ tasks' = Drop(pending.timeout.task)
  /\ discarded' = discarded \cup SerialsOf(pending.keys)
  /\ focus' \in Focuses \cup {NoFocus}
  /\ deferred' \in BOOLEAN /\ silent' \in BOOLEAN
  /\ deferred => deferred'
  /\ silent => silent'
  /\ IsPending(pending) => deferred' \/ silent'

Paused ==
  /\ IsPending(pending) /\ pending.timeout.st = "running"
  /\ \E o \in Owners :
       pending' = [pending EXCEPT !.timeout =
                     [st |-> "paused", task |-> 0, owner |-> o,
                      rem |-> tasks[pending.timeout.task].rem - tasks[pending.timeout.task].age]]
  /\ tasks' = Drop(pending.timeout.task)
  /\ deferred' = TRUE
  /\ UNCHANGED << focus, discarded, silent >>

Resumed ==
  /\ IsPending(pending) /\ pending.timeout.st = "paused"
  /\ ResumeTimeout
  /\ UNCHANGED << focus, discarded, silent >>

WindowStep ==
  \/ Cleared \/ Paused \/ Resumed
  \/ UNCHANGED << focus, pending, tasks, deferred, discarded, silent >>

LEMMA CallIsWindowStep ==
  ASSUME WindowInv, Call PROVE WindowStep
  <1>1. ASSUME NEW f \in Focuses, Focus(f) PROVE Cleared
    BY Zenon, <1>1 DEF Focus, Cleared, WindowInv
  <1>2. ASSUME NEW d \in BOOLEAN, Blur(d) PROVE Cleared
    BY Zenon, <1>2 DEF Blur, ClearPendingKeystrokes, Cleared, WindowInv
  <1>3. ASSUME NEW o \in Owners, Pause(o) PROVE Paused
    BY Zenon, <1>3 DEF Pause, Paused
  <1>4. ASSUME NEW o \in Owners, Resume(o) PROVE Resumed
    BY Zenon, <1>4 DEF Resume, CanResume, Resumed
  <1>5. ASSUME NEW o \in Owners, DropOwner(o)
        PROVE UNCHANGED << focus, pending, tasks, deferred, discarded, silent >>
    BY Zenon, <1>5 DEF DropOwner
  <1>6. ASSUME ChangeBindings
        PROVE UNCHANGED << focus, pending, tasks, deferred, discarded, silent >>
    BY Zenon, <1>6 DEF ChangeBindings
  <1> QED
    BY Zenon, <1>1, <1>2, <1>3, <1>4, <1>5, <1>6 DEF Call, WindowStep

LEMMA OpenAppMenuIsWindowStep ==
  ASSUME WindowInv, OpenAppMenu PROVE WindowStep
  BY Zenon DEF OpenAppMenu, ClearPendingKeystrokes, Cleared, WindowStep, WindowInv

LEMMA ListenerIsWindowStep ==
  ASSUME WindowInv, Listener PROVE WindowStep
  BY Zenon, CallIsWindowStep DEF Listener, WindowStep, appVars

\* With at most one task alive there is a number for a new one.
LEMMA FreshTaskIsNew ==
  ASSUME NEW t \in Nat, DOMAIN tasks \subseteq {t}
  PROVE  FreshTask \in Nat \ {0} /\ FreshTask \notin DOMAIN tasks
  <1> DEFINE T == DOMAIN tasks \cup {0}
  <1>1. T \in SUBSET (0 .. t) /\ T # {}
    OBVIOUS
  <1>2. Max(T) \in T /\ \A u \in T : Max(T) >= u
    <2>1. \E x \in T : \A u \in T : x >= u
      <3>1. CASE T = {0}
        BY <3>1
      <3>2. CASE t \in T
        BY <1>1, <3>2
      <3> QED
        BY Zenon, <3>1, <3>2
    <2> HIDE DEF T
    <2> QED
      BY <2>1, Zenon DEF Max
  <1>3. Max(T) \in Nat /\ Max(T) + 1 \in 1 .. (Max(T) + 1) /\ Max(T) + 1 \notin T
    <2> DEFINE m == Max(T)
    <2>1. m \in Nat
      BY <1>1, <1>2
    <2> HIDE DEF m, T
    <2>2. ~ (m >= m + 1) /\ m + 1 \in 1 .. (m + 1)
      BY <2>1
    <2>3. \A u \in T : m >= u
      BY Zenon, <1>2 DEF m
    <2>4. m + 1 \notin T
      BY Zenon, <2>2, <2>3
    <2> QED
      BY Zenon, <2>1, <2>2, <2>4 DEF m
  <1>4. FreshTask \in 1 .. (Max(T) + 1) /\ FreshTask \notin DOMAIN tasks
    BY Zenon, <1>3 DEF FreshTask
  <1> QED
    BY <1>3, <1>4

LEMMA NothingPending ==
  /\ None \in Pendings /\ ~IsPending(None) /\ None.timeout = NoTimeout
  /\ NoTimeout \in Timeouts /\ Held(NoTimeout) = {} /\ None.keys = << >>
  BY SMTT(30) DEF None, NoTimeout, Pendings, Timeouts, Held, IsPending

\* No call leaves a second task behind, or pending input that is not the
\* focused element's.
LEMMA WindowStepKeeps ==
  ASSUME NEW to, WindowInv, Timers(to), WindowStep
  PROVE  WindowInv' /\ Timers(to)' /\ (pending = None => pending' = None)
  <1> USE NothingPending
  <1>1. CASE Cleared
    <2>1. DOMAIN tasks' = DOMAIN tasks \ {pending.timeout.task}
          /\ \A t \in DOMAIN tasks' : tasks'[t] = tasks[t]
      BY Zenon, <1>1 DEF Cleared, Drop
    <2>2. DOMAIN tasks' = Held(to)
      <3>1. CASE pending = None
        BY Zenon, <2>1, <3>1 DEF Timers, WindowInv, None, NoTimeout
      <3>2. CASE pending # None
        BY Zenon, <2>1, <3>2 DEF Timers, Held
      <3> QED
        BY Zenon, <3>1, <3>2
    <2> QED
      BY Zenon, <1>1, <2>1, <2>2 DEF Cleared, WindowInv, Timers
  <1>2. CASE Paused
    <2>1. PICK o \in Owners :
            pending' = [pending EXCEPT !.timeout =
                     [st |-> "paused", task |-> 0, owner |-> o,
                      rem |-> tasks[pending.timeout.task].rem - tasks[pending.timeout.task].age]]
      BY Zenon, <1>2 DEF Paused
    <2>2. pending # None /\ to = NoTimeout /\ DOMAIN tasks = {pending.timeout.task}
      BY Zenon, <1>2 DEF Paused, Timers, Held
    <2>3. /\ pending'.keys = pending.keys /\ pending'.focus = pending.focus
          /\ pending' \in Pendings /\ pending'.timeout.st = "paused"
      <3> DEFINE t == pending.timeout.task
      <3>1. tasks[t].rem - tasks[t].age \in Nat
        <4>1. tasks[t].rem \in Nat /\ tasks[t].age \in Nat /\ tasks[t].age <= tasks[t].rem
          BY Zenon, <2>2 DEF WindowInv
        <4> HIDE DEF t
        <4> QED
          BY <4>1
      <3> QED
        BY Zenon, <2>1, <3>1 DEF WindowInv, Pendings, Timeouts
    <2>4. DOMAIN tasks' = {}
      BY Zenon, <1>2, <2>2 DEF Paused, Drop
    <2>5. Timers(to)'
      BY Zenon, <2>2, <2>3, <2>4 DEF Timers, Held
    <2>6. WindowInv'
      BY Zenon, <1>2, <2>3, <2>4 DEF Paused, WindowInv, IsPending
    <2> QED
      BY Zenon, <2>2, <2>5, <2>6
  <1>3. CASE Resumed
    <2>1. pending # None /\ to = NoTimeout /\ DOMAIN tasks = {}
      BY Zenon, <1>3 DEF Resumed, Timers, Held
    <2>2. FreshTask \in Nat \ {0}
      BY Zenon, <2>1, FreshTaskIsNew
    <2>3. /\ pending'.keys = pending.keys /\ pending'.focus = pending.focus
          /\ pending' \in Pendings
          /\ pending'.timeout.st = "running" /\ pending'.timeout.task = FreshTask
      BY ZenonT(30), <1>3, <2>2 DEF Resumed, ResumeTimeout, WindowInv, Pendings, Timeouts
    <2>4. pending.timeout.rem \in Nat
      BY Zenon DEF WindowInv, Pendings, Timeouts
    <2>5. /\ DOMAIN tasks' = {FreshTask}
          /\ tasks'[FreshTask] = [age |-> 0, rem |-> pending.timeout.rem]
      BY Zenon, <1>3, <2>1 DEF Resumed, ResumeTimeout, Start
    <2>6. Timers(to)'
      BY Zenon, <2>1, <2>3, <2>5 DEF Timers, Held
    <2>7. WindowInv'
      <3> HIDE DEF FreshTask
      <3>1. deferred' = TRUE /\ silent' = silent /\ focus' = focus
        BY Zenon, <1>3 DEF Resumed, ResumeTimeout
      <3>2. tasks'[FreshTask] \in [age : Nat, rem : Nat]
            /\ tasks'[FreshTask].age <= tasks'[FreshTask].rem
        BY SMTT(30), <2>4, <2>5
      <3> QED
        BY Zenon, <1>3, <2>2, <2>3, <2>5, <3>1, <3>2 DEF WindowInv, IsPending, Resumed
    <2> QED
      BY Zenon, <2>1, <2>6, <2>7
  <1>4. CASE UNCHANGED << focus, pending, tasks, deferred, discarded, silent >>
    BY Zenon, <1>4 DEF WindowInv, Timers
  <1> QED
    BY Zenon, <1>1, <1>2, <1>3, <1>4 DEF WindowStep

\* A pause keeps what is left of the timeout and resuming runs it.
LEMMA WindowStepQuiet ==
  ASSUME NEW to, WindowInv, Timers(to), quiet \in Nat, QuietInv, WindowStep, quiet' = quiet
  PROVE  QuietInv'
  <1>1. CASE Cleared
    BY ZenonT(60), <1>1, NothingPending DEF Cleared, QuietInv
  <1>2. CASE Paused
    BY <1>2 DEF Paused, QuietInv, Left, IsPending, WindowInv, Pendings
  <1>3. CASE Resumed
    <2>1. /\ pending' = [pending EXCEPT !.timeout =
                           [@ EXCEPT !.st = "running", !.task = FreshTask, !.owner = NoOwner]]
          /\ pending.timeout.rem \in Nat /\ IsPending(pending)
          /\ Left = pending.timeout.rem
      BY Zenon, <1>3 DEF Resumed, ResumeTimeout, WindowInv, Pendings, Timeouts, Left
    <2>2. pending'.timeout.st = "running" /\ pending'.timeout.task = FreshTask
      BY ZenonT(30), <2>1 DEF WindowInv, Pendings, Timeouts
    <2>3. tasks'[FreshTask] = [age |-> 0, rem |-> pending.timeout.rem]
      BY Zenon, <1>3 DEF Resumed, ResumeTimeout, Start
    <2> HIDE DEF FreshTask
    <2>4. Left' = pending.timeout.rem
      BY <2>1, <2>2, <2>3 DEF Left
    <2> QED
      BY Zenon, <2>1, <2>4 DEF QuietInv
  <1>4. CASE UNCHANGED << focus, pending, tasks, deferred, discarded, silent >>
    BY Zenon, <1>4 DEF QuietInv, Left
  <1> QED
    BY Zenon, <1>1, <1>2, <1>3, <1>4 DEF WindowStep

\* A call that changes what the observers see defers a notification, except
\* for focus().
LEMMA WindowStepTold ==
  ASSUME WindowInv, WindowStep, told' = told,
         ~deferred /\ ~silent => told = Status(pending, focus),
         ~deferred', ~silent'
  PROVE  told' = Status(pending', focus')
  <1>1. CASE Cleared
    <2>1. ~IsPending(pending) /\ ~deferred /\ ~silent /\ ~IsPending(pending')
      BY Zenon, <1>1, NothingPending DEF Cleared
    <2> QED
      BY Zenon, <2>1 DEF Status
  <1>2. CASE Paused
    BY Zenon, <1>2 DEF Paused
  <1>3. CASE Resumed
    BY Zenon, <1>3 DEF Resumed, ResumeTimeout
  <1>4. CASE UNCHANGED << focus, pending, tasks, deferred, discarded, silent >>
    BY Zenon, <1>4
  <1> QED
    BY Zenon, <1>1, <1>2, <1>3, <1>4 DEF WindowStep

\* A call leaves the pending keystrokes alone or discards them all.
LEMMA WindowStepKeys ==
  ASSUME WindowInv, WindowStep
  PROVE  \/ pending'.keys = pending.keys /\ discarded' = discarded
         \/ pending'.keys = << >> /\ discarded' = discarded \cup SerialsOf(pending.keys)
  <1>1. CASE Cleared
    BY Zenon, <1>1, NothingPending DEF Cleared
  <1>2. CASE Paused
    BY Zenon, <1>2 DEF Paused, WindowInv, Pendings
  <1>3. CASE Resumed
    BY Zenon, <1>3 DEF Resumed, ResumeTimeout, WindowInv, Pendings
  <1>4. CASE UNCHANGED << focus, pending, tasks, deferred, discarded, silent >>
    BY Zenon, <1>4
  <1> QED
    BY Zenon, <1>1, <1>2, <1>3, <1>4 DEF WindowStep

----------------------------------------------------------------------------
(* The steps of a dispatch.                                                *)

KeyInv == TimeoutInv /\ QuietInv /\ ToldInv /\ PlacesInv /\ QueueInv

LEMMA IdleIsNoStage == Idle.stage = "idle"
  BY Zenon DEF Idle

\* The serials of D reach the program and the others stay where they are or
\* are discarded.
LEMMA PlacesStep ==
  ASSUME PlacesInv, WindowInv, WindowStep, typed \in Nat, NEW D \in SUBSET InFlight,
         typed' = typed, handled' = handled \cup D, InFlight' = InFlight \ D,
         \/ last' = last
         \/ last' \in D /\ pending = None /\ Before({last'}, InFlight \ D)
  PROVE  PlacesInv' /\ (last' # last => last' > last)
  <1> DEFINE p == SerialsOf(pending.keys)
             q == SerialsOf(pending'.keys)
  <1>1. \/ q = p /\ discarded' = discarded
        \/ q = {} /\ discarded' = discarded \cup p
    BY Zenon, WindowStepKeys, NoBlocks
  <1>2. Sorted(pending.keys)'
    BY Zenon, WindowStepKeys, NoBlocks DEF PlacesInv
  <1>3. pending = None => p = {}
    BY NoBlocks DEF None
  <1>4. /\ 1 .. typed = handled \cup discarded \cup p \cup InFlight
        /\ handled \cap discarded = {} /\ p \cap (handled \cup discarded) = {}
        /\ InFlight \cap (handled \cup discarded \cup p) = {}
        /\ last \in Nat /\ last <= typed /\ Before({last}, p \cup InFlight)
    BY Zenon DEF PlacesInv
  <1> HIDE DEF p, q
  <1>5. /\ 1 .. typed' = handled' \cup discarded' \cup q \cup InFlight'
        /\ handled' \cap discarded' = {} /\ q \cap (handled' \cup discarded') = {}
        /\ InFlight' \cap (handled' \cup discarded' \cup q) = {}
    BY Zenon, <1>1, <1>4
  <1>6. CASE last' = last
    <2>1. q \cup InFlight' \subseteq p \cup InFlight
      BY Zenon, <1>1
    <2>2. Before({last}, p \cup InFlight) /\ last \in Nat /\ last <= typed
      BY Zenon, <1>4
    <2>3. last' \in Nat /\ last' <= typed' /\ Before({last'}, q \cup InFlight')
      BY Zenon, <1>6, <2>1, <2>2 DEF Before
    <2> QED
      BY Zenon, <1>2, <1>5, <1>6, <2>3 DEF PlacesInv, q
  <1>7. CASE last' \in D /\ pending = None /\ Before({last'}, InFlight \ D)
    <2>1. q = {}
      BY Zenon, <1>1, <1>3, <1>7
    <2>2. last' \in 1 .. typed /\ last < last'
      BY Zenon, <1>4, <1>7 DEF Before
    <2>3. last' \in Nat /\ last' <= typed' /\ Before({last'}, q \cup InFlight')
      <3>1. last' \in Nat /\ last' <= typed'
        BY <2>2
      <3> QED
        BY Zenon, <1>7, <2>1, <3>1 DEF Before
    <2> QED
      BY Zenon, <1>2, <1>5, <2>2, <2>3 DEF PlacesInv, q
  <1> QED
    BY Zenon, <1>6, <1>7

\* A step of a dispatch that delivers the serials of D, and in which the
\* program's own code may run.
LEMMA DispatchStep ==
  ASSUME KeyInv, WindowStep, told' = told, quiet' = quiet, typed' = typed,
         Taken' = Taken, WorkInv', Settled' => Settled, QueueInv',
         NEW D \in SUBSET InFlight, handled' = handled \cup D, InFlight' = InFlight \ D,
         \/ last' = last
         \/ last' \in D /\ pending = None /\ Before({last'}, InFlight \ D)
  PROVE  KeyInv' /\ (last' # last => last' > last)
  <1> USE DEF KeyInv, TimeoutInv
  <1>1. PICK to : to = Taken
    BY Zenon
  <1>2. Timers(to)
    BY Zenon, <1>1 DEF Timers
  <1>3. WindowInv' /\ Timers(to)'
    BY Zenon, <1>2, WindowStepKeeps
  <1>4. Timers(Taken)'
    BY Zenon, <1>1, <1>3 DEF Timers
  <1>5. QuietInv'
    BY Zenon, <1>2, WindowStepQuiet
  <1>6. ToldInv'
    <2> SUFFICES ASSUME Settled', ~deferred', ~silent'
                 PROVE  told' = Status(pending', focus')
      BY Zenon DEF ToldInv, Status
    <2>1. ~deferred /\ ~silent => told = Status(pending, focus)
      BY Zenon DEF ToldInv
    <2> QED
      BY Zenon, <2>1, WindowStepTold
  <1>7. PlacesInv' /\ (last' # last => last' > last)
    BY Zenon, PlacesStep
  <1> QED
    BY Zenon, <1>3, <1>4, <1>5, <1>6, <1>7

\* A keystroke arrives.
LEMMA KeyDownStep ==
  ASSUME KeyInv, NEW k \in Keys, NEW prefer \in BOOLEAN, KeyDown(k, prefer)
  PROVE  KeyInv' /\ last' = last
  <1> USE DEF KeyInv, TimeoutInv
  <1>1. /\ work = Idle /\ typed' = typed + 1 /\ UNCHANGED << told, last, handled, quiet >>
        /\ UNCHANGED << focus, pending, tasks, deferred, discarded, silent >>
        /\ work' = [stage |-> "intercept", key |-> [k |-> k, n |-> typed + 1],
                    node |-> NodeOf(focus), prefer |-> prefer, fresh |-> TRUE,
                    replay |-> << >>, next |-> << >>, bindings |-> << >>,
                    keys |-> << >>, prev |-> NoTimeout]
    BY Zenon DEF KeyDown, appVars
  <1>2. work' \in Works({<< >>})
    <2>1. NodeOf(focus) \in Focuses \cup {NoFocus, Root}
      BY Zenon DEF NodeOf, WindowInv
    <2>2. [k |-> k, n |-> typed + 1] \in Stroke
      BY DEF Stroke
    <2>3. << >> \in Seq(Blocks({<< >>})) /\ << >> \in Seq(Stroke)
      BY SMTT(30)
    <2> HIDE DEF NodeOf
    <2> QED
      BY ZenonT(30), <1>1, <2>1, <2>2, <2>3, NothingPending DEF Works
  <1>3. work' # Idle /\ work'.stage = "intercept" /\ work'.fresh /\ work'.prev = NoTimeout
        /\ work'.key.n = typed'
    BY SMTT(30), <1>1, IdleIsNoStage
  <1>4. WorkInv'
    BY Zenon, <1>2, <1>3 DEF WorkInv, StageInv
  <1>5. WindowInv' /\ Timers(Taken)'
    BY Zenon, <1>1, <1>3 DEF WindowInv, Timers, Taken
  <1>6. QuietInv' /\ ToldInv' /\ QueueInv'
    <2>1. QuietInv'
      BY ZenonT(30), <1>1 DEF QuietInv, Left
    <2>2. ToldInv'
      BY Zenon, <1>1 DEF ToldInv, Settled
    <2>3. QueueInv'
      BY Zenon, <1>3 DEF QueueInv
    <2> QED
      BY Zenon, <2>1, <2>2, <2>3
  <1>7. PlacesInv'
    <2>1. InFlight = {} /\ InFlight' = {typed + 1}
      BY ZenonT(30), <1>1, <1>3 DEF InFlight
    <2>2. /\ 1 .. typed = handled \cup discarded \cup SerialsOf(pending.keys)
          /\ handled \cap discarded = {}
          /\ SerialsOf(pending.keys) \cap (handled \cup discarded) = {}
          /\ last \in Nat /\ last <= typed /\ Before({last}, SerialsOf(pending.keys))
      BY Zenon, <2>1 DEF PlacesInv
    <2>3. 1 .. (typed + 1) = (1 .. typed) \cup {typed + 1} /\ typed + 1 \notin 1 .. typed
      OBVIOUS
    <2>4. /\ last <= typed + 1 /\ Before({last}, SerialsOf(pending.keys) \cup {typed + 1})
      BY <2>2 DEF Before
    <2>5. Sorted(pending.keys)'
      BY ZenonT(30), <1>1 DEF PlacesInv
    <2> DEFINE p == SerialsOf(pending.keys)
    <2>6. p' = p
      BY Zenon, <1>1
    <2> HIDE DEF p
    <2>7. 1 .. typed' = handled' \cup discarded' \cup p' \cup InFlight'
      BY Zenon, <1>1, <2>1, <2>2, <2>3, <2>6 DEF p
    <2>8. /\ handled' \cap discarded' = {} /\ p' \cap (handled' \cup discarded') = {}
          /\ InFlight' \cap (handled' \cup discarded' \cup p') = {}
      BY Zenon, <1>1, <2>1, <2>2, <2>3, <2>6 DEF p
    <2>9. last' \in Nat /\ last' <= typed' /\ Before({last'}, p' \cup InFlight')
      BY Zenon, <1>1, <2>1, <2>2, <2>4, <2>6 DEF p
    <2> QED
      BY Zenon, <2>5, <2>7, <2>8, <2>9 DEF PlacesInv, p
  <1> QED
    BY SMTT(30), <1>1, <1>4, <1>5, <1>6, <1>7

LEMMA OneSerial ==
  ASSUME NEW x PROVE SerialsOf(<< x >>) = {x.n}
  <1>1. DOMAIN << x >> = {1} /\ << x >>[1] = x
    OBVIOUS
  <1> QED
    BY Zenon, <1>1 DEF SerialsOf

LEMMA StaysNone ==
  ASSUME KeyInv, WindowStep, pending = None PROVE pending' = None
  <1>1. PICK to : to = Taken
    BY Zenon
  <1>2. Timers(to)
    BY Zenon, <1>1 DEF Timers, KeyInv, TimeoutInv
  <1> QED
    BY Zenon, <1>2, WindowStepKeeps DEF KeyInv, TimeoutInv

\* A dispatch in progress is a record of its own.
LEMMA InProgress ==
  ASSUME KeyInv, work.stage # "idle"
  PROVE  work # Idle /\ (\E BB : work \in Works(BB)) /\ StageInv
  BY Zenon, IdleIsNoStage DEF KeyInv, TimeoutInv, WorkInv

LEMMA WiderWorks ==
  ASSUME NEW BB, NEW CC, BB \subseteq CC, NEW w \in Works(BB)
  PROVE  w \in Works(CC)
  <1>1. Blocks(BB) \subseteq Blocks(CC)
    BY Zenon DEF Blocks
  <1>2. Seq(Blocks(BB)) \subseteq Seq(Blocks(CC))
    BY <1>1
  <1> QED
    BY Zenon, <1>2 DEF Works

LEMMA InterceptStep ==
  ASSUME KeyInv, NEW stop \in BOOLEAN, Intercept(stop)
  PROVE  KeyInv' /\ (last' # last => last' > last)
  <1>1. /\ work.stage = "intercept" /\ Listener
        /\ UNCHANGED << told, typed, last, handled, quiet >>
        /\ work' = IF stop THEN [work EXCEPT !.stage = "event", !.fresh = FALSE,
                                             !.keys = << work.key >>]
                   ELSE [work EXCEPT !.stage = "match"]
    BY Zenon DEF Intercept, history
  <1>2. WindowStep
    BY Zenon, <1>1, ListenerIsWindowStep DEF KeyInv, TimeoutInv
  <1>3. PICK BB : work \in Works(BB)
    BY Zenon, <1>1, InProgress
  <1>4. work # Idle /\ StageInv
    BY Zenon, <1>1, InProgress
  <1>5. /\ work' \in Works(BB) /\ work'.prev = work.prev /\ work'.key = work.key
        /\ stop => /\ work'.stage = "event" /\ ~work'.fresh /\ work'.keys = << work.key >>
                   /\ work'.keys # << >>
        /\ ~stop => work'.stage = "match" /\ work'.fresh = work.fresh
    <2>1. << work.key >> \in Seq(Stroke) /\ << work.key >> # << >>
      BY <1>3 DEF Works
    <2>2. CASE stop
      BY Zenon, <1>1, <1>3, <2>1, <2>2 DEF Works
    <2>3. CASE ~stop
      BY Zenon, <1>1, <1>3, <2>3 DEF Works
    <2> QED
      BY Zenon, <2>2, <2>3
  <1>6. work' # Idle
    BY Zenon, <1>5, IdleIsNoStage
  <1>7. WorkInv'
    BY Zenon, <1>1, <1>4, <1>5 DEF WorkInv, StageInv
  <1>8. Taken' = Taken
    BY Zenon, <1>4, <1>5, <1>6 DEF Taken
  <1>9. Settled' => Settled
    BY Zenon, <1>1 DEF Settled
  <1>10. QueueInv'
    BY Zenon, <1>1, <1>4, <1>5 DEF QueueInv, KeyInv
  <1>11. InFlight' = InFlight
    <2>1. InFlight = {work.key.n}
      BY Zenon, <1>1, <1>4 DEF InFlight
    <2>2. InFlight' = {work.key.n}
      BY Zenon, <1>5, <1>6, OneSerial DEF InFlight
    <2> QED
      BY Zenon, <2>1, <2>2
  <1>12. handled' = handled \cup {} /\ InFlight' = InFlight \ {} /\ {} \in SUBSET InFlight
    BY Zenon, <1>1, <1>11
  <1> QED
    BY ZenonT(30), <1>1, <1>2, <1>7, <1>8, <1>9, <1>10, <1>12, DispatchStep

LEMMA PreferStep ==
  ASSUME KeyInv, NEW text \in BOOLEAN, Prefer(text)
  PROVE  KeyInv' /\ (last' # last => last' > last)
  <1>1. /\ work.stage = "prefer"
        /\ UNCHANGED << told, typed, last, handled, quiet >>
        /\ UNCHANGED << focus, pending, tasks, deferred, discarded, silent >>
        /\ work' = [work EXCEPT !.stage = "bind", !.bindings = IF text THEN << >> ELSE @]
    BY Zenon DEF Prefer, history, appVars
  <1>2. WindowStep
    BY Zenon, <1>1 DEF WindowStep
  <1>3. PICK BB : work \in Works(BB)
    BY Zenon, <1>1, InProgress
  <1>4. work # Idle /\ StageInv
    BY Zenon, <1>1, InProgress
  <1>5. /\ work' \in Works(BB \cup {<< >>}) /\ work'.stage = "bind" /\ work'.prev = work.prev
        /\ work'.keys = work.keys /\ work'.fresh = work.fresh
    <2>1. work \in Works(BB \cup {<< >>})
      BY Zenon, <1>3, WiderWorks
    <2> QED
      BY Zenon, <1>1, <2>1 DEF Works
  <1>6. work' # Idle
    BY Zenon, <1>5, IdleIsNoStage
  <1>7. WorkInv'
    BY Zenon, <1>1, <1>4, <1>5 DEF WorkInv, StageInv
  <1>8. Taken' = Taken
    BY Zenon, <1>4, <1>5, <1>6 DEF Taken
  <1>9. Settled' => Settled
    BY Zenon, <1>5, <1>6 DEF Settled
  <1>10. QueueInv'
    BY Zenon, <1>5 DEF QueueInv
  <1>11. InFlight' = InFlight
    BY <1>1, <1>4, <1>5, <1>6 DEF InFlight
  <1>12. handled' = handled \cup {} /\ InFlight' = InFlight \ {} /\ {} \in SUBSET InFlight
    BY Zenon, <1>1, <1>11
  <1> QED
    BY Zenon, <1>1, <1>2, <1>7, <1>8, <1>9, <1>10, <1>12, DispatchStep

LEMMA BindStep ==
  ASSUME KeyInv, NEW stop \in BOOLEAN, Bind(stop)
  PROVE  KeyInv' /\ (last' # last => last' > last)
  <1>1. /\ work.stage = "bind" /\ Listener /\ UNCHANGED told
        /\ stop => work' = [work EXCEPT !.stage = "done"] /\ Deliver(work.keys)
        /\ ~stop => work' = [work EXCEPT !.bindings = Tail(@)] /\ UNCHANGED history
    BY Zenon DEF Bind
  <1>2. WindowStep
    BY Zenon, <1>1, ListenerIsWindowStep DEF KeyInv, TimeoutInv
  <1>3. PICK BB : work \in Works(BB)
    BY Zenon, <1>1, InProgress
  <1>4. work # Idle /\ StageInv /\ pending = None /\ work.keys # << >>
    BY Zenon, <1>1, InProgress DEF StageInv
  <1>5. InFlight = SerialsOf(work.keys)
    BY Zenon, <1>1, <1>4 DEF InFlight
  <1>6. pending' = None
    BY Zenon, <1>2, <1>4, StaysNone
  <1>7. CASE stop
    <2>1. work' \in Works(BB) /\ work'.stage = "done" /\ work'.prev = work.prev
          /\ work'.fresh = work.fresh
      BY ZenonT(60), <1>1, <1>3, <1>7 DEF Works
    <2>2. work' # Idle
      BY Zenon, <2>1, IdleIsNoStage
    <2>3. WorkInv'
      BY Zenon, <1>1, <1>4, <1>6, <2>1 DEF WorkInv, StageInv
    <2>4. Taken' = Taken
      BY Zenon, <1>4, <2>1, <2>2 DEF Taken
    <2>5. ~Settled' /\ QueueInv'
      BY Zenon, <2>1, <2>2 DEF Settled, QueueInv
    <2>6. /\ handled' = handled \cup InFlight /\ last' \in InFlight
          /\ typed' = typed /\ quiet' = quiet
      <3>1. work.keys \in Seq(Stroke)
        BY Zenon, <1>3 DEF Works
      <3> QED
        BY Zenon, <1>1, <1>4, <1>5, <1>7, <3>1, LastIsSerial DEF Deliver
    <2>7. InFlight' = {} /\ InFlight' = InFlight \ InFlight
      BY Zenon, <2>1 DEF InFlight
    <2>8. Before({last'}, InFlight \ InFlight)
      BY Zenon DEF Before
    <2>9. PICK D : D = InFlight
      BY Zenon
    <2> QED
      BY <1>1, <1>2, <1>4, <2>3, <2>4, <2>5, <2>6, <2>7, <2>8, <2>9, DispatchStep
  <1>8. CASE ~stop
    <2> DEFINE CC == BB \cup {Tail(x) : x \in BB}
    <2>1. /\ work' \in Works(CC) /\ work'.stage = "bind" /\ work'.prev = work.prev
          /\ work'.fresh = work.fresh /\ work'.keys = work.keys
      <3>1. work \in Works(CC)
        BY Zenon, <1>3, WiderWorks
      <3>2. Tail(work.bindings) \in CC
        BY Zenon, <1>3 DEF Works
      <3> HIDE DEF CC
      <3> QED
        BY Zenon, <1>1, <1>8, <3>1, <3>2 DEF Works
    <2>2. work' # Idle
      BY Zenon, <2>1, IdleIsNoStage
    <2>3. WorkInv'
      <3> HIDE DEF CC
      <3> QED
        BY Zenon, <1>1, <1>4, <1>6, <2>1 DEF WorkInv, StageInv
    <2>4. Taken' = Taken
      BY Zenon, <1>4, <2>1, <2>2 DEF Taken
    <2>5. ~Settled' /\ QueueInv'
      BY Zenon, <2>1, <2>2 DEF Settled, QueueInv
    <2>6. UNCHANGED << told, typed, last, handled, quiet >>
      BY Zenon, <1>1, <1>8 DEF history
    <2>7. InFlight' = InFlight
      BY Zenon, <1>5, <2>1, <2>2 DEF InFlight
    <2>8. handled' = handled \cup {} /\ InFlight' = InFlight \ {} /\ {} \in SUBSET InFlight
      BY Zenon, <2>6, <2>7
    <2> QED
      BY Zenon, <1>2, <2>3, <2>4, <2>5, <2>6, <2>8, DispatchStep
  <1> QED
    BY Zenon, <1>7, <1>8

LEMMA EventStep ==
  ASSUME KeyInv, Event
  PROVE  KeyInv' /\ (last' # last => last' > last)
  <1>1. /\ work.stage \in {"bind", "event"} /\ Listener /\ UNCHANGED told
        /\ work.fresh => work' = [work EXCEPT !.stage = "done"] /\ Deliver(work.keys)
        /\ ~work.fresh => /\ work' = Idle
                          /\ handled' = handled \cup SerialsOf(work.keys)
                          /\ UNCHANGED << typed, last, quiet >>
    BY Zenon DEF Event
  <1>2. WindowStep
    BY Zenon, <1>1, ListenerIsWindowStep DEF KeyInv, TimeoutInv
  <1>3. PICK BB : work \in Works(BB)
    BY Zenon, <1>1, InProgress
  <1>4. work # Idle /\ StageInv /\ work.keys # << >>
    BY Zenon, <1>1, InProgress DEF StageInv
  <1>5. InFlight = SerialsOf(work.keys)
    BY Zenon, <1>1, <1>4 DEF InFlight
  <1>6. PICK D : D = InFlight
    BY Zenon
  <1>7. CASE work.fresh
    <2>1. work.stage = "bind" /\ pending = None
      BY Zenon, <1>1, <1>4, <1>7 DEF StageInv
    <2>2. pending' = None
      BY Zenon, <1>2, <2>1, StaysNone
    <2>3. work' \in Works(BB) /\ work'.stage = "done" /\ work'.prev = work.prev
          /\ work'.fresh = work.fresh
      BY Zenon, <1>1, <1>3, <1>7 DEF Works
    <2>4. work' # Idle
      BY Zenon, <2>3, IdleIsNoStage
    <2>5. WorkInv'
      BY Zenon, <1>7, <2>2, <2>3 DEF WorkInv, StageInv
    <2>6. Taken' = Taken
      BY Zenon, <1>4, <2>3, <2>4 DEF Taken
    <2>7. ~Settled' /\ QueueInv'
      BY Zenon, <2>3, <2>4 DEF Settled, QueueInv
    <2>8. /\ handled' = handled \cup InFlight /\ last' \in InFlight
          /\ typed' = typed /\ quiet' = quiet
      <3>1. work.keys \in Seq(Stroke)
        BY Zenon, <1>3 DEF Works
      <3> QED
        BY Zenon, <1>1, <1>4, <1>5, <1>7, <3>1, LastIsSerial DEF Deliver
    <2>9. InFlight' = {} /\ InFlight' = InFlight \ InFlight
      BY Zenon, <2>3 DEF InFlight
    <2>10. Before({last'}, InFlight \ InFlight)
      BY Zenon DEF Before
    <2> QED
      BY <1>1, <1>2, <1>6, <2>1, <2>5, <2>6, <2>7, <2>8, <2>9, <2>10, DispatchStep
  <1>8. CASE ~work.fresh
    <2>1. work.stage = "event" /\ work.prev = NoTimeout
      BY Zenon, <1>1, <1>4, <1>8 DEF StageInv
    <2>2. WorkInv' /\ QueueInv' /\ InFlight' = {}
      BY Zenon, <1>1, <1>8 DEF WorkInv, QueueInv, InFlight
    <2>3. Taken' = Taken
      BY Zenon, <1>1, <1>4, <1>8, <2>1 DEF Taken
    <2>4. Settled
      BY Zenon, <2>1 DEF Settled
    <2>5. handled' = handled \cup InFlight /\ InFlight' = InFlight \ InFlight
      BY Zenon, <1>1, <1>5, <1>8, <2>2
    <2> QED
      BY <1>1, <1>2, <1>6, <1>8, <2>2, <2>3, <2>4, <2>5, DispatchStep
  <1> QED
    BY Zenon, <1>7, <1>8

\* Replays left to do: the first one is delivered, or its first action done.
LEMMA TailOfReplay ==
  ASSUME NEW BB, NEW r \in Seq(Blocks(BB)), r # << >>, InTurn(r)
  PROVE  /\ Head(r) \in Blocks(BB) /\ Head(r).keys # << >>
         /\ SerialsOf(Head(r).keys) \subseteq SerialsIn(r)
         /\ Tail(r) \in Seq(Blocks(BB)) /\ InTurn(Tail(r))
         /\ SerialsIn(r) = SerialsOf(Head(r).keys) \cup SerialsIn(Tail(r))
         /\ Before(SerialsOf(Head(r).keys), SerialsIn(Tail(r)))
         /\ Len(r) > 1 => Tail(r) # << >>
         /\ ~(Len(r) > 1) => SerialsIn(Tail(r)) = {}
  <1> DEFINE q == Tail(r)
             m == Len(r)
             x == Head(r)
  <1>1. /\ m \in Nat /\ m >= 1 /\ DOMAIN r = 1 .. m /\ x = r[1] /\ x \in Blocks(BB)
        /\ q \in Seq(Blocks(BB)) /\ Len(q) = m - 1 /\ DOMAIN q = 1 .. (m - 1)
        /\ \A i \in 1 .. (m - 1) : q[i] = r[i + 1]
    BY HeadTailProperties, LenProperties, EmptySeq
  <1> HIDE DEF q, m, x
  <1>2. 1 \in DOMAIN r /\ \A i \in DOMAIN q : i + 1 \in DOMAIN r /\ q[i] = r[i + 1]
    BY <1>1
  <1>3. \A i \in DOMAIN r : i = 1 \/ (i - 1 \in DOMAIN q /\ r[i] = q[i - 1])
    <2> SUFFICES ASSUME NEW i \in DOMAIN r, i # 1
                 PROVE  i - 1 \in DOMAIN q /\ r[i] = q[i - 1]
      BY Zenon
    <2>1. i - 1 \in 1 .. (m - 1) /\ (i - 1) + 1 = i
      BY <1>1
    <2> QED
      BY Zenon, <1>1, <2>1
  <1>4. SerialsIn(r) = SerialsOf(x.keys) \cup SerialsIn(q)
    <2>1. \A i \in DOMAIN r : SerialsOf(r[i].keys) \subseteq SerialsOf(x.keys) \cup SerialsIn(q)
      BY <1>1, <1>3 DEF SerialsIn
    <2>2. SerialsOf(x.keys) \subseteq SerialsIn(r)
      BY Zenon, <1>1, <1>2 DEF SerialsIn
    <2>3. \A i \in DOMAIN q : SerialsOf(q[i].keys) \subseteq SerialsIn(r)
      BY Zenon, <1>2 DEF SerialsIn
    <2>4. SerialsIn(r) \subseteq SerialsOf(x.keys) \cup SerialsIn(q)
      <3>1. \A z \in SerialsIn(r) : \E i \in DOMAIN r : z \in SerialsOf(r[i].keys)
        BY Zenon DEF SerialsIn
      <3> QED
        BY Zenon, <2>1, <3>1
    <2>5. SerialsIn(q) \subseteq SerialsIn(r)
      <3>1. \A z \in SerialsIn(q) : \E i \in DOMAIN q : z \in SerialsOf(q[i].keys)
        BY Zenon DEF SerialsIn
      <3> QED
        BY Zenon, <2>3, <3>1
    <2> QED
      BY Zenon, <2>2, <2>4, <2>5
  <1>5. InTurn(q)
    <2>1. \A i \in DOMAIN q : q[i].keys # << >>
      BY Zenon, <1>2 DEF InTurn
    <2>2. ASSUME NEW i \in DOMAIN q, NEW j \in DOMAIN q, i < j
          PROVE  Before(SerialsOf(q[i].keys), SerialsOf(q[j].keys))
      <3>1. i + 1 < j + 1
        BY <1>1, <2>2
      <3> QED
        BY Zenon, <1>2, <3>1 DEF InTurn
    <2> QED
      BY Zenon, <2>1, <2>2 DEF InTurn
  <1>6. Before(SerialsOf(x.keys), SerialsIn(q))
    <2>1. \A z \in SerialsIn(q) : \E i \in DOMAIN q : z \in SerialsOf(q[i].keys)
      BY Zenon DEF SerialsIn
    <2>2. \A i \in DOMAIN q : Before(SerialsOf(x.keys), SerialsOf(q[i].keys))
      <3> SUFFICES ASSUME NEW i \in DOMAIN q
                   PROVE  Before(SerialsOf(r[1].keys), SerialsOf(r[i + 1].keys))
        BY Zenon, <1>1, <1>2
      <3>1. 1 < i + 1
        BY <1>1
      <3> QED
        BY Zenon, <1>2, <3>1 DEF InTurn
    <2> QED
      BY Zenon, <2>1, <2>2 DEF Before
  <1>7. ~(m > 1) => SerialsIn(q) = {}
    BY <1>1 DEF SerialsIn
  <1>8. m > 1 => q # << >>
    BY <1>1
  <1>9. x.keys # << >>
    BY Zenon, <1>1, <1>2 DEF InTurn
  <1> QED
    BY Zenon, <1>1, <1>4, <1>5, <1>6, <1>7, <1>8, <1>9 DEF q, m, x

LEMMA SameBlocks ==
  ASSUME NEW r, NEW q, DOMAIN q = DOMAIN r, \A i \in DOMAIN r : q[i].keys = r[i].keys
  PROVE  SerialsIn(q) = SerialsIn(r) /\ (InTurn(r) => InTurn(q))
  <1>1. SerialsIn(q) \subseteq SerialsIn(r) /\ SerialsIn(r) \subseteq SerialsIn(q)
    BY Zenon DEF SerialsIn
  <1>2. InTurn(r) => InTurn(q)
    BY DEF InTurn
  <1> QED
    BY Zenon, <1>1, <1>2

LEMMA ReplayStep ==
  ASSUME KeyInv, NEW stop \in BOOLEAN, Replay(stop)
  PROVE  KeyInv' /\ (last' # last => last' > last)
  <1> DEFINE r == work.replay
             x == Head(work.replay)
             D == SerialsOf(x.keys)
             rest == SerialsIn(Tail(r)) \cup SerialsOf(work.next) \cup SerialsOf(work.keys)
  <1>1. /\ work.stage = "replay" /\ Listener /\ UNCHANGED told
        /\ \/ /\ x.bindings # << >> /\ work' = [work EXCEPT !.replay[1].bindings = Tail(@)]
              /\ UNCHANGED history
           \/ work' = AfterReplay /\ Deliver(x.keys)
    BY Zenon DEF Replay
  <1>2. WindowStep
    BY Zenon, <1>1, ListenerIsWindowStep DEF KeyInv, TimeoutInv
  <1>3. PICK BB : work \in Works(BB)
    BY Zenon, <1>1, InProgress
  <1>4. /\ work # Idle /\ StageInv /\ pending = None /\ r # << >>
        /\ r \in Seq(Blocks(BB)) /\ work.next \in Seq(Stroke) /\ work.keys \in Seq(Stroke)
        /\ InTurn(r) /\ Before(SerialsIn(r), SerialsOf(work.next) \cup SerialsOf(work.keys))
        /\ Sorted(work.next)
    <2>1. work # Idle /\ StageInv /\ pending = None /\ r # << >>
      BY Zenon, <1>1, InProgress DEF StageInv
    <2>2. r \in Seq(Blocks(BB)) /\ work.next \in Seq(Stroke) /\ work.keys \in Seq(Stroke)
      BY Zenon, <1>3 DEF Works
    <2>3. InTurn(r) /\ Before(SerialsIn(r), SerialsOf(work.next) \cup SerialsOf(work.keys))
          /\ Sorted(work.next)
      BY Zenon, <1>1, <2>1 DEF KeyInv, QueueInv
    <2> QED
      BY Zenon, <2>1, <2>2, <2>3
  <1>5. InFlight = SerialsIn(r) \cup SerialsOf(work.next) \cup SerialsOf(work.keys)
    BY Zenon, <1>1, <1>4 DEF InFlight
  <1>6. pending' = None
    BY Zenon, <1>2, <1>4, StaysNone
  <1>7. ASSUME x.bindings # << >>, work' = [work EXCEPT !.replay[1].bindings = Tail(@)],
               UNCHANGED history
        PROVE  KeyInv' /\ (last' # last => last' > last)
    <2> DEFINE CC == BB \cup {Tail(y) : y \in BB}
               q == [r EXCEPT ![1] = [r[1] EXCEPT !.bindings = Tail(r[1].bindings)]]
    <2>1. 1 \in DOMAIN r /\ DOMAIN r = 1 .. Len(r) /\ \A i \in DOMAIN r : r[i] \in Blocks(BB)
      BY <1>4, LenProperties, EmptySeq, ElementOfSeq
    <2>2. r \in Seq(Blocks(CC)) /\ work \in Works(CC)
      <3>1. work \in Works(CC)
        BY Zenon, <1>3, WiderWorks
      <3> HIDE DEF CC
      <3> QED
        BY Zenon, <3>1 DEF Works
    <2>3. [r[1] EXCEPT !.bindings = Tail(@)] \in Blocks(CC)
          /\ [r[1] EXCEPT !.bindings = Tail(@)].keys = r[1].keys
      <3>1. r[1] \in Blocks(BB)
        BY Zenon, <2>1
      <3>2. Tail(r[1].bindings) \in CC
        BY Zenon, <3>1 DEF Blocks
      <3> HIDE DEF CC, r
      <3> QED
        BY Zenon, <3>1, <3>2 DEF Blocks
    <2>4. /\ q \in Seq(Blocks(CC)) /\ DOMAIN q = DOMAIN r /\ q # << >>
          /\ \A i \in DOMAIN r : q[i].keys = r[i].keys
      <3> HIDE DEF r, CC
      <3>1. q = [i \in 1 .. Len(r) |-> IF i = 1 THEN [r[1] EXCEPT !.bindings = Tail(@)] ELSE r[i]]
        BY Zenon, <2>1
      <3>2. \A i \in 1 .. Len(r) : r[i] \in Blocks(CC)
        BY Zenon, <2>1, <2>2, ElementOfSeq
      <3>3. Len(r) \in Nat
        BY Zenon, <2>2, LenProperties
      <3> HIDE DEF q
      <3>4. q \in Seq(Blocks(CC))
        BY <2>3, <3>1, <3>2, <3>3
      <3>5. DOMAIN q = DOMAIN r /\ \A i \in DOMAIN r : q[i].keys = r[i].keys
        BY Zenon, <2>1, <2>3, <3>1
      <3> QED
        BY <2>1, <3>4, <3>5
    <2>5. work' = [work EXCEPT !.replay = q]
      BY Zenon, <1>7
    <2> HIDE DEF q, CC
    <2>6. /\ work' \in Works(CC) /\ work'.replay = q /\ work'.stage = "replay"
          /\ work'.next = work.next /\ work'.keys = work.keys /\ work'.prev = work.prev
          /\ work'.fresh = work.fresh
      BY Zenon, <1>1, <2>2, <2>4, <2>5 DEF Works
    <2>7. SerialsIn(q) = SerialsIn(r) /\ InTurn(q)
      <3> HIDE DEF r
      <3> QED
        BY Zenon, <1>4, <2>4, SameBlocks
    <2>8. work' # Idle
      BY Zenon, <2>6, IdleIsNoStage
    <2>9. WorkInv'
      BY Zenon, <1>1, <1>4, <1>6, <2>4, <2>6 DEF WorkInv, StageInv
    <2>10. Taken' = Taken
      BY Zenon, <1>4, <2>6, <2>8 DEF Taken
    <2>11. Settled' => Settled
      BY Zenon, <1>1, <2>6, <2>8 DEF Settled
    <2>12. QueueInv'
      BY ZenonT(30), <1>4, <2>6, <2>7 DEF QueueInv
    <2>13. InFlight' = InFlight
      BY Zenon, <1>5, <2>6, <2>7, <2>8 DEF InFlight
    <2>14. UNCHANGED << told, typed, last, handled, quiet >>
      BY Zenon, <1>1, <1>7 DEF history
    <2>15. handled' = handled \cup {} /\ InFlight' = InFlight \ {} /\ {} \in SUBSET InFlight
      BY Zenon, <2>13, <2>14
    <2> QED
      BY ZenonT(60), <1>2, <2>9, <2>10, <2>11, <2>12, <2>14, <2>15, DispatchStep
  <1>8. ASSUME work' = AfterReplay, Deliver(x.keys)
        PROVE  KeyInv' /\ (last' # last => last' > last)
    <2>1. /\ x \in Blocks(BB) /\ x.keys # << >>
          /\ Tail(r) \in Seq(Blocks(BB)) /\ InTurn(Tail(r))
          /\ SerialsIn(r) = D \cup SerialsIn(Tail(r))
          /\ Before(D, SerialsIn(Tail(r)))
          /\ Len(r) > 1 => Tail(r) # << >>
          /\ ~(Len(r) > 1) => SerialsIn(Tail(r)) = {}
      <3>1. r \in Seq(Blocks(BB)) /\ r # << >> /\ InTurn(r)
        BY Zenon, <1>4
      <3> HIDE DEF r
      <3> QED
        BY Zenon, <3>1, TailOfReplay DEF r
    <2>2. x.keys \in Seq(Stroke)
      BY Zenon, <2>1 DEF Blocks
    <2>3. D \in SUBSET Nat /\ last' \in D
      <3> HIDE DEF x
      <3> QED
        BY Zenon, <1>8, <2>1, <2>2, LastIsSerial, SerialsAreNumbers DEF Deliver
    <2>4. /\ typed' = typed /\ quiet' = quiet /\ handled' = handled \cup D
      BY Zenon, <1>8 DEF Deliver
    <2> HIDE DEF x, D, r
    <2>5. Before(D, rest) /\ InFlight = D \cup rest
      BY Zenon, <1>4, <1>5, <2>1 DEF Before
    <2>6. InFlight \ D = rest /\ Before({last'}, rest)
      <3> HIDE DEF rest
      <3>1. \A y \in rest : y \notin D
        <4> SUFFICES ASSUME NEW y \in rest, y \in D PROVE FALSE
          BY Zenon
        <4>1. y \in Nat
          BY Zenon, <2>3
        <4>2. y < y
          BY Zenon, <2>5 DEF Before
        <4> QED
          BY <4>1, <4>2
      <3> QED
        BY Zenon, <2>3, <2>5, <3>1 DEF Before
    <2>7. PICK E : E = D
      BY Zenon
    <2>8. ASSUME WorkInv', Taken' = Taken, Settled' => Settled, QueueInv', InFlight' = rest
          PROVE  KeyInv' /\ (last' # last => last' > last)
      <3> HIDE DEF rest
      <3> QED
        BY <1>1, <1>2, <1>4, <2>3, <2>4, <2>5, <2>6, <2>7, <2>8, DispatchStep
    <2>9. CASE Len(r) > 1
      <3>1. work' = [work EXCEPT !.replay = Tail(r)]
        BY Zenon, <1>8, <2>9 DEF AfterReplay, r
      <3>2. /\ work' \in Works(BB) /\ work'.replay = Tail(r) /\ work'.stage = "replay"
            /\ work'.next = work.next /\ work'.keys = work.keys /\ work'.prev = work.prev
            /\ work'.fresh = work.fresh
        BY Zenon, <1>1, <1>3, <2>1, <3>1 DEF Works
      <3>3. work' # Idle
        BY Zenon, <3>2, IdleIsNoStage
      <3>4. WorkInv'
        BY Zenon, <1>1, <1>4, <1>6, <2>1, <2>9, <3>2 DEF WorkInv, StageInv
      <3>5. Taken' = Taken
        BY Zenon, <1>4, <3>2, <3>3 DEF Taken
      <3>6. Settled' => Settled
        BY Zenon, <1>1, <3>2, <3>3 DEF Settled
      <3>7. QueueInv'
        <4>1. Before(SerialsIn(Tail(r)), SerialsOf(work.next) \cup SerialsOf(work.keys))
          BY Zenon, <1>4, <2>1 DEF Before
        <4> QED
          BY ZenonT(30), <1>4, <2>1, <3>2, <4>1 DEF QueueInv
      <3>8. InFlight' = rest
        BY Zenon, <3>2, <3>3 DEF InFlight
      <3> QED
        BY Zenon, <2>8, <3>4, <3>5, <3>6, <3>7, <3>8
    <2>10. CASE ~(Len(r) > 1) /\ ~work.fresh
      <3>1. work' = Idle
        BY Zenon, <1>8, <2>10 DEF AfterReplay, r
      <3>2. work.prev = NoTimeout /\ work.next = << >> /\ work.keys = << >>
        BY Zenon, <1>1, <1>4, <2>10 DEF StageInv
      <3>3. WorkInv' /\ QueueInv' /\ InFlight' = {}
        BY Zenon, <3>1 DEF WorkInv, QueueInv, InFlight
      <3>4. Taken' = Taken
        BY Zenon, <1>4, <3>1, <3>2 DEF Taken
      <3>5. Settled
        BY Zenon, <1>1, <2>10 DEF Settled
      <3>6. rest = {}
        BY Zenon, <2>1, <2>10, <3>2, NoBlocks
      <3> QED
        BY Zenon, <2>8, <3>3, <3>4, <3>5, <3>6
    <2>11. CASE ~(Len(r) > 1) /\ work.fresh
      <3>1. work' = [work EXCEPT !.replay = << >>,
                                 !.stage = IF work.next # << >> THEN "pend" ELSE "prefer"]
        BY Zenon, <1>8, <2>11 DEF AfterReplay, r
      <3>2. (work.next = << >>) = (work.keys # << >>)
        BY Zenon, <1>1, <1>4, <2>11 DEF StageInv
      <3>3. << >> \in Seq(Blocks(BB))
        OBVIOUS
      <3>4. /\ work' \in Works(BB)
            /\ work'.stage = IF work.next # << >> THEN "pend" ELSE "prefer"
            /\ work'.next = work.next /\ work'.keys = work.keys /\ work'.prev = work.prev
            /\ work'.fresh = work.fresh
        BY ZenonT(30), <1>3, <3>1, <3>3 DEF Works
      <3>5. work' # Idle
        BY Zenon, <3>4, IdleIsNoStage
      <3>6. WorkInv'
        BY Zenon, <1>6, <2>11, <3>2, <3>4 DEF WorkInv, StageInv
      <3>7. Taken' = Taken
        BY Zenon, <1>4, <3>4, <3>5 DEF Taken
      <3>8. ~Settled' /\ QueueInv'
        BY ZenonT(30), <1>4, <3>4, <3>5 DEF Settled, QueueInv
      <3>9. InFlight' = rest
        <4>1. rest = SerialsOf(work.next) \cup SerialsOf(work.keys)
          BY Zenon, <2>1, <2>11
        <4>2. CASE work.next # << >>
          BY Zenon, <3>2, <3>4, <3>5, <4>1, <4>2, NoBlocks DEF InFlight
        <4>3. CASE work.next = << >>
          BY Zenon, <3>2, <3>4, <3>5, <4>1, <4>3, NoBlocks DEF InFlight
        <4> QED
          BY Zenon, <4>2, <4>3
      <3> QED
        BY Zenon, <2>8, <3>6, <3>7, <3>8, <3>9
    <2> QED
      BY Zenon, <2>9, <2>10, <2>11
  <1> QED
    BY Zenon, <1>1, <1>7, <1>8

\* The pending input is never stale when it is taken, and everything pending
\* is given back together with the new keystroke.
LEMMA MatchTakesAll ==
  ASSUME WellFounded, KeyInv, Match
  PROVE  LET d == DispatchKey(keymap, pending.keys, work.key, work.node)
         IN  /\ tasks' = tasks
             /\ d \in Results(Menus(keymap, work.node))
             /\ GivenBack(d, SerialsOf(pending.keys) \cup InFlight)
             /\ work' = [work EXCEPT
                  !.stage = IF d.replay # << >> THEN "replay"
                            ELSE IF d.pending # << >> THEN "pend" ELSE "prefer",
                  !.replay = d.replay, !.next = d.pending,
                  !.bindings = d.bindings, !.keys = d.keys, !.prev = pending.timeout]
  <1>1. ~(pending.focus # NoFocus /\ pending.focus # focus)
    <2>1. pending = None => pending.focus = NoFocus
      BY DEF None
    <2> QED
      BY Zenon, <2>1 DEF KeyInv, TimeoutInv, WindowInv
  <1>2. work # Idle /\ work.stage = "match"
    BY Zenon, InProgress DEF Match
  <1>3. InFlight = {work.key.n} /\ work.key.n = typed
    BY Zenon, <1>2 DEF InFlight, KeyInv, QueueInv
  <1>4. work.key \in Stroke /\ pending.keys \in Seq(Stroke) /\ typed \in Nat
    <2>1. \E BB : work \in Works(BB)
      BY Zenon, <1>2, InProgress
    <2> QED
      BY Zenon, <2>1 DEF Works, KeyInv, TimeoutInv, WindowInv, Pendings
  <1>5. Sorted(pending.keys) /\ Before(SerialsOf(pending.keys), {work.key.n})
    <2>1. Sorted(pending.keys)
      BY Zenon DEF KeyInv, PlacesInv
    <2> SUFFICES ASSUME NEW y \in SerialsOf(pending.keys) PROVE y < typed
      BY Zenon, <1>3, <2>1 DEF Before
    <2>2. y \in 1 .. typed /\ y # typed
      <3>1. /\ SerialsOf(pending.keys) \subseteq 1 .. typed
            /\ InFlight \cap SerialsOf(pending.keys) = {}
        BY Zenon DEF KeyInv, PlacesInv
      <3> QED
        BY Zenon, <1>3, <3>1
    <2> QED
      BY SMTT(30), <1>4, <2>2
  <1>6. LET d == DispatchKey(keymap, pending.keys, work.key, work.node)
        IN  /\ d \in Results(Menus(keymap, work.node))
            /\ GivenBack(d, SerialsOf(pending.keys) \cup InFlight)
    BY Zenon, <1>3, <1>4, <1>5, DispatchGivesBackAll
  <1> QED
    BY ZenonT(30), <1>1, <1>6 DEF Match

LEMMA MatchStep ==
  ASSUME WellFounded, KeyInv, Match
  PROVE  KeyInv' /\ last' = last
  <1> DEFINE d == DispatchKey(keymap, pending.keys, work.key, work.node)
             BB == Menus(keymap, work.node)
  <1>1. /\ tasks' = tasks /\ d \in Results(BB)
        /\ GivenBack(d, SerialsOf(pending.keys) \cup InFlight)
        /\ work' = [work EXCEPT
                  !.stage = IF d.replay # << >> THEN "replay"
                            ELSE IF d.pending # << >> THEN "pend" ELSE "prefer",
                  !.replay = d.replay, !.next = d.pending,
                  !.bindings = d.bindings, !.keys = d.keys, !.prev = pending.timeout]
    BY Zenon, MatchTakesAll
  <1>2. /\ work.stage = "match" /\ pending' = None
        /\ UNCHANGED << focus, deferred, discarded, silent, told, typed, last, handled, quiet >>
    BY Zenon DEF Match, history
  <1>3. work # Idle /\ StageInv
    BY Zenon, <1>2, InProgress
  <1> HIDE DEF d, BB
  <1>4. /\ work' \in Works(BB) /\ work'.replay = d.replay /\ work'.next = d.pending
        /\ work'.keys = d.keys /\ work'.prev = pending.timeout /\ work'.fresh
        /\ work'.stage = IF d.replay # << >> THEN "replay"
                         ELSE IF d.pending # << >> THEN "pend" ELSE "prefer"
    <2>1. PICK CC : work \in Works(CC)
      BY Zenon, <1>2, InProgress
    <2>2. work.fresh
      BY Zenon, <1>2, <1>3 DEF StageInv
    <2>3. pending.timeout \in Timeouts
      BY Zenon DEF KeyInv, TimeoutInv, WindowInv, Pendings
    <2>4. /\ d.replay \in Seq(Blocks(BB)) /\ d.pending \in Seq(Stroke) /\ d.bindings \in BB
          /\ d.keys \in Seq(Stroke)
      BY Zenon, <1>1 DEF Results
    <2> QED
      BY ZenonT(30), <1>1, <2>1, <2>2, <2>3, <2>4 DEF Works
  <1>5. work' # Idle
    BY Zenon, <1>4, IdleIsNoStage
  <1>6. (d.pending = << >>) = (d.keys # << >>)
    BY Zenon, <1>1 DEF GivenBack
  <1>7. WorkInv'
    BY Zenon, <1>2, <1>4, <1>6 DEF WorkInv, StageInv
  <1>8. WindowInv' /\ Timers(Taken)'
    <2>1. Taken = NoTimeout /\ Taken' = pending.timeout
      BY Zenon, <1>2, <1>3, <1>4, <1>5 DEF Taken, StageInv
    <2>2. Timers(Taken)'
      BY Zenon, <1>1, <1>2, <2>1, NothingPending DEF Timers, KeyInv, TimeoutInv
    <2>3. WindowInv'
      BY Zenon, <1>1, <1>2, NothingPending DEF KeyInv, TimeoutInv, WindowInv
    <2> QED
      BY Zenon, <2>2, <2>3
  <1>9. QuietInv'
    BY Zenon, <1>2, NothingPending DEF QuietInv
  <1>10. ToldInv'
    BY Zenon, <1>4, <1>5 DEF ToldInv, Settled
  <1>11. QueueInv'
    BY <1>1, <1>4 DEF QueueInv, GivenBack
  <1>12. PlacesInv'
    <2> DEFINE p == SerialsOf(pending.keys)
    <2>1. SerialsIn(d.replay) \cup SerialsOf(d.pending) \cup SerialsOf(d.keys) = p \cup InFlight
      BY Zenon, <1>1 DEF GivenBack
    <2>2. InFlight' = p \cup InFlight
      <3>1. CASE d.replay # << >>
        BY Zenon, <1>4, <1>5, <2>1, <3>1 DEF InFlight
      <3>2. CASE d.replay = << >> /\ d.pending # << >>
        <4>1. p \cup InFlight = SerialsOf(d.pending)
          BY Zenon, <1>6, <2>1, <3>2, NoBlocks
        <4> QED
          BY ZenonT(30), <1>4, <1>5, <3>2, <4>1 DEF InFlight
      <3>3. CASE d.replay = << >> /\ d.pending = << >>
        <4>1. p \cup InFlight = SerialsOf(d.keys)
          BY Zenon, <1>6, <2>1, <3>3, NoBlocks
        <4> QED
          BY Zenon, <1>4, <1>5, <3>3, <4>1 DEF InFlight
      <3> QED
        BY Zenon, <3>1, <3>2, <3>3
    <2>3. SerialsOf(pending'.keys) = {} /\ Sorted(pending'.keys)
      BY Zenon, <1>2, NothingPending, NoBlocks
    <2>4. /\ 1 .. typed = handled \cup discarded \cup p \cup InFlight
          /\ handled \cap discarded = {} /\ p \cap (handled \cup discarded) = {}
          /\ InFlight \cap (handled \cup discarded \cup p) = {}
          /\ last \in Nat /\ last <= typed /\ Before({last}, p \cup InFlight)
      BY Zenon DEF KeyInv, PlacesInv
    <2> HIDE DEF p
    <2>5. /\ 1 .. typed' = handled' \cup discarded' \cup {} \cup InFlight'
          /\ handled' \cap discarded' = {} /\ {} \cap (handled' \cup discarded') = {}
          /\ InFlight' \cap (handled' \cup discarded' \cup {}) = {}
      BY Zenon, <1>2, <2>2, <2>4
    <2>6. last' \in Nat /\ last' <= typed' /\ Before({last'}, {} \cup InFlight')
      BY Zenon, <1>2, <2>2, <2>4
    <2> QED
      BY Zenon, <2>3, <2>5, <2>6 DEF PlacesInv
  <1>13. typed' \in Nat /\ quiet' \in Nat
    BY Zenon, <1>2 DEF KeyInv, TimeoutInv
  <1> QED
    BY <1>2, <1>7, <1>8, <1>9, <1>10, <1>11, <1>12, <1>13 DEF KeyInv, TimeoutInv

LEMMA DoneStep ==
  ASSUME KeyInv, Done
  PROVE  KeyInv' /\ last' = last
  <1>1. /\ work.stage = "done" /\ tasks' = Drop(work.prev.task)
        /\ told' = Status(pending, focus) /\ work' = Idle
        /\ UNCHANGED << focus, pending, deferred, discarded, silent, typed, last, handled, quiet >>
    BY Zenon DEF Done, history
  <1>2. work # Idle /\ pending = None /\ Taken = work.prev
    BY Zenon, <1>1, InProgress DEF StageInv, Taken
  <1>3. WindowInv /\ Timers(Taken)
    BY Zenon DEF KeyInv, TimeoutInv
  <1>4. DOMAIN tasks' = {}
    BY ZenonT(30), <1>1, <1>2, <1>3, NothingPending DEF Timers, Drop, Held
  <1>5. WindowInv'
    BY Zenon, <1>1, <1>2, <1>3, <1>4 DEF WindowInv
  <1>6. Timers(Taken)' /\ WorkInv'
    BY Zenon, <1>1, <1>2, <1>4, NothingPending DEF Timers, Taken, WorkInv
  <1>7. QuietInv' /\ ToldInv' /\ QueueInv'
    BY Zenon, <1>1, <1>2, NothingPending DEF QuietInv, ToldInv, QueueInv, Status
  <1>8. PlacesInv'
    <2>1. InFlight = {} /\ InFlight' = {}
      BY Zenon, <1>1 DEF InFlight
    <2> QED
      BY ZenonT(30), <1>1, <2>1 DEF KeyInv, PlacesInv
  <1>9. typed' \in Nat /\ quiet' \in Nat
    BY Zenon, <1>1 DEF KeyInv, TimeoutInv
  <1> QED
    BY Zenon, <1>1, <1>5, <1>6, <1>7, <1>8, <1>9 DEF KeyInv, TimeoutInv

LEMMA PendStep ==
  ASSUME KeyInv, Pend
  PROVE  KeyInv' /\ last' = last
  <1>1. /\ work.stage = "pend" /\ told' = Status(pending', focus) /\ quiet' = 0 /\ work' = Idle
        /\ UNCHANGED << focus, deferred, discarded, silent, typed, last, handled >>
        /\ pending'.keys = work.next /\ pending'.focus = focus
    BY SMTT(30) DEF Pend
  <1>2. work # Idle /\ pending = None /\ Taken = work.prev /\ work.next # << >>
    BY Zenon, <1>1, InProgress DEF StageInv, Taken
  <1>3. WindowInv /\ Timers(Taken)
    BY Zenon DEF KeyInv, TimeoutInv
  <1>4. work.next \in Seq(Stroke) /\ work.prev \in Timeouts
    <2>1. \E BB : work \in Works(BB)
      BY Zenon, <1>1, InProgress
    <2> QED
      BY Zenon, <2>1 DEF Works
  <1>5. DOMAIN tasks = Held(work.prev) /\ DOMAIN tasks \subseteq {work.prev.task}
    BY Zenon, <1>2, <1>3, NothingPending DEF Timers, Held
  <1>6. /\ pending' \in Pendings /\ pending'.timeout.st # "none"
        /\ DOMAIN tasks' = Held(pending'.timeout) /\ DOMAIN tasks' \subseteq Nat \ {0}
        /\ \A t \in DOMAIN tasks' : tasks'[t] \in [age : Nat, rem : Nat]
                                    /\ tasks'[t].age <= tasks'[t].rem
        /\ Left' = Timeout
    <2>0. Timeout \in Nat /\ focus \in Focuses \cup {NoFocus}
      BY Zenon, <1>3, KeyInputAssumption DEF WindowInv
    <2>1. CASE work.prev.st = "paused"
      <3>1. pending' = [keys |-> work.next, focus |-> focus,
                        timeout |-> [work.prev EXCEPT !.rem = Timeout]] /\ tasks' = tasks
        BY Zenon, <2>1 DEF Pend
      <3>2. /\ [work.prev EXCEPT !.rem = Timeout] \in Timeouts
            /\ [work.prev EXCEPT !.rem = Timeout].st = "paused"
            /\ [work.prev EXCEPT !.rem = Timeout].rem = Timeout
        BY Zenon, <1>4, <2>0, <2>1 DEF Timeouts
      <3>3. pending' \in Pendings
        BY Zenon, <1>4, <2>0, <3>1, <3>2 DEF Pendings
      <3>4. pending'.timeout.st = "paused" /\ Left' = Timeout
        BY Zenon, <3>1, <3>2 DEF Left
      <3>5. DOMAIN tasks' = {}
        BY Zenon, <1>5, <2>1, <3>1 DEF Held
      <3> QED
        BY Zenon, <3>3, <3>4, <3>5 DEF Held
    <2>2. CASE work.prev.st # "paused"
      <3>1. /\ pending' = [keys |-> work.next, focus |-> focus,
                           timeout |-> [st |-> "running", task |-> FreshTask,
                                        owner |-> NoOwner, rem |-> Timeout]]
            /\ tasks' = Start(Drop(work.prev.task), FreshTask, Timeout)
        BY Zenon, <2>2 DEF Pend
      <3>2. FreshTask \in Nat \ {0}
        <4>1. work.prev.task \in Nat
          BY Zenon, <1>4 DEF Timeouts
        <4> QED
          BY Zenon, <1>5, <4>1, FreshTaskIsNew
      <3>3. DOMAIN tasks' = {FreshTask} /\ tasks'[FreshTask] = [age |-> 0, rem |-> Timeout]
        BY Zenon, <1>5, <3>1 DEF Start, Drop
      <3> HIDE DEF FreshTask
      <3>4. pending' \in Pendings
        BY ZenonT(30), <1>4, <2>0, <3>1, <3>2 DEF Pendings, Timeouts
      <3>5. pending'.timeout.st = "running" /\ pending'.timeout.task = FreshTask
        BY Zenon, <3>1
      <3>6. Left' = Timeout
        BY <2>0, <3>3, <3>5 DEF Left
      <3>7. tasks'[FreshTask] \in [age : Nat, rem : Nat]
            /\ tasks'[FreshTask].age <= tasks'[FreshTask].rem
        BY SMTT(30), <2>0, <3>3
      <3> QED
        BY Zenon, <3>2, <3>3, <3>4, <3>5, <3>6, <3>7 DEF Held
    <2> QED
      BY Zenon, <2>1, <2>2
  <1>7. WindowInv'
    BY Zenon, <1>1, <1>2, <1>3, <1>6 DEF WindowInv, IsPending
  <1>8. Timers(Taken)' /\ WorkInv'
    BY ZenonT(30), <1>1, <1>6, NothingPending DEF Timers, Taken, WorkInv
  <1>9. QuietInv'
    BY <1>1, <1>6, KeyInputAssumption DEF QuietInv
  <1>10. ToldInv' /\ QueueInv'
    BY Zenon, <1>1 DEF ToldInv, QueueInv, Status
  <1>11. PlacesInv'
    <2> DEFINE q == SerialsOf(work.next)
    <2>1. InFlight = q /\ InFlight' = {}
      BY Zenon, <1>1, <1>2 DEF InFlight
    <2>2. SerialsOf(pending.keys) = {} /\ SerialsOf(pending'.keys) = q
      BY Zenon, <1>1, <1>2, NothingPending, NoBlocks
    <2>3. Sorted(pending'.keys)
      BY ZenonT(30), <1>1, <1>2 DEF KeyInv, QueueInv
    <2>4. /\ 1 .. typed = handled \cup discarded \cup {} \cup q
          /\ handled \cap discarded = {} /\ q \cap (handled \cup discarded \cup {}) = {}
          /\ last \in Nat /\ last <= typed /\ Before({last}, {} \cup q)
      BY Zenon, <2>1, <2>2 DEF KeyInv, PlacesInv
    <2> HIDE DEF q
    <2>5. /\ 1 .. typed' = handled' \cup discarded' \cup q \cup {}
          /\ handled' \cap discarded' = {} /\ q \cap (handled' \cup discarded') = {}
          /\ {} \cap (handled' \cup discarded' \cup q) = {}
      BY Zenon, <1>1, <2>4
    <2>6. last' \in Nat /\ last' <= typed' /\ Before({last'}, q \cup {})
      BY Zenon, <1>1, <2>4
    <2> QED
      BY ZenonT(30), <2>1, <2>2, <2>3, <2>5, <2>6 DEF PlacesInv
  <1>12. typed' \in Nat /\ quiet' \in Nat
    BY Zenon, <1>1 DEF KeyInv, TimeoutInv
  <1> QED
    BY Zenon, <1>1, <1>7, <1>8, <1>9, <1>10, <1>11, <1>12 DEF KeyInv, TimeoutInv

----------------------------------------------------------------------------
(* The steps between two dispatches.                                       *)

\* Between two dispatches the pending input keeps the only task alive.
LEMMA IdleTasks ==
  ASSUME KeyInv, work = Idle
  PROVE  /\ WindowInv /\ DOMAIN tasks = Held(pending.timeout)
         /\ InFlight = {} /\ Settled
  BY Zenon, NothingPending DEF KeyInv, TimeoutInv, Timers, Taken, InFlight, Settled

LEMMA TickStep ==
  ASSUME KeyInv, Tick
  PROVE  KeyInv' /\ last' = last
  <1>1. /\ work = Idle
        /\ tasks' = [t \in DOMAIN tasks |->
                       IF tasks[t].age < tasks[t].rem THEN [tasks[t] EXCEPT !.age = @ + 1]
                       ELSE tasks[t]]
        /\ quiet' = IF quiet < Timeout THEN quiet + 1 ELSE quiet
        /\ UNCHANGED << focus, pending, work, told, deferred, typed, last, handled, discarded,
                        silent >>
    BY Zenon DEF Tick
  <1>2. WindowInv /\ quiet \in Nat /\ Timeout \in Nat
    BY Zenon, KeyInputAssumption DEF KeyInv, TimeoutInv
  <1>3. DOMAIN tasks' = DOMAIN tasks
    BY Zenon, <1>1
  <1>4. ASSUME NEW t \in DOMAIN tasks
        PROVE  /\ tasks[t] \in [age : Nat, rem : Nat]
               /\ tasks'[t] \in [age : Nat, rem : Nat] /\ tasks'[t].age <= tasks'[t].rem
               /\ tasks'[t].rem = tasks[t].rem
               /\ tasks'[t].age <= tasks[t].age + 1
    <2>1. tasks[t] \in [age : Nat, rem : Nat] /\ tasks[t].age <= tasks[t].rem
      BY Zenon, <1>2 DEF WindowInv
    <2>2. CASE tasks[t].age < tasks[t].rem
      <3>1. tasks'[t] = [tasks[t] EXCEPT !.age = tasks[t].age + 1]
        BY Zenon, <1>1, <2>2
      <3> QED
        BY <2>1, <2>2, <3>1
    <2>3. CASE ~(tasks[t].age < tasks[t].rem)
      <3>1. tasks'[t] = tasks[t]
        BY Zenon, <1>1, <2>3
      <3> QED
        BY <2>1, <3>1
    <2> QED
      BY Zenon, <2>2, <2>3
  <1>5. WindowInv'
    BY Zenon, <1>1, <1>2, <1>3, <1>4 DEF WindowInv
  <1>6. Timers(Taken)' /\ WorkInv' /\ ToldInv' /\ QueueInv' /\ PlacesInv'
    <2>1. Timers(Taken)'
      BY Zenon, <1>1, <1>3 DEF KeyInv, TimeoutInv, Timers, Taken
    <2>2. WorkInv' /\ QueueInv'
      BY Zenon, <1>1 DEF WorkInv, QueueInv
    <2>3. ToldInv'
      BY Zenon, <1>1 DEF KeyInv, ToldInv, Settled, Status
    <2>4. InFlight' = InFlight
      BY Zenon, <1>1 DEF InFlight
    <2>5. PlacesInv'
      BY Zenon, <1>1, <2>4 DEF KeyInv, PlacesInv
    <2> QED
      BY Zenon, <2>1, <2>2, <2>3, <2>5
  <1>7. QuietInv'
    <2> SUFFICES ASSUME IsPending(pending) PROVE quiet' + Left' >= Timeout
      BY Zenon, <1>1 DEF QuietInv
    <2>1. quiet + Left >= Timeout
      BY Zenon DEF KeyInv, QuietInv
    <2>2. CASE pending.timeout.st = "running"
      <3> DEFINE t == pending.timeout.task
      <3>1. t \in DOMAIN tasks
        BY Zenon, <1>1, <2>2, IdleTasks DEF Held
      <3>2. Left = tasks[t].rem - tasks[t].age /\ Left' = tasks'[t].rem - tasks'[t].age
        BY Zenon, <1>1, <2>2 DEF Left
      <3> HIDE DEF t
      <3>3. /\ tasks[t].rem \in Nat /\ tasks[t].age \in Nat /\ tasks'[t].age \in Nat
            /\ tasks'[t].age <= tasks'[t].rem /\ tasks'[t].rem = tasks[t].rem
            /\ tasks'[t].age <= tasks[t].age + 1
        BY Zenon, <1>4, <3>1
      <3> QED
        BY <1>1, <1>2, <2>1, <3>2, <3>3
    <2>3. CASE pending.timeout.st # "running"
      <3>1. Left' = Left /\ Left \in Nat
        BY Zenon, <1>1, <1>2, <2>3 DEF Left, WindowInv, Pendings, Timeouts
      <3> QED
        BY <1>1, <1>2, <2>1, <3>1
    <2> QED
      BY Zenon, <2>2, <2>3
  <1>8. typed' \in Nat /\ quiet' \in Nat
    BY SMTT(30), <1>1, <1>2 DEF KeyInv, TimeoutInv
  <1> QED
    BY Zenon, <1>1, <1>5, <1>6, <1>7, <1>8 DEF KeyInv, TimeoutInv

\* The timer that fires is that of the pending input, and it has waited long
\* enough.
LEMMA TimerIsPendings ==
  ASSUME KeyInv, NEW t \in DOMAIN tasks, TimerFires(t)
  PROVE  /\ IsPending(pending) /\ pending.focus = focus /\ quiet >= Timeout
         /\ DOMAIN tasks' = {}
  <1>1. work = Idle /\ tasks[t].age = tasks[t].rem
        /\ tasks' = [u \in DOMAIN tasks \ {t, pending.timeout.task} |-> tasks[u]]
    BY ZenonT(30) DEF TimerFires
  <1>2. WindowInv /\ DOMAIN tasks = Held(pending.timeout)
    BY ZenonT(30), <1>1, IdleTasks
  <1>3. pending.timeout.st = "running" /\ t = pending.timeout.task
    BY Zenon, <1>2 DEF Held
  <1>4. IsPending(pending) /\ pending.focus = focus
    BY ZenonT(30), <1>2, <1>3, NothingPending DEF WindowInv, None, NoTimeout
  <1>5. Left = 0
    <2>1. tasks[t].age \in Nat
      BY Zenon, <1>2 DEF WindowInv
    <2>2. Left = tasks[t].age - tasks[t].age
      BY Zenon, <1>1, <1>3 DEF Left
    <2>3. \A a \in Nat : a - a = 0
      OBVIOUS
    <2> QED
      BY Zenon, <2>1, <2>2, <2>3
  <1>6. quiet >= Timeout
    BY <1>4, <1>5, KeyInputAssumption DEF KeyInv, QuietInv, TimeoutInv
  <1> QED
    BY Zenon, <1>1, <1>2, <1>3, <1>4, <1>6 DEF Held

LEMMA TimerStep ==
  ASSUME WellFounded, KeyInv, NEW t \in DOMAIN tasks, TimerFires(t)
  PROVE  KeyInv' /\ last' = last
  <1> DEFINE r == FlushDispatch(keymap, pending.keys, NodeOf(focus))
             BB == Menus(keymap, NodeOf(focus))
  <1>1. IsPending(pending) /\ pending.focus = focus /\ DOMAIN tasks' = {}
    BY Zenon, TimerIsPendings
  <1>2. /\ work = Idle /\ pending' = None /\ told' = Status(None, focus)
        /\ work' = [stage |-> "replay", key |-> [k |-> pending.keys[1].k, n |-> 0],
                    node |-> NodeOf(focus), prefer |-> TRUE, fresh |-> FALSE, replay |-> r,
                    next |-> << >>, bindings |-> << >>, keys |-> << >>, prev |-> NoTimeout]
        /\ UNCHANGED << focus, deferred, discarded, silent, typed, last, handled, quiet >>
    BY Zenon, <1>1 DEF TimerFires, history
  <1>3. /\ WindowInv /\ InFlight = {} /\ Sorted(pending.keys) /\ pending.keys \in Seq(Stroke)
        /\ pending.keys # << >>
    BY Zenon, <1>1, <1>2, IdleTasks DEF KeyInv, PlacesInv, WindowInv, Pendings, IsPending
  <1>4. /\ r \in Seq(Blocks(BB)) /\ InTurn(r) /\ SerialsIn(r) = SerialsOf(pending.keys)
        /\ r # << >>
    BY Zenon, <1>3, FlushReplaysAll
  <1> HIDE DEF r
  <1>5. /\ work' \in Works(BB) /\ work'.stage = "replay" /\ work'.replay = r /\ ~work'.fresh
        /\ work'.next = << >> /\ work'.keys = << >> /\ work'.prev = NoTimeout
    <2>1. NodeOf(focus) \in Focuses \cup {NoFocus, Root}
      BY Zenon, <1>3 DEF NodeOf, WindowInv
    <2>2. [k |-> pending.keys[1].k, n |-> 0] \in Stroke
      <3>1. pending.keys[1] \in Stroke
        BY <1>3, EmptySeq, LenProperties, ElementOfSeq
      <3> QED
        BY Zenon, <3>1 DEF Stroke
    <2>3. << >> \in Seq(Stroke) /\ << >> \in BB
      BY DEF Menus
    <2> HIDE DEF NodeOf, BB
    <2> QED
      BY ZenonT(30), <1>2, <1>4, <2>1, <2>2, <2>3, NothingPending DEF Works
  <1>6. work' # Idle
    BY Zenon, <1>5, IdleIsNoStage
  <1>7. WorkInv'
    <2> HIDE DEF BB
    <2> QED
      BY Zenon, <1>2, <1>4, <1>5 DEF WorkInv, StageInv
  <1>8. WindowInv' /\ Timers(Taken)'
    BY Zenon, <1>1, <1>2, <1>3, <1>5, <1>6, NothingPending DEF WindowInv, Timers, Taken
  <1>9. QuietInv' /\ ToldInv'
    BY Zenon, <1>2, NothingPending DEF QuietInv, ToldInv, Status
  <1>10. QueueInv'
    BY Zenon, <1>4, <1>5, NoBlocks DEF QueueInv, Before
  <1>11. PlacesInv'
    <2> DEFINE p == SerialsOf(pending.keys)
    <2>1. InFlight' = p
      BY Zenon, <1>4, <1>5, <1>6, NoBlocks DEF InFlight
    <2>2. SerialsOf(pending'.keys) = {} /\ Sorted(pending'.keys)
      BY ZenonT(30), <1>2, NothingPending, NoBlocks
    <2>3. /\ 1 .. typed = handled \cup discarded \cup p \cup {}
          /\ handled \cap discarded = {} /\ p \cap (handled \cup discarded) = {}
          /\ last \in Nat /\ last <= typed /\ Before({last}, p \cup {})
      BY Zenon, <1>3 DEF KeyInv, PlacesInv
    <2> HIDE DEF p
    <2>4. /\ 1 .. typed' = handled' \cup discarded' \cup {} \cup p
          /\ handled' \cap discarded' = {} /\ {} \cap (handled' \cup discarded') = {}
          /\ p \cap (handled' \cup discarded' \cup {}) = {}
      BY Zenon, <1>2, <2>3
    <2>5. last' \in Nat /\ last' <= typed' /\ Before({last'}, {} \cup p)
      BY Zenon, <1>2, <2>3
    <2> QED
      BY Zenon, <2>1, <2>2, <2>4, <2>5 DEF PlacesInv
  <1>12. typed' \in Nat /\ quiet' \in Nat
    BY Zenon, <1>2 DEF KeyInv, TimeoutInv
  <1> QED
    BY ZenonT(60), <1>2, <1>7, <1>8, <1>9, <1>10, <1>11, <1>12 DEF KeyInv, TimeoutInv

LEMMA RunDeferredStep ==
  ASSUME KeyInv, RunDeferred
  PROVE  KeyInv' /\ last' = last
  <1>1. /\ deferred' = FALSE /\ told' = Status(pending, focus)
        /\ UNCHANGED << focus, pending, tasks, work, discarded, silent, typed, last, handled,
                        quiet >>
    BY Zenon DEF RunDeferred, history
  <1>2. WindowInv' /\ Timers(Taken)' /\ WorkInv'
    <2>1. WindowInv' /\ Timers(Taken)'
      BY Zenon, <1>1 DEF KeyInv, TimeoutInv, WindowInv, Timers, Taken
    <2>2. WorkInv'
      BY Zenon, <1>1 DEF KeyInv, TimeoutInv, WorkInv, StageInv
    <2> QED
      BY Zenon, <2>1, <2>2
  <1>3. QuietInv' /\ ToldInv' /\ QueueInv'
    <2>1. QuietInv'
      BY ZenonT(30), <1>1 DEF KeyInv, QuietInv, Left
    <2>2. ToldInv'
      BY Zenon, <1>1 DEF ToldInv, Status
    <2>3. QueueInv'
      BY Zenon, <1>1 DEF KeyInv, QueueInv
    <2> QED
      BY Zenon, <2>1, <2>2, <2>3
  <1>4. PlacesInv'
    <2>1. InFlight' = InFlight
      BY Zenon, <1>1 DEF InFlight
    <2> QED
      BY ZenonT(30), <1>1, <2>1 DEF KeyInv, PlacesInv
  <1> QED
    BY Zenon, <1>1, <1>2, <1>3, <1>4 DEF KeyInv, TimeoutInv

\* A call, the release of a pause owner, a frame drawn, or nothing.
LEMMA QuietStep ==
  ASSUME KeyInv, WindowStep, UNCHANGED << work, told, typed, last, handled, quiet >>,
         work = Idle \/ UNCHANGED pending
  PROVE  KeyInv'
  <1>1. WorkInv'
    BY Zenon DEF KeyInv, TimeoutInv, WorkInv, StageInv
  <1>2. Taken' = Taken /\ (Settled' => Settled)
    BY Zenon DEF Taken, Settled
  <1>3. QueueInv'
    BY ZenonT(30) DEF KeyInv, QueueInv
  <1>4. InFlight' = InFlight
    BY Zenon DEF InFlight
  <1>5. handled' = handled \cup {} /\ InFlight' = InFlight \ {} /\ {} \in SUBSET InFlight
    BY Zenon, <1>4
  <1> QED
    BY Zenon, <1>1, <1>2, <1>3, <1>5, DispatchStep

LEMMA ReleaseStep ==
  ASSUME KeyInv, NEW o \in Owners, Release(o)
  PROVE  KeyInv' /\ last' = last
  <1>1. /\ work = Idle
        /\ UNCHANGED << focus, work, told, discarded, silent, typed, last, handled, quiet >>
    BY Zenon DEF Release, history
  <1>2. WindowStep
    <2>1. CASE CanResume(o)
      BY Zenon, <1>1, <2>1 DEF Release, CanResume, Resumed, WindowStep
    <2>2. CASE ~CanResume(o)
      BY Zenon, <1>1, <2>2 DEF Release, WindowStep
    <2> QED
      BY Zenon, <2>1, <2>2
  <1> QED
    BY Zenon, <1>1, <1>2, QuietStep

LEMMA CallWhenIdleStep ==
  ASSUME KeyInv, CallWhenIdle
  PROVE  KeyInv' /\ last' = last
  <1>1. work = Idle /\ UNCHANGED << work, told, typed, last, handled, quiet >>
    BY Zenon DEF CallWhenIdle, history
  <1>2. WindowStep
    BY Zenon, CallIsWindowStep, OpenAppMenuIsWindowStep
    DEF CallWhenIdle, KeyInv, TimeoutInv
  <1> QED
    BY Zenon, <1>1, <1>2, QuietStep

LEMMA DrawStep ==
  ASSUME KeyInv, Draw \/ UNCHANGED vars
  PROVE  KeyInv' /\ last' = last
  <1>1. /\ UNCHANGED << work, told, typed, last, handled, quiet >>
        /\ UNCHANGED << focus, pending, tasks, deferred, discarded, silent >>
    BY Zenon DEF Draw, vars, appVars, history
  <1> QED
    BY Zenon, <1>1, QuietStep DEF WindowStep

\* Every step keeps the invariant and delivers no keystroke out of turn.
LEMMA AnyStep ==
  ASSUME WellFounded, KeyInv, [Next]_vars
  PROVE  KeyInv' /\ (last' # last => last' > last)
  <1>1. CASE \E k \in Keys, prefer \in BOOLEAN : KeyDown(k, prefer)
    BY Zenon, <1>1, KeyDownStep
  <1>2. CASE Dispatch
    <2>1. CASE Match
      BY Zenon, <2>1, MatchStep
    <2>2. CASE Pend
      BY Zenon, <2>2, PendStep
    <2>3. CASE Event
      BY Zenon, <2>3, EventStep
    <2>4. CASE Done
      BY Zenon, <2>4, DoneStep
    <2>5. ASSUME NEW stop \in BOOLEAN,
                 Intercept(stop) \/ Replay(stop) \/ Prefer(stop) \/ Bind(stop)
          PROVE  KeyInv' /\ (last' # last => last' > last)
      BY <2>5, InterceptStep, ReplayStep, PreferStep, BindStep
    <2> QED
      BY Zenon, <1>2, <2>1, <2>2, <2>3, <2>4, <2>5 DEF Dispatch
  <1>3. CASE Tick
    BY Zenon, <1>3, TickStep
  <1>4. CASE RunDeferred
    BY Zenon, <1>4, RunDeferredStep
  <1>5. CASE CallWhenIdle
    BY Zenon, <1>5, CallWhenIdleStep
  <1>6. CASE Draw \/ UNCHANGED vars
    BY Zenon, <1>6, DrawStep
  <1>7. CASE \E t \in DOMAIN tasks : TimerFires(t)
    BY Zenon, <1>7, TimerStep
  <1>8. CASE \E o \in Owners : Release(o)
    BY Zenon, <1>8, ReleaseStep
  <1> QED
    BY Zenon, <1>1, <1>2, <1>3, <1>4, <1>5, <1>6, <1>7, <1>8 DEF Next

LEMMA InitKeyInv ==
  ASSUME Init PROVE KeyInv
  <1>1. /\ focus = NoFocus /\ pending = None /\ work = Idle /\ told = Status(None, NoFocus)
        /\ deferred = FALSE /\ typed = 0 /\ last = 0 /\ handled = {} /\ discarded = {}
        /\ quiet = 0 /\ silent = FALSE /\ DOMAIN tasks = {}
    BY SMTT(30) DEF Init
  <1>2. WindowInv /\ Timers(Taken) /\ WorkInv
    BY ZenonT(30), <1>1, NothingPending DEF WindowInv, Timers, Taken, WorkInv
  <1>3. QuietInv /\ ToldInv /\ QueueInv
    BY Zenon, <1>1, NothingPending DEF QuietInv, ToldInv, QueueInv
  <1>4. PlacesInv
    <2>1. InFlight = {} /\ SerialsOf(pending.keys) = {} /\ Sorted(pending.keys)
      BY Zenon, <1>1, NothingPending, NoBlocks DEF InFlight
    <2>2. 1 .. 0 = {}
      OBVIOUS
    <2> QED
      BY SMTT(30), <1>1, <2>1, <2>2 DEF PlacesInv, Before
  <1> QED
    BY ZenonT(60), <1>1, <1>2, <1>3, <1>4 DEF KeyInv, TimeoutInv

WF == INSTANCE WellFoundedInduction

LEMMA NatIsWellFounded == WellFounded
  <1> SUFFICES ASSUME NEW T \in SUBSET Nat, T # {}
               PROVE  \E x \in T : \A y \in T : x <= y
    BY Zenon DEF WellFounded
  <1> DEFINE R == {ss \in Nat \X Nat : ss[1] < ss[2]}
  <1>1. WF!IsWellFoundedOn(R, Nat)
    BY Zenon, WF!NatLessThanWellFounded DEF WF!OpToRel
  <1>2. PICK x \in T : \A y \in T : ~ (<<y, x>> \in R)
    <2> HIDE DEF R
    <2> QED
      BY Zenon, <1>1, WF!WFMin
  <1>3. \A y \in T : ~ (y < x)
    BY Zenon, <1>2
  <1> QED
    BY <1>3

LEMMA NextKeyInv ==
  ASSUME KeyInv, [Next]_vars
  PROVE  KeyInv' /\ (last' # last => last' > last)
  BY Zenon, NatIsWellFounded, AnyStep

----------------------------------------------------------------------------
(* Theorems                                                                *)

\* No timeout task of an earlier keystroke, focus or pause outlives its
\* pending input: dispatch_key_event, focus, blur, pause and resume leave one
\* task alive while input is pending with a running timeout, and none
\* otherwise.
THEOREM TimeoutIsUnique == Spec => []OneTimeout
  <1>1. KeyInv => OneTimeout
    <2> SUFFICES ASSUME KeyInv PROVE OneTimeout
      BY Zenon
    <2>1. WindowInv
      BY Zenon DEF KeyInv, TimeoutInv
    <2>2. work = Idle =>
            DOMAIN tasks = IF IsPending(pending) /\ pending.timeout.st = "running"
                           THEN {pending.timeout.task} ELSE {}
      BY ZenonT(60), <2>1, IdleTasks, NothingPending DEF Held, WindowInv
    <2> QED
      BY Zenon, <2>1, <2>2 DEF OneTimeout, WindowInv
  <1> QED
    BY <1>1, InitKeyInv, NextKeyInv, PTL DEF Spec

\* Every keystroke typed is delivered, pending or discarded by a change of
\* focus, and never two of these: the replays of replay_pending_input neither
\* lose nor repeat one.
THEOREM NoKeystrokeLost == Spec => []KeysAccounted
  <1>1. KeyInv => KeysAccounted
    <2> SUFFICES ASSUME KeyInv, work = Idle
                 PROVE  LET p == SerialsOf(pending.keys)
                        IN  /\ 1 .. typed = handled \cup discarded \cup p
                            /\ handled \cap discarded = {}
                            /\ p \cap (handled \cup discarded) = {}
      BY Zenon DEF KeysAccounted
    <2>1. InFlight = {}
      BY Zenon, IdleTasks
    <2> QED
      BY Zenon, <2>1 DEF KeyInv, PlacesInv
  <1> QED
    BY <1>1, InitKeyInv, NextKeyInv, PTL DEF Spec

\* Keystrokes reach the program in the order they were typed, however
\* dispatch_key and flush_dispatch cut them into replays.
THEOREM TypingOrderIsKept == Spec => KeysInOrder
  <1>1. KeyInv /\ [Next]_vars => [last' # last => last' > last]_vars
    BY Zenon, NextKeyInv
  <1> QED
    BY <1>1, InitKeyInv, NextKeyInv, PTL DEF Spec, KeysInOrder

\* The timeout flushes pending input only when all of PENDING_INPUT_TIMEOUT
\* has run since the last keystroke, however often it was paused and resumed.
THEOREM FlushIsNotEarly == Spec => FlushNotEarly
  <1>1. KeyInv /\ [Next]_vars =>
          [work = Idle /\ work' # Idle /\ typed' = typed => quiet >= Timeout]_vars
    <2> SUFFICES ASSUME KeyInv, Next, work = Idle, work' # Idle, typed' = typed
                 PROVE  quiet >= Timeout
      BY Zenon
    <2>1. ASSUME NEW k \in Keys, NEW prefer \in BOOLEAN, KeyDown(k, prefer)
          PROVE FALSE
      BY <2>1 DEF KeyDown, KeyInv, TimeoutInv
    <2>2. ~Dispatch
      <3>1. work.stage = "idle"
        BY Zenon, IdleIsNoStage
      <3> QED
        BY Zenon, <3>1 DEF Dispatch, Match, Pend, Event, Done, Intercept, Replay, Prefer, Bind
    <2>3. ~Tick /\ ~RunDeferred /\ ~CallWhenIdle /\ ~Draw
      BY Zenon DEF Tick, RunDeferred, CallWhenIdle, Draw
    <2>4. ~ (\E o \in Owners : Release(o))
      BY Zenon DEF Release
    <2>5. PICK t \in DOMAIN tasks : TimerFires(t)
      BY <2>1, <2>2, <2>3, <2>4 DEF Next
    <2> QED
      BY Zenon, <2>5, TimerIsPendings
  <1> QED
    BY <1>1, InitKeyInv, NextKeyInv, PTL DEF Spec, FlushNotEarly

\* Between two updates the observers of the pending input have seen it as it
\* is, unless focus() took some of it away.
THEOREM ObserversSeePending == Spec => []ObserversTold
  <1>1. KeyInv => ObserversTold
    BY Zenon DEF KeyInv, ToldInv, Settled, ObserversTold
  <1> QED
    BY <1>1, InitKeyInv, NextKeyInv, PTL DEF Spec
============================================================================
