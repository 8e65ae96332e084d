--------------------------- MODULE SoftTimer_proofs ---------------------------
(***************************************************************************)
(* Proofs about SoftTimer, for tables of any size, every interval and      *)
(* clocks of any width.                                                    *)
(***************************************************************************)
EXTENDS SoftTimer, FiniteSetTheorems, WellFoundedInduction, TLAPS

---------------------------------------------------------------------------
(* Loops as folds *)

\* A set of numbers that is not empty has a first one.
LEMMA First ==
  ASSUME NEW S, S \subseteq Nat, S # {}
  PROVE  \E m \in S : \A k \in S : m <= k
<1>1. PICK m \in S : \A k \in S : ~ (<<k, m>> \in OpToRel(<, Nat))
  BY NatLessThanWellFounded, WFMin, Zenon
<1>2. \A k \in S : k \in Nat /\ m \in Nat /\ ~(k < m)
  BY <1>1 DEF OpToRel
<1> QED BY <1>2

\* Induction, over what is true of the numbers in S.
LEMMA Induction ==
  ASSUME NEW S, 0 \in S, \A n \in Nat : n \in S => n + 1 \in S
  PROVE  \A n \in Nat : n \in S
<1> SUFFICES ASSUME NEW n \in Nat, n \notin S PROVE FALSE
  OBVIOUS
<1>1. PICK m \in Nat \ S : \A k \in Nat \ S : m <= k
  <2>1. Nat \ S \subseteq Nat /\ Nat \ S # {}
    OBVIOUS
  <2> QED BY <2>1, First
<1>2. m # 0 /\ m - 1 \in Nat /\ m - 1 \in S
  <2>1. m # 0 /\ m - 1 \in Nat
    OBVIOUS
  <2>2. ~(m <= m - 1)
    BY <2>1
  <2> QED BY <1>1, <2>1, <2>2
<1>3. m - 1 + 1 = m
  OBVIOUS
<1> QED BY <1>2, <1>3

\* The last number of a range
LEMMA LastOf ==
  ASSUME NEW n \in Nat, NEW s, s \subseteq 1..(n + 1), n + 1 \in s
  PROVE  Max(s) = n + 1
<1>1. \A y \in s : n + 1 >= y
  OBVIOUS
<1>2. \A x \in s : (\A y \in s : x >= y) => x = n + 1
  OBVIOUS
<1> QED BY <1>1, <1>2 DEF Max

\* A set of numbers up to n has a last one.
LEMMA MaxIn ==
  ASSUME NEW n \in Nat, NEW s, s \subseteq 1..n, s # {}
  PROVE  Max(s) \in s /\ \A y \in s : Max(s) >= y
<1>1. PICK m \in {n - x : x \in s} : \A k \in {n - x : x \in s} : m <= k
  <2>1. \A x \in s : n - x \in Nat
    OBVIOUS
  <2>2. {n - x : x \in s} \subseteq Nat /\ {n - x : x \in s} # {}
    BY <2>1
  <2> QED BY <2>2, First
<1>2. PICK x \in s : m = n - x
  BY <1>1
<1>3. ASSUME NEW y \in s PROVE x >= y
  <2>1. n - x <= n - y
    BY <1>1, <1>2
  <2>2. x \in Nat /\ y \in Nat
    OBVIOUS
  <2> QED BY <2>1, <2>2
<1> QED BY <1>3 DEF Max

\* The inner loop of the sort, and the outer one
Step(inner, events, k) == IF inner THEN Bubble(events, k) ELSE Round(events, k)

States(inner, es, n, r) ==
  r[0] = es /\ \A k \in 1..n : r[k] = Step(inner, r[k - 1], k)

\* The function that FoldLeft applies to 1..n, of the sets of the steps that are made
Fold(inner, es, n, g) ==
  g = [s \in SUBSET (1..n) |->
         IF s = {} THEN es ELSE Step(inner, g[s \ {Max(s)}], Max(s))]

\* There is one, built up a step at a time.
LEMMA FoldExists ==
  ASSUME NEW inner, NEW es
  PROVE  \A n \in Nat : \E g : Fold(inner, es, n, g)
<1> DEFINE S == {n \in Nat : \E g : Fold(inner, es, n, g)}
<1>1. 0 \in S
  <2> DEFINE g == [s \in SUBSET (1..0) |-> es]
  <2>1. \A s \in SUBSET (1..0) : s = {}
    OBVIOUS
  <2>2. g = [s \in SUBSET (1..0) |->
               IF s = {} THEN es ELSE Step(inner, g[s \ {Max(s)}], Max(s))]
    BY <2>1
  <2> HIDE DEF g
  <2>3. Fold(inner, es, 0, g)
    BY <2>2 DEF Fold
  <2> QED BY <2>3
<1>2. ASSUME NEW n \in Nat, n \in S PROVE n + 1 \in S
  <2>1. PICK f : Fold(inner, es, n, f)
    BY <1>2
  <2> DEFINE g == [s \in SUBSET (1..(n + 1)) |->
                     IF n + 1 \in s THEN Step(inner, f[s \ {n + 1}], n + 1) ELSE f[s]]
             h == [s \in SUBSET (1..(n + 1)) |->
                     IF s = {} THEN es ELSE Step(inner, g[s \ {Max(s)}], Max(s))]
  <2>2. ASSUME NEW s \in SUBSET (1..(n + 1)) PROVE g[s] = h[s]
    <3>1. CASE n + 1 \in s
      <4>1. Max(s) = n + 1
        BY <3>1, LastOf
      <4>2. s \ {n + 1} \in SUBSET (1..(n + 1)) /\ n + 1 \notin s \ {n + 1} /\ s # {}
        BY <3>1
      <4> QED BY <3>1, <4>1, <4>2
    <3>2. CASE n + 1 \notin s
      <4>1. s \in SUBSET (1..n)
        BY <3>2
      <4>2. f[s] = IF s = {} THEN es ELSE Step(inner, f[s \ {Max(s)}], Max(s))
        BY <2>1, <4>1 DEF Fold
      <4>3. s \ {Max(s)} \in SUBSET (1..(n + 1)) /\ n + 1 \notin s \ {Max(s)}
        BY <3>2
      <4>4. g[s \ {Max(s)}] = f[s \ {Max(s)}]
        BY <4>3
      <4> HIDE DEF g
      <4>5. g[s] = f[s]
        BY <3>2 DEF g
      <4> QED BY <4>2, <4>4, <4>5
    <3> QED BY <3>1, <3>2
  <2>3. g = h
    <3>1. DOMAIN g = SUBSET (1..(n + 1)) /\ DOMAIN h = SUBSET (1..(n + 1))
      OBVIOUS
    <3>2. g = [s \in DOMAIN g |-> g[s]] /\ h = [s \in DOMAIN h |-> h[s]]
      OBVIOUS
    <3> HIDE DEF g, h
    <3> QED BY <2>2, <3>1, <3>2
  <2> HIDE DEF g
  <2>4. Fold(inner, es, n + 1, g)
    BY <2>3 DEF Fold
  <2> QED BY <2>4
<1> HIDE DEF S
<1>3. \A n \in Nat : n \in S
  BY <1>1, <1>2, Induction
<1> QED BY <1>3 DEF S

\* Its values at 1..k are the states of the loop.
LEMMA FoldStates ==
  ASSUME NEW inner, NEW es, NEW n \in Nat, NEW g, Fold(inner, es, n, g)
  PROVE  States(inner, es, n, [k \in 0..n |-> g[1..k]])
<1> DEFINE r == [k \in 0..n |-> g[1..k]]
<1>1. r[0] = es
  <2>1. 0 \in 0..n /\ 1..0 = {} /\ {} \in SUBSET (1..n)
    OBVIOUS
  <2>2. g[{}] = es
    BY <2>1 DEF Fold
  <2> QED BY <2>1, <2>2
<1>2. ASSUME NEW k \in 1..n PROVE r[k] = Step(inner, r[k - 1], k)
  <2>1. k \in 0..n /\ k - 1 \in 0..n /\ k - 1 \in Nat /\ k - 1 + 1 = k
    OBVIOUS
  <2>2. 1..k \in SUBSET (1..n) /\ 1..k # {} /\ k \in 1..k /\ (1..k) \ {k} = 1..(k - 1)
    OBVIOUS
  <2>3. Max(1..k) = k
    BY <2>1, <2>2, LastOf
  <2>4. g[1..k] = Step(inner, g[(1..k) \ {Max(1..k)}], Max(1..k))
    BY <2>2 DEF Fold
  <2> QED BY <2>1, <2>2, <2>3, <2>4
<1> QED BY <1>1, <1>2 DEF States

\* The value of FoldLeft is the last state of the loop.
LEMMA InnerLoop ==
  ASSUME NEW es, NEW n \in Nat
  PROVE  \E r : States(TRUE, es, n, r) /\ r[n] = FoldLeft(Bubble, es, [j \in 1..n |-> j])
<1> DEFINE up == [j \in 1..n |-> j]
           F(g) == [s \in SUBSET (DOMAIN up) |->
                      IF s = {} THEN es ELSE Bubble(g[s \ {Max(s)}], up[Max(s)])]
           g == CHOOSE f : f = F(f)
<1>1. FoldLeft(Bubble, es, up) = g[DOMAIN up]
  BY DEF FoldLeft, MapThenFoldSet
<1>2. DOMAIN up = 1..n
  OBVIOUS
<1>3. ASSUME NEW s \in SUBSET (1..n), s # {} PROVE up[Max(s)] = Max(s)
  <2>1. Max(s) \in s
    BY <1>3, MaxIn
  <2> QED BY <2>1
<1> HIDE DEF up
<1>4. ASSUME NEW f PROVE F(f) = [s \in SUBSET (1..n) |->
                      IF s = {} THEN es ELSE Step(TRUE, f[s \ {Max(s)}], Max(s))]
  BY <1>2, <1>3 DEF Step
<1>5. g = F(g)
  <2>1. PICK f : Fold(TRUE, es, n, f)
    BY FoldExists
  <2>2. f = F(f)
    BY <2>1, <1>4 DEF Fold
  <2> HIDE DEF F
  <2> QED BY <2>2
<1> HIDE DEF g
<1>6. Fold(TRUE, es, n, g)
  BY <1>4, <1>5 DEF Fold
<1>7. States(TRUE, es, n, [k \in 0..n |-> g[1..k]])
  BY <1>6, FoldStates
<1>8. [k \in 0..n |-> g[1..k]][n] = g[1..n]
  OBVIOUS
<1> QED BY <1>1, <1>2, <1>7, <1>8 DEF up

\* The same of the rounds
LEMMA OuterLoop ==
  ASSUME NEW es, NEW n \in Nat
  PROVE  \E r : States(FALSE, es, n, r) /\ r[n] = FoldLeft(Round, es, [j \in 1..n |-> j])
<1> DEFINE up == [j \in 1..n |-> j]
           F(g) == [s \in SUBSET (DOMAIN up) |->
                      IF s = {} THEN es ELSE Round(g[s \ {Max(s)}], up[Max(s)])]
           g == CHOOSE f : f = F(f)
<1>1. FoldLeft(Round, es, up) = g[DOMAIN up]
  BY DEF FoldLeft, MapThenFoldSet
<1>2. DOMAIN up = 1..n
  OBVIOUS
<1>3. ASSUME NEW s \in SUBSET (1..n), s # {} PROVE up[Max(s)] = Max(s)
  <2>1. Max(s) \in s
    BY <1>3, MaxIn
  <2> QED BY <2>1
<1> HIDE DEF up
<1>4. ASSUME NEW f PROVE F(f) = [s \in SUBSET (1..n) |->
                      IF s = {} THEN es ELSE Step(FALSE, f[s \ {Max(s)}], Max(s))]
  BY <1>2, <1>3 DEF Step
<1>5. g = F(g)
  <2>1. PICK f : Fold(FALSE, es, n, f)
    BY FoldExists
  <2>2. f = F(f)
    BY <2>1, <1>4 DEF Fold
  <2> HIDE DEF F
  <2> QED BY <2>2
<1> HIDE DEF g
<1>6. Fold(FALSE, es, n, g)
  BY <1>4, <1>5 DEF Fold
<1>7. States(FALSE, es, n, [k \in 0..n |-> g[1..k]])
  BY <1>6, FoldStates
<1>8. [k \in 0..n |-> g[1..k]][n] = g[1..n]
  OBVIOUS
<1> QED BY <1>1, <1>2, <1>7, <1>8 DEF up

---------------------------------------------------------------------------
(* What the sort does *)

\* s holds the timers of u, each at one place.
Rearranged(s, u) ==
  /\ s \in Seq(Events) /\ u \in Seq(Events) /\ Len(s) = Len(u)
  /\ \E m \in [1..Len(u) -> 1..Len(u)] :
       /\ \A p, q \in 1..Len(u) : m[p] = m[q] => p = q
       /\ \A p \in 1..Len(u) : s[p] = u[m[p]]

\* A table is rearranged as it is.
LEMMA RearrangedSame ==
  ASSUME NEW u \in Seq(Events)
  PROVE  Rearranged(u, u)
<1> DEFINE m == [p \in 1..Len(u) |-> p]
<1>1. m \in [1..Len(u) -> 1..Len(u)] /\ \A p \in 1..Len(u) : m[p] = p
  OBVIOUS
<1> HIDE DEF m
<1>2. (\A p, q \in 1..Len(u) : m[p] = m[q] => p = q) /\ \A p \in 1..Len(u) : u[p] = u[m[p]]
  BY <1>1
<1> QED BY <1>1, <1>2 DEF Rearranged

\* What two neighbours that change places are like
LEMMA SwappedIs ==
  ASSUME NEW s \in Seq(Events), NEW j \in Nat, 1 <= j, j + 1 <= Len(s)
  PROVE  /\ Swapped(s, j) \in Seq(Events) /\ Len(Swapped(s, j)) = Len(s)
         /\ Swapped(s, j)[j] = s[j + 1] /\ Swapped(s, j)[j + 1] = s[j]
         /\ \A p \in 1..Len(s) : p # j /\ p # j + 1 => Swapped(s, j)[p] = s[p]
<1>1. j \in 1..Len(s) /\ j + 1 \in 1..Len(s) /\ j # j + 1 /\ DOMAIN s = 1..Len(s)
  OBVIOUS
<1>2. s[j] \in Events /\ s[j + 1] \in Events
  BY <1>1
<1>3. Swapped(s, j) \in Seq(Events) /\ Len(Swapped(s, j)) = Len(s)
  BY <1>1, <1>2 DEF Swapped
<1>4. Swapped(s, j)[j] = s[j + 1] /\ Swapped(s, j)[j + 1] = s[j]
  BY <1>1 DEF Swapped
<1>5. \A p \in 1..Len(s) : p # j /\ p # j + 1 => Swapped(s, j)[p] = s[p]
  BY <1>1 DEF Swapped
<1> QED BY <1>3, <1>4, <1>5

\* Swapping neighbours keeps every timer,
LEMMA SwapRearranges ==
  ASSUME NEW s, NEW u, Rearranged(s, u), NEW j \in Nat, 1 <= j, j + 1 <= Len(s)
  PROVE  Rearranged(Swapped(s, j), u)
<1>1. s \in Seq(Events) /\ u \in Seq(Events) /\ Len(s) = Len(u)
  BY DEF Rearranged
<1>2. PICK m \in [1..Len(u) -> 1..Len(u)] :
             /\ \A p, q \in 1..Len(u) : m[p] = m[q] => p = q
             /\ \A p \in 1..Len(u) : s[p] = u[m[p]]
  BY DEF Rearranged
<1>3. j \in 1..Len(u) /\ j + 1 \in 1..Len(u) /\ j # j + 1
  BY <1>1
<1> DEFINE w == [p \in 1..Len(u) |-> IF p = j THEN j + 1 ELSE IF p = j + 1 THEN j ELSE p]
           l == [p \in 1..Len(u) |-> m[w[p]]]
<1>4. w \in [1..Len(u) -> 1..Len(u)] /\ \A p, q \in 1..Len(u) : w[p] = w[q] => p = q
  BY <1>3
<1>5. w[j] = j + 1 /\ w[j + 1] = j /\ \A p \in 1..Len(u) : p # j /\ p # j + 1 => w[p] = p
  BY <1>3
<1> HIDE DEF w
<1>6. l \in [1..Len(u) -> 1..Len(u)] /\ \A p \in 1..Len(u) : l[p] = m[w[p]]
  BY <1>4
<1> HIDE DEF l
<1>7. ASSUME NEW p \in 1..Len(u), NEW q \in 1..Len(u), l[p] = l[q] PROVE p = q
  <2>1. w[p] \in 1..Len(u) /\ w[q] \in 1..Len(u) /\ m[w[p]] = m[w[q]]
    BY <1>4, <1>6, <1>7
  <2>2. w[p] = w[q]
    BY <1>2, <2>1
  <2> QED BY <1>4, <2>2
<1>8. ASSUME NEW p \in 1..Len(u) PROVE Swapped(s, j)[p] = u[l[p]]
  <2>1. w[p] \in 1..Len(u) /\ u[l[p]] = s[w[p]]
    BY <1>2, <1>4, <1>6
  <2>2. Swapped(s, j)[p] = s[w[p]]
    <3>1. /\ Swapped(s, j)[j] = s[j + 1] /\ Swapped(s, j)[j + 1] = s[j]
          /\ p # j /\ p # j + 1 => Swapped(s, j)[p] = s[p]
      BY <1>1, SwappedIs
    <3> QED BY <1>5, <3>1
  <2> QED BY <2>1, <2>2
<1>9. Swapped(s, j) \in Seq(Events) /\ Len(Swapped(s, j)) = Len(u)
  BY <1>1, SwappedIs
<1> QED BY <1>1, <1>6, <1>7, <1>8, <1>9 DEF Rearranged

\* and so does a step of the inner loop.
LEMMA BubbleRearranges ==
  ASSUME NEW s, NEW u, Rearranged(s, u), NEW j \in Nat, 1 <= j, j + 1 <= Len(s)
  PROVE  Rearranged(Bubble(s, j), u)
BY SwapRearranges DEF Bubble

\* The timers of u are ordered by the ticks from 4 s ago to their times.
From(t) == (t - now + POST) % Wrap

Comparable(u) ==
  \A i, j \in 1..Len(u) : /\ From(u[i].t) \in Nat
                          /\ Big(u[i].t, u[j].t) <=> From(u[i].t) >= From(u[j].t)

\* Timers can be compared wherever they are in the table.
LEMMA RearrangedComparable ==
  ASSUME NEW s, NEW u, Rearranged(s, u), Comparable(u)
  PROVE  Comparable(s)
<1>1. Len(s) = Len(u)
  BY DEF Rearranged
<1>2. PICK m \in [1..Len(u) -> 1..Len(u)] : \A p \in 1..Len(u) : s[p] = u[m[p]]
  BY DEF Rearranged
<1> SUFFICES ASSUME NEW i \in 1..Len(u), NEW j \in 1..Len(u)
             PROVE  /\ From(s[i].t) \in Nat
                    /\ Big(s[i].t, s[j].t) <=> From(s[i].t) >= From(s[j].t)
  BY <1>1 DEF Comparable
<1>3. m[i] \in 1..Len(u) /\ m[j] \in 1..Len(u) /\ s[i] = u[m[i]] /\ s[j] = u[m[j]]
  BY <1>2
<1> QED BY <1>3 DEF Comparable

\* The timers behind place n are where they belong.
Placed(s, n) ==
  \A p, q \in 1..Len(s) : p < q /\ q > n => From(s[p].t) <= From(s[q].t)

\* After k steps of the inner loop the timer at k + 1 is the last one up to there.
Risen(s, k) == \A p \in 1..k : From(s[p].t) <= From(s[k + 1].t)

\* A step of the inner loop carries the last timer so far one place on, and leaves the ones
\* behind the round where they are.
LEMMA BubbleRises ==
  ASSUME NEW s \in Seq(Events), Comparable(s), NEW n \in Nat, n + 1 <= Len(s),
         NEW k \in Nat, k + 1 <= n, Placed(s, n + 1), Risen(s, k)
  PROVE  Placed(Bubble(s, k + 1), n + 1) /\ Risen(Bubble(s, k + 1), k + 1)
<1> DEFINE j == k + 1
           v == Bubble(s, j)
<1>1. j \in Nat /\ 1 <= j /\ j + 1 <= Len(s) /\ j \in 1..Len(s) /\ j + 1 \in 1..Len(s)
      /\ j + 1 <= n + 1 /\ Len(s) \in Nat
  OBVIOUS
<1>2. \A p \in 1..Len(s) : From(s[p].t) \in Nat
  BY DEF Comparable
<1>3. CASE Big(s[j].t, s[j + 1].t)
  <2>1. v = Swapped(s, j)
    BY <1>3 DEF Bubble
  <2>2. /\ Len(v) = Len(s)
        /\ v[j] = s[j + 1] /\ v[j + 1] = s[j]
        /\ \A p \in 1..Len(s) : p # j /\ p # j + 1 => v[p] = s[p]
    BY <1>1, <2>1, SwappedIs
  <2>3. From(s[j].t) >= From(s[j + 1].t)
    BY <1>1, <1>3 DEF Comparable
  <2> HIDE DEF v
  <2>4. Risen(v, j)
    <3> SUFFICES ASSUME NEW p \in 1..j PROVE From(v[p].t) <= From(v[j + 1].t)
      BY DEF Risen
    <3>1. CASE p = j
      BY <2>2, <2>3, <3>1
    <3>2. CASE p # j
      <4>1. p \in 1..k /\ p \in 1..Len(s) /\ p # j + 1
        BY <1>1, <3>2
      <4>2. From(s[p].t) <= From(s[j].t)
        BY <4>1 DEF Risen
      <4> QED BY <2>2, <3>2, <4>1, <4>2
    <3> QED BY <3>1, <3>2
  <2>5. Placed(v, n + 1)
    <3> SUFFICES ASSUME NEW p \in 1..Len(s), NEW q \in 1..Len(s), p < q, q > n + 1
                 PROVE  From(v[p].t) <= From(v[q].t)
      BY <2>2 DEF Placed
    <3>1. q # j /\ q # j + 1 /\ v[q] = s[q]
      BY <1>1, <2>2
    <3>2. \A a \in 1..Len(s) : a < q => From(s[a].t) <= From(s[q].t)
      BY DEF Placed
    <3>3. j < q /\ j + 1 < q
      BY <1>1
    <3>4. v[p] = s[p] \/ v[p] = s[j] \/ v[p] = s[j + 1]
      BY <2>2
    <3> QED BY <1>1, <3>1, <3>2, <3>3, <3>4
  <2> QED BY <2>4, <2>5 DEF v
<1>4. CASE ~Big(s[j].t, s[j + 1].t)
  <2>1. v = s
    BY <1>4 DEF Bubble
  <2>2. ~(From(s[j].t) >= From(s[j + 1].t))
    BY <1>1, <1>4 DEF Comparable
  <2>3. From(s[j].t) <= From(s[j + 1].t)
    BY <1>1, <1>2, <2>2
  <2>4. Risen(s, j)
    <3> SUFFICES ASSUME NEW p \in 1..j PROVE From(s[p].t) <= From(s[j + 1].t)
      BY DEF Risen
    <3>1. CASE p = j
      BY <2>3, <3>1
    <3>2. CASE p # j
      <4>1. p \in 1..k /\ p \in 1..Len(s)
        BY <1>1, <3>2
      <4>2. From(s[p].t) <= From(s[j].t)
        BY <4>1 DEF Risen
      <4> QED BY <1>1, <1>2, <2>3, <4>1, <4>2
    <3> QED BY <3>1, <3>2
  <2> QED BY <2>1, <2>4
<1> QED BY <1>3, <1>4

\* One round: the inner loop over 1..n puts the last of the first n + 1 at its place.
LEMMA RoundKeeps ==
  ASSUME NEW s, NEW u, Rearranged(s, u), NEW i \in Nat, 1 <= i, i <= Len(s)
  PROVE  Rearranged(Round(s, i), u)
<1> DEFINE n == Len(s) - i
<1>1. n \in Nat /\ n + 1 <= Len(s) /\ s \in Seq(Events)
  BY DEF Rearranged
<1>2. PICK r : States(TRUE, s, n, r) /\ r[n] = FoldLeft(Bubble, s, [j \in 1..n |-> j])
  BY <1>1, InnerLoop
<1> DEFINE S == {k \in Nat : k <= n => Rearranged(r[k], u)}
<1>3. 0 \in S
  BY <1>2 DEF States
<1>4. ASSUME NEW k \in Nat, k \in S PROVE k + 1 \in S
  <2> SUFFICES ASSUME k + 1 <= n PROVE Rearranged(r[k + 1], u)
    OBVIOUS
  <2>1. k + 1 \in 1..n /\ k + 1 - 1 = k /\ k <= n
    BY <1>1
  <2>2. r[k + 1] = Bubble(r[k], k + 1)
    BY <1>2, <2>1 DEF States, Step
  <2>3. Rearranged(r[k], u)
    BY <1>4, <2>1
  <2>4. Len(r[k]) = Len(s)
    BY <2>3 DEF Rearranged
  <2>5. k + 1 \in Nat /\ 1 <= k + 1 /\ k + 1 + 1 <= Len(r[k])
    BY <1>1, <2>4
  <2> QED BY <2>2, <2>3, <2>5, BubbleRearranges
<1> HIDE DEF S
<1>5. n \in S
  BY <1>1, <1>3, <1>4, Induction
<1>6. Rearranged(r[n], u)
  BY <1>1, <1>5 DEF S
<1> QED BY <1>2, <1>6 DEF Round

\* And it leaves one timer more where it belongs.
LEMMA RoundPlaces ==
  ASSUME NEW s \in Seq(Events), Comparable(s), NEW i \in Nat, 1 <= i, i <= Len(s),
         Placed(s, Len(s) - i + 1)
  PROVE  Placed(Round(s, i), Len(s) - i)
<1> DEFINE n == Len(s) - i
<1>1. n \in Nat /\ n + 1 <= Len(s) /\ Len(s) \in Nat
  OBVIOUS
<1>2. PICK r : States(TRUE, s, n, r) /\ r[n] = FoldLeft(Bubble, s, [j \in 1..n |-> j])
  BY <1>1, InnerLoop
<1> DEFINE S == {k \in Nat : k <= n => /\ Rearranged(r[k], s)
                                       /\ Placed(r[k], n + 1) /\ Risen(r[k], k)}
<1>3. 0 \in S
  <2>1. r[0] = s
    BY <1>2 DEF States
  <2>2. Rearranged(s, s)
    BY RearrangedSame
  <2>3. Risen(s, 0)
    BY DEF Risen
  <2> QED BY <2>1, <2>2, <2>3
<1>4. ASSUME NEW k \in Nat, k \in S PROVE k + 1 \in S
  <2> SUFFICES ASSUME k + 1 <= n
               PROVE  /\ Rearranged(r[k + 1], s)
                      /\ Placed(r[k + 1], n + 1) /\ Risen(r[k + 1], k + 1)
    OBVIOUS
  <2>1. k + 1 \in 1..n /\ k + 1 - 1 = k /\ k <= n
    BY <1>1
  <2>2. r[k + 1] = Bubble(r[k], k + 1)
    BY <1>2, <2>1 DEF States, Step
  <2>3. Rearranged(r[k], s) /\ Placed(r[k], n + 1) /\ Risen(r[k], k)
    BY <1>4, <2>1
  <2>4. Len(r[k]) = Len(s) /\ r[k] \in Seq(Events)
    BY <2>3 DEF Rearranged
  <2>5. k + 1 \in Nat /\ 1 <= k + 1 /\ k + 1 + 1 <= Len(r[k]) /\ n + 1 <= Len(r[k])
    BY <1>1, <2>4
  <2>6. Comparable(r[k])
    BY <2>3, RearrangedComparable
  <2>7. Rearranged(r[k + 1], s)
    BY <2>2, <2>3, <2>5, BubbleRearranges
  <2> HIDE DEF n
  <2>8. Placed(r[k + 1], n + 1) /\ Risen(r[k + 1], k + 1)
    BY <1>1, <2>2, <2>3, <2>4, <2>5, <2>6, BubbleRises
  <2> QED BY <2>7, <2>8
<1> HIDE DEF S
<1>5. n \in S
  BY <1>1, <1>3, <1>4, Induction
<1>6. Rearranged(r[n], s) /\ Placed(r[n], n + 1) /\ Risen(r[n], n)
  BY <1>1, <1>5 DEF S
<1>7. Placed(r[n], n)
  <2> HIDE DEF n
  <2> SUFFICES ASSUME NEW p \in 1..Len(r[n]), NEW q \in 1..Len(r[n]), p < q, q > n
               PROVE  From(r[n][p].t) <= From(r[n][q].t)
    BY DEF Placed
  <2>1. CASE q > n + 1
    BY <1>6, <2>1 DEF Placed
  <2>2. CASE q = n + 1
    <3>1. p \in 1..n
      BY <1>1, <2>2
    <3> QED BY <1>6, <2>2, <3>1 DEF Risen
  <2>3. Len(r[n]) \in Nat
    BY <1>6 DEF Rearranged
  <2> QED BY <1>1, <2>1, <2>2, <2>3
<1>8. Round(s, i) = r[n]
  BY <1>2 DEF Round
<1> QED BY <1>7, <1>8

\* The rounds of the sort
LEMMA SortLoop ==
  ASSUME NEW u \in Seq(Events)
  PROVE  \E n \in Nat : /\ n = IF Len(u) = 0 THEN 0 ELSE Len(u) - 1
                        /\ \E q : States(FALSE, u, n, q) /\ q[n] = Sort(u)
<1> DEFINE n == IF Len(u) = 0 THEN 0 ELSE Len(u) - 1
<1>1. n \in Nat
  OBVIOUS
<1>2. 1..(Len(u) - 1) = 1..n
  OBVIOUS
<1>3. PICK q : States(FALSE, u, n, q) /\ q[n] = FoldLeft(Round, u, [j \in 1..n |-> j])
  BY <1>1, OuterLoop
<1>4. q[n] = Sort(u)
  BY <1>2, <1>3 DEF Sort
<1> QED BY <1>1, <1>3, <1>4

\* The sort loses no timer and makes up none.
THEOREM SortRearranges ==
  ASSUME NEW u \in Seq(Events)
  PROVE  Rearranged(Sort(u), u)
<1>0. PICK n \in Nat : /\ n = IF Len(u) = 0 THEN 0 ELSE Len(u) - 1
                      /\ \E q : States(FALSE, u, n, q) /\ q[n] = Sort(u)
  BY SortLoop
<1>1. PICK q : States(FALSE, u, n, q) /\ q[n] = Sort(u)
  BY <1>0
<1> DEFINE S == {i \in Nat : i <= n => Rearranged(q[i], u)}
<1>2. 0 \in S
  BY <1>1, RearrangedSame DEF States
<1>3. ASSUME NEW i \in Nat, i \in S PROVE i + 1 \in S
  <2> SUFFICES ASSUME i + 1 <= n PROVE Rearranged(q[i + 1], u)
    OBVIOUS
  <2>1. i + 1 \in 1..n /\ i + 1 - 1 = i /\ i <= n
    BY <1>0
  <2>2. q[i + 1] = Round(q[i], i + 1)
    BY <1>1, <2>1 DEF States, Step
  <2>3. Rearranged(q[i], u)
    BY <1>3, <2>1
  <2>4. Len(q[i]) = Len(u)
    BY <2>3 DEF Rearranged
  <2>5. i + 1 \in Nat /\ 1 <= i + 1 /\ i + 1 <= Len(q[i])
    BY <1>0, <2>4
  <2> QED BY <2>2, <2>3, <2>5, RoundKeeps
<1> HIDE DEF S
<1>4. n \in S
  BY <1>2, <1>3, Induction
<1> QED BY <1>1, <1>4 DEF S

\* And it orders them, when their times can be compared.
THEOREM SortOrders ==
  ASSUME NEW u \in Seq(Events), Comparable(u)
  PROVE  \A a, b \in 1..Len(Sort(u)) : a < b => From(Sort(u)[a].t) <= From(Sort(u)[b].t)
<1>0. PICK n \in Nat : /\ n = IF Len(u) = 0 THEN 0 ELSE Len(u) - 1
                      /\ \E q : States(FALSE, u, n, q) /\ q[n] = Sort(u)
  BY SortLoop
<1>1. PICK q : States(FALSE, u, n, q) /\ q[n] = Sort(u)
  BY <1>0
<1> DEFINE S == {i \in Nat : i <= n => Rearranged(q[i], u) /\ Placed(q[i], Len(u) - i)}
<1>2. 0 \in S
  <2>1. q[0] = u
    BY <1>1 DEF States
  <2>2. Placed(u, Len(u) - 0)
    BY DEF Placed
  <2> QED BY <2>1, <2>2, RearrangedSame
<1>3. ASSUME NEW i \in Nat, i \in S PROVE i + 1 \in S
  <2> SUFFICES ASSUME i + 1 <= n
               PROVE Rearranged(q[i + 1], u) /\ Placed(q[i + 1], Len(u) - (i + 1))
    OBVIOUS
  <2>1. i + 1 \in 1..n /\ i + 1 - 1 = i /\ i <= n /\ Len(u) \in Nat
    BY <1>0
  <2>2. q[i + 1] = Round(q[i], i + 1)
    BY <1>1, <2>1 DEF States, Step
  <2>3. Rearranged(q[i], u) /\ Placed(q[i], Len(u) - i)
    BY <1>3, <2>1
  <2>4. Len(q[i]) = Len(u) /\ q[i] \in Seq(Events)
    BY <2>3 DEF Rearranged
  <2>5. i + 1 \in Nat /\ 1 <= i + 1 /\ i + 1 <= Len(q[i]) /\
            Len(q[i]) - (i + 1) + 1 = Len(u) - i
    BY <1>0, <2>1, <2>4
  <2>6. Comparable(q[i])
    BY <2>3, RearrangedComparable
  <2>7. Rearranged(q[i + 1], u)
    BY <2>2, <2>3, <2>5, RoundKeeps
  <2>8. Placed(q[i + 1], Len(q[i]) - (i + 1))
    BY <2>2, <2>3, <2>4, <2>5, <2>6, RoundPlaces
  <2> QED BY <2>4, <2>7, <2>8
<1> HIDE DEF S
<1>4. n \in S
  BY <1>2, <1>3, Induction
<1>5. Rearranged(q[n], u) /\ Placed(q[n], Len(u) - n)
  BY <1>1, <1>4 DEF S
<1>6. Len(Sort(u)) = Len(u) /\ Len(u) \in Nat
  BY <1>1, <1>5 DEF Rearranged
<1> SUFFICES ASSUME NEW a \in 1..Len(Sort(u)), NEW b \in 1..Len(Sort(u)), a < b
             PROVE  From(Sort(u)[a].t) <= From(Sort(u)[b].t)
  OBVIOUS
<1>7. b > Len(u) - n
  BY <1>0, <1>6
<1> QED BY <1>1, <1>5, <1>7 DEF Placed

---------------------------------------------------------------------------
(* Times *)

\* The constants as the arithmetic needs them
LEMMA Numbers ==
  /\ Wrap \in Nat \ {0} /\ Wrap \div 4 \in Nat /\ Wrap = 4 * (Wrap \div 4)
  /\ Wrap \div 2 = 2 * (Wrap \div 4)
  /\ PRE \in 0..(Wrap \div 4) /\ POST \in 0..(Wrap \div 4)
  /\ PROCESS_WINDOW \in 0..(Wrap \div 4) /\ DELETE_WINDOW \in 0..(Wrap \div 4)
  /\ MaxGap \in Nat \ {0} /\ MAX_TIMER_NUM \in Nat \ {0} /\ Off \notin Ticks
  /\ \A d \in Intervals : d \in 1..(Wrap \div 4)
BY SoftTimerAssumption DEF Ticks

\* A number that is not more than one round of the clock away from its ticks
LEMMA ModIs ==
  ASSUME NEW w \in Nat \ {0}, NEW x \in Int, -w <= x, x < 2 * w
  PROVE  x % w = IF x < 0 THEN x + w ELSE IF x < w THEN x ELSE x - w
<1>1. ASSUME 0 <= x, x < w PROVE x % w = x
  BY <1>1
<1>2. ASSUME x < 0 PROVE x % w = x + w
  <2>1. PICK s \in 0..w : s = x + w
    BY <1>2
  <2>2. CASE s = w
    BY <1>2, <2>1, <2>2
  <2>3. CASE s # w
    <3>1. (s - w) % w = s
      BY <2>3
    <3>2. x = s - w
      BY <2>1
    <3> QED BY <2>1, <3>1, <3>2
  <2> QED BY <2>2, <2>3
<1>3. ASSUME x >= w PROVE x % w = x - w
  <2>1. PICK s \in 0..(w - 1) : s = x - w
    BY <1>3
  <2>2. (s + w) % w = s
    OBVIOUS
  <2>3. x = s + w
    BY <2>1
  <2> QED BY <2>1, <2>2, <2>3
<1> QED BY <1>1, <1>2, <1>3

\* The same for the ticks of the clock
LEMMA WrapIs ==
  ASSUME NEW x \in Int, -Wrap <= x, x < 2 * Wrap
  PROVE  x % Wrap = IF x < 0 THEN x + Wrap ELSE IF x < Wrap THEN x ELSE x - Wrap
<1>1. Wrap \in Nat \ {0}
  BY Numbers
<1> QED BY <1>1, ModIs

\* The distance of a time in ticks, without the modulo
LEMMA FromIs ==
  ASSUME now \in Ticks, NEW t \in Ticks
  PROVE  /\ From(t) \in Ticks
         /\ From(t) = IF t - now + POST < 0 THEN t - now + POST + Wrap
                      ELSE IF t - now + POST < Wrap THEN t - now + POST
                      ELSE t - now + POST - Wrap
<1>1. /\ t \in Int /\ now \in Int /\ POST \in Int /\ Wrap \in Int
     /\ -Wrap <= t - now + POST /\ t - now + POST < 2 * Wrap
  BY Numbers DEF Ticks
<1>2. From(t) = IF t - now + POST < 0 THEN t - now + POST + Wrap
                ELSE IF t - now + POST < Wrap THEN t - now + POST
                ELSE t - now + POST - Wrap
  BY <1>1, WrapIs DEF From
<1> QED BY <1>1, <1>2, Numbers DEF Ticks

\* A difference of two times, without the modulo
LEMMA MinusIs ==
  ASSUME NEW t \in Ticks, NEW u \in Ticks
  PROVE  Minus(t, u) = IF t < u THEN t - u + Wrap ELSE t - u
<1>1. /\ t \in Int /\ u \in Int /\ Wrap \in Int
     /\ -Wrap <= t - u /\ t - u < Wrap /\ t - u < 2 * Wrap
  BY Numbers DEF Ticks
<1> QED BY <1>1, WrapIs DEF Minus

\* The difference of two times is that of their distances.
LEMMA MinusFrom ==
  ASSUME now \in Ticks, NEW t \in Ticks, NEW u \in Ticks
  PROVE  Minus(t, u) = IF From(t) < From(u) THEN From(t) - From(u) + Wrap
                       ELSE From(t) - From(u)
<1> DEFINE F(x) == IF x - now + POST < 0 THEN x - now + POST + Wrap
                   ELSE IF x - now + POST < Wrap THEN x - now + POST
                   ELSE x - now + POST - Wrap
<1>1. From(t) = F(t) /\ From(u) = F(u)
  BY FromIs
<1>2. /\ Wrap \in Nat \ {0} /\ now \in 0..(Wrap - 1) /\ POST \in 0..(Wrap - 1)
      /\ t \in 0..(Wrap - 1) /\ u \in 0..(Wrap - 1)
  BY Numbers DEF Ticks
<1>3. Minus(t, u) = IF t < u THEN t - u + Wrap ELSE t - u
  BY MinusIs
<1>4. Minus(t, u) = IF F(t) < F(u) THEN F(t) - F(u) + Wrap ELSE F(t) - F(u)
  BY <1>2, <1>3
<1> QED BY <1>1, <1>4

\* The present is POST ticks from POST ticks ago.
LEMMA FromNow ==
  ASSUME now \in Ticks
  PROVE  From(now) = POST
BY FromIs, Numbers DEF Ticks

\* The time of a timer that starts now
LEMMA PlusIs ==
  ASSUME now \in Ticks, NEW d \in 0..(Wrap \div 4)
  PROVE  Plus(now, d) \in Ticks /\ From(Plus(now, d)) = POST + d
<1>1. /\ now \in Int /\ d \in Int /\ Wrap \in Int
     /\ -Wrap <= now + d /\ now + d < 2 * Wrap /\ 0 <= now + d
  BY Numbers DEF Ticks
<1>2. Plus(now, d) = IF now + d < Wrap THEN now + d ELSE now + d - Wrap
  BY <1>1, WrapIs DEF Plus
<1>3. Plus(now, d) \in Ticks
  BY <1>1, <1>2, Numbers DEF Ticks
<1> QED BY <1>2, <1>3, FromIs, Numbers DEF Ticks

\* A timer is expired from PRE ticks before its time on, until it is POST - PRE ticks late.
LEMMA ExpiredIs ==
  ASSUME now \in Ticks, NEW t \in Ticks
  PROVE  Expired(t) <=> PRE < From(t) /\ From(t) <= PRE + POST
<1>1. /\ now \in Int /\ PRE \in Int /\ t \in Int /\ Wrap \in Int
     /\ -Wrap <= now + PRE - t /\ now + PRE - t < 2 * Wrap
  BY Numbers DEF Ticks
<1>2. Minus(now + PRE, t) = IF now + PRE - t < 0 THEN now + PRE - t + Wrap
                            ELSE IF now + PRE - t < Wrap THEN now + PRE - t
                            ELSE now + PRE - t - Wrap
  BY <1>1, WrapIs DEF Minus
<1> QED BY <1>2, FromIs, Numbers DEF Expired, Ticks

\* A tick brings every time one tick nearer.
LEMMA FromTick ==
  ASSUME now \in Ticks, now' = Plus(now, 1), NEW t \in Ticks, 1 <= From(t)
  PROVE  now' \in Ticks /\ From(t)' = From(t) - 1
<1>1. /\ now \in Int /\ Wrap \in Int
     /\ -Wrap <= now + 1 /\ now + 1 < 2 * Wrap
  BY Numbers DEF Ticks
<1>2. now' = IF now + 1 < Wrap THEN now + 1 ELSE now + 1 - Wrap
  BY <1>1, WrapIs DEF Plus, Ticks
<1>3. now' \in Ticks
  BY <1>2, Numbers DEF Ticks
<1>4. From(t)' = (t - now' + POST) % Wrap
  BY DEF From
<1>5. /\ t \in Int /\ now' \in Int /\ POST \in Int /\ Wrap \in Int
     /\ -Wrap <= t - now' + POST /\ t - now' + POST < 2 * Wrap
  BY <1>3, Numbers DEF Ticks
<1>6. From(t)' = IF t - now' + POST < 0 THEN t - now' + POST + Wrap
                 ELSE IF t - now' + POST < Wrap THEN t - now' + POST
                 ELSE t - now' + POST - Wrap
  BY <1>4, <1>5, WrapIs
<1>7. From(t) = IF t - now + POST < 0 THEN t - now + POST + Wrap
                ELSE IF t - now + POST < Wrap THEN t - now + POST
                ELSE t - now + POST - Wrap
  BY FromIs
<1>8. /\ Wrap \in Nat \ {0} /\ now \in 0..(Wrap - 1) /\ POST \in 0..(Wrap - 1)
      /\ t \in 0..(Wrap - 1)
  BY Numbers DEF Ticks
<1>9. From(t)' = From(t) - 1
  BY <1>2, <1>6, <1>7, <1>8
<1> QED BY <1>3, <1>9

\* Where the times of the timers in the table lie
Near(t) == PRE < From(t) /\ From(t) <= PRE + Wrap \div 4

\* There their differences order them,
LEMMA BigIs ==
  ASSUME now \in Ticks, NEW t \in Ticks, NEW u \in Ticks, Near(t), Near(u)
  PROVE  Big(t, u) <=> From(t) >= From(u)
BY MinusFrom, FromIs, Numbers DEF Big, Near, Ticks

\* and one that is late counts as expired.
LEMMA LateIs ==
  ASSUME now \in Ticks, NEW t \in Ticks, Near(t)
  PROVE  /\ Late(t) > 0 <=> From(t) < POST
         /\ Expired(t) <=> From(t) <= PRE + POST
<1>1. Minus(now, t) = IF POST < From(t) THEN POST - From(t) + Wrap ELSE POST - From(t)
  BY MinusFrom, FromNow
<1> QED BY <1>1, FromIs, ExpiredIs, Numbers DEF Late, Near, Ticks

---------------------------------------------------------------------------
(* What the operations do to the table *)

\* The timers behind the one that is removed move up by one place.
LEMMA RemoveAtIs ==
  ASSUME NEW s \in Seq(Events), NEW k \in 1..Len(s)
  PROVE  /\ RemoveAt(s, k) \in Seq(Events) /\ Len(RemoveAt(s, k)) = Len(s) - 1
         /\ \A p \in 1..(Len(s) - 1) : RemoveAt(s, k)[p] = s[IF p < k THEN p ELSE p + 1]
<1> DEFINE a == SubSeq(s, 1, k - 1)
           b == SubSeq(s, k + 1, Len(s))
<1>1. /\ a \in Seq(Events) /\ Len(a) = k - 1
      /\ \A p \in 1..(k - 1) : a[p] = s[p]
  OBVIOUS
<1>2. b \in Seq(Events) /\ Len(b) = Len(s) - k
  OBVIOUS
<1>3. \A p \in 1..(Len(s) - k) : b[p] = s[p + k]
  OBVIOUS
<1>4. RemoveAt(s, k) = a \o b
  BY DEF RemoveAt
<1>5. k \in Nat /\ Len(s) \in Nat /\ 1 <= k /\ k <= Len(s)
  OBVIOUS
<1> HIDE DEF a, b
<1>6. a \o b \in Seq(Events) /\ Len(a \o b) = Len(s) - 1
  BY <1>1, <1>2, <1>5
<1>7. ASSUME NEW p \in 1..(Len(s) - 1) PROVE (a \o b)[p] = s[IF p < k THEN p ELSE p + 1]
  <2>1. CASE p < k
    <3>1. p \in 1..(k - 1)
      BY <1>5, <2>1
    <3>2. (a \o b)[p] = a[p]
      BY <1>1, <1>2, <1>5, <3>1
    <3> QED BY <1>1, <2>1, <3>1, <3>2
  <2>2. CASE ~(p < k)
    <3>1. p - (k - 1) \in 1..(Len(s) - k) /\ p - (k - 1) + k = p + 1
      BY <1>5, <2>2
    <3>2. (a \o b)[p] = b[p - (k - 1)]
      BY <1>1, <1>2, <1>5, <2>2
    <3> QED BY <1>3, <2>2, <3>1, <3>2
  <2> QED BY <2>1, <2>2
<1> QED BY <1>4, <1>6, <1>7

\* blt_soft_timer_delete finds a timer of the callback.
LEMMA TimerOfIs ==
  ASSUME timer \in Seq(Events), NEW cb, HasTimer(cb)
  PROVE  TimerOf(cb) \in 1..Len(timer)
<1> DEFINE I == {i \in 1..Len(timer) : timer[i].cb = cb}
<1>1. I \subseteq Nat /\ I # {}
  BY DEF HasTimer
<1>2. PICK m \in I : \A k \in I : m <= k
  BY <1>1, First
<1>3. TimerOf(cb) = Min(I)
  BY <1>1 DEF TimerOf, SelectInSeq
<1>4. Min(I) \in I
  BY <1>2 DEF Min
<1> QED BY <1>3, <1>4

\* A new timer
New(cb, d) == [cb |-> cb, t |-> Plus(now, d), interval |-> d]

\* It is further away than POST ticks from POST ticks ago, by its interval.
LEMMA NewIs ==
  ASSUME now \in Ticks, NEW cb \in Callbacks, NEW d \in Intervals
  PROVE  New(cb, d) \in Events /\ From(New(cb, d).t) = POST + d
<1>1. d \in 0..(Wrap \div 4)
  BY Numbers
<1>2. Plus(now, d) \in Ticks /\ From(Plus(now, d)) = POST + d
  BY <1>1, PlusIs
<1> QED BY <1>2 DEF New, Events, Ticks

\* blt_soft_timer_add sorts the table with the new timer behind the others.
LEMMA AddIs ==
  ASSUME TypeOK, NEW cb \in Callbacks, NEW d \in Intervals, Add(cb, d)
  PROVE  LET u == Append(timer, New(cb, d))
         IN  /\ u \in Seq(Events) /\ Len(u) = Len(timer) + 1
             /\ \A p \in 1..Len(timer) : u[p] = timer[p]
             /\ u[Len(timer) + 1] = New(cb, d)
             /\ timer' = Sort(u) /\ Rearranged(timer', u)
             /\ Len(timer') = Len(timer) + 1 /\ wakeup' = timer'[1].t
<1>1. New(cb, d) \in Events /\ timer \in Seq(Events)
  BY NewIs DEF TypeOK
<1>2. Append(timer, New(cb, d)) \in Seq(Events)
  BY <1>1
<1>3. timer' = Sort(Append(timer, New(cb, d))) /\ wakeup' = timer'[1].t
  BY DEF Add, New
<1>4. Rearranged(timer', Append(timer, New(cb, d)))
  BY <1>2, <1>3, SortRearranges
<1>5. Len(timer') = Len(timer) + 1
  BY <1>1, <1>4 DEF Rearranged
<1> QED BY <1>1, <1>2, <1>3, <1>4, <1>5

\* A timer that is called and stays is like a new one at its place.
LEMMA AgainIs ==
  ASSUME TypeOK, CallAgain
  PROVE  \E d \in Intervals, c \in Callbacks :
           /\ at \in 1..Len(timer)
           /\ timer' \in Seq(Events) /\ Len(timer') = Len(timer)
           /\ timer'[at] = New(c, d)
           /\ \A p \in 1..Len(timer) : p # at => timer'[p] = timer[p]
<1>1. PICK d \in Intervals :
        timer' = [timer EXCEPT ![at].t = Plus(now, d), ![at].interval = d]
  BY DEF CallAgain
<1>2. at \in 1..Len(timer) /\ timer \in Seq(Events) /\ timer[at] \in Events
  BY DEF CallAgain, Due, TypeOK
<1>3. timer[at].cb \in Callbacks
  BY <1>2 DEF Events
<1>4. New(timer[at].cb, d) \in Events
  BY <1>3, NewIs DEF TypeOK
<1> DEFINE e == timer[at]
<1>5. [[e EXCEPT !.t = Plus(now, d)] EXCEPT !.interval = d] = New(e.cb, d)
  <2>1. PICK c \in Callbacks, t \in Ticks, i \in Intervals : e = [cb |-> c, t |-> t,
                 interval |-> i]
    BY <1>2 DEF Events
  <2> HIDE DEF e
  <2> DEFINE f == [e EXCEPT !.t = Plus(now, d)]
  <2>2. f = [cb |-> c, t |-> Plus(now, d), interval |-> i]
    BY <2>1
  <2> HIDE DEF f
  <2>3. [f EXCEPT !.interval = d] = [cb |-> c, t |-> Plus(now, d), interval |-> d]
    BY <2>2
  <2>4. e.cb = c
    BY <2>1
  <2> QED BY <2>3, <2>4 DEF New, f
<1>6. timer' = [timer EXCEPT ![at] = New(e.cb, d)]
  BY <1>1, <1>2, <1>5
<1> QED BY <1>2, <1>3, <1>4, <1>6

---------------------------------------------------------------------------
(* Types *)

\* The wakeup is a time of the clock or none.
LEMMA WakeupWithinIs ==
  ASSUME NEW s \in Seq(Events), NEW w
  PROVE  WakeupWithin(s, w) \in Ticks \cup {Off}
<1>1. s # <<>> => s[1] \in Events
  OBVIOUS
<1>2. s # <<>> => s[1].t \in Ticks
  BY <1>1 DEF Events
<1> QED BY <1>2 DEF WakeupWithin

\* Whatever is done to the table, and whichever interval a callback asks for, the table
\* keeps within its MAX_TIMER_NUM places and holds timers, with times of the clock, and
\* the loop of blt_soft_timer_process ends behind the last of them.
THEOREM TypesKept == Spec => []TypeOK
<1>1. Init => TypeOK
  <2>1. <<>> \in Seq(Events) /\ Len(<<>>) = 0
    OBVIOUS
  <2>2. 0 \in Ticks /\ 0 \in 0..MaxGap /\ 0 <= MAX_TIMER_NUM /\ 0 \in 0..(MAX_TIMER_NUM + 1)
    BY Numbers DEF Ticks
  <2> QED BY <2>1, <2>2 DEF Init, TypeOK
<1>2. TypeOK /\ [Next]_vars => TypeOK'
  <2> SUFFICES ASSUME TypeOK, [Next]_vars PROVE TypeOK'
    OBVIOUS
  <2>1. /\ timer \in Seq(Events) /\ Len(timer) \in Nat /\ Len(timer) <= MAX_TIMER_NUM
        /\ now \in Ticks /\ gap \in 0..MaxGap /\ wakeup \in Ticks \cup {Off}
        /\ at \in 0..(MAX_TIMER_NUM + 1) /\ change \in BOOLEAN
        /\ 0 \in 0..MaxGap /\ 0 \in 0..(MAX_TIMER_NUM + 1)
    BY Numbers DEF TypeOK
  <2>2. at \in DOMAIN timer => at + 1 \in 0..(MAX_TIMER_NUM + 1)
    BY <2>1, Numbers
  <2>3. ASSUME NEW cb \in Callbacks, Delete(cb) PROVE TypeOK'
    <3>1. TimerOf(cb) \in 1..Len(timer) /\ timer' = RemoveAt(timer, TimerOf(cb))
      BY <2>1, <2>3, TimerOfIs DEF Delete
    <3>2. timer' \in Seq(Events) /\ Len(timer') = Len(timer) - 1
      BY <2>1, <3>1, RemoveAtIs
    <3>3. wakeup' \in Ticks \cup {Off}
      BY <2>1, <2>3, <3>2, WakeupWithinIs DEF Delete
    <3>4. Len(timer') <= MAX_TIMER_NUM
      BY <2>1, <3>2, Numbers
    <3> QED BY <2>1, <2>3, <3>2, <3>3, <3>4 DEF Delete, TypeOK
  <2>4. ASSUME NEW cb \in Callbacks, NEW d \in Intervals, Add(cb, d) PROVE TypeOK'
    <3>1. /\ timer' \in Seq(Events) /\ Len(timer') = Len(timer) + 1
          /\ wakeup' = timer'[1].t
      BY <2>4, AddIs DEF Rearranged
    <3>2. timer'[1] \in Events
      BY <2>1, <3>1
    <3>3. wakeup' \in Ticks
      BY <3>1, <3>2 DEF Events
    <3>4. Len(timer') <= MAX_TIMER_NUM
      BY <2>1, <2>4, <3>1, Numbers DEF Add
    <3> QED BY <2>1, <2>4, <3>1, <3>3, <3>4 DEF Add, TypeOK
  <2>5. CASE ProcessNothing
    BY <2>1, <2>5 DEF ProcessNothing, TypeOK
  <2>6. CASE ProcessBegin
    <3>1. 1 \in 0..(MAX_TIMER_NUM + 1)
      BY Numbers
    <3> QED BY <2>1, <2>6, <3>1 DEF ProcessBegin, TypeOK
  <2>7. CASE Pass
    BY <2>1, <2>2, <2>7 DEF Pass, TypeOK
  <2>8. CASE CallEnds
    <3>1. at \in 1..Len(timer) /\ timer' = RemoveAt(timer, at) /\ at' = at + 1
      BY <2>1, <2>8 DEF CallEnds, Due
    <3>2. timer' \in Seq(Events) /\ Len(timer') = Len(timer) - 1
      BY <2>1, <3>1, RemoveAtIs
    <3>3. Len(timer') <= MAX_TIMER_NUM
      BY <2>1, <3>2, Numbers
    <3> QED BY <2>1, <2>2, <2>8, <3>1, <3>2, <3>3 DEF CallEnds, TypeOK
  <2>9. CASE CallAgain
    <3>1. timer' \in Seq(Events) /\ Len(timer') = Len(timer) /\ at \in DOMAIN timer
      BY <2>1, <2>9, AgainIs
    <3>2. /\ at' = at + 1 /\ change' = TRUE
          /\ now' = now /\ gap' = gap /\ wakeup' = wakeup
      BY <2>9 DEF CallAgain
    <3> QED BY <2>1, <2>2, <3>1, <3>2 DEF TypeOK
  <2>10. CASE ProcessEnd
    <3>1. timer' \in Seq(Events) /\ Len(timer') = Len(timer)
      BY <2>1, <2>10, SortRearranges DEF ProcessEnd, Rearranged
    <3>2. wakeup' \in Ticks \cup {Off}
      BY <2>10, <3>1, WakeupWithinIs DEF ProcessEnd
    <3> QED BY <2>1, <2>10, <3>1, <3>2 DEF ProcessEnd, TypeOK
  <2>11. CASE Tick
    <3>1. 1 \in 0..(Wrap \div 4) /\ gap + 1 \in 0..MaxGap
      BY <2>1, <2>11, Numbers DEF Tick
    <3>2. now' \in Ticks
      BY <2>1, <2>11, <3>1, PlusIs DEF Tick
    <3> QED BY <2>1, <2>11, <3>1, <3>2 DEF Tick, TypeOK
  <2>12. CASE UNCHANGED vars
    BY <2>1, <2>12 DEF TypeOK, vars
  <2> QED BY <2>3, <2>4, <2>5, <2>6, <2>7, <2>8, <2>9, <2>10, <2>11, <2>12 DEF Next
<1> QED BY <1>1, <1>2, PTL DEF Spec

---------------------------------------------------------------------------
(* The invariant of the times                                              *)
(*                                                                         *)
(* A timer that is due is called in the next pass, unless another one that *)
(* ends makes the loop skip it.  Then it is nearer to the start of the     *)
(* table in the pass after it, so that the timer at place p, of at most    *)
(* MAX_TIMER_NUM, is skipped at most Skips(p) times: at every one of them  *)
(* it gets MaxGap ticks later.                                             *)

Place(k) == From(timer[k].t)

\* The first tick that is not due any more, seen from 4 s ago
Top == POST + PRE + 1

Half == MAX_TIMER_NUM \div 2

Skips(p) == IF p <= Half THEN Half - p + 1 ELSE 0

\* How near the timer at place p may be at the end of a pass
Bound(p) == Top - MaxGap * Skips(p)

Ordered == \A i, j \in 1..Len(timer) : i < j => Place(i) <= Place(j)

\* No timer is further away than its interval.
UpperInv == \A k \in 1..Len(timer) : Place(k) <= POST + timer[k].interval

\* The loop only disturbs the order when change_flg says so.
OrderInv == at = 0 \/ ~change => Ordered

LateInv == at = 0 => \A k \in 1..Len(timer) : Place(k) >= Bound(k) - gap

\* The loop has ended r timers.  Of the timers it has passed, the ones it skipped had the
\* ranks 1..r, one each, and the others (0) are not due; the ones to come have moved by r.
LoopAt(r, rank) ==
  /\ r < at /\ Len(timer) + r <= MAX_TIMER_NUM
  /\ \A i, j \in 1..(at - 1) : rank[i] = rank[j] => i = j \/ rank[i] = 0
  /\ \A i \in 1..Len(timer) :
       /\ i < at => Place(i) >= IF rank[i] = 0 THEN Top ELSE Bound(rank[i])
       /\ i >= at => Place(i) >= Bound(i + r) - MaxGap

LoopInv ==
  at > 0 =>
    /\ gap = 0
    /\ \E r \in 0..MAX_TIMER_NUM : \E rank \in [1..(at - 1) -> 0..r] : LoopAt(r, rank)

TimeInv == UpperInv /\ OrderInv /\ LateInv /\ LoopInv

---------------------------------------------------------------------------
(* The bounds *)

\* Products grow with their second factor.
LEMMA Product ==
  ASSUME NEW c \in Nat, NEW a \in Nat, NEW b \in Nat, a <= b
  PROVE  c * a \in Nat /\ c * a <= c * b
<1>1. PICK k \in Nat : b = a + k
  <2>1. b - a \in Nat /\ b = a + (b - a)
    OBVIOUS
  <2> QED BY <2>1
<1>2. c * (a + k) = c * a + c * k /\ c * a \in Nat /\ c * k \in Nat
  OBVIOUS
<1> QED BY <1>1, <1>2

\* How often a timer can be skipped: less, the nearer it is to the start of the table
LEMMA SkipsIs ==
  /\ Half \in Nat /\ 2 * Half <= MAX_TIMER_NUM /\ MAX_TIMER_NUM <= 2 * Half + 1
  /\ \A p \in Nat : Skips(p) \in Nat
  /\ \A p, q \in Nat : p <= q => Skips(q) <= Skips(p)
  /\ \A p \in Nat \ {0} : Skips(p) <= Half
<1>1. Half \in Nat /\ 2 * Half <= MAX_TIMER_NUM /\ MAX_TIMER_NUM <= 2 * Half + 1
  BY Numbers DEF Half
<1> QED BY <1>1 DEF Skips

\* The bounds are between the margin and Top, and grow with the place.
LEMMA BoundIs ==
  /\ Top \in Nat
  /\ \A p \in Nat : Bound(p) \in Int /\ Bound(p) <= Top
  /\ \A p, q \in Nat : p <= q => Bound(p) <= Bound(q)
  /\ \A p, q \in Nat : Skips(q) + 1 <= Skips(p) => Bound(p) <= Bound(q) - MaxGap
<1>1. Top \in Nat /\ MaxGap \in Nat
  BY Numbers DEF Top
<1>2. ASSUME NEW p \in Nat PROVE Bound(p) \in Int /\ Bound(p) <= Top
  <2>1. MaxGap * Skips(p) \in Nat
    BY <1>1, SkipsIs, Product
  <2> QED BY <1>1, <2>1 DEF Bound
<1>3. ASSUME NEW p \in Nat, NEW q \in Nat, p <= q PROVE Bound(p) <= Bound(q)
  <2>1. Skips(p) \in Nat /\ Skips(q) \in Nat /\ Skips(q) <= Skips(p)
    BY <1>3, SkipsIs
  <2>2. MaxGap * Skips(q) \in Nat /\ MaxGap * Skips(p) \in Nat /\
            MaxGap * Skips(q) <= MaxGap * Skips(p)
    BY <1>1, <2>1, Product
  <2> QED BY <1>1, <2>2 DEF Bound
<1>4. ASSUME NEW p \in Nat, NEW q \in Nat, Skips(q) + 1 <= Skips(p)
      PROVE  Bound(p) <= Bound(q) - MaxGap
  <2>1. Skips(p) \in Nat /\ Skips(q) \in Nat
    BY SkipsIs
  <2>2. MaxGap * (Skips(q) + 1) <= MaxGap * Skips(p)
    BY <1>1, <1>4, <2>1, Product
  <2>3. MaxGap * (Skips(q) + 1) = MaxGap * Skips(q) + MaxGap
    BY <1>1, <2>1
  <2>4. MaxGap * Skips(q) \in Nat /\ MaxGap * Skips(p) \in Nat
    BY <1>1, <2>1, Product
  <2> QED BY <1>1, <2>2, <2>3, <2>4 DEF Bound
<1> QED BY <1>1, <1>2, <1>3, <1>4

\* With the 4 s as long as that, no bound lets a timer get out of the margin.
LEMMA BoundLeast ==
  ASSUME InTime, NEW p \in Nat \ {0}
  PROVE  Bound(p) - MaxGap >= PRE + 1
<1>1. MaxGap \in Nat /\ POST \in Nat /\ PRE \in Nat
  BY Numbers
<1>2. Half \in Nat /\ Skips(p) \in Nat /\ Skips(p) + 1 <= Half + 1
  BY SkipsIs
<1>3. MaxGap * (Skips(p) + 1) <= MaxGap * (Half + 1)
  BY <1>1, <1>2, Product
<1>4. MaxGap * (Half + 1) <= POST
  <2>1. (Half + 1) * MaxGap <= POST
    BY DEF InTime, Half
  <2>2. (Half + 1) * MaxGap = MaxGap * (Half + 1)
    BY <1>1, <1>2
  <2> QED BY <2>1, <2>2
<1>5. MaxGap * (Skips(p) + 1) = MaxGap * Skips(p) + MaxGap
  BY <1>1, <1>2
<1>6. MaxGap * Skips(p) \in Nat /\ MaxGap * (Half + 1) \in Nat
  BY <1>1, <1>2, Product
<1> QED BY <1>1, <1>3, <1>4, <1>5, <1>6 DEF Bound, Top

\* What the invariant says of every timer, wherever the loop is
LEMMA NearIs ==
  ASSUME InTime, TypeOK, TimeInv, NEW k \in 1..Len(timer)
  PROVE  /\ timer[k] \in Events /\ timer[k].t \in Ticks /\ timer[k].interval \in Intervals
         /\ Place(k) \in Nat /\ PRE + 1 <= Place(k) /\ Near(timer[k].t)
<1>1. /\ timer[k] \in Events /\ timer[k].t \in Ticks /\ timer[k].interval \in Intervals
      /\ now \in Ticks /\ gap \in 0..MaxGap /\ at \in Nat /\ k \in Nat \ {0}
  <2>1. timer[k] \in Events
    BY DEF TypeOK
  <2> QED BY <2>1 DEF TypeOK, Events
<1>2. Place(k) \in Nat
  BY <1>1, FromIs DEF Place, Ticks
<1>3. MaxGap \in Nat /\ PRE \in Nat /\ POST \in Nat /\ Wrap \div 4 \in Nat /\
          gap \in Nat /\ gap <= MaxGap
  BY <1>1, Numbers
<1>4. PRE + 1 <= Place(k)
  <2>1. Bound(k) \in Int /\ Bound(k) - MaxGap >= PRE + 1
    BY <1>1, BoundIs, BoundLeast
  <2>2. CASE at = 0
    <3>1. Place(k) >= Bound(k) - gap
      BY <2>2 DEF TimeInv, LateInv
    <3> QED BY <1>2, <1>3, <2>1, <3>1
  <2>3. CASE at > 0
    <3>0. PICK r \in 0..MAX_TIMER_NUM : \E rank \in [1..(at - 1) -> 0..r] : LoopAt(r, rank)
      BY <2>3 DEF TimeInv, LoopInv
    <3>1. PICK rank \in [1..(at - 1) -> 0..r] : LoopAt(r, rank)
      BY <3>0
    <3>2. r \in Nat
      BY Numbers
    <3>3. CASE k < at
      <4>1. Place(k) >= IF rank[k] = 0 THEN Top ELSE Bound(rank[k])
        BY <3>1, <3>3 DEF LoopAt
      <4>2. k \in 1..(at - 1)
        BY <1>1, <3>3
      <4>3. rank[k] # 0 => Bound(rank[k]) \in Int /\ Bound(rank[k]) - MaxGap >= PRE + 1
        <5>1. rank[k] \in 0..r
          BY <4>2
        <5>2. rank[k] # 0 => rank[k] \in Nat \ {0}
          BY <3>2, <5>1
        <5> QED BY <5>2, BoundIs, BoundLeast
      <4>4. Top \in Nat /\ Top >= PRE + 1
        BY <1>3 DEF Top
      <4> QED BY <1>2, <1>3, <4>1, <4>3, <4>4
    <3>4. CASE k >= at
      <4>1. Place(k) >= Bound(k + r) - MaxGap
        BY <3>1, <3>4 DEF LoopAt
      <4>2. k + r \in Nat \ {0}
        BY <1>1, <3>2
      <4>3. Bound(k + r) \in Int /\ Bound(k + r) - MaxGap >= PRE + 1
        BY <4>2, BoundIs, BoundLeast
      <4> QED BY <1>2, <1>3, <4>1, <4>3
    <3> QED BY <1>1, <3>3, <3>4
  <2> QED BY <1>1, <2>2, <2>3
<1>5. Place(k) <= POST + timer[k].interval
  BY DEF TimeInv, UpperInv
<1>6. timer[k].interval \in 1..(Wrap \div 4) /\ timer[k].interval + POST - PRE <= Wrap \div 4
  BY <1>1, Numbers DEF InTime
<1>7. Place(k) <= PRE + Wrap \div 4
  BY <1>2, <1>3, <1>5, <1>6
<1> QED BY <1>1, <1>2, <1>3, <1>4, <1>7 DEF Near, Place

\* There are n places in 1..n.
LEMMA CountIs ==
  ASSUME NEW n \in Nat
  PROVE  IsFiniteSet(1..n) /\ Cardinality(1..n) = n
<1>1. 1 \in Int /\ n \in Int
  OBVIOUS
<1>2. IsFiniteSet(1..n) /\ Cardinality(1..n) = IF 1 > n THEN 0 ELSE n - 1 + 1
  BY <1>1, FS_Interval, Zenon
<1> QED BY <1>2

\* The sort keeps the bounds.  h gives the timers that are below Top a place each that
\* bounds them.  If the timer sorted to place p were nearer than its bound, so were all
\* the p timers up to there, which h would have to give the places before p.
LEMMA SortBound ==
  ASSUME NEW s, NEW u, Rearranged(s, u), NEW g \in Nat,
         \A k \in 1..Len(u) : From(u[k].t) \in Nat,
         \A a, b \in 1..Len(s) : a < b => From(s[a].t) <= From(s[b].t),
         NEW h \in [1..Len(u) -> Nat],
         \A i, j \in 1..Len(u) : h[i] = h[j] => i = j \/ h[i] = 0,
         \A i \in 1..Len(u) : From(u[i].t) >= IF h[i] = 0 THEN Top ELSE Bound(h[i]) - g
  PROVE  \A p \in 1..Len(s) : From(s[p].t) >= Bound(p) - g
<1> SUFFICES ASSUME NEW p \in 1..Len(s), ~(From(s[p].t) >= Bound(p) - g) PROVE FALSE
  OBVIOUS
<1>1. Len(s) = Len(u) /\ Len(u) \in Nat
  BY DEF Rearranged
<1>2. PICK m \in [1..Len(u) -> 1..Len(u)] :
             /\ \A a, b \in 1..Len(u) : m[a] = m[b] => a = b
             /\ \A a \in 1..Len(u) : s[a] = u[m[a]]
  BY DEF Rearranged
<1>3. p \in Nat \ {0} /\ p - 1 \in Nat /\ p \in 1..Len(u) /\ \A q \in 1..p : q \in 1..Len(u)
  BY <1>1
<1>4. Bound(p) \in Int /\ Top \in Nat /\ Bound(p) <= Top
  BY <1>3, BoundIs
<1>5. ASSUME NEW q \in 1..p PROVE h[m[q]] \in 1..(p - 1)
  <2>1. m[q] \in 1..Len(u) /\ s[q] = u[m[q]] /\ m[p] \in 1..Len(u) /\ s[p] = u[m[p]]
    BY <1>2, <1>3
  <2>2. From(s[q].t) \in Nat /\ From(s[p].t) \in Nat
    BY <2>1
  <2>3. From(s[q].t) <= From(s[p].t)
    <3>1. CASE q = p
      BY <2>2, <3>1
    <3>2. CASE q # p
      <4>1. q < p /\ q \in 1..Len(s)
        BY <1>1, <1>3, <3>2
      <4> QED BY <4>1
    <3> QED BY <3>1, <3>2
  <2>4. From(s[q].t) < Bound(p) - g
    BY <1>4, <2>2, <2>3
  <2> DEFINE x == h[m[q]]
  <2>5. x \in Nat /\ From(s[q].t) >= IF x = 0 THEN Top ELSE Bound(x) - g
    BY <2>1
  <2> HIDE DEF x
  <2>6. x # 0
    BY <1>4, <2>2, <2>4, <2>5
  <2>7. x < p
    <3> SUFFICES ASSUME p <= x PROVE FALSE
      BY <1>3, <2>5
    <3>1. Bound(p) <= Bound(x) /\ Bound(x) \in Int
      BY <1>3, <2>5, BoundIs
    <3> QED BY <1>4, <2>2, <2>4, <2>5, <2>6, <3>1
  <2>8. x \in 1..(p - 1)
    BY <1>3, <2>5, <2>6, <2>7
  <2> QED BY <2>8 DEF x
<1> DEFINE f == [q \in 1..p |-> h[m[q]]]
<1>6. f \in [1..p -> 1..(p - 1)]
  BY <1>5
<1>7. /\ IsFiniteSet(1..p) /\ Cardinality(1..p) = p
      /\ IsFiniteSet(1..(p - 1)) /\ Cardinality(1..(p - 1)) = p - 1
  <2>1. p \in Nat /\ p - 1 \in Nat
    BY <1>3
  <2> QED BY <2>1, CountIs
<1>8. PICK a \in 1..p, b \in 1..p : a # b /\ f[a] = f[b]
  <2>1. Cardinality(1..(p - 1)) < Cardinality(1..p)
    BY <1>3, <1>7
  <2> DEFINE A == 1..p
             B == 1..(p - 1)
  <2>2. /\ f \in [A -> B] /\ IsFiniteSet(A) /\ IsFiniteSet(B)
        /\ Cardinality(B) < Cardinality(A)
    BY <1>6, <1>7, <2>1
  <2> HIDE DEF f, A, B
  <2>3. \E a, b \in A : a # b /\ f[a] = f[b]
    BY <2>2, FS_PigeonHole
  <2> QED BY <2>3 DEF A
<1>9. h[m[a]] = h[m[b]] /\ h[m[a]] # 0 /\ m[a] \in 1..Len(u) /\ m[b] \in 1..Len(u)
  <2>1. h[m[a]] = h[m[b]]
    BY <1>8
  <2>2. h[m[a]] \in 1..(p - 1)
    BY <1>5
  <2>3. h[m[a]] # 0
    BY <1>3, <2>2
  <2>4. a \in 1..Len(u) /\ b \in 1..Len(u)
    BY <1>3
  <2>5. m[a] \in 1..Len(u) /\ m[b] \in 1..Len(u)
    BY <1>2, <2>4
  <2> QED BY <2>1, <2>3, <2>5
<1> QED BY <1>2, <1>3, <1>8, <1>9

---------------------------------------------------------------------------
(* The steps between two passes *)

\* The table is empty at the start.
LEMMA TimeInit ==
  ASSUME Init PROVE TimeInv
<1>1. 1..Len(timer) = {} /\ at = 0
  BY DEF Init
<1> QED BY <1>1 DEF TimeInv, UpperInv, OrderInv, Ordered, LateInv, LoopInv

\* The timers behind a deleted one move to places with a lower bound.
LEMMA TimeDelete ==
  ASSUME InTime, TypeOK, TimeInv, NEW cb, Delete(cb) PROVE TimeInv'
<1>1. timer \in Seq(Events) /\ Len(timer) \in Nat /\ gap \in Nat
  BY Numbers DEF TypeOK
<1> DEFINE d == TimerOf(cb)
           old(p) == IF p < d THEN p ELSE p + 1
<1>2. d \in 1..Len(timer) /\ timer' = RemoveAt(timer, d)
  BY <1>1, TimerOfIs DEF Delete
<1>3. at = 0 /\ at' = 0 /\ now' = now /\ gap' = gap
  BY DEF Delete
<1> HIDE DEF d
<1>4. Len(timer') = Len(timer) - 1 /\ \A p \in 1..Len(timer') : timer'[p] = timer[old(p)]
  BY <1>1, <1>2, RemoveAtIs
<1>5. \A p \in 1..Len(timer') : old(p) \in 1..Len(timer) /\ p <= old(p) /\ p \in Nat
  BY <1>1, <1>2, <1>4
<1>6. \A p \in 1..Len(timer') : Place(p)' = Place(old(p)) /\ Place(p)' \in Nat
  BY <1>3, <1>4, <1>5, NearIs DEF Place, From
<1>7. UpperInv'
  BY <1>4, <1>5, <1>6 DEF TimeInv, UpperInv
<1>8. Ordered'
  <2>1. \A i, j \in 1..Len(timer') : i < j => old(i) < old(j)
    BY <1>1, <1>2, <1>4
  <2>2. Ordered
    BY <1>3 DEF TimeInv, OrderInv
  <2> QED BY <1>5, <1>6, <2>1, <2>2 DEF Ordered
<1>9. LateInv'
  <2> SUFFICES ASSUME NEW p \in 1..Len(timer') PROVE Place(p)' >= Bound(p) - gap
    BY <1>3 DEF LateInv, Bound, Skips
  <2>1. Place(old(p)) >= Bound(old(p)) - gap
    BY <1>3, <1>5 DEF TimeInv, LateInv
  <2>2. Bound(p) <= Bound(old(p)) /\ Bound(p) \in Int /\ Bound(old(p)) \in Int
    BY <1>5, BoundIs
  <2> QED BY <1>1, <1>6, <2>1, <2>2
<1> QED BY <1>3, <1>7, <1>8, <1>9 DEF TimeInv, OrderInv, LoopInv

\* Timers that all lie near can be compared.
LEMMA NearComparable ==
  ASSUME now \in Ticks, NEW u \in Seq(Events), \A i \in 1..Len(u) : Near(u[i].t)
  PROVE  Comparable(u)
<1> SUFFICES ASSUME NEW i \in 1..Len(u), NEW j \in 1..Len(u)
             PROVE  /\ From(u[i].t) \in Nat
                    /\ Big(u[i].t, u[j].t) <=> From(u[i].t) >= From(u[j].t)
  BY DEF Comparable
<1>1. u[i] \in Events /\ u[j] \in Events
  OBVIOUS
<1>2. u[i].t \in Ticks /\ u[j].t \in Ticks
  BY <1>1 DEF Events
<1>3. From(u[i].t) \in Nat
  <2>1. From(u[i].t) \in Ticks
    BY <1>2, FromIs
  <2> QED BY <2>1, Numbers DEF Ticks
<1>4. Near(u[i].t) /\ Near(u[j].t)
  OBVIOUS
<1> QED BY <1>2, <1>3, <1>4, BigIs

\* A new timer is further away than any bound, and the sort keeps the bounds.
LEMMA TimeAdd ==
  ASSUME InTime, TypeOK, TimeInv, NEW cb \in Callbacks, NEW d \in Intervals, Add(cb, d)
  PROVE  TimeInv'
<1> DEFINE u == Append(timer, New(cb, d))
           n == Len(timer) + 1
<1>1. timer \in Seq(Events) /\ Len(timer) \in Nat /\ gap \in Nat /\ now \in Ticks
  BY Numbers DEF TypeOK
<1>2. at = 0 /\ at' = 0 /\ now' = now /\ gap' = gap
  BY DEF Add
<1>3. /\ u \in Seq(Events) /\ Len(u) = n
      /\ \A p \in 1..Len(timer) : u[p] = timer[p]
      /\ u[n] = New(cb, d)
      /\ timer' = Sort(u) /\ Rearranged(timer', u) /\ Len(timer') = n
  BY AddIs
<1>4. From(New(cb, d).t) = POST + d /\ New(cb, d).interval = d
  BY <1>1, NewIs DEF New
<1> HIDE DEF u
<1>5. d \in Nat /\ PRE + 1 <= d /\ d + POST - PRE <= Wrap \div 4 /\ Wrap \div 4 \in Nat
      /\ PRE \in Nat /\ POST \in Nat
  BY Numbers DEF InTime
<1>6. ASSUME NEW p \in 1..n
      PROVE  /\ From(u[p].t) \in Nat /\ Near(u[p].t)
             /\ From(u[p].t) <= POST + u[p].interval /\ u[p].interval \in Nat
  <2>1. CASE p \in 1..Len(timer)
    <3>1. u[p] = timer[p] /\ Place(p) \in Nat /\ Near(timer[p].t) /\
              timer[p].interval \in Intervals
      BY <1>3, <2>1, NearIs
    <3>2. Place(p) <= POST + timer[p].interval
      BY <2>1 DEF TimeInv, UpperInv
    <3> QED BY <3>1, <3>2, Numbers DEF Place
  <2>2. CASE p = n
    BY <1>3, <1>4, <1>5, <2>2 DEF Near
  <2> QED BY <1>1, <2>1, <2>2
<1>7. Comparable(u)
  BY <1>1, <1>3, <1>6, NearComparable
<1>8. \A a, b \in 1..n : a < b => From(timer'[a].t) <= From(timer'[b].t)
  BY <1>3, <1>7, SortOrders
<1>9. \A p \in 1..n : From(timer'[p].t) >= Bound(p) - gap
  <2> DEFINE h == [p \in 1..n |-> IF p = n THEN 0 ELSE p]
  <2>1. h \in [1..Len(u) -> Nat] /\ \A i, j \in 1..Len(u) : h[i] = h[j] => i = j \/ h[i] = 0
    BY <1>1, <1>3
  <2>2. ASSUME NEW i \in 1..Len(u)
        PROVE  From(u[i].t) >= IF h[i] = 0 THEN Top ELSE Bound(h[i]) - gap
    <3>1. CASE i = n
      <4>1. h[i] = 0 /\ From(u[i].t) = POST + d
        BY <1>3, <1>4, <3>1
      <4> QED BY <1>5, <4>1 DEF Top
    <3>2. CASE i # n
      <4>1. i \in 1..Len(timer) /\ h[i] = i /\ h[i] # 0 /\ u[i] = timer[i]
        BY <1>1, <1>3, <3>2
      <4>2. Place(i) >= Bound(i) - gap
        BY <1>2, <4>1 DEF TimeInv, LateInv
      <4> QED BY <4>1, <4>2 DEF Place
    <3> QED BY <3>1, <3>2
  <2> HIDE DEF h
  <2>3. \A k \in 1..Len(u) : From(u[k].t) \in Nat
    BY <1>3, <1>6
  <2>4. \A a, b \in 1..Len(timer') : a < b => From(timer'[a].t) <= From(timer'[b].t)
    BY <1>3, <1>8
  <2> QED BY <1>1, <1>3, <2>1, <2>2, <2>3, <2>4, SortBound
<1>10. \A p \in 1..n : Place(p)' = From(timer'[p].t)
  BY <1>2 DEF Place, From
<1>11. UpperInv'
  <2> SUFFICES ASSUME NEW p \in 1..n PROVE Place(p)' <= POST + timer'[p].interval
    BY <1>3 DEF UpperInv
  <2>1. PICK q \in 1..n : timer'[p] = u[q]
    BY <1>3 DEF Rearranged
  <2> QED BY <1>6, <1>10, <2>1
<1>12. Ordered'
  BY <1>3, <1>8, <1>10 DEF Ordered
<1>13. LateInv'
  BY <1>2, <1>3, <1>9, <1>10 DEF LateInv, Bound, Skips
<1> QED BY <1>2, <1>11, <1>12, <1>13 DEF TimeInv, OrderInv, LoopInv

\* A tick takes one from all distances and adds one to the gap.
LEMMA TimeTick ==
  ASSUME InTime, TypeOK, TimeInv, Tick PROVE TimeInv'
<1>1. /\ at = 0 /\ at' = 0 /\ timer' = timer /\ now \in Ticks /\ now' = Plus(now, 1)
      /\ gap' = gap + 1 /\ gap \in Nat
  BY Numbers DEF Tick, TypeOK
<1>2. \A k \in 1..Len(timer) : Place(k) \in Nat /\ Place(k)' = Place(k) - 1
  <2> SUFFICES ASSUME NEW k \in 1..Len(timer) PROVE Place(k) \in Nat /\ Place(k)' = Place(k) - 1
    OBVIOUS
  <2>1. timer[k].t \in Ticks /\ Place(k) \in Nat /\ PRE + 1 <= Place(k)
    BY NearIs
  <2>2. 1 <= From(timer[k].t)
    BY <2>1, Numbers DEF Place
  <2>3. PICK t \in Ticks : t = timer[k].t
    BY <2>1
  <2>4. From(t)' = From(t) - 1
    BY <1>1, <2>2, <2>3, FromTick
  <2>5. Place(k)' = From(t)'
    BY <1>1, <2>3 DEF Place, From
  <2> QED BY <2>1, <2>3, <2>4, <2>5 DEF Place
<1>3. UpperInv'
  <2> SUFFICES ASSUME NEW k \in 1..Len(timer) PROVE Place(k)' <= POST + timer[k].interval
    BY <1>1 DEF UpperInv
  <2>1. Place(k) <= POST + timer[k].interval /\ timer[k].interval \in Nat /\ POST \in Nat
    BY NearIs, Numbers DEF TimeInv, UpperInv
  <2> QED BY <1>2, <2>1
<1>4. Ordered'
  <2>1. Ordered
    BY <1>1 DEF TimeInv, OrderInv
  <2> QED BY <1>1, <1>2, <2>1 DEF Ordered
<1>5. LateInv'
  <2> SUFFICES ASSUME NEW k \in 1..Len(timer) PROVE Place(k)' >= Bound(k) - gap'
    BY <1>1 DEF LateInv, Bound, Skips
  <2>1. Place(k) >= Bound(k) - gap
    BY <1>1 DEF TimeInv, LateInv
  <2>2. Bound(k) \in Int
    BY BoundIs
  <2> QED BY <1>1, <1>2, <2>1, <2>2
<1> QED BY <1>1, <1>3, <1>4, <1>5 DEF TimeInv, OrderInv, LoopInv

\* When the first timer is not due, none is, and the gap starts again for all.
LEMMA TimeNothing ==
  ASSUME InTime, TypeOK, TimeInv, ProcessNothing PROVE TimeInv'
<1>1. /\ at = 0 /\ at' = 0 /\ timer' = timer /\ now' = now /\ gap' = 0 /\ now \in Ticks
      /\ timer \in Seq(Events) /\ Len(timer) \in Nat
  BY DEF ProcessNothing, TypeOK
<1>2. Ordered
  BY <1>1 DEF TimeInv, OrderInv
<1>3. \A k \in 1..Len(timer) : Place(k)' = Place(k)
  BY <1>1 DEF Place, From
<1>4. UpperInv' /\ Ordered'
  BY <1>1, <1>2, <1>3 DEF TimeInv, UpperInv, Ordered
<1>5. ASSUME NEW k \in 1..Len(timer) PROVE Place(k) >= Bound(k)
  <2>1. 1 \in 1..Len(timer) /\ timer # <<>>
    BY <1>1
  <2>2. /\ Place(1) \in Nat /\ Near(timer[1].t) /\ timer[1].t \in Ticks
        /\ Place(k) \in Nat
    BY <2>1, NearIs
  <2>3. ~Expired(timer[1].t)
    BY <2>1 DEF ProcessNothing, FirstExpired
  <2>4. ~(Place(1) <= PRE + POST)
    BY <1>1, <2>2, <2>3, LateIs DEF Place
  <2>5. Place(1) <= Place(k)
    BY <1>2, <2>1, <2>2 DEF Ordered
  <2>6. Bound(k) \in Int /\ Bound(k) <= Top
    BY BoundIs
  <2> QED BY <2>2, <2>4, <2>5, <2>6, Numbers DEF Top
<1>6. LateInv'
  <2>1. \A k \in 1..Len(timer) : Bound(k) \in Int
    BY BoundIs
  <2> QED BY <1>1, <1>3, <1>5, <2>1 DEF LateInv, Bound, Skips
<1> QED BY <1>1, <1>4, <1>6 DEF TimeInv, OrderInv, LoopInv

---------------------------------------------------------------------------
(* The steps of a pass *)

\* A pass starts with no timer ended and none passed.
LEMMA TimeBegin ==
  ASSUME InTime, TypeOK, TimeInv, ProcessBegin PROVE TimeInv'
<1>1. /\ at = 0 /\ at' = 1 /\ timer' = timer /\ now' = now /\ gap' = 0
      /\ Len(timer) \in Nat /\ Len(timer) <= MAX_TIMER_NUM
      /\ gap \in Nat /\ gap <= MaxGap /\ MaxGap \in Nat /\ MAX_TIMER_NUM \in Nat
  BY Numbers DEF ProcessBegin, TypeOK
<1>2. \A k \in 1..Len(timer) : Place(k)' = Place(k)
  BY <1>1 DEF Place, From
<1>3. UpperInv' /\ Ordered'
  BY <1>1, <1>2 DEF TimeInv, UpperInv, OrderInv, Ordered
<1>4. LoopInv'
  <2> DEFINE rank == [i \in 1..0 |-> 0]
  <2>1. rank \in [1..(at' - 1) -> 0..0] /\ 0 \in 0..MAX_TIMER_NUM /\ 1..(at' - 1) = {}
    BY <1>1
  <2> HIDE DEF rank
  <2>2. ASSUME NEW i \in 1..Len(timer)
        PROVE  Place(i)' >= Bound(i + 0) - MaxGap /\ ~(i < 1)
    <3>1. Place(i) >= Bound(i) - gap /\ Place(i) \in Nat
      BY <1>1, NearIs DEF TimeInv, LateInv
    <3>2. Bound(i) \in Int /\ i + 0 = i
      BY BoundIs
    <3> QED BY <1>1, <1>2, <3>1, <3>2
  <2>3. LoopAt(0, rank)'
    BY <1>1, <2>1, <2>2 DEF LoopAt, Bound, Skips
  <2> QED BY <1>1, <2>1, <2>3 DEF LoopInv
<1> QED BY <1>1, <1>3, <1>4 DEF TimeInv, OrderInv, LateInv

\* What the loop has done, at its next timer
LEMMA LoopIs ==
  ASSUME InTime, TypeOK, TimeInv, at > 0
  PROVE  /\ at \in Nat \ {0} /\ gap = 0 /\ Len(timer) \in Nat /\ Len(timer) <= MAX_TIMER_NUM
         /\ \E r \in 0..MAX_TIMER_NUM : r \in Nat /\ \E rank \in [1..(at - 1) -> 0..r] :
                LoopAt(r, rank)
         /\ \A k \in 1..Len(timer) : /\ Place(k) \in Nat
                                     /\ Expired(timer[k].t) <=> Place(k) < Top
<1>1. at \in Nat \ {0} /\ Len(timer) \in Nat /\ Len(timer) <= MAX_TIMER_NUM /\ now \in Ticks
  BY Numbers DEF TypeOK
<1>2. ASSUME NEW k \in 1..Len(timer)
      PROVE  Place(k) \in Nat /\ (Expired(timer[k].t) <=> Place(k) < Top)
  <2>1. Place(k) \in Nat /\ Near(timer[k].t) /\ timer[k].t \in Ticks
    BY NearIs
  <2>2. Expired(timer[k].t) <=> Place(k) <= PRE + POST
    BY <1>1, <2>1, LateIs DEF Place
  <2> QED BY <2>1, <2>2, Numbers DEF Top
<1>3. \A r \in 0..MAX_TIMER_NUM : r \in Nat
  BY Numbers
<1> QED BY <1>1, <1>2, <1>3 DEF TimeInv, LoopInv

\* A timer that is not due when the loop passes it takes no rank, nor does one that is
\* called and stays.
LEMMA LoopGoesOn ==
  ASSUME NEW c \in Nat \ {0}, at = c, at' = c + 1, c \in 1..Len(timer),
         Len(timer') = Len(timer), Len(timer) \in Nat,
         NEW r \in Nat, NEW rank \in [1..(at - 1) -> 0..r], LoopAt(r, rank),
         Place(c)' >= Top, \A k \in 1..Len(timer) : k # c => Place(k)' = Place(k)
  PROVE  \E new \in [1..(at' - 1) -> 0..r] : LoopAt(r, new)'
<1>1. PICK new : new = [i \in 1..c |-> IF i = c THEN 0 ELSE rank[i]]
  OBVIOUS
<1>2. 1..(at' - 1) = 1..c /\ \A i \in 1..c : i # c => i \in 1..(c - 1)
  OBVIOUS
<1>3. /\ new \in [1..(at' - 1) -> 0..r]
      /\ new[c] = 0 /\ \A i \in 1..(c - 1) : new[i] = rank[i]
  BY <1>1, <1>2
<1>4. r < at' /\ Len(timer') + r <= MAX_TIMER_NUM
  BY DEF LoopAt
<1>5. ASSUME NEW i \in 1..(at' - 1), NEW j \in 1..(at' - 1), new[i] = new[j]
      PROVE  i = j \/ new[i] = 0
  <2>1. CASE i = c \/ j = c
    BY <1>3, <1>5, <2>1
  <2>2. CASE i # c /\ j # c
    <3>1. i \in 1..(c - 1) /\ j \in 1..(c - 1)
      BY <1>2, <2>2
    <3>2. rank[i] = rank[j]
      BY <1>3, <1>5, <3>1
    <3> QED BY <1>3, <3>1, <3>2 DEF LoopAt
  <2> QED BY <2>1, <2>2
<1>6. ASSUME NEW i \in 1..Len(timer)
      PROVE  /\ i < at' => Place(i)' >= IF new[i] = 0 THEN Top ELSE Bound(new[i])
             /\ i >= at' => Place(i)' >= Bound(i + r) - MaxGap
  <2>1. CASE i = c
    <3>1. ~(i >= at')
      BY <2>1
    <3> QED BY <1>3, <2>1, <3>1
  <2>2. CASE i < c
    <3>1. i \in 1..(c - 1) /\ i # c /\ ~(i >= at')
      BY <2>2
    <3>2. Place(i) >= IF rank[i] = 0 THEN Top ELSE Bound(rank[i])
      BY <2>2 DEF LoopAt
    <3> QED BY <1>3, <3>1, <3>2
  <2>3. CASE i > c
    <3>1. i >= c /\ i # c /\ ~(i < at')
      BY <2>3
    <3>2. Place(i) >= Bound(i + r) - MaxGap
      BY <3>1 DEF LoopAt
    <3> QED BY <3>1, <3>2
  <2> QED BY <2>1, <2>2, <2>3
<1>7. LoopAt(r, new)'
  BY <1>4, <1>5, <1>6 DEF LoopAt, Bound, Skips
<1> QED BY <1>3, <1>7

\* A timer that is passed is not due.
LEMMA TimePass ==
  ASSUME InTime, TypeOK, TimeInv, Pass PROVE TimeInv'
<1>1. /\ at \in 1..Len(timer) /\ at > 0 /\ at' = at + 1 /\ timer' = timer /\ now' = now
      /\ gap' = gap /\ change' = change /\ ~Expired(timer[at].t)
  BY DEF Pass, Due, TypeOK
<1>2. \A k \in 1..Len(timer) : Place(k)' = Place(k)
  BY <1>1 DEF Place, From
<1>3. UpperInv'
  BY <1>1, <1>2 DEF TimeInv, UpperInv
<1>4. OrderInv'
  BY <1>1, <1>2 DEF TimeInv, OrderInv, Ordered
<1>5. at \in Nat \ {0} /\ gap = 0 /\ Len(timer) \in Nat /\ at' \in Nat \ {0}
  BY <1>1, LoopIs
<1>6. PICK r \in 0..MAX_TIMER_NUM : r \in Nat /\ \E rank \in [1..(at - 1) -> 0..r] :
          LoopAt(r, rank)
  BY <1>1, LoopIs
<1>7. PICK rank \in [1..(at - 1) -> 0..r] : LoopAt(r, rank)
  BY <1>6
<1>11. PICK c \in Nat \ {0} : c = at
  BY <1>5
<1>8. Place(c)' >= Top
  <2>1. Place(c) \in Nat /\ ~(Place(c) < Top)
    BY <1>11, <1>1, LoopIs
  <2>2. Place(c)' = Place(c)
    BY <1>11, <1>1, <1>2
  <2> QED BY <2>1, <2>2, BoundIs
<1>9. \E new \in [1..(at' - 1) -> 0..r] : LoopAt(r, new)'
  BY <1>11, <1>1, <1>2, <1>5, <1>6, <1>7, <1>8, LoopGoesOn
<1>10. LoopInv'
  BY <1>1, <1>5, <1>9 DEF LoopInv
<1> QED BY <1>3, <1>4, <1>5, <1>10 DEF TimeInv, LateInv

\* A timer that is called again is as far away as a new one.
LEMMA TimeAgain ==
  ASSUME InTime, TypeOK, TimeInv, CallAgain PROVE TimeInv'
<1>0. PICK a : a = at
  OBVIOUS
<1>1. PICK d \in Intervals, c \in Callbacks :
           /\ at \in 1..Len(timer)
           /\ timer' \in Seq(Events) /\ Len(timer') = Len(timer)
           /\ timer'[at] = New(c, d)
           /\ \A p \in 1..Len(timer) : p # at => timer'[p] = timer[p]
  BY AgainIs
<1>2. /\ at > 0 /\ at' = at + 1 /\ now' = now /\ gap' = gap /\ change' = TRUE /\ now \in Ticks
  BY <1>1 DEF CallAgain, TypeOK
<1>3. Place(a)' = POST + d /\ timer'[a].interval = d
  BY <1>0, <1>1, <1>2, NewIs DEF Place, From, New
<1>4. \A k \in 1..Len(timer) : k # a => Place(k)' = Place(k)
  BY <1>0, <1>1, <1>2 DEF Place, From
<1>5. at \in Nat \ {0} /\ gap = 0 /\ Len(timer) \in Nat /\ at' \in Nat \ {0}
  BY <1>2, LoopIs
<1>6. d \in Nat /\ PRE + 1 <= d /\ PRE \in Nat /\ POST \in Nat
  BY Numbers DEF InTime
<1>7. UpperInv'
  <2> SUFFICES ASSUME NEW k \in 1..Len(timer) PROVE Place(k)' <= POST + timer'[k].interval
    BY <1>1 DEF UpperInv
  <2>1. CASE k = a
    BY <1>3, <1>6, <2>1
  <2>2. CASE k # a
    BY <1>0, <1>1, <1>4, <2>2 DEF TimeInv, UpperInv
  <2> QED BY <2>1, <2>2
<1>8. PICK r \in 0..MAX_TIMER_NUM : r \in Nat /\ \E rank \in [1..(at - 1) -> 0..r] :
          LoopAt(r, rank)
  BY <1>2, LoopIs
<1>9. PICK rank \in [1..(at - 1) -> 0..r] : LoopAt(r, rank)
  BY <1>8
<1>10. Place(a)' >= Top
  BY <1>3, <1>6 DEF Top
<1>11. \E new \in [1..(at' - 1) -> 0..r] : LoopAt(r, new)'
  BY <1>0, <1>1, <1>2, <1>4, <1>5, <1>8, <1>9, <1>10, LoopGoesOn
<1>12. LoopInv'
  BY <1>2, <1>5, <1>11 DEF LoopInv
<1> QED BY <1>2, <1>5, <1>7, <1>12 DEF TimeInv, OrderInv, LateInv

\* When a timer ends, the one behind it is skipped, and is MaxGap ticks later than its bound
\* says at most.  It takes the rank r + 1: it was at place at + 1 + r when the pass began,
\* and with r < at that is at least one skip further from the start.
LEMMA TimeCallEnds ==
  ASSUME InTime, TypeOK, TimeInv, CallEnds PROVE TimeInv'
<1>1. /\ at \in 1..Len(timer) /\ at > 0 /\ at' = at + 1 /\ timer' = RemoveAt(timer, at)
      /\ now' = now /\ gap' = gap /\ change' = change /\ timer \in Seq(Events)
  BY DEF CallEnds, Due, TypeOK
<1>2. /\ at \in Nat \ {0} /\ gap = 0 /\ Len(timer) \in Nat /\ at' \in Nat \ {0}
      /\ Len(timer) <= MAX_TIMER_NUM /\ MAX_TIMER_NUM \in Nat
  BY <1>1, LoopIs, Numbers
<1> DEFINE old(p) == IF p < at THEN p ELSE p + 1
<1>3. Len(timer') = Len(timer) - 1 /\ \A p \in 1..Len(timer') : timer'[p] = timer[old(p)]
  BY <1>1, RemoveAtIs
<1>4. \A p \in 1..Len(timer') : old(p) \in 1..Len(timer)
  BY <1>1, <1>2, <1>3
<1>5. \A p \in 1..Len(timer') : Place(p)' = Place(old(p)) /\ Place(p)' \in Nat
  BY <1>1, <1>3, <1>4, NearIs DEF Place, From
<1>6. UpperInv'
  BY <1>3, <1>4, <1>5 DEF TimeInv, UpperInv
<1>7. OrderInv'
  <2>1. \A i, j \in 1..Len(timer') : i < j => old(i) < old(j)
    BY <1>1, <1>2, <1>3
  <2>2. Ordered => Ordered'
    BY <1>4, <1>5, <2>1 DEF Ordered
  <2> QED BY <1>1, <1>2, <2>2 DEF TimeInv, OrderInv
<1>8. PICK r \in 0..MAX_TIMER_NUM : r \in Nat /\ \E rank \in [1..(at - 1) -> 0..r] :
          LoopAt(r, rank)
  BY <1>1, LoopIs
<1>9. PICK rank \in [1..(at - 1) -> 0..r] : LoopAt(r, rank)
  BY <1>8
<1>10. r < at /\ Len(timer) + r <= MAX_TIMER_NUM
  BY <1>9 DEF LoopAt
<1>18. PICK new : new = [i \in 1..at |-> IF i = at THEN r + 1 ELSE rank[i]]
  OBVIOUS
<1>11. 1..(at' - 1) = 1..at /\ \A i \in 1..at : i # at => i \in 1..(at - 1)
  BY <1>1, <1>2
<1>12. new \in [1..(at' - 1) -> 0..(r + 1)] /\ r + 1 \in 0..MAX_TIMER_NUM
  BY <1>18, <1>1, <1>2, <1>8, <1>10, <1>11
<1>13. new[at] = r + 1 /\ \A i \in 1..(at - 1) : new[i] = rank[i] /\ rank[i] \in 0..r
  BY <1>18, <1>2
<1>14. ASSUME NEW i \in 1..(at' - 1), NEW j \in 1..(at' - 1), new[i] = new[j]
       PROVE  i = j \/ new[i] = 0
  <2>1. \A k \in 1..at : k # at => new[k] # r + 1
    BY <1>8, <1>11, <1>13
  <2>2. CASE i = at \/ j = at
    BY <1>11, <1>13, <1>14, <2>1, <2>2
  <2>3. CASE i # at /\ j # at
    <3>1. i \in 1..(at - 1) /\ j \in 1..(at - 1)
      BY <1>11, <2>3
    <3>2. rank[i] = rank[j]
      BY <1>13, <1>14, <3>1
    <3> QED BY <1>9, <1>13, <3>1, <3>2 DEF LoopAt
  <2> QED BY <2>2, <2>3
<1>15. ASSUME NEW i \in 1..Len(timer')
       PROVE  /\ i < at' => Place(i)' >= IF new[i] = 0 THEN Top ELSE Bound(new[i])
              /\ i >= at' => Place(i)' >= Bound(i + (r + 1)) - MaxGap
  <2>1. CASE i < at
    <3>1. i \in 1..(at - 1) /\ ~(i >= at') /\ old(i) = i /\ i \in 1..Len(timer)
      BY <1>1, <1>2, <1>4, <2>1
    <3>2. Place(i) >= IF rank[i] = 0 THEN Top ELSE Bound(rank[i])
      BY <1>9, <2>1, <3>1 DEF LoopAt
    <3> QED BY <1>5, <1>13, <3>1, <3>2
  <2>2. CASE i = at
    <3>1. old(i) = at + 1 /\ at + 1 \in 1..Len(timer) /\ at + 1 >= at /\ ~(i >= at')
      BY <1>1, <1>2, <1>4, <2>2
    <3>2. Place(at + 1) >= Bound(at + 1 + r) - MaxGap
      BY <1>9, <3>1 DEF LoopAt
    <3>3. Skips(at + 1 + r) + 1 <= Skips(r + 1)
      <4>1. at + 1 + r <= MAX_TIMER_NUM /\ r + 1 <= at
        BY <1>2, <1>8, <1>10, <3>1
      <4>2. r + 1 <= Half
        BY <1>2, <1>8, <4>1, SkipsIs
      <4> QED BY <1>2, <1>8, <4>1, <4>2, SkipsIs DEF Skips
    <3>4. Bound(r + 1) <= Bound(at + 1 + r) - MaxGap /\ Bound(r + 1) \in Int
          /\ Bound(at + 1 + r) \in Int
      <4>1. r + 1 \in Nat /\ at + 1 + r \in Nat
        BY <1>2, <1>8
      <4> QED BY <3>3, <4>1, BoundIs
    <3>5. new[i] = r + 1 /\ r + 1 # 0
      BY <1>8, <1>13, <2>2
    <3>6. Place(i)' = Place(at + 1) /\ Place(i)' \in Nat
      BY <1>5, <3>1
    <3>7. Place(i)' >= Bound(r + 1)
      BY <3>2, <3>4, <3>6, Numbers
    <3> QED BY <3>1, <3>5, <3>7
  <2>3. CASE i > at
    <3>1. old(i) = i + 1 /\ i + 1 \in 1..Len(timer) /\ i + 1 >= at /\ ~(i < at')
          /\ i + 1 + r = i + (r + 1)
      BY <1>1, <1>2, <1>4, <1>8, <2>3
    <3>2. Place(i + 1) >= Bound(i + 1 + r) - MaxGap
      BY <1>9, <3>1 DEF LoopAt
    <3> QED BY <1>5, <3>1, <3>2
  <2> QED BY <1>2, <2>1, <2>2, <2>3
<1>16. LoopAt(r + 1, new)'
  <2>1. r + 1 < at' /\ Len(timer') + (r + 1) <= MAX_TIMER_NUM
    BY <1>1, <1>2, <1>3, <1>8, <1>10
  <2> QED BY <1>14, <1>15, <2>1 DEF LoopAt, Bound, Skips
<1>17. LoopInv'
  BY <1>1, <1>2, <1>12, <1>16 DEF LoopInv
<1> QED BY <1>2, <1>6, <1>7, <1>17 DEF TimeInv, LateInv

\* At the end of the pass the ranks are the places that bound the timers, sorted or not.
LEMMA TimeEnd ==
  ASSUME InTime, TypeOK, TimeInv, ProcessEnd PROVE TimeInv'
<1>1. /\ at > Len(timer) /\ at' = 0 /\ now' = now /\ gap' = gap /\ change' = change
      /\ timer' = (IF change THEN Sort(timer) ELSE timer)
      /\ timer \in Seq(Events) /\ Len(timer) \in Nat /\ now \in Ticks /\ at \in Nat
  BY Numbers DEF ProcessEnd, TypeOK
<1>2. at > 0
  BY <1>1
<1>3. gap = 0
  BY <1>2, LoopIs
<1>4. \A k \in 1..Len(timer) : Place(k) \in Nat /\ Near(timer[k].t)
  BY NearIs
<1>5. Rearranged(timer', timer)
  BY <1>1, RearrangedSame, SortRearranges
<1>6. Len(timer') = Len(timer)
  BY <1>5 DEF Rearranged
<1>7. \A p \in 1..Len(timer) : Place(p)' = From(timer'[p].t)
  BY <1>1 DEF Place, From
<1>8. \A a, b \in 1..Len(timer') : a < b => From(timer'[a].t) <= From(timer'[b].t)
  <2>1. CASE change
    <3>1. Comparable(timer)
      BY <1>1, <1>4, NearComparable
    <3> QED BY <1>1, <2>1, <3>1, SortOrders
  <2>2. CASE ~change
    BY <1>1, <2>2 DEF TimeInv, OrderInv, Ordered, Place
  <2> QED BY <2>1, <2>2
<1>9. \A p \in 1..Len(timer') : From(timer'[p].t) >= Bound(p) - 0
  <2>1. PICK r \in 0..MAX_TIMER_NUM : r \in Nat /\ \E rank \in [1..(at - 1) -> 0..r] :
            LoopAt(r, rank)
    BY <1>2, LoopIs
  <2>2. PICK rank \in [1..(at - 1) -> 0..r] : LoopAt(r, rank)
    BY <2>1
  <2> DEFINE h == [i \in 1..Len(timer) |-> rank[i]]
  <2>3. \A i \in 1..Len(timer) : i \in 1..(at - 1) /\ i < at /\ rank[i] \in Nat /\
            h[i] = rank[i]
    BY <1>1, <2>1
  <2>4. h \in [1..Len(timer) -> Nat]
    BY <2>3
  <2> HIDE DEF h
  <2>5. \A i, j \in 1..Len(timer) : h[i] = h[j] => i = j \/ h[i] = 0
    BY <2>2, <2>3 DEF LoopAt
  <2>6. ASSUME NEW i \in 1..Len(timer)
        PROVE  From(timer[i].t) >= IF h[i] = 0 THEN Top ELSE Bound(h[i]) - 0
    <3>1. Place(i) >= IF rank[i] = 0 THEN Top ELSE Bound(rank[i])
      BY <2>2, <2>3 DEF LoopAt
    <3>2. rank[i] \in Nat /\ h[i] = rank[i] /\ Bound(rank[i]) \in Int
      BY <2>3, BoundIs
    <3> QED BY <3>1, <3>2 DEF Place
  <2>7. \A k \in 1..Len(timer) : From(timer[k].t) \in Nat
    BY <1>4 DEF Place
  <2>8. 0 \in Nat
    OBVIOUS
  <2> QED BY <1>5, <1>8, <2>4, <2>5, <2>6, <2>7, <2>8, SortBound
<1>10. UpperInv'
  <2> SUFFICES ASSUME NEW p \in 1..Len(timer) PROVE Place(p)' <= POST + timer'[p].interval
    BY <1>6 DEF UpperInv
  <2>1. PICK q \in 1..Len(timer) : timer'[p] = timer[q]
    BY <1>5 DEF Rearranged
  <2>2. Place(q) <= POST + timer[q].interval
    BY DEF TimeInv, UpperInv
  <2> QED BY <1>7, <2>1, <2>2 DEF Place
<1>11. Ordered'
  BY <1>6, <1>7, <1>8 DEF Ordered
<1>12. LateInv'
  BY <1>1, <1>3, <1>6, <1>7, <1>9 DEF LateInv, Bound, Skips
<1> QED BY <1>1, <1>10, <1>11, <1>12 DEF TimeInv, OrderInv, LoopInv

\* Every step keeps the invariant.
LEMMA TimeStep ==
  ASSUME InTime, TypeOK, TimeInv, [Next]_vars PROVE TimeInv'
<1>1. ASSUME NEW cb \in Callbacks, Delete(cb) PROVE TimeInv'
  BY <1>1, TimeDelete
<1>2. ASSUME NEW cb \in Callbacks, NEW d \in Intervals, Add(cb, d) PROVE TimeInv'
  BY <1>2, TimeAdd
<1>3. CASE UNCHANGED vars
  BY <1>3 DEF vars, TimeInv, UpperInv, OrderInv, Ordered, LateInv, LoopInv, LoopAt, Place,
              From, Bound, Skips
<1> QED BY <1>1, <1>2, <1>3, TimeNothing, TimeBegin, TimePass, TimeCallEnds, TimeAgain, TimeEnd,
           TimeTick DEF Next

\* The bounds hold at every step of every pass.
THEOREM TimesKept == ASSUME InTime PROVE Spec => [](TypeOK /\ TimeInv)
<1>1. Init => TimeInv
  BY TimeInit
<1>2. TypeOK /\ TimeInv /\ [Next]_vars => TimeInv'
  BY TimeStep
<1> QED BY <1>1, <1>2, TypesKept, PTL DEF Spec

---------------------------------------------------------------------------
(* What the callers of the timers rely on *)

\* Between two passes the table is in the order of the times, as TIME_COMPARE_BIG orders
\* them, wherever the tick wraps: blt_soft_timer_sort sorts, and deleting, ending and
\* skipping timers leaves the others in order.
THEOREM StayInTurn == ASSUME InTime PROVE Spec => []InTurn
<1>1. TypeOK /\ TimeInv => InTurn
  <2> SUFFICES ASSUME TypeOK, TimeInv, at = 0, NEW i \in DOMAIN timer,
               NEW j \in DOMAIN timer, i < j
               PROVE  Big(timer[j].t, timer[i].t)
    BY DEF InTurn
  <2>1. i \in 1..Len(timer) /\ j \in 1..Len(timer) /\ now \in Ticks
    BY DEF TypeOK
  <2>2. /\ timer[i].t \in Ticks /\ timer[j].t \in Ticks
        /\ Near(timer[i].t) /\ Near(timer[j].t)
        /\ Place(i) \in Nat /\ Place(j) \in Nat
    BY <2>1, NearIs
  <2>3. Place(i) <= Place(j)
    BY <2>1 DEF TimeInv, OrderInv, Ordered
  <2> QED BY <2>1, <2>2, <2>3, BigIs DEF Place
<1> QED BY <1>1, TimesKept, PTL

\* Where the passes come as close as InTime has it, a timer whose time has come counts as
\* expired until it is called, whatever the other callbacks do: the loop of
\* blt_soft_timer_process, which skips the timer behind one that ends, catches up with it
\* before it is 4 s late.  The condition is about the user of the timers, who has to know it.
THEOREM NoneLost == ASSUME InTime PROVE Spec => []NeverLost
<1>1. TypeOK /\ TimeInv => NeverLost
  <2> SUFFICES ASSUME TypeOK, TimeInv, NEW k \in DOMAIN timer, Late(timer[k].t) > 0
               PROVE  Expired(timer[k].t)
    BY DEF NeverLost
  <2>1. k \in 1..Len(timer) /\ now \in Ticks
    BY DEF TypeOK
  <2>2. timer[k].t \in Ticks /\ Near(timer[k].t) /\ Place(k) \in Nat
    BY <2>1, NearIs
  <2>3. Place(k) < POST
    BY <2>1, <2>2, LateIs DEF Place
  <2>4. Place(k) <= PRE + POST
    BY <2>2, <2>3, Numbers
  <2> QED BY <2>1, <2>2, <2>4, LateIs DEF Place
<1> QED BY <1>1, TimesKept, PTL

\* A timer that is late stays late while the clock goes on.
LEMMA LateTick ==
  ASSUME now \in Ticks, now' = Plus(now, 1), NEW t \in Ticks, Near(t), Late(t) > 0
  PROVE  Late(t)' > 0
<1>1. From(t) < POST /\ From(t) \in Nat
  BY LateIs, FromIs, Numbers DEF Ticks
<1>2. Minus(now, t) = POST - From(t)
  <2>1. Minus(now, t) = IF POST < From(t) THEN POST - From(t) + Wrap ELSE POST - From(t)
    BY MinusFrom, FromNow
  <2> QED BY <1>1, <2>1, Numbers
<1>3. now' \in Ticks /\ now' = IF now + 1 < Wrap THEN now + 1 ELSE now + 1 - Wrap
  <2>1. /\ now \in Int /\ Wrap \in Int
        /\ -Wrap <= now + 1 /\ now + 1 < 2 * Wrap /\ 0 <= now + 1
    BY Numbers DEF Ticks
  <2>2. now' = IF now + 1 < Wrap THEN now + 1 ELSE now + 1 - Wrap
    BY <2>1, WrapIs DEF Plus
  <2> QED BY <2>1, <2>2, Numbers DEF Ticks
<1>4. Minus(now, t) = IF now < t THEN now - t + Wrap ELSE now - t
  BY MinusIs
<1>5. Minus(now', t) = IF now' < t THEN now' - t + Wrap ELSE now' - t
  BY <1>3, MinusIs
<1>6. Minus(now', t) = Minus(now, t) + 1
  BY <1>1, <1>2, <1>3, <1>4, <1>5, Numbers DEF Ticks
<1>7. Late(t)' = IF Minus(now', t) < Wrap \div 2 THEN Minus(now', t) ELSE 0
  BY DEF Late, Minus
<1>8. From(t) >= 1
  BY <1>1, Numbers DEF Near
<1> QED BY <1>1, <1>2, <1>6, <1>7, <1>8, Numbers

\* The wakeup of a window that is not below the 3 s of blt_soft_timer_process
LEMMA WakeupIs ==
  ASSUME now \in Ticks, NEW s \in Seq(Events), NEW w \in Nat, PROCESS_WINDOW <= w,
         \A k \in 1..Len(s) : Near(s[k].t) /\ From(s[k].t) <= POST + s[k].interval
  PROVE  LET wake == WakeupWithin(s, w)
         IN  IF wake # Off THEN s # <<>> /\ wake = s[1].t
             ELSE s = <<>> \/ Late(s[1].t) > 0 \/ s[1].interval >= PROCESS_WINDOW
<1>1. CASE s = <<>>
  BY <1>1 DEF WakeupWithin
<1>2. CASE s # <<>>
  <2>1. 1 \in 1..Len(s) /\ s[1] \in Events
    BY <1>2
  <2>2. s[1].t \in Ticks /\ s[1].interval \in Nat /\ s[1].t # Off /\ Near(s[1].t)
    <3>1. s[1].t \in Ticks /\ s[1].interval \in Intervals
      BY <2>1 DEF Events
    <3>2. s[1].interval \in Nat /\ s[1].t # Off
      BY <3>1, Numbers
    <3> QED BY <2>1, <3>1, <3>2
  <2>3. CASE Minus(s[1].t, now) < w
    BY <1>2, <2>2, <2>3 DEF WakeupWithin
  <2>4. CASE ~(Minus(s[1].t, now) < w)
    <3>1. Minus(s[1].t, now) = IF From(s[1].t) < POST THEN From(s[1].t) - POST + Wrap
                               ELSE From(s[1].t) - POST
      BY <2>2, MinusFrom, FromNow
    <3>2. From(s[1].t) < POST => Late(s[1].t) > 0
      BY <2>2, LateIs
    <3>3. From(s[1].t) \in Nat /\ From(s[1].t) <= POST + s[1].interval
      <4>1. From(s[1].t) \in Ticks
        BY <2>2, FromIs
      <4> QED BY <2>1, <4>1, Numbers DEF Ticks
    <3>4. ~(From(s[1].t) < POST) => s[1].interval >= PROCESS_WINDOW
      BY <2>2, <2>4, <3>1, <3>3, Numbers
    <3> QED BY <1>2, <2>4, <3>2, <3>4 DEF WakeupWithin
  <2> QED BY <2>3, <2>4
<1> QED BY <1>1, <1>2

\* Between two passes the wakeup is that of the first timer, or there is none because no
\* timer is left, the first one is late, or it has an interval of 3 s and more: adding,
\* deleting, ending and calling timers never leaves a wakeup for another one behind, and
\* never drops the one of a timer that is to come soon.
THEOREM AlwaysArmed == ASSUME InTime PROVE Spec => []Armed
<1>1. Init => Armed
  BY DEF Init, Armed
<1>2. TypeOK /\ TimeInv /\ TimeInv' /\ Armed /\ [Next]_vars => Armed'
  <2> SUFFICES ASSUME TypeOK, TimeInv, TimeInv', Armed, [Next]_vars, at' = 0
               PROVE  IF wakeup' # Off THEN timer' # <<>> /\ wakeup' = timer'[1].t
                      ELSE timer' = <<>> \/ Late(timer[1].t)' > 0
                           \/ timer'[1].interval >= PROCESS_WINDOW
    BY DEF Armed
  <2> DEFINE Wake == IF wakeup' # Off THEN timer' # <<>> /\ wakeup' = timer'[1].t
                     ELSE timer' = <<>> \/ Late(timer[1].t)' > 0
                          \/ timer'[1].interval >= PROCESS_WINDOW
  <2>1. /\ timer \in Seq(Events) /\ Len(timer) \in Nat /\ now \in Ticks
        /\ PROCESS_WINDOW \in Nat /\ DELETE_WINDOW \in Nat
        /\ PROCESS_WINDOW <= DELETE_WINDOW /\ PROCESS_WINDOW <= PROCESS_WINDOW
    BY Numbers DEF TypeOK, InTime
  <2>2. \A s : now' = now => (Late(s)' = Late(s) /\ From(s)' = From(s))
    BY DEF Late, From
  <2>3. ASSUME now' = now, timer' \in Seq(Events), NEW w \in Nat, PROCESS_WINDOW <= w,
               wakeup' = WakeupWithin(timer', w),
               \A k \in 1..Len(timer') : \E q \in 1..Len(timer) : timer'[k] = timer[q]
        PROVE  Wake
    <3>1. ASSUME NEW k \in 1..Len(timer')
          PROVE  Near(timer'[k].t) /\ From(timer'[k].t) <= POST + timer'[k].interval
      <4>1. PICK q \in 1..Len(timer) : timer'[k] = timer[q]
        BY <2>3
      <4>2. Near(timer[q].t) /\ Place(q) <= POST + timer[q].interval
        BY NearIs DEF TimeInv, UpperInv
      <4> QED BY <4>1, <4>2 DEF Place
    <3>2. PICK s \in Seq(Events) : s = timer'
      BY <2>3
    <3>3. LET wake == WakeupWithin(s, w)
          IN  IF wake # Off THEN s # <<>> /\ wake = s[1].t
              ELSE s = <<>> \/ Late(s[1].t) > 0 \/ s[1].interval >= PROCESS_WINDOW
      BY <2>1, <2>3, <3>1, <3>2, WakeupIs
    <3>4. wakeup' = WakeupWithin(s, w)
      <4>1. WakeupWithin(timer', w) = IF timer' # <<>> /\ Minus(timer'[1].t, now) < w
                                      THEN timer'[1].t ELSE Off
        BY DEF WakeupWithin
      <4> QED BY <2>3, <3>2, <4>1 DEF WakeupWithin
    <3>5. Late(timer[1].t)' = Late(s[1].t)
      BY <2>3, <3>2 DEF Late, Minus
    <3> QED BY <3>2, <3>3, <3>4, <3>5
  <2>4. ASSUME NEW cb \in Callbacks, Delete(cb) PROVE Wake
    <3>1. TimerOf(cb) \in 1..Len(timer) /\ timer' = RemoveAt(timer, TimerOf(cb))
      BY <2>1, <2>4, TimerOfIs DEF Delete
    <3>2. /\ timer' \in Seq(Events) /\ Len(timer') = Len(timer) - 1
          /\ \A p \in 1..(Len(timer) - 1) :
               timer'[p] = timer[IF p < TimerOf(cb) THEN p ELSE p + 1]
      BY <2>1, <3>1, RemoveAtIs
    <3>3. at = 0 /\ now' = now
      BY <2>4 DEF Delete
    <3>4. CASE TimerOf(cb) = 1
      <4>1. wakeup' = WakeupWithin(timer', DELETE_WINDOW)
        BY <2>4, <3>4 DEF Delete
      <4>2. ASSUME NEW k \in 1..Len(timer') PROVE \E q \in 1..Len(timer) : timer'[k] = timer[q]
        <5> DEFINE q == IF k < TimerOf(cb) THEN k ELSE k + 1
        <5>1. q \in 1..Len(timer)
          BY <2>1, <3>1, <3>2
        <5>2. timer'[k] = timer[q]
          BY <2>1, <3>2
        <5> QED BY <5>1, <5>2
      <4> QED BY <2>1, <2>3, <3>2, <3>3, <4>1, <4>2
    <3>5. CASE TimerOf(cb) # 1
      <4>1. 1 \in 1..Len(timer) /\ timer'[1] = timer[1] /\ timer # <<>> /\ timer' # <<>>
        BY <2>1, <3>1, <3>2, <3>5
      <4>2. wakeup' = wakeup
        BY <2>4, <3>5 DEF Delete
      <4>3. Late(timer[1].t)' = Late(timer[1].t)
        BY <3>3, <4>1 DEF Late, Minus
      <4> QED BY <3>3, <4>1, <4>2, <4>3 DEF Armed
    <3> QED BY <3>4, <3>5
  <2>5. ASSUME NEW cb \in Callbacks, NEW d \in Intervals, Add(cb, d) PROVE Wake
    <3>1. /\ timer' \in Seq(Events) /\ Len(timer') = Len(timer) + 1
          /\ wakeup' = timer'[1].t
      BY <2>5, AddIs DEF Rearranged
    <3>2. timer'[1] \in Events /\ timer' # <<>>
      BY <2>1, <3>1
    <3>3. wakeup' # Off
      BY <3>1, <3>2, Numbers DEF Events
    <3> QED BY <3>1, <3>2, <3>3
  <2>6. CASE ProcessNothing
    <3>1. at = 0 /\ timer' = timer /\ now' = now /\
              wakeup' = IF timer = <<>> THEN Off ELSE wakeup
      BY <2>6 DEF ProcessNothing
    <3>2. Late(timer[1].t)' = Late(timer[1].t)
      BY <3>1 DEF Late, Minus
    <3> QED BY <3>1, <3>2 DEF Armed
  <2>7. CASE ProcessBegin \/ Pass \/ CallEnds \/ CallAgain
    <3>1. at' # 0
      <4>1. at \in DOMAIN timer => at + 1 # 0
        BY <2>1
      <4> QED BY <2>7, <4>1 DEF ProcessBegin, Pass, CallEnds, CallAgain, Due
    <3> QED BY <3>1
  <2>8. CASE ProcessEnd
    <3>1. wakeup' = WakeupWithin(timer', PROCESS_WINDOW) /\ now' = now
      BY <2>8 DEF ProcessEnd
    <3>2. Rearranged(timer', timer)
      BY <2>1, <2>8, RearrangedSame, SortRearranges DEF ProcessEnd
    <3>3. timer' \in Seq(Events) /\ \A k \in 1..Len(timer') : \E q \in 1..Len(timer) :
              timer'[k] = timer[q]
      BY <3>2 DEF Rearranged
    <3> QED BY <2>1, <2>3, <3>1, <3>3
  <2>9. CASE Tick
    <3>1. at = 0 /\ timer' = timer /\ wakeup' = wakeup /\ now' = Plus(now, 1)
      BY <2>9 DEF Tick
    <3>2. ASSUME timer # <<>>, Late(timer[1].t) > 0 PROVE Late(timer[1].t)' > 0
      <4>1. 1 \in 1..Len(timer)
        BY <2>1, <3>2
      <4>2. timer[1].t \in Ticks /\ Near(timer[1].t)
        BY <4>1, NearIs
      <4>3. PICK t \in Ticks : t = timer[1].t
        BY <4>2
      <4>4. Late(t)' > 0
        BY <2>1, <3>1, <3>2, <4>2, <4>3, LateTick
      <4>5. Late(timer[1].t)' = Late(t)'
        BY <3>1, <4>3 DEF Late, Minus
      <4> QED BY <4>4, <4>5
    <3> QED BY <3>1, <3>2 DEF Armed
  <2>10. CASE UNCHANGED vars
    BY <2>10 DEF vars, Armed, Late, Minus
  <2> QED BY <2>4, <2>5, <2>6, <2>7, <2>8, <2>9, <2>10 DEF Next
<1> QED BY <1>1, <1>2, TimesKept, PTL DEF Spec
=============================================================================
