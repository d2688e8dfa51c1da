--------------------------- MODULE Filters_proofs ---------------------------
(***************************************************************************)
(* What a filter keeps, and that filters compose.                          *)
(***************************************************************************)
EXTENDS Filters, Integers, SequencesExt, WellFoundedInduction, TLAPS

LessThan == {pair \in Nat \X Nat : pair[1] < pair[2]}

\* There is no infinite descent.
LEMMA LessThanWellFounded == IsWellFoundedOn(LessThan, Nat)
BY NatLessThanWellFounded DEF OpToRel, LessThan

\* A set of numbers that is closed under successors up to b and holds 0 holds
\* every number up to b.
LEMMA Climb ==
    ASSUME NEW b \in Nat, NEW P, 0 \in P,
           \A n \in 1..b : n - 1 \in P => n \in P
    PROVE  0..b \subseteq P
<1> DEFINE Bad == {n \in 0..b : n \notin P}
<1>1. SUFFICES ASSUME Bad # {} PROVE FALSE
  OBVIOUS
<1>2. PICK n \in Bad : \A m \in Bad : <<m, n>> \notin LessThan
  <2>1. Bad \subseteq Nat
    OBVIOUS
  <2> HIDE DEF Bad
  <2> QED  BY <1>1, <2>1, LessThanWellFounded, WFMin
<1>3. n \in 1..b /\ n - 1 \in 0..b
  OBVIOUS
<1>4. n - 1 \notin Bad
  <2>1. <<n - 1, n>> \in LessThan
    BY <1>3 DEF LessThan
  <2> QED  BY <1>2, <2>1
<1> QED  BY <1>3, <1>4

\* The recursion has a solution.
LEMMA PassingDefined ==
    ASSUME NEW s, Len(s) \in Nat, NEW S
    PROVE  Passing(s, S) =
             [n \in 0..Len(s) |->
                IF n = 0 THEN <<>>
                ELSE IF s[n] \in S THEN Append(Passing(s, S)[n - 1], s[n])
                ELSE Passing(s, S)[n - 1]]
<1> DEFINE Solves(f, b) ==
             f = [n \in 0..b |-> IF n = 0 THEN <<>>
                                 ELSE IF s[n] \in S THEN Append(f[n - 1], s[n]) ELSE f[n - 1]]
           P == {b \in 0..Len(s) : \E f : Solves(f, b)}
<1>1. 0 \in P
  <2>1. Solves([n \in 0..0 |-> <<>>], 0)
    OBVIOUS
  <2>2. \E f : Solves(f, 0)
    <3> DEFINE g == [n \in 0..0 |-> <<>>]
    <3>1. Solves(g, 0)
      BY <2>1
    <3> HIDE DEF g, Solves
    <3> QED  BY <3>1
  <2> HIDE DEF Solves
  <2> QED  BY <2>2
<1>2. ASSUME NEW n \in 1..Len(s), n - 1 \in P PROVE n \in P
  <2>1. PICK f : Solves(f, n - 1)
    BY <1>2
  <2> DEFINE g == [m \in 0..n |-> IF m = n THEN IF s[n] \in S THEN Append(f[n - 1], s[n])
                                               ELSE f[n - 1]
                                  ELSE f[m]]
  <2>2. \A m \in 0..n : g[m] = IF m = 0 THEN <<>>
                               ELSE IF s[m] \in S THEN Append(g[m - 1], s[m]) ELSE g[m - 1]
    <3> TAKE m \in 0..n
    <3>1. CASE m = n
      <4>1. g[m - 1] = f[n - 1]
        BY <3>1
      <4> QED  BY <3>1, <4>1
    <3>2. CASE m # n /\ m # 0
      <4>1. m \in 0..(n - 1) /\ m - 1 \in 0..n /\ m - 1 # n
        BY <3>2
      <4>2. g[m] = f[m] /\ g[m - 1] = f[m - 1]
        BY <3>2, <4>1
      <4>3. f[m] = IF s[m] \in S THEN Append(f[m - 1], s[m]) ELSE f[m - 1]
        BY <2>1, <3>2, <4>1
      <4> QED  BY <3>2, <4>2, <4>3
    <3>3. CASE m = 0
      <4>1. g[m] = f[m] /\ m \in 0..(n - 1)
        BY <3>3
      <4> QED  BY <2>1, <3>3, <4>1
    <3> QED  BY <3>1, <3>2, <3>3
  <2>3. Solves(g, n)
    <3> HIDE DEF g
    <3>1. g = [m \in 0..n |-> g[m]]
      BY DEF g
    <3> QED  BY <2>2, <3>1
  <2>4. \E h : Solves(h, n)
    <3> HIDE DEF g, Solves
    <3> QED  BY <2>3
  <2> HIDE DEF g, Solves
  <2> QED  BY <2>4
<1>3. Len(s) \in P
  <2> HIDE DEF P
  <2>1. 0..Len(s) \subseteq P
    BY <1>1, <1>2, Climb
  <2> QED  BY <2>1
<1>4. \E h : Solves(h, Len(s))
  BY <1>3
<1> QED  BY <1>4 DEF Passing

-----------------------------------------------------------------------------
\* e says where in the first n elements of s those of t are found: in their
\* order, and all that are in S.
Finds(e, t, s, n, S) ==
    /\ e \in [1..Len(t) -> 1..n]
    /\ \A k \in 1..Len(t) : t[k] = s[e[k]] /\ s[e[k]] \in S
    /\ \A j, k \in 1..Len(t) : j < k => e[j] < e[k]
    /\ \A i \in 1..n : s[i] \in S => \E k \in 1..Len(t) : e[k] = i

LEMMA PassingFound ==
    ASSUME NEW X, NEW s \in Seq(X), NEW S, NEW n \in 0..Len(s)
    PROVE  /\ Passing(s, S)[n] \in Seq(X)
           /\ Len(Passing(s, S)[n]) <= n
           /\ \E e : Finds(e, Passing(s, S)[n], s, n, S)
<1> DEFINE f == Passing(s, S)
           P == {m \in 0..Len(s) : /\ f[m] \in Seq(X) /\ Len(f[m]) <= m
                                  /\ \E e : Finds(e, f[m], s, m, S)}
<1>1. Len(s) \in Nat
  OBVIOUS
<1>2. f = [m \in 0..Len(s) |-> IF m = 0 THEN <<>>
                               ELSE IF s[m] \in S THEN Append(f[m - 1], s[m]) ELSE f[m - 1]]
  BY <1>1, PassingDefined
<1> HIDE DEF f
<1>3. 0 \in P
  <2>1. f[0] = <<>>
    BY <1>1, <1>2
  <2>2. Finds(<<>>, <<>>, s, 0, S)
    <3>1. 1..0 = {} /\ Len(<<>>) = 0
      OBVIOUS
    <3>2. <<>> \in [{} -> {}]
      OBVIOUS
    <3> QED  BY <3>1, <3>2 DEF Finds
  <2>3. \E e : Finds(e, f[0], s, 0, S)
    BY <2>1, <2>2, Zenon
  <2>4. 0 \in 0..Len(s) /\ f[0] \in Seq(X) /\ Len(f[0]) <= 0
    BY <1>1, <2>1
  <2> QED  BY <2>3, <2>4, Zenon
<1>4. ASSUME NEW m \in 1..Len(s), m - 1 \in P PROVE m \in P
  <2>1. /\ f[m - 1] \in Seq(X) /\ Len(f[m - 1]) <= m - 1
        /\ m \in 0..Len(s) /\ m # 0 /\ s[m] \in X /\ m \in Nat /\ m - 1 \in Nat
    BY <1>4
  <2>2. PICK e : Finds(e, f[m - 1], s, m - 1, S)
    BY <1>4
  <2>3. CASE s[m] \in S
    <3> DEFINE t == Append(f[m - 1], s[m])
               L == Len(f[m - 1])
               g == [k \in 1..(L + 1) |-> IF k = L + 1 THEN m ELSE e[k]]
    <3>1. f[m] = t
      BY <1>2, <2>1, <2>3
    <3>2. /\ t \in Seq(X) /\ Len(t) = L + 1 /\ L \in Nat /\ t[L + 1] = s[m]
          /\ \A k \in 1..L : t[k] = f[m - 1][k]
      BY <2>1
    <3> HIDE DEF t, L
    <3>3. \A k \in 1..L : k \in 1..(L + 1) /\ k # L + 1 /\ g[k] = e[k] /\ e[k] \in 1..(m - 1)
      <4>1. \A k \in 1..L : k \in 1..(L + 1) /\ k # L + 1
        BY <3>2
      <4>2. \A k \in 1..L : e[k] \in 1..(m - 1)
        BY <2>2 DEF Finds, L
      <4> QED  BY <4>1, <4>2
    <3>4. g[L + 1] = m /\ L + 1 \in 1..(L + 1)
      BY <3>2
    <3>5. \A k \in 1..(L + 1) : k \in 1..L \/ k = L + 1
      BY <3>2
    <3>6. g \in [1..Len(t) -> 1..m]
      <4>1. \A k \in 1..(L + 1) : g[k] \in 1..m
        <5>1. m \in 1..m /\ 1..(m - 1) \subseteq 1..m
          BY <2>1
        <5> HIDE DEF g
        <5> QED  BY <3>3, <3>4, <3>5, <5>1
      <4> QED  BY <3>2, <4>1
    <3> HIDE DEF g
    <3>7. \A k \in 1..(L + 1) : t[k] = s[g[k]] /\ s[g[k]] \in S
      <4>1. \A k \in 1..L : f[m - 1][k] = s[e[k]] /\ s[e[k]] \in S
        BY <2>2 DEF Finds, L
      <4> QED  BY <2>3, <3>2, <3>3, <3>4, <3>5, <4>1
    <3>8. \A j, k \in 1..(L + 1) : j < k => g[j] < g[k]
      <4>1. \A j, k \in 1..L : j < k => e[j] < e[k]
        BY <2>2 DEF Finds, L
      <4> TAKE j, k \in 1..(L + 1)
      <4>2. HAVE j < k
      <4>3. j \in 1..L
        BY <3>2, <4>2
      <4>4. CASE k = L + 1
        BY <2>1, <3>3, <3>4, <4>3, <4>4
      <4>5. CASE k \in 1..L
        BY <3>3, <4>1, <4>2, <4>3, <4>5
      <4> QED  BY <3>5, <4>4, <4>5
    <3>9. \A i \in 1..m : s[i] \in S => \E k \in 1..(L + 1) : g[k] = i
      <4> TAKE i \in 1..m
      <4>1. HAVE s[i] \in S
      <4>2. CASE i = m
        BY <3>4, <4>2
      <4>3. CASE i # m
        <5>1. i \in 1..(m - 1)
          BY <2>1, <4>3
        <5>2. PICK k \in 1..L : e[k] = i
          BY <2>2, <4>1, <5>1 DEF Finds, L
        <5> QED  BY <3>3, <5>2
      <4> QED  BY <4>2, <4>3
    <3>10. Finds(g, t, s, m, S)
      BY <3>2, <3>6, <3>7, <3>8, <3>9 DEF Finds
    <3>11. \E h : Finds(h, f[m], s, m, S)
      BY <3>1, <3>10, Zenon
    <3>12. f[m] \in Seq(X) /\ Len(f[m]) <= m
      BY <2>1, <3>1, <3>2 DEF L
    <3> QED  BY <2>1, <3>11, <3>12
  <2>4. CASE s[m] \notin S
    <3>1. f[m] = f[m - 1]
      BY <1>2, <2>1, <2>4
    <3>2. Finds(e, f[m - 1], s, m, S)
      <4>1. \A i \in 1..m : s[i] \in S => i \in 1..(m - 1)
        BY <2>1, <2>4
      <4>2. 1..(m - 1) \subseteq 1..m
        BY <2>1
      <4> QED  BY <2>2, <4>1, <4>2 DEF Finds
    <3>3. \E h : Finds(h, f[m], s, m, S)
      BY <3>1, <3>2, Zenon
    <3> QED  BY <2>1, <3>1, <3>3
  <2> QED  BY <2>3, <2>4
<1>5. 0..Len(s) \subseteq P
  <2> HIDE DEF P
  <2> QED  BY <1>1, <1>3, <1>4, Climb
<1> QED  BY <1>5 DEF f

\* What a filter returns: some of the elements in their order, and all that pass.
LEMMA AmongFound ==
    ASSUME NEW X, NEW s \in Seq(X), NEW S
    PROVE  /\ Among(s, S) \in Seq(X)
           /\ Len(Among(s, S)) <= Len(s)
           /\ \E e : Finds(e, Among(s, S), s, Len(s), S)
<1>1. Len(s) \in 0..Len(s)
  OBVIOUS
<1> QED  BY <1>1, PassingFound DEF Among

LEMMA AmongHolds ==
    ASSUME NEW X, NEW s \in Seq(X), NEW S
    PROVE  ToSet(Among(s, S)) = ToSet(s) \cap S
<1> DEFINE t == Among(s, S)
<1>1. PICK e : Finds(e, t, s, Len(s), S)
  BY AmongFound
<1>2. t \in Seq(X)
  BY AmongFound
<1> HIDE DEF t
<1>3. DOMAIN t = 1..Len(t) /\ DOMAIN s = 1..Len(s)
  BY <1>2
<1>4. ToSet(t) \subseteq ToSet(s) \cap S
  BY <1>1, <1>3 DEF Finds, ToSet
<1>5. ToSet(s) \cap S \subseteq ToSet(t)
  BY <1>1, <1>3 DEF Finds, ToSet
<1> QED  BY <1>4, <1>5 DEF t

\* Different places of the result are different places of what is filtered.
LEMMA AmongApart ==
    ASSUME NEW X, NEW s \in Seq(X), NEW S,
           NEW j \in DOMAIN Among(s, S), NEW k \in DOMAIN Among(s, S), j # k
    PROVE  \E i, l \in DOMAIN s : i # l /\ Among(s, S)[j] = s[i] /\ Among(s, S)[k] = s[l]
<1> DEFINE t == Among(s, S)
<1>1. PICK e : Finds(e, t, s, Len(s), S)
  BY AmongFound
<1>2. t \in Seq(X)
  BY AmongFound
<1> HIDE DEF t
<1>3. DOMAIN t = 1..Len(t) /\ DOMAIN s = 1..Len(s) /\ Len(s) \in Nat /\ Len(t) \in Nat
  BY <1>2
<1>4. j \in 1..Len(t) /\ k \in 1..Len(t)
  BY <1>3 DEF t
<1>5. e[j] \in 1..Len(s) /\ e[k] \in 1..Len(s) /\ t[j] = s[e[j]] /\ t[k] = s[e[k]]
  BY <1>1, <1>4 DEF Finds
<1>6. e[j] # e[k]
  <2>1. j < k => e[j] < e[k]
    BY <1>1, <1>4 DEF Finds
  <2>2. k < j => e[k] < e[j]
    BY <1>1, <1>4 DEF Finds
  <2> QED  BY <1>3, <1>4, <1>5, <2>1, <2>2
<1> QED  BY <1>3, <1>5, <1>6 DEF t

-----------------------------------------------------------------------------
\* Filters compose.

\* The first elements of a sequence are filtered whatever follows them.
LEMMA AmongAppend ==
    ASSUME NEW X, NEW s \in Seq(X), NEW x \in X, NEW S
    PROVE  Among(Append(s, x), S) = IF x \in S THEN Append(Among(s, S), x) ELSE Among(s, S)
<1> DEFINE t == Append(s, x)
           f == Passing(s, S)
           g == Passing(t, S)
           P == {n \in 0..Len(s) : f[n] = g[n]}
<1>1. /\ Len(s) \in Nat /\ Len(t) = Len(s) + 1 /\ Len(t) \in Nat
      /\ t[Len(t)] = x /\ \A i \in 1..Len(s) : t[i] = s[i]
  OBVIOUS
<1>2. f = [m \in 0..Len(s) |-> IF m = 0 THEN <<>>
                               ELSE IF s[m] \in S THEN Append(f[m - 1], s[m]) ELSE f[m - 1]]
  BY <1>1, PassingDefined
<1> HIDE DEF t
<1>3. g = [m \in 0..Len(t) |-> IF m = 0 THEN <<>>
                               ELSE IF t[m] \in S THEN Append(g[m - 1], t[m]) ELSE g[m - 1]]
  BY <1>1, PassingDefined
<1> HIDE DEF f, g
<1>4. 0 \in P
  <2>1. f[0] = <<>>
    BY <1>1, <1>2
  <2>2. g[0] = <<>>
    BY <1>1, <1>3
  <2> QED  BY <1>1, <2>1, <2>2
<1>5. ASSUME NEW m \in 1..Len(s), m - 1 \in P PROVE m \in P
  <2>1. m \in 0..Len(s) /\ m \in 0..Len(t) /\ m # 0 /\ t[m] = s[m]
    BY <1>1
  <2>2. f[m - 1] = g[m - 1]
    BY <1>5
  <2>3. f[m] = IF s[m] \in S THEN Append(f[m - 1], s[m]) ELSE f[m - 1]
    BY <1>2, <2>1
  <2>4. g[m] = IF t[m] \in S THEN Append(g[m - 1], t[m]) ELSE g[m - 1]
    BY <1>3, <2>1
  <2> QED  BY <2>1, <2>2, <2>3, <2>4
<1>6. f[Len(s)] = g[Len(s)]
  <2>1. 0..Len(s) \subseteq P
    <3> HIDE DEF P
    <3> QED  BY <1>1, <1>4, <1>5, Climb
  <2> QED  BY <1>1, <2>1
<1>7. Len(t) \in 0..Len(t) /\ Len(t) # 0 /\ Len(t) - 1 = Len(s)
  BY <1>1
<1>8. g[Len(t)] = IF t[Len(t)] \in S THEN Append(g[Len(t) - 1], t[Len(t)]) ELSE g[Len(t) - 1]
  BY <1>3, <1>7
<1> QED  BY <1>1, <1>6, <1>7, <1>8 DEF Among, f, g, t

LEMMA AmongNothing ==
    ASSUME NEW S PROVE Among(<<>>, S) = <<>>
<1>1. ASSUME NEW s, s = <<>> PROVE Among(s, S) = <<>>
  <2>1. Len(s) = 0 /\ Len(s) \in Nat /\ 0 \in 0..Len(s)
    BY <1>1
  <2>2. Passing(s, S) =
             [n \in 0..Len(s) |->
                IF n = 0 THEN <<>>
                ELSE IF s[n] \in S THEN Append(Passing(s, S)[n - 1], s[n])
                ELSE Passing(s, S)[n - 1]]
    BY <2>1, PassingDefined
  <2> HIDE DEF Passing
  <2>3. Passing(s, S)[0] = <<>>
    BY <2>1, <2>2
  <2> QED  BY <2>1, <2>3 DEF Among
<1> QED  BY <1>1

LEMMA AmongAmong ==
    ASSUME NEW X, NEW s \in Seq(X), NEW S, NEW T
    PROVE  Among(Among(s, S), T) = Among(s, S \cap T)
<1> DEFINE U == S \cap T
           f == Passing(s, S)
           g == Passing(s, U)
           P == {n \in 0..Len(s) : Among(f[n], T) = g[n]}
<1>1. Len(s) \in Nat /\ \A n \in 1..Len(s) : s[n] \in X
  OBVIOUS
<1>2. f = [m \in 0..Len(s) |-> IF m = 0 THEN <<>>
                               ELSE IF s[m] \in S THEN Append(f[m - 1], s[m]) ELSE f[m - 1]]
  BY <1>1, PassingDefined
<1> HIDE DEF U
<1>3. g = [m \in 0..Len(s) |-> IF m = 0 THEN <<>>
                               ELSE IF s[m] \in U THEN Append(g[m - 1], s[m])
                               ELSE g[m - 1]]
  BY <1>1, PassingDefined
<1>4. \A n \in 0..Len(s) : f[n] \in Seq(X)
  BY PassingFound
<1> HIDE DEF f, g
<1>5. 0 \in P
  <2>1. f[0] = <<>>
    BY <1>1, <1>2
  <2>2. g[0] = <<>>
    BY <1>1, <1>3
  <2> QED  BY <1>1, <2>1, <2>2, AmongNothing
<1>6. ASSUME NEW m \in 1..Len(s), m - 1 \in P PROVE m \in P
  <2>1. m \in 0..Len(s) /\ m # 0 /\ m - 1 \in 0..Len(s) /\ s[m] \in X
    BY <1>1
  <2>2. Among(f[m - 1], T) = g[m - 1]
    BY <1>6
  <2>3. f[m] = IF s[m] \in S THEN Append(f[m - 1], s[m]) ELSE f[m - 1]
    BY <1>2, <2>1
  <2>4. g[m] = IF s[m] \in U THEN Append(g[m - 1], s[m]) ELSE g[m - 1]
    BY <1>3, <2>1
  <2>5. f[m - 1] \in Seq(X)
    BY <1>4, <2>1
  <2>6. Among(Append(f[m - 1], s[m]), T) =
            IF s[m] \in T THEN Append(Among(f[m - 1], T), s[m]) ELSE Among(f[m - 1], T)
    <3>1. \A r \in Seq(X), x \in X :
             Among(Append(r, x), T) = IF x \in T THEN Append(Among(r, T), x) ELSE Among(r, T)
      BY AmongAppend
    <3> QED  BY <2>1, <2>5, <3>1
  <2>7. s[m] \in U <=> s[m] \in S /\ s[m] \in T
    BY DEF U
  <2> QED  BY <2>1, <2>2, <2>3, <2>4, <2>6, <2>7
<1>7. 0..Len(s) \subseteq P
  <2> HIDE DEF P
  <2> QED  BY <1>1, <1>5, <1>6, Climb
<1>8. Len(s) \in 0..Len(s)
  BY <1>1
<1> QED  BY <1>7, <1>8 DEF Among, f, g, U
=============================================================================
