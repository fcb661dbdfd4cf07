--------------------------- MODULE FolderPlanProofs ---------------------------
(***************************************************************************)
(* Proofs about FolderGraph and FolderPlan, for folders of any number of   *)
(* coders, streams and pairs.  The loops of the code are functions defined *)
(* by recursion over a range of numbers; each is first shown to satisfy    *)
(* its equation (Iteration), then its invariant is carried along by        *)
(* induction over the range.  GraphIs says which folders are accepted and  *)
(* with which graph, WiringIs what the planner needs to know of it, and    *)
(* PlanInv is the invariant of planning and opening.                       *)
(***************************************************************************)
EXTENDS FolderPlan, FiniteSetTheorems, FunctionTheorems, WellFoundedInduction, TLAPS

-----------------------------------------------------------------------------
(***************************************************************************)
(* Induction over a bounded range, and what a function defined by          *)
(* recursion over one is.  The model's loops are such functions.           *)
(***************************************************************************)
(* Numbers have a least.                                                   *)
LEMMA LeastElement ==
    ASSUME NEW T \in SUBSET Nat, T # {}
    PROVE  \E x \in T : \A y \in T : x <= y
<1> DEFINE Less == OpToRel(<, Nat)
<1>1. IsWellFoundedOn(Less, Nat)
  BY NatLessThanWellFounded
<1>2. PICK x \in T : \A y \in T : ~ (<<y, x>> \in Less)
  <2> HIDE DEF Less
  <2> QED BY <1>1, WFMin, Zenon
<1>3. \A y \in T : ~ (y < x)
  <2> SUFFICES ASSUME NEW y \in T, y < x PROVE FALSE
    OBVIOUS
  <2>1. <<y, x>> \in Nat \X Nat
    OBVIOUS
  <2>2. <<y, x>> \in Less
    BY <2>1 DEF OpToRel
  <2> HIDE DEF Less
  <2> QED BY <2>2, <1>2
<1> HIDE DEF Less
<1> QED BY <1>3

(* What holds of 0 and of the successor of what it holds of, holds up to   *)
(* n.                                                                      *)
LEMMA Induction ==
    ASSUME NEW n \in Nat, NEW P, 0 \in P, \A k \in 0..(n - 1) : k \in P => k + 1 \in P
    PROVE  \A k \in 0..n : k \in P
<1> DEFINE T == {k \in 0..n : k \notin P}
<1>1. SUFFICES ASSUME T # {} PROVE FALSE
  OBVIOUS
<1>2. PICK x \in T : \A y \in T : x <= y
  BY <1>1, T \subseteq Nat, LeastElement
<1>3. x # 0 /\ x - 1 \in 0..(n - 1) /\ x - 1 \notin T
  BY <1>2
<1> QED
  BY <1>3

\* g goes through n rounds of F, from x.
Iterates(g, S, n, x, F) ==
    /\ g \in [0..n -> S]
    /\ g[0] = x
    /\ \A k \in 1..n : g[k] = F[k][g[k - 1]]

(* Applying F[1], F[2], ... in turn defines a function.                    *)
LEMMA Iteration ==
    ASSUME NEW S, NEW n \in Nat, NEW x \in S, NEW F \in [1..n -> [S -> S]]
    PROVE  \E g : Iterates(g, S, n, x, F)
<1> DEFINE P == {m \in 0..n : \E g : Iterates(g, S, m, x, F)}
<1>1. 0 \in P
  <2> DEFINE g == [k \in 0..0 |-> x]
  <2>1. Iterates(g, S, 0, x, F)
    BY DEF Iterates
  <2> QED BY <2>1
<1>2. ASSUME NEW m \in 0..(n - 1), m \in P PROVE m + 1 \in P
  <2>1. PICK g : Iterates(g, S, m, x, F)
    BY <1>2
  <2>0. g \in [0..m -> S]
    BY <2>1 DEF Iterates
  <2> DEFINE h == [k \in 0..(m + 1) |-> IF k <= m THEN g[k] ELSE F[m + 1][g[m]]]
  <2>2. F[m + 1] \in [S -> S] /\ g[m] \in S
    BY <2>0
  <2>9. F[m + 1][g[m]] \in S
    BY <2>2
  <2>3. h \in [0..(m + 1) -> S]
    BY <2>9, <2>0
  <2>4. h[0] = x
    BY <2>1 DEF Iterates
  <2>5. ASSUME NEW k \in 1..(m + 1) PROVE h[k] = F[k][h[k - 1]]
    <3>1. CASE k <= m
      <4>1. k \in 1..m /\ k \in 0..(m + 1) /\ k - 1 \in 0..(m + 1) /\ k - 1 <= m
        BY <3>1
      <4>2. h[k] = g[k] /\ h[k - 1] = g[k - 1]
        BY <4>1, <3>1
      <4>3. g[k] = F[k][g[k - 1]]
        BY <2>1, <4>1 DEF Iterates
      <4> QED BY <4>2, <4>3
    <3>2. CASE k = m + 1
      <4>1. h[k] = F[k][g[m]] /\ h[k - 1] = g[m]
        BY <3>2
      <4> QED BY <4>1
    <3> QED BY <3>1, <3>2
  <2>6. Iterates(h, S, m + 1, x, F)
    <3> HIDE DEF h
    <3> QED BY <2>3, <2>4, <2>5 DEF Iterates
  <2> QED BY <2>6
<1>3. n \in P
  <2> HIDE DEF P
  <2>1. \A k \in 0..n : k \in P
    BY <1>1, <1>2, Induction
  <2> QED BY <2>1
<1> QED
  BY <1>3
-----------------------------------------------------------------------------
(***************************************************************************)
(* Stream numbers: the owners a folder's streams get are the ones the      *)
(* running totals say.                                                     *)
(***************************************************************************)
LEMMA NumberingStep ==
    ASSUME NEW counts \in Seq(Nat)
    PROVE  /\ Numbering(counts) \in [0..Len(counts) -> Seq(1..Len(counts))]
           /\ Numbering(counts)[0] = <<>>
           /\ \A c \in 1..Len(counts) :
                 Numbering(counts)[c] = Numbering(counts)[c - 1] \o [j \in 1..counts[c] |-> c]
<1> DEFINE n == Len(counts)
           S == Seq(1..Len(counts))
           x == <<>>
           Step(s, c) == s \o [j \in 1..counts[c] |-> c]
           F == [c \in 1..n |-> [s \in S |-> Step(s, c)]]
           N == Numbering(counts)
<1>1. n \in Nat
  OBVIOUS
<1>2. ASSUME NEW s \in S, NEW c \in 1..n PROVE Step(s, c) \in S
  <2>1. counts[c] \in Nat
    OBVIOUS
  <2>2. [j \in 1..counts[c] |-> c] \in Seq(1..n)
    BY <2>1
  <2> QED BY <2>2
<1>3. x \in S
  OBVIOUS
<1>4. N = CHOOSE g : g = [c \in 0..n |-> IF c = 0 THEN x ELSE Step(g[c - 1], c)]
  BY Zenon DEF Numbering
<1>5. QED
  <2> HIDE DEF S, n, N, x, Step
  <2>1. F \in [1..n -> [S -> S]]
    BY <1>2
  <2>2. PICK g : Iterates(g, S, n, x, F)
    <3> HIDE DEF F
    <3> QED BY <1>1, <1>3, <2>1, Iteration, Zenon
  <2>3. g \in [0..n -> S] /\ g[0] = x /\ \A c \in 1..n : g[c] = F[c][g[c - 1]]
    BY <2>2 DEF Iterates
  <2>4. ASSUME NEW c \in 1..n PROVE F[c][g[c - 1]] = Step(g[c - 1], c)
    <3>1. g[c - 1] \in S
      BY <1>1, <2>3
    <3> QED BY <3>1
  <2>5. \A c \in 0..n : g[c] = IF c = 0 THEN x ELSE Step(g[c - 1], c)
    <3> HIDE DEF F
    <3> QED BY <1>1, <2>3, <2>4
  <2>6. g = [c \in 0..n |-> IF c = 0 THEN x ELSE Step(g[c - 1], c)]
    BY <2>3, <2>5
  <2> DEFINE B == [c \in 0..n |-> IF c = 0 THEN x ELSE Step(N[c - 1], c)]
  <2>7. N = B
    BY <1>4, <2>6, Zenon
  <2>8. B[0] = x /\ \A c \in 1..n : B[c] = Step(N[c - 1], c)
    BY <1>1
  <2>9. N = [c \in 0..n |-> N[c]]
    BY <2>7
  <2> HIDE DEF B
  <2>10. N[0] = x /\ \A c \in 1..n : N[c] = Step(N[c - 1], c)
    BY <2>7, <2>8, Zenon
  <2> DEFINE P == {c \in 0..n : N[c] \in S}
  <2>11. 0 \in P
    BY <1>1, <1>3, <2>10
  <2>12. ASSUME NEW c \in 0..(n - 1), c \in P PROVE c + 1 \in P
    <3>1. c + 1 \in 1..n /\ (c + 1) - 1 = c
      BY <1>1
    <3>2. N[c + 1] = Step(N[c], c + 1) /\ N[c] \in S
      BY <2>10, <2>12, <3>1
    <3>3. N[c + 1] \in S
      BY <1>2, <3>1, <3>2
    <3> QED BY <1>1, <3>1, <3>3
  <2>13. \A c \in 0..n : c \in P
    <3> HIDE DEF P
    <3> QED BY <1>1, <2>11, <2>12, Induction
  <2>14. N \in [0..n -> S]
    BY <2>9, <2>13
  <2> QED BY <2>10, <2>14 DEF S, n, N, x, Step

(* The recursion that counts the streams of the first coders.              *)
LEMMA StreamTotalStep ==
    ASSUME NEW counts \in Seq(Nat)
    PROVE  /\ StreamTotal(counts) \in [0..Len(counts) -> Nat]
           /\ StreamTotal(counts)[0] = 0
           /\ \A c \in 1..Len(counts) :
                 StreamTotal(counts)[c] = StreamTotal(counts)[c - 1] + counts[c]
<1> DEFINE n == Len(counts)
           S == Nat
           x == 0
           Step(s, c) == s + counts[c]
           F == [c \in 1..n |-> [s \in S |-> Step(s, c)]]
           N == StreamTotal(counts)
<1>1. n \in Nat
  OBVIOUS
<1>2. ASSUME NEW s \in S, NEW c \in 1..n PROVE Step(s, c) \in S
  OBVIOUS
<1>3. x \in S
  OBVIOUS
<1>4. N = CHOOSE g : g = [c \in 0..n |-> IF c = 0 THEN x ELSE Step(g[c - 1], c)]
  BY Zenon DEF StreamTotal
<1>5. QED
  <2> HIDE DEF S, n, N, x, Step
  <2>1. F \in [1..n -> [S -> S]]
    BY <1>2
  <2>2. PICK g : Iterates(g, S, n, x, F)
    <3> HIDE DEF F
    <3> QED BY <1>1, <1>3, <2>1, Iteration, Zenon
  <2>3. g \in [0..n -> S] /\ g[0] = x /\ \A c \in 1..n : g[c] = F[c][g[c - 1]]
    BY <2>2 DEF Iterates
  <2>4. ASSUME NEW c \in 1..n PROVE F[c][g[c - 1]] = Step(g[c - 1], c)
    <3>1. g[c - 1] \in S
      BY <1>1, <2>3
    <3> QED BY <3>1
  <2>5. \A c \in 0..n : g[c] = IF c = 0 THEN x ELSE Step(g[c - 1], c)
    <3> HIDE DEF F
    <3> QED BY <1>1, <2>3, <2>4
  <2>6. g = [c \in 0..n |-> IF c = 0 THEN x ELSE Step(g[c - 1], c)]
    BY <2>3, <2>5
  <2> DEFINE B == [c \in 0..n |-> IF c = 0 THEN x ELSE Step(N[c - 1], c)]
  <2>7. N = B
    BY <1>4, <2>6, Zenon
  <2>8. B[0] = x /\ \A c \in 1..n : B[c] = Step(N[c - 1], c)
    BY <1>1
  <2>9. N = [c \in 0..n |-> N[c]]
    BY <2>7
  <2> HIDE DEF B
  <2>10. N[0] = x /\ \A c \in 1..n : N[c] = Step(N[c - 1], c)
    BY <2>7, <2>8, Zenon
  <2> DEFINE P == {c \in 0..n : N[c] \in S}
  <2>11. 0 \in P
    BY <1>1, <1>3, <2>10
  <2>12. ASSUME NEW c \in 0..(n - 1), c \in P PROVE c + 1 \in P
    <3>1. c + 1 \in 1..n /\ (c + 1) - 1 = c
      BY <1>1
    <3>2. N[c + 1] = Step(N[c], c + 1) /\ N[c] \in S
      BY <2>10, <2>12, <3>1
    <3>3. N[c + 1] \in S
      BY <1>2, <3>1, <3>2
    <3> QED BY <1>1, <3>1, <3>3
  <2>13. \A c \in 0..n : c \in P
    <3> HIDE DEF P
    <3> QED BY <1>1, <2>11, <2>12, Induction
  <2>14. N \in [0..n -> S]
    BY <2>9, <2>13
  <2> QED BY <2>10, <2>14 DEF S, n, N, x, Step

(* The recursion that Ascending is taken from.                             *)
LEMMA FilteringStep ==
    ASSUME NEW m \in Nat, NEW chosen
    PROVE  /\ Filtering(m, chosen) \in [0..m -> Seq(1..m)]
           /\ Filtering(m, chosen)[0] = <<>>
           /\ \A k \in 1..m :
                 Filtering(m, chosen)[k] = IF k \in chosen THEN Append(Filtering(m, chosen)[k - 1], k) ELSE Filtering(m, chosen)[k - 1]
<1> DEFINE n == m
           S == Seq(1..m)
           x == <<>>
           Step(s, k) == IF k \in chosen THEN Append(s, k) ELSE s
           F == [k \in 1..n |-> [s \in S |-> Step(s, k)]]
           N == Filtering(m, chosen)
<1>1. n \in Nat
  OBVIOUS
<1>2. ASSUME NEW s \in S, NEW k \in 1..n PROVE Step(s, k) \in S
  <2>1. k \in 1..m /\ Append(s, k) \in Seq(1..m)
    OBVIOUS
  <2> QED BY <2>1
<1>3. x \in S
  OBVIOUS
<1>4. N = CHOOSE g : g = [k \in 0..n |-> IF k = 0 THEN x ELSE Step(g[k - 1], k)]
  BY Zenon DEF Filtering
<1>5. QED
  <2> HIDE DEF S, n, N, x, Step
  <2>1. F \in [1..n -> [S -> S]]
    BY <1>2
  <2>2. PICK g : Iterates(g, S, n, x, F)
    <3> HIDE DEF F
    <3> QED BY <1>1, <1>3, <2>1, Iteration, Zenon
  <2>3. g \in [0..n -> S] /\ g[0] = x /\ \A k \in 1..n : g[k] = F[k][g[k - 1]]
    BY <2>2 DEF Iterates
  <2>4. ASSUME NEW k \in 1..n PROVE F[k][g[k - 1]] = Step(g[k - 1], k)
    <3>1. g[k - 1] \in S
      BY <1>1, <2>3
    <3> QED BY <3>1
  <2>5. \A k \in 0..n : g[k] = IF k = 0 THEN x ELSE Step(g[k - 1], k)
    <3> HIDE DEF F
    <3> QED BY <1>1, <2>3, <2>4
  <2>6. g = [k \in 0..n |-> IF k = 0 THEN x ELSE Step(g[k - 1], k)]
    BY <2>3, <2>5
  <2> DEFINE B == [k \in 0..n |-> IF k = 0 THEN x ELSE Step(N[k - 1], k)]
  <2>7. N = B
    BY <1>4, <2>6, Zenon
  <2>8. B[0] = x /\ \A k \in 1..n : B[k] = Step(N[k - 1], k)
    BY <1>1
  <2>9. N = [k \in 0..n |-> N[k]]
    BY <2>7
  <2> HIDE DEF B
  <2>10. N[0] = x /\ \A k \in 1..n : N[k] = Step(N[k - 1], k)
    BY <2>7, <2>8, Zenon
  <2> DEFINE P == {k \in 0..n : N[k] \in S}
  <2>11. 0 \in P
    BY <1>1, <1>3, <2>10
  <2>12. ASSUME NEW k \in 0..(n - 1), k \in P PROVE k + 1 \in P
    <3>1. k + 1 \in 1..n /\ (k + 1) - 1 = k
      BY <1>1
    <3>2. N[k + 1] = Step(N[k], k + 1) /\ N[k] \in S
      BY <2>10, <2>12, <3>1
    <3>3. N[k + 1] \in S
      BY <1>2, <3>1, <3>2
    <3> QED BY <1>1, <3>1, <3>3
  <2>13. \A k \in 0..n : k \in P
    <3> HIDE DEF P
    <3> QED BY <1>1, <2>11, <2>12, Induction
  <2>14. N \in [0..n -> S]
    BY <2>9, <2>13
  <2> QED BY <2>10, <2>14 DEF S, n, N, x, Step

(* A coder has no fewer streams before it than an earlier one.             *)
LEMMA TotalsGrow ==
    ASSUME NEW counts \in Seq(Nat),
           NEW d \in 0..Len(counts), NEW c \in 0..d
    PROVE  StreamTotal(counts)[c] <= StreamTotal(counts)[d]
<1> DEFINE n == Len(counts)
           T == StreamTotal(counts)
           P == {e \in 0..n : \A a \in 0..e : T[a] <= T[e]}
<1>1. n \in Nat /\ T \in [0..n -> Nat] /\ \A e \in 1..n : T[e] = T[e - 1] + counts[e]
  BY StreamTotalStep
<1>0. counts \in [1..n -> Nat] /\ d \in 0..n
  OBVIOUS
<1> HIDE DEF n, T
<1>2. 0 \in P
  BY <1>1
<1>3. ASSUME NEW e \in 0..(n - 1), e \in P PROVE e + 1 \in P
  <2>0. e + 1 \in 1..n /\ (e + 1) - 1 = e
    BY <1>1
  <2>1. T[e + 1] = T[e] + counts[e + 1] /\ counts[e + 1] \in Nat /\ T[e] \in Nat
    BY <1>0, <1>1, <2>0, SMTT(30)
  <2>2. ASSUME NEW a \in 0..(e + 1) PROVE T[a] <= T[e + 1]
    <3>1. T[a] \in Nat
      BY <1>1
    <3> QED BY <1>3, <2>1, <3>1
  <2> QED BY <1>1, <2>0, <2>2
<1> HIDE DEF P
<1>4. d \in P
  BY <1>0, <1>1, <1>2, <1>3, Induction
<1> QED
  BY <1>4 DEF P, T

(* The streams of coder d are those from the total before it to its own.   *)
LEMMA NumberingIs ==
    ASSUME NEW counts \in Seq(Nat),
           NEW c \in 0..Len(counts)
    PROVE  LET N == Numbering(counts)
               T == StreamTotal(counts)
           IN  /\ Len(N[c]) = T[c]
               /\ \A d \in 1..c : \A j \in 1..T[c] :
                     N[c][j] = d <=> (T[d - 1] < j /\ j <= T[d])
               /\ \A j \in 1..T[c] : N[c][j] \in 1..c
<1> DEFINE n == Len(counts)
           N == Numbering(counts)
           T == StreamTotal(counts)
           Right(e) == /\ Len(N[e]) = T[e]
                       /\ \A d \in 1..e : \A j \in 1..T[e] :
                             N[e][j] = d <=> (T[d - 1] < j /\ j <= T[d])
                       /\ \A j \in 1..T[e] : N[e][j] \in 1..e
           P == {e \in 0..n : Right(e)}
           Own(e) == [j \in 1..counts[e] |-> e]
<1>1. n \in Nat /\ T \in [0..n -> Nat] /\ T[0] = 0 /\ \A e \in 1..n : T[e] = T[e - 1] + counts[e]
  BY StreamTotalStep
<1>2. N \in [0..n -> Seq(1..n)] /\ N[0] = <<>>
      /\ \A e \in 1..n : N[e] = N[e - 1] \o Own(e)
  BY NumberingStep
<1>0. counts \in [1..n -> Nat] /\ c \in 0..n
  OBVIOUS
<1>7. ASSUME NEW e \in 1..n
      PROVE  /\ Own(e) \in Seq(1..n) /\ Len(Own(e)) = counts[e]
             /\ \A j \in 1..counts[e] : Own(e)[j] = e
  <2>1. counts[e] \in Nat
    BY <1>0
  <2> QED BY <2>1
<1>6. \A e \in 0..n : \A d \in 0..e : T[d] <= T[e]
  BY TotalsGrow
<1> HIDE DEF n, T, N, Own
<1>3. 0 \in P
  BY <1>1, <1>2, SMTT(30)
<1>4. ASSUME NEW e \in 0..(n - 1), e \in P PROVE e + 1 \in P
  <2> DEFINE own == Own(e + 1)
  <2>1. e + 1 \in 1..n /\ (e + 1) - 1 = e /\ counts[e + 1] \in Nat
    BY <1>0, <1>1
  <2>2. T[e + 1] = T[e] + counts[e + 1] /\ T[e] \in Nat /\ N[e] \in Seq(1..n)
    <3>1. T[e + 1] = T[e] + counts[e + 1] /\ T[e] \in Nat
      BY <1>1, <2>1
    <3> DEFINE S == Seq(1..n)
    <3>2. N \in [0..n -> S]
      BY <1>2
    <3> HIDE DEF S
    <3>3. N[e] \in S
      BY <1>1, <3>2
    <3> QED BY <3>1, <3>3 DEF S
  <2>3. N[e + 1] = N[e] \o own
    BY <1>2, <2>1
  <2>4. own \in Seq(1..n) /\ Len(own) = counts[e + 1] /\ \A j \in 1..counts[e + 1] : own[j] = e + 1
    BY <1>7, <2>1
  <2> HIDE DEF own
  <2>5. Len(N[e]) = T[e]
    BY <1>4
  <2>6. Len(N[e + 1]) = T[e + 1]
    <3> DEFINE a == N[e]
    <3>1. Len(a \o own) = Len(a) + Len(own)
      <4>1. a \in Seq(1..n) /\ own \in Seq(1..n)
        BY <2>2, <2>4
      <4> HIDE DEF a
      <4> QED BY <4>1
    <3> QED BY <2>2, <2>3, <2>4, <2>5, <3>1
  <2>7. \A j \in 1..T[e + 1] : N[e + 1][j] = IF j <= T[e] THEN N[e][j] ELSE e + 1
    <3> SUFFICES ASSUME NEW j \in 1..T[e + 1]
                 PROVE  N[e + 1][j] = IF j <= T[e] THEN N[e][j] ELSE e + 1
      OBVIOUS
    <3>1. N[e + 1][j] = IF j <= Len(N[e]) THEN N[e][j] ELSE own[j - Len(N[e])]
      <4> DEFINE a == N[e]
      <4>1. a \in Seq(1..n) /\ own \in Seq(1..n) /\ j \in 1..(Len(a) + Len(own))
        BY <2>2, <2>4, <2>5
      <4> HIDE DEF a
      <4>2. (a \o own)[j] = IF j <= Len(a) THEN a[j] ELSE own[j - Len(a)]
        BY <4>1
      <4> QED BY <2>3, <4>2 DEF a
    <3>2. j > T[e] => own[j - T[e]] = e + 1
      <4>1. j > T[e] => j - T[e] \in 1..counts[e + 1]
        BY <2>1, <2>2
      <4> QED BY <2>4, <4>1
    <3> QED BY <2>2, <2>5, <3>1, <3>2
  <2>8. \A j \in 1..T[e] : N[e][j] \in 1..e
    BY <1>4
  <2>9. ASSUME NEW j \in 1..T[e + 1] PROVE N[e + 1][j] \in 1..(e + 1)
    <3>1. N[e + 1][j] = IF j <= T[e] THEN N[e][j] ELSE e + 1
      BY <2>7
    <3>2. j <= T[e] => N[e][j] \in 1..e
      BY <2>2, <2>8
    <3> QED BY <3>1, <3>2
  <2>10. ASSUME NEW d \in 1..(e + 1), NEW j \in 1..T[e + 1]
         PROVE  N[e + 1][j] = d <=> (T[d - 1] < j /\ j <= T[d])
    <3>1. T[d] \in Nat /\ T[d - 1] \in Nat
      BY <1>1
    <3>2. CASE d = e + 1
      <4>1. N[e + 1][j] = IF j <= T[e] THEN N[e][j] ELSE e + 1
        BY <2>7
      <4>2. j <= T[e] => N[e][j] \in 1..e
        BY <2>2, <2>8
      <4>3. T[d] = T[e + 1] /\ T[d - 1] = T[e]
        BY <3>2, <2>1
      <4> QED BY <2>2, <3>2, <4>1, <4>2, <4>3
    <3>3. CASE d \in 1..e /\ j <= T[e]
      <4>1. N[e][j] = d <=> (T[d - 1] < j /\ j <= T[d])
        BY <1>4, <3>3, <2>2
      <4> QED BY <4>1, <2>7, <3>3
    <3>4. CASE d \in 1..e /\ j > T[e]
      <4>1. T[d] <= T[e]
        BY <3>4, <1>1, <1>6
      <4>2. N[e + 1][j] = e + 1
        BY <2>7, <3>4, <2>2
      <4> QED BY <4>1, <4>2, <3>1, <3>4, <2>2, SMTT(30)
    <3> QED BY <3>2, <3>3, <3>4, <2>2
  <2>11. e + 1 \in 0..n
    BY <2>1
  <2>12. Right(e + 1)
    BY <2>6, <2>9, <2>10
  <2> HIDE DEF Right
  <2> QED BY <2>11, <2>12
<1> HIDE DEF P
<1>5. c \in P
  BY <1>0, <1>1, <1>3, <1>4, Induction
<1> QED
  BY <1>5 DEF P, N, T

(* StreamOwners: the owner of the j-th stream, counted from 1, is the owner *)
(* of stream j - 1 by the totals.                                           *)
LEMMA OwnersAre ==
    ASSUME NEW counts \in Seq(Nat)
    PROVE  LET n == Len(counts)
               T == StreamTotal(counts)
               owners == StreamOwners(counts)
           IN  /\ T \in [0..n -> Nat] /\ T[0] = 0
               /\ \A c \in 1..n : T[c] = T[c - 1] + counts[c]
               /\ owners \in Seq(1..n) /\ Len(owners) = T[n]
               /\ \A j \in 1..T[n] : Owner(counts, j - 1) = owners[j]
               /\ \A j \in 1..T[n], c \in 1..n : owners[j] = c <=> (T[c - 1] < j /\ j <= T[c])
<1> DEFINE n == Len(counts)
           T == StreamTotal(counts)
           owners == StreamOwners(counts)
<1>1. n \in Nat /\ T \in [0..n -> Nat] /\ T[0] = 0 /\ \A c \in 1..n : T[c] = T[c - 1] + counts[c]
  BY StreamTotalStep
<1>2. owners \in Seq(1..n)
  BY <1>1, NumberingStep DEF StreamOwners
<1>3. /\ Len(owners) = T[n]
      /\ \A c \in 1..n : \A j \in 1..T[n] : owners[j] = c <=> (T[c - 1] < j /\ j <= T[c])
      /\ \A j \in 1..T[n] : owners[j] \in 1..n
  <2>1. n \in 0..n
    BY <1>1
  <2> QED BY <2>1, NumberingIs DEF StreamOwners
<1>4. ASSUME NEW j \in 1..T[n] PROVE Owner(counts, j - 1) = owners[j]
  <2>1. T[n] \in Nat
    BY <1>1
  <2>2. \A c \in 1..n : (T[c - 1] <= j - 1 /\ j - 1 < T[c]) <=> owners[j] = c
    <3> SUFFICES ASSUME NEW c \in 1..n
                 PROVE  (T[c - 1] <= j - 1 /\ j - 1 < T[c]) <=> owners[j] = c
      OBVIOUS
    <3>1. T[c - 1] \in Nat /\ T[c] \in Nat
      BY <1>1, SMTT(30)
    <3>2. owners[j] = c <=> (T[c - 1] < j /\ j <= T[c])
      BY <1>3
    <3> HIDE DEF owners, T, n
    <3> QED BY <2>1, <3>1, <3>2
  <2>3. owners[j] \in 1..n
    BY <1>3
  <2>4. Owner(counts, j - 1) = CHOOSE c \in 1..n : T[c - 1] <= j - 1 /\ j - 1 < T[c]
    BY Zenon DEF Owner
  <2> HIDE DEF owners, T, n
  <2> QED BY <2>2, <2>3, <2>4
<1> QED
  BY <1>1, <1>2, <1>3, <1>4

\* s has the chosen numbers up to m, lowest first.
Listing(s, m, chosen) ==
    /\ s \in Seq(1..m)
    /\ \A c \in 1..m : c \in chosen <=> \E j \in 1..Len(s) : s[j] = c
    /\ \A i, j \in 1..Len(s) : i < j => s[i] < s[j]

(* What is kept is what is chosen, lowest first.                            *)
LEMMA AscendingIs ==
    ASSUME NEW m \in Nat, NEW chosen
    PROVE  Listing(Ascending(m, chosen), m, chosen)
<1> DEFINE N == Filtering(m, chosen)
           Right(s, e) ==
               /\ \A c \in 1..e : c \in chosen => \E j \in 1..Len(s) : s[j] = c
               /\ \A j \in 1..Len(s) : s[j] \in 1..e /\ s[j] \in chosen
               /\ \A i, j \in 1..Len(s) : i < j => s[i] < s[j]
           P == {e \in 0..m : Right(N[e], e)}
           S == Seq(1..m)
<1>1. N \in [0..m -> S] /\ N[0] = <<>>
      /\ \A k \in 1..m : N[k] = IF k \in chosen THEN Append(N[k - 1], k) ELSE N[k - 1]
  BY FilteringStep
<1> HIDE DEF N
<1>2. 0 \in P
  <2>1. Right(<<>>, 0)
    OBVIOUS
  <2> HIDE DEF Right, S
  <2> QED BY <1>1, <2>1
<1>3. ASSUME NEW e \in 0..(m - 1), e \in P PROVE e + 1 \in P
  <2> DEFINE a == N[e]
             b == N[e + 1]
  <2>1. e + 1 \in 1..m /\ (e + 1) - 1 = e
    OBVIOUS
  <2>2. b = IF e + 1 \in chosen THEN Append(a, e + 1) ELSE a
    <3> HIDE DEF S
    <3> QED BY <1>1, <2>1
  <2>3. a \in Seq(1..m)
    <3>1. a \in S
      <4> HIDE DEF S
      <4> QED BY <1>1
    <3> QED BY <3>1
  <2>4. Right(a, e)
    BY <1>3
  <2> HIDE DEF a, b
  <2>5. Right(b, e + 1)
    <3>1. CASE e + 1 \notin chosen
      BY <2>1, <2>2, <2>3, <2>4, <3>1
    <3>2. CASE e + 1 \in chosen
      <4>1. /\ Len(b) = Len(a) + 1 /\ b[Len(b)] = e + 1 /\ Len(a) \in Nat
            /\ \A j \in 1..Len(a) : b[j] = a[j]
        BY <2>1, <2>2, <2>3, <3>2
      <4>2. ASSUME NEW c \in 1..(e + 1), c \in chosen PROVE \E j \in 1..Len(b) : b[j] = c
        <5>1. CASE c = e + 1
          BY <4>1, <5>1
        <5>2. CASE c \in 1..e
          <6>1. PICK j \in 1..Len(a) : a[j] = c
            BY <2>4, <4>2, <5>2
          <6> QED BY <4>1, <6>1
        <5> QED BY <5>1, <5>2
      <4>3. ASSUME NEW j \in 1..Len(b) PROVE b[j] \in 1..(e + 1) /\ b[j] \in chosen
        BY <2>4, <3>2, <4>1
      <4>4. ASSUME NEW i \in 1..Len(b), NEW j \in 1..Len(b), i < j PROVE b[i] < b[j]
        <5>1. i \in 1..Len(a) /\ b[i] = a[i] /\ a[i] \in 1..e
          BY <2>4, <4>1, <4>4
        <5>2. CASE j = Len(b)
          BY <4>1, <5>1, <5>2
        <5>3. CASE j \in 1..Len(a)
          BY <2>4, <4>1, <4>4, <5>1, <5>3
        <5> QED BY <4>1, <5>2, <5>3
      <4> QED BY <4>2, <4>3, <4>4
    <3> QED BY <3>1, <3>2
  <2> HIDE DEF Right
  <2> QED BY <2>1, <2>5 DEF b
<1> HIDE DEF P
<1>4. m \in P
  BY <1>2, <1>3, Induction
<1>5. Right(N[m], m) /\ N[m] \in Seq(1..m)
  <2>1. N[m] \in S
    <3> HIDE DEF S
    <3> QED BY <1>1
  <2> QED BY <1>4, <2>1 DEF P
<1> QED
  <2> DEFINE s == N[m]
  <2>1. s \in Seq(1..m) /\ Right(s, m)
    BY <1>5
  <2> HIDE DEF s
  <2>2. /\ s \in Seq(1..m)
        /\ \A c \in 1..m : c \in chosen <=> \E j \in 1..Len(s) : s[j] = c
        /\ \A i, j \in 1..Len(s) : i < j => s[i] < s[j]
    BY <2>1
  <2> QED BY <2>2 DEF s, N, Ascending, Listing
-----------------------------------------------------------------------------
(***************************************************************************)
(* Bindings.                                                               *)
(***************************************************************************)
BindingsType(f) ==
    LET n == Len(f.coders)
        inputs == StreamOwners(Ins(f.coders))
        outputs == StreamOwners(Outs(f.coders))
    IN  [ok       : BOOLEAN,
         inputs   : {inputs},
         outputs  : {outputs},
         source   : [1..Len(inputs) -> 0..Len(outputs)],
         fed      : SUBSET (1..Len(outputs)),
         edges    : [1..n -> Seq(1..n)],
         indegree : [1..n -> Nat]]

\* The checks of Bindings::bind.
Bindable(b, pair) ==
    /\ b.ok
    /\ pair[1] + 1 \in DOMAIN b.inputs
    /\ pair[2] + 1 \in DOMAIN b.outputs
    /\ b.source[pair[1] + 1] = 0
    /\ pair[2] + 1 \notin b.fed
    /\ b.inputs[pair[1] + 1] # b.outputs[pair[2] + 1]

(* Coders have numbers of streams.                                         *)
LEMMA CountsType ==
    ASSUME NEW f \in Folder
    PROVE  /\ Ins(f.coders) \in Seq(Nat) /\ Len(Ins(f.coders)) = Len(f.coders)
           /\ Outs(f.coders) \in Seq(Nat) /\ Len(Outs(f.coders)) = Len(f.coders)
           /\ Len(f.coders) \in Nat
           /\ \A c \in 1..Len(f.coders) :
                 /\ Ins(f.coders)[c] = f.coders[c].ins /\ Outs(f.coders)[c] = f.coders[c].outs
                 /\ f.coders[c] \in Coder
<1>1. f.coders \in Seq(Coder)
  BY DEF Folder
<1>2. \A c \in 1..Len(f.coders) : f.coders[c] \in Coder
  <2> HIDE DEF Coder
  <2> QED BY <1>1
<1>3. \A c \in 1..Len(f.coders) : f.coders[c].ins \in Nat /\ f.coders[c].outs \in Nat
  BY <1>2 DEF Coder
<1>4. Len(f.coders) \in Nat
  BY <1>1
<1> QED
  BY <1>2, <1>3, <1>4 DEF Ins, Outs

(* Every stream belongs to a coder.                                        *)
LEMMA OwnersType ==
    ASSUME NEW f \in Folder
    PROVE  LET n == Len(f.coders)
               inputs == StreamOwners(Ins(f.coders))
               outputs == StreamOwners(Outs(f.coders))
           IN  /\ n \in Nat
               /\ inputs \in Seq(1..n) /\ Len(inputs) = StreamTotal(Ins(f.coders))[n]
               /\ outputs \in Seq(1..n) /\ Len(outputs) = StreamTotal(Outs(f.coders))[n]
  BY CountsType, OwnersAre

\* What binding input i to output o leads to.
BindEffect(f, b, new, i, o) ==
    /\ new \in BindingsType(f) /\ new.ok
    /\ new.inputs = b.inputs /\ new.outputs = b.outputs
    /\ i \in 1..Len(b.inputs) /\ o \in 1..Len(b.outputs)
    /\ b.source[i] = 0 /\ o \notin b.fed /\ b.inputs[i] # b.outputs[o]
    /\ b.inputs[i] \in 1..Len(f.coders) /\ b.outputs[o] \in 1..Len(f.coders)
    /\ new.source = [b.source EXCEPT ![i] = o]
    /\ new.fed = b.fed \cup {o}
    /\ new.edges = [b.edges EXCEPT ![b.outputs[o]] = Append(@, b.inputs[i])]
    /\ new.indegree = [b.indegree EXCEPT ![b.inputs[i]] = @ + 1]

(* Binding a pair that may be bound.                                       *)
LEMMA BindGood ==
    ASSUME NEW f \in Folder, NEW b \in BindingsType(f), NEW pair \in Nat \X Nat,
           Bindable(b, pair)
    PROVE  BindEffect(f, b, Bind(b, pair), pair[1] + 1, pair[2] + 1)
<1> DEFINE i == pair[1] + 1
           o == pair[2] + 1
           n == Len(f.coders)
           inputs == StreamOwners(Ins(f.coders))
           outputs == StreamOwners(Outs(f.coders))
           source == [b.source EXCEPT ![i] = o]
           edges == [b.edges EXCEPT ![b.outputs[o]] = Append(@, b.inputs[i])]
           indegree == [b.indegree EXCEPT ![b.inputs[i]] = @ + 1]
<1>1. Bind(b, pair) = [b EXCEPT !.source = source, !.fed = b.fed \cup {o},
                                !.edges = edges, !.indegree = indegree]
  BY Zenon DEF Bind, Bindable
<1>2. /\ n \in Nat /\ inputs \in Seq(1..n) /\ outputs \in Seq(1..n)
      /\ b.inputs = inputs /\ b.outputs = outputs
      /\ i \in 1..Len(inputs) /\ o \in 1..Len(outputs)
  BY OwnersType, SMTT(30) DEF Bindable, BindingsType
<1>a. b.source \in [1..Len(inputs) -> 0..Len(outputs)]
  BY DEF BindingsType
<1>b. b.fed \in SUBSET (1..Len(outputs))
  BY DEF BindingsType
<1>c. b.edges \in [1..n -> Seq(1..n)]
  BY DEF BindingsType
<1>d. b.indegree \in [1..n -> Nat]
  BY DEF BindingsType
<1>e. b.ok = TRUE
  BY DEF Bindable, BindingsType
<1> HIDE DEF n, inputs, outputs
<1>3. inputs[i] \in 1..n /\ outputs[o] \in 1..n /\ Len(inputs) \in Nat /\ Len(outputs) \in Nat
  BY <1>2, SMTT(30)
<1>4. source \in [1..Len(inputs) -> 0..Len(outputs)]
  BY <1>a, <1>2, <1>3, SMTT(30)
<1>5. b.fed \cup {o} \in SUBSET (1..Len(outputs))
  BY <1>b, <1>2
<1>6. edges \in [1..n -> Seq(1..n)]
  <2>1. b.edges[outputs[o]] \in Seq(1..n)
    BY <1>c, <1>3
  <2>2. Append(b.edges[outputs[o]], inputs[i]) \in Seq(1..n)
    BY <1>3, <2>1
  <2> QED BY <1>c, <1>2, <2>2
<1>7. indegree \in [1..n -> Nat]
  <2>0. inputs[i] \in 1..n
    BY <1>3
  <2>1. b.indegree[inputs[i]] \in Nat
    BY <1>d, <2>0
  <2>2. b.inputs = inputs
    BY <1>2
  <2> QED BY <1>d, <2>0, <2>1, <2>2
<1>8. Bind(b, pair) = [ok |-> TRUE, inputs |-> inputs, outputs |-> outputs, source |-> source,
                       fed |-> b.fed \cup {o}, edges |-> edges, indegree |-> indegree]
  <2> HIDE DEF source, edges, indegree
  <2> QED BY <1>e, <1>1, <1>2 DEF BindingsType
<1>9. Bind(b, pair) \in BindingsType(f)
  <2> HIDE DEF source, edges, indegree
  <2> QED BY <1>4, <1>5, <1>6, <1>7, <1>8 DEF BindingsType, n, inputs, outputs
<1>10. /\ Bind(b, pair).ok
       /\ Bind(b, pair).inputs = b.inputs /\ Bind(b, pair).outputs = b.outputs
       /\ Bind(b, pair).source = [b.source EXCEPT ![i] = o]
       /\ Bind(b, pair).fed = b.fed \cup {o}
  BY <1>2, <1>8
<1>11. /\ Bind(b, pair).edges = [b.edges EXCEPT ![b.outputs[o]] = Append(@, b.inputs[i])]
       /\ Bind(b, pair).indegree = [b.indegree EXCEPT ![b.inputs[i]] = @ + 1]
  <2>1. Bind(b, pair).edges = edges /\ Bind(b, pair).indegree = indegree
    <3> HIDE DEF source, edges, indegree
    <3> QED BY <1>8
  <2> QED BY <2>1, Zenon
<1>12. /\ i \in 1..Len(b.inputs) /\ o \in 1..Len(b.outputs)
       /\ b.inputs[i] \in 1..n /\ b.outputs[o] \in 1..n
  <2>1. b.inputs = inputs /\ b.outputs = outputs
    BY <1>2
  <2> QED BY <1>2, <1>3, <2>1
<1>13. b.source[i] = 0 /\ o \notin b.fed /\ b.inputs[i] # b.outputs[o]
  BY DEF Bindable
<1> QED
  BY <1>9, <1>10, <1>11, <1>12, <1>13, Zenon DEF BindEffect, n

(* Binding any other pair.                                                 *)
LEMMA BindBad ==
    ASSUME NEW f \in Folder, NEW b \in BindingsType(f), NEW pair, ~ Bindable(b, pair)
    PROVE  Bind(b, pair) \in BindingsType(f) /\ Bind(b, pair).ok = FALSE
<1>1. Bind(b, pair) = [b EXCEPT !.ok = FALSE]
  BY Zenon DEF Bind, Bindable
<1> QED
  BY <1>1 DEF BindingsType

(* Pairs are pairs of numbers.                                             *)
LEMMA PairsType ==
    ASSUME NEW f \in Folder
    PROVE  Len(f.pairs) \in Nat /\ \A k \in 1..Len(f.pairs) :
               /\ f.pairs[k] \in Nat \X Nat
               /\ f.pairs[k][1] \in Nat /\ f.pairs[k][2] \in Nat
<1>1. f.pairs \in Seq(Nat \X Nat)
  BY DEF Folder
<1>2. Len(f.pairs) \in Nat /\ \A k \in 1..Len(f.pairs) : f.pairs[k] \in Nat \X Nat
  BY <1>1
<1> QED
  BY <1>2

\* The streams the j-th pair binds, counted from 1.
In(f, j)  == f.pairs[j][1] + 1
Out(f, j) == f.pairs[j][2] + 1

(* The effect of the j-th pair.                                            *)
LEMMA BindAt ==
    ASSUME NEW f \in Folder, NEW b \in BindingsType(f), NEW k \in 1..Len(f.pairs),
           Bindable(b, f.pairs[k])
    PROVE  BindEffect(f, b, Bind(b, f.pairs[k]), In(f, k), Out(f, k))
<1>1. f.pairs[k] \in Nat \X Nat
  BY PairsType
<1> QED
  BY <1>1, BindGood, Zenon DEF In, Out

(* No pair is bound at first.                                              *)
LEMMA NewBindingsType ==
    ASSUME NEW f \in Folder
    PROVE  NewBindings(f) \in BindingsType(f)
<1>1. <<>> \in Seq(1..Len(f.coders))
  OBVIOUS
<1>2. Len(StreamOwners(Outs(f.coders))) \in Nat /\ Len(StreamOwners(Ins(f.coders))) \in Nat
  BY OwnersType
<1>3. [c \in 1..Len(f.coders) |-> <<>>] \in [1..Len(f.coders) -> Seq(1..Len(f.coders))]
  BY <1>1
<1>4. (Len(f.pairs) = Len(StreamOwners(Outs(f.coders))) - 1) \in BOOLEAN
  OBVIOUS
<1> QED
  BY <1>2, <1>3, <1>4 DEF NewBindings, BindingsType

(* The recursion that Bindings is taken from.                              *)
LEMMA BindingStep ==
    ASSUME NEW f \in Folder
    PROVE  /\ Binding(f) \in [0..Len(f.pairs) -> BindingsType(f)]
           /\ Binding(f)[0] = NewBindings(f)
           /\ \A k \in 1..Len(f.pairs) :
                 Binding(f)[k] = Bind(Binding(f)[k - 1], f.pairs[k])
<1> DEFINE n == Len(f.pairs)
           S == BindingsType(f)
           x == NewBindings(f)
           Step(s, k) == Bind(s, f.pairs[k])
           F == [k \in 1..n |-> [s \in S |-> Step(s, k)]]
           N == Binding(f)
<1>1. n \in Nat
  BY PairsType
<1>2. ASSUME NEW s \in S, NEW k \in 1..n PROVE Step(s, k) \in S
  <2>1. f.pairs[k] \in Nat \X Nat
    BY PairsType
  <2>2. CASE Bindable(s, f.pairs[k])
    BY <2>2, BindAt DEF BindEffect
  <2>3. CASE ~ Bindable(s, f.pairs[k])
    BY <2>3, BindBad
  <2> QED BY <2>2, <2>3
<1>3. x \in S
  BY NewBindingsType
<1>4. N = CHOOSE g : g = [k \in 0..n |-> IF k = 0 THEN x ELSE Step(g[k - 1], k)]
  BY Zenon DEF Binding
<1>5. QED
  <2> HIDE DEF S, n, N, x, Step
  <2>1. F \in [1..n -> [S -> S]]
    BY <1>2
  <2>2. PICK g : Iterates(g, S, n, x, F)
    <3> HIDE DEF F
    <3> QED BY <1>1, <1>3, <2>1, Iteration, Zenon
  <2>3. g \in [0..n -> S] /\ g[0] = x /\ \A k \in 1..n : g[k] = F[k][g[k - 1]]
    BY <2>2 DEF Iterates
  <2>4. ASSUME NEW k \in 1..n PROVE F[k][g[k - 1]] = Step(g[k - 1], k)
    <3>1. g[k - 1] \in S
      BY <1>1, <2>3
    <3> QED BY <3>1
  <2>5. \A k \in 0..n : g[k] = IF k = 0 THEN x ELSE Step(g[k - 1], k)
    <3> HIDE DEF F
    <3> QED BY <1>1, <2>3, <2>4
  <2>6. g = [k \in 0..n |-> IF k = 0 THEN x ELSE Step(g[k - 1], k)]
    BY <2>3, <2>5
  <2> DEFINE B == [k \in 0..n |-> IF k = 0 THEN x ELSE Step(N[k - 1], k)]
  <2>7. N = B
    BY <1>4, <2>6, Zenon
  <2>8. B[0] = x /\ \A k \in 1..n : B[k] = Step(N[k - 1], k)
    BY <1>1
  <2>9. N = [k \in 0..n |-> N[k]]
    BY <2>7
  <2> HIDE DEF B
  <2>10. N[0] = x /\ \A k \in 1..n : N[k] = Step(N[k - 1], k)
    BY <2>7, <2>8, Zenon
  <2> DEFINE P == {k \in 0..n : N[k] \in S}
  <2>11. 0 \in P
    BY <1>1, <1>3, <2>10
  <2>12. ASSUME NEW k \in 0..(n - 1), k \in P PROVE k + 1 \in P
    <3>1. k + 1 \in 1..n /\ (k + 1) - 1 = k
      BY <1>1
    <3>2. N[k + 1] = Step(N[k], k + 1) /\ N[k] \in S
      BY <2>10, <2>12, <3>1
    <3>3. N[k + 1] \in S
      BY <1>2, <3>1, <3>2
    <3> QED BY <1>1, <3>1, <3>3
  <2>13. \A k \in 0..n : k \in P
    <3> HIDE DEF P
    <3> QED BY <1>1, <2>11, <2>12, Induction
  <2>14. N \in [0..n -> S]
    BY <2>9, <2>13
  <2> QED BY <2>10, <2>14 DEF S, n, N, x, Step

\* The first k pairs may all be bound.
GoodPairs(f, k) ==
    LET inputs == StreamOwners(Ins(f.coders))
        outputs == StreamOwners(Outs(f.coders))
    IN  /\ Len(f.pairs) = Len(outputs) - 1
        /\ \A j \in 1..k : /\ In(f, j) \in 1..Len(inputs)
                           /\ Out(f, j) \in 1..Len(outputs)
                           /\ inputs[In(f, j)] # outputs[Out(f, j)]
        /\ \A i, j \in 1..k : i # j => In(f, i) # In(f, j) /\ Out(f, i) # Out(f, j)

SourceRight(f, b, k) ==
    \A i \in 1..Len(b.inputs), o \in 1..Len(b.outputs) :
        b.source[i] = o <=> \E j \in 1..k : In(f, j) = i /\ Out(f, j) = o

FedRight(f, b, k) ==
    /\ \A o \in 1..Len(b.outputs) : o \in b.fed <=> \E j \in 1..k : Out(f, j) = o
    /\ IsFiniteSet(b.fed) /\ Cardinality(b.fed) = k

EdgesRight(f, b, k) ==
    \A c, d \in 1..Len(f.coders) :
        (\E x \in 1..Len(b.edges[c]) : b.edges[c][x] = d)
            <=> \E j \in 1..k : b.outputs[Out(f, j)] = c /\ b.inputs[In(f, j)] = d

\* The places where coder d is listed as a reader.
Slots(edges, n, d) ==
    {p \in (1..n) \X Nat : p[2] \in 1..Len(edges[p[1]]) /\ edges[p[1]][p[2]] = d}

DegreeRight(f, b) ==
    \A d \in 1..Len(f.coders) :
        LET S == Slots(b.edges, Len(f.coders), d)
        IN  IsFiniteSet(S) /\ Cardinality(S) = b.indegree[d]

(* The fields of a value of BindingsType, with what is known of the owners. *)
LEMMA BindingsFields ==
    ASSUME NEW f \in Folder, NEW b \in BindingsType(f)
    PROVE  LET n == Len(f.coders)
           IN  /\ n \in Nat
               /\ b.inputs = StreamOwners(Ins(f.coders)) /\ b.inputs \in Seq(1..n)
               /\ b.outputs = StreamOwners(Outs(f.coders)) /\ b.outputs \in Seq(1..n)
               /\ Len(b.inputs) \in Nat /\ Len(b.outputs) \in Nat
               /\ \A i \in 1..Len(b.inputs) : b.inputs[i] \in 1..n
               /\ \A o \in 1..Len(b.outputs) : b.outputs[o] \in 1..n
               /\ b.source \in [1..Len(b.inputs) -> 0..Len(b.outputs)]
               /\ b.fed \in SUBSET (1..Len(b.outputs))
               /\ b.edges \in [1..n -> Seq(1..n)]
               /\ b.indegree \in [1..n -> Nat]
               /\ b.ok \in BOOLEAN
<1> DEFINE n == Len(f.coders)
<1>1. /\ n \in Nat
      /\ b.inputs = StreamOwners(Ins(f.coders)) /\ b.inputs \in Seq(1..n)
      /\ b.outputs = StreamOwners(Outs(f.coders)) /\ b.outputs \in Seq(1..n)
  BY OwnersType DEF BindingsType
<1>2. /\ b.source \in [1..Len(b.inputs) -> 0..Len(b.outputs)]
      /\ b.fed \in SUBSET (1..Len(b.outputs))
      /\ b.edges \in [1..n -> Seq(1..n)]
      /\ b.indegree \in [1..n -> Nat]
      /\ b.ok \in BOOLEAN
  BY DEF BindingsType
<1> HIDE DEF n
<1>3. Len(b.inputs) \in Nat /\ \A i \in 1..Len(b.inputs) : b.inputs[i] \in 1..n
  BY <1>1
<1>4. Len(b.outputs) \in Nat /\ \A o \in 1..Len(b.outputs) : b.outputs[o] \in 1..n
  BY <1>1
<1> QED
  BY <1>1, <1>2, <1>3, <1>4 DEF n

(* A pair more: the sources.                                               *)
LEMMA SourceStep ==
    ASSUME NEW f \in Folder, NEW b \in BindingsType(f),
           NEW k \in 0..(Len(f.pairs) - 1), SourceRight(f, b, k),
           Bindable(b, f.pairs[k + 1])
    PROVE  SourceRight(f, Bind(b, f.pairs[k + 1]), k + 1)
<1> DEFINE new == Bind(b, f.pairs[k + 1])
           i1 == In(f, k + 1)
           o1 == Out(f, k + 1)
<1>1. k + 1 \in 1..Len(f.pairs) /\ k \in Nat
  BY PairsType
<1>0. BindEffect(f, b, new, In(f, k + 1), Out(f, k + 1))
  BY <1>1, BindAt
<1> HIDE DEF new
<1>3. new.source = [b.source EXCEPT ![i1] = o1]
  BY <1>0 DEF BindEffect
<1>4. new.inputs = b.inputs /\ new.outputs = b.outputs
  BY <1>0 DEF BindEffect
<1>5. b.source \in [1..Len(b.inputs) -> 0..Len(b.outputs)]
  BY BindingsFields
<1>6. i1 \in 1..Len(b.inputs) /\ o1 \in 1..Len(b.outputs) /\ b.source[i1] = 0
  BY <1>0 DEF BindEffect
<1> HIDE DEF i1, o1
<1>7. ASSUME NEW i \in 1..Len(b.inputs), NEW o \in 1..Len(b.outputs)
      PROVE  new.source[i] = o <=> \E j \in 1..(k + 1) : In(f, j) = i /\ Out(f, j) = o
  <2>1. b.source[i] = o <=> \E j \in 1..k : In(f, j) = i /\ Out(f, j) = o
    BY DEF SourceRight
  <2>2. CASE i = i1
    <3>1. new.source[i] = o1
      BY <1>3, <1>5, <1>6, <2>2
    <3>2. b.source[i] # o
      BY <1>6, <2>2
    <3> QED BY <1>1, <2>1, <2>2, <3>1, <3>2 DEF i1, o1
  <2>3. CASE i # i1
    <3>1. new.source[i] = b.source[i]
      BY <1>3, <1>5, <1>6, <2>3
    <3> QED BY <1>1, <2>1, <2>3, <3>1 DEF i1, o1
  <2> QED BY <2>2, <2>3
<1> QED
  BY <1>4, <1>7 DEF SourceRight, new

(* A pair more: the outputs that are fed.                                  *)
LEMMA FedStep ==
    ASSUME NEW f \in Folder, NEW b \in BindingsType(f),
           NEW k \in 0..(Len(f.pairs) - 1), FedRight(f, b, k),
           Bindable(b, f.pairs[k + 1])
    PROVE  FedRight(f, Bind(b, f.pairs[k + 1]), k + 1)
<1> DEFINE new == Bind(b, f.pairs[k + 1])
           o1 == Out(f, k + 1)
<1>1. k + 1 \in 1..Len(f.pairs) /\ k \in Nat
  BY PairsType
<1>0. BindEffect(f, b, new, In(f, k + 1), Out(f, k + 1))
  BY <1>1, BindAt
<1> HIDE DEF new
<1>3. new.fed = b.fed \cup {o1} /\ new.outputs = b.outputs /\ o1 \notin b.fed
  BY <1>0 DEF BindEffect
<1>6. IsFiniteSet(b.fed) /\ Cardinality(b.fed) = k
  BY DEF FedRight
<1> HIDE DEF o1
<1>7. IsFiniteSet(new.fed) /\ Cardinality(new.fed) = k + 1
  <2>1. IsFiniteSet(b.fed \cup {o1}) /\ Cardinality(b.fed \cup {o1}) = Cardinality(b.fed) + 1
    BY <1>3, <1>6, FS_AddElement
  <2> QED BY <1>3, <1>6, <2>1
<1>8. ASSUME NEW o \in 1..Len(b.outputs)
      PROVE  o \in new.fed <=> \E j \in 1..(k + 1) : Out(f, j) = o
  <2>1. o \in b.fed <=> \E j \in 1..k : Out(f, j) = o
    BY DEF FedRight
  <2> QED BY <1>1, <1>3, <2>1 DEF o1
<1> QED
  BY <1>3, <1>7, <1>8 DEF FedRight, new

(* A pair more: the edges between coders.                                  *)
LEMMA EdgesStep ==
    ASSUME NEW f \in Folder, NEW b \in BindingsType(f),
           NEW k \in 0..(Len(f.pairs) - 1), EdgesRight(f, b, k),
           Bindable(b, f.pairs[k + 1])
    PROVE  EdgesRight(f, Bind(b, f.pairs[k + 1]), k + 1)
<1> DEFINE new == Bind(b, f.pairs[k + 1])
           n == Len(f.coders)
           from == b.outputs[Out(f, k + 1)]
           to == b.inputs[In(f, k + 1)]
<1>1. k + 1 \in 1..Len(f.pairs) /\ k \in Nat
  BY PairsType
<1>0. BindEffect(f, b, new, In(f, k + 1), Out(f, k + 1))
  BY <1>1, BindAt
<1> HIDE DEF new
<1>2. /\ new.edges = [b.edges EXCEPT ![from] = Append(@, to)]
      /\ new.inputs = b.inputs /\ new.outputs = b.outputs
      /\ from \in 1..n /\ to \in 1..n
  BY <1>0 DEF BindEffect
<1>3. b.edges \in [1..n -> Seq(1..n)]
  BY BindingsFields
<1>4. ASSUME NEW c \in 1..n, NEW d \in 1..n
      PROVE  (\E x \in 1..Len(new.edges[c]) : new.edges[c][x] = d)
                 <=> \E j \in 1..(k + 1) : b.outputs[Out(f, j)] = c /\ b.inputs[In(f, j)] = d
  <2>1. (\E x \in 1..Len(b.edges[c]) : b.edges[c][x] = d)
            <=> \E j \in 1..k : b.outputs[Out(f, j)] = c /\ b.inputs[In(f, j)] = d
    BY DEF EdgesRight
  <2>2. (\E j \in 1..(k + 1) : b.outputs[Out(f, j)] = c /\ b.inputs[In(f, j)] = d)
            <=> \/ \E j \in 1..k : b.outputs[Out(f, j)] = c /\ b.inputs[In(f, j)] = d
                \/ from = c /\ to = d
    BY <1>1
  <2> HIDE DEF from, to, n
  <2>3. b.edges[c] \in Seq(1..n)
    BY <1>3
  <2>4. CASE c = from
    <3> DEFINE s == b.edges[c]
    <3>1. new.edges[c] = Append(s, to)
      BY <1>2, <1>3, <2>4
    <3>2. s \in Seq(1..n)
      BY <2>3
    <3> HIDE DEF s
    <3>3. (\E x \in 1..Len(Append(s, to)) : Append(s, to)[x] = d)
              <=> (\E x \in 1..Len(s) : s[x] = d) \/ to = d
      <4>1. /\ Len(Append(s, to)) = Len(s) + 1 /\ Len(s) \in Nat
            /\ Append(s, to)[Len(s) + 1] = to
            /\ \A x \in 1..Len(s) : Append(s, to)[x] = s[x]
        BY <3>2
      <4> QED BY <4>1
    <3> QED BY <2>1, <2>2, <2>4, <3>1, <3>3 DEF s
  <2>5. CASE c # from
    <3>1. new.edges[c] = b.edges[c]
      BY <1>2, <1>3, <2>5
    <3> QED BY <2>1, <2>2, <2>5, <3>1
  <2> QED BY <2>4, <2>5
<1>5. new.inputs = b.inputs /\ new.outputs = b.outputs
  BY <1>2
<1>6. EdgesRight(f, new, k + 1)
  BY <1>4, <1>5 DEF EdgesRight
<1> QED
  BY <1>6 DEF new

(* A pair more: the number of edges into a coder.                          *)
LEMMA DegreeStep ==
    ASSUME NEW f \in Folder, NEW b \in BindingsType(f),
           NEW k \in 0..(Len(f.pairs) - 1), DegreeRight(f, b),
           Bindable(b, f.pairs[k + 1])
    PROVE  DegreeRight(f, Bind(b, f.pairs[k + 1]))
<1> DEFINE new == Bind(b, f.pairs[k + 1])
           n == Len(f.coders)
           from == b.outputs[Out(f, k + 1)]
           to == b.inputs[In(f, k + 1)]
           slot == <<from, Len(b.edges[from]) + 1>>
<1>1. k + 1 \in 1..Len(f.pairs) /\ k \in Nat
  BY PairsType
<1>0. BindEffect(f, b, new, In(f, k + 1), Out(f, k + 1))
  BY <1>1, BindAt
<1> HIDE DEF new
<1>2. /\ new.edges = [b.edges EXCEPT ![from] = Append(@, to)]
      /\ new.indegree = [b.indegree EXCEPT ![to] = @ + 1]
      /\ from \in 1..n /\ to \in 1..n
  BY <1>0 DEF BindEffect
<1>3. b.edges \in [1..n -> Seq(1..n)]
  BY BindingsFields
<1>4. b.indegree \in [1..n -> Nat]
  BY BindingsFields
<1>5. \A d \in 1..n : /\ IsFiniteSet(Slots(b.edges, n, d))
                      /\ Cardinality(Slots(b.edges, n, d)) = b.indegree[d]
  BY DEF DegreeRight
<1> HIDE DEF n, from, to
<1>6. b.edges[from] \in Seq(1..n)
  BY <1>2, <1>3
<1>7. /\ new.edges[from] = Append(b.edges[from], to)
      /\ \A c \in 1..n : c # from => new.edges[c] = b.edges[c]
  BY <1>2, <1>3
<1>8. /\ Len(new.edges[from]) = Len(b.edges[from]) + 1 /\ Len(b.edges[from]) \in Nat
      /\ new.edges[from][Len(b.edges[from]) + 1] = to
      /\ \A x \in 1..Len(b.edges[from]) : new.edges[from][x] = b.edges[from][x]
  <2> DEFINE s == b.edges[from]
  <2>1. s \in Seq(1..n)
    BY <1>6
  <2> HIDE DEF s
  <2>2. /\ Len(Append(s, to)) = Len(s) + 1 /\ Len(s) \in Nat
        /\ Append(s, to)[Len(s) + 1] = to
        /\ \A x \in 1..Len(s) : Append(s, to)[x] = s[x]
    BY <2>1
  <2> QED BY <1>7, <2>2 DEF s
<1>9. ASSUME NEW d \in 1..n
      PROVE  /\ IsFiniteSet(Slots(new.edges, n, d))
             /\ Cardinality(Slots(new.edges, n, d)) = new.indegree[d]
  <2>1. ASSUME NEW c \in 1..n, NEW x \in Nat
        PROVE  (x \in 1..Len(new.edges[c]) /\ new.edges[c][x] = d)
                   <=> \/ x \in 1..Len(b.edges[c]) /\ b.edges[c][x] = d
                       \/ d = to /\ c = from /\ x = Len(b.edges[from]) + 1
    <3>1. CASE c = from
      <4> DEFINE s == b.edges[from]
                 t == new.edges[from]
      <4>1. /\ Len(t) = Len(s) + 1 /\ Len(s) \in Nat /\ t[Len(s) + 1] = to
            /\ \A y \in 1..Len(s) : t[y] = s[y]
        BY <1>8
      <4> HIDE DEF s, t
      <4>2. (x \in 1..Len(t) /\ t[x] = d)
                <=> (x \in 1..Len(s) /\ s[x] = d) \/ (d = to /\ x = Len(s) + 1)
        BY <4>1
      <4> QED BY <3>1, <4>2 DEF s, t
    <3>2. CASE c # from
      BY <1>7, <3>2
    <3> QED BY <3>1, <3>2
  <2>2. CASE d = to
    <3>1. Slots(new.edges, n, d) = Slots(b.edges, n, d) \cup {slot}
      <4>1. ASSUME NEW p \in (1..n) \X Nat
            PROVE  p \in Slots(new.edges, n, d) <=> p \in Slots(b.edges, n, d) \/ p = slot
        BY <2>1, <2>2, SMTT(30) DEF Slots
      <4>2. slot \in (1..n) \X Nat
        BY <1>2, <1>8
      <4> QED BY <4>1, <4>2 DEF Slots
    <3>2. slot \notin Slots(b.edges, n, d)
      BY <1>8 DEF Slots
    <3>3. new.indegree[d] = b.indegree[d] + 1
      BY <1>2, <1>4, <2>2
    <3> HIDE DEF slot
    <3> QED BY <1>5, <3>1, <3>2, <3>3, FS_AddElement
  <2>3. CASE d # to
    <3>1. Slots(new.edges, n, d) = Slots(b.edges, n, d)
      BY <2>1, <2>3 DEF Slots
    <3>2. new.indegree[d] = b.indegree[d]
      BY <1>2, <1>4, <2>3
    <3> QED BY <1>5, <3>1, <3>2
  <2> QED BY <2>2, <2>3
<1> QED
  BY <1>9 DEF DegreeRight, new, n

BindInv(f, b, k) ==
    /\ b.ok <=> GoodPairs(f, k)
    /\ b.ok => /\ SourceRight(f, b, k)
               /\ FedRight(f, b, k)
               /\ EdgesRight(f, b, k)
               /\ DegreeRight(f, b)

(* Nothing is bound by no pair.                                            *)
LEMMA NewBindingsRight ==
    ASSUME NEW f \in Folder
    PROVE  BindInv(f, NewBindings(f), 0)
<1> DEFINE b == NewBindings(f)
           n == Len(f.coders)
<1>1. b \in BindingsType(f)
  BY NewBindingsType
<1>2. /\ b.ok = (Len(f.pairs) = Len(StreamOwners(Outs(f.coders))) - 1)
      /\ b.source = [i \in 1..Len(b.inputs) |-> 0]
      /\ b.fed = {}
      /\ b.edges = [c \in 1..n |-> <<>>]
      /\ b.indegree = [c \in 1..n |-> 0]
  BY DEF NewBindings
<1> HIDE DEF b
<1>3. b.ok <=> GoodPairs(f, 0)
  <2>1. b.ok <=> Len(f.pairs) = Len(StreamOwners(Outs(f.coders))) - 1
    BY <1>2, Zenon
  <2>2. GoodPairs(f, 0) <=> Len(f.pairs) = Len(StreamOwners(Outs(f.coders))) - 1
    BY DEF GoodPairs
  <2> QED BY <2>1, <2>2, Zenon
<1>4. SourceRight(f, b, 0)
  BY <1>2 DEF SourceRight
<1>5. FedRight(f, b, 0)
  BY <1>2, FS_EmptySet DEF FedRight
<1>6. EdgesRight(f, b, 0)
  <2>1. \A c \in 1..n : Len(b.edges[c]) = 0
    BY <1>2
  <2> QED BY <2>1 DEF EdgesRight
<1>7. ASSUME NEW d \in 1..n
      PROVE  IsFiniteSet(Slots(b.edges, n, d)) /\ Cardinality(Slots(b.edges, n, d)) = b.indegree[d]
  <2>1. \A c \in 1..n : Len(b.edges[c]) = 0
    BY <1>2
  <2>2. Slots(b.edges, n, d) = {}
    BY <2>1 DEF Slots
  <2>3. b.indegree[d] = 0
    BY <1>2
  <2> QED BY <2>2, <2>3, FS_EmptySet
<1>8. DegreeRight(f, b)
  BY <1>7 DEF DegreeRight
<1> QED
  BY <1>3, <1>4, <1>5, <1>6, <1>8 DEF BindInv, b

(* One pair more is bound, or the folder is refused.                       *)
LEMMA BindKeepsInv ==
    ASSUME NEW f \in Folder, NEW b \in BindingsType(f),
           NEW k \in 0..(Len(f.pairs) - 1), BindInv(f, b, k)
    PROVE  BindInv(f, Bind(b, f.pairs[k + 1]), k + 1)
<1> DEFINE new == Bind(b, f.pairs[k + 1])
           i1 == In(f, k + 1)
           o1 == Out(f, k + 1)
           inputs == StreamOwners(Ins(f.coders))
           outputs == StreamOwners(Outs(f.coders))
<1>1. k + 1 \in 1..Len(f.pairs) /\ k \in Nat
  BY PairsType
<1>2. /\ b.inputs = inputs /\ b.outputs = outputs
      /\ Len(b.inputs) \in Nat /\ Len(b.outputs) \in Nat
      /\ b.source \in [1..Len(b.inputs) -> 0..Len(b.outputs)]
      /\ DOMAIN b.inputs = 1..Len(b.inputs) /\ DOMAIN b.outputs = 1..Len(b.outputs)
  BY BindingsFields
<1>3. CASE Bindable(b, f.pairs[k + 1])
  <2>1. BindEffect(f, b, new, i1, o1)
    BY <1>1, <1>3, BindAt
  <2>2. b.ok
    BY <1>3 DEF Bindable
  <2>3. SourceRight(f, b, k) /\ FedRight(f, b, k) /\ EdgesRight(f, b, k) /\ DegreeRight(f, b)
    BY <2>2 DEF BindInv
  <2>4. /\ SourceRight(f, new, k + 1) /\ FedRight(f, new, k + 1)
        /\ EdgesRight(f, new, k + 1) /\ DegreeRight(f, new)
    BY <1>3, <2>3, SourceStep, FedStep, EdgesStep, DegreeStep
  <2>5. GoodPairs(f, k)
    BY <2>2 DEF BindInv
  <2>6. /\ i1 \in 1..Len(inputs) /\ o1 \in 1..Len(outputs) /\ inputs[i1] # outputs[o1]
        /\ b.source[i1] = 0 /\ o1 \notin b.fed /\ new.ok
    BY <1>2, <2>1 DEF BindEffect
  <2> HIDE DEF new, i1, o1, inputs, outputs
  <2>7. \A j \in 1..k : /\ In(f, j) \in 1..Len(inputs) /\ Out(f, j) \in 1..Len(outputs)
                        /\ inputs[In(f, j)] # outputs[Out(f, j)]
    BY <2>5 DEF GoodPairs, inputs, outputs
  <2>8. ASSUME NEW j \in 1..k PROVE In(f, j) # i1 /\ Out(f, j) # o1
    <3>1. b.source[In(f, j)] = Out(f, j) /\ Out(f, j) # 0
      <4>1. In(f, j) \in 1..Len(b.inputs) /\ Out(f, j) \in 1..Len(b.outputs)
        BY <1>2, <2>7
      <4> QED BY <2>3, <4>1 DEF SourceRight
    <3>2. Out(f, j) \in b.fed
      <4>1. Out(f, j) \in 1..Len(b.outputs)
        BY <1>2, <2>7
      <4> QED BY <2>3, <4>1 DEF FedRight
    <3> QED BY <2>6, <3>1, <3>2
  <2>9. /\ Len(f.pairs) = Len(outputs) - 1
        /\ \A i, j \in 1..k : i # j => In(f, i) # In(f, j) /\ Out(f, i) # Out(f, j)
    BY <2>5 DEF GoodPairs, outputs
  <2>10. \A j \in 1..(k + 1) : /\ In(f, j) \in 1..Len(inputs) /\ Out(f, j) \in 1..Len(outputs)
                               /\ inputs[In(f, j)] # outputs[Out(f, j)]
    <3> SUFFICES ASSUME NEW j \in 1..(k + 1)
                 PROVE  /\ In(f, j) \in 1..Len(inputs) /\ Out(f, j) \in 1..Len(outputs)
                        /\ inputs[In(f, j)] # outputs[Out(f, j)]
      OBVIOUS
    <3>1. j \in 1..k \/ j = k + 1
      BY <1>1
    <3> QED BY <2>6, <2>7, <3>1 DEF i1, o1
  <2>11. \A i, j \in 1..(k + 1) : i # j => In(f, i) # In(f, j) /\ Out(f, i) # Out(f, j)
    BY <1>1, <2>8, <2>9 DEF i1, o1
  <2>12. GoodPairs(f, k + 1)
    BY <2>9, <2>10, <2>11 DEF GoodPairs, inputs, outputs
  <2> QED BY <2>4, <2>6, <2>12 DEF BindInv, new
<1>4. CASE ~ Bindable(b, f.pairs[k + 1])
  <2>1. new.ok = FALSE
    BY <1>4, BindBad
  <2>2. ASSUME GoodPairs(f, k + 1) PROVE FALSE
    <3>1. /\ Len(f.pairs) = Len(outputs) - 1
          /\ \A j \in 1..(k + 1) : /\ In(f, j) \in 1..Len(inputs) /\ Out(f, j) \in 1..Len(outputs)
                                   /\ inputs[In(f, j)] # outputs[Out(f, j)]
          /\ \A i, j \in 1..(k + 1) : i # j => In(f, i) # In(f, j) /\ Out(f, i) # Out(f, j)
      BY <2>2 DEF GoodPairs
    <3> HIDE DEF new, i1, o1, inputs, outputs
    <3>2. 1..k \subseteq 1..(k + 1) /\ k + 1 \in 1..(k + 1) /\ k + 1 \notin 1..k
      BY <1>1
    <3>3. GoodPairs(f, k)
      BY <3>1, <3>2 DEF GoodPairs, inputs, outputs
    <3>4. b.ok /\ SourceRight(f, b, k) /\ FedRight(f, b, k)
      BY <3>3 DEF BindInv
    <3>5. i1 \in 1..Len(b.inputs) /\ o1 \in 1..Len(b.outputs) /\ inputs[i1] # outputs[o1]
      BY <1>2, <3>1, <3>2 DEF i1, o1
    <3>6. b.source[i1] = 0
      <4>1. SUFFICES ASSUME b.source[i1] # 0 PROVE FALSE
        OBVIOUS
      <4>2. b.source[i1] \in 1..Len(b.outputs)
        BY <1>2, <3>5, <4>1
      <4>3. PICK j \in 1..k : In(f, j) = i1
        BY <3>4, <3>5, <4>2 DEF SourceRight
      <4> QED BY <3>1, <3>2, <4>3 DEF i1
    <3>7. o1 \notin b.fed
      BY <3>1, <3>2, <3>4, <3>5 DEF FedRight, o1
    <3>8. Bindable(b, f.pairs[k + 1])
      BY <1>2, <3>4, <3>5, <3>6, <3>7 DEF Bindable, i1, o1, In, Out
    <3> QED BY <1>4, <3>8
  <2> QED BY <2>1, <2>2 DEF BindInv
<1> QED
  BY <1>3, <1>4

(* Bindings::new: it succeeds on good pairs and only on them, and then the  *)
(* sources, the outputs fed, the edges and the degrees are the pairs'.      *)
LEMMA BindingsRight ==
    ASSUME NEW f \in Folder
    PROVE  /\ Bindings(f) \in BindingsType(f)
           /\ BindInv(f, Bindings(f), Len(f.pairs))
<1> DEFINE n == Len(f.pairs)
           N == Binding(f)
           P == {k \in 0..n : BindInv(f, N[k], k)}
<1>1. /\ N \in [0..n -> BindingsType(f)]
      /\ N[0] = NewBindings(f)
      /\ \A k \in 1..n : N[k] = Bind(N[k - 1], f.pairs[k])
  BY BindingStep
<1>2. n \in Nat
  BY PairsType
<1> HIDE DEF N
<1>3. 0 \in P
  BY <1>1, <1>2, NewBindingsRight
<1>4. ASSUME NEW k \in 0..(n - 1), k \in P PROVE k + 1 \in P
  <2>1. k + 1 \in 1..n /\ (k + 1) - 1 = k /\ k \in 0..n
    BY <1>2
  <2>2. N[k] \in BindingsType(f) /\ N[k + 1] = Bind(N[k], f.pairs[k + 1])
    BY <1>1, <2>1
  <2>3. BindInv(f, N[k + 1], k + 1)
    BY <1>4, <2>2, BindKeepsInv
  <2> QED BY <1>2, <2>1, <2>3
<1>5. n \in P
  <2> HIDE DEF P
  <2>1. \A k \in 0..n : k \in P
    BY <1>2, <1>3, <1>4, Induction
  <2> QED BY <1>2, <2>1
<1>6. N[n] \in BindingsType(f)
  BY <1>1, <1>2
<1> QED
  BY <1>5, <1>6 DEF N, Bindings
-----------------------------------------------------------------------------
(***************************************************************************)
(* The execution order.                                                    *)
(***************************************************************************)
Elems(s)    == {s[j] : j \in 1..Len(s)}
Distinct(s) == \A i, j \in 1..Len(s) : s[i] = s[j] => i = j

(* The members of a sequence and the one added.                            *)
LEMMA AppendElems ==
    ASSUME NEW X, NEW s \in Seq(X), NEW e \in X
    PROVE  /\ Append(s, e) \in Seq(X)
           /\ Elems(Append(s, e)) = Elems(s) \cup {e}
           /\ Distinct(s) /\ e \notin Elems(s) => Distinct(Append(s, e))
<1> DEFINE t == Append(s, e)
<1>1. /\ t \in Seq(X) /\ Len(t) = Len(s) + 1 /\ Len(s) \in Nat
      /\ t[Len(s) + 1] = e /\ \A j \in 1..Len(s) : t[j] = s[j]
  OBVIOUS
<1> HIDE DEF t
<1>2. Elems(t) = Elems(s) \cup {e}
  <2>1. ASSUME NEW y \in Elems(t) PROVE y \in Elems(s) \cup {e}
    BY <1>1, <2>1 DEF Elems
  <2>2. ASSUME NEW y \in Elems(s) PROVE y \in Elems(t)
    <3>1. PICK j \in 1..Len(s) : y = s[j]
      BY <2>2 DEF Elems
    <3>2. j \in 1..Len(t) /\ t[j] = y
      BY <1>1, <3>1
    <3> QED BY <3>2 DEF Elems
  <2>3. e \in Elems(t)
    <3>1. Len(s) + 1 \in 1..Len(t)
      BY <1>1
    <3> QED BY <1>1, <3>1 DEF Elems
  <2> QED BY <2>1, <2>2, <2>3
<1>3. ASSUME Distinct(s), e \notin Elems(s) PROVE Distinct(t)
  <2> SUFFICES ASSUME NEW i \in 1..Len(t), NEW j \in 1..Len(t), t[i] = t[j] PROVE i = j
    BY DEF Distinct
  <2>1. \A k \in 1..Len(s) : s[k] # e
    BY <1>3 DEF Elems
  <2> QED BY <1>1, <1>3, <2>1 DEF Distinct
<1> QED
  BY <1>1, <1>2, <1>3 DEF t

(* The members of a sequence and its last one.                             *)
LEMMA FrontElems ==
    ASSUME NEW X, NEW s \in Seq(X), s # <<>>, Distinct(s)
    PROVE  /\ Front(s) \in Seq(X) /\ Distinct(Front(s))
           /\ Last(s) \in X /\ Last(s) \in Elems(s)
           /\ Elems(Front(s)) = Elems(s) \ {Last(s)}
<1> DEFINE t == Front(s)
<1>0. Len(s) \in Nat /\ Len(s) >= 1
  OBVIOUS
<1>1. /\ t \in Seq(X) /\ Len(t) = Len(s) - 1 /\ Len(s) \in Nat /\ Len(s) >= 1
      /\ \A j \in 1..Len(t) : t[j] = s[j]
  <2> DEFINE u == SubSeq(s, 1, Len(s) - 1)
  <2>1. u \in Seq(X)
    BY <1>0
  <2>2. Len(u) = Len(s) - 1
    BY <1>0
  <2>3. \A j \in 1..(Len(s) - 1) : u[j] = s[j]
    BY <1>0
  <2>4. t = u
    BY DEF Front
  <2> HIDE DEF t, u
  <2> QED BY <1>0, <2>1, <2>2, <2>3, <2>4
<1> HIDE DEF t
<1>2. Last(s) = s[Len(s)] /\ Len(s) \in 1..Len(s) /\ Last(s) \in X
  BY <1>1 DEF Last
<1>3. Distinct(t)
  BY <1>1 DEF Distinct
<1>4. ASSUME NEW y \in Elems(t) PROVE y \in Elems(s) /\ y # Last(s)
  <2>1. PICK j \in 1..Len(t) : y = t[j]
    BY <1>4 DEF Elems
  <2>2. j \in 1..Len(s) /\ y = s[j] /\ j # Len(s)
    BY <1>1, <2>1
  <2> QED BY <1>2, <2>2 DEF Elems, Distinct
<1>5. ASSUME NEW y \in Elems(s), y # Last(s) PROVE y \in Elems(t)
  <2>1. PICK j \in 1..Len(s) : y = s[j]
    BY <1>5 DEF Elems
  <2>2. j \in 1..Len(t) /\ y = t[j]
    BY <1>1, <1>2, <1>5, <2>1
  <2> QED BY <2>2 DEF Elems
<1>6. Last(s) \in Elems(s)
  BY <1>2 DEF Elems
<1> QED
  BY <1>1, <1>2, <1>3, <1>4, <1>5, <1>6 DEF t

RunType(n) == [waiting : [1..n -> Int], ready : Seq(1..n), order : Seq(1..n)]

ReleaseEffect(n, s, new, d) ==
    /\ new \in RunType(n)
    /\ new.waiting = [s.waiting EXCEPT ![d] = @ - 1]
    /\ new.ready = IF s.waiting[d] = 1 THEN Append(s.ready, d) ELSE s.ready
    /\ new.order = s.order

(* What releasing a coder changes.                                         *)
LEMMA ReleaseFields ==
    ASSUME NEW n \in Nat, NEW s \in RunType(n), NEW d \in 1..n
    PROVE  ReleaseEffect(n, s, Release(s, d), d)
<1> DEFINE w == [s.waiting EXCEPT ![d] = s.waiting[d] - 1]
           r == IF s.waiting[d] - 1 = 0 THEN Append(s.ready, d) ELSE s.ready
<1>1. Release(s, d) = [s EXCEPT !.waiting = w, !.ready = r]
  BY Zenon DEF Release
<1>2. s.waiting \in [1..n -> Int] /\ s.ready \in Seq(1..n) /\ s.order \in Seq(1..n)
  BY DEF RunType
<1>3. s.waiting[d] \in Int
  BY <1>2
<1>4. w \in [1..n -> Int]
  BY <1>2, <1>3
<1>5. r \in Seq(1..n) /\ r = IF s.waiting[d] = 1 THEN Append(s.ready, d) ELSE s.ready
  <2>1. s.ready \in Seq(1..n) /\ Append(s.ready, d) \in Seq(1..n)
    BY <1>2, AppendElems
  <2>2. s.waiting[d] - 1 = 0 <=> s.waiting[d] = 1
    BY <1>3
  <2> QED BY <2>1, <2>2
<1> HIDE DEF w, r
<1>6. Release(s, d) = [waiting |-> w, ready |-> r, order |-> s.order]
  BY <1>1 DEF RunType
<1>7. Release(s, d) \in RunType(n)
  BY <1>2, <1>4, <1>5, <1>6 DEF RunType
<1> QED
  BY <1>5, <1>6, <1>7 DEF w, ReleaseEffect

(* The recursion that releases the readers of a coder.                     *)
LEMMA ReleasingStep ==
    ASSUME NEW m \in Nat, NEW s0 \in RunType(m), NEW readers0 \in Seq(1..m)
    PROVE  /\ Releasing(s0, readers0) \in [0..Len(readers0) -> RunType(m)]
           /\ Releasing(s0, readers0)[0] = s0
           /\ \A k \in 1..Len(readers0) :
                 Releasing(s0, readers0)[k] = Release(Releasing(s0, readers0)[k - 1], readers0[k])
<1> DEFINE n == Len(readers0)
           S == RunType(m)
           x == s0
           Step(s, k) == Release(s, readers0[k])
           F == [k \in 1..n |-> [s \in S |-> Step(s, k)]]
           N == Releasing(s0, readers0)
<1>1. n \in Nat
  OBVIOUS
<1>2. ASSUME NEW s \in S, NEW k \in 1..n PROVE Step(s, k) \in S
  <2>1. readers0[k] \in 1..m
    OBVIOUS
  <2>2. ReleaseEffect(m, s, Release(s, readers0[k]), readers0[k])
    BY <2>1, ReleaseFields
  <2> QED BY <2>2 DEF ReleaseEffect
<1>3. x \in S
  OBVIOUS
<1>4. N = CHOOSE g : g = [k \in 0..n |-> IF k = 0 THEN x ELSE Step(g[k - 1], k)]
  BY Zenon DEF Releasing
<1>5. QED
  <2> HIDE DEF S, n, N, x, Step
  <2>1. F \in [1..n -> [S -> S]]
    BY <1>2
  <2>2. PICK g : Iterates(g, S, n, x, F)
    <3> HIDE DEF F
    <3> QED BY <1>1, <1>3, <2>1, Iteration, Zenon
  <2>3. g \in [0..n -> S] /\ g[0] = x /\ \A k \in 1..n : g[k] = F[k][g[k - 1]]
    BY <2>2 DEF Iterates
  <2>4. ASSUME NEW k \in 1..n PROVE F[k][g[k - 1]] = Step(g[k - 1], k)
    <3>1. g[k - 1] \in S
      BY <1>1, <2>3
    <3> QED BY <3>1
  <2>5. \A k \in 0..n : g[k] = IF k = 0 THEN x ELSE Step(g[k - 1], k)
    <3> HIDE DEF F
    <3> QED BY <1>1, <2>3, <2>4
  <2>6. g = [k \in 0..n |-> IF k = 0 THEN x ELSE Step(g[k - 1], k)]
    BY <2>3, <2>5
  <2> DEFINE B == [k \in 0..n |-> IF k = 0 THEN x ELSE Step(N[k - 1], k)]
  <2>7. N = B
    BY <1>4, <2>6, Zenon
  <2>8. B[0] = x /\ \A k \in 1..n : B[k] = Step(N[k - 1], k)
    BY <1>1
  <2>9. N = [k \in 0..n |-> N[k]]
    BY <2>7
  <2> HIDE DEF B
  <2>10. N[0] = x /\ \A k \in 1..n : N[k] = Step(N[k - 1], k)
    BY <2>7, <2>8, Zenon
  <2> DEFINE P == {k \in 0..n : N[k] \in S}
  <2>11. 0 \in P
    BY <1>1, <1>3, <2>10
  <2>12. ASSUME NEW k \in 0..(n - 1), k \in P PROVE k + 1 \in P
    <3>1. k + 1 \in 1..n /\ (k + 1) - 1 = k
      BY <1>1
    <3>2. N[k + 1] = Step(N[k], k + 1) /\ N[k] \in S
      BY <2>10, <2>12, <3>1
    <3>3. N[k + 1] \in S
      BY <1>2, <3>1, <3>2
    <3> QED BY <1>1, <3>1, <3>3
  <2>13. \A k \in 0..n : k \in P
    <3> HIDE DEF P
    <3> QED BY <1>1, <2>11, <2>12, Induction
  <2>14. N \in [0..n -> S]
    BY <2>9, <2>13
  <2> QED BY <2>10, <2>14 DEF S, n, N, x, Step

\* The listings of coder d by coders that have not run, when those in "done"
\* have and coder c has released the first x that read from it.
Left(edges, n, d, done, c, x) ==
    {p \in Slots(edges, n, d) : p[1] \notin done /\ ~ (p[1] = c /\ p[2] <= x)}

\* While coder c, run after those in "done", releases what reads from it.
Midway(edges, n, t, done, c, x) ==
    /\ \A d \in 1..n : /\ IsFiniteSet(Left(edges, n, d, done, c, x))
                       /\ Cardinality(Left(edges, n, d, done, c, x)) = t.waiting[d]
    /\ \A d \in 1..n : t.waiting[d] = 0 <=> d \in done \cup {c} \cup Elems(t.ready)
    /\ Distinct(t.ready)
    /\ Elems(t.ready) \cap (done \cup {c}) = {}

(* One edge of the coder that runs is taken off its reader.                *)
LEMMA ReleaseKeeps ==
    ASSUME NEW n \in Nat, NEW edges \in [1..n -> Seq(1..n)], NEW t \in RunType(n),
           NEW done, NEW c \in 1..n, c \notin done, NEW x \in 0..(Len(edges[c]) - 1),
           Midway(edges, n, t, done, c, x)
    PROVE  Midway(edges, n, Release(t, edges[c][x + 1]), done, c, x + 1)
<1> DEFINE d1 == edges[c][x + 1]
           new == Release(t, d1)
           p1 == <<c, x + 1>>
           L(d) == Left(edges, n, d, done, c, x)
           M(d) == Left(edges, n, d, done, c, x + 1)
<1>1. edges[c] \in Seq(1..n)
  OBVIOUS
<1>2. x \in Nat /\ x + 1 \in 1..Len(edges[c]) /\ d1 \in 1..n /\ edges[c][x + 1] = d1
  BY <1>1
<1> HIDE DEF d1
<1>3. /\ new \in RunType(n)
      /\ new.waiting = [t.waiting EXCEPT ![d1] = @ - 1]
      /\ new.ready = IF t.waiting[d1] = 1 THEN Append(t.ready, d1) ELSE t.ready
  <2>1. ReleaseEffect(n, t, new, d1)
    BY <1>2, ReleaseFields
  <2> HIDE DEF new
  <2> QED BY <2>1 DEF ReleaseEffect
<1>4. t.waiting \in [1..n -> Int] /\ t.ready \in Seq(1..n)
  BY DEF RunType
<1>5. p1 \in L(d1)
  <2>1. p1 \in (1..n) \X Nat
    BY <1>2
  <2> QED BY <1>2, <2>1 DEF Left, Slots
<1>6. ASSUME NEW d \in 1..n PROVE M(d) = IF d = d1 THEN L(d) \ {p1} ELSE L(d)
  <2>1. ASSUME NEW p \in Slots(edges, n, d)
        PROVE  p \in M(d) <=> p \in L(d) /\ ~ (p[1] = c /\ p[2] = x + 1)
    <3>1. p[2] \in Nat
      BY DEF Slots
    <3>2. p[2] <= x + 1 <=> p[2] <= x \/ p[2] = x + 1
      BY <1>2, <3>1, SMTT(30)
    <3> QED BY <3>2 DEF Left
  <2>2. ASSUME NEW p \in Slots(edges, n, d)
        PROVE  (p[1] = c /\ p[2] = x + 1) <=> (p = p1 /\ d = d1)
    <3>1. p \in (1..n) \X Nat /\ edges[p[1]][p[2]] = d
      BY DEF Slots
    <3>2. (p[1] = c /\ p[2] = x + 1) <=> p = p1
      BY <3>1
    <3>3. p = p1 => edges[c][x + 1] = d
      BY <3>1
    <3> HIDE DEF p1
    <3> QED BY <1>2, <3>2, <3>3
  <2>3. M(d) \subseteq Slots(edges, n, d) /\ L(d) \subseteq Slots(edges, n, d)
    BY DEF Left
  <2> HIDE DEF L, M, p1, d1
  <2> QED BY <2>1, <2>2, <2>3
<1>7. \A d \in 1..n : IsFiniteSet(L(d)) /\ Cardinality(L(d)) = t.waiting[d]
  BY DEF Midway
<1> HIDE DEF L, M, p1, d1, new
<1>8. /\ IsFiniteSet(L(d1) \ {p1}) /\ Cardinality(L(d1) \ {p1}) = t.waiting[d1] - 1
      /\ t.waiting[d1] \in Nat /\ t.waiting[d1] # 0
  <2>1. IsFiniteSet(L(d1)) /\ Cardinality(L(d1)) = t.waiting[d1]
    BY <1>2, <1>7
  <2>2. IsFiniteSet(L(d1) \ {p1}) /\ Cardinality(L(d1) \ {p1}) = Cardinality(L(d1)) - 1
    BY <1>5, <2>1, FS_RemoveElement
  <2>3. Cardinality(L(d1)) \in Nat /\ Cardinality(L(d1) \ {p1}) \in Nat
    BY <2>1, <2>2, FS_CardinalityType
  <2> QED BY <2>1, <2>2, <2>3
<1>9. new.waiting[d1] = t.waiting[d1] - 1 /\ \A d \in 1..n : d # d1 => new.waiting[d] = t.waiting[d]
  BY <1>2, <1>3, <1>4
<1>10. ASSUME NEW d \in 1..n PROVE IsFiniteSet(M(d)) /\ Cardinality(M(d)) = new.waiting[d]
  <2>1. CASE d = d1
    BY <1>6, <1>8, <1>9, <2>1
  <2>2. CASE d # d1
    BY <1>6, <1>7, <1>9, <2>2
  <2> QED BY <2>1, <2>2
<1>11. \A d \in 1..n : t.waiting[d] = 0 <=> d \in done \cup {c} \cup Elems(t.ready)
  BY DEF Midway
<1>12. Distinct(t.ready) /\ Elems(t.ready) \cap (done \cup {c}) = {}
  BY DEF Midway
<1>13. d1 \notin done \cup {c} \cup Elems(t.ready)
  BY <1>2, <1>8, <1>11
<1>14. CASE t.waiting[d1] = 1
  <2>1. new.ready = Append(t.ready, d1) /\ new.waiting[d1] = 0
    BY <1>3, <1>9, <1>14
  <2>2. Elems(new.ready) = Elems(t.ready) \cup {d1} /\ Distinct(new.ready)
    <3>1. d1 \notin Elems(t.ready)
      BY <1>13
    <3>2. Elems(Append(t.ready, d1)) = Elems(t.ready) \cup {d1} /\ Distinct(Append(t.ready, d1))
      BY <1>2, <1>4, <1>12, <3>1, AppendElems, ZenonT(30)
    <3> QED BY <2>1, <3>2
  <2>3. \A d \in 1..n : new.waiting[d] = 0 <=> d \in done \cup {c} \cup Elems(new.ready)
    BY <1>9, <1>11, <2>1, <2>2
  <2>4. Elems(new.ready) \cap (done \cup {c}) = {}
    BY <1>12, <1>13, <2>2
  <2> QED BY <1>10, <2>2, <2>3, <2>4 DEF Midway, new, M, d1
<1>15. CASE t.waiting[d1] # 1
  <2>1. new.ready = t.ready /\ new.waiting[d1] # 0
    BY <1>3, <1>8, <1>9, <1>15
  <2>2. \A d \in 1..n : new.waiting[d] = 0 <=> d \in done \cup {c} \cup Elems(new.ready)
    BY <1>8, <1>9, <1>11, <1>13, <2>1
  <2> QED BY <1>10, <1>12, <2>1, <2>2 DEF Midway, new, M, d1
<1> QED
  BY <1>14, <1>15

\* Before and after a round.
RoundInv(edges, n, t) ==
    /\ \A d \in 1..n : /\ IsFiniteSet(Left(edges, n, d, Elems(t.order), 0, 0))
                       /\ Cardinality(Left(edges, n, d, Elems(t.order), 0, 0)) = t.waiting[d]
    /\ \A d \in 1..n : t.waiting[d] = 0 <=> d \in Elems(t.order) \cup Elems(t.ready)
    /\ Distinct(t.ready) /\ Distinct(t.order)
    /\ Elems(t.ready) \cap Elems(t.order) = {}
    /\ \A k \in 1..Len(t.order) : \A p \in Slots(edges, n, t.order[k]) :
          \E j \in 1..(k - 1) : t.order[j] = p[1]

\* Coder c has released all that read from it.
ReleasedAll(edges, n, t, done, c, new) ==
    /\ new \in RunType(n) /\ new.order = t.order
    /\ Midway(edges, n, new, done, c, Len(edges[c]))

(* All of them are: the coder has run.                                     *)
LEMMA ReleasingKeeps ==
    ASSUME NEW n \in Nat, NEW edges \in [1..n -> Seq(1..n)], NEW t \in RunType(n),
           NEW done, NEW c \in 1..n, c \notin done, Midway(edges, n, t, done, c, 0)
    PROVE  ReleasedAll(edges, n, t, done, c, Releasing(t, edges[c])[Len(edges[c])])
<1> DEFINE m == Len(edges[c])
           N == Releasing(t, edges[c])
           P == {x \in 0..m : Midway(edges, n, N[x], done, c, x) /\ N[x].order = t.order}
<1>1. edges[c] \in Seq(1..n)
  OBVIOUS
<1>2. m \in Nat /\ \A x \in 1..m : edges[c][x] \in 1..n
  BY <1>1
<1>3. /\ N \in [0..m -> RunType(n)] /\ N[0] = t
      /\ \A x \in 1..m : N[x] = Release(N[x - 1], edges[c][x])
  BY <1>1, ReleasingStep
<1> HIDE DEF N
<1>4. 0 \in P
  BY <1>2, <1>3
<1>5. ASSUME NEW x \in 0..(m - 1), x \in P PROVE x + 1 \in P
  <2>1. x + 1 \in 1..m /\ (x + 1) - 1 = x /\ x \in 0..m
    BY <1>2
  <2>2. N[x + 1] = Release(N[x], edges[c][x + 1]) /\ N[x] \in RunType(n)
    BY <1>3, <2>1
  <2>3. Midway(edges, n, N[x], done, c, x) /\ N[x].order = t.order
    BY <1>5
  <2>4. Midway(edges, n, N[x + 1], done, c, x + 1)
    BY <2>2, <2>3, ReleaseKeeps
  <2>5. N[x + 1].order = t.order
    <3> DEFINE e == edges[c][x + 1]
               s == N[x]
    <3>1. e \in 1..n /\ s \in RunType(n)
      BY <1>2, <2>1, <2>2
    <3> HIDE DEF e, s
    <3> DEFINE new == Release(s, e)
    <3>3. ReleaseEffect(n, s, new, e)
      BY <3>1, ReleaseFields
    <3>2. new.order = s.order
      <4> HIDE DEF new
      <4> QED BY <3>3 DEF ReleaseEffect
    <3> QED BY <2>2, <2>3, <3>2 DEF e, s
  <2> QED BY <1>2, <2>1, <2>4, <2>5
<1>6. m \in P
  <2> HIDE DEF P, m
  <2>1. \A x \in 0..m : x \in P
    BY <1>2, <1>4, <1>5, Induction
  <2> QED BY <1>2, <2>1
<1>7. N[m] \in RunType(n)
  <2> HIDE DEF m
  <2> QED BY <1>2, <1>3
<1> QED
  BY <1>6, <1>7 DEF N, ReleasedAll

-----------------------------------------------------------------------------
(***************************************************************************)
(* The execution order (FolderGraph!ExecutionOrder): what a round of the   *)
(* loop does, and that it runs every coder of an acyclic folder after the  *)
(* coders it reads from.                                                   *)
(***************************************************************************)
\* What is left before coder c releases anything, and when it has released all.
LeftAtEnds(edges, n, done, c, d) ==
    /\ Left(edges, n, d, done, c, 0) = Left(edges, n, d, done, 0, 0)
    /\ Left(edges, n, d, done \cup {c}, 0, 0) = Left(edges, n, d, done, c, Len(edges[c]))

(* The edges left before and after the edges of one coder.                 *)
LEMMA LeftAround ==
    ASSUME NEW n \in Nat, NEW edges, NEW done, NEW c \in 1..n, NEW d
    PROVE  LeftAtEnds(edges, n, done, c, d)
<1>1. ASSUME NEW p \in Slots(edges, n, d)
      PROVE  p[1] \in 1..n /\ p[1] # 0 /\ p[2] \in Nat /\ ~ (p[2] <= 0)
             /\ (p[1] = c => p[2] <= Len(edges[c]))
  <2>1. p \in (1..n) \X Nat /\ p[2] \in 1..Len(edges[p[1]])
    BY DEF Slots
  <2>2. p[1] \in 1..n /\ p[2] \in Nat /\ p[2] \in 1..Len(edges[p[1]])
    BY <2>1
  <2>3. ASSUME NEW a, NEW b \in 1..a PROVE b <= a /\ ~ (b <= 0)
    OBVIOUS
  <2>4. p[2] <= Len(edges[p[1]]) /\ ~ (p[2] <= 0)
    BY <2>2, <2>3
  <2> QED BY <2>2, <2>4
<1>2. ASSUME NEW p \in Slots(edges, n, d)
      PROVE  /\ ~ (p[1] = c /\ p[2] <= 0)
             /\ ~ (p[1] = 0 /\ p[2] <= 0)
             /\ p[1] \notin done \cup {c} <=> p[1] \notin done /\ ~ (p[1] = c /\ p[2] <= Len(edges[c]))
  <2>1. p[1] \notin done \cup {c} <=> p[1] \notin done /\ p[1] # c
    OBVIOUS
  <2> QED BY <1>1, <2>1, Zenon
<1>3. Left(edges, n, d, done, c, 0) = Left(edges, n, d, done, 0, 0)
  BY <1>2, Zenon DEF Left
<1>4. Left(edges, n, d, done \cup {c}, 0, 0) = Left(edges, n, d, done, c, Len(edges[c]))
  BY <1>2, Zenon DEF Left
<1> QED
  BY <1>3, <1>4 DEF LeftAtEnds

RunEffect(n, t, run, r, o) ==
    run \in RunType(n) /\ run.waiting = t.waiting /\ run.ready = r /\ run.order = o

(* What running the last ready coder changes.                              *)
LEMMA RunFields ==
    ASSUME NEW n, NEW t \in RunType(n), NEW r \in Seq(1..n), NEW o \in Seq(1..n)
    PROVE  RunEffect(n, t, [t EXCEPT !.ready = r, !.order = o], r, o)
<1> DEFINE W == [1..n -> Int]
           S == Seq(1..n)
           run == [t EXCEPT !.ready = r, !.order = o]
<1>0. t \in [waiting : W, ready : S, order : S]
  BY DEF RunType
<1>2. run = [t EXCEPT !.ready = r, !.order = o]
  OBVIOUS
<1>1. run = [waiting |-> t.waiting, ready |-> r, order |-> o]
  <2> HIDE DEF W, S, run
  <2> QED BY <1>0, <1>2
<1> HIDE DEF run
<1>3. RunEffect(n, t, run, r, o)
  BY <1>0, <1>1 DEF RunType, RunEffect
<1> QED
  BY <1>3 DEF run

\* What one round does.
RoundEffect(edges, n, t, new) ==
    /\ new \in RunType(n)
    /\ RoundInv(edges, n, new)
    /\ t.ready = <<>> => new = t
    /\ t.ready # <<>> => Len(new.order) = Len(t.order) + 1

(* A round runs a coder that is ready, and keeps RoundInv.                 *)
LEMMA RunReadyKeeps ==
    ASSUME NEW n \in Nat, NEW edges \in [1..n -> Seq(1..n)], NEW t \in RunType(n),
           RoundInv(edges, n, t)
    PROVE  RoundEffect(edges, n, t, RunReady(edges, t))
<1>1. CASE t.ready = <<>>
  BY <1>1 DEF RoundEffect, RunReady
<1>2. CASE t.ready # <<>>
  <2> DEFINE c == Last(t.ready)
             front == Front(t.ready)
             order == Append(t.order, c)
             run == [t EXCEPT !.ready = front, !.order = order]
             new == Releasing(run, edges[c])[Len(edges[c])]
             done == Elems(t.order)
  <2>1. RunReady(edges, t) = new
    BY <1>2, Zenon DEF RunReady
  <2>2. t.waiting \in [1..n -> Int] /\ t.ready \in Seq(1..n) /\ t.order \in Seq(1..n)
    BY DEF RunType
  <2>3. /\ \A d \in 1..n : /\ IsFiniteSet(Left(edges, n, d, done, 0, 0))
                           /\ Cardinality(Left(edges, n, d, done, 0, 0)) = t.waiting[d]
        /\ \A d \in 1..n : t.waiting[d] = 0 <=> d \in done \cup Elems(t.ready)
        /\ Distinct(t.ready) /\ Distinct(t.order)
        /\ Elems(t.ready) \cap done = {}
        /\ \A k \in 1..Len(t.order) : \A p \in Slots(edges, n, t.order[k]) :
              \E j \in 1..(k - 1) : t.order[j] = p[1]
    BY DEF RoundInv
  <2>4. /\ front \in Seq(1..n) /\ Distinct(front)
        /\ c \in 1..n /\ c \in Elems(t.ready)
        /\ Elems(front) = Elems(t.ready) \ {c}
    BY <1>2, <2>2, <2>3, FrontElems, Zenon
  <2>5. c \notin done
    BY <2>3, <2>4
  <2> HIDE DEF c, front
  <2>6. order \in Seq(1..n) /\ Elems(order) = done \cup {c} /\ Distinct(order)
    <3>1. order \in Seq(1..n)
      BY <2>2, <2>4, AppendElems, Zenon
    <3>3. Elems(order) = Elems(t.order) \cup {c}
      <4> DEFINE a == t.order
      <4>1. a \in Seq(1..n)
        BY <2>2
      <4> HIDE DEF a
      <4>2. Elems(Append(a, c)) = Elems(a) \cup {c}
        BY <2>4, <4>1, AppendElems, SMTT(30)
      <4> QED BY <4>2 DEF a
    <3>2. Distinct(order)
      BY <2>2, <2>3, <2>4, <2>5, AppendElems, Zenon
    <3> QED BY <3>1, <3>2, <3>3
  <2>7. /\ Len(order) = Len(t.order) + 1 /\ order[Len(t.order) + 1] = c
        /\ \A k \in 1..Len(t.order) : order[k] = t.order[k]
        /\ Len(t.order) \in Nat
    BY <2>2, <2>4
  <2> HIDE DEF order, done
  <2>9. run \in RunType(n) /\ run.waiting = t.waiting /\ run.ready = front /\ run.order = order
    <3>1. RunEffect(n, t, run, front, order)
      BY <2>4, <2>6, RunFields, Zenon
    <3> HIDE DEF run
    <3> QED BY <3>1 DEF RunEffect
  <2> HIDE DEF run
  <2>10. Midway(edges, n, run, done, c, 0)
    <3>1. ASSUME NEW d \in 1..n
          PROVE  /\ IsFiniteSet(Left(edges, n, d, done, c, 0))
                 /\ Cardinality(Left(edges, n, d, done, c, 0)) = run.waiting[d]
      <4>1. Left(edges, n, d, done, c, 0) = Left(edges, n, d, done, 0, 0)
        <5>1. LeftAtEnds(edges, n, done, c, d)
          BY <2>4, LeftAround
        <5> QED BY <5>1 DEF LeftAtEnds
      <4> QED BY <2>3, <2>9, <4>1
    <3>2. \A d \in 1..n : run.waiting[d] = 0 <=> d \in done \cup {c} \cup Elems(run.ready)
      BY <2>3, <2>4, <2>9
    <3>3. Distinct(run.ready) /\ Elems(run.ready) \cap (done \cup {c}) = {}
      BY <2>3, <2>4, <2>9
    <3> QED BY <3>1, <3>2, <3>3 DEF Midway
  <2>16. ReleasedAll(edges, n, run, done, c, new)
    BY <2>4, <2>5, <2>9, <2>10, ReleasingKeeps, Zenon
  <2> HIDE DEF new
  <2>11. new \in RunType(n) /\ new.order = order /\ Midway(edges, n, new, done, c, Len(edges[c]))
    BY <2>9, <2>16 DEF ReleasedAll
  <2>12. ASSUME NEW d \in 1..n
         PROVE  /\ IsFiniteSet(Left(edges, n, d, Elems(order), 0, 0))
                /\ Cardinality(Left(edges, n, d, Elems(order), 0, 0)) = new.waiting[d]
    <3>1. Left(edges, n, d, done \cup {c}, 0, 0) = Left(edges, n, d, done, c, Len(edges[c]))
      <4>1. LeftAtEnds(edges, n, done, c, d)
        BY <2>4, LeftAround
      <4> QED BY <4>1 DEF LeftAtEnds
    <3> QED BY <2>6, <2>11, <3>1 DEF Midway
  <2>13. /\ \A d \in 1..n : new.waiting[d] = 0 <=> d \in Elems(order) \cup Elems(new.ready)
         /\ Distinct(new.ready)
         /\ Elems(new.ready) \cap Elems(order) = {}
    BY <2>6, <2>11 DEF Midway
  <2>14. ASSUME NEW k \in 1..Len(order), NEW p \in Slots(edges, n, order[k])
         PROVE  \E j \in 1..(k - 1) : order[j] = p[1]
    <3>1. CASE k \in 1..Len(t.order)
      <4>1. order[k] = t.order[k]
        BY <2>7, <3>1
      <4>2. PICK j \in 1..(k - 1) : t.order[j] = p[1]
        BY <2>3, <3>1, <4>1
      <4>3. j \in 1..Len(t.order) /\ j \in 1..(k - 1)
        BY <2>7, <3>1
      <4> QED BY <2>7, <4>2, <4>3
    <3>2. CASE k = Len(t.order) + 1
      <4>1. order[k] = c
        BY <2>7, <3>2
      <4>2. t.waiting[c] = 0
        BY <2>3, <2>4
      <4>3. Left(edges, n, c, done, 0, 0) = {}
        BY <2>3, <2>4, <4>2, FS_EmptySet
      <4>4. p[1] \in 1..n
        BY DEF Slots
      <4>5. p[1] \in done
        BY <4>1, <4>3, <4>4 DEF Left
      <4>6. PICK j \in 1..Len(t.order) : t.order[j] = p[1]
        BY <4>5 DEF done, Elems
      <4>7. j \in 1..(k - 1) /\ order[j] = p[1]
        BY <2>7, <3>2, <4>6
      <4> QED BY <4>7
    <3> QED BY <2>7, <3>1, <3>2
  <2>15. RoundInv(edges, n, new)
    <3>0. new.order = order
      BY <2>11
    <3>1. \A d \in 1..n : /\ IsFiniteSet(Left(edges, n, d, Elems(new.order), 0, 0))
                          /\ Cardinality(Left(edges, n, d, Elems(new.order), 0, 0)) = new.waiting[d]
      BY <3>0, <2>12
    <3>2. /\ \A d \in 1..n : new.waiting[d] = 0 <=> d \in Elems(new.order) \cup Elems(new.ready)
          /\ Distinct(new.ready) /\ Distinct(new.order)
          /\ Elems(new.ready) \cap Elems(new.order) = {}
      BY <3>0, <2>6, <2>13
    <3>3. \A k \in 1..Len(new.order) : \A p \in Slots(edges, n, new.order[k]) :
             \E j \in 1..(k - 1) : new.order[j] = p[1]
      BY <3>0, <2>14
    <3> QED BY <3>1, <3>2, <3>3, Zenon DEF RoundInv
  <2> QED BY <1>2, <2>1, <2>7, <2>11, <2>15 DEF RoundEffect
<1> QED
  BY <1>1, <1>2

(* n different members of 1..n are all of them.                            *)
LEMMA DistinctElems ==
    ASSUME NEW n \in Nat, NEW s \in Seq(1..n), Distinct(s)
    PROVE  /\ Len(s) \in Nat
           /\ IsFiniteSet(Elems(s)) /\ Cardinality(Elems(s)) = Len(s)
           /\ Len(s) = n <=> Elems(s) = 1..n
<1> DEFINE E == Elems(s)
           m == Len(s)
<1>1. m \in Nat /\ s \in [1..m -> 1..n]
  OBVIOUS
<1>2. s \in [1..m -> E] /\ \A e \in E : \E j \in 1..m : s[j] = e
  BY <1>1 DEF Elems
<1>3. s \in Surjection(1..m, E)
  BY <1>2 DEF Surjection
<1>4. s \in Injection(1..m, E)
  <2>1. \A i, j \in 1..m : s[i] = s[j] => i = j
    BY DEF Distinct
  <2> QED BY <1>1, <1>2, <2>1 DEF Injection, IsInjective
<1>5. IsFiniteSet(1..m) /\ Cardinality(1..m) = m
  <2> HIDE DEF m
  <2> QED BY <1>1, FS_Interval
<1>6. IsFiniteSet(E) /\ Cardinality(E) = m
  <2> HIDE DEF E, m
  <2> QED BY <1>3, <1>4, <1>5, FS_Surjection
<1>7. IsFiniteSet(1..n) /\ Cardinality(1..n) = n
  BY FS_Interval
<1>8. E \in SUBSET (1..n)
  BY <1>1 DEF Elems
<1>9. m = n <=> E = 1..n
  <2> HIDE DEF E, m
  <2>1. Cardinality(1..n) = Cardinality(E) => 1..n = E
    BY <1>7, <1>8, FS_Subset
  <2> QED BY <1>6, <1>7, <2>1
<1> QED
  BY <1>1, <1>6, <1>9

StartRun(b) ==
    [waiting |-> b.indegree,
     ready   |-> Ascending(Len(b.edges), {c \in 1..Len(b.edges) : b.indegree[c] = 0}),
     order   |-> <<>>]

\* The states between rounds.
Rounds(b) == {t \in RunType(Len(b.edges)) : RoundInv(b.edges, Len(b.edges), t)}

(* There are edges for every coder.                                        *)
LEMMA EdgesLen ==
    ASSUME NEW f \in Folder, NEW b \in BindingsType(f)
    PROVE  /\ Len(f.coders) \in Nat /\ Len(b.edges) = Len(f.coders)
           /\ b.edges \in [1..Len(f.coders) -> Seq(1..Len(f.coders))]
           /\ b.indegree \in [1..Len(f.coders) -> Nat]
<1> DEFINE n == Len(f.coders)
           S == Seq(1..n)
           e == b.edges
<1>1. n \in Nat /\ e \in [1..n -> S] /\ b.indegree \in [1..n -> Nat]
  BY BindingsFields
<1> HIDE DEF n, S, e
<1>2. e \in Seq(S) /\ Len(e) = n
  BY <1>1
<1> QED
  BY <1>1, <1>2 DEF n, S, e

(* The loop starts with the coders that wait for none.                     *)
LEMMA StartRight ==
    ASSUME NEW f \in Folder, NEW b \in BindingsType(f), DegreeRight(f, b)
    PROVE  StartRun(b) \in Rounds(b)
<1> DEFINE n == Len(f.coders)
           chosen == {c \in 1..n : b.indegree[c] = 0}
           ready == Ascending(n, chosen)
           t == [waiting |-> b.indegree, ready |-> ready, order |-> <<>>]
<1>1. /\ n \in Nat /\ Len(b.edges) = n
      /\ b.edges \in [1..n -> Seq(1..n)] /\ b.indegree \in [1..n -> Nat]
  BY EdgesLen
<1>2. StartRun(b) = t
  BY <1>1 DEF StartRun
<1>3. \A d \in 1..n : /\ IsFiniteSet(Slots(b.edges, n, d))
                      /\ Cardinality(Slots(b.edges, n, d)) = b.indegree[d]
  BY DEF DegreeRight
<1> HIDE DEF n
<1>4. /\ ready \in Seq(1..n)
      /\ \A c \in 1..n : c \in chosen <=> \E j \in 1..Len(ready) : ready[j] = c
      /\ \A i, j \in 1..Len(ready) : i < j => ready[i] < ready[j]
  <2> HIDE DEF chosen
  <2>1. Listing(ready, n, chosen)
    BY <1>1, AscendingIs
  <2> HIDE DEF ready
  <2> QED BY <2>1 DEF Listing
<1> HIDE DEF ready
<1>5. Len(ready) \in Nat /\ \A j \in 1..Len(ready) : ready[j] \in 1..n
  <2>1. ready \in Seq(1..n)
    BY <1>4
  <2> QED BY <1>1, <2>1, SMTT(30)
<1>6. Distinct(ready)
  BY <1>4, <1>5 DEF Distinct
<1>7. \A d \in 1..n : d \in Elems(ready) <=> b.indegree[d] = 0
  BY <1>4 DEF Elems
<1>8. b.indegree \in [1..n -> Int] /\ <<>> \in Seq(1..n)
  BY <1>1
<1>9. t \in RunType(n) /\ t.waiting = b.indegree /\ t.ready = ready /\ t.order = <<>>
  BY <1>4, <1>8 DEF RunType
<1> HIDE DEF t
<1>10. Elems(<<>>) = {} /\ Distinct(<<>>) /\ Len(<<>>) = 0
  BY DEF Elems, Distinct
<1>11. ASSUME NEW d PROVE Left(b.edges, n, d, {}, 0, 0) = Slots(b.edges, n, d)
  <2>1. \A p \in Slots(b.edges, n, d) : p[1] # 0
    BY <1>1 DEF Slots
  <2> QED BY <2>1 DEF Left
<1>12. RoundInv(b.edges, n, t)
  <2>0. Elems(t.order) = {} /\ Len(t.order) = 0 /\ Distinct(t.order)
    BY <1>9, <1>10
  <2>1. \A d \in 1..n : /\ IsFiniteSet(Left(b.edges, n, d, Elems(t.order), 0, 0))
                        /\ Cardinality(Left(b.edges, n, d, Elems(t.order), 0, 0)) = t.waiting[d]
    BY <1>3, <1>9, <1>11, <2>0
  <2>2. \A d \in 1..n : t.waiting[d] = 0 <=> d \in Elems(t.order) \cup Elems(t.ready)
    BY <1>7, <1>9, <2>0
  <2>3. Distinct(t.ready) /\ Elems(t.ready) \cap Elems(t.order) = {}
    BY <1>6, <1>9, <2>0
  <2>4. \A k \in 1..Len(t.order) : FALSE
    BY <2>0
  <2> QED BY <2>0, <2>1, <2>2, <2>3, <2>4 DEF RoundInv
<1> QED
  BY <1>1, <1>2, <1>9, <1>12 DEF Rounds

(* The recursion that ExecutionOrder is taken from.                        *)
LEMMA RunningStep ==
    ASSUME NEW f \in Folder, NEW b \in BindingsType(f), DegreeRight(f, b)
    PROVE  /\ Running(b) \in [0..Len(b.edges) -> Rounds(b)]
           /\ Running(b)[0] = StartRun(b)
           /\ \A k \in 1..Len(b.edges) :
                 Running(b)[k] = RunReady(b.edges, Running(b)[k - 1])
<1> DEFINE n == Len(b.edges)
           S == Rounds(b)
           x == StartRun(b)
           Step(s, k) == RunReady(b.edges, s)
           F == [k \in 1..n |-> [s \in S |-> Step(s, k)]]
           N == Running(b)
<1>1. n \in Nat
  BY EdgesLen
<1>2. ASSUME NEW s \in S, NEW k \in 1..n PROVE Step(s, k) \in S
  <2> DEFINE m == Len(b.edges)
             new == RunReady(b.edges, s)
  <2>1. m \in Nat /\ b.edges \in [1..m -> Seq(1..m)] /\ s \in RunType(m) /\ RoundInv(b.edges, m, s)
    BY EdgesLen DEF Rounds
  <2>2. RoundEffect(b.edges, m, s, new)
    <3> HIDE DEF m
    <3> QED BY <2>1, RunReadyKeeps
  <2> HIDE DEF new
  <2>3. new \in RunType(m) /\ RoundInv(b.edges, m, new)
    BY <2>2 DEF RoundEffect
  <2> QED BY <2>3 DEF Rounds, new
<1>3. x \in S
  BY StartRight
<1>4. N = CHOOSE g : g = [k \in 0..n |-> IF k = 0 THEN x ELSE Step(g[k - 1], k)]
  BY Zenon DEF Running, StartRun
<1>5. QED
  <2> HIDE DEF S, n, N, x, Step
  <2>1. F \in [1..n -> [S -> S]]
    BY <1>2
  <2>2. PICK g : Iterates(g, S, n, x, F)
    <3> HIDE DEF F
    <3> QED BY <1>1, <1>3, <2>1, Iteration, Zenon
  <2>3. g \in [0..n -> S] /\ g[0] = x /\ \A k \in 1..n : g[k] = F[k][g[k - 1]]
    BY <2>2 DEF Iterates
  <2>4. ASSUME NEW k \in 1..n PROVE F[k][g[k - 1]] = Step(g[k - 1], k)
    <3>1. g[k - 1] \in S
      BY <1>1, <2>3
    <3> QED BY <3>1
  <2>5. \A k \in 0..n : g[k] = IF k = 0 THEN x ELSE Step(g[k - 1], k)
    <3> HIDE DEF F
    <3> QED BY <1>1, <2>3, <2>4
  <2>6. g = [k \in 0..n |-> IF k = 0 THEN x ELSE Step(g[k - 1], k)]
    BY <2>3, <2>5
  <2> DEFINE B == [k \in 0..n |-> IF k = 0 THEN x ELSE Step(N[k - 1], k)]
  <2>7. N = B
    BY <1>4, <2>6, Zenon
  <2>8. B[0] = x /\ \A k \in 1..n : B[k] = Step(N[k - 1], k)
    BY <1>1
  <2>9. N = [k \in 0..n |-> N[k]]
    BY <2>7
  <2> HIDE DEF B
  <2>10. N[0] = x /\ \A k \in 1..n : N[k] = Step(N[k - 1], k)
    BY <2>7, <2>8, Zenon
  <2> DEFINE P == {k \in 0..n : N[k] \in S}
  <2>11. 0 \in P
    BY <1>1, <1>3, <2>10
  <2>12. ASSUME NEW k \in 0..(n - 1), k \in P PROVE k + 1 \in P
    <3>1. k + 1 \in 1..n /\ (k + 1) - 1 = k
      BY <1>1
    <3>2. N[k + 1] = Step(N[k], k + 1) /\ N[k] \in S
      BY <2>10, <2>12, <3>1
    <3>3. N[k + 1] \in S
      BY <1>2, <3>1, <3>2
    <3> QED BY <1>1, <3>1, <3>3
  <2>13. \A k \in 0..n : k \in P
    <3> HIDE DEF P
    <3> QED BY <1>1, <2>11, <2>12, Induction
  <2>14. N \in [0..n -> S]
    BY <2>9, <2>13
  <2> QED BY <2>10, <2>14 DEF S, n, N, x, Step

(* The owner that the algorithm records is the owner of the stream.        *)
LEMMA OwnerIs ==
    ASSUME NEW f \in Folder, NEW b \in BindingsType(f)
    PROVE  /\ \A i \in 1..Len(b.inputs) : Owner(Ins(f.coders), i - 1) = b.inputs[i]
           /\ \A o \in 1..Len(b.outputs) : Owner(Outs(f.coders), o - 1) = b.outputs[o]
<1>1. ASSUME NEW counts \in Seq(Nat), NEW owners, owners = StreamOwners(counts)
      PROVE  \A j \in 1..Len(owners) : Owner(counts, j - 1) = owners[j]
  BY <1>1, OwnersAre
<1>2. /\ b.inputs = StreamOwners(Ins(f.coders)) /\ b.outputs = StreamOwners(Outs(f.coders))
      /\ Ins(f.coders) \in Seq(Nat) /\ Outs(f.coders) \in Seq(Nat)
  BY BindingsFields, CountsType
<1> QED
  BY <1>1, <1>2

(* The edges are the coders that feed one another.                         *)
LEMMA FeedsIs ==
    ASSUME NEW f \in Folder, NEW b \in BindingsType(f),
           GoodPairs(f, Len(f.pairs)), EdgesRight(f, b, Len(f.pairs)),
           NEW c \in 1..Len(f.coders), NEW d \in 1..Len(f.coders)
    PROVE  Feeds(f, c, d) <=> \E x \in 1..Len(b.edges[c]) : b.edges[c][x] = d
<1>1. /\ b.inputs = StreamOwners(Ins(f.coders)) /\ b.outputs = StreamOwners(Outs(f.coders))
  BY BindingsFields
<1>2. ASSUME NEW k \in 1..Len(f.pairs)
      PROVE  /\ Owner(Outs(f.coders), f.pairs[k][2]) = b.outputs[Out(f, k)]
             /\ Owner(Ins(f.coders), f.pairs[k][1]) = b.inputs[In(f, k)]
  <2>1. In(f, k) \in 1..Len(b.inputs) /\ Out(f, k) \in 1..Len(b.outputs)
    BY <1>1 DEF GoodPairs
  <2>2. f.pairs[k][1] \in Nat /\ f.pairs[k][2] \in Nat
    BY PairsType
  <2>3. In(f, k) - 1 = f.pairs[k][1] /\ Out(f, k) - 1 = f.pairs[k][2]
    BY <2>2 DEF In, Out
  <2> QED BY <2>1, <2>3, OwnerIs
<1>3. Feeds(f, c, d) <=> \E k \in 1..Len(f.pairs) : b.outputs[Out(f, k)] = c /\ b.inputs[In(f, k)] = d
  BY <1>2 DEF Feeds
<1> QED
  BY <1>3 DEF EdgesRight

\* What the last round leaves.
LEMMA LastRound ==
    ASSUME NEW f \in Folder, NEW b \in BindingsType(f), DegreeRight(f, b)
    PROVE  LET t == Running(b)[Len(b.edges)]
           IN  /\ t \in Rounds(b)
               /\ t.ready = <<>> \/ Len(t.order) = Len(b.edges)
<1> DEFINE n == Len(b.edges)
           S == Rounds(b)
           N == Running(b)
           P == {k \in 0..n : N[k].ready = <<>> \/ Len(N[k].order) = k}
<1>1. /\ N \in [0..n -> S] /\ N[0] = StartRun(b)
      /\ \A k \in 1..n : N[k] = RunReady(b.edges, N[k - 1])
  BY RunningStep
<1>2. n \in Nat /\ b.edges \in [1..n -> Seq(1..n)]
  BY EdgesLen
<1>3. N[0].order = <<>>
  BY <1>1 DEF StartRun
<1> HIDE DEF N, n
<1>4. 0 \in P
  BY <1>2, <1>3
<1>5. ASSUME NEW k \in 0..(n - 1), k \in P PROVE k + 1 \in P
  <2> DEFINE s == N[k]
             t == N[k + 1]
  <2>1. k + 1 \in 1..n /\ (k + 1) - 1 = k /\ k \in 0..n
    BY <1>2
  <2>2. t = RunReady(b.edges, s) /\ s \in S
    BY <1>1, <2>1
  <2>3. s \in RunType(n) /\ RoundInv(b.edges, n, s)
    BY <2>2 DEF Rounds, n
  <2>4. RoundEffect(b.edges, n, s, t)
    <3> HIDE DEF s, t
    <3> QED BY <1>2, <2>2, <2>3, RunReadyKeeps
  <2>5. s.ready = <<>> \/ Len(s.order) = k
    BY <1>5
  <2>6. t.ready = <<>> \/ Len(t.order) = k + 1
    <3> HIDE DEF s, t
    <3> QED BY <2>4, <2>5 DEF RoundEffect
  <2> QED BY <1>2, <2>1, <2>6
<1>6. n \in P
  <2> HIDE DEF P
  <2>1. \A k \in 0..n : k \in P
    BY <1>2, <1>4, <1>5, Induction
  <2> QED BY <1>2, <2>1
<1>7. N[n] \in S
  <2> HIDE DEF S
  <2> QED BY <1>1, <1>2
<1> QED
  BY <1>6, <1>7 DEF n, N

OrderOf(f, order) ==
    /\ order \in Seq(1..Len(f.coders)) /\ Distinct(order)
    /\ Len(order) = Len(f.coders) <=> Acyclic(f)
    /\ \A k \in 1..Len(order), c \in 1..Len(f.coders) :
          Feeds(f, c, order[k]) => \E j \in 1..(k - 1) : order[j] = c

(* The order runs each coder once, after those that feed it; all of them   *)
(* if and only if the folder is acyclic.                                   *)
LEMMA OrderIs ==
    ASSUME NEW f \in Folder, NEW b \in BindingsType(f), DegreeRight(f, b),
           GoodPairs(f, Len(f.pairs)), EdgesRight(f, b, Len(f.pairs))
    PROVE  OrderOf(f, ExecutionOrder(b))
<1> DEFINE n == Len(f.coders)
           t == Running(b)[Len(b.edges)]
           order == t.order
           edges == b.edges
           done == Elems(order)
<1>1. ExecutionOrder(b) = order
  BY DEF ExecutionOrder
<1>2. n \in Nat /\ Len(b.edges) = n /\ edges \in [1..n -> Seq(1..n)]
  BY EdgesLen
<1>3. t \in Rounds(b) /\ (t.ready = <<>> \/ Len(t.order) = n)
  BY <1>2, LastRound
<1>4. \A c, d \in 1..n : Feeds(f, c, d) <=> \E x \in 1..Len(edges[c]) : edges[c][x] = d
  BY FeedsIs
<1> HIDE DEF t, n
<1>5. t \in RunType(n) /\ RoundInv(edges, n, t)
  BY <1>2, <1>3 DEF Rounds
<1>6. t.order \in Seq(1..n) /\ t.ready \in Seq(1..n) /\ t.waiting \in [1..n -> Int]
  BY <1>5 DEF RunType
<1>7. /\ \A d \in 1..n : /\ IsFiniteSet(Left(edges, n, d, done, 0, 0))
                         /\ Cardinality(Left(edges, n, d, done, 0, 0)) = t.waiting[d]
      /\ \A d \in 1..n : t.waiting[d] = 0 <=> d \in done \cup Elems(t.ready)
      /\ Distinct(order)
      /\ \A k \in 1..Len(order) : \A p \in Slots(edges, n, order[k]) :
            \E j \in 1..(k - 1) : order[j] = p[1]
  BY <1>5 DEF RoundInv
<1> HIDE DEF edges
<1>8. ASSUME NEW c \in 1..n, NEW d \in 1..n, Feeds(f, c, d)
      PROVE  \E p \in Slots(edges, n, d) : p[1] = c
  <2>1. PICK x \in 1..Len(edges[c]) : edges[c][x] = d
    BY <1>4, <1>8
  <2>2. edges[c] \in Seq(1..n)
    BY <1>2
  <2>3. x \in Nat
    BY <2>1, <2>2
  <2>4. <<c, x>> \in (1..n) \X Nat
    BY <2>3
  <2>5. <<c, x>> \in Slots(edges, n, d)
    BY <2>1, <2>4 DEF Slots
  <2> QED BY <2>5
<1>9. ASSUME NEW d \in 1..n, NEW p \in Slots(edges, n, d)
      PROVE  p[1] \in 1..n /\ Feeds(f, p[1], d)
  <2>1. p[1] \in 1..n /\ p[2] \in 1..Len(edges[p[1]]) /\ edges[p[1]][p[2]] = d
    BY DEF Slots
  <2> QED BY <1>4, <2>1
<1> HIDE DEF order
<1>10. order \in Seq(1..n) /\ Len(order) \in Nat /\ \A k \in 1..Len(order) : order[k] \in 1..n
  <2>1. order \in Seq(1..n)
    BY <1>6 DEF order
  <2> QED BY <1>2, <2>1
<1>11. ASSUME NEW k \in 1..Len(order), NEW c \in 1..n, Feeds(f, c, order[k])
       PROVE  \E j \in 1..(k - 1) : order[j] = c
  <2>1. PICK p \in Slots(edges, n, order[k]) : p[1] = c
    BY <1>8, <1>10, <1>11
  <2> QED BY <1>7, <2>1
<1>12. Cardinality(done) = Len(order) /\ (Len(order) = n <=> done = 1..n)
  BY <1>2, <1>7, <1>10, DistinctElems
<1>13. ASSUME Len(order) = n PROVE Acyclic(f)
  <2> SUFFICES ASSUME NEW S \in SUBSET (1..n), S # {}
               PROVE  \E d \in S : \A c \in S : ~ Feeds(f, c, d)
    BY DEF Acyclic, n
  <2> DEFINE T == {k \in 1..Len(order) : order[k] \in S}
  <2>1. T # {}
    <3>1. PICK d \in S : TRUE
      OBVIOUS
    <3>2. d \in done
      BY <1>12, <1>13
    <3> QED BY <3>2 DEF Elems
  <2>2. T \in SUBSET Nat
    BY <1>10
  <2>3. PICK k \in T : \A y \in T : k <= y
    <3> HIDE DEF T
    <3> QED BY <2>1, <2>2, LeastElement
  <2>4. ASSUME NEW c \in S, Feeds(f, c, order[k]) PROVE FALSE
    <3>1. PICK j \in 1..(k - 1) : order[j] = c
      BY <1>11, <2>4
    <3>2. j \in T /\ j < k
      BY <1>10, <3>1
    <3> QED BY <2>3, <3>2
  <2> QED BY <2>4
<1>14. ASSUME Acyclic(f) PROVE Len(order) = n
  <2> SUFFICES ASSUME Len(order) # n PROVE FALSE
    OBVIOUS
  <2> DEFINE S == (1..n) \ done
  <2>1. t.ready = <<>>
    BY <1>3 DEF order
  <2>2. done \subseteq 1..n
    BY <1>10 DEF Elems
  <2>3. S # {}
    BY <1>12, <2>2
  <2>4. PICK d \in S : \A c \in S : ~ Feeds(f, c, d)
    BY <1>14, <2>3 DEF Acyclic, n
  <2>5. t.waiting[d] # 0
    <3>1. Elems(t.ready) = {}
      BY <2>1 DEF Elems
    <3> QED BY <1>7, <3>1
  <2>6. Left(edges, n, d, done, 0, 0) # {}
    BY <1>7, <2>5, FS_EmptySet
  <2>7. PICK p \in Slots(edges, n, d) : p[1] \notin done
    BY <2>6 DEF Left
  <2>8. p[1] \in S /\ Feeds(f, p[1], d)
    BY <1>9, <2>7
  <2> QED BY <2>4, <2>8
<1> QED
  BY <1>1, <1>7, <1>10, <1>11, <1>13, <1>14 DEF OrderOf, n

-----------------------------------------------------------------------------
(***************************************************************************)
(* The final output, the packed inputs, and the graph that results.        *)
(***************************************************************************)
(* The final output is the one that no pair names.                         *)
LEMMA FinalIs ==
    ASSUME NEW f \in Folder, NEW b \in BindingsType(f),
           GoodPairs(f, Len(f.pairs)), FedRight(f, b, Len(f.pairs))
    PROVE  /\ Cardinality(UnboundOutputs(b)) = 1
           /\ (CHOOSE o \in UnboundOutputs(b) : TRUE) \in 1..Len(b.outputs)
           /\ \A o \in 1..Len(b.outputs) :
                 o = (CHOOSE u \in UnboundOutputs(b) : TRUE)
                    <=> \A j \in 1..Len(f.pairs) : Out(f, j) # o
<1> DEFINE m == Len(b.outputs)
           U == UnboundOutputs(b)
<1>1. m \in Nat /\ b.outputs = StreamOwners(Outs(f.coders)) /\ b.fed \in SUBSET (1..m)
  BY BindingsFields
<1>2. b.outputs \in Seq(1..Len(f.coders))
  BY BindingsFields
<1>3. DOMAIN b.outputs = 1..m
  BY <1>2
<1>4. U = (1..m) \ b.fed
  BY <1>3 DEF UnboundOutputs
<1>5. Len(f.pairs) = m - 1
  BY <1>1 DEF GoodPairs
<1>6. IsFiniteSet(b.fed) /\ Cardinality(b.fed) = m - 1
  BY <1>5 DEF FedRight
<1>7. IsFiniteSet(1..m) /\ Cardinality(1..m) = m
  <2> HIDE DEF m
  <2> QED BY <1>1, FS_Interval
<1>8. IsFiniteSet(U) /\ Cardinality(U) = 1
  <2> HIDE DEF m, U
  <2>1. Cardinality((1..m) \ b.fed) = Cardinality(1..m) - Cardinality((1..m) \cap b.fed)
        /\ IsFiniteSet((1..m) \ b.fed)
    BY <1>6, <1>7, FS_Difference
  <2>2. (1..m) \cap b.fed = b.fed
    BY <1>1
  <2>3. IsFiniteSet(U) /\ Cardinality(U) = m - (m - 1)
    BY <1>4, <1>6, <1>7, <2>1, <2>2, Zenon
  <2>4. m - (m - 1) = 1
    BY <1>1
  <2> QED BY <2>3, <2>4
<1>9. PICK u : U = {u}
  <2> HIDE DEF U
  <2> QED BY <1>8, FS_Singleton
<1>10. (CHOOSE o \in U : TRUE) = u
  BY <1>9
<1>11. \A o \in 1..m : o \notin b.fed <=> \A j \in 1..Len(f.pairs) : Out(f, j) # o
  BY DEF FedRight
<1> HIDE DEF m, U
<1>12. u \in 1..m /\ \A o \in 1..m : o = u <=> o \notin b.fed
  BY <1>4, <1>9
<1>13. \A o \in 1..m : o = u <=> \A j \in 1..Len(f.pairs) : Out(f, j) # o
  BY <1>11, <1>12, Zenon
<1> QED
  BY <1>8, <1>10, <1>12, <1>13 DEF U, m

\* The inputs no pair binds, as the format numbers them.
Free(f) ==
    (0..(StreamTotal(Ins(f.coders))[Len(f.coders)] - 1)) \ {f.pairs[k][1] : k \in 1..Len(f.pairs)}

(* The inputs left unbound are those that no pair names.                   *)
LEMMA FreeIs ==
    ASSUME NEW f \in Folder, NEW b \in BindingsType(f), SourceRight(f, b, Len(f.pairs)),
           GoodPairs(f, Len(f.pairs))
    PROVE  /\ UnboundInputs(b) \subseteq 1..Len(b.inputs)
           /\ Free(f) \subseteq Nat
           /\ \A i \in Nat : i \in Free(f) <=> i + 1 \in UnboundInputs(b)
<1> DEFINE m == Len(b.inputs)
<1>1. /\ m \in Nat /\ b.source \in [1..m -> 0..Len(b.outputs)] /\ Len(b.outputs) \in Nat
      /\ b.inputs = StreamOwners(Ins(f.coders)) /\ b.outputs = StreamOwners(Outs(f.coders))
  BY BindingsFields
<1>2. m = StreamTotal(Ins(f.coders))[Len(f.coders)]
  BY <1>1, OwnersType
<1>3. UnboundInputs(b) = {i \in 1..m : b.source[i] = 0}
  BY <1>1 DEF UnboundInputs
<1> HIDE DEF m
<1>4. \A k \in 1..Len(f.pairs) : f.pairs[k][1] \in Nat /\ In(f, k) = f.pairs[k][1] + 1
  BY PairsType DEF In
<1>5. \A k \in 1..Len(f.pairs) : Out(f, k) \in 1..Len(b.outputs)
  BY <1>1 DEF GoodPairs
<1>6. ASSUME NEW i \in 1..m
      PROVE  b.source[i] = 0 <=> \A k \in 1..Len(f.pairs) : In(f, k) # i
  <2>1. \A o \in 1..Len(b.outputs) :
           b.source[i] = o <=> \E j \in 1..Len(f.pairs) : In(f, j) = i /\ Out(f, j) = o
    BY DEF SourceRight, m
  <2>2. b.source[i] \in 0..Len(b.outputs)
    BY <1>1
  <2>3. ASSUME b.source[i] = 0, NEW k \in 1..Len(f.pairs), In(f, k) = i PROVE FALSE
    <3>1. b.source[i] = Out(f, k) /\ Out(f, k) \in 1..Len(b.outputs)
      BY <1>5, <2>1, <2>3
    <3> QED BY <1>1, <2>3, <3>1
  <2>4. ASSUME b.source[i] # 0 PROVE \E k \in 1..Len(f.pairs) : In(f, k) = i
    <3>1. b.source[i] \in 1..Len(b.outputs)
      BY <1>1, <2>2, <2>4
    <3> QED BY <2>1, <3>1
  <2> QED BY <2>3, <2>4
<1>7. ASSUME NEW i \in Nat
      PROVE  i \in Free(f) <=> i + 1 \in UnboundInputs(b)
  <2>1. i \in 0..(m - 1) <=> i + 1 \in 1..m
    BY <1>1
  <2>2. i \in Free(f) <=> i \in 0..(m - 1) /\ \A k \in 1..Len(f.pairs) : f.pairs[k][1] # i
    BY <1>2 DEF Free
  <2>3. \A k \in 1..Len(f.pairs) : f.pairs[k][1] = i <=> In(f, k) = i + 1
    BY <1>4
  <2> QED BY <1>3, <1>6, <2>1, <2>2, <2>3
<1>8. Free(f) \subseteq Nat
  BY <1>1, <1>2 DEF Free
<1> QED
  BY <1>3, <1>7, <1>8 DEF m

\* The packed streams are the ones the folder needs.
PackedRight(f) ==
    IF f.packed = <<>> THEN Cardinality(Free(f)) = 1
    ELSE ToSet(f.packed) = Free(f) /\ IsInjective(f.packed)

\* Which input each packed stream is read by.
PackedSlots(f, packed) ==
    /\ packed \in Seq(Nat)
    /\ \A i \in Nat : i \in Free(f) <=> \E k \in 1..Len(packed) : packed[k] = i + 1
    /\ Distinct(packed)
    /\ IF f.packed = <<>> THEN Len(packed) = 1
       ELSE Len(packed) = Len(f.packed) /\ \A k \in 1..Len(packed) : packed[k] = f.packed[k] + 1

(* The packed inputs are accepted when they are the free ones, each once.  *)
LEMMA PackedIs ==
    ASSUME NEW f \in Folder, NEW b \in BindingsType(f), SourceRight(f, b, Len(f.pairs)),
           GoodPairs(f, Len(f.pairs))
    PROVE  LET packed == PackedInputs(b, f.packed)
           IN  /\ packed # <<>> <=> PackedRight(f)
               /\ PackedRight(f) => PackedSlots(f, packed)
<1> DEFINE U == UnboundInputs(b)
           F == Free(f)
           p == f.packed
           n == Len(p)
           listed == [k \in DOMAIN p |-> p[k] + 1]
           packed == PackedInputs(b, p)
<1>1. U \subseteq 1..Len(b.inputs) /\ F \subseteq Nat /\ \A i \in Nat : i \in F <=> i + 1 \in U
  BY FreeIs
<1>2. p \in Seq(Nat)
  BY DEF Folder
<1>3. U \subseteq Nat /\ 0 \notin U
  BY <1>1
<1> HIDE DEF U, F, p
<1>4. n \in Nat /\ DOMAIN p = 1..n /\ \A k \in 1..n : p[k] \in Nat
  BY <1>2
<1>5. CASE p = <<>>
  <2>1. packed = IF Cardinality(U) = 1 THEN <<CHOOSE i \in U : TRUE>> ELSE <<>>
    BY <1>5 DEF PackedInputs, U
  <2> DEFINE g == [i \in F |-> i + 1]
  <2>2. g \in Bijection(F, U)
    <3>1. g \in [F -> U] /\ \A i, j \in F : g[i] = g[j] => i = j
      BY <1>1
    <3>2. ASSUME NEW u \in U PROVE \E i \in F : g[i] = u
      <4>1. u - 1 \in Nat /\ (u - 1) + 1 = u
        BY <1>3
      <4>2. u - 1 \in F /\ g[u - 1] = u
        BY <1>1, <4>1
      <4> QED BY <4>2
    <3> HIDE DEF g
    <3> QED BY <3>1, <3>2 DEF Bijection, Injection, Surjection, IsInjective
  <2>3. IsFiniteSet(U)
    <3>1. IsFiniteSet(1..Len(b.inputs))
      <4>1. Len(b.inputs) \in Nat
        BY BindingsFields
      <4> QED BY <4>1, FS_Interval
    <3> QED BY <1>1, <3>1, FS_Subset
  <2>4. IsFiniteSet(F) /\ Cardinality(F) = Cardinality(U)
    <3> HIDE DEF g
    <3>1. ExistsBijection(F, U)
      BY <2>2, Fun_ExistsBij
    <3>2. ExistsBijection(U, F)
      BY <3>1, Fun_ExistsBijSymmetric
    <3> QED BY <2>3, <3>2, FS_Bijection
  <2>5. PackedRight(f) <=> Cardinality(U) = 1
    BY <1>5, <2>4 DEF PackedRight, F, p
  <2>6. CASE Cardinality(U) # 1
    <3>1. packed = <<>>
      BY <2>1, <2>6
    <3> QED BY <2>5, <2>6, <3>1 DEF p
  <2>7. CASE Cardinality(U) = 1
    <3>1. PICK u : U = {u}
      BY <2>3, <2>7, FS_Singleton
    <3>2. (CHOOSE i \in U : TRUE) = u
      BY <3>1
    <3>3. packed = <<u>>
      BY <2>1, <2>7, <3>2
    <3>4. u \in Nat /\ u # 0
      BY <1>3, <3>1
    <3> HIDE DEF packed
    <3>5. packed \in Seq(Nat) /\ Len(packed) = 1 /\ packed # <<>> /\ packed[1] = u /\ Distinct(packed)
      BY <3>3, <3>4 DEF Distinct
    <3>6. ASSUME NEW i \in Nat PROVE i \in F <=> \E k \in 1..Len(packed) : packed[k] = i + 1
      BY <1>1, <3>1, <3>5
    <3>7. PackedSlots(f, packed)
      BY <1>5, <3>5, <3>6 DEF PackedSlots, F, p
    <3> QED BY <2>5, <2>7, <3>5, <3>7 DEF packed, p
  <2> QED BY <2>6, <2>7
<1>6. CASE p # <<>>
  <2>1. packed = IF IsInjective(listed) /\ ToSet(listed) = U THEN listed ELSE <<>>
    BY <1>6 DEF PackedInputs, U
  <2>2. /\ listed \in Seq(Nat) /\ Len(listed) = n /\ DOMAIN listed = 1..n
        /\ \A k \in 1..n : listed[k] = p[k] + 1
    BY <1>4
  <2> HIDE DEF listed
  <2>3. IsInjective(listed) <=> IsInjective(p)
    BY <1>4, <2>2, SMTT(30) DEF IsInjective
  <2>4. ToSet(listed) = {listed[k] : k \in 1..n} /\ ToSet(p) = {p[k] : k \in 1..n}
    BY <1>4, <2>2 DEF ToSet
  <2>5. ToSet(listed) = U <=> ToSet(p) = F
    <3>1. ASSUME ToSet(listed) = U PROVE ToSet(p) = F
      <4>1. ASSUME NEW k \in 1..n PROVE p[k] \in F
        BY <1>1, <1>4, <2>2, <2>4, <3>1
      <4>2. ASSUME NEW i \in F PROVE \E k \in 1..n : p[k] = i
        <5>1. i \in Nat /\ i + 1 \in U
          BY <1>1
        <5>2. PICK k \in 1..n : listed[k] = i + 1
          BY <2>4, <3>1, <5>1
        <5> QED BY <1>4, <2>2, <5>1, <5>2
      <4> QED BY <2>4, <4>1, <4>2
    <3>2. ASSUME ToSet(p) = F PROVE ToSet(listed) = U
      <4>1. ASSUME NEW k \in 1..n PROVE listed[k] \in U
        BY <1>1, <1>4, <2>2, <2>4, <3>2
      <4>2. ASSUME NEW u \in U PROVE \E k \in 1..n : listed[k] = u
        <5>1. u - 1 \in Nat /\ (u - 1) + 1 = u
          BY <1>3
        <5>2. u - 1 \in F
          BY <1>1, <5>1
        <5>3. PICK k \in 1..n : p[k] = u - 1
          BY <2>4, <3>2, <5>2
        <5> QED BY <1>4, <2>2, <5>1, <5>3
      <4> QED BY <2>4, <4>1, <4>2
    <3> QED BY <3>1, <3>2
  <2>6. PackedRight(f) <=> IsInjective(listed) /\ ToSet(listed) = U
    BY <1>6, <2>3, <2>5 DEF PackedRight, F, p
  <2>7. listed # <<>>
    <3>1. n # 0
      BY <1>2, <1>6
    <3> QED BY <2>2, <3>1
  <2>8. packed # <<>> <=> PackedRight(f)
    BY <2>1, <2>6, <2>7
  <2>9. ASSUME PackedRight(f) PROVE PackedSlots(f, packed)
    <3>1. packed = listed
      BY <2>1, <2>6, <2>9
    <3>2. Distinct(listed)
      BY <2>2, <2>6, <2>9 DEF Distinct, IsInjective
    <3>3. ASSUME NEW i \in Nat PROVE i \in F <=> \E k \in 1..n : listed[k] = i + 1
      BY <1>1, <2>4, <2>6, <2>9
    <3> HIDE DEF packed
    <3> QED BY <1>6, <2>2, <3>1, <3>2, <3>3 DEF PackedSlots, F, p
  <2> QED BY <2>8, <2>9 DEF p
<1> QED
  BY <1>5, <1>6

\* Every pair names streams that exist, each at most once.
PairsFit(f) ==
    LET ins  == StreamTotal(Ins(f.coders))[Len(f.coders)]
        outs == StreamTotal(Outs(f.coders))[Len(f.coders)]
    IN  /\ Len(f.pairs) = outs - 1
        /\ \A k \in 1..Len(f.pairs) : f.pairs[k][1] < ins /\ f.pairs[k][2] < outs
        /\ \A j, k \in 1..Len(f.pairs) :
              j # k => f.pairs[j][1] # f.pairs[k][1] /\ f.pairs[j][2] # f.pairs[k][2]

(* The pairs are bound when every stream exists and is named once.         *)
LEMMA PairsAre ==
    ASSUME NEW f \in Folder
    PROVE  /\ GoodPairs(f, Len(f.pairs)) => PairsFit(f)
           /\ PairsFit(f) /\ Acyclic(f) => GoodPairs(f, Len(f.pairs))
<1> DEFINE b == Bindings(f)
           m == Len(f.pairs)
           i == Len(b.inputs)
           o == Len(b.outputs)
<1>1. b \in BindingsType(f)
  BY BindingsRight
<1> HIDE DEF b
<1>2. /\ i \in Nat /\ o \in Nat
      /\ b.inputs = StreamOwners(Ins(f.coders)) /\ b.outputs = StreamOwners(Outs(f.coders))
      /\ \A x \in 1..i : b.inputs[x] \in 1..Len(f.coders)
      /\ \A x \in 1..o : b.outputs[x] \in 1..Len(f.coders)
  BY <1>1, BindingsFields
<1>3. i = StreamTotal(Ins(f.coders))[Len(f.coders)] /\ o = StreamTotal(Outs(f.coders))[Len(f.coders)]
  BY <1>2, OwnersType
<1>4. m \in Nat /\ \A k \in 1..m : /\ f.pairs[k][1] \in Nat /\ f.pairs[k][2] \in Nat
                                   /\ In(f, k) = f.pairs[k][1] + 1 /\ Out(f, k) = f.pairs[k][2] + 1
  BY PairsType DEF In, Out
<1>5. \A k \in 1..m : /\ In(f, k) \in 1..i <=> f.pairs[k][1] < i
                      /\ Out(f, k) \in 1..o <=> f.pairs[k][2] < o
  <2> HIDE DEF m, i, o
  <2> QED BY <1>2, <1>4, SMTT(30)
<1>6. \A j, k \in 1..m : /\ In(f, j) = In(f, k) <=> f.pairs[j][1] = f.pairs[k][1]
                         /\ Out(f, j) = Out(f, k) <=> f.pairs[j][2] = f.pairs[k][2]
  <2> HIDE DEF m, i, o
  <2> QED BY <1>4
<1>7. PairsFit(f) <=> /\ m = o - 1
                      /\ \A k \in 1..m : In(f, k) \in 1..i /\ Out(f, k) \in 1..o
                      /\ \A j, k \in 1..m : j # k => In(f, j) # In(f, k) /\ Out(f, j) # Out(f, k)
  <2>1. PairsFit(f) <=> /\ m = o - 1
                        /\ \A k \in 1..m : f.pairs[k][1] < i /\ f.pairs[k][2] < o
                        /\ \A j, k \in 1..m :
                              j # k => f.pairs[j][1] # f.pairs[k][1] /\ f.pairs[j][2] # f.pairs[k][2]
    BY <1>3, Zenon DEF PairsFit
  <2> HIDE DEF m, i, o
  <2> QED BY <1>5, <1>6, <2>1, Zenon
<1>8. GoodPairs(f, m) <=> /\ PairsFit(f)
                          /\ \A k \in 1..m : b.inputs[In(f, k)] # b.outputs[Out(f, k)]
  <2>1. GoodPairs(f, m) <=>
            /\ m = o - 1
            /\ \A j \in 1..m : /\ In(f, j) \in 1..i
                               /\ Out(f, j) \in 1..o
                               /\ b.inputs[In(f, j)] # b.outputs[Out(f, j)]
            /\ \A k, j \in 1..m : k # j => In(f, k) # In(f, j) /\ Out(f, k) # Out(f, j)
    BY <1>2, Zenon DEF GoodPairs
  <2> HIDE DEF m, i, o
  <2> QED BY <1>7, <2>1, Zenon
<1>9. ASSUME PairsFit(f), Acyclic(f), NEW k \in 1..m, b.inputs[In(f, k)] = b.outputs[Out(f, k)]
      PROVE  FALSE
  <2> DEFINE c == b.outputs[Out(f, k)]
  <2>1. In(f, k) \in 1..i /\ Out(f, k) \in 1..o
    BY <1>7, <1>9
  <2>2. c \in 1..Len(f.coders)
    BY <1>2, <2>1
  <2>3. In(f, k) - 1 = f.pairs[k][1] /\ Out(f, k) - 1 = f.pairs[k][2]
    BY <1>4
  <2>4. Owner(Ins(f.coders), f.pairs[k][1]) = c /\ Owner(Outs(f.coders), f.pairs[k][2]) = c
    BY <1>1, <1>9, <2>1, <2>3, OwnerIs
  <2> HIDE DEF c
  <2>5. Feeds(f, c, c)
    BY <2>4 DEF Feeds, m
  <2>6. {c} \in SUBSET (1..Len(f.coders)) /\ {c} # {}
    BY <2>2
  <2>7. PICK d \in {c} : \A e \in {c} : ~ Feeds(f, e, d)
    BY <1>9, <2>6 DEF Acyclic
  <2> QED BY <2>5, <2>7
<1> QED
  BY <1>8, <1>9

\* Faulty sizes are refused before anything is bound.
Fits(f) ==
    /\ \A c \in 1..Len(f.coders) : StreamArity(f.coders[c])
    /\ StreamTotal(Ins(f.coders))[Len(f.coders)] <= MaxFolderStreams
    /\ StreamTotal(Outs(f.coders))[Len(f.coders)] \in 1..MaxFolderStreams

GraphOf(f) ==
    LET b == Bindings(f)
    IN  [ok      |-> TRUE,
         order   |-> ExecutionOrder(b),
         packed  |-> PackedInputs(b, f.packed),
         final   |-> CHOOSE o \in UnboundOutputs(b) : TRUE,
         inputs  |-> b.inputs,
         outputs |-> b.outputs,
         source  |-> b.source]

(* Folder::graph accepts the well-formed folders, with the graph GraphOf.  *)
LEMMA GraphIs ==
    ASSUME NEW f \in Folder
    PROVE  /\ WellFormed(f) => Bindings(f).ok /\ Graph(f) = GraphOf(f)
           /\ ~ WellFormed(f) => Graph(f) = NoGraph
<1> DEFINE b == Bindings(f)
           m == Len(f.pairs)
           Arities == \A c \in 1..Len(f.coders) : StreamArity(f.coders[c])
           Sized == /\ Len(b.inputs) <= MaxFolderStreams
                    /\ Len(b.outputs) \in 1..MaxFolderStreams
           One == Cardinality(UnboundOutputs(b)) = 1
           packed == PackedInputs(b, f.packed)
           order == ExecutionOrder(b)
           accepted == Sized /\ b.ok /\ One /\ packed # <<>> /\ Len(order) = Len(f.coders)
<1>1. b \in BindingsType(f) /\ BindInv(f, b, m)
  BY BindingsRight
<1>2. DOMAIN f.coders = 1..Len(f.coders)
  <2>1. f.coders \in Seq(Coder)
    BY DEF Folder
  <2> QED BY <2>1
<1>3. Graph(f) = IF ~ Arities THEN NoGraph ELSE IF accepted THEN GraphOf(f) ELSE NoGraph
  <2>1. Arities <=> ~ \E c \in DOMAIN f.coders : ~ StreamArity(f.coders[c])
    BY <1>2
  <2> HIDE DEF Arities
  <2> QED BY <2>1, Zenon DEF Graph, GraphOf
<1> HIDE DEF b
<1>4. /\ Len(b.inputs) = StreamTotal(Ins(f.coders))[Len(f.coders)]
      /\ Len(b.outputs) = StreamTotal(Outs(f.coders))[Len(f.coders)]
  <2>1. b.inputs = StreamOwners(Ins(f.coders)) /\ b.outputs = StreamOwners(Outs(f.coders))
    BY <1>1, BindingsFields
  <2> QED BY <2>1, OwnersType
<1>5. WellFormed(f) <=> Arities /\ Sized /\ PairsFit(f) /\ PackedRight(f) /\ Acyclic(f)
  <2>1. WellFormed(f) <=> Fits(f) /\ PairsFit(f) /\ PackedRight(f) /\ Acyclic(f)
    BY Zenon DEF WellFormed, PairsFit, PackedRight, Free, Fits
  <2>2. Fits(f) <=> Arities /\ Sized
    BY <1>4 DEF Fits
  <2> HIDE DEF Arities, Sized
  <2> QED BY <2>1, <2>2
<1>6. CASE b.ok
  <2>1. /\ GoodPairs(f, m) /\ SourceRight(f, b, m) /\ FedRight(f, b, m)
        /\ EdgesRight(f, b, m) /\ DegreeRight(f, b)
    BY <1>1, <1>6 DEF BindInv
  <2>2. One
    BY <1>1, <2>1, FinalIs
  <2>3. packed # <<>> <=> PackedRight(f)
    BY <1>1, <2>1, PackedIs
  <2>4. OrderOf(f, order)
    BY <1>1, <2>1, OrderIs
  <2>5. Len(order) = Len(f.coders) <=> Acyclic(f)
    <3> HIDE DEF order
    <3> QED BY <2>4 DEF OrderOf
  <2>6. PairsFit(f)
    BY <2>1, PairsAre
  <2>7. WellFormed(f) <=> Arities /\ accepted
    <3> HIDE DEF Arities, Sized, One, packed, order
    <3> QED BY <1>5, <1>6, <2>2, <2>3, <2>5, <2>6
  <2> HIDE DEF Arities, accepted
  <2> QED BY <1>3, <1>6, <2>7 DEF b
<1>7. CASE ~ b.ok
  <2>1. ~ GoodPairs(f, m)
    BY <1>1, <1>7 DEF BindInv
  <2>2. ~ WellFormed(f)
    BY <1>5, <2>1, PairsAre
  <2>3. ~ accepted
    BY <1>7
  <2> HIDE DEF Arities, accepted
  <2> QED BY <1>3, <2>2, <2>3 DEF b
<1> QED
  BY <1>6, <1>7

-----------------------------------------------------------------------------
(***************************************************************************)
(* The graph of a well-formed folder is sound, and so is every graph.      *)
(***************************************************************************)
\* GraphIsSound, said of a folder and its graph.
SoundGraph(f, g) ==
    LET coders == 1..Len(f.coders)
        Place(c) == CHOOSE k \in DOMAIN g.order : g.order[k] = c
    IN  /\ Len(g.order) = Len(f.coders) /\ ToSet(g.order) = coders
        /\ \A c, d \in coders : Feeds(f, c, d) => Place(c) < Place(d)
        /\ \A k \in DOMAIN f.pairs : f.pairs[k][2] # g.final - 1
        /\ \A R \in SUBSET coders :
              /\ Owner(Outs(f.coders), g.final - 1) \in R
              /\ \A c \in coders, d \in R : Feeds(f, c, d) => c \in R
              => R = coders

\* Each coder has an output: the first is the one after those of the coders before.
LEMMA HasOutput ==
    ASSUME NEW f \in Folder, NEW b \in BindingsType(f), NEW c \in 1..Len(f.coders),
           f.coders[c].outs >= 1
    PROVE  \E o \in 1..Len(b.outputs) : b.outputs[o] = c
<1> DEFINE counts == Outs(f.coders)
           n == Len(counts)
           T == StreamTotal(counts)
           owners == StreamOwners(counts)
<1>1. counts \in Seq(Nat) /\ n = Len(f.coders) /\ counts[c] = f.coders[c].outs /\ n \in Nat
  BY CountsType
<1>2. b.outputs = owners
  BY BindingsFields
<1>8. counts[c] \in Nat
  BY <1>1
<1> HIDE DEF counts
<1>3. /\ T \in [0..n -> Nat] /\ \A d \in 1..n : T[d] = T[d - 1] + counts[d]
      /\ Len(owners) = T[n]
      /\ \A j \in 1..T[n], d \in 1..n : owners[j] = d <=> (T[d - 1] < j /\ j <= T[d])
  BY <1>1, OwnersAre
<1>4. T[c] <= T[n]
  BY <1>1, TotalsGrow
<1> HIDE DEF n, T, owners
<1>5. c \in 1..n /\ c - 1 \in 0..n /\ T[c - 1] \in Nat /\ T[c] = T[c - 1] + counts[c] /\ T[n] \in Nat
  <2>1. c \in 1..n /\ c - 1 \in 0..n /\ c \in 0..n /\ n \in 0..n
    BY <1>1
  <2> QED BY <1>3, <2>1
<1>6. T[c - 1] + 1 \in 1..T[n] /\ T[c - 1] < T[c - 1] + 1 /\ T[c - 1] + 1 <= T[c]
  <2> DEFINE a == T[c - 1]
             e == counts[c]
             z == T[n]
  <2>1. a \in Nat /\ e \in Nat /\ e >= 1 /\ z \in Nat /\ T[c] = a + e /\ a + e <= z
    BY <1>1, <1>4, <1>5, <1>8
  <2> HIDE DEF a, e, z
  <2>2. a + 1 \in 1..z /\ a < a + 1 /\ a + 1 <= a + e
    BY <2>1
  <2> QED BY <2>1, <2>2 DEF a, e, z
<1>7. owners[T[c - 1] + 1] = c
  BY <1>3, <1>5, <1>6
<1> QED
  BY <1>2, <1>3, <1>6, <1>7

(* GraphIsSound, for the graph of a well-formed folder.                    *)
LEMMA GraphSound ==
    ASSUME NEW f \in Folder, WellFormed(f)
    PROVE  SoundGraph(f, GraphOf(f))
<1> DEFINE b == Bindings(f)
           g == GraphOf(f)
           m == Len(f.pairs)
           n == Len(f.coders)
           order == ExecutionOrder(b)
           final == CHOOSE o \in UnboundOutputs(b) : TRUE
           Place(c) == CHOOSE k \in DOMAIN order : order[k] = c
<1>1. b \in BindingsType(f) /\ BindInv(f, b, m) /\ b.ok
  BY BindingsRight, GraphIs
<1>2. /\ GoodPairs(f, m) /\ SourceRight(f, b, m) /\ FedRight(f, b, m)
      /\ EdgesRight(f, b, m) /\ DegreeRight(f, b)
  <2> HIDE DEF b
  <2> QED BY <1>1 DEF BindInv
<1>3. g.order = order /\ g.final = final
  BY DEF GraphOf
<1>4. \A c \in 1..n : f.coders[c].outs >= 1
  <2>1. \A c \in 1..n : StreamArity(f.coders[c])
    BY DEF WellFormed
  <2> QED BY <2>1, ArityAssumption DEF StreamArity
<1>5. n \in Nat /\ m \in Nat
  BY CountsType, PairsType
<1> HIDE DEF b, g, n
<1>6. OrderOf(f, order)
  BY <1>1, <1>2, OrderIs
<1>7. /\ final \in 1..Len(b.outputs)
      /\ \A o \in 1..Len(b.outputs) : o = final <=> \A j \in 1..m : Out(f, j) # o
  BY <1>1, <1>2, FinalIs
<1> HIDE DEF order, final
<1>8. /\ order \in Seq(1..n) /\ Distinct(order) /\ Len(order) = n
      /\ \A k \in 1..n, c \in 1..n : Feeds(f, c, order[k]) => \E j \in 1..(k - 1) : order[j] = c
  <2>1. Acyclic(f)
    BY DEF WellFormed
  <2> QED BY <1>6, <2>1 DEF OrderOf, n
<1>9. Elems(order) = 1..n
  BY <1>5, <1>8, DistinctElems
<1>10. DOMAIN order = 1..n /\ \A k \in 1..n : order[k] \in 1..n
  BY <1>5, <1>8
<1>11. ToSet(order) = 1..n
  BY <1>8, <1>9, <1>10 DEF ToSet, Elems
<1>12. \A c \in 1..n : \E k \in 1..n : order[k] = c
  BY <1>8, <1>9 DEF Elems
<1>13. \A c \in 1..n : Place(c) \in 1..n /\ order[Place(c)] = c
  BY <1>10, <1>12
<1>14. \A j, k \in 1..n : order[j] = order[k] => j = k
  BY <1>8 DEF Distinct
<1> HIDE DEF Place
<1>15. ASSUME NEW c \in 1..n, NEW d \in 1..n, Feeds(f, c, d) PROVE Place(c) < Place(d)
  <2>1. PICK j \in 1..(Place(d) - 1) : order[j] = c
    BY <1>8, <1>13, <1>15, SMTT(30)
  <2>2. j \in 1..n
    BY <1>5, <1>13, <2>1
  <2>3. j = Place(c)
    BY <1>13, <1>14, <2>1, <2>2
  <2> QED BY <1>5, <1>13, <2>1, <2>3
<1>16. ASSUME NEW k \in DOMAIN f.pairs PROVE f.pairs[k][2] # final - 1
  <2>1. f.pairs \in Seq(Nat \X Nat)
    BY DEF Folder
  <2>2. k \in 1..m
    BY <2>1
  <2>3. Out(f, k) # final
    BY <1>7, <2>2
  <2>4. f.pairs[k][2] \in Nat /\ Out(f, k) = f.pairs[k][2] + 1
    BY <2>2, PairsType DEF Out
  <2>5. final \in Nat
    <3>1. Len(b.outputs) \in Nat
      BY <1>1, BindingsFields
    <3> QED BY <1>7, <3>1
  <2> QED BY <2>3, <2>4, <2>5
<1>17. Owner(Outs(f.coders), final - 1) = b.outputs[final]
  BY <1>1, <1>7, OwnerIs
<1>18. ASSUME NEW R \in SUBSET (1..n), b.outputs[final] \in R,
              \A c \in 1..n, d \in R : Feeds(f, c, d) => c \in R
       PROVE  R = 1..n
  <2> SUFFICES ASSUME R # 1..n PROVE FALSE
    OBVIOUS
  <2> DEFINE T == {n - k : k \in {x \in 1..n : order[x] \notin R}}
  <2>1. T # {}
    <3>1. PICK c \in 1..n : c \notin R
      OBVIOUS
    <3>2. PICK k \in 1..n : order[k] = c
      BY <1>12
    <3> QED BY <3>1, <3>2
  <2>2. T \in SUBSET Nat
    BY <1>5
  <2>3. PICK x \in T : \A y \in T : x <= y
    <3> HIDE DEF T
    <3> QED BY <2>1, <2>2, LeastElement
  <2>4. PICK k \in 1..n : order[k] \notin R /\ x = n - k
    BY <2>3
  <2>5. \A l \in 1..n : order[l] \notin R => l <= k
    <3> SUFFICES ASSUME NEW l \in 1..n, order[l] \notin R PROVE l <= k
      OBVIOUS
    <3>1. n - l \in T
      OBVIOUS
    <3>2. n - k <= n - l
      BY <2>3, <2>4, <3>1
    <3> QED BY <1>5, <3>2
  <2> DEFINE c == order[k]
  <2>6. c \in 1..n /\ c \notin R
    BY <1>10, <2>4
  <2> HIDE DEF c
  <2>7. PICK o \in 1..Len(b.outputs) : b.outputs[o] = c
    <3>1. f.coders[c].outs >= 1
      BY <1>4, <2>6
    <3> QED BY <1>1, <2>6, <3>1, HasOutput DEF n
  <2>8. o # final
    BY <1>18, <2>6, <2>7
  <2>9. PICK j \in 1..m : Out(f, j) = o
    BY <1>7, <2>8
  <2> DEFINE d == b.inputs[In(f, j)]
  <2>10. In(f, j) \in 1..Len(b.inputs) /\ d \in 1..n
    <3>1. /\ b.inputs = StreamOwners(Ins(f.coders))
          /\ \A i \in 1..Len(b.inputs) : b.inputs[i] \in 1..n
      BY <1>1, BindingsFields DEF n
    <3>2. In(f, j) \in 1..Len(b.inputs)
      BY <1>2, <3>1 DEF GoodPairs
    <3> QED BY <3>1, <3>2
  <2>11. Feeds(f, c, d)
    <3>1. Owner(Ins(f.coders), In(f, j) - 1) = d /\ Owner(Outs(f.coders), Out(f, j) - 1) = c
      BY <1>1, <2>7, <2>9, <2>10, OwnerIs
    <3>2. In(f, j) - 1 = f.pairs[j][1] /\ Out(f, j) - 1 = f.pairs[j][2]
      BY PairsType DEF In, Out
    <3> HIDE DEF d
    <3> QED BY <3>1, <3>2 DEF Feeds
  <2> HIDE DEF d
  <2>12. PICK l \in 1..n : order[l] = d
    BY <1>12, <2>10
  <2>13. PICK p \in 1..(l - 1) : order[p] = c
    BY <1>8, <2>6, <2>11, <2>12
  <2>14. p = k /\ k < l
    <3>1. p \in 1..n /\ p < l
      BY <1>5, <2>13
    <3> QED BY <1>14, <2>13, <3>1 DEF c
  <2>15. d \in R
    BY <2>5, <2>12, <2>14
  <2> QED BY <1>18, <2>6, <2>11, <2>15
<1> DEFINE coders == 1..n
           PlaceIn(c) == CHOOSE k \in DOMAIN g.order : g.order[k] = c
<1>19. Len(g.order) = n /\ ToSet(g.order) = coders
  BY <1>3, <1>8, <1>11
<1>20. \A c, d \in coders : Feeds(f, c, d) => PlaceIn(c) < PlaceIn(d)
  BY <1>3, <1>15 DEF Place
<1>21. \A k \in DOMAIN f.pairs : f.pairs[k][2] # g.final - 1
  BY <1>3, <1>16
<1>22. \A R \in SUBSET coders :
          /\ Owner(Outs(f.coders), g.final - 1) \in R
          /\ \A c \in coders, d \in R : Feeds(f, c, d) => c \in R
          => R = coders
  BY <1>3, <1>17, <1>18
<1> QED
  BY <1>19, <1>20, <1>21, <1>22, Zenon DEF SoundGraph, n, g

\* The folder is one of those declared, and its graph the one resolved from it.
GraphInv ==
    /\ folder \in Folders
    /\ status # "declared" => graph = Graph(folder)

(* The graph is the one of the folder from the moment it is resolved.      *)
LEMMA GraphInvHolds == Spec => []GraphInv
<1>1. Init => GraphInv
  BY DEF Init, GraphInv
<1>2. GraphInv /\ [Next]_vars => GraphInv'
  <2> SUFFICES ASSUME GraphInv, [Next]_vars PROVE GraphInv'
    OBVIOUS
  <2>1. CASE Resolve
    BY <2>1 DEF Resolve, GraphInv
  <2>2. ASSUME NEW declared, NEW packed, NEW unpack, Compile(declared, packed, unpack)
        PROVE  GraphInv'
    BY <2>2 DEF Compile, GraphInv
  <2>3. CASE Open
    BY <2>3 DEF Open, GraphInv
  <2>4. CASE Start
    BY <2>4 DEF Start, GraphInv
  <2>5. CASE UNCHANGED vars
    BY <2>5 DEF vars, GraphInv
  <2> QED BY <2>1, <2>2, <2>3, <2>4, <2>5 DEF Next, Done
<1> QED
  BY <1>1, <1>2, PTL DEF Spec

(* Folder::graph, for every folder: it accepts exactly the well-formed     *)
(* folders, and the graph it returns for them is sound.                    *)
THEOREM GraphsAreSound == Spec => []GraphIsSound
<1>1. GraphInv => GraphIsSound
  <2> SUFFICES ASSUME GraphInv, status # "declared" PROVE
                 /\ graph.ok <=> WellFormed(folder)
                 /\ graph.ok => SoundGraph(folder, graph)
    BY Zenon DEF GraphIsSound, SoundGraph, Position, FinalOwner
  <2>1. folder \in Folder /\ graph = Graph(folder)
    BY FoldersAssumption DEF GraphInv
  <2>2. CASE WellFormed(folder)
    <3>1. graph = GraphOf(folder) /\ SoundGraph(folder, GraphOf(folder))
      BY <2>1, <2>2, GraphIs, GraphSound
    <3>2. GraphOf(folder).ok = TRUE
      BY DEF GraphOf
    <3> QED BY <2>2, <3>1, <3>2, Zenon
  <2>3. CASE ~ WellFormed(folder)
    <3>1. graph = NoGraph
      BY <2>1, <2>3, GraphIs
    <3> QED BY <2>3, <3>1 DEF NoGraph
  <2> QED BY <2>2, <2>3
<1> QED
  BY <1>1, GraphInvHolds, PTL

-----------------------------------------------------------------------------
(***************************************************************************)
(* Sizes: reconciling what is declared with what a coder preserves.        *)
(***************************************************************************)
(* Sizes *)
LEMMA ReconcileIs ==
    ASSUME NEW a \in Int, NEW b \in Int
    PROVE  /\ Reconcile(a, b) \in Int
           /\ a # Unknown /\ Reconcile(a, b) # Clash => Reconcile(a, b) = a
           /\ b # Unknown /\ Reconcile(a, b) # Clash => Reconcile(a, b) = b
           /\ a = Unknown /\ b = Unknown => Reconcile(a, b) = Unknown
BY DEF Reconcile, Clash, Unknown

StepOutput(c, size, input) ==
    IF folder.coders[c].method \in Preserving THEN Reconcile(size, input) ELSE size

(* A step of a plan.                                                       *)
LEMMA BindSizeIs ==
    ASSUME NEW c, NEW size, NEW input
    PROVE  /\ BindSize(c, size, input).coder = c
           /\ BindSize(c, size, input).input = input
           /\ BindSize(c, size, input).output = StepOutput(c, size, input)
BY DEF BindSize, StepOutput

StepsOf(steps, n, coders, sizes, input) ==
    /\ Len(steps) = n /\ DOMAIN steps = 1..n
    /\ \A k \in 1..n :
          /\ steps[k] = BindSize(coders[k], sizes[k], IF k = 1 THEN input ELSE steps[k - 1].output)
          /\ steps[k].output \in Int

(* The steps of a list of coders, each reading what the last one writes.   *)
LEMMA BindSizesIs ==
    ASSUME NEW n \in Nat, NEW coders, Len(coders) = n, NEW sizes, NEW input \in Int,
           \A k \in 1..n : sizes[k] \in Int
    PROVE  StepsOf(BindSizes(coders, sizes, input), n, coders, sizes, input)
<1> DEFINE F == [k \in 1..n |-> [v \in Int |-> StepOutput(coders[k], sizes[k], v)]]
           N == BindSizes(coders, sizes, input)
           Body(g, k) == BindSize(coders[k], sizes[k], IF k = 1 THEN input ELSE g[k - 1].output)
<1>1. N = CHOOSE g : g = [k \in 1..n |-> Body(g, k)]
  BY Zenon DEF BindSizes
<1>2. ASSUME NEW k \in 1..n, NEW v \in Int PROVE StepOutput(coders[k], sizes[k], v) \in Int
  BY ReconcileIs DEF StepOutput
<1>4. F \in [1..n -> [Int -> Int]]
  BY <1>2
<1>5. PICK h : Iterates(h, Int, n, input, F)
  <2> HIDE DEF F
  <2> QED BY <1>4, Iteration
<1>6. h \in [0..n -> Int] /\ h[0] = input /\ \A k \in 1..n : h[k] = F[k][h[k - 1]]
  BY <1>5 DEF Iterates
<1>7. ASSUME NEW k \in 1..n PROVE h[k] = StepOutput(coders[k], sizes[k], h[k - 1])
  <2>1. h[k - 1] \in Int
    BY <1>6
  <2> QED BY <1>6, <2>1
<1> DEFINE g == [k \in 1..n |-> BindSize(coders[k], sizes[k], h[k - 1])]
<1>8. ASSUME NEW k \in 1..n PROVE g[k].output = h[k]
  <2>1. g[k] = BindSize(coders[k], sizes[k], h[k - 1])
    OBVIOUS
  <2> HIDE DEF g
  <2> QED BY <1>7, <2>1, BindSizeIs
<1>9. ASSUME NEW k \in 1..n PROVE g[k] = Body(g, k)
  <2>1. CASE k = 1
    BY <1>6, <2>1
  <2>2. CASE k # 1
    <3>1. k - 1 \in 1..n
      BY <2>2
    <3>2. g[k - 1].output = h[k - 1]
      BY <1>8, <3>1
    <3> QED BY <2>2, <3>2
  <2> QED BY <2>1, <2>2
<1>10. g = [k \in 1..n |-> Body(g, k)]
  <2>1. g = [k \in 1..n |-> g[k]]
    OBVIOUS
  <2> HIDE DEF g, Body
  <2> QED BY <1>9, <2>1
<1> HIDE DEF g, N, F
<1> DEFINE B == [k \in 1..n |-> Body(N, k)]
<1>11. N = B
  BY <1>1, <1>10, Zenon
<1>12. \A k \in 1..n : B[k] = Body(N, k)
  <2> HIDE DEF Body
  <2> QED OBVIOUS
<1>13. Len(B) = n /\ DOMAIN B = 1..n
  <2> HIDE DEF Body
  <2> QED OBVIOUS
<1> HIDE DEF B
<1>14. \A k \in 1..n : N[k] = Body(N, k)
  BY <1>11, <1>12, Zenon
<1> DEFINE P == {k \in 0..n : k >= 1 => N[k].output \in Int}
<1>15. 0 \in P
  OBVIOUS
<1>16. ASSUME NEW k \in 0..(n - 1), k \in P PROVE k + 1 \in P
  <2> DEFINE v == IF k + 1 = 1 THEN input ELSE N[(k + 1) - 1].output
  <2>1. k + 1 \in 1..n
    OBVIOUS
  <2>2. v \in Int
    <3>1. CASE k = 0
      BY <3>1
    <3>2. CASE k # 0
      <4>1. (k + 1) - 1 = k /\ k >= 1
        BY <3>2
      <4> QED BY <1>16, <3>2, <4>1
    <3> QED BY <3>1, <3>2
  <2>3. N[k + 1] = BindSize(coders[k + 1], sizes[k + 1], v)
    BY <1>14, <2>1
  <2> HIDE DEF v
  <2>4. N[k + 1].output = StepOutput(coders[k + 1], sizes[k + 1], v)
    BY <2>3, BindSizeIs
  <2>5. N[k + 1].output \in Int
    BY <1>2, <2>1, <2>2, <2>4
  <2> QED BY <2>1, <2>5
<1>17. \A k \in 0..n : k \in P
  <2> HIDE DEF P
  <2> QED BY <1>15, <1>16, Induction
<1>18. \A k \in 1..n : N[k].output \in Int
  BY <1>17
<1>19. Len(N) = n /\ DOMAIN N = 1..n
  BY <1>11, <1>13, Zenon
<1> QED
  BY <1>14, <1>18, <1>19 DEF StepsOf, N

\* The coder that runs k-th writes as much as it reads.
Preserves(k) == folder.coders[graph.order[k]].method \in Preserving

BackOf(back, n, declared, unpack) ==
    /\ DOMAIN back = 1..n
    /\ \A k \in 1..n :
          /\ back[k] \in Int
          /\ back[k] = Reconcile(OutputSize(declared, unpack, graph.order[k]),
                                 IF k < n /\ Preserves(k + 1) THEN back[k + 1] ELSE Unknown)

(* The sizes told back along a chain.                                      *)
LEMMA ChainSizesIs ==
    ASSUME NEW n \in Nat, Len(graph.order) = n, NEW declared, NEW unpack,
           \A k \in 1..n : OutputSize(declared, unpack, graph.order[k]) \in Int
    PROVE  BackOf(ChainSizes(declared, unpack), n, declared, unpack)
<1> DEFINE OS(k) == OutputSize(declared, unpack, graph.order[k])
           N == ChainSizes(declared, unpack)
           Body(g, k) == Reconcile(OS(k), IF k < n /\ Preserves(k + 1) THEN g[k + 1] ELSE Unknown)
           Val(j, v) == Reconcile(OS(n + 1 - j),
                            IF n + 1 - j < n /\ Preserves(n + 1 - j + 1) THEN v ELSE Unknown)
           F == [j \in 1..n |-> [v \in Int |-> Val(j, v)]]
<1>1. N = CHOOSE g : g = [k \in 1..n |-> Body(g, k)]
  BY Zenon DEF ChainSizes, Preserves
<1>2. \A k \in 1..n : OS(k) \in Int
  OBVIOUS
<1>0. Unknown \in Int
  BY DEF Unknown
<1> HIDE DEF OS
<1>3. ASSUME NEW j \in 1..n, NEW v \in Int
      PROVE  Reconcile(OS(n + 1 - j),
                       IF n + 1 - j < n /\ Preserves(n + 1 - j + 1) THEN v ELSE Unknown) \in Int
  <2>1. n + 1 - j \in 1..n
    OBVIOUS
  <2> QED BY <1>0, <1>2, <2>1, ReconcileIs
<1>4. F \in [1..n -> [Int -> Int]]
  BY <1>3
<1>5. PICK h : Iterates(h, Int, n, Unknown, F)
  <2> HIDE DEF F
  <2> QED BY <1>0, <1>4, Iteration
<1>6. h \in [0..n -> Int] /\ \A j \in 1..n : h[j] = F[j][h[j - 1]]
  BY <1>5 DEF Iterates
<1> DEFINE g == [k \in 1..n |-> h[n + 1 - k]]
<1>7. ASSUME NEW k \in 1..n PROVE g[k] = Body(g, k) /\ g[k] \in Int
  <2> DEFINE j == n + 1 - k
  <2>1. j \in 1..n /\ n + 1 - j = k /\ j - 1 \in 0..n
    OBVIOUS
  <2>2. h[j - 1] \in Int /\ h[j] \in Int
    BY <1>6, <2>1
  <2>3. F[j][h[j - 1]] = Reconcile(OS(k), IF k < n /\ Preserves(k + 1) THEN h[j - 1] ELSE Unknown)
    <3>1. F[j][h[j - 1]] = Reconcile(OS(n + 1 - j),
                IF n + 1 - j < n /\ Preserves(n + 1 - j + 1) THEN h[j - 1] ELSE Unknown)
      <4> DEFINE v == h[j - 1]
      <4>1. v \in Int /\ j \in 1..n
        BY <2>1, <2>2
      <4> HIDE DEF v, j, Val
      <4>2. F[j][v] = Val(j, v)
        BY <4>1
      <4> QED BY <4>2 DEF v, Val
    <3> QED BY <2>1, <3>1
  <2>4. g[k] = h[j] /\ h[j] = F[j][h[j - 1]]
    BY <1>6, <2>1
  <2>5. k < n => g[k + 1] = h[j - 1]
    <3>1. k < n => k + 1 \in 1..n /\ n + 1 - (k + 1) = j - 1
      OBVIOUS
    <3> QED BY <3>1
  <2> HIDE DEF g, j, F
  <2> QED BY <2>2, <2>3, <2>4, <2>5
<1>8. g = [k \in 1..n |-> Body(g, k)]
  <2>1. g = [k \in 1..n |-> g[k]]
    OBVIOUS
  <2> HIDE DEF g, Body
  <2> QED BY <1>7, <2>1
<1> HIDE DEF g, N, F
<1> DEFINE B == [k \in 1..n |-> Body(N, k)]
<1>9. N = B
  BY <1>1, <1>8, Zenon
<1>10. DOMAIN B = 1..n /\ \A k \in 1..n : B[k] = Body(N, k)
  <2> HIDE DEF Body
  <2> QED OBVIOUS
<1> HIDE DEF B
<1>11. DOMAIN N = 1..n /\ \A k \in 1..n : N[k] = Body(N, k)
  BY <1>9, <1>10, Zenon
<1> DEFINE P == {j \in 0..n : j >= 1 => N[n + 1 - j] \in Int}
<1>12. 0 \in P
  OBVIOUS
<1>13. ASSUME NEW j \in 0..(n - 1), j \in P PROVE j + 1 \in P
  <2> DEFINE k == n + 1 - (j + 1)
             v == IF k < n /\ Preserves(k + 1) THEN N[k + 1] ELSE Unknown
  <2>1. k \in 1..n /\ j + 1 \in 0..n
    OBVIOUS
  <2>2. k < n => j >= 1 /\ k + 1 = n + 1 - j
    OBVIOUS
  <2>3. v \in Int
    <3> HIDE DEF k
    <3> QED BY <1>0, <1>13, <2>2
  <2>4. N[k] = Reconcile(OS(k), v)
    BY <1>11, <2>1
  <2>5. N[k] \in Int
    <3> HIDE DEF k, v
    <3> QED BY <1>2, <2>1, <2>3, <2>4, ReconcileIs
  <2> QED BY <2>1, <2>5
<1>14. \A j \in 0..n : j \in P
  <2> HIDE DEF P
  <2> QED BY <1>12, <1>13, Induction
<1>15. ASSUME NEW k \in 1..n PROVE N[k] \in Int
  <2>1. n + 1 - k \in 0..n /\ n + 1 - k >= 1 /\ n + 1 - (n + 1 - k) = k
    OBVIOUS
  <2> QED BY <1>14, <2>1
<1> QED
  BY <1>11, <1>15 DEF BackOf, N, OS

-----------------------------------------------------------------------------
(***************************************************************************)
(* How a graph is wired: all that the plans below need to know of it.      *)
(***************************************************************************)
\* The streams of coder c are those after the first counts[1] + ... + counts[c - 1].
Numbered(owners, counts, n) ==
    /\ owners \in Seq(1..n) /\ Len(counts) = n
    /\ StreamTotal(counts) \in [0..n -> Nat]
    /\ Len(owners) = StreamTotal(counts)[n] /\ Len(owners) \in Nat
    /\ \A c \in 1..n : StreamTotal(counts)[c] = StreamTotal(counts)[c - 1] + counts[c]
    /\ \A i \in 1..Len(owners) : owners[i] \in 1..n /\ Owner(counts, i - 1) = owners[i]
    /\ \A i \in 1..Len(owners), c \in 1..n :
          owners[i] = c <=> StreamTotal(counts)[c - 1] < i /\ i <= StreamTotal(counts)[c]

\* How a resolved graph is wired.
Wiring(f, g) ==
    LET n == Len(f.coders)
        I == 1..Len(g.inputs)
        O == 1..Len(g.outputs)
    IN  /\ n \in Nat
        /\ g.order \in Seq(1..n) /\ Distinct(g.order) /\ Len(g.order) = n
        /\ Numbered(g.inputs, Ins(f.coders), n)
        /\ Numbered(g.outputs, Outs(f.coders), n)
        /\ g.source \in [I -> 0..Len(g.outputs)]
        /\ g.final \in O
        /\ PackedSlots(f, g.packed)
        /\ \A i \in I : g.source[i] = 0 <=> \E k \in 1..Len(g.packed) : g.packed[k] = i
        /\ \A k \in 1..Len(g.packed) : g.packed[k] \in I
        /\ \A i \in I : g.source[i] = 0 <=> \A j \in 1..Len(f.pairs) : f.pairs[j][1] # i - 1
        /\ \A i \in I : g.source[i] # 0 =>
              \E j \in 1..Len(f.pairs) : f.pairs[j][1] = i - 1 /\ f.pairs[j][2] = g.source[i] - 1
        /\ \A i, j \in I : g.source[i] = g.source[j] /\ g.source[i] # 0 => i = j
        /\ \A o \in O : o # g.final <=> \E i \in I : g.source[i] = o
        /\ \A i \in I, k \in 1..n :
              g.source[i] # 0 /\ g.inputs[i] = g.order[k]
                  => \E j \in 1..(k - 1) : g.order[j] = g.outputs[g.source[i]]

(* The numbering of streams by the coders that own them.                   *)
LEMMA NumberedOwners ==
    ASSUME NEW counts \in Seq(Nat)
    PROVE  Numbered(StreamOwners(counts), counts, Len(counts))
<1> DEFINE n == Len(counts)
           T == StreamTotal(counts)
           owners == StreamOwners(counts)
<1>1. n \in Nat
  OBVIOUS
<1>2. /\ T \in [0..n -> Nat]
      /\ \A c \in 1..n : T[c] = T[c - 1] + counts[c]
      /\ owners \in Seq(1..n) /\ Len(owners) = T[n]
      /\ \A j \in 1..T[n] : Owner(counts, j - 1) = owners[j]
      /\ \A j \in 1..T[n], c \in 1..n : owners[j] = c <=> (T[c - 1] < j /\ j <= T[c])
  BY OwnersAre
<1> HIDE DEF n, T, owners
<1>3. owners \in Seq(1..n)
  BY <1>2
<1>4. Len(owners) \in Nat /\ \A i \in 1..Len(owners) : owners[i] \in 1..n
  BY <1>1, <1>3
<1> QED
  BY <1>2, <1>3, <1>4 DEF Numbered, n, T, owners

(* The graph of a well-formed folder is wired as it declares.              *)
LEMMA WiringIs ==
    ASSUME NEW f \in Folder, WellFormed(f)
    PROVE  Wiring(f, GraphOf(f))
<1> DEFINE b == Bindings(f)
           g == GraphOf(f)
           m == Len(f.pairs)
           n == Len(f.coders)
           order == ExecutionOrder(b)
           final == CHOOSE o \in UnboundOutputs(b) : TRUE
           packed == PackedInputs(b, f.packed)
           I == 1..Len(b.inputs)
           O == 1..Len(b.outputs)
           source == b.source
<1>1. b \in BindingsType(f) /\ BindInv(f, b, m) /\ b.ok
  BY BindingsRight, GraphIs
<1>3. /\ g.order = order /\ g.final = final /\ g.packed = packed
      /\ g.inputs = b.inputs /\ g.outputs = b.outputs /\ g.source = b.source
  BY DEF GraphOf
<1>4. PackedRight(f) /\ Acyclic(f)
  BY Zenon DEF WellFormed, PackedRight, Free
<1> HIDE DEF b, g
<1>2. /\ GoodPairs(f, m) /\ SourceRight(f, b, m) /\ FedRight(f, b, m)
      /\ EdgesRight(f, b, m) /\ DegreeRight(f, b)
  BY <1>1 DEF BindInv
<1>5. n \in Nat /\ m \in Nat
  BY CountsType, PairsType
<1>6. OrderOf(f, order)
  BY <1>1, <1>2, OrderIs
<1>7. final \in O /\ \A o \in O : o = final <=> \A j \in 1..m : Out(f, j) # o
  BY <1>1, <1>2, FinalIs
<1>8. PackedSlots(f, packed)
  BY <1>1, <1>2, <1>4, PackedIs
<1>9. /\ UnboundInputs(b) \subseteq I
      /\ \A i \in Nat : i \in Free(f) <=> i + 1 \in UnboundInputs(b)
  BY <1>1, <1>2, FreeIs
<1>10. /\ b.inputs = StreamOwners(Ins(f.coders)) /\ b.outputs = StreamOwners(Outs(f.coders))
       /\ source \in [I -> 0..Len(b.outputs)] /\ Len(b.inputs) \in Nat /\ Len(b.outputs) \in Nat
       /\ \A i \in I : b.inputs[i] \in 1..n
       /\ \A o \in O : b.outputs[o] \in 1..n
  BY <1>1, BindingsFields
<1>11. Numbered(b.inputs, Ins(f.coders), n) /\ Numbered(b.outputs, Outs(f.coders), n)
  <2>1. /\ Ins(f.coders) \in Seq(Nat) /\ Outs(f.coders) \in Seq(Nat)
        /\ Len(Ins(f.coders)) = n /\ Len(Outs(f.coders)) = n
    BY CountsType
  <2>2. Numbered(StreamOwners(Ins(f.coders)), Ins(f.coders), Len(Ins(f.coders)))
    BY <2>1, NumberedOwners
  <2>3. Numbered(StreamOwners(Outs(f.coders)), Outs(f.coders), Len(Outs(f.coders)))
    BY <2>1, NumberedOwners
  <2> QED BY <1>10, <2>1, <2>2, <2>3
<1> HIDE DEF order, final, packed
<1>12. order \in Seq(1..n) /\ Distinct(order) /\ Len(order) = n
  BY <1>4, <1>6 DEF OrderOf
<1>13. \A j \in 1..m : /\ In(f, j) \in I /\ Out(f, j) \in O
                       /\ f.pairs[j][1] = In(f, j) - 1 /\ f.pairs[j][2] = Out(f, j) - 1
  <2>1. \A j \in 1..m : In(f, j) \in I /\ Out(f, j) \in O
    BY <1>2, <1>10 DEF GoodPairs
  <2> QED BY <2>1, PairsType DEF In, Out
<1>14. \A i, j \in 1..m : i # j => In(f, i) # In(f, j) /\ Out(f, i) # Out(f, j)
  BY <1>2 DEF GoodPairs
<1>15. \A i \in I, o \in O : source[i] = o <=> \E j \in 1..m : In(f, j) = i /\ Out(f, j) = o
  BY <1>2 DEF SourceRight
<1> HIDE DEF I, O, m, source, n
<1>16. \A i \in I : i \in Nat
  BY <1>10 DEF I
<1>17. ASSUME NEW i \in I, source[i] # 0
       PROVE  source[i] \in O /\ \E j \in 1..m : In(f, j) = i /\ Out(f, j) = source[i]
  <2>1. source[i] \in O
    BY <1>10, <1>17 DEF O
  <2> QED BY <1>15, <2>1
<1>18. ASSUME NEW i \in I, NEW j \in 1..m, In(f, j) = i PROVE source[i] = Out(f, j) /\ source[i] # 0
  <2>1. source[i] = Out(f, j) /\ Out(f, j) \in O
    BY <1>13, <1>15, <1>18
  <2> QED BY <1>10, <2>1 DEF O
<1>19. \A i \in I : source[i] = 0 <=> i \in UnboundInputs(b)
  <2>1. DOMAIN b.source = I
    BY <1>10 DEF source
  <2> QED BY <2>1 DEF UnboundInputs, source
<1>20. ASSUME NEW i \in I PROVE source[i] = 0 <=> \E k \in 1..Len(packed) : packed[k] = i
  <2>1. i - 1 \in Nat /\ (i - 1) + 1 = i
    BY <1>10 DEF I
  <2>2. i \in UnboundInputs(b) <=> i - 1 \in Free(f)
    BY <1>9, <2>1
  <2>3. i - 1 \in Free(f) <=> \E k \in 1..Len(packed) : packed[k] = i
    BY <1>8, <2>1 DEF PackedSlots
  <2> QED BY <1>19, <2>2, <2>3
<1>21. ASSUME NEW k \in 1..Len(packed) PROVE packed[k] \in I
  <2>0. packed \in Seq(Nat)
    BY <1>8 DEF PackedSlots
  <2>1. packed[k] \in Nat
    BY <2>0
  <2>2. packed[k] # 0
    <3>1. CASE f.packed = <<>>
      <4>1. PICK u : Free(f) = {u}
        <5>1. Cardinality(Free(f)) = 1
          BY <1>4, <3>1 DEF PackedRight
        <5>2. IsFiniteSet(Free(f))
          <6>1. IsFiniteSet(0..(StreamTotal(Ins(f.coders))[Len(f.coders)] - 1))
            <7>1. StreamTotal(Ins(f.coders))[Len(f.coders)] \in Nat
              <8>1. Len(b.inputs) = StreamTotal(Ins(f.coders))[n]
                BY <1>11 DEF Numbered
              <8> QED BY <1>10, <8>1 DEF n
            <7> DEFINE z == StreamTotal(Ins(f.coders))[Len(f.coders)]
            <7>2. z \in Nat
              BY <7>1
            <7> HIDE DEF z
            <7>3. IsFiniteSet(0..(z - 1))
              BY <7>2, FS_Interval
            <7> QED BY <7>3 DEF z
          <6> QED BY <6>1, FS_Subset DEF Free
        <5> QED BY <5>1, <5>2, FS_Singleton
      <4>2. u \in Nat
        <5>1. Free(f) \subseteq Nat
          BY <1>1, <1>2, FreeIs DEF m
        <5> QED BY <4>1, <5>1
      <4>3. PICK j \in 1..Len(packed) : packed[j] = u + 1
        BY <1>8, <4>1, <4>2 DEF PackedSlots
      <4>4. Len(packed) = 1
        BY <1>8, <3>1 DEF PackedSlots
      <4>5. j = k
        BY <4>4
      <4> QED BY <4>2, <4>3, <4>5
    <3>2. CASE f.packed # <<>>
      <4>1. packed[k] = f.packed[k] + 1 /\ k \in 1..Len(f.packed)
        BY <1>8, <3>2 DEF PackedSlots
      <4>2. f.packed \in Seq(Nat)
        BY DEF Folder
      <4>3. f.packed[k] \in Nat
        BY <4>1, <4>2
      <4> QED BY <4>1, <4>3
    <3> QED BY <3>1, <3>2
  <2>3. packed[k] - 1 \in Nat /\ (packed[k] - 1) + 1 = packed[k]
    BY <2>1, <2>2
  <2>4. packed[k] - 1 \in Free(f)
    BY <1>8, <2>3 DEF PackedSlots
  <2>5. packed[k] \in UnboundInputs(b)
    BY <1>9, <2>3, <2>4
  <2> QED BY <1>9, <2>5
<1>22. ASSUME NEW i \in I PROVE source[i] = 0 <=> \A j \in 1..m : f.pairs[j][1] # i - 1
  <2>1. \A j \in 1..m : f.pairs[j][1] = i - 1 <=> In(f, j) = i
    BY <1>13, <1>16
  <2> QED BY <1>17, <1>18, <2>1
<1>23. ASSUME NEW i \in I, source[i] # 0
       PROVE  \E j \in 1..m : f.pairs[j][1] = i - 1 /\ f.pairs[j][2] = source[i] - 1
  BY <1>13, <1>17, <1>23
<1>24. ASSUME NEW i \in I, NEW j \in I, source[i] = source[j], source[i] # 0 PROVE i = j
  <2>1. PICK x \in 1..m : In(f, x) = i /\ Out(f, x) = source[i]
    BY <1>17, <1>24
  <2>2. PICK y \in 1..m : In(f, y) = j /\ Out(f, y) = source[j]
    BY <1>17, <1>24
  <2> QED BY <1>14, <1>24, <2>1, <2>2
<1>25. ASSUME NEW o \in O PROVE o # final <=> \E i \in I : source[i] = o
  <2>1. ASSUME NEW i \in I, source[i] = o PROVE \E j \in 1..m : Out(f, j) = o
    BY <1>15, <2>1
  <2>2. ASSUME NEW j \in 1..m, Out(f, j) = o PROVE \E i \in I : source[i] = o
    BY <1>13, <1>15, <2>2
  <2> QED BY <1>7, <2>1, <2>2 DEF m
<1>26. ASSUME NEW i \in I, NEW k \in 1..n, source[i] # 0, b.inputs[i] = order[k]
       PROVE  \E j \in 1..(k - 1) : order[j] = b.outputs[source[i]]
  <2>1. PICK x \in 1..m : In(f, x) = i /\ Out(f, x) = source[i] /\ source[i] \in O
    BY <1>17, <1>26
  <2> DEFINE c == b.outputs[source[i]]
  <2>2. c \in 1..n
    BY <1>10, <2>1
  <2>3. Owner(Ins(f.coders), i - 1) = order[k] /\ Owner(Outs(f.coders), source[i] - 1) = c
    BY <1>1, <1>26, <2>1, OwnerIs DEF I, O
  <2> HIDE DEF c
  <2>4. Feeds(f, c, order[k])
    BY <1>13, <2>1, <2>3 DEF Feeds, m
  <2>5. \E j \in 1..(k - 1) : order[j] = c
    BY <1>6, <1>12, <2>2, <2>4 DEF OrderOf, n
  <2> QED BY <2>5 DEF c
<1>27. g.inputs = b.inputs /\ g.outputs = b.outputs /\ g.source = source
  BY <1>3 DEF source
<1>28. I = 1..Len(g.inputs) /\ O = 1..Len(g.outputs) /\ source \in [I -> 0..Len(g.outputs)]
  BY <1>10, <1>27 DEF I, O
<1>29. Numbered(g.inputs, Ins(f.coders), n) /\ Numbered(g.outputs, Outs(f.coders), n)
  BY <1>11, <1>27
<1>30. \A i \in I, k \in 1..n : g.source[i] # 0 /\ g.inputs[i] = g.order[k]
                  => \E j \in 1..(k - 1) : g.order[j] = g.outputs[g.source[i]]
  BY <1>3, <1>26, <1>27
<1>31. /\ n \in Nat /\ g.order \in Seq(1..n) /\ Distinct(g.order) /\ Len(g.order) = n
       /\ g.source \in [I -> 0..Len(g.outputs)] /\ g.final \in O
       /\ PackedSlots(f, g.packed)
  BY <1>3, <1>5, <1>7, <1>8, <1>12, <1>27, <1>28 DEF n
<1>32. /\ \A i \in I : g.source[i] = 0 <=> \E k \in 1..Len(g.packed) : g.packed[k] = i
       /\ \A k \in 1..Len(g.packed) : g.packed[k] \in I
  BY <1>3, <1>20, <1>21, <1>27
<1>33. /\ \A i \in I : g.source[i] = 0 <=> \A j \in 1..m : f.pairs[j][1] # i - 1
       /\ \A i \in I : g.source[i] # 0 =>
             \E j \in 1..m : f.pairs[j][1] = i - 1 /\ f.pairs[j][2] = g.source[i] - 1
       /\ \A i, j \in I : g.source[i] = g.source[j] /\ g.source[i] # 0 => i = j
       /\ \A o \in O : o # g.final <=> \E i \in I : g.source[i] = o
  BY <1>3, <1>22, <1>23, <1>24, <1>25, <1>27
<1> QED
  BY <1>28, <1>29, <1>30, <1>31, <1>32, <1>33, Zenon DEF Wiring, n, m, g

(* The streams of one coder are consecutive.                               *)
LEMMA StreamsOf ==
    ASSUME NEW n \in Nat, NEW counts \in Seq(Nat), NEW owners, Numbered(owners, counts, n),
           NEW c \in 1..n
    PROVE  /\ StreamTotal(counts)[c - 1] \in Nat /\ counts[c] \in Nat
           /\ StreamTotal(counts)[c - 1] + counts[c] <= Len(owners)
           /\ \A i \in 1..Len(owners) :
                 owners[i] = c <=> /\ StreamTotal(counts)[c - 1] < i
                                   /\ i <= StreamTotal(counts)[c - 1] + counts[c]
<1> DEFINE T == StreamTotal(counts)
<1>1. /\ Len(counts) = n /\ T \in [0..n -> Nat] /\ Len(owners) = T[n]
      /\ T[c] = T[c - 1] + counts[c]
      /\ \A i \in 1..Len(owners) : owners[i] = c <=> T[c - 1] < i /\ i <= T[c]
  BY DEF Numbered
<1>2. T[c] <= T[n]
  <2>1. n \in 0..Len(counts) /\ c \in 0..n
    BY <1>1
  <2> QED BY <2>1, TotalsGrow
<1>3. counts[c] \in Nat
  BY <1>1
<1> HIDE DEF T
<1>4. T[c - 1] \in Nat
  BY <1>1
<1> QED
  BY <1>1, <1>2, <1>3, <1>4 DEF T

(* A coder with one stream has that one.                                   *)
LEMMA OneStream ==
    ASSUME NEW n \in Nat, NEW counts \in Seq(Nat), NEW owners, Numbered(owners, counts, n),
           NEW c \in 1..n, counts[c] = 1
    PROVE  /\ StreamTotal(counts)[c - 1] \in Nat
           /\ StreamTotal(counts)[c - 1] + 1 \in 1..Len(owners)
           /\ \A i \in 1..Len(owners) : owners[i] = c <=> i = StreamTotal(counts)[c - 1] + 1
           /\ (CHOOSE i \in DOMAIN owners : owners[i] = c) = StreamTotal(counts)[c - 1] + 1
<1> DEFINE a == StreamTotal(counts)[c - 1]
           m == Len(owners)
<1>1. /\ a \in Nat /\ a + 1 <= m
      /\ \A i \in 1..m : owners[i] = c <=> a < i /\ i <= a + 1
  BY StreamsOf
<1>2. m \in Nat /\ owners \in Seq(1..n)
  BY DEF Numbered
<1>3. DOMAIN owners = 1..m
  BY <1>2
<1> HIDE DEF a, m
<1>4. a + 1 \in 1..m /\ \A i \in 1..m : owners[i] = c <=> i = a + 1
  BY <1>1, <1>2
<1>5. (CHOOSE i \in DOMAIN owners : owners[i] = c) = a + 1
  BY <1>3, <1>4
<1> QED
  BY <1>1, <1>4, <1>5 DEF a, m

\* When every coder has one stream, the first of coder c comes after c - 1 others.
FirstIsBefore(owners, counts, n) ==
    Len(owners) = n /\ \A c \in 1..n : StreamTotal(counts)[c - 1] = c - 1

(* With one stream per coder, streams and coders are numbered alike.       *)
LEMMA AllFirst ==
    ASSUME NEW n \in Nat, NEW counts \in Seq(Nat), NEW owners, Numbered(owners, counts, n),
           \A c \in 1..n : counts[c] = 1
    PROVE  FirstIsBefore(owners, counts, n)
<1> DEFINE T == StreamTotal(counts)
           P == {c \in 0..n : T[c] = c}
<1>1. /\ Len(counts) = n /\ T \in [0..n -> Nat] /\ Len(owners) = T[n]
      /\ \A c \in 1..n : T[c] = T[c - 1] + counts[c]
      /\ owners \in Seq(1..n)
  BY DEF Numbered
<1>2. T[0] = 0
  BY StreamTotalStep
<1> HIDE DEF T
<1>3. 0 \in P
  BY <1>2
<1>4. ASSUME NEW c \in 0..(n - 1), c \in P PROVE c + 1 \in P
  <2>1. c + 1 \in 1..n /\ (c + 1) - 1 = c
    OBVIOUS
  <2>2. T[c + 1] = T[c] + 1 /\ T[c] = c
    BY <1>1, <1>4, <2>1
  <2> QED BY <2>1, <2>2
<1>5. \A c \in 0..n : c \in P
  <2> HIDE DEF P
  <2> QED BY <1>3, <1>4, Induction
<1>6. \A c \in 0..n : T[c] = c
  BY <1>5
<1>7. Len(owners) = n /\ DOMAIN owners = 1..n
  BY <1>1, <1>6
<1>8. \A c \in 1..n : T[c - 1] = c - 1
  BY <1>6
<1> QED
  BY <1>7, <1>8, Zenon DEF FirstIsBefore, T

(* With one stream per coder, stream c is coder c's.                       *)
LEMMA AllOne ==
    ASSUME NEW n \in Nat, NEW counts \in Seq(Nat), NEW owners, Numbered(owners, counts, n),
           \A c \in 1..n : counts[c] = 1
    PROVE  /\ Len(owners) = n /\ DOMAIN owners = 1..n
           /\ \A c \in 1..n : /\ owners[c] = c /\ StreamTotal(counts)[c - 1] = c - 1
                              /\ (CHOOSE i \in DOMAIN owners : owners[i] = c) = c
<1> DEFINE T == StreamTotal(counts)
<1>6. FirstIsBefore(owners, counts, n) /\ owners \in Seq(1..n)
  BY AllFirst DEF Numbered
<1>7. Len(owners) = n /\ DOMAIN owners = 1..n
  BY <1>6 DEF FirstIsBefore
<1>8. ASSUME NEW c \in 1..n
      PROVE  owners[c] = c /\ T[c - 1] = c - 1 /\ (CHOOSE i \in DOMAIN owners : owners[i] = c) = c
  <2>1. T[c - 1] = c - 1 /\ (c - 1) + 1 = c
    BY <1>6 DEF FirstIsBefore
  <2>2. /\ \A i \in 1..Len(owners) : owners[i] = c <=> i = T[c - 1] + 1
        /\ (CHOOSE i \in DOMAIN owners : owners[i] = c) = T[c - 1] + 1
    BY OneStream DEF T
  <2> QED BY <1>7, <2>1, <2>2
<1> QED
  BY <1>7, <1>8 DEF T

\* SizesFit of one channel, said of a folder, its graph and a request.
FitStep(f, g, declared, packed, unpack, ch, k) ==
    LET step == ch.steps[k]
        method == f.coders[step.coder].method
        o == CHOOSE o \in DOMAIN g.outputs : g.outputs[o] = step.coder
        size == IF o = g.final THEN unpack
                ELSE IF o <= Len(declared) THEN declared[o] ELSE Unknown
    IN  /\ step.input = IF k = 1 THEN packed[ch.slot] ELSE ch.steps[k - 1].output
        /\ method \in Preserving => step.output = step.input
        /\ size # Unknown => step.output = size
        /\ method \in SizeNeeded => step.output # Unknown

(* A declared size is a number.                                            *)
LEMMA OutputSizeIs ==
    ASSUME NEW declared \in Seq(Nat), NEW unpack \in Nat, NEW o \in Nat, o >= 1
    PROVE  /\ OutputSize(declared, unpack, o) \in Int
           /\ OutputSize(declared, unpack, o) # Unknown => OutputSize(declared, unpack, o) \in Nat
           /\ o <= Len(declared) => OutputSize(declared, unpack, o) \in Nat
<1>1. Unknown \in Int
  BY DEF Unknown
<1>2. o <= Len(declared) => declared[o] \in Nat
  OBVIOUS
<1> QED
  BY <1>1, <1>2 DEF OutputSize

(* The sizes of a chain that compiles fit.                                 *)
LEMMA ChainFits ==
    ASSUME folder \in Folder, Wiring(folder, graph),
           NEW declared \in Seq(Nat), NEW packed \in Seq(Nat), Len(packed) = 1, NEW unpack \in Nat,
           \A c \in 1..Len(folder.coders) : folder.coders[c].outs = 1,
           NEW back, back = ChainSizes(declared, unpack),
           NEW steps, steps = BindSizes(graph.order, back, packed[1]),
           \A k \in DOMAIN back : back[k] # Clash /\ Compiles(graph.order[k], back[k]),
           \A k \in DOMAIN steps : steps[k].output # Clash
    PROVE  /\ StepsOf(steps, Len(folder.coders), graph.order, back, packed[1])
           /\ \A k \in 1..Len(folder.coders) :
                 FitStep(folder, graph, declared, packed, unpack, [slot |-> 1, steps |-> steps], k)
<1> DEFINE n == Len(folder.coders)
           order == graph.order
           OS(k) == OutputSize(declared, unpack, order[k])
           method(k) == folder.coders[order[k]].method
           input(k) == IF k = 1 THEN packed[1] ELSE steps[k - 1].output
<1>1. /\ n \in Nat /\ order \in Seq(1..n) /\ Len(order) = n
      /\ Numbered(graph.outputs, Outs(folder.coders), n)
  BY DEF Wiring
<1>2. packed[1] \in Nat
  OBVIOUS
<1>3. /\ Outs(folder.coders) \in Seq(Nat)
      /\ \A c \in 1..n : Outs(folder.coders)[c] = 1
  BY CountsType
<1>4. \A c \in 1..n : (CHOOSE o \in DOMAIN graph.outputs : graph.outputs[o] = c) = c
  <2> DEFINE counts == Outs(folder.coders)
             owners == graph.outputs
  <2>1. n \in Nat /\ counts \in Seq(Nat) /\ Numbered(owners, counts, n) /\ \A c \in 1..n : counts[c] = 1
    BY <1>1, <1>3
  <2> HIDE DEF n, counts, owners
  <2>2. \A c \in 1..n : (CHOOSE i \in DOMAIN owners : owners[i] = c) = c
    BY <2>1, AllOne
  <2> QED BY <2>2 DEF owners
<1> HIDE DEF n
<1>5. \A k \in 1..n : order[k] \in 1..n
  BY <1>1
<1>6. ASSUME NEW k \in 1..n PROVE OS(k) \in Int /\ (OS(k) # Unknown => OS(k) \in Nat)
  <2>1. order[k] \in Nat /\ order[k] >= 1
    BY <1>1, <1>5
  <2> QED BY <2>1, OutputSizeIs
<1>7. BackOf(back, n, declared, unpack)
  BY <1>1, <1>6, ChainSizesIs
<1>8. /\ DOMAIN back = 1..n
      /\ \A k \in 1..n : /\ back[k] \in Int
                         /\ back[k] = Reconcile(OS(k), IF k < n /\ Preserves(k + 1) THEN back[k + 1] ELSE Unknown)
  BY <1>7 DEF BackOf
<1>9. StepsOf(steps, n, order, back, packed[1])
  <2>1. packed[1] \in Int /\ \A k \in 1..n : back[k] \in Int
    BY <1>2, <1>8
  <2>2. StepsOf(BindSizes(order, back, packed[1]), n, order, back, packed[1])
    BY <1>1, <2>1, BindSizesIs
  <2> QED BY <2>2
<1>10. /\ DOMAIN steps = 1..n
       /\ \A k \in 1..n : /\ steps[k] = BindSize(order[k], back[k], input(k))
                          /\ steps[k].output \in Int
  BY <1>9 DEF StepsOf
<1>11. /\ \A k \in 1..n : back[k] # Clash /\ Compiles(order[k], back[k])
       /\ \A k \in 1..n : steps[k].output # Clash
  BY <1>8, <1>10
<1> HIDE DEF OS
<1>12. ASSUME NEW k \in 1..n
       PROVE  /\ steps[k].coder = order[k] /\ steps[k].input = input(k)
              /\ steps[k].output = IF method(k) \in Preserving THEN Reconcile(back[k], input(k)) ELSE back[k]
              /\ input(k) \in Int
  <2>1. steps[k] = BindSize(order[k], back[k], input(k))
    BY <1>10
  <2>2. /\ steps[k].coder = order[k] /\ steps[k].input = input(k)
        /\ steps[k].output = StepOutput(order[k], back[k], input(k))
    <3> HIDE DEF input
    <3> QED BY <2>1, BindSizeIs
  <2>3. input(k) \in Int
    <3>1. k # 1 => k - 1 \in 1..n
      BY <1>1
    <3> QED BY <1>2, <1>10, <3>1
  <2> QED BY <2>2, <2>3 DEF StepOutput
<1>13. ASSUME NEW k \in 1..n
       PROVE  /\ OS(k) # Unknown => back[k] = OS(k)
              /\ k < n /\ Preserves(k + 1) /\ back[k + 1] # Unknown => back[k] = back[k + 1]
  <2> DEFINE v == IF k < n /\ Preserves(k + 1) THEN back[k + 1] ELSE Unknown
  <2>1. back[k] = Reconcile(OS(k), v) /\ back[k] # Clash /\ OS(k) \in Int
    BY <1>6, <1>8, <1>11
  <2>2. v \in Int
    <3>1. k < n => k + 1 \in 1..n
      BY <1>1
    <3> QED BY <1>8, <3>1 DEF Unknown
  <2>3. OS(k) # Unknown => back[k] = OS(k)
    BY <1>6, <2>1, <2>2, ReconcileIs
  <2>4. v # Unknown => back[k] = v
    <3> HIDE DEF v
    <3> QED BY <2>1, <2>2, ReconcileIs
  <2> QED BY <2>3, <2>4
<1>14. ASSUME NEW k \in 1..n, back[k] # Unknown PROVE steps[k].output = back[k]
  <2>1. /\ steps[k].output = IF method(k) \in Preserving THEN Reconcile(back[k], input(k)) ELSE back[k]
        /\ steps[k].output # Clash /\ back[k] \in Int /\ input(k) \in Int
    BY <1>8, <1>11, <1>12
  <2> HIDE DEF input, method
  <2> QED BY <1>14, <2>1, ReconcileIs
<1>15. ASSUME NEW k \in 1..n, method(k) \in Preserving PROVE steps[k].output = input(k)
  <2>0. /\ steps[k].output = Reconcile(back[k], input(k)) /\ steps[k].output # Clash
        /\ back[k] \in Int /\ input(k) \in Int
    BY <1>8, <1>11, <1>12, <1>15
  <2>1. CASE input(k) # Unknown
    <3> HIDE DEF input
    <3> QED BY <2>0, <2>1, ReconcileIs
  <2>2. CASE input(k) = Unknown
    <3>1. k # 1 /\ k - 1 \in 1..n /\ k - 1 < n /\ (k - 1) + 1 = k /\ input(k) = steps[k - 1].output
      BY <1>1, <1>2, <2>2 DEF Unknown
    <3>2. Preserves((k - 1) + 1)
      BY <1>15, <3>1 DEF Preserves
    <3>3. back[k] # Unknown => steps[k - 1].output = back[k] 
      BY <1>13, <1>14, <3>1, <3>2
    <3>4. back[k] = Unknown
      BY <2>2, <3>1, <3>3
    <3> HIDE DEF input
    <3> QED BY <2>0, <2>2, <3>4, ReconcileIs
  <2> QED BY <2>1, <2>2
<1>16. ASSUME NEW k \in 1..n, method(k) \in SizeNeeded PROVE steps[k].output # Unknown
  <2>1. back[k] # Unknown
    BY <1>11, <1>16 DEF Compiles
  <2> QED BY <1>14, <2>1
<1>17. ASSUME NEW k \in 1..n, OS(k) # Unknown PROVE steps[k].output = OS(k)
  BY <1>13, <1>14, <1>17
<1>18. ASSUME NEW k \in 1..n
       PROVE  FitStep(folder, graph, declared, packed, unpack, [slot |-> 1, steps |-> steps], k)
  <2> DEFINE ch == [slot |-> 1, steps |-> steps]
             step == ch.steps[k]
             o == CHOOSE o \in DOMAIN graph.outputs : graph.outputs[o] = step.coder
             size == IF o = graph.final THEN unpack
                     ELSE IF o <= Len(declared) THEN declared[o] ELSE Unknown
  <2>1. ch.steps = steps /\ ch.slot = 1
    OBVIOUS
  <2> HIDE DEF ch
  <2>2. step.coder = order[k] /\ step = steps[k]
    BY <1>12, <2>1
  <2>3. o = order[k]
    BY <1>4, <1>5, <2>2
  <2> HIDE DEF o
  <2>4. size = OS(k)
    BY <2>3 DEF OS, OutputSize
  <2> HIDE DEF size, step
  <2>5. step.input = IF k = 1 THEN packed[ch.slot] ELSE ch.steps[k - 1].output
    BY <1>12, <2>1, <2>2
  <2>6. folder.coders[step.coder].method \in Preserving => step.output = step.input
    BY <1>12, <1>15, <2>2
  <2>7. size # Unknown => step.output = size
    BY <1>17, <2>2, <2>4
  <2>8. folder.coders[step.coder].method \in SizeNeeded => step.output # Unknown
    BY <1>16, <2>2
  <2> QED BY <2>5, <2>6, <2>7, <2>8, Zenon DEF FitStep, size, o, step, ch
<1> QED
  BY <1>9, <1>18 DEF n

-----------------------------------------------------------------------------
(***************************************************************************)
(* A folder of one-in one-out coders is one chain.                         *)
(***************************************************************************)
\* The coders of a chain run one after the other, each on the output of the last.
Chained(f, g) ==
    LET n == Len(f.coders)
    IN  /\ n >= 1 /\ g.packed[1] = g.order[1] /\ g.source[g.order[1]] = 0
        /\ \A k \in 2..n : g.source[g.order[k]] = g.order[k - 1]
        /\ g.final = g.order[n]

(* With one stream in and out of every coder and one packed stream, the    *)
(* execution order is the chain from that stream to the final output.      *)
LEMMA ChainIs ==
    ASSUME NEW f \in Folder, NEW g, Wiring(f, g), Len(g.packed) = 1,
           \A c \in 1..Len(f.coders) : f.coders[c].ins = 1 /\ f.coders[c].outs = 1
    PROVE  Chained(f, g)
<1> DEFINE n == Len(f.coders)
           order == g.order
           source == g.source
<1>1. /\ n \in Nat /\ order \in Seq(1..n) /\ Len(order) = n /\ Distinct(order)
      /\ Numbered(g.outputs, Outs(f.coders), n) /\ Numbered(g.inputs, Ins(f.coders), n)
      /\ g.source \in [1..Len(g.inputs) -> 0..Len(g.outputs)]
      /\ g.final \in 1..Len(g.outputs)
  BY DEF Wiring
<1>2. /\ \A i \in 1..Len(g.inputs) : g.source[i] = 0 <=> \E k \in 1..Len(g.packed) : g.packed[k] = i
      /\ \A i, j \in 1..Len(g.inputs) : g.source[i] = g.source[j] /\ g.source[i] # 0 => i = j
      /\ \A o \in 1..Len(g.outputs) : o # g.final <=> \E i \in 1..Len(g.inputs) : g.source[i] = o
      /\ \A i \in 1..Len(g.inputs), k \in 1..n :
              g.source[i] # 0 /\ g.inputs[i] = g.order[k]
                  => \E j \in 1..(k - 1) : g.order[j] = g.outputs[g.source[i]]
  BY DEF Wiring
<1>3. /\ Ins(f.coders) \in Seq(Nat) /\ \A c \in 1..n : Ins(f.coders)[c] = 1
      /\ Outs(f.coders) \in Seq(Nat) /\ \A c \in 1..n : Outs(f.coders)[c] = 1
  BY CountsType
<1> HIDE DEF n, order, source
<1>4. Len(g.inputs) = n /\ \A c \in 1..n : g.inputs[c] = c
  BY <1>1, <1>3, AllOne
<1>5. Len(g.outputs) = n /\ \A c \in 1..n : g.outputs[c] = c
  BY <1>1, <1>3, AllOne
<1>6. /\ source \in [1..n -> 0..n] /\ g.final \in 1..n
      /\ \A i \in 1..n : source[i] = 0 <=> g.packed[1] = i
      /\ \A i, j \in 1..n : source[i] = source[j] /\ source[i] # 0 => i = j
      /\ \A o \in 1..n : o # g.final <=> \E i \in 1..n : source[i] = o
  <2>1. \A k \in 1..Len(g.packed) : k = 1
    OBVIOUS
  <2> QED BY <1>1, <1>2, <1>4, <1>5, <2>1 DEF source
<1>7. \A k \in 1..n : order[k] \in 1..n
  BY <1>1
<1>8. \A j, k \in 1..n : order[j] = order[k] => j = k
  BY <1>1 DEF Distinct
<1>9. ASSUME NEW k \in 1..n, source[order[k]] # 0
      PROVE  \E j \in 1..(k - 1) : order[j] = source[order[k]]
  <2>1. order[k] \in 1..Len(g.inputs) /\ g.inputs[order[k]] = order[k]
    BY <1>4, <1>7
  <2>2. source[order[k]] \in 1..n
    BY <1>1, <1>6, <1>7, <1>9
  <2>3. g.outputs[source[order[k]]] = source[order[k]]
    BY <1>5, <2>2
  <2> QED BY <1>2, <1>9, <2>1, <2>3 DEF order, source
<1>10. n >= 1 /\ 1 \in 1..n
  BY <1>1, <1>6
<1>11. source[order[1]] = 0
  <2>1. ~ \E j \in 1..(1 - 1) : TRUE
    OBVIOUS
  <2> QED BY <1>9, <1>10, <2>1
<1>12. g.packed[1] = order[1]
  BY <1>6, <1>7, <1>10, <1>11
<1>13. ASSUME NEW k \in 2..n PROVE source[order[k]] # 0
  <2>1. k \in 1..n /\ k # 1
    BY <1>1
  <2> QED BY <1>6, <1>7, <1>8, <1>10, <1>12, <2>1
<1>14. \A k \in 2..n : source[order[k]] = order[k - 1]
  <2> DEFINE Bad == {k \in 2..n : source[order[k]] # order[k - 1]}
  <2> SUFFICES ASSUME Bad # {} PROVE FALSE
    OBVIOUS
  <2>1. Bad \in SUBSET Nat
    BY <1>1
  <2>2. PICK m \in Bad : \A y \in Bad : m <= y
    <3> HIDE DEF Bad
    <3> QED BY <2>1, LeastElement
  <2>3. m \in 1..n /\ m \in 2..n /\ source[order[m]] # 0
    BY <1>1, <1>13
  <2>4. PICK j \in 1..(m - 1) : order[j] = source[order[m]]
    BY <1>9, <2>3
  <2>5. j # m - 1
    BY <2>2, <2>4
  <2>6. j + 1 \in 2..n /\ j + 1 \in 1..n /\ (j + 1) - 1 = j /\ j + 1 < m
    BY <1>1, <2>3, <2>4, <2>5
  <2>7. j + 1 \notin Bad
    BY <1>1, <2>2, <2>3, <2>6
  <2>8. source[order[j + 1]] = order[j]
    BY <2>6, <2>7
  <2>9. order[j + 1] = order[m]
    BY <1>6, <1>7, <2>3, <2>4, <2>6, <2>8
  <2> QED BY <1>8, <2>3, <2>6, <2>9
<1>15. g.final = order[n]
  <2>1. PICK i \in 1..n : order[i] = g.final
    <3>1. Elems(order) = 1..n
      BY <1>1, DistinctElems
    <3> QED BY <1>1, <1>6, <3>1 DEF Elems
  <2>2. CASE i = n
    BY <2>1, <2>2
  <2>3. CASE i # n
    <3>1. i + 1 \in 2..n /\ (i + 1) - 1 = i /\ i + 1 \in 1..n
      BY <1>1, <2>3
    <3>2. source[order[i + 1]] = g.final /\ order[i + 1] \in 1..n
      BY <1>7, <1>14, <2>1, <3>1
    <3> QED BY <1>6, <3>2
  <2> QED BY <2>2, <2>3
<1> QED
  BY <1>10, <1>11, <1>12, <1>14, <1>15 DEF Chained, n, order, source

-----------------------------------------------------------------------------
(***************************************************************************)
(* The way back from an input of BCJ2 to a packed stream.                  *)
(***************************************************************************)
\* The one input of a coder that has one.
Entry(f, c) == StreamTotal(Ins(f.coders))[c - 1] + 1

TrackType(f, g) ==
    [input  : 0..Len(g.inputs),
     coders : Seq([coder : 1..Len(f.coders), output : 1..Len(g.outputs)]),
     slot   : Nat]

\* The coders met on the way back from input "start", each reading from the one before.
Path(f, g, bcj2, start, coders, input) ==
    /\ \A j \in 1..Len(coders) :
          /\ f.coders[coders[j].coder].ins = 1 /\ f.coders[coders[j].coder].outs = 1
          /\ coders[j].coder # bcj2 /\ g.outputs[coders[j].output] = coders[j].coder
    /\ \A j \in 1..(Len(coders) - 1) : g.source[Entry(f, coders[j + 1].coder)] = coders[j].output
    /\ coders # <<>> => /\ g.source[start] = coders[Len(coders)].output
                        /\ input = Entry(f, coders[1].coder)
    /\ coders = <<>> => input = start

Trail(f, g, bcj2, start, t) ==
    /\ t.input # 0 => Path(f, g, bcj2, start, t.coders, t.input)
    /\ t.slot # 0 => /\ t.input # 0 /\ t.slot \in 1..Len(g.packed)
                     /\ g.packed[t.slot] = t.input

Trails(f, g, bcj2, start) == {t \in TrackType(f, g) : Trail(f, g, bcj2, start, t)}

(* The one input of a coder with one input.                                *)
LEMMA EntryIs ==
    ASSUME NEW f \in Folder, NEW g, Wiring(f, g), NEW c \in 1..Len(f.coders), f.coders[c].ins = 1
    PROVE  /\ Entry(f, c) \in 1..Len(g.inputs)
           /\ \A i \in 1..Len(g.inputs) : g.inputs[i] = c <=> i = Entry(f, c)
           /\ (CHOOSE i \in DOMAIN g.inputs : g.inputs[i] = c) = Entry(f, c)
<1> DEFINE n == Len(f.coders)
           counts == Ins(f.coders)
           owners == g.inputs
<1>1. n \in Nat /\ Numbered(owners, counts, n)
  BY DEF Wiring
<1>2. counts \in Seq(Nat) /\ counts[c] = 1 /\ c \in 1..n
  BY CountsType
<1>3. Entry(f, c) = StreamTotal(counts)[c - 1] + 1
  BY DEF Entry
<1> HIDE DEF n, counts, owners
<1>4. /\ StreamTotal(counts)[c - 1] + 1 \in 1..Len(owners)
      /\ \A i \in 1..Len(owners) : owners[i] = c <=> i = StreamTotal(counts)[c - 1] + 1
      /\ (CHOOSE i \in DOMAIN owners : owners[i] = c) = StreamTotal(counts)[c - 1] + 1
  BY <1>1, <1>2, OneStream
<1> QED
  BY <1>3, <1>4 DEF owners

(* A sequence with one more in front.                                      *)
LEMMA Prepend ==
    ASSUME NEW X, NEW s \in Seq(X), NEW e \in X, NEW t, t = <<e>> \o s
    PROVE  /\ t \in Seq(X) /\ Len(t) = Len(s) + 1 /\ Len(s) \in Nat
           /\ t[1] = e /\ t # <<>>
           /\ \A j \in 1..Len(s) : t[j + 1] = s[j]
OBVIOUS

(* One coder more on the way back.                                         *)
LEMMA FollowExtends ==
    ASSUME NEW f \in Folder, NEW g, Wiring(f, g), NEW bcj2, NEW start \in 1..Len(g.inputs),
           NEW coders \in Seq([coder : 1..Len(f.coders), output : 1..Len(g.outputs)]),
           NEW input \in 1..Len(g.inputs), Path(f, g, bcj2, start, coders, input),
           NEW o \in 1..Len(g.outputs), g.source[input] = o,
           NEW c \in 1..Len(f.coders), g.outputs[o] = c, c # bcj2,
           f.coders[c].ins = 1, f.coders[c].outs = 1
    PROVE  Path(f, g, bcj2, start, <<[coder |-> c, output |-> o]>> \o coders, Entry(f, c))
<1> DEFINE X == [coder : 1..Len(f.coders), output : 1..Len(g.outputs)]
           e == [coder |-> c, output |-> o]
           new == <<e>> \o coders
           m == Len(coders)
<1>1. e \in X /\ e.coder = c /\ e.output = o
  OBVIOUS
<1>0. coders \in Seq(X)
  OBVIOUS
<1> HIDE DEF e, X
<1>2. /\ new \in Seq(X) /\ Len(new) = m + 1 /\ m \in Nat /\ new[1] = e /\ new # <<>>
      /\ \A j \in 1..m : new[j + 1] = coders[j]
  <2>1. e \in X
    BY <1>1
  <2>2. new = <<e>> \o coders
    OBVIOUS
  <2> HIDE DEF new
  <2> QED BY <1>0, <2>1, <2>2, Prepend, SMTT(30)
<1> HIDE DEF new
<1>3. /\ \A j \in 1..m :
            /\ f.coders[coders[j].coder].ins = 1 /\ f.coders[coders[j].coder].outs = 1
            /\ coders[j].coder # bcj2 /\ g.outputs[coders[j].output] = coders[j].coder
      /\ \A j \in 1..(m - 1) : g.source[Entry(f, coders[j + 1].coder)] = coders[j].output
      /\ coders # <<>> => /\ g.source[start] = coders[m].output
                          /\ input = Entry(f, coders[1].coder)
      /\ coders = <<>> => input = start
  BY DEF Path
<1>4. coders = <<>> <=> m = 0
  OBVIOUS
<1> HIDE DEF m
<1>5. ASSUME NEW j \in 1..(m + 1) PROVE j = 1 \/ (j - 1 \in 1..m /\ new[j] = coders[j - 1])
  <2>1. j # 1 => j - 1 \in 1..m /\ (j - 1) + 1 = j
    BY <1>2
  <2> QED BY <1>2, <2>1
<1>6. ASSUME NEW j \in 1..(m + 1)
      PROVE  /\ f.coders[new[j].coder].ins = 1 /\ f.coders[new[j].coder].outs = 1
             /\ new[j].coder # bcj2 /\ g.outputs[new[j].output] = new[j].coder
  <2>1. CASE j = 1
    BY <1>1, <1>2, <2>1
  <2>2. CASE j - 1 \in 1..m /\ new[j] = coders[j - 1]
    BY <1>3, <2>2
  <2> QED BY <1>5, <2>1, <2>2
<1>7. ASSUME NEW j \in 1..m PROVE g.source[Entry(f, new[j + 1].coder)] = new[j].output
  <2>1. new[j + 1] = coders[j]
    BY <1>2
  <2>2. CASE j = 1
    <3>1. coders # <<>> /\ new[1].output = o
      BY <1>1, <1>2, <1>4, <2>2
    <3> QED BY <1>3, <2>1, <2>2, <3>1
  <2>3. CASE j # 1
    <3>1. j - 1 \in 1..(m - 1) /\ (j - 1) + 1 = j /\ j - 1 \in 1..m
      BY <1>2, <2>3
    <3>2. new[j] = coders[j - 1]
      BY <1>2, <3>1
    <3>3. g.source[Entry(f, coders[j].coder)] = coders[j - 1].output
      BY <1>3, <3>1
    <3> QED BY <2>1, <3>2, <3>3
  <2> QED BY <2>2, <2>3
<1>8. g.source[start] = new[m + 1].output
  <2>1. CASE m = 0
    BY <1>1, <1>2, <1>3, <1>4, <2>1
  <2>2. CASE m # 0
    <3>1. m \in 1..m
      BY <1>2, <2>2
    <3> QED BY <1>2, <1>3, <1>4, <2>2, <3>1
  <2> QED BY <2>1, <2>2
<1>9. Entry(f, c) = Entry(f, new[1].coder)
  BY <1>1, <1>2
<1>10. 1..Len(new) = 1..(m + 1) /\ 1..(Len(new) - 1) = 1..m
  BY <1>2
<1>11. Path(f, g, bcj2, start, new, Entry(f, c))
  BY <1>2, <1>6, <1>7, <1>8, <1>9, <1>10 DEF Path
<1> QED
  BY <1>11 DEF new, e

(* A step of the walk goes back along what the folder binds.               *)
LEMMA FollowKeeps ==
    ASSUME folder \in Folder, Wiring(folder, graph), NEW bcj2, NEW start \in 1..Len(graph.inputs),
           NEW t \in Trails(folder, graph, bcj2, start)
    PROVE  Follow(bcj2, t) \in Trails(folder, graph, bcj2, start)
<1> DEFINE X == Seq([coder : 1..Len(folder.coders), output : 1..Len(graph.outputs)])
           o == graph.source[t.input]
           c == graph.outputs[o]
           new == Follow(bcj2, t)
<1>1. t \in TrackType(folder, graph) /\ Trail(folder, graph, bcj2, start, t)
  BY DEF Trails
<1>2. /\ t.input \in 0..Len(graph.inputs) /\ t.coders \in X /\ t.slot \in Nat
      /\ t = [input |-> t.input, coders |-> t.coders, slot |-> t.slot]
  BY <1>1 DEF TrackType
<1>3. /\ Len(folder.coders) \in Nat /\ Len(graph.inputs) \in Nat /\ Len(graph.outputs) \in Nat
      /\ graph.source \in [1..Len(graph.inputs) -> 0..Len(graph.outputs)]
      /\ \A x \in 1..Len(graph.outputs) : graph.outputs[x] \in 1..Len(folder.coders)
      /\ graph.packed \in Seq(Nat)
      /\ \A i \in 1..Len(graph.inputs) :
            graph.source[i] = 0 => \E k \in 1..Len(graph.packed) : graph.packed[k] = i
  BY DEF Wiring, Numbered, PackedSlots
<1> HIDE DEF X
<1>4. ASSUME NEW i, NEW cs, NEW s
      PROVE  LET r == [input |-> i, coders |-> cs, slot |-> s]
             IN  /\ r.input = i /\ r.coders = cs /\ r.slot = s
                 /\ i \in 0..Len(graph.inputs) /\ cs \in X /\ s \in Nat => r \in TrackType(folder, graph)
  BY DEF TrackType, X
<1>5. CASE t.input = 0 \/ t.slot # 0
  BY <1>5 DEF Follow
<1>6. CASE ~ (t.input = 0 \/ t.slot # 0)
  <2>1. /\ t.input \in 1..Len(graph.inputs) /\ t.slot = 0
        /\ Path(folder, graph, bcj2, start, t.coders, t.input)
    BY <1>1, <1>2, <1>3, <1>6 DEF Trail
  <2>2. o \in 0..Len(graph.outputs)
    BY <1>3, <2>1
  <2>3. CASE o = 0
    <3> DEFINE s == CHOOSE k \in DOMAIN graph.packed : graph.packed[k] = t.input
    <3>1. new = [t EXCEPT !.slot = s]
      BY <1>6, <2>3, Zenon DEF Follow
    <3>2. DOMAIN graph.packed = 1..Len(graph.packed) /\ Len(graph.packed) \in Nat
      BY <1>3
    <3>3. s \in 1..Len(graph.packed) /\ graph.packed[s] = t.input
      BY <1>3, <2>1, <2>3, <3>2
    <3> HIDE DEF s, new, o
    <3>4. new = [input |-> t.input, coders |-> t.coders, slot |-> s]
      BY <1>2, <3>1
    <3>5. new \in TrackType(folder, graph) /\ new.input = t.input /\ new.coders = t.coders /\ new.slot = s
      BY <1>2, <1>4, <3>2, <3>3, <3>4
    <3>6. Trail(folder, graph, bcj2, start, new)
      BY <1>6, <2>1, <3>3, <3>5 DEF Trail
    <3> QED BY <3>5, <3>6 DEF Trails, new
  <2>4. CASE o # 0 /\ (c = bcj2 \/ folder.coders[c].ins # 1 \/ folder.coders[c].outs # 1)
    <3>1. new = [t EXCEPT !.input = 0]
      BY <1>6, <2>4, Zenon DEF Follow
    <3> HIDE DEF new, o, c
    <3>2. new = [input |-> 0, coders |-> t.coders, slot |-> t.slot]
      BY <1>2, <3>1
    <3>3. new \in TrackType(folder, graph) /\ new.input = 0 /\ new.slot = 0
      BY <1>2, <1>3, <1>4, <2>1, <3>2
    <3>4. Trail(folder, graph, bcj2, start, new)
      BY <3>3 DEF Trail
    <3> QED BY <3>3, <3>4 DEF Trails, new
  <2>5. CASE o # 0 /\ ~ (c = bcj2 \/ folder.coders[c].ins # 1 \/ folder.coders[c].outs # 1)
    <3> DEFINE i == CHOOSE i \in DOMAIN graph.inputs : graph.inputs[i] = c
               cs == <<[coder |-> c, output |-> o]>> \o t.coders
    <3>1. new = [t EXCEPT !.input = i, !.coders = cs]
      BY <1>6, <2>5, Zenon DEF Follow
    <3>2. o \in 1..Len(graph.outputs) /\ c \in 1..Len(folder.coders)
      <4>1. o \in 1..Len(graph.outputs)
        BY <1>3, <2>2, <2>5
      <4> QED BY <1>3, <4>1
    <3>3. folder.coders[c].ins = 1 /\ folder.coders[c].outs = 1 /\ c # bcj2
      BY <2>5
    <3>9. graph.source[t.input] = o /\ graph.outputs[o] = c
      OBVIOUS
    <3> HIDE DEF o, c
    <3>4. i = Entry(folder, c) /\ i \in 1..Len(graph.inputs)
      BY <3>2, <3>3, EntryIs
    <3>5. cs \in X
      <4> DEFINE e == [coder |-> c, output |-> o]
                 Y == [coder : 1..Len(folder.coders), output : 1..Len(graph.outputs)]
                 u == t.coders
      <4>1. e \in Y
        BY <3>2
      <4>2. u \in Seq(Y)
        BY <1>2 DEF X
      <4> HIDE DEF e, Y, u
      <4>3. <<e>> \o u \in Seq(Y)
        BY <4>1, <4>2, Prepend
      <4> QED BY <4>3 DEF e, Y, u, X
    <3>6. Path(folder, graph, bcj2, start, cs, i)
      BY <1>2, <2>1, <3>2, <3>3, <3>4, <3>9, FollowExtends, ZenonT(30) DEF X
    <3> HIDE DEF new, i, cs
    <3>7. new = [input |-> i, coders |-> cs, slot |-> t.slot]
      BY <1>2, <3>1
    <3>8. new \in TrackType(folder, graph) /\ new.input = i /\ new.slot = 0 /\ new.coders = cs
      BY <1>2, <1>3, <1>4, <2>1, <3>4, <3>5, <3>7
    <3>10. Trail(folder, graph, bcj2, start, new)
      BY <3>6, <3>8 DEF Trail
    <3> QED BY <3>8, <3>10 DEF Trails, new
  <2> QED BY <2>3, <2>4, <2>5
<1> QED
  BY <1>5, <1>6

(* The walk starts at the input.                                           *)
LEMMA TrailStart ==
    ASSUME NEW f \in Folder, NEW g, Wiring(f, g), NEW bcj2, NEW start \in 1..Len(g.inputs)
    PROVE  [input |-> start, coders |-> <<>>, slot |-> 0] \in Trails(f, g, bcj2, start)
<1> DEFINE X == [coder : 1..Len(f.coders), output : 1..Len(g.outputs)]
           t == [input |-> start, coders |-> <<>>, slot |-> 0]
<1>1. <<>> \in Seq(X) /\ start \in 0..Len(g.inputs)
  <2>1. Len(g.inputs) \in Nat
    BY DEF Wiring, Numbered
  <2> QED BY <2>1
<1>2. t \in TrackType(f, g) /\ t.input = start /\ t.coders = <<>> /\ t.slot = 0
  BY <1>1 DEF TrackType
<1> HIDE DEF t
<1>3. Path(f, g, bcj2, start, <<>>, start)
  BY DEF Path
<1>4. Trail(f, g, bcj2, start, t)
  BY <1>2, <1>3 DEF Trail
<1> QED
  BY <1>2, <1>4 DEF Trails, t

(* The recursion that Channel is taken from.                               *)
LEMMA WalkStep ==
    ASSUME folder \in Folder, Wiring(folder, graph), NEW bcj2,
           NEW start \in 1..Len(graph.inputs)
    PROVE  /\ Walk(bcj2, start) \in [0..Len(folder.coders) -> Trails(folder, graph, bcj2, start)]
           /\ Walk(bcj2, start)[0] = [input |-> start, coders |-> <<>>, slot |-> 0]
           /\ \A k \in 1..Len(folder.coders) :
                 Walk(bcj2, start)[k] = Follow(bcj2, Walk(bcj2, start)[k - 1])
<1> DEFINE n == Len(folder.coders)
           S == Trails(folder, graph, bcj2, start)
           x == [input |-> start, coders |-> <<>>, slot |-> 0]
           Step(s, k) == Follow(bcj2, s)
           F == [k \in 1..n |-> [s \in S |-> Step(s, k)]]
           N == Walk(bcj2, start)
<1>1. n \in Nat
  BY CountsType
<1>2. ASSUME NEW s \in S, NEW k \in 1..n PROVE Step(s, k) \in S
  BY FollowKeeps
<1>3. x \in S
  BY TrailStart
<1>4. N = CHOOSE g : g = [k \in 0..n |-> IF k = 0 THEN x ELSE Step(g[k - 1], k)]
  BY Zenon DEF Walk
<1>5. QED
  <2> HIDE DEF S, n, N, x, Step
  <2>1. F \in [1..n -> [S -> S]]
    BY <1>2
  <2>2. PICK g : Iterates(g, S, n, x, F)
    <3> HIDE DEF F
    <3> QED BY <1>1, <1>3, <2>1, Iteration, Zenon
  <2>3. g \in [0..n -> S] /\ g[0] = x /\ \A k \in 1..n : g[k] = F[k][g[k - 1]]
    BY <2>2 DEF Iterates
  <2>4. ASSUME NEW k \in 1..n PROVE F[k][g[k - 1]] = Step(g[k - 1], k)
    <3>1. g[k - 1] \in S
      BY <1>1, <2>3
    <3> QED BY <3>1
  <2>5. \A k \in 0..n : g[k] = IF k = 0 THEN x ELSE Step(g[k - 1], k)
    <3> HIDE DEF F
    <3> QED BY <1>1, <2>3, <2>4
  <2>6. g = [k \in 0..n |-> IF k = 0 THEN x ELSE Step(g[k - 1], k)]
    BY <2>3, <2>5
  <2> DEFINE B == [k \in 0..n |-> IF k = 0 THEN x ELSE Step(N[k - 1], k)]
  <2>7. N = B
    BY <1>4, <2>6, Zenon
  <2>8. B[0] = x /\ \A k \in 1..n : B[k] = Step(N[k - 1], k)
    BY <1>1
  <2>9. N = [k \in 0..n |-> N[k]]
    BY <2>7
  <2> HIDE DEF B
  <2>10. N[0] = x /\ \A k \in 1..n : N[k] = Step(N[k - 1], k)
    BY <2>7, <2>8, Zenon
  <2> DEFINE P == {k \in 0..n : N[k] \in S}
  <2>11. 0 \in P
    BY <1>1, <1>3, <2>10
  <2>12. ASSUME NEW k \in 0..(n - 1), k \in P PROVE k + 1 \in P
    <3>1. k + 1 \in 1..n /\ (k + 1) - 1 = k
      BY <1>1
    <3>2. N[k + 1] = Step(N[k], k + 1) /\ N[k] \in S
      BY <2>10, <2>12, <3>1
    <3>3. N[k + 1] \in S
      BY <1>2, <3>1, <3>2
    <3> QED BY <1>1, <3>1, <3>3
  <2>13. \A k \in 0..n : k \in P
    <3> HIDE DEF P
    <3> QED BY <1>1, <2>11, <2>12, Induction
  <2>14. N \in [0..n -> S]
    BY <2>9, <2>13
  <2> QED BY <2>10, <2>14 DEF S, n, N, x, Step

(* A channel is a way back from its input.                                 *)
LEMMA ChannelIs ==
    ASSUME folder \in Folder, Wiring(folder, graph), NEW bcj2,
           NEW start \in 1..Len(graph.inputs)
    PROVE  Channel(bcj2, start) \in Trails(folder, graph, bcj2, start)
<1> DEFINE n == Len(folder.coders)
           S == Trails(folder, graph, bcj2, start)
           N == Walk(bcj2, start)
<1>1. N \in [0..n -> S] /\ n \in Nat
  BY WalkStep, CountsType
<1> HIDE DEF n, S, N
<1>2. N[n] \in S
  BY <1>1
<1> QED
  BY <1>2 DEF n, S, N, Channel

\* What is chosen are the count positions after a, and what s lists.
Interval(m, chosen, a, count) ==
    /\ m \in Nat /\ a \in Nat /\ count \in Nat /\ a + count <= m
    /\ \A i \in 1..m : i \in chosen <=> a < i /\ i <= a + count

CountsFrom(s, a, count) == Len(s) = count /\ \A k \in 1..count : s[k] = a + k

(* A list of consecutive positions.                                        *)
LEMMA ListsInterval ==
    ASSUME NEW m, NEW chosen, NEW a, NEW count, Interval(m, chosen, a, count),
           NEW s, Listing(s, m, chosen)
    PROVE  CountsFrom(s, a, count)
<1> DEFINE P == {k \in 0..count : k <= Len(s) /\ \A j \in 1..k : s[j] = a + j}
<1>1. /\ s \in Seq(1..m)
      /\ \A c \in 1..m : c \in chosen <=> \E j \in 1..Len(s) : s[j] = c
      /\ \A i, j \in 1..Len(s) : i < j => s[i] < s[j]
  BY DEF Listing
<1>9. /\ m \in Nat /\ a \in Nat /\ count \in Nat /\ a + count <= m
      /\ \A i \in 1..m : i \in chosen <=> a < i /\ i <= a + count
  BY DEF Interval
<1> USE <1>9
<1>0. s \in Seq(1..m)
  BY <1>1
<1>2. Len(s) \in Nat /\ \A j \in 1..Len(s) : s[j] \in 1..m
  BY <1>0
<1>3. \A j \in 1..Len(s) : a < s[j] /\ s[j] <= a + count
  BY <1>1, <1>2
<1>4. ASSUME NEW k \in P, k + 1 \in 1..Len(s), s[k + 1] <= a + k PROVE FALSE
  <2>1. k \in Nat /\ a < s[k + 1] /\ s[k + 1] \in 1..m
    BY <1>2, <1>3, <1>4
  <2>2. s[k + 1] - a \in 1..k /\ a + (s[k + 1] - a) = s[k + 1]
    BY <1>4, <2>1
  <2>3. s[s[k + 1] - a] = s[k + 1]
    BY <2>2
  <2>4. s[k + 1] - a \in 1..Len(s) /\ s[k + 1] - a < k + 1
    BY <1>2, <1>4, <2>1, <2>2
  <2>5. s[s[k + 1] - a] < s[k + 1]
    BY <1>1, <1>4, <2>4
  <2> QED BY <2>1, <2>3, <2>5
<1>5. 0 \in P
  BY <1>2
<1>6. ASSUME NEW k \in 0..(count - 1), k \in P PROVE k + 1 \in P
  <2>1. a + k + 1 \in 1..m /\ a < a + k + 1 /\ a + k + 1 <= a + count
    OBVIOUS
  <2>2. PICK j \in 1..Len(s) : s[j] = a + k + 1
    BY <1>1, <2>1
  <2>3. ~ (j \in 1..k)
    BY <1>6, <2>2
  <2>4. k + 1 <= j /\ k + 1 \in 1..Len(s)
    BY <1>2, <2>2, <2>3
  <2>5. s[k + 1] = a + k + 1
    <3>1. CASE j = k + 1
      BY <2>2, <3>1
    <3>2. CASE k + 1 < j
      <4>1. s[k + 1] < a + k + 1 /\ s[k + 1] \in 1..m
        BY <1>1, <1>2, <2>2, <2>4, <3>2
      <4>2. s[k + 1] <= a + k
        BY <4>1
      <4> QED BY <1>4, <1>6, <2>4, <4>2
    <3> QED BY <1>2, <2>4, <3>1, <3>2
  <2>6. \A i \in 1..(k + 1) : s[i] = a + i
    BY <1>6, <2>5
  <2> QED BY <1>2, <2>4, <2>6
<1>7. count \in P
  <2> HIDE DEF P
  <2>1. \A k \in 0..count : k \in P
    BY <1>5, <1>6, Induction
  <2> QED BY <2>1
<1>8. ~ (count < Len(s))
  <2> SUFFICES ASSUME count < Len(s) PROVE FALSE
    OBVIOUS
  <2>1. count + 1 \in 1..Len(s)
    BY <1>2
  <2>2. s[count + 1] <= a + count
    BY <1>3, <2>1
  <2> QED BY <1>4, <1>7, <2>1, <2>2
<1> QED
  BY <1>2, <1>7, <1>8 DEF CountsFrom

(* A channel has no more coders than there are.                            *)
LEMMA WalkLength ==
    ASSUME folder \in Folder, Wiring(folder, graph), NEW bcj2,
           NEW start \in 1..Len(graph.inputs)
    PROVE  Len(Channel(bcj2, start).coders) <= Len(folder.coders)
<1> DEFINE n == Len(folder.coders)
           S == Trails(folder, graph, bcj2, start)
           N == Walk(bcj2, start)
           P == {k \in 0..n : Len(N[k].coders) <= k}
<1>1. /\ N \in [0..n -> S] /\ N[0] = [input |-> start, coders |-> <<>>, slot |-> 0]
      /\ \A k \in 1..n : N[k] = Follow(bcj2, N[k - 1])
  BY WalkStep
<1>2. n \in Nat
  BY CountsType
<1>3. ASSUME NEW t \in S PROVE Len(t.coders) \in Nat /\ Len(Follow(bcj2, t).coders) <= Len(t.coders) + 1
  <2> DEFINE X == [coder : 1..Len(folder.coders), output : 1..Len(graph.outputs)]
             o == graph.source[t.input]
             c == graph.outputs[o]
             e == [coder |-> c, output |-> o]
             i == CHOOSE i \in DOMAIN graph.inputs : graph.inputs[i] = c
             s == CHOOSE k \in DOMAIN graph.packed : graph.packed[k] = t.input
             cs == <<e>> \o t.coders
             new == Follow(bcj2, t)
  <2>1. t \in TrackType(folder, graph)
    BY DEF Trails
  <2>2. t.coders \in Seq(X) /\ t = [input |-> t.input, coders |-> t.coders, slot |-> t.slot]
    BY <2>1 DEF TrackType
  <2>3. \/ new = t
        \/ new = [t EXCEPT !.slot = s]
        \/ new = [t EXCEPT !.input = 0]
        \/ new = [t EXCEPT !.input = i, !.coders = cs]
    BY Zenon DEF Follow
  <2> HIDE DEF new, s, i, X
  <2>4. Len(t.coders) \in Nat
    BY <2>2
  <2>5. Len(cs) = Len(t.coders) + 1
    <3> DEFINE u == t.coders
               Y == X \cup {e}
    <3>1. u \in Seq(Y) /\ e \in Y
      BY <2>2
    <3> HIDE DEF u, Y, e
    <3>2. Len(<<e>> \o u) = Len(u) + 1
      BY <3>1
    <3> QED BY <3>2 DEF u
  <2> HIDE DEF cs
  <2>6. new.coders = t.coders \/ new.coders = cs
    BY <2>2, <2>3
  <2> QED BY <2>4, <2>5, <2>6 DEF new
<1> HIDE DEF n, S, N
<1>4. 0 \in P
  <2>1. Len(N[0].coders) = 0
    BY <1>1
  <2> QED BY <1>2, <2>1
<1>5. ASSUME NEW k \in 0..(n - 1), k \in P PROVE k + 1 \in P
  <2>1. k + 1 \in 1..n /\ (k + 1) - 1 = k /\ k \in 0..n
    BY <1>2
  <2>2. N[k + 1] = Follow(bcj2, N[k]) /\ N[k] \in S
    BY <1>1, <2>1
  <2>3. Len(N[k].coders) \in Nat /\ Len(N[k + 1].coders) <= Len(N[k].coders) + 1
    BY <1>3, <2>2
  <2>4. N[k + 1] \in S
    BY <1>1, <1>2, <2>1
  <2>5. Len(N[k + 1].coders) \in Nat
    BY <1>3, <2>4
  <2> QED BY <1>2, <1>5, <2>1, <2>3, <2>5
<1>6. n \in P
  <2> HIDE DEF P
  <2>1. \A k \in 0..n : k \in P
    BY <1>2, <1>4, <1>5, Induction
  <2> QED BY <1>2, <2>1
<1> QED
  BY <1>6 DEF n, N, Channel

-----------------------------------------------------------------------------
(***************************************************************************)
(* Readers that follow the graph: the chain first, then BCJ2's channels.   *)
(***************************************************************************)
\* BoundTo and ReadersFollowTheGraph, said of a folder, its graph and its readers.
Bound(f, r, j, i) ==
    IF j = 0
    THEN /\ \A k \in DOMAIN f.pairs : f.pairs[k][1] # i
         /\ IF f.packed = <<>> THEN r.slot = 1
            ELSE r.slot \in DOMAIN f.packed /\ f.packed[r.slot] = i
    ELSE \E k \in DOMAIN f.pairs :
            /\ f.pairs[k][1] = i
            /\ Owner(Outs(f.coders), f.pairs[k][2]) = r.coders[j]

Followed(f, g, bcj2, rs) ==
    LET first(c) == StreamTotal(Ins(f.coders))[c - 1]
        final == Owner(Outs(f.coders), g.final - 1)
    IN  /\ \A k \in DOMAIN rs : \A j \in DOMAIN rs[k].coders :
              LET c == rs[k].coders[j]
              IN  /\ f.coders[c].ins = 1 /\ f.coders[c].outs = 1
                  /\ Bound(f, rs[k], j - 1, first(c))
        /\ \A k, l \in DOMAIN rs :
              \A i \in DOMAIN rs[k].coders, j \in DOMAIN rs[l].coders :
                  rs[k].coders[i] = rs[l].coders[j] => k = l /\ i = j
        /\ UNION {ToSet(rs[k].coders) : k \in DOMAIN rs} = (1..Len(f.coders)) \ {bcj2}
        /\ IF bcj2 = 0
           THEN Len(rs) = 1 /\ final = Last(rs[1].coders)
           ELSE /\ final = bcj2
                /\ Len(rs) = f.coders[bcj2].ins
                /\ \A k \in DOMAIN rs : Bound(f, rs[k], Len(rs[k].coders), first(bcj2) + k - 1)

(* The positions of a folder's lists.                                      *)
LEMMA PairsDomain ==
    ASSUME NEW f \in Folder
    PROVE  DOMAIN f.pairs = 1..Len(f.pairs) /\ DOMAIN f.packed = 1..Len(f.packed)
           /\ DOMAIN f.coders = 1..Len(f.coders)
<1>1. f.pairs \in Seq(Nat \X Nat) /\ f.packed \in Seq(Nat) /\ f.coders \in Seq(Coder)
  BY DEF Folder
<1> QED
  BY <1>1

(* What is opened on a packed stream is bound to it.                       *)
LEMMA BoundPacked ==
    ASSUME NEW f \in Folder, NEW g, Wiring(f, g), NEW r, r.slot \in 1..Len(g.packed),
           NEW i \in 1..Len(g.inputs), g.packed[r.slot] = i
    PROVE  Bound(f, r, 0, i - 1)
<1>1. /\ \A x \in 1..Len(g.inputs) : g.source[x] = 0 <=> \E k \in 1..Len(g.packed) : g.packed[k] = x
      /\ \A x \in 1..Len(g.inputs) : g.source[x] = 0 <=> \A j \in 1..Len(f.pairs) : f.pairs[j][1] # x - 1
      /\ PackedSlots(f, g.packed)
  BY DEF Wiring
<1>2. \A j \in 1..Len(f.pairs) : f.pairs[j][1] # i - 1
  BY <1>1
<1>3. CASE f.packed = <<>>
  <2>1. Len(g.packed) = 1
    BY <1>1, <1>3 DEF PackedSlots
  <2>2. r.slot = 1
    BY <2>1
  <2> QED BY <1>2, <1>3, <2>2, PairsDomain DEF Bound
<1>4. CASE f.packed # <<>>
  <2>1. Len(g.packed) = Len(f.packed) /\ g.packed[r.slot] = f.packed[r.slot] + 1
    BY <1>1, <1>4 DEF PackedSlots
  <2>2. f.packed \in Seq(Nat)
    BY DEF Folder
  <2>3. f.packed[r.slot] \in Nat
    BY <2>1, <2>2
  <2>4. f.packed[r.slot] = i - 1
    BY <2>1, <2>3
  <2> QED BY <1>2, <1>4, <2>1, <2>4, PairsDomain DEF Bound
<1> QED
  BY <1>3, <1>4

(* What is opened on a coder is bound to its output.                       *)
LEMMA BoundPair ==
    ASSUME NEW f \in Folder, NEW g, Wiring(f, g), NEW r, NEW j, j # 0,
           NEW i \in 1..Len(g.inputs), g.source[i] # 0, g.outputs[g.source[i]] = r.coders[j]
    PROVE  Bound(f, r, j, i - 1)
<1>1. /\ \A x \in 1..Len(g.inputs) : g.source[x] # 0 =>
            \E k \in 1..Len(f.pairs) : f.pairs[k][1] = x - 1 /\ f.pairs[k][2] = g.source[x] - 1
      /\ g.source \in [1..Len(g.inputs) -> 0..Len(g.outputs)]
      /\ Numbered(g.outputs, Outs(f.coders), Len(f.coders))
  BY DEF Wiring
<1>2. PICK k \in 1..Len(f.pairs) : f.pairs[k][1] = i - 1 /\ f.pairs[k][2] = g.source[i] - 1
  BY <1>1
<1>3. Len(g.outputs) \in Nat /\ \A o \in 1..Len(g.outputs) : Owner(Outs(f.coders), o - 1) = g.outputs[o]
  BY <1>1 DEF Numbered
<1>4. g.source[i] \in 1..Len(g.outputs)
  <2> DEFINE src == g.source
             m == Len(g.outputs)
             l == Len(g.inputs)
  <2>1. src \in [1..l -> 0..m] /\ m \in Nat /\ i \in 1..l /\ src[i] # 0
    BY <1>1, <1>3
  <2> HIDE DEF src, m, l
  <2>2. src[i] \in 1..m
    BY <2>1
  <2> QED BY <2>2 DEF src, m
<1>5. Owner(Outs(f.coders), f.pairs[k][2]) = r.coders[j]
  BY <1>2, <1>3, <1>4
<1> QED
  BY <1>2, <1>5, PairsDomain DEF Bound

(* The readers of a chain follow the graph.                                *)
LEMMA ChainFollowed ==
    ASSUME NEW f \in Folder, NEW g, Wiring(f, g), Len(g.packed) = 1,
           \A c \in 1..Len(f.coders) : f.coders[c].ins = 1 /\ f.coders[c].outs = 1,
           NEW rs, DOMAIN rs = {1}, Len(rs) = 1, rs[1].slot = 1, rs[1].coders = g.order
    PROVE  Followed(f, g, 0, rs)
<1> DEFINE n == Len(f.coders)
           order == g.order
           r == rs[1]
           first(c) == StreamTotal(Ins(f.coders))[c - 1]
           final == Owner(Outs(f.coders), g.final - 1)
<1>1. /\ n \in Nat /\ order \in Seq(1..n) /\ Len(order) = n /\ Distinct(order)
      /\ Numbered(g.outputs, Outs(f.coders), n) /\ Numbered(g.inputs, Ins(f.coders), n)
  BY DEF Wiring
<1>2. /\ n >= 1 /\ g.packed[1] = order[1] /\ g.source[order[1]] = 0
      /\ \A k \in 2..n : g.source[order[k]] = order[k - 1]
      /\ g.final = order[n]
  <2>1. Chained(f, g)
    BY ChainIs
  <2> QED BY <2>1 DEF Chained
<1>3. /\ Ins(f.coders) \in Seq(Nat) /\ \A c \in 1..n : Ins(f.coders)[c] = 1
      /\ Outs(f.coders) \in Seq(Nat) /\ \A c \in 1..n : Outs(f.coders)[c] = 1
  BY CountsType
<1>4. \A c \in 1..n : f.coders[c].ins = 1 /\ f.coders[c].outs = 1
  OBVIOUS
<1> HIDE DEF n, order, r
<1>5. Len(g.inputs) = n /\ \A c \in 1..n : first(c) = c - 1
  <2> DEFINE counts == Ins(f.coders)
             owners == g.inputs
  <2>1. n \in Nat /\ counts \in Seq(Nat) /\ Numbered(owners, counts, n) /\ \A c \in 1..n : counts[c] = 1
    BY <1>1, <1>3
  <2> HIDE DEF counts, owners
  <2>2. FirstIsBefore(owners, counts, n)
    BY <2>1, AllFirst
  <2> QED BY <2>2 DEF counts, owners, FirstIsBefore
<1>6. Len(g.outputs) = n /\ \A c \in 1..n : g.outputs[c] = c
  BY <1>1, <1>3, AllOne
<1>7. DOMAIN order = 1..n /\ \A k \in 1..n : order[k] \in 1..n
  BY <1>1
<1>8. ASSUME NEW k \in 1..n PROVE Bound(f, r, k - 1, first(order[k]))
  <2>1. order[k] \in 1..Len(g.inputs) /\ first(order[k]) = order[k] - 1
    BY <1>5, <1>7
  <2>2. CASE k = 1
    <3>1. r.slot \in 1..Len(g.packed) /\ g.packed[r.slot] = order[k]
      BY <1>2, <2>2 DEF r
    <3>2. Bound(f, r, 0, order[k] - 1)
      BY <2>1, <3>1, BoundPacked
    <3> QED BY <2>1, <2>2, <3>2
  <2>3. CASE k # 1
    <3>1. k \in 2..n /\ k - 1 \in 1..n /\ k - 1 # 0
      BY <1>1, <2>3
    <3>2. g.source[order[k]] = order[k - 1] /\ order[k - 1] \in 1..n
      BY <1>2, <1>7, <3>1
    <3>3. g.source[order[k]] # 0 /\ g.outputs[g.source[order[k]]] = r.coders[k - 1]
      BY <1>1, <1>6, <3>2 DEF r, order
    <3>4. Bound(f, r, k - 1, order[k] - 1)
      BY <2>1, <3>1, <3>3, BoundPair
    <3> QED BY <2>1, <3>4
  <2> QED BY <2>2, <2>3
<1>9. r.coders = order
  BY DEF r, order
<1>10. ToSet(order) = 1..n
  <2>1. Elems(order) = 1..n
    BY <1>1, DistinctElems
  <2> QED BY <1>1, <1>7, <2>1 DEF ToSet, Elems
<1>11. final = Last(order)
  <2>1. n \in 1..n /\ Last(order) = order[n] /\ order[n] \in 1..n
    BY <1>1, <1>2, <1>7 DEF Last
  <2>2. \A o \in 1..Len(g.outputs) : Owner(Outs(f.coders), o - 1) = g.outputs[o]
    BY <1>1 DEF Numbered
  <2> QED BY <1>2, <1>6, <2>1, <2>2
<1> HIDE DEF first, final
<1>12. \A k \in DOMAIN rs : \A j \in DOMAIN rs[k].coders :
          /\ f.coders[rs[k].coders[j]].ins = 1 /\ f.coders[rs[k].coders[j]].outs = 1
          /\ Bound(f, rs[k], j - 1, first(rs[k].coders[j]))
  BY <1>4, <1>7, <1>8, <1>9 DEF r
<1>13. \A k, l \in DOMAIN rs : \A i \in DOMAIN rs[k].coders, j \in DOMAIN rs[l].coders :
          rs[k].coders[i] = rs[l].coders[j] => k = l /\ i = j
  BY <1>1, <1>7, <1>9 DEF r, Distinct
<1>14. UNION {ToSet(rs[k].coders) : k \in DOMAIN rs} = (1..n) \ {0}
  <2>1. UNION {ToSet(rs[k].coders) : k \in DOMAIN rs} = ToSet(rs[1].coders)
    OBVIOUS
  <2>2. 0 \notin 1..n
    BY <1>1
  <2> QED BY <1>9, <1>10, <2>1, <2>2 DEF r
<1>15. Len(rs) = 1 /\ final = Last(rs[1].coders)
  BY <1>9, <1>11 DEF r
<1> QED
  BY <1>12, <1>13, <1>14, <1>15, Zenon DEF Followed, first, final, n

\* How the inputs of BCJ2 are reached: on four ways that share no coder and leave none out.
Layout(f, g, bcj2, lay) ==
    /\ bcj2 \in 1..Len(f.coders) /\ f.coders[bcj2].ins = 4
    /\ g.outputs[g.final] = bcj2
    /\ Len(lay) = 4 /\ DOMAIN lay = 1..4
    /\ \A k \in 1..4 :
          /\ lay[k] \in Trails(f, g, bcj2, StreamTotal(Ins(f.coders))[bcj2 - 1] + k)
          /\ lay[k].slot # 0
    /\ \A k, l \in 1..4 : \A i \in 1..Len(lay[k].coders), j \in 1..Len(lay[l].coders) :
          lay[k].coders[i].coder = lay[l].coders[j].coder => k = l /\ i = j
    /\ \A c \in 1..Len(f.coders) :
          c # bcj2 => \E k \in 1..4 : \E i \in 1..Len(lay[k].coders) : lay[k].coders[i].coder = c

(* The inputs of BCJ2 are listed in the order of its streams.              *)
LEMMA Bcj2InputsAre ==
    ASSUME folder \in Folder, Wiring(folder, graph), NEW bcj2 \in 1..Len(folder.coders)
    PROVE  /\ Len(Bcj2Inputs(bcj2)) = folder.coders[bcj2].ins
           /\ DOMAIN Bcj2Inputs(bcj2) = 1..folder.coders[bcj2].ins
           /\ folder.coders[bcj2].ins \in Nat
           /\ \A k \in 1..folder.coders[bcj2].ins :
                 /\ Bcj2Inputs(bcj2)[k] = StreamTotal(Ins(folder.coders))[bcj2 - 1] + k
                 /\ Bcj2Inputs(bcj2)[k] \in 1..Len(graph.inputs)
<1> DEFINE n == Len(folder.coders)
           counts == Ins(folder.coders)
           owners == graph.inputs
           m == Len(owners)
           chosen == {i \in DOMAIN owners : owners[i] = bcj2}
           s == Bcj2Inputs(bcj2)
           a == StreamTotal(counts)[bcj2 - 1]
           count == folder.coders[bcj2].ins
<1>1. n \in Nat /\ Numbered(owners, counts, n)
  BY DEF Wiring
<1>2. counts \in Seq(Nat) /\ counts[bcj2] = count /\ bcj2 \in 1..n
  BY CountsType
<1>3. m \in Nat /\ DOMAIN owners = 1..m
  BY <1>1 DEF Numbered
<1>4. Listing(s, m, chosen)
  BY <1>3, AscendingIs DEF Bcj2Inputs
<1> HIDE DEF n, counts, owners, m, s, count
<1>5. /\ a \in Nat /\ count \in Nat /\ a + count <= m
      /\ \A i \in 1..m : owners[i] = bcj2 <=> a < i /\ i <= a + count
  <2>1. /\ a \in Nat /\ counts[bcj2] \in Nat /\ a + counts[bcj2] <= Len(owners)
        /\ \A i \in 1..Len(owners) : owners[i] = bcj2 <=> a < i /\ i <= a + counts[bcj2]
    BY <1>1, <1>2, StreamsOf
  <2> QED BY <1>2, <2>1 DEF m
<1> HIDE DEF a
<1>6. \A i \in 1..m : i \in chosen <=> a < i /\ i <= a + count
  BY <1>3, <1>5
<1> HIDE DEF chosen
<1>10. m \in Nat /\ a \in Nat /\ count \in Nat /\ a + count <= m
  BY <1>3, <1>5
<1>7. Len(s) = count /\ \A k \in 1..count : s[k] = a + k
  <2>1. Interval(m, chosen, a, count)
    BY <1>6, <1>10 DEF Interval
  <2>2. CountsFrom(s, a, count)
    BY <1>4, <2>1, ListsInterval
  <2> QED BY <2>2 DEF CountsFrom
<1>8. s \in Seq(1..m)
  BY <1>4 DEF Listing
<1>9. DOMAIN s = 1..count /\ \A k \in 1..count : s[k] \in 1..m
  <2>1. DOMAIN s = 1..Len(s) /\ \A k \in 1..Len(s) : s[k] \in 1..m
    BY <1>8, <1>10
  <2> QED BY <1>7, <2>1
<1> QED
  BY <1>5, <1>7, <1>9 DEF s, count, a, m, owners, counts

(* A layout that is accepted has four channels for all other coders.       *)
LEMMA LayoutIs ==
    ASSUME folder \in Folder, Wiring(folder, graph), NEW bcj2 \in 1..Len(folder.coders),
           Bcj2Layout(bcj2) # <<>>
    PROVE  Layout(folder, graph, bcj2, Bcj2Layout(bcj2))
<1> DEFINE inputs == Bcj2Inputs(bcj2)
           lay == [k \in DOMAIN inputs |-> Channel(bcj2, inputs[k])]
           used == {p \in (DOMAIN lay) \X (DOMAIN folder.coders) :
                        p[2] \in DOMAIN lay[p[1]].coders}
           user(p) == lay[p[1]].coders[p[2]].coder
           n == Len(folder.coders)
           a == StreamTotal(Ins(folder.coders))[bcj2 - 1]
<1>1. /\ Bcj2Layout(bcj2) = lay
      /\ graph.outputs[graph.final] = bcj2
      /\ Len(inputs) = 4
      /\ \A k \in DOMAIN lay : lay[k].slot # 0
      /\ \A p, q \in used : user(p) = user(q) => p = q
      /\ {user(p) : p \in used} = DOMAIN folder.coders \ {bcj2}
  BY Zenon DEF Bcj2Layout
<1>2. /\ folder.coders[bcj2].ins = 4 /\ DOMAIN inputs = 1..4
      /\ \A k \in 1..4 : inputs[k] = a + k /\ inputs[k] \in 1..Len(graph.inputs)
  <2> DEFINE count == folder.coders[bcj2].ins
  <2>1. /\ Len(inputs) = count /\ DOMAIN inputs = 1..count
        /\ \A k \in 1..count : inputs[k] = a + k /\ inputs[k] \in 1..Len(graph.inputs)
    BY Bcj2InputsAre
  <2>2. count = 4
    BY <1>1, <2>1
  <2> HIDE DEF count, inputs, a
  <2>3. /\ DOMAIN inputs = 1..4
        /\ \A k \in 1..4 : inputs[k] = a + k /\ inputs[k] \in 1..Len(graph.inputs)
    BY <2>1, <2>2
  <2> QED BY <2>2, <2>3 DEF count
<1>3. DOMAIN lay = 1..4 /\ Len(lay) = 4 /\ \A k \in 1..4 : lay[k] = Channel(bcj2, inputs[k])
  BY <1>2
<1>4. DOMAIN folder.coders = 1..n /\ n \in Nat
  BY PairsDomain, CountsType
<1> HIDE DEF inputs, lay, n, a
<1>5. ASSUME NEW k \in 1..4
      PROVE  /\ lay[k] \in Trails(folder, graph, bcj2, a + k) /\ Len(lay[k].coders) <= n
             /\ DOMAIN lay[k].coders = 1..Len(lay[k].coders) /\ Len(lay[k].coders) \in Nat
  <2>1. /\ Channel(bcj2, inputs[k]) \in Trails(folder, graph, bcj2, inputs[k])
        /\ Len(Channel(bcj2, inputs[k]).coders) <= n
    BY <1>2, ChannelIs, WalkLength DEF n
  <2>2. lay[k] \in Trails(folder, graph, bcj2, a + k) /\ Len(lay[k].coders) <= n
    BY <1>2, <1>3, <2>1
  <2>3. lay[k].coders \in Seq([coder : 1..Len(folder.coders), output : 1..Len(graph.outputs)])
    BY <2>2 DEF Trails, TrackType
  <2> DEFINE cs == lay[k].coders
             Y == [coder : 1..Len(folder.coders), output : 1..Len(graph.outputs)]
  <2>4. cs \in Seq(Y)
    BY <2>3
  <2> HIDE DEF cs, Y
  <2>5. DOMAIN cs = 1..Len(cs) /\ Len(cs) \in Nat
    BY <2>4
  <2> QED BY <2>2, <2>5 DEF cs
<1>6. ASSUME NEW k \in 1..4, NEW i \in 1..Len(lay[k].coders)
      PROVE  <<k, i>> \in used /\ user(<<k, i>>) = lay[k].coders[i].coder
  <2>1. i \in 1..n /\ i \in DOMAIN lay[k].coders
    BY <1>4, <1>5
  <2> QED BY <1>3, <1>4, <2>1
<1>7. ASSUME NEW p \in used
      PROVE  \E k \in 1..4 : \E i \in 1..Len(lay[k].coders) : user(p) = lay[k].coders[i].coder
  <2>1. p[1] \in 1..4 /\ p[2] \in DOMAIN lay[p[1]].coders
    BY <1>3
  <2>2. p[2] \in 1..Len(lay[p[1]].coders)
    BY <1>5, <2>1
  <2> QED BY <2>1, <2>2
<1>8. ASSUME NEW k \in 1..4, NEW l \in 1..4, NEW i \in 1..Len(lay[k].coders), NEW j \in 1..Len(lay[l].coders),
             lay[k].coders[i].coder = lay[l].coders[j].coder
      PROVE  k = l /\ i = j
  <2>1. <<k, i>> \in used /\ <<l, j>> \in used /\ user(<<k, i>>) = user(<<l, j>>)
    BY <1>6, <1>8
  <2>2. <<k, i>> = <<l, j>>
    <3> HIDE DEF used, user
    <3> QED BY <1>1, <2>1
  <2> QED BY <2>2
<1>9. ASSUME NEW c \in 1..n, c # bcj2
      PROVE  \E k \in 1..4 : \E i \in 1..Len(lay[k].coders) : lay[k].coders[i].coder = c
  <2>1. c \in {user(p) : p \in used}
    <3> HIDE DEF used, user
    <3> QED BY <1>1, <1>4, <1>9
  <2>2. PICK p \in used : c = user(p)
    <3> HIDE DEF used, user
    <3> QED BY <2>1
  <2> QED BY <1>7, <2>2
<1>10. Layout(folder, graph, bcj2, lay)
  BY <1>1, <1>2, <1>3, <1>5, <1>8, <1>9, SMTT(30) DEF Layout, a, n
<1> QED
  BY <1>1, <1>10

\* What one channel of a layout is.
ChannelOf(f, g, bcj2, start, t) ==
    /\ start \in 1..Len(g.inputs) /\ g.inputs[start] = bcj2
    /\ Len(t.coders) \in Nat /\ DOMAIN t.coders = 1..Len(t.coders)
    /\ t.coders = <<>> <=> Len(t.coders) = 0
    /\ \A j \in 1..Len(t.coders) :
          /\ t.coders[j].coder \in 1..Len(f.coders) /\ t.coders[j].output \in 1..Len(g.outputs)
          /\ f.coders[t.coders[j].coder].ins = 1 /\ f.coders[t.coders[j].coder].outs = 1
          /\ t.coders[j].coder # bcj2 /\ g.outputs[t.coders[j].output] = t.coders[j].coder
          /\ Entry(f, t.coders[j].coder) \in 1..Len(g.inputs)
          /\ g.inputs[Entry(f, t.coders[j].coder)] = t.coders[j].coder
    /\ \A j \in 1..Len(t.coders) :
          j # 1 => g.source[Entry(f, t.coders[j].coder)] = t.coders[j - 1].output
    /\ Len(t.coders) # 0 => g.source[start] = t.coders[Len(t.coders)].output
    /\ t.slot \in 1..Len(g.packed)
    /\ g.packed[t.slot] = IF Len(t.coders) = 0 THEN start ELSE Entry(f, t.coders[1].coder)

(* What its channels are.                                                  *)
LEMMA ChannelOfLayout ==
    ASSUME NEW f \in Folder, NEW g, Wiring(f, g), NEW bcj2, NEW lay, Layout(f, g, bcj2, lay), NEW k \in 1..4
    PROVE  ChannelOf(f, g, bcj2, StreamTotal(Ins(f.coders))[bcj2 - 1] + k, lay[k])
<1> DEFINE a == StreamTotal(Ins(f.coders))[bcj2 - 1]
           start == a + k
           t == lay[k]
           X == [coder : 1..Len(f.coders), output : 1..Len(g.outputs)]
           cs == t.coders
           m == Len(cs)
<1>1. /\ bcj2 \in 1..Len(f.coders) /\ f.coders[bcj2].ins = 4
      /\ t \in Trails(f, g, bcj2, start) /\ t.slot # 0
  BY DEF Layout
<1>2. start \in 1..Len(g.inputs) /\ g.inputs[start] = bcj2
  <2> DEFINE n == Len(f.coders)
             counts == Ins(f.coders)
             owners == g.inputs
  <2>1. n \in Nat /\ Numbered(owners, counts, n)
    BY DEF Wiring
  <2>2. counts \in Seq(Nat) /\ counts[bcj2] = 4 /\ bcj2 \in 1..n
    BY <1>1, CountsType
  <2> HIDE DEF n, counts, owners
  <2>3. /\ StreamTotal(counts)[bcj2 - 1] \in Nat
        /\ StreamTotal(counts)[bcj2 - 1] + counts[bcj2] <= Len(owners)
        /\ \A i \in 1..Len(owners) :
                 owners[i] = bcj2 <=> /\ StreamTotal(counts)[bcj2 - 1] < i
                                   /\ i <= StreamTotal(counts)[bcj2 - 1] + counts[bcj2]
    BY <2>1, <2>2, StreamsOf
  <2> DEFINE b == StreamTotal(counts)[bcj2 - 1]
  <2>4. b \in Nat /\ b + 4 <= Len(owners) /\ Len(owners) \in Nat
        /\ \A i \in 1..Len(owners) : owners[i] = bcj2 <=> b < i /\ i <= b + 4
    BY <2>1, <2>2, <2>3 DEF Numbered
  <2> HIDE DEF b
  <2>5. b + k \in 1..Len(owners) /\ owners[b + k] = bcj2
    BY <2>4
  <2> QED BY <2>5 DEF b, counts, owners
<1> HIDE DEF a
<1>3. t \in TrackType(f, g) /\ Trail(f, g, bcj2, start, t)
  BY <1>1 DEF Trails
<1>4. cs \in Seq(X)
  BY <1>3 DEF TrackType
<1>5. Path(f, g, bcj2, start, cs, t.input) /\ t.slot \in 1..Len(g.packed) /\ g.packed[t.slot] = t.input
  BY <1>1, <1>3 DEF Trail
<1> HIDE DEF start, t
<1>6. /\ \A j \in 1..m :
          /\ f.coders[cs[j].coder].ins = 1 /\ f.coders[cs[j].coder].outs = 1
          /\ cs[j].coder # bcj2 /\ g.outputs[cs[j].output] = cs[j].coder
      /\ \A j \in 1..(m - 1) : g.source[Entry(f, cs[j + 1].coder)] = cs[j].output
      /\ cs # <<>> => g.source[start] = cs[m].output /\ t.input = Entry(f, cs[1].coder)
      /\ cs = <<>> => t.input = start
  BY <1>5 DEF Path
<1> HIDE DEF X
<1>7. m \in Nat /\ DOMAIN cs = 1..m /\ (cs = <<>> <=> m = 0) /\ \A j \in 1..m : cs[j] \in X
  <2> HIDE DEF cs
  <2> QED BY <1>4
<1>8. \A j \in 1..m : cs[j].coder \in 1..Len(f.coders) /\ cs[j].output \in 1..Len(g.outputs)
  BY <1>7 DEF X
<1>9. \A j \in 1..m : /\ Entry(f, cs[j].coder) \in 1..Len(g.inputs)
                      /\ g.inputs[Entry(f, cs[j].coder)] = cs[j].coder
  BY <1>6, <1>8, EntryIs, SMTT(30)
<1>10. ASSUME NEW j \in 1..m, j # 1 PROVE g.source[Entry(f, cs[j].coder)] = cs[j - 1].output
  <2>1. j - 1 \in 1..(m - 1) /\ (j - 1) + 1 = j
    BY <1>7, <1>10
  <2> QED BY <1>6, <2>1
<1> HIDE DEF cs, m
<1>11. g.packed[t.slot] = IF m = 0 THEN start ELSE Entry(f, cs[1].coder)
  BY <1>5, <1>6, <1>7
<1>12. m # 0 => g.source[start] = cs[m].output
  BY <1>6, <1>7
<1>13. start \in 1..Len(g.inputs) /\ g.inputs[start] = bcj2
  BY <1>2 DEF start, a
<1> QED
  BY <1>5, <1>6, <1>7, <1>8, <1>9, <1>10, <1>11, <1>12, <1>13, Zenon DEF ChannelOf, cs, m, t, start, a

(* The channels start from different packed streams: a lone folder has one *)
(* and is no such folder.                                                  *)
LEMMA LayoutSlots ==
    ASSUME NEW f \in Folder, NEW g, Wiring(f, g), NEW bcj2, NEW lay, Layout(f, g, bcj2, lay)
    PROVE  Len(g.packed) # 1
<1> SUFFICES ASSUME Len(g.packed) = 1 PROVE FALSE
  OBVIOUS
<1> DEFINE a == StreamTotal(Ins(f.coders))[bcj2 - 1]
           s == lay[1].coders
           t == lay[2].coders
<1>1. ChannelOf(f, g, bcj2, a + 1, lay[1]) /\ ChannelOf(f, g, bcj2, a + 2, lay[2])
  BY ChannelOfLayout
<1>2. a \in Nat
  <2>1. StreamTotal(Ins(f.coders)) \in [0..Len(f.coders) -> Nat]
    BY DEF Wiring, Numbered
  <2>2. bcj2 \in 1..Len(f.coders) /\ Len(f.coders) \in Nat
    BY CountsType DEF Layout
  <2>3. bcj2 - 1 \in 0..Len(f.coders)
    BY <2>2
  <2> QED BY <2>1, <2>3
<1> HIDE DEF a
<1>3. lay[1].slot = 1 /\ lay[2].slot = 1
  BY <1>1, SMTT(30) DEF ChannelOf
<1>4. /\ g.packed[1] = IF Len(s) = 0 THEN a + 1 ELSE Entry(f, s[1].coder)
      /\ g.packed[1] = IF Len(t) = 0 THEN a + 2 ELSE Entry(f, t[1].coder)
      /\ g.inputs[a + 1] = bcj2 /\ g.inputs[a + 2] = bcj2
      /\ Len(s) \in Nat /\ Len(t) \in Nat
      /\ \A j \in 1..Len(s) : s[j].coder # bcj2 /\ g.inputs[Entry(f, s[j].coder)] = s[j].coder
      /\ \A j \in 1..Len(t) : t[j].coder # bcj2 /\ g.inputs[Entry(f, t[j].coder)] = t[j].coder
  BY <1>1, <1>3 DEF ChannelOf
<1>5. \A i \in 1..Len(s), j \in 1..Len(t) : s[i].coder # t[j].coder
  BY DEF Layout
<1> HIDE DEF s, t
<1>6. CASE Len(s) = 0 /\ Len(t) = 0
  BY <1>2, <1>4, <1>6
<1>7. CASE Len(s) = 0 /\ Len(t) # 0
  <2>1. 1 \in 1..Len(t)
    BY <1>4, <1>7
  <2> QED BY <1>4, <1>7, <2>1
<1>8. CASE Len(s) # 0 /\ Len(t) = 0
  <2>1. 1 \in 1..Len(s)
    BY <1>4, <1>8
  <2> QED BY <1>4, <1>8, <2>1
<1>9. CASE Len(s) # 0 /\ Len(t) # 0
  <2>1. 1 \in 1..Len(s) /\ 1 \in 1..Len(t)
    BY <1>4, <1>9
  <2> QED BY <1>4, <1>5, <1>9, <2>1
<1> QED
  BY <1>6, <1>7, <1>8, <1>9

\* A reader with every coder of a channel opened.
ReaderOf(r, t) ==
    /\ r.slot = t.slot
    /\ Len(r.coders) = Len(t.coders) /\ DOMAIN r.coders = 1..Len(t.coders)
    /\ \A j \in 1..Len(t.coders) : r.coders[j] = t.coders[j].coder

(* A reader of a channel follows the graph.                                *)
LEMMA ChannelBound ==
    ASSUME NEW f \in Folder, NEW g, Wiring(f, g), NEW bcj2, NEW start,
           NEW t, ChannelOf(f, g, bcj2, start, t), NEW r, ReaderOf(r, t)
    PROVE  /\ \A j \in 1..Len(t.coders) :
                 Bound(f, r, j - 1, StreamTotal(Ins(f.coders))[r.coders[j] - 1])
           /\ Bound(f, r, Len(t.coders), start - 1)
<1> DEFINE m == Len(t.coders)
<1>1. /\ r.slot \in 1..Len(g.packed) /\ m \in Nat
      /\ g.packed[r.slot] = IF m = 0 THEN start ELSE Entry(f, r.coders[1])
      /\ start \in 1..Len(g.inputs)
      /\ \A j \in 1..m : /\ r.coders[j] \in 1..Len(f.coders)
                         /\ Entry(f, r.coders[j]) \in 1..Len(g.inputs)
                         /\ t.coders[j].output \in 1..Len(g.outputs)
                         /\ g.outputs[t.coders[j].output] = r.coders[j]
      /\ \A j \in 1..m : j # 1 => g.source[Entry(f, r.coders[j])] = t.coders[j - 1].output
      /\ m # 0 => g.source[start] = t.coders[m].output
  <2>1. m \in Nat /\ (m # 0 => 1 \in 1..m)
    BY DEF ChannelOf
  <2> QED BY <2>1 DEF ChannelOf, ReaderOf
<1>2. Len(g.outputs) \in Nat
  BY DEF Wiring, Numbered
<1> HIDE DEF m
<1>3. ASSUME NEW j \in 1..m
      PROVE  StreamTotal(Ins(f.coders))[r.coders[j] - 1] = Entry(f, r.coders[j]) - 1
  <2>1. StreamTotal(Ins(f.coders)) \in [0..Len(f.coders) -> Nat] /\ Len(f.coders) \in Nat
    BY DEF Wiring, Numbered
  <2>2. r.coders[j] \in 1..Len(f.coders)
    BY <1>1
  <2>3. r.coders[j] - 1 \in 0..Len(f.coders)
    BY <2>1, <2>2
  <2>4. StreamTotal(Ins(f.coders))[r.coders[j] - 1] \in Nat
    BY <2>1, <2>3
  <2> QED BY <2>4 DEF Entry
<1>4. ASSUME NEW j \in 1..m PROVE Bound(f, r, j - 1, Entry(f, r.coders[j]) - 1)
  <2> DEFINE i == Entry(f, r.coders[j])
  <2>1. i \in 1..Len(g.inputs)
    BY <1>1
  <2>2. CASE j = 1
    <3>1. g.packed[r.slot] = i
      BY <1>1, <2>2
    <3> HIDE DEF i
    <3>2. Bound(f, r, 0, i - 1)
      BY <1>1, <2>1, <3>1, BoundPacked
    <3> QED BY <2>2, <3>2 DEF i
  <2>3. CASE j # 1
    <3>1. j - 1 \in 1..m /\ j - 1 # 0
      BY <1>1, <2>3
    <3>2. g.source[i] = t.coders[j - 1].output
      BY <1>1, <2>3
    <3> HIDE DEF i
    <3>3. g.source[i] # 0 /\ g.outputs[g.source[i]] = r.coders[j - 1]
      <4>1. t.coders[j - 1].output \in 1..Len(g.outputs) /\ g.outputs[t.coders[j - 1].output] = r.coders[j - 1]
        BY <1>1, <3>1
      <4> QED BY <1>2, <3>2, <4>1
    <3>4. Bound(f, r, j - 1, i - 1)
      BY <2>1, <3>1, <3>3, BoundPair
    <3> QED BY <3>4 DEF i
  <2> QED BY <2>2, <2>3
<1>5. Bound(f, r, m, start - 1)
  <2>1. CASE m = 0
    <3>1. Bound(f, r, 0, start - 1)
      BY <1>1, <2>1, BoundPacked
    <3> QED BY <2>1, <3>1
  <2>2. CASE m # 0
    <3>1. m \in 1..m
      BY <1>1, <2>2
    <3>2. g.source[start] # 0 /\ g.outputs[g.source[start]] = r.coders[m]
      <4>1. t.coders[m].output \in 1..Len(g.outputs) /\ g.outputs[t.coders[m].output] = r.coders[m]
        BY <1>1, <3>1
      <4>2. g.source[start] = t.coders[m].output
        BY <1>1, <2>2
      <4> QED BY <1>2, <4>1, <4>2
    <3> QED BY <1>1, <2>2, <3>2, BoundPair
  <2> QED BY <2>1, <2>2
<1> QED
  BY <1>3, <1>4, <1>5 DEF m

(* The readers of a layout follow the graph.                               *)
LEMMA LayoutFollowed ==
    ASSUME NEW f \in Folder, NEW g, Wiring(f, g), NEW bcj2, NEW lay, Layout(f, g, bcj2, lay),
           NEW rs, DOMAIN rs = 1..4, Len(rs) = 4, \A k \in 1..4 : ReaderOf(rs[k], lay[k])
    PROVE  Followed(f, g, bcj2, rs)
<1> DEFINE n == Len(f.coders)
           first(c) == StreamTotal(Ins(f.coders))[c - 1]
           final == Owner(Outs(f.coders), g.final - 1)
<1>1. /\ bcj2 \in 1..n /\ f.coders[bcj2].ins = 4 /\ g.outputs[g.final] = bcj2
      /\ \A k, l \in 1..4 : \A i \in 1..Len(lay[k].coders), j \in 1..Len(lay[l].coders) :
          lay[k].coders[i].coder = lay[l].coders[j].coder => k = l /\ i = j
      /\ \A c \in 1..n :
          c # bcj2 => \E k \in 1..4 : \E i \in 1..Len(lay[k].coders) : lay[k].coders[i].coder = c
  BY DEF Layout
<1>2. /\ n \in Nat /\ g.final \in 1..Len(g.outputs)
      /\ \A o \in 1..Len(g.outputs) : Owner(Outs(f.coders), o - 1) = g.outputs[o]
  BY DEF Wiring, Numbered
<1>3. final = bcj2
  BY <1>1, <1>2
<1>4. ASSUME NEW k \in 1..4 PROVE ChannelOf(f, g, bcj2, first(bcj2) + k, lay[k])
  BY ChannelOfLayout
<1>5. ASSUME NEW k \in 1..4
      PROVE  /\ \A j \in 1..Len(lay[k].coders) : Bound(f, rs[k], j - 1, first(rs[k].coders[j]))
             /\ Bound(f, rs[k], Len(lay[k].coders), (first(bcj2) + k) - 1)
  <2>1. ReaderOf(rs[k], lay[k])
    OBVIOUS
  <2> QED BY <1>4, <2>1, ChannelBound
<1>6. ASSUME NEW k \in 1..4
      PROVE  /\ Len(rs[k].coders) = Len(lay[k].coders) /\ DOMAIN rs[k].coders = 1..Len(lay[k].coders)
             /\ \A j \in 1..Len(lay[k].coders) : rs[k].coders[j] = lay[k].coders[j].coder
  BY DEF ReaderOf
<1>7. ASSUME NEW k \in 1..4, NEW j \in 1..Len(lay[k].coders)
      PROVE  /\ f.coders[rs[k].coders[j]].ins = 1 /\ f.coders[rs[k].coders[j]].outs = 1
             /\ rs[k].coders[j] \in 1..n /\ rs[k].coders[j] # bcj2
  <2>1. ChannelOf(f, g, bcj2, first(bcj2) + k, lay[k])
    BY <1>4
  <2>2. /\ lay[k].coders[j].coder \in 1..n /\ lay[k].coders[j].coder # bcj2
        /\ f.coders[lay[k].coders[j].coder].ins = 1 /\ f.coders[lay[k].coders[j].coder].outs = 1
    <3> HIDE DEF first
    <3> QED BY <2>1 DEF ChannelOf
  <2>3. rs[k].coders[j] = lay[k].coders[j].coder
    BY <1>6
  <2> QED BY <2>2, <2>3
<1> HIDE DEF first, final, n
<1>8. \A k \in DOMAIN rs : \A j \in DOMAIN rs[k].coders :
          /\ f.coders[rs[k].coders[j]].ins = 1 /\ f.coders[rs[k].coders[j]].outs = 1
          /\ Bound(f, rs[k], j - 1, first(rs[k].coders[j]))
  BY <1>5, <1>6, <1>7, ZenonT(30)
<1>9. \A k, l \in DOMAIN rs : \A i \in DOMAIN rs[k].coders, j \in DOMAIN rs[l].coders :
          rs[k].coders[i] = rs[l].coders[j] => k = l /\ i = j
  <2> SUFFICES ASSUME NEW k \in 1..4, NEW l \in 1..4,
                      NEW i \in DOMAIN rs[k].coders, NEW j \in DOMAIN rs[l].coders,
                      rs[k].coders[i] = rs[l].coders[j]
               PROVE  k = l /\ i = j
    OBVIOUS
  <2>1. i \in 1..Len(lay[k].coders) /\ rs[k].coders[i] = lay[k].coders[i].coder
    BY <1>6
  <2>2. j \in 1..Len(lay[l].coders) /\ rs[l].coders[j] = lay[l].coders[j].coder
    BY <1>6
  <2>3. \A x \in 1..Len(lay[k].coders), y \in 1..Len(lay[l].coders) :
          lay[k].coders[x].coder = lay[l].coders[y].coder => k = l /\ x = y
    BY <1>1, Zenon
  <2> QED BY <2>1, <2>2, <2>3
<1>10. UNION {ToSet(rs[k].coders) : k \in DOMAIN rs} = (1..n) \ {bcj2}
  <2>1. ASSUME NEW k \in 1..4
        PROVE  ToSet(rs[k].coders) = {rs[k].coders[j] : j \in 1..Len(lay[k].coders)}
    BY <1>6 DEF ToSet
  <2>2. ASSUME NEW c \in (1..n) \ {bcj2} PROVE c \in UNION {ToSet(rs[k].coders) : k \in DOMAIN rs}
    <3>1. PICK k \in 1..4 : \E i \in 1..Len(lay[k].coders) : lay[k].coders[i].coder = c
      BY <1>1
    <3>2. PICK i \in 1..Len(lay[k].coders) : lay[k].coders[i].coder = c
      BY <3>1
    <3>3. rs[k].coders[i] = c
      BY <1>6, <3>2
    <3>4. c \in ToSet(rs[k].coders)
      BY <2>1, <3>3
    <3> QED BY <3>4
  <2>3. ASSUME NEW k \in 1..4 PROVE ToSet(rs[k].coders) \subseteq (1..n) \ {bcj2}
    <3> SUFFICES ASSUME NEW c \in ToSet(rs[k].coders) PROVE c \in (1..n) \ {bcj2}
      OBVIOUS
    <3>1. PICK j \in 1..Len(lay[k].coders) : c = rs[k].coders[j]
      BY <2>1
    <3> QED BY <1>7, <3>1
  <2> QED BY <2>2, <2>3
<1>11. ASSUME NEW k \in 1..4 PROVE Bound(f, rs[k], Len(rs[k].coders), first(bcj2) + k - 1)
  <2>1. Bound(f, rs[k], Len(lay[k].coders), (first(bcj2) + k) - 1)
    BY <1>5
  <2>2. Len(rs[k].coders) = Len(lay[k].coders)
    BY <1>6
  <2>3. first(bcj2) \in Nat
    <3>1. StreamTotal(Ins(f.coders)) \in [0..Len(f.coders) -> Nat]
      BY DEF Wiring, Numbered
    <3>2. bcj2 - 1 \in 0..n
      BY <1>1, <1>2
    <3> QED BY <3>1, <3>2 DEF first, n
  <2>4. (first(bcj2) + k) - 1 = first(bcj2) + k - 1
    BY <2>3
  <2> QED BY <2>1, <2>2, <2>4, Zenon
<1>12. bcj2 # 0
  BY <1>1, <1>2
<1> QED
  BY <1>1, <1>3, <1>8, <1>9, <1>10, <1>11, <1>12, Zenon DEF Followed, first, final, n

\* The steps planned for a channel.
ChannelSteps(t, declared, packed, unpack) ==
    BindSizes([k \in DOMAIN t.coders |-> t.coders[k].coder],
              [k \in DOMAIN t.coders |-> OutputSize(declared, unpack, t.coders[k].output)],
              packed[t.slot])

(* The one output of a coder with one output.                              *)
LEMMA OutputOf ==
    ASSUME NEW f \in Folder, NEW g, Wiring(f, g), NEW c \in 1..Len(f.coders), f.coders[c].outs = 1,
           NEW o \in 1..Len(g.outputs), g.outputs[o] = c
    PROVE  (CHOOSE x \in DOMAIN g.outputs : g.outputs[x] = c) = o
<1> DEFINE n == Len(f.coders)
           counts == Outs(f.coders)
           owners == g.outputs
<1>1. n \in Nat /\ Numbered(owners, counts, n)
  BY DEF Wiring
<1>2. counts \in Seq(Nat) /\ counts[c] = 1 /\ c \in 1..n
  BY CountsType
<1>3. o \in 1..Len(owners) /\ owners[o] = c
  OBVIOUS
<1> HIDE DEF n, counts, owners
<1>4. /\ \A i \in 1..Len(owners) : owners[i] = c <=> i = StreamTotal(counts)[c - 1] + 1
      /\ (CHOOSE i \in DOMAIN owners : owners[i] = c) = StreamTotal(counts)[c - 1] + 1
  BY <1>1, <1>2, OneStream, SMTT(30)
<1>5. (CHOOSE i \in DOMAIN owners : owners[i] = c) = o
  BY <1>3, <1>4
<1> QED
  BY <1>5 DEF owners

\* They are the channel's coders, with sizes that fit.
Fitting(f, g, declared, packed, unpack, t, steps) ==
    /\ Len(steps) = Len(t.coders) /\ DOMAIN steps = 1..Len(t.coders)
    /\ \A j \in 1..Len(t.coders) :
          /\ steps[j].coder = t.coders[j].coder
          /\ FitStep(f, g, declared, packed, unpack, [slot |-> t.slot, steps |-> steps], j)

(* The sizes of a channel fit: every size is declared, so none is unknown. *)
LEMMA ChannelFits ==
    ASSUME folder \in Folder, Wiring(folder, graph), NEW bcj2, NEW start,
           NEW t, ChannelOf(folder, graph, bcj2, start, t),
           NEW declared \in Seq(Nat), Len(declared) = Len(graph.outputs),
           NEW packed \in Seq(Nat), Len(packed) = Len(graph.packed), NEW unpack \in Nat,
           NEW steps, steps = ChannelSteps(t, declared, packed, unpack),
           \A s \in ToSet(steps) : s.output # Clash
    PROVE  Fitting(folder, graph, declared, packed, unpack, t, steps)
<1> DEFINE m == Len(t.coders)
           OS(k) == OutputSize(declared, unpack, t.coders[k].output)
           coders == [k \in DOMAIN t.coders |-> t.coders[k].coder]
           sizes == [k \in DOMAIN t.coders |-> OS(k)]
           base == packed[t.slot]
           method(k) == folder.coders[coders[k]].method
           input(k) == IF k = 1 THEN base ELSE steps[k - 1].output
<1>1. /\ m \in Nat /\ DOMAIN t.coders = 1..m /\ t.slot \in 1..Len(graph.packed)
      /\ \A j \in 1..m : /\ t.coders[j].coder \in 1..Len(folder.coders)
                         /\ t.coders[j].output \in 1..Len(graph.outputs)
                         /\ folder.coders[t.coders[j].coder].outs = 1
                         /\ graph.outputs[t.coders[j].output] = t.coders[j].coder
  BY DEF ChannelOf
<1>2. base \in Nat
  <2>1. t.slot \in 1..Len(packed)
    BY <1>1
  <2> QED BY <2>1
<1> HIDE DEF m
<1>3. /\ DOMAIN coders = 1..m /\ Len(coders) = m
      /\ \A k \in 1..m : coders[k] = t.coders[k].coder
      /\ \A k \in 1..m : sizes[k] = OS(k)
  <2> HIDE DEF OS
  <2> QED BY <1>1
<1>4. ASSUME NEW k \in 1..m PROVE OS(k) \in Nat
  <2>1. Len(graph.outputs) \in Nat
    BY DEF Wiring, Numbered
  <2>2. t.coders[k].output \in Nat /\ t.coders[k].output >= 1 /\ t.coders[k].output <= Len(declared)
    BY <1>1, <2>1
  <2> QED BY <2>2, OutputSizeIs
<1>5. StepsOf(steps, m, coders, sizes, base)
  <2>1. steps = BindSizes(coders, sizes, base)
    BY Zenon DEF ChannelSteps
  <2>2. base \in Int /\ \A k \in 1..m : sizes[k] \in Int
    BY <1>2, <1>3, <1>4
  <2> HIDE DEF coders, sizes, base
  <2> QED BY <1>1, <1>3, <2>1, <2>2, BindSizesIs
<1> HIDE DEF coders, sizes, base, OS
<1>6. /\ Len(steps) = m /\ DOMAIN steps = 1..m
      /\ \A k \in 1..m : /\ steps[k] = BindSize(coders[k], sizes[k], input(k))
                         /\ steps[k].output \in Int
  BY <1>5 DEF StepsOf
<1>7. \A k \in 1..m : steps[k].output # Clash
  BY <1>6 DEF ToSet
<1>8. ASSUME NEW k \in 1..m
      PROVE  /\ steps[k].coder = coders[k] /\ steps[k].input = input(k)
             /\ steps[k].output = IF method(k) \in Preserving THEN Reconcile(OS(k), input(k)) ELSE OS(k)
             /\ input(k) \in Int
  <2>1. steps[k] = BindSize(coders[k], OS(k), input(k))
    BY <1>3, <1>6
  <2>2. /\ steps[k].coder = coders[k] /\ steps[k].input = input(k)
        /\ steps[k].output = StepOutput(coders[k], OS(k), input(k))
    <3> HIDE DEF input
    <3> QED BY <2>1, BindSizeIs
  <2>3. input(k) \in Int
    <3>1. k # 1 => k - 1 \in 1..m
      BY <1>1
    <3> QED BY <1>2, <1>6, <3>1
  <2> QED BY <2>2, <2>3 DEF StepOutput
<1>9. ASSUME NEW k \in 1..m PROVE steps[k].output = OS(k)
  <2>1. /\ steps[k].output = IF method(k) \in Preserving THEN Reconcile(OS(k), input(k)) ELSE OS(k)
        /\ steps[k].output # Clash /\ OS(k) \in Int /\ input(k) \in Int /\ OS(k) # Unknown
    BY <1>4, <1>7, <1>8 DEF Unknown
  <2> HIDE DEF input, method
  <2> QED BY <2>1, ReconcileIs
<1>10. ASSUME NEW k \in 1..m, method(k) \in Preserving PROVE steps[k].output = input(k)
  <2>1. input(k) \in Nat
    <3>1. k # 1 => k - 1 \in 1..m
      BY <1>1
    <3> QED BY <1>2, <1>4, <1>9, <3>1
  <2>2. /\ steps[k].output = Reconcile(OS(k), input(k))
        /\ steps[k].output # Clash /\ OS(k) \in Int /\ input(k) \in Int /\ input(k) # Unknown
    BY <1>4, <1>7, <1>8, <1>10, <2>1 DEF Unknown
  <2> HIDE DEF input
  <2> QED BY <2>2, ReconcileIs
<1>11. ASSUME NEW k \in 1..m
       PROVE  FitStep(folder, graph, declared, packed, unpack, [slot |-> t.slot, steps |-> steps], k)
  <2> DEFINE ch == [slot |-> t.slot, steps |-> steps]
             step == ch.steps[k]
             o == CHOOSE o \in DOMAIN graph.outputs : graph.outputs[o] = step.coder
             size == IF o = graph.final THEN unpack
                     ELSE IF o <= Len(declared) THEN declared[o] ELSE Unknown
  <2>1. ch.steps = steps /\ ch.slot = t.slot
    OBVIOUS
  <2> HIDE DEF ch
  <2>2. step.coder = t.coders[k].coder /\ step.coder = coders[k] /\ step = steps[k]
    BY <1>3, <1>8, <2>1
  <2>3. o = t.coders[k].output
    <3> DEFINE c == step.coder
               q == t.coders[k].output
    <3>1. /\ c \in 1..Len(folder.coders) /\ folder.coders[c].outs = 1
          /\ q \in 1..Len(graph.outputs) /\ graph.outputs[q] = c
      BY <1>1, <2>2
    <3> HIDE DEF c, q
    <3>2. (CHOOSE x \in DOMAIN graph.outputs : graph.outputs[x] = c) = q
      BY <3>1, OutputOf
    <3> QED BY <3>2 DEF c, q
  <2> HIDE DEF o
  <2>4. size = OS(k)
    BY <2>3 DEF OS, OutputSize
  <2> HIDE DEF size, step
  <2>5. step.input = IF k = 1 THEN packed[ch.slot] ELSE ch.steps[k - 1].output
    BY <1>8, <2>1, <2>2 DEF base
  <2>6. folder.coders[step.coder].method \in Preserving => step.output = step.input
    BY <1>8, <1>10, <2>2
  <2>7. size # Unknown => step.output = size
    BY <1>9, <2>2, <2>4
  <2>8. step.output # Unknown
    BY <1>4, <1>9, <2>2 DEF Unknown
  <2> QED BY <2>5, <2>6, <2>7, <2>8, Zenon DEF FitStep, size, o, step, ch
<1>12. \A j \in 1..m : steps[j].coder = t.coders[j].coder
  BY <1>3, <1>8
<1> QED
  BY <1>6, <1>11, <1>12 DEF Fitting, m

-----------------------------------------------------------------------------
(***************************************************************************)
(* A plan that is accepted is right, and opening it keeps it so.           *)
(***************************************************************************)
\* The readers of a plan when every step of it has been opened.
FullReaders(pl) ==
    [k \in DOMAIN pl.channels |->
        [slot   |-> pl.channels[k].slot,
         coders |-> [j \in 1..Len(pl.channels[k].steps) |-> pl.channels[k].steps[j].coder]]]

\* What a plan that was accepted is, in terms of the folder, its graph and the sizes asked for.
PlanRight(f, g, declared, packed, unpack, pl) ==
    /\ Len(pl.channels) \in Nat /\ DOMAIN pl.channels = 1..Len(pl.channels)
    /\ \A k \in DOMAIN pl.channels :
          /\ Len(pl.channels[k].steps) \in Nat
          /\ DOMAIN pl.channels[k].steps = 1..Len(pl.channels[k].steps)
          /\ \A j \in DOMAIN pl.channels[k].steps :
                FitStep(f, g, declared, packed, unpack, pl.channels[k], j)
    /\ Followed(f, g, pl.bcj2, FullReaders(pl))

(* The plan of a chain is right.                                           *)
LEMMA ChainPlanIs ==
    ASSUME folder \in Folder, Wiring(folder, graph),
           NEW declared \in Seq(Nat), NEW packed \in Seq(Nat), NEW unpack \in Nat,
           Len(packed) = Len(graph.packed), ChainPlan(declared, packed, unpack).ok
    PROVE  PlanRight(folder, graph, declared, packed, unpack, ChainPlan(declared, packed, unpack))
<1> DEFINE n == Len(folder.coders)
           back == ChainSizes(declared, unpack)
           steps == BindSizes(graph.order, back, packed[1])
           channel == [slot |-> 1, steps |-> steps]
           pl == ChainPlan(declared, packed, unpack)
           order == graph.order
<1>1. /\ \A c \in DOMAIN folder.coders : folder.coders[c].ins = 1 /\ folder.coders[c].outs = 1
      /\ Len(packed) = 1
      /\ \A k \in DOMAIN back : back[k] # Clash /\ Compiles(graph.order[k], back[k])
      /\ \A k \in DOMAIN steps : steps[k].output # Clash
      /\ pl = [ok |-> TRUE, bcj2 |-> 0, channels |-> <<channel>>]
  <2> DEFINE good == /\ \A c \in DOMAIN folder.coders :
                           folder.coders[c].method \in DOMAIN Arity /\ folder.coders[c].ins = 1
                           /\ folder.coders[c].outs = 1
                     /\ Len(packed) = 1
                     /\ \A k \in DOMAIN back : back[k] # Clash /\ Compiles(graph.order[k], back[k])
                     /\ \A k \in DOMAIN steps : steps[k].output # Clash
                     /\ StepMemory(steps) <= MemoryLimit
             yes == [ok |-> TRUE, bcj2 |-> 0, channels |-> <<channel>>]
  <2>1. pl = IF good THEN yes ELSE NoPlan
    BY Zenon DEF ChainPlan
  <2>2. NoPlan.ok = FALSE
    BY DEF NoPlan
  <2>3. good /\ pl = yes
    <3> HIDE DEF good, yes
    <3> QED BY <2>1, <2>2
  <2> QED BY <2>3
<1>2. /\ n \in Nat /\ order \in Seq(1..n) /\ Len(order) = n
  BY DEF Wiring
<1>3. \A c \in 1..n : folder.coders[c].ins = 1 /\ folder.coders[c].outs = 1
  BY <1>1, PairsDomain
<1> HIDE DEF back, steps, pl
<1>4. /\ StepsOf(steps, n, order, back, packed[1])
      /\ \A k \in 1..n : FitStep(folder, graph, declared, packed, unpack, channel, k)
  BY <1>1, <1>3, ChainFits DEF back, steps
<1> HIDE DEF n
<1>5. /\ Len(steps) = n /\ DOMAIN steps = 1..n
      /\ \A k \in 1..n : steps[k] = BindSize(order[k], back[k], IF k = 1 THEN packed[1] ELSE steps[k - 1].output)
  BY <1>4 DEF StepsOf
<1>6. \A k \in 1..n : steps[k].coder = order[k]
  BY <1>5, BindSizeIs
<1>7. /\ pl.bcj2 = 0 /\ pl.channels = <<channel>>
      /\ channel.slot = 1 /\ channel.steps = steps
  BY <1>1
<1> HIDE DEF channel
<1>8. /\ Len(pl.channels) = 1 /\ DOMAIN pl.channels = 1..1 /\ pl.channels[1] = channel
  BY <1>7
<1> DEFINE rs == FullReaders(pl)
<1>9. DOMAIN rs = {1} /\ Len(rs) = 1 /\ rs[1].slot = 1 /\ rs[1].coders = order
  <2> DEFINE cs == [j \in 1..Len(channel.steps) |-> channel.steps[j].coder]
             r == [slot |-> channel.slot, coders |-> cs]
  <2>1. cs = [j \in 1..n |-> order[j]]
    BY <1>5, <1>6, <1>7
  <2>2. cs = order
    <3>1. order = [j \in 1..n |-> order[j]]
      <4>1. order \in Seq(1..n) /\ Len(order) = n /\ n \in Nat
        BY <1>2
      <4> HIDE DEF order
      <4> QED BY <4>1
    <3> HIDE DEF order
    <3> QED BY <2>1, <3>1
  <2>3. rs = [k \in DOMAIN pl.channels |->
                 [slot   |-> pl.channels[k].slot,
                  coders |-> [j \in 1..Len(pl.channels[k].steps) |-> pl.channels[k].steps[j].coder]]]
    BY Zenon DEF FullReaders
  <2> DEFINE chs == pl.channels
             Reader(ch) == [slot   |-> ch.slot,
                            coders |-> [j \in 1..Len(ch.steps) |-> ch.steps[j].coder]]
  <2>8. rs = [k \in DOMAIN chs |-> Reader(chs[k])] /\ Reader(channel) = r
    BY <2>3
  <2>9. DOMAIN chs = 1..1 /\ \A k \in 1..1 : chs[k] = channel
    BY <1>8
  <2> HIDE DEF chs, Reader, r, rs
  <2>4. DOMAIN rs = 1..1 /\ rs[1] = r
    BY <2>8, <2>9
  <2>6. rs = [k \in 1..1 |-> r]
    BY <2>8, <2>9
  <2>5. r.slot = 1 /\ r.coders = order
    BY <1>7, <2>2 DEF r
  <2> HIDE DEF rs, r
  <2>7. Len(rs) = 1
    BY <2>6
  <2> QED BY <2>4, <2>5, <2>7
<1> HIDE DEF rs, order
<1>10. Followed(folder, graph, 0, rs)
  BY <1>1, <1>3, <1>9, ChainFollowed DEF n, order
<1>11. Followed(folder, graph, pl.bcj2, FullReaders(pl))
  BY <1>7, <1>10 DEF rs
<1>12. \A k \in DOMAIN pl.channels : pl.channels[k] = channel
  BY <1>8
<1>13. /\ Len(channel.steps) \in Nat /\ DOMAIN channel.steps = 1..Len(channel.steps)
       /\ \A j \in DOMAIN channel.steps : FitStep(folder, graph, declared, packed, unpack, channel, j)
  BY <1>2, <1>4, <1>5, <1>7
<1> QED
  BY <1>8, <1>11, <1>12, <1>13, SMTT(30) DEF PlanRight, pl

(* The plan of a BCJ2 folder is right.                                     *)
LEMMA Bcj2PlanIs ==
    ASSUME folder \in Folder, Wiring(folder, graph), Bcj2Coders # {},
           NEW declared \in Seq(Nat), NEW packed \in Seq(Nat), NEW unpack \in Nat,
           Len(packed) = Len(graph.packed), Len(packed) = 1 \/ Len(declared) = Len(graph.outputs),
           Bcj2Plan(declared, packed, unpack).ok
    PROVE  PlanRight(folder, graph, declared, packed, unpack, Bcj2Plan(declared, packed, unpack))
<1> DEFINE bcj2 == CHOOSE c \in Bcj2Coders : TRUE
           lay == Bcj2Layout(bcj2)
           steps(ch) == ChannelSteps(ch, declared, packed, unpack)
           channels == [k \in DOMAIN lay |-> [slot |-> lay[k].slot, steps |-> steps(lay[k])]]
           pl == Bcj2Plan(declared, packed, unpack)
<1>1. /\ lay # <<>>
      /\ \A k \in DOMAIN lay : \A s \in ToSet(steps(lay[k])) : s.output # Clash
      /\ pl = [ok |-> TRUE, bcj2 |-> bcj2, channels |-> channels]
  <2> DEFINE size(s) == OutputSize(declared, unpack, s.output)
             length(ch) == IF ch.coders = <<>> THEN packed[ch.slot] ELSE Last(steps(ch)).output
             memory == FoldLeft(LAMBDA sum, ch : sum + StepMemory(steps(ch)), Memory["Bcj2"], lay)
             good == /\ folder.coders[bcj2].props
                     /\ lay # <<>>
                     /\ \A k \in DOMAIN lay : \A s \in ToSet(lay[k].coders) : Compiles(s.coder, size(s))
                     /\ \A k \in DOMAIN lay : \A s \in ToSet(steps(lay[k])) : s.output # Clash
                     /\ \A k \in 1..3 : length(lay[k]) # Unknown
                     /\ length(lay[1]) + length(lay[2]) + length(lay[3]) = unpack
                     /\ memory + unpack <= MemoryLimit
             yes == [ok |-> TRUE, bcj2 |-> bcj2, channels |-> channels]
  <2>1. pl = IF good THEN yes ELSE NoPlan
    BY Zenon DEF Bcj2Plan, ChannelSteps
  <2>2. NoPlan.ok = FALSE
    BY DEF NoPlan
  <2>3. good /\ pl = yes
    <3> HIDE DEF good, yes
    <3> QED BY <2>1, <2>2
  <2> HIDE DEF bcj2, lay, channels, steps, pl
  <2> QED BY <2>3
<1>2. bcj2 \in 1..Len(folder.coders)
  <2>1. bcj2 \in Bcj2Coders
    OBVIOUS
  <2> QED BY <2>1, PairsDomain DEF Bcj2Coders
<1> HIDE DEF bcj2, pl
<1>3. Layout(folder, graph, bcj2, lay)
  BY <1>1, <1>2, LayoutIs
<1>4. Len(declared) = Len(graph.outputs)
  BY <1>3, LayoutSlots
<1> HIDE DEF lay, steps
<1>5. DOMAIN lay = 1..4 /\ Len(lay) = 4
  BY <1>3 DEF Layout
<1>6. ASSUME NEW k \in 1..4
      PROVE  /\ Len(steps(lay[k])) = Len(lay[k].coders) /\ DOMAIN steps(lay[k]) = 1..Len(lay[k].coders)
             /\ Len(lay[k].coders) \in Nat
             /\ \A j \in 1..Len(lay[k].coders) :
                   /\ steps(lay[k])[j].coder = lay[k].coders[j].coder
                   /\ FitStep(folder, graph, declared, packed, unpack,
                              [slot |-> lay[k].slot, steps |-> steps(lay[k])], j)
  <2> DEFINE start == StreamTotal(Ins(folder.coders))[bcj2 - 1] + k
             t == lay[k]
             ss == steps(t)
  <2>1. ChannelOf(folder, graph, bcj2, start, t)
    BY <1>3, ChannelOfLayout
  <2>2. \A s \in ToSet(ss) : s.output # Clash
    BY <1>1, <1>5
  <2>3. ss = ChannelSteps(t, declared, packed, unpack)
    BY DEF steps
  <2>4. Len(t.coders) \in Nat
    BY <2>1 DEF ChannelOf
  <2> HIDE DEF start, t, ss
  <2>5. /\ Len(ss) = Len(t.coders) /\ DOMAIN ss = 1..Len(t.coders)
        /\ \A j \in 1..Len(t.coders) :
              /\ ss[j].coder = t.coders[j].coder
              /\ FitStep(folder, graph, declared, packed, unpack, [slot |-> t.slot, steps |-> ss], j)
    <3>1. Fitting(folder, graph, declared, packed, unpack, t, ss)
      BY <1>4, <2>1, <2>2, <2>3, ChannelFits
    <3> QED BY <3>1 DEF Fitting
  <2> QED BY <2>4, <2>5 DEF ss, t
<1>7. /\ pl.bcj2 = bcj2 /\ DOMAIN pl.channels = 1..4 /\ Len(pl.channels) = 4
      /\ \A k \in 1..4 : pl.channels[k] = [slot |-> lay[k].slot, steps |-> steps(lay[k])]
  BY <1>1, <1>5
<1> HIDE DEF channels
<1>8. \A k \in 1..4 : pl.channels[k].slot = lay[k].slot /\ pl.channels[k].steps = steps(lay[k])
  BY <1>7
<1> DEFINE rs == FullReaders(pl)
<1>9. DOMAIN rs = 1..4 /\ Len(rs) = 4
      /\ \A k \in 1..4 : /\ rs[k].slot = lay[k].slot
                         /\ rs[k].coders = [j \in 1..Len(steps(lay[k])) |-> steps(lay[k])[j].coder]
  <2>1. rs = [k \in 1..4 |->
                 [slot   |-> pl.channels[k].slot,
                  coders |-> [j \in 1..Len(pl.channels[k].steps) |-> pl.channels[k].steps[j].coder]]]
    BY <1>7, Zenon DEF FullReaders
  <2> HIDE DEF rs
  <2>2. DOMAIN rs = 1..4 /\ Len(rs) = 4
    BY <2>1
  <2>3. ASSUME NEW k \in 1..4
        PROVE  /\ rs[k].slot = lay[k].slot
               /\ rs[k].coders = [j \in 1..Len(steps(lay[k])) |-> steps(lay[k])[j].coder]
    BY <1>8, <2>1
  <2> QED BY <2>2, <2>3
<1> HIDE DEF rs
<1>10. ASSUME NEW k \in 1..4 PROVE ReaderOf(rs[k], lay[k])
  <2> DEFINE m == Len(lay[k].coders)
             cs == rs[k].coders
             ss == steps(lay[k])
  <2>1. m \in Nat /\ Len(ss) = m /\ \A j \in 1..m : ss[j].coder = lay[k].coders[j].coder
    BY <1>6
  <2>2. cs = [j \in 1..Len(ss) |-> ss[j].coder]
    BY <1>9
  <2> HIDE DEF m, cs, ss
  <2>3. Len(cs) = m /\ DOMAIN cs = 1..m /\ \A j \in 1..m : cs[j] = lay[k].coders[j].coder
    BY <2>1, <2>2, SMTT(30)
  <2> QED BY <1>9, <2>3 DEF ReaderOf, m, cs
<1>11. Followed(folder, graph, bcj2, rs)
  BY <1>3, <1>9, <1>10, LayoutFollowed
<1>12. ASSUME NEW k \in 1..4
       PROVE  /\ Len(pl.channels[k].steps) \in Nat
              /\ DOMAIN pl.channels[k].steps = 1..Len(pl.channels[k].steps)
              /\ \A j \in DOMAIN pl.channels[k].steps :
                    FitStep(folder, graph, declared, packed, unpack, pl.channels[k], j)
  <2>1. pl.channels[k].steps = steps(lay[k]) /\ pl.channels[k] = [slot |-> lay[k].slot, steps |-> steps(lay[k])]
    BY <1>7, <1>8
  <2>2. /\ Len(steps(lay[k])) \in Nat /\ DOMAIN steps(lay[k]) = 1..Len(steps(lay[k]))
        /\ \A j \in DOMAIN steps(lay[k]) :
              FitStep(folder, graph, declared, packed, unpack, [slot |-> lay[k].slot, steps |-> steps(lay[k])], j)
    BY <1>6
  <2> QED BY <2>1, <2>2, Zenon
<1> QED
  BY <1>7, <1>11, <1>12 DEF PlanRight, rs, pl

\* A channel's reader with its first m coders opened.
Prefix(ch, m) == [slot |-> ch.slot, coders |-> [j \in 1..m |-> ch.steps[j].coder]]

\* How many coders are opened on each channel.
OpenedAs(pl, rs, opened) ==
    /\ opened \in [DOMAIN pl.channels -> Nat]
    /\ \A k \in DOMAIN pl.channels : opened[k] <= Len(pl.channels[k].steps)
    /\ rs = [k \in DOMAIN pl.channels |-> Prefix(pl.channels[k], opened[k])]

(* A plan stays the one the folder and the sizes asked for, and its readers *)
(* are opened from the packed stream up.                                    *)
PlanInv ==
    /\ status \in {"declared", "resolved", "planned", "ready", "refused"}
    /\ status \in {"declared", "resolved"} => plan = NoPlan
    /\ status = "resolved" => graph.ok
    /\ plan.ok => PlanRight(folder, graph, request[1], request[2], request[3], plan)
    /\ status \in {"planned", "ready"} => plan.ok /\ \E opened : OpenedAs(plan, readers, opened)
    /\ status = "ready" => readers = FullReaders(plan)

(* A reader and the next coder opened on it.                               *)
LEMMA PrefixIs ==
    ASSUME NEW ch, NEW m \in Nat
    PROVE  /\ Prefix(ch, m).slot = ch.slot /\ Len(Prefix(ch, m).coders) = m
           /\ DOMAIN Prefix(ch, m).coders = 1..m
           /\ [Prefix(ch, m) EXCEPT !.coders = Append(@, ch.steps[m + 1].coder)] = Prefix(ch, m + 1)
<1> DEFINE S == {ch.steps[j].coder : j \in 1..(m + 1)}
           s == [j \in 1..m |-> ch.steps[j].coder]
           t == [j \in 1..(m + 1) |-> ch.steps[j].coder]
           e == ch.steps[m + 1].coder
           p == Prefix(ch, m)
<1>1. s \in Seq(S) /\ e \in S /\ Len(s) = m /\ DOMAIN s = 1..m
  <2>1. \A j \in 1..m : ch.steps[j].coder \in S
    OBVIOUS
  <2>2. e \in S
    OBVIOUS
  <2> HIDE DEF S
  <2>3. s \in [1..m -> S]
    BY <2>1
  <2>4. s \in Seq(S) /\ Len(s) = m /\ DOMAIN s = 1..m
    BY <2>3
  <2> QED BY <2>2, <2>4
<1>2. Append(s, e) = t
  <2>1. ASSUME NEW j \in 1..m PROVE t[j] = s[j]
    OBVIOUS
  <2>2. t[m + 1] = e /\ DOMAIN t = 1..(m + 1)
    OBVIOUS
  <2>3. t = [j \in 1..(m + 1) |-> t[j]]
    OBVIOUS
  <2> HIDE DEF S, s, t, e
  <2>6. /\ Append(s, e) \in Seq(S) /\ Len(Append(s, e)) = Len(s) + 1
        /\ Append(s, e)[Len(s) + 1] = e /\ \A j \in 1..Len(s) : Append(s, e)[j] = s[j]
    BY <1>1
  <2>7. Append(s, e) \in Seq(S) /\ Len(Append(s, e)) = m + 1
    BY <1>1, <2>6
  <2> DEFINE a == Append(s, e)
  <2>8. a \in Seq(S) /\ Len(a) = m + 1
    BY <2>7
  <2> HIDE DEF a
  <2>9. a = [j \in 1..(m + 1) |-> a[j]]
    BY <2>8
  <2>4. /\ Append(s, e) = [j \in 1..(m + 1) |-> Append(s, e)[j]]
        /\ Append(s, e)[m + 1] = e /\ \A j \in 1..m : Append(s, e)[j] = s[j]
    BY <1>1, <2>6, <2>9 DEF a
  <2>5. \A j \in 1..(m + 1) : Append(s, e)[j] = t[j]
    BY <2>1, <2>2, <2>4
  <2> QED BY <2>3, <2>4, <2>5
<1>3. p = [slot |-> ch.slot, coders |-> s] /\ Prefix(ch, m + 1) = [slot |-> ch.slot, coders |-> t]
  BY DEF Prefix
<1> HIDE DEF s, t, e, p, S
<1>4. p.slot = ch.slot /\ p.coders = s
  BY <1>3
<1>5. [p EXCEPT !.coders = Append(@, e)] = [slot |-> ch.slot, coders |-> Append(s, e)]
  BY <1>3, SMTT(30)
<1> QED
  BY <1>1, <1>2, <1>3, <1>4, <1>5 DEF p, e

(* The sizes a folder is decoded with.                                     *)
LEMMA RequestIs ==
    ASSUME Wiring(folder, graph), NEW lone \in BOOLEAN,
           NEW packed \in [1..(IF lone THEN 1 ELSE Len(graph.packed)) -> Sizes],
           NEW declared \in IF lone THEN BoundedSeq(Sizes, Len(graph.outputs))
                                     ELSE [1..Len(graph.outputs) -> Sizes]
    PROVE  /\ declared \in Seq(Nat) /\ packed \in Seq(Nat)
           /\ Len(packed) = 1 \/ Len(declared) = Len(graph.outputs)
<1>1. Len(graph.outputs) \in Nat /\ Len(graph.packed) \in Nat
  BY DEF Wiring, Numbered, PackedSlots
<1>2. Sizes \subseteq Nat
  BY SizesAssumption
<1>3. ASSUME NEW n \in Nat, NEW s \in [1..n -> Sizes] PROVE s \in Seq(Nat) /\ Len(s) = n
  <2>1. s \in [1..n -> Nat]
    BY <1>2
  <2> QED BY <2>1
<1>4. packed \in Seq(Nat) /\ (lone => Len(packed) = 1)
  <2> DEFINE n == IF lone THEN 1 ELSE Len(graph.packed)
  <2>1. n \in Nat /\ packed \in [1..n -> Sizes] /\ (lone => n = 1)
    BY <1>1
  <2> HIDE DEF n
  <2> QED BY <1>3, <2>1
<1>5. CASE lone
  <2>1. declared \in BoundedSeq(Sizes, Len(graph.outputs))
    BY <1>5
  <2>2. PICK m \in 0..Len(graph.outputs) : declared \in [1..m -> Sizes]
    BY <2>1 DEF BoundedSeq, SeqOf
  <2>3. m \in Nat
    BY <1>1
  <2> QED BY <1>3, <1>4, <1>5, <2>2, <2>3
<1>6. CASE ~ lone
  <2>1. declared \in [1..Len(graph.outputs) -> Sizes]
    BY <1>6
  <2> QED BY <1>1, <1>3, <1>4, <2>1
<1> QED
  BY <1>5, <1>6

(* A graph that is resolved is wired as its folder declares.               *)
LEMMA ResolvedGraph ==
    ASSUME GraphInv, status # "declared", graph.ok
    PROVE  folder \in Folder /\ Wiring(folder, graph)
<1>1. folder \in Folder /\ graph = Graph(folder)
  BY FoldersAssumption DEF GraphInv
<1>2. CASE WellFormed(folder)
  <2>1. graph = GraphOf(folder)
    BY <1>1, <1>2, GraphIs
  <2> QED BY <1>1, <1>2, <2>1, WiringIs
<1>3. CASE ~ WellFormed(folder)
  <2>1. graph = NoGraph
    BY <1>1, <1>3, GraphIs
  <2> QED BY <2>1 DEF NoGraph
<1> QED
  BY <1>2, <1>3

(* Compiling makes a plan that is right.                                   *)
LEMMA CompileKeeps ==
    ASSUME GraphInv, PlanInv, NEW declared, NEW packed, NEW unpack \in Nat,
           declared \in Seq(Nat), packed \in Seq(Nat),
           Len(packed) = 1 \/ Len(declared) = Len(graph.outputs),
           Compile(declared, packed, unpack)
    PROVE  PlanInv'
<1> DEFINE pl == plan'
<1>1. /\ status = "resolved"
      /\ request' = <<declared, packed, unpack>>
      /\ pl = IF ~ Admissible(declared, packed, unpack) THEN NoPlan
               ELSE IF Bcj2Coders # {} THEN Bcj2Plan(declared, packed, unpack)
               ELSE ChainPlan(declared, packed, unpack)
      /\ status' = IF pl.ok THEN "planned" ELSE "refused"
      /\ pl.ok => readers' = [k \in DOMAIN pl.channels |->
                                [slot |-> pl.channels[k].slot, coders |-> <<>>]]
      /\ folder' = folder /\ graph' = graph
  BY DEF Compile
<1>2. folder \in Folder /\ Wiring(folder, graph)
  BY <1>1, ResolvedGraph DEF PlanInv
<1>3. request'[1] = declared /\ request'[2] = packed /\ request'[3] = unpack
  BY <1>1
<1>4. ASSUME pl.ok PROVE PlanRight(folder, graph, declared, packed, unpack, pl)
  <2>1. Admissible(declared, packed, unpack)
    BY <1>1, <1>4 DEF NoPlan
  <2>2. Len(packed) = Len(graph.packed)
    BY <2>1 DEF Admissible
  <2>3. CASE Bcj2Coders # {}
    <3>1. pl = Bcj2Plan(declared, packed, unpack)
      BY <1>1, <2>1, <2>3
    <3> QED BY <1>2, <1>4, <2>2, <2>3, <3>1, Bcj2PlanIs
  <2>4. CASE Bcj2Coders = {}
    <3>1. pl = ChainPlan(declared, packed, unpack)
      BY <1>1, <2>1, <2>4
    <3> QED BY <1>2, <1>4, <2>2, <3>1, ChainPlanIs
  <2> QED BY <2>3, <2>4
<1>5. ASSUME pl.ok PROVE \E opened : OpenedAs(pl, readers', opened)
  <2> DEFINE opened == [k \in DOMAIN pl.channels |-> 0]
  <2>1. ASSUME NEW k \in DOMAIN pl.channels
        PROVE  opened[k] <= Len(pl.channels[k].steps) /\ opened[k] = 0
    <3>1. Len(pl.channels[k].steps) \in Nat
      BY <1>4, <1>5 DEF PlanRight
    <3> QED BY <3>1
  <2>2. ASSUME NEW k \in DOMAIN pl.channels
        PROVE  Prefix(pl.channels[k], opened[k]) = [slot |-> pl.channels[k].slot, coders |-> <<>>]
    <3> DEFINE ch == pl.channels[k]
    <3>1. [j \in 1..0 |-> ch.steps[j].coder] = <<>>
      <4> HIDE DEF ch
      <4> QED OBVIOUS
    <3>2. Prefix(ch, 0) = [slot |-> ch.slot, coders |-> [j \in 1..0 |-> ch.steps[j].coder]]
      BY DEF Prefix
    <3> QED BY <2>1, <3>1, <3>2
  <2>3. opened \in [DOMAIN pl.channels -> Nat]
    OBVIOUS
  <2>4. readers' = [k \in DOMAIN pl.channels |-> Prefix(pl.channels[k], opened[k])]
    <3> HIDE DEF opened
    <3> QED BY <1>1, <1>5, <2>2
  <2> HIDE DEF opened
  <2>5. OpenedAs(pl, readers', opened)
    BY <2>1, <2>3, <2>4 DEF OpenedAs
  <2> QED BY <2>5
<1>6. /\ status' \in {"planned", "refused"}
      /\ status' = "planned" => pl.ok
  BY <1>1
<1>7. pl.ok => PlanRight(folder', graph', request'[1], request'[2], request'[3], pl)
  BY <1>1, <1>3, <1>4
<1> QED
  BY <1>5, <1>6, <1>7 DEF PlanInv

(* Opening a coder opens the next one of its channel.                      *)
LEMMA OpenKeeps ==
    ASSUME PlanInv, Open
    PROVE  PlanInv'
<1> DEFINE k == CHOOSE k \in Pending : \A j \in Pending : k <= j
           c == NextStep(k).coder
<1>1. /\ status = "planned" /\ Pending # {}
      /\ \/ status' = "refused" /\ readers' = readers
         \/ readers' = [readers EXCEPT ![k].coders = Append(@, c)] /\ status' = status
      /\ UNCHANGED <<folder, graph, request, plan>>
  BY DEF Open
<1>2. plan.ok /\ PlanRight(folder, graph, request[1], request[2], request[3], plan)
  BY <1>1 DEF PlanInv
<1>3. PICK opened : OpenedAs(plan, readers, opened)
  BY <1>1 DEF PlanInv
<1> DEFINE chs == plan.channels
           D == DOMAIN chs
<1>4. /\ opened \in [D -> Nat]
      /\ \A i \in D : opened[i] <= Len(chs[i].steps)
      /\ readers = [i \in D |-> Prefix(chs[i], opened[i])]
  BY <1>3 DEF OpenedAs
<1>5. CASE status' = "refused" /\ readers' = readers
  BY <1>1, <1>2, <1>5 DEF PlanInv
<1>6. CASE readers' = [readers EXCEPT ![k].coders = Append(@, c)] /\ status' = status
  <2>1. k \in Pending
    <3>1. D = 1..Len(chs) /\ Len(chs) \in Nat
      BY <1>2 DEF PlanRight
    <3>2. Pending \subseteq Nat
      BY <1>4, <3>1 DEF Pending
    <3>3. \E i \in Pending : \A j \in Pending : i <= j
      BY <1>1, <3>2, LeastElement
    <3> HIDE DEF c
    <3> QED BY <3>3
  <2> HIDE DEF k
  <2>2. k \in D /\ readers[k] = Prefix(chs[k], opened[k]) /\ opened[k] \in Nat
    BY <1>4, <2>1 DEF Pending
  <2>3. Len(readers[k].coders) = opened[k]
    <3> DEFINE ch == chs[k]
               m == opened[k]
    <3>1. m \in Nat
      BY <2>2
    <3> HIDE DEF ch, m
    <3>2. Len(Prefix(ch, m).coders) = m
      BY <3>1, PrefixIs
    <3> QED BY <2>2, <3>2 DEF ch, m
  <2>4. c = chs[k].steps[opened[k] + 1].coder /\ opened[k] < Len(chs[k].steps)
    BY <2>1, <2>3 DEF NextStep, Pending
  <2> DEFINE more == [opened EXCEPT ![k] = @ + 1]
             r == readers[k]
  <2>5. [r EXCEPT !.coders = Append(@, c)] = Prefix(chs[k], opened[k] + 1)
    <3> DEFINE ch == chs[k]
               m == opened[k]
    <3>1. m \in Nat
      BY <2>2
    <3> HIDE DEF ch, m
    <3>2. [Prefix(ch, m) EXCEPT !.coders = Append(@, ch.steps[m + 1].coder)] = Prefix(ch, m + 1)
      BY <3>1, PrefixIs
    <3>3. r = Prefix(ch, m) /\ c = ch.steps[m + 1].coder
      BY <2>2, <2>4 DEF ch, m
    <3> HIDE DEF r, c
    <3>4. [r EXCEPT !.coders = Append(@, c)] = Prefix(ch, m + 1)
      BY <3>2, <3>3
    <3> QED BY <3>4 DEF ch, m, r
  <2>6. Len(chs[k].steps) \in Nat
    BY <1>2, <2>2 DEF PlanRight
  <2> HIDE DEF c, chs
  <2>7. /\ more \in [D -> Nat] /\ more[k] = opened[k] + 1
        /\ \A i \in D : i # k => more[i] = opened[i]
    BY <1>4, <2>2
  <2>8. \A i \in D : more[i] <= Len(chs[i].steps)
    BY <1>4, <2>2, <2>4, <2>6, <2>7
  <2>9. readers' = [readers EXCEPT ![k] = [r EXCEPT !.coders = Append(@, c)]]
    BY <1>6
  <2> HIDE DEF r, more, D
  <2>10. readers' = [i \in D |-> Prefix(chs[i], more[i])]
    BY <1>4, <2>2, <2>5, <2>7, <2>9
  <2>11. OpenedAs(plan, readers', more)
    BY <2>7, <2>8, <2>10 DEF OpenedAs, D, chs
  <2> QED BY <1>1, <1>2, <1>6, <2>11 DEF PlanInv
<1> QED
  BY <1>1, <1>5, <1>6

(* What is started has every coder open.                                   *)
LEMMA StartKeeps ==
    ASSUME PlanInv, Start
    PROVE  PlanInv'
<1>1. /\ status = "planned" /\ Pending = {} /\ status' \in {"ready", "refused"}
      /\ UNCHANGED <<folder, graph, request, plan, readers>>
  BY DEF Start
<1>2. plan.ok /\ PlanRight(folder, graph, request[1], request[2], request[3], plan)
  BY <1>1 DEF PlanInv
<1>3. PICK opened : OpenedAs(plan, readers, opened)
  BY <1>1 DEF PlanInv
<1> DEFINE chs == plan.channels
           D == DOMAIN chs
<1>4. /\ opened \in [D -> Nat]
      /\ \A i \in D : opened[i] <= Len(chs[i].steps)
      /\ readers = [i \in D |-> Prefix(chs[i], opened[i])]
  BY <1>3 DEF OpenedAs
<1>5. ASSUME NEW i \in D PROVE opened[i] = Len(chs[i].steps)
  <2>1. Len(chs[i].steps) \in Nat
    BY <1>2 DEF PlanRight
  <2>2. readers[i] = Prefix(chs[i], opened[i]) /\ opened[i] \in Nat /\ DOMAIN readers = D
    BY <1>4
  <2>3. Len(readers[i].coders) = opened[i]
    <3> DEFINE ch == chs[i]
               m == opened[i]
    <3>1. m \in Nat
      BY <2>2
    <3> HIDE DEF ch, m
    <3>2. Len(Prefix(ch, m).coders) = m
      BY <3>1, PrefixIs
    <3> QED BY <2>2, <3>2 DEF ch, m
  <2>4. ~ (opened[i] < Len(chs[i].steps))
    BY <1>1, <2>2, <2>3 DEF Pending
  <2> QED BY <1>4, <2>1, <2>2, <2>4
<1>6. readers = [i \in D |-> Prefix(chs[i], Len(chs[i].steps))]
  <2> HIDE DEF chs, D
  <2> QED BY <1>4, <1>5
<1>7. readers = FullReaders(plan)
  BY <1>6, Zenon DEF FullReaders, Prefix
<1> QED
  BY <1>1, <1>2, <1>3, <1>7 DEF PlanInv

(* The plan and its readers stay right.                                    *)
LEMMA PlanInvHolds == Spec => []PlanInv
<1>1. Init => PlanInv
  BY DEF Init, PlanInv, NoPlan
<1>2. GraphInv /\ PlanInv /\ [Next]_vars => PlanInv'
  <2> SUFFICES ASSUME GraphInv, PlanInv, [Next]_vars PROVE PlanInv'
    OBVIOUS
  <2>1. CASE Resolve
    <3>1. /\ plan = NoPlan /\ plan' = plan
          /\ status' \in {"resolved", "refused"} /\ (status' = "resolved" => graph'.ok)
      BY <2>1 DEF Resolve, PlanInv
    <3>2. ~ NoPlan.ok
      BY DEF NoPlan
    <3> QED BY <3>1, <3>2 DEF PlanInv
  <2>2. ASSUME NEW lone \in BOOLEAN, NEW unpack \in UnpackSizes,
               NEW packed   \in [1..(IF lone THEN 1 ELSE Len(graph.packed)) -> Sizes],
               NEW declared \in IF lone THEN BoundedSeq(Sizes, Len(graph.outputs))
                                        ELSE [1..Len(graph.outputs) -> Sizes],
               Compile(declared, packed, unpack)
        PROVE  PlanInv'
    <3>1. Wiring(folder, graph)
      BY <2>2, ResolvedGraph DEF Compile, PlanInv
    <3>2. /\ declared \in Seq(Nat) /\ packed \in Seq(Nat)
          /\ Len(packed) = 1 \/ Len(declared) = Len(graph.outputs)
      BY <3>1, RequestIs
    <3>3. unpack \in Nat
      BY SizesAssumption
    <3> QED BY <2>2, <3>2, <3>3, CompileKeeps
  <2>3. CASE Open
    BY <2>3, OpenKeeps
  <2>4. CASE Start
    BY <2>4, StartKeeps
  <2>5. CASE UNCHANGED vars
    BY <2>5 DEF vars, PlanInv
  <2> QED BY <2>1, <2>2, <2>3, <2>4, <2>5 DEF Next, Done
<1> QED
  BY <1>1, <1>2, GraphInvHolds, PTL DEF Spec

(* DecoderPlan: the sizes of every plan that is accepted fit together, for  *)
(* every folder, every declared size and every number of coders.           *)
THEOREM PlansFit == Spec => []SizesFit
<1>1. PlanInv => SizesFit
  <2> SUFFICES ASSUME PlanInv, plan.ok, NEW ch \in ToSet(plan.channels), NEW k \in DOMAIN ch.steps
               PROVE  FitStep(folder, graph, request[1], request[2], request[3], ch, k)
    BY Zenon DEF SizesFit, FitStep, OutputSize
  <2>1. PlanRight(folder, graph, request[1], request[2], request[3], plan)
    BY DEF PlanInv
  <2>2. PICK i \in DOMAIN plan.channels : ch = plan.channels[i]
    BY DEF ToSet
  <2> QED BY <2>1, <2>2 DEF PlanRight
<1> QED
  BY <1>1, PlanInvHolds, PTL

(* DecoderPlan: the readers that are opened compute what the folder         *)
(* declares, whatever chain or BCJ2 layout it is.                          *)
THEOREM ReadersComputeTheFolder == Spec => []ReadersFollowTheGraph
<1>1. PlanInv => ReadersFollowTheGraph
  <2> SUFFICES ASSUME PlanInv, status = "ready" PROVE Followed(folder, graph, plan.bcj2, readers)
    BY Zenon DEF ReadersFollowTheGraph, Followed, BoundTo, Bound, FirstInput, FinalOwner
  <2>1. readers = FullReaders(plan) /\ PlanRight(folder, graph, request[1], request[2], request[3], plan)
    BY DEF PlanInv
  <2> QED BY <2>1 DEF PlanRight
<1> QED
  BY <1>1, PlanInvHolds, PTL
=============================================================================
