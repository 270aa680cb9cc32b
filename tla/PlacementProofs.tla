--------------------------- MODULE PlacementProofs --------------------------
(***************************************************************************)
(* What wanted_stages promises, for any pool: any number of devices, of    *)
(* stages and of replicas, any memory and any speeds.                      *)
(*                                                                         *)
(* Its two loops are recursive functions over plans.  That such a function *)
(* is defined at all, and what holds when it ends, is an induction over    *)
(* how much is left to give; it is done here once, for any loop, with sets *)
(* in the place of predicates.                                             *)
(***************************************************************************)
EXTENDS MCPlacement, FiniteSetTheorems, WellFoundedInduction, TLAPS

-----------------------------------------------------------------------------
(* Induction. *)

\* Among finite sets, one has none of the others as a part.
LEMMA LeastSet ==
  ASSUME NEW F, \A A \in F : IsFiniteSet(A), F # {}
  PROVE  \E A \in F : \A B \in F : B \subseteq A => B = A
<1> DEFINE S == UNION F
<1>1. F \subseteq FiniteSubsetsOf(S)
  BY DEF FiniteSubsetsOf
<1>2. IsWellFoundedOn(StrictSubsetOrdering(S), FiniteSubsetsOf(S))
  BY FS_StrictSubsetOrderingWellFounded
<1>3. PICK A \in F : \A B \in F : ~ (<<B, A>> \in StrictSubsetOrdering(S))
  BY <1>1, <1>2, WFMin
<1>4. ASSUME NEW B \in F, B \subseteq A, B # A PROVE FALSE
  <2>1. <<B, A>> \in StrictSubsetOrdering(S)
    BY <1>4 DEF StrictSubsetOrdering
  <2> QED
    BY <1>3, <2>1
<1> QED
  BY <1>3, <1>4

\* The least of some numbers.
LEMMA Least ==
  ASSUME NEW N \in SUBSET Nat, N # {}
  PROVE  \E n \in N : \A k \in N : n <= k
<1> DEFINE F == {0..n : n \in N}
<1>1. \A A \in F : IsFiniteSet(A)
  BY FS_Interval
<1>2. F # {}
  OBVIOUS
<1> HIDE DEF F
<1>3. PICK A \in F : \A B \in F : B \subseteq A => B = A
  BY <1>1, <1>2, LeastSet
<1> USE DEF F
<1>4. PICK n \in N : A = 0..n
  OBVIOUS
<1>5. ASSUME NEW k \in N PROVE n <= k
  <2> SUFFICES ASSUME k < n PROVE FALSE
    OBVIOUS
  <2>1. 0..k \in F /\ 0..k \subseteq A
    BY <1>4
  <2>2. 0..k = 0..n
    BY <1>3, <1>4, <2>1
  <2> QED
    BY <2>2
<1> QED
  BY <1>5

\* The first of a finite set, in an order given as a set of pairs.
LEMMA First ==
  ASSUME NEW C, IsFiniteSet(C), C # {}, NEW R,
         \A x, y \in C : x # y => <<x, y>> \in R \/ <<y, x>> \in R,
         \A x, y, z \in C : <<x, y>> \in R /\ <<y, z>> \in R => <<x, z>> \in R
  PROVE  \E x \in C : \A y \in C \ {x} : <<x, y>> \in R
<1> DEFINE Has(A) == \E x \in A : \A y \in A \ {x} : <<x, y>> \in R
           F == {A \in SUBSET C : A # {} /\ ~Has(A)}
<1> SUFFICES ASSUME ~Has(C) PROVE FALSE
  OBVIOUS
<1>1. \A A \in F : IsFiniteSet(A)
  BY FS_Subset
<1>2. F # {}
  OBVIOUS
<1>3. \E A \in F : \A B \in F : B \subseteq A => B = A
  <2> HIDE DEF F
  <2> QED
    BY <1>1, <1>2, LeastSet
<1>4. PICK A \in F : \A B \in F : B \subseteq A => B = A
  BY <1>3
<1>5. PICK x \in A : TRUE
  OBVIOUS
<1>6. CASE A \ {x} = {}
  BY <1>5, <1>6
<1>7. CASE A \ {x} # {}
  <2>1. Has(A \ {x})
    <3> SUFFICES ASSUME ~Has(A \ {x}) PROVE FALSE
      OBVIOUS
    <3>1. A \ {x} \in F
      BY <1>7
    <3>2. A \ {x} = A
      <4> HIDE DEF F
      <4> QED
        BY <3>1, <1>4
    <3> QED
      BY <3>2, <1>5
  <2>2. PICK y \in A \ {x} : \A z \in (A \ {x}) \ {y} : <<y, z>> \in R
    BY <2>1
  <2>3. CASE <<x, y>> \in R
    <3>1. \A z \in A \ {x} : <<x, z>> \in R
      BY <1>5, <2>2, <2>3
    <3> QED
      BY <3>1, <1>5
  <2>4. CASE <<y, x>> \in R
    BY <2>2, <2>4, <1>5
  <2> QED
    BY <1>5, <2>2, <2>3, <2>4
<1> QED
  BY <1>6, <1>7

-----------------------------------------------------------------------------
(* Loops: f[w] is w, or what f gives for the next plan, if w is not yet where
   the loop stops.  Each turn leaves less to do. *)

IsLoop(P, stop, next, size) ==
  /\ next \in [P -> P]
  /\ size \in [P -> Nat]
  /\ \A w \in P \ stop : size[next[w]] < size[w]

Runs(f, P, stop, next) == f = [w \in P |-> IF w \in stop THEN w ELSE f[next[w]]]

Keeps(I, stop, next) == \A w \in I \ stop : next[w] \in I

\* Such a function exists.
LEMMA LoopDefined ==
  ASSUME NEW P, NEW stop, NEW next, NEW size, IsLoop(P, stop, next, size)
  PROVE  \E f : Runs(f, P, stop, next)
<1> USE DEF IsLoop
<1> DEFINE Below(n) == {w \in P : size[w] < n}
           Solves(g, n) ==
             /\ g \in [Below(n) -> P]
             /\ \A w \in Below(n) : g[w] = IF w \in stop THEN w ELSE g[next[w]]
<1>1. ASSUME NEW n \in Nat, NEW k \in Nat, NEW g, NEW h, Solves(g, n), Solves(h, k),
             NEW v \in Below(n), v \in Below(k), g[v] # h[v]
      PROVE  FALSE
  <2> DEFINE Bad == {w \in Below(n) : w \in Below(k) /\ g[w] # h[w]}
             N == {size[w] : w \in Bad}
  <2>1. N \in SUBSET Nat /\ N # {}
    BY <1>1
  <2>2. \E i \in N : \A j \in N : i <= j
    <3> HIDE DEF N
    <3> QED
      BY <2>1, Least
  <2>3. PICK w \in Bad : \A u \in Bad : size[w] <= size[u]
    BY <2>2
  <2>4. w \notin stop
    BY <1>1
  <2>5. next[w] \in Below(n) /\ next[w] \in Below(k) /\ size[next[w]] < size[w]
    BY <2>4
  <2>6. next[w] \notin Bad
    BY <2>3, <2>5
  <2> QED
    BY <1>1, <2>4, <2>5, <2>6
<1>2. ASSUME NEW n \in Nat PROVE \E g : Solves(g, n)
  <2> DEFINE N == {k \in Nat : ~ \E g : Solves(g, k)}
  <2> SUFFICES ASSUME N # {} PROVE FALSE
    OBVIOUS
  <2>1. PICK k \in N : \A j \in N : k <= j
    <3> HIDE DEF N
    <3>1. N \in SUBSET Nat
      BY DEF N
    <3> QED
      BY <3>1, Least
  <2>2. k # 0
    <3>1. Solves([w \in {} |-> w], 0)
      OBVIOUS
    <3>2. 0 \notin N
      BY <3>1
    <3> QED
      BY <2>1, <3>2
  <2>3. k - 1 \in Nat /\ k - 1 \notin N
    <3>1. k \in Nat
      BY <2>1
    <3> HIDE DEF N
    <3> QED
      BY <2>1, <2>2, <3>1
  <2>4. PICK g : Solves(g, k - 1)
    BY <2>3
  <2> DEFINE h == [w \in Below(k) |-> IF w \in stop THEN w ELSE g[next[w]]]
  <2>5. \A w \in Below(k) \ stop : next[w] \in Below(k - 1) /\ next[w] \in Below(k)
    OBVIOUS
  <2>6. \A w \in Below(k - 1) : h[w] = g[w]
    BY <2>4
  <2>7. h \in [Below(k) -> P]
    BY <2>4, <2>5
  <2>8. \A w \in Below(k) : h[w] = IF w \in stop THEN w ELSE h[next[w]]
    BY <2>5, <2>6
  <2>9. Solves(h, k)
    BY <2>7, <2>8
  <2> QED
    BY <2>9
<1> DEFINE G(n) == CHOOSE g : Solves(g, n)
           f == [w \in P |-> G(size[w] + 1)[w]]
<1>3. \A n \in Nat : Solves(G(n), n)
  BY <1>2
<1>4. \A w \in P : \A n \in Nat : w \in Below(n) => f[w] = G(n)[w]
  <2> SUFFICES ASSUME NEW w \in P, NEW n \in Nat, w \in Below(n) PROVE f[w] = G(n)[w]
    OBVIOUS
  <2>1. w \in Below(size[w] + 1) /\ size[w] + 1 \in Nat
    OBVIOUS
  <2> HIDE DEF G, Below, Solves
  <2>2. G(size[w] + 1)[w] = G(n)[w]
    BY <1>1, <1>3, <2>1
  <2> QED
    BY <2>2
<1>5. ASSUME NEW w \in P PROVE f[w] = IF w \in stop THEN w ELSE f[next[w]]
  <2> DEFINE n == size[w] + 1
  <2>1. n \in Nat /\ w \in Below(n) /\ (w \notin stop => next[w] \in Below(n))
    OBVIOUS
  <2>2. G(n)[w] = IF w \in stop THEN w ELSE G(n)[next[w]]
    <3>1. Solves(G(n), n)
      BY <1>3, <2>1
    <3> HIDE DEF G
    <3> QED
      BY <2>1, <3>1
  <2>3. f[w] = G(n)[w] /\ (w \notin stop => f[next[w]] = G(n)[next[w]])
    <3> HIDE DEF G, f, n
    <3> QED
      BY <1>4, <2>1
  <2> HIDE DEF G, f, n
  <2> QED
    BY <2>2, <2>3
<1>6. f = [w \in P |-> IF w \in stop THEN w ELSE f[next[w]]]
  <2>1. f = [w \in P |-> f[w]]
    OBVIOUS
  <2> HIDE DEF f
  <2> QED
    BY <1>5, <2>1
<1> QED
  BY <1>6 DEF Runs

\* What every turn keeps, holds when the loop has stopped.
LEMMA LoopEnds ==
  ASSUME NEW P, NEW stop, NEW next, NEW size, IsLoop(P, stop, next, size),
         NEW f, Runs(f, P, stop, next),
         NEW I, I \subseteq P, Keeps(I, stop, next), NEW v \in I
  PROVE  f[v] \in I /\ f[v] \in stop
<1> USE DEF IsLoop, Keeps
<1>0. \A w \in P : f[w] = IF w \in stop THEN w ELSE f[next[w]]
  BY Zenon DEF Runs
<1> DEFINE Bad == {w \in I : ~(f[w] \in I /\ f[w] \in stop)}
           N == {size[w] : w \in Bad}
<1> SUFFICES ASSUME Bad # {} PROVE FALSE
  OBVIOUS
<1>1. N \in SUBSET Nat /\ N # {}
  OBVIOUS
<1>2. \E i \in N : \A j \in N : i <= j
  <2> HIDE DEF N
  <2> QED
    BY <1>1, Least
<1>3. PICK w \in Bad : \A u \in Bad : size[w] <= size[u]
  BY <1>2
<1>4. w \notin stop
  BY <1>0, <1>3
<1>5. next[w] \in I \ Bad
  BY <1>0, <1>3, <1>4
<1> QED
  BY <1>0, <1>3, <1>4, <1>5

-----------------------------------------------------------------------------
(* Plans. *)

IsView(m) == DOMAIN m \subseteq Device /\ m \in [DOMAIN m -> HostRow]

\* The stages somebody holds.
Lit(w) == {s \in Stage : \E d \in DOMAIN w : s \in w[d]}

LEMMA StageFinite == IsFiniteSet(Stage) /\ Stage \subseteq Nat
BY PlacementAssumption, FS_Interval DEF Stage

LEMMA PlanTypes ==
  ASSUME NEW m, IsView(m), NEW w \in Plans(m)
  PROVE  /\ DOMAIN w = DOMAIN m
         /\ IsFiniteSet(DOMAIN m)
         /\ Eligible(m) \subseteq DOMAIN m
         /\ \A d \in DOMAIN m :
              /\ IsFiniteSet(w[d]) /\ Cardinality(w[d]) \in Nat
              /\ Free(w, d) \in Int /\ Speed[d] \in Nat /\ d \in Nat
         /\ \A s \in Stage :
              /\ IsFiniteSet({d \in DOMAIN w : s \in w[d]})
              /\ Copies(w, s) \in Nat
              /\ Copies(w, s) = 0 <=> s \notin Lit(w)
<1>1. DOMAIN w = DOMAIN m /\ \A d \in DOMAIN m : w[d] \subseteq Stage
  BY DEF Plans
<1>2. IsFiniteSet(DOMAIN m)
  BY PlacementAssumption, FS_Subset DEF IsView
<1>3. \A d \in DOMAIN m : IsFiniteSet(w[d]) /\ Cardinality(w[d]) \in Nat
  BY <1>1, StageFinite, FS_Subset, FS_CardinalityType
<1>4. \A d \in DOMAIN m : Free(w, d) \in Int /\ Speed[d] \in Nat /\ d \in Nat
  BY <1>3, PlacementAssumption DEF Free, IsView
<1>5. ASSUME NEW s \in Stage
      PROVE  /\ IsFiniteSet({d \in DOMAIN w : s \in w[d]})
             /\ Copies(w, s) \in Nat
             /\ Copies(w, s) = 0 <=> s \notin Lit(w)
  <2>1. IsFiniteSet({d \in DOMAIN w : s \in w[d]})
    BY <1>1, <1>2, FS_Subset
  <2> QED
    BY <2>1, FS_CardinalityType, FS_EmptySet DEF Copies, Lit
<1> QED
  BY <1>1, <1>2, <1>3, <1>4, <1>5 DEF Eligible

LEMMA CandidatesPart ==
  ASSUME NEW m, NEW w, NEW s
  PROVE  /\ FasterCandidates(m, w, s) \subseteq Candidates(m, w, s)
         /\ Candidates(m, w, s) \subseteq Eligible(m)
BY DEF FasterCandidates, Candidates

\* There is a best of some candidates.
LEMMA BestIsOne ==
  ASSUME NEW m, IsView(m), NEW w \in Plans(m), NEW C \in SUBSET (DOMAIN m), C # {}
  PROVE  /\ Best(w, C) \in C
         /\ \A e \in C \ {Best(w, C)} : SortsBefore(w, Best(w, C), e)
<1> DEFINE R == {r \in C \X C : SortsBefore(w, r[1], r[2])}
<1>1. IsFiniteSet(C)
  BY PlanTypes, FS_Subset
<1>2. \A d \in C : Free(w, d) \in Int /\ Speed[d] \in Nat /\ d \in Nat
  BY PlanTypes
<1>3. \A x, y \in C : <<x, y>> \in R <=> SortsBefore(w, x, y)
  OBVIOUS
<1>4. \A x, y \in C : x # y => <<x, y>> \in R \/ <<y, x>> \in R
  BY <1>2, <1>3 DEF SortsBefore
<1>5. \A x, y, z \in C : <<x, y>> \in R /\ <<y, z>> \in R => <<x, z>> \in R
  BY <1>2, <1>3 DEF SortsBefore
<1>6. \E x \in C : \A y \in C \ {x} : <<x, y>> \in R
  <2> HIDE DEF R
  <2> QED
    BY <1>1, <1>4, <1>5, First
<1>7. \E x \in C : \A y \in C \ {x} : SortsBefore(w, x, y)
  BY <1>3, <1>6
<1> QED
  BY <1>7 DEF Best

LEMMA ThinnestIsOne ==
  ASSUME NEW m, IsView(m), NEW w \in Plans(m), NEW C \in SUBSET Stage, C # {}
  PROVE  /\ Thinnest(w, C) \in C
         /\ \A t \in C \ {Thinnest(w, C)} :
              \/ Copies(w, Thinnest(w, C)) < Copies(w, t)
              \/ Copies(w, Thinnest(w, C)) = Copies(w, t) /\ Thinnest(w, C) < t
<1> DEFINE Before(s, t) ==
             Copies(w, s) < Copies(w, t) \/ (Copies(w, s) = Copies(w, t) /\ s < t)
           R == {r \in C \X C : Before(r[1], r[2])}
<1>1. IsFiniteSet(C)
  BY StageFinite, FS_Subset
<1>2. \A s \in C : Copies(w, s) \in Nat /\ s \in Nat
  BY PlanTypes, StageFinite
<1>3. \A x, y \in C : <<x, y>> \in R <=> Before(x, y)
  OBVIOUS
<1>4. \A x, y \in C : x # y => <<x, y>> \in R \/ <<y, x>> \in R
  BY <1>2, <1>3
<1>5. \A x, y, z \in C : <<x, y>> \in R /\ <<y, z>> \in R => <<x, z>> \in R
  BY <1>2, <1>3
<1>6. \E x \in C : \A y \in C \ {x} : <<x, y>> \in R
  <2> HIDE DEF R
  <2> QED
    BY <1>1, <1>4, <1>5, First
<1>7. \E x \in C : \A y \in C \ {x} : Before(x, y)
  BY <1>3, <1>6
<1> QED
  BY <1>7 DEF Thinnest

LEMMA LowestIsOne ==
  ASSUME NEW C \in SUBSET Stage, C # {}
  PROVE  Lowest(C) \in C
<1>1. \E n \in C : \A k \in C : n <= k
  BY StageFinite, Least
<1> QED
  BY <1>1 DEF Lowest

\* What a device is given.
LEMMA GiveEffect ==
  ASSUME NEW m, IsView(m), NEW w \in Plans(m), NEW d \in DOMAIN m, NEW s \in Stage,
         s \notin w[d]
  PROVE  /\ Give(w, d, s) \in Plans(m)
         /\ Give(w, d, s)[d] = w[d] \cup {s}
         /\ \A e \in DOMAIN m \ {d} : Give(w, d, s)[e] = w[e]
         /\ Copies(Give(w, d, s), s) = Copies(w, s) + 1
         /\ \A t \in Stage \ {s} : Copies(Give(w, d, s), t) = Copies(w, t)
         /\ Free(Give(w, d, s), d) = Free(w, d) - 1
         /\ \A e \in DOMAIN m \ {d} : Free(Give(w, d, s), e) = Free(w, e)
         /\ Lit(Give(w, d, s)) = Lit(w) \cup {s}
<1> DEFINE g == Give(w, d, s)
<1>1. /\ g \in Plans(m) /\ g[d] = w[d] \cup {s}
      /\ \A e \in DOMAIN m \ {d} : g[e] = w[e]
  BY DEF Give, Plans
<1>2. DOMAIN g = DOMAIN m /\ DOMAIN w = DOMAIN m
  BY <1>1, PlanTypes
<1>3. Copies(g, s) = Copies(w, s) + 1
  <2>1. {e \in DOMAIN g : s \in g[e]} = {e \in DOMAIN w : s \in w[e]} \cup {d}
    BY <1>1, <1>2
  <2>2. IsFiniteSet({e \in DOMAIN w : s \in w[e]})
    BY PlanTypes
  <2> QED
    BY <2>1, <2>2, FS_AddElement DEF Copies
<1>4. ASSUME NEW t \in Stage \ {s} PROVE Copies(g, t) = Copies(w, t)
  <2>1. {e \in DOMAIN g : t \in g[e]} = {e \in DOMAIN w : t \in w[e]}
    BY <1>1, <1>2
  <2> QED
    BY <2>1 DEF Copies
<1>5. Free(g, d) = Free(w, d) - 1
  <2>1. IsFiniteSet(w[d]) /\ Cardinality(w[d]) \in Nat
    BY PlanTypes
  <2>2. Cardinality(g[d]) = Cardinality(w[d]) + 1
    BY <1>1, <2>1, FS_AddElement
  <2>3. Slots[d] \in Nat
    BY PlacementAssumption DEF IsView
  <2> QED
    BY <2>1, <2>2, <2>3 DEF Free
<1>6. \A e \in DOMAIN m \ {d} : Free(g, e) = Free(w, e)
  BY <1>1 DEF Free
<1>7. Lit(g) = Lit(w) \cup {s}
  BY <1>1, <1>2 DEF Lit
<1> HIDE DEF g
<1>8. g = Give(w, d, s)
  BY DEF g
<1> QED
  BY <1>1, <1>3, <1>4, <1>5, <1>6, <1>7, <1>8

\* How many stages could still be given to how many devices.
Left(m, w) == Cardinality({p \in (DOMAIN m) \X Stage : p[2] \notin w[p[1]]})

LEMMA GiveLeavesLess ==
  ASSUME NEW m, IsView(m), NEW w \in Plans(m)
  PROVE  /\ Left(m, w) \in Nat
         /\ \A d \in DOMAIN m : \A s \in Stage \ w[d] :
              Left(m, Give(w, d, s)) < Left(m, w)
<1> DEFINE X == (DOMAIN m) \X Stage
           Lack(v) == {p \in X : p[2] \notin v[p[1]]}
<1>1. IsFiniteSet(X)
  <2>1. IsFiniteSet(DOMAIN m)
    BY PlanTypes
  <2> QED
    BY <2>1, StageFinite, FS_Product
<1>2. ASSUME NEW v PROVE IsFiniteSet(Lack(v)) /\ Cardinality(Lack(v)) \in Nat
  <2>1. Lack(v) \subseteq X
    OBVIOUS
  <2> HIDE DEF X, Lack
  <2> QED
    BY <1>1, <2>1, FS_Subset, FS_CardinalityType
<1>3. ASSUME NEW d \in DOMAIN m, NEW s \in Stage \ w[d]
      PROVE  Cardinality(Lack(Give(w, d, s))) < Cardinality(Lack(w))
  <2> DEFINE g == Give(w, d, s)
  <2>1. g[d] = w[d] \cup {s} /\ \A e \in DOMAIN m \ {d} : g[e] = w[e]
    BY GiveEffect
  <2> HIDE DEF g
  <2>2. \A p \in X : p \in Lack(g) <=> p \in Lack(w) /\ p # <<d, s>>
    <3> SUFFICES ASSUME NEW p \in X PROVE p \in Lack(g) <=> p \in Lack(w) /\ p # <<d, s>>
      OBVIOUS
    <3>1. PICK e \in DOMAIN m, t \in Stage : p = <<e, t>>
      OBVIOUS
    <3>2. p[1] = e /\ p[2] = t
      BY <3>1
    <3>3. p = <<d, s>> <=> e = d /\ t = s
      BY <3>1
    <3>4. t \in g[e] <=> t \in w[e] \/ (e = d /\ t = s)
      BY <2>1
    <3> QED
      BY <3>2, <3>3, <3>4
  <2>3. <<d, s>> \in Lack(w)
    <3>1. <<d, s>> \in X /\ <<d, s>>[1] = d /\ <<d, s>>[2] = s
      OBVIOUS
    <3> HIDE DEF X
    <3> QED
      BY <3>1
  <2>4. Lack(g) = Lack(w) \ {<<d, s>>}
    <3>1. \A v : Lack(v) \subseteq X
      OBVIOUS
    <3> HIDE DEF Lack, X
    <3> QED
      BY <2>2, <3>1
  <2> HIDE DEF Lack
  <2>5. Cardinality(Lack(g)) = Cardinality(Lack(w)) - 1
    <3>1. IsFiniteSet(Lack(w))
      BY <1>2
    <3> QED
      BY <2>3, <2>4, <3>1, FS_RemoveElement
  <2>6. Cardinality(Lack(w)) \in Nat
    BY <1>2
  <2> QED
    BY <2>5, <2>6 DEF g
<1> QED
  BY <1>2, <1>3 DEF Left

-----------------------------------------------------------------------------
(* The two loops. *)

\* One turn of each loop: who is given what, and that it was the thinnest, ...
LEMMA FillTurn ==
  ASSUME NEW m, IsView(m), NEW w \in Plans(m), ThinStages(m, w) # {}
  PROVE  \E s \in ThinStages(m, w) : \E d \in Candidates(m, w, s) :
           /\ FillNext(m, w) = Give(w, d, s)
           /\ \A e \in Candidates(m, w, s) \ {d} : SortsBefore(w, d, e)
           /\ \A t \in ThinStages(m, w) \ {s} :
                \/ Copies(w, s) < Copies(w, t)
                \/ Copies(w, s) = Copies(w, t) /\ s < t
<1> DEFINE s == Thinnest(w, ThinStages(m, w))
           d == Best(w, Candidates(m, w, s))
<1>1. ThinStages(m, w) \in SUBSET Stage
  BY DEF ThinStages
<1>2. /\ s \in ThinStages(m, w)
      /\ \A t \in ThinStages(m, w) \ {s} :
           \/ Copies(w, s) < Copies(w, t)
           \/ Copies(w, s) = Copies(w, t) /\ s < t
  BY <1>1, ThinnestIsOne
<1>3. Candidates(m, w, s) \in SUBSET (DOMAIN m) /\ Candidates(m, w, s) # {}
  BY <1>2 DEF ThinStages, Candidates, Eligible
<1>4. /\ d \in Candidates(m, w, s)
      /\ \A e \in Candidates(m, w, s) \ {d} : SortsBefore(w, d, e)
  BY <1>3, BestIsOne
<1>5. FillNext(m, w) = Give(w, d, s)
  BY DEF FillNext
<1> HIDE DEF s, d
<1> QED
  BY <1>2, <1>4, <1>5

\* ... or a faster copy of it.
LEMMA AddTurn ==
  ASSUME NEW m, IsView(m), NEW w \in Plans(m), GainStages(m, w) # {}
  PROVE  \E s \in GainStages(m, w) : \E d \in FasterCandidates(m, w, s) :
           AddNext(m, w) = Give(w, d, s)
<1> DEFINE s == Lowest(GainStages(m, w))
           d == Best(w, FasterCandidates(m, w, s))
<1>1. GainStages(m, w) \in SUBSET Stage
  BY DEF GainStages
<1>2. s \in GainStages(m, w)
  BY <1>1, LowestIsOne
<1>3. FasterCandidates(m, w, s) \in SUBSET (DOMAIN m) /\ FasterCandidates(m, w, s) # {}
  BY <1>2 DEF GainStages, FasterCandidates, Candidates, Eligible
<1>4. d \in FasterCandidates(m, w, s)
  BY <1>3, BestIsOne
<1>5. AddNext(m, w) = Give(w, d, s)
  BY DEF AddNext
<1> HIDE DEF s, d
<1> QED
  BY <1>2, <1>4, <1>5

\* A candidate can be given the stage, and that leaves less to give.
LEMMA CandidateTurn ==
  ASSUME NEW m, IsView(m), NEW w \in Plans(m), NEW s \in Stage,
         NEW d \in Candidates(m, w, s)
  PROVE  /\ d \in DOMAIN m /\ s \notin w[d]
         /\ Give(w, d, s) \in Plans(m)
         /\ Left(m, Give(w, d, s)) < Left(m, w)
<1>1. d \in DOMAIN m /\ s \notin w[d]
  BY DEF Candidates, Eligible
<1> QED
  BY <1>1, GiveEffect, GiveLeavesLess

\* The recursive functions of FillThin and AddFasterCopies.
FillOf(m) ==
  CHOOSE fill : fill = [w \in Plans(m) |->
    IF ThinStages(m, w) = {} THEN w ELSE fill[FillNext(m, w)]]

AddOf(m) ==
  CHOOSE add : add = [w \in Plans(m) |->
    IF GainStages(m, w) = {} THEN w ELSE add[AddNext(m, w)]]

\* They are defined, and keep what each of their turns keeps.
LEMMA FillLoop ==
  ASSUME NEW m, IsView(m)
  PROVE  /\ \A w \in Plans(m) :
              FillOf(m)[w] = IF ThinStages(m, w) = {} THEN w ELSE FillOf(m)[FillNext(m, w)]
         /\ \A I \in SUBSET Plans(m) : \A v \in I :
              (\A w \in I : ThinStages(m, w) # {} => FillNext(m, w) \in I) =>
                FillOf(m)[v] \in I /\ ThinStages(m, FillOf(m)[v]) = {}
<1> DEFINE P == Plans(m)
           stop == {w \in P : ThinStages(m, w) = {}}
           next == [w \in P |-> IF w \in stop THEN w ELSE FillNext(m, w)]
           size == [w \in P |-> Left(m, w)]
           Fill(f) == f = [w \in P |->
                         IF ThinStages(m, w) = {} THEN w ELSE f[FillNext(m, w)]]
<1>1. ASSUME NEW w \in P, w \notin stop
      PROVE  FillNext(m, w) \in P /\ Left(m, FillNext(m, w)) < Left(m, w)
  <2>1. PICK s \in Stage : \E d \in Candidates(m, w, s) : FillNext(m, w) = Give(w, d, s)
    BY <1>1, FillTurn DEF ThinStages
  <2> QED
    BY <2>1, CandidateTurn
<1>2. next \in [P -> P] /\ size \in [P -> Nat]
  BY <1>1, GiveLeavesLess
<1>3. \A w \in P \ stop : size[next[w]] < size[w]
  BY <1>1
<1>4. IsLoop(P, stop, next, size) /\ \E f : Runs(f, P, stop, next)
  <2> HIDE DEF P, stop, next, size
  <2>1. IsLoop(P, stop, next, size)
    BY <1>2, <1>3 DEF IsLoop
  <2> QED
    BY <2>1, LoopDefined
<1>5. \A f : Runs(f, P, stop, next) <=> Fill(f)
  <2> SUFFICES ASSUME NEW f PROVE Runs(f, P, stop, next) <=> Fill(f)
    OBVIOUS
  <2>1. [w \in P |-> IF w \in stop THEN w ELSE f[next[w]]] =
        [w \in P |-> IF ThinStages(m, w) = {} THEN w ELSE f[FillNext(m, w)]]
    OBVIOUS
  <2> QED
    BY <2>1 DEF Runs
<1>6. Fill(FillOf(m)) /\ Runs(FillOf(m), P, stop, next)
  <2>1. FillOf(m) = CHOOSE f : Fill(f)
    BY DEF FillOf
  <2> HIDE DEF P, stop, next, Fill
  <2> QED
    BY <1>4, <1>5, <2>1
<1> DEFINE f == FillOf(m)
<1> HIDE DEF f
<1>7. Fill(f) /\ Runs(f, P, stop, next)
  BY <1>6 DEF f
<1>8. \A w \in P : f[w] = IF ThinStages(m, w) = {} THEN w ELSE f[FillNext(m, w)]
  BY <1>7
<1>9. ASSUME NEW I \in SUBSET P, NEW v \in I,
              \A w \in I : ThinStages(m, w) # {} => FillNext(m, w) \in I
       PROVE  f[v] \in I /\ ThinStages(m, f[v]) = {}
  <2>1. Keeps(I, stop, next)
    BY <1>9 DEF Keeps
  <2>2. f[v] \in I /\ f[v] \in stop
    <3> HIDE DEF P, stop, next, size
    <3> QED
      BY <1>4, <1>7, <2>1, LoopEnds
  <2> QED
    BY <2>2
<1> QED
  BY <1>8, <1>9 DEF f

LEMMA AddLoop ==
  ASSUME NEW m, IsView(m)
  PROVE  /\ \A w \in Plans(m) :
              AddOf(m)[w] = IF GainStages(m, w) = {} THEN w ELSE AddOf(m)[AddNext(m, w)]
         /\ \A I \in SUBSET Plans(m) : \A v \in I :
              (\A w \in I : GainStages(m, w) # {} => AddNext(m, w) \in I) =>
                AddOf(m)[v] \in I /\ GainStages(m, AddOf(m)[v]) = {}
<1> DEFINE P == Plans(m)
           stop == {w \in P : GainStages(m, w) = {}}
           next == [w \in P |-> IF w \in stop THEN w ELSE AddNext(m, w)]
           size == [w \in P |-> Left(m, w)]
           Add(f) == f = [w \in P |->
                        IF GainStages(m, w) = {} THEN w ELSE f[AddNext(m, w)]]
<1>1. ASSUME NEW w \in P, w \notin stop
      PROVE  AddNext(m, w) \in P /\ Left(m, AddNext(m, w)) < Left(m, w)
  <2>1. PICK s \in Stage : \E d \in FasterCandidates(m, w, s) : AddNext(m, w) = Give(w, d, s)
    BY <1>1, AddTurn DEF GainStages
  <2> QED
    BY <2>1, CandidateTurn, CandidatesPart
<1>2. next \in [P -> P] /\ size \in [P -> Nat]
  BY <1>1, GiveLeavesLess
<1>3. \A w \in P \ stop : size[next[w]] < size[w]
  BY <1>1
<1>4. IsLoop(P, stop, next, size) /\ \E f : Runs(f, P, stop, next)
  <2> HIDE DEF P, stop, next, size
  <2>1. IsLoop(P, stop, next, size)
    BY <1>2, <1>3 DEF IsLoop
  <2> QED
    BY <2>1, LoopDefined
<1>5. \A f : Runs(f, P, stop, next) <=> Add(f)
  <2> SUFFICES ASSUME NEW f PROVE Runs(f, P, stop, next) <=> Add(f)
    OBVIOUS
  <2>1. [w \in P |-> IF w \in stop THEN w ELSE f[next[w]]] =
        [w \in P |-> IF GainStages(m, w) = {} THEN w ELSE f[AddNext(m, w)]]
    OBVIOUS
  <2> QED
    BY <2>1 DEF Runs
<1>6. Add(AddOf(m)) /\ Runs(AddOf(m), P, stop, next)
  <2>1. AddOf(m) = CHOOSE f : Add(f)
    BY DEF AddOf
  <2> HIDE DEF P, stop, next, Add
  <2> QED
    BY <1>4, <1>5, <2>1
<1> DEFINE f == AddOf(m)
<1> HIDE DEF f
<1>7. Add(f) /\ Runs(f, P, stop, next)
  BY <1>6 DEF f
<1>8. \A w \in P : f[w] = IF GainStages(m, w) = {} THEN w ELSE f[AddNext(m, w)]
  BY <1>7
<1>9. ASSUME NEW I \in SUBSET P, NEW v \in I,
              \A w \in I : GainStages(m, w) # {} => AddNext(m, w) \in I
       PROVE  f[v] \in I /\ GainStages(m, f[v]) = {}
  <2>1. Keeps(I, stop, next)
    BY <1>9 DEF Keeps
  <2>2. f[v] \in I /\ f[v] \in stop
    <3> HIDE DEF P, stop, next, size
    <3> QED
      BY <1>4, <1>7, <2>1, LoopEnds
  <2> QED
    BY <2>2
<1> QED
  BY <1>8, <1>9 DEF f

LEMMA PlanIsOfTheLoops ==
  ASSUME NEW m
  PROVE  /\ FillThin(m) = FillOf(m)[Kept(m)]
         /\ WantedStages(m) = IF UseSpareCapacity THEN AddOf(m)[FillThin(m)] ELSE FillThin(m)
BY DEF FillThin, FillOf, AddFasterCopies, AddOf, WantedStages

\* Plans that a turn of the first loop leads to plans of the same set, ...
FillKeeps(m, I) ==
  \A w \in I : \A s \in ThinStages(m, w) : \A d \in Candidates(m, w, s) :
    (\A t \in ThinStages(m, w) : Copies(w, s) <= Copies(w, t)) => Give(w, d, s) \in I

\* ... and of the second.
AddKeeps(m, I) ==
  \A w \in I : \A s \in Stage : \A d \in FasterCandidates(m, w, s) : Give(w, d, s) \in I

LEMMA FillEnds ==
  ASSUME NEW m, IsView(m), NEW I, I \subseteq Plans(m), FillKeeps(m, I),
         NEW v \in I
  PROVE  FillOf(m)[v] \in I /\ ThinStages(m, FillOf(m)[v]) = {}
<1>1. ASSUME NEW w \in I, ThinStages(m, w) # {} PROVE FillNext(m, w) \in I
  <2>0. PICK s \in ThinStages(m, w) : \E d \in Candidates(m, w, s) :
          /\ FillNext(m, w) = Give(w, d, s)
          /\ \A t \in ThinStages(m, w) \ {s} :
               \/ Copies(w, s) < Copies(w, t)
               \/ Copies(w, s) = Copies(w, t) /\ s < t
    BY <1>1, FillTurn
  <2>1. PICK d \in Candidates(m, w, s) :
          /\ FillNext(m, w) = Give(w, d, s)
          /\ \A t \in ThinStages(m, w) \ {s} :
               \/ Copies(w, s) < Copies(w, t)
               \/ Copies(w, s) = Copies(w, t) /\ s < t
    BY <2>0
  <2>2. ThinStages(m, w) \subseteq Stage
    BY DEF ThinStages
  <2>3. \A t \in ThinStages(m, w) : Copies(w, t) \in Nat
    BY <2>2, PlanTypes
  <2>4. \A t \in ThinStages(m, w) : Copies(w, s) <= Copies(w, t)
    BY <2>1, <2>3
  <2> QED
    BY <2>1, <2>4 DEF FillKeeps
<1> QED
  BY <1>1, FillLoop

LEMMA AddEnds ==
  ASSUME NEW m, IsView(m), NEW I, I \subseteq Plans(m), AddKeeps(m, I),
         FillThin(m) \in I
  PROVE  /\ WantedStages(m) \in I
         /\ UseSpareCapacity => GainStages(m, WantedStages(m)) = {}
<1>1. ASSUME NEW w \in I, GainStages(m, w) # {} PROVE AddNext(m, w) \in I
  <2>1. PICK s \in GainStages(m, w) : \E d \in FasterCandidates(m, w, s) :
          AddNext(m, w) = Give(w, d, s)
    BY <1>1, AddTurn
  <2> QED
    BY <2>1 DEF AddKeeps, GainStages
<1>2. /\ AddOf(m)[FillThin(m)] \in I
      /\ GainStages(m, AddOf(m)[FillThin(m)]) = {}
  BY <1>1, AddLoop
<1> QED
  BY <1>2, PlanIsOfTheLoops, PlacementAssumption

\* What holds of every plan on the way, and of the one that comes out: a device
\* that is active keeps what it holds and is given nothing it failed to load or
\* has no room for; one that is not active is given nothing.
Sound(m) ==
  {w \in Plans(m) : \A d \in DOMAIN m :
     /\ d \in Eligible(m) => HeldIn(m[d]) \subseteq w[d]
     /\ d \notin Eligible(m) => w[d] = {}
     /\ \A s \in w[d] \ HeldIn(m[d]) : ~FailedHere(m[d], s)
     /\ Cardinality(HeldIn(m[d])) <= Slots[d] => Cardinality(w[d]) <= Slots[d]}

LEMMA KeptIsSound ==
  ASSUME NEW m, IsView(m)
  PROVE  Kept(m) \in Plans(m) /\ Kept(m) \in Sound(m)
<1>1. Kept(m) \in Plans(m)
  BY DEF Kept, Plans, HeldIn
<1>2. ASSUME NEW d \in DOMAIN m PROVE Slots[d] \in Nat /\ Cardinality({}) <= Slots[d]
  BY PlacementAssumption, FS_EmptySet DEF IsView
<1> QED
  BY <1>1, <1>2 DEF Sound, Kept

LEMMA SoundTurn ==
  ASSUME NEW m, IsView(m), NEW w \in Sound(m), NEW s \in Stage,
         NEW d \in Candidates(m, w, s)
  PROVE  Give(w, d, s) \in Sound(m)
<1> DEFINE g == Give(w, d, s)
<1>1. w \in Plans(m) /\ d \in DOMAIN m /\ s \notin w[d]
  BY DEF Sound, Candidates, Eligible
<1>2. /\ g \in Plans(m) /\ g[d] = w[d] \cup {s}
      /\ \A e \in DOMAIN m \ {d} : g[e] = w[e]
      /\ Free(g, d) = Free(w, d) - 1
  BY <1>1, GiveEffect
<1>3. Free(w, d) > 0 /\ ~FailedHere(m[d], s) /\ d \in Eligible(m)
  BY DEF Candidates
<1>4. Cardinality(g[d]) <= Slots[d]
  <2>1. Cardinality(g[d]) \in Nat /\ Free(w, d) \in Int /\ Slots[d] \in Nat
    BY <1>1, <1>2, PlanTypes, PlacementAssumption DEF IsView
  <2> QED
    BY <1>2, <1>3, <2>1 DEF Free
<1> HIDE DEF g
<1>5. g \in Sound(m)
  <2> SUFFICES ASSUME NEW e \in DOMAIN m
               PROVE  /\ e \in Eligible(m) => HeldIn(m[e]) \subseteq g[e]
                      /\ e \notin Eligible(m) => g[e] = {}
                      /\ \A t \in g[e] \ HeldIn(m[e]) : ~FailedHere(m[e], t)
                      /\ Cardinality(HeldIn(m[e])) <= Slots[e] => Cardinality(g[e]) <= Slots[e]
    BY <1>2 DEF Sound
  <2>1. CASE e = d
    BY <1>2, <1>3, <1>4, <2>1 DEF Sound
  <2>2. CASE e # d
    BY <1>2, <2>2 DEF Sound
  <2> QED
    BY <2>1, <2>2
<1> QED
  BY <1>5 DEF g

\* Once no stage is both thin and takeable, giving makes none so.
LEMMA NothingThinner ==
  ASSUME NEW m, IsView(m), NEW w \in Plans(m), ThinStages(m, w) = {}, NEW s \in Stage,
         NEW d \in Candidates(m, w, s)
  PROVE  ThinStages(m, Give(w, d, s)) = {}
<1> DEFINE g == Give(w, d, s)
<1>1. d \in DOMAIN m /\ s \notin w[d]
  BY DEF Candidates, Eligible
<1>2. /\ Copies(g, s) = Copies(w, s) + 1
      /\ \A t \in Stage \ {s} : Copies(g, t) = Copies(w, t)
      /\ Free(g, d) = Free(w, d) - 1
      /\ \A e \in DOMAIN m \ {d} : Free(g, e) = Free(w, e)
      /\ \A e \in DOMAIN m : w[e] \subseteq g[e]
  BY <1>1, GiveEffect
<1>3. \A t \in Stage : Copies(w, t) \in Nat
  BY PlanTypes
<1>4. \A e \in DOMAIN m : Free(w, e) \in Int
  BY PlanTypes
<1> HIDE DEF g
<1>5. ASSUME NEW t \in Stage, Copies(g, t) < Replicas, Candidates(m, g, t) # {}
      PROVE  FALSE
  <2>1. Copies(w, t) < Replicas
    BY <1>2, <1>3, <1>5, PlacementAssumption
  <2>2. Candidates(m, g, t) \subseteq Candidates(m, w, t)
    BY <1>2, <1>4 DEF Candidates, Eligible
  <2>3. t \in ThinStages(m, w)
    BY <1>5, <2>1, <2>2 DEF ThinStages
  <2> QED
    BY <2>3
<1> QED
  BY <1>5 DEF ThinStages, g

\* The plan: sound, and nothing is left to do for either loop.
LEMMA PlanIsSound ==
  ASSUME NEW m, IsView(m)
  PROVE  /\ FillThin(m) \in Sound(m) /\ ThinStages(m, FillThin(m)) = {}
         /\ WantedStages(m) \in Sound(m) /\ ThinStages(m, WantedStages(m)) = {}
         /\ UseSpareCapacity => GainStages(m, WantedStages(m)) = {}
<1>1. Sound(m) \subseteq Plans(m)
  BY DEF Sound
<1>2. FillKeeps(m, Sound(m))
  BY SoundTurn DEF FillKeeps, ThinStages
<1>3. FillThin(m) \in Sound(m) /\ ThinStages(m, FillThin(m)) = {}
  BY <1>1, <1>2, KeptIsSound, FillEnds, PlanIsOfTheLoops
<1> DEFINE I == {w \in Sound(m) : ThinStages(m, w) = {}}
<1>4. ASSUME NEW w \in I, NEW s \in Stage, NEW d \in FasterCandidates(m, w, s)
      PROVE  Give(w, d, s) \in I
  <2>1. d \in Candidates(m, w, s) /\ w \in Plans(m)
    BY CandidatesPart, <1>1
  <2> QED
    BY <2>1, SoundTurn, NothingThinner
<1>5. AddKeeps(m, I)
  <2> HIDE DEF I
  <2> QED
    BY <1>4 DEF AddKeeps
<1>6. I \subseteq Plans(m) /\ FillThin(m) \in I
  BY <1>1, <1>3
<1>7. WantedStages(m) \in I /\ (UseSpareCapacity => GainStages(m, WantedStages(m)) = {})
  <2> HIDE DEF I
  <2> QED
    BY <1>5, <1>6, AddEnds
<1> QED
  BY <1>3, <1>7

-----------------------------------------------------------------------------
(* Theorems: what the plan promises in every view. *)

MembersType == members \in [Present -> HostRow]

LEMMA MembersAreAView == MembersType => IsView(members)
BY PresentAssumption DEF IsView, MembersType

LEMMA MembersTyped == MCSpec => []MembersType
<1>1. MCInit => MembersType
  BY DEF MCInit, MembersType
<1>2. MembersType /\ [MCNext]_members => MembersType'
  <2> SUFFICES ASSUME MembersType, [MCNext]_members PROVE MembersType'
    OBVIOUS
  <2>1. ASSUME NEW d \in Present, FollowPlan(d) PROVE MembersType'
    <3>1. [s \in Stage |-> IF s \in Wanted[d] THEN "ready" ELSE members[d].hosting[s]]
            \in [Stage -> StageStatus]
      BY DEF HostRow, StageStatus, MembersType
    <3> QED
      BY <2>1, <3>1 DEF FollowPlan, HostRow, MembersType
  <2> QED
    BY <2>1 DEF MCNext, MembersType
<1> QED
  BY <1>1, <1>2, PTL DEF MCSpec

\* Nobody holds more than it has room for: one who follows the plan holds what it was
\* given and no more.
HoldingsFit == \A d \in Present : Cardinality(HeldIn(members[d])) <= Slots[d]

LEMMA FollowedIsHeld ==
  ASSUME MembersType, NEW d \in Present, FollowPlan(d)
  PROVE  HeldIn(members'[d]) = Wanted[d] /\ \A e \in Present \ {d} : members'[e] = members[e]
<1>1. IsView(members) /\ DOMAIN members = Present
  BY MembersAreAView DEF MembersType
<1>2. HeldIn(members[d]) \subseteq Wanted[d] /\ Wanted[d] \subseteq Stage
  BY <1>1, PlanIsSound DEF Sound, Plans, Wanted, FollowPlan, Eligible
<1>3. \A s \in Stage :
        members'[d].hosting[s] = IF s \in Wanted[d] THEN "ready" ELSE members[d].hosting[s]
  <2> HIDE DEF Wanted
  <2> QED
    BY DEF FollowPlan, MembersType, HostRow
<1>4. HeldIn(members'[d]) = Wanted[d]
  <2> HIDE DEF Wanted
  <2> QED
    BY <1>2, <1>3 DEF HeldIn
<1> QED
  BY <1>4 DEF FollowPlan, MembersType

LEMMA HoldingsAlwaysFit == MCSpec => []HoldingsFit
<1>1. MCInit => HoldingsFit
  BY DEF MCInit, HoldingsFit
<1>2. MembersType /\ HoldingsFit /\ [MCNext]_members => HoldingsFit'
  <2> SUFFICES ASSUME MembersType, HoldingsFit, NEW a \in Present, FollowPlan(a),
                      NEW d \in Present
               PROVE  Cardinality(HeldIn(members'[d])) <= Slots[d]
    BY DEF MCNext, HoldingsFit
  <2>1. IsView(members) /\ DOMAIN members = Present
    BY MembersAreAView DEF MembersType
  <2>2. Cardinality(Wanted[a]) <= Slots[a]
    BY <2>1, PlanIsSound DEF Sound, Wanted, HoldingsFit
  <2> QED
    BY <2>2, FollowedIsHeld DEF HoldingsFit
<1> QED
  BY <1>1, <1>2, MembersTyped, PTL DEF MCSpec

\* Nobody is given more than it has room for, and whoever is left with room for a
\* stage is of no use to it (each loop of wanted_stages ends when nobody qualifies).
THEOREM PlanIsMaximalHolds == MCSpec => []PlanIsMaximal
<1>1. MembersType /\ HoldingsFit => PlanIsMaximal
  <2> SUFFICES ASSUME MembersType, HoldingsFit PROVE PlanIsMaximal
    OBVIOUS
  <2>1. IsView(members) /\ DOMAIN members = Present
    BY MembersAreAView DEF MembersType
  <2>2. /\ Wanted \in Sound(members) /\ ThinStages(members, Wanted) = {}
        /\ UseSpareCapacity => GainStages(members, Wanted) = {}
    BY <2>1, PlanIsSound DEF Wanted
  <2> HIDE DEF Wanted
  <2>3. \A d \in Present : Cardinality(Wanted[d]) <= Slots[d]
    BY <2>1, <2>2 DEF Sound, HoldingsFit
  <2>4. ASSUME NEW s \in Stage, NEW d \in Candidates(members, Wanted, s)
        PROVE  /\ Copies(Wanted, s) >= Replicas
               /\ UseSpareCapacity =>
                    \A e \in Eligible(members) : s \in Wanted[e] => Speed[e] >= Speed[d]
    <3>1. Wanted \in Plans(members) /\ d \in Eligible(members)
      BY <2>2, <2>4 DEF Sound, Candidates
    <3>2. Copies(Wanted, s) \in Nat /\ \A e \in Eligible(members) : Speed[e] \in Nat
      BY <2>1, <3>1, PlanTypes
    <3>3. Copies(Wanted, s) >= Replicas
      BY <2>2, <3>2, PlacementAssumption DEF ThinStages
    <3>4. ASSUME UseSpareCapacity, NEW e \in Eligible(members), s \in Wanted[e]
          PROVE  Speed[e] >= Speed[d]
      <4>1. d \notin FasterCandidates(members, Wanted, s)
        BY <2>2, <3>4 DEF GainStages
      <4> QED
        BY <3>1, <3>2, <3>4, <4>1 DEF FasterCandidates
    <3> QED
      BY <3>3, <3>4
  <2> QED
    BY <2>3, <2>4 DEF PlanIsMaximal
<1> QED
  BY <1>1, MembersTyped, HoldingsAlwaysFit, PTL

\* As long as a stage has no copy, nobody who could take it is given another copy
\* of a stage that had one (the first loop takes the thinnest stage first, and
\* spare capacity is spent after it).
THEOREM DarkStagesFirstHolds == MCSpec => []DarkStagesFirst
<1>1. MembersType => DarkStagesFirst
  <2> SUFFICES ASSUME IsView(members), NEW t \in Stage, Copies(Wanted, t) = 0,
                      NEW d \in Eligible(members), NEW s \in Wanted[d] \ HeldIn(members[d])
               PROVE  FailedHere(members[d], t) \/ Copies(Kept(members), s) = 0
    BY MembersAreAView DEF DarkStagesFirst
  <2> DEFINE K == Kept(members)
             DarkFirst(w) ==
               t \notin Lit(w) =>
                 \A e \in Eligible(members) : \A r \in w[e] \ HeldIn(members[e]) :
                   FailedHere(members[e], t) \/ r \notin Lit(K)
             I == {w \in Sound(members) : DarkFirst(w)}
  <2>1. Sound(members) \subseteq Plans(members)
    BY DEF Sound
  <2>2. ASSUME NEW w \in I, NEW e \in Eligible(members), NEW r \in Stage,
               e \in Candidates(members, w, r),
               t \notin Lit(w) => FailedHere(members[e], t) \/ r \notin Lit(K)
        PROVE  Give(w, e, r) \in I
    <3> DEFINE g == Give(w, e, r)
    <3>1. g \in Sound(members)
      BY <2>2, SoundTurn
    <3>2. w \in Plans(members) /\ e \in DOMAIN members /\ r \notin w[e]
      BY <2>1, <2>2 DEF Candidates, Eligible
    <3>3. /\ Lit(g) = Lit(w) \cup {r}
          /\ g[e] = w[e] \cup {r}
          /\ \A a \in DOMAIN members \ {e} : g[a] = w[a]
      BY <3>2, GiveEffect
    <3> HIDE DEF g, K
    <3>4. DarkFirst(g)
      BY <2>2, <3>3 DEF Eligible
    <3> QED
      BY <3>1, <3>4 DEF g
  <2>3. ASSUME NEW w \in I PROVE Lit(K) \subseteq Lit(w)
    <3>1. DOMAIN w = DOMAIN members /\ DOMAIN K = DOMAIN members
      BY <2>1, PlanTypes, KeptIsSound
    <3>2. \A e \in DOMAIN members : K[e] \subseteq w[e]
      BY DEF Sound, Kept
    <3> HIDE DEF K
    <3> QED
      BY <3>1, <3>2 DEF Lit
  <2>4. FillKeeps(members, I)
    <3> SUFFICES ASSUME NEW w \in I, NEW r \in ThinStages(members, w),
                        NEW e \in Candidates(members, w, r),
                        \A q \in ThinStages(members, w) : Copies(w, r) <= Copies(w, q)
                 PROVE  Give(w, e, r) \in I
      <4> HIDE DEF I
      <4> QED
        BY DEF FillKeeps
    <3>1. w \in Plans(members) /\ e \in Eligible(members) /\ r \in Stage
      BY <2>1 DEF Candidates, ThinStages
    <3>2. ASSUME t \notin Lit(w), ~FailedHere(members[e], t) PROVE r \notin Lit(K)
      <4>1. Copies(w, t) = 0 /\ t \notin w[e]
        BY <3>1, <3>2, PlanTypes DEF Lit, Eligible
      <4>2. e \in Candidates(members, w, t)
        BY <3>2, <4>1 DEF Candidates
      <4>3. t \in ThinStages(members, w)
        BY <4>1, <4>2, PlacementAssumption DEF ThinStages
      <4>4. Copies(w, r) = 0
        <5>1. Copies(w, r) \in Nat
          BY <3>1, PlanTypes
        <5> HIDE DEF K, I
        <5> QED
          BY <4>1, <4>3, <5>1
      <4> QED
        BY <2>3, <3>1, <4>4, PlanTypes
    <3> HIDE DEF K, I
    <3> QED
      BY <2>2, <3>1, <3>2
  <2>5. FillThin(members) \in I
    <3>1. K \in I
      <4>1. \A e \in Eligible(members) : K[e] \ HeldIn(members[e]) = {}
        BY DEF Kept, Eligible
      <4> HIDE DEF K
      <4> QED
        BY <4>1, KeptIsSound DEF K
    <3>2. I \subseteq Plans(members)
      BY <2>1
    <3> HIDE DEF I
    <3> QED
      BY <2>4, <3>1, <3>2, FillEnds, PlanIsOfTheLoops
  <2> DEFINE J == {w \in I : ThinStages(members, w) = {}}
  <2>6. AddKeeps(members, J)
    <3> SUFFICES ASSUME NEW w \in J, NEW r \in Stage,
                        NEW e \in FasterCandidates(members, w, r)
                 PROVE  Give(w, e, r) \in J
      <4> HIDE DEF J
      <4> QED
        BY DEF AddKeeps
    <3>1. /\ w \in Plans(members) /\ w \in I /\ ThinStages(members, w) = {}
          /\ e \in Candidates(members, w, r) /\ e \in Eligible(members)
      BY <2>1, CandidatesPart
    <3>2. ASSUME t \notin Lit(w), ~FailedHere(members[e], t) PROVE FALSE
      <4>1. Copies(w, t) = 0 /\ t \notin w[e]
        BY <3>1, <3>2, PlanTypes DEF Lit, Eligible
      <4>2. e \in Candidates(members, w, t)
        BY <3>1, <3>2, <4>1 DEF Candidates
      <4> QED
        BY <3>1, <4>1, <4>2, PlacementAssumption DEF ThinStages
    <3>3. Give(w, e, r) \in I
      <4> HIDE DEF I, J, K
      <4> QED
        BY <2>2, <3>1, <3>2
    <3>4. ThinStages(members, Give(w, e, r)) = {}
      BY <3>1, NothingThinner
    <3> HIDE DEF I
    <3> QED
      BY <3>3, <3>4
  <2>7. Wanted \in J
    <3>1. J \subseteq Plans(members) /\ FillThin(members) \in J
      BY <2>1, <2>5, PlanIsSound
    <3> HIDE DEF J
    <3> QED
      BY <2>6, <3>1, AddEnds DEF Wanted
  <2>8. Wanted \in Plans(members) /\ Kept(members) \in Plans(members) /\ s \in Stage
    BY <2>1, <2>7, KeptIsSound DEF Plans, Eligible
  <2> HIDE DEF Wanted
  <2>9. t \notin Lit(Wanted)
    BY <2>8, PlanTypes
  <2>10. FailedHere(members[d], t) \/ s \notin Lit(Kept(members))
    BY <2>7, <2>9
  <2> QED
    BY <2>8, <2>10, PlanTypes
<1> QED
  BY <1>1, MembersTyped, PTL

\* Coverage gives no stage more copies than its replicas.
LEMMA CoverageStopsAtReplicas ==
  ASSUME NEW m, IsView(m)
  PROVE  \A d \in Eligible(m) : \A s \in FillThin(m)[d] \ HeldIn(m[d]) :
           Copies(FillThin(m), s) <= Replicas
<1> DEFINE Given(w, s) == \E d \in Eligible(m) : s \in w[d] \ HeldIn(m[d])
           I == {w \in Plans(m) : \A s \in Stage : Given(w, s) => Copies(w, s) <= Replicas}
<1>1. ASSUME NEW w \in I, NEW r \in ThinStages(m, w), NEW a \in Candidates(m, w, r)
      PROVE  Give(w, a, r) \in I
  <2>1. /\ w \in Plans(m) /\ r \in Stage /\ Copies(w, r) < Replicas
        /\ a \in DOMAIN m /\ r \notin w[a] /\ Eligible(m) \subseteq DOMAIN m
    BY DEF Candidates, Eligible, ThinStages
  <2>2. /\ Give(w, a, r) \in Plans(m)
        /\ Copies(Give(w, a, r), r) = Copies(w, r) + 1
        /\ \A t \in Stage \ {r} : Copies(Give(w, a, r), t) = Copies(w, t)
        /\ Give(w, a, r)[a] = w[a] \cup {r}
        /\ \A e \in DOMAIN m \ {a} : Give(w, a, r)[e] = w[e]
    <3> HIDE DEF I
    <3> QED
      BY <2>1, GiveEffect
  <2>0. Copies(w, r) \in Nat
    BY <2>1, PlanTypes
  <2>3. ASSUME NEW s \in Stage, Given(Give(w, a, r), s)
        PROVE  Copies(Give(w, a, r), s) <= Replicas
    <3>1. CASE s = r
      BY <2>0, <2>1, <2>2, <3>1, PlacementAssumption
    <3>2. CASE s # r
      <4>1. Given(w, s)
        BY <2>1, <2>2, <2>3, <3>2
      <4> QED
        BY <2>2, <3>2, <4>1
    <3> QED
      BY <3>1, <3>2
  <2> QED
    BY <2>2, <2>3
<1>2. FillKeeps(m, I)
  <2> HIDE DEF I
  <2> QED
    BY <1>1 DEF FillKeeps
<1>3. Kept(m) \in I
  <2>1. \A d \in Eligible(m) : Kept(m)[d] \ HeldIn(m[d]) = {}
    BY DEF Kept, Eligible
  <2> QED
    BY <2>1, KeptIsSound
<1>4. FillThin(m) \in I
  <2>1. I \subseteq Plans(m)
    OBVIOUS
  <2> HIDE DEF I
  <2> QED
    BY <1>2, <1>3, <2>1, FillEnds, PlanIsOfTheLoops
<1> QED
  BY <1>4 DEF Plans, Eligible

\* Whoever is a faster copy than one that was added is a faster copy than one that was
\* there before any was.
LEMMA AddedIsFaster ==
  ASSUME NEW m, IsView(m)
  PROVE  \A d \in Eligible(m) : \A s \in WantedStages(m)[d] \ FillThin(m)[d] :
           \E e \in Eligible(m) : s \in FillThin(m)[e] /\ Speed[e] < Speed[d]
<1> DEFINE Slower(d, s) == \E e \in Eligible(m) : s \in FillThin(m)[e] /\ Speed[e] < Speed[d]
           I == {w \in Plans(m) :
                   \A d \in Eligible(m) : \A s \in w[d] \ FillThin(m)[d] : Slower(d, s)}
<1>0. /\ \A d \in Eligible(m) : Speed[d] \in Nat
      /\ FillThin(m) \in Plans(m) /\ Eligible(m) \subseteq DOMAIN m
  BY PlanIsSound, PlanTypes DEF Sound
<1>1. ASSUME NEW w \in I, NEW r \in Stage, NEW a \in FasterCandidates(m, w, r)
      PROVE  Give(w, a, r) \in I
  <2>1. w \in Plans(m) /\ a \in Eligible(m) /\ a \in DOMAIN m /\ r \notin w[a]
    BY DEF FasterCandidates, Candidates, Eligible
  <2>2. PICK e \in Eligible(m) : r \in w[e] /\ Speed[a] > Speed[e]
    BY DEF FasterCandidates
  <2>3. Slower(a, r)
    <3>1. CASE r \in FillThin(m)[e]
      BY <1>0, <2>1, <2>2, <3>1
    <3>2. CASE r \notin FillThin(m)[e]
      <4>1. PICK b \in Eligible(m) : r \in FillThin(m)[b] /\ Speed[b] < Speed[e]
        BY <2>2, <3>2
      <4> QED
        BY <1>0, <2>1, <2>2, <4>1
    <3> QED
      BY <3>1, <3>2
  <2>4. /\ Give(w, a, r) \in Plans(m)
        /\ Give(w, a, r)[a] = w[a] \cup {r}
        /\ \A d \in DOMAIN m \ {a} : Give(w, a, r)[d] = w[d]
    BY <2>1, GiveEffect
  <2> HIDE DEF Slower
  <2>5. \A d \in Eligible(m) : \A s \in Give(w, a, r)[d] \ FillThin(m)[d] : Slower(d, s)
    BY <1>0, <2>3, <2>4
  <2> QED
    BY <2>4, <2>5
<1>2. I \subseteq Plans(m) /\ FillThin(m) \in I
  BY <1>0
<1>3. WantedStages(m) \in I
  <2> HIDE DEF I
  <2>1. AddKeeps(m, I)
    BY <1>1 DEF AddKeeps
  <2> QED
    BY <1>2, <2>1, AddEnds
<1> QED
  BY <1>3

\* Coverage gives no stage more copies than its replicas, and each copy added after
\* that is faster than one the stage had by then (_add_faster_copies asks for a slower
\* holder, which may be one it added: but that one was faster than another).
THEOREM SurplusIsFasterHolds == MCSpec => []SurplusIsFaster
<1>1. MembersType => SurplusIsFaster
  <2> SUFFICES ASSUME IsView(members) PROVE SurplusIsFaster
    BY MembersAreAView
  <2> QED
    BY CoverageStopsAtReplicas, AddedIsFaster DEF SurplusIsFaster, Wanted
<1> QED
  BY <1>1, MembersTyped, PTL

\* Once every device has done what the plan asked of it, the plan asks the same
\* again: what it wanted is what they hold now, and both loops stop at once.
THEOREM PlanSettlesHolds == MCSpec => []PlanSettles
<1>1. MembersType => PlanSettles
  <2> SUFFICES ASSUME MembersType PROVE WantedStages(Followed) = Wanted
    BY DEF PlanSettles
  <2> DEFINE F == Followed
             W == Wanted
  <2>1. IsView(members) /\ DOMAIN members = Present
    BY MembersAreAView DEF MembersType
  <2>2. /\ W \in Plans(members) /\ DOMAIN W = Present
        /\ ThinStages(members, W) = {}
        /\ UseSpareCapacity => GainStages(members, W) = {}
        /\ \A d \in Present : d \in Eligible(members) => HeldIn(members[d]) \subseteq W[d]
        /\ \A d \in Present : d \notin Eligible(members) => W[d] = {}
        /\ \A d \in Present : W[d] \subseteq Stage
    BY <2>1, PlanIsSound DEF Sound, Plans, Wanted
  <2>3. /\ F = [d \in Present |-> F[d]]
        /\ \A d \in Present :
             /\ F[d] \in HostRow /\ F[d].state = members[d].state
             /\ \A s \in Stage :
                  F[d].hosting[s] = IF s \in W[d] THEN "ready" ELSE members[d].hosting[s]
    BY DEF Followed, MembersType, HostRow, StageStatus
  <2> HIDE DEF F, W
  <2>4. IsView(F) /\ DOMAIN F = Present
    BY <2>1, <2>3 DEF IsView
  <2>5. Eligible(F) = Eligible(members) /\ Eligible(F) \subseteq Present
    BY <2>1, <2>3, <2>4 DEF Eligible
  <2>6. Kept(F) = W
    <3>1. \A d \in Present : d \in Eligible(members) => HeldIn(F[d]) = W[d]
      BY <2>2, <2>3 DEF HeldIn
    <3>2. Kept(F) = [d \in Present |-> IF d \in Eligible(members) THEN W[d] ELSE {}]
      BY <2>4, <2>5, <3>1 DEF Kept
    <3>3. W = [d \in Present |-> W[d]]
      BY <2>1, <2>2 DEF Plans
    <3> QED
      BY <2>2, <3>2, <3>3
  <2>7. \A s \in Stage : Candidates(F, W, s) = Candidates(members, W, s)
    BY <2>3, <2>5 DEF Candidates, FailedHere
  <2>8. ThinStages(F, W) = {}
    BY <2>2, <2>7 DEF ThinStages
  <2>9. UseSpareCapacity => GainStages(F, W) = {}
    BY <2>2, <2>5, <2>7 DEF GainStages, FasterCandidates
  <2>10. W \in Plans(F)
    BY <2>1, <2>2, <2>4 DEF Plans
  <2>11. FillThin(F) = W
    BY <2>4, <2>6, <2>8, <2>10, FillLoop, PlanIsOfTheLoops
  <2>12. UseSpareCapacity => AddOf(F)[W] = W
    BY <2>4, <2>9, <2>10, AddLoop
  <2> QED
    BY <2>11, <2>12, PlanIsOfTheLoops DEF F, W
<1> QED
  BY <1>1, MembersTyped, PTL

-----------------------------------------------------------------------------
(* What is covered, when one device runs ahead of the others. *)

\* Giving makes no device a candidate that was none.
LEMMA CandidatesShrink ==
  ASSUME NEW m, IsView(m), NEW w \in Plans(m), NEW s \in Stage,
         NEW d \in Candidates(m, w, s), NEW t \in Stage
  PROVE  Candidates(m, Give(w, d, s), t) \subseteq Candidates(m, w, t)
<1> DEFINE g == Give(w, d, s)
<1>1. d \in DOMAIN m /\ s \notin w[d]
  BY DEF Candidates, Eligible
<1>2. /\ Free(g, d) = Free(w, d) - 1
      /\ \A e \in DOMAIN m \ {d} : Free(g, e) = Free(w, e)
      /\ \A e \in DOMAIN m : w[e] \subseteq g[e]
  BY <1>1, GiveEffect
<1>3. \A e \in DOMAIN m : Free(w, e) \in Int
  BY PlanTypes
<1> HIDE DEF g
<1>4. Candidates(m, g, t) \subseteq Candidates(m, w, t)
  BY <1>2, <1>3 DEF Candidates, Eligible
<1> QED
  BY <1>4 DEF g

\* Spare capacity lights no stage that was dark: only a holder can be too slow.
LEMMA SpareCoversNothing ==
  ASSUME NEW m, IsView(m)
  PROVE  Lit(WantedStages(m)) = Lit(FillThin(m))
<1> DEFINE I == {w \in Plans(m) : Lit(w) = Lit(FillThin(m))}
<1>1. ASSUME NEW w \in I, NEW s \in Stage, NEW d \in FasterCandidates(m, w, s)
      PROVE  Give(w, d, s) \in I
  <2>1. d \in Candidates(m, w, s) /\ d \in DOMAIN m /\ s \notin w[d]
    BY CandidatesPart DEF Candidates, Eligible
  <2>2. DOMAIN w = DOMAIN m
    BY PlanTypes
  <2>3. s \in Lit(w)
    BY <2>2 DEF FasterCandidates, Eligible, Lit
  <2>4. Give(w, d, s) \in Plans(m) /\ Lit(Give(w, d, s)) = Lit(w) \cup {s}
    BY <2>1, GiveEffect
  <2> QED
    BY <2>3, <2>4
<1>2. FillThin(m) \in I
  BY PlanIsSound DEF Sound
<1>3. I \subseteq Plans(m)
  OBVIOUS
<1>4. WantedStages(m) \in I
  <2> HIDE DEF I
  <2>1. AddKeeps(m, I)
    BY <1>1 DEF AddKeeps
  <2> QED
    BY <1>2, <1>3, <2>1, AddEnds
<1> QED
  BY <1>4

\* Nothing that has been given is taken away.
LEMMA PlanGrows ==
  ASSUME NEW m, IsView(m)
  PROVE  /\ \A w \in Plans(m) : \A d \in DOMAIN m : w[d] \subseteq FillOf(m)[w][d]
         /\ \A d \in DOMAIN m : FillThin(m)[d] \subseteq WantedStages(m)[d]
<1> DEFINE Above(v) == {w \in Plans(m) : \A d \in DOMAIN m : v[d] \subseteq w[d]}
<1>1. ASSUME NEW v \in Plans(m), NEW w \in Above(v), NEW s \in Stage,
             NEW d \in Candidates(m, w, s)
      PROVE  Give(w, d, s) \in Above(v)
  <2>1. d \in DOMAIN m /\ s \notin w[d] /\ w \in Plans(m)
    BY DEF Candidates, Eligible
  <2>2. /\ Give(w, d, s) \in Plans(m) /\ Give(w, d, s)[d] = w[d] \cup {s}
        /\ \A e \in DOMAIN m \ {d} : Give(w, d, s)[e] = w[e]
    BY <2>1, GiveEffect
  <2> QED
    BY <2>2
<1>2. \A v \in Plans(m) : Above(v) \subseteq Plans(m) /\ v \in Above(v)
  OBVIOUS
<1>3. ASSUME NEW v \in Plans(m) PROVE FillKeeps(m, Above(v)) /\ AddKeeps(m, Above(v))
  <2> HIDE DEF Above
  <2> QED
    BY <1>1, CandidatesPart DEF FillKeeps, AddKeeps, ThinStages
<1>4. ASSUME NEW v \in Plans(m) PROVE FillOf(m)[v] \in Above(v)
  <2> HIDE DEF Above
  <2> QED
    BY <1>2, <1>3, FillEnds
<1>5. FillThin(m) \in Plans(m)
  BY PlanIsSound DEF Sound
<1>6. WantedStages(m) \in Above(FillThin(m))
  <2> HIDE DEF Above
  <2> QED
    BY <1>2, <1>3, <1>5, AddEnds
<1> QED
  BY <1>4, <1>6

\* When nobody can take a dark stage, the dark stages stay dark.
LEMMA DarkStaysDark ==
  ASSUME NEW m, IsView(m), NEW v \in Plans(m),
         \A s \in Stage \ Lit(v) : Candidates(m, v, s) = {}
  PROVE  Lit(FillOf(m)[v]) = Lit(v)
<1> DEFINE I == {w \in Plans(m) :
                   /\ Lit(w) = Lit(v)
                   /\ \A s \in Stage \ Lit(v) : Candidates(m, w, s) = {}}
<1>1. ASSUME NEW w \in I, NEW s \in Stage, NEW d \in Candidates(m, w, s)
      PROVE  Give(w, d, s) \in I
  <2>1. d \in DOMAIN m /\ s \notin w[d] /\ s \in Lit(v) /\ w \in Plans(m)
    BY DEF Candidates, Eligible
  <2>2. Give(w, d, s) \in Plans(m) /\ Lit(Give(w, d, s)) = Lit(w) \cup {s}
    BY <2>1, GiveEffect
  <2>3. \A t \in Stage : Candidates(m, Give(w, d, s), t) \subseteq Candidates(m, w, t)
    BY <2>1, CandidatesShrink
  <2> QED
    BY <2>1, <2>2, <2>3
<1>2. I \subseteq Plans(m) /\ v \in I
  OBVIOUS
<1>3. FillOf(m)[v] \in I
  <2> HIDE DEF I
  <2>1. FillKeeps(m, I)
    BY <1>1 DEF FillKeeps, ThinStages
  <2> QED
    BY <1>2, <2>1, FillEnds
<1> QED
  BY <1>3

\* While somebody can take one, the lowest of those is what is given next.
LEMMA DarkTurn ==
  ASSUME NEW m, IsView(m), NEW w \in Plans(m),
         \E s \in Stage \ Lit(w) : Candidates(m, w, s) # {}
  PROVE  \E s \in Stage \ Lit(w) : \E d \in Candidates(m, w, s) :
           /\ FillOf(m)[w] = FillOf(m)[Give(w, d, s)]
           /\ \A e \in Candidates(m, w, s) \ {d} : SortsBefore(w, d, e)
           /\ \A t \in Stage \ Lit(w) : Candidates(m, w, t) # {} => s <= t
<1>1. \A t \in Stage : Copies(w, t) = 0 <=> t \notin Lit(w)
  BY PlanTypes
<1>2. \A s \in Stage \ Lit(w) : Candidates(m, w, s) # {} => s \in ThinStages(m, w)
  BY <1>1, PlacementAssumption DEF ThinStages
<1>3. ThinStages(m, w) # {}
  BY <1>2
<1>4. PICK s \in ThinStages(m, w) : \E d \in Candidates(m, w, s) :
        /\ FillNext(m, w) = Give(w, d, s)
        /\ \A e \in Candidates(m, w, s) \ {d} : SortsBefore(w, d, e)
        /\ \A t \in ThinStages(m, w) \ {s} :
             \/ Copies(w, s) < Copies(w, t)
             \/ Copies(w, s) = Copies(w, t) /\ s < t
  BY <1>3, FillTurn
<1>5. s \in Stage /\ Copies(w, s) \in Nat
  BY PlanTypes DEF ThinStages
<1>6. s \notin Lit(w)
  <2>1. PICK x \in Stage \ Lit(w) : x \in ThinStages(m, w)
    BY <1>2
  <2>2. x = s \/ Copies(w, s) <= 0
    BY <1>4, <1>5, <1>1, <2>1
  <2> QED
    BY <1>5, <1>1, <2>1, <2>2
<1>7. \A t \in Stage \ Lit(w) : Candidates(m, w, t) # {} => s <= t
  BY <1>2, <1>4, <1>5, <1>1, <1>6, StageFinite
<1>8. FillOf(m)[w] = FillOf(m)[FillNext(m, w)]
  BY <1>3, FillLoop
<1> QED
  BY <1>4, <1>5, <1>6, <1>7, <1>8

\* n is m after a has done what the plan of m asked of it.
RunsAhead(m, n, a) ==
  /\ DOMAIN n = DOMAIN m
  /\ a \in Eligible(m)
  /\ n[a].state = m[a].state
  /\ n[a].hosting = [s \in Stage |-> IF s \in WantedStages(m)[a] THEN "ready" ELSE m[a].hosting[s]]
  /\ \A e \in DOMAIN m \ {a} : n[e] = m[e]

LEMMA RunsAheadKeeps ==
  ASSUME NEW m, IsView(m), NEW n, IsView(n), NEW a, RunsAhead(m, n, a)
  PROVE  /\ Eligible(n) = Eligible(m) /\ a \in DOMAIN m /\ a \in Eligible(m)
         /\ Plans(n) = Plans(m) /\ \A w : Left(n, w) = Left(m, w)
         /\ \A e \in DOMAIN m \ {a} : Kept(n)[e] = Kept(m)[e]
         /\ Kept(n)[a] = WantedStages(m)[a]
         /\ Kept(m)[a] \subseteq WantedStages(m)[a]
         /\ \A s \in Stage : \A e \in Eligible(m) :
              e # a \/ s \notin WantedStages(m)[a] => (FailedHere(n[e], s) <=> FailedHere(m[e], s))
<1> DEFINE W == WantedStages(m)
<1>1. a \in DOMAIN m /\ HeldIn(m[a]) \subseteq W[a] /\ W[a] \subseteq Stage
  BY PlanIsSound DEF RunsAhead, Eligible, Sound, Plans
<1> HIDE DEF W
<1>2. n[a].hosting = [s \in Stage |-> IF s \in W[a] THEN "ready" ELSE m[a].hosting[s]]
  BY DEF RunsAhead, W
<1>3. Eligible(n) = Eligible(m) /\ a \in Eligible(m)
  BY DEF RunsAhead, Eligible
<1>4. Plans(n) = Plans(m) /\ \A w : Left(n, w) = Left(m, w)
  BY DEF RunsAhead, Plans, Left
<1>5. HeldIn(n[a]) = W[a] /\ \A e \in DOMAIN m \ {a} : n[e] = m[e]
  BY <1>1, <1>2 DEF HeldIn, RunsAhead
<1>6. \A e \in DOMAIN m \ {a} : Kept(n)[e] = Kept(m)[e]
  BY <1>3, <1>5 DEF Kept, RunsAhead
<1>7. Kept(n)[a] = W[a] /\ Kept(m)[a] \subseteq W[a]
  BY <1>1, <1>3, <1>5 DEF Kept, RunsAhead
<1>8. ASSUME NEW s \in Stage, NEW e \in Eligible(m), e # a \/ s \notin W[a]
      PROVE  FailedHere(n[e], s) <=> FailedHere(m[e], s)
  BY <1>2, <1>5, <1>8 DEF FailedHere, Eligible
<1> QED
  BY <1>1, <1>3, <1>4, <1>6, <1>7, <1>8 DEF W

\* The two fillings, side by side: one begins with what is held in m, the other with
\* what is held in n. In the second a holds all that the plan of m gives it, every
\* other device has at least as much room as in the first, and no stage is dark that
\* is covered in the first.
Beside(m, n, a, u, w) ==
  /\ u \in Plans(m) /\ FillOf(m)[u] = FillThin(m)
  /\ w \in Plans(m) /\ FillOf(n)[w] = FillThin(n)
  /\ w[a] = WantedStages(m)[a]
  /\ \A e \in DOMAIN m \ {a} : Free(u, e) <= Free(w, e)
  /\ Lit(u) \subseteq Lit(w)

\* As long as the first can still light a stage, one of the two moves, or both.
LEMMA BesideTurn ==
  ASSUME NEW m, IsView(m), NEW n, IsView(n), NEW a, RunsAhead(m, n, a),
         NEW u, NEW w, Beside(m, n, a, u, w),
         \E s \in Stage \ Lit(u) : Candidates(m, u, s) # {}
  PROVE  \E u2, w2 : /\ Beside(m, n, a, u2, w2)
                     /\ Left(m, u2) + Left(m, w2) < Left(m, u) + Left(m, w)
<1> DEFINE W == WantedStages(m)
<1>1. /\ u \in Plans(m) /\ w \in Plans(m) /\ w \in Plans(n)
      /\ FillOf(m)[u] = FillThin(m) /\ FillOf(n)[w] = FillThin(n)
      /\ w[a] = W[a] /\ Lit(u) \subseteq Lit(w)
      /\ \A e \in DOMAIN m \ {a} : Free(u, e) <= Free(w, e)
      /\ a \in DOMAIN m /\ a \in Eligible(m) /\ Eligible(n) = Eligible(m)
      /\ Eligible(m) \subseteq DOMAIN m /\ DOMAIN w = DOMAIN m /\ DOMAIN u = DOMAIN m
  BY RunsAheadKeeps, PlanTypes DEF Beside
<1>2. \A s \in Stage : \A e \in Eligible(m) :
        e # a \/ s \notin W[a] => (FailedHere(n[e], s) <=> FailedHere(m[e], s))
  BY RunsAheadKeeps
<1>3. \A v \in Plans(m) : v \in Plans(m) /\ FillOf(m)[v] = FillThin(m) => v[a] \subseteq W[a]
  BY <1>1, PlanGrows
<1>4. u[a] \subseteq w[a] /\ Free(w, a) <= Free(u, a)
  <2>1. u[a] \subseteq w[a]
    BY <1>1, <1>3
  <2>2. IsFiniteSet(w[a]) /\ Cardinality(w[a]) \in Nat /\ Cardinality(u[a]) \in Nat
    BY <1>1, PlanTypes
  <2>3. Cardinality(u[a]) <= Cardinality(w[a])
    BY <2>1, <2>2, FS_Subset
  <2>4. Slots[a] \in Nat
    BY <1>1, PlacementAssumption DEF IsView
  <2> QED
    BY <2>1, <2>2, <2>3, <2>4 DEF Free
<1>5. /\ Left(m, u) \in Nat /\ Left(m, w) \in Nat
      /\ \A e \in DOMAIN m : Free(u, e) \in Int /\ Free(w, e) \in Int /\ Speed[e] \in Nat /\ e \in Nat
  BY <1>1, GiveLeavesLess, PlanTypes
<1> HIDE DEF W
<1>6. PICK t \in Stage \ Lit(u) : \E p \in Candidates(m, u, t) :
        /\ FillOf(m)[u] = FillOf(m)[Give(u, p, t)]
        /\ \A e \in Candidates(m, u, t) \ {p} : SortsBefore(u, p, e)
        /\ \A s \in Stage \ Lit(u) : Candidates(m, u, s) # {} => t <= s
  BY <1>1, DarkTurn
<1>7. PICK p \in Candidates(m, u, t) :
        /\ FillOf(m)[u] = FillOf(m)[Give(u, p, t)]
        /\ \A e \in Candidates(m, u, t) \ {p} : SortsBefore(u, p, e)
        /\ \A s \in Stage \ Lit(u) : Candidates(m, u, s) # {} => t <= s
  BY <1>6
<1> DEFINE u2 == Give(u, p, t)
<1>8. /\ p \in Eligible(m) /\ p \in DOMAIN m /\ t \notin u[p]
      /\ Free(u, p) > 0 /\ ~FailedHere(m[p], t)
  BY <1>1 DEF Candidates
<1>9. /\ u2 \in Plans(m) /\ FillOf(m)[u2] = FillThin(m)
      /\ Left(m, u2) \in Nat /\ Left(m, u2) < Left(m, u)
      /\ u2[p] = u[p] \cup {t}
      /\ Lit(u2) = Lit(u) \cup {t}
      /\ Free(u2, p) = Free(u, p) - 1
      /\ \A e \in DOMAIN m \ {p} : Free(u2, e) = Free(u, e)
  BY <1>1, <1>7, <1>8, GiveEffect, GiveLeavesLess
<1> HIDE DEF u2
<1>10. CASE t \in Lit(w)
  <2>1. Beside(m, n, a, u2, w)
    BY <1>1, <1>5, <1>9, <1>10 DEF Beside, W
  <2> QED
    BY <1>5, <1>9, <2>1
<1>11. CASE t \notin Lit(w)
  <2>1. t \notin W[a] /\ p # a
    BY <1>1, <1>3, <1>9, <1>11 DEF Lit
  <2>2. p \in Candidates(n, w, t)
    BY <1>1, <1>2, <1>5, <1>8, <1>11, <2>1 DEF Candidates, Lit
  <2>3. PICK x \in Stage \ Lit(w) : \E q \in Candidates(n, w, x) :
          /\ FillOf(n)[w] = FillOf(n)[Give(w, q, x)]
          /\ \A e \in Candidates(n, w, x) \ {q} : SortsBefore(w, q, e)
          /\ \A s \in Stage \ Lit(w) : Candidates(n, w, s) # {} => x <= s
    BY <1>1, <1>11, <2>2, DarkTurn
  <2>4. PICK q \in Candidates(n, w, x) :
          /\ FillOf(n)[w] = FillOf(n)[Give(w, q, x)]
          /\ \A e \in Candidates(n, w, x) \ {q} : SortsBefore(w, q, e)
          /\ \A s \in Stage \ Lit(w) : Candidates(n, w, s) # {} => x <= s
    BY <2>3
  <2> DEFINE w2 == Give(w, q, x)
  <2>5. /\ q \in Eligible(m) /\ q \in DOMAIN m /\ x \notin w[q]
        /\ Free(w, q) > 0 /\ ~FailedHere(n[q], x)
    BY <1>1 DEF Candidates
  <2>6. /\ w2 \in Plans(m) /\ FillOf(n)[w2] = FillThin(n)
        /\ Left(m, w2) \in Nat /\ Left(m, w2) < Left(m, w)
        /\ w2[q] = w[q] \cup {x}
        /\ \A e \in DOMAIN m \ {q} : w2[e] = w[e]
        /\ Lit(w2) = Lit(w) \cup {x}
        /\ Free(w2, q) = Free(w, q) - 1
        /\ \A e \in DOMAIN m \ {q} : Free(w2, e) = Free(w, e)
    BY <1>1, <2>4, <2>5, GiveEffect, GiveLeavesLess
  <2> HIDE DEF w2
  <2>7. x \notin W[a] /\ x \notin Lit(u) /\ x \notin u[q] /\ ~FailedHere(m[q], x)
    BY <1>1, <1>2, <2>3, <2>5 DEF Lit
  <2>8. Free(u, q) > 0 => q \in Candidates(m, u, x)
    BY <2>5, <2>7 DEF Candidates
  <2>9. CASE x = t
    <3>1. ASSUME q # p PROVE q # a /\ Free(u, q) < Free(w, q)
      <4>1. SortsBefore(w, q, p)
        BY <2>2, <2>4, <2>9, <3>1
      <4>2. Free(u, q) > 0 => SortsBefore(u, p, q)
        BY <1>7, <2>8, <2>9, <3>1
      <4>3. Free(u, p) <= Free(w, p)
        BY <1>1, <1>8, <2>1
      <4> QED
        BY <1>1, <1>4, <1>5, <1>8, <2>5, <3>1, <4>1, <4>2, <4>3 DEF SortsBefore
    <3>2. q # a
      BY <2>1, <3>1
    <3>3. w2[a] = W[a]
      BY <1>1, <2>6, <3>2
    <3>4. ASSUME NEW e \in DOMAIN m \ {a} PROVE Free(u2, e) <= Free(w2, e)
      BY <1>1, <1>5, <1>8, <1>9, <2>5, <2>6, <3>1
    <3>5. Beside(m, n, a, u2, w2)
      BY <1>1, <1>9, <2>6, <2>9, <3>3, <3>4 DEF Beside, W
    <3> QED
      BY <1>5, <1>9, <2>6, <3>5
  <2>10. CASE x # t
    <3>1. x <= t
      BY <1>11, <2>2, <2>4
    <3>2. Candidates(m, u, x) = {}
      <4>1. x \in Nat /\ t \in Nat /\ x \in Stage \ Lit(u)
        BY <2>7, StageFinite
      <4>2. Candidates(m, u, x) # {} => t <= x
        BY <1>7, <4>1
      <4> QED
        BY <2>10, <3>1, <4>1, <4>2
    <3>3. Free(u, q) <= 0
      BY <1>5, <2>5, <2>8, <3>2
    <3>4. q # a
      BY <1>4, <1>5, <2>5, <3>3
    <3>5. \A e \in DOMAIN m \ {a} : Free(u, e) <= Free(w2, e)
      BY <1>1, <1>5, <2>5, <2>6, <3>3
    <3>6. Beside(m, n, a, u, w2)
      BY <1>1, <2>6, <3>4, <3>5 DEF Beside, W
    <3> QED
      BY <1>5, <2>6, <3>6
  <2> QED
    BY <2>9, <2>10
<1> QED
  BY <1>10, <1>11

LEMMA CoverageRunsAhead ==
  ASSUME NEW m, IsView(m), NEW n, IsView(n), NEW a, RunsAhead(m, n, a)
  PROVE  Lit(WantedStages(m)) \subseteq Lit(WantedStages(n))
<1> DEFINE Sum(u, w) == Left(m, u) + Left(m, w)
           N == {k \in Nat : \E u, w : Beside(m, n, a, u, w) /\ k = Sum(u, w)}
<1>1. \A u, w : Beside(m, n, a, u, w) => Sum(u, w) \in Nat
  BY GiveLeavesLess DEF Beside
<1>2. N # {}
  <2> DEFINE u == Kept(m)
             w == Kept(n)
  <2>1. u \in Plans(m) /\ w \in Plans(n)
    BY KeptIsSound
  <2>2. /\ w \in Plans(m) /\ DOMAIN u = DOMAIN m /\ DOMAIN w = DOMAIN m
        /\ w[a] = WantedStages(m)[a] /\ u[a] \subseteq w[a] /\ a \in DOMAIN m
        /\ \A e \in DOMAIN m \ {a} : w[e] = u[e]
    BY <2>1, PlanTypes, RunsAheadKeeps
  <2>3. FillOf(m)[u] = FillThin(m) /\ FillOf(n)[w] = FillThin(n)
    BY PlanIsOfTheLoops
  <2> HIDE DEF u, w
  <2>4. Lit(u) \subseteq Lit(w)
    BY <2>2 DEF Lit
  <2>5. ASSUME NEW e \in DOMAIN m \ {a} PROVE Free(u, e) <= Free(w, e)
    <3>1. Free(u, e) \in Int /\ Free(u, e) = Free(w, e)
      BY <2>1, <2>2, PlanTypes DEF Free
    <3> QED
      BY <3>1
  <2>6. Beside(m, n, a, u, w)
    BY <2>1, <2>2, <2>3, <2>4, <2>5 DEF Beside
  <2>7. Sum(u, w) \in N
    BY <1>1, <2>6
  <2> QED
    BY <2>7
<1>3. PICK k \in N : \A j \in N : k <= j
  <2>1. N \in SUBSET Nat
    OBVIOUS
  <2> HIDE DEF N
  <2> QED
    BY <1>2, <2>1, Least
<1>4. PICK u, w : Beside(m, n, a, u, w) /\ k = Sum(u, w)
  BY <1>3
<1>5. \A s \in Stage \ Lit(u) : Candidates(m, u, s) = {}
  <2> SUFFICES ASSUME \E s \in Stage \ Lit(u) : Candidates(m, u, s) # {} PROVE FALSE
    OBVIOUS
  <2>1. PICK u2, w2 : Beside(m, n, a, u2, w2) /\ Sum(u2, w2) < Sum(u, w)
    BY <1>4, BesideTurn
  <2>2. Sum(u2, w2) \in N /\ Sum(u2, w2) \in Nat /\ Sum(u, w) \in Nat
    BY <1>1, <1>4, <2>1
  <2> HIDE DEF N, Sum
  <2> QED
    BY <1>3, <1>4, <2>1, <2>2
<1>6. Lit(FillThin(m)) = Lit(u) /\ Lit(u) \subseteq Lit(w)
  BY <1>4, <1>5, DarkStaysDark DEF Beside
<1>7. Lit(w) \subseteq Lit(FillThin(n))
  <2>1. w \in Plans(n) /\ FillOf(n)[w] = FillThin(n) /\ FillThin(n) \in Plans(n)
    BY <1>4, RunsAheadKeeps, PlanIsSound DEF Beside, Sound
  <2>2. \A d \in DOMAIN n : w[d] \subseteq FillThin(n)[d]
    BY <2>1, PlanGrows
  <2>3. DOMAIN w = DOMAIN n /\ DOMAIN FillThin(n) = DOMAIN n
    BY <2>1, PlanTypes
  <2> QED
    BY <2>2, <2>3 DEF Lit
<1> QED
  BY <1>6, <1>7, SpareCoversNothing

\* A device that does its part before the others have done theirs may change what
\* the plan asks of those, but leaves no stage dark that was going to be covered.
THEOREM CoverageKeepsUpHolds == MCSpec => CoverageKeepsUp
<1>1. MembersType /\ MembersType' /\ [MCNext]_members =>
        [\A s \in Stage : Copies(Wanted, s) > 0 => Copies(Wanted', s) > 0]_members
  <2> SUFFICES ASSUME MembersType, MembersType', NEW a \in Present, FollowPlan(a),
                      NEW s \in Stage, Copies(Wanted, s) > 0
               PROVE  Copies(Wanted', s) > 0
    BY DEF MCNext
  <2> DEFINE m == members
             n == members'
  <2>1. IsView(m) /\ IsView(n)
    BY PresentAssumption DEF IsView, MembersType
  <2>2. RunsAhead(m, n, a)
    BY DEF RunsAhead, FollowPlan, MembersType, Wanted, Eligible, HostRow
  <2>3. WantedStages(m) \in Plans(m) /\ WantedStages(n) \in Plans(n)
    BY <2>1, PlanIsSound DEF Sound
  <2>4. Wanted = WantedStages(m) /\ Wanted' = WantedStages(n)
    BY DEF Wanted
  <2> HIDE DEF m, n
  <2>5. Lit(WantedStages(m)) \subseteq Lit(WantedStages(n))
    BY <2>1, <2>2, CoverageRunsAhead
  <2>6. s \in Lit(WantedStages(m))
    <3>1. Copies(WantedStages(m), s) # 0
      BY <2>4
    <3>2. Copies(WantedStages(m), s) = 0 <=> s \notin Lit(WantedStages(m))
      BY <2>1, <2>3, PlanTypes
    <3> QED
      BY <3>1, <3>2
  <2>7. Copies(WantedStages(n), s) \in Nat /\ Copies(WantedStages(n), s) # 0
    BY <2>1, <2>3, <2>5, <2>6, PlanTypes
  <2> QED
    BY <2>4, <2>7
<1> QED
  BY <1>1, MembersTyped, PTL DEF MCSpec, CoverageKeepsUp
=============================================================================
