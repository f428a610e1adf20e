---------------------------- MODULE PlanDagProofs ----------------------------
(***************************************************************************)
(* Facts about plans and their levels, for plans of any length: a plan has *)
(* at most one assignment of levels, no level of it is empty, and it is    *)
(* the only schedule of the plan.                                          *)
(***************************************************************************)
EXTENDS PlanDag, FiniteSetTheorems, TLAPS

(* A set of naturals that is not empty has a least element.                *)
LEMMA LeastElement ==
  ASSUME NEW S \in SUBSET Nat, S # {}
  PROVE  \E m \in S : \A k \in S : m <= k
<1>. DEFINE Upto(m) == {k \in S : k <= m}
            R == StrictSubsetOrdering(S)
            T == {Upto(m) : m \in S}
<1>1. IsWellFoundedOn(R, FiniteSubsetsOf(S))
  BY FS_StrictSubsetOrderingWellFounded
<1>2. T \subseteq FiniteSubsetsOf(S)
  <2>. SUFFICES ASSUME NEW m \in S PROVE Upto(m) \in FiniteSubsetsOf(S)
    OBVIOUS
  <2>1. IsFiniteSet(Upto(m))
    BY FS_BoundedSetOfNaturals
  <2>. QED
    BY <2>1 DEF FiniteSubsetsOf
<1>3. T # {}
  OBVIOUS
<1>4. ASSUME NEW k \in S, NEW m \in S, k < m
      PROVE  <<Upto(k), Upto(m)>> \in R
  <2>0. k \in Nat /\ m \in Nat /\ \A x \in S : x \in Nat
    OBVIOUS
  <2>1. m \in Upto(m) /\ m \notin Upto(k)
    BY <1>4, <2>0
  <2>3. \A x \in S : x <= k => x <= m
    BY <1>4, <2>0
  <2>4. Upto(k) \subseteq Upto(m)
    BY <2>3
  <2>2. Upto(k) \subseteq S /\ Upto(m) \subseteq S
    OBVIOUS
  <2>. HIDE DEF Upto
  <2>. QED
    BY <2>1, <2>2, <2>4 DEF StrictSubsetOrdering
<1>. HIDE DEF R, T
<1>5. PICK A \in T : \A B \in T : ~ (<<B, A>> \in R)
  BY <1>1, <1>2, <1>3, WFMin
<1>6. PICK m \in S : A = Upto(m)
  BY DEF T
<1>7. \A k \in S : Upto(k) \in T
  BY DEF T
<1>. HIDE DEF Upto
<1>8. \A k \in S : ~ (k < m)
  BY <1>4, <1>5, <1>6, <1>7
<1>. QED
  BY <1>8

(* The first n naturals from 1.                                            *)
LEMMA UptoN ==
  ASSUME NEW n \in Nat
  PROVE  IsFiniteSet(1 .. n) /\ Cardinality(1 .. n) = n
BY FS_Interval

(* A plan has finitely many ids.                                           *)
LEMMA IdsFinite ==
  ASSUME NEW S, NEW p \in Seq(S)
  PROVE  IsFiniteSet(Ids(p))
<1>. DEFINE T == 1 .. Len(p)
            g == [x \in T |-> p[x].id]
<1>1. IsFiniteSet(T)
  BY FS_Interval
<1>2. Ids(p) = {p[x].id : x \in T}
  BY DEF Ids, Range
<1>3. g \in Surjection(T, Ids(p))
  BY <1>2 DEF Surjection
<1>. QED
  BY <1>1, <1>3, FS_Surjection
-----------------------------------------------------------------------------
(* The depths of a graph with finitely many tasks are naturals from 1.     *)
LEMMA DepthsType ==
  ASSUME NEW G, IsFiniteSet(DOMAIN G), NEW d \in Depths(G)
  PROVE  /\ d \in [DOMAIN G -> Nat \ {0}]
         /\ IsDepth(G, d)
         /\ Range(d) \subseteq 1 .. Cardinality(DOMAIN G)
         /\ IsFiniteSet(Range(d))
<1>1. Cardinality(DOMAIN G) \in Nat
  BY FS_CardinalityType
<1>2. d \in [DOMAIN G -> 1 .. Cardinality(DOMAIN G)] /\ IsDepth(G, d)
  BY DEF Depths
<1>3. Range(d) \subseteq 1 .. Cardinality(DOMAIN G)
  BY <1>2 DEF Range
<1>4. IsFiniteSet(1 .. Cardinality(DOMAIN G))
  BY <1>1, FS_Interval
<1>. QED
  BY <1>1, <1>2, <1>3, <1>4, FS_Subset

(* There is at most one way to assign depths.                              *)
LEMMA DepthUnique ==
  ASSUME NEW G, IsFiniteSet(DOMAIN G), NEW d \in Depths(G), NEW e \in Depths(G)
  PROVE  d = e
<1>1. /\ d \in [DOMAIN G -> Nat \ {0}] /\ IsDepth(G, d)
      /\ e \in [DOMAIN G -> Nat \ {0}] /\ IsDepth(G, e)
  BY DepthsType
<1>. SUFFICES ASSUME NEW x \in DOMAIN G, d[x] # e[x] PROVE FALSE
  BY <1>1
<1>. DEFINE B == {v \in Nat : \E i \in DOMAIN G : d[i] = v /\ d[i] # e[i]}
<1>2. PICK i \in DOMAIN G : d[i] # e[i] /\ \A j \in DOMAIN G : d[j] < d[i] => d[j] = e[j]
  <2>1. B \in SUBSET Nat /\ B # {}
    BY <1>1
  <2>2. PICK m \in B : \A k \in B : m <= k
    BY <2>1, LeastElement
  <2>. QED
    BY <1>1, <2>1, <2>2
<1>3. \A j \in G[i] : j \in DOMAIN G /\ d[j] < d[i] /\ e[j] < e[i] /\ d[j] = e[j]
  BY <1>1, <1>2 DEF IsDepth
<1>4. CASE d[i] = 1
  BY <1>1, <1>3, <1>4, <1>2 DEF IsDepth
<1>5. CASE e[i] = 1
  BY <1>1, <1>3, <1>5, <1>2 DEF IsDepth
<1>6. CASE d[i] # 1 /\ e[i] # 1
  <2>1. PICK j \in G[i] : d[j] + 1 = d[i]
    BY <1>1, <1>6 DEF IsDepth
  <2>2. PICK k \in G[i] : e[k] + 1 = e[i]
    BY <1>1, <1>6 DEF IsDepth
  <2>. QED
    BY <1>1, <1>2, <1>3, <2>1, <2>2
<1>. QED
  BY <1>4, <1>5, <1>6

(* No depth is left out up to the deepest: the levels are all there.       *)
LEMMA DepthsGapless ==
  ASSUME NEW G, IsFiniteSet(DOMAIN G), NEW d \in Depths(G)
  PROVE  Range(d) = 1 .. Cardinality(Range(d))
<1>1. /\ d \in [DOMAIN G -> Nat \ {0}] /\ IsDepth(G, d)
      /\ IsFiniteSet(Range(d))
  BY DepthsType
<1>2. Range(d) \subseteq Nat \ {0} /\ Cardinality(Range(d)) \in Nat
  BY <1>1, FS_CardinalityType DEF Range
<1>3. \A v \in Range(d) : v # 1 => v - 1 \in Range(d)
  <2>. SUFFICES ASSUME NEW i \in DOMAIN G, d[i] # 1 PROVE d[i] - 1 \in Range(d)
    BY <1>1 DEF Range
  <2>1. PICK j \in G[i] : j \in DOMAIN G /\ d[j] + 1 = d[i]
    BY <1>1 DEF IsDepth
  <2>. QED
    BY <1>1, <2>1 DEF Range
<1>4. \A v \in Range(d) : 1 .. v \subseteq Range(d)
  <2>. DEFINE B == {v \in Range(d) : ~ (1 .. v \subseteq Range(d))}
  <2>. SUFFICES ASSUME B # {} PROVE FALSE
    OBVIOUS
  <2>1. PICK v \in B : \A w \in B : v <= w
    BY <1>2, LeastElement
  <2>2. PICK u \in 1 .. v : u \notin Range(d)
    OBVIOUS
  <2>3. v # 1 /\ v - 1 \in Range(d) /\ u \in 1 .. v - 1
    BY <1>2, <1>3, <2>2
  <2>. QED
    BY <1>2, <2>1, <2>2, <2>3
<1>5. \A v \in Range(d) : v <= Cardinality(Range(d))
  <2>. SUFFICES ASSUME NEW v \in Range(d) PROVE v <= Cardinality(Range(d))
    OBVIOUS
  <2>1. Cardinality(1 .. v) = v
    BY <1>2, FS_Interval
  <2>. QED
    BY <1>1, <1>4, <2>1, FS_Subset
<1>. DEFINE n == Cardinality(Range(d))
<1>6. IsFiniteSet(1 .. n) /\ Cardinality(1 .. n) = n
  BY <1>2, FS_Interval
<1>7. Range(d) \subseteq 1 .. n
  BY <1>2, <1>5
<1>. QED
  BY <1>6, <1>7, FS_Subset
-----------------------------------------------------------------------------
(* The levels made of depths are a schedule.                               *)
LEMMA LevelsAreSchedule ==
  ASSUME NEW G, IsFiniteSet(DOMAIN G), NEW d \in Depths(G)
  PROVE  IsSchedule(G, LevelsOf(d)) /\ LevelsOf(d) \in Seq(SUBSET DOMAIN G)
<1>. DEFINE n == Cardinality(Range(d))
            lv == LevelsOf(d)
<1>1. d \in [DOMAIN G -> Nat \ {0}] /\ IsDepth(G, d) /\ Range(d) = 1 .. n
  BY DepthsType, DepthsGapless
<1>2. n \in Nat
  BY DepthsType, FS_CardinalityType
<1>3. DOMAIN lv = 1 .. n /\ \A k \in 1 .. n : lv[k] = {i \in DOMAIN G : d[i] = k}
  BY <1>1 DEF LevelsOf
<1>4. \A i \in DOMAIN G : d[i] \in 1 .. n
  BY <1>1 DEF Range
<1>5. \A k \in 1 .. n : lv[k] # {}
  BY <1>1, <1>3 DEF Range
<1>6. lv \in Seq(SUBSET DOMAIN G)
  BY <1>1, <1>2 DEF LevelsOf
<1>. HIDE DEF lv, n
<1>7. UNION Range(lv) = DOMAIN G
  <2>1. \A i \in DOMAIN G : i \in lv[d[i]] /\ d[i] \in DOMAIN lv
    BY <1>3, <1>4
  <2>2. \A k \in DOMAIN lv : lv[k] \subseteq DOMAIN G
    BY <1>3
  <2>. QED
    BY <2>1, <2>2 DEF Range
<1>8. ASSUME NEW k \in 1 .. n, NEW i \in lv[k]
      PROVE  /\ \A j \in G[i] : \E l \in 1 .. k - 1 : j \in lv[l]
             /\ k = 1 \/ G[i] \cap lv[k - 1] # {}
  <2>1. i \in DOMAIN G /\ d[i] = k
    BY <1>3
  <2>2. \A j \in G[i] : j \in DOMAIN G /\ d[j] < k
    BY <1>1, <2>1 DEF IsDepth
  <2>3. \A j \in G[i] : d[j] \in 1 .. k - 1 /\ d[j] \in 1 .. n /\ j \in lv[d[j]]
    BY <1>1, <1>2, <1>3, <1>4, <2>2
  <2>4. CASE k # 1
    <3>1. PICK j \in G[i] : d[j] + 1 = k
      BY <1>1, <2>1, <2>4 DEF IsDepth
    <3>. QED
      BY <1>1, <1>2, <2>3, <3>1
  <2>. QED
    BY <2>3, <2>4
<1>9. \A k, l \in 1 .. n : k # l => lv[k] \cap lv[l] = {}
  BY <1>3
<1>10. IsSchedule(G, lv)
  BY <1>3, <1>5, <1>7, <1>8, <1>9 DEF IsSchedule
<1>. QED
  BY <1>6, <1>10 DEF lv

(* And there is no other: whatever is a schedule of a graph is the one     *)
(* made of its depths.                                                     *)
LEMMA ScheduleIsLevels ==
  ASSUME NEW G, IsFiniteSet(DOMAIN G), NEW lv \in Seq(SUBSET DOMAIN G),
         IsSchedule(G, lv)
  PROVE  \E d \in Depths(G) : lv = LevelsOf(d)
<1>. DEFINE n == Len(lv)
            d == [i \in DOMAIN G |-> CHOOSE k \in 1 .. n : i \in lv[k]]
<1>1. n \in Nat /\ DOMAIN lv = 1 .. n /\ \A k \in 1 .. n : lv[k] \subseteq DOMAIN G
  OBVIOUS
<1>2. /\ \A k \in 1 .. n : lv[k] # {}
      /\ \A k, l \in 1 .. n : k # l => lv[k] \cap lv[l] = {}
      /\ \A k \in 1 .. n : \A i \in lv[k] :
           /\ \A j \in G[i] : \E l \in 1 .. k - 1 : j \in lv[l]
           /\ k = 1 \/ G[i] \cap lv[k - 1] # {}
  BY <1>1 DEF IsSchedule
<1>. HIDE DEF n
<1>3. \A i \in DOMAIN G : d[i] \in 1 .. n /\ i \in lv[d[i]]
  <2>1. \A i \in DOMAIN G : \E k \in 1 .. n : i \in lv[k]
    BY <1>1 DEF IsSchedule, Range
  <2>. QED
    BY <2>1
<1>4. DOMAIN d = DOMAIN G
  OBVIOUS
<1>. HIDE DEF d
<1>5. \A i \in DOMAIN G : \A k \in 1 .. n : i \in lv[k] <=> d[i] = k
  BY <1>2, <1>3
<1>6. d \in [DOMAIN G -> 1 .. n]
  BY <1>3, <1>4 DEF d
<1>7. d \in Surjection(DOMAIN G, 1 .. n)
  BY <1>1, <1>2, <1>5, <1>6 DEF Surjection
<1>8. n <= Cardinality(DOMAIN G) /\ Cardinality(DOMAIN G) \in Nat
  <2>1. Cardinality(1 .. n) = n
    BY <1>1, UptoN
  <2>. QED
    BY <1>7, <2>1, FS_Surjection, FS_CardinalityType
<1>9. Range(d) = 1 .. n
  BY <1>7 DEF Surjection, Range
<1>10. IsDepth(G, d)
  <2>. SUFFICES ASSUME NEW i \in DOMAIN G
       PROVE  /\ \A j \in G[i] : j \in DOMAIN G /\ d[j] < d[i]
              /\ d[i] = 1 \/ \E j \in G[i] : d[j] + 1 = d[i]
    BY <1>4 DEF IsDepth
  <2>1. d[i] \in 1 .. n /\ i \in lv[d[i]]
    BY <1>3
  <2>2. ASSUME NEW j \in G[i]
        PROVE  j \in DOMAIN G /\ d[j] < d[i]
    <3>1. PICK l \in 1 .. d[i] - 1 : j \in lv[l]
      BY <1>2, <2>1
    <3>2. l \in 1 .. n
      BY <1>1, <2>1
    <3>. QED
      BY <1>1, <1>5, <2>1, <3>1, <3>2
  <2>3. ASSUME d[i] # 1
        PROVE  \E j \in G[i] : d[j] + 1 = d[i]
    <3>1. PICK j \in G[i] : j \in lv[d[i] - 1]
      BY <1>2, <2>1, <2>3
    <3>2. d[i] - 1 \in 1 .. n
      BY <1>1, <2>1, <2>3
    <3>3. d[j] = d[i] - 1
      BY <1>1, <1>5, <3>1, <3>2
    <3>. QED
      BY <2>1, <3>3
  <2>. QED
    BY <2>2, <2>3
<1>11. d \in Depths(G)
  BY <1>1, <1>6, <1>8, <1>10 DEF Depths
<1>12. lv = LevelsOf(d)
  <2>1. Cardinality(Range(d)) = n
    BY <1>1, <1>9, UptoN
  <2>2. LevelsOf(d) = [k \in 1 .. n |-> {i \in DOMAIN G : d[i] = k}]
    BY <1>4, <2>1 DEF LevelsOf
  <2>3. \A k \in 1 .. n : lv[k] = {i \in DOMAIN G : d[i] = k}
    BY <1>1, <1>5
  <2>4. lv = [k \in 1 .. n |-> lv[k]]
    BY <1>1
  <2>. QED
    BY <2>2, <2>3, <2>4
<1>. QED
  BY <1>11, <1>12
-----------------------------------------------------------------------------
(* A plan that can be sorted has one schedule: its levels.                 *)
LEMMA LevelsOfPlan ==
  ASSUME NEW S, NEW p \in Seq(S), Acyclic(p)
  PROVE  /\ IsSchedule(DepsOf(p), TopologicalLevels(p))
         /\ TopologicalLevels(p) \in Seq(SUBSET Ids(p))
<1>1. IsFiniteSet(DOMAIN DepsOf(p)) /\ DOMAIN DepsOf(p) = Ids(p)
  BY IdsFinite DEF DepsOf
<1>2. PICK d \in Depths(DepsOf(p)) : TopologicalLevels(p) = LevelsOf(d)
  BY DEF Acyclic, TopologicalLevels
<1>. QED
  BY <1>1, <1>2, LevelsAreSchedule

LEMMA ScheduleOfPlan ==
  ASSUME NEW S, NEW p \in Seq(S), NEW lv \in Seq(SUBSET Ids(p)),
         IsSchedule(DepsOf(p), lv)
  PROVE  Acyclic(p) /\ lv = TopologicalLevels(p)
<1>1. IsFiniteSet(DOMAIN DepsOf(p)) /\ DOMAIN DepsOf(p) = Ids(p)
  BY IdsFinite DEF DepsOf
<1>2. PICK d \in Depths(DepsOf(p)) : lv = LevelsOf(d)
  BY <1>1, ScheduleIsLevels
<1>3. \A e \in Depths(DepsOf(p)) : e = d
  BY <1>1, DepthUnique
<1>. QED
  BY <1>2, <1>3 DEF Acyclic, TopologicalLevels
=============================================================================
