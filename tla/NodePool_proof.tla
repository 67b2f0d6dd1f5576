---------------------------- MODULE NodePool_proof ----------------------------
(***************************************************************************)
(* Proofs about the node pool, for every finite set of nodes and any       *)
(* number of failed writes and deaths, also between and inside the writes  *)
(* of the five files: the lists are a partition unless they were read from *)
(* files that a write had left cut, a start exits on such files only, an   *)
(* isolated node is never in the normal list, and the pool implements      *)
(* NodeRoles.  First the operators of PoolOps: apply_node_num_resources    *)
(* keeps its contract for every state of the lists and every answer of the *)
(* blacklist, and every operation keeps the lists a partition that         *)
(* validation accepts.  Last the blacklist the pool asks for its grades,   *)
(* B: what a ban promises.                                                 *)
(***************************************************************************)
EXTENDS NodePool, FiniteSetTheorems, FunctionTheorems, TLAPS

\* A finite set has a subset of every smaller size.
LEMMA SubsetOfSize ==
  ASSUME NEW S, IsFiniteSet(S), NEW k \in Nat, k <= Cardinality(S)
  PROVE  \E T \in SUBSET S : Cardinality(T) = k
<1>1. Cardinality(S) \in Nat /\ ExistsBijection(1..Cardinality(S), S)
  BY FS_CardinalityType
<1>2. PICK f \in Bijection(1..Cardinality(S), S) : TRUE
  BY <1>1 DEF ExistsBijection
<1>3. 1..k \subseteq 1..Cardinality(S)
  BY <1>1
<1> DEFINE T == {f[i] : i \in 1..k}
           g == [i \in 1..k |-> f[i]]
<1>4. T \subseteq S
  BY <1>2, <1>3 DEF Bijection, Injection
<1>5. g \in Bijection(1..k, T)
  <2>1. g \in [1..k -> T]
    OBVIOUS
  <2>2. \A i, j \in 1..k : g[i] = g[j] => i = j
    BY <1>2, <1>3 DEF Bijection, Injection, IsInjective
  <2>3. \A t \in T : \E i \in 1..k : g[i] = t
    OBVIOUS
  <2> QED BY <2>1, <2>2, <2>3 DEF Bijection, Injection, Surjection, IsInjective
<1>6. Cardinality(T) = k
  BY <1>5, FS_CountingElements DEF ExistsBijection
<1> QED BY <1>4, <1>6

\* Disjoint finite sets add up.
LEMMA DisjointUnion ==
  ASSUME NEW A, NEW B, IsFiniteSet(A), IsFiniteSet(B), A \cap B = {}
  PROVE  /\ IsFiniteSet(A \cup B)
         /\ Cardinality(A \cup B) = Cardinality(A) + Cardinality(B)
<1>1. Cardinality(A \cup B) = Cardinality(A) + Cardinality(B) - Cardinality({})
  BY FS_Union
<1>2. Cardinality({}) = 0 /\ Cardinality(A) \in Nat /\ Cardinality(B) \in Nat
  BY FS_EmptySet, FS_CardinalityType
<1> QED BY <1>1, <1>2, FS_Union

\* The standby choice succeeds exactly when there are enough nodes.
LEMMA HealthyFirstExists ==
  ASSUME NEW h, NEW d, IsFiniteSet(h), IsFiniteSet(d), h \cap d = {},
         NEW k \in Nat, k <= Cardinality(h) + Cardinality(d)
  PROVE  HealthyFirst(h, d, k) # {}
<1>0. Cardinality(h) \in Nat /\ Cardinality(d) \in Nat
  BY FS_CardinalityType
<1>1. CASE k <= Cardinality(h)
  <2>1. PICK T \in SUBSET h : Cardinality(T) = k
    BY <1>1, SubsetOfSize
  <2>2. T \in HealthyFirst(h, d, k)
    BY <2>1 DEF HealthyFirst
  <2> QED BY <2>2
<1>2. CASE k > Cardinality(h)
  <2>1. k - Cardinality(h) \in Nat /\ k - Cardinality(h) <= Cardinality(d)
    BY <1>0, <1>2
  <2>2. PICK T \in SUBSET d : Cardinality(T) = k - Cardinality(h)
    BY <2>1, SubsetOfSize
  <2>3. IsFiniteSet(T) /\ h \cap T = {}
    BY <2>2, FS_Subset
  <2>4. Cardinality(h \cup T) = k
    <3>1. Cardinality(h \cup T) = Cardinality(h) + Cardinality(T)
      BY <2>3, DisjointUnion
    <3> QED BY <1>0, <2>2, <3>1
  <2>5. h \cup T \in HealthyFirst(h, d, k)
    BY <2>4 DEF HealthyFirst
  <2> QED BY <2>5
<1> QED BY <1>0, <1>1, <1>2

\* Cardinalities of two parts of a finite set.
LEMMA SplitCardinality ==
  ASSUME NEW A, NEW B, IsFiniteSet(A)
  PROVE  /\ IsFiniteSet(A \cap B) /\ IsFiniteSet(A \ B)
         /\ Cardinality(A) \in Nat
         /\ Cardinality(A \cap B) \in Nat /\ Cardinality(A \ B) \in Nat
         /\ Cardinality(A) = Cardinality(A \cap B) + Cardinality(A \ B)
<1>1. IsFiniteSet(A \cap B) /\ IsFiniteSet(A \ B)
  BY FS_Subset
<1>2. (A \cap B) \cup (A \ B) = A /\ (A \cap B) \cap (A \ B) = {}
  OBVIOUS
<1>3. Cardinality(A) = Cardinality(A \cap B) + Cardinality(A \ B) - Cardinality({})
  BY <1>1, <1>2, FS_Union
<1> QED BY <1>1, <1>3, FS_CardinalityType, FS_EmptySet

LEMMA GradedFinite ==
  ASSUME NEW p \in Pool, NEW grade
  PROVE  /\ IsFiniteSet(Healthy(p, grade)) /\ IsFiniteSet(Degraded(p, grade))
         /\ IsFiniteSet(p.last)
         /\ Healthy(p, grade) \cap Degraded(p, grade) = {}
         /\ Cardinality(Usable(p, grade))
              = Cardinality(Healthy(p, grade)) + Cardinality(Degraded(p, grade))
<1>1. Healthy(p, grade) \subseteq Node /\ Degraded(p, grade) \subseteq Node
      /\ p.last \subseteq Node
  BY DEF Healthy, Degraded, Pool
<1>2. IsFiniteSet(Healthy(p, grade)) /\ IsFiniteSet(Degraded(p, grade)) /\ IsFiniteSet(p.last)
  BY <1>1, NodeFinite, FS_Subset
<1>3. Healthy(p, grade) \cap Degraded(p, grade) = {}
  BY DEF Healthy, Degraded
<1>4. Cardinality(Usable(p, grade)) = Cardinality(Healthy(p, grade))
        + Cardinality(Degraded(p, grade)) - Cardinality({})
  BY <1>2, <1>3, FS_Union DEF Usable
<1> QED BY <1>2, <1>3, <1>4, FS_EmptySet, FS_CardinalityType

Contract(p, grade, n) ==
  /\ (Allocations(p, grade, n) # {}) <=> (n <= Cardinality(Usable(p, grade)))
  /\ \A S \in Allocations(p, grade, n) :
       /\ S \subseteq Usable(p, grade)
       /\ Cardinality(S) = n
       /\ S \cap Degraded(p, grade) # {} => Cardinality(Healthy(p, grade)) < n

LEMMA FreshContract ==
  ASSUME NEW p \in Pool, NEW grade, NEW n \in Nat,
         n <= Cardinality(Usable(p, grade))
  PROVE  /\ FreshChoice(p, grade, n) # {}
         /\ \A S \in FreshChoice(p, grade, n) :
              /\ S \subseteq Usable(p, grade)
              /\ Cardinality(S) = n
              /\ S \cap Degraded(p, grade) # {} => Cardinality(Healthy(p, grade)) < n
<1> DEFINE H == Healthy(p, grade)  D == Degraded(p, grade)
<1>1. IsFiniteSet(H) /\ IsFiniteSet(D) /\ H \cap D = {}
      /\ Cardinality(Usable(p, grade)) = Cardinality(H) + Cardinality(D)
  BY GradedFinite
<1>2. FreshChoice(p, grade, n) # {}
  BY <1>1, HealthyFirstExists DEF FreshChoice
<1>3. ASSUME NEW S \in FreshChoice(p, grade, n), S \cap D # {}
      PROVE  Cardinality(H) < n
  <2>1. H \subseteq S /\ H # S /\ S \subseteq H \cup D /\ Cardinality(S) = n
    BY <1>1, <1>3 DEF FreshChoice, HealthyFirst
  <2>2. IsFiniteSet(S)
    BY <1>1, <2>1, FS_Union, FS_Subset
  <2>3. Cardinality(H) <= Cardinality(S) /\ Cardinality(S) # Cardinality(H)
    BY <2>1, <2>2, FS_Subset
  <2> QED BY <2>1, <2>2, <2>3, <1>1, FS_CardinalityType
<1> QED BY <1>2, <1>3 DEF FreshChoice, HealthyFirst, Usable

LEMMA RecycleContract ==
  ASSUME NEW p \in Pool, NEW grade, NEW n \in Nat, n = Cardinality(p.last),
         n <= Cardinality(Usable(p, grade))
  PROVE  /\ RecycleChoice(p, grade) # {}
         /\ \A S \in RecycleChoice(p, grade) :
              /\ S \subseteq Usable(p, grade)
              /\ Cardinality(S) = n
              /\ S \cap Degraded(p, grade) # {} => Cardinality(Healthy(p, grade)) < n
<1> DEFINE H == Healthy(p, grade)  D == Degraded(p, grade)  L == p.last
           enough == Cardinality(H \ L) >= Cardinality(L \ H)
           kept == IF enough THEN L \cap H ELSE L \cap (H \cup D)
           spare == IF enough THEN {} ELSE D \ L
           k == Cardinality(L \ kept)
<1>1. IsFiniteSet(H) /\ IsFiniteSet(D) /\ IsFiniteSet(L) /\ H \cap D = {}
      /\ Cardinality(Usable(p, grade)) = Cardinality(H) + Cardinality(D)
  BY GradedFinite
<1>2. RecycleChoice(p, grade) = {kept \cup R : R \in HealthyFirst(H \ L, spare, k)}
  BY DEF RecycleChoice
<1>3. IsFiniteSet(H \ L) /\ IsFiniteSet(spare) /\ (H \ L) \cap spare = {}
  BY <1>1, FS_Subset, FS_EmptySet
<1>4. kept \subseteq L /\ k \in Nat /\ IsFiniteSet(kept) /\ Cardinality(kept) \in Nat
      /\ n = Cardinality(kept) + k
  <2>1. kept \subseteq L /\ L \cap kept = kept
    OBVIOUS
  <2> QED BY <1>1, <2>1, SplitCardinality
<1>5. k <= Cardinality(H \ L) + Cardinality(spare)
  <2>1. CASE enough
    <3>1. L \ kept = L \ H
      BY <2>1
    <3>2. k = Cardinality(L \ H) /\ Cardinality(spare) = 0
      BY <2>1, <3>1, FS_EmptySet
    <3>3. Cardinality(H \ L) \in Nat
      BY <1>3, FS_CardinalityType
    <3>4. Cardinality(H \ L) >= Cardinality(L \ H)
      BY <2>1
    <3> HIDE DEF k, spare, kept, enough
    <3> QED BY <3>2, <3>3, <3>4, <1>4
  <2>2. CASE ~ enough
    <3>1. Cardinality(H) = Cardinality(H \cap L) + Cardinality(H \ L)
          /\ Cardinality(D) = Cardinality(D \cap L) + Cardinality(D \ L)
          /\ Cardinality(H \cap L) \in Nat /\ Cardinality(H \ L) \in Nat
          /\ Cardinality(D \cap L) \in Nat /\ Cardinality(D \ L) \in Nat
          /\ IsFiniteSet(H \cap L) /\ IsFiniteSet(D \cap L)
      BY <1>1, SplitCardinality
    <3>2. kept = (H \cap L) \cup (D \cap L) /\ (H \cap L) \cap (D \cap L) = {}
      BY <2>2, <1>1
    <3>3. Cardinality(kept) = Cardinality(H \cap L) + Cardinality(D \cap L)
      BY <3>1, <3>2, DisjointUnion
    <3>4. Cardinality(spare) = Cardinality(D \ L)
      BY <2>2
    <3>5. n <= Cardinality(H) + Cardinality(D)
      BY <1>1
    <3> HIDE DEF k, spare, kept, H, D, L
    <3> QED BY <1>4, <3>1, <3>3, <3>4, <3>5
  <2> QED BY <2>1, <2>2
<1>6. HealthyFirst(H \ L, spare, k) # {}
  BY <1>3, <1>4, <1>5, HealthyFirstExists
<1>7. ASSUME NEW R \in HealthyFirst(H \ L, spare, k)
      PROVE  /\ kept \cup R \subseteq Usable(p, grade)
             /\ Cardinality(kept \cup R) = n
             /\ (kept \cup R) \cap D # {} => Cardinality(H) < n
  <2>1. R \subseteq (H \ L) \cup spare /\ Cardinality(R) = k
    BY DEF HealthyFirst
  <2>2. kept \subseteq H \cup D /\ R \subseteq H \cup D /\ kept \cap R = {}
    BY <2>1, <1>4
  <2>3. IsFiniteSet(R)
    BY <1>3, <2>1, FS_Union, FS_Subset
  <2>4. Cardinality(kept \cup R) = n
    <3> HIDE DEF k, kept
    <3> QED BY <1>4, <2>1, <2>2, <2>3, DisjointUnion
  <2>5. ASSUME (kept \cup R) \cap D # {} PROVE Cardinality(H) < n
    <3>1. ~ enough
      BY <1>1, <2>1, <2>5
    <3>2. Cardinality(H) = Cardinality(H \cap L) + Cardinality(H \ L)
          /\ Cardinality(L) = Cardinality(L \cap H) + Cardinality(L \ H)
          /\ Cardinality(H \cap L) \in Nat /\ Cardinality(H \ L) \in Nat
          /\ Cardinality(L \ H) \in Nat
      BY <1>1, SplitCardinality
    <3>3. H \cap L = L \cap H
      OBVIOUS
    <3> QED BY <3>1, <3>2, <3>3
  <2> QED BY <2>2, <2>4, <2>5 DEF Usable
<1>8. RecycleChoice(p, grade) # {}
  BY <1>2, <1>6
<1>9. ASSUME NEW S \in RecycleChoice(p, grade)
      PROVE  \E R \in HealthyFirst(H \ L, spare, k) : S = kept \cup R
  BY <1>2
<1>10. ASSUME NEW S \in RecycleChoice(p, grade)
       PROVE  /\ S \subseteq Usable(p, grade)
              /\ Cardinality(S) = n
              /\ S \cap D # {} => Cardinality(H) < n
  <2>1. PICK R \in HealthyFirst(H \ L, spare, k) : S = kept \cup R
    BY <1>9
  <2> HIDE DEF kept, k, spare, H, D, L
  <2> QED BY <1>7, <2>1
<1> QED BY <1>8, <1>10

\* With n usable backup nodes or more, an allocation of n succeeds and takes
\* exactly n of them, never a fatal one, and a degraded one only if the clean
\* ones are fewer than n; with fewer it takes nothing.
THEOREM AllocationsMeetContract ==
  ASSUME NEW p \in Pool, NEW grade, NEW n \in Nat
  PROVE  Contract(p, grade, n)
<1>0. Cardinality(Usable(p, grade)) \in Nat
  BY GradedFinite, FS_CardinalityType
<1>1. CASE n > Cardinality(Usable(p, grade))
  BY <1>0, <1>1 DEF Contract, Allocations
<1>2. CASE n <= Cardinality(Usable(p, grade))
  <2>1. CASE p.last # {} /\ n = Cardinality(p.last)
    <3>1. Allocations(p, grade, n) = RecycleChoice(p, grade)
      BY <1>0, <1>2, <2>1 DEF Allocations
    <3> QED BY <1>2, <2>1, <3>1, RecycleContract DEF Contract
  <2>2. CASE ~ (p.last # {} /\ n = Cardinality(p.last))
    <3>1. Allocations(p, grade, n) = FreshChoice(p, grade, n)
      BY <1>0, <1>2, <2>2 DEF Allocations
    <3> QED BY <1>2, <3>1, FreshContract DEF Contract
  <2> QED BY <2>1, <2>2
<1> QED BY <1>0, <1>1, <1>2

-----------------------------------------------------------------------------
\* One record of lists that the rest of the argument preserves.
Sound(p) == IsPartition(p) /\ p.normal \subseteq p.total \ p.abnormal

(* The operators of PoolOps preserve Sound. *)

\* Validation neither fails on nor changes a sound record.
LEMMA SoundValidates ==
  ASSUME NEW p \in Pool, Sound(p)
  PROVE  Validates(p) /\ Clipped(p) = p
<1>1. Clipped(p) \in Pool /\ Clipped(p).backup = p.backup /\ Clipped(p).abnormal = p.abnormal
      /\ Clipped(p).total = p.total /\ Clipped(p).running = p.running
      /\ Clipped(p).normal = p.normal /\ Clipped(p).last = p.last
  BY DEF Clipped, Pool, Sound, IsPartition
<1>2. Clipped(p) = p
  BY <1>1 DEF Pool
<1> QED BY <1>1, <1>2 DEF Validates, Sound, IsPartition

LEMMA FreshSound ==
  ASSUME NEW h \in SUBSET Node
  PROVE  FreshPool(h, {}) \in Pool /\ Sound(FreshPool(h, {}))
BY DEF FreshPool, Pool, Sound, IsPartition

LEMMA TotalSound ==
  ASSUME NEW p \in Pool, Sound(p), NEW S \in SUBSET Node
  PROVE  WithTotal(p, S) \in Pool /\ Sound(WithTotal(p, S))
BY DEF WithTotal, Pool, Sound, IsPartition

LEMMA NormalSound ==
  ASSUME NEW p \in Pool, Sound(p), NEW S \in SUBSET Node
  PROVE  WithNormal(p, S) \in Pool /\ Sound(WithNormal(p, S))
BY DEF WithNormal, Pool, Sound, IsPartition

LEMMA AbnormalSound ==
  ASSUME NEW p \in Pool, Sound(p), NEW S \in SUBSET Node,
         S \subseteq p.total, S \cap p.abnormal = {}
  PROVE  WithAbnormal(p, S) \in Pool /\ Sound(WithAbnormal(p, S))
<1>1. CASE S \cap p.running = {}
  BY <1>1 DEF WithAbnormal, Pool, Sound, IsPartition
<1>2. CASE S \cap p.running # {}
  BY <1>2 DEF WithAbnormal, Pool, Sound, IsPartition
<1> QED BY <1>1, <1>2

LEMMA ReleasedSound ==
  ASSUME NEW p \in Pool, Sound(p)
  PROVE  Released(p) \in Pool /\ Sound(Released(p))
BY DEF Released, Pool, Sound, IsPartition

LEMMA RunningSound ==
  ASSUME NEW p \in Pool, Sound(p), NEW S \in SUBSET p.backup
  PROVE  WithRunning(p, S) \in Pool /\ Sound(WithRunning(p, S))
BY DEF WithRunning, Pool, Sound, IsPartition

LEMMA WithoutAbnormalSound ==
  ASSUME NEW p \in Pool, Sound(p), NEW S \in SUBSET Node,
         NEW target \in {"backup", "running"}
  PROVE  WithoutAbnormal(p, S, target) \in Pool /\ Sound(WithoutAbnormal(p, S, target))
BY DEF WithoutAbnormal, Pool, Sound, IsPartition

\* Whatever is allocated comes from the usable part of backup.
LEMMA AllocationsUsable ==
  ASSUME NEW p \in Pool, NEW grade, NEW n,
         NEW S \in Allocations(p, grade, n)
  PROVE  S \subseteq Usable(p, grade) /\ S \in SUBSET p.backup
<1>1. Healthy(p, grade) \cup Degraded(p, grade) \subseteq p.backup
  BY DEF Healthy, Degraded
<1>2. CASE S \in FreshChoice(p, grade, n)
  BY <1>1, <1>2 DEF FreshChoice, HealthyFirst, Usable
<1>3. CASE S \in RecycleChoice(p, grade)
  BY <1>1, <1>3 DEF RecycleChoice, HealthyFirst, Usable
<1> QED BY <1>2, <1>3 DEF Allocations

LEMMA ListAllocationsUsable ==
  ASSUME NEW p \in Pool, NEW grade, NEW T,
         NEW S \in ListAllocations(p, grade, T)
  PROVE  S \in SUBSET p.backup
BY DEF ListAllocations, HealthyFirst, Usable, Healthy, Degraded

-----------------------------------------------------------------------------
(* The module. *)

OnDisk ==
  [total |-> disk["total"], running |-> disk["running"], backup |-> disk["backup"],
   abnormal |-> disk["abnormal"], normal |-> disk["normal"], last |-> {}]

\* The inductive invariant.  Partition alone is not inductive: a restart loads the
\* files, so whole files have to be a partition too; and they are whole only while
\* none of the five has been touched.
Whole == ~ cut => Sound(OnDisk)

WriteOrder ==
  /\ opened \/ at > 1 => cut
  /\ pc = "down" => at = 0
  /\ at = 0 => ~ opened
  /\ mixed => cut /\ pc = "up"
  /\ aborted => cut /\ pc = "down"

IInv == TypeOK /\ WriteOrder /\ Whole /\ (~ mixed => Sound(pool))

-----------------------------------------------------------------------------
(* The invariant of the specification. *)

\* Lists that are no partition still have their types.
LEMMA OperatorTypes ==
  ASSUME NEW p \in Pool, NEW S \in SUBSET Node, NEW target \in {"backup", "running"}
  PROVE  /\ Clipped(p) \in Pool
         /\ WithTotal(p, S) \in Pool
         /\ WithNormal(p, S) \in Pool
         /\ WithAbnormal(p, S) \in Pool
         /\ WithoutAbnormal(p, S, target) \in Pool
         /\ Released(p) \in Pool
         /\ WithRunning(p, S) \in Pool
<1>1. Clipped(p) \in Pool /\ WithTotal(p, S) \in Pool
  BY DEF Pool, Clipped, WithTotal
<1>2. WithNormal(p, S) \in Pool /\ WithRunning(p, S) \in Pool
  BY DEF Pool, WithNormal, WithRunning
<1>3. WithAbnormal(p, S) \in Pool
  BY DEF Pool, WithAbnormal
<1>4. WithoutAbnormal(p, S, target) \in Pool
  BY DEF Pool, WithoutAbnormal
<1>5. Released(p) \in Pool
  BY DEF Pool, Released
<1> QED BY <1>1, <1>2, <1>3, <1>4, <1>5

LEMMA ImageTyped ==
  ASSUME NEW p \in Pool
  PROVE  /\ Image(p) \in [File -> SUBSET Node]
         /\ \A f \in File : Image(p)[f] = p[f] /\ p[f] \in SUBSET Node
BY DEF Image, File, Pool

\* The files that hold a sound record can be loaded.
LEMMA ImageSound ==
  ASSUME NEW p \in Pool, Sound(p), disk = Image(p)
  PROVE  Sound(OnDisk)
BY DEF OnDisk, Image, File, Sound, IsPartition, Pool

LEMMA OrderFiles == \A i \in 1..5 : Order[i] \in File
BY DEF Order, File

\* An operation: the lists change, the files do not yet.
LEMMA ChangeKeeps ==
  ASSUME IInv, NEW p \in Pool, Ready, Change(p), ~ mixed' => Sound(p),
         mixed' = FALSE \/ mixed' = mixed, pc' = pc, aborted' = aborted,
         host' \in Hostfile, succ' \in SUBSET Node, pending' \in SUBSET Node, known' \in BOOLEAN
  PROVE  IInv'
<1>1. Clipped(p) \in Pool /\ (Sound(p) => Clipped(p) = p)
  BY OperatorTypes, SoundValidates
<1>2. pool' = Clipped(p) /\ at' \in {0, 1} /\ UNCHANGED <<disk, opened, cut, mishaps>>
  BY DEF Change
<1>3. TypeOK'
  <2>1. mixed' \in BOOLEAN
    BY DEF IInv, TypeOK
  <2>2. pool' \in Pool /\ at' \in 0..5
    BY <1>1, <1>2
  <2> QED BY <1>2, <2>1, <2>2 DEF IInv, TypeOK
<1>4. WriteOrder'
  BY <1>2 DEF IInv, TypeOK, WriteOrder, Ready
<1>5. Whole'
  BY <1>2 DEF IInv, Whole, OnDisk, Sound, IsPartition
<1>6. ~ mixed' => Sound(pool)'
  BY <1>1, <1>2 DEF Sound, IsPartition
<1> QED BY <1>3, <1>4, <1>5, <1>6 DEF IInv

LEMMA AllocateKeeps ==
  ASSUME IInv, Ready, NEW S \in SUBSET pool.backup, Allocate(S), mixed' = mixed,
         UNCHANGED <<pc, host, succ, pending, known, aborted>>
  PROVE  IInv'
<1>1. WithRunning(pool, S) \in Pool /\ (~ mixed => Sound(WithRunning(pool, S)))
  <2>1. S \in SUBSET Node
    BY DEF IInv, TypeOK, Pool
  <2> QED BY <2>1, OperatorTypes, RunningSound DEF IInv, TypeOK
<1>2. CASE Change(WithRunning(pool, S))
  BY <1>1, <1>2, ChangeKeeps DEF IInv, TypeOK
<1>3. CASE ~ Change(WithRunning(pool, S))
  <2>1. /\ pool' = Clipped(WithRunning(pool, S)) /\ cut' = TRUE /\ mishaps' \in 0..MaxMishap
        /\ UNCHANGED <<disk, at, opened>>
    BY <1>3, MishapNat DEF Allocate, persist, Mishap, IInv, TypeOK
  <2>2. pool' \in Pool /\ (~ mixed => Sound(pool'))
    BY <1>1, <2>1, OperatorTypes, SoundValidates
  <2>3. TypeOK'
    BY <2>1, <2>2 DEF IInv, TypeOK
  <2>4. WriteOrder' /\ Whole'
    BY <2>1 DEF IInv, TypeOK, WriteOrder, Whole, Ready
  <2> QED BY <2>2, <2>3, <2>4 DEF IInv, Sound, IsPartition
<1> QED BY <1>2, <1>3

LEMMA LoadedSound ==
  ASSUME IInv
  PROVE  Loaded \in Pool /\ (~ (Restores /\ cut) => Sound(Loaded))
<1>1. CASE Restores
  <2>1. Loaded = OnDisk
    BY <1>1 DEF Loaded, Restored, OnDisk
  <2>2. OnDisk \in Pool
    BY DEF IInv, TypeOK, OnDisk, File, Pool
  <2> QED BY <1>1, <2>1, <2>2 DEF IInv, Whole
<1>2. CASE ~ Restores
  BY <1>2, FreshSound DEF IInv, TypeOK, Hostfile, Loaded
<1> QED BY <1>1, <1>2

\* A step of the five writes: the lists stay, and after the last file the files are
\* their image or are known not to be.
LEMMA NextFileKeeps ==
  ASSUME IInv, at > 0, disk' \in [File -> SUBSET Node], NextFile, mishaps' \in 0..MaxMishap,
         UNCHANGED <<pc, pool, host, succ, pending, known, aborted, mixed>>
  PROVE  IInv'
<1>1. at \in 1..5 /\ at' \in 0..5 /\ (at = 5 => at' = 0) /\ (at # 5 => at' > 1)
  BY DEF IInv, TypeOK, NextFile
<1>2. /\ opened' = FALSE
      /\ at # 5 => cut' = TRUE
      /\ at = 5 => cut' = (mixed \/ disk' # Image(pool))
  BY DEF NextFile
<1>3. cut' \in BOOLEAN
  BY <1>2
<1>4. TypeOK'
  BY <1>1, <1>2, <1>3 DEF IInv, TypeOK
<1>5. pc = "up"
  BY <1>1 DEF IInv, TypeOK, WriteOrder
<1>6. (mixed => cut') /\ (opened' \/ at' > 1 => cut')
  BY <1>1, <1>2 DEF IInv, TypeOK
<1>7. WriteOrder'
  BY <1>1, <1>2, <1>5, <1>6 DEF IInv, TypeOK, WriteOrder
<1>8. ASSUME ~ cut' PROVE Sound(OnDisk)'
  <2>1. ~ mixed /\ disk' = Image(pool)
    BY <1>2, <1>8
  <2> QED BY <2>1 DEF IInv, TypeOK, OnDisk, Image, File, Sound, IsPartition, Pool
<1> QED BY <1>4, <1>7, <1>8 DEF IInv, Whole, Sound, IsPartition

\* Init establishes it.
LEMMA InitIInv == Init => IInv
<1> SUFFICES ASSUME Init PROVE IInv
  OBVIOUS
<1>1. EmptyPool \in Pool /\ Sound(EmptyPool)
  BY DEF EmptyPool, Pool, Sound, IsPartition
<1>2. OnDisk = EmptyPool
  BY DEF Init, OnDisk, Image, File, EmptyPool
<1>3. disk \in [File -> SUBSET Node]
  BY <1>1, ImageTyped DEF Init
<1>4. TypeOK
  <2>1. at \in 0..5 /\ mishaps \in 0..MaxMishap
    BY MishapNat DEF Init
  <2> QED BY <1>1, <1>3, <2>1 DEF Init, TypeOK
<1> QED BY <1>1, <1>2, <1>4 DEF Init, IInv, WriteOrder, Whole

LEMMA StepIInv == IInv /\ [InterfaceNext]_vars => IInv'
<1> SUFFICES ASSUME IInv, [InterfaceNext]_vars PROVE IInv'
  OBVIOUS
<1>p. TypeOK /\ pool \in Pool /\ (~ mixed => Sound(pool))
  BY DEF IInv, TypeOK
<1>1. CASE Construct
  <2>1. CASE Validates(Loaded)
    <3>0. mixed' = (Restores /\ cut)
      BY <1>1, <2>1 DEF Construct
    <3>1. /\ pool' = Clipped(Loaded) /\ pc = "down" /\ pc' = "up" /\ at' = 1 /\ aborted' = FALSE
          /\ UNCHANGED <<disk, opened, host, succ, pending, cut, mishaps>>
      BY <1>1, <2>1 DEF Construct
    <3>2. known' \in BOOLEAN /\ mixed' \in BOOLEAN
      <4>1. known' = (known /\ (Restores \/ succ = {}))
        BY <1>1, <2>1 DEF Construct
      <4> QED BY <3>0, <4>1
    <3>3. pool' \in Pool /\ (~ mixed' => Sound(pool'))
      BY <3>0, <3>1, LoadedSound, SoundValidates, OperatorTypes
    <3>4. TypeOK'
      <4>0. at' = 1 /\ pc' = "up" /\ aborted' = FALSE
        BY <3>1
      <4>1. at' \in 0..5 /\ pc' \in {"up", "down"}
        BY <4>0, SMT
      <4>3. aborted' \in BOOLEAN
        BY <4>0, Zenon
      <4>2. UNCHANGED <<disk, opened, host, succ, pending, cut, mishaps>>
        BY <3>1
      <4> QED BY <1>p, <3>2, <3>3, <4>1, <4>2, <4>3 DEF TypeOK
    <3>5. mixed' => cut'
      BY <3>0, <3>1
    <3>6. WriteOrder'
      BY <3>1, <3>5 DEF IInv, WriteOrder
    <3>7. Whole'
      BY <3>1 DEF IInv, Whole, OnDisk, Sound, IsPartition
    <3> QED BY <3>3, <3>4, <3>6, <3>7 DEF IInv, Sound, IsPartition
  <2>2. CASE ~ Validates(Loaded)
    <3>1. /\ aborted' = TRUE /\ pc = "down"
          /\ UNCHANGED <<pc, pool, at, mixed, known, disk, opened, host, succ, pending, cut, mishaps>>
      BY <1>1, <2>2 DEF Construct
    <3>2. cut
      BY <2>2, LoadedSound, SoundValidates DEF IInv, TypeOK
    <3>3. TypeOK'
      BY <1>p, <3>1 DEF TypeOK
    <3> QED BY <3>1, <3>2, <3>3 DEF IInv, WriteOrder, Whole, OnDisk, Sound, IsPartition
  <2> QED BY <2>1, <2>2
<1>2. CASE EditHostfile
  BY <1>2 DEF EditHostfile, persist, history, IInv, TypeOK, WriteOrder, Whole, Sound,
     IsPartition, OnDisk
<1>3. CASE OpenFile
  <2>1. /\ disk' \in [File -> SUBSET Node] /\ opened' = TRUE /\ cut' = TRUE /\ at > 0
        /\ UNCHANGED <<pc, pool, at, host, succ, pending, known, aborted, mixed, mishaps>>
    BY <1>3, <1>p DEF OpenFile, TypeOK
  <2>2. TypeOK'
    BY <1>p, <2>1 DEF TypeOK
  <2>3. WriteOrder' /\ Whole'
    BY <2>1 DEF IInv, TypeOK, WriteOrder, Whole
  <2> QED BY <1>p, <2>1, <2>2, <2>3 DEF IInv, Sound, IsPartition
<1>4. CASE FillFile
  <2>1. Image(pool)[Order[at]] \in SUBSET Node
    <3>1. Order[at] \in File
      BY <1>4, <1>p, OrderFiles DEF FillFile, TypeOK
    <3> QED BY <1>p, <3>1, ImageTyped
  <2>2. disk' \in [File -> SUBSET Node]
    BY <1>4, <1>p, <2>1 DEF FillFile, TypeOK
  <2> QED BY <1>4, <1>p, <2>2, NextFileKeeps DEF FillFile, TypeOK
<1>5. CASE FileFails
  <2>1. disk' \in [File -> SUBSET Node]
    BY <1>5, <1>p DEF FileFails, TypeOK, Remains
  <2>2. mishaps' \in 0..MaxMishap
    BY <1>5, <1>p, MishapNat DEF FileFails, Mishap, TypeOK
  <2> QED BY <1>5, <1>p, <2>1, <2>2, NextFileKeeps DEF FileFails
<1>6. ASSUME NEW h \in Hostfile, Ready, Reset(h) PROVE IInv'
  <2>1. FreshPool(h, {}) \in Pool /\ Sound(FreshPool(h, {}))
    BY FreshSound DEF Hostfile
  <2> QED BY <1>6, <1>p, <2>1, ChangeKeeps DEF Reset, TypeOK
<1>7. ASSUME NEW S \in SUBSET Node, Ready, AddTotal(S) PROVE IInv'
  <2>1. WithTotal(pool, S) \in Pool /\ (~ mixed => Sound(WithTotal(pool, S)))
    BY <1>p, TotalSound, OperatorTypes
  <2>2. pending' \in SUBSET Node /\ known' \in BOOLEAN
    BY <1>7, <1>p DEF AddTotal, TypeOK
  <2> QED BY <1>7, <1>p, <2>1, <2>2, ChangeKeeps DEF AddTotal, TypeOK
<1>8. ASSUME NEW S \in SUBSET Node, Ready, AddNormal(S) PROVE IInv'
  <2>1. WithNormal(pool, S) \in Pool /\ (~ mixed => Sound(WithNormal(pool, S)))
    BY <1>p, NormalSound, OperatorTypes
  <2> QED BY <1>8, <1>p, <2>1, ChangeKeeps DEF AddNormal, TypeOK
<1>9. ASSUME NEW S \in SUBSET Node, Ready, AddAbnormal(S) PROVE IInv'
  <2>1. WithAbnormal(pool, S) \in Pool /\ (~ mixed => Sound(WithAbnormal(pool, S)))
    BY <1>9, <1>p, AbnormalSound, OperatorTypes DEF AddAbnormal
  <2> QED BY <1>9, <1>p, <2>1, ChangeKeeps DEF AddAbnormal, TypeOK
<1>10. CASE AppendSucc
  <2>1. /\ pending' = {} /\ succ' \in SUBSET Node /\ known' \in BOOLEAN
        /\ mishaps' \in 0..MaxMishap
    <3>1. CASE succ' = succ \cup pending /\ UNCHANGED <<known, mishaps>>
      BY <1>10, <1>p, <3>1 DEF AppendSucc, TypeOK
    <3>2. CASE ~ (succ' = succ \cup pending /\ UNCHANGED <<known, mishaps>>)
      <4>1. /\ mishaps < MaxMishap /\ mishaps' = mishaps + 1 /\ known' = FALSE
            /\ pending' = {} /\ \E part \in SUBSET pending : succ' = succ \cup part
        BY <1>10, <3>2 DEF AppendSucc, Mishap
      <4>2. mishaps' \in 0..MaxMishap
        BY <1>p, <4>1, MishapNat DEF TypeOK
      <4>3. succ' \in SUBSET Node
        BY <1>p, <4>1 DEF TypeOK
      <4> QED BY <4>1, <4>2, <4>3
    <3> QED BY <3>1, <3>2
  <2>2. UNCHANGED <<pc, pool, disk, at, opened, host, aborted, cut, mixed>>
    BY <1>10 DEF AppendSucc, persist
  <2>3. TypeOK'
    BY <1>p, <2>1, <2>2 DEF TypeOK
  <2> QED BY <2>2, <2>3 DEF IInv, WriteOrder, Whole, Sound, IsPartition, OnDisk
<1>11. ASSUME NEW n, NEW grade, Ready, Apply(n, grade) PROVE IInv'
  <2>1. PICK S \in Allocations(pool, grade, n) : Allocate(S)
    BY <1>11 DEF Apply
  <2>2. S \in SUBSET pool.backup
    BY <1>p, AllocationsUsable
  <2> QED BY <1>11, <2>1, <2>2, AllocateKeeps DEF Apply
<1>12. CASE Ready /\ Release
  <2>1. /\ pool' = Released(pool) /\ at' = 1 /\ at = 0 /\ pc = "up"
        /\ UNCHANGED <<pc, disk, opened, host, succ, pending, known, aborted, cut, mixed, mishaps>>
    BY <1>12 DEF Release, Ready, history
  <2>2. pool' \in Pool /\ (~ mixed => Sound(pool'))
    BY <1>p, <2>1, ReleasedSound, OperatorTypes
  <2>3. TypeOK'
    BY <1>p, <2>1, <2>2 DEF TypeOK
  <2>4. WriteOrder' /\ Whole'
    BY <2>1 DEF IInv, WriteOrder, Whole, OnDisk, Sound, IsPartition
  <2> QED BY <2>1, <2>2, <2>3, <2>4 DEF IInv, Sound, IsPartition
<1>13. CASE Crash
  <2>1. /\ pc' = "down" /\ pool' = EmptyPool /\ at' = 0 /\ opened' = FALSE /\ pending' = {}
        /\ mixed' = FALSE /\ pc = "up" /\ UNCHANGED <<host, succ, aborted, cut>>
    BY <1>13 DEF Crash
  <2>2. /\ disk' \in [File -> SUBSET Node] /\ (~ opened => disk' = disk)
        /\ mishaps' \in 0..MaxMishap
    BY <1>13, <1>p, MishapNat DEF Crash, TypeOK, Remains, Mishap
  <2>k. known' \in BOOLEAN
    <3>1. known' = (known /\ pending = {})
      BY <1>13 DEF Crash
    <3> QED BY <3>1, Zenon
  <2>3. EmptyPool \in Pool /\ Sound(EmptyPool)
    BY DEF EmptyPool, Pool, Sound, IsPartition
  <2>4. TypeOK'
    <3>1. pc' \in {"up", "down"} /\ at' \in 0..5
      BY <2>1, SMT
    <3>2. opened' \in BOOLEAN /\ mixed' \in BOOLEAN
      BY <2>1, Zenon
    <3>3. pool' \in Pool /\ pending' \in SUBSET Node
      BY <2>1, <2>3
    <3> QED BY <1>p, <2>1, <2>2, <2>k, <3>1, <3>2, <3>3 DEF TypeOK
  <2>5. aborted' = FALSE
    BY <1>p, <2>1 DEF IInv, TypeOK, WriteOrder
  <2>6. WriteOrder'
    BY <2>1, <2>5 DEF WriteOrder
  <2>7. ~ cut => disk' = disk
    BY <2>2 DEF IInv, WriteOrder
  <2>8. Whole'
    BY <2>1, <2>7 DEF IInv, Whole, OnDisk, Sound, IsPartition
  <2> QED BY <2>1, <2>3, <2>4, <2>6, <2>8 DEF IInv, Sound, IsPartition
<1>14. ASSUME NEW T, NEW grade, Ready, ApplyList(T, grade) PROVE IInv'
  <2>1. PICK S \in ListAllocations(pool, grade, T) : Allocate(S)
    BY <1>14 DEF ApplyList
  <2>2. S \in SUBSET pool.backup
    BY <1>p, ListAllocationsUsable
  <2> QED BY <1>14, <2>1, <2>2, AllocateKeeps DEF ApplyList
<1>15. ASSUME NEW S \in SUBSET Node, NEW target \in {"backup", "running"},
              Ready, RemoveAbnormal(S, target)
       PROVE  IInv'
  <2>1. /\ WithoutAbnormal(pool, S, target) \in Pool
        /\ ~ mixed => Sound(WithoutAbnormal(pool, S, target))
    BY <1>p, WithoutAbnormalSound, OperatorTypes
  <2>2. pool' \in Pool /\ (~ mixed => Sound(pool'))
    BY <1>15, <2>1, SoundValidates, OperatorTypes DEF RemoveAbnormal
  <2> QED BY <1>15, <1>p, <2>2 DEF RemoveAbnormal, persist, history, IInv, TypeOK, WriteOrder,
             Whole, Sound, IsPartition, OnDisk
<1>16. CASE UNCHANGED vars
  BY <1>16 DEF vars, persist, history, IInv, TypeOK, WriteOrder, Whole, Sound, IsPartition, OnDisk
<1> QED BY <1>1, <1>2, <1>3, <1>4, <1>5, <1>6, <1>7, <1>8, <1>9, <1>10, <1>11, <1>12, <1>13,
           <1>14, <1>15, <1>16 DEF InterfaceNext, InterfaceOperation, Next, Operation

LEMMA IInvMeans == IInv => TypeOK /\ Partition /\ AbortsOnlyTorn /\ NormalExcludesAbnormal
BY DEF IInv, WriteOrder, Whole, Sound, Partition, AbortsOnlyTorn, NormalExcludesAbnormal, OnDisk

\* For every set of nodes and any number of failed writes and deaths, with every
\* method of the class: types are preserved, the lists are a partition unless they
\* were read from cut files, a restart aborts on cut files only, and an isolated
\* node is listed as normal neither in the lists nor in whole files.
THEOREM InterfaceSafe ==
  InterfaceSpec => [](TypeOK /\ Partition /\ AbortsOnlyTorn /\ NormalExcludesAbnormal)
BY IInvMeans, InitIInv, StepIInv, PTL DEF InterfaceSpec

\* The same for the operations the program calls.
THEOREM PoolSafe ==
  Spec => [](TypeOK /\ Partition /\ AbortsOnlyTorn /\ NormalExcludesAbnormal)
<1>1. IInv /\ [Next]_vars => IInv'
  BY StepIInv DEF InterfaceNext
<1> QED BY <1>1, IInvMeans, InitIInv, PTL DEF Spec

\* TypeOK of NodePool alone.
THEOREM PoolTyped == Spec => []TypeOK
BY PoolSafe, PTL

\* A death before the first of the five files is opened, or after the last is filled,
\* leaves lists the constructor accepts; so do failed writes once a later write of all
\* five succeeded.
THEOREM RecoverySafe == Spec => []AbortsOnlyTorn
BY PoolSafe, PTL

\* For every set of nodes and in every reachable state, also with lists read from cut
\* files, an allocation takes exactly what was asked for, or nothing.
THEOREM AllocationSafe == Spec => []AllocationContract
<1>1. IInv => AllocationContract
  <2> SUFFICES ASSUME IInv, NEW grade \in [pool.backup -> Grade], NEW n \in 1..Cardinality(Node)
               PROVE  Contract(pool, grade, n)
    BY DEF AllocationContract, Contract
  <2>1. n \in Nat
    BY NodeFinite, FS_CardinalityType
  <2> QED BY <2>1, AllocationsMeetContract DEF IInv, TypeOK
<1>2. IInv /\ [Next]_vars => IInv'
  BY StepIInv DEF InterfaceNext
<1> QED BY <1>1, <1>2, InitIInv, PTL DEF Spec

-----------------------------------------------------------------------------
(***************************************************************************)
(* The pool implements NodeRoles.  When no write is under way, the files   *)
(* are those of the lists or are known to be cut, so an operation starts   *)
(* from saved roles.                                                       *)
(***************************************************************************)
RInv == IInv /\ (pc = "up" /\ at = 0 /\ ~ cut => disk = Image(pool))

LEMMA StepRInv == RInv /\ [Next]_vars => RInv'
<1> SUFFICES ASSUME RInv, [Next]_vars PROVE (pc = "up" /\ at = 0 /\ ~ cut => disk = Image(pool))'
  BY StepIInv DEF RInv, InterfaceNext
<1>p. pool \in Pool /\ (~ mixed => Sound(pool)) /\ (mixed => cut) /\ TypeOK
  BY DEF RInv, IInv, TypeOK, WriteOrder
<1>c. ASSUME NEW p, Change(p), p \in Pool, ~ mixed => Sound(p)
      PROVE  at' # 0 \/ cut'
  BY <1>c, <1>p, SoundValidates DEF Change
<1>1. CASE Construct
  BY <1>1 DEF Construct
<1>2. CASE EditHostfile \/ AppendSucc \/ UNCHANGED vars
  BY <1>2 DEF EditHostfile, AppendSucc, vars, persist, history, RInv, Image
<1>3. CASE OpenFile
  BY <1>3 DEF OpenFile
<1>4. CASE FillFile \/ FileFails
  BY <1>4, <1>p DEF FillFile, FileFails, NextFile, Image, TypeOK
<1>5. ASSUME NEW h \in Hostfile, Ready, Reset(h) PROVE at' # 0
  BY <1>5, FreshSound, SoundValidates DEF Reset, Change, Hostfile
<1>6. ASSUME NEW S \in SUBSET Node, Ready, AddTotal(S) PROVE at' # 0 \/ cut'
  BY <1>6, <1>p, <1>c, TotalSound, OperatorTypes DEF AddTotal
<1>7. ASSUME NEW S \in SUBSET Node, Ready, AddNormal(S) PROVE at' # 0 \/ cut'
  BY <1>7, <1>p, <1>c, NormalSound, OperatorTypes DEF AddNormal
<1>8. ASSUME NEW S \in SUBSET Node, Ready, AddAbnormal(S) PROVE at' # 0 \/ cut'
  BY <1>8, <1>p, <1>c, AbnormalSound, OperatorTypes DEF AddAbnormal
<1>9. ASSUME NEW n, NEW grade, Ready, Apply(n, grade) PROVE at' # 0 \/ cut'
  <2>1. PICK S \in Allocations(pool, grade, n) : Allocate(S)
    BY <1>9 DEF Apply
  <2>2. S \in SUBSET pool.backup /\ S \in SUBSET Node
    BY <1>p, AllocationsUsable DEF Pool
  <2> QED BY <2>1, <2>2, <1>p, <1>c, RunningSound, OperatorTypes DEF Allocate
<1>10. CASE Ready /\ Release
  BY <1>10 DEF Release
<1>11. CASE Crash
  BY <1>11 DEF Crash
<1> QED BY <1>1, <1>2, <1>3, <1>4, <1>5, <1>6, <1>7, <1>8, <1>9, <1>10, <1>11
    DEF Next, Operation

Now == [n \in Node |-> RoleNow(n)]
Kept == [n \in Node |-> RoleSaved(n)]

\* The role of a node, read off a sound record.
LEMMA RoleOfSound ==
  ASSUME NEW p \in Pool, Sound(p), NEW n \in Node
  PROVE  /\ (RoleIn(Image(p), n) = "running") <=> n \in p.running
         /\ (RoleIn(Image(p), n) = "backup") <=> n \in p.backup
         /\ (RoleIn(Image(p), n) = "abnormal") <=> n \in p.abnormal
         /\ (RoleIn(Image(p), n) = "out") <=> n \notin p.total
BY DEF Sound, IsPartition, RoleIn, Image, File

\* A known role is not "unknown", and there are nodes.
LEMMA RolesKnown ==
  ASSUME IInv
  PROVE  /\ (pc = "up" /\ ~ mixed) <=> Now # Roles!Unknown
         /\ ~ cut <=> Kept # Roles!Unknown
<1>1. PICK n \in Node : TRUE
  BY DEF IInv, TypeOK, Hostfile
<1>2. \A lists, m : RoleIn(lists, m) # "unknown"
  BY DEF RoleIn
<1> QED BY <1>1, <1>2 DEF Now, Kept, RoleNow, RoleSaved, Roles!Unknown

\* An operation on known roles: it starts from saved ones, and saves nothing itself.
LEMMA OperationStep ==
  ASSUME RInv, Ready, ~ mixed, disk' = disk, cut' \in {cut, TRUE},
         \/ Roles!ReleaseAll
         \/ \E S \in SUBSET Roles!With("out") : Roles!Enrol(S)
         \/ \E S \in SUBSET Roles!With("abnormal") : Roles!Heal(S)
         \/ \E S \in SUBSET Roles!With("backup") : Roles!Assign(S)
         \/ \E S \in SUBSET (Roles!With("backup") \cup Roles!With("running")) : Roles!Isolate(S)
  PROVE  Roles!Next
<1>1. Now # Roles!Unknown
  BY RolesKnown DEF RInv, Ready
<1>2. Kept \in {Now, Roles!Unknown}
  <2>1. CASE cut
    BY <2>1 DEF Kept, RoleSaved, Roles!Unknown
  <2>2. CASE ~ cut
    BY <2>2 DEF Kept, RoleSaved, Now, RoleNow, RInv, Ready
  <2> QED BY <2>1, <2>2
<1>3. Kept' \in {Kept, Roles!Unknown}
  <2>1. CASE cut' = TRUE
    BY <2>1 DEF Kept, RoleSaved, Roles!Unknown
  <2>2. CASE cut' = cut
    BY <2>2 DEF Kept, RoleSaved, RoleIn
  <2>3. cut' = TRUE \/ cut' = cut
    BY Zenon
  <2> QED BY <2>1, <2>2, <2>3
<1>4. Roles!Operation
  <2>1. [n \in Node |-> RoleNow(n)] # Roles!Unknown
    BY <1>1 DEF Now
  <2>2. [n \in Node |-> RoleSaved(n)] \in {[n \in Node |-> RoleNow(n)], Roles!Unknown}
    BY <1>2 DEF Now, Kept
  <2>3. [n \in Node |-> RoleSaved(n)]' \in {[n \in Node |-> RoleSaved(n)], Roles!Unknown}
    BY <1>3 DEF Kept
  <2> QED BY <2>1, <2>2, <2>3 DEF Roles!Operation
<1> QED BY <1>4 DEF Roles!Next

\* Nothing is known of mixed lists: what an operation makes of them is no step.
LEMMA MixedStutters ==
  ASSUME IInv, mixed, mixed' = mixed, cut' \in {cut, TRUE}
  PROVE  UNCHANGED <<Now, Kept>>
BY DEF IInv, WriteOrder, Now, Kept, RoleNow, RoleSaved

\* The lists after an operation on sound ones.
LEMMA ChangedRoles ==
  ASSUME NEW p \in Pool, Sound(p), Change(p), pc' = "up", ~ mixed'
  PROVE  /\ Now' = [n \in Node |-> RoleIn(Image(p), n)]
         /\ UNCHANGED <<disk, cut>>
BY SoundValidates DEF Change, Now, RoleNow, RoleIn, Image

LEMMA AllocatedRoles ==
  ASSUME NEW p \in Pool, Sound(p), NEW S \in SUBSET p.backup, pool = p, Allocate(S),
         pc' = "up", ~ mixed'
  PROVE  /\ Now' = [n \in Node |-> RoleIn(Image(WithRunning(p, S)), n)]
         /\ disk' = disk /\ cut' \in {cut, TRUE}
<1>1. WithRunning(p, S) \in Pool /\ Sound(WithRunning(p, S))
  BY RunningSound
<1>2. pool' = WithRunning(p, S) /\ disk' = disk /\ cut' \in {cut, TRUE}
  BY <1>1, SoundValidates DEF Allocate, Change, persist
<1> QED BY <1>2 DEF Now, RoleNow, RoleIn, Image

\* Each operation is one step of NodeRoles, or changes no role.
LEMMA StepRefines == RInv /\ RInv' /\ [Next]_vars => [Roles!Next]_<<Now, Kept>>
<1> SUFFICES ASSUME RInv, RInv', [Next]_vars
             PROVE  Roles!Next \/ UNCHANGED <<Now, Kept>>
  OBVIOUS
<1>p. IInv /\ TypeOK /\ pool \in Pool /\ (~ mixed => Sound(pool)) /\ WriteOrder
  BY DEF RInv, IInv, TypeOK
<1>s. pc = "up" /\ ~ mixed => Now = [n \in Node |-> RoleIn(Image(pool), n)]
  BY DEF Now, RoleNow
<1>1. CASE Construct
  <2>0. disk' = disk /\ cut' = cut /\ Kept' = Kept
    BY <1>1 DEF Construct, Kept, RoleSaved, RoleIn
  <2>1. CASE ~ Validates(Loaded)
    BY <1>1, <2>0, <2>1 DEF Construct, Now, RoleNow
  <2>2. CASE Validates(Loaded) /\ Restores /\ cut
    BY <1>1, <2>0, <2>2 DEF Construct, Now, RoleNow
  <2>3. CASE Validates(Loaded) /\ ~ (Restores /\ cut)
    <3>1. pc = "down" /\ pc' = "up" /\ pool' = Loaded /\ ~ mixed'
      BY <1>1, <1>p, <2>3, LoadedSound, SoundValidates DEF Construct
    <3>2. Now' = [n \in Node |-> RoleIn(Image(Loaded), n)]
      BY <3>1 DEF Now, RoleNow, RoleIn, Image
    <3>3. CASE Restores
      <4>1. \A n \in Node : RoleIn(Image(Loaded), n) = RoleIn(disk, n)
        BY <3>3 DEF Loaded, Restored, Image, File, RoleIn
      <4>2. ~ cut /\ Now' = Kept
        BY <2>3, <3>2, <3>3, <4>1 DEF Kept, RoleSaved
      <4>3. Now = Roles!Unknown /\ Kept # Roles!Unknown
        BY <1>p, <3>1, <4>2, RolesKnown
      <4> QED BY <2>0, <4>2, <4>3 DEF Roles!Next, Roles!Restart, Now, Kept
    <3>4. CASE ~ Restores
      <4>1. Now' = [n \in Node |-> IF n \in host THEN "backup" ELSE "out"]
        BY <3>2, <3>4 DEF Loaded, FreshPool, Image, File, RoleIn
      <4>2. Roles!Replace(host)
        BY <4>1 DEF Roles!Replace, Now
      <4> QED BY <2>0, <4>2, <1>p DEF Roles!Next, TypeOK, Hostfile, Kept
    <3> QED BY <3>3, <3>4
  <2> QED BY <2>1, <2>2, <2>3
<1>2. CASE EditHostfile \/ AppendSucc \/ UNCHANGED vars
  BY <1>2 DEF EditHostfile, AppendSucc, vars, persist, history, Now, Kept, RoleNow, RoleSaved,
     RoleIn, Image
<1>3. CASE OpenFile \/ ((FillFile \/ FileFails) /\ cut')
  <2>1. Now' = Now
    BY <1>3 DEF OpenFile, FillFile, FileFails, Now, RoleNow, RoleIn, Image
  <2>2. Kept' = Roles!Unknown
    BY <1>3 DEF OpenFile, Kept, RoleSaved, Roles!Unknown
  <2> QED BY <2>1, <2>2 DEF Roles!Next, Roles!Tear, Now, Kept
<1>4. CASE (FillFile \/ FileFails) /\ ~ cut'
  <2>1. at > 0 /\ UNCHANGED <<pc, pool, mixed>> /\ ~ mixed /\ disk' = Image(pool)
    BY <1>4 DEF FillFile, FileFails, NextFile
  <2>2. pc = "up"
    BY <1>p, <2>1 DEF WriteOrder, TypeOK
  <2>3. Now' = Now /\ Kept' = Now
    BY <1>4, <2>1, <2>2 DEF Now, Kept, RoleNow, RoleSaved, RoleIn, Image
  <2>4. Now # Roles!Unknown
    BY <1>p, <2>1, <2>2, RolesKnown
  <2> QED BY <2>3, <2>4 DEF Roles!Next, Roles!Save, Now, Kept
<1>5. ASSUME NEW h \in Hostfile, Ready, Reset(h) PROVE Roles!Next
  <2>1. FreshPool(h, {}) \in Pool /\ Sound(FreshPool(h, {}))
    BY FreshSound DEF Hostfile
  <2>2. /\ Now' = [n \in Node |-> RoleIn(Image(FreshPool(h, {})), n)]
        /\ UNCHANGED <<disk, cut>>
    BY <1>5, <2>1, ChangedRoles DEF Reset, Ready
  <2>3. Now' = [n \in Node |-> IF n \in h THEN "backup" ELSE "out"]
    BY <2>2 DEF FreshPool, Image, File, RoleIn
  <2>4. Roles!Replace(h)
    BY <2>3 DEF Roles!Replace, Now
  <2>5. Kept' = Kept
    BY <2>2 DEF Kept, RoleSaved, RoleIn
  <2> QED BY <2>4, <2>5 DEF Roles!Next, Hostfile, Kept
<1>6. ASSUME NEW S \in SUBSET Node, Ready, AddTotal(S), ~ mixed PROVE Roles!Next
  <2>1. WithTotal(pool, S) \in Pool /\ Sound(WithTotal(pool, S))
    BY <1>p, <1>6, TotalSound
  <2>2. /\ Now' = [n \in Node |-> RoleIn(Image(WithTotal(pool, S)), n)]
        /\ UNCHANGED <<disk, cut>> /\ Ready
    BY <1>6, <2>1, ChangedRoles DEF AddTotal, Ready
  <2>3. Now = [n \in Node |-> RoleIn(Image(pool), n)]
    BY <1>s, <1>6, <2>2 DEF Ready
  <2>4. \A n \in Node :
          RoleIn(Image(WithTotal(pool, S)), n)
            = IF n \in S \ pool.total THEN "backup" ELSE RoleIn(Image(pool), n)
    BY <1>p, <1>6 DEF RoleIn, Image, File, Sound, IsPartition, WithTotal, Pool
  <2>5. \A n \in S \ pool.total : RoleIn(Image(pool), n) = "out"
    BY <1>p, <1>6, RoleOfSound
  <2>6. S \ pool.total \subseteq Roles!With("out") /\ Roles!Enrol(S \ pool.total)
    BY <2>2, <2>3, <2>4, <2>5 DEF Roles!Enrol, Roles!With, Roles!Moved, Now
  <2> QED BY <1>6, <2>2, <2>6, OperationStep
<1>7. ASSUME NEW S \in SUBSET Node, Ready, AddNormal(S), ~ mixed PROVE Roles!Next
  <2>1. WithNormal(pool, S) \in Pool /\ Sound(WithNormal(pool, S))
    BY <1>p, <1>7, NormalSound
  <2>2. /\ Now' = [n \in Node |-> RoleIn(Image(WithNormal(pool, S)), n)]
        /\ UNCHANGED <<disk, cut>> /\ Ready
    BY <1>7, <2>1, ChangedRoles DEF AddNormal, Ready
  <2>3. Now = [n \in Node |-> RoleIn(Image(pool), n)]
    BY <1>s, <1>7, <2>2 DEF Ready
  <2>4. \A n \in Node :
          RoleIn(Image(WithNormal(pool, S)), n)
            = IF n \in S \cap pool.abnormal THEN "backup" ELSE RoleIn(Image(pool), n)
    BY <1>p, <1>7 DEF RoleIn, Image, File, Sound, IsPartition, WithNormal, Pool
  <2>5. \A n \in S \cap pool.abnormal : RoleIn(Image(pool), n) = "abnormal"
    BY <1>p, <1>7, RoleOfSound
  <2>6. S \cap pool.abnormal \subseteq Roles!With("abnormal") /\ Roles!Heal(S \cap pool.abnormal)
    BY <2>2, <2>3, <2>4, <2>5 DEF Roles!Heal, Roles!With, Roles!Moved, Now
  <2> QED BY <1>7, <2>2, <2>6, OperationStep
<1>8. ASSUME NEW S \in SUBSET Node, Ready, AddAbnormal(S), ~ mixed PROVE Roles!Next
  <2>1. WithAbnormal(pool, S) \in Pool /\ Sound(WithAbnormal(pool, S))
    BY <1>p, <1>8, AbnormalSound DEF AddAbnormal
  <2>2. /\ Now' = [n \in Node |-> RoleIn(Image(WithAbnormal(pool, S)), n)]
        /\ UNCHANGED <<disk, cut>> /\ Ready
    BY <1>8, <2>1, ChangedRoles DEF AddAbnormal, Ready
  <2>3. Now = [n \in Node |-> RoleIn(Image(pool), n)]
    BY <1>s, <1>8, <2>2 DEF Ready
  <2>4. /\ \A n \in Node : (RoleIn(Image(pool), n) = "running") <=> n \in pool.running
        /\ \A n \in S : RoleIn(Image(pool), n) \in {"backup", "running"}
    BY <1>p, <1>8 DEF AddAbnormal, RoleIn, Image, File, Sound, IsPartition, Pool
  <2>5. \A n \in Node :
          RoleIn(Image(WithAbnormal(pool, S)), n)
            = IF n \in S THEN "abnormal"
              ELSE IF S \cap pool.running # {} /\ RoleIn(Image(pool), n) = "running" THEN "backup"
              ELSE RoleIn(Image(pool), n)
    <3>1. CASE S \cap pool.running = {}
      BY <1>p, <1>8, <3>1 DEF RoleIn, Image, File, Sound, IsPartition, WithAbnormal, Pool, AddAbnormal
    <3>2. CASE S \cap pool.running # {}
      BY <1>p, <1>8, <3>2 DEF RoleIn, Image, File, Sound, IsPartition, WithAbnormal, Pool, AddAbnormal
    <3> QED BY <3>1, <3>2
  <2>6. (S \cap {n \in Node : RoleIn(Image(pool), n) = "running"} # {})
          <=> (S \cap pool.running # {})
    BY <2>4
  <2>7. S \subseteq Roles!With("backup") \cup Roles!With("running") /\ Roles!Isolate(S)
    <3>1. \A r : Roles!With(r) = {n \in Node : RoleIn(Image(pool), n) = r}
      BY <2>3 DEF Roles!With, Now
    <3>2. S \subseteq Roles!With("backup") \cup Roles!With("running")
      BY <2>4, <3>1
    <3>3. (S \cap Roles!With("running") # {}) <=> (S \cap pool.running # {})
      BY <2>6, <3>1
    <3>4. Now' = [n \in Node |->
                    IF n \in S THEN "abnormal"
                    ELSE IF S \cap Roles!With("running") # {} /\ Now[n] = "running" THEN "backup"
                    ELSE Now[n]]
      BY <2>2, <2>3, <2>5, <3>3
    <3> QED BY <3>2, <3>4 DEF Roles!Isolate, Now
  <2> QED BY <1>8, <2>2, <2>7, OperationStep
<1>9. ASSUME NEW n, NEW grade, Ready, Apply(n, grade), ~ mixed PROVE Roles!Next
  <2>1. PICK S \in Allocations(pool, grade, n) : Allocate(S)
    BY <1>9 DEF Apply
  <2>2. S \in SUBSET pool.backup /\ S \in SUBSET Node
    BY <1>p, AllocationsUsable DEF Pool
  <2>3. /\ Now' = [m \in Node |-> RoleIn(Image(WithRunning(pool, S)), m)]
        /\ disk' = disk /\ cut' \in {cut, TRUE} /\ Ready
    BY <1>9, <1>p, <2>1, <2>2, AllocatedRoles DEF Apply, Ready
  <2>4. Now = [m \in Node |-> RoleIn(Image(pool), m)]
    BY <1>s, <1>9, <2>3 DEF Ready
  <2>5. \A m \in Node :
          RoleIn(Image(WithRunning(pool, S)), m)
            = IF m \in S THEN "running" ELSE RoleIn(Image(pool), m)
    BY <1>p, <1>9, <2>2 DEF RoleIn, Image, File, Sound, IsPartition, WithRunning, Pool
  <2>6. \A m \in S : RoleIn(Image(pool), m) = "backup"
    BY <1>p, <1>9, <2>2, RoleOfSound
  <2>7. S \subseteq Roles!With("backup") /\ Roles!Assign(S)
    BY <2>2, <2>3, <2>4, <2>5, <2>6 DEF Roles!Assign, Roles!With, Roles!Moved, Now
  <2> QED BY <1>9, <2>2, <2>3, <2>7, OperationStep
<1>10. CASE Ready /\ Release /\ ~ mixed
  <2>1. /\ pool' = Released(pool) /\ Ready /\ pc' = "up" /\ ~ mixed'
        /\ disk' = disk /\ cut' \in {cut, TRUE}
    BY <1>10 DEF Release, Ready, history
  <2>2. Now' = [n \in Node |-> RoleIn(Image(Released(pool)), n)]
    BY <2>1 DEF Now, RoleNow, RoleIn, Image
  <2>3. Now = [n \in Node |-> RoleIn(Image(pool), n)]
    BY <1>s, <1>10, <2>1 DEF Ready
  <2>4. \A n \in Node :
          RoleIn(Image(Released(pool)), n)
            = IF RoleIn(Image(pool), n) = "running" THEN "backup" ELSE RoleIn(Image(pool), n)
    BY <1>p, <1>10 DEF RoleIn, Image, File, Sound, IsPartition, Released, Pool
  <2>5. Roles!ReleaseAll
    BY <2>2, <2>3, <2>4 DEF Roles!ReleaseAll, Roles!With, Roles!Moved, Now
  <2> QED BY <1>10, <2>1, <2>5, OperationStep
<1>11. CASE Crash
  <2>1. Now' = Roles!Unknown
    BY <1>11 DEF Crash, Now, RoleNow, Roles!Unknown
  <2>2. Kept' = Kept
    BY <1>11, <1>p DEF Crash, WriteOrder, Kept, RoleSaved, RoleIn
  <2> QED BY <2>1, <2>2 DEF Roles!Next, Roles!Die, Now, Kept
<1>12. CASE /\ mixed
            /\ \/ \E S \in SUBSET Node : AddTotal(S) \/ AddNormal(S) \/ AddAbnormal(S)
               \/ \E n \in 1..Cardinality(Node), grade \in [pool.backup -> Grade] : Apply(n, grade)
               \/ Release
  <2>1. mixed' = mixed /\ cut' \in {cut, TRUE}
    BY <1>12 DEF AddTotal, AddNormal, AddAbnormal, Apply, Allocate, Release, Change, history
  <2> QED BY <1>12, <1>p, <2>1, MixedStutters
<1> QED BY <1>1, <1>2, <1>3, <1>4, <1>5, <1>6, <1>7, <1>8, <1>9, <1>10, <1>11, <1>12
    DEF Next, Operation

\* Every behaviour of the pool, with its files, failed writes, deaths and restarts, is
\* a behaviour of NodeRoles.
THEOREM PoolImplementsRoles == Spec => RolesSpec
<1>1. Init => RInv
  BY InitIInv DEF Init, RInv
<1>2. Init => Roles!Init
  BY DEF Init, Roles!Init, Roles!Unknown, RoleNow, RoleSaved, RoleIn, Image, File, EmptyPool
<1>3. RInv /\ RInv' /\ [Next]_vars => [Roles!Next]_<<Now, Kept>>
  BY StepRefines
<1> QED BY <1>1, <1>2, <1>3, StepRInv, PTL DEF Spec, RolesSpec, Roles!Spec, Now, Kept

-----------------------------------------------------------------------------
(***************************************************************************)
(* A restart finds the assignment again.  While nobody but the operator's  *)
(* first hostfile and the pool's own expansions had a say, the total is    *)
(* the hostfile plus the recorded expansions (plus, in a live process, the *)
(* one being recorded), in the lists and in whole files; so the            *)
(* constructor recognises its files, or nothing was ever saved, and there  *)
(* is no assignment to lose.                                               *)
(***************************************************************************)
TotalKnown == known /\ pc = "up" /\ ~ mixed => pool.total = host \cup succ \cup pending

FilesKnown ==
  known /\ ~ cut => \/ disk["total"] = host \cup succ
                    \/ disk["total"] = {} /\ succ = {}
                    \/ pc = "up" /\ at = 0 /\ disk["total"] = host \cup succ \cup pending

KInv == RInv /\ TotalKnown /\ FilesKnown /\ (pc = "down" => pending = {})

\* What the constructor loads from whole files while FilesKnown holds.
LEMMA LoadedKnown ==
  ASSUME KInv, pc = "down", known, ~ cut
  PROVE  /\ Loaded.total = host \cup succ
         /\ Loaded.running = disk["running"]
         /\ Loaded.abnormal = disk["abnormal"]
<1>1. host # {} /\ Sound(OnDisk)
  BY DEF KInv, RInv, IInv, TypeOK, Hostfile, Whole
<1>2. CASE disk["total"] = host \cup succ
  <2>1. Loaded = Restored(disk["total"])
    BY <1>1, <1>2 DEF Loaded, Restores, Recognised
  <2> QED BY <1>2, <2>1 DEF Restored
<1>3. CASE disk["total"] = {} /\ succ = {}
  <2>1. disk["running"] = {} /\ disk["abnormal"] = {}
    BY <1>1, <1>3 DEF Sound, IsPartition, OnDisk
  <2>2. Loaded = FreshPool(host, {})
    BY <1>3 DEF Loaded, Restores
  <2> QED BY <1>3, <2>1, <2>2 DEF FreshPool
<1> QED BY <1>2, <1>3 DEF KInv, FilesKnown

\* The constructor, in the same states: it succeeds with what it loads.
LEMMA ConstructKeeps ==
  ASSUME KInv, Construct, known, ~ cut
  PROVE  KeepsAssignment /\ pc' = "up" /\ pool'.total = host \cup succ
<1>1. Validates(Loaded) /\ Clipped(Loaded) = Loaded
  BY LoadedSound, SoundValidates DEF KInv, RInv
<1>2. pc = "down" /\ pc' = "up" /\ pool' = Loaded
  BY <1>1 DEF Construct
<1> QED BY <1>2, LoadedKnown DEF KeepsAssignment

\* An operation that leaves total alone.
LEMMA TotalStays ==
  ASSUME KInv, Ready, disk' = disk, cut' \in {cut, TRUE}, mixed' = mixed,
         ~ mixed => pool'.total = pool.total, UNCHANGED <<pc, host, succ, pending, known>>
  PROVE  TotalKnown' /\ FilesKnown' /\ (pc = "down" => pending = {})'
BY DEF KInv, TotalKnown, FilesKnown, Ready

LEMMA StepKInv == KInv /\ [Next]_vars => KInv'
<1> SUFFICES ASSUME KInv, [Next]_vars
             PROVE  TotalKnown' /\ FilesKnown' /\ (pc = "down" => pending = {})'
  BY StepRInv DEF KInv
<1>p. IInv /\ TypeOK /\ pool \in Pool /\ (~ mixed => Sound(pool)) /\ WriteOrder
  BY DEF KInv, RInv, IInv, TypeOK
<1>k. TotalKnown /\ FilesKnown /\ (pc = "down" => pending = {})
  BY DEF KInv
<1>1. CASE Construct
  <2>1. UNCHANGED <<disk, host, succ, pending, cut>> /\ pc = "down" /\ (known' => known)
    BY <1>1 DEF Construct
  <2>2. FilesKnown'
    BY <1>k, <2>1 DEF FilesKnown
  <2>3. ASSUME known', pc' = "up", ~ mixed' PROVE pool'.total = host \cup succ
    <3>1. CASE cut
      <4>1. ~ Restores /\ succ = {} /\ pool' = Clipped(Loaded)
        BY <1>1, <2>1, <2>3, <3>1 DEF Construct
      <4>2. pool' = FreshPool(host, {})
        BY <1>p, <4>1, FreshSound, SoundValidates DEF Loaded, TypeOK, Hostfile
      <4> QED BY <4>1, <4>2 DEF FreshPool
    <3>2. CASE ~ cut
      BY <1>1, <2>1, <2>3, <3>2, ConstructKeeps
    <3> QED BY <3>1, <3>2
  <2> QED BY <1>k, <2>1, <2>2, <2>3 DEF TotalKnown
<1>2. CASE EditHostfile
  BY <1>2, <1>k DEF EditHostfile, TotalKnown, FilesKnown
<1>3. CASE OpenFile
  BY <1>3, <1>k DEF OpenFile, TotalKnown, FilesKnown
<1>4. CASE FillFile \/ FileFails
  <2>1. /\ UNCHANGED <<pc, pool, host, succ, pending, known, mixed>> /\ at > 0
        /\ ~ cut' => ~ mixed /\ disk' = Image(pool) /\ at = 5 /\ at' = (at + 1) % 6
    BY <1>4 DEF FillFile, FileFails, NextFile
  <2>2. ~ cut' => disk'["total"] = pool.total /\ at' = 0
    BY <2>1 DEF Image, File
  <2>3. pc = "up"
    BY <1>p, <2>1 DEF WriteOrder, TypeOK
  <2> QED BY <1>k, <2>1, <2>2, <2>3 DEF TotalKnown, FilesKnown
<1>5. ASSUME NEW h \in Hostfile, Ready, Reset(h)
      PROVE  TotalKnown' /\ FilesKnown' /\ (pc = "down" => pending = {})'
  BY <1>5 DEF Reset, Ready, TotalKnown, FilesKnown
<1>6. ASSUME NEW S \in SUBSET Node, Ready, AddTotal(S)
      PROVE  TotalKnown' /\ FilesKnown' /\ (pc = "down" => pending = {})'
  <2>1. /\ Ready /\ UNCHANGED <<pc, host, succ, mixed, disk, cut>>
        /\ pool' = Clipped(WithTotal(pool, S)) /\ (known' => known)
    BY <1>6 DEF AddTotal, Change
  <2>2. ASSUME ~ mixed
        PROVE  pool'.total = pool.total \cup (S \ pool.total) /\ pending' = S \ pool.total
    <3>1. Validates(WithTotal(pool, S)) /\ pool' = WithTotal(pool, S)
      BY <1>p, <2>1, <2>2, TotalSound, SoundValidates
    <3> QED BY <1>6, <1>p, <3>1 DEF AddTotal, WithTotal, Pool
  <2> QED BY <1>k, <2>1, <2>2 DEF Ready, TotalKnown, FilesKnown
<1>7. ASSUME NEW S \in SUBSET Node, Ready, AddNormal(S)
      PROVE  TotalKnown' /\ FilesKnown' /\ (pc = "down" => pending = {})'
  <2>1. WithNormal(pool, S).total = pool.total
    BY <1>p DEF WithNormal, Pool
  <2>2. ~ mixed => pool'.total = pool.total
    BY <1>7, <1>p, <2>1, NormalSound, SoundValidates DEF AddNormal, Change
  <2> QED BY <1>7, <2>2, TotalStays DEF AddNormal, Change
<1>8. ASSUME NEW S \in SUBSET Node, Ready, AddAbnormal(S)
      PROVE  TotalKnown' /\ FilesKnown' /\ (pc = "down" => pending = {})'
  <2>1. WithAbnormal(pool, S).total = pool.total
    BY <1>p DEF WithAbnormal, Pool
  <2>2. ~ mixed => pool'.total = pool.total
    BY <1>8, <1>p, <2>1, AbnormalSound, SoundValidates DEF AddAbnormal, Change
  <2> QED BY <1>8, <2>2, TotalStays DEF AddAbnormal, Change
<1>9. CASE AppendSucc
  <2>1. /\ UNCHANGED <<pc, pool, disk, at, host, cut, mixed>> /\ pending' = {} /\ pc = "up"
        /\ \/ succ' = succ \cup pending /\ known' = known
           \/ known' = FALSE
    BY <1>9 DEF AppendSucc, persist
  <2>2. CASE known' = FALSE
    BY <2>1, <2>2 DEF TotalKnown, FilesKnown
  <2>3. CASE succ' = succ \cup pending /\ known' = known
    <3>1. at = 0
      BY <1>9 DEF AppendSucc
    <3>2. TotalKnown'
      BY <1>k, <2>1, <2>3 DEF TotalKnown
    <3>3. ASSUME known', ~ cut' PROVE disk'["total"] = host' \cup succ'
      <4>1. disk["total"] = pool.total /\ ~ mixed
        BY <1>p, <2>1, <3>1, <3>3 DEF KInv, RInv, WriteOrder, Image, File
      <4> QED BY <1>k, <2>1, <2>3, <3>3, <4>1 DEF TotalKnown
    <3> QED BY <2>1, <3>2, <3>3 DEF FilesKnown
  <2> QED BY <2>1, <2>2, <2>3
<1>10. ASSUME NEW n, NEW grade, Ready, Apply(n, grade)
       PROVE  TotalKnown' /\ FilesKnown' /\ (pc = "down" => pending = {})'
  <2>1. PICK S \in Allocations(pool, grade, n) : Allocate(S)
    BY <1>10 DEF Apply
  <2>2. S \in SUBSET pool.backup
    BY <1>p, AllocationsUsable
  <2>3. WithRunning(pool, S).total = pool.total
    BY <1>p DEF WithRunning, Pool
  <2>4. ~ mixed => pool'.total = pool.total
    BY <1>p, <2>1, <2>2, <2>3, RunningSound, SoundValidates DEF Allocate, Change
  <2>5. disk' = disk /\ cut' \in {cut, TRUE}
    BY <2>1 DEF Allocate, Change, persist
  <2> QED BY <1>10, <2>4, <2>5, TotalStays DEF Apply
<1>11. CASE Ready /\ Release
  <2>1. pool'.total = pool.total
    BY <1>11, <1>p DEF Release, Released, Pool
  <2> QED BY <1>11, <2>1, TotalStays DEF Release, history
<1>12. CASE Crash
  <2>1. /\ pc' = "down" /\ pending' = {} /\ (known' => known /\ pending = {})
        /\ UNCHANGED <<host, succ, cut>> /\ (~ cut => disk' = disk)
    BY <1>12, <1>p DEF Crash, WriteOrder
  <2> QED BY <1>k, <2>1 DEF TotalKnown, FilesKnown
<1>13. CASE UNCHANGED vars
  BY <1>13, <1>k DEF vars, persist, history, TotalKnown, FilesKnown
<1> QED BY <1>1, <1>2, <1>3, <1>4, <1>5, <1>6, <1>7, <1>8, <1>9, <1>10, <1>11, <1>12, <1>13
        DEF Next, Operation

\* A controller that was killed and is constructed again runs on the nodes it ran on
\* and keeps isolated the nodes it had isolated, whatever expansions it made before,
\* unless the hostfile was rewritten, an expansion is missing from its record, or the
\* last write of the files was not brought to its end.
THEOREM RestartKept == Spec => RestartKeepsAssignment
<1>1. Init => KInv
  <2>1. Init => RInv
    BY InitIInv DEF Init, RInv
  <2> QED BY <2>1 DEF Init, KInv, TotalKnown, FilesKnown, Image, File, EmptyPool
<1>2. KInv /\ [Next]_vars
        => [pc = "down" /\ pc' = "up" /\ known /\ ~ cut => KeepsAssignment]_vars
  <2> SUFFICES ASSUME KInv, Next, pc = "down", pc' = "up", known, ~ cut
               PROVE  KeepsAssignment
    BY DEF vars
  <2>1. Construct
    BY DEF Next, Operation, EditHostfile, OpenFile, FillFile, FileFails, Reset, AddTotal, AddNormal,
           AddAbnormal, AppendSucc, Apply, Release, Crash, Ready
  <2> QED BY <2>1, ConstructKeeps
<1> QED BY <1>1, <1>2, StepKInv, PTL DEF Spec, RestartKeepsAssignment

-----------------------------------------------------------------------------
(* The blacklist whose grades the pool allocates by, for the same nodes.   *)

CONSTANTS SoftBan, AutoBan, RackFault, MaxReports, MaxFault

VARIABLES up, nodes, report, timeline, recent, dirty, save, main, bak, promised, reports, faults

B == INSTANCE Blacklist

BanRecord == [count : [B!FaultType -> Nat], listed : BOOLEAN, fatal : BOOLEAN, soft : BOOLEAN]
BanList == [Node -> BanRecord]
BanFile == {B!Absent, B!Torn} \cup [state : {"whole"}, list : BanList]

BlacklistTyped ==
  /\ up \in BOOLEAN /\ nodes \in BanList
  /\ report \in {B!NoReport} \cup [at : {"judged"}]
                \cup [at : {"noted"}, node : Node, fatal : BOOLEAN, type : B!FaultType]
  /\ save \in {B!NoSave} \cup [at : {"taken", "moved", "copying", "copied"}, snapshot : BanList]
  /\ main \in BanFile /\ bak \in BanFile /\ promised \in SUBSET Node /\ faults \in Nat

\* A save is made by a controller that runs, and what it has moved is the main file.
SaveOrdered ==
  /\ save # B!NoSave => up
  /\ save.at \in {"moved", "copying", "copied"} => main = B!Holding(save.snapshot)

Banning(list) == \A n \in promised : B!Banned(list, n)

\* The promised bans are wherever the next controller may have to read them.
BansKept ==
  /\ up => Banning(nodes)
  /\ B!Whole(main) => Banning(main.list)
  /\ B!Whole(bak) /\ (faults = 0 \/ main = B!Torn) => Banning(bak.list)
  /\ save # B!NoSave => Banning(save.snapshot)
  /\ save.at = "copied" /\ faults = 0 => bak = main

\* Two things that went wrong may lose a ban; types and order stay.
BInv == BlacklistTyped /\ SaveOrdered /\ (faults < 2 => BansKept)

\* The three forms of a file, and what each is not.
LEMMA BanShapes ==
  /\ B!NoRecord \in BanRecord /\ B!Fresh \in BanRecord /\ B!Empty \in BanList
  /\ B!Absent # B!Torn /\ ~ B!Whole(B!Absent) /\ ~ B!Whole(B!Torn)
  /\ \A l : /\ B!Whole(B!Holding(l)) /\ B!Holding(l).list = l
            /\ B!Holding(l) # B!Torn /\ B!Holding(l) # B!Absent
  /\ \A l \in BanList : B!Holding(l) \in BanFile
  /\ \A f \in BanFile : B!Whole(f) => f.list \in BanList /\ f = B!Holding(f.list)
  /\ \A f \in BanFile : ~ B!Whole(f) => f \in {B!Absent, B!Torn}
<1>1. B!NoRecord \in BanRecord
  BY DEF B!NoRecord, BanRecord
<1>2. B!Fresh \in BanRecord
  BY DEF B!Fresh, B!NoRecord, BanRecord
<1>3. B!Empty \in BanList
  BY <1>1 DEF B!Empty, BanList
<1>4. B!Absent # B!Torn /\ ~ B!Whole(B!Absent) /\ ~ B!Whole(B!Torn)
  BY DEF B!Absent, B!Torn, B!Whole
<1>5. \A l : B!Whole(B!Holding(l)) /\ B!Holding(l).list = l
             /\ B!Holding(l) # B!Torn /\ B!Holding(l) # B!Absent
  BY DEF B!Holding, B!Torn, B!Absent, B!Whole
<1>6. \A l \in BanList : B!Holding(l) \in BanFile
  BY DEF B!Holding, BanFile
<1>7. \A f \in BanFile : B!Whole(f) => f.list \in BanList /\ f = B!Holding(f.list)
  BY DEF B!Holding, BanFile, B!Absent, B!Torn, B!Whole
<1>8. \A f \in BanFile : ~ B!Whole(f) => f \in {B!Absent, B!Torn}
  BY DEF BanFile, B!Whole
<1> QED BY <1>1, <1>2, <1>3, <1>4, <1>5, <1>6, <1>7, <1>8

LEMMA BanStart == B!Init => BInv
<1> SUFFICES ASSUME B!Init PROVE BInv
  OBVIOUS
<1>1. BlacklistTyped
  BY BanShapes DEF B!Init, BlacklistTyped, B!NoReport, B!NoSave, BanFile
<1>2. SaveOrdered
  BY DEF B!Init, SaveOrdered, B!NoReport, B!NoSave
<1>3. BansKept
  BY BanShapes DEF B!Init, BansKept, B!NoSave
<1> QED BY <1>1, <1>2, <1>3 DEF BInv

\* The first step of a report lifts no ban; the second keeps the types.
LEMMA NotedKeeps ==
  ASSUME BInv, NEW n \in Node, NEW f \in B!FaultType, B!Noted(n, f)
  PROVE  /\ nodes' \in BanList
         /\ \A m \in Node : B!Banned(nodes, m) => B!Banned(nodes', m)
BY DEF BInv, BlacklistTyped, B!Noted, BanList, BanRecord, B!Banned

LEMMA JudgedTyped ==
  ASSUME BInv, NEW n \in Node, NEW fatal \in BOOLEAN, NEW soft \in BOOLEAN,
         B!Judged(n, fatal, soft)
  PROVE  nodes' \in BanList
<1>1. nodes \in BanList /\ B!AutoBanned(nodes[n]) \in BOOLEAN /\ B!Whitelisted(n) \in BOOLEAN
  BY DEF BInv, BlacklistTyped, B!AutoBanned, B!Whitelisted
<1> DEFINE F == (nodes[n].fatal \/ fatal \/ B!AutoBanned(nodes[n])) /\ ~ B!Whitelisted(n)
           S == (nodes[n].soft \/ (~ nodes[n].fatal /\ ~ fatal /\ soft)) /\ ~ B!Whitelisted(n)
<1>2. F \in BOOLEAN /\ S \in BOOLEAN
  BY <1>1
<1>3. nodes' = [nodes EXCEPT ![n].fatal = F, ![n].soft = S]
  BY DEF B!Judged
<1> HIDE DEF F, S
<1> QED BY <1>1, <1>2, <1>3 DEF BanList, BanRecord

\* Every step of the reporter, of the save, of a crash and of a start keeps it.
LEMMA BanStep == BInv /\ [B!Next]_B!vars => BInv'
<1> SUFFICES ASSUME BInv, [B!Next]_B!vars PROVE BInv'
  OBVIOUS
<1>0. BlacklistTyped /\ SaveOrdered /\ (faults < 2 => BansKept)
  BY DEF BInv
<1>1. ASSUME NEW n \in Node, B!RackFaultSeen(n) PROVE BInv'
  BY <1>0, <1>1 DEF B!RackFaultSeen, B!disk, BInv, BlacklistTyped, SaveOrdered, BansKept,
     Banning, B!Banned
<1>2. ASSUME NEW n \in Node, NEW f \in B!FaultType, B!FaultNoted(n, f) PROVE BInv'
  <2>1. /\ nodes' \in BanList
        /\ \A m \in Node : B!Banned(nodes, m) => B!Banned(nodes', m)
    BY <1>2, NotedKeeps DEF B!FaultNoted
  <2>2. PICK c \in BOOLEAN :
          report' = [at |-> "noted", node |-> n, fatal |-> c \/ f = "HCU", type |-> f]
    BY <1>2 DEF B!FaultNoted
  <2>3. recent' = recent \cup {n} /\ UNCHANGED <<up, save, main, bak, promised, faults>>
    BY <1>2 DEF B!FaultNoted, B!Noted, B!disk
  <2>4. BlacklistTyped'
    BY <1>0, <2>1, <2>2, <2>3 DEF BlacklistTyped
  <2>5. SaveOrdered'
    BY <1>0, <2>2, <2>3 DEF SaveOrdered
  <2>6. ASSUME BansKept PROVE BansKept'
    BY <1>0, <2>1, <2>3, <2>6 DEF BansKept, Banning, B!Banned, BlacklistTyped
  <2> QED BY <1>0, <2>3, <2>4, <2>5, <2>6 DEF BInv
<1>3. CASE B!FaultJudged
  <2>1. report.node \in Node /\ report.fatal \in BOOLEAN
    BY <1>0, <1>3 DEF B!FaultJudged, BlacklistTyped, B!NoReport
  <2>2. PICK soft \in BOOLEAN : B!Judged(report.node, report.fatal, soft)
    BY <1>3 DEF B!FaultJudged, B!SoftBans
  <2>3. nodes' \in BanList
    BY <2>1, <2>2, JudgedTyped
  <2>4. /\ report' = [at |-> "judged"]
        /\ promised' = {m \in promised : B!Banned(nodes', m)}
        /\ UNCHANGED <<up, save, main, bak, faults>>
    BY <1>3 DEF B!FaultJudged
  <2>5. BlacklistTyped' /\ SaveOrdered'
    BY <1>0, <2>3, <2>4 DEF BlacklistTyped, SaveOrdered
  <2>6. ASSUME BansKept PROVE BansKept'
    BY <1>0, <2>3, <2>4, <2>6 DEF BansKept, Banning, B!Banned, BlacklistTyped
  <2> QED BY <1>0, <2>4, <2>5, <2>6 DEF BInv
<1>4. CASE B!Reported
  BY <1>0, <1>4 DEF B!Reported, B!disk, BInv, BlacklistTyped, SaveOrdered, BansKept,
     Banning, B!Banned, B!NoReport
<1>5. ASSUME NEW n \in Node, B!Repaired(n) PROVE BInv'
  <2>1. PICK r \in {B!NoRecord, B!Fresh} : nodes' = [nodes EXCEPT ![n] = r]
    BY <1>5 DEF B!Repaired
  <2>2. /\ promised' = promised \ {n} /\ report = B!NoReport
        /\ UNCHANGED <<up, report, recent, save, main, bak, faults>>
    BY <1>5 DEF B!Repaired
  <2>3. nodes' \in BanList /\ \A m \in Node \ {n} : nodes'[m] = nodes[m]
    BY <1>0, <2>1, BanShapes DEF BlacklistTyped, BanList
  <2>4. BlacklistTyped' /\ SaveOrdered'
    BY <1>0, <2>2, <2>3 DEF BlacklistTyped, SaveOrdered
  <2>5. ASSUME BansKept PROVE BansKept'
    BY <1>0, <2>2, <2>3, <2>5 DEF BansKept, Banning, B!Banned, BlacklistTyped
  <2> QED BY <1>0, <2>2, <2>4, <2>5 DEF BInv
<1>6. CASE B!HoursPass
  BY <1>0, <1>6 DEF B!HoursPass, B!disk, BInv, BlacklistTyped, SaveOrdered, BansKept,
     Banning, B!Banned, B!NoReport
<1>7. CASE B!SnapshotTaken
  <2>1. /\ up /\ save' = [at |-> "taken", snapshot |-> nodes]
        /\ UNCHANGED <<up, nodes, report, recent, main, bak, promised, faults>>
    BY <1>7 DEF B!SnapshotTaken, B!disk
  <2>2. BlacklistTyped' /\ SaveOrdered'
    BY <1>0, <2>1 DEF BlacklistTyped, SaveOrdered
  <2>3. ASSUME BansKept PROVE BansKept'
    BY <1>0, <2>1, <2>3 DEF BansKept, Banning, B!Banned
  <2> QED BY <1>0, <2>1, <2>2, <2>3 DEF BInv
<1>8. CASE B!MainReplaced
  <2>1. /\ save # B!NoSave /\ main' = B!Holding(save.snapshot) /\ save.snapshot \in BanList
        /\ save' = [save EXCEPT !.at = "moved"]
        /\ save \in [at : {"taken", "moved", "copying", "copied"}, snapshot : BanList]
        /\ UNCHANGED <<up, nodes, report, recent, bak, promised, faults>>
    BY <1>0, <1>8 DEF B!MainReplaced, BlacklistTyped, B!NoSave
  <2>2. save' \in [at : {"moved"}, snapshot : BanList] /\ save'.snapshot = save.snapshot
    BY <2>1
  <2>3. BlacklistTyped' /\ SaveOrdered'
    BY <1>0, <2>1, <2>2, BanShapes DEF BlacklistTyped, SaveOrdered
  <2>4. ASSUME BansKept PROVE BansKept'
    BY <1>0, <2>1, <2>2, <2>4, BanShapes DEF BansKept, Banning, B!Banned
  <2> QED BY <1>0, <2>1, <2>3, <2>4 DEF BInv
<1>9. CASE B!SaveFailed
  <2>1. /\ save' = B!NoSave /\ faults' = faults + 1
        /\ UNCHANGED <<up, nodes, report, recent, main, bak, promised>>
    BY <1>9 DEF B!SaveFailed, B!disk, B!Fault
  <2>2. BlacklistTyped' /\ SaveOrdered'
    BY <1>0, <2>1 DEF BlacklistTyped, SaveOrdered, B!NoSave
  <2>3. ASSUME BansKept PROVE BansKept'
    BY <1>0, <2>1, <2>3 DEF BansKept, Banning, B!Banned, B!NoSave, BlacklistTyped
  <2> QED BY <1>0, <2>1, <2>2, <2>3 DEF BInv, BlacklistTyped
<1>10. CASE B!CopyBegun
  <2>1. /\ save.at = "moved" /\ main = B!Holding(save.snapshot)
        /\ save \in [at : {"taken", "moved", "copying", "copied"}, snapshot : BanList]
        /\ UNCHANGED <<up, nodes, report, recent, main, promised>>
    BY <1>0, <1>10 DEF B!CopyBegun, BlacklistTyped, SaveOrdered, B!NoSave
  <2>2. \/ bak' = B!Torn /\ save' = [save EXCEPT !.at = "copying"] /\ faults' = faults
        \/ bak' = bak /\ save' = [save EXCEPT !.at = "copied"] /\ faults' = faults + 1
    BY <1>10 DEF B!CopyBegun, B!Fault, B!NoFault
  <2>3. /\ save'.snapshot = save.snapshot /\ save # B!NoSave
        /\ save' \in [at : {"copying", "copied"}, snapshot : BanList]
    BY <2>1, <2>2 DEF B!NoSave
  <2>4. BlacklistTyped' /\ SaveOrdered'
    BY <1>0, <2>1, <2>2, <2>3 DEF BlacklistTyped, SaveOrdered, BanFile
  <2>5. ASSUME BansKept PROVE BansKept'
    BY <1>0, <2>1, <2>2, <2>3, <2>5, BanShapes DEF BansKept, Banning, B!Banned, BlacklistTyped
  <2> QED BY <1>0, <2>2, <2>4, <2>5 DEF BInv, BlacklistTyped
<1>11. CASE B!CopyEnded
  <2>1. /\ save.at = "copying" /\ main = B!Holding(save.snapshot)
        /\ save \in [at : {"taken", "moved", "copying", "copied"}, snapshot : BanList]
        /\ save' = [save EXCEPT !.at = "copied"]
        /\ UNCHANGED <<up, nodes, report, recent, main, promised>>
    BY <1>0, <1>11 DEF B!CopyEnded, BlacklistTyped, SaveOrdered, B!NoSave
  <2>2. \/ bak' = main /\ faults' = faults
        \/ bak' = bak /\ faults' = faults + 1
    BY <1>11 DEF B!CopyEnded, B!Fault, B!NoFault
  <2>3. /\ save'.snapshot = save.snapshot /\ save # B!NoSave
        /\ save' \in [at : {"copied"}, snapshot : BanList]
    BY <2>1 DEF B!NoSave
  <2>4. BlacklistTyped' /\ SaveOrdered'
    BY <1>0, <2>1, <2>2, <2>3 DEF BlacklistTyped, SaveOrdered, BanFile
  <2>5. ASSUME BansKept PROVE BansKept'
    BY <1>0, <2>1, <2>2, <2>3, <2>5, BanShapes DEF BansKept, Banning, B!Banned, BlacklistTyped
  <2> QED BY <1>0, <2>2, <2>4, <2>5 DEF BInv, BlacklistTyped
<1>12. CASE B!Persisted
  <2>1. /\ save.at = "copied" /\ main = B!Holding(save.snapshot)
        /\ save' = B!NoSave /\ save # B!NoSave /\ up
        /\ promised' = {n \in Node : B!Banned(save.snapshot, n) /\ B!Banned(nodes, n)}
        /\ UNCHANGED <<up, nodes, report, recent, main, bak, faults>>
    BY <1>0, <1>12 DEF B!Persisted, SaveOrdered, B!NoSave
  <2>2. BlacklistTyped' /\ SaveOrdered'
    BY <1>0, <2>1 DEF BlacklistTyped, SaveOrdered, B!NoSave
  <2>3. ASSUME BansKept PROVE BansKept'
    BY <1>0, <2>1, <2>3, BanShapes DEF BansKept, Banning, B!Banned, B!NoSave
  <2> QED BY <1>0, <2>1, <2>2, <2>3 DEF BInv
<1>13. CASE B!Crash
  <2>1. /\ up' = FALSE /\ nodes' = B!Empty /\ report' = B!NoReport /\ save' = B!NoSave
        /\ UNCHANGED <<recent, main, bak, promised, faults>>
    BY <1>13 DEF B!Crash, B!disk
  <2>2. BlacklistTyped' /\ SaveOrdered'
    BY <1>0, <2>1, BanShapes DEF BlacklistTyped, SaveOrdered, B!NoSave, B!NoReport
  <2>3. ASSUME BansKept PROVE BansKept'
    BY <1>0, <2>1, <2>3 DEF BansKept, Banning, B!Banned, B!NoSave
  <2> QED BY <1>0, <2>1, <2>2, <2>3 DEF BInv
<1>14. CASE B!Damaged
  <2>1. /\ ~ up /\ main' \in {B!Torn, B!Absent} /\ faults' = faults + 1
        /\ UNCHANGED <<up, nodes, report, recent, save, bak, promised>>
    BY <1>14 DEF B!Damaged, B!Fault
  <2>2. BlacklistTyped' /\ SaveOrdered'
    BY <1>0, <2>1 DEF BlacklistTyped, SaveOrdered, B!NoSave, BanFile
  <2>3. ASSUME BansKept, faults = 0 PROVE BansKept'
    BY <1>0, <2>1, <2>3, BanShapes DEF BansKept, Banning, B!Banned, SaveOrdered, B!NoSave
  <2> QED BY <1>0, <2>1, <2>2, <2>3 DEF BInv, BlacklistTyped
<1>15. CASE B!Started
  <2>1. /\ ~ up /\ up' /\ nodes' = B!Loaded /\ up' \in BOOLEAN
        /\ UNCHANGED <<report, recent, save, bak>>
    BY <1>15 DEF B!Started
  <2>2. /\ main' = main \/ main' = B!Holding(B!Loaded)
        /\ main' = main \/ main = B!Absent \/ (main = B!Torn /\ B!Whole(bak))
        /\ faults' = faults \/ faults' = faults + 1
    BY <1>15 DEF B!Started, B!Fault, B!NoFault
  <2>3. promised' = IF main = B!Absent \/ ~ (B!Whole(main) \/ B!Whole(bak)) THEN {} ELSE promised
    BY <1>15 DEF B!Started
  <2>4. B!Loaded \in BanList /\ save = B!NoSave
    BY <1>0, <2>1, BanShapes DEF BlacklistTyped, SaveOrdered, B!Loaded
  <2>5. BlacklistTyped' /\ SaveOrdered'
    BY <1>0, <2>1, <2>2, <2>3, <2>4, BanShapes DEF BlacklistTyped, SaveOrdered, B!NoSave
  <2>6. ASSUME BansKept, promised' # {}
        PROVE  promised' = promised /\ Banning(B!Loaded)
    BY <1>0, <2>3, <2>6, BanShapes DEF BansKept, B!Loaded, BlacklistTyped
  <2>7. ASSUME BansKept PROVE BansKept'
    <3>1. save'.at # "copied" /\ save' = B!NoSave
      BY <2>1, <2>4 DEF B!NoSave
    <3>2. CASE promised' = {}
      BY <3>1, <3>2 DEF BansKept, Banning
    <3>3. CASE promised' # {}
      <4>1. promised' = promised /\ Banning(B!Loaded)
        BY <2>6, <2>7, <3>3
      <4>2. (up => Banning(nodes))' /\ (B!Whole(main) => Banning(main.list))'
        BY <2>1, <2>2, <2>7, <4>1, BanShapes DEF BansKept, Banning, B!Banned
      <4>3. (B!Whole(bak) /\ (faults = 0 \/ main = B!Torn) => Banning(bak.list))'
        BY <1>0, <2>1, <2>2, <2>7, <4>1, BanShapes DEF BansKept, Banning, B!Banned, BlacklistTyped
      <4> QED BY <3>1, <4>2, <4>3 DEF BansKept
    <3> QED BY <3>2, <3>3
  <2> QED BY <1>0, <2>2, <2>5, <2>7 DEF BInv, BlacklistTyped
<1>16. CASE UNCHANGED B!vars
  BY <1>0, <1>16 DEF B!vars, BInv, BlacklistTyped, SaveOrdered, BansKept, Banning, B!Banned
<1> QED
  BY <1>1, <1>2, <1>3, <1>4, <1>5, <1>6, <1>7, <1>8, <1>9, <1>10, <1>11, <1>12, <1>13,
     <1>14, <1>15, <1>16 DEF B!Next

\* For every set of nodes, thresholds and number of reports: while at most one thing went
\* wrong and the main file was not removed, the bans of a completed save are in force
\* again after every restart.
THEOREM BansSafe == B!Spec => B!RestartRemembers
<1> DEFINE A == /\ ~ up /\ up' /\ faults < 2
                /\ main # B!Absent /\ (B!Whole(main) \/ B!Whole(bak))
                => \A n \in promised : B!Banned(nodes', n)
<1>1. BInv /\ [B!Next]_B!vars => [A]_B!vars
  <2> SUFFICES ASSUME BInv, [B!Next]_B!vars, ~ up, up', faults < 2, main # B!Absent,
                      B!Whole(main) \/ B!Whole(bak)
               PROVE  \A n \in promised : B!Banned(nodes', n)
    OBVIOUS
  <2>1. B!Started
    BY DEF B!Next, B!vars, B!RackFaultSeen, B!FaultNoted, B!FaultJudged, B!Reported, B!Repaired,
       B!HoursPass, B!SnapshotTaken, B!MainReplaced, B!SaveFailed, B!CopyBegun, B!CopyEnded,
       B!Persisted, B!Crash, B!Damaged
  <2>2. nodes' = B!Loaded /\ promised \in SUBSET Node /\ main \in BanFile /\ BansKept
    BY <2>1 DEF B!Started, BInv, BlacklistTyped
  <2>3. Banning(B!Loaded)
    BY <2>2, BanShapes DEF B!Loaded, BansKept
  <2> QED BY <2>2, <2>3 DEF Banning
<1>2. B!Init => BInv
  BY BanStart
<1>3. BInv /\ [B!Next]_B!vars => BInv'
  BY BanStep
<1> QED BY <1>1, <1>2, <1>3, PTL DEF B!Spec, B!RestartRemembers
=============================================================================
