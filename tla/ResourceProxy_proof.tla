-------------------------- MODULE ResourceProxy_proof --------------------------
(***************************************************************************)
(* Proofs about the request for nodes, for every finite set of nodes and   *)
(* every number of nodes the job needs: it is answered with exactly that   *)
(* many, all in the running list and none isolated, whatever the probes,   *)
(* the queue and the blacklist answer and however the two threads          *)
(* interleave; and a request that is stuck stays stuck.                    *)
(***************************************************************************)
EXTENDS ResourceProxy, FiniteSetTheorems, TLAPS

\* The lists are a partition, and an isolated node is not normal.
Sound(p) == IsPartition(p) /\ p.normal \subseteq p.total \ p.abnormal

\* The running list is empty or complete.
AllOrNothing == pool.running = {} \/ Cardinality(pool.running) = Required

\* The inductive invariant.  FullRequest alone is not inductive: a deficit is
\* computed from the running list, so that list may never hold fewer nodes than
\* the job needs, and a round that applies has to start from an empty one.
IInv ==
  /\ TypeOK
  /\ Sound(pool)
  /\ FullRequest
  /\ AllOrNothing
  /\ Waiting /\ needApply => pool.running = {}
  /\ job = "running" => grant \in Grant

-----------------------------------------------------------------------------
(* What this module needs of the operators of the pool. *)

LEMMA FreshSound ==
  ASSUME NEW h \in SUBSET Node
  PROVE  FreshPool(h, {}) \in Pool /\ Sound(FreshPool(h, {}))
BY DEF FreshPool, Pool, Sound, IsPartition

LEMMA TotalSound ==
  ASSUME NEW p \in Pool, Sound(p), NEW S \in SUBSET Node
  PROVE  WithTotal(p, S) \in Pool /\ Sound(WithTotal(p, S))
BY DEF WithTotal, Pool, Sound, IsPartition

LEMMA NormalSound ==
  ASSUME NEW p \in Pool, Sound(p), NEW S \in SUBSET Node
  PROVE  WithNormal(p, S) \in Pool /\ Sound(WithNormal(p, S))
BY DEF WithNormal, Pool, Sound, IsPartition

LEMMA AbnormalSound ==
  ASSUME NEW p \in Pool, Sound(p), NEW S \in SUBSET Node,
         S \subseteq p.total, S \cap p.abnormal = {}
  PROVE  WithAbnormal(p, S) \in Pool /\ Sound(WithAbnormal(p, S))
<1>1. CASE S \cap p.running = {}
  BY <1>1 DEF WithAbnormal, Pool, Sound, IsPartition
<1>2. CASE S \cap p.running # {}
  BY <1>2 DEF WithAbnormal, Pool, Sound, IsPartition
<1> QED BY <1>1, <1>2

LEMMA ReleasedSound ==
  ASSUME NEW p \in Pool, Sound(p)
  PROVE  Released(p) \in Pool /\ Sound(Released(p))
BY DEF Released, Pool, Sound, IsPartition

LEMMA RunningSound ==
  ASSUME NEW p \in Pool, Sound(p), NEW S \in SUBSET p.backup
  PROVE  WithRunning(p, S) \in Pool /\ Sound(WithRunning(p, S))
BY DEF WithRunning, Pool, Sound, IsPartition

\* A choice of k nodes has k nodes, in recycle mode too: what is not kept of the
\* previous nodes is replaced one for one.
LEMMA AllocationSize ==
  ASSUME NEW p \in Pool, NEW grade, NEW n, NEW S \in Allocations(p, grade, n)
  PROVE  S \in SUBSET p.backup /\ Cardinality(S) = n
<1> DEFINE H == Healthy(p, grade)  D == Degraded(p, grade)  L == p.last
<1>1. H \subseteq p.backup /\ D \subseteq p.backup
  BY DEF Healthy, Degraded
<1>2. CASE S \in FreshChoice(p, grade, n)
  BY <1>1, <1>2 DEF FreshChoice, HealthyFirst
<1>3. CASE S \in RecycleChoice(p, grade) /\ n = Cardinality(L)
  <2>1. PICK kept \in SUBSET L, R \in SUBSET ((H \cup D) \ L) :
                  /\ S = kept \cup R /\ kept \subseteq H \cup D
                  /\ Cardinality(R) = Cardinality(L \ kept)
    BY <1>3 DEF RecycleChoice, HealthyFirst
  <2>2. L \subseteq Node /\ R \subseteq Node
    BY <1>1, <2>1 DEF Pool
  <2>3. IsFiniteSet(kept) /\ IsFiniteSet(R) /\ IsFiniteSet(L \ kept)
    BY <2>2, <2>1, NodeFinite, FS_Subset
  <2>4. kept \cap R = {} /\ kept \cap (L \ kept) = {} /\ kept \cup (L \ kept) = L
    BY <2>1
  <2>5. Cardinality(S) = Cardinality(kept) + Cardinality(R) - Cardinality({})
    BY <2>1, <2>3, <2>4, FS_Union
  <2>6. Cardinality(L) = Cardinality(kept) + Cardinality(L \ kept) - Cardinality({})
    BY <2>3, <2>4, FS_Union
  <2> QED BY <1>1, <1>3, <2>1, <2>5, <2>6
<1> QED BY <1>2, <1>3 DEF Allocations

-----------------------------------------------------------------------------
LEMMA HealedSound ==
  ASSUME NEW p \in Pool, Sound(p), NEW S \in SUBSET Node
  PROVE  Healed(p, S) \in Pool /\ Sound(Healed(p, S)) /\ Healed(p, S).running = p.running
<1>1. CASE S = {}
  BY <1>1 DEF Healed
<1>2. CASE S # {}
  <2>1. Healed(p, S) = WithNormal(p, S)
    BY <1>2 DEF Healed
  <2>2. WithNormal(p, S).running = p.running
    BY DEF WithNormal, Pool
  <2> QED BY <2>1, <2>2, NormalSound
<1> QED BY <1>1, <1>2

\* What a round may find: nothing, when it is short, and otherwise a sound record
\* with a complete running list.
LEMMA AttemptOutcome ==
  ASSUME IInv, pc["mgr"] = "ask", NEW a \in Attempts
  PROVE  /\ a[1] \in Pool /\ Sound(a[1])
         /\ Enough(a) => Cardinality(a[1].running) = Required
         /\ ~ Enough(a) => /\ Cardinality(a[2]) = 0
                           /\ a[1] = pool
                           /\ pool.running = {}
<1>0. /\ pool \in Pool /\ Sound(pool) /\ actual = Required
      /\ Required \in Nat /\ Required > 0 /\ Cardinality({}) = 0
  BY RequiredPositive, FS_EmptySet DEF IInv, TypeOK, FullRequest
<1>1. CASE ~ needApply
  <2>1. a[1] = pool /\ a[2] = pool.running
    BY <1>1 DEF Attempts
  <2> QED BY <1>0, <2>1 DEF Enough, IInv, AllOrNothing
<1>2. CASE needApply
  <2>1. pool.running = {}
    BY <1>2 DEF IInv, Waiting
  <2>2. PICK grade \in Grades :
          a \in IF Allocations(pool, grade, actual) = {} THEN {<<pool, {}>>}
                ELSE {<<WithRunning(pool, S), pool.running \cup S>> :
                        S \in Allocations(pool, grade, actual)}
    BY <1>2 DEF Attempts
  <2>3. CASE a = <<pool, {}>>
    BY <1>0, <2>1, <2>3 DEF Enough
  <2>4. ASSUME NEW S \in Allocations(pool, grade, actual),
               a = <<WithRunning(pool, S), pool.running \cup S>>
        PROVE  /\ a[1] \in Pool /\ Sound(a[1])
               /\ Cardinality(a[1].running) = Required /\ Enough(a)
    <3>1. S \in SUBSET pool.backup /\ Cardinality(S) = Required
      BY <1>0, AllocationSize
    <3>2. a[1] = WithRunning(pool, S) /\ a[2] = S /\ a[1].running = S
      BY <1>0, <2>1, <2>4 DEF WithRunning, Pool
    <3> QED BY <1>0, <3>1, <3>2, RunningSound DEF Enough
  <2> QED BY <2>2, <2>3, <2>4
<1> QED BY <1>1, <1>2

-----------------------------------------------------------------------------
LEMMA InitIInv == Init => IInv
<1> SUFFICES ASSUME Init PROVE IInv
  OBVIOUS
<1>1. hostfile \in SUBSET Node
  BY DEF Init, Grant
<1>2. pool \in Pool /\ Sound(pool) /\ pool.running = {}
  BY <1>1, FreshSound DEF Init, FreshPool
<1>3. pc \in Place
  BY DEF Init, Place
<1>4. actual \in 0..Required
  BY RequiredPositive DEF Init
<1>5. TypeOK
  BY <1>1, <1>2, <1>3, <1>4 DEF Init, TypeOK
<1> QED BY <1>2, <1>5 DEF Init, IInv, FullRequest, AllOrNothing

\* Moving one thread to a place of its own.
LEMMA Moved ==
  ASSUME pc \in Place, NEW t \in Thread, NEW q, To(t, q)
  PROVE  /\ pc'[t] = q /\ \A u \in Thread \ {t} : pc'[u] = pc[u]
         /\ t = "mgr" /\ q \in {"ask", "submit", "wait", "nap", "served", "stopping", "refused"}
              => pc' \in Place
         /\ t = "nhc" /\ q \in {"watch", "submit", "wait", "nap"} => pc' \in Place
BY DEF Place, Thread, To

\* One round of the request.
LEMMA AskIInv == IInv /\ Ask => IInv'
<1> SUFFICES ASSUME IInv, Ask PROVE IInv'
  OBVIOUS
<1>r. pc["mgr"] = "ask" /\ UNCHANGED <<scheduler, hostfile, job, grant, calm, alarm>>
  BY DEF Ask, Refuse, QueryFails, QueueGone, Replenish, ProbeFails, ProbeFindsBad, Serve, Round
<1>p. /\ pool \in Pool /\ Sound(pool) /\ actual = Required /\ pc \in Place
      /\ Required \in Nat /\ Required > 0 /\ 0 \in 0..Required /\ Required \in 0..Required
  BY RequiredPositive DEF IInv, TypeOK, FullRequest
<1>m. ASSUME NEW q \in {"ask", "submit", "served", "refused"}, To("mgr", q)
      PROVE  pc'["mgr"] = q /\ pc' \in Place
  BY <1>m, <1>p, Moved DEF Thread
<1>1. CASE Refuse
  <2>1. UNCHANGED <<pool, request, slots>> /\ pc'["mgr"] = "refused" /\ pc' \in Place
    BY <1>1, <1>m DEF Refuse
  <2> QED BY <2>1, <1>r DEF IInv, TypeOK, FullRequest, AllOrNothing, Waiting, request
<1>2. CASE QueryFails
  BY <1>2, <1>r DEF QueryFails, IInv, TypeOK, FullRequest, AllOrNothing, Waiting
<1>3. CASE QueueGone
  <2>1. pc'["mgr"] = "submit" /\ pc' \in Place
    BY <1>3, <1>m DEF QueueGone
  <2>2. pool' \in Pool /\ Sound(pool') /\ pool'.running = {}
    BY <1>3, <1>p, ReleasedSound DEF QueueGone, Released, Pool
  <2>3. actual' = Required /\ UNCHANGED <<needApply, slots>>
    BY <1>3 DEF QueueGone
  <2> QED BY <2>1, <2>2, <2>3, <1>r, <1>p DEF IInv, TypeOK, FullRequest, AllOrNothing
<1>4. CASE Replenish
  <2>1. PICK a \in Attempts, S \in Additional(pool) :
          /\ ~ Enough(a)
          /\ actual' = actual - Cardinality(a[2])
          /\ \/ pool' = WithTotal(pool, S)
             \/ \E bad \in Failing(WithTotal(pool, S).abnormal) :
                  pool' = Healed(WithTotal(pool, S), WithTotal(pool, S).abnormal \ bad)
    BY <1>4 DEF Replenish
  <2>2. pool.running = {} /\ actual' = Required
    BY <1>p, <1>r, <2>1, AttemptOutcome
  <2>3. S \in SUBSET Node
    BY <2>1 DEF Additional
  <2>4. WithTotal(pool, S) \in Pool /\ Sound(WithTotal(pool, S))
        /\ WithTotal(pool, S).running = {}
    BY <1>p, <2>2, <2>3, TotalSound DEF WithTotal, Pool
  <2>5. ASSUME NEW bad
        PROVE  LET q == Healed(WithTotal(pool, S), WithTotal(pool, S).abnormal \ bad)
               IN  q \in Pool /\ Sound(q) /\ q.running = {}
    <3>1. WithTotal(pool, S).abnormal \ bad \in SUBSET Node
      BY <2>4 DEF Pool
    <3> QED BY <2>4, <3>1, HealedSound
  <2>6. pool' \in Pool /\ Sound(pool') /\ pool'.running = {}
    BY <2>1, <2>4, <2>5
  <2>7. UNCHANGED <<pc, needApply, slots>>
    BY <1>4 DEF Replenish
  <2> QED BY <2>2, <2>6, <2>7, <1>r, <1>p DEF IInv, TypeOK, FullRequest, AllOrNothing
<1>5. CASE ProbeFails
  <2>1. PICK a \in Attempts : Enough(a) /\ pool' = a[1]
    BY <1>5 DEF ProbeFails
  <2>2. pool' \in Pool /\ Sound(pool') /\ Cardinality(pool'.running) = Required
    BY <1>r, <2>1, AttemptOutcome
  <2>3. needApply' = FALSE /\ UNCHANGED <<pc, actual, slots>>
    BY <1>5 DEF ProbeFails
  <2> QED BY <2>2, <2>3, <1>r DEF IInv, TypeOK, FullRequest, AllOrNothing
<1>6. CASE ProbeFindsBad
  <2>0. PICK a \in Attempts : \E bad \in Failing(a[1].running) \ {{}} :
          Enough(a) /\ pool' = WithAbnormal(a[1], bad)
    BY <1>6 DEF ProbeFindsBad
  <2>1. PICK bad \in Failing(a[1].running) \ {{}} :
          Enough(a) /\ pool' = WithAbnormal(a[1], bad)
    BY <2>0
  <2>2. a[1] \in Pool /\ Sound(a[1])
    BY <1>r, <2>1, AttemptOutcome
  <2>3. bad \subseteq a[1].running /\ bad # {}
    BY <2>1 DEF Failing
  <2>4. bad \in SUBSET Node /\ bad \subseteq a[1].total /\ bad \cap a[1].abnormal = {}
    BY <2>2, <2>3 DEF Pool, Sound, IsPartition
  <2>5. pool' \in Pool /\ Sound(pool') /\ pool'.running = {}
    BY <2>1, <2>2, <2>3, <2>4, AbnormalSound DEF WithAbnormal, Pool
  <2>6. needApply' = TRUE /\ actual' = Required /\ UNCHANGED <<pc, slots>>
    BY <1>6 DEF ProbeFindsBad
  <2> QED BY <2>5, <2>6, <1>r, <1>p DEF IInv, TypeOK, FullRequest, AllOrNothing
<1>7. CASE Serve
  <2>1. PICK a \in Attempts : Enough(a) /\ pool' = a[1]
    BY <1>7 DEF Serve
  <2>2. pool' \in Pool /\ Sound(pool') /\ Cardinality(pool'.running) = Required
    BY <1>r, <2>1, AttemptOutcome
  <2>3. slots' = pool'.running /\ UNCHANGED request /\ pc'["mgr"] = "served" /\ pc' \in Place
    BY <1>7, <1>m DEF Serve
  <2>4. slots' \in SUBSET Node
    BY <2>2, <2>3 DEF Pool
  <2> QED BY <2>2, <2>3, <2>4, <1>r
          DEF IInv, TypeOK, FullRequest, AllOrNothing, Waiting, request
<1> QED BY <1>1, <1>2, <1>3, <1>4, <1>5, <1>6, <1>7 DEF Ask

\* One stage of _resubmit_job, in either thread.
LEMMA ResubmitIInv ==
  ASSUME IInv, NEW t \in Thread, Resubmit(t)
  PROVE  IInv'
<1>p. /\ pool \in Pool /\ Sound(pool) /\ pc \in Place /\ actual = Required
      /\ UNCHANGED <<scheduler, request, slots, alarm, calm>>
  BY DEF IInv, TypeOK, FullRequest, Resubmit, Sbatch, SbatchFails, GotNodes, WaitFails, Recheck
<1>m. ASSUME NEW q \in {"submit", "wait", "nap", Home(t)}, To(t, q),
             pc[t] \in {"submit", "wait", "nap"}
      PROVE  /\ pc' \in Place
             /\ pc'["mgr"] \in {"served", "stopping"} => pc["mgr"] = pc'["mgr"]
             /\ Waiting' => Waiting
  <2>1. CASE t = "mgr"
    <3>1. pc'["mgr"] = q /\ q \in {"ask", "submit", "wait", "nap"} /\ pc' \in Place
      BY <1>m, <1>p, <2>1, Moved DEF Home
    <3> QED BY <1>m, <2>1, <3>1 DEF Waiting
  <2>2. CASE t = "nhc"
    <3>1. pc'["mgr"] = pc["mgr"] /\ pc' \in Place
      BY <1>m, <1>p, <2>2, Moved DEF Home, Thread
    <3> QED BY <3>1 DEF Waiting
  <2> QED BY <2>1, <2>2 DEF Thread
<1>g. grant \in SUBSET Node /\ hostfile \in Grant /\ hostfile \in SUBSET Node
  BY DEF IInv, TypeOK, Grant
<1>1. CASE Sbatch(t) \/ SbatchFails(t) \/ WaitFails(t)
  <2>1. /\ UNCHANGED <<pool, hostfile>> /\ job' \in {"absent", "pending", "running"}
        /\ grant' \in SUBSET Node /\ (job' = "running" => grant' \in Grant)
    BY <1>1, <1>g DEF Sbatch, SbatchFails, WaitFails, IInv, TypeOK
  <2>2. /\ pc' \in Place
        /\ pc'["mgr"] \in {"served", "stopping"} => pc["mgr"] = pc'["mgr"]
        /\ Waiting' => Waiting
    BY <1>1, <1>m DEF Sbatch, SbatchFails, WaitFails
  <2> QED BY <2>1, <2>2, <1>p DEF IInv, TypeOK, FullRequest, AllOrNothing, request
<1>2. CASE GotNodes(t)
  <2>1. /\ pc' \in Place
        /\ pc'["mgr"] \in {"served", "stopping"} => pc["mgr"] = pc'["mgr"]
    BY <1>2, <1>m DEF GotNodes
  <2>2. pool' \in Pool /\ Sound(pool') /\ pool'.running = {}
    BY <1>2, <1>g, FreshSound DEF GotNodes, FreshPool
  <2>3. hostfile' = grant /\ job' = job /\ grant' = grant /\ grant \in Grant
    BY <1>2 DEF GotNodes, IInv
  <2> QED BY <2>1, <2>2, <2>3, <1>p DEF IInv, TypeOK, FullRequest, AllOrNothing, request
<1>3. CASE Recheck(t)
  <2>1. /\ pc' \in Place
        /\ pc'["mgr"] \in {"served", "stopping"} => pc["mgr"] = pc'["mgr"]
        /\ Waiting' => Waiting
    BY <1>3, <1>m DEF Recheck
  <2>2. /\ UNCHANGED <<hostfile, job, grant>>
        /\ pool' = FreshPool(hostfile, {}) \/ pool' = pool
    BY <1>3 DEF Recheck
  <2>3. pool' \in Pool /\ Sound(pool') /\ (pool'.running = {} \/ pool' = pool)
    BY <1>g, <1>p, <2>2, FreshSound DEF FreshPool
  <2> QED BY <2>1, <2>2, <2>3, <1>p DEF IInv, TypeOK, FullRequest, AllOrNothing, request
<1> QED BY <1>1, <1>2, <1>3 DEF Resubmit

LEMMA StepIInv == IInv /\ [Next]_vars => IInv'
<1> SUFFICES ASSUME IInv, [Next]_vars PROVE IInv'
  OBVIOUS
<1>p. /\ pool \in Pool /\ Sound(pool) /\ pc \in Place /\ actual = Required
      /\ Required \in Nat /\ Required \in 0..Required
  BY RequiredPositive DEF IInv, TypeOK, FullRequest
<1>1. CASE Ask
  BY <1>1, AskIInv
<1>2. ASSUME NEW t \in Thread, Resubmit(t) PROVE IInv'
  BY <1>2, ResubmitIInv
<1>3. CASE QueueCheck
  <2>1. pc' \in Place /\ pc'["mgr"] = pc["mgr"]
    BY <1>3, <1>p, Moved DEF QueueCheck, Thread
  <2> QED BY <1>3, <2>1
          DEF QueueCheck, IInv, TypeOK, FullRequest, AllOrNothing, Waiting, request
<1>4. CASE Recovery
  <2>1. ASSUME NEW bad PROVE LET q == Healed(pool, pool.abnormal \ bad)
                             IN  q \in Pool /\ Sound(q) /\ q.running = pool.running
    <3>1. pool.abnormal \ bad \in SUBSET Node
      BY <1>p DEF Pool
    <3> QED BY <1>p, <3>1, HealedSound
  <2>2. ASSUME NEW S \in Additional(pool)
        PROVE  LET q == WithTotal(pool, S)
               IN  q \in Pool /\ Sound(q) /\ q.running = pool.running
    <3>1. S \in SUBSET Node
      BY <2>2 DEF Additional
    <3> QED BY <1>p, <3>1, TotalSound DEF WithTotal, Pool
  <2>3. pool' \in Pool /\ Sound(pool') /\ pool'.running = pool.running
    BY <1>4, <2>1, <2>2 DEF Recovery
  <2> QED BY <1>4, <2>3 DEF Recovery, IInv, TypeOK, FullRequest, AllOrNothing, Waiting, request
<1>5. CASE Recover
  <2>1. pc' \in Place /\ pc["mgr"] = "served" /\ pc'["mgr"] = "stopping"
    BY <1>5, <1>p, Moved DEF Recover, Thread
  <2>2. ASSUME NEW bad \in SUBSET (pool.total \ pool.abnormal)
        PROVE  LET q == WithAbnormal(pool, bad)
               IN  q \in Pool /\ Sound(q) /\ (q.running = {} \/ q.running = pool.running)
    <3>1. bad \in SUBSET Node /\ bad \subseteq pool.total /\ bad \cap pool.abnormal = {}
      BY <1>p DEF Pool
    <3>2. WithAbnormal(pool, bad) \in Pool /\ Sound(WithAbnormal(pool, bad))
      BY <1>p, <3>1, AbnormalSound
    <3>3. WithAbnormal(pool, bad).running \in {{}, pool.running}
      BY <1>p DEF WithAbnormal, Pool
    <3> QED BY <3>2, <3>3
  <2>3. pool' \in Pool /\ Sound(pool') /\ (pool'.running = {} \/ pool'.running = pool.running)
    BY <1>5, <1>p, <2>2 DEF Recover
  <2> QED BY <1>5, <2>1, <2>3 DEF Recover, IInv, TypeOK, FullRequest, AllOrNothing, Waiting, request
<1>6. CASE GiveBack
  <2>1. pc' \in Place /\ pc'["mgr"] = "ask"
    BY <1>6, <1>p, Moved DEF GiveBack, Thread
  <2>2. pool' \in Pool /\ Sound(pool') /\ pool'.running = {}
    BY <1>6, <1>p, ReleasedSound DEF GiveBack, Released, Pool
  <2> QED BY <1>6, <1>p, <2>1, <2>2 DEF GiveBack, IInv, TypeOK, FullRequest, AllOrNothing
<1>7. CASE JobStarts \/ JobEnds \/ Calm
  <2>1. UNCHANGED <<scheduler, pool, hostfile, pc, request, slots, alarm>>
    BY <1>7 DEF JobStarts, JobEnds, Calm
  <2>2. /\ job' \in {"absent", "pending", "running"} /\ grant' \in SUBSET Node
        /\ calm' \in BOOLEAN /\ (job' = "running" => grant' \in Grant)
    BY <1>7 DEF JobStarts, JobEnds, Calm, IInv, TypeOK, Grant
  <2> QED BY <2>1, <2>2 DEF IInv, TypeOK, FullRequest, AllOrNothing, Waiting, request
<1>8. CASE UNCHANGED vars
  BY <1>8 DEF vars, IInv, TypeOK, FullRequest, AllOrNothing, Waiting, request
<1> QED BY <1>1, <1>2, <1>3, <1>4, <1>5, <1>6, <1>7, <1>8 DEF Next

\* For every set of nodes and every size of the job: types are preserved, and the
\* manager is given exactly as many nodes as the job needs.
THEOREM RequestSafe == Spec => [](TypeOK /\ FullRequest)
<1>1. IInv => TypeOK /\ FullRequest
  BY DEF IInv
<1> QED BY <1>1, InitIInv, StepIInv, PTL DEF Spec

\* TypeOK of ResourceProxy alone.
THEOREM ProxyTyped == Spec => []TypeOK
BY RequestSafe, PTL

\* The nodes that are served are those of the running list, none of them isolated.
THEOREM ServedSafe == Spec => ServedFromPool
<1>1. IInv /\ IInv' /\ [Next]_vars
        => [pc["mgr"] # "served" /\ pc'["mgr"] = "served"
              => slots' = pool'.running /\ slots' \cap pool'.abnormal = {}]_vars
  <2> SUFFICES ASSUME IInv, IInv', [Next]_vars, pc["mgr"] # "served", pc'["mgr"] = "served"
               PROVE  slots' = pool'.running /\ slots' \cap pool'.abnormal = {}
    OBVIOUS
  <2>1. pc \in Place
    BY DEF IInv, TypeOK
  <2>2. Serve
    <3>1. ASSUME NEW t \in Thread, Resubmit(t) PROVE FALSE
      <4>1. \E q \in {"submit", "wait", "nap", Home(t)} : To(t, q)
        BY <3>1 DEF Resubmit, Sbatch, SbatchFails, GotNodes, WaitFails, Recheck
      <4> QED BY <2>1, <4>1, Moved DEF Home, Thread
    <3>2. CASE Refuse \/ QueueGone \/ QueueCheck \/ Recover \/ GiveBack
      <4>1. \/ To("mgr", "refused") \/ To("mgr", "submit") \/ To("mgr", "stopping")
            \/ To("mgr", "ask") \/ To("nhc", "submit")
        BY <3>2 DEF Refuse, QueueGone, QueueCheck, Recover, GiveBack
      <4> QED BY <2>1, <4>1, Moved DEF Thread
    <3>3. CASE QueryFails \/ Replenish \/ ProbeFails \/ ProbeFindsBad \/ Recovery
               \/ JobStarts \/ JobEnds \/ Calm \/ UNCHANGED vars
      BY <3>3 DEF QueryFails, Replenish, ProbeFails, ProbeFindsBad, Recovery, JobStarts,
                  JobEnds, Calm, vars
    <3> QED BY <3>1, <3>2, <3>3 DEF Next, Ask
  <2>3. slots' = pool'.running
    BY <2>2 DEF Serve
  <2>4. pool'.running \cap pool'.abnormal = {}
    BY DEF IInv, Sound, IsPartition
  <2> QED BY <2>3, <2>4
<1> QED BY <1>1, InitIInv, StepIInv, PTL DEF Spec, ServedFromPool

\* A request that is stuck stays stuck: the loop looks at an empty running list, and
\* nothing but the loop itself would turn need_apply on again.
THEOREM StuckForever == Spec => [][Stuck => Stuck']_vars
<1>1. IInv /\ [Next]_vars => [Stuck => Stuck']_vars
  <2> SUFFICES ASSUME IInv, [Next]_vars, Stuck PROVE Stuck'
    OBVIOUS
  <2>1. /\ pc \in Place /\ ~ needApply /\ pool.running = {} /\ scheduler = "SLURM"
        /\ pool \in Pool /\ pc["mgr"] \in {"ask", "submit", "wait", "nap"}
        /\ actual = Required /\ Required \in Nat \ {0} /\ Cardinality({}) = 0
    BY RequiredPositive, FS_EmptySet DEF IInv, TypeOK, FullRequest, Stuck, Waiting
  <2>2. \A a \in Attempts : ~ Enough(a)
    BY <2>1 DEF Attempts, Enough
  <2>3. ~ (Refuse \/ ProbeFails \/ ProbeFindsBad \/ Serve \/ Recover \/ GiveBack)
    BY <2>1, <2>2 DEF Refuse, ProbeFails, ProbeFindsBad, Serve, Recover, GiveBack
  <2>4. ASSUME NEW t \in Thread, Resubmit(t) PROVE Stuck'
    <3>1. PICK q \in {"submit", "wait", "nap", Home(t)} : To(t, q)
      BY <2>4 DEF Resubmit, Sbatch, SbatchFails, GotNodes, WaitFails, Recheck
    <3>2. Waiting'
      BY <2>1, <3>1, Moved DEF Home, Thread, Waiting
    <3>3. UNCHANGED <<scheduler, request>> /\ (pool' = pool \/ pool'.running = {})
      BY <2>4 DEF Resubmit, Sbatch, SbatchFails, GotNodes, WaitFails, Recheck, FreshPool
    <3> QED BY <2>1, <3>2, <3>3 DEF Stuck, request
  <2>5. CASE QueueGone
    <3>1. pc'["mgr"] = "submit"
      BY <2>1, <2>5, Moved DEF QueueGone, Thread
    <3>2. pool'.running = {} /\ UNCHANGED <<scheduler, needApply>>
      BY <2>1, <2>5 DEF QueueGone, Round, Released, Pool
    <3> QED BY <2>1, <3>1, <3>2 DEF Stuck, Waiting
  <2>6. CASE QueueCheck
    <3>1. pc'["mgr"] = pc["mgr"]
      BY <2>1, <2>6, Moved DEF QueueCheck, Thread
    <3> QED BY <2>1, <2>6, <3>1 DEF QueueCheck, Stuck, Waiting, request
  <2>7. CASE QueryFails \/ Replenish \/ Recovery
    <3>1. pool'.running = {}
      BY <2>1, <2>7 DEF QueryFails, Replenish, Recovery, Healed, WithTotal, WithNormal, Pool
    <3>2. UNCHANGED <<scheduler, pc>> /\ needApply' = FALSE
      BY <2>1, <2>7 DEF QueryFails, Replenish, Recovery, Round, request
    <3> QED BY <2>1, <3>1, <3>2 DEF Stuck, Waiting
  <2>8. CASE JobStarts \/ JobEnds \/ Calm \/ UNCHANGED vars
    BY <2>1, <2>8 DEF JobStarts, JobEnds, Calm, vars, Stuck, Waiting, request
  <2> QED BY <2>3, <2>4, <2>5, <2>6, <2>7, <2>8 DEF Next, Ask
<1> QED BY <1>1, InitIInv, StepIInv, PTL DEF Spec
=============================================================================
