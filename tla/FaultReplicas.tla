--------------------------- MODULE FaultReplicas ---------------------------
(***************************************************************************)
(* FaultOperator with the election of its leaders: each replica reads the  *)
(* lease and, when it is free, its own or out of date, writes it with a    *)
(* patch that has no precondition.                                         *)
(***************************************************************************)
EXTENDS FaultOperator

ASSUME NobodyIsNoReplica == None \notin Operator

VARIABLES
  lease,   \* its holder (or None: it does not exist), and whether its renewal is recent
  elect    \* the election thread of each replica: what it is about to write

leaseVars == <<lease, elect>>
work == <<pending, tasks, eventVars, job, nodeVars, worked>>
allVars == <<vars, leaseVars>>

ReplicasInit ==
  /\ Init
  /\ lease = [holder |-> None, fresh |-> FALSE]
  /\ elect = [o \in Operator |-> "idle"]

\* An expired lease or one's own is to be patched; a lease of another makes one stand by.
ReadLease(o) ==
  /\ elect[o] = "idle"
  /\ \/ /\ lease.holder = None
        /\ elect' = [elect EXCEPT ![o] = "create"] /\ UNCHANGED leader
     \/ /\ lease.holder # None
        /\ lease.holder = o \/ ~lease.fresh
        /\ elect' = [elect EXCEPT ![o] = "patch"] /\ UNCHANGED leader
     \/ /\ lease.holder \notin {None, o} /\ lease.fresh
        /\ leader' = [leader EXCEPT ![o] = FALSE] /\ UNCHANGED elect
  /\ UNCHANGED <<lease, crashes, faults, work>>

\* A create fails when the lease exists by now; a patch always takes effect.
WriteLease(o) ==
  /\ elect[o] # "idle"
  /\ LET wins == elect[o] = "patch" \/ lease.holder = None
     IN /\ lease' = IF wins THEN [holder |-> o, fresh |-> TRUE] ELSE lease
        /\ leader' = [leader EXCEPT ![o] = wins]
  /\ elect' = [elect EXCEPT ![o] = "idle"]
  /\ UNCHANGED <<crashes, faults, work>>

\* Any other exception makes the replica stand down.
ElectionError(o) ==
  /\ faults < MaxFault /\ faults' = faults + 1
  /\ elect' = [elect EXCEPT ![o] = "idle"]
  /\ leader' = [leader EXCEPT ![o] = FALSE]
  /\ UNCHANGED <<lease, crashes, work>>

\* The lease runs out: its holder died or stood down, or is too slow to renew it.
LeaseExpires ==
  /\ lease.holder # None /\ lease.fresh
  /\ \/ ~leader[lease.holder] /\ UNCHANGED faults
     \/ leader[lease.holder] /\ faults < MaxFault /\ faults' = faults + 1
  /\ lease' = [lease EXCEPT !.fresh = FALSE]
  /\ UNCHANGED <<elect, leader, crashes, work>>

ReplicaDies(o) ==
  /\ Crash(o)
  /\ elect' = [elect EXCEPT ![o] = "idle"]
  /\ UNCHANGED lease

Elections ==
  \/ \E o \in Operator : ReadLease(o) \/ WriteLease(o) \/ ElectionError(o) \/ ReplicaDies(o)
  \/ LeaseExpires

Works == (Watch \/ Process \/ Faults) /\ UNCHANGED leaseVars

ReplicasNext == Elections \/ Works

ReplicasSpec == ReplicasInit /\ [][ReplicasNext]_allVars

-----------------------------------------------------------------------------
(* Fairness: threads run, a dead replica is restarted by its Deployment, a   *)
(* stream ends after 300 seconds and lives long enough to deliver what it     *)
(* began with, and a status that is written again and again is written once. *)

ActsOn(o, e, step) ==
  \E t \in tasks :
    /\ t.op = o /\ t.ev = e /\ t.step = step
    /\ \/ TaintNode(t) \/ TaintFails(t)
       \/ \E target \in TargetKinds, result \in Results : DeletePods(t, target, result)
       \/ \E written \in BOOLEAN :
            PatchStatus(t, written) \/ \E f \in Event : Suppress(t, f, written)

Closes(o, e) ==
  \E t \in tasks :
    /\ t.op = o
    /\ (t.ev = e /\ PatchStatus(t, TRUE)) \/ Suppress(t, e, TRUE)

Fairly(A) == A /\ UNCHANGED leaseVars

Fairness ==
  /\ \A o \in Operator :
       /\ WF_allVars(ReadLease(o)) /\ WF_allVars(WriteLease(o))
       /\ WF_allVars(Fairly(ResolveFaultGroup(o)))
  /\ \A o \in Operator, e \in Event :
       /\ SF_allVars(Fairly(Reconcile(o, e)))
       /\ \A step \in Steps : WF_allVars(Fairly(ActsOn(o, e, step)))
       /\ SF_allVars(Fairly(Closes(o, e)))

ReplicasFairSpec == ReplicasSpec /\ Fairness

-----------------------------------------------------------------------------
(* Properties.                                                              *)

\* Types of the state and of the election.
ReplicasTypeOK ==
  /\ TypeOK
  /\ lease \in [holder : Operator \cup {None}, fresh : BOOLEAN]
  /\ elect \in [Operator -> {"idle", "create", "patch"}]

\* Every FaultEvent is processed in the end, whichever replica dies, stands down, raises
\* while it acts or fails to write the status.
EventHandled == \A e \in Event : Exists(e) ~> Processed(e)

\* No two replicas act on the same event at the same time.  Not so: a leader learns of
\* its loss late (README, section 7).
OneActor == \A t, u \in tasks : t.ev = u.ev => t.op = u.op
=============================================================================
