----------------------------- MODULE CheckRun_proof -----------------------------
(***************************************************************************)
(* Proofs about one check run, for any nodes, any evidence, any number of  *)
(* mishaps and a signal at any time: a confirmed stop is the truth, the    *)
(* exit code says no more than is so, PASS is only said of pairs that were  *)
(* all measured, and READY only of nodes that are healthy.                 *)
(***************************************************************************)
EXTENDS CheckRun, FiniteSetTheorems, WellFoundedInduction, TLAPS

\* A tag is of the kind of evidence its job gives.
Kinds == \A j \in Jobs : out[j] \in TagsFor(j)

\* What a child that has an answer, or never started a command, says of the
\* command; only what is due is started, and only the event cancels.
OwnLives ==
  \A j \in Jobs :
    /\ local[j] \in {"idle", "unlaunched"} => remote[j] = "none"
    /\ local[j] \in {"ok", "failed"} => remote[j] = "gone"
    /\ local[j] # "idle" => Due(j)
    /\ local[j] = "cancelled" => cancel

\* The session waits for its children.
NothingRuns == main # "body" => \A j \in Jobs : local[j] # "running"

\* The body is over, and with it the stop, if there was one.
Ended == {"leave", "closed", "raised", "returned", "exited"}

\* There is one stop, and its answers stand.
OneStop ==
  /\ report # "none" => main \in Ended
  /\ report = "confirmed" => \A n \in Nodes : answer[n] = "CONFIRMED"

\* On a node that confirmed, nothing lives and the tombstone keeps it so.
Sealed ==
  \A n \in Nodes :
    answer[n] = "CONFIRMED" => n \in tomb /\ \A j \in OnNode(n) : remote[j] # "alive"

\* A session that ends without a stop had no failure and cancelled nothing.
CleanEnd ==
  report = "none" =>
    /\ main \in Ended =>
         /\ ~broken
         /\ op = "basic" => \A n \in Probed : local[Probe(n)] = "ok"
         /\ plan = "pairs" => \A p \in Pairs : PairStatus(p) # "FAIL"
    /\ main \in Ended \ {"leave"} => \A j \in Jobs : local[j] # "cancelled"

\* A command is given up for a signal or an exception, and then the session raises.
GivenUp ==
  /\ main = "body" /\ cancel => signalled \/ broken
  /\ \A j \in Jobs : local[j] = "cancelled" => signalled \/ broken
  /\ main = "returned" => \A j \in Jobs : local[j] # "cancelled"
  /\ main = "exited" /\ exit \in {0, 2} => \A j \in Jobs : local[j] # "cancelled"

\* What the exit code was computed from changes no more.
Final == main = "exited" => \E interrupted \in BOOLEAN : exit = ExitCode(interrupted)

\* Pairs are measured only where every ibstat passed.
PairsEarned == plan = "pairs" => op = "ib" /\ \A n \in Nodes : StateStatus(n) = "PASS"

IInv ==
  /\ TypeOK
  /\ Kinds
  /\ OwnLives
  /\ NothingRuns
  /\ OneStop
  /\ Sealed
  /\ CleanEnd
  /\ GivenUp
  /\ Final
  /\ PairsEarned
-----------------------------------------------------------------------------
(* The jobs. *)

\* What the fields of a job are, whichever kind it is.
LEMMA JobShape ==
  ASSUME NEW j \in Jobs
  PROVE  /\ j.node \in Nodes /\ j.peer \in Nodes
         /\ j.kind \in {"probe", "state", "server", "client"}
         /\ j.kind = "probe" => j = Probe(j.node)
         /\ j.kind = "state" => j = State(j.node)
BY DEF Jobs, Pairs, Job, Probe, State, Server, Client

\* Every node has a probe and an ibstat.
LEMMA JobsOfNode ==
  ASSUME NEW n \in Nodes
  PROVE  /\ Probe(n) \in Jobs /\ State(n) \in Jobs
         /\ Probe(n).kind = "probe" /\ Probe(n).node = n
         /\ State(n).kind = "state" /\ State(n).node = n
BY DEF Jobs, Job, Probe, State

\* Every pair has a server and a client.
LEMMA JobsOfPair ==
  ASSUME NEW p \in Pairs
  PROVE  /\ Server(p[1], p[2]) \in Jobs /\ Client(p[1], p[2]) \in Jobs
         /\ Server(p[1], p[2]).kind = "server" /\ Client(p[1], p[2]).kind = "client"
BY DEF Jobs, Job, Server, Client

\* A client has its server.
LEMMA ServerOfClient ==
  ASSUME NEW j \in Jobs, j.kind = "client"
  PROVE  Server(j.node, j.peer) \in Jobs
<1>1. PICK p \in Pairs : j = Client(p[1], p[2])
  BY DEF Jobs, Job, Probe, State, Server, Client
<1>2. j.node = p[1] /\ j.peer = p[2]
  BY <1>1 DEF Client, Job
<1> QED BY <1>2, JobsOfPair

\* What was due stays due.
LEMMA DueStays ==
  ASSUME op' = op, inspected' = inspected, plan = "pairs" => plan' = "pairs",
         \A k \in Jobs : (Done(k) => Done(k)') /\ (local[k] # "idle" => local'[k] # "idle"),
         Probed \subseteq Nodes,
         NEW j \in Jobs, Due(j)
  PROVE  Due(j)'
<1>1. Probed' = Probed
  BY DEF Probed
<1>2. ProbesDone => ProbesDone'
  BY <1>1, JobsOfNode DEF ProbesDone, Done
<1>3. CASE j.kind \in {"probe", "state", "server"}
  BY <1>1, <1>2, <1>3 DEF Due
<1>4. CASE j.kind = "client"
  <2>1. local[Server(j.node, j.peer)] # "idle" => local'[Server(j.node, j.peer)] # "idle"
    BY <1>4, ServerOfClient
  <2> QED BY <1>4, <2>1 DEF Due
<1> QED BY <1>3, <1>4, JobShape
\* The nodes that are probed are nodes of the cluster.
LEMMA ProbedAreNodes ==
  ASSUME TypeOK
  PROVE  Probed \subseteq Nodes
BY InventoryAssumption DEF TypeOK, Probed, ReadyNodes

\* What a job may report is a tag.
LEMMA TagsAreTags == \A j \in Jobs : TagsFor(j) \subseteq Tags
BY DEF TagsFor, Tags

-----------------------------------------------------------------------------
(* One job moves: its child, its command or what it reported, and nothing of *)
(* the session but the event and the exception.                              *)

Locals == {"idle", "running"} \cup Given
Remotes == {"none", "coming", "alive", "ok", "failed", "gone"}

\* An answer stands; a child starts only what is due; after the body no child moves;
\* a command comes to life only where there is no tombstone.
JobMoves(j, l, r, t) ==
  /\ local' = [local EXCEPT ![j] = l]
  /\ remote' = [remote EXCEPT ![j] = r]
  /\ out' = [out EXCEPT ![j] = t]
  /\ l \in Locals /\ r \in Remotes /\ t \in TagsFor(j)
  /\ local[j] \in Given => l = local[j] /\ t = out[j]
  /\ local[j] # "idle" => l # "idle"
  /\ l \in {"idle", "unlaunched"} => r = "none"
  /\ l \in {"ok", "failed"} => r = "gone"
  /\ l # "idle" => Due(j)
  /\ l = "cancelled" => cancel' /\ (signalled \/ broken)
  /\ main # "body" => l = local[j] /\ t = out[j] /\ broken' = broken
  /\ r = "alive" => remote[j] = "alive" \/ j.node \notin tomb
  /\ cancel' \in BOOLEAN /\ broken' \in BOOLEAN /\ budget' \in 0 .. Budget
  /\ cancel => cancel'
  /\ cancel' => cancel \/ broken'
  /\ broken => broken'
  /\ UNCHANGED <<op, inspected, signalled, plan, tomb, answer, report, main, exit>>

\* A step of one job keeps the invariant, if it is one of those JobMoves allows.
LEMMA JobMovesKeeps ==
  ASSUME IInv, NEW j \in Jobs, NEW l, NEW r, NEW t, JobMoves(j, l, r, t)
  PROVE  IInv'
<1> USE DEF IInv
<1>1. /\ local \in [Jobs -> Locals] /\ remote \in [Jobs -> Remotes] /\ out \in [Jobs -> Tags]
  BY DEF TypeOK, Locals, Remotes
<1>2. \A k \in Jobs : /\ local'[k] = IF k = j THEN l ELSE local[k]
                      /\ remote'[k] = IF k = j THEN r ELSE remote[k]
                      /\ out'[k] = IF k = j THEN t ELSE out[k]
  BY <1>1 DEF JobMoves
<1>3. TypeOK'
  BY <1>1, TagsAreTags DEF TypeOK, JobMoves, Locals, Remotes
<1>4. Kinds'
  BY <1>2 DEF Kinds, JobMoves
<1>5. OwnLives'
  <2>1. \A k \in Jobs : Due(k) => Due(k)'
    <3>1. \A k \in Jobs : (Done(k) => Done(k)') /\ (local[k] # "idle" => local'[k] # "idle")
      BY <1>2 DEF JobMoves, Done
    <3> QED BY <3>1, DueStays, ProbedAreNodes DEF JobMoves
  <2> QED BY <1>2, <2>1 DEF OwnLives, JobMoves
<1>6. NothingRuns'
  BY <1>2 DEF NothingRuns, JobMoves
<1>7. OneStop'
  BY DEF OneStop, JobMoves
<1>8. Sealed'
  <2> SUFFICES ASSUME NEW n \in Nodes, answer[n] = "CONFIRMED", NEW k \in Jobs, k.node = n
               PROVE  n \in tomb /\ remote'[k] # "alive"
    BY DEF Sealed, JobMoves, OnNode
  <2> QED BY <1>2 DEF Sealed, JobMoves, OnNode
<1>9. CleanEnd'
  <2>1. Probed' = Probed
    BY DEF Probed, JobMoves
  <2>2. main # "body" => \A k \in Jobs : local'[k] = local[k] /\ out'[k] = out[k]
    BY <1>2 DEF JobMoves
  <2>3. main # "body" => \A p \in Pairs : PairStatus(p)' = PairStatus(p)
    BY <2>2, JobsOfPair DEF PairStatus, PairResult, Result
  <2>4. main \in Ended => main # "body"
    BY DEF Ended
  <2> QED BY <2>1, <2>2, <2>3, <2>4, ProbedAreNodes, JobsOfNode DEF CleanEnd, JobMoves
<1>10. Final'
  BY DEF Final, ExitCode, JobMoves, TypeOK
<1>12. GivenUp'
  <2>1. \A k \in Jobs : local'[k] = "cancelled" => local[k] = "cancelled" \/ signalled \/ broken
    BY <1>2 DEF JobMoves
  <2>2. main # "body" => \A k \in Jobs : local'[k] = local[k]
    BY <1>2 DEF JobMoves
  <2> QED BY <2>1, <2>2 DEF GivenUp, JobMoves
<1>11. PairsEarned'
  <2> SUFFICES ASSUME NEW n \in Nodes, StateStatus(n) = "PASS"
               PROVE  StateStatus(n)' = "PASS"
    BY DEF PairsEarned, JobMoves
  <2>1. local[State(n)] = "ok"
    BY DEF StateStatus, Result, IbStateStatus
  <2>2. local'[State(n)] = local[State(n)] /\ out'[State(n)] = out[State(n)]
    BY <1>2, <2>1, JobsOfNode DEF JobMoves, Given
  <2> QED BY <2>2 DEF StateStatus, Result
<1> QED BY <1>3, <1>4, <1>5, <1>6, <1>7, <1>8, <1>9, <1>10, <1>11, <1>12

\* The nine steps of a job are such moves.
LEMMA JobSteps ==
  ASSUME IInv, NEW j \in Jobs,
         \/ Launch(j) \/ LaunchFails(j) \/ Deliver(j) \/ Lose(j) \/ Expire(j)
         \/ CancelLocal(j) \/ Break(j) \/ RemoteStart(j) \/ RemoteEnd(j)
  PROVE  IInv'
<1> USE DEF IInv
<1> DEFINE Moves(l, r, t) == JobMoves(j, l, r, t)
<1>1. /\ local[j] \in Locals /\ remote[j] \in Remotes /\ out[j] \in TagsFor(j)
      /\ local = [local EXCEPT ![j] = local[j]]
      /\ remote = [remote EXCEPT ![j] = remote[j]]
      /\ out = [out EXCEPT ![j] = out[j]]
      /\ cancel \in BOOLEAN /\ broken \in BOOLEAN /\ budget \in 0 .. Budget /\ Budget \in Nat
  BY BudgetAssumption DEF TypeOK, Kinds, Locals, Remotes
<1>2. /\ local[j] \in {"idle", "unlaunched"} => remote[j] = "none"
      /\ local[j] \in {"ok", "failed"} => remote[j] = "gone"
      /\ local[j] # "idle" => Due(j)
      /\ local[j] = "cancelled" => cancel /\ (signalled \/ broken)
      /\ main # "body" => local[j] # "running"
      /\ main = "body" /\ cancel => signalled \/ broken
  BY DEF OwnLives, NothingRuns, GivenUp
<1>3. ASSUME Launch(j) PROVE IInv'
  <2>1. CASE cancel
    <3>1. Moves("cancelled", remote[j], out[j])
      BY <1>1, <1>2, <1>3, <2>1 DEF Launch, JobMoves, Locals, Given
    <3> QED BY <3>1, JobMovesKeeps
  <2>2. CASE ~cancel
    <3>1. Moves("running", "coming", out[j])
      BY <1>1, <1>2, <1>3, <2>2 DEF Launch, JobMoves, Locals, Remotes, Given
    <3> QED BY <3>1, JobMovesKeeps
  <2> QED BY <2>1, <2>2
<1>4. ASSUME LaunchFails(j) PROVE IInv'
  <2>1. Moves("unlaunched", remote[j], out[j])
    BY <1>1, <1>2, <1>4 DEF LaunchFails, Mishap, JobMoves, Locals, Given
  <2> QED BY <2>1, JobMovesKeeps
<1>5. ASSUME Deliver(j) PROVE IInv'
  <2>1. CASE cancel
    <3>1. Moves("cancelled", "gone", out[j])
      BY <1>1, <1>2, <1>5, <2>1 DEF Deliver, JobMoves, Locals, Remotes, Given
    <3> QED BY <3>1, JobMovesKeeps
  <2>2. CASE ~cancel
    <3>1. PICK t \in TagsFor(j) : /\ out' = [out EXCEPT ![j] = t]
                                  /\ budget' = budget \/ Mishap
      BY <1>5, <2>2 DEF Deliver
    <3>2. Moves(remote[j], "gone", t)
      BY <1>1, <1>2, <1>5, <2>2, <3>1 DEF Deliver, Mishap, JobMoves, Locals, Remotes, Given
    <3> QED BY <3>2, JobMovesKeeps
  <2> QED BY <2>1, <2>2
<1>6. ASSUME Lose(j) PROVE IInv'
  <2>1. Moves("lost", remote[j], out[j])
    BY <1>1, <1>2, <1>6 DEF Lose, Mishap, JobMoves, Locals, Given
  <2> QED BY <2>1, JobMovesKeeps
<1>7. ASSUME Expire(j) PROVE IInv'
  <2>1. Moves("timeout", remote[j], out[j])
    BY <1>1, <1>2, <1>7 DEF Expire, JobMoves, Locals, Given
  <2> QED BY <2>1, JobMovesKeeps
<1>8. ASSUME CancelLocal(j) PROVE IInv'
  <2>1. Moves("cancelled", remote[j], out[j])
    BY <1>1, <1>2, <1>8 DEF CancelLocal, JobMoves, Locals, Given
  <2> QED BY <2>1, JobMovesKeeps
<1>9. ASSUME Break(j) PROVE IInv'
  <2>0. /\ cancel' \in BOOLEAN /\ broken' \in BOOLEAN /\ (cancel => cancel')
        /\ (cancel' => cancel \/ broken') /\ (broken => broken')
        /\ main = "body" /\ local[j] = "running" /\ Due(j)
        /\ local' = [local EXCEPT ![j] = "broken"] /\ remote' = remote /\ out' = out /\ Mishap
        /\ UNCHANGED <<op, inspected, signalled, plan, tomb, answer, report, main, exit>>
    BY <1>1, <1>2, <1>9 DEF Break
  <2>1. Moves("broken", remote[j], out[j])
    BY <1>1, <2>0 DEF Mishap, JobMoves, Locals, Given
  <2> QED BY <2>1, JobMovesKeeps
<1>10. ASSUME RemoteStart(j) PROVE IInv'
  <2>1. Moves(local[j], IF j.node \in tomb THEN "gone" ELSE "alive", out[j])
    BY <1>1, <1>2, <1>10 DEF RemoteStart, JobMoves, Remotes
  <2> QED BY <2>1, JobMovesKeeps
<1>11. ASSUME RemoteEnd(j) PROVE IInv'
  <2>1. CASE remote' = [remote EXCEPT ![j] = "ok"] /\ UNCHANGED budget
    <3>1. Moves(local[j], "ok", out[j])
      BY <1>1, <1>2, <1>11, <2>1 DEF RemoteEnd, JobMoves, Remotes
    <3> QED BY <3>1, JobMovesKeeps
  <2>2. CASE remote' = [remote EXCEPT ![j] = "failed"] /\ Mishap
    <3>1. Moves(local[j], "failed", out[j])
      BY <1>1, <1>2, <1>11, <2>2 DEF RemoteEnd, Mishap, JobMoves, Remotes
    <3> QED BY <3>1, JobMovesKeeps
  <2> QED BY <1>11, <2>1, <2>2 DEF RemoteEnd
<1> QED BY <1>3, <1>4, <1>5, <1>6, <1>7, <1>8, <1>9, <1>10, <1>11

-----------------------------------------------------------------------------
(* The session moves: no child does, and of the commands only some are killed. *)

\* The children, their answers and what is due stand still.
ChildrenStand ==
  UNCHANGED <<op, inspected, local, out>> /\ (plan = "pairs" => plan' = "pairs")

\* A step that gives no child a new state keeps what is said of the children.
LEMMA ChildrenKeep ==
  ASSUME IInv, ChildrenStand, cancel => cancel',
         \A j \in Jobs : remote'[j] = remote[j] \/ (remote[j] = "alive" /\ remote'[j] = "gone")
  PROVE  Kinds' /\ OwnLives' /\ Probed' = Probed
<1>1. \A j \in Jobs : Due(j) => Due(j)'
  BY DueStays, ProbedAreNodes DEF IInv, ChildrenStand, Done
<1> QED BY <1>1 DEF IInv, ChildrenStand, Kinds, OwnLives, Probed

\* Nor does it change what the pairs are said to be.
LEMMA PairsKeep == ASSUME UNCHANGED <<local, out>> PROVE \A p : PairStatus(p)' = PairStatus(p)
BY DEF PairStatus, PairResult, Result

\* The steps of the main thread, one lemma each.
LEMMA SignalKeeps == ASSUME IInv, Signal PROVE IInv'
<1> USE DEF IInv
<1>1. Kinds' /\ OwnLives' /\ Probed' = Probed
  BY ChildrenKeep DEF Signal, ChildrenStand
<1>2. TypeOK' /\ NothingRuns' /\ OneStop' /\ Sealed'
  BY DEF Signal, TypeOK, NothingRuns, OneStop, Sealed
<1>3. CleanEnd' /\ GivenUp'
  BY <1>1, PairsKeep DEF Signal, CleanEnd, GivenUp
<1>4. Final'
  BY DEF Signal, Final, ExitCode
<1>5. PairsEarned'
  BY DEF Signal, PairsEarned, StateStatus, Result
<1> QED BY <1>1, <1>2, <1>3, <1>4, <1>5

LEMMA PlanKeeps == ASSUME IInv, Plan PROVE IInv'
<1> USE DEF IInv
<1>1. Kinds' /\ OwnLives' /\ Probed' = Probed
  BY ChildrenKeep DEF Plan, ChildrenStand
<1>2. plan' \in {"pairs", "FAIL", "NOT_VERIFIED", "CANCELLED"}
  BY DEF Plan
<1>3. TypeOK'
  BY <1>2 DEF Plan, TypeOK
<1>4. NothingRuns' /\ OneStop' /\ Sealed' /\ Final'
  BY DEF Plan, NothingRuns, OneStop, Sealed, Final, ExitCode
<1>5. CleanEnd' /\ GivenUp'
  BY <1>1 DEF Plan, CleanEnd, GivenUp, Ended
<1>6. PairsEarned'
  BY DEF Plan, PairsEarned, StateStatus, Result
<1> QED BY <1>1, <1>3, <1>4, <1>5, <1>6

LEMMA BodyEndsKeeps == ASSUME IInv, BodyEnds PROVE IInv'
<1> USE DEF IInv
<1>0. /\ cancel' \in BOOLEAN /\ (cancel => cancel') /\ report = "none"
      /\ main' \in {"stopping", "leave"} /\ main = "body"
      /\ answer' = answer \/ answer' = Fresh
      /\ main' = "leave" => ~broken /\ ~Failed
  BY DEF BodyEnds, BeginStop, OneStop, TypeOK, Ended
<1>1. Kinds' /\ OwnLives' /\ Probed' = Probed
  BY <1>0, ChildrenKeep DEF BodyEnds, ChildrenStand
<1>2. TypeOK'
  BY <1>0 DEF BodyEnds, TypeOK, Fresh
<1>3. NothingRuns'
  <2> SUFFICES ASSUME NEW j \in Jobs, local[j] = "running" PROVE FALSE
    BY DEF NothingRuns, BodyEnds
  <2>1. Due(j) /\ ~Done(j)
    BY DEF OwnLives, Done, Given
  <2> QED BY <2>1 DEF BodyEnds, BodyDone
<1>4. OneStop' /\ Final'
  BY <1>0 DEF BodyEnds, OneStop, Final
<1>5. Sealed'
  BY <1>0 DEF BodyEnds, Sealed, Fresh
<1>6. CleanEnd'
  <2>1. ~Failed /\ op = "basic" => \A n \in Probed : local[Probe(n)] = "ok"
    BY DEF Failed, Result
  <2>2. ASSUME ~Failed, plan = "pairs" PROVE \A p \in Pairs : PairStatus(p) # "FAIL"
    <3>1. op = "ib" /\ AggregateStatus({PairStatus(p) : p \in Pairs}) \notin {"FAIL", "CANCELLED"}
      BY <2>2 DEF PairsEarned, Failed, GroupStatus, Measured
    <3> QED BY <3>1 DEF AggregateStatus
  <2>3. \A p : PairStatus(p)' = PairStatus(p)
    BY PairsKeep DEF BodyEnds
  <2> QED BY <1>0, <1>1, <2>1, <2>2, <2>3 DEF BodyEnds, CleanEnd, Ended
<1>8. GivenUp'
  BY <1>0 DEF BodyEnds, GivenUp
<1>7. PairsEarned'
  BY DEF BodyEnds, PairsEarned, StateStatus, Result
<1> QED BY <1>1, <1>2, <1>3, <1>4, <1>5, <1>6, <1>7, <1>8

\* Whatever a stop does on a node: it kills some of what lives there, and its
\* tombstone stays; a confirmed one has killed everything.
LEMMA NodeStops ==
  ASSUME IInv, NEW n \in Nodes, main = "stopping", answer[n] = "none",
         NEW S \in SUBSET Nodes, tomb' = S, tomb \subseteq S,
         NEW a \in {"CONFIRMED", "FAILED", "UNCONFIRMED"}, answer' = [answer EXCEPT ![n] = a],
         remote' = remote \/ remote' = Kill(n),
         a = "CONFIRMED" => n \in S /\ remote' = Kill(n),
         budget' \in 0 .. Budget,
         UNCHANGED <<op, inspected, local, out, cancel, signalled, broken, plan, report, main, exit>>
  PROVE  IInv'
<1> USE DEF IInv
<1>0. \A j \in Jobs : /\ remote'[j] = remote[j] \/ (remote[j] = "alive" /\ remote'[j] = "gone")
                      /\ remote' = Kill(n) /\ j.node = n => remote'[j] # "alive"
  BY DEF Kill
<1>1. Kinds' /\ OwnLives' /\ Probed' = Probed
  BY <1>0, ChildrenKeep DEF ChildrenStand
<1>2. TypeOK'
  BY DEF TypeOK, Kill
<1>3. NothingRuns' /\ OneStop' /\ CleanEnd' /\ GivenUp' /\ Final'
  BY DEF NothingRuns, OneStop, CleanEnd, GivenUp, Final, Ended
<1>4. Sealed'
  <2> SUFFICES ASSUME NEW m \in Nodes, answer'[m] = "CONFIRMED", NEW j \in OnNode(m)
               PROVE  m \in S /\ remote'[j] # "alive"
    BY DEF Sealed
  <2>1. j \in Jobs /\ j.node = m
    BY DEF OnNode
  <2>2. CASE m = n
    BY <1>0, <2>1, <2>2 DEF TypeOK
  <2>3. CASE m # n
    BY <1>0, <2>1, <2>3 DEF Sealed, TypeOK
  <2> QED BY <2>2, <2>3
<1>5. PairsEarned'
  BY DEF PairsEarned, StateStatus, Result
<1> QED BY <1>1, <1>2, <1>3, <1>4, <1>5

LEMMA StopKeeps ==
  ASSUME IInv, NEW n \in Nodes, StopConfirmed(n) \/ StopFails(n)
  PROVE  IInv'
<1>0. budget \in 0 .. Budget /\ Budget \in Nat /\ tomb \subseteq Nodes
  BY BudgetAssumption DEF IInv, TypeOK
<1>1. CASE StopConfirmed(n)
  <2>1. tomb \cup {n} \in SUBSET Nodes
    BY <1>0
  <2> QED BY <1>0, <1>1, <2>1, NodeStops DEF StopConfirmed
<1>2. CASE StopFails(n)
  <2>1. budget' \in 0 .. Budget
    BY <1>0, <1>2 DEF StopFails, Mishap
  <2>2. PICK a \in {"FAILED", "UNCONFIRMED"} : answer' = [answer EXCEPT ![n] = a]
    BY <1>2 DEF StopFails
  <2>3. /\ tomb' \in {tomb, tomb \cup {n}}
        /\ remote' = remote \/ remote' = Kill(n)
    BY <1>2 DEF StopFails
  <2> QED BY <1>0, <1>2, <2>1, <2>2, <2>3, NodeStops DEF StopFails
<1> QED BY <1>1, <1>2

LEMMA StoppedKeeps == ASSUME IInv, Stopped PROVE IInv'
<1> USE DEF IInv
<1>1. Kinds' /\ OwnLives' /\ Probed' = Probed
  BY ChildrenKeep DEF Stopped, ChildrenStand
<1>2. report' \in {"confirmed", "unconfirmed"} /\ main' = "leave"
      /\ (report' = "confirmed" => \A n \in Nodes : answer[n] = "CONFIRMED")
  BY DEF Stopped
<1>3. TypeOK' /\ NothingRuns' /\ OneStop' /\ CleanEnd' /\ GivenUp' /\ Final' /\ Sealed'
  BY <1>2 DEF Stopped, TypeOK, NothingRuns, OneStop, CleanEnd, GivenUp, Final, Sealed, Ended
<1>4. PairsEarned'
  BY DEF Stopped, PairsEarned, StateStatus, Result
<1> QED BY <1>1, <1>3, <1>4

LEMMA LeaveKeeps == ASSUME IInv, Leave PROVE IInv'
<1> USE DEF IInv
<1>0. /\ cancel' \in BOOLEAN /\ (cancel => cancel') /\ main' \in {"stopping", "closed"} /\ main = "leave"
      /\ main' = "stopping" => report = "none" /\ answer' = Fresh
      /\ main' = "closed" => answer' = answer /\ (report = "none" => ~cancel)
  BY DEF Leave, BeginStop, TypeOK
<1>1. Kinds' /\ OwnLives' /\ Probed' = Probed
  BY <1>0, ChildrenKeep DEF Leave, ChildrenStand
<1>2. TypeOK'
  BY <1>0 DEF Leave, TypeOK, Fresh
<1>3. NothingRuns' /\ OneStop' /\ Final'
  BY <1>0 DEF Leave, NothingRuns, OneStop, Final, Ended
<1>4. Sealed'
  BY <1>0 DEF Leave, Sealed, Fresh
<1>5. CleanEnd' /\ GivenUp'
  BY <1>0, <1>1, PairsKeep DEF Leave, CleanEnd, GivenUp, OwnLives, Ended
<1>6. PairsEarned'
  BY DEF Leave, PairsEarned, StateStatus, Result
<1> QED BY <1>1, <1>2, <1>3, <1>4, <1>5, <1>6

LEMMA LookKeeps == ASSUME IInv, Look PROVE IInv'
<1> USE DEF IInv
<1>0. /\ main = "closed" /\ main' \in {"raised", "returned"}
      /\ main' = "returned" => ~signalled /\ ~broken
  BY DEF Look
<1>1. Kinds' /\ OwnLives' /\ Probed' = Probed
  BY ChildrenKeep DEF Look, ChildrenStand
<1>2. TypeOK' /\ NothingRuns' /\ OneStop' /\ Final' /\ Sealed'
  BY <1>0 DEF Look, TypeOK, NothingRuns, OneStop, Final, Sealed, Ended
<1>3. CleanEnd' /\ GivenUp'
  BY <1>0, <1>1, PairsKeep DEF Look, CleanEnd, GivenUp, Ended
<1>4. PairsEarned'
  BY DEF Look, PairsEarned, StateStatus, Result
<1> QED BY <1>1, <1>2, <1>3, <1>4

LEMMA CloseKeeps == ASSUME IInv, Close PROVE IInv'
<1> USE DEF IInv
<1>0. main \in {"raised", "returned"} /\ main' = "exited"
  BY DEF Close
<1>1. Kinds' /\ OwnLives' /\ Probed' = Probed
  BY ChildrenKeep DEF Close, ChildrenStand
<1>2. PICK interrupted \in BOOLEAN :
        /\ interrupted <=> main = "raised"
        /\ exit' = ExitCode(interrupted) /\ ExitCode(interrupted)' = ExitCode(interrupted)
        /\ exit' \in {0, 2, 3, 130} /\ (exit' \in {0, 2} => main = "returned")
  <2>1. exit' = ExitCode(main = "raised") /\ UNCHANGED <<broken, report, op>>
    BY DEF Close
  <2>2. CASE main = "raised"
    <3>1. exit' = ExitCode(TRUE)
      BY <2>1, <2>2, Zenon
    <3> WITNESS TRUE \in BOOLEAN
    <3> QED BY <2>1, <2>2, <3>1 DEF ExitCode
  <2>3. CASE main = "returned"
    <3>0. (main = "raised") = FALSE
      BY <2>3
    <3>1. exit' = ExitCode(FALSE)
      BY <2>1, <3>0, Zenon
    <3> WITNESS FALSE \in BOOLEAN
    <3> QED BY <2>1, <2>3, <3>1 DEF ExitCode
  <2> QED BY <1>0, <2>2, <2>3
<1>3. Final'
  BY <1>2 DEF Final
<1>4. TypeOK' /\ NothingRuns' /\ OneStop' /\ Sealed'
  BY <1>0, <1>2 DEF Close, TypeOK, NothingRuns, OneStop, Sealed, Ended
<1>5. CleanEnd' /\ GivenUp'
  BY <1>0, <1>1, <1>2, PairsKeep DEF Close, CleanEnd, GivenUp, Ended
<1>6. PairsEarned'
  BY DEF Close, PairsEarned, StateStatus, Result
<1> QED BY <1>1, <1>3, <1>4, <1>5, <1>6

LEMMA InitKeeps == ASSUME Init PROVE IInv
<1>1. inspected \in Inspections
  BY InventoryAssumption DEF Init
<1>2. TypeOK
  <2>1. Good \in Tags /\ budget \in 0 .. Budget
    BY TagAssumption, BudgetAssumption DEF Init, Tags
  <2>2. /\ local \in [Jobs -> {"idle", "running"} \cup Given]
        /\ remote \in [Jobs -> {"none", "coming", "alive", "ok", "failed", "gone"}]
        /\ out \in [Jobs -> Tags]
        /\ answer \in [Nodes -> {"none", "CONFIRMED", "FAILED", "UNCONFIRMED"}]
    BY <2>1 DEF Init, Fresh
  <2>3. /\ op \in Operations /\ plan = "waiting" /\ tomb = {} /\ report = "none"
        /\ main = "body" /\ exit = -1 /\ cancel = FALSE /\ signalled = FALSE /\ broken = FALSE
    BY DEF Init
  <2> QED BY <1>1, <2>1, <2>2, <2>3 DEF TypeOK
<1>3. Kinds
  BY TagAssumption DEF Init, Kinds, TagsFor
<1> QED BY <1>2, <1>3 DEF Init, IInv, OwnLives, NothingRuns, OneStop, Sealed, Fresh, CleanEnd,
           GivenUp, Final, PairsEarned, Ended

LEMMA StutterKeeps == ASSUME IInv, UNCHANGED vars PROVE IInv'
<1> USE DEF IInv
<1>1. Kinds' /\ OwnLives' /\ Probed' = Probed
  BY ChildrenKeep DEF vars, ChildrenStand
<1>2. TypeOK' /\ NothingRuns' /\ OneStop' /\ Sealed'
  BY DEF vars, TypeOK, NothingRuns, OneStop, Sealed
<1>3. CleanEnd' /\ GivenUp' /\ Final'
  BY <1>1, PairsKeep DEF vars, CleanEnd, GivenUp, Final, ExitCode
<1>4. PairsEarned'
  BY DEF vars, PairsEarned, StateStatus, Result
<1> QED BY <1>1, <1>2, <1>3, <1>4

\* The invariant holds in every behaviour of a run, for any nodes, pairs and evidence.
THEOREM RunSafe == Spec => []IInv
<1>1. Init => IInv
  BY InitKeeps
<1>2. IInv /\ [Next]_vars => IInv'
  <2> SUFFICES ASSUME IInv, [Next]_vars PROVE IInv'
    OBVIOUS
  <2>1. CASE UNCHANGED vars
    BY <2>1, StutterKeeps
  <2>2. ASSUME NEW j \in Jobs,
               \/ Launch(j) \/ LaunchFails(j) \/ Deliver(j) \/ Lose(j) \/ Expire(j)
               \/ CancelLocal(j) \/ Break(j) \/ RemoteStart(j) \/ RemoteEnd(j)
        PROVE  IInv'
    BY <2>2, JobSteps
  <2>3. ASSUME NEW n \in Nodes, StopConfirmed(n) \/ StopFails(n) PROVE IInv'
    BY <2>3, StopKeeps
  <2>4. CASE Signal \/ Plan \/ BodyEnds \/ Stopped \/ Leave \/ Look \/ Close
    BY <2>4, SignalKeeps, PlanKeeps, BodyEndsKeeps, StoppedKeeps, LeaveKeeps, LookKeeps, CloseKeeps
  <2> QED BY <2>1, <2>2, <2>3, <2>4 DEF Next
<1> QED BY <1>1, <1>2, PTL DEF Spec
-----------------------------------------------------------------------------
(* The properties. *)

\* The variables keep their types.
THEOREM RunTyped == Spec => []TypeOK
<1>1. IInv => TypeOK
  BY DEF IInv
<1> QED BY <1>1, RunSafe, PTL

\* After a confirmed stop no command lives, and every node has the tombstone.
LEMMA QuietFromInv == ASSUME IInv, report = "confirmed", NEW j \in Jobs PROVE remote[j] # "alive" /\ j.node \in tomb
<1>1. j.node \in Nodes /\ answer[j.node] = "CONFIRMED"
  BY JobShape DEF IInv, OneStop
<1>2. j \in OnNode(j.node)
  BY DEF OnNode
<1> QED BY <1>1, <1>2 DEF IInv, Sealed

\* When the stop of a run is confirmed on every node, no command of the run lives,
\* then or later (cancel_and_wait(), managed_command()).
THEOREM StopIsTrue == Spec => []ConfirmedMeansQuiet
<1>1. IInv => ConfirmedMeansQuiet
  BY QuietFromInv DEF ConfirmedMeansQuiet
<1> QED BY <1>1, RunSafe, PTL

\* A session that closed without a stop left behind no probe that is not answered.
LEMMA ProbeAnswered ==
  ASSUME IInv, main = "exited", report = "none", NEW j \in Jobs, j.kind = "probe", remote[j] \in {"coming", "alive"}
  PROVE  FALSE
<1>1. local[j] # "idle"
  BY DEF IInv, OwnLives
<1>2. op = "basic" /\ j.node \in Probed
  BY <1>1 DEF IInv, OwnLives, Due
<1>3. local[Probe(j.node)] = "ok" /\ j = Probe(j.node)
  BY <1>2, JobShape DEF IInv, CleanEnd, Ended
<1> QED BY <1>3 DEF IInv, OwnLives

\* What a session that closed without a stop left behind has a time limit of its own.
LEMMA LeftoverIsBounded ==
  ASSUME IInv, main = "exited", report = "none", NEW j \in Jobs, remote[j] \in {"coming", "alive"}
  PROVE  BoundedLeftover(j)
<1>1. j.kind # "probe"
  BY ProbeAnswered
<1>2. local[j] \notin {"idle", "unlaunched", "ok", "failed", "running", "cancelled"}
  BY DEF IInv, OwnLives, NothingRuns, CleanEnd, Ended
<1>3. local[j] \in {"idle", "running"} \cup Given
  BY DEF IInv, TypeOK
<1> QED BY <1>1, <1>2, <1>3 DEF BoundedLeftover, Given

\* What is no failure of a pair, of the states of its two children.
LEMMA NoFailure ==
  ASSUME NEW p \in Pairs, PairStatus(p) # "FAIL"
  PROVE  PairIsNoFailure(p)
BY DEF PairStatus, PairResult, Result, IbWriteBwStatus, PairIsNoFailure

\* For any nodes, any evidence and a signal at any time, also one that is caught and
\* forgotten, an exit code promises no more than is so (_execution_exit()): 2 that the
\* nodes are clear; 0 and 130 that what is left is bounded or will be refused; 0 that every
\* probe came back and no pair failed; 0 and 2 that no command was given up for a signal.
THEOREM ExitHonest == Spec => []ExitIsHonest
<1>1. IInv => ExitIsHonest
  <2> SUFFICES ASSUME IInv, main = "exited"
               PROVE  /\ exit = 2 => \A j \in Jobs : remote[j] # "alive"
                      /\ exit \in {0, 130} => \A j \in Jobs : remote[j] \in {"coming", "alive"} =>
                            BoundedLeftover(j) \/ (exit = 130 /\ remote[j] = "coming" /\ j.node \in tomb)
                      /\ (exit = 0 /\ op = "basic") => \A n \in Probed : local[Probe(n)] = "ok"
                      /\ (exit = 0 /\ plan = "pairs") => \A p \in Pairs : PairIsNoFailure(p)
                      /\ exit \in {0, 2} => \A j \in Jobs : local[j] # "cancelled"
    BY DEF ExitIsHonest
  <2>0. report \in {"none", "confirmed", "unconfirmed"}
    BY DEF IInv, TypeOK
  <2>1. PICK interrupted \in BOOLEAN : exit = ExitCode(interrupted)
    BY DEF IInv, Final
  <2>2. exit = 2 => report = "confirmed"
    BY <2>0, <2>1 DEF ExitCode
  <2>3. exit = 0 => report = "none"
    BY <2>0, <2>1 DEF ExitCode
  <2>4. exit = 130 => report \in {"none", "confirmed"}
    BY <2>0, <2>1 DEF ExitCode
  <2>5. exit \in {0, 2} => \A j \in Jobs : local[j] # "cancelled"
    BY DEF IInv, GivenUp
  <2>6. exit = 2 => \A j \in Jobs : remote[j] # "alive"
    BY <2>2, QuietFromInv
  <2>7. /\ (exit = 0 /\ op = "basic") => \A n \in Probed : local[Probe(n)] = "ok"
        /\ (exit = 0 /\ plan = "pairs") => \A p \in Pairs : PairIsNoFailure(p)
    BY <2>3, NoFailure DEF IInv, CleanEnd, Ended
  <2>8. ASSUME exit \in {0, 130}, NEW j \in Jobs, remote[j] \in {"coming", "alive"}
        PROVE  BoundedLeftover(j) \/ (exit = 130 /\ remote[j] = "coming" /\ j.node \in tomb)
    <3>1. CASE report = "none"
      BY <2>8, <3>1, LeftoverIsBounded
    <3>2. CASE report = "confirmed"
      BY <2>3, <2>8, <3>2, QuietFromInv
    <3> QED BY <2>3, <2>4, <2>8, <3>1, <3>2
  <2> QED BY <2>5, <2>6, <2>7, <2>8
<1> QED BY <1>1, RunSafe, PTL

-----------------------------------------------------------------------------
(* The verdict of the bandwidth test. *)

\* _aggregate_status() hides nothing: PASS is said of passes only, and of at least one.
LEMMA PassOfPasses ==
  ASSUME NEW S, AggregateStatus(S) = "PASS",
         S \subseteq {"FAIL", "NOT_VERIFIED", "PASS"}
  PROVE  S = {"PASS"}
BY DEF AggregateStatus

\* ibstat is passed by an answer whose ports are all up.
LEMMA PortsUp ==
  ASSUME IInv, NEW n \in Nodes, StateStatus(n) = "PASS"
  PROVE  local[State(n)] = "ok" /\ IbStats[out[State(n)]].ports = {"up"}
<1>1. out[State(n)] \in DOMAIN IbStats
  BY JobsOfNode DEF IInv, Kinds, TagsFor
<1>2. /\ local[State(n)] = "ok"
      /\ IbStats[out[State(n)]].hcas # {}
      /\ "down" \notin IbStats[out[State(n)]].ports /\ "incomplete" \notin IbStats[out[State(n)]].ports
  BY DEF StateStatus, IbStateStatus, Result
<1> QED BY <1>1, <1>2, EvidenceAssumption

\* What a pair may be said to be.
LEMMA PairStatuses ==
  ASSUME NEW p
  PROVE  PairStatus(p) \in {"FAIL", "NOT_VERIFIED", "PASS"}
BY DEF PairStatus, IbWriteBwStatus

\* PASS of a pair: both ends answered, with an average no lower than the minimum.
LEMMA PairMeasured ==
  ASSUME IInv, NEW p \in Pairs, PairStatus(p) = "PASS"
  PROVE  /\ local[Server(p[1], p[2])] = "ok" /\ local[Client(p[1], p[2])] = "ok"
         /\ \E a \in Averages[out[Client(p[1], p[2])]] : \A m \in Minimum : a >= m
<1> DEFINE avg == Averages[out[Client(p[1], p[2])]]
<1>1. out[Client(p[1], p[2])] \in DOMAIN Averages
  BY JobsOfPair DEF IInv, Kinds, TagsFor
<1>2. IbWriteBwStatus(PairResult(p), avg, Minimum) = "PASS"
  BY DEF PairStatus
<1>3. PairResult(p) = "ok" /\ avg # {} /\ ~ \E a \in avg, m \in Minimum : a < m
  BY <1>2 DEF IbWriteBwStatus
<1>4. local[Server(p[1], p[2])] = "ok" /\ local[Client(p[1], p[2])] = "ok"
  BY <1>3 DEF PairResult, Result
<1>5. avg \subseteq Int /\ Minimum \subseteq Int
  BY <1>1, EvidenceAssumption
<1>6. \A a \in avg, m \in Minimum : a >= m
  BY <1>3, <1>5
<1> QED BY <1>3, <1>4, <1>6

\* A bandwidth test says PASS only if every node's ports are up, every ordered pair was
\* measured from both ends, and no average is below the minimum (_aggregate_status()).
THEOREM PassEarned == Spec => []PassIsEarned
<1>1. IInv => PassIsEarned
  <2> SUFFICES ASSUME IInv, op = "ib", Measured = "PASS"
               PROVE  /\ Pairs # {}
                      /\ \A n \in Nodes : local[State(n)] = "ok" /\ IbStats[out[State(n)]].ports = {"up"}
                      /\ \A p \in Pairs :
                           /\ local[Server(p[1], p[2])] = "ok" /\ local[Client(p[1], p[2])] = "ok"
                           /\ \E a \in Averages[out[Client(p[1], p[2])]] : \A m \in Minimum : a >= m
    BY DEF PassIsEarned
  <2>1. plan \in {"waiting", "pairs", "FAIL", "NOT_VERIFIED", "CANCELLED"}
    BY DEF IInv, TypeOK
  <2>2. plan = "pairs" /\ AggregateStatus({PairStatus(p) : p \in Pairs}) = "PASS"
    BY <2>1 DEF Measured
  <2>3. {PairStatus(p) : p \in Pairs} = {"PASS"}
    BY <2>2, PassOfPasses, PairStatuses
  <2>4. Pairs # {} /\ \A p \in Pairs : PairStatus(p) = "PASS"
    BY <2>3
  <2>5. \A n \in Nodes : StateStatus(n) = "PASS"
    BY <2>2 DEF IInv, PairsEarned
  <2> QED BY <2>4, <2>5, PortsUp, PairMeasured
<1> QED BY <1>1, RunSafe, PTL

-----------------------------------------------------------------------------
(* Findings.  A set of findings is clean when it holds neither a FAIL nor an *)
(* UNKNOWN; READY is said of clean sets only, and what is clean is clean in   *)
(* all its parts (StatusOf()).                                                *)

Clean(findings) == Severities(findings) \cap {"FAIL", "UNKNOWN"} = {}

\* Findings are clean when their parts are.
LEMMA CleanUnion == ASSUME NEW A, NEW B PROVE Clean(A \cup B) <=> Clean(A) /\ Clean(B)
BY DEF Clean, Severities

LEMMA CleanAll == ASSUME NEW S, Clean(UNION S), NEW A \in S PROVE Clean(A)
BY DEF Clean, Severities

LEMMA CleanRaise ==
  ASSUME NEW cond \in BOOLEAN, NEW severity \in {"FAIL", "UNKNOWN"}, NEW reason,
         Clean(Raise(cond, severity, reason))
  PROVE  ~ cond
BY DEF Clean, Severities, Raise, Finding

\* READY is said of clean findings only.
LEMMA CleanOfReady == ASSUME NEW F, StatusOf(F) = "READY" PROVE Clean(F)
BY DEF Clean, StatusOf

LEMMA StatusKinds == ASSUME NEW F PROVE StatusOf(F) \in {"BLOCKED", "INCOMPLETE", "READY"}
BY DEF StatusOf

\* SampleCount is a number, and no metric has more samples.
LEMMA CountIsMost ==
  ASSUME NEW smi, \A m \in Metrics : Len(smi[m]) \in Nat
  PROVE  SampleCount(smi) \in Nat /\ \A m \in Metrics : Len(smi[m]) <= SampleCount(smi)
<1> DEFINE L(m) == Len(smi[m])
<1>1. \A m, k \in Metrics : \E x \in {m, k} : L(m) <= L(x) /\ L(k) <= L(x)
  OBVIOUS
<1>2. PICK x1 \in {"total", "used"} : L("total") <= L(x1) /\ L("used") <= L(x1)
  BY <1>1 DEF Metrics
<1>3. PICK x2 \in {x1, "available"} : L(x1) <= L(x2) /\ L("available") <= L(x2)
  BY <1>1, <1>2 DEF Metrics
<1>4. PICK x3 \in {x2, "percent"} : L(x2) <= L(x3) /\ L("percent") <= L(x3)
  BY <1>1, <1>2, <1>3 DEF Metrics
<1>5. PICK x4 \in {x3, "util"} : L(x3) <= L(x4) /\ L("util") <= L(x4)
  BY <1>1, <1>2, <1>3, <1>4 DEF Metrics
<1>6. x1 \in Metrics /\ x2 \in Metrics /\ x3 \in Metrics /\ x4 \in Metrics
  BY <1>2, <1>3, <1>4, <1>5 DEF Metrics
<1>7. \A m \in Metrics : L(m) <= L(x4)
  BY <1>2, <1>3, <1>4, <1>5, <1>6 DEF Metrics
<1>8. \E n \in {L(m) : m \in Metrics} : \A m \in Metrics : L(m) <= n
  BY <1>6, <1>7
<1>9. SampleCount(smi) \in {L(m) : m \in Metrics} /\ \A m \in Metrics : L(m) <= SampleCount(smi)
  BY <1>8 DEF SampleCount
<1> QED BY <1>9

-----------------------------------------------------------------------------
(* The agents of the cards.  IsMatch says of each card what it is given by   *)
(* what the smaller ones were given; that such a matching exists, for any     *)
(* finite number of cards, is an induction (_match_agents()).                 *)

\* A non-empty family of finite sets has a minimal member: induction over
\* finite sets, by a smallest counterexample.
LEMMA MinimalMember ==
  ASSUME NEW S, NEW F, F # {}, F \subseteq FiniteSubsetsOf(S)
  PROVE  \E x \in F : \A y \in F : y \subseteq x => y = x
<1>1. \A x \in F : x \in SUBSET S
  BY DEF FiniteSubsetsOf
<1>2. PICK x \in F : \A y \in F : <<y, x>> \notin StrictSubsetOrdering(S)
  BY FS_StrictSubsetOrderingWellFounded, WFMin
<1>3. \A y \in F : ~ (y \subseteq x /\ x # y)
  BY <1>1, <1>2 DEF StrictSubsetOrdering
<1> QED BY <1>3

\* A finite set of integers has a greatest member.
LEMMA GreatestMember ==
  ASSUME NEW T, T \subseteq Int, IsFiniteSet(T), T # {}
  PROVE  \E x \in T : \A y \in T : y <= x
<1> DEFINE Up(x) == {y \in T : x <= y}
<1>1. \A x \in T : Up(x) \subseteq T /\ IsFiniteSet(Up(x))
  BY FS_Subset
<1>2. PICK U \in {Up(x) : x \in T} : \A V \in {Up(x) : x \in T} : V \subseteq U => V = U
  <2> DEFINE F == {Up(x) : x \in T}
  <2>1. F # {} /\ F \subseteq FiniteSubsetsOf(T)
    BY <1>1 DEF FiniteSubsetsOf
  <2> HIDE DEF F
  <2>2. \E x \in F : \A y \in F : y \subseteq x => y = x
    BY <2>1, MinimalMember
  <2> QED BY <2>2 DEF F
<1>3. PICK x \in T : U = Up(x)
  BY <1>2
<1>4. ASSUME NEW y \in T, x < y PROVE FALSE
  <2>1. x \in Int /\ y \in Int
    OBVIOUS
  <2>2. \A z \in T : y <= z => x <= z
    BY <1>4, <2>1
  <2>3. x \in Up(x) /\ x \notin Up(y)
    BY <1>4, <2>1
  <2>4. Up(y) \subseteq Up(x)
    BY <2>2
  <2>5. Up(y) \in {Up(z) : z \in T}
    OBVIOUS
  <2>6. Up(y) = Up(x)
    BY <1>2, <1>3, <2>4, <2>5
  <2> QED BY <2>3, <2>6
<1> QED BY <1>3, <1>4

\* A card is matched with agents of the list.
LEMMA AgentsAreAgents ==
  ASSUME NEW agents, NEW bdf, NEW used
  PROVE  AgentFor(agents, bdf, used) \in SUBSET Range(agents)
BY DEF AgentFor, AgentAt, FirstUnused, Range

\* Every finite set of cards has a match, by a least set that has none.
LEMMA MatchExists ==
  ASSUME NEW cards, cards \subseteq Int, IsFiniteSet(cards), NEW bus, NEW agents
  PROVE  \E m \in [cards -> SUBSET Range(agents)] : IsMatch(m, cards, bus, agents)
<1> DEFINE Matched(T) == \E m \in [T -> SUBSET Range(agents)] : IsMatch(m, T, bus, agents)
           F == {T \in SUBSET cards : ~ Matched(T)}
<1> SUFFICES ASSUME F # {} PROVE FALSE
  OBVIOUS
<1>1. F \subseteq FiniteSubsetsOf(cards)
  BY FS_Subset DEF FiniteSubsetsOf
<1>2. PICK T \in F : \A U \in F : U \subseteq T => U = T
  <2> HIDE DEF F
  <2> QED BY <1>1, MinimalMember
<1>3. T \subseteq Int /\ IsFiniteSet(T) /\ ~ Matched(T)
  BY <1>1, <1>2 DEF FiniteSubsetsOf
<1>4. T # {}
  <2>1. [c \in {} |-> {}] \in [{} -> SUBSET Range(agents)] /\ IsMatch([c \in {} |-> {}], {}, bus, agents)
    BY DEF IsMatch
  <2> QED BY <2>1, <1>3
<1>5. PICK x \in T : \A y \in T : y <= x
  BY <1>3, <1>4, GreatestMember
<1>6. Matched(T \ {x})
  BY <1>2, <1>5
<1>7. PICK m \in [T \ {x} -> SUBSET Range(agents)] : IsMatch(m, T \ {x}, bus, agents)
  BY <1>6
<1> DEFINE Used(f, S, c) == {a.id : a \in UNION {f[d] : d \in {e \in S : e < c}}}
           g == [c \in T |-> IF c = x THEN AgentFor(agents, BdfOf(bus, x), Used(m, T, x)) ELSE m[c]]
<1>8. g \in [T -> SUBSET Range(agents)]
  BY <1>7, AgentsAreAgents
<1>9. ASSUME NEW c \in T PROVE g[c] = AgentFor(agents, BdfOf(bus, c), Used(g, T, c))
  <2>1. \A d \in T : d < c => d # x /\ g[d] = m[d]
    BY <1>3, <1>5
  <2>2. {g[d] : d \in {e \in T : e < c}} = {m[d] : d \in {e \in T : e < c}}
    BY <2>1
  <2>3. Used(g, T, c) = Used(m, T, c)
    BY <2>2
  <2>4. CASE c = x
    BY <2>3, <2>4
  <2>5. CASE c # x
    <3>1. {e \in T : e < c} = {e \in T \ {x} : e < c}
      BY <2>1
    <3>2. m[c] = AgentFor(agents, BdfOf(bus, c), Used(m, T \ {x}, c))
      BY <1>7, <2>5 DEF IsMatch
    <3>3. Used(m, T \ {x}, c) = Used(m, T, c)
      BY <3>1
    <3> QED BY <2>3, <2>5, <3>2, <3>3
  <2> QED BY <2>4, <2>5
<1>10. IsMatch(g, T, bus, agents)
  BY <1>9 DEF IsMatch
<1> QED BY <1>3, <1>8, <1>10

-----------------------------------------------------------------------------
(* The metrics of a card (evaluate_metrics()). *)

\* Which agent a card is given.
LEMMA MatchedAgent ==
  ASSUME NEW p, IsProbe(p), NEW c \in HyCards(p.smi, p.bus),
         NEW a \in MatchAgents(p.smi, p.bus, p.agents)[c],
         Clean(MatchFindings(p.smi, p.bus, p.agents))
  PROVE  /\ a \in Range(p.agents)
         /\ BdfOf(p.bus, c) \in {{}, a.bdf} \/ ~ RocBdfsKnown(p.agents)
<1> DEFINE cards == HyCards(p.smi, p.bus)
           m == MatchAgents(p.smi, p.bus, p.agents)
           bdf == BdfOf(p.bus, c)
<1>1. m \in [cards -> SUBSET Range(p.agents)] /\ IsMatch(m, cards, p.bus, p.agents)
  <2>1. \E f \in [cards -> SUBSET Range(p.agents)] : IsMatch(f, cards, p.bus, p.agents)
    BY MatchExists DEF IsProbe
  <2> QED BY <2>1 DEF MatchAgents
<1>2. a \in Range(p.agents)
  BY <1>1
<1>3. PICK used : m[c] = AgentFor(p.agents, bdf, used)
  BY <1>1 DEF IsMatch
<1>4. Known(bdf) /\ RocBdfsKnown(p.agents) => AgentAt(p.agents, bdf) # {}
  <2>1. ~ \E d \in cards : /\ Known(BdfOf(p.bus, d)) /\ RocBdfsKnown(p.agents)
                           /\ AgentAt(p.agents, BdfOf(p.bus, d)) = {}
    BY CleanRaise DEF MatchFindings
  <2> QED BY <2>1
<1>5. CASE Known(bdf) /\ RocBdfsKnown(p.agents)
  <2>1. a \in AgentAt(p.agents, bdf)
    BY <1>3, <1>4, <1>5 DEF AgentFor
  <2> QED BY <1>2, <2>1 DEF AgentAt
<1>6. CASE ~ (Known(bdf) /\ RocBdfsKnown(p.agents))
  BY <1>2, <1>6 DEF Known
<1> QED BY <1>5, <1>6

\* What a clean sampling means.
LEMMA CleanSamples ==
  ASSUME NEW smi, NEW c, Clean(SampleFindings(smi, c))
  PROVE  /\ \A m \in Metrics : Cardinality(DOMAIN SamplesOf(smi, m, c)) = SampleCount(smi)
         /\ \A v, w \in Range(SamplesOf(smi, "total", c)) : ~ (v - w > CapacityToleranceMib)
         /\ \A v \in Range(SamplesOf(smi, "total", c)) : ~ (v <= 0)
         /\ \A m \in {"percent", "util"} : ~ OutOfRange(SamplesOf(smi, m, c), 0, 100)
         /\ LET total == LastOf(SamplesOf(smi, "total", c))
            IN total # {} => ~ OutOfRange(SamplesOf(smi, "used", c), 0, ValueOf(total) + AccountingToleranceMib)
<1> DEFINE samples == [m \in Metrics |-> SamplesOf(smi, m, c)]
           total == LastOf(samples["total"])
           short == Raise(\E m \in Metrics : Cardinality(DOMAIN samples[m]) # SampleCount(smi),
                          "UNKNOWN", "HCU_SAMPLE_INCOMPLETE")
           unstable == Raise(\E v, w \in Range(samples["total"]) : v - w > CapacityToleranceMib,
                             "FAIL", "VRAM_CAPACITY_UNSTABLE")
           range == Raise(\/ \E v \in Range(samples["total"]) : v <= 0
                          \/ KnownAnd(total, LAMBDA t :
                                \E m \in {"used", "available"} : OutOfRange(samples[m], 0, t + AccountingToleranceMib))
                          \/ \E m \in {"percent", "util"} : OutOfRange(samples[m], 0, 100),
                          "UNKNOWN", "HCU_METRIC_OUT_OF_RANGE")
<1>1. SampleFindings(smi, c) = short \cup unstable \cup range
  BY DEF SampleFindings
<1>2. Clean(short) /\ Clean(unstable) /\ Clean(range)
  <2> HIDE DEF short, unstable, range
  <2> QED BY <1>1, CleanUnion
<1>3. \A m \in Metrics : Cardinality(DOMAIN samples[m]) = SampleCount(smi)
  BY <1>2 DEF Clean, Severities, Raise, Finding
<1>4. \A v, w \in Range(samples["total"]) : ~ (v - w > CapacityToleranceMib)
  BY <1>2 DEF Clean, Severities, Raise, Finding
<1>5. /\ \A v \in Range(samples["total"]) : ~ (v <= 0)
      /\ \A m \in {"percent", "util"} : ~ OutOfRange(samples[m], 0, 100)
      /\ total # {} => ~ OutOfRange(samples["used"], 0, ValueOf(total) + AccountingToleranceMib)
  BY <1>2 DEF Clean, Severities, Raise, Finding, KnownAnd
<1>6. \A m \in Metrics : samples[m] = SamplesOf(smi, m, c)
  OBVIOUS
<1> QED BY <1>3, <1>4, <1>5, <1>6 DEF Metrics

\* When no sample is missing, every sample of every metric gives the card's value.
LEMMA AllSampled ==
  ASSUME NEW p, IsProbe(p), SmiParses(p.smi), NEW c, Clean(SampleFindings(p.smi, c)), NEW m \in Metrics
  PROVE  /\ p.smi[m] # <<>>
         /\ DOMAIN p.smi[m] = 1 .. SampleCount(p.smi)
         /\ DOMAIN SamplesOf(p.smi, m, c) = DOMAIN p.smi[m]
         /\ \A i \in DOMAIN p.smi[m] :
              /\ c \in DOMAIN p.smi[m][i] /\ Known(p.smi[m][i][c])
              /\ SamplesOf(p.smi, m, c)[i] = ValueOf(p.smi[m][i][c])
              /\ ValueOf(p.smi[m][i][c]) \in Int
<1> DEFINE D(k) == DOMAIN SamplesOf(p.smi, k, c)
<1>1. \A k \in Metrics : Len(p.smi[k]) \in Nat /\ DOMAIN p.smi[k] = 1 .. Len(p.smi[k])
  BY DEF IsProbe
<1>2. \A k \in Metrics : Cardinality(D(k)) = SampleCount(p.smi)
  BY CleanSamples
<1>3. \A k \in Metrics : Len(p.smi[k]) <= SampleCount(p.smi) /\ SampleCount(p.smi) \in Nat
  BY <1>1, CountIsMost
<1>4. ASSUME NEW k \in Metrics
      PROVE  D(k) = DOMAIN p.smi[k] /\ Len(p.smi[k]) = SampleCount(p.smi)
  <2>1. D(k) \subseteq 1 .. Len(p.smi[k])
    BY <1>1 DEF SamplesOf
  <2>2. IsFiniteSet(1 .. Len(p.smi[k])) /\ Cardinality(1 .. Len(p.smi[k])) = Len(p.smi[k])
    <3>1. Len(p.smi[k]) \in Int /\ 1 \in Int
      BY <1>1
    <3> HIDE DEF D
    <3> QED BY <1>1, <3>1, FS_Interval
  <2>3. Cardinality(D(k)) <= Cardinality(1 .. Len(p.smi[k]))
    BY <2>1, <2>2, FS_Subset
  <2>4. Cardinality(D(k)) = Cardinality(1 .. Len(p.smi[k])) /\ Len(p.smi[k]) = SampleCount(p.smi)
    BY <1>1, <1>2, <1>3, <2>2, <2>3
  <2>5. D(k) = 1 .. Len(p.smi[k])
    BY <2>1, <2>2, <2>4, FS_Subset
  <2> QED BY <1>1, <2>4, <2>5
<1>5. p.smi[m] # <<>>
  <2>1. p.smi["total"] # <<>> /\ p.smi["total"] \in Seq(Range(p.smi["total"]))
    BY DEF SmiParses, IsProbe, Metrics
  <2>2. Len(p.smi["total"]) # 0
    BY <2>1
  <2>3. Len(p.smi[m]) # 0
    BY <1>4, <2>2 DEF Metrics
  <2> QED BY <2>3
<1>6. D(m) = DOMAIN p.smi[m] /\ DOMAIN p.smi[m] = 1 .. SampleCount(p.smi)
  BY <1>1, <1>4
<1>7. ASSUME NEW i \in DOMAIN p.smi[m]
      PROVE  /\ c \in DOMAIN p.smi[m][i] /\ Known(p.smi[m][i][c])
             /\ SamplesOf(p.smi, m, c)[i] = ValueOf(p.smi[m][i][c])
             /\ ValueOf(p.smi[m][i][c]) \in Int
  <2>1. i \in D(m)
    BY <1>6, <1>7
  <2>2. c \in CardsOf(p.smi[m][i]) /\ Known(p.smi[m][i][c])
    BY <2>1 DEF SamplesOf
  <2>3. SamplesOf(p.smi, m, c)[i] = ValueOf(p.smi[m][i][c])
    BY <2>1 DEF SamplesOf
  <2>4. p.smi[m][i][c] \subseteq Int
    BY <2>2, <1>7 DEF IsProbe
  <2> QED BY <2>2, <2>3, <2>4 DEF CardsOf, Known, ValueOf
<1> QED BY <1>5, <1>6, <1>7

\* A clean count is below the quorum.
LEMMA CleanBusy ==
  ASSUME NEW count, NEW quorum, NEW fail, NEW warn, Clean(BusyFindings(count, quorum, fail, warn))
  PROVE  ~ (count >= quorum)
<1>1. Clean(Raise(count >= quorum, "FAIL", fail))
  BY CleanUnion DEF BusyFindings
<1> QED BY <1>1 DEF Clean, Severities, Raise, Finding

\* What a clean card means, besides its samples.
LEMMA CleanCard ==
  ASSUME NEW smi, NEW c, NEW agent, NEW policy, Clean(CardFindings(smi, c, agent, policy))
  PROVE  LET total == LastOf(SamplesOf(smi, "total", c))
             agentTotal == UNION {a.total : a \in agent}
         IN  /\ Clean(SampleFindings(smi, c))
             /\ total # {} /\ agentTotal # {}
             /\ \A t \in total, a \in agentTotal : ~ (t - a > CapacityToleranceMib) /\ ~ (a - t > CapacityToleranceMib)
             /\ Percentable(total) =>
                  ~ (ExceedCount(SamplesOf(smi, "used", c), policy.max_vram, ValueOf(total)) >= policy.quorum)
             /\ ~ (ExceedCount(SamplesOf(smi, "util", c), policy.max_util, 100) >= policy.quorum)
<1> DEFINE total == LastOf(SamplesOf(smi, "total", c))
           used == SamplesOf(smi, "used", c)
           util == SamplesOf(smi, "util", c)
           available == FloorOf(SamplesOf(smi, "available", c))
           agentTotal == UNION {a.total : a \in agent}
           count == IF Percentable(total) THEN ExceedCount(used, policy.max_vram, ValueOf(total)) ELSE 0
           missing == Raise({} \in {total, PeakOf(used), available, PeakOf(util), agentTotal},
                            "UNKNOWN", "HCU_METRIC_MISSING")
           source == Raise(\E t \in total, a \in agentTotal :
                              t - a > CapacityToleranceMib \/ a - t > CapacityToleranceMib,
                           "FAIL", "VRAM_CAPACITY_SOURCE_MISMATCH")
           memory == BusyFindings(count, policy.quorum, "VRAM_IN_USE", "TRANSIENT_VRAM_ACTIVITY")
           load == BusyFindings(ExceedCount(util, policy.max_util, 100), policy.quorum, "HCU_BUSY", "TRANSIENT_HCU_ACTIVITY")
           reserved == {t - u - v : t \in total, u \in PeakOf(used), v \in available}
           gap == \E t \in total, u \in PeakOf(used), r \in PeakOf(SamplesOf(smi, "percent", c)) :
                    t > 0 /\ (100 * u - r * t > 2 * t \/ r * t - 100 * u > 2 * t)
           account == Raise(\E r \in reserved : r < -AccountingToleranceMib \/ r > AccountingToleranceMib,
                            "WARN", "VRAM_ACCOUNTING_GAP")
           percent == Raise(gap, "WARN", "VRAM_PERCENT_SOURCE_MISMATCH")
<1>1. CardFindings(smi, c, agent, policy)
        = SampleFindings(smi, c) \cup missing \cup source \cup memory \cup load \cup account \cup percent
  BY DEF CardFindings
<1>2. Clean(SampleFindings(smi, c)) /\ Clean(missing) /\ Clean(source) /\ Clean(memory) /\ Clean(load)
  <2> HIDE DEF missing, source, memory, load, account, percent
  <2> QED BY <1>1, CleanUnion
<1>3. total # {} /\ agentTotal # {}
  BY <1>2 DEF Clean, Severities, Raise, Finding
<1>4. \A t \in total, a \in agentTotal : ~ (t - a > CapacityToleranceMib) /\ ~ (a - t > CapacityToleranceMib)
  <2> HIDE DEF total, agentTotal
  <2> QED BY <1>2 DEF Clean, Severities, Raise, Finding
<1>5. ~ (count >= policy.quorum) /\ ~ (ExceedCount(util, policy.max_util, 100) >= policy.quorum)
  <2> HIDE DEF count, util
  <2> QED BY <1>2, CleanBusy
<1> QED BY <1>2, <1>3, <1>4, <1>5

\* Products with a limit that may be negative, as the policy does not exclude.
LEMMA Monotone ==
  ASSUME NEW a \in Int, NEW x \in Int, NEW y \in Int, x <= y
  PROVE  /\ a >= 0 => a * x <= a * y
         /\ a < 0 /\ x > 0 => a * x < 0
OBVIOUS

\* A card without findings is healthy: memory, load, capacity and its agent agree.
LEMMA CardIsHealthy ==
  ASSUME NEW p, IsProbe(p), SmiParses(p.smi), NEW c \in HyCards(p.smi, p.bus),
         Policy.quorum \in Nat, Policy.max_vram \in Int, Policy.max_util \in Int,
         Clean(MatchFindings(p.smi, p.bus, p.agents)),
         Clean(CardFindings(p.smi, c, MatchAgents(p.smi, p.bus, p.agents)[c], Policy))
  PROVE  HealthyCard(p, c)
<1> DEFINE S(m) == SamplesOf(p.smi, m, c)
           Sample(m, i) == ValueOf(p.smi[m][i][c])
           agent == MatchAgents(p.smi, p.bus, p.agents)[c]
           total == LastOf(S("total"))
           agentTotal == UNION {a.total : a \in agent}
<1>1. /\ Clean(SampleFindings(p.smi, c))
      /\ total # {} /\ agentTotal # {}
      /\ \A t \in total, a \in agentTotal : ~ (t - a > CapacityToleranceMib) /\ ~ (a - t > CapacityToleranceMib)
      /\ Percentable(total) => ~ (ExceedCount(S("used"), Policy.max_vram, ValueOf(total)) >= Policy.quorum)
      /\ ~ (ExceedCount(S("util"), Policy.max_util, 100) >= Policy.quorum)
  <2> HIDE DEF agent
  <2> QED BY CleanCard DEF agent
<1>2. \A m \in Metrics :
        /\ p.smi[m] # <<>> /\ DOMAIN S(m) = DOMAIN p.smi[m] /\ IsFiniteSet(DOMAIN S(m))
        /\ \A i \in DOMAIN p.smi[m] :
             /\ c \in DOMAIN p.smi[m][i] /\ Known(p.smi[m][i][c])
             /\ S(m)[i] = Sample(m, i) /\ Sample(m, i) \in Int
  <2> SUFFICES ASSUME NEW m \in Metrics
               PROVE  /\ p.smi[m] # <<>> /\ DOMAIN S(m) = DOMAIN p.smi[m] /\ IsFiniteSet(DOMAIN S(m))
                      /\ \A i \in DOMAIN p.smi[m] :
                           /\ c \in DOMAIN p.smi[m][i] /\ Known(p.smi[m][i][c])
                           /\ S(m)[i] = Sample(m, i) /\ Sample(m, i) \in Int
    OBVIOUS
  <2>1. DOMAIN p.smi[m] = 1 .. Len(p.smi[m]) /\ Len(p.smi[m]) \in Int /\ 1 \in Int
    BY DEF IsProbe
  <2>2. IsFiniteSet(DOMAIN p.smi[m])
    BY <2>1, FS_Interval
  <2> QED BY <1>1, <2>2, AllSampled
<1>3. \A m \in Metrics : Range(S(m)) = {Sample(m, i) : i \in DOMAIN p.smi[m]}
  <2> HIDE DEF S, Sample
  <2> QED BY <1>2 DEF Range
<1>4. \A m \in {"percent", "util"} : \A i \in DOMAIN p.smi[m] : Sample(m, i) \in 0 .. 100
  <2> SUFFICES ASSUME NEW m \in {"percent", "util"}, NEW i \in DOMAIN p.smi[m] PROVE Sample(m, i) \in 0 .. 100
    OBVIOUS
  <2>1. ~ OutOfRange(S(m), 0, 100) /\ m \in Metrics
    BY <1>1, CleanSamples DEF Metrics
  <2>2. Sample(m, i) \in Range(S(m)) /\ Sample(m, i) \in Int
    BY <1>2, <1>3, <2>1
  <2> HIDE DEF S, Sample
  <2> QED BY <2>1, <2>2 DEF OutOfRange
<1>5. \A i, j \in DOMAIN p.smi["total"] :
         Sample("total", i) > 0 /\ ~ (Sample("total", i) - Sample("total", j) > 1)
  <2> SUFFICES ASSUME NEW i \in DOMAIN p.smi["total"], NEW j \in DOMAIN p.smi["total"]
               PROVE  Sample("total", i) > 0 /\ ~ (Sample("total", i) - Sample("total", j) > 1)
    OBVIOUS
  <2>1. /\ Sample("total", i) \in Range(S("total")) /\ Sample("total", j) \in Range(S("total"))
        /\ Sample("total", i) \in Int
    BY <1>2, <1>3 DEF Metrics
  <2>2. /\ \A v, w \in Range(S("total")) : ~ (v - w > CapacityToleranceMib)
        /\ \A v \in Range(S("total")) : ~ (v <= 0)
    BY <1>1, CleanSamples
  <2> HIDE DEF S, Sample
  <2> QED BY <2>1, <2>2 DEF CapacityToleranceMib
<1>6. \A t \in total : \E k \in DOMAIN p.smi["total"] : t = Sample("total", k)
  <2>1. DOMAIN S("total") = DOMAIN p.smi["total"] /\ \A k \in DOMAIN p.smi["total"] : S("total")[k] = Sample("total", k)
    BY <1>2 DEF Metrics
  <2> HIDE DEF S, Sample
  <2> QED BY <2>1 DEF LastOf, total
<1>7. PICK a \in agent : \E u \in a.total : TRUE
  BY <1>1
<1>8. a \in Range(p.agents) /\ (BdfOf(p.bus, c) \in {{}, a.bdf} \/ ~ RocBdfsKnown(p.agents))
  BY MatchedAgent
<1>9. \A i \in DOMAIN p.smi["total"] : Sample("total", i) > 0 /\ \E u \in a.total : Sample("total", i) - u \in -2 .. 2
  <2> SUFFICES ASSUME NEW i \in DOMAIN p.smi["total"]
               PROVE  \E u \in a.total : Sample("total", i) - u \in -2 .. 2
    BY <1>5
  <2>1. PICK u \in a.total : TRUE
    BY <1>7
  <2>2. PICK t \in total : TRUE
    BY <1>1
  <2>3. PICK k \in DOMAIN p.smi["total"] : t = Sample("total", k)
    BY <1>6
  <2>4. ~ (t - u > 1) /\ ~ (u - t > 1) /\ u \in Int
    BY <1>1, <1>7, <1>8 DEF CapacityToleranceMib, IsProbe
  <2>5. t \in Int /\ Sample("total", i) \in Int
    BY <1>2, <2>3 DEF Metrics
  <2>6. ~ (Sample("total", i) - t > 1) /\ ~ (t - Sample("total", i) > 1)
    BY <1>5, <2>3
  <2> HIDE DEF Sample, total
  <2>7. Sample("total", i) - u \in -2 .. 2
    BY <2>4, <2>5, <2>6
  <2> QED BY <2>7
<1>10. Cardinality({i \in DOMAIN p.smi["util"] : Sample("util", i) * 100 > Policy.max_util * 100}) < Policy.quorum
  <2> DEFINE A == {i \in DOMAIN p.smi["util"] : Sample("util", i) * 100 > Policy.max_util * 100}
  <2>1. DOMAIN S("util") = DOMAIN p.smi["util"] /\ IsFiniteSet(DOMAIN p.smi["util"])
        /\ \A i \in DOMAIN p.smi["util"] : S("util")[i] = Sample("util", i)
    BY <1>2 DEF Metrics
  <2>2. ~ (ExceedCount(S("util"), Policy.max_util, 100) >= Policy.quorum)
    BY <1>1
  <2> HIDE DEF S, Sample
  <2>3. A = {i \in DOMAIN S("util") : S("util")[i] * 100 > Policy.max_util * 100}
    BY <2>1
  <2>4. Cardinality(A) \in Nat
    BY <2>1, FS_Subset, FS_CardinalityType
  <2>5. ExceedCount(S("util"), Policy.max_util, 100) = Cardinality(A)
    BY <2>3, Zenon DEF ExceedCount
  <2> HIDE DEF A
  <2>6. Cardinality(A) < Policy.quorum
    BY <2>2, <2>4, <2>5
  <2> QED BY <2>6 DEF A
<1>11. Cardinality({i \in DOMAIN p.smi["used"] :
          Sample("used", i) * 100 > Policy.max_vram * (Sample("total", i) + CapacityToleranceMib)}) < Policy.quorum
  <2> DEFINE A == {i \in DOMAIN p.smi["used"] :
                     Sample("used", i) * 100 > Policy.max_vram * (Sample("total", i) + CapacityToleranceMib)}
             B == {i \in DOMAIN S("used") : S("used")[i] * 100 > Policy.max_vram * ValueOf(total)}
  <2>1. /\ DOMAIN S("used") = DOMAIN p.smi["used"] /\ IsFiniteSet(DOMAIN p.smi["used"])
        /\ \A i \in DOMAIN p.smi["used"] : S("used")[i] = Sample("used", i) /\ Sample("used", i) \in Int
    BY <1>2 DEF Metrics
  <2>0. DOMAIN p.smi["used"] = DOMAIN p.smi["total"]
    BY <1>1, AllSampled DEF Metrics
  <2>t. \A i \in DOMAIN p.smi["total"] : Sample("total", i) \in Int
    BY <1>2 DEF Metrics
  <2>u. \A i \in DOMAIN p.smi["used"] : Sample("used", i) >= 0
    <3>1. ~ OutOfRange(S("used"), 0, ValueOf(total) + AccountingToleranceMib)
      BY <1>1, CleanSamples
    <3>2. \A v \in Range(S("used")) : ~ (v < 0)
      BY <3>1 DEF OutOfRange
    <3>3. \A i \in DOMAIN p.smi["used"] : Sample("used", i) \in Range(S("used")) /\ Sample("used", i) \in Int
      BY <1>2, <1>3 DEF Metrics
    <3> QED BY <3>2, <3>3
  <2>2. ValueOf(total) \in total
    BY <1>1 DEF ValueOf
  <2>3. PICK k \in DOMAIN p.smi["total"] : ValueOf(total) = Sample("total", k)
    BY <1>6, <2>2
  <2>4. Sample("total", k) \in Int /\ Sample("total", k) > 0
    BY <1>2, <1>5 DEF Metrics
  <2>5. Percentable(total)
    BY <1>1, <2>3, <2>4 DEF Percentable, KnownAnd
  <2>6. ~ (Cardinality(B) >= Policy.quorum)
    BY <1>1, <2>5 DEF ExceedCount
  <2> HIDE DEF S, Sample, total
  <2>7. ASSUME NEW i \in A PROVE i \in B
    <3>1. i \in DOMAIN p.smi["total"] /\ i \in DOMAIN p.smi["used"]
      BY <2>0
    <3>2. Sample("total", i) \in Int /\ Sample("used", i) \in Int
      BY <3>1, <2>1, <2>t
    <3>3. Sample("total", k) <= Sample("total", i) + 1
      BY <1>5, <2>4, <3>1, <3>2
    <3>5. ASSUME Policy.max_vram >= 0 PROVE Sample("used", i) * 100 > Policy.max_vram * Sample("total", k)
      <4>1. Policy.max_vram * Sample("total", k) <= Policy.max_vram * (Sample("total", i) + 1)
        BY <2>4, <3>2, <3>3, <3>5, Monotone
      <4>2. Sample("used", i) * 100 > Policy.max_vram * (Sample("total", i) + 1)
        BY DEF CapacityToleranceMib
      <4>3. ASSUME NEW x \in Int, NEW y \in Int, NEW z \in Int, z > y, x <= y PROVE z > x
        BY <4>3
      <4>4. /\ Policy.max_vram * Sample("total", k) \in Int
            /\ Policy.max_vram * (Sample("total", i) + 1) \in Int
            /\ Sample("used", i) * 100 \in Int
        BY <2>4, <3>2
      <4> QED BY <4>1, <4>2, <4>3, <4>4
    <3>6. ASSUME Policy.max_vram < 0 PROVE Sample("used", i) * 100 > Policy.max_vram * Sample("total", k)
      <4>1. Policy.max_vram * Sample("total", k) \in Int /\ Policy.max_vram * Sample("total", k) < 0
        BY <2>4, <3>6, Monotone
      <4>2. Sample("used", i) >= 0
        BY <2>u, <3>1
      <4> QED BY <3>2, <4>1, <4>2
    <3>7. Sample("used", i) * 100 > Policy.max_vram * Sample("total", k)
      BY <3>5, <3>6
    <3> QED BY <2>1, <2>3, <3>1, <3>7
  <2>8. IsFiniteSet(A) /\ IsFiniteSet(B)
    BY <2>1, FS_Subset
  <2> HIDE DEF A, B
  <2>9. Cardinality(A) <= Cardinality(B) /\ Cardinality(A) \in Nat /\ Cardinality(B) \in Nat
    BY <2>7, <2>8, FS_Subset, FS_CardinalityType
  <2> QED BY <2>6, <2>9 DEF A
<1> QED BY <1>2, <1>4, <1>8, <1>9, <1>10, <1>11 DEF HealthyCard

-----------------------------------------------------------------------------
(* The counters of a port (ib_counters.py, rdma.py). *)

Statuses == {"PASS", "WARN", "UNKNOWN", "FAIL"}
Harmless == {"PASS", "WARN"}

\* `max` over the statuses hides neither a FAIL nor an UNKNOWN.
LEMMA WorstWeighs ==
  ASSUME NEW S, S \subseteq Statuses, S # {}
  PROVE  Worst(S) \in S /\ (Worst(S) \in Harmless => S \subseteq Harmless)
<1> DEFINE Above(s, t) == \E i, j \in 1 .. 4 : StatusOrder[i] = t /\ StatusOrder[j] = s /\ i <= j
<1>1. /\ StatusOrder[1] = "PASS" /\ StatusOrder[2] = "WARN"
      /\ StatusOrder[3] = "UNKNOWN" /\ StatusOrder[4] = "FAIL"
      /\ 1 .. 4 = {1, 2, 3, 4}
  BY DEF StatusOrder
<1>2. /\ \A t \in Statuses : Above("FAIL", t)
      /\ \A t \in {"PASS", "WARN", "UNKNOWN"} : Above("UNKNOWN", t)
      /\ \A t \in {"PASS", "WARN"} : Above("WARN", t)
      /\ Above("PASS", "PASS")
  BY <1>1 DEF Statuses
<1>3. \A s \in Harmless, t \in {"UNKNOWN", "FAIL"} : ~ Above(s, t)
  BY <1>1 DEF Harmless
<1> HIDE DEF Above
<1>4. \E s \in S : \A t \in S : Above(s, t)
  <2>1. CASE "FAIL" \in S
    BY <1>2, <2>1
  <2>2. CASE "FAIL" \notin S /\ "UNKNOWN" \in S
    BY <1>2, <2>2 DEF Statuses
  <2>3. CASE S \cap {"FAIL", "UNKNOWN"} = {} /\ "WARN" \in S
    BY <1>2, <2>3 DEF Statuses
  <2>4. CASE S = {"PASS"}
    BY <1>2, <2>4
  <2> QED BY <2>1, <2>2, <2>3, <2>4 DEF Statuses
<1>5. Worst(S) \in S /\ \A t \in S : Above(Worst(S), t)
  <2>1. Worst(S) = CHOOSE s \in S : \A t \in S : Above(s, t)
    BY DEF Worst, Above
  <2> QED BY <1>4, <2>1
<1> QED BY <1>3, <1>5 DEF Statuses, Harmless

----------------------------------------------------------------------------
(* Counters. *)

IsWindow(w) == Range(w.before) \cup Range(w.after) \subseteq Int

\* A counter that was read was in the snapshot, as a number.
LEMMA ReadingOf ==
  ASSUME NEW snapshot, Range(snapshot) \subseteq Int, NEW c, Reading(snapshot, c) # {}
  PROVE  c \in DOMAIN snapshot /\ ValueOf(Reading(snapshot, c)) = snapshot[c] /\ snapshot[c] \in Int
<1>1. c \in DOMAIN snapshot /\ Reading(snapshot, c) = {snapshot[c]}
  BY DEF Reading
<1>2. snapshot[c] \in Range(snapshot)
  BY <1>1 DEF Range
<1> QED BY <1>1, <1>2 DEF ValueOf

\* A harmless InfiniBand counter was read twice, did not move and is not saturated.
LEMMA IbMetricMeans ==
  ASSUME NEW w, IsWindow(w), NEW c
  PROVE  /\ IbMetric(w, c) \in Statuses
         /\ (IbMetric(w, c) \in Harmless /\ c # Advisory) =>
              /\ c \in DOMAIN w.before /\ c \in DOMAIN w.after /\ Known(w.interval)
              /\ w.after[c] = w.before[c] /\ w.after[c] # Saturated[c]
<1> DEFINE b == Reading(w.before, c)
           a == Reading(w.after, c)
<1>1. CASE ~ IntervalValid(w) \/ b = {} \/ a = {}
  BY <1>1 DEF IbMetric, Statuses, Harmless
<1>2. CASE IntervalValid(w) /\ b # {} /\ a # {}
  <2>1. /\ c \in DOMAIN w.before /\ ValueOf(b) = w.before[c] /\ w.before[c] \in Int
        /\ c \in DOMAIN w.after /\ ValueOf(a) = w.after[c] /\ w.after[c] \in Int
    BY <1>2, ReadingOf DEF IsWindow
  <2>2. Known(w.interval)
    BY <1>2 DEF IntervalValid, KnownAnd, Known
  <2> DEFINE before == w.before[c]
             after == w.after[c]
  <2>3. IbMetric(w, c) = CASE after < before -> "UNKNOWN"
                           [] after = before /\ before = Saturated[c] -> "UNKNOWN"
                           [] after = before /\ before # Saturated[c] -> "PASS"
                           [] after > before -> IF c = Advisory THEN "WARN" ELSE "FAIL"
    BY <1>2, <2>1 DEF IbMetric
  <2>4. before \in Int /\ after \in Int
    BY <2>1
  <2> HIDE DEF before, after
  <2>5. /\ IbMetric(w, c) \in Statuses
        /\ (IbMetric(w, c) \in Harmless /\ c # Advisory) => after = before /\ after # Saturated[c]
    BY <2>3, <2>4 DEF Statuses, Harmless
  <2> QED BY <2>1, <2>2, <2>5 DEF before, after
<1> QED BY <1>1, <1>2

\* A harmless RoCE counter was read twice, did not move and is not saturated.
LEMMA RoceMetricMeans ==
  ASSUME NEW w, IsWindow(w), NEW c
  PROVE  /\ RoceMetric(w, c) \in Statuses
         /\ (RoceMetric(w, c) \in Harmless /\ c \in RequiredCounters) =>
              /\ c \in DOMAIN w.before /\ c \in DOMAIN w.after /\ Known(w.interval)
              /\ w.after[c] = w.before[c] /\ w.after[c] # Saturated[c]
<1> DEFINE b == Reading(w.before, c)
           a == Reading(w.after, c)
<1>1. RoceMetric(w, c) \in Statuses
  BY DEF RoceMetric, Statuses
<1>2. ASSUME RoceMetric(w, c) \in Harmless, c \in RequiredCounters
      PROVE  /\ c \in DOMAIN w.before /\ c \in DOMAIN w.after /\ Known(w.interval)
             /\ w.after[c] = w.before[c] /\ w.after[c] # Saturated[c]
  <2>0. c # Advisory /\ c \in CounterNames
    BY <1>2 DEF RequiredCounters, CounterNames, Advisory
  <2>1. IntervalValid(w) /\ b # {} /\ a # {}
    BY <1>2 DEF RoceMetric, Harmless
  <2>2. /\ c \in DOMAIN w.before /\ ValueOf(b) = w.before[c] /\ w.before[c] \in Int
        /\ c \in DOMAIN w.after /\ ValueOf(a) = w.after[c] /\ w.after[c] \in Int
    BY <2>1, ReadingOf DEF IsWindow
  <2>3. Known(w.interval)
    BY <2>1 DEF IntervalValid, KnownAnd, Known
  <2> DEFINE x == ValueOf(b)
             y == ValueOf(a)
  <2>4. RoceMetric(w, c) = IF y < x THEN "UNKNOWN"
                           ELSE IF y > x THEN "FAIL"
                           ELSE IF \E d \in CounterNames : y = Saturated[d] THEN "UNKNOWN" ELSE "PASS"
    <3>1. RoceMetric(w, c) = IF ~IntervalValid(w) \/ b = {} \/ a = {} \/ y < x THEN "UNKNOWN"
                             ELSE IF y > x THEN (IF c = Advisory THEN "WARN" ELSE "FAIL")
                             ELSE IF \E d \in CounterNames : y = Saturated[d] THEN "UNKNOWN" ELSE "PASS"
      BY DEF RoceMetric
    <3> QED BY <2>0, <2>1, <3>1
  <2>5. x \in Int /\ y \in Int
    BY <2>2
  <2> HIDE DEF x, y
  <2>6. y = x /\ \A d \in CounterNames : y # Saturated[d]
    BY <1>2, <2>4, <2>5 DEF Harmless
  <2> QED BY <2>0, <2>2, <2>3, <2>6 DEF x, y
<1> QED BY <1>1, <1>2

\* What HealthyPort asks of a port's counters.
QuietPort(port) ==
  /\ Known(port.window)
  /\ \A c \in RequiredCounters :
       LET w == ValueOf(port.window)
       IN /\ c \in DOMAIN w.before /\ c \in DOMAIN w.after /\ Known(w.interval)
          /\ w.after[c] = w.before[c] /\ w.after[c] # Saturated[c]

\* A port with harmless counters is quiet.
LEMMA IbPortMeans ==
  ASSUME NEW port, \A w \in port.window : IsWindow(w)
  PROVE  /\ IbCounterPort(port) \in Statuses
         /\ IbCounterPort(port) \in Harmless => QuietPort(port)
<1> DEFINE w == ValueOf(port.window)
           S == {IbMetric(w, c) : c \in RequiredCounters} \cup ({IbMetric(w, Advisory)} \cap {"WARN", "FAIL"})
<1>1. CASE port.window = {} \/ w.status \in {"DISABLED", "INVALID_INTERVAL"}
  BY <1>1 DEF IbCounterPort, Statuses, Harmless
<1>2. CASE port.window # {} /\ w.status \notin {"DISABLED", "INVALID_INTERVAL"}
  <2>1. IsWindow(w)
    BY <1>2 DEF ValueOf
  <2>2. IbCounterPort(port) = Worst(S)
    BY <1>2 DEF IbCounterPort
  <2>3. "link_downed" \in RequiredCounters /\ Advisory \notin RequiredCounters
    BY DEF RequiredCounters, Advisory
  <2> HIDE DEF w
  <2>4. S \subseteq Statuses /\ S # {}
    BY <2>1, <2>3, IbMetricMeans DEF Statuses
  <2>5. Worst(S) \in S /\ (Worst(S) \in Harmless => S \subseteq Harmless)
    <3> HIDE DEF S
    <3> QED BY <2>4, WorstWeighs
  <2>6. ASSUME Worst(S) \in Harmless, NEW c \in RequiredCounters PROVE IbMetric(w, c) \in Harmless /\ c # Advisory
    BY <2>3, <2>5, <2>6
  <2>7. Worst(S) \in Harmless =>
          \A c \in RequiredCounters :
              /\ c \in DOMAIN w.before /\ c \in DOMAIN w.after /\ Known(w.interval)
              /\ w.after[c] = w.before[c] /\ w.after[c] # Saturated[c]
    BY <2>1, <2>6, IbMetricMeans
  <2> QED BY <1>2, <2>2, <2>4, <2>5, <2>7 DEF QuietPort, w, Known
<1> QED BY <1>1, <1>2

\* The same of a RoCE port, whose counters are the ones the driver has.
LEMMA RocePortMeans ==
  ASSUME NEW port, \A w \in port.window : IsWindow(w)
  PROVE  /\ RoceCounterPort(port) \in Statuses
         /\ RoceCounterPort(port) \in Harmless => QuietPort(port)
<1> DEFINE w == ValueOf(port.window)
           selected == DOMAIN w.before \cup DOMAIN w.after
           incomplete == \/ selected = {}
                         \/ RoceComparable(w) = {}
                         \/ w.status # "COMPLETE"
                         \/ ~(RequiredCounters \subseteq DOMAIN w.before \cap DOMAIN w.after)
           S == {RoceMetric(w, c) : c \in selected} \cup (IF incomplete THEN {"UNKNOWN"} ELSE {})
<1>1. CASE port.window = {} \/ w.status \in {"DISABLED", "INVALID_INTERVAL"}
  BY <1>1 DEF RoceCounterPort, Statuses, Harmless
<1>2. CASE port.window # {} /\ w.status \notin {"DISABLED", "INVALID_INTERVAL"}
  <2>1. IsWindow(w)
    BY <1>2 DEF ValueOf
  <2>2. RoceCounterPort(port) = Worst(S)
    BY <1>2 DEF RoceCounterPort
  <2>3. /\ incomplete \in BOOLEAN /\ (selected = {} => incomplete)
        /\ ~ incomplete => RequiredCounters \subseteq DOMAIN w.before \cap DOMAIN w.after
    OBVIOUS
  <2> HIDE DEF w, incomplete
  <2>4. S \subseteq Statuses /\ S # {}
    BY <2>1, <2>3, RoceMetricMeans DEF Statuses
  <2>5. Worst(S) \in S /\ (Worst(S) \in Harmless => S \subseteq Harmless)
    <3> HIDE DEF S
    <3> QED BY <2>4, WorstWeighs
  <2>6. ASSUME Worst(S) \in Harmless, NEW c \in RequiredCounters PROVE RoceMetric(w, c) \in Harmless
    <3>1. ~ incomplete
      BY <2>5, <2>6 DEF Harmless
    <3> QED BY <2>3, <2>5, <2>6, <3>1
  <2>7. Worst(S) \in Harmless =>
          \A c \in RequiredCounters :
              /\ c \in DOMAIN w.before /\ c \in DOMAIN w.after /\ Known(w.interval)
              /\ w.after[c] = w.before[c] /\ w.after[c] # Saturated[c]
    BY <2>1, <2>6, RoceMetricMeans
  <2> QED BY <1>2, <2>2, <2>4, <2>5, <2>7 DEF QuietPort, w, Known
<1> QED BY <1>1, <1>2

IsNet(net) == \A port \in PortsOf(net) : \A w \in port.window : IsWindow(w)

\* A clean check is neither failed nor unknown.
LEMMA CleanCheck ==
  ASSUME NEW status, NEW reason, Clean(AddCheck(status, reason))
  PROVE  status \notin {"FAIL", "UNKNOWN"}
BY DEF Clean, Severities, AddCheck, Raise, Finding

\* Where RDMA is required, clean counters mean that every port is quiet.
LEMMA CleanCounters ==
  ASSUME NEW net, IsNet(net), NEW required, required = TRUE, NEW expected,
         Clean(CounterFindings(net, required, expected))
  PROVE  \A port \in PortsIn(net, "NATIVE_INFINIBAND") \cup PortsIn(net, "ROCE") : QuietPort(port)
<1> DEFINE I == PortsIn(net, "NATIVE_INFINIBAND")
           R == PortsIn(net, "ROCE")
           ib == CounterStatus(I, IbCounterPort)
           roce == CounterStatus(R, RoceCounterPort)
           SI == {IbCounterPort(p) : p \in I}
           SR == {RoceCounterPort(p) : p \in R}
<1>1. CounterFindings(net, required, expected)
        = AddCheck(ib, CounterReason("ib", ib)) \cup AddCheck(roce, CounterReason("roce", roce))
  BY DEF CounterFindings, Exposed
<1>2. ib \notin {"FAIL", "UNKNOWN"} /\ roce \notin {"FAIL", "UNKNOWN"}
  <2> HIDE DEF ib, roce
  <2>1. Clean(AddCheck(ib, CounterReason("ib", ib))) /\ Clean(AddCheck(roce, CounterReason("roce", roce)))
    BY <1>1, CleanUnion
  <2> QED BY <2>1, CleanCheck
<1>3. /\ I # {} => ib = Worst(SI)
      /\ R # {} => roce = Worst(SR)
  BY DEF CounterStatus
<1>4. \A port \in I \cup R : \A w \in port.window : IsWindow(w)
  BY DEF IsNet, PortsIn
<1> HIDE DEF I, R, ib, roce
<1>5. ASSUME NEW port \in I PROVE QuietPort(port)
  <2>1. SI \subseteq Statuses /\ SI # {}
    BY <1>4, <1>5, IbPortMeans
  <2>2. Worst(SI) \in Harmless => SI \subseteq Harmless
    <3> HIDE DEF SI
    <3> QED BY <2>1, WorstWeighs
  <2>3. Worst(SI) \in Statuses
    <3> HIDE DEF SI
    <3> QED BY <2>1, WorstWeighs
  <2>4. IbCounterPort(port) \in Harmless
    BY <1>2, <1>3, <1>5, <2>2, <2>3 DEF Statuses, Harmless
  <2> QED BY <1>4, <2>4, IbPortMeans
<1>6. ASSUME NEW port \in R PROVE QuietPort(port)
  <2>1. SR \subseteq Statuses /\ SR # {}
    BY <1>4, <1>6, RocePortMeans
  <2>2. Worst(SR) \in Harmless => SR \subseteq Harmless
    <3> HIDE DEF SR
    <3> QED BY <2>1, WorstWeighs
  <2>3. Worst(SR) \in Statuses
    <3> HIDE DEF SR
    <3> QED BY <2>1, WorstWeighs
  <2>4. RoceCounterPort(port) \in Harmless
    BY <1>2, <1>3, <1>6, <2>2, <2>3 DEF Statuses, Harmless
  <2> QED BY <1>4, <2>4, RocePortMeans
<1> QED BY <1>5, <1>6 DEF I, R

----------------------------------------------------------------------------
(* Protocols and endpoints. *)

PortKinds == {"NATIVE_INFINIBAND", "ROCE", "ETHERNET_RDMA_EVIDENCE_INCOMPLETE", "ETHERNET_RDMA_UNCONFIRMED", "UNKNOWN"}
Definite == {"NATIVE_INFINIBAND", "ROCE"}

\* The class of a port follows its link layer.
LEMMA PortClass ==
  ASSUME NEW port
  PROVE  /\ ClassifyPort(port) \in PortKinds
         /\ ClassifyPort(port) = "NATIVE_INFINIBAND" => port.link_layer = "INFINIBAND"
         /\ ClassifyPort(port) = "ROCE" => port.link_layer = "ETHERNET" /\ RoceVersions(port) # {}
BY DEF ClassifyPort, PortKinds

\* A definite protocol of a node is the protocol of every port it has.
LEMMA ProtocolOfPorts ==
  ASSUME NEW net, CurrentProtocol(net) \in Definite
  PROVE  /\ PortsOf(net) # {}
         /\ \A p \in PortsOf(net) : ClassifyPort(p) = CurrentProtocol(net)
<1> DEFINE Seen == {ClassifyPort(p) : p \in PortsOf(net)}
           Active == Seen \cap Definite
           Weak == Seen \ Active
           P == CurrentProtocol(net)
<1>1. P = CASE Cardinality(Active) > 1 -> "MIXED"
            [] Cardinality(Active) = 1 /\ Weak # {} -> "MIXED_OR_INCOMPLETE"
            [] Cardinality(Active) = 1 /\ Weak = {} -> CHOOSE p \in Active : TRUE
            [] Active = {} /\ "ETHERNET_RDMA_EVIDENCE_INCOMPLETE" \in Seen -> "ETHERNET_RDMA_EVIDENCE_INCOMPLETE"
            [] Active = {} /\ "ETHERNET_RDMA_EVIDENCE_INCOMPLETE" \notin Seen
                 /\ "ETHERNET_RDMA_UNCONFIRMED" \in Seen -> "ETHERNET_RDMA_UNCONFIRMED"
            [] Seen = {"UNKNOWN"} -> "UNKNOWN"
            [] Seen = {} -> "NO_RDMA_PORTS"
  BY DEF CurrentProtocol, Definite
<1>2. Seen \subseteq PortKinds
  BY PortClass
<1>3. Cardinality({}) = 0 /\ (\A x : Cardinality({x}) = 1) /\ Cardinality(Definite) = 2
  <2>1. Definite = {"NATIVE_INFINIBAND"} \cup {"ROCE"}
    BY DEF Definite
  <2>2. IsFiniteSet({"NATIVE_INFINIBAND"}) /\ Cardinality({"NATIVE_INFINIBAND"}) = 1
    BY FS_Singleton
  <2>3. Cardinality(Definite) = 2
    BY <2>1, <2>2, FS_AddElement
  <2> QED BY <2>3, FS_EmptySet, FS_Singleton
<1> HIDE DEF P, Seen
<1>4. \/ Active = {} \/ Active = Definite
      \/ Active = {"NATIVE_INFINIBAND"} \/ Active = {"ROCE"}
  BY DEF Definite
<1>5. Active # {}
  <2>1. SUFFICES ASSUME Active = {} PROVE FALSE
    OBVIOUS
  <2>2. Seen \subseteq {"ETHERNET_RDMA_EVIDENCE_INCOMPLETE", "ETHERNET_RDMA_UNCONFIRMED", "UNKNOWN"}
    BY <1>2, <2>1 DEF PortKinds, Definite
  <2>3. ~ (Cardinality(Active) > 1) /\ ~ (Cardinality(Active) = 1)
    BY <1>3, <2>1
  <2>4. \/ "ETHERNET_RDMA_EVIDENCE_INCOMPLETE" \in Seen \/ "ETHERNET_RDMA_UNCONFIRMED" \in Seen
        \/ Seen = {"UNKNOWN"} \/ Seen = {}
    BY <2>2
  <2>5. P \in {"ETHERNET_RDMA_EVIDENCE_INCOMPLETE", "ETHERNET_RDMA_UNCONFIRMED", "UNKNOWN", "NO_RDMA_PORTS"}
    BY <1>1, <2>1, <2>3, <2>4
  <2> QED BY <2>5 DEF Definite, P
<1>6. Active # Definite
  <2>1. SUFFICES ASSUME Active = Definite PROVE FALSE
    OBVIOUS
  <2>2. Cardinality(Active) > 1 /\ ~ (Cardinality(Active) = 1) /\ Active # {} /\ Seen # {} /\ Seen # {"UNKNOWN"}
    BY <1>3, <2>1 DEF Definite
  <2>3. P = "MIXED"
    BY <1>1, <2>2
  <2> QED BY <2>3 DEF Definite, P
<1>7. PICK a \in Definite : Active = {a}
  BY <1>4, <1>5, <1>6 DEF Definite
<1>8. Weak = {} /\ P = a
  <2>1. Cardinality(Active) = 1 /\ ~ (Cardinality(Active) > 1) /\ Active # {} /\ Seen # {"UNKNOWN"} /\ Seen # {}
    BY <1>3, <1>7 DEF Definite
  <2>2. (CHOOSE p \in Active : TRUE) = a
    BY <1>7
  <2>3. Weak # {} => P = "MIXED_OR_INCOMPLETE"
    BY <1>1, <2>1
  <2>4. Weak = {}
    BY <2>3 DEF Definite, P
  <2>5. P = a
    BY <1>1, <2>1, <2>2, <2>4
  <2> QED BY <2>4, <2>5
<1>9. Seen = {a}
  BY <1>7, <1>8
<1> QED BY <1>8, <1>9 DEF P, Seen

\* A node with clean findings has one protocol, a definite one where it is required.
LEMMA CleanProtocol ==
  ASSUME NEW net, NEW required \in BOOLEAN, Clean(ProtocolFindings(net, required))
  PROVE  CurrentProtocol(net) # "MIXED" /\ (required => CurrentProtocol(net) \in Definite)
<1> DEFINE p == CurrentProtocol(net)
<1>1. /\ Clean(Raise(p = "MIXED", "FAIL", "RDMA_PROTOCOL_MIXED_ON_NODE"))
      /\ Clean(Raise(p \notin {"MIXED", "NATIVE_INFINIBAND", "ROCE"},
                     IF required THEN "UNKNOWN" ELSE "WARN", "RDMA_PROTOCOL_EVIDENCE_MISSING"))
  BY CleanUnion DEF ProtocolFindings
<1> HIDE DEF p
<1>2. p # "MIXED" /\ (required => p \in {"NATIVE_INFINIBAND", "ROCE"})
  BY <1>1 DEF Clean, Severities, Raise, Finding
<1> QED BY <1>2 DEF p, Definite

\* An endpoint that is not refused: the link is up and has its addresses.
LEMMA IbEndpointMeans ==
  ASSUME NEW net, IbEndpoint(net) \notin {"FAIL", "UNKNOWN"}, NEW port \in PortsIn(net, "NATIVE_INFINIBAND")
  PROVE  ActiveLinkUp(port) /\ port.lid # {0} /\ port.sm_lid # {0}
<1>1. ~ IbDefinitiveFail(port) /\ ~ IbEvidenceMissing(port)
  BY DEF IbEndpoint
<1>2. StateKnown(port)
  BY <1>1 DEF IbEvidenceMissing, StateKnown, Known
<1> QED BY <1>1, <1>2 DEF IbDefinitiveFail

\* The same of a RoCE port: the link is up, with a valid GID on an interface that is up.
LEMMA RoceEndpointMeans ==
  ASSUME NEW net, RoceEndpoint(net) \notin {"FAIL", "UNKNOWN"}, NEW port \in PortsIn(net, "ROCE")
  PROVE  /\ ActiveLinkUp(port)
         /\ \E g \in port.gids : \E n \in g.netdev : g.valid /\ net.interfaces[n].link = "UP"
<1>1. ~ RoceNotReady(net) /\ ~ RoceEvidenceMissing(net)
  BY DEF RoceEndpoint
<1>2. ActiveLinkUp(port)
  BY <1>1 DEF RoceNotReady, RoceEvidenceMissing
<1>3. RoceVersions(port) # {} /\ port \in PortsOf(net)
  BY PortClass DEF PortsIn
<1>4. PICK g \in MappedGids(port) : TRUE
  BY <1>3 DEF RoceVersions
<1>5. PICK n \in g.netdev : TRUE
  BY <1>4 DEF MappedGids, Known
<1>6. g \in port.gids /\ g.valid /\ g \in ValidGids(port)
  BY <1>4 DEF MappedGids, ValidGids
<1>7. n \in MappedNetdevs(net)
  BY <1>5, <1>6 DEF MappedNetdevs
<1>8. n \in DOMAIN net.interfaces /\ net.interfaces[n].link \in {"UP", "DOWN"}
  BY <1>1, <1>7 DEF RoceEvidenceMissing
<1>9. net.interfaces[n].link # "DOWN"
  BY <1>1, <1>7, <1>8 DEF RoceNotReady
<1> QED BY <1>2, <1>5, <1>6, <1>8, <1>9

\* Clean endpoint findings refuse neither protocol.
LEMMA CleanEndpoints ==
  ASSUME NEW net, NEW required, required = TRUE, NEW expected,
         Clean(EndpointFindings(net, required, expected))
  PROVE  IbEndpoint(net) \notin {"FAIL", "UNKNOWN"} /\ RoceEndpoint(net) \notin {"FAIL", "UNKNOWN"}
<1> DEFINE ib == AddCheck(IbEndpoint(net), EndpointReason("ib", IbEndpoint(net)))
           roce == AddCheck(RoceEndpoint(net), EndpointReason("roce", RoceEndpoint(net)))
<1>1. EndpointFindings(net, required, expected) = ib \cup roce \cup RoceGidFindings(net, expected)
  BY DEF EndpointFindings, Exposed
<1>2. Clean(ib) /\ Clean(roce)
  <2> HIDE DEF ib, roce
  <2> QED BY <1>1, CleanUnion
<1> QED BY <1>2, CleanCheck

\* The verbs open every device (_evaluate_rdma_userspace()).
LEMMA UserspaceMeans ==
  ASSUME NEW net, UserspaceStatus(net) \notin {"FAIL", "UNKNOWN"}, net.devices # {}
  PROVE  \A d \in net.devices : d.open = {0}
<1> DEFINE u == net.userspace
           Names == {d.name : d \in net.devices}
           Opens == {d.open : d \in net.devices}
<1>1. Names # {}
  OBVIOUS
<1>2. u.tool /\ u.rc = {0} /\ Names \subseteq u.enumerated
  BY <1>1 DEF UserspaceStatus
<1>3. UserspaceStatus(net) = IF \E o \in Opens : o # {} /\ o # {0} THEN "FAIL"
                             ELSE IF {} \in Opens THEN "UNKNOWN" ELSE "PASS"
  BY <1>1, <1>2 DEF UserspaceStatus
<1>4. \A o \in Opens : o = {0}
  BY <1>3
<1> QED BY <1>4

-----------------------------------------------------------------------------
(* The verdict on a node (evaluate_node_result()). *)

\* A node whose RDMA findings are clean has what HealthyNode asks of its network.
LEMMA CleanRdma ==
  ASSUME NEW net, IsNet(net), NEW required \in BOOLEAN, NEW expected, NEW policy,
         Clean(RdmaFindings(net, required, expected, policy))
  PROVE  /\ CurrentProtocol(net) # "MIXED"
         /\ required = TRUE =>
              /\ CurrentProtocol(net) \in Definite
              /\ UserspaceStatus(net) \notin {"FAIL", "UNKNOWN"}
              /\ IbEndpoint(net) \notin {"FAIL", "UNKNOWN"} /\ RoceEndpoint(net) \notin {"FAIL", "UNKNOWN"}
              /\ \A port \in PortsIn(net, "NATIVE_INFINIBAND") \cup PortsIn(net, "ROCE") : QuietPort(port)
<1> DEFINE proto == ProtocolFindings(net, required)
           awaited == ExpectedFindings(net, expected)
           user == AddCheck(Exposed(UserspaceStatus(net), required \/ expected # "auto"), "RDMA_USERSPACE")
           ends == EndpointFindings(net, required, expected)
           counts == CounterFindings(net, required, expected)
           conf == ConfigurationFindings(net, required, expected, policy)
<1>1. RdmaFindings(net, required, expected, policy) = proto \cup awaited \cup user \cup ends \cup counts \cup conf
  BY DEF RdmaFindings
<1>2. Clean(proto) /\ Clean(user) /\ Clean(ends) /\ Clean(counts)
  <2> HIDE DEF proto, awaited, user, ends, counts, conf
  <2> QED BY <1>1, CleanUnion
<1>3. required = TRUE => user = AddCheck(UserspaceStatus(net), "RDMA_USERSPACE")
  BY DEF Exposed
<1>4. required = TRUE => UserspaceStatus(net) \notin {"FAIL", "UNKNOWN"}
  <2> HIDE DEF user
  <2> QED BY <1>2, <1>3, CleanCheck
<1> QED BY <1>2, <1>4, CleanProtocol, CleanEndpoints, CleanCounters

\* Ports whose endpoint and counters passed are healthy and of one kind.
LEMMA PortsAreHealthy ==
  ASSUME NEW net, CurrentProtocol(net) \in Definite,
         UserspaceStatus(net) \notin {"FAIL", "UNKNOWN"},
         IbEndpoint(net) \notin {"FAIL", "UNKNOWN"}, RoceEndpoint(net) \notin {"FAIL", "UNKNOWN"},
         \A port \in PortsIn(net, "NATIVE_INFINIBAND") \cup PortsIn(net, "ROCE") : QuietPort(port)
  PROVE  /\ net.devices # {}
         /\ \A d \in net.devices : d.open = {0} /\ \A port \in d.ports : HealthyPort(net, port)
         /\ Cardinality({port.link_layer : port \in PortsOf(net)}) = 1
<1> DEFINE P == CurrentProtocol(net)
           Layers == {port.link_layer : port \in PortsOf(net)}
<1>1. PortsOf(net) # {} /\ \A p \in PortsOf(net) : ClassifyPort(p) = P
  BY ProtocolOfPorts
<1>2. net.devices # {}
  BY <1>1 DEF PortsOf
<1>3. \A d \in net.devices : d.open = {0}
  BY <1>2, UserspaceMeans
<1>4. ASSUME NEW d \in net.devices, NEW port \in d.ports PROVE HealthyPort(net, port)
  <2>1. port \in PortsOf(net)
    BY <1>4 DEF PortsOf
  <2>2. CASE P = "NATIVE_INFINIBAND"
    <3>1. port \in PortsIn(net, "NATIVE_INFINIBAND") /\ port.link_layer = "INFINIBAND"
      BY <1>1, <2>1, <2>2, PortClass DEF PortsIn
    <3>2. ActiveLinkUp(port) /\ port.lid # {0} /\ port.sm_lid # {0}
      BY <3>1, IbEndpointMeans
    <3>3. QuietPort(port)
      BY <3>1
    <3> QED BY <3>1, <3>2, <3>3 DEF HealthyPort, QuietPort
  <2>3. CASE P = "ROCE"
    <3>1. port \in PortsIn(net, "ROCE") /\ port.link_layer = "ETHERNET"
      BY <1>1, <2>1, <2>3, PortClass DEF PortsIn
    <3>2. /\ ActiveLinkUp(port)
          /\ \E g \in port.gids : \E n \in g.netdev : g.valid /\ net.interfaces[n].link = "UP"
      BY <3>1, RoceEndpointMeans
    <3>3. QuietPort(port)
      BY <3>1
    <3> QED BY <3>1, <3>2, <3>3 DEF HealthyPort, QuietPort
  <2> QED BY <2>2, <2>3 DEF Definite
<1>5. Layers = {IF P = "ROCE" THEN "ETHERNET" ELSE "INFINIBAND"}
  <2>1. \A port \in PortsOf(net) : port.link_layer = IF P = "ROCE" THEN "ETHERNET" ELSE "INFINIBAND"
    BY <1>1, PortClass DEF Definite
  <2> QED BY <1>1, <2>1
<1>6. Cardinality(Layers) = 1
  BY <1>5, FS_Singleton
<1> QED BY <1>2, <1>3, <1>4, <1>6

\* A node whose platform findings are clean: driver, protocol, devices and ports.
LEMMA CleanPlatform ==
  ASSUME NEW p, IsProbe(p), Clean(PlatformFindings(p, Policy))
  PROVE  /\ p.env.kfd
         /\ CurrentProtocol(p.net) # "MIXED"
         /\ RdmaRequired(Policy) =>
              /\ p.net.devices # {}
              /\ \A d \in p.net.devices : d.open = {0} /\ \A port \in d.ports : HealthyPort(p.net, port)
              /\ Cardinality({port.link_layer : port \in PortsOf(p.net)}) = 1
<1> DEFINE required == RdmaRequired(Policy)
           driver == Check(p.env.driver, FALSE, "DRIVER_VERSION_UNAVAILABLE")
           module == Check(p.env.module, FALSE, "HYCU_DRIVER_NOT_LOADED")
           kfd == Check(p.env.kfd, TRUE, "HCU_DEVICE_NODE_MISSING")
           soft == SoftwareFindings(SelectedSoftware(p.env, Policy), Policy)
           count == RdmaCountFindings(p.net, Policy)
           rdma == RdmaFindings(p.net, required, Policy.protocol, Policy.rdma_policy)
           target == TargetFindings(p.env, Policy)
<1>1. PlatformFindings(p, Policy) = driver \cup module \cup kfd \cup soft \cup count \cup rdma \cup target
  BY DEF PlatformFindings
<1>2. Clean(kfd) /\ Clean(rdma)
  <2> HIDE DEF driver, module, kfd, soft, count, rdma, target
  <2> QED BY <1>1, CleanUnion
<1>3. p.env.kfd
  BY <1>2 DEF Clean, Severities, Check, Raise, Finding, IsProbe
<1>4. IsNet(p.net)
  BY DEF IsProbe, IsNet, IsWindow
<1>5. required \in BOOLEAN
  BY DEF RdmaRequired
<1> HIDE DEF required
<1>6. /\ CurrentProtocol(p.net) # "MIXED"
      /\ required = TRUE =>
           /\ CurrentProtocol(p.net) \in Definite
           /\ UserspaceStatus(p.net) \notin {"FAIL", "UNKNOWN"}
           /\ IbEndpoint(p.net) \notin {"FAIL", "UNKNOWN"} /\ RoceEndpoint(p.net) \notin {"FAIL", "UNKNOWN"}
           /\ \A port \in PortsIn(p.net, "NATIVE_INFINIBAND") \cup PortsIn(p.net, "ROCE") : QuietPort(port)
  BY <1>2, <1>4, <1>5, CleanRdma
<1>7. required = TRUE =>
        /\ p.net.devices # {}
        /\ \A d \in p.net.devices : d.open = {0} /\ \A port \in d.ports : HealthyPort(p.net, port)
        /\ Cardinality({port.link_layer : port \in PortsOf(p.net)}) = 1
  BY <1>6, PortsAreHealthy
<1> QED BY <1>3, <1>6, <1>7 DEF required

\* A node whose resource findings are clean: all metrics, the expected cards, each healthy.
LEMMA CleanResource ==
  ASSUME NEW p, IsProbe(p), Clean(ResourceFindings(p, Policy))
  PROVE  /\ MetricsComplete(p)
         /\ MissingOr(Policy.expected, LAMBDA k : Cardinality(HyCards(p.smi, p.bus)) = k)
         /\ \A c \in HyCards(p.smi, p.bus) : HealthyCard(p, c)
<1> DEFINE smi == Raise(~p.smi_path, "FAIL", "HY_SMI_NOT_FOUND")
           roc == Raise(~p.roc_path, "FAIL", "ROCMINFO_NOT_FOUND")
           commands == Raise(~p.commands, "UNKNOWN", "HCU_METRIC_COMMAND_FAILED")
           parse == Raise(MetricsReadable(p) /\ ~MetricsComplete(p), "UNKNOWN", "HCU_METRIC_PARSE_FAILED")
           metrics == IF MetricsComplete(p) THEN MetricFindings(p, Policy) ELSE {}
<1>1. ResourceFindings(p, Policy) = smi \cup roc \cup commands \cup parse \cup metrics
  BY DEF ResourceFindings
<1>2. Clean(smi) /\ Clean(roc) /\ Clean(commands) /\ Clean(parse) /\ Clean(metrics)
  <2> HIDE DEF smi, roc, commands, parse, metrics
  <2> QED BY <1>1, CleanUnion
<1>3. p.smi_path /\ p.roc_path /\ p.commands
  BY <1>2 DEF Clean, Severities, Raise, Finding
<1>4. ~ (MetricsReadable(p) /\ ~MetricsComplete(p))
  <2>1. (MetricsReadable(p) /\ ~MetricsComplete(p)) \in BOOLEAN
    OBVIOUS
  <2> DEFINE bad == MetricsReadable(p) /\ ~MetricsComplete(p)
  <2> HIDE DEF bad
  <2> QED BY <1>2 DEF Clean, Severities, Raise, Finding, bad
<1>5. MetricsComplete(p)
  BY <1>3, <1>4 DEF MetricsReadable
<1>6. Clean(MetricFindings(p, Policy))
  BY <1>2, <1>5
<1> DEFINE cards == HyCards(p.smi, p.bus)
           match == MatchAgents(p.smi, p.bus, p.agents)
           wanted == Raise(KnownAnd(Policy.expected, LAMBDA n : Cardinality(cards) # n), "FAIL", "HCU_DEVICE_COUNT_MISMATCH")
           sources == Raise(Len(p.agents) # Cardinality(cards), "FAIL", "ROCINFO_HYSMI_DEVICE_COUNT_MISMATCH")
           matching == MatchFindings(p.smi, p.bus, p.agents)
           each == UNION {CardFindings(p.smi, c, match[c], Policy) : c \in cards}
<1>7. MetricFindings(p, Policy) = wanted \cup sources \cup matching \cup each
  BY DEF MetricFindings
<1>8. Clean(wanted) /\ Clean(matching) /\ Clean(each)
  <2> HIDE DEF wanted, sources, matching, each
  <2> QED BY <1>6, <1>7, CleanUnion
<1>9. MissingOr(Policy.expected, LAMBDA k : Cardinality(HyCards(p.smi, p.bus)) = k)
  <2> HIDE DEF cards
  <2>1. ~ (Policy.expected # {} /\ Cardinality(cards) # ValueOf(Policy.expected))
    BY <1>8 DEF Clean, Severities, Raise, Finding, KnownAnd
  <2> QED BY <2>1 DEF MissingOr, cards
<1>10. ASSUME NEW c \in cards PROVE HealthyCard(p, c)
  <2>1. Clean(CardFindings(p.smi, c, match[c], Policy))
    <3> DEFINE all == {CardFindings(p.smi, d, match[d], Policy) : d \in cards}
    <3>1. CardFindings(p.smi, c, match[c], Policy) \in all /\ Clean(UNION all)
      BY <1>8
    <3> HIDE DEF all
    <3> QED BY <3>1, CleanAll
  <2> QED BY <1>5, <1>8, <2>1, CardIsHealthy, PolicyAssumption DEF MetricsComplete
<1> QED BY <1>5, <1>9, <1>10

RecordStates == {"READY", "BLOCKED", "INCOMPLETE"}

\* A record is READY only if nothing was found, and no later check makes it so.
LEMMA ReadyNode ==
  ASSUME NEW p, IsProbe(p)
  PROVE  LET r == EvaluateNode(p, Policy)
         IN  /\ r.status \in RecordStates
             /\ r.status = "READY" =>
                  /\ HealthyNode(p)
                  /\ "resource" \in Policy.categories => MetricsComplete(p)
                  /\ "platform" \in Policy.categories => CurrentProtocol(p.net) # "MIXED"
                  /\ r.reachable = TRUE
                  /\ r.environment = Environment(p, Policy)
                  /\ r.count = IF MetricsComplete(p) THEN {Cardinality(HyCards(p.smi, p.bus))} ELSE {}
<1> DEFINE platform == IF "platform" \in Policy.categories THEN PlatformFindings(p, Policy) ELSE {}
           resource == IF "resource" \in Policy.categories THEN ResourceFindings(p, Policy) ELSE {}
           count == IF MetricsComplete(p) THEN {Cardinality(HyCards(p.smi, p.bus))} ELSE {}
           env == Environment(p, Policy)
           r == EvaluateNode(p, Policy)
<1>1. r = IF ~p.payload THEN OutputInvalid
          ELSE Record(StatusOf(platform \cup resource), platform \cup resource, TRUE, count, env)
  BY DEF EvaluateNode
<1>2. CASE ~p.payload
  BY <1>1, <1>2 DEF OutputInvalid, Record, RecordStates
<1>3. CASE p.payload
  <2> HIDE DEF platform, resource, count, env, r
  <2>1. /\ r.status = StatusOf(platform \cup resource)
        /\ r.reachable = TRUE /\ r.environment = env /\ r.count = count
    BY <1>1, <1>3 DEF Record
  <2>2. r.status \in RecordStates
    BY <2>1, StatusKinds DEF RecordStates
  <2>3. ASSUME r.status = "READY"
        PROVE  /\ HealthyNode(p)
               /\ "resource" \in Policy.categories => MetricsComplete(p)
               /\ "platform" \in Policy.categories => CurrentProtocol(p.net) # "MIXED"
    <3>1. Clean(platform) /\ Clean(resource)
      BY <2>1, <2>3, CleanOfReady, CleanUnion
    <3>2. ASSUME "platform" \in Policy.categories
          PROVE  /\ p.env.kfd
                 /\ CurrentProtocol(p.net) # "MIXED"
                 /\ RdmaRequired(Policy) =>
                      /\ p.net.devices # {}
                      /\ \A d \in p.net.devices : d.open = {0} /\ \A port \in d.ports : HealthyPort(p.net, port)
                      /\ Cardinality({port.link_layer : port \in PortsOf(p.net)}) = 1
      <4>1. Clean(PlatformFindings(p, Policy))
        BY <3>1, <3>2 DEF platform
      <4> QED BY <4>1, CleanPlatform
    <3>3. ASSUME "resource" \in Policy.categories
          PROVE  /\ MetricsComplete(p)
                 /\ MissingOr(Policy.expected, LAMBDA k : Cardinality(HyCards(p.smi, p.bus)) = k)
                 /\ \A c \in HyCards(p.smi, p.bus) : HealthyCard(p, c)
      <4>1. Clean(ResourceFindings(p, Policy))
        BY <3>1, <3>3 DEF resource
      <4> QED BY <4>1, CleanResource
    <3>4. HealthyNode(p)
      BY <1>3, <3>2, <3>3 DEF HealthyNode
    <3> QED BY <3>2, <3>3, <3>4
  <2> QED BY <2>1, <2>2, <2>3 DEF r, count, env
<1> QED BY <1>2, <1>3 DEF IsProbe

\* What the ibstat of a node may be said to be.
LEMMA StateStatuses == ASSUME NEW n PROVE StateStatus(n) \in {"FAIL", "NOT_VERIFIED", "PASS"}
BY DEF StateStatus, IbStateStatus

\* A check that is added never makes a record READY, and changes only status and findings.
LEMMA AddedCheck ==
  ASSUME NEW status \in RecordStates, NEW findings, NEW reachable, NEW count, NEW environment, NEW reason,
         NEW check \in {"FAIL", "NOT_VERIFIED", "PASS"}
  PROVE  LET r == AddCheckToRecord(Record(status, findings, reachable, count, environment), check, reason)
         IN  /\ r.status \in RecordStates
             /\ r.status = "READY" => status = "READY" /\ check = "PASS"
             /\ r.reachable = reachable /\ r.count = count /\ r.environment = environment
BY DEF AddCheckToRecord, Record, SetRecordStatus, RecordStates

\* The record of a node is READY only if the node was probed and is healthy.
LEMMA RecordMeans ==
  ASSUME IInv, op = "basic", NEW n \in Nodes
  PROVE  LET p == Probes[out[Probe(n)]]
             r == RecordOf(n)
         IN  /\ r.status \in RecordStates
             /\ r.status = "READY" =>
                  /\ n \in Probed /\ HealthyNode(p)
                  /\ "platform" \in Policy.categories => StateStatus(n) = "PASS" /\ CurrentProtocol(p.net) # "MIXED"
                  /\ r.reachable = TRUE
                  /\ r.environment = Environment(p, Policy)
                  /\ r.count = IF MetricsComplete(p) THEN {Cardinality(HyCards(p.smi, p.bus))} ELSE {}
<1> DEFINE p == Probes[out[Probe(n)]]
           r == RecordOf(n)
           checked == IF Result(Probe(n)) = "ok" THEN EvaluateNode(p, Policy)
                      ELSE TransportIncomplete(TransportKind(Result(Probe(n))))
<1>1. IsProbe(p)
  BY JobsOfNode, EvidenceAssumption DEF IInv, Kinds, TagsFor
<1>2. CASE n \notin Probed
  BY <1>2 DEF RecordOf, ExcludedRecord, Record, RecordStates
<1>3. CASE n \in Probed
  <2>1. r = IF "platform" \in Policy.categories THEN AddCheckToRecord(checked, StateStatus(n), "IB_STATE") ELSE checked
    BY <1>3 DEF RecordOf
  <2>2. \E status, findings, reachable, count, environment :
           checked = Record(status, findings, reachable, count, environment)
    BY DEF EvaluateNode, OutputInvalid, TransportIncomplete
  <2>3. PICK status, findings, reachable, count, environment :
           checked = Record(status, findings, reachable, count, environment)
    BY <2>2
  <2>4. /\ checked.status = status /\ checked.reachable = reachable
        /\ checked.count = count /\ checked.environment = environment
    <3> HIDE DEF checked
    <3> QED BY <2>3 DEF Record
  <2>5. CASE Result(Probe(n)) # "ok"
    <3>1. checked.status = "INCOMPLETE"
      BY <2>5 DEF TransportIncomplete, Record
    <3> HIDE DEF checked
    <3>2. status \in RecordStates /\ status # "READY"
      BY <2>4, <3>1 DEF RecordStates
    <3>3. r.status \in RecordStates /\ r.status # "READY"
      BY <2>1, <2>3, <2>4, <3>2, AddedCheck, StateStatuses
    <3> QED BY <3>3
  <2>6. CASE Result(Probe(n)) = "ok"
    <3>1. checked = EvaluateNode(p, Policy)
      BY <2>6
    <3> HIDE DEF checked, p
    <3>2. /\ status \in RecordStates
          /\ status = "READY" =>
               /\ HealthyNode(p)
               /\ "platform" \in Policy.categories => CurrentProtocol(p.net) # "MIXED"
               /\ reachable = TRUE
               /\ environment = Environment(p, Policy)
               /\ count = IF MetricsComplete(p) THEN {Cardinality(HyCards(p.smi, p.bus))} ELSE {}
      BY <1>1, <2>4, <3>1, ReadyNode
    <3>3. /\ r.status \in RecordStates
          /\ r.status = "READY" => status = "READY"
          /\ r.status = "READY" /\ "platform" \in Policy.categories => StateStatus(n) = "PASS"
          /\ r.reachable = reachable /\ r.count = count /\ r.environment = environment
      BY <2>1, <2>3, <2>4, <3>2, AddedCheck, StateStatuses
    <3> HIDE DEF r
    <3> QED BY <1>3, <3>2, <3>3 DEF p, r
  <2> QED BY <2>5, <2>6
<1> QED BY <1>2, <1>3

-----------------------------------------------------------------------------
(* The verdict on the cluster (build_baremetal_report()). *)

\* A container that has no issue is there, and has the image of the others.
LEMMA FitContainer ==
  ASSUME IInv, op = "basic", NEW n \in Probed
  PROVE  Present(inspected[n]) /\ ~ ImagesDiffer(inspected)
<1>1. n \in DOMAIN inspected /\ Issues(inspected, n, {}) = {}
  BY DEF Probed, ReadyNodes
<1>2. IsInspection(inspected[n])
  BY <1>1, InventoryAssumption DEF IInv, TypeOK
<1>3. NodeIssues(inspected[n], {}) = {}
  BY <1>1 DEF Issues
<1>4. Present(inspected[n])
  BY <1>2, <1>3 DEF NodeIssues, IsInspection, Present
<1> QED BY <1>1, <1>4 DEF Issues

\* The nodes that are probed have one image.
LEMMA OneImage ==
  ASSUME IInv, op = "basic", NEW n \in Probed, NEW m \in Probed
  PROVE  inspected[n].image_id = inspected[m].image_id
<1>1. Present(inspected[n]) /\ Present(inspected[m]) /\ ~ ImagesDiffer(inspected)
  BY FitContainer
<1>2. n \in DOMAIN inspected /\ m \in DOMAIN inspected
  BY DEF Probed, ReadyNodes
<1>3. <<inspected[n].image, inspected[n].image_id>> = <<inspected[m].image, inspected[m].image_id>>
  BY <1>1, <1>2 DEF ImagesDiffer
<1> QED BY <1>3

\* Without a BLOCKED or an INCOMPLETE record every record is READY.
LEMMA AllReady ==
  ASSUME IInv, op = "basic", StatusIn(Records, "BLOCKED") = {}, StatusIn(Records, "INCOMPLETE") = {},
         NEW n \in Nodes
  PROVE  Records[n] = RecordOf(n) /\ RecordOf(n).status = "READY"
<1>1. DOMAIN Records = Nodes /\ Records[n] = RecordOf(n)
  BY DEF Records
<1>2. RecordOf(n).status \in RecordStates
  BY RecordMeans
<1> QED BY <1>1, <1>2 DEF StatusIn, RecordStates

\* Two nodes whose static values were compared and agreed have one protocol.
LEMMA TwoMembers ==
  ASSUME NEW S, IsFiniteSet(S), NEW x \in S, NEW y \in S, x # y
  PROVE  Cardinality(S) \in Nat /\ Cardinality(S) > 1
<1>1. IsFiniteSet({x}) /\ Cardinality({x}) = 1
  BY FS_Singleton
<1>2. IsFiniteSet({x} \cup {y}) /\ Cardinality({x} \cup {y}) = 2
  <2>1. y \notin {x}
    OBVIOUS
  <2>2. Cardinality({x} \cup {y}) = Cardinality({x}) + 1 /\ IsFiniteSet({x} \cup {y})
    BY <1>1, <2>1, FS_AddElement
  <2> QED BY <1>1, <2>2
<1>3. Cardinality({x} \cup {y}) <= Cardinality(S)
  BY {x} \cup {y} \subseteq S, FS_Subset
<1>4. Cardinality(S) \in Nat
  BY FS_CardinalityType
<1> QED BY <1>2, <1>3, <1>4

\* A cluster that is READY has one protocol, and a definite one.
LEMMA OneProtocol ==
  ASSUME IInv, op = "basic", ReportStatus(Records, Policy) = "READY", "platform" \in Policy.categories,
         NEW n \in Nodes, NEW m \in Nodes, n # m
  PROVE  LET P(k) == CurrentProtocol(Probes[out[Probe(k)]].net)
         IN  P(n) = P(m) /\ P(n) \in Definite
<1> DEFINE P(k) == CurrentProtocol(Probes[out[Probe(k)]].net)
           field == "rdma_current_protocol"
           U == Usable(Records)
           values == {ValueIn(Records[k], field) : k \in U}
<1>1. /\ StatusIn(Records, "BLOCKED") = {} /\ StatusIn(Records, "INCOMPLETE") = {}
      /\ Clean(ConsistencyFindings(Records, Policy))
  BY DEF ReportStatus, Clean
<1>2. ASSUME NEW k \in Nodes
      PROVE  /\ k \in U /\ P(k) # "MIXED"
             /\ ValueIn(Records[k], field) = {P(k)} \cap {"NATIVE_INFINIBAND", "ROCE", "MIXED"}
  <2>1. Records[k] = RecordOf(k) /\ RecordOf(k).status = "READY"
    BY <1>1, AllReady
  <2>2. /\ Records[k].reachable = TRUE /\ P(k) # "MIXED"
        /\ Records[k].environment = Environment(Probes[out[Probe(k)]], Policy)
    BY <2>1, RecordMeans
  <2>3. /\ field \in DOMAIN Records[k].environment
        /\ Records[k].environment[field] = {P(k)}
    BY <2>2 DEF Environment
  <2>4. k \in DOMAIN Records
    BY DEF Records
  <2> QED BY <2>2, <2>3, <2>4 DEF Usable, ValueIn
<1>3. U \subseteq Nodes /\ IsFiniteSet(U) /\ Cardinality(U) \in Nat
  <2>1. U \subseteq Nodes
    BY DEF Usable, Records
  <2> QED BY <2>1, NodesAssumption, FS_Subset, FS_CardinalityType
<1>4. ~ (Cardinality(U) < 2)
  <2>1. Cardinality(U) > 1
    BY <1>2, <1>3, TwoMembers
  <2> QED BY <1>3, <2>1
<1>5. Clean(FieldFindings(Records, field, Policy))
  <2> DEFINE all == {FieldFindings(Records, f, Policy) : f \in ConsistencyFields(Records, Policy)}
  <2>1. field \in ConsistencyFields(Records, Policy)
    BY DEF ConsistencyFields
  <2>2. Clean(UNION all) /\ FieldFindings(Records, field, Policy) \in all
    BY <1>1, <1>4, <2>1 DEF ConsistencyFindings
  <2> HIDE DEF all
  <2> QED BY <2>2, CleanAll
<1>6. {} \notin values /\ ~ (Cardinality(values \ {{}}) > 1)
  <2> DEFINE none == Raise({} \in values, "UNKNOWN", "HARDWARE_EVIDENCE_MISSING")
             several == Raise(Cardinality(values \ {{}}) > 1, "FAIL", "HARDWARE_PROFILE_INCONSISTENT")
  <2>1. FieldFindings(Records, field, Policy) = none \cup several
    BY DEF FieldFindings
  <2>2. Clean(none) /\ Clean(several)
    <3> HIDE DEF none, several
    <3> QED BY <1>5, <2>1, CleanUnion
  <2> HIDE DEF values
  <2>3. {} \notin values
    BY <2>2 DEF Clean, Severities, Raise, Finding
  <2>4. ~ (Cardinality(values \ {{}}) > 1)
    BY <2>2 DEF Clean, Severities, Raise, Finding
  <2> QED BY <2>3, <2>4
<1>7. IsFiniteSet(values \ {{}})
  <2>1. IsFiniteSet(values)
    <3> DEFINE f == [k \in U |-> ValueIn(Records[k], field)]
    <3>1. f \in Surjection(U, values)
      BY DEF Surjection
    <3> HIDE DEF f, values, U
    <3> QED BY <1>3, <3>1, FS_Surjection
  <2> QED BY <2>1, FS_Subset
<1>8. \A k \in Nodes : ValueIn(Records[k], field) \in values \ {{}}
  BY <1>2, <1>6
<1>9. ValueIn(Records[n], field) = ValueIn(Records[m], field)
  <2> HIDE DEF values
  <2> QED BY <1>6, <1>7, <1>8, TwoMembers
<1>10. ASSUME NEW k \in Nodes PROVE P(k) \in Definite /\ ValueIn(Records[k], field) = {P(k)}
  BY <1>2, <1>8 DEF Definite
<1> HIDE DEF P
<1> QED BY <1>9, <1>10 DEF P

\* Nodes of one definite protocol have the same link layers.
LEMMA LayersOfProtocol ==
  ASSUME NEW a, NEW b, CurrentProtocol(a) \in Definite, CurrentProtocol(b) = CurrentProtocol(a)
  PROVE  {port.link_layer : port \in PortsOf(a)} = {port.link_layer : port \in PortsOf(b)}
<1> DEFINE layer == IF CurrentProtocol(a) = "ROCE" THEN "ETHERNET" ELSE "INFINIBAND"
<1>1. PortsOf(a) # {} /\ \A p \in PortsOf(a) : p.link_layer = layer
  BY ProtocolOfPorts, PortClass DEF Definite
<1>2. PortsOf(b) # {} /\ \A p \in PortsOf(b) : p.link_layer = layer
  BY ProtocolOfPorts, PortClass DEF Definite
<1> HIDE DEF layer
<1> QED BY <1>1, <1>2

\* A cluster that is said to be READY is: the first part of VerdictIsEarned.
LEMMA ReadyEarned == ASSUME IInv PROVE ReadyIsEarned
<1> SUFFICES ASSUME op = "basic", ReportStatus(Records, Policy) = "READY"
             PROVE  /\ \A n \in Nodes : n \in Probed /\ HealthyNode(Probes[out[Probe(n)]])
                    /\ \A n, m \in Nodes : inspected[n].image_id = inspected[m].image_id
                    /\ "platform" \in Policy.categories =>
                          /\ \A n \in Nodes : local[State(n)] = "ok" /\ IbStats[out[State(n)]].ports = {"up"}
                          /\ \A n, m \in Nodes : {port.link_layer : port \in PortsOf(Probes[out[Probe(n)]].net)}
                                                 = {port.link_layer : port \in PortsOf(Probes[out[Probe(m)]].net)}
  BY DEF ReadyIsEarned
<1>1. StatusIn(Records, "BLOCKED") = {} /\ StatusIn(Records, "INCOMPLETE") = {}
  BY DEF ReportStatus
<1>2. \A n \in Nodes : RecordOf(n).status = "READY"
  BY <1>1, AllReady
<1>3. \A n \in Nodes : n \in Probed /\ HealthyNode(Probes[out[Probe(n)]])
  BY <1>2, RecordMeans
<1>4. \A n, m \in Nodes : inspected[n].image_id = inspected[m].image_id
  BY <1>3, OneImage
<1>5. ASSUME "platform" \in Policy.categories, NEW n \in Nodes
      PROVE  local[State(n)] = "ok" /\ IbStats[out[State(n)]].ports = {"up"}
  BY <1>2, <1>5, RecordMeans, PortsUp
<1>6. ASSUME "platform" \in Policy.categories, NEW n \in Nodes, NEW m \in Nodes
      PROVE  {port.link_layer : port \in PortsOf(Probes[out[Probe(n)]].net)}
             = {port.link_layer : port \in PortsOf(Probes[out[Probe(m)]].net)}
  <2>1. CASE n = m
    BY <2>1
  <2>2. CASE n # m
    BY <1>6, <2>2, OneProtocol, LayersOfProtocol
  <2> QED BY <2>1, <2>2
<1> QED BY <1>3, <1>4, <1>5, <1>6

\* A cluster that is said to reach the scale has no fewer cards: the last part.
LEMMA ScaleEarned == ASSUME IInv PROVE ScaleIsEarned
<1> DEFINE p(n) == Probes[out[Probe(n)]]
           cards(n) == Cardinality(HyCards(p(n).smi, p(n).bus))
           whole == {m \in Nodes : MetricsComplete(p(m))}
           counted == {m \in DOMAIN Records : Known(Records[m].count)}
<1> SUFFICES ASSUME op = "basic", ScaleStatus(Records, Policy) = "FULL_SCALE_PASSED"
             PROVE  /\ \A n \in Nodes : n \in Probed /\ HealthyNode(p(n))
                    /\ \A scale \in Policy.target_scale : ~ (SumFunction([n \in whole |-> cards(n)]) < scale)
  BY DEF ScaleIsEarned
<1>1. /\ StatusIn(Records, "BLOCKED") = {} /\ StatusIn(Records, "INCOMPLETE") = {}
      /\ Policy.target_scale # {} /\ ~ (CheckedDevices(Records) < ValueOf(Policy.target_scale))
  BY DEF ScaleStatus
<1>2. ASSUME NEW n \in Nodes
      PROVE  /\ n \in Probed /\ HealthyNode(p(n))
             /\ Records[n].count = IF MetricsComplete(p(n)) THEN {cards(n)} ELSE {}
  <2>1. Records[n] = RecordOf(n) /\ RecordOf(n).status = "READY"
    BY <1>1, AllReady
  <2> QED BY <2>1, RecordMeans
<1>3. DOMAIN Records = Nodes
  BY DEF Records
<1> HIDE DEF cards
<1>4. counted = whole /\ \A n \in whole : ValueOf(Records[n].count) = cards(n)
  BY <1>2, <1>3 DEF Known, ValueOf
<1>5. [n \in counted |-> ValueOf(Records[n].count)] = [n \in whole |-> cards(n)]
  <2> HIDE DEF counted, whole
  <2> QED BY <1>4
<1>6. CheckedDevices(Records) = SumFunction([n \in whole |-> cards(n)])
  <2>1. CheckedDevices(Records) = SumFunction([n \in counted |-> ValueOf(Records[n].count)])
    BY DEF CheckedDevices
  <2> HIDE DEF counted, whole
  <2> QED BY <1>5, <2>1
<1>7. \A scale \in Policy.target_scale : scale = ValueOf(Policy.target_scale)
  BY PolicyAssumption DEF ValueOf
<1> QED BY <1>1, <1>2, <1>6, <1>7

\* A run says READY, PASS or that the scale is passed only when the evidence it
\* took shows it: every node probed and healthy (cards, ports, counters), one
\* image, one protocol, every pair measured, the devices counted on healthy nodes
\* (build_baremetal_report(), _scale_assessment(), _aggregate_status()).
THEOREM VerdictEarned == Spec => []VerdictIsEarned
<1>1. IInv => ReadyIsEarned /\ ScaleIsEarned
  BY ReadyEarned, ScaleEarned
<1> QED BY <1>1, RunSafe, PassEarned, PTL DEF VerdictIsEarned
=============================================================================
