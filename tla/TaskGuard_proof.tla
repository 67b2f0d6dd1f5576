---------------------------- MODULE TaskGuard_proof ----------------------------
(***************************************************************************)
(* A stop of task_guard.sh that answers STOPPED is right, unless forks     *)
(* outran its last two scans, for any number of processes, forks, polling  *)
(* rounds and stop invocations.                                            *)
(*                                                                         *)
(* The argument.  Every living process of the token is identified or       *)
(* doubtful (Provenance: the epoch is older than all of them), so a clear  *)
(* scan leaves none of those that were there when it began.  After the     *)
(* tombstone processes only come from forks, so what is left was born      *)
(* while the scan looked.  A first clear scan, or the kill after a freeze, *)
(* leaves none that could fork but what was born while it looked; so       *)
(* without such births nothing readable is born during the scan that       *)
(* decides.                                                                *)
(***************************************************************************)
EXTENDS TaskGuard, TLAPS

\* Who the processes of the token are, and that the epoch is older.
Provenance ==
  /\ \A p \in Proc : proc[p].st # "unborn" => p <= born
  /\ \A p \in Proc : proc[p].kind \in {"owner", "task"} => epoch # 0 /\ epoch < p
  /\ \A p \in Proc : proc[p].kind = "run" /\ proc[p].owner = p => epoch # 0 /\ epoch <= p
  /\ \A p \in members : proc[p].kind = "owner" /\ proc[p].st # "unborn"
  /\ \A p \in Proc : proc[p].kind = "owner" => proc[p].open
  /\ \A p \in Proc : proc[p].sess => proc[p].kind \in {"owner", "task"}

CanFork(p) == proc[p].kind = "task" /\ proc[p].st = "live" /\ proc[p].open

\* The scan before the one that may decide has been made.
Settled(i) == s[i].at = "final" \/ s[i].stable # 0

\* What a stop that has left its tombstone knows.
Sweep ==
  \A i \in Stopper :
    /\ s[i].at \in Scanning \cup {"STOPPED"} => tomb
    /\ s[i].on => s[i].at \in Scanning
    /\ s[i].stable # 0 => s[i].at \in {"verify", "final", "STOPPED"}
    /\ s[i].on => \A p \in Proc : Ours(p) =>
                    p \in s[i].snap \/ (proc[p].kind = "task" /\ s[i].now # "none")
    /\ Settled(i) /\ ~ s[i].on /\ s[i].now = "none" => \A p \in Proc : ~ CanFork(p)
    /\ Settled(i) /\ s[i].on /\ s[i].before = "none" =>
         s[i].now # "read" /\ \A p \in Proc : ~ CanFork(p)

\* Before the first run was admitted.
Unstarted == epoch = 0 => \A i \in Stopper : s[i].known = {} /\ s[i].at # "FAILED"

IInv == TypeOK /\ Provenance /\ Sweep /\ StoppedMeansGone /\ Unstarted

LEMMA InitIInv == Init => IInv
  <1> SUFFICES ASSUME Init PROVE IInv
    OBVIOUS
  <1>0. 0 \in 0..MaxProc /\ 0 \in 0..MaxRound
    BY GuardAssumption
  <1>1. TypeOK
    <2>1. proc \in [Proc -> ProcRec]
      BY <1>0 DEF Init, ProcRec
    <2>2. s \in [Stopper -> StopRec]
      BY <1>0 DEF Init, StopRec, Place, Births
    <2> QED
      BY <1>0, <2>1, <2>2 DEF Init, TypeOK
  <1>2. Provenance /\ Sweep /\ StoppedMeansGone /\ Unstarted
    BY DEF Init, Provenance, Sweep, StoppedMeansGone, Settled, Scanning, Unstarted
  <1> QED
    BY <1>1, <1>2 DEF IInv

-----------------------------------------------------------------------------
(* Types.                                                                  *)

LEMMA NewbornType ==
  ASSUME TypeOK, NEW k \in {"run", "owner", "task", "other"}, NEW o \in 0..MaxProc,
         NEW b \in BOOLEAN, NEW c \in BOOLEAN
  PROVE  Newborn(k, o, b, c) \in ProcRec
  BY DEF Newborn, ProcRec

LEMMA DiesType ==
  ASSUME TypeOK, NEW p \in Proc, Dies(p)
  PROVE  proc' \in [Proc -> ProcRec]
  BY DEF TypeOK, Dies, ProcRec

LEMMA BirthType ==
  ASSUME TypeOK, born < MaxProc, NEW r \in ProcRec,
         NEW f \in [Proc -> ProcRec]
  PROVE  /\ born + 1 \in Proc
         /\ [f EXCEPT ![born + 1] = r] \in [Proc -> ProcRec]
  BY GuardAssumption DEF TypeOK, Proc

LEMMA BornType ==
  ASSUME TypeOK, born < MaxProc, born' = born + 1, NEW r \in ProcRec,
         proc' = [proc EXCEPT ![born + 1] = r]
  PROVE  proc' \in [Proc -> ProcRec] /\ born' \in 0..MaxProc
  <1>1. proc \in [Proc -> ProcRec] /\ born \in 0..MaxProc
    BY DEF TypeOK
  <1>2. [proc EXCEPT ![born + 1] = r] \in [Proc -> ProcRec]
    BY <1>1, BirthType
  <1> QED
    BY <1>1, <1>2, GuardAssumption

LEMMA EndsType ==
  ASSUME TypeOK, NEW i \in Stopper, NEW at \in Place, NEW n \in 0..2, Ends(i, at, n),
         s[i].round < MaxRound \/ at # s[i].at
  PROVE  s' \in [Stopper -> StopRec]
  <1>1. s[i] \in StopRec /\ s[i].round \in 0..MaxRound /\ s[i].known \subseteq Proc
        /\ s[i].snap \subseteq Proc
    BY DEF TypeOK, StopRec
  <1>2. Known(i) \subseteq Proc
    BY <1>1 DEF Known, Seen
  <1>3. (IF at = s[i].at THEN s[i].round + 1 ELSE 0) \in 0..MaxRound
    BY <1>1, GuardAssumption
  <1>4. s[i].now \in Births /\ s[i].before \in Births
    BY <1>1 DEF StopRec
  <1> QED
    BY <1>1, <1>2, <1>3, <1>4 DEF Ends, TypeOK, StopRec

LEMMA EndsFields ==
  ASSUME TypeOK, NEW i \in Stopper, NEW at, NEW n, Ends(i, at, n)
  PROVE  /\ s'[i].at = at /\ ~ s'[i].on /\ s'[i].stable = n /\ s'[i].known = Known(i)
         /\ s'[i].now = s[i].now /\ s'[i].before = s[i].before
         /\ \A j \in Stopper : j # i => s'[j] = s[j]
  BY DEF Ends, TypeOK

LEMMA TypeStep ==
  ASSUME IInv, [Next]_vars
  PROVE  TypeOK'
  <1> USE DEF IInv
  <1>1. CASE OtherBorn
    <2>0. 0 \in 0..MaxProc
      BY GuardAssumption
    <2>1. Newborn("other", 0, FALSE, FALSE) \in ProcRec
      BY <2>0, NewbornType
    <2>2. proc' \in [Proc -> ProcRec] /\ born' \in 0..MaxProc
      BY <1>1, <2>1, BornType DEF OtherBorn
    <2> QED
      BY <1>1, <2>2 DEF OtherBorn, TypeOK
  <1>2. CASE RunCalled
    <2>0. 0 \in 0..MaxProc
      BY GuardAssumption
    <2>1. Newborn("run", 0, FALSE, TRUE) \in ProcRec
      BY <2>0, NewbornType
    <2>2. proc' \in [Proc -> ProcRec] /\ born' \in 0..MaxProc
      BY <1>2, <2>1, BornType DEF RunCalled
    <2> QED
      BY <1>2, <2>2 DEF RunCalled, TypeOK
  <1>3. ASSUME NEW p \in Proc, RunAdmits(p) PROVE TypeOK'
    <2>1. p \in 0..MaxProc
      BY DEF Proc
    <2>2. proc' \in [Proc -> ProcRec]
      <3>1. CASE Dies(p)
        BY <3>1, DiesType
      <3>2. CASE proc' = [proc EXCEPT ![p].owner = p]
        BY <3>2, <2>1 DEF TypeOK, ProcRec
      <3> QED
        BY <1>3, <3>1, <3>2 DEF RunAdmits
    <2> QED
      BY <1>3, <2>1, <2>2 DEF RunAdmits, TypeOK
  <1>4. ASSUME NEW p \in Proc, OwnerStarts(p) PROVE TypeOK'
    <2>1. born + 1 \in 0..MaxProc /\ born + 1 \in Proc
      BY <1>4, GuardAssumption DEF OwnerStarts, TypeOK, Proc
    <2>2. Newborn("owner", born + 1, TRUE, TRUE) \in ProcRec
      BY <2>1, NewbornType
    <2>3. [proc EXCEPT ![p].st = "gone"] \in [Proc -> ProcRec]
      BY DEF TypeOK, ProcRec
    <2>4. proc' = [[proc EXCEPT ![p].st = "gone"]
                     EXCEPT ![born + 1] = Newborn("owner", born + 1, TRUE, TRUE)]
      BY <1>4 DEF OwnerStarts
    <2>5. proc' \in [Proc -> ProcRec]
      BY <2>1, <2>2, <2>3, <2>4
    <2> QED
      BY <1>4, <2>1, <2>5 DEF OwnerStarts, TypeOK
  <1>5. ASSUME NEW o \in Proc, OwnerAdmits(o) PROVE TypeOK'
    <2>1. CASE tomb
      <3>1. Dies(o) /\ UNCHANGED <<born, members>>
        BY <1>5, <2>1 DEF OwnerAdmits
      <3> QED
        BY <1>5, <3>1, DiesType DEF OwnerAdmits, TypeOK
    <2>2. CASE ~ tomb
      <3>1. born < MaxProc /\ born' = born + 1 /\ members' = members \cup {o}
            /\ proc' = [proc EXCEPT ![born + 1] = Newborn("task", o, TRUE, TRUE)]
        BY <1>5, <2>2 DEF OwnerAdmits
      <3>0. o \in 0..MaxProc
        BY DEF Proc
      <3>2. Newborn("task", o, TRUE, TRUE) \in ProcRec
        BY <3>0, NewbornType
      <3>3. proc' \in [Proc -> ProcRec] /\ born' \in 0..MaxProc
        BY <3>1, <3>2, BornType
      <3> QED
        BY <1>5, <3>1, <3>3 DEF OwnerAdmits, TypeOK
    <2> QED
      BY <2>1, <2>2
  <1>6. ASSUME NEW p \in Proc, OwnerExits(p) \/ Exits(p) PROVE TypeOK'
    BY <1>6, DiesType DEF OwnerExits, Exits, TypeOK
  <1>7. ASSUME NEW p \in Proc, Forks(p) PROVE TypeOK'
    <2>1. proc[p] \in ProcRec
      BY DEF TypeOK
    <2>2. proc' \in [Proc -> ProcRec] /\ born' \in 0..MaxProc
      BY <1>7, <2>1, BornType DEF Forks
    <2>3. s' \in [Stopper -> StopRec]
      <3>1. \A i \in Stopper, b \in Births : [s[i] EXCEPT !.now = b] \in StopRec
        BY DEF TypeOK, StopRec
      <3>2. \A i \in Stopper : s[i] \in StopRec
        BY DEF TypeOK
      <3> QED
        BY <1>7, <3>1, <3>2 DEF Forks, Births
    <2> QED
      BY <1>7, <2>2, <2>3 DEF Forks, TypeOK
  <1>8. ASSUME NEW p \in Proc, Detaches(p) \/ Seals(p) PROVE TypeOK'
    <2>1. proc \in [Proc -> ProcRec] /\ proc[p] \in ProcRec
      BY DEF TypeOK
    <2>2. PICK r \in ProcRec : proc' = [proc EXCEPT ![p] = r]
      <3>1. CASE Detaches(p)
        <4>1. [proc[p] EXCEPT !.sess = FALSE] \in ProcRec
          BY <2>1 DEF ProcRec
        <4> QED
          BY <3>1, <4>1 DEF Detaches
      <3>2. CASE Seals(p)
        <4>1. [proc[p] EXCEPT !.open = FALSE] \in ProcRec
          BY <2>1 DEF ProcRec
        <4> QED
          BY <3>2, <4>1 DEF Seals
      <3> QED
        BY <1>8, <3>1, <3>2
    <2>3. proc' \in [Proc -> ProcRec]
      BY <2>1, <2>2
    <2>4. UNCHANGED <<born, tomb, epoch, members, s>>
      BY <1>8 DEF Detaches, Seals
    <2> QED
      BY <2>3, <2>4 DEF TypeOK
  <1>9. ASSUME NEW i \in Stopper, StopCalled(i) \/ LeavesTombstone(i) PROVE TypeOK'
    <2>1. s' \in [Stopper -> StopRec]
      BY <1>9 DEF StopCalled, LeavesTombstone, Goes, TypeOK, StopRec, Place
    <2> QED
      BY <1>9, <2>1 DEF StopCalled, LeavesTombstone, TypeOK
  <1>10. ASSUME NEW i \in Stopper, ScanBegins(i) PROVE TypeOK'
    <2>1. s' \in [Stopper -> StopRec]
      <3>1. s \in [Stopper -> StopRec] /\ s[i] \in StopRec /\ s[i].now \in Births
        BY DEF TypeOK, StopRec
      <3>2. ASSUME NEW P \in SUBSET Proc, NEW b \in Births
            PROVE  [s[i] EXCEPT !.on = TRUE, !.snap = P, !.before = b, !.now = "none"] \in StopRec
        BY <3>1 DEF StopRec, Births
      <3>3. {p \in Proc : Alive(p)} \in SUBSET Proc
        OBVIOUS
      <3>4. PICK r \in StopRec : s' = [s EXCEPT ![i] = r]
        <4>1. s' = [s EXCEPT ![i] = [s[i] EXCEPT !.on = TRUE, !.snap = {p \in Proc : Alive(p)},
                                                 !.before = s[i].now, !.now = "none"]]
          BY <1>10, <3>1 DEF ScanBegins
        <4> QED
          BY <3>1, <3>2, <3>3, <4>1
      <3> QED
        BY <3>1, <3>4
    <2> QED
      BY <1>10, <2>1 DEF ScanBegins, TypeOK
  <1>11. ASSUME NEW i \in Stopper, GraceEnds(i) \/ VerifyClear(i) \/ Answers(i)
         PROVE  TypeOK'
    <2>1. s' \in [Stopper -> StopRec]
      <3>1. s[i].round \in 0..MaxRound
        BY DEF TypeOK, StopRec
      <3>2. CASE GraceEnds(i)
        BY <3>1, <3>2, EndsType DEF GraceEnds, Place
      <3>3. CASE VerifyClear(i)
        BY <3>1, <3>3, EndsType DEF VerifyClear, Place
      <3>4. CASE Answers(i)
        BY <3>1, <3>4, EndsType DEF Answers, Place
      <3> QED
        BY <1>11, <3>2, <3>3, <3>4
    <2> QED
      BY <1>11, <2>1 DEF GraceEnds, VerifyClear, Answers, TypeOK
  <1>12. ASSUME NEW i \in Stopper, VerifyFreezes(i) \/ Kills(i) PROVE TypeOK'
    <2>1. s' \in [Stopper -> StopRec]
      BY <1>12, EndsType DEF VerifyFreezes, Kills, Place
    <2>2. proc' \in [Proc -> ProcRec]
      BY <1>12 DEF VerifyFreezes, Kills, Signalled, TypeOK, ProcRec
    <2> QED
      BY <1>12, <2>1, <2>2 DEF VerifyFreezes, Kills, TypeOK
  <1>13. CASE UNCHANGED vars
    BY <1>13 DEF vars, TypeOK
  <1> QED
    BY <1>1, <1>2, <1>3, <1>4, <1>5, <1>6, <1>7, <1>8, <1>9, <1>10, <1>11, <1>12, <1>13
       DEF Next

-----------------------------------------------------------------------------
(* Provenance.                                                             *)

LEMMA ProvenanceStep ==
  ASSUME IInv, [Next]_vars
  PROVE  Provenance'
  <1> USE DEF IInv
  <1>0. /\ born \in 0..MaxProc /\ epoch \in 0..MaxProc /\ MaxProc \in Nat
        /\ proc \in [Proc -> ProcRec] /\ members \subseteq Proc
        /\ \A p \in Proc : p \in Nat /\ p # 0
    BY GuardAssumption DEF TypeOK, Proc
  <1>1. CASE OtherBorn \/ RunCalled
    <2>1. \E k \in {"run", "other"}, c \in BOOLEAN :
            proc' = [proc EXCEPT ![born + 1] = Newborn(k, 0, FALSE, c)]
      BY <1>1 DEF OtherBorn, RunCalled
    <2>0. born < MaxProc /\ born' = born + 1 /\ epoch' = epoch /\ members' = members
      BY <1>1 DEF OtherBorn, RunCalled
    <2>2. born + 1 \in Proc
      BY <1>0, <2>0 DEF Proc
    <2>3. PICK k \in {"run", "other"}, c \in BOOLEAN :
            proc' = [proc EXCEPT ![born + 1] = Newborn(k, 0, FALSE, c)]
      BY <2>1
    <2>4. \A p \in Proc : p # born + 1 => proc'[p] = proc[p]
      BY <1>0, <2>3
    <2>5. proc'[born + 1].kind = k /\ proc'[born + 1].owner = 0 /\ ~ proc'[born + 1].sess
      BY <1>0, <2>2, <2>3 DEF Newborn
    <2>6. born + 1 \notin members
      BY <1>0 DEF Provenance
    <2> QED
      BY <1>0, <2>0, <2>2, <2>4, <2>5, <2>6 DEF Provenance
  <1>2. ASSUME NEW p \in Proc, RunAdmits(p) PROVE Provenance'
    <2>1. CASE tomb
      BY <1>0, <1>2, <2>1 DEF RunAdmits, Dies, Provenance, ProcRec
    <2>2. CASE ~ tomb
      <3>1. /\ epoch' = IF epoch = 0 \/ p < epoch THEN p ELSE epoch
            /\ proc' = [proc EXCEPT ![p].owner = p]
            /\ UNCHANGED <<born, members>>
        BY <1>2, <2>2 DEF RunAdmits
      <3>2. epoch' # 0 /\ epoch' <= p /\ (epoch # 0 => epoch' <= epoch) /\ epoch' \in Nat
        BY <1>0, <3>1
      <3> QED
        BY <1>0, <3>1, <3>2 DEF Provenance, ProcRec
    <2> QED
      BY <2>1, <2>2
  <1>3. ASSUME NEW p \in Proc, OwnerStarts(p) PROVE Provenance'
    <2>1. epoch # 0 /\ epoch <= p /\ p <= born /\ born + 1 \in Proc
      BY <1>0, <1>3 DEF OwnerStarts, Provenance, Proc
    <2> QED
      BY <1>0, <1>3, <2>1 DEF OwnerStarts, Newborn, Provenance, ProcRec
  <1>4. ASSUME NEW o \in Proc, OwnerAdmits(o) PROVE Provenance'
    <2>1. CASE tomb
      BY <1>0, <1>4, <2>1 DEF OwnerAdmits, Dies, Provenance, ProcRec
    <2>2. CASE ~ tomb
      <3>1. epoch # 0 /\ epoch < o /\ o <= born
        BY <1>0, <1>4 DEF OwnerAdmits, Provenance
      <3>2. born < MaxProc /\ born' = born + 1 /\ members' = members \cup {o}
            /\ proc' = [proc EXCEPT ![born + 1] = Newborn("task", o, TRUE, TRUE)]
            /\ epoch' = epoch /\ proc[o].kind = "owner"
        BY <1>4, <2>2 DEF OwnerAdmits
      <3>3. proc[o].st # "unborn" /\ o # born + 1 /\ born + 1 \in Proc
        BY <1>0, <1>4, <3>1, <3>2 DEF OwnerAdmits, Proc
      <3> QED
        BY <1>0, <3>1, <3>2, <3>3 DEF Newborn, Provenance, ProcRec
    <2> QED
      BY <2>1, <2>2
  <1>5. ASSUME NEW p \in Proc, OwnerExits(p) \/ Exits(p) PROVE Provenance'
    BY <1>0, <1>5 DEF OwnerExits, Exits, Dies, Provenance, ProcRec
  <1>6. ASSUME NEW p \in Proc, Forks(p) PROVE Provenance'
    <2>1. epoch # 0 /\ epoch < p /\ p <= born
      BY <1>0, <1>6 DEF Forks, Provenance
    <2>2. born + 1 \in Proc /\ proc' = [proc EXCEPT ![born + 1] = proc[p]] /\ born' = born + 1
          /\ proc[p].kind = "task" /\ UNCHANGED <<epoch, members>>
      BY <1>0, <1>6 DEF Forks, Proc
    <2> QED
      BY <1>0, <2>1, <2>2 DEF Provenance, ProcRec
  <1>7. ASSUME NEW p \in Proc, Detaches(p) \/ Seals(p) PROVE Provenance'
    BY <1>0, <1>7 DEF Detaches, Seals, Provenance, ProcRec
  <1>8. ASSUME NEW i \in Stopper,
               \/ StopCalled(i) \/ LeavesTombstone(i) \/ ScanBegins(i) \/ GraceEnds(i)
               \/ VerifyClear(i) \/ Answers(i)
        PROVE  Provenance'
    BY <1>8 DEF StopCalled, LeavesTombstone, ScanBegins, GraceEnds, VerifyClear, Answers,
                Provenance
  <1>9. ASSUME NEW i \in Stopper, VerifyFreezes(i) \/ Kills(i) PROVE Provenance'
    <2>1. \A p \in Known(i) : Alive(p)
      BY DEF Known, Seen
    <2> QED
      BY <1>0, <1>9, <2>1 DEF VerifyFreezes, Kills, Signalled, Alive, Provenance, ProcRec
  <1>10. CASE UNCHANGED vars
    BY <1>10 DEF vars, Provenance
  <1> QED
    BY <1>1, <1>2, <1>3, <1>4, <1>5, <1>6, <1>7, <1>8, <1>9, <1>10 DEF Next

-----------------------------------------------------------------------------
(* What a scan sees.                                                       *)

\* A living process of the token is identified or doubtful; one that could fork is
\* identified.
LEMMA OursShows ==
  ASSUME IInv, NEW p \in Proc
  PROVE  /\ Ours(p) => Identified(p) \/ Doubtful(p)
         /\ CanFork(p) => Ours(p) /\ Identified(p)
  <1> USE DEF IInv
  <1>1. ASSUME Ours(p) PROVE Identified(p) \/ Doubtful(p)
    <2>1. proc[p].kind \in {"owner", "task"} /\ epoch # 0 /\ epoch < p
      BY <1>1 DEF Ours, Provenance
    <2>2. epoch \in Nat /\ p \in Nat /\ ~ (p < epoch)
      BY <2>1, GuardAssumption DEF TypeOK, Proc
    <2>3. CASE proc[p].open
      BY <2>1, <2>3 DEF Identified
    <2>4. CASE ~ proc[p].open
      BY <2>1, <2>2, <2>4 DEF Doubtful
    <2> QED
      BY <2>3, <2>4
  <1> QED
    BY <1>1 DEF CanFork, Ours, Alive, Identified

\* After a clear scan nothing is left but what was born while it looked, and if none
\* could fork when it began, of a process that could not be read.
LEMMA ClearScan ==
  ASSUME IInv, NEW i \in Stopper, s[i].on, Clear(i), NEW p \in Proc, Ours(p)
  PROVE  /\ proc[p].kind = "task" /\ s[i].now # "none"
         /\ Settled(i) => Outrun(i)
  <1>1. p \notin s[i].snap
    <2> SUFFICES ASSUME p \in s[i].snap PROVE FALSE
      OBVIOUS
    <2>1. p \in Seen(i)
      BY DEF Seen, Ours
    <2>2. ~ Identified(p) /\ ~ Doubtful(p)
      BY <2>1 DEF Clear, Known, Sure
    <2> QED
      BY <2>2, OursShows
  <1>2. proc[p].kind = "task" /\ s[i].now # "none"
    BY <1>1 DEF IInv, Sweep
  <1>3. ASSUME Settled(i) PROVE Outrun(i)
    <2>1. s[i].before = "none" => s[i].now # "read"
      BY <1>3 DEF IInv, Sweep
    <2>2. s[i].now \in Births
      BY DEF IInv, TypeOK, StopRec
    <2> QED
      BY <1>2, <2>1, <2>2 DEF Outrun, Births
  <1> QED
    BY <1>2, <1>3

\* What a step does not change, or only ends.
Stays(p) == (Ours(p)' => Ours(p) /\ proc'[p].kind = proc[p].kind) /\ (CanFork(p)' => CanFork(p))

\* A step that leaves the invocations of stop alone and starts no process of the token
\* after the tombstone keeps what they know.
LEMMA QuietStep ==
  ASSUME IInv, UNCHANGED <<tomb, s>>, tomb => \A p \in Proc : Stays(p)
  PROVE  Sweep' /\ StoppedMeansGone'
  <1>1. \A i \in Stopper : (Settled(i)' <=> Settled(i)) /\ (Outrun(i)' <=> Outrun(i))
    BY DEF Settled, Outrun
  <1>2. \A i \in Stopper : Settled(i) \/ s[i].on \/ s[i].at = "STOPPED" => tomb
    BY DEF IInv, Sweep, Settled, Scanning
  <1>3. Sweep'
    <2> SUFFICES ASSUME NEW i \in Stopper
        PROVE  /\ s[i].at \in Scanning \cup {"STOPPED"} => tomb
               /\ s[i].on => s[i].at \in Scanning
               /\ s[i].stable # 0 => s[i].at \in {"verify", "final", "STOPPED"}
               /\ s[i].on => \A p \in Proc : Ours(p)' =>
                               p \in s[i].snap \/ (proc'[p].kind = "task" /\ s[i].now # "none")
               /\ Settled(i) /\ ~ s[i].on /\ s[i].now = "none" => \A p \in Proc : ~ CanFork(p)'
               /\ Settled(i) /\ s[i].on /\ s[i].before = "none" =>
                    s[i].now # "read" /\ \A p \in Proc : ~ CanFork(p)'
      BY <1>1 DEF Sweep
    <2> QED
      BY <1>2 DEF IInv, Sweep, Stays
  <1>4. StoppedMeansGone'
    BY <1>1, <1>2 DEF IInv, StoppedMeansGone, Stays
  <1> QED
    BY <1>3, <1>4

\* The processes' own steps, births by a fork apart.
LEMMA ProcessStep ==
  ASSUME IInv, NEW p \in Proc,
         \/ OtherBorn \/ RunCalled \/ RunAdmits(p) \/ OwnerStarts(p) \/ OwnerAdmits(p)
         \/ OwnerExits(p) \/ Exits(p) \/ Detaches(p) \/ Seals(p)
  PROVE  Sweep' /\ StoppedMeansGone'
  <1> USE DEF IInv
  <1>0. proc \in [Proc -> ProcRec]
    BY DEF TypeOK
  <1>1. UNCHANGED <<tomb, s>>
    BY DEF OtherBorn, RunCalled, RunAdmits, OwnerStarts, OwnerAdmits, OwnerExits, Exits,
           Detaches, Seals
  <1>2. tomb => members' = members
    BY DEF OtherBorn, RunCalled, RunAdmits, OwnerStarts, OwnerAdmits, OwnerExits, Exits,
           Detaches, Seals
  <1>3. ASSUME tomb, NEW q \in Proc
        PROVE  Stays(q)
    <2>0. born + 1 \notin members
      <3>1. \A m \in members : m <= born /\ m \in Nat
        BY DEF Provenance, TypeOK, Proc
      <3> QED
        BY <3>1, GuardAssumption DEF TypeOK
    <2>1. CASE OtherBorn \/ RunCalled
      <3>1. PICK r : r.kind \in {"run", "other"} /\ proc' = [proc EXCEPT ![born + 1] = r]
        BY <2>1 DEF OtherBorn, RunCalled, Newborn
      <3> QED
        BY <1>0, <1>2, <1>3, <2>0, <3>1 DEF Stays, Ours, Alive, CanFork
    <2>2. CASE RunAdmits(p) \/ OwnerExits(p) \/ Exits(p)
      <3>1. Dies(p)
        BY <1>3, <2>2 DEF RunAdmits, OwnerExits, Exits
      <3> QED
        BY <1>0, <1>2, <1>3, <3>1 DEF Stays, Dies, Ours, Alive, CanFork, ProcRec
    <2>3. CASE OwnerAdmits(p)
      <3>1. Dies(p)
        BY <1>3, <2>3 DEF OwnerAdmits
      <3> QED
        BY <1>0, <1>2, <1>3, <3>1 DEF Stays, Dies, Ours, Alive, CanFork, ProcRec
    <2>4. CASE OwnerStarts(p)
      <3>1. PICK r : /\ r.kind = "owner"
                     /\ proc' = [proc EXCEPT ![p].st = "gone", ![born + 1] = r]
        BY <2>4 DEF OwnerStarts, Newborn
      <3> QED
        BY <1>0, <1>2, <1>3, <2>0, <3>1 DEF Stays, Ours, Alive, CanFork, ProcRec
    <2>5. CASE Detaches(p) \/ Seals(p)
      BY <1>0, <1>2, <1>3, <2>5 DEF Detaches, Seals, Stays, Ours, Alive, CanFork, ProcRec
    <2> QED
      BY <2>1, <2>2, <2>3, <2>4, <2>5
  <1> QED
    BY <1>1, <1>3, QuietStep

LEMMA ForkStep ==
  ASSUME IInv, NEW p \in Proc, Forks(p)
  PROVE  Sweep' /\ StoppedMeansGone'
  <1> USE DEF IInv
  <1>0. proc \in [Proc -> ProcRec] /\ born \in Nat /\ s \in [Stopper -> StopRec]
    BY GuardAssumption DEF TypeOK
  <1>1. /\ UNCHANGED <<tomb, members>> /\ proc[p].kind = "task" /\ proc[p].st = "live"
        /\ proc' = [proc EXCEPT ![born + 1] = proc[p]]
        /\ \A i \in Stopper : ~ s[i].on => s'[i] = s[i]
        /\ s' \in [Stopper -> StopRec]
    BY <1>0, TypeStep DEF Forks, Next, TypeOK
  <1>2. CASE ~ tomb
    <2>1. \A i \in Stopper : ~ s[i].on
      BY <1>2 DEF Sweep, Scanning
    <2>2. s' = s
      BY <1>0, <1>1, <2>1
    <2> QED
      BY <1>1, <1>2, <2>2, QuietStep
  <1>3. CASE tomb
    <2>1. Ours(p) /\ (proc[p].open <=> CanFork(p))
      BY <1>1 DEF CanFork, Ours, Alive
    <2>2. \A q \in Proc : Ours(q)' => proc'[q].kind = "task" \/ (Ours(q) /\ proc'[q] = proc[q])
      BY <1>0, <1>1 DEF Ours, Alive
    <2>3. \A q \in Proc : CanFork(q)' => CanFork(q) \/ CanFork(p)
      BY <1>0, <1>1 DEF CanFork
    <2>4. ASSUME NEW i \in Stopper, s[i].on
          PROVE  /\ s'[i].at = s[i].at /\ s'[i].on /\ s'[i].stable = s[i].stable
                 /\ s'[i].snap = s[i].snap /\ s'[i].before = s[i].before
                 /\ s'[i].now # "none" /\ (~ CanFork(p) => s'[i].now = "dark")
      <3>1. s'[i] = [s[i] EXCEPT !.now = IF s[i].now = "dark" \/ ~ proc[p].open
                                         THEN "dark" ELSE "read"]
        BY <1>0, <2>4 DEF Forks
      <3>2. s[i] \in StopRec
        BY <1>0
      <3> QED
        BY <2>1, <2>4, <3>1, <3>2 DEF StopRec
    <2>5. ASSUME NEW i \in Stopper
          PROVE  /\ s'[i].at = s[i].at /\ s'[i].on = s[i].on /\ s'[i].stable = s[i].stable
                 /\ Settled(i)' <=> Settled(i)
      <3>1. CASE s[i].on
        BY <2>4, <3>1 DEF Settled
      <3>2. CASE ~ s[i].on
        <4>1. s'[i] = s[i]
          BY <1>1, <3>2
        <4> QED
          BY <4>1 DEF Settled
      <3> QED
        BY <3>1, <3>2
    <2>6. Sweep'
      <3> SUFFICES ASSUME NEW i \in Stopper
          PROVE  /\ s'[i].on => \A q \in Proc : Ours(q)' =>
                      q \in s'[i].snap \/ (proc'[q].kind = "task" /\ s'[i].now # "none")
                 /\ Settled(i) /\ ~ s'[i].on /\ s'[i].now = "none" =>
                      \A q \in Proc : ~ CanFork(q)'
                 /\ Settled(i) /\ s'[i].on /\ s'[i].before = "none" =>
                      s'[i].now # "read" /\ \A q \in Proc : ~ CanFork(q)'
        BY <1>1, <2>5 DEF Sweep
      <3>1. CASE s[i].on
        <4>1. s[i].on /\ Settled(i) /\ s[i].before = "none" => \A q \in Proc : ~ CanFork(q)
          BY DEF Sweep
        <4>2. \A q \in Proc : Ours(q) => q \in s[i].snap \/ (proc[q].kind = "task" /\ s[i].now # "none")
          BY <3>1 DEF Sweep
        <4> QED
          BY <2>2, <2>3, <2>4, <3>1, <4>1, <4>2
      <3>2. CASE ~ s[i].on
        <4>1. s'[i] = s[i]
          BY <1>1, <3>2
        <4>2. Settled(i) /\ ~ s[i].on /\ s[i].now = "none" => \A q \in Proc : ~ CanFork(q)
          BY DEF Sweep
        <4> QED
          BY <2>3, <3>2, <4>1, <4>2
      <3> QED
        BY <3>1, <3>2
    <2>7. StoppedMeansGone'
      <3> SUFFICES ASSUME NEW i \in Stopper, s[i].at = "STOPPED", NEW q \in Proc, Ours(q)'
          PROVE  proc'[q].kind = "task" /\ Outrun(i)'
        BY <2>5 DEF StoppedMeansGone
      <3>1. s'[i] = s[i]
        BY <1>1 DEF Sweep, Scanning
      <3>2. Outrun(i)
        BY <2>1 DEF StoppedMeansGone
      <3> QED
        BY <2>2, <3>1, <3>2 DEF StoppedMeansGone, Outrun
    <2> QED
      BY <2>6, <2>7
  <1> QED
    BY <1>2, <1>3

\* A step of stop starts nothing; what the other invocations know stays true.
LEMMA StopStep ==
  ASSUME IInv, NEW i \in Stopper, UNCHANGED members, tomb => tomb',
         \A p \in Proc : Stays(p),
         \A j \in Stopper : j # i => s'[j] = s[j],
         s[i].at # "STOPPED",
         s'[i].at \in Scanning \cup {"STOPPED"} => tomb',
         s'[i].on => s'[i].at \in Scanning,
         s'[i].stable # 0 => s'[i].at \in {"verify", "final", "STOPPED"},
         s'[i].on => \A p \in Proc : Ours(p)' => p \in s'[i].snap,
         Settled(i)' /\ ~ s'[i].on /\ s'[i].now = "none" => \A p \in Proc : ~ CanFork(p)',
         Settled(i)' /\ s'[i].on /\ s'[i].before = "none" =>
           s'[i].now # "read" /\ \A p \in Proc : ~ CanFork(p)',
         s'[i].at = "STOPPED" =>
           \A p \in Proc : Ours(p)' => proc'[p].kind = "task" /\ Outrun(i)'
  PROVE  Sweep' /\ StoppedMeansGone'
  <1>1. \A j \in Stopper : j # i => (Settled(j)' <=> Settled(j)) /\ (Outrun(j)' <=> Outrun(j))
    BY DEF Settled, Outrun
  <1>2. Sweep'
    <2> SUFFICES ASSUME NEW j \in Stopper
        PROVE  /\ s'[j].at \in Scanning \cup {"STOPPED"} => tomb'
               /\ s'[j].on => s'[j].at \in Scanning
               /\ s'[j].stable # 0 => s'[j].at \in {"verify", "final", "STOPPED"}
               /\ s'[j].on => \A p \in Proc : Ours(p)' =>
                    p \in s'[j].snap \/ (proc'[p].kind = "task" /\ s'[j].now # "none")
               /\ Settled(j)' /\ ~ s'[j].on /\ s'[j].now = "none" =>
                    \A p \in Proc : ~ CanFork(p)'
               /\ Settled(j)' /\ s'[j].on /\ s'[j].before = "none" =>
                    s'[j].now # "read" /\ \A p \in Proc : ~ CanFork(p)'
      BY DEF Sweep
    <2>1. CASE j = i
      BY <2>1
    <2>2. CASE j # i
      BY <1>1, <2>2 DEF IInv, Sweep, Stays
    <2> QED
      BY <2>1, <2>2
  <1>3. StoppedMeansGone'
    <2> SUFFICES ASSUME NEW j \in Stopper, s'[j].at = "STOPPED", NEW p \in Proc, Ours(p)'
        PROVE  proc'[p].kind = "task" /\ Outrun(j)'
      BY DEF StoppedMeansGone
    <2>1. CASE j = i
      BY <2>1
    <2>2. CASE j # i
      BY <1>1, <2>2 DEF IInv, StoppedMeansGone, Stays
    <2> QED
      BY <2>1, <2>2
  <1> QED
    BY <1>2, <1>3

LEMMA StopperStep ==
  ASSUME IInv, NEW i \in Stopper,
         \/ StopCalled(i) \/ LeavesTombstone(i) \/ ScanBegins(i) \/ GraceEnds(i)
         \/ VerifyClear(i) \/ VerifyFreezes(i) \/ Kills(i) \/ Answers(i)
  PROVE  Sweep' /\ StoppedMeansGone'
  <1>0. s \in [Stopper -> StopRec] /\ proc \in [Proc -> ProcRec]
    BY DEF IInv, TypeOK
  <1>1. /\ s[i].on => s[i].at \in Scanning /\ tomb
        /\ s[i].at \in Scanning => tomb
        /\ s[i].stable # 0 => s[i].at \in {"verify", "final", "STOPPED"}
        /\ Settled(i) /\ ~ s[i].on /\ s[i].now = "none" => \A p \in Proc : ~ CanFork(p)
    BY DEF IInv, Sweep
  <1>2. CASE StopCalled(i) \/ LeavesTombstone(i)
    <2>1. /\ UNCHANGED <<proc, members>> /\ (tomb => tomb')
          /\ s[i].at \in {"idle", "lock"} /\ ~ s[i].on /\ s[i].stable = 0
          /\ s'[i].on = s[i].on /\ s'[i].stable = s[i].stable
          /\ s'[i].at \in {"lock", "first"} /\ (s'[i].at = "first" => tomb')
          /\ \A j \in Stopper : j # i => s'[j] = s[j]
      BY <1>0, <1>1, <1>2 DEF StopCalled, LeavesTombstone, Goes, Scanning, StopRec
    <2>2. ~ Settled(i)'
      BY <2>1 DEF Settled
    <2>3. \A p \in Proc : Stays(p)
      BY <2>1 DEF Stays, Ours, Alive, CanFork
    <2> QED
      BY <2>1, <2>2, <2>3, StopStep DEF Scanning
  <1>3. CASE ScanBegins(i)
    <2>1. /\ UNCHANGED <<proc, members, tomb>>
          /\ s[i].at \in Scanning
          /\ s'[i].on /\ s'[i].stable = s[i].stable /\ s'[i].at = s[i].at
          /\ s'[i].snap = {p \in Proc : Alive(p)}
          /\ ~ s[i].on /\ s'[i].before = s[i].now /\ s'[i].now = "none"
          /\ \A j \in Stopper : j # i => s'[j] = s[j]
      BY <1>0, <1>3 DEF ScanBegins, StopRec
    <2>2. Settled(i)' <=> Settled(i)
      BY <2>1 DEF Settled
    <2>3. \A p \in Proc : Stays(p)
      BY <2>1 DEF Stays, Ours, Alive, CanFork
    <2>4. \A p \in Proc : Ours(p)' => p \in s'[i].snap
      BY <2>1, <2>3 DEF Ours, Stays
    <2>5. Settled(i) /\ s[i].now = "none" => \A p \in Proc : ~ CanFork(p)'
      BY <1>1, <2>1, <2>3 DEF Stays
    <2> QED
      BY <1>1, <2>1, <2>2, <2>3, <2>4, <2>5, StopStep DEF Scanning
  <1>4. CASE GraceEnds(i)
    <2>1. PICK at \in {"grace", "verify"} : Ends(i, at, 0)
      BY <1>4 DEF GraceEnds
    <2>2. /\ UNCHANGED <<proc, members, tomb>> /\ s[i].on
          /\ s[i].at \in {"first", "grace"}
          /\ ~ s'[i].on /\ s'[i].stable = 0 /\ s'[i].at = at
          /\ \A j \in Stopper : j # i => s'[j] = s[j]
      BY <1>0, <1>4, <2>1, EndsFields DEF GraceEnds, IInv
    <2>3. ~ Settled(i)'
      BY <2>2 DEF Settled
    <2>4. \A p \in Proc : Stays(p)
      BY <2>2 DEF Stays, Ours, Alive, CanFork
    <2> QED
      BY <1>1, <2>2, <2>3, <2>4, StopStep DEF Scanning
  <1>5. CASE VerifyClear(i)
    <2>1. PICK at \in {"verify", "final", "STOPPED"}, n \in {1, 2} :
            Ends(i, at, n) /\ (at = "STOPPED" => s[i].stable = 1)
      BY <1>5 DEF VerifyClear
    <2>2. /\ UNCHANGED <<proc, members, tomb>> /\ s[i].on /\ Clear(i)
          /\ s[i].at = "verify"
          /\ ~ s'[i].on /\ s'[i].stable = n /\ s'[i].at = at
          /\ s'[i].now = s[i].now /\ s'[i].before = s[i].before
          /\ \A j \in Stopper : j # i => s'[j] = s[j]
      BY <1>0, <1>5, <2>1, EndsFields DEF VerifyClear, IInv
    <2>3. \A p \in Proc : Stays(p)
      BY <2>2 DEF Stays, Ours, Alive, CanFork
    <2>4. s[i].now = "none" => \A p \in Proc : ~ CanFork(p)'
      BY <2>2, <2>3, ClearScan, OursShows DEF Stays
    <2>5. at = "STOPPED" => \A p \in Proc : Ours(p)' => proc'[p].kind = "task" /\ Outrun(i)'
      <3> SUFFICES ASSUME at = "STOPPED", NEW p \in Proc, Ours(p)'
          PROVE  proc'[p].kind = "task" /\ Outrun(i)'
        OBVIOUS
      <3>1. Settled(i)
        BY <2>1 DEF Settled
      <3>2. proc[p].kind = "task" /\ Outrun(i)
        BY <2>2, <2>3, <3>1, ClearScan DEF Stays
      <3> QED
        BY <2>2, <3>2 DEF Outrun
    <2> QED
      BY <1>1, <2>1, <2>2, <2>3, <2>4, <2>5, StopStep DEF Scanning
  <1>6. CASE VerifyFreezes(i)
    <2>1. /\ Signalled(Known(i), "frozen") /\ UNCHANGED <<members, tomb>>
          /\ s[i].on /\ s[i].at = "verify"
          /\ ~ s'[i].on /\ s'[i].stable = 0 /\ s'[i].at = "freeze"
          /\ \A j \in Stopper : j # i => s'[j] = s[j]
      BY <1>6, EndsFields DEF VerifyFreezes, IInv
    <2>2. \A p \in Known(i) : Alive(p)
      BY DEF Known, Seen
    <2>3. \A p \in Proc : Stays(p)
      BY <1>0, <2>1, <2>2 DEF Signalled, Stays, Ours, Alive, CanFork, ProcRec
    <2>4. ~ Settled(i)'
      BY <2>1 DEF Settled
    <2> QED
      BY <1>1, <2>1, <2>3, <2>4, StopStep DEF Scanning
  <1>7. CASE Kills(i)
    <2>1. PICK at \in {"verify", "final"} : Ends(i, at, 0)
      BY <1>7 DEF Kills
    <2>2. /\ Signalled(Known(i), "gone") /\ UNCHANGED <<members, tomb>>
          /\ s[i].on /\ s[i].at = "freeze"
          /\ ~ s'[i].on /\ s'[i].stable = 0 /\ s'[i].at = at /\ s'[i].now = s[i].now
          /\ \A j \in Stopper : j # i => s'[j] = s[j]
      BY <1>0, <1>7, <2>1, EndsFields DEF Kills, IInv
    <2>3. \A p \in Proc : Stays(p) /\ (CanFork(p)' => p \notin Known(i))
      BY <1>0, <2>2 DEF Signalled, Stays, Ours, Alive, CanFork, ProcRec
    <2>4. ASSUME NEW p \in Proc, CanFork(p)' PROVE s[i].now # "none"
      <3>1. Ours(p) /\ Identified(p) /\ p \notin Known(i)
        BY <2>3, <2>4, OursShows DEF Stays
      <3>2. p \notin s[i].snap
        BY <3>1 DEF Known, Seen, Ours
      <3> QED
        BY <2>2, <3>1, <3>2 DEF IInv, Sweep
    <2> QED
      BY <1>1, <2>2, <2>3, <2>4, StopStep DEF Scanning
  <1>8. CASE Answers(i)
    <2>1. PICK at \in {"STOPPED", "FAILED"} : Ends(i, at, 0) /\ (at = "STOPPED" => Clear(i))
      BY <1>8 DEF Answers
    <2>2. /\ UNCHANGED <<proc, members, tomb>> /\ s[i].on /\ s[i].at = "final"
          /\ ~ s'[i].on /\ s'[i].stable = 0 /\ s'[i].at = at
          /\ s'[i].now = s[i].now /\ s'[i].before = s[i].before
          /\ \A j \in Stopper : j # i => s'[j] = s[j]
      BY <1>0, <1>8, <2>1, EndsFields DEF Answers, IInv
    <2>3. \A p \in Proc : Stays(p)
      BY <2>2 DEF Stays, Ours, Alive, CanFork
    <2>4. at = "STOPPED" => \A p \in Proc : Ours(p)' => proc'[p].kind = "task" /\ Outrun(i)'
      <3> SUFFICES ASSUME at = "STOPPED", NEW p \in Proc, Ours(p)'
          PROVE  proc'[p].kind = "task" /\ Outrun(i)'
        OBVIOUS
      <3>1. Settled(i)
        BY <2>2 DEF Settled
      <3>2. proc[p].kind = "task" /\ Outrun(i)
        BY <2>1, <2>2, <2>3, <3>1, ClearScan DEF Stays
      <3> QED
        BY <2>2, <3>2 DEF Outrun
    <2>5. ~ Settled(i)'
      BY <2>2 DEF Settled
    <2> QED
      BY <1>1, <2>2, <2>3, <2>4, <2>5, StopStep DEF Scanning
  <1> QED
    BY <1>2, <1>3, <1>4, <1>5, <1>6, <1>7, <1>8

-----------------------------------------------------------------------------
(* Nothing is known and nothing in doubt before the first registration.    *)

LEMMA UnstartedStep ==
  ASSUME IInv, [Next]_vars
  PROVE  Unstarted'
  <1> SUFFICES ASSUME epoch' = 0, NEW i \in Stopper
      PROVE  s'[i].known = {} /\ s'[i].at # "FAILED"
    BY DEF Unstarted
  <1>0. /\ epoch \in Nat /\ s \in [Stopper -> StopRec] /\ members \subseteq Proc
        /\ \A p \in Proc : p # 0
    BY GuardAssumption DEF IInv, TypeOK, Proc
  <1>1. epoch = 0
    <2>1. CASE \E p \in Proc : RunAdmits(p)
      <3>1. PICK p \in Proc : RunAdmits(p)
        BY <2>1
      <3> QED
        BY <1>0, <3>1 DEF RunAdmits
    <2>2. CASE ~ \E p \in Proc : RunAdmits(p)
      <3>1. epoch' = epoch
        BY <2>2 DEF Next, vars, OtherBorn, RunCalled, OwnerStarts, OwnerAdmits, OwnerExits,
             Forks, Exits, Detaches, Seals, StopCalled, LeavesTombstone, ScanBegins,
             GraceEnds, VerifyClear, VerifyFreezes, Kills, Answers
      <3> QED
        BY <3>1
    <2> QED
      BY <2>1, <2>2
  <1>2. \A j \in Stopper : s[j].known = {} /\ s[j].at # "FAILED"
    BY <1>1 DEF IInv, Unstarted
  <1>3. \A p \in Proc : ~ Identified(p) /\ ~ Doubtful(p)
    BY <1>0, <1>1 DEF IInv, Provenance, Identified, Doubtful
  <1>4. \A j \in Stopper : Known(j) = {} /\ Clear(j)
    <2> SUFFICES ASSUME NEW j \in Stopper PROVE Known(j) = {} /\ Sure(j)
      BY DEF Clear
    <2>1. s[j].snap \subseteq Proc
      BY <1>0 DEF StopRec
    <2> QED
      BY <1>2, <1>3, <2>1 DEF Known, Sure, Seen
  <1>5. ASSUME NEW j \in Stopper,
               \/ StopCalled(j) \/ LeavesTombstone(j) \/ ScanBegins(j) \/ GraceEnds(j)
               \/ VerifyClear(j) \/ VerifyFreezes(j) \/ Kills(j) \/ Answers(j)
        PROVE  s'[i].known = {} /\ s'[i].at # "FAILED"
    <2>1. CASE StopCalled(j) \/ LeavesTombstone(j) \/ ScanBegins(j)
      <3>1. s'[i].known = s[i].known /\ (s'[i].at = s[i].at \/ s'[i].at \in {"lock", "first"})
        <4>1. CASE StopCalled(j) \/ LeavesTombstone(j)
          BY <1>0, <4>1 DEF StopCalled, LeavesTombstone, Goes, StopRec
        <4>2. CASE ScanBegins(j)
          BY <1>0, <4>2 DEF ScanBegins, StopRec
        <4> QED
          BY <2>1, <4>1, <4>2
      <3> QED
        BY <1>2, <3>1
    <2>2. CASE GraceEnds(j) \/ VerifyClear(j) \/ Answers(j)
      <3>1. PICK at \in {"grace", "verify", "final", "STOPPED"}, n \in 0..2 : Ends(j, at, n)
        BY <1>4, <2>2 DEF GraceEnds, VerifyClear, Answers
      <3> QED
        BY <1>2, <1>4, <3>1, EndsFields DEF IInv
    <2>3. CASE VerifyFreezes(j) \/ Kills(j)
      <3>1. PICK at \in {"freeze", "verify", "final"} : Ends(j, at, 0)
        BY <2>3 DEF VerifyFreezes, Kills
      <3> QED
        BY <1>2, <1>4, <3>1, EndsFields DEF IInv
    <2> QED
      BY <1>5, <2>1, <2>2, <2>3
  <1>6. CASE s' = s \/ \E p \in Proc : Forks(p)
    <2>1. s'[i].known = s[i].known /\ s'[i].at = s[i].at
      BY <1>0, <1>6 DEF Forks, StopRec
    <2> QED
      BY <1>2, <2>1
  <1>7. (\E j \in Stopper :
           \/ StopCalled(j) \/ LeavesTombstone(j) \/ ScanBegins(j) \/ GraceEnds(j)
           \/ VerifyClear(j) \/ VerifyFreezes(j) \/ Kills(j) \/ Answers(j))
        \/ s' = s \/ \E p \in Proc : Forks(p)
    BY DEF Next, vars, OtherBorn, RunCalled, RunAdmits, OwnerStarts, OwnerAdmits,
           OwnerExits, Exits, Detaches, Seals
  <1> QED
    BY <1>5, <1>6, <1>7

-----------------------------------------------------------------------------
LEMMA StepIInv == IInv /\ [Next]_vars => IInv'
  <1> SUFFICES ASSUME IInv, [Next]_vars PROVE Sweep' /\ StoppedMeansGone'
    BY TypeStep, ProvenanceStep, UnstartedStep DEF IInv
  <1>1. CASE OtherBorn \/ RunCalled
    <2>1. born < MaxProc
      BY <1>1 DEF OtherBorn, RunCalled
    <2>2. born \in 0..MaxProc
      BY DEF IInv, TypeOK
    <2>3. born + 1 \in Proc
      BY <2>1, <2>2, GuardAssumption DEF Proc
    <2> QED
      BY <1>1, <2>3, ProcessStep
  <1>2. ASSUME NEW p \in Proc,
               \/ RunAdmits(p) \/ OwnerStarts(p) \/ OwnerAdmits(p) \/ OwnerExits(p)
               \/ Exits(p) \/ Detaches(p) \/ Seals(p)
        PROVE  Sweep' /\ StoppedMeansGone'
    BY <1>2, ProcessStep
  <1>3. ASSUME NEW p \in Proc, Forks(p) PROVE Sweep' /\ StoppedMeansGone'
    BY <1>3, ForkStep
  <1>4. ASSUME NEW i \in Stopper,
               \/ StopCalled(i) \/ LeavesTombstone(i) \/ ScanBegins(i) \/ GraceEnds(i)
               \/ VerifyClear(i) \/ VerifyFreezes(i) \/ Kills(i) \/ Answers(i)
        PROVE  Sweep' /\ StoppedMeansGone'
    BY <1>4, StopperStep
  <1>5. CASE UNCHANGED vars
    BY <1>5, QuietStep DEF vars, Stays, Ours, Alive, CanFork
  <1> QED
    BY <1>1, <1>2, <1>3, <1>4, <1>5 DEF Next

\* The inductive invariant holds throughout.
THEOREM IInvHolds == Spec => []IInv
  BY InitIInv, StepIInv, PTL DEF Spec

\* A stop that answers STOPPED is right, and no rank of the token starts after it; what
\* could survive it is a task that forks outran both of its last two scans with.
THEOREM StoppedIsGone == Spec => []StoppedMeansGone
  <1>1. IInv => StoppedMeansGone
    BY DEF IInv
  <1> QED
    BY <1>1, IInvHolds, PTL

\* A stop of a token nothing was admitted for is never in doubt.
THEOREM UnstartedStops == Spec => []NothingStartedStops
  <1>1. IInv => NothingStartedStops
    BY DEF IInv, Unstarted, NothingStartedStops
  <1> QED
    BY <1>1, IInvHolds, PTL

\* Types, for every bound.
THEOREM GuardTypes == Spec => []TypeOK
  <1>1. IInv => TypeOK
    BY DEF IInv
  <1> QED
    BY <1>1, IInvHolds, PTL
================================================================================
