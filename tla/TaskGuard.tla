------------------------------- MODULE TaskGuard -------------------------------
(***************************************************************************)
(* task_guard.sh on one node, for one task token.  A rank is started by    *)
(* "run", which hands over to an owner in a session of its own; the owner  *)
(* registers itself and starts the payload.  "stop" leaves the tombstone   *)
(* STOP and then looks for processes of the token in /proc until it has    *)
(* found none twice, freezing and killing those it finds.                  *)
(*                                                                         *)
(* Processes are numbered in the order of their birth, which stands for    *)
(* the start tick.  Sections under the lock are one action.  A scan is     *)
(* two: the shell expands /proc/[0-9]* before it looks at the entries, so  *)
(* a process born in between is not looked at and one that died in between *)
(* is not seen.                                                            *)
(***************************************************************************)
EXTENDS Naturals, FiniteSets

CONSTANTS MaxProc,   \* bound on births
          MaxRound,  \* bound on the rounds of a polling loop (its seconds)
          Stopper    \* invocations of stop (normal attempt, fallback)

ASSUME GuardAssumption == MaxProc \in Nat /\ MaxRound \in Nat \ {0}

Proc == 1..MaxProc

VARIABLES
  proc,     \* the processes, see ProcRec
  born,     \* number of the last one born
  tomb,     \* the file STOP exists
  epoch,    \* the file epoch: least start of a run, 0 if there is none
  members,  \* owners with a member file
  s         \* the stop invocations, see StopRec

vars == <<proc, born, tomb, epoch, members, s>>

\* run: the invocation; owner: the session leader; task: payload and whatever it
\* forks; other: an unrelated process of the same user.  owner is the owner of a
\* task, sess that it is still in that session, open that its environment can be read.
ProcRec == [kind : {"none", "run", "owner", "task", "other"},
            st : {"unborn", "live", "frozen", "gone"},
            owner : 0..MaxProc, sess : BOOLEAN, open : BOOLEAN]

Place == {"idle", "lock", "first", "grace", "verify", "freeze", "final",
          "STOPPED", "FAILED"}
Scanning == {"first", "grace", "verify", "freeze", "final"}

\* The forks while a scan was under way: none, of processes whose environment can be
\* read, or of one whose environment cannot.
Births == {"none", "read", "dark"}

\* at: which scan comes next or is under way; on: it has begun, with the entries snap.
\* now and before (history): the births during this scan and during the one before.
StopRec == [at : Place, on : BOOLEAN, snap : SUBSET Proc, known : SUBSET Proc,
            stable : 0..2, round : 0..MaxRound, now : Births, before : Births]

Alive(p) == proc[p].st \in {"live", "frozen"}
Ours(p) == Alive(p) /\ (proc[p].kind = "task" \/ p \in members)

Init ==
  /\ proc = [p \in Proc |-> [kind |-> "none", st |-> "unborn", owner |-> 0,
                             sess |-> FALSE, open |-> TRUE]]
  /\ born = 0 /\ tomb = FALSE /\ epoch = 0 /\ members = {}
  /\ s = [i \in Stopper |-> [at |-> "idle", on |-> FALSE, snap |-> {}, known |-> {},
                             stable |-> 0, round |-> 0,
                             now |-> "none", before |-> "none"]]

-----------------------------------------------------------------------------
(* Processes.                                                              *)

Newborn(kind, o, sess, open) ==
  [kind |-> kind, st |-> "live", owner |-> o, sess |-> sess, open |-> open]

Dies(p) == proc' = [proc EXCEPT ![p].st = "gone"]

\* An unrelated process; when its environment can be read it is of no interest.
OtherBorn ==
  /\ born < MaxProc
  /\ born' = born + 1
  /\ proc' = [proc EXCEPT ![born + 1] = Newborn("other", 0, FALSE, FALSE)]
  /\ UNCHANGED <<tomb, epoch, members, s>>

RunCalled ==
  /\ born < MaxProc
  /\ born' = born + 1
  /\ proc' = [proc EXCEPT ![born + 1] = Newborn("run", 0, FALSE, TRUE)]
  /\ UNCHANGED <<tomb, epoch, members, s>>

\* Under the lock: refused by the tombstone, else the epoch is lowered to this start;
\* the owner is started afterwards.  owner = p marks that the section is over.
RunAdmits(p) ==
  /\ proc[p].kind = "run" /\ proc[p].st = "live" /\ proc[p].owner = 0
  /\ \/ /\ tomb
        /\ Dies(p)
        /\ UNCHANGED epoch
     \/ /\ ~ tomb
        /\ epoch' = IF epoch = 0 \/ p < epoch THEN p ELSE epoch
        /\ proc' = [proc EXCEPT ![p].owner = p]
  /\ UNCHANGED <<born, tomb, members, s>>

\* setsid --wait bash ... _owner
OwnerStarts(p) ==
  /\ proc[p].kind = "run" /\ proc[p].st = "live" /\ proc[p].owner = p
  /\ born < MaxProc
  /\ born' = born + 1
  /\ proc' = [proc EXCEPT ![p].st = "gone",
                          ![born + 1] = Newborn("owner", born + 1, TRUE, TRUE)]
  /\ UNCHANGED <<tomb, epoch, members, s>>

Bug_OwnerAdmits(o) ==   \* trusts the look that run had at the tombstone
  /\ proc[o].kind = "owner" /\ proc[o].st = "live" /\ o \notin members
  /\ born < MaxProc
  /\ born' = born + 1
  /\ members' = members \cup {o}
  /\ proc' = [proc EXCEPT ![born + 1] = Newborn("task", o, TRUE, TRUE)]
  /\ UNCHANGED <<tomb, epoch, s>>

\* Under the lock again: the tombstone may have been left since.
OwnerAdmits(o) ==
  /\ proc[o].kind = "owner" /\ proc[o].st = "live" /\ o \notin members
  /\ \/ /\ tomb
        /\ Dies(o)
        /\ UNCHANGED <<born, members>>
     \/ /\ ~ tomb
        /\ born < MaxProc
        /\ born' = born + 1
        /\ members' = members \cup {o}
        /\ proc' = [proc EXCEPT ![born + 1] = Newborn("task", o, TRUE, TRUE)]
  /\ UNCHANGED <<tomb, epoch, s>>

\* Dies before it has the lock, times out on it, or ends once its payload ended.  The
\* scan it then makes of its own member can only end processes: Exits.
OwnerExits(o) ==
  /\ proc[o].kind = "owner" /\ proc[o].st = "live"
  /\ Dies(o)
  /\ UNCHANGED <<born, tomb, epoch, members, s>>

\* Frozen processes do nothing; the others fork as they like, tombstone or not.  What
\* is born while a scan looks is not among the entries it goes through.
Forks(p) ==
  /\ proc[p].kind = "task" /\ proc[p].st = "live"
  /\ born < MaxProc
  /\ born' = born + 1
  /\ proc' = [proc EXCEPT ![born + 1] = proc[p]]
  /\ s' = [i \in Stopper |->
             IF s[i].on
             THEN [s[i] EXCEPT !.now = IF @ = "dark" \/ ~ proc[p].open THEN "dark" ELSE "read"]
             ELSE s[i]]
  /\ UNCHANGED <<tomb, epoch, members>>

Exits(p) ==
  /\ proc[p].kind \in {"task", "other"} /\ proc[p].st = "live"
  /\ Dies(p)
  /\ UNCHANGED <<born, tomb, epoch, members, s>>

\* Leaves the session, or becomes non-dumpable.  It keeps its environment.
Detaches(p) ==
  /\ proc[p].kind = "task" /\ proc[p].st = "live" /\ proc[p].sess
  /\ proc' = [proc EXCEPT ![p].sess = FALSE]
  /\ UNCHANGED <<born, tomb, epoch, members, s>>

Seals(p) ==
  /\ proc[p].kind = "task" /\ proc[p].st = "live" /\ proc[p].open
  /\ proc' = [proc EXCEPT ![p].open = FALSE]
  /\ UNCHANGED <<born, tomb, epoch, members, s>>

-----------------------------------------------------------------------------
(* stop                                                                    *)

Goes(i, place) == s' = [s EXCEPT ![i].at = place]

StopCalled(i) ==
  /\ s[i].at = "idle"
  /\ Goes(i, "lock")
  /\ UNCHANGED <<proc, born, tomb, epoch, members>>

LeavesTombstone(i) ==
  /\ s[i].at = "lock"
  /\ tomb' = TRUE
  /\ Goes(i, "first")
  /\ UNCHANGED <<proc, born, epoch, members>>

ScanBegins(i) ==
  /\ s[i].at \in Scanning /\ ~ s[i].on
  /\ s' = [s EXCEPT ![i].on = TRUE, ![i].snap = {p \in Proc : Alive(p)},
                    ![i].before = s[i].now, ![i].now = "none"]
  /\ UNCHANGED <<proc, born, tomb, epoch, members>>

\* In the session of a registered owner that lives, or the token in its environment.
Identified(p) ==
  \/ proc[p].kind \in {"task", "owner"} /\ proc[p].open
  \/ proc[p].sess /\ proc[p].owner \in members /\ Alive(proc[p].owner)

Bug_Doubtful(p) ==      \* also before the first registration
  ~ Identified(p) /\ ~ proc[p].open /\ ~ (epoch # 0 /\ p < epoch)

\* An unreadable process that may be a detached worker; one older than every run of
\* the token is not, and before the first registration there is none.
Doubtful(p) ==
  /\ ~ Identified(p) /\ ~ proc[p].open
  /\ ~ (epoch # 0 /\ p < epoch)
  /\ epoch # 0 \/ members # {}

Seen(i) == {p \in s[i].snap : Alive(p)}
Known(i) == {p \in s[i].known : Alive(p)} \cup {p \in Seen(i) : Identified(p)}
Sure(i) == \A p \in Seen(i) : ~ Doubtful(p)
Clear(i) == Known(i) = {} /\ Sure(i)

\* The scan ends, and the loop it belongs to looks at what it found.
Ends(i, at, stable) ==
  s' = [s EXCEPT ![i] = [at |-> at, on |-> FALSE, snap |-> {}, known |-> Known(i),
                         stable |-> stable,
                         round |-> IF at = s[i].at THEN s[i].round + 1 ELSE 0,
                         now |-> s[i].now, before |-> s[i].before]]

Signalled(P, st) == proc' = [p \in Proc |-> IF p \in P THEN [proc[p] EXCEPT !.st = st]
                                                      ELSE proc[p]]

\* What TERM does to a process is up to the process: Exits.  The grace loop ends when
\* nothing is known any more or its seconds are over.
GraceEnds(i) ==
  /\ s[i].at \in {"first", "grace"} /\ s[i].on
  /\ \/ /\ Known(i) # {} /\ s[i].round < MaxRound
        /\ Ends(i, "grace", 0)
     \/ Ends(i, "verify", 0)
  /\ UNCHANGED <<proc, born, tomb, epoch, members>>

\* Nothing found: once more.  Nothing found twice in a row: stopped.
VerifyClear(i) ==
  /\ s[i].at = "verify" /\ s[i].on /\ Clear(i)
  /\ \/ /\ s[i].stable = 1
        /\ Ends(i, "STOPPED", 2)
     \/ /\ s[i].stable = 0
        /\ \/ s[i].round < MaxRound /\ Ends(i, "verify", 1)
           \/ Ends(i, "final", 1)
  /\ UNCHANGED <<proc, born, tomb, epoch, members>>

\* Freeze before killing, then look again for forks born meanwhile.
VerifyFreezes(i) ==
  /\ s[i].at = "verify" /\ s[i].on /\ ~ Clear(i)
  /\ Signalled(Known(i), "frozen")
  /\ Ends(i, "freeze", 0)
  /\ UNCHANGED <<born, tomb, epoch, members>>

Kills(i) ==
  /\ s[i].at = "freeze" /\ s[i].on
  /\ Signalled(Known(i), "gone")
  /\ \/ Ends(i, "verify", 0)
     \/ Ends(i, "final", 0)
  /\ UNCHANGED <<born, tomb, epoch, members>>

Answers(i) ==
  /\ s[i].at = "final" /\ s[i].on
  /\ Ends(i, IF Clear(i) THEN "STOPPED" ELSE "FAILED", 0)
  /\ UNCHANGED <<proc, born, tomb, epoch, members>>

Next ==
  \/ OtherBorn \/ RunCalled
  \/ \E p \in Proc :
       \/ RunAdmits(p) \/ OwnerStarts(p) \/ OwnerAdmits(p) \/ OwnerExits(p)
       \/ Forks(p) \/ Exits(p) \/ Detaches(p) \/ Seals(p)
  \/ \E i \in Stopper :
       \/ StopCalled(i) \/ LeavesTombstone(i) \/ ScanBegins(i) \/ GraceEnds(i)
       \/ VerifyClear(i) \/ VerifyFreezes(i) \/ Kills(i) \/ Answers(i)

Spec == Init /\ [][Next]_vars

-----------------------------------------------------------------------------
TypeOK ==
  /\ proc \in [Proc -> ProcRec] /\ born \in 0..MaxProc
  /\ tomb \in BOOLEAN /\ epoch \in 0..MaxProc /\ members \subseteq Proc
  /\ s \in [Stopper -> StopRec]

\* What it takes to escape a stop: a birth while the last scan looked and one while the
\* scan before looked, each by a parent that is gone when its entry is read; or, after a
\* freeze, a birth while the last scan looked by a process that could not be identified.
Outrun(i) == s[i].now # "none" /\ (s[i].before # "none" \/ s[i].now = "dark")

\* remaining 0 and STOPPED, as stop prints them, are the truth and stay it, unless forks
\* outran both of its last two scans: no process of the token lives, and none is started
\* later by a rank that was delayed.  What does outrun them is never an owner.
StoppedMeansGone ==
  \A i \in Stopper : s[i].at = "STOPPED" =>
    \A p \in Proc : Ours(p) => proc[p].kind = "task" /\ Outrun(i)

\* Without the exception, as the tests of stop read: does not hold.
StoppedIsTruth ==
  (\E i \in Stopper : s[i].at = "STOPPED") => \A p \in Proc : ~ Ours(p)

\* Cancelling before anything started works: a stop of a token that no rank was
\* admitted for never ends in doubt, whatever unreadable processes the node has.
NothingStartedStops == (\E i \in Stopper : s[i].at = "FAILED") => epoch # 0
================================================================================
