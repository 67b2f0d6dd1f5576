-------------------------- MODULE LogMonitor_proof --------------------------
(***************************************************************************)
(* The invariants of LogMonitor, for any number of files, lines, timers    *)
(* and crashes and any thresholds.                                         *)
(***************************************************************************)
EXTENDS LogMonitor, TLAPS

-----------------------------------------------------------------------------
(***************************************************************************)
(* Types.                                                                  *)
(***************************************************************************)
\* The cache and the timers keep their types, whatever is done with them.
FaultTypeOK ==
  /\ cache \subseteq Entry
  /\ timers \in [Timer -> {"free", "armed", "due", "stale"}]
  /\ current \in Timer \cup {NoTimer}

\* Clearing the cache keeps its types.
LEMMA ClearTypeOK == FaultTypeOK /\ Clear => FaultTypeOK'
  BY DEF FaultTypeOK, Clear, Cancelled

\* So does caching a fault of a file.
LEMMA AddTypeOK ==
  ASSUME NEW e \in Entry, FaultTypeOK, AddFault(e)
  PROVE  FaultTypeOK'
  BY DEF FaultTypeOK, AddFault, Cancelled

\* Everything else has its type.
RestTypeOK ==
  /\ newest \in 0..MaxFile /\ len \in [File -> 0..MaxLine]
  /\ offsets \in [File -> [at : 0..MaxLine, stopped : BOOLEAN]]
  /\ state \in State
  /\ cur \in 0..MaxFile /\ off \in 0..MaxLine /\ last \in 0..MaxFile /\ unsaved \in BOOLEAN
  /\ first \in BOOLEAN /\ iter \in BOOLEAN /\ measured \in BOOLEAN /\ alert \in BOOLEAN
  /\ age \in 0..Horizon /\ since \in 0..Horizon
  /\ phase \in Phase
  /\ done \in [File -> 0..MaxLine]
  /\ crashes \in 0..MaxCrash

\* The hangs of a session are not counted here: their bound is an invariant of
\* its own, HangInv below.
Typed == RestTypeOK /\ FaultTypeOK

\* A line is read from a file, at a position of it.
LEMMA LineTypeOK ==
  ASSUME Typed, NextLine
  PROVE  /\ cur \in File /\ off + 1 \in 0..MaxLine
         /\ age' = 0 /\ since' = 0 /\ first' = TRUE
         /\ UNCHANGED <<newest, len, state, alert, hangs, crashes>>
  BY BoundsAssumption DEF Typed, RestTypeOK, NextLine, File, files

\* What Advance assigns has its type.
LEMMA AdvanceTypeOK ==
  ASSUME Typed, NextLine, Advance
  PROVE  /\ cur' = cur /\ last' = last /\ off' = off + 1 /\ unsaved' \in BOOLEAN
         /\ offsets' \in [File -> [at : 0..MaxLine, stopped : BOOLEAN]]
         /\ done' \in [File -> 0..MaxLine]
<1>1. /\ cur \in File /\ off + 1 \in 0..MaxLine
      /\ offsets \in [File -> [at : 0..MaxLine, stopped : BOOLEAN]]
      /\ done \in [File -> 0..MaxLine]
  BY LineTypeOK DEF Typed, RestTypeOK
<1>2. cur' = cur /\ last' = last /\ off' = off + 1
  BY DEF Advance
<1>3. done' \in [File -> 0..MaxLine]
  BY <1>1 DEF Advance
<1>4. PICK saves \in BOOLEAN :
        /\ unsaved' = ~ saves
        /\ offsets' = IF saves THEN [offsets EXCEPT ![cur] = [at |-> off + 1, stopped |-> FALSE]]
                                ELSE offsets
  BY DEF Advance
<1>5. [at |-> off + 1, stopped |-> FALSE] \in [at : 0..MaxLine, stopped : BOOLEAN]
  BY <1>1
<1>6. offsets' \in [File -> [at : 0..MaxLine, stopped : BOOLEAN]]
  <2>1. CASE saves
    BY <1>1, <1>4, <1>5, <2>1
  <2>2. CASE ~ saves
    BY <1>1, <1>4, <2>2
  <2> QED BY <2>1, <2>2
<1> QED BY <1>2, <1>3, <1>4, <1>6

\* Switching to the newest file keeps the types of the tracker.
LEMMA SwitchTypeOK ==
  ASSUME Typed, Found, SwitchTo(newest)
  PROVE  /\ newest \in File /\ cur' = newest
         /\ cur' \in 0..MaxFile /\ last' \in 0..MaxFile
         /\ off' \in 0..MaxLine /\ off' = offsets[newest].at /\ unsaved' = FALSE
<1>1. newest \in File
  BY BoundsAssumption DEF Typed, RestTypeOK, Found, File
<1>2. offsets[newest].at \in 0..MaxLine
  BY <1>1 DEF Typed, RestTypeOK
<1> QED BY <1>1, <1>2 DEF SwitchTo, File

\* The lists of Next, one level down.
LEMMA NextCases ==
  ASSUME [Next]_vars
  PROVE  \/ \E t \in Timer : TimerFires(t) \/ SendFault(t) \/ SendNothing(t)
         \/ Rescan \/ ReadPlain \/ ReadFault \/ ReadRootCause \/ ReadIteration
         \/ ReadCheckpoint \/ ReadBroken \/ IdleSave \/ ReportHang
         \/ Start \/ StopBegins \/ TailExits \/ StopEnds \/ Crash \/ Boot
         \/ NewLog \/ Tick \/ (\E f \in File : Write(f))
         \/ UNCHANGED vars
  BY DEF Next, FaultTimers, Reads, Controller, Environment

\* Every step keeps the types.
LEMMA TypedStep == Typed /\ [Next]_vars => Typed'
<1> SUFFICES ASSUME Typed, [Next]_vars PROVE Typed'
  OBVIOUS
<1> USE DEF Typed
<1>1. ASSUME NEW t \in Timer, TimerFires(t) \/ SendFault(t) \/ SendNothing(t) PROVE Typed'
  <2>1. RestTypeOK'
    BY <1>1 DEF RestTypeOK, TimerFires, SendFault, SendNothing, files, tracker, clock, view, history
  <2>2. FaultTypeOK'
    BY <1>1 DEF FaultTypeOK, TimerFires, SendFault, SendNothing
  <2> QED BY <2>1, <2>2
<1>2. CASE Rescan
  <2>1. Found /\ SwitchTo(newest) /\ Clear
        /\ UNCHANGED <<files, offsets, state, clock, view, history>>
    BY <1>2 DEF Rescan
  <2>2. RestTypeOK'
    BY <2>1, SwitchTypeOK DEF RestTypeOK, files, clock, view, history
  <2> QED BY <2>1, <2>2, ClearTypeOK
<1>3. CASE ReadPlain \/ ReadFault \/ ReadRootCause \/ ReadIteration \/ ReadCheckpoint
  <2>1. NextLine /\ Advance
    BY <1>3 DEF ReadPlain, ReadFault, ReadRootCause, ReadIteration, ReadCheckpoint
  <2>2. /\ iter' \in BOOLEAN /\ measured' \in BOOLEAN /\ phase' \in Phase
    BY <1>3 DEF RestTypeOK, ReadPlain, ReadFault, ReadRootCause, ReadIteration,
                ReadCheckpoint, SameView, Phase
  <2>3. RestTypeOK'
    <3>1. /\ newest' \in 0..MaxFile /\ len' \in [File -> 0..MaxLine]
          /\ state' \in State /\ alert' \in BOOLEAN /\ crashes' \in 0..MaxCrash
          /\ age' = 0 /\ since' = 0 /\ first' = TRUE
          /\ off + 1 \in 0..MaxLine
      BY <2>1, LineTypeOK DEF RestTypeOK
    <3>2. /\ offsets' \in [File -> [at : 0..MaxLine, stopped : BOOLEAN]]
          /\ done' \in [File -> 0..MaxLine]
          /\ unsaved' \in BOOLEAN /\ off' = off + 1
          /\ cur' \in 0..MaxFile /\ last' \in 0..MaxFile
      BY <2>1, AdvanceTypeOK DEF RestTypeOK
    <3>3. 0 \in 0..Horizon
      BY BoundsAssumption
    <3> QED BY <2>2, <3>1, <3>2, <3>3 DEF RestTypeOK
  <2>4. FaultTypeOK'
    <3>1. CASE ReadFault
      <4>1. PICK ranked \in BOOLEAN : AddFault([file |-> cur, ranked |-> ranked])
        BY <3>1 DEF ReadFault
      <4>2. [file |-> cur, ranked |-> ranked] \in Entry
        BY <2>1, LineTypeOK DEF Entry
      <4> QED BY <4>1, <4>2, AddTypeOK
    <3>2. CASE ReadRootCause
      BY <3>2, ClearTypeOK DEF ReadRootCause
    <3>3. CASE ReadPlain \/ ReadIteration \/ ReadCheckpoint
      BY <3>3 DEF ReadPlain, ReadIteration, ReadCheckpoint, faults, FaultTypeOK
    <3> QED BY <1>3, <3>1, <3>2, <3>3
  <2> QED BY <2>3, <2>4
<1>4. CASE ReadBroken
  <2>1. NextLine /\ UNCHANGED <<iter, phase, measured, tracker, offsets, done, faults>>
    BY <1>4 DEF ReadBroken, SameView
  <2>2. RestTypeOK'
    <3>1. /\ newest' \in 0..MaxFile /\ len' \in [File -> 0..MaxLine]
          /\ state' \in State /\ alert' \in BOOLEAN /\ crashes' \in 0..MaxCrash
          /\ age' = 0 /\ since' = 0 /\ first' = TRUE
      BY <2>1, LineTypeOK DEF RestTypeOK
    <3>2. 0 \in 0..Horizon
      BY BoundsAssumption
    <3>3. /\ UNCHANGED <<iter, phase, measured, offsets, done>>
          /\ UNCHANGED <<cur, off, last, unsaved>>
      BY <2>1 DEF tracker
    <3> QED BY <3>1, <3>2, <3>3 DEF RestTypeOK
  <2> QED BY <2>1, <2>2 DEF FaultTypeOK, faults
<1>5. CASE IdleSave \/ TailExits
  <2>1. /\ \/ offsets' = offsets
           \/ \E b \in BOOLEAN : cur \in File /\ offsets' = [offsets EXCEPT ![cur] = [at |-> off, stopped |-> b]]
        /\ state' \in State /\ unsaved' \in BOOLEAN
        /\ UNCHANGED <<files, cur, off, last, clock, view, faults, history>>
    BY <1>5 DEF IdleSave, TailExits, State, tracker, RestTypeOK, File
  <2>2. offsets' \in [File -> [at : 0..MaxLine, stopped : BOOLEAN]]
    BY <2>1 DEF RestTypeOK
  <2> QED BY <2>1, <2>2 DEF RestTypeOK, FaultTypeOK, files, clock, view, faults, history
<1>6. CASE ReportHang
  BY <1>6 DEF ReportHang, Overdue, StillEmpty, Judged, RestTypeOK, FaultTypeOK, files, tracker, clock, faults
<1>7. CASE Start
  <2>1. FaultTypeOK'
    BY <1>7, ClearTypeOK DEF Start, faults, FaultTypeOK
  <2>2. cur' \in 0..MaxFile /\ last' \in 0..MaxFile /\ off' \in 0..MaxLine /\ unsaved' \in BOOLEAN
    <3>1. CASE Found
      BY <1>7, <3>1, SwitchTypeOK DEF Start
    <3>2. CASE ~ Found
      BY <1>7, <3>2, BoundsAssumption DEF Start, RestTypeOK
    <3> QED BY <3>1, <3>2
  <2>3. /\ state' \in State /\ first' = FALSE /\ since' = 0
        /\ UNCHANGED <<newest, len, offsets, age, iter, phase, measured, alert, done, crashes>>
    BY <1>7 DEF Start, State, files
  <2>4. 0 \in 0..Horizon
    BY BoundsAssumption
  <2>5. RestTypeOK'
    BY <2>2, <2>3, <2>4 DEF RestTypeOK
  <2> QED BY <2>1, <2>5
<1>8. CASE StopBegins \/ Boot
  <2>1. /\ state' \in State /\ first' \in BOOLEAN /\ since' \in {0, since}
        /\ UNCHANGED <<newest, len, offsets, cur, off, last, unsaved, age>>
        /\ UNCHANGED <<iter, phase, measured, alert, done, crashes>>
    BY <1>8 DEF StopBegins, Boot, State, RestTypeOK, files, tracker, clock, view, history
  <2>2. UNCHANGED <<cache, timers, current>>
    BY <1>8 DEF StopBegins, Boot, faults
  <2>3. since' \in 0..Horizon
    BY <2>1, BoundsAssumption DEF RestTypeOK
  <2>4. RestTypeOK'
    BY <2>1, <2>3 DEF RestTypeOK
  <2> QED BY <2>2, <2>4 DEF FaultTypeOK
<1>9. CASE StopEnds
  <2>1. FaultTypeOK'
    BY <1>9, ClearTypeOK DEF StopEnds
  <2>2. /\ state' \in State /\ iter' = FALSE /\ measured' = FALSE /\ alert' = FALSE
        /\ UNCHANGED <<newest, len, offsets, cur, off, last, unsaved, age, since>>
        /\ UNCHANGED <<first, phase, done, crashes>>
    BY <1>9 DEF StopEnds, State, files, tracker, clock, history
  <2>3. RestTypeOK'
    BY <2>2 DEF RestTypeOK
  <2> QED BY <2>1, <2>3
<1>10. CASE Crash
  <2>1. FaultTypeOK'
    BY <1>10 DEF Crash, FaultTypeOK
  <2>2. crashes' \in 0..MaxCrash
    BY <1>10, BoundsAssumption DEF Crash, RestTypeOK
  <2>3. /\ 0 \in 0..MaxFile /\ 0 \in 0..MaxLine /\ 0 \in 0..Horizon
        /\ "dead" \in State /\ "other" \in Phase
    BY BoundsAssumption DEF State, Phase
  <2>4. RestTypeOK'
    BY <1>10, <2>2, <2>3 DEF Crash, RestTypeOK, files
  <2> QED BY <2>1, <2>4
<1>11. CASE NewLog \/ Tick
  <2>1. CASE NewLog
    <3>1. newest' \in 0..MaxFile
      BY <2>1, BoundsAssumption DEF NewLog, RestTypeOK
    <3> QED BY <2>1, <3>1 DEF NewLog, RestTypeOK, FaultTypeOK, tracker, clock, view, faults, history
  <2>2. CASE Tick
    <3>1. age' \in 0..Horizon /\ since' \in 0..Horizon
      BY <2>2, BoundsAssumption DEF Tick, Later, RestTypeOK
    <3> QED BY <2>2, <3>1 DEF Tick, RestTypeOK, FaultTypeOK, files, tracker, view, faults, history
  <2> QED BY <1>11, <2>1, <2>2
<1>12. ASSUME NEW f \in File, Write(f) PROVE Typed'
  BY <1>12, BoundsAssumption DEF Write, RestTypeOK, FaultTypeOK, tracker, clock, view, faults, history
<1>13. CASE UNCHANGED vars
  BY <1>13 DEF vars, RestTypeOK, FaultTypeOK, files, tracker, clock, view, faults, history
<1> QED BY <1>1, <1>2, <1>3, <1>4, <1>5, <1>6, <1>7, <1>8, <1>9, <1>10, <1>11, <1>12, <1>13,
           NextCases

-----------------------------------------------------------------------------
(***************************************************************************)
(* The fault cache.                                                        *)
(***************************************************************************)
\* A fault that can be sent has a live timer, in every state.
Live == Ranked # {} => \E t \in Timer : timers[t] \in {"armed", "due"}

\* A monitor without threads holds no fault.
Emptied == state \in {"idle", "dead"} => cache = {}

CacheInv == Live /\ OwnFile /\ Emptied

\* A step that empties the cache has nothing left to show.
LEMMA EmptyCache == cache' = {} => CacheInv'
  BY DEF CacheInv, Live, OwnFile, Emptied, Ranked

\* A step that leaves cache, timers, file and state alone shows nothing new.
LEMMA SameCache ==
  ASSUME CacheInv, UNCHANGED <<cache, timers, cur>>, state' \in {"idle", "dead"} => state \in {"idle", "dead"}
  PROVE  CacheInv'
  BY DEF CacheInv, Live, OwnFile, Emptied, Ranked

\* A cached fault is covered by a timer and comes from the file being read.
LEMMA CacheStep == Typed /\ CacheInv /\ [Next]_vars => CacheInv'
<1> SUFFICES ASSUME Typed, CacheInv, [Next]_vars PROVE CacheInv'
  OBVIOUS
<1>1. ASSUME NEW t \in Timer, TimerFires(t) PROVE CacheInv'
  <2>1. timers' = [timers EXCEPT ![t] = "due"] /\ timers \in [Timer -> {"free", "armed", "due", "stale"}]
    BY <1>1 DEF TimerFires, Typed, FaultTypeOK
  <2>2. timers'[t] = "due"
    BY <2>1
  <2>3. UNCHANGED <<cache, cur, state>>
    BY <1>1 DEF TimerFires, tracker
  <2> QED BY <2>2, <2>3 DEF CacheInv, Live, OwnFile, Emptied, Ranked
<1>2. ASSUME NEW t \in Timer, SendNothing(t) PROVE CacheInv'
  <2>1. timers' = [timers EXCEPT ![t] = "free"] /\ timers \in [Timer -> {"free", "armed", "due", "stale"}]
    BY <1>2 DEF SendNothing, Typed, FaultTypeOK
  <2>2. UNCHANGED <<cache, cur, state>>
    BY <1>2 DEF SendNothing, tracker
  <2>3. Ranked' # {} => \E u \in Timer : timers'[u] \in {"armed", "due"}
    <3>1. SUFFICES ASSUME Ranked # {} PROVE \E u \in Timer : timers'[u] \in {"armed", "due"}
      BY <2>2 DEF Ranked
    <3>2. timers[t] = "stale"
      BY <1>2, <3>1 DEF SendNothing
    <3>3. PICK u \in Timer : timers[u] \in {"armed", "due"}
      BY <3>1 DEF CacheInv, Live
    <3>4. u # t
      BY <3>2, <3>3
    <3> QED BY <2>1, <3>3, <3>4
  <2> QED BY <2>2, <2>3 DEF CacheInv, Live, OwnFile, Emptied, Ranked
<1>3. CASE \/ \E t \in Timer : SendFault(t)
           \/ Rescan \/ ReadRootCause \/ StopEnds \/ Crash
  BY <1>3, EmptyCache DEF SendFault, Rescan, ReadRootCause, StopEnds, Crash, Clear
<1>4. CASE ReadFault
  <2>1. NextLine /\ Advance
    BY <1>4 DEF ReadFault
  <2>2. PICK ranked \in BOOLEAN : AddFault([file |-> cur, ranked |-> ranked])
    BY <1>4 DEF ReadFault
  <2>3. /\ cache' = cache \cup {[file |-> cur, ranked |-> ranked]}
        /\ \E t \in Timer : timers'[t] \in {"armed", "due"}
    BY <2>2 DEF AddFault, Cancelled
  <2>4. cur' = cur /\ state' = state /\ state = "running"
    BY <2>1 DEF NextLine, Advance
  <2> QED BY <2>3, <2>4 DEF CacheInv, Live, OwnFile, Emptied
<1>5. CASE \/ ReadPlain \/ ReadIteration \/ ReadCheckpoint
           \/ ReadBroken \/ IdleSave \/ ReportHang \/ StopBegins \/ TailExits
           \/ Boot \/ NewLog \/ Tick \/ (\E f \in File : Write(f)) \/ UNCHANGED vars
  <2>1. UNCHANGED <<cache, timers, cur>>
    BY <1>5 DEF ReadPlain, ReadIteration, ReadCheckpoint, ReadBroken, NextLine, Advance,
                IdleSave, ReportHang, StopBegins, TailExits, Boot, NewLog, Tick, Write,
                faults, tracker, vars
  <2>2. state' \in {"idle", "dead"} => state \in {"idle", "dead"}
    BY <1>5 DEF ReadPlain, ReadIteration, ReadCheckpoint, ReadBroken, NextLine,
                IdleSave, ReportHang, StopBegins, TailExits, Boot, NewLog, Tick, Write, vars
  <2> QED BY <2>1, <2>2, SameCache
<1>6. CASE Start
  <2>1. CASE Found
    BY <1>6, <2>1, EmptyCache DEF Start, Clear
  <2>2. CASE ~ Found
    BY <1>6, <2>2, SameCache DEF Start, faults
  <2> QED BY <2>1, <2>2
<1> QED BY <1>1, <1>2, <1>3, <1>4, <1>5, <1>6, NextCases

-----------------------------------------------------------------------------
(***************************************************************************)
(* The positions.                                                          *)
(***************************************************************************)
\* A line that is read moves its position and its mark together.
LEMMA AdvanceSkipsNothing ==
  ASSUME Typed, NoLineSkipped, NextLine, Advance
  PROVE  NoLineSkipped'
<1>1. /\ cur \in File /\ off \in 0..MaxLine
      /\ offsets \in [File -> [at : 0..MaxLine, stopped : BOOLEAN]]
      /\ done \in [File -> 0..MaxLine]
  BY LineTypeOK DEF Typed, RestTypeOK
<1>2. cur' = cur /\ off' = off + 1
  BY DEF Advance
<1>3. done' = [done EXCEPT ![cur] = IF off + 1 > @ THEN off + 1 ELSE @]
  BY DEF Advance
<1>4. off + 1 <= done'[cur] /\ \A f \in File : done[f] <= done'[f]
  BY <1>1, <1>3
<1>5. PICK saves \in BOOLEAN :
        offsets' = IF saves THEN [offsets EXCEPT ![cur] = [at |-> off + 1, stopped |-> FALSE]]
                            ELSE offsets
  BY DEF Advance
<1>6. ASSUME NEW f \in File PROVE offsets'[f].at <= done'[f]
  <2>1. offsets[f].at \in 0..MaxLine /\ done[f] \in 0..MaxLine /\ done'[f] \in Int
    BY <1>1, <1>3
  <2>2. offsets[f].at <= done'[f]
    BY <1>4, <2>1 DEF NoLineSkipped
  <2>3. CASE saves /\ f = cur
    BY <1>1, <1>4, <1>5, <2>3
  <2>4. CASE ~ saves \/ f # cur
    BY <1>1, <1>5, <2>2, <2>4
  <2> QED BY <2>3, <2>4
<1> QED BY <1>2, <1>4, <1>6 DEF NoLineSkipped

\* No step moves a position past an unhandled line.
LEMMA PositionStep == Typed /\ NoLineSkipped /\ [Next]_vars => NoLineSkipped'
<1> SUFFICES ASSUME Typed, NoLineSkipped, [Next]_vars PROVE NoLineSkipped'
  OBVIOUS
<1>1. CASE ReadPlain \/ ReadFault \/ ReadRootCause \/ ReadIteration \/ ReadCheckpoint
  BY <1>1, AdvanceSkipsNothing DEF ReadPlain, ReadFault, ReadRootCause, ReadIteration, ReadCheckpoint
<1>2. CASE IdleSave \/ TailExits
  <2>1. /\ \/ offsets' = offsets
           \/ \E b \in BOOLEAN : cur # 0 /\ offsets' = [offsets EXCEPT ![cur] = [at |-> off, stopped |-> b]]
        /\ UNCHANGED <<cur, off, done>>
    BY <1>2 DEF IdleSave, TailExits, tracker, history
  <2>2. CASE offsets' = offsets
    BY <2>1, <2>2 DEF NoLineSkipped
  <2>3. ASSUME NEW b \in BOOLEAN, cur # 0,
               offsets' = [offsets EXCEPT ![cur] = [at |-> off, stopped |-> b]]
        PROVE  NoLineSkipped'
    <3>1. offsets \in [File -> [at : 0..MaxLine, stopped : BOOLEAN]]
      BY DEF Typed, RestTypeOK
    <3>2. \A f \in File : offsets'[f].at = IF f = cur THEN off ELSE offsets[f].at
      BY <2>3, <3>1
    <3> QED BY <2>1, <2>3, <3>2 DEF NoLineSkipped
  <2> QED BY <2>1, <2>2, <2>3
<1>3. CASE Rescan \/ (Start /\ Found)
  <2>1. Found /\ SwitchTo(newest) /\ UNCHANGED <<offsets, done>>
    BY <1>3 DEF Rescan, Start, history
  <2>2. newest \in File /\ cur' = newest /\ off' = offsets[newest].at
    BY <2>1, SwitchTypeOK
  <2> QED BY <2>1, <2>2 DEF NoLineSkipped
<1>4. CASE Crash
  BY <1>4 DEF Crash, NoLineSkipped
<1>5. CASE \/ \E t \in Timer : TimerFires(t) \/ SendFault(t) \/ SendNothing(t)
           \/ ReadBroken \/ ReportHang \/ (Start /\ ~ Found) \/ StopBegins \/ StopEnds
           \/ Boot \/ NewLog \/ Tick \/ (\E f \in File : Write(f)) \/ UNCHANGED vars
  <2>1. UNCHANGED <<offsets, cur, off, done>>
    BY <1>5 DEF TimerFires, SendFault, SendNothing, ReadBroken, ReportHang, Start, StopBegins,
                StopEnds, Boot, NewLog, Tick, Write, tracker, history, vars
  <2> QED BY <2>1 DEF NoLineSkipped
<1> QED BY <1>1, <1>2, <1>3, <1>4, <1>5, NextCases

-----------------------------------------------------------------------------
(***************************************************************************)
(* The alarm.                                                              *)
(***************************************************************************)
\* Before its first line a session has no iteration, and last_update_time is at
\* least as old as the start: the first check is true whenever the second one is.
BeforeFirst == state = "running" /\ ~ first => ~ iter /\ age >= since

\* A stopped monitor has no iteration and no alarm; in a session, a hang raised it.
Alarm ==
  /\ state = "idle" => ~ iter /\ ~ alert
  /\ state = "dead" => ~ iter /\ ~ alert
  /\ hangs \in 0..1
  /\ state \in {"running", "stopping", "joined"} /\ hangs = 1 => alert

HangInv == BeforeFirst /\ Alarm

\* The second check never reports.
LEMMA SecondCheckIsIdle ==
  ASSUME Typed, HangInv, state = "running"
  PROVE  ~ StillEmpty
<1> SUFFICES ASSUME StillEmpty PROVE FALSE
  OBVIOUS
<1>1. ~ first /\ since >= StartupNoLog /\ ~ alert
  BY DEF StillEmpty
<1>2. ~ iter /\ age >= since
  BY <1>1 DEF HangInv, BeforeFirst
<1>3. age >= StartupNoLog
  BY <1>1, <1>2, BoundsAssumption DEF Typed, RestTypeOK
<1>4. Overdue
  BY <1>1, <1>2, <1>3 DEF Overdue, Threshold, Judged
<1> QED BY <1>4 DEF StillEmpty

\* A session raises its alarm once.
LEMMA HangStep == Typed /\ HangInv /\ [Next]_vars => HangInv'
<1> SUFFICES ASSUME Typed, HangInv, [Next]_vars PROVE HangInv'
  OBVIOUS
<1>1. CASE ReadPlain \/ ReadFault \/ ReadRootCause \/ ReadIteration \/ ReadCheckpoint \/ ReadBroken
  <2>1. NextLine
    BY <1>1 DEF ReadPlain, ReadFault, ReadRootCause, ReadIteration, ReadCheckpoint, ReadBroken
  <2>2. first' = TRUE /\ state' = "running" /\ state = "running" /\ UNCHANGED <<alert, hangs>>
    BY <2>1 DEF NextLine
  <2> QED BY <2>2 DEF HangInv, BeforeFirst, Alarm
<1>2. CASE ReportHang
  <2>1. Overdue /\ ~ StillEmpty /\ state = "running"
    BY <1>2, SecondCheckIsIdle DEF ReportHang
  <2>2. hangs = 0
    BY <2>1 DEF Overdue, HangInv, Alarm
  <2>3. /\ alert' = TRUE /\ hangs' = 1
        /\ UNCHANGED <<state, age, since, iter>> /\ first' = first
    <3>1. alert' = (alert \/ Overdue) /\ first' = (first \/ StillEmpty) /\ hangs' = hangs + 1
      BY <1>2 DEF ReportHang
    <3>2. alert' = TRUE
      BY <2>1, <3>1
    <3>3. first' = first
      BY <2>1, <3>1 DEF Typed, RestTypeOK
    <3> QED BY <1>2, <2>2, <3>1, <3>2, <3>3 DEF ReportHang, clock
  <2> QED BY <2>1, <2>3 DEF HangInv, BeforeFirst, Alarm
<1>3. CASE Start
  <2>1. state' = "running" /\ since' = 0 /\ hangs' = 0 /\ ~ iter' /\ age' = age
    BY <1>3 DEF Start, HangInv, Alarm
  <2> QED BY <2>1 DEF HangInv, BeforeFirst, Alarm, Typed, RestTypeOK
<1>4. CASE Tick
  <2>1. /\ age' = age + 1 /\ since' \in {0, since, since + 1}
        /\ UNCHANGED <<state, first, iter, alert, hangs>>
    BY <1>4 DEF Tick, Later, view, history
  <2>2. age + 1 >= since' \/ ~ (age >= since)
    BY <2>1 DEF Typed, RestTypeOK
  <2> QED BY <2>1, <2>2 DEF HangInv, BeforeFirst, Alarm
<1>5. CASE StopBegins
  BY <1>5 DEF StopBegins, HangInv, BeforeFirst, Alarm, history
<1>6. CASE TailExits
  BY <1>6 DEF TailExits, HangInv, BeforeFirst, Alarm, view, history
<1>7. CASE StopEnds \/ Crash \/ Boot
  BY <1>7 DEF StopEnds, Crash, Boot, HangInv, BeforeFirst, Alarm, view, history
<1>8. CASE \/ \E t \in Timer : TimerFires(t) \/ SendFault(t) \/ SendNothing(t)
           \/ Rescan \/ IdleSave \/ NewLog \/ (\E f \in File : Write(f)) \/ UNCHANGED vars
  <2>1. UNCHANGED <<state, first, iter, alert, hangs, age, since>>
    BY <1>8 DEF TimerFires, SendFault, SendNothing, Rescan, IdleSave, NewLog, Write, clock,
                view, history, vars
  <2> QED BY <2>1 DEF HangInv, BeforeFirst, Alarm
<1> QED BY <1>1, <1>2, <1>3, <1>4, <1>5, <1>6, <1>7, <1>8, NextCases

-----------------------------------------------------------------------------
(***************************************************************************)
(* The stopped files.                                                      *)
(***************************************************************************)
\* Once a session has found a file of its own, it tails one that is not marked.
Tailing == state = "running" /\ last # 0 => cur = last /\ last \in File /\ ~ offsets[last].stopped

\* A file that is found is not marked as stopped.
LEMMA SwitchTails ==
  ASSUME Typed, Found, SwitchTo(newest), offsets' = offsets
  PROVE  Tailing'
  BY SwitchTypeOK DEF Found, SwitchTo, Tailing

\* Saving a position takes no mark on, while the session runs.
LEMMA TailingStep == Typed /\ Tailing /\ [Next]_vars => Tailing'
<1> SUFFICES ASSUME Typed, Tailing, [Next]_vars PROVE Tailing'
  OBVIOUS
<1>1. CASE ReadPlain \/ ReadFault \/ ReadRootCause \/ ReadIteration \/ ReadCheckpoint
  <2>1. NextLine /\ Advance
    BY <1>1 DEF ReadPlain, ReadFault, ReadRootCause, ReadIteration, ReadCheckpoint
  <2>2. state = "running" /\ state' = state /\ cur' = cur /\ last' = last
    BY <2>1 DEF NextLine, Advance
  <2>3. PICK saves \in BOOLEAN :
          offsets' = IF saves THEN [offsets EXCEPT ![cur] = [at |-> off + 1, stopped |-> FALSE]]
                              ELSE offsets
    BY <2>1 DEF Advance
  <2> QED BY <2>2, <2>3 DEF Tailing, Typed, RestTypeOK
<1>2. CASE IdleSave
  BY <1>2 DEF IdleSave, Tailing, Typed, RestTypeOK
<1>3. CASE Rescan \/ (Start /\ Found)
  BY <1>3, SwitchTails DEF Rescan, Start
<1>4. CASE (Start /\ ~ Found) \/ StopBegins \/ TailExits \/ StopEnds \/ Crash \/ Boot
  BY <1>4 DEF Start, StopBegins, TailExits, StopEnds, Crash, Boot, Tailing
<1>5. CASE \/ \E t \in Timer : TimerFires(t) \/ SendFault(t) \/ SendNothing(t)
           \/ ReadBroken \/ ReportHang \/ NewLog \/ Tick
           \/ (\E f \in File : Write(f)) \/ UNCHANGED vars
  <2>1. UNCHANGED <<offsets, state, cur, last>>
    BY <1>5 DEF TimerFires, SendFault, SendNothing, ReadBroken, NextLine, ReportHang, NewLog, Tick,
                Write, tracker, vars
  <2> QED BY <2>1 DEF Tailing
<1> QED BY <1>1, <1>2, <1>3, <1>4, <1>5, NextCases

-----------------------------------------------------------------------------
(***************************************************************************)
(* Together.                                                               *)
(***************************************************************************)
IInv == Typed /\ CacheInv /\ NoLineSkipped /\ HangInv /\ Tailing

\* The monitor is constructed in a good state.
LEMMA InitIInv == Init => IInv
<1> SUFFICES ASSUME Init PROVE IInv
  OBVIOUS
<1>1. /\ 0 \in 0..MaxFile /\ 0 \in 0..MaxLine /\ 0 \in 0..Horizon /\ 0 \in 0..MaxCrash
      /\ "idle" \in State /\ "other" \in Phase
  BY BoundsAssumption DEF State, Phase
<1>2. RestTypeOK
  BY <1>1 DEF Init, RestTypeOK
<1>3. FaultTypeOK
  BY DEF Init, FaultTypeOK
<1>4. CacheInv
  BY DEF Init, CacheInv, Live, OwnFile, Emptied, Ranked
<1>5. NoLineSkipped
  BY <1>1 DEF Init, NoLineSkipped
<1>6. HangInv
  BY DEF Init, HangInv, BeforeFirst, Alarm
<1>7. Tailing
  BY DEF Init, Tailing
<1> QED BY <1>2, <1>3, <1>4, <1>5, <1>6, <1>7 DEF IInv, Typed

\* The inductive invariant holds throughout.
LEMMA IInvHolds == Spec => []IInv
<1>1. IInv /\ [Next]_vars => IInv'
  BY TypedStep, CacheStep, PositionStep, HangStep, TailingStep DEF IInv
<1> QED BY InitIInv, <1>1, PTL DEF Spec

\* TypeOK of LogMonitor.
THEOREM MonitorTyped == Spec => []TypeOK
<1>1. IInv => TypeOK
  BY DEF IInv, Typed, RestTypeOK, FaultTypeOK, HangInv, Alarm, TypeOK
<1> QED BY <1>1, IInvHolds, PTL

\* No fault that was cached for sending is forgotten by the timers, none is sent
\* from another file than the one being read, and none after the monitor stopped:
\* log_fault_handler.py with the clear of a file change and of stop.
THEOREM CacheSafe == Spec => [](Covered /\ OwnFile /\ StoppedIsSilent)
<1>1. IInv => Covered /\ OwnFile /\ StoppedIsSilent
  BY DEF IInv, CacheInv, Live, Emptied, Covered, StoppedIsSilent, Ranked
<1> QED BY <1>1, IInvHolds, PTL

\* A change of files empties the cache before the position moves (_switch_log_file).
THEOREM FileOwnsFaults == Spec => []OwnFile
BY CacheSafe, PTL

\* A monitor that stopped holds nothing a timer could still send.
THEOREM StoppedHoldsNothing == Spec => []StoppedIsSilent
BY CacheSafe, PTL

\* The offset files and the position in memory never name a line that was not
\* handled, however often the controller dies or the files change.
THEOREM PositionSafe == Spec => []NoLineSkipped
<1>1. IInv => NoLineSkipped
  BY DEF IInv
<1> QED BY <1>1, IInvHolds, PTL

\* A session reports silence at most once; the second check of _monitor_no_update
\* never adds a report to the first.
THEOREM AlarmSafe == Spec => []OneHang
<1>1. IInv => OneHang
  BY DEF IInv, HangInv, Alarm, OneHang
<1> QED BY <1>1, IInvHolds, PTL

\* Only reading a line marks it as handled.
LEMMA OnlyReadsHandle ==
  ASSUME [Next]_vars, done' # done
  PROVE  state = "running" /\ cur # 0 /\ \E n : done' = [done EXCEPT ![cur] = n]
<1>1. CASE ReadPlain \/ ReadFault \/ ReadRootCause \/ ReadIteration \/ ReadCheckpoint
  BY <1>1 DEF ReadPlain, ReadFault, ReadRootCause, ReadIteration, ReadCheckpoint, NextLine, Advance
<1>2. CASE \/ \E t \in Timer : TimerFires(t) \/ SendFault(t) \/ SendNothing(t)
           \/ Rescan \/ ReadBroken \/ IdleSave \/ ReportHang
           \/ Start \/ StopBegins \/ TailExits \/ StopEnds \/ Crash \/ Boot
           \/ NewLog \/ Tick \/ (\E f \in File : Write(f)) \/ UNCHANGED vars
  BY <1>2 DEF TimerFires, SendFault, SendNothing, Rescan, ReadBroken, IdleSave, ReportHang,
              Start, StopBegins, TailExits, StopEnds, Crash, Boot, NewLog, Tick, Write,
              history, vars
<1> QED BY <1>1, <1>2, NextCases

\* A file that was marked as stopped is read on only by a session that has found no
\* other file: get_latest_log_file with the tracker that start leaves as it was.
THEOREM StoppedSafe == Spec => StoppedOnlyAtStart
<1>1. IInv /\ [Next]_vars =>
        [\A f \in File : offsets[f].stopped /\ done'[f] # done[f] => last = 0]_vars
  <2> SUFFICES ASSUME IInv, [Next]_vars, NEW f \in File, offsets[f].stopped, done'[f] # done[f]
               PROVE  last = 0
    OBVIOUS
  <2>1. state = "running" /\ \E n : done' = [done EXCEPT ![cur] = n]
    BY OnlyReadsHandle
  <2>2. f = cur
    BY <2>1 DEF IInv, Typed, RestTypeOK
  <2> QED BY <2>1, <2>2 DEF IInv, Tailing
<1> QED BY <1>1, IInvHolds, PTL DEF Spec, StoppedOnlyAtStart

=============================================================================
