------------------------------ MODULE LogMonitor ------------------------------
(***************************************************************************)
(* LogMonitor, LogFileTracker and FaultHandler: the thread that tails the  *)
(* newest training log, the thread that watches for silence, the delayed   *)
(* fault cache with its timers, the offset files, and the controller that  *)
(* starts, stops and, when it is killed, rebuilds the monitor.             *)
(*                                                                         *)
(* A log is its number of complete lines; what a line says is chosen when  *)
(* it is read.  Time is counted in ticks, of which only the distance to    *)
(* the thresholds matters.  LOG_DIR exists and is read in directory mode.  *)
(***************************************************************************)
EXTENDS Integers, FiniteSets

CONSTANTS MaxFile,       \* bound: log files of the job
          MaxLine,       \* bound: lines in one of them
          MaxCrash,      \* bound: deaths of the controller
          Timer,         \* the timer threads that may exist at once
          NoTimer,       \* None in self._timer
          StartupNoLog,  \* STARTUP_NO_LOG_TIMEOUT_SEC, in ticks
          NoUpdate,      \* no_update_threshold
          TwiceAverage,  \* twice the average checkpoint or evaluation
          Horizon        \* bound: later is not told apart

ASSUME BoundsAssumption == /\ MaxFile \in Nat \ {0} /\ MaxLine \in Nat /\ MaxCrash \in Nat
                           /\ NoTimer \notin Timer
                           /\ StartupNoLog \in 0..Horizon /\ NoUpdate \in 0..Horizon
                           /\ TwiceAverage \in 0..Horizon /\ Horizon \in Nat

VARIABLES newest, len,                 \* the files of LOG_DIR, in the order of their names
          offsets,                     \* the .offset file of each: position and ",stopped"
          state,                       \* of the monitor
          cur, off, last, unsaved,     \* current_log_file, current_offset, last_log_file, line_read_counter > 0
          first,                       \* has_received_first_log
          age, since,                  \* time since last_update_time; since the start, until a line is read
          iter, phase, measured,       \* cur_iter is known, process_status, a phase was timed
          alert,                       \* alerts['no_update']
          cache,                       \* FaultHandler._cache
          timers, current,             \* the timer threads; self._timer
          done, hangs, crashes         \* history: lines handled, hangs of the session

files   == <<newest, len>>
tracker == <<cur, off, last, unsaved>>
clock   == <<age, since>>
view    == <<first, iter, phase, measured, alert>>
faults  == <<cache, timers, current>>
history == <<done, hangs, crashes>>
vars    == <<files, offsets, state, tracker, clock, view, faults, history>>

File    == 1..MaxFile

\* "idle": constructed or stopped; "stopping": running is FALSE, the threads are
\* not joined; "joined": the tail thread has written its last offset.
State == {"dead", "idle", "running", "stopping", "joined"}

\* process_status is "busy" in a checkpoint or an evaluation; the two are kept apart
\* only in the average they are judged by.
Phase == {"other", "busy"}

\* A cached fault: its file, and whether it has a priority to be sent with.
Entry == [file : File, ranked : BOOLEAN]

TypeOK ==
  /\ newest \in 0..MaxFile /\ len \in [File -> 0..MaxLine]
  /\ offsets \in [File -> [at : 0..MaxLine, stopped : BOOLEAN]]
  /\ state \in State
  /\ cur \in 0..MaxFile /\ off \in 0..MaxLine /\ last \in 0..MaxFile /\ unsaved \in BOOLEAN
  /\ first \in BOOLEAN /\ iter \in BOOLEAN /\ measured \in BOOLEAN /\ alert \in BOOLEAN
  /\ age \in 0..Horizon /\ since \in 0..Horizon
  /\ phase \in Phase
  /\ cache \subseteq Entry
  /\ timers \in [Timer -> {"free", "armed", "due", "stale"}]
  /\ current \in Timer \cup {NoTimer}
  /\ done \in [File -> 0..MaxLine]
  /\ hangs \in 0..2 /\ crashes \in 0..MaxCrash

-----------------------------------------------------------------------------
(***************************************************************************)
(* FaultHandler.  A timer is "due" once it can no longer be cancelled: its *)
(* callback waits for the lock.  It is "stale" when the generation it was  *)
(* scheduled in is over.                                                   *)
(***************************************************************************)
Cancelled == [t \in Timer |-> IF t = current /\ timers[t] = "armed" THEN "free" ELSE timers[t]]

\* clear: the join on the cancelled timer only waits for a callback that does nothing.
Clear ==
  /\ cache' = {} /\ current' = NoTimer
  /\ timers' = [t \in Timer |-> IF Cancelled[t] = "free" THEN "free" ELSE "stale"]

\* Variant: a timer that seems to be pending is kept.
Bug_KeepsTimer(entry) ==
  /\ cache' = cache \cup {entry}
  /\ IF current # NoTimer THEN UNCHANGED <<timers, current>>
     ELSE \E t \in Timer : /\ timers[t] = "free"
                           /\ timers' = [timers EXCEPT ![t] = "armed"]
                           /\ current' = t

\* add_fault and _reset_timer.
AddFault(entry) ==
  /\ cache' = cache \cup {entry}
  /\ \E t \in Timer :
       /\ Cancelled[t] = "free"
       /\ timers' = [Cancelled EXCEPT ![t] = "armed"]
       /\ current' = t

\* Every cached entry that _induce_fault_cache may choose.
Ranked == {e \in cache : e.ranked}

\* FAULT_DELAY is over.
TimerFires(t) ==
  /\ timers[t] = "armed"
  /\ timers' = [timers EXCEPT ![t] = "due"]
  /\ UNCHANGED <<files, offsets, state, tracker, clock, view, cache, current, history>>

\* _send_fault_message: one entry stands for the whole cache.
SendFault(t) ==
  /\ timers[t] = "due" /\ Ranked # {}
  /\ timers' = [timers EXCEPT ![t] = "free"]
  /\ cache' = {} /\ current' = NoTimer
  /\ UNCHANGED <<files, offsets, state, tracker, clock, view, history>>

\* Nothing to induce, or a later generation: the callback leaves all as it is.
SendNothing(t) ==
  /\ timers[t] = "stale" \/ (timers[t] = "due" /\ Ranked = {})
  /\ timers' = [timers EXCEPT ![t] = "free"]
  /\ UNCHANGED <<files, offsets, state, tracker, clock, view, cache, current, history>>

-----------------------------------------------------------------------------
(***************************************************************************)
(* The tail thread.                                                        *)
(***************************************************************************)
\* Variant: the mark is not looked at.
Bug_ResumesStopped == newest # 0

\* get_latest_log_file: the newest file, unless it is marked as stopped.
Found == newest # 0 /\ ~ offsets[newest].stopped

\* Variant: the position in the file before is kept.
Bug_KeepsOffset(f) ==
  /\ cur' = f /\ last' = f
  /\ unsaved' = FALSE /\ UNCHANGED off

SwitchTo(f) ==
  /\ cur' = f /\ last' = f
  /\ off' = offsets[f].at /\ unsaved' = FALSE

\* Variant: the fault cache survives the change of files.
Bug_KeepsCache ==
  /\ state = "running" /\ Found /\ newest # last
  /\ SwitchTo(newest)
  /\ UNCHANGED <<files, offsets, state, clock, view, faults, history>>

\* A round in which a file turns up that is not the one being read.
Rescan ==
  /\ state = "running" /\ Found /\ newest # last
  /\ SwitchTo(newest)
  /\ Clear
  /\ UNCHANGED <<files, offsets, state, clock, view, history>>

\* readline returns something.  The first line of a session is the "normal" event.
NextLine ==
  /\ state = "running"
  /\ cur # 0 /\ off < len[cur]
  /\ age' = 0
  /\ since' = 0
  /\ first' = TRUE
  /\ UNCHANGED <<files, state, alert, hangs, crashes>>

\* The offset moves on; every so often the new one is saved.
Advance ==
  /\ off' = off + 1
  /\ done' = [done EXCEPT ![cur] = IF off + 1 > @ THEN off + 1 ELSE @]
  /\ \E saves \in BOOLEAN :
       /\ unsaved' = ~ saves
       /\ offsets' = IF saves THEN [offsets EXCEPT ![cur] = [at |-> off + 1, stopped |-> FALSE]]
                               ELSE offsets
  /\ UNCHANGED <<cur, last>>

SameView == UNCHANGED <<iter, phase, measured>>

\* A line without an event, and one that is published at once: loss and inf.
ReadPlain ==
  /\ NextLine /\ Advance /\ SameView
  /\ UNCHANGED faults

\* An exit or hang line.
ReadFault ==
  /\ NextLine /\ Advance /\ SameView
  /\ \E ranked \in BOOLEAN : AddFault([file |-> cur, ranked |-> ranked])

\* The end of a Root Cause block: published in place of what is cached.
ReadRootCause ==
  /\ NextLine /\ Advance /\ SameView
  /\ Clear

\* _handle_log_event: an iteration that eval_interval divides starts an evaluation,
\* the one after it ends it.
ReadIteration ==
  /\ NextLine /\ Advance
  /\ iter' = TRUE
  /\ \/ phase' = "busy" /\ UNCHANGED measured
     \/ phase' = "other" /\ measured' \in {measured, measured \/ phase = "busy"}
  /\ UNCHANGED faults

\* A checkpoint begins, or its duration is reported; without an iteration to
\* attribute it to, the duration is not recorded.
ReadCheckpoint ==
  /\ NextLine /\ Advance
  /\ \/ phase' = "busy" /\ UNCHANGED measured
     \/ phase' = "other" /\ measured' = (measured \/ iter)
  /\ UNCHANGED <<iter, faults>>

\* A line whose handling raises: the file is opened again at the old offset.
ReadBroken ==
  /\ NextLine /\ SameView
  /\ UNCHANGED <<tracker, offsets, done, faults>>

\* Nothing to read and the last save is too long ago.
IdleSave ==
  /\ state = "running" /\ cur # 0
  /\ off = len[cur] /\ unsaved
  /\ offsets' = [offsets EXCEPT ![cur] = [at |-> off, stopped |-> FALSE]]
  /\ unsaved' = FALSE
  /\ UNCHANGED <<files, state, cur, off, last, clock, view, faults, history>>

TailExits ==
  /\ state = "stopping"
  /\ state' = "joined"
  /\ offsets' = IF cur = 0 THEN offsets
                ELSE [offsets EXCEPT ![cur] = [at |-> off, stopped |-> TRUE]]
  /\ UNCHANGED <<files, tracker, clock, view, faults, history>>

-----------------------------------------------------------------------------
(***************************************************************************)
(* The watch for silence.                                                  *)
(***************************************************************************)
Threshold == IF iter THEN NoUpdate ELSE StartupNoLog

\* Whether the silence is judged at all: a checkpoint or evaluation is only when
\* one was measured before, and then against its average.
Judged ==
  \/ ~ iter
  \/ phase = "other"
  \/ measured /\ age >= TwiceAverage

Overdue == age >= Threshold /\ ~ alert /\ Judged

\* The second check, for a session without a line.
StillEmpty == ~ first /\ since >= StartupNoLog /\ ~ alert /\ ~ Overdue

\* Variant: the alarm is not remembered.
Bug_ForgetsAlarm ==
  /\ state = "running"
  /\ Overdue \/ StillEmpty
  /\ first' = (first \/ StillEmpty)
  /\ hangs' = hangs + 1
  /\ UNCHANGED <<files, offsets, state, tracker, clock, iter, phase, measured, alert,
                 faults, done, crashes>>

\* A round of _monitor_no_update that publishes "hang".
ReportHang ==
  /\ state = "running"
  /\ Overdue \/ StillEmpty
  /\ alert' = (alert \/ Overdue)
  /\ first' = (first \/ StillEmpty)
  /\ hangs' = hangs + 1
  /\ UNCHANGED <<files, offsets, state, tracker, clock, iter, phase, measured,
                 faults, done, crashes>>

-----------------------------------------------------------------------------
(***************************************************************************)
(* The controller: construction, start, stop and death.                    *)
(***************************************************************************)
Init ==
  /\ newest = 0 /\ len = [f \in File |-> 0]
  /\ offsets = [f \in File |-> [at |-> 0, stopped |-> FALSE]]
  /\ state = "idle"
  /\ cur = 0 /\ off = 0 /\ last = 0 /\ unsaved = FALSE
  /\ age = 0 /\ since = 0
  /\ first = FALSE /\ iter = FALSE /\ phase = "other" /\ measured = FALSE
  /\ alert = FALSE
  /\ cache = {} /\ timers = [t \in Timer |-> "free"] /\ current = NoTimer
  /\ done = [f \in File |-> 0] /\ hangs = 0 /\ crashes = 0

\* start, with the scan its tail thread begins with.  A session that finds no
\* file leaves the tracker as the previous one left it.
Start ==
  /\ state = "idle"
  /\ state' = "running"
  /\ first' = FALSE /\ since' = 0 /\ hangs' = 0
  /\ IF Found THEN SwitchTo(newest) /\ Clear
              ELSE last' = 0 /\ UNCHANGED <<cur, off, unsaved, faults>>
  /\ UNCHANGED <<files, offsets, age, iter, phase, measured, alert, done, crashes>>

StopBegins ==
  /\ state = "running"
  /\ state' = "stopping"
  /\ first' = TRUE /\ since' = 0
  /\ UNCHANGED <<files, offsets, tracker, age, iter, phase, measured, alert,
                 faults, history>>

\* Variants: the cache is not cleared; the alarm stays raised.
Bug_StopKeepsCache ==
  /\ state = "joined"
  /\ state' = "idle"
  /\ iter' = FALSE /\ measured' = FALSE /\ alert' = FALSE
  /\ UNCHANGED <<files, offsets, tracker, clock, first, phase, faults, history>>

Bug_StopKeepsAlarm ==
  /\ state = "joined"
  /\ state' = "idle"
  /\ Clear
  /\ iter' = FALSE /\ measured' = FALSE
  /\ UNCHANGED <<files, offsets, tracker, clock, first, phase, alert, history>>

\* The threads are joined.
StopEnds ==
  /\ state = "joined"
  /\ state' = "idle"
  /\ Clear
  /\ iter' = FALSE /\ measured' = FALSE /\ alert' = FALSE
  /\ UNCHANGED <<files, offsets, tracker, clock, first, phase, history>>

\* Only the offset files survive; what is in memory is as it is constructed.
Crash ==
  /\ state # "dead" /\ crashes < MaxCrash
  /\ state' = "dead" /\ crashes' = crashes + 1
  /\ cur' = 0 /\ off' = 0 /\ last' = 0 /\ unsaved' = FALSE
  /\ age' = 0 /\ since' = 0
  /\ first' = FALSE /\ iter' = FALSE /\ phase' = "other" /\ measured' = FALSE
  /\ alert' = FALSE
  /\ cache' = {} /\ timers' = [t \in Timer |-> "free"] /\ current' = NoTimer
  /\ UNCHANGED <<files, offsets, done, hangs>>

\* The controller is started again and constructs a monitor.
Boot ==
  /\ state = "dead"
  /\ state' = "idle"
  /\ UNCHANGED <<files, offsets, tracker, clock, view, faults, history>>

-----------------------------------------------------------------------------
(* The training and the clock.                                             *)

\* A launch opens a log; its name is later than all others.
NewLog ==
  /\ newest < MaxFile
  /\ newest' = newest + 1
  /\ UNCHANGED <<len, offsets, state, tracker, clock, view, faults, history>>

\* A process writes a line, also one of a launch that was to be stopped.
Write(f) ==
  /\ f <= newest /\ len[f] < MaxLine
  /\ len' = [len EXCEPT ![f] = @ + 1]
  /\ UNCHANGED <<newest, offsets, state, tracker, clock, view, faults, history>>

Later(n) == IF n < Horizon THEN n + 1 ELSE n

Tick ==
  /\ state # "dead" /\ age < Horizon
  /\ age' = age + 1 /\ since' = IF first THEN 0 ELSE Later(since)
  /\ UNCHANGED <<files, offsets, state, tracker, view, faults, history>>

FaultTimers == \E t \in Timer : TimerFires(t) \/ SendFault(t) \/ SendNothing(t)

Reads == ReadPlain \/ ReadFault \/ ReadRootCause \/ ReadIteration \/ ReadCheckpoint

Controller == Start \/ StopBegins \/ TailExits \/ StopEnds \/ Crash \/ Boot

Environment == NewLog \/ Tick \/ \E f \in File : Write(f)

Next ==
  \/ state # "dead" /\ FaultTimers
  \/ Rescan \/ Reads \/ ReadBroken \/ IdleSave \/ ReportHang
  \/ Controller \/ Environment

Spec == Init /\ [][Next]_vars

\* The watching thread runs and time passes.  That lines are read is not assumed:
\* unread ones only make the log look more silent.
FairSpec == Spec /\ WF_vars(Tick) /\ WF_vars(ReportHang)

-----------------------------------------------------------------------------
(* Properties.                                                             *)

\* A cached fault that can be sent has a timer that will send it, whatever the
\* cancelled timers do that had already fired and however self._timer was lost.
Covered ==
  state # "dead" /\ Ranked # {} => \E t \in Timer : timers[t] \in {"armed", "due"}

\* A fault waits only while the file it was read from is the one being tailed: it
\* is not carried into the log of the next launch.
OwnFile == \A e \in cache : e.file = cur

\* Neither the position in memory nor the one on disk is ever past a line that was
\* not handled, through switches, sessions and deaths of the controller.
NoLineSkipped ==
  /\ \A f \in File : offsets[f].at <= done[f]
  /\ cur # 0 => off <= done[cur]

\* A session reports silence once, though two checks may do it.
OneHang == hangs <= 1

\* A monitor that was stopped publishes nothing before it is started again, also
\* when a timer had fired before the stop.
StoppedIsSilent == state = "idle" => Ranked = {}

\* While the monitor runs for good in a phase it can judge, and no line makes its
\* handling raise over and over, a log that is no longer written is reported.
SilenceReported ==
  <>[](state = "running" /\ Judged) /\ <>[][~ ReadBroken]_vars => <>[](hangs > 0)

\* A file marked ",stopped" is "not processed any more" (write_file_offset), with one
\* exception: a session that found no other file yet goes on in the one before it.
StoppedOnlyAtStart ==
  [][\A f \in File : offsets[f].stopped /\ done'[f] # done[f] => last = 0]_vars

=============================================================================
