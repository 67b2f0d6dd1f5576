-------------------------- MODULE JobManager_proof --------------------------
(***************************************************************************)
(* Proofs about the controller, for every number of launches, waiting      *)
(* events and mishaps: of the launches that have not slipped out of its    *)
(* hands at most one lives, a state file whose write came to its end never *)
(* forgets a living training, a restarted controller goes on with it or    *)
(* recovers, and the controller implements RecoveryCycle.                  *)
(***************************************************************************)
EXTENDS JobManager, TLAPS

(***************************************************************************)
(* The inductive invariant.  What makes it work is the file: a launch is   *)
(* only made where the state in memory is STARTING or RECOVERING, and,     *)
(* when its last write came to its end, the file agrees with memory except *)
(* that RUNNING is read back as PENDING.  STARTING may be in the file      *)
(* while a training lives (between the launch and the report), which is    *)
(* why a controller that loads STARTING has to stop first.                 *)
(***************************************************************************)
FileAgrees ==
  /\ file # "INIT" /\ (mgr # "down" => m.state # "INIT")
  /\ mgr = "down" => Idle
  /\ pen = "fill" => unsaved
  /\ mgr # "down" /\ Idle /\ ~ unsaved =>
       file = m.state \/ (file = "RUNNING" /\ m.state = "PENDING")

PlaceFitsState ==
  /\ ~ Idle => mgr \in {"loop", "start", "stop"}
  /\ mgr = "loop" /\ m.state = "RECOVERING" => m.phase = "stopping"
  /\ mgr \in {"stop", "stopped"} => m.state = "RECOVERING"
  /\ mgr \in {"start", "launch", "launched"} => m.state \in {"STARTING", "RECOVERING"}

NothingAlive ==
  /\ mgr \in {"start", "launch", "stopped"} => Known = {}
  /\ mgr = "loop" /\ m.state = "STARTING" => Known = {}
  /\ file = Unread /\ ~ unsaved => run = 0
  /\ mgr = "launched" \/ m.state \in {"PENDING", "RUNNING"} \/ file \in {"PENDING", "RUNNING"}
       => run > 0

Counted ==
  /\ Known \subseteq {run}
  /\ alive \subseteq 1..run /\ stranded \subseteq 1..run /\ slipped \subseteq 1..run

IInv ==
  /\ TypeOK
  /\ Counted
  /\ FileAgrees
  /\ PlaceFitsState
  /\ NothingAlive

-----------------------------------------------------------------------------
(* What the state machine's operators return. *)

\* A monitor's event either starts a recovery and stops the training, or moves
\* PENDING to RUNNING at most.
LEMMA EventOutcome ==
  ASSUME NEW n \in Machine, NEW e \in Event
  PROVE  /\ Dispatch(n, e) \in Machine
         /\ \/ /\ CommandOf(n, e) = "STOP_TRAINING"
               /\ Dispatch(n, e) = [state |-> "RECOVERING", phase |-> "stopping"]
            \/ /\ CommandOf(n, e) = "NONE"
               /\ Dispatch(n, e) = n
            \/ /\ CommandOf(n, e) = "NONE"
               /\ n.state = "PENDING"
               /\ Dispatch(n, e) = [n EXCEPT !.state = "RUNNING"]
<1>1. e.sig \in LogSignal \cup NodeSignal
  BY DEF Event
<1>2. e.sig # "START_SUCCESS" /\ e.sig # "STOP_SUCCESS"
  BY <1>1 DEF LogSignal, NodeSignal
<1>0. WantsRecovery(n.state, e) => e.sig # "LOG_RUNNING"
  BY DEF WantsRecovery, NodeSignal
<1>3. CASE WantsRecovery(n.state, e) /\ n.state = "RECOVERING"
  <2>1. Dispatch(n, e) = n
    BY <1>3, <1>0, <1>2 DEF Dispatch, ToRecovering, Machine
  <2>2. CommandOf(n, e) = "NONE"
    BY <1>3, <1>2 DEF CommandOf
  <2> QED BY <2>1, <2>2
<1>4. CASE WantsRecovery(n.state, e) /\ n.state # "RECOVERING"
  <2>1. Dispatch(n, e) = [state |-> "RECOVERING", phase |-> "stopping"]
    BY <1>4, <1>0, <1>2 DEF Dispatch, ToRecovering, Machine
  <2>2. CommandOf(n, e) = "STOP_TRAINING"
    BY <1>4, <1>2 DEF CommandOf
  <2>3. [state |-> "RECOVERING", phase |-> "stopping"] \in Machine
    BY DEF Machine, RunState, Phase
  <2> QED BY <2>1, <2>2, <2>3
<1>5. CASE ~ WantsRecovery(n.state, e)
  <2>1. CommandOf(n, e) = "NONE"
    BY <1>2, <1>5 DEF CommandOf
  <2>2. CASE n.state = "PENDING" /\ e.sig = "LOG_RUNNING"
    BY <2>1, <2>2, <1>2, <1>5 DEF Dispatch, Machine, RunState, Phase
  <2>3. CASE ~ (n.state = "PENDING" /\ e.sig = "LOG_RUNNING")
    BY <2>1, <2>3, <1>2, <1>5 DEF Dispatch
  <2> QED BY <2>2, <2>3
<1> QED BY <1>3, <1>4, <1>5

\* Success of a start, reported where starts happen, leads to PENDING.
LEMMA StartOutcome ==
  ASSUME NEW n \in Machine, n.state \in {"STARTING", "RECOVERING"}, NEW e, e.sig = "START_SUCCESS"
  PROVE  /\ Dispatch(n, e) = [n EXCEPT !.state = "PENDING"]
         /\ Dispatch(n, e) \in Machine
         /\ CommandOf(n, e) = "NONE"
<1>1. ~ WantsRecovery(n.state, e)
  BY DEF WantsRecovery, NodeSignal
<1> QED BY <1>1 DEF Dispatch, CommandOf, Machine, RunState, Phase

\* Success of a stop, reported in RECOVERING, leads to the start.
LEMMA StopOutcome ==
  ASSUME NEW n \in Machine, n.state = "RECOVERING", NEW e, e.sig = "STOP_SUCCESS"
  PROVE  /\ Dispatch(n, e) = [n EXCEPT !.phase = "starting"]
         /\ Dispatch(n, e) \in Machine
         /\ CommandOf(n, e) = "START_TRAINING"
<1>1. ~ WantsRecovery(n.state, e)
  BY DEF WantsRecovery, NodeSignal
<1> QED BY <1>1 DEF Dispatch, CommandOf, Machine, RunState, Phase

\* Where a controller begins after it loaded the file.
LEMMA BootOutcome ==
  ASSUME NEW d \in (RunState \cup {Unread}) \ {"INIT"}, NEW same \in BOOLEAN
  PROVE  /\ InitState(LoadedState(d, same)) \in Machine
         /\ d = Unread \/ ~ same => /\ LoadedState(d, same) = "INIT"
                                    /\ InitState(LoadedState(d, same)).state = "STARTING"
         /\ same /\ d \in {"PENDING", "RUNNING"} =>
              /\ LoadedState(d, same) = "PENDING"
              /\ InitState(LoadedState(d, same)).state = "PENDING"
         /\ same /\ d \in {"STARTING", "RECOVERING"} =>
              /\ LoadedState(d, same) = d
              /\ InitState(LoadedState(d, same)).state = "RECOVERING"
              /\ InitState(LoadedState(d, same)).phase = "stopping"
<1>1. CASE d = Unread \/ ~ same
  <2>1. LoadedState(d, same) = "INIT"
    BY <1>1 DEF LoadedState, Unread
  <2> QED BY <1>1, <2>1 DEF InitState, Unread, RunState, Machine, Phase
<1>2. CASE d # Unread /\ same /\ d = "RUNNING"
  BY <1>2 DEF LoadedState, InitState, Unread, RunState, Machine, Phase
<1>3. CASE d # Unread /\ same /\ d # "RUNNING"
  <2>1. LoadedState(d, same) = d
    BY <1>3 DEF LoadedState
  <2> QED BY <1>3, <2>1 DEF InitState, Unread, RunState, Machine, Phase
<1> QED BY <1>1, <1>2, <1>3

-----------------------------------------------------------------------------
(* The invariant is preserved. *)

\* Publishing keeps the bus a sequence of monitor events.
LEMMA PublishKeepsBus ==
  ASSUME TypeOK, NEW sig, NEW where \in Where, NEW r \in 0..MaxRun, Publish(sig, where, r)
  PROVE  bus' \in Seq(Event)
<1>1. [sig |-> sig, where |-> where, run |-> r] \in Event
  BY PublishedSignals DEF Publish, Event
<1> QED BY <1>1 DEF Publish, TypeOK

LEMMA InitIInv == Init => IInv
<1> SUFFICES ASSUME Init PROVE IInv
  OBVIOUS
<1>a. m \in Machine /\ bus \in Seq(Event)
  BY DEF Init, NoMachine, Machine, RunState, Phase
<1>b. /\ mgr = "down" /\ file = Unread /\ pen = "none" /\ unsaved = FALSE /\ tries = 0
      /\ assigned = FALSE /\ watching = FALSE /\ cached = 0 /\ alerted = FALSE /\ run = 0
      /\ alive = {} /\ stranded = {} /\ slipped = {} /\ logged = FALSE /\ sick = FALSE /\ mishaps = 0
  BY DEF Init
<1>1. TypeOK
  <2>1. 0 \in 0..2 /\ 0 \in 0..MaxRun /\ 0 \in 0..MaxMishap
    BY Bounds
  <2> QED BY <1>a, <1>b, <2>1 DEF TypeOK, Place
<1>2. m.state = "INIT"
  BY DEF Init, NoMachine
<1> QED BY <1>1, <1>2, <1>b DEF IInv, Counted, Known, Living, FileAgrees, Idle, PlaceFitsState,
     NothingAlive, Unread

\* What is in hand shrinks when launches die, slip, or do both.
LEMMA KnownShrinks ==
  ASSUME Living' \subseteq Living, slipped \subseteq slipped' PROVE Known' \subseteq Known
BY DEF Known

\* A controller that boots finds the training of the file, or has nothing in hand.
LEMMA BootKeepsIInv == ASSUME IInv, NEW same \in BOOLEAN, BootWith(same) PROVE IInv'
<1>t. TypeOK /\ Counted /\ run \in 0..MaxRun /\ m \in Machine
  BY DEF IInv, TypeOK
<1>1. file \in (RunState \cup {Unread}) \ {"INIT"}
  BY DEF IInv, TypeOK, FileAgrees
<1> DEFINE s == LoadedState(file, same)
           n == InitState(s)
<1>2. /\ n \in Machine
      /\ file = Unread \/ ~ same => s = "INIT" /\ n.state = "STARTING"
      /\ same /\ file \in {"PENDING", "RUNNING"} => s = "PENDING" /\ n.state = "PENDING"
      /\ same /\ file \in {"STARTING", "RECOVERING"} =>
           s = file /\ n.state = "RECOVERING" /\ n.phase = "stopping"
  BY <1>1, BootOutcome
<1>3. /\ mgr = "down" /\ mgr' = "loop" /\ m' = n
      /\ pen' = IF n.state = s THEN "none" ELSE "open"
      /\ assigned' = (assigned /\ s # "INIT")
      /\ watching' = (n.state \in {"PENDING", "RUNNING"})
      /\ slipped' = IF s = "INIT" /\ (unsaved \/ ~ same) THEN slipped \cup Living ELSE slipped
      /\ UNCHANGED <<file, unsaved, tries, bus, cached, alerted, run, alive, stranded, logged, sick>>
  BY DEF BootWith
<1>4. mishaps' \in 0..MaxMishap
  BY <1>t, Bounds DEF BootWith, Mishap, NoMishap, TypeOK
<1> HIDE DEF s, n
<1>5. slipped' \subseteq 1..run /\ slipped' \in SUBSET Run /\ slipped \subseteq slipped'
  BY <1>t, <1>3 DEF Counted, Living, TypeOK
<1>c. n.state \in {"STARTING", "PENDING", "RECOVERING"} /\ (n.state = "RECOVERING" => n.phase = "stopping")
  BY <1>1, <1>2 DEF RunState
<1>6. TypeOK'
  BY <1>t, <1>2, <1>3, <1>4, <1>5 DEF TypeOK, Place, Machine
<1>7. FileAgrees'
  <2>1. n.state = s /\ ~ unsaved => file = n.state \/ (file = "RUNNING" /\ n.state = "PENDING")
    BY <1>1, <1>2 DEF RunState
  <2> QED BY <1>1, <1>3, <1>c, <2>1 DEF IInv, FileAgrees, Idle
<1>8. PlaceFitsState'
  BY <1>3, <1>c DEF PlaceFitsState
<1>9. NothingAlive'
  <2>1. n.state = "STARTING" => s = "INIT" /\ (file = Unread \/ ~ same)
    BY <1>1, <1>2 DEF RunState
  <2>2. n.state = "STARTING" => Known' = {}
    <3>1. CASE unsaved \/ ~ same
      BY <1>3, <2>1, <3>1 DEF Known, Living
    <3>2. CASE ~ unsaved /\ same
      <4>1. n.state = "STARTING" => run = 0
        BY <2>1, <3>2 DEF IInv, NothingAlive
      <4> QED BY <1>t, <1>3, <4>1 DEF Known, Living, Counted
    <3> QED BY <3>1, <3>2
  <2>3. n.state = "PENDING" => run > 0
    <3>1. n.state = "PENDING" => file \in {"PENDING", "RUNNING"}
      BY <1>1, <1>2 DEF RunState
    <3> QED BY <3>1 DEF IInv, NothingAlive
  <2> QED BY <1>3, <1>c, <2>2, <2>3 DEF IInv, NothingAlive
<1>10. Counted'
  <2>1. Known' \subseteq Known
    BY <1>3, <1>5, KnownShrinks DEF Living
  <2> QED BY <1>t, <1>3, <1>5, <2>1 DEF Counted
<1> QED BY <1>6, <1>7, <1>8, <1>9, <1>10 DEF IInv

\* Opening the file empties it, filling it makes it agree with memory; both may fail.
LEMMA WriteKeepsIInv == IInv /\ (OpenFile \/ FillFile) => IInv'
<1> SUFFICES ASSUME IInv, OpenFile \/ FillFile PROVE IInv'
  OBVIOUS
<1>t. TypeOK /\ m \in Machine
  BY DEF IInv, TypeOK
<1>1. /\ pen # "none" /\ pen' \in {"none", "fill"} /\ unsaved' \in BOOLEAN
      /\ UNCHANGED <<mgr, m, tries, assigned, bus, monitor, training>>
      /\ (file' = Unread /\ unsaved') \/ (file' = file /\ unsaved') \/ (file' = m.state /\ pen' = "none")
      /\ pen' = "fill" => unsaved'
  BY DEF OpenFile, FillFile, IInv, FileAgrees
<1>2. mishaps' \in 0..MaxMishap
  BY <1>t, Bounds DEF OpenFile, FillFile, Mishap, NoMishap, TypeOK
<1>3. file' \in RunState \cup {Unread} /\ m.state \in RunState /\ mgr # "down"
  BY <1>t, <1>1 DEF TypeOK, Machine, IInv, FileAgrees, Idle
<1>4. TypeOK'
  BY <1>t, <1>1, <1>2, <1>3 DEF TypeOK, monitor, training
<1>5. Known' = Known
  BY <1>1 DEF Known, Living, training
<1>6. FileAgrees'
  BY <1>1, <1>3 DEF IInv, FileAgrees, Idle, Unread
<1>7. NothingAlive'
  BY <1>1, <1>3, <1>5 DEF IInv, NothingAlive, Unread, RunState, training
<1> QED BY <1>1, <1>4, <1>5, <1>6, <1>7 DEF IInv, Counted, Idle, PlaceFitsState, training

\* The thread moves to another state: it has to write it, or it is the one in the file.
LEMMA MoveAgrees ==
  ASSUME IInv, NEW n \in Machine, MoveTo(n), Idle, mgr # "down", mgr' # "down", n.state # "INIT"
  PROVE  FileAgrees'
BY DEF MoveTo, IInv, FileAgrees, Idle

\* The steps of the manager thread.
LEMMA ManagerKeepsIInv == IInv /\ Manager => IInv'
<1> SUFFICES ASSUME IInv, Manager PROVE IInv'
  OBVIOUS
<1> USE Bounds
<1>t. TypeOK /\ Counted /\ run \in 0..MaxRun /\ m \in Machine
  BY DEF IInv, TypeOK
<1>1. CASE Boot
  BY <1>1, BootKeepsIInv DEF Boot
<1>2. CASE TakeEvent
  <2> DEFINE e == Head(bus)
  <2>1. e \in Event /\ Tail(bus) \in Seq(Event)
    BY <1>2, <1>t DEF TakeEvent, TypeOK
  <2>2. /\ Dispatch(m, e) \in Machine
        /\ \/ /\ CommandOf(m, e) = "STOP_TRAINING"
              /\ Dispatch(m, e) = [state |-> "RECOVERING", phase |-> "stopping"]
           \/ /\ CommandOf(m, e) = "NONE"
              /\ Dispatch(m, e) = m
           \/ /\ CommandOf(m, e) = "NONE"
              /\ m.state = "PENDING"
              /\ Dispatch(m, e) = [m EXCEPT !.state = "RUNNING"]
    BY <1>t, <2>1, EventOutcome
  <2>3. /\ Idle /\ mgr = "loop"
        /\ MoveTo(Dispatch(m, e))
        /\ mgr' = Enter(CommandOf(m, e))
        /\ bus' = Tail(bus)
        /\ UNCHANGED <<tries, watching, cached, alerted, run, alive, logged, sick, mishaps>>
    BY <1>2 DEF TakeEvent, monitor
  <2>m. m' = Dispatch(m, e) /\ pen' \in {"none", "open"} /\ UNCHANGED <<file, unsaved>>
    BY <2>3 DEF MoveTo
  <2>4. /\ assigned' \in BOOLEAN /\ stranded' \subseteq 1..run /\ slipped' \subseteq 1..run
        /\ Known' \subseteq Known
    <3>1. CASE stranded' = stranded \cup (alive \cap {run}) /\ slipped' = slipped \cup (alive \cap {run})
               /\ assigned' = FALSE
      BY <1>t, <2>3, <3>1 DEF Counted, Known, Living
    <3>2. CASE UNCHANGED <<assigned, stranded, slipped>>
      BY <1>t, <2>3, <3>2 DEF Counted, Known, Living, TypeOK
    <3> QED BY <1>2, <3>1, <3>2 DEF TakeEvent, Isolate
  <2> HIDE DEF e
  <2>5. mgr' \in {"loop", "stop"} /\ (mgr' = "stop" <=> CommandOf(m, e) = "STOP_TRAINING")
    BY <2>2, <2>3 DEF Enter
  <2>s. stranded' \in SUBSET Run /\ slipped' \in SUBSET Run
    BY <1>t, <2>4 DEF Run
  <2>6. TypeOK'
    BY <1>t, <2>1, <2>2, <2>3, <2>m, <2>4, <2>s, <2>5 DEF TypeOK, Place, Machine
  <2>7. FileAgrees'
    <3>1. Dispatch(m, e).state # "INIT"
      BY <1>t, <2>2, <2>3 DEF IInv, FileAgrees, Machine
    <3> QED BY <2>2, <2>3, <2>5, <3>1, MoveAgrees
  <2>8. PlaceFitsState'
    BY <1>t, <2>2, <2>3, <2>m, <2>5 DEF IInv, PlaceFitsState, Machine
  <2>9. NothingAlive'
    BY <1>t, <2>2, <2>3, <2>m, <2>4, <2>5 DEF IInv, NothingAlive, Machine
  <2> QED BY <1>t, <2>3, <2>4, <2>6, <2>7, <2>8, <2>9 DEF IInv, Counted
<1>3. CASE TakeAction
  <2>0. UNCHANGED <<m, written, tries, assigned, bus, monitor, training, mishaps>> /\ Known' = Known
    BY <1>3 DEF TakeAction, Known, Living, training
  <2>1. CASE m.state = "STARTING"
    <3>1. mgr = "loop" /\ mgr' = "start"
      BY <1>3, <2>1 DEF TakeAction, NextAction, Enter
    <3> QED BY <1>t, <2>0, <2>1, <3>1 DEF IInv, TypeOK, Counted, Place,
              FileAgrees, Idle, PlaceFitsState, NothingAlive, monitor, training, written
  <2>2. CASE m.state = "RECOVERING"
    <3>1. mgr = "loop" /\ m.phase = "stopping"
      BY <1>3, <2>2 DEF TakeAction, IInv, PlaceFitsState
    <3>2. mgr' = "stop"
      BY <1>3, <2>2, <3>1 DEF TakeAction, NextAction, Enter
    <3> QED BY <1>t, <2>0, <2>2, <3>1, <3>2 DEF IInv, TypeOK, Counted, Place,
              FileAgrees, Idle, PlaceFitsState, NothingAlive, monitor, training, written
  <2>3. CASE m.state \notin {"STARTING", "RECOVERING"}
    BY <1>3, <2>3 DEF TakeAction, NextAction
  <2> QED BY <2>1, <2>2, <2>3
<1>4. CASE GetNodes \/ LaunchFails
  <2>1. /\ Idle /\ mgr \in {"start", "launch"} /\ mgr' \in {"start", "launch"} /\ assigned' \in BOOLEAN
        /\ UNCHANGED <<m, written, tries, bus, monitor, training, mishaps>>
    BY <1>4 DEF GetNodes, LaunchFails
  <2>2. Known' = Known
    BY <2>1 DEF Known, Living, training
  <2> QED BY <1>t, <2>1, <2>2 DEF IInv, TypeOK, Place, Counted, FileAgrees, Idle, PlaceFitsState,
     NothingAlive, monitor, training, written
<1>5. CASE LaunchOK \/ LaunchTimesOut
  <2>1. /\ Idle /\ mgr = "launch" /\ Known = {} /\ mgr' \in {"launched", "start"}
        /\ slipped' \in {slipped, slipped \cup {run'}} /\ (mgr' = "start" => run' \in slipped')
        /\ assigned' \in BOOLEAN
        /\ UNCHANGED <<m, written, tries, bus, monitor, mishaps>>
    BY <1>5, <1>t DEF LaunchOK, LaunchTimesOut, IInv, NothingAlive, TypeOK
  <2>2. /\ run' = run + 1 /\ run' \in 1..MaxRun /\ alive' = alive \cup {run'}
        /\ stranded' = stranded /\ logged' = FALSE /\ sick' = FALSE
    BY <1>5, <1>t DEF LaunchOK, LaunchTimesOut, NewRun
  <2>3. Known' \subseteq {run'} /\ (mgr' = "start" => Known' = {})
    BY <2>1, <2>2 DEF Known, Living
  <2>4. /\ alive' \subseteq 1..run' /\ stranded' \subseteq 1..run' /\ slipped' \subseteq 1..run'
    <3>1. 1..run \subseteq 1..run' /\ run' \in 1..run'
      BY <1>t, <2>2
    <3> QED BY <1>t, <2>1, <2>2, <3>1 DEF Counted
  <2>5. TypeOK'
    <3>1. alive' \in SUBSET Run /\ stranded' \in SUBSET Run /\ slipped' \in SUBSET Run
      BY <2>2, <2>4 DEF Run
    <3>2. run' \in 0..MaxRun
      BY <2>2
    <3> QED BY <1>t, <2>1, <2>2, <3>1, <3>2 DEF TypeOK, Place, written, monitor
  <2>6. run > 0 \/ run = 0
    BY <1>t
  <2>7. m.state \in {"STARTING", "RECOVERING"}
    BY <2>1 DEF IInv, PlaceFitsState
  <2>8. file = Unread => unsaved
    BY <2>1, <2>7 DEF IInv, FileAgrees, Unread
  <2>9. NothingAlive'
    BY <1>t, <2>1, <2>2, <2>3, <2>7, <2>8 DEF NothingAlive, written
  <2> QED BY <2>1, <2>3, <2>4, <2>5, <2>9 DEF IInv, Counted, FileAgrees, Idle, PlaceFitsState, written
<1>7. CASE ReportStart
  <2> DEFINE e == Signalled("START_SUCCESS")
  <2>1. Idle /\ mgr = "launched" /\ m.state \in {"STARTING", "RECOVERING"} /\ run > 0
    BY <1>7 DEF ReportStart, IInv, PlaceFitsState, NothingAlive
  <2>2. /\ Dispatch(m, e) = [m EXCEPT !.state = "PENDING"]
        /\ Dispatch(m, e) \in Machine
        /\ CommandOf(m, e) = "NONE"
    BY <1>t, <2>1, StartOutcome DEF Signalled
  <2>3. /\ MoveTo(Dispatch(m, e)) /\ mgr' = Enter(CommandOf(m, e))
        /\ watching' = TRUE
        /\ UNCHANGED <<tries, assigned, bus, cached, alerted, training, mishaps>>
    BY <1>7 DEF ReportStart
  <2>m. m' = Dispatch(m, e) /\ pen' \in {"none", "open"} /\ UNCHANGED <<file, unsaved>>
    BY <2>3 DEF MoveTo
  <2> HIDE DEF e
  <2>4. mgr' = "loop"
    BY <2>2, <2>3 DEF Enter
  <2>5. m'.state = "PENDING"
    BY <1>t, <2>2, <2>m DEF Machine
  <2>6. TypeOK'
    BY <1>t, <2>2, <2>3, <2>m, <2>4 DEF TypeOK, Place, training
  <2>7. FileAgrees'
    BY <2>1, <2>2, <2>3, <2>m, <2>4, <2>5, MoveAgrees
  <2>8. Known' = Known
    BY <2>3 DEF Known, Living, training
  <2> QED BY <1>t, <2>1, <2>3, <2>m, <2>4, <2>5, <2>6, <2>7, <2>8 DEF IInv, Counted, PlaceFitsState,
            NothingAlive, training
<1>8. CASE StopOK
  <2>1. /\ Idle /\ mgr = "stop" /\ mgr' = "stopped" /\ tries' = 0 /\ alive' = {}
        /\ stranded' \subseteq Living /\ slipped' = slipped \cup stranded'
        /\ UNCHANGED <<m, written, assigned, bus, monitor, run, logged, sick>>
    BY <1>8 DEF StopOK
  <2>2. mishaps' \in 0..MaxMishap
    BY <1>8, <1>t DEF StopOK, Mishap, NoMishap, TypeOK
  <2>3. Known' = {}
    BY <2>1 DEF Known, Living
  <2>4. stranded' \subseteq 1..run /\ slipped' \subseteq 1..run
    BY <1>t, <2>1 DEF Counted, Living
  <2>5. stranded' \in SUBSET Run /\ slipped' \in SUBSET Run
    BY <1>t, <2>4 DEF Run
  <2>6. TypeOK'
    BY <1>t, <2>1, <2>2, <2>5 DEF TypeOK, Place, written, monitor
  <2>7. m.state = "RECOVERING"
    BY <2>1 DEF IInv, PlaceFitsState
  <2> QED BY <1>t, <2>1, <2>3, <2>4, <2>6, <2>7 DEF IInv, Counted, FileAgrees, Idle, PlaceFitsState,
            NothingAlive, written
<1>9. CASE StopFails
  <2>1. Known' = Known
    BY <1>9 DEF StopFails, Known, Living, training
  <2> QED BY <1>9, <1>t, <2>1 DEF StopFails, IInv, TypeOK, Place, Counted, FileAgrees, Idle,
     PlaceFitsState, NothingAlive, monitor, training, written
<1>10. CASE ReportStop
  <2> DEFINE e == Signalled("STOP_SUCCESS")
  <2>1. Idle /\ mgr = "stopped" /\ m.state = "RECOVERING" /\ Known = {}
    BY <1>10 DEF ReportStop, IInv, PlaceFitsState, NothingAlive
  <2>2. /\ Dispatch(m, e) = [m EXCEPT !.phase = "starting"]
        /\ Dispatch(m, e) \in Machine
        /\ CommandOf(m, e) = "START_TRAINING"
    BY <1>t, <2>1, StopOutcome DEF Signalled
  <2>3. /\ MoveTo(Dispatch(m, e)) /\ mgr' = Enter(CommandOf(m, e))
        /\ assigned' = FALSE /\ watching' = FALSE /\ cached' = 0 /\ alerted' = FALSE
        /\ UNCHANGED <<tries, bus, training, mishaps>>
    BY <1>10 DEF ReportStop, StopWatching
  <2>m. m' = Dispatch(m, e) /\ pen' \in {"none", "open"} /\ UNCHANGED <<file, unsaved>>
    BY <2>3 DEF MoveTo
  <2> HIDE DEF e
  <2>4. mgr' = "start"
    BY <2>2, <2>3 DEF Enter
  <2>5. m'.state = "RECOVERING"
    BY <1>t, <2>1, <2>2, <2>m DEF Machine
  <2>6. TypeOK'
    <3>1. m' \in Machine /\ mgr' \in Place /\ cached' \in 0..MaxRun
      BY <2>2, <2>3, <2>m, <2>4 DEF Place
    <3>2. /\ assigned' \in BOOLEAN /\ watching' \in BOOLEAN /\ alerted' \in BOOLEAN
          /\ UNCHANGED <<file, unsaved, tries, bus, run, alive, stranded, slipped, logged, sick, mishaps>>
      BY <2>3, <2>m DEF training
    <3> QED BY <1>t, <2>m, <3>1, <3>2 DEF TypeOK
  <2>7. FileAgrees'
    BY <2>1, <2>2, <2>3, <2>m, <2>4, <2>5, MoveAgrees
  <2>8. Known' = Known
    BY <2>3 DEF Known, Living, training
  <2> QED BY <1>t, <2>1, <2>3, <2>m, <2>4, <2>5, <2>6, <2>7, <2>8 DEF IInv, Counted, PlaceFitsState,
            NothingAlive, training
<1>12. CASE GiveUpStop
  <2> DEFINE n == [m EXCEPT !.state = "STARTING"]
  <2>1. Idle /\ mgr = "stop" /\ mgr' = "start" /\ m.state = "RECOVERING"
    BY <1>12 DEF GiveUpStop, IInv, PlaceFitsState
  <2>2. n \in Machine /\ n.state = "STARTING"
    BY <1>t DEF Machine, RunState
  <2>3. /\ MoveTo(n) /\ slipped' = slipped \cup Living /\ tries' = 0 /\ assigned' = FALSE
        /\ watching' = FALSE /\ cached' = 0 /\ alerted' = FALSE
        /\ UNCHANGED <<bus, run, alive, stranded, logged, sick, mishaps>>
    BY <1>12 DEF GiveUpStop, StopWatching
  <2>m. m' = n /\ pen' \in {"none", "open"} /\ UNCHANGED <<file, unsaved>>
    BY <2>3 DEF MoveTo
  <2> HIDE DEF n
  <2>4. Known' = {} /\ slipped' \subseteq 1..run
    BY <1>t, <2>3 DEF Counted, Known, Living
  <2>5. slipped' \in SUBSET Run
    BY <1>t, <2>4 DEF Run
  <2>6. TypeOK'
    <3>1. m' \in Machine /\ mgr' \in Place /\ cached' \in 0..MaxRun /\ tries' \in 0..2
      BY <2>1, <2>2, <2>3, <2>m DEF Place
    <3>2. /\ assigned' \in BOOLEAN /\ watching' \in BOOLEAN /\ alerted' \in BOOLEAN
          /\ UNCHANGED <<file, unsaved, bus, run, alive, stranded, logged, sick, mishaps>>
      BY <2>3, <2>m
    <3> QED BY <1>t, <2>m, <2>5, <3>1, <3>2 DEF TypeOK
  <2>7. FileAgrees'
    BY <2>1, <2>2, <2>3, MoveAgrees
  <2> QED BY <1>t, <2>1, <2>2, <2>3, <2>m, <2>4, <2>6, <2>7 DEF IInv, Counted, PlaceFitsState, NothingAlive
<1> QED BY <1>1, <1>2, <1>3, <1>4, <1>5, <1>7, <1>8, <1>9, <1>10, <1>12, WriteKeepsIInv DEF Manager

\* The death of the controller loses what is in memory and keeps the file.
LEMMA DeathKeepsIInv == IInv /\ (NoNodes \/ Crash) => IInv'
<1> SUFFICES ASSUME IInv, NoNodes \/ Crash PROVE IInv'
  OBVIOUS
<1>1. /\ mgr' = "down" /\ m' = NoMachine /\ bus' = <<>>
      /\ watching' = FALSE /\ cached' = 0 /\ alerted' = FALSE
      /\ tries' \in {tries, 0} /\ mishaps < MaxMishap /\ mishaps' = mishaps + 1
      /\ pen' = "none"
      /\ UNCHANGED <<file, unsaved, assigned, training>>
  BY DEF NoNodes, Crash, StopWatching, Mishap, Idle, written
<1>2. NoMachine \in Machine /\ <<>> \in Seq(Event) /\ NoMachine.state = "INIT"
  BY DEF NoMachine, Machine, RunState, Phase
<1>3. mishaps' \in 0..MaxMishap /\ tries' \in 0..2 /\ cached' \in 0..MaxRun
  BY <1>1, Bounds DEF IInv, TypeOK
<1>4. TypeOK'
  BY <1>1, <1>2, <1>3 DEF IInv, TypeOK, Place, training
<1>5. Known' = Known
  BY <1>1 DEF Known, Living, training
<1> QED BY <1>1, <1>2, <1>4, <1>5 DEF IInv, Counted, FileAgrees, Idle, PlaceFitsState, NothingAlive,
         training

\* The monitors and the training touch neither the manager's state nor the file.
LEMMA OthersKeepIInv == IInv /\ (Monitors \/ Training) => IInv'
<1> SUFFICES ASSUME IInv, Monitors \/ Training PROVE IInv'
  OBVIOUS
<1> USE Bounds
<1>t. TypeOK /\ Counted /\ run \in 0..MaxRun /\ cached \in 0..MaxRun
  BY DEF IInv, TypeOK
<1>w. "nowhere" \in Where /\ "rank" \in Where /\ "host" \in Where
  BY DEF Where
<1>1. bus' \in Seq(Event)
  <2>1. CASE SeeLine
    BY <2>1, <1>t, <1>w, PublishKeepsBus DEF SeeLine
  <2>2. CASE SeeLoss
    BY <2>2, <1>t, <1>w, PublishKeepsBus DEF SeeLoss
  <2>3. CASE SeeRootCause
    BY <2>3, <1>t, <1>w, PublishKeepsBus DEF SeeRootCause
  <2>4. CASE SendCached
    BY <2>4, <1>t, PublishKeepsBus DEF SendCached
  <2>5. CASE SeeNoUpdate
    BY <2>5, <1>t, <1>w, PublishKeepsBus DEF SeeNoUpdate
  <2>6. CASE SeeBadNode
    BY <2>6, <1>t, <1>w, PublishKeepsBus DEF SeeBadNode
  <2>7. CASE SeeRelease
    BY <2>7, <1>t, <1>w, PublishKeepsBus DEF SeeRelease
  <2>8. CASE CacheExit \/ Training
    BY <2>8, <1>t DEF CacheExit, Training, WriteLog, Sicken, Die, TypeOK
  <2> QED BY <2>1, <2>2, <2>3, <2>4, <2>5, <2>6, <2>7, <2>8 DEF Monitors
<1>2. /\ UNCHANGED <<mgr, m, written, tries, watching, run, slipped, mishaps>>
      /\ alive' \subseteq alive /\ stranded' \subseteq stranded
      /\ assigned' \in BOOLEAN /\ alerted' \in BOOLEAN /\ cached' \in 0..MaxRun
      /\ logged' \in BOOLEAN /\ sick' \in BOOLEAN
  <2>1. CASE SeeLine
    BY <2>1, <1>t DEF SeeLine, TypeOK, manager, monitor, training
  <2>2. CASE SeeLoss
    BY <2>2, <1>t DEF SeeLoss, TypeOK, manager, monitor, training
  <2>3. CASE SeeRootCause
    BY <2>3, <1>t DEF SeeRootCause, TypeOK, manager, monitor, training
  <2>4. CASE CacheExit
    BY <2>4, <1>t DEF CacheExit, TypeOK, manager, monitor, training
  <2>5. CASE SendCached
    BY <2>5, <1>t DEF SendCached, TypeOK, manager, monitor, training
  <2>6. CASE SeeNoUpdate
    BY <2>6, <1>t DEF SeeNoUpdate, TypeOK, manager, monitor, training
  <2>7. CASE SeeBadNode
    BY <2>7, <1>t DEF SeeBadNode, TypeOK, manager, monitor, training
  <2>8. CASE SeeRelease
    BY <2>8, <1>t DEF SeeRelease, TypeOK, manager, monitor, training
  <2>9. CASE WriteLog
    BY <2>9, <1>t DEF WriteLog, TypeOK, manager, monitor, training
  <2>10. CASE Sicken
    BY <2>10, <1>t DEF Sicken, TypeOK, manager, monitor, training
  <2>11. CASE Die
    BY <2>11, <1>t DEF Die, TypeOK, manager, monitor, training
  <2> QED BY <2>1, <2>2, <2>3, <2>4, <2>5, <2>6, <2>7, <2>8, <2>9, <2>10, <2>11 DEF Monitors, Training
<1>3. Known' \subseteq Known
  BY <1>2 DEF Known, Living
<1>4. alive' \in SUBSET Run /\ stranded' \in SUBSET Run
  BY <1>t, <1>2 DEF TypeOK
<1>5. TypeOK'
  BY <1>t, <1>1, <1>2, <1>4 DEF TypeOK, written
<1> QED BY <1>t, <1>2, <1>3, <1>5 DEF IInv, Counted, FileAgrees, Idle, PlaceFitsState, NothingAlive,
         written

LEMMA StepIInv == IInv /\ [Next]_vars => IInv'
<1>1. IInv /\ UNCHANGED vars => IInv'
  <2> SUFFICES ASSUME IInv, UNCHANGED vars PROVE IInv'
    OBVIOUS
  <2> USE DEF vars, manager, written, monitor, training
  <2>1. TypeOK'
    BY DEF IInv, TypeOK
  <2>2. Known' = Known
    BY DEF Known, Living
  <2> QED BY <2>1, <2>2 DEF IInv, Counted, FileAgrees, Idle, PlaceFitsState, NothingAlive
<1> QED BY <1>1, ManagerKeepsIInv, DeathKeepsIInv, OthersKeepIInv DEF Next

-----------------------------------------------------------------------------
(* The theorems. *)

LEMMA Invariance == Spec => []IInv
BY InitIInv, StepIInv, PTL DEF Spec

LEMMA FileKnows == IInv => FileKnowsTraining
<1> SUFFICES ASSUME IInv, Living # {}, ~ unsaved PROVE file \notin {"INIT", Unread}
  BY DEF FileKnowsTraining
<1>1. run # 0
  <2>1. Living \subseteq 1..run
    BY DEF IInv, Counted, Living
  <2>2. 1..0 = {}
    OBVIOUS
  <2> QED BY <2>1, <2>2
<1> QED BY <1>1 DEF IInv, NothingAlive, FileAgrees

\* The variables keep their types; of the launches that did not slip out of the
\* controller's hands at most one lives; a state file whose last write came to its end
\* knows of every living training.
THEOREM ControllerSafe == Spec => [](TypeOK /\ OneInHand /\ FileKnowsTraining)
<1>1. IInv => OneInHand
  BY DEF IInv, OneInHand, Counted
<1>2. IInv => FileKnowsTraining
  BY FileKnows
<1>3. IInv => TypeOK
  BY DEF IInv
<1> QED BY <1>1, <1>2, <1>3, Invariance, PTL

\* TypeOK of JobManager alone.
THEOREM ControllerTyped == Spec => []TypeOK
BY ControllerSafe, PTL

\* FileKnowsTraining alone: whichever write fails and wherever the controller dies,
\* also between emptying the file and filling it.
THEOREM FileSafe == Spec => []FileKnowsTraining
BY ControllerSafe, PTL

\* A controller that starts while a training lives, with its configuration and a whole
\* file, goes on with it or recovers.
THEOREM RestartSafe == Spec => RestartRecovers
<1>1. IInv => [BootWith(TRUE) /\ Living # {} /\ ~ unsaved => m'.state \in {"PENDING", "RECOVERING"}]_vars
  <2> SUFFICES ASSUME IInv, BootWith(TRUE), Living # {}, ~ unsaved
               PROVE  m'.state \in {"PENDING", "RECOVERING"}
    OBVIOUS
  <2>1. FileKnowsTraining
    BY FileKnows
  <2>2. file \in RunState \ {"INIT"}
    BY <2>1 DEF FileKnowsTraining, IInv, TypeOK
  <2>3. m' = InitState(LoadedState(file, TRUE))
    BY DEF BootWith
  <2>4. file \in (RunState \cup {Unread}) \ {"INIT"} /\ file # Unread
    BY <2>1, <2>2 DEF FileKnowsTraining
  <2>5. TRUE \in BOOLEAN
    OBVIOUS
  <2>6. CASE file \in {"PENDING", "RUNNING"}
    BY <2>3, <2>4, <2>5, <2>6, BootOutcome
  <2>7. CASE file \in {"STARTING", "RECOVERING"}
    BY <2>3, <2>4, <2>5, <2>7, BootOutcome
  <2> QED BY <2>2, <2>6, <2>7 DEF RunState
<1> QED BY <1>1, Invariance, PTL DEF Spec, RestartRecovers

\* Every step of the controller is a step of RecoveryCycle or changes none of its
\* variables.
LEMMA StepRefines == IInv /\ IInv' /\ [Next]_vars => [Cycle!Next]_<<run, Known, Record>>
<1> SUFFICES ASSUME IInv, IInv', [Next]_vars PROVE [Cycle!Next]_<<run, Known, Record>>
  OBVIOUS
<1>t. /\ run \in Nat /\ Counted /\ m \in Machine /\ bus \in Seq(Event)
      /\ file \in RunState \cup {Unread} /\ unsaved \in BOOLEAN
  BY DEF IInv, TypeOK
\* The record depends on the file alone.
<1>f. UNCHANGED <<file, unsaved>> => Record' = Record
  BY DEF Record
\* What is in hand is one launch or none, so that when it shrinks it ends.
<1>e. UNCHANGED <<run, file, unsaved>> /\ Known' \subseteq Known
        => Cycle!End \/ UNCHANGED <<run, Known, Record>>
  <2> SUFFICES ASSUME UNCHANGED <<run, file, unsaved>>, Known' \subseteq Known
               PROVE  Cycle!End \/ UNCHANGED <<run, Known, Record>>
    OBVIOUS
  <2>1. Known \subseteq {run}
    BY <1>t DEF Counted
  <2>2. Known' = Known \/ (Known # {} /\ Known' = {})
    BY <2>1
  <2> QED BY <2>2, <1>f DEF Cycle!End
<1>1. CASE OpenFile
  <2>1. UNCHANGED <<run, Known>> /\ Record' = "torn"
    BY <1>1 DEF OpenFile, Known, Living, training, Record
  <2> QED BY <2>1 DEF Cycle!Next, Cycle!Tear
<1>2. CASE FillFile
  <2>1. UNCHANGED <<run, Known>> /\ unsaved
    BY <1>2 DEF FillFile, Known, Living, training, IInv, FileAgrees
  <2>5. mgr # "down" /\ m.state \in RunState \ {"INIT"}
    BY <1>2, <1>t DEF FillFile, IInv, FileAgrees, Idle, Machine
  <2>2. Record = "torn"
    BY <2>1 DEF Record
  <2>3. CASE UNCHANGED <<file, unsaved>>
    BY <2>1, <2>3, <1>f
  <2>4. CASE file' = m.state /\ unsaved' = FALSE
    <3>1. CASE m.state = "STARTING"
      <4>1. Known = {}
        <5>1. mgr \in {"loop", "start", "launch", "launched"}
          BY <2>5, <3>1, <1>t DEF IInv, TypeOK, Place, PlaceFitsState
        <5>2. mgr # "launched"
          BY <1>2 DEF FillFile, IInv, PlaceFitsState, Idle
        <5> QED BY <3>1, <5>1, <5>2 DEF IInv, NothingAlive
      <4>2. Record' = "new"
        BY <2>4, <3>1 DEF Record
      <4> QED BY <2>1, <2>2, <4>1, <4>2 DEF Cycle!Next, Cycle!Begin
    <3>2. CASE m.state \in {"PENDING", "RUNNING"}
      <4>1. run > 0
        BY <3>2 DEF IInv, NothingAlive
      <4>2. Record' = "training"
        BY <2>4, <3>2 DEF Record
      <4> QED BY <2>1, <2>2, <4>1, <4>2 DEF Cycle!Next, Cycle!Confirm
    <3>3. CASE m.state = "RECOVERING"
      <4>1. Record' = "recovering"
        BY <2>4, <3>3 DEF Record
      <4> QED BY <2>1, <2>2, <4>1 DEF Cycle!Next, Cycle!Recover
    <3> QED BY <2>5, <3>1, <3>2, <3>3 DEF RunState
  <2> QED BY <1>2, <2>3, <2>4 DEF FillFile
<1>3. CASE LaunchOK \/ LaunchTimesOut
  <2>1. Idle /\ mgr = "launch" /\ Known = {} /\ m.state \in {"STARTING", "RECOVERING"}
    BY <1>3 DEF LaunchOK, LaunchTimesOut, IInv, NothingAlive, PlaceFitsState
  <2>2. unsaved \/ file = m.state
    BY <2>1 DEF IInv, FileAgrees
  <2>3. Record # "training"
    BY <2>1, <2>2 DEF Record
  <2>4. /\ run' = run + 1 /\ alive' = alive \cup {run + 1}
        /\ UNCHANGED <<stranded, file, unsaved>>
    BY <1>3 DEF LaunchOK, LaunchTimesOut, NewRun, written
  <2>5. CASE LaunchOK
    <3>1. slipped' = slipped /\ run + 1 \notin slipped
      BY <2>5, <1>t DEF LaunchOK, Counted
    <3>2. Known' = {run + 1}
      BY <2>1, <2>4, <3>1 DEF Known, Living
    <3> QED BY <2>1, <2>3, <2>4, <3>2, <1>f DEF Cycle!Next, Cycle!Launch
  <2>6. CASE LaunchTimesOut
    <3>1. slipped' = slipped \cup {run + 1}
      BY <2>4, <2>6 DEF LaunchTimesOut
    <3>2. Known' = {}
      BY <2>1, <2>4, <3>1 DEF Known, Living
    <3> QED BY <2>1, <2>3, <2>4, <3>2, <1>f DEF Cycle!Next, Cycle!Misfire
  <2> QED BY <1>3, <2>5, <2>6
<1>4. CASE Boot
  <2>1. UNCHANGED <<run, file, unsaved, alive, stranded>>
        /\ slipped' \in {slipped, slipped \cup Living}
    BY <1>4 DEF Boot, BootWith
  <2>2. Known' \subseteq Known
    BY <2>1 DEF Known, Living
  <2> QED BY <2>1, <2>2, <1>e DEF Cycle!Next
<1>5. CASE TakeEvent
  <2>1. UNCHANGED <<run, file, unsaved, alive>>
    BY <1>5 DEF TakeEvent, MoveTo
  <2>2. \/ stranded' = stranded \cup (alive \cap {run}) /\ slipped' = slipped \cup (alive \cap {run})
        \/ UNCHANGED <<stranded, slipped>>
    BY <1>5 DEF TakeEvent, Isolate
  <2>3. Known' \subseteq Known
    BY <2>1, <2>2 DEF Known, Living
  <2> QED BY <2>1, <2>3, <1>e DEF Cycle!Next
<1>6. CASE StopOK \/ GiveUpStop
  <2>1. UNCHANGED <<run, file, unsaved>> /\ Living' \subseteq Living /\ slipped \subseteq slipped'
    BY <1>6 DEF StopOK, GiveUpStop, MoveTo, Living, written
  <2> QED BY <2>1, <1>e, KnownShrinks DEF Cycle!Next
<1>7. CASE \/ TakeAction \/ GetNodes \/ LaunchFails \/ ReportStart \/ StopFails \/ ReportStop
           \/ NoNodes \/ Crash \/ UNCHANGED vars
  <2>1. UNCHANGED <<run, alive, stranded, slipped, file, unsaved>>
    BY <1>7 DEF TakeAction, GetNodes, LaunchFails, ReportStart, StopFails, ReportStop, NoNodes, Crash,
       MoveTo, vars, manager, written, training
  <2>2. Known' \subseteq Known
    BY <2>1 DEF Known, Living
  <2> QED BY <2>1, <2>2, <1>e DEF Cycle!Next
<1>8. CASE Monitors \/ Training
  <2>1. UNCHANGED <<run, slipped, file, unsaved>> /\ alive' \subseteq alive /\ stranded' \subseteq stranded
    BY <1>8 DEF Monitors, Training, SeeLine, SeeLoss, SeeRootCause, CacheExit, SendCached,
       SeeNoUpdate, SeeBadNode, SeeRelease, WriteLog, Sicken, Die, manager, written, training
  <2>2. Known' \subseteq Known
    BY <2>1 DEF Known, Living
  <2> QED BY <2>1, <2>2, <1>e DEF Cycle!Next
<1> QED BY <1>1, <1>2, <1>3, <1>4, <1>5, <1>6, <1>7, <1>8 DEF Next, Manager

\* The controller, with its failed writes, its deaths and its restarts, keeps the
\* promise of RecoveryCycle.
THEOREM ControllerImplementsCycle == Spec => CycleSpec
<1>1. Init => Cycle!Init
  BY DEF Init, Cycle!Init, Known, Living, Record, Unread
<1>2. IInv /\ IInv' /\ [Next]_vars => [Cycle!Next]_<<run, Known, Record>>
  BY StepRefines
<1> QED BY <1>1, <1>2, Invariance, PTL DEF Spec, CycleSpec, Cycle!Spec
=============================================================================
