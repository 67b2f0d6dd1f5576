--------------------------- MODULE JobStateMachine ---------------------------
(***************************************************************************)
(* The training job's state machine (runtime/job_state_machine.py) as      *)
(* operators: which state and which command a signal leads to.  A machine  *)
(* is run_state together with recovery_phase.                              *)
(*                                                                         *)
(* RunState has further members (HANG, LOSS_DIVERGENCE, FAULT,             *)
(* FAULT_RECOVER, COMPLETE) that no code stores; they are left out.        *)
(*                                                                         *)
(* An event is a signal with what the handlers look at in its payload:     *)
(* "where", whether it names a host or a rank that handle_runtime_fault    *)
(* accepts (for a loss event, whether it has a type at all), and "run",    *)
(* the launch the event is about, which the program does not record.       *)
(***************************************************************************)
EXTENDS Integers

RunState == {"INIT", "STARTING", "PENDING", "RUNNING", "RECOVERING"}
Phase    == {"none", "stopping", "starting"}
Machine  == [state : RunState, phase : Phase]

LogSignal == {"LOG_RUNNING", "LOG_ITER", "LOG_HANG", "LOG_TIMEOUT",
              "LOG_EXIT", "LOG_LOSS", "LOG_INF"}
NodeSignal == {"NODE_ABNORMAL", "JOB_RELEASE"}
Where == {"nowhere", "rank", "host"}

\* Variant: a hang is handled in RUNNING only.
Bug_HangWhilePending(s, e) ==
  \/ e.sig \in NodeSignal
  \/ s = "PENDING" /\ e.sig = "LOG_TIMEOUT"
  \/ s = "RUNNING" /\ e.sig \in {"LOG_HANG", "LOG_INF"}
  \/ s = "RUNNING" /\ e.sig \in {"LOG_EXIT", "LOG_LOSS"} /\ e.where # "nowhere"

\* The signals whose handler calls _to_recovering, by state.  A node signal has
\* the same handler in every state; an exit that cannot be located and a loss
\* without a type only raise an alarm.
WantsRecovery(s, e) ==
  \/ e.sig \in NodeSignal
  \/ s = "PENDING" /\ e.sig \in {"LOG_TIMEOUT", "LOG_HANG"}
  \/ s = "RUNNING" /\ e.sig \in {"LOG_HANG", "LOG_INF"}
  \/ s = "RUNNING" /\ e.sig \in {"LOG_EXIT", "LOG_LOSS"} /\ e.where # "nowhere"

\* The signals whose handler isolates a node through handle_runtime_fault.
Isolates(s, e) ==
  s = "RUNNING" /\ e.sig \in {"LOG_EXIT", "LOG_LOSS", "LOG_INF"} /\ e.where # "nowhere"

\* _to_recovering: nothing while a recovery is already under way.
ToRecovering(m) ==
  IF m.state = "RECOVERING" THEN m
  ELSE [state |-> "RECOVERING", phase |-> "stopping"]

\* _dispatch: the machine after a signal.
Dispatch(m, e) ==
  CASE WantsRecovery(m.state, e) -> ToRecovering(m)
    [] m.state \in {"STARTING", "RECOVERING"} /\ e.sig = "START_SUCCESS"
         -> [m EXCEPT !.state = "PENDING"]
    [] m.state = "RECOVERING" /\ e.sig = "STOP_SUCCESS"
         -> [m EXCEPT !.phase = "starting"]
    [] m.state = "PENDING" /\ e.sig = "LOG_RUNNING"
         -> [m EXCEPT !.state = "RUNNING"]
    [] OTHER -> m

\* The command the handler of the signal returns.
CommandOf(m, e) ==
  CASE WantsRecovery(m.state, e) /\ m.state # "RECOVERING" -> "STOP_TRAINING"
    [] m.state = "RECOVERING" /\ e.sig = "STOP_SUCCESS" -> "START_TRAINING"
    [] OTHER -> "NONE"

\* next_action: what a state does when no event is waiting.
NextAction(m) ==
  CASE m.state = "STARTING" -> "START_TRAINING"
    [] m.state = "RECOVERING" /\ m.phase = "stopping" -> "STOP_TRAINING"
    [] m.state = "RECOVERING" /\ m.phase = "starting" -> "START_TRAINING"
    [] OTHER -> "NONE"

\* RunStateManager.get_state: a file that is missing or does not parse (Unread), or
\* that was written with another configuration, is INIT, and a job that was running
\* has to show its log again.
Unread == "unreadable"

\* Variant: a running job is taken to be running still.
Bug_KeepsRunning(d, same) == IF d = Unread \/ ~ same THEN "INIT" ELSE d

LoadedState(d, same) ==
  CASE d = Unread \/ ~ same    -> "INIT"
    [] same /\ d = "RUNNING"   -> "PENDING"
    [] OTHER                   -> d

\* Variant: a start that was interrupted is simply started again.
Bug_ResumeStart(s) ==
  CASE s \in {"INIT", "STARTING"}   -> [state |-> "STARTING", phase |-> "none"]
    [] s \in {"PENDING", "RUNNING"} -> [state |-> s, phase |-> "none"]
    [] OTHER -> [state |-> "RECOVERING", phase |-> "stopping"]

\* init_state: where a controller that has just loaded s begins.
InitState(s) ==
  CASE s = "INIT" -> [state |-> "STARTING", phase |-> "none"]
    [] s \in {"PENDING", "RUNNING"} -> [state |-> s, phase |-> "none"]
    [] OTHER -> [state |-> "RECOVERING", phase |-> "stopping"]
=============================================================================
