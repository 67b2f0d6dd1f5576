--------------------------- MODULE CheckFindings ---------------------------
(* What every evaluator of hcu-envcheck is built from: a finding (a severity *)
(* and a reason), the status a set of findings amounts to, and a value the   *)
(* probe may have left out (Python's None is the empty set here).            *)
EXTENDS Integers, FiniteSets, SequencesExt

Finding(severity, reason) == [severity |-> severity, reason_code |-> reason]

\* The finding `reason` when `cond` holds, and nothing otherwise.
Raise(cond, severity, reason) ==
    IF cond THEN {Finding(severity, reason)} ELSE {}

Severities(findings) == {f.severity : f \in findings}

\* any(FAIL) -> BLOCKED, any(UNKNOWN) -> INCOMPLETE, else READY: a warning
\* never changes the status.
StatusOf(findings) ==
    CASE "FAIL" \in Severities(findings) -> "BLOCKED"
      [] "FAIL" \notin Severities(findings) /\ "UNKNOWN" \in Severities(findings) -> "INCOMPLETE"
      [] OTHER -> "READY"

\* max(statuses, key = order): FAIL hides nothing, UNKNOWN hides WARN and PASS.
StatusOrder == <<"PASS", "WARN", "UNKNOWN", "FAIL">>

Worst(statuses) ==
    IF statuses = {} THEN "UNKNOWN"
    ELSE CHOOSE s \in statuses :
           \A t \in statuses : \E i, j \in 1 .. 4 : StatusOrder[i] = t /\ StatusOrder[j] = s /\ i <= j

\* `strict` turns a failed or missing check into a FAIL or an UNKNOWN; without
\* it the same check only warns.
Exposed(status, strict) ==
    IF status \in {"FAIL", "UNKNOWN"} /\ ~strict THEN "WARN" ELSE status

\* add_check(): a check that passed or does not apply is no finding.
AddCheck(status, reason) ==
    Raise(status \notin {"PASS", "NOT_APPLICABLE"}, status, reason)

Known(opt) == opt # {}
ValueOf(opt) == CHOOSE v \in opt : TRUE
MissingOr(opt, Test(_)) == opt = {} \/ Test(ValueOf(opt))
KnownAnd(opt, Test(_)) == opt # {} /\ Test(ValueOf(opt))
============================================================================
