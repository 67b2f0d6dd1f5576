------------------------------ MODULE TaskLedger ------------------------------
(***************************************************************************)
(* What facts.json promises its readers, per group and phase of a run: a   *)
(* row is planned, then RUNNING, then closed for good; a phase of a group  *)
(* is started only while none before it is open or was closed with its     *)
(* cleanup in doubt, and only a group that passed its preflight (phase 0)  *)
(* is tested; PASS is never said of a task whose cleanup is in doubt.      *)
(***************************************************************************)
EXTENDS Naturals

CONSTANTS Group, Phase

VARIABLE row

Status == {"PASS", "FAIL", "TIMEOUT", "CANCELLED"}
Row == [st : {"planned", "RUNNING", "BLOCKED"} \cup Status, clean : BOOLEAN]

Planned == [st |-> "planned", clean |-> FALSE]
Running == [st |-> "RUNNING", clean |-> FALSE]
Blocked == [st |-> "BLOCKED", clean |-> FALSE]

Closed(r) == r.st \in Status

LedgerInit == row = [g \in Group |-> [p \in Phase |-> Planned]]

Start(g, p) ==
  /\ row[g][p] = Planned
  /\ \A q \in Phase : q < p => row[g][q] = Planned \/ (Closed(row[g][q]) /\ row[g][q].clean)
  /\ p > 0 => row[g][0].st = "PASS"
  /\ row' = [row EXCEPT ![g][p] = Running]

Close(g, p) ==
  /\ row[g][p] = Running
  /\ \E r \in Row :
       /\ Closed(r) /\ (r.st = "PASS" => r.clean)
       /\ row' = [row EXCEPT ![g][p] = r]

Block(g, p) ==
  /\ row[g][p] = Planned
  /\ row' = [row EXCEPT ![g][p] = Blocked]

LedgerNext == \E g \in Group, p \in Phase : Start(g, p) \/ Close(g, p) \/ Block(g, p)

LedgerSpec == LedgerInit /\ [][LedgerNext]_row
================================================================================
