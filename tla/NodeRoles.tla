------------------------------ MODULE NodeRoles ------------------------------
(***************************************************************************)
(* What the node pool promises its users: every node has one role, roles   *)
(* change only as below, and a restart gives every node the role that was  *)
(* saved last.  An operation starts from roles that are saved, so a death  *)
(* costs one operation at most, unless it, or an error, tears the files:   *)
(* then nothing is known until the next save or, once the roles are gone   *)
(* from memory too, until the cluster is another one.                      *)
(* An isolated node has to be healed before it can be assigned; isolating  *)
(* a running node takes the whole allocation down with it.                 *)
(***************************************************************************)
CONSTANT Node

VARIABLES role, saved

Role == {"out", "backup", "running", "abnormal"}
Unknown == [n \in Node |-> "unknown"]

With(r) == {n \in Node : role[n] = r}
Moved(S, r) == [n \in Node |-> IF n \in S THEN r ELSE role[n]]

Init ==
  /\ role = Unknown
  /\ saved = [n \in Node |-> "out"]

\* The cluster is another one: everything known about nodes is dropped.
Replace(h) == role' = [n \in Node |-> IF n \in h THEN "backup" ELSE "out"]

Enrol(S) == role' = Moved(S, "backup")

Heal(S) == role' = Moved(S, "backup")

Assign(S) == role' = Moved(S, "running")

ReleaseAll == role' = Moved(With("running"), "backup")

Isolate(S) ==
  role' = [n \in Node |->
             IF n \in S THEN "abnormal"
             ELSE IF S \cap With("running") # {} /\ role[n] = "running" THEN "backup"
             ELSE role[n]]

Operation ==
  /\ role # Unknown
  /\ saved \in {role, Unknown}
  /\ saved' \in {saved, Unknown}
  /\ \/ ReleaseAll
     \/ \E S \in SUBSET With("backup") : Assign(S)
     \/ \E S \in SUBSET (With("backup") \cup With("running")) : Isolate(S)
     \/ \E S \in SUBSET With("abnormal") : Heal(S)
     \/ \E S \in SUBSET With("out") : Enrol(S)

Tear == saved' = Unknown /\ UNCHANGED role

Save == role # Unknown /\ saved' = role /\ UNCHANGED role

Die == role' = Unknown /\ saved' \in {saved, Unknown}

Restart == role = Unknown /\ saved # Unknown /\ role' = saved /\ UNCHANGED saved

Next ==
  \/ Tear
  \/ Die
  \/ Restart
  \/ Save
  \/ Operation
  \/ \E h \in SUBSET Node : Replace(h) /\ UNCHANGED saved

Spec == Init /\ [][Next]_<<role, saved>>
=============================================================================
