------------------------------- MODULE NodePool -------------------------------
(***************************************************************************)
(* The node pool of cluster_manager: five node lists in memory, one text   *)
(* file per list, and the process that owns them.                          *)
(*                                                                         *)
(* Every public method of NodePool runs under one lock.  An operation      *)
(* changes the lists and validates them in one step; the five files are    *)
(* then written one after the other, each emptied by open("w") before it   *)
(* is filled, with the lock still held.  An open or a write may fail,      *)
(* which the code logs and forgets, and the process may die at every step  *)
(* (Crash).  It is constructed again from the hostfile and whatever the    *)
(* files hold (Construct).                                                 *)
(***************************************************************************)
EXTENDS PoolOps, Sequences

CONSTANT MaxMishap       \* failed writes and deaths inside a write

ASSUME MishapNat == MaxMishap \in Nat

VARIABLES pc,       \* "up" or "down": is the controller process alive
          pool,     \* the lists in memory; EmptyPool when down
          disk,     \* total, running, backup, abnormal, normal: the .txt files
          at,       \* the file being written, an index of Order; 0: none
          opened,   \* that file has been emptied and not yet filled
          host,     \* the hostfile the pool is constructed from
          succ,     \* succ_additional_nodes.txt
          pending,  \* added to total, not yet appended to succ (proxy lock held)
          known,    \* history: the hostfile is the first one, and succ has all
                    \* the nodes that were added to total
          aborted,  \* the last construction ended in sys.exit(1)
          cut,      \* history: the files are no snapshot of good lists, because
                    \* a write of them is under way, failed or was cut short
          mixed,    \* history: the lists were read from files that were cut
          mishaps

persist == <<disk, at, opened>>
history == <<cut, mixed, mishaps>>
vars == <<pc, pool, persist, host, succ, pending, known, aborted, history>>

Order == <<"total", "running", "backup", "abnormal", "normal">>
File == {"total", "running", "backup", "abnormal", "normal"}

\* Variant: the backup file receives the normal list.
Bug_SwappedFile(p) == [f \in File |-> IF f = "backup" THEN p.normal ELSE p[f]]

Image(p) == [f \in File |-> p[f]]
Hostfile == (SUBSET Node) \ {{}}

TypeOK ==
  /\ pc \in {"up", "down"}
  /\ pool \in Pool
  /\ disk \in [File -> SUBSET Node]
  /\ at \in 0..5
  /\ opened \in BOOLEAN
  /\ host \in Hostfile
  /\ succ \in SUBSET Node
  /\ pending \in SUBSET Node
  /\ known \in BOOLEAN
  /\ aborted \in BOOLEAN
  /\ cut \in BOOLEAN
  /\ mixed \in BOOLEAN
  /\ mishaps \in 0..MaxMishap

Init ==
  /\ pc = "down"
  /\ pool = EmptyPool
  /\ disk = Image(EmptyPool)
  /\ at = 0
  /\ opened = FALSE
  /\ host \in Hostfile
  /\ succ = {}
  /\ pending = {}
  /\ known = TRUE
  /\ aborted = FALSE
  /\ cut = FALSE
  /\ mixed = FALSE
  /\ mishaps = 0

Mishap == mishaps < MaxMishap /\ mishaps' = mishaps + 1

-----------------------------------------------------------------------------
(***************************************************************************)
(* _persist_all_nodes, file by file.                                       *)
(***************************************************************************)

\* What a write that is cut short may leave: some of the names, the last one
\* perhaps cut in the middle and read as another name.
Remains(list) ==
  {S \in SUBSET Node : \/ S \subseteq list
                       \/ \E n \in Node \ list : S \ {n} \subseteq list /\ S \ {n} # list}

NextFile ==
  /\ at' = (at + 1) % 6
  /\ opened' = FALSE
  /\ cut' = IF at = 5 THEN mixed \/ disk' # Image(pool) ELSE TRUE

OpenFile ==
  /\ at > 0
  /\ ~ opened
  /\ disk' = [disk EXCEPT ![Order[at]] = {}]
  /\ opened' = TRUE
  /\ cut' = TRUE
  /\ UNCHANGED <<pc, pool, at, host, succ, pending, known, aborted, mixed, mishaps>>

FillFile ==
  /\ at > 0
  /\ opened
  /\ disk' = [disk EXCEPT ![Order[at]] = Image(pool)[Order[at]]]
  /\ NextFile
  /\ UNCHANGED <<pc, pool, host, succ, pending, known, aborted, mixed, mishaps>>

\* An OSError of open leaves the file as it was, one of write leaves it in part;
\* either way it is logged and the next file is written.
FileFails ==
  /\ at > 0
  /\ Mishap
  /\ IF opened THEN \E S \in Remains(pool[Order[at]]) : disk' = [disk EXCEPT ![Order[at]] = S]
     ELSE UNCHANGED disk
  /\ NextFile
  /\ UNCHANGED <<pc, pool, host, succ, pending, known, aborted, mixed>>

-----------------------------------------------------------------------------
(***************************************************************************)
(* NodePool.__init__: compare the hostfile with total_nodes.txt, restore   *)
(* or start afresh, validate, persist.                                     *)
(***************************************************************************)
Restored(total) ==
  [total |-> total, running |-> disk["running"], backup |-> disk["backup"],
   abnormal |-> disk["abnormal"], normal |-> disk["normal"], last |-> {}]

\* Variant: the added nodes are forgotten at restart.
Bug_HostfileOnly == host = disk["total"]

Recognised == host = disk["total"] \/ host \cup succ = disk["total"]

Restores == disk["total"] # {} /\ Recognised

Loaded == IF Restores THEN Restored(disk["total"]) ELSE FreshPool(host, {})

Construct ==
  /\ pc = "down"
  /\ IF Validates(Loaded)
     THEN /\ pc' = "up"
          /\ pool' = Clipped(Loaded)
          /\ at' = 1
          /\ mixed' = (Restores /\ cut)
          /\ known' = (known /\ (Restores \/ succ = {}))
          /\ aborted' = FALSE
     ELSE /\ aborted' = TRUE
          /\ UNCHANGED <<pc, pool, at, mixed, known>>
  /\ UNCHANGED <<disk, opened, host, succ, pending, cut, mishaps>>

\* The operator rewrites the hostfile while the controller is stopped.
EditHostfile ==
  /\ pc = "down"
  /\ \E h \in Hostfile \ {host} : host' = h
  /\ known' = FALSE
  /\ UNCHANGED <<pc, pool, persist, succ, pending, aborted, history>>

-----------------------------------------------------------------------------
(***************************************************************************)
(* The operations.  The monitor's proxy holds its own lock over            *)
(* add_total_nodes and the append that follows it, so nothing else runs    *)
(* while pending is not empty, but the process may be killed.              *)
(***************************************************************************)
Ready == pc = "up" /\ at = 0 /\ pending = {}

\* The lists have been changed, and clipped, when validation raises; the files
\* are written only if it does not.
Change(p) ==
  /\ pool' = Clipped(p)
  /\ at' = IF Validates(p) THEN 1 ELSE 0
  /\ UNCHANGED <<disk, opened, cut, mishaps>>

\* sbatch granted a new set of nodes: slurm_manager rewrote the hostfile and
\* _resubmit_job resets the pool to it, with no abnormal node.
Reset(h) ==
  /\ Change(FreshPool(h, {}))
  /\ mixed' = FALSE
  /\ host' = h
  /\ known' = FALSE
  /\ UNCHANGED <<pc, succ, pending, aborted>>

AddTotal(S) ==
  /\ S \ pool.total # {}
  /\ Change(WithTotal(pool, S))
  /\ IF Validates(WithTotal(pool, S))
     THEN pending' = S \ pool.total /\ UNCHANGED known
     ELSE known' = FALSE /\ UNCHANGED pending
  /\ UNCHANGED <<pc, host, succ, aborted, mixed>>

\* A failed append is logged like a failed write of a list.
AppendSucc ==
  /\ pc = "up"
  /\ at = 0
  /\ pending # {}
  /\ pending' = {}
  /\ \/ succ' = succ \cup pending /\ UNCHANGED <<known, mishaps>>
     \/ /\ Mishap
        /\ \E part \in (SUBSET pending) \ {pending} : succ' = succ \cup part
        /\ known' = FALSE
  /\ UNCHANGED <<pc, pool, persist, host, aborted, cut, mixed>>

AddNormal(S) ==
  /\ S \subseteq pool.total
  /\ S \cap pool.abnormal # {}
  /\ Change(WithNormal(pool, S))
  /\ UNCHANGED <<pc, host, succ, pending, known, aborted, mixed>>

\* The whole batch is refused when one node of it is unknown or abnormal.
AddAbnormal(S) ==
  /\ S # {}
  /\ S \subseteq pool.total
  /\ S \cap pool.abnormal = {}
  /\ Change(WithAbnormal(pool, S))
  /\ UNCHANGED <<pc, host, succ, pending, known, aborted, mixed>>

\* The slots file is written between the validation and the five files; a
\* failure of it is raised, and the five files are then behind the lists.
Allocate(S) ==
  \/ Change(WithRunning(pool, S))
  \/ /\ Validates(WithRunning(pool, S))
     /\ pool' = Clipped(WithRunning(pool, S))
     /\ Mishap
     /\ cut' = TRUE
     /\ UNCHANGED persist

Apply(n, grade) ==
  /\ \E S \in Allocations(pool, grade, n) : Allocate(S)
  /\ UNCHANGED <<pc, host, succ, pending, known, aborted, mixed>>

\* The only operation that does not validate.
Release ==
  /\ pool.running # {}
  /\ pool' = Released(pool)
  /\ at' = 1
  /\ UNCHANGED <<pc, disk, opened, host, succ, pending, known, aborted, history>>

\* Public methods that nothing in the repository calls.
ApplyList(T, grade) ==
  /\ T # {}
  /\ \E S \in ListAllocations(pool, grade, T) : Allocate(S)
  /\ UNCHANGED <<pc, host, succ, pending, known, aborted, mixed>>

RemoveAbnormal(S, target) ==
  /\ S \subseteq pool.total
  /\ S \cap pool.abnormal # {}
  /\ pool' = Clipped(WithoutAbnormal(pool, S, target))
  /\ UNCHANGED <<pc, persist, host, succ, pending, known, aborted, history>>

-----------------------------------------------------------------------------
\* Death of the process, also inside a write and between add_total_nodes and the
\* append to succ_additional_nodes.txt.
Crash ==
  /\ pc = "up"
  /\ IF opened \/ at > 1 THEN Mishap ELSE UNCHANGED mishaps
  /\ IF opened THEN \E S \in Remains(pool[Order[at]]) : disk' = [disk EXCEPT ![Order[at]] = S]
     ELSE UNCHANGED disk
  /\ pc' = "down"
  /\ pool' = EmptyPool
  /\ at' = 0
  /\ opened' = FALSE
  /\ pending' = {}
  /\ known' = (known /\ pending = {})
  /\ mixed' = FALSE
  /\ UNCHANGED <<host, succ, aborted, cut>>

Operation ==
  \/ \E h \in Hostfile : Reset(h)
  \/ \E S \in SUBSET Node : AddTotal(S) \/ AddNormal(S) \/ AddAbnormal(S)
  \/ \E n \in 1..Cardinality(Node), grade \in [pool.backup -> Grade] : Apply(n, grade)
  \/ Release

Next ==
  \/ Construct
  \/ OpenFile
  \/ FillFile
  \/ FileFails
  \/ EditHostfile
  \/ Ready /\ Operation
  \/ AppendSucc
  \/ Crash

Spec == Init /\ [][Next]_vars

\* With the two methods nothing calls.
InterfaceOperation ==
  \/ \E T \in SUBSET Node, grade \in [pool.backup -> Grade] : ApplyList(T, grade)
  \/ \E S \in SUBSET Node, target \in {"backup", "running"} : RemoveAbnormal(S, target)

InterfaceNext == Next \/ (Ready /\ InterfaceOperation)

InterfaceSpec == Init /\ [][InterfaceNext]_vars

-----------------------------------------------------------------------------
(***************************************************************************)
(* Every node of total is in exactly one of running, backup and abnormal,  *)
(* and no other node is in any of them: rule 2 of the class, for the lists *)
(* in memory, whatever happens to the files while the process lives.  Only *)
(* lists that a start read from files that were cut may break it.          *)
(***************************************************************************)
Partition == ~ mixed => IsPartition(pool)

\* A start exits because of the pool's own files only when the last write of
\* them failed in part or was cut short by a death; every other death, also
\* between the change of the lists and the first open, leaves files that load.
AbortsOnlyTorn == aborted => cut

\* An isolated node is never listed as normal, in the lists and in whole files:
\* normal_nodes.txt is the target list of the stop command.
NormalExcludesAbnormal ==
  /\ ~ mixed => pool.normal \subseteq pool.total \ pool.abnormal
  /\ ~ cut => disk["normal"] \cap disk["abnormal"] = {}

(***************************************************************************)
(* What apply_node_num_resources promises, whatever the blacklist says and *)
(* whichever mode it is in: with enough usable backup nodes it returns     *)
(* exactly n of them, none fatal, and a degraded one only when the clean   *)
(* backup nodes are fewer than n; with too few it allocates nothing.       *)
(***************************************************************************)
AllocationContract ==
  at = 0 => \A grade \in [pool.backup -> Grade], n \in 1..Cardinality(Node) :
    LET choice == Allocations(pool, grade, n)
    IN  /\ (choice # {}) <=> (n <= Cardinality(Usable(pool, grade)))
        /\ \A S \in choice :
             /\ S \subseteq Usable(pool, grade)
             /\ Cardinality(S) = n
             /\ S \cap Degraded(pool, grade) # {}
                  => Cardinality(Healthy(pool, grade)) < n

(***************************************************************************)
(* A restarted controller finds the nodes it was running on and the nodes  *)
(* it had isolated: with files whose last write came to its end, a         *)
(* hostfile nobody rewrote, and expansions that were all recorded in succ. *)
(* Adding nodes while it runs does not cost the running state.             *)
(***************************************************************************)
KeepsAssignment ==
  pool'.running = disk["running"] /\ pool'.abnormal = disk["abnormal"]

RestartKeepsAssignment ==
  [][pc = "down" /\ pc' = "up" /\ known /\ ~ cut => KeepsAssignment]_vars

(***************************************************************************)
(* The lists and the files are an implementation of NodeRoles: role is     *)
(* what the lists say, saved what the next start will find.  Neither is    *)
(* known where the files were cut, until all of it is replaced.            *)
(***************************************************************************)
RoleIn(lists, n) ==
  IF n \in lists["running"] THEN "running"
  ELSE IF n \in lists["backup"] THEN "backup"
  ELSE IF n \in lists["abnormal"] THEN "abnormal"
  ELSE "out"

RoleNow(n) == IF pc = "up" /\ ~ mixed THEN RoleIn(Image(pool), n) ELSE "unknown"
RoleSaved(n) == IF cut THEN "unknown" ELSE RoleIn(disk, n)

Roles == INSTANCE NodeRoles WITH role <- [n \in Node |-> RoleNow(n)],
                                 saved <- [n \in Node |-> RoleSaved(n)]
RolesSpec == Roles!Spec
=============================================================================
