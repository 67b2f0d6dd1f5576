---------------------------- MODULE FleetVerdict ----------------------------
(* What the records of all the nodes amount to (baremetal_cluster.py), the   *)
(* container inventory taken before the probe (cluster_run/preflight.py) and  *)
(* the verdicts on one ibstat or ib_write_bw command (cluster_checks.py).     *)
EXTENDS NodeVerdict

----------------------------------------------------------------------------
(* evaluate_container_inventory().  An inspection of a node is [answer,      *)
(* name, image, image_id, running]: `answer` is "none" (no result), "absent"  *)
(* (no such container), "failed", "invalid" or "metadata".                    *)

IsInspection(i) ==
    /\ i.answer \in {"none", "absent", "failed", "invalid", "metadata"}
    /\ i.name \in BOOLEAN /\ i.running \in BOOLEAN

Present(i) == i.answer = "metadata" /\ i.name

NodeIssues(i, expectedImage) ==
    CASE i.answer = "none" -> {"CONTAINER_INSPECT_MISSING"}
      [] i.answer = "absent" -> {"CONTAINER_MISSING"}
      [] i.answer = "failed" -> {"CONTAINER_INSPECT_FAILED"}
      [] i.answer = "invalid" -> {"CONTAINER_INSPECT_INVALID"}
      [] i.answer = "metadata" /\ ~i.name -> {"CONTAINER_NAME_MISMATCH"}
      [] Present(i) -> (IF i.running THEN {} ELSE {"CONTAINER_STOPPED"})
                       \cup (IF MissingOr(expectedImage, LAMBDA e : i.image = e) THEN {} ELSE {"CONTAINER_IMAGE_MISMATCH"})

\* Images are compared among the nodes that have the container; no node is the
\* baseline, so a difference rejects all of them (run_container_status()).
ImagesDiffer(inspected) ==
    \E n, m \in DOMAIN inspected :
        /\ Present(inspected[n]) /\ Present(inspected[m])
        /\ <<inspected[n].image, inspected[n].image_id>> # <<inspected[m].image, inspected[m].image_id>>

Issues(inspected, n, expectedImage) ==
    NodeIssues(inspected[n], expectedImage)
    \cup (IF ImagesDiffer(inspected) /\ Present(inspected[n]) THEN {"CONTAINER_IMAGE_INCONSISTENT"} ELSE {})

ReadyNodes(inspected, expectedImage) ==
    {n \in DOMAIN inspected : Issues(inspected, n, expectedImage) = {}}

KnownBad == {"CONTAINER_MISSING", "CONTAINER_STOPPED", "CONTAINER_NAME_MISMATCH",
             "CONTAINER_IMAGE_MISMATCH", "CONTAINER_IMAGE_INCONSISTENT"}

\* container_status_excluded_records(): a rejected node is reported, unprobed.
ExcludedRecord(inspected, n, expectedImage) ==
    LET issues == Issues(inspected, n, expectedImage)
        bad == issues \cap KnownBad # {}
    IN Record(IF bad THEN "BLOCKED" ELSE "INCOMPLETE",
              {Finding(IF bad THEN "FAIL" ELSE "UNKNOWN", i) : i \in issues},
              Present(inspected[n]) \/ inspected[n].answer \in {"absent", "invalid", "metadata"},
              {}, NoEnvironment)

----------------------------------------------------------------------------
(* _consistency_findings(): the static values of the reachable nodes.        *)

Usable(records) ==
    {n \in DOMAIN records : records[n].reachable /\ DOMAIN records[n].environment # {}}

ConsistencyFields(records, policy) ==
    (UNION {DOMAIN records[n].environment : n \in Usable(records)})
    \cup (IF "platform" \in policy.categories
          THEN {"driver_version", "rdma_current_protocol", "rdma_fabric_profile"} ELSE {})

\* A protocol that is not a definite one is evidence that is missing.
ValueIn(record, field) ==
    IF field \notin DOMAIN record.environment THEN {}
    ELSE IF field = "rdma_current_protocol"
         THEN record.environment[field] \cap {"NATIVE_INFINIBAND", "ROCE", "MIXED"}
         ELSE record.environment[field]

FieldFindings(records, field, policy) ==
    LET values == {ValueIn(records[n], field) : n \in Usable(records)}
        mandatory == field \in {"rdma_current_protocol", "rdma_fabric_profile"}
    IN Raise({} \in values, "UNKNOWN", "HARDWARE_EVIDENCE_MISSING")
       \cup Raise(Cardinality(values \ {{}}) > 1,
                  IF mandatory \/ policy.strict THEN "FAIL" ELSE "WARN", "HARDWARE_PROFILE_INCONSISTENT")

ConsistencyFindings(records, policy) ==
    IF Cardinality(Usable(records)) < 2 THEN {}
    ELSE UNION {FieldFindings(records, f, policy) : f \in ConsistencyFields(records, policy)}

----------------------------------------------------------------------------
(* build_baremetal_report() and _scale_assessment(). *)

StatusIn(records, status) == {n \in DOMAIN records : records[n].status = status}

\* The consistency findings weigh like the records.  A CANCELLED record is
\* neither BLOCKED nor INCOMPLETE here: the caller overrides the report then.
ReportStatus(records, policy) ==
    LET consistency == Severities(ConsistencyFindings(records, policy))
    IN CASE StatusIn(records, "BLOCKED") # {} \/ "FAIL" \in consistency -> "BLOCKED"
         [] OTHER -> IF StatusIn(records, "INCOMPLETE") # {} \/ "UNKNOWN" \in consistency
                     THEN "INCOMPLETE" ELSE "READY"

CheckedDevices(records) ==
    SumFunction([n \in {m \in DOMAIN records : Known(records[m].count)} |-> ValueOf(records[n].count)])

\* The scale is assessed from the records alone, without the consistency findings.
ScaleStatus(records, policy) ==
    IF StatusIn(records, "BLOCKED") # {} THEN "NOT_READY"
    ELSE IF StatusIn(records, "INCOMPLETE") # {} THEN "NOT_VERIFIED"
    ELSE IF policy.target_scale = {} THEN "SAMPLE_READY"
    ELSE IF CheckedDevices(records) < ValueOf(policy.target_scale) THEN "FULL_SCALE_UNVERIFIED"
    ELSE "FULL_SCALE_PASSED"

----------------------------------------------------------------------------
(* The extra checks.  A command's outcome is "ok" or what went wrong with it. *)

\* _set_record_status(): a later check never lowers BLOCKED or INCOMPLETE.
SetRecordStatus(status, check) ==
    CASE check = "CANCELLED" -> "CANCELLED"
      [] check = "FAIL" -> "BLOCKED"
      [] check = "NOT_VERIFIED" -> IF status = "READY" THEN "INCOMPLETE" ELSE status
      [] check = "PASS" -> status

AddCheckToRecord(record, check, reason) ==
    IF check = "PASS" THEN record
    ELSE [record EXCEPT !.status = SetRecordStatus(@, check),
                        !.findings = @ \cup {Finding(IF check = "FAIL" THEN "FAIL" ELSE "UNKNOWN", reason)}]

\* evaluate_ib_state_output(): ibstat = [hcas, ports]: the supported HCAs, and
\* for each port "up", "down" or "incomplete".
IbStateStatus(result, ibstat) ==
    IF result # "ok" THEN "NOT_VERIFIED"
    ELSE IF ibstat.hcas = {} \/ "down" \in ibstat.ports THEN "FAIL"
    ELSE IF "incomplete" \in ibstat.ports THEN "NOT_VERIFIED" ELSE "PASS"

\* evaluate_ib_write_bw_output(): a bandwidth row that is missing proves
\* nothing; with no minimum any measured value passes.
IbWriteBwStatus(result, average, minimum) ==
    IF result = "timeout" THEN "NOT_VERIFIED"
    ELSE IF result # "ok" THEN "FAIL"
    ELSE IF average = {} THEN "NOT_VERIFIED"
    ELSE IF \E a \in average, m \in minimum : a < m THEN "FAIL" ELSE "PASS"

\* _aggregate_status().
AggregateStatus(statuses) ==
    IF statuses = {} THEN "NOT_VERIFIED"
    ELSE IF "CANCELLED" \in statuses THEN "CANCELLED"
    ELSE IF "FAIL" \in statuses THEN "FAIL"
    ELSE IF "NOT_VERIFIED" \in statuses THEN "NOT_VERIFIED" ELSE "PASS"
============================================================================
