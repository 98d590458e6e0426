----------------------------- MODULE TaskStates -----------------------------
(***************************************************************************)
(* The states of importer records and importer tasks, and how the status   *)
(* of a task is calculated from the number of its records in each state    *)
(* (services/states.py and the tables at the top of services/tasks.py).    *)
(* Everything here is a constant-level operator: no state, no time.        *)
(***************************************************************************)
EXTENDS Naturals

(* The states have the strings of the code, or the name of the member of  *)
(* the Enum where the string has spaces in it.                            *)
ImporterRecordState ==
    { "created", "validating", "serializer_validation_failed",
      "validation_failed", "validated", "import_failed", "success" }

ImporterTaskState ==
    { "created", "validating", "validation_failed", "validated",
      "importing", "import_failed", "success", "damaged" }

(* States in which workers may still be using the records of the task. *)
RunningStates == { "validating", "importing" }

Phases == { "validate", "import" }

(* The absence of a phase: Python's None. *)
NoPhase == "none"

(* Record states that still await the work of a phase. *)
PendingRecordStates ==
    [ validate |-> {"created"}, import |-> {"validated"} ]

(* The status a task keeps while its records are pending in a phase. *)
RunningTaskStates ==
    [ validate |-> "validating", import |-> "importing" ]

(* The phase a running task is in, NoPhase when it is not running. *)
RunningTaskPhase(status) ==
    IF \E p \in Phases : RunningTaskStates[p] = status
    THEN CHOOSE p \in Phases : RunningTaskStates[p] = status
    ELSE NoPhase

(***************************************************************************)
(* Counts of records per state: what get_importer_record_info returns.     *)
(* A state no record is in counts zero, as state_count() reads it.         *)
(***************************************************************************)
Counts == [ImporterRecordState -> Nat]

TotalRecords(n) ==
    n["created"] + n["validating"] + n["serializer_validation_failed"]
      + n["validation_failed"] + n["validated"] + n["import_failed"]
      + n["success"]

(* Variant: created records are not looked at before the others. *)
CalculateWithoutCreated(n) ==
    IF TotalRecords(n) = 0 THEN "created"
    ELSE IF n["serializer_validation_failed"] > 0 \/ n["validation_failed"] > 0
         THEN "validation_failed"
    ELSE IF n["validated"] = TotalRecords(n) THEN "validated"
    ELSE IF n["validated"] > 0 /\ (n["import_failed"] > 0 \/ n["success"] > 0)
         THEN "importing"
    ELSE IF n["import_failed"] > 0 THEN "import_failed"
    ELSE IF n["success"] = TotalRecords(n) THEN "success"
    ELSE "damaged"

(* The early returns of calculate_task_state, in the order of the code. *)
CalculateTaskState(n) ==
    LET failedValidation ==
            \/ n["serializer_validation_failed"] > 0
            \/ n["validation_failed"] > 0
    IN  IF TotalRecords(n) = 0 THEN "created"
        ELSE IF n["created"] > 0
             THEN IF failedValidation \/ n["validated"] > 0
                  THEN "validating" ELSE "created"
        ELSE IF failedValidation THEN "validation_failed"
        ELSE IF n["validated"] = TotalRecords(n) THEN "validated"
        ELSE IF n["validated"] > 0 /\ (n["import_failed"] > 0 \/ n["success"] > 0)
             THEN "importing"
        ELSE IF n["validated"] = 0 /\ n["import_failed"] > 0
             THEN "import_failed"
        ELSE IF n["success"] = TotalRecords(n) THEN "success"
        ELSE "damaged"

HasPendingRecords(n, phase) ==
    \E s \in PendingRecordStates[phase] : n[s] > 0

(* Variant: the status is always the calculated one. *)
StatusIgnoringPhase(n, phase) == CalculateTaskState(n)

(* The status of a task whose run, if any, is in the given phase. *)
TaskStatusFromRecords(n, phase) ==
    IF phase \in Phases /\ HasPendingRecords(n, phase)
    THEN RunningTaskStates[phase]
    ELSE CalculateTaskState(n)
=============================================================================
