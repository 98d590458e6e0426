---------------------------- MODULE TaskProgress ----------------------------
(***************************************************************************)
(* How the counts of a task's records move, one record at a time, and what *)
(* calculate_task_state makes of every mix of states they pass through.    *)
(***************************************************************************)
EXTENDS TaskStates

CONSTANT MaxRecords     \* bound: records of the task
ASSUME MaxRecordsAssumption == MaxRecords \in Nat

VARIABLE counts         \* how many records are in each state

TypeOK == counts \in Counts

Init == counts = [s \in ImporterRecordState |-> 0]

(* The fan-out of a validation creates a record. *)
Create ==
    /\ TotalRecords(counts) < MaxRecords
    /\ counts' = [counts EXCEPT !["created"] = @ + 1]

(* Variant: a job ends twice. *)
MoveTwice(from, to) ==
    counts' = [counts EXCEPT ![from] = @ - 1, ![to] = @ + 1]

Move(from, to) ==
    /\ counts[from] > 0
    /\ counts' = [counts EXCEPT ![from] = @ - 1, ![to] = @ + 1]

(* A validation job ends. *)
Validate ==
    \E to \in { "serializer_validation_failed", "validation_failed", "validated" } :
        Move("created", to)

(***************************************************************************)
(* An import job ends.  Those of a load are for validated records, which   *)
(* start_run does not ask for: whatever state a record is in, it may be    *)
(* run, while others have still to be validated.                           *)
(***************************************************************************)
Import ==
    \E from \in ImporterRecordState, to \in { "import_failed", "success" } : Move(from, to)

Next == Create \/ Validate \/ Import

Spec == Init /\ [][Next]_counts

-----------------------------------------------------------------------------

Status == CalculateTaskState(counts)

(***************************************************************************)
(* Calculation never falls through to its last line: "damaged" is only     *)
(* ever the verdict of a run that was abandoned.                           *)
(***************************************************************************)
NeverDamaged == Status # "damaged"

(***************************************************************************)
(* A settled status says of every record what its name says: all of them   *)
(* passed validation, all were imported, or all were decided.              *)
(***************************************************************************)
AllIn(states) == \A s \in ImporterRecordState \ states : counts[s] = 0

StatusDescribesRecords ==
    /\ Status = "validated" <=> AllIn({"validated"}) /\ counts["validated"] > 0
    /\ Status = "success" <=> AllIn({"success"}) /\ counts["success"] > 0
    /\ Status = "import_failed" <=>
           AllIn({"success", "import_failed"}) /\ counts["import_failed"] > 0
    /\ Status = "importing" => counts["validated"] > 0

(***************************************************************************)
(* The status only moves forward while records make progress: a task never *)
(* looks less advanced because one more of its jobs ended.  This is so for *)
(* the jobs of a validation and of a load, which has every record decided. *)
(* A single run among records still to be validated can break it: of two   *)
(* records, one "created" and one whose run fails, the status goes from    *)
(* "validating" back to "created".                                         *)
(***************************************************************************)
Rank(s) ==
    CASE s = "created" -> 0
      [] s = "validating" -> 1
      [] s \in { "validated", "validation_failed" } -> 2
      [] s = "importing" -> 3
      [] s \in { "success", "import_failed" } -> 4
      [] OTHER -> 5

ProgressIsForward ==
    [][Validate \/ (Import /\ counts["created"] = 0)
           => Rank(Status) <= Rank(Status')]_counts
=============================================================================
