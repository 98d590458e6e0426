----------------------- MODULE ImporterTaskProperties -----------------------
(***************************************************************************)
(* What an importer task promises: to the user who watches its status, to  *)
(* the repository its records are applied to, and to the next call made    *)
(* on it.                                                                  *)
(***************************************************************************)
EXTENDS ImporterTask

RunActive(c) == run[c].pc \notin { "none", "ended" }

FinalizerActive(c, k) == finalizer[c][k].pc \notin { "none", "ended" }

(* The rows are those of one validation run, one for each entry. *)
IsWholeFile == \E c \in Call : Live = {c} \X Entry

(***************************************************************************)
(* No import job is in flight unless the task says it is importing: this   *)
(* is what the guards of start_validation and start_loading_records rely   *)
(* on to keep a purge or a second load away from workers.                  *)
(***************************************************************************)
ImportsOnlyWhileImporting == ImportsInFlight => status = "importing"

(***************************************************************************)
(* A task that reads as settled has nothing of its run left: no fan-out,   *)
(* no finaliser that could still overwrite the status, and no job on any   *)
(* of its records.  Damaged tasks are the ones whose run was abandoned.    *)
(***************************************************************************)
SettledIsQuiet ==
    status \notin RunningStates \cup {"damaged"} =>
        /\ \A c \in Call : ~ RunActive(c)
        /\ \A c \in Call, k \in Copy : ~ FinalizerActive(c, k)
        /\ \A r \in Live : vjob[r] \notin { "queued", "running" }
        /\ ~ ImportsInFlight

(***************************************************************************)
(* A task that reads as validated, so may be loaded, stands for its whole  *)
(* file: every entry has exactly one record, and that is validated.        *)
(***************************************************************************)
ValidatedIsWhole ==
    status = "validated" =>
        IsWholeFile /\ \A r \in Live : rec[r] = "validated"

(***************************************************************************)
(* A task that reads as a success applied every entry of its file to the   *)
(* repository exactly once, and knows the repository record of each.       *)
(***************************************************************************)
SuccessIsExact ==
    status = "success" =>
        /\ IsWholeFile
        /\ \A r \in Live :
               rec[r] = "success" /\ applied[r] = 1 /\ r \in linked

(***************************************************************************)
(* No record is applied to the repository twice, whatever jobs were lost,  *)
(* late or left behind by earlier runs.                                    *)
(***************************************************************************)
AppliedAtMostOnce == \A r \in RecordId : applied[r] <= 1

(***************************************************************************)
(* A record's outcome is what happened to the repository: a success was    *)
(* applied and is linked, a failure left nothing behind.                   *)
(***************************************************************************)
OutcomeIsTrue ==
    \A r \in Live :
        /\ rec[r] = "success" => applied[r] > 0 /\ r \in linked
        /\ rec[r] = "import_failed" => applied[r] = 0

(***************************************************************************)
(* Whatever the user calls and whatever fails: nothing reaches the         *)
(* repository before its validation has ended, and a generated id names a  *)
(* repository record that was really made.                                 *)
(***************************************************************************)
OnlyValidatedIsApplied ==
    \A r \in RecordId : applied[r] > 0 => vjob[r] = "ended"

LinkedWasApplied == \A r \in linked : applied[r] > 0

(***************************************************************************)
(* A job that was late never brings back a record that a purge deleted.    *)
(***************************************************************************)
PurgedStaysPurged ==
    [][\A r \in RecordId : rec[r] = "deleted" => rec'[r] = "deleted"]_vars

(***************************************************************************)
(* A deletion is final whatever of the task's runs is left: nothing writes *)
(* a status over it, and no job that begins later changes the repository.  *)
(***************************************************************************)
DeletedStaysDeleted ==
    [][status = "deleted" =>
           /\ status' = "deleted"
           /\ \A c \in Call, r \in RecordId :
                  ijob'[c][r] = "running" => ijob[c][r] = "running"]_vars

(***************************************************************************)
(* No purge takes a record away from the job that is importing it, which   *)
(* would leave its repository record without any trace in the task.        *)
(***************************************************************************)
PurgeSparesImports ==
    [][\A r \in Live : rec'[r] = "deleted" =>
           \A c \in Call : ~ ImportJobActive(c, r)]_vars

(***************************************************************************)
(* Only a new validation takes a task out of damaged.                      *)
(***************************************************************************)
DamagedIsTerminal ==
    [][status = "damaged" => status' \in { "damaged", "validating" }]_vars

(***************************************************************************)
(* Jobs, messages, refreshes and faults together make no other move of the *)
(* task, its records or the repository than the abstract task makes.       *)
(***************************************************************************)
Lifecycle ==
    INSTANCE TaskLifecycle
        WITH Record <- RecordId, current <- Live

ImplementsLifecycle == Lifecycle!Spec

(***************************************************************************)
(* Every run ends: a task does not stay on a status that reads as "still   *)
(* working" and refuses every call.                                        *)
(***************************************************************************)
RunsEnd == status \in RunningStates ~> status \notin RunningStates
=============================================================================
