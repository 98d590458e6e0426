---------------------------- MODULE ValidatedRun -----------------------------
(***************************************************************************)
(* Importer records one after the other on one repository record: each is  *)
(* submitted, validated by validate_serialized_data and run by             *)
(* run_transformed_record (services/tasks.py), which take what they need   *)
(* from the importer record and from the task as it is by then.            *)
(*                                                                         *)
(* RecordRun is the run; what differs here is where its job comes from,    *)
(* and that its calls meet files and payloads as they are at that time.    *)
(***************************************************************************)
EXTENDS RecordRun

CONSTANTS
    UnknownCommunity,       \* names a row can use for no community
    RestrictedCommunity,
    Role,                   \* groups that exist
    CommunityRequired,      \* RDM_COMMUNITY_REQUIRED_TO_PUBLISH
    SubmittedRow,       \* the rows a file can have
    MaxRecords          \* bound: importer records

INSTANCE RecordValidation

ASSUME CommunityAssumption ==
    /\ RestrictedCommunity \subseteq Community
    /\ UnknownCommunity \cap Community = {}
    /\ CommunityRequired \in BOOLEAN

ASSUME MaxRecordsAssumption == MaxRecords \in Nat

ASSUME SubmittedRowAssumption == SubmittedRow \subseteq Row(File)

VARIABLES
    task,           \* mode and options of the task, groups of the site
    reachable,      \* files that can be read now
    row,            \* source data of the importer record
    rec,            \* the rest of the importer record
    unrecorded,     \* whether its last run that committed did not write so
    records         \* importer records so far

checkVars == << task, reachable, row, rec, unrecorded, records >>

allVars == << vars, checkVars >>

Task ==
    [ mode : { "import", "delete" }, publish : BOOLEAN, groups : SUBSET Group ]

RecordStatus ==
    { "none", "created", "serializer_validation_failed", "validation_failed",
      "validated", "success", "import_failed" }

(* DEFAULT_IMPORTER_RECORD_DICT, before and after the record is created.   *)
NewRec(s) ==
    [ status |-> s, checked |-> "import", errors |-> {}, existing |-> FALSE,
      files |-> {}, communities |-> {}, data |-> "none" ]

NoRow ==
    [ readable |-> FALSE, id |-> FALSE, reason |-> FALSE, files |-> {},
      communities |-> {}, access |-> {}, sound |-> FALSE ]

AllErrors ==
    { "missing_id", "serializer_error", "serialized_record_not_provided",
      "existing_record_not_found", "file_not_found", "file_not_accessible",
      "community_not_provided", "community_not_found", "invalid_access_restriction",
      "validation_error", "pre_commit_validation_error", "access_group_not_found",
      "record_creation_error", "record_update_error", "record_deletion_error",
      "access_grant_error", "file_add_error", "record_add_error",
      "unexpected_error" }

RecordTypeOK ==
    /\ task \in Task
    /\ reachable \subseteq File
    /\ row \in Row(File)
    /\ rec \in [ status : RecordStatus, checked : { "import", "delete" },
                 errors : SUBSET AllErrors, existing : BOOLEAN,
                 files : SUBSET File, communities : SUBSET Community,
                 data : { "none", "record", "reason" } ]
    /\ unrecorded \in BOOLEAN
    /\ records \in 0..MaxRecords

ValidatedInit ==
    /\ Init
    /\ task \in Task
    /\ reachable = File
    /\ row = NoRow
    /\ rec = NewRec("none")
    /\ unrecorded = FALSE
    /\ records = 0

-----------------------------------------------------------------------------
(* The user and the world.                                                 *)

(***************************************************************************)
(* A row without an id makes a repository record of its own: it is this    *)
(* one as long as there is none.                                           *)
(***************************************************************************)
Submit(w) ==
    /\ records < MaxRecords
    /\ rec.status \in { "none", "success", "import_failed" }
    /\ pc = "idle"
    /\ w.id \/ repo.state = "absent"
    /\ row' = w
    /\ rec' = NewRec("created")
    /\ unrecorded' = FALSE
    /\ records' = records + 1
    /\ UNCHANGED << vars, task, reachable >>

(* An update of the task: its mode and options are not those of its runs.  *)
UpdateTask ==
    /\ rec.status = "validated"
    /\ \E m \in { "import", "delete" }, p \in BOOLEAN :
           task' = [task EXCEPT !.mode = m, !.publish = p]
    /\ UNCHANGED << vars, reachable, row, rec, unrecorded, records >>

(* A file that the row names is taken away from where it was.              *)
LoseFile(f) ==
    /\ f \in reachable \cap row.files
    /\ reachable' = reachable \ {f}
    /\ UNCHANGED << vars, task, row, rec, unrecorded, records >>

-----------------------------------------------------------------------------
(* validate_serialized_data.                                               *)

(* What an earlier validation wrote of files and communities stays.        *)
RefusedBySerializer(errs) ==
    [rec EXCEPT !.status = "serializer_validation_failed", !.errors = errs,
                !.data = "none"]

(* Variant: the payload of a deletion is the whole row. *)
CheckedKeepingPayload(mode, errs) ==
    [ status      |-> IF errs = {} THEN "validated" ELSE "validation_failed",
      checked     |-> mode,
      errors      |-> errs,
      existing    |-> row.id,
      files       |-> FilesAccessible(row.files, reachable),
      communities |-> CommunityIds(row.communities),
      data        |-> IF row.sound THEN "record" ELSE "none" ]

Checked(mode, errs) ==
    [ status      |-> IF errs = {} THEN "validated" ELSE "validation_failed",
      checked     |-> mode,
      errors      |-> errs,
      existing    |-> row.id,
      files       |-> IF mode = "import" THEN FilesAccessible(row.files, reachable)
                      ELSE {},
      communities |-> IF mode = "import" THEN CommunityIds(row.communities) ELSE {},
      data        |-> IF mode = "delete" THEN IF row.reason THEN "reason" ELSE "none"
                      ELSE IF row.sound THEN "record" ELSE "none" ]

Validate ==
    /\ rec.status = "created"
    /\ LET refused == SerializerErrors(row, task.mode)
           errs == ValidationErrors(row, task.mode, repo.state, reachable, task.groups)
       IN  rec' = IF refused # {} THEN RefusedBySerializer(refused)
                  ELSE Checked(task.mode, errs)
    /\ UNCHANGED << vars, task, reachable, row, unrecorded, records >>

-----------------------------------------------------------------------------
(* run_transformed_record.                                                 *)

(* The mode and the options are the task's, as they are now.               *)
JobOf ==
    [ mode        |-> task.mode,
      validated   |-> rec.status = "validated",
      existing    |-> rec.existing,
      files       |-> rec.files,
      communities |-> rec.communities,
      restricted  |-> rec.data = "record" /\ IsRestricted(row),
      groups      |-> task.groups,
      publish     |-> task.publish ]

(* Any record may be run, by start_run; run() is for validated ones only.  *)
Run ==
    /\ rec.status # "none"
    /\ Begin(JobOf)
    /\ rec' = IF JobOf.validated THEN rec
              ELSE [rec EXCEPT !.status = "success", !.errors = {}]
    /\ UNCHANGED << task, reachable, row, unrecorded, records >>

(* What is published as an update has to be a record's payload.            *)
PayloadAccepted == job.existing => rec.data = "record"

RunCall ==
    /\ \/ CreateRecord
       \/ UpdateRecord
       \/ DeleteRecord
       \/ GrantRestrictedAccess
       \/ InitFiles
       \/ \E f \in reachable : AddFile(f)
       \/ \E c \in Community : AddToCommunity(c)
       \/ PayloadAccepted /\ PublishRecord
    /\ UNCHANGED checkVars

(* The importer record is written in a transaction after this one.         *)
RunCommits ==
    /\ Commit
    /\ unrecorded' = TRUE
    /\ UNCHANGED << task, reachable, row, rec, records >>

EndRun(s, reported) ==
    /\ rec' = [rec EXCEPT !.status = s, !.errors = reported]
    /\ UNCHANGED << task, reachable, row, records >>

RunSucceeds ==
    /\ Return
    /\ EndRun("success", {})
    /\ unrecorded' = FALSE

RunFails ==
    /\ Fail \/ PostCommitFails
    /\ EndRun("import_failed", errors')
    /\ UNCHANGED unrecorded

(* _mark_record_failed: the outcome could not be written.                  *)
OutcomeIsLost ==
    /\ Return \/ Fail \/ PostCommitFails
    /\ EndRun("import_failed", rec.errors \cup { "unexpected_error" })
    /\ UNCHANGED unrecorded

(* The importer record stays as it is, to be run again: the worker died,   *)
(* or the failure could not be written either.                             *)
RunDies ==
    /\ Crash
    /\ UNCHANGED checkVars

RunGoesOn == RunCall \/ RunCommits \/ RunSucceeds

ValidatedNext ==
    \/ \E w \in SubmittedRow : Submit(w)
    \/ UpdateTask
    \/ \E f \in File : LoseFile(f)
    \/ Validate
    \/ Run
    \/ RunGoesOn
    \/ RunFails
    \/ OutcomeIsLost
    \/ RunDies

ValidatedSpec == ValidatedInit /\ [][ValidatedNext]_allVars

-----------------------------------------------------------------------------

(***************************************************************************)
(* A validated record names the repository record if and only if there is  *)
(* one, so that its run neither creates it a second time nor updates       *)
(* nothing; unless the record was run before, and the worker died between  *)
(* the commit and the write of the outcome.                                *)
(***************************************************************************)
ValidatedNamesExisting ==
    rec.status = "validated" =>
        /\ rec.existing => repo.state # "absent"
        /\ repo.state # "absent" => rec.existing \/ unrecorded

(***************************************************************************)
(* An importer record makes a second repository record only when it is run *)
(* again after a run whose commit was not written to it.                   *)
(***************************************************************************)
NoSecondRecord ==
    [][repo'.number # repo.number /\ repo.state # "absent" => unrecorded]_allVars

(***************************************************************************)
(* Nothing of a validated row is dropped on the way: the run adds every    *)
(* file and submits to every community the row names.                      *)
(***************************************************************************)
ValidatedIsComplete ==
    rec.status = "validated" /\ rec.checked = "import" =>
        /\ rec.files = row.files
        /\ rec.communities = row.communities

(* What the next call of a run needs of what it works on.                  *)
CallAccepted ==
    /\ pc = "begin" => IF job.mode = "delete" THEN DeletionAccepted
                       ELSE job.existing => UpdateAccepted
    /\ pc = "grant" => ~ Refused
    /\ pc = "init_files" => KeysDiffer(left)
    /\ pc = "add_file" => left # {} /\ left \subseteq reachable
    /\ pc = "publish" => IF left = {} THEN PayloadAccepted ELSE ~ job.existing

(***************************************************************************)
(* Unless a service fails for reasons of its own, a record that was        *)
(* validated in the mode it is run in goes through, on a new or a          *)
(* published record: no call refuses what validation accepted, or what an  *)
(* earlier call or run left behind (a group that already has a grant, the  *)
(* files of the last version).  Files may have been lost since, and two of *)
(* them may have the same key.                                             *)
(***************************************************************************)
NothingIsRefused ==
    /\ pc # "idle"
    /\ job.mode = rec.checked
    /\ repo.state \in { "absent", "published" }
    /\ job.files \subseteq reachable /\ KeysDiffer(job.files)
    => CallAccepted

(***************************************************************************)
(* No public record gets into a restricted community by an import, nor     *)
(* does a restricted one without the site's groups.                        *)
(***************************************************************************)
RestrictionsHold ==
    [][repo' # repo /\ job.mode = "import" =>
           /\ "record" \in row.access \/
                  repo'.communities \cap RestrictedCommunity \subseteq
                      IF repo'.number = repo.number THEN repo.communities ELSE {}
           /\ IsRestricted(row) => job.groups \subseteq repo'.grants \cap Role]_allVars

(***************************************************************************)
(* Nothing is imported that was not validated as an import.                *)
(***************************************************************************)
ImportsWereChecked ==
    [][repo' # repo /\ job.mode = "import" => rec.checked = "import"]_allVars

(***************************************************************************)
(* A row that names a published record is all a deletion needs.            *)
(***************************************************************************)
DeletionNeedsOnlyAnId ==
    [][Validate /\ task.mode = "delete" /\ row.id /\ repo.state = "published"
           => rec'.status = "validated"]_allVars
=============================================================================
