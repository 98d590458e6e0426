---------------------------- MODULE ImporterTask ----------------------------
(***************************************************************************)
(* One importer task: its user's HTTP calls, the Celery jobs they start    *)
(* and the database rows they share (services/tasks.py,                    *)
(* services/services.py, services/components.py).                          *)
(*                                                                         *)
(* A step is a database transaction, or a publish, of one process.  Jobs   *)
(* are told apart by the number of the accepted call that started them, so *)
(* a job's state is a function of that number (and of its record).         *)
(***************************************************************************)
EXTENDS TaskStates, FiniteSets

CONSTANTS
    N,          \* entries in the metadata file
    MaxCalls,   \* bound: accepted calls that start jobs
    MaxPolls,   \* BULK_IMPORTER_FINALIZE_MAX_POLLS
    UserCalls,  \* the calls the user makes
    Writes,     \* the statuses a client writes when it updates the task
    Faults      \* what may go wrong around the code

ASSUME NAssumption == N \in Nat
ASSUME MaxCallsAssumption == MaxCalls \in Nat
ASSUME MaxPollsAssumption == MaxPolls \in Nat
ASSUME UserCallsAssumption ==
    UserCalls \subseteq
        { "validate", "load", "status", "options", "upload", "run",
          "delete" }
ASSUME WritesAssumption == Writes \subseteq ImporterTaskState
(***************************************************************************)
(* read            the metadata file is missing or unreadable              *)
(* publish         a publish from a fan-out raises, the message is lost    *)
(* ambiguous       a publish from a fan-out raises, the message arrives    *)
(* publish_start   the publish after the commit of a start call raises     *)
(* publish_follow  a finaliser's own publish or retry is lost              *)
(* database        a best effort database access raises                    *)
(* post_commit     a hook that runs after a commit raises                  *)
(* job_crash       the worker of a record job dies                         *)
(* run_crash       the worker of a fan-out or of a finaliser dies          *)
(* slow            a record job outlasts the poll limit                    *)
(***************************************************************************)
ASSUME FaultsAssumption ==
    Faults \subseteq
        { "read", "publish", "ambiguous", "publish_start", "publish_follow",
          "database", "post_commit", "job_crash", "run_crash", "slow" }

Entry == 1..N
Call == 1..MaxCalls
Copy == 1..2

(* The record a validation run makes from an entry of the file. *)
RecordId == Call \X Entry

VARIABLES
    status,     \* the task's status, or that the task is deleted
    calls,      \* how many calls were accepted so far
    rec,        \* each record's status, or that it has no row
    linked,     \* records whose generated_record_id is set
    applied,    \* commits each record has made to the repository
    run,        \* the fan-out job of each call
    vjob,       \* the validation job of each record
    ijob,       \* the import job each call published for each record
    finalizer   \* the finaliser jobs of each call

vars == << status, calls, rec, linked, applied, run, vjob, ijob, finalizer >>

(* absent: not created yet; deleted: soft-deleted by a purge. *)
RowState == ImporterRecordState \cup { "absent", "deleted" }

RunState ==
    [ kind   : { "none", "validate", "load", "run" },
      pc     : { "none", "queued", "reading", "publishing", "settling",
                 "abandoning", "ended" },
      todo   : SUBSET RecordId,  \* ids listed and not yet published
      queued : BOOLEAN ]         \* whether a publish was attempted

JobState == { "none", "queued", "running", "skipping", "overtaken",
              "committed", "failed", "ended" }

FinalizerState ==
    [ pc      : { "none", "waiting", "refreshing", "overtaken",
                  "abandoning", "ended" },
      polls   : 0..MaxPolls,
      status  : ImporterTaskState,  \* the status it is about to write
      pending : BOOLEAN ]

TypeOK ==
    /\ status \in ImporterTaskState \cup { "deleted" }
    /\ calls \in 0..MaxCalls
    /\ rec \in [RecordId -> RowState]
    /\ linked \in SUBSET RecordId
    /\ applied \in [RecordId -> Nat]
    /\ run \in [Call -> RunState]
    /\ vjob \in [RecordId -> { "none", "queued", "running", "ended" }]
    /\ ijob \in [Call -> [RecordId -> JobState]]
    /\ finalizer \in [Call -> [Copy -> FinalizerState]]

NoRun == [kind |-> "none", pc |-> "none", todo |-> {}, queued |-> FALSE]
NoFinalizer == [pc |-> "none", polls |-> 0, status |-> "created", pending |-> FALSE]
EndedFinalizer == [NoFinalizer EXCEPT !.pc = "ended"]

Init ==
    /\ status = "created"
    /\ calls = 0
    /\ rec = [r \in RecordId |-> "absent"]
    /\ linked = {}
    /\ applied = [r \in RecordId |-> 0]
    /\ run = [c \in Call |-> NoRun]
    /\ vjob = [r \in RecordId |-> "none"]
    /\ ijob = [c \in Call |-> [r \in RecordId |-> "none"]]
    /\ finalizer = [c \in Call |-> [k \in Copy |-> NoFinalizer]]

-----------------------------------------------------------------------------
(* Rows.                                                                   *)

Live == { r \in RecordId : rec[r] \in ImporterRecordState }

(* Variant: a new validation adds to the records instead of replacing them. *)
PurgedNothing == rec

Purged == [r \in RecordId |-> IF r \in Live THEN "deleted" ELSE rec[r]]

RecordsStatus ==
    [s \in ImporterRecordState |-> Cardinality({r \in RecordId : rec[r] = s})]

(***************************************************************************)
(* Task rows carry a version.  A finaliser reads its row and writes it in  *)
(* one transaction, so any write in between makes its own one fail.        *)
(***************************************************************************)
Overtaken ==
    [c \in Call |-> [k \in Copy |->
        IF finalizer[c][k].pc = "refreshing"
        THEN [finalizer[c][k] EXCEPT !.pc = "overtaken"]
        ELSE finalizer[c][k]]]

(***************************************************************************)
(* The same for a record row, of which only an import job that skips its   *)
(* record writes what it read in the same transaction: the others commit   *)
(* or roll back in between, and then overwrite whatever they find.         *)
(***************************************************************************)
JobsOvertaken(r) ==
    [c \in Call |-> [q \in RecordId |->
        IF q = r /\ ijob[c][q] = "skipping" THEN "overtaken" ELSE ijob[c][q]]]

(* A publish may raise, and what raised may have been delivered. *)
Publish ==
    { [sent |-> TRUE, raised |-> FALSE] }
      \cup { [sent |-> FALSE, raised |-> TRUE] : f \in Faults \cap {"publish"} }
      \cup { [sent |-> TRUE, raised |-> TRUE] : f \in Faults \cap {"ambiguous"} }

(* Whether something goes wrong: only ever, if it is among the faults. *)
MayFail(fault) == { FALSE } \cup { TRUE : f \in Faults \cap {fault} }

JobSent(sent) == IF sent THEN "queued" ELSE "none"

FinalizerSent(sent) ==
    IF sent THEN [NoFinalizer EXCEPT !.pc = "waiting"] ELSE NoFinalizer

Phase(c) == IF run[c].kind = "load" THEN "import" ELSE "validate"

ImportJobActive(c, r) == ijob[c][r] \notin { "none", "ended" }

ImportsInFlight == \E c \in Call, r \in RecordId : ImportJobActive(c, r)

JobsInFlight ==
    \/ ImportsInFlight
    \/ \E r \in RecordId : vjob[r] \in { "queued", "running" }

(* The row of a deleted task stays, but nothing finds it any more. *)
Gone == status = "deleted"

(***************************************************************************)
(* An access to an importer record may raise.  One whose task is gone is   *)
(* related to a row that is not found: the library may refuse to write it. *)
(***************************************************************************)
MayRaise == "database" \in Faults \/ Gone

-----------------------------------------------------------------------------
(* The user's calls.                                                       *)

NewCall(name) ==
    /\ name \in UserCalls
    /\ calls < MaxCalls
    /\ calls' = calls + 1

(* A fan-out job is dispatched once the call has committed. *)
Dispatched(kind) ==
    \E lost \in MayFail("publish_start") :
        run' = [run EXCEPT ![calls + 1] =
                   [ NoRun EXCEPT !.kind = kind,
                                  !.pc = IF lost THEN "ended" ELSE "queued" ]]

(* Variant: only a running validation refuses another. *)
MayValidateWhileImporting == status # "validating"

MayValidate == status \notin RunningStates /\ ~ Gone

(* Variant: whatever is not running may be loaded. *)
MayLoadUnlessRunning == status \notin RunningStates

(* Moving off "validated" is also what stops a second load. *)
MayLoad == status = "validated"

(* Purges the records, with the task's write, in one unit of work. *)
StartValidation ==
    /\ NewCall("validate")
    /\ MayValidate
    /\ status' = "validating"
    /\ rec' = Purged
    /\ finalizer' = Overtaken
    /\ Dispatched("validate")
    /\ UNCHANGED << linked, applied, vjob, ijob >>

StartLoadingRecords ==
    /\ NewCall("load")
    /\ MayLoad
    /\ status' = "importing"
    /\ finalizer' = Overtaken
    /\ Dispatched("load")
    /\ UNCHANGED << rec, linked, applied, vjob, ijob >>

StatusUpdate ==
    /\ "status" \in UserCalls
    /\ ~ Gone
    /\ status' = TaskStatusFromRecords(RecordsStatus, RunningTaskPhase(status))
    /\ finalizer' = Overtaken
    /\ UNCHANGED << calls, rec, linked, applied, run, vjob, ijob >>

(* Rewrites the task's options: of all this, only its row's version moves. *)
OptionsUpdate ==
    /\ "options" \in UserCalls
    /\ ~ Gone
    /\ finalizer' = Overtaken
    /\ UNCHANGED << status, calls, rec, linked, applied, run, vjob, ijob >>

UpdateMetadataFile ==
    /\ "upload" \in UserCalls
    /\ ~ Gone
    /\ rec' = Purged
    /\ finalizer' = Overtaken
    /\ UNCHANGED << status, calls, linked, applied, run, vjob, ijob >>

(* The whole task is written, with the status its client has read, or set. *)
UpdateTask(s) ==
    /\ s \in Writes
    /\ ~ Gone
    /\ status' = s
    /\ finalizer' = Overtaken
    /\ UNCHANGED << calls, rec, linked, applied, run, vjob, ijob >>

(* Variant: deleting a task does not count as a write of its row. *)
DeleteTaskUnversioned ==
    /\ "delete" \in UserCalls
    /\ ~ Gone
    /\ status' = "deleted"
    /\ UNCHANGED << calls, rec, linked, applied, run, vjob, ijob, finalizer >>

(* Deletes the task whatever its status, and none of its records. *)
DeleteTask ==
    /\ "delete" \in UserCalls
    /\ ~ Gone
    /\ status' = "deleted"
    /\ finalizer' = Overtaken
    /\ UNCHANGED << calls, rec, linked, applied, run, vjob, ijob >>

(* One record on its own: no status is checked, and nothing is followed. *)
StartRun(r) ==
    /\ NewCall("run")
    /\ r \in Live
    /\ run' = [run EXCEPT ![calls + 1] =
                  [NoRun EXCEPT !.kind = "run", !.pc = "ended"]]
    /\ ijob' = [ijob EXCEPT ![calls + 1][r] = "queued"]
    /\ UNCHANGED << status, rec, linked, applied, vjob, finalizer >>

UserStep ==
    \/ StartValidation
    \/ StartLoadingRecords
    \/ StatusUpdate
    \/ OptionsUpdate
    \/ UpdateMetadataFile
    \/ \E s \in ImporterTaskState : UpdateTask(s)
    \/ DeleteTask
    \/ \E r \in RecordId : StartRun(r)

-----------------------------------------------------------------------------
(* valid_importer_file_data, the fan-out of a validation.                  *)

Reading(c) == run[c].kind = "validate" /\ run[c].pc = "reading"

(* Entries not read yet, and the next of them. *)
Unread(c) == { e \in Entry : rec[<<c, e>>] = "absent" }

OpenMetadataFile(c) ==
    /\ run[c].kind = "validate"
    /\ run[c].pc = "queued"
    /\ \/ ~ Gone /\ run' = [run EXCEPT ![c].pc = "reading"]
       \/ /\ "read" \in Faults \/ Gone
          /\ run' = [run EXCEPT ![c].pc = "abandoning"]
    /\ UNCHANGED << status, calls, rec, linked, applied, vjob, ijob, finalizer >>

(* Each record is committed before its validation is published. *)
CreateRecord(c, e) ==
    /\ Reading(c)
    /\ e \in Unread(c)
    /\ \A d \in Unread(c) : e <= d
    /\ rec' = [rec EXCEPT ![<<c, e>>] = "created"]
    /\ run' = [run EXCEPT ![c].pc = "publishing"]
    /\ UNCHANGED << status, calls, linked, applied, vjob, ijob, finalizer >>

PublishValidation(c, e) ==
    /\ run[c].kind = "validate"
    /\ run[c].pc = "publishing"
    /\ e \notin Unread(c)
    /\ \A d \in Entry : d > e => d \in Unread(c)
    /\ \E p \in Publish :
        /\ vjob' = [vjob EXCEPT ![<<c, e>>] = JobSent(p.sent)]
        /\ run' = [run EXCEPT ![c].pc = IF p.raised THEN "abandoning" ELSE "reading"]
    /\ UNCHANGED << status, calls, rec, linked, applied, ijob, finalizer >>

ReadFails(c) ==
    /\ "read" \in Faults \/ Gone
    /\ Reading(c)
    /\ run' = [run EXCEPT ![c].pc = "abandoning"]
    /\ UNCHANGED << status, calls, rec, linked, applied, vjob, ijob, finalizer >>

FollowValidation(c) ==
    /\ Reading(c)
    /\ Unread(c) = {}
    /\ \E p \in Publish :
        /\ finalizer' = [finalizer EXCEPT ![c][1] = FinalizerSent(p.sent)]
        /\ run' = [run EXCEPT ![c].pc = IF p.raised THEN "abandoning" ELSE "ended"]
    /\ UNCHANGED << status, calls, rec, linked, applied, vjob, ijob >>

(* Whatever the status is by now, it becomes damaged. *)
AbandonRun(c) ==
    /\ run[c].pc = "abandoning"
    /\ run' = [run EXCEPT ![c].pc = "ended"]
    /\ \/ ~ Gone /\ status' = "damaged" /\ finalizer' = Overtaken
       \/ MayRaise /\ UNCHANGED << status, finalizer >>
    /\ UNCHANGED << calls, rec, linked, applied, vjob, ijob >>

-----------------------------------------------------------------------------
(* run_transformed_records, the fan-out of an import.                      *)

Loading(c) == run[c].kind = "load" /\ run[c].pc = "publishing"

ListRecords(c) ==
    /\ run[c].kind = "load"
    /\ run[c].pc = "queued"
    /\ \/ ~ Gone /\ run' = [run EXCEPT ![c].pc = "publishing", ![c].todo = Live]
       \/ MayRaise /\ run' = [run EXCEPT ![c].pc = "settling"]
    /\ UNCHANGED << status, calls, rec, linked, applied, vjob, ijob, finalizer >>

(* Every record listed is queued, whatever its status. *)
PublishImport(c, r) ==
    /\ Loading(c)
    /\ r \in run[c].todo
    /\ \E p \in Publish :
        /\ ijob' = [ijob EXCEPT ![c][r] = JobSent(p.sent)]
        /\ run' = [run EXCEPT ![c].pc = IF p.raised THEN "settling" ELSE "publishing",
                              ![c].todo = run[c].todo \ {r},
                              ![c].queued = TRUE]
    /\ UNCHANGED << status, calls, rec, linked, applied, vjob, finalizer >>

FollowImport(c) ==
    /\ Loading(c)
    /\ run[c].todo = {}
    /\ \E p \in Publish :
        /\ finalizer' = [finalizer EXCEPT ![c][1] = FinalizerSent(p.sent)]
        /\ run' = [run EXCEPT ![c].pc = IF p.raised THEN "settling" ELSE "ended"]
    /\ UNCHANGED << status, calls, rec, linked, applied, vjob, ijob >>

(* Something was queued: the run is followed. *)
SettleByFollowing(c) ==
    /\ run[c].pc = "settling"
    /\ run[c].queued
    /\ \E lost \in MayFail("publish_follow") :
           finalizer' = [finalizer EXCEPT ![c][2] = FinalizerSent(~lost)]
    /\ run' = [run EXCEPT ![c].pc = "ended"]
    /\ UNCHANGED << status, calls, rec, linked, applied, vjob, ijob >>

(* Nothing was: the status is calculated once, and abandoned if that fails. *)
SettleByRefreshing(c) ==
    /\ run[c].pc = "settling"
    /\ ~ run[c].queued
    /\ \/ /\ ~ Gone
          /\ status' = TaskStatusFromRecords(RecordsStatus, NoPhase)
          /\ finalizer' = Overtaken
          /\ run' = [run EXCEPT ![c].pc = "ended"]
       \/ /\ MayRaise
          /\ run' = [run EXCEPT ![c].pc = "abandoning"]
          /\ UNCHANGED << status, finalizer >>
    /\ UNCHANGED << calls, rec, linked, applied, vjob, ijob >>

RunStep ==
    \E c \in Call :
        \/ OpenMetadataFile(c)
        \/ \E e \in Entry : CreateRecord(c, e)
        \/ \E e \in Entry : PublishValidation(c, e)
        \/ ReadFails(c)
        \/ FollowValidation(c)
        \/ AbandonRun(c)
        \/ ListRecords(c)
        \/ \E r \in RecordId : PublishImport(c, r)
        \/ FollowImport(c)
        \/ SettleByFollowing(c)
        \/ SettleByRefreshing(c)

-----------------------------------------------------------------------------
(* validate_serialized_data: one record's validation job.                  *)

(* A job whose record is gone fails and has nothing to mark. *)
BeginValidation(r) ==
    /\ vjob[r] = "queued"
    /\ r \in Live => ~ Gone
    /\ vjob' = [vjob EXCEPT ![r] = IF r \in Live THEN "running" ELSE "ended"]
    /\ UNCHANGED << status, calls, rec, linked, applied, run, ijob, finalizer >>

(* An exception ends in the verdict "validation_failed" of its handler. *)
Verdicts == { "serializer_validation_failed", "validation_failed", "validated" }

WriteRecord(r, s) ==
    /\ rec' = [rec EXCEPT ![r] = s]
    /\ ijob' = JobsOvertaken(r)

(* A job whose task is gone fails, and marks its record if it can. *)
FailValidation(r) ==
    /\ vjob[r] = "queued"
    /\ r \in Live
    /\ Gone
    /\ vjob' = [vjob EXCEPT ![r] = "ended"]
    /\ WriteRecord(r, "validation_failed") \/ UNCHANGED << rec, ijob >>
    /\ UNCHANGED << status, calls, linked, applied, run, finalizer >>

EndValidation(r) ==
    /\ vjob[r] = "running"
    /\ vjob' = [vjob EXCEPT ![r] = "ended"]
    /\ \/ r \in Live /\ \E v \in Verdicts : WriteRecord(r, v)
       \/ /\ r \notin Live \/ MayRaise
          /\ UNCHANGED << rec, ijob >>
    /\ UNCHANGED << status, calls, linked, applied, run, finalizer >>

ValidationStep ==
    \E r \in RecordId :
        BeginValidation(r) \/ FailValidation(r) \/ EndValidation(r)

-----------------------------------------------------------------------------
(* run_transformed_record: one record's import job.                        *)

JobMoves(c, r, s) == ijob' = [ijob EXCEPT ![c][r] = s]

(* Variant: the record is imported whatever its status. *)
BeginImportUnchecked(c, r) ==
    /\ ijob[c][r] = "queued"
    /\ JobMoves(c, r, IF r \in Live THEN "running" ELSE "ended")
    /\ UNCHANGED << status, calls, rec, linked, applied, run, vjob, finalizer >>

(***************************************************************************)
(* The job keeps the row it reads here; RDMRecord.run() decides on it.     *)
(* Without its task it raises, which ends as if it had been overtaken.     *)
(***************************************************************************)
BeginImport(c, r) ==
    /\ ijob[c][r] = "queued"
    /\ JobMoves(c, r, IF r \notin Live THEN "ended"
                      ELSE IF Gone THEN "overtaken"
                      ELSE IF rec[r] = "validated" THEN "running" ELSE "skipping")
    /\ UNCHANGED << status, calls, rec, linked, applied, run, vjob, finalizer >>

(* RDMRecord.run(): one unit of work, committed ... *)
CommitRun(c, r) ==
    /\ ijob[c][r] = "running"
    /\ applied' = [applied EXCEPT ![r] = @ + 1]
    /\ \E failed \in MayFail("post_commit") :
           JobMoves(c, r, IF failed THEN "failed" ELSE "committed")
    /\ UNCHANGED << status, calls, rec, linked, run, vjob, finalizer >>

(* Variant: what was done before the exception is committed. *)
RollbackRunKept(c, r) ==
    /\ ijob[c][r] = "running"
    /\ applied' = [applied EXCEPT ![r] = @ + 1]
    /\ JobMoves(c, r, "failed")
    /\ UNCHANGED << status, calls, rec, linked, run, vjob, finalizer >>

(* ... or rolled back. *)
RollbackRun(c, r) ==
    /\ ijob[c][r] = "running"
    /\ JobMoves(c, r, "failed")
    /\ UNCHANGED << status, calls, rec, linked, applied, run, vjob, finalizer >>

(* Variant: the row the job once read is written, deleted or not. *)
EndImportBlindly(c, r, s, link) ==
    /\ rec' = [rec EXCEPT ![r] = s]
    /\ linked' = link
    /\ ijob' = [JobsOvertaken(r) EXCEPT ![c][r] = "ended"]
    /\ UNCHANGED << status, calls, applied, run, vjob, finalizer >>

(* What the job makes of its record, unless that is gone by now. *)
EndImport(c, r, s, link) ==
    /\ rec' = IF r \in Live THEN [rec EXCEPT ![r] = s] ELSE rec
    /\ linked' = IF r \in Live THEN link ELSE linked
    /\ ijob' = IF r \in Live THEN [JobsOvertaken(r) EXCEPT ![c][r] = "ended"]
                             ELSE [ijob EXCEPT ![c][r] = "ended"]
    /\ UNCHANGED << status, calls, applied, run, vjob, finalizer >>

(* The write itself may raise; the handler then marks the record failed. *)
RecordSuccess(c, r) ==
    /\ ijob[c][r] = "committed"
    /\ \/ EndImport(c, r, "success", linked \cup {r})
       \/ MayRaise /\ EndImport(c, r, "import_failed", linked)

RecordFailure(c, r) ==
    /\ ijob[c][r] = "failed"
    /\ EndImport(c, r, "import_failed", linked \ {r})

(* Variant: the id the record was validated with is kept as its result. *)
RecordSkipLinked(c, r) ==
    /\ ijob[c][r] = "skipping"
    /\ EndImport(c, r, "success", linked \cup {r})

(* run() returned None without an error, which reads as a success. *)
RecordSkip(c, r) ==
    /\ ijob[c][r] = "skipping"
    /\ EndImport(c, r, "success", linked \ {r})

RecordOvertaken(c, r) ==
    /\ ijob[c][r] = "overtaken"
    /\ EndImport(c, r, "import_failed", linked)

(* Neither the result nor the failure could be written. *)
RecordNothing(c, r) ==
    /\ MayRaise
    /\ ijob[c][r] \in { "committed", "failed", "skipping", "overtaken" }
    /\ JobMoves(c, r, "ended")
    /\ UNCHANGED << status, calls, rec, linked, applied, run, vjob, finalizer >>

ImportStep ==
    \E c \in Call, r \in RecordId :
        \/ BeginImport(c, r)
        \/ CommitRun(c, r)
        \/ RollbackRun(c, r)
        \/ RecordSuccess(c, r)
        \/ RecordFailure(c, r)
        \/ RecordSkip(c, r)
        \/ RecordOvertaken(c, r)
        \/ RecordNothing(c, r)

-----------------------------------------------------------------------------
(* finalize_importer_task: following a run.                                *)

(***************************************************************************)
(* Unless jobs may be slow, the poll limit is long enough for every job:   *)
(* the last poll comes when none is in flight.                             *)
(***************************************************************************)
Timely(c, k) ==
    finalizer[c][k].polls < MaxPolls \/ "slow" \in Faults \/ ~ JobsInFlight

ReadRecords(c, k) ==
    /\ finalizer[c][k].pc = "waiting"
    /\ Timely(c, k)
    /\ finalizer' = [finalizer EXCEPT ![c][k] =
            [@ EXCEPT !.pc = IF Gone THEN "overtaken" ELSE "refreshing",
                      !.status = TaskStatusFromRecords(RecordsStatus, Phase(c)),
                      !.pending = HasPendingRecords(RecordsStatus, Phase(c))]]
    /\ UNCHANGED << status, calls, rec, linked, applied, run, vjob, ijob >>

(* Variants: the poll limit is not checked; or it only ends the following. *)
RescheduleForever(f, lost) ==
    IF ~ f.pending \/ lost THEN EndedFinalizer
    ELSE [NoFinalizer EXCEPT !.pc = "waiting", !.polls = f.polls + 1]

RescheduleWithoutEnding(f, lost) ==
    IF ~ f.pending \/ lost \/ f.polls >= MaxPolls THEN EndedFinalizer
    ELSE [NoFinalizer EXCEPT !.pc = "waiting", !.polls = f.polls + 1]

(* What becomes of a finaliser once it has refreshed the task. *)
Reschedule(f, lost) ==
    IF ~ f.pending THEN EndedFinalizer
    ELSE IF f.polls >= MaxPolls THEN [NoFinalizer EXCEPT !.pc = "abandoning"]
    ELSE IF lost THEN EndedFinalizer
    ELSE [NoFinalizer EXCEPT !.pc = "waiting", !.polls = f.polls + 1]

WriteStatus(c, k) ==
    /\ finalizer[c][k].pc = "refreshing"
    /\ status' = finalizer[c][k].status
    /\ \E lost \in MayFail("publish_follow") :
           finalizer' =
               [Overtaken EXCEPT ![c][k] = Reschedule(finalizer[c][k], lost)]
    /\ UNCHANGED << calls, rec, linked, applied, run, vjob, ijob >>

(* Its row was written meanwhile, or is gone: the refresh raises, and is not retried. *)
RefreshFails(c, k) ==
    /\ finalizer[c][k].pc = "overtaken"
    /\ finalizer' = [finalizer EXCEPT ![c][k] = EndedFinalizer]
    /\ UNCHANGED << status, calls, rec, linked, applied, run, vjob, ijob >>

(* The poll limit is exceeded. *)
GiveUp(c, k) ==
    /\ finalizer[c][k].pc = "abandoning"
    /\ LET ended(f) == [f EXCEPT ![c][k] = EndedFinalizer]
       IN  \/ ~ Gone /\ status' = "damaged" /\ finalizer' = ended(Overtaken)
           \/ /\ MayRaise
              /\ finalizer' = ended(finalizer)
              /\ UNCHANGED status
    /\ UNCHANGED << calls, rec, linked, applied, run, vjob, ijob >>

FinalizerStep ==
    \E c \in Call, k \in Copy :
        \/ ReadRecords(c, k)
        \/ WriteStatus(c, k)
        \/ RefreshFails(c, k)
        \/ GiveUp(c, k)

-----------------------------------------------------------------------------
(* Workers that die.  Jobs are acknowledged when they start, so the job of *)
(* a dead worker is not delivered again.                                   *)

CrashRun(c) ==
    /\ "run_crash" \in Faults
    /\ run[c].pc \notin { "none", "ended" }
    /\ run' = [run EXCEPT ![c].pc = "ended"]
    /\ UNCHANGED << status, calls, rec, linked, applied, vjob, ijob, finalizer >>

CrashFinalizer(c, k) ==
    /\ "run_crash" \in Faults
    /\ finalizer[c][k].pc \notin { "none", "ended" }
    /\ finalizer' = [finalizer EXCEPT ![c][k] = EndedFinalizer]
    /\ UNCHANGED << status, calls, rec, linked, applied, run, vjob, ijob >>

CrashValidation(r) ==
    /\ "job_crash" \in Faults
    /\ vjob[r] \in { "queued", "running" }
    /\ vjob' = [vjob EXCEPT ![r] = "ended"]
    /\ UNCHANGED << status, calls, rec, linked, applied, run, ijob, finalizer >>

CrashImport(c, r) ==
    /\ "job_crash" \in Faults
    /\ ImportJobActive(c, r)
    /\ JobMoves(c, r, "ended")
    /\ UNCHANGED << status, calls, rec, linked, applied, run, vjob, finalizer >>

Crash ==
    \/ \E c \in Call : CrashRun(c)
    \/ \E c \in Call, k \in Copy : CrashFinalizer(c, k)
    \/ \E r \in RecordId : CrashValidation(r)
    \/ \E c \in Call, r \in RecordId : CrashImport(c, r)

-----------------------------------------------------------------------------

SystemStep == RunStep \/ ValidationStep \/ ImportStep \/ FinalizerStep

Next == UserStep \/ SystemStep \/ Crash

Spec == Init /\ [][Next]_vars

(* Workers keep taking steps; no user has to call, nothing has to fail. *)
FairSpec == Spec /\ WF_vars(SystemStep)
=============================================================================
