# invenio-bulk-importer in TLA+

A model of the bulk importer: an importer *task* reads an uploaded metadata
file, makes one importer *record* of each entry, validates the records, and
imports them into an Invenio RDM repository. HTTP calls start the work, Celery
jobs do it, and they meet in rows of one database. What is hard about it is not
any of the steps but their order: nothing locks a task, jobs are many and late,
and the status of the task, which guards every call, is calculated from the
rows while they change.

## The system

| Component | State | Operations | Correct when |
|---|---|---|---|
| status calculation (`services/states.py`, tables of `services/tasks.py`) | none | `calculate_task_state`, `task_status_from_records` | a status says of all the records what its name says; the jobs of a validation or a load never move it backward |
| importer task runs (`services/tasks.py`, `services/services.py`, `services/components.py`, `records/api.py`) | task row (status, counts, version), importer records (status, generated id), the Celery queue | `start_validation`, `start_loading_records`, `status_update`, `options_update`, `update_metadata_file`, `start_run`, update and deletion of the task; the jobs `valid_importer_file_data`, `validate_serialized_data`, `run_transformed_records`, `run_transformed_record`, `finalize_importer_task` and their failure handlers | runs do not mix; no record is imported twice, unvalidated, or lost; every run ends |
| running one record (`record_types/rdm.py`) | a unit of work on the repository | `RDMRecord.run` and the service calls below it | applied whole or not at all, and reported as such |
| validating one record (`record_types/base.py`, `rdm.py`, `uow.py`) | errors, files and communities found | `RDMRecord.validate` | what passes can be run, and is run as it was checked |
| record groups (`records/api.py`) | group id and position of a record | `get_record_groups` | the groups of the file come back from single records, in order |
| metadata files of a task (`services/services.py`) | one file `metadata.<ext>` | upload, read, delete | the records are those of the file uploaded last |
| CSV serializer and export (`serializers/records/csv.py`, `csv_export.py`, `utils.py`) | none | row to payload, record to row | what was exported is imported as it was |
| ONIX 3 serializer (`serializers/records/onix3/`) | none | `load_groups`, `transform` | a product is a group, linked both ways, and nobody and no file is lost |
| REST resources, schemas, permissions, configuration, models, migrations, administration, glue | none of their own | one service call per view; those that change what jobs look at are user actions of `ImporterTask` and `ImportFile` | - |

How they interact: a view calls a service method, which changes rows in one unit
of work and registers a job to be published after the commit. The two fan-out
jobs (one per run) create or list the importer records, publish one job for
each and then a *finaliser*, which recalculates the task's status every 15
seconds until no record is pending, up to a poll limit. Record jobs write their
record's row; `run_transformed_record` changes the repository in between.

The hard behaviours, listed line by line as hazards in `PROJECT.json`: calls
between any two steps of the jobs; publishes that raise, or that raise and are
delivered; workers that die (jobs are acknowledged when they start, so they are
not delivered again); jobs slower than the poll limit; database accesses that
fail; rows read in one transaction and written in another; the task's mode,
options, files and groups, which are looked at when a record is validated and
again when it is run; a file that is replaced, or read in part.

## Modules

| Module | What it is |
|---|---|
| `TaskStates` | states and the status calculation, as constant-level operators |
| `TaskProgress`, `TaskProgress_proofs` | the counts of records of a task moving one record at a time; theorems |
| `ImporterTask` | one task: calls, jobs, rows, faults |
| `ImporterTaskProperties` | what it promises |
| `TaskLifecycle` | the abstract task, an abstraction of this project: no jobs, messages or faults |
| `MCImporterTask` | instances of `ImporterTask` for TLC |
| `ImporterTask_proofs`, `OneRun_proofs`, `TaskResults_proofs` | its types, and what holds whatever is called; only one run of a task is alive; what the status says of records and repository, and that the task implements `TaskLifecycle` |
| `RecordRun` | `RDMRecord.run()`, call by call |
| `AtomicRun` | the abstract run: all or nothing |
| `RecordValidation` | the checks of `RDMRecord.validate()`, as sets of errors |
| `ValidatedRun`, `ValidatedRun_proofs` | records submitted, validated and run on one repository record: `RecordRun` with its inputs made by `RecordValidation`; theorems about both |
| `MCValidatedRun` | its rows for TLC |
| `Lists` | lists that are sorted or selected by place |
| `OnixRecords`, `OnixRecords_proofs` | the ONIX 3 serializer, as operators; lemmas about what they return |
| `CsvRows`, `CsvRows_proofs` | the CSV serializer and the export, as operators; lemmas about what one reads of what the other writes |
| `ImportFile`, `ImportFile_proofs` | the metadata file, the job that makes records of it, and their groups; theorems |
| `MCImportFile` | its messages and exported files for TLC |

They compose in two places. `ValidatedRun` extends `RecordRun` and instantiates
`RecordValidation`; `ImportFile` extends `OnixRecords` and `CsvRows`. The
task (`ImporterTask`) sees of a record only what its jobs see of it: whether the
verdict was good, whether the run committed, whether the answer arrived.

### ImporterTask

Each accepted call that starts jobs has a number, `calls`; a job is known by
that number and, for record jobs, by its record. A record is the pair of the
validation run that created it and its entry in the file, so records of
different runs are never confused and a purge marks rows as deleted rather than
forgetting them.

| Variable | Code |
|---|---|
| `status` | the task row's `status`, or that the task is deleted |
| `rec` | each importer record's `status`, `absent` before the row exists, `deleted` after a purge |
| `linked` | whether `generated_record_id` is set |
| `applied` | how often the record's `run()` committed to the repository |
| `run` | `valid_importer_file_data` or `run_transformed_records` of each call: where it is, what it has left to publish |
| `vjob`, `ijob` | `validate_serialized_data` and `run_transformed_record` jobs |
| `finalizer` | `finalize_importer_task` jobs; two copies, because `_settle_failed_import` may publish a second one |

An action is one transaction or one publish. Where the code reads and writes a
row in one transaction (a refresh of the status), the model has two steps,
because rows carry a version: a write by somebody else in between makes the
second step fail (`overtaken`). Record jobs read their row and write it after
the unit of work of `run()` has ended, so their writes are blind; the exception
is a job that skips its record, which has opened no unit of work.

A task can be written whole by its own update call (`UpdateTask`), with the
status its client read before or any other: `Writes` says which. It can be deleted
at any time (`DeleteTask`), which leaves its records and its jobs where they are.
A deleted task (`Gone`) is found by nobody: calls are refused, fan-outs and
finalisers end, and a record job raises, after which its handler may or may not
be allowed to mark the record, whose task it cannot resolve either (`MayRaise`).

What goes wrong is a constant, `Faults`: a run chooses the set, and every fault
has its own disjunct in the action it strikes. `Faults = {}` still leaves every
interleaving.

The variants in the module (a comment starts with "Variant:") are the code with
one plausible mistake; they are used to see that a property notices it.

### RecordRun and ValidatedRun

One repository record and up to `MaxRuns` runs on it. A step is one call of a
service with the unit of work; `Fail` is any of them raising, with the errors
that the handlers around it report (a failing grant is reported by three
handlers), `Crash` a worker that dies. Only the commit changes `repo`, and it is a
step of its own: `uow.commit()` runs the post-commit operations of the unit of work
after the transaction, inside the `try` of `run()`, so one that raises
(`PostCommitFails`) leaves the record changed and `run()` without a result. `before`
is the record as the run found it, for the properties. `repo` is the last record
made, and `repo.number` tells one that is made anew (`AnotherRecord`) from one that is
changed. Files,
communities and groups are sets: their order in the code does not show in the
result. A file has a key, the last segment of its path, and a draft takes a key
only once.

`AtomicRun` gives the result of a whole run in one expression, `Applied`, that
the steps must add up to. The acceptance into a community is what publishes a
new record; a new record without a community stays a draft (see the run
`unpublished`).

In `RecordRun` alone a run may be of any job. `ValidatedRun` says where jobs come
from, with one importer record at a time:

| Variable | Code |
|---|---|
| `task` | mode and options of the task row, and the groups of the site's configuration |
| `reachable` | the files that can be read now |
| `row` | `src_data` of the importer record, reduced to what the checks look at |
| `rec` | the rest of it: status, errors, `existing_record_id`, `validated_record_files`, `community_uuids`, `transformed_data` |
| `unrecorded` | history: whether the last run of the record that committed did not write so |

`Validate` is the job `validate_serialized_data` in one step. That loses
nothing: the draft made by its last check is rolled back with its unit of work,
so nobody sees it half done. `JobOf` is what `run_transformed_record` passes to
`run()`: mode and options are read from the task *then*, everything else from the
importer record. Between the two, `UpdateTask` and `LoseFile` change the world.
A record that is not validated may be run as well (`start_run` does not look),
and a run that died leaves its record to be run again. The importer record is
written in a transaction after that of the run: what `run()` returned is written
(`RunSucceeds`, `RunFails`), or the write fails and `_mark_record_failed` writes
instead (`OutcomeIsLost`), or nothing is written because the worker died first, be it
before the commit or after it (`RunDies`). In the last case the record still says
`validated` and names no repository record though there is one; run again, it makes
a second. `unrecorded` marks it, and `NoSecondRecord` says that there is no other way.

`ValidatedRun` is a refinement of `RecordRun` by proof (`ValidatedRunIsRun`), so
`RecordRun`'s theorems are about it too.

### ImportFile

`bucket` holds the files of the task by the extension of their names, `reader` is
the job `valid_importer_file_data`, and `records` are the importer records by
their ids, which are drawn at random. The job reads one group at a time and
creates its records one by one, so a purge by an upload or a new validation falls
between any two of them.

What a file *is* depends on the serializer. For ONIX it is a sequence of products
and whether the message breaks off; `LoadGroup` makes of a product the entries of
a group, with the chapters' links to the book as intents. `OnixPayload` is
`transform` of one entry, which sees nothing of its group but what the entry
carries. For CSV it is the rows that `ExportFile` writes for some records, so that
the import of an export is one behaviour of the module.

A CSV cell is a sequence of lines, and a line a sequence of its parts between
semicolons, because that is what both sides take cells apart into; a column is
its name split at the dots. `ProcessGroupedFields` pairs the lines of columns by
their place, `LoadAffiliations` the parts of two lines.

## Runs

All task runs have two entries in the file (one in `any_calls`), so that runs can be
in the middle of a file, and one to three calls; three are enough for validate,
load, validate. `MaxPolls` is 1, so finalisers do reschedule. `any_calls` makes
every call there is, so it is kept small otherwise: no polls after the first, no
faults, and a client that writes `validated`, the one status that opens a guard. Its
four properties are proved for any constants, faults and writes included. With the
poll limit reached and no job `slow`, the last poll waits for the jobs (`Timely`):
in the code it comes after two hours, and the run `slow` drops the assumption.

`record_run` has two importer records and two runs, so that the second finds a
repository record, with files, grants and communities that the first left; two
files with one key, one of them local; a community of each kind (open,
restricted, unknown); a group that exists and one that does not. In
`import_file` the first upload is any of the messages and export files of
`MCImportFile`, and the two after it are one small file of each format
(`Replacement`): what follows a replacement does not depend on which file came
first. Three ids are enough for every file, since each makes at most three
records. `Extension` includes `None`, a name without one. `UploadsWhileReading` is
FALSE because the property it would break is about that very race (see below).

| Run | Shows |
|---|---|
| `progress_counts` | the status describes the records, for all mixes of four records, and the jobs of a validation or a load never move it backward |
| `safety` | validate, load and options at any time, with all faults but ambiguous publishes and slow jobs: guards and finaliser keep runs apart; what the status says is true; purges spare imports; the instance implements `TaskLifecycle` |
| `slow` | jobs that outlast the poll limit: a damaged task may still be imported, yet nothing is applied twice, outcomes are true, and every run ends |
| `any_calls` | adding status refreshes, uploads, single runs, updates and deletions of the task: only validated records are applied, ids name real records, purged records stay purged, a deleted task stays deleted and none of its jobs begins an import |
| `record_run` | records are validated and run while the task, the files and the repository change: a run is all or nothing and says which, does what was validated and no more, makes no record twice, and is not refused for what an earlier one left |
| `import_file` | the records are those of the latest file, in its groups, linked both ways, with everybody and every file of it; what was exported comes back as it was |

`status_update`, `update_metadata_file`, `start_run`, and updates and deletions of
the task break several of the properties; they are left out of `safety` and `slow`.
Six runs end with a counterexample:

| Run | What the code does |
|---|---|
| `status_before_finaliser` | a refresh settles a validation before its finaliser, which then overwrites the status of a load |
| `single_run` | a single run of a record that is not validated makes it a success |
| `lost_finaliser` | a change of options during a refresh ends the following of the run |
| `upload` | an upload deletes records while they are imported |
| `unpublished` | a record without a community is never published |
| `delete_without_reason` | a deletion that gives no reason is refused as having no data, although the reason is optional |

Each is a finding in `PROJECT.json`, with the sentence of the repository it
disagrees with. The same modules show more, with one constant of a run or one
condition of a property changed:

| Property | Violated with | What the code does |
|---|---|---|
| `SettledIsQuiet` | `"status"` in `UserCalls` | a refresh between two entries settles the task under its fan-out |
| `DamagedIsTerminal` | `"status"` in `UserCalls` | a refresh takes a task out of `damaged` |
| `AppliedAtMostOnce` | `Writes = {"validated"}` | a task that is set to `validated` while it is imported can be loaded again |
| `ImportsOnlyWhileImporting` | `"delete"` in `UserCalls` | a task is deleted under its import jobs, and those that have begun go on |
| `ValidatedIsWhole` | `"ambiguous"` in `Faults` | a finaliser delivered although its publish raised writes `validated` over a later run |
| `RunsEnd` | `"publish_start"` in `Faults` | a start call whose publish fails after its commit leaves the task running for ever |
| `OutcomeIsTrue` | `"database"` or `"post_commit"` in `Faults` | a repository record that was committed is recorded as failed |
| `ProgressIsForward` | for a single run among records still to be validated | of two records, one `created` and one `validated`, the run of the second fails: the status goes from `validating` back to `created` |
| `OutcomeIsHonest` | without "or a post-commit operation raised" | `run()` reports an error and returns nothing, and the repository has changed |
| `ValidatedNamesExisting`, `NoSecondRecord` | without `unrecorded` | a worker that dies between the commit and the write of the importer record leaves it `validated` and naming nothing; run again, it makes a second repository record |
| `LatestIsRead` | `UploadsWhileReading = TRUE` | records of the old file that are created after the purge stay beside those of the new one |
| `LatestIsRead` | without "every name has an extension" | a file without one is stored beside the others and never found, so an older file is read |
| `FilesKeepTheirNames` | without "the link does not end in a slash" | the check of the name passes over the slash, the key made of the link does not |
| `ExportReimports` | without "has a publisher, a description and a version" | an empty cell is dropped, and the columns are required |
| `ExportReimports` | without "no two titles of one type and language" | the second overwrites the first in the column they share |
| `ExportReimports` | without "no subject that the vocabulary has twice" | the export leaves out the id, and the importer refuses a name it finds twice |
| `ExportReimports` | without "every related identifier has a type of resource" | a blank one is read as `{"id": None}` (`csv.py:192`), which is not what was exported, and validation refuses it |
| `NothingIsRefused` | for a draft | a draft passes as the existing record, and the run then publishes or deletes what it cannot |
| `NothingIsRefused` | for files with one key | validation looks at each file alone; the draft takes the key once |

Some statements of the documentation disagree with the code and have no run,
because no behaviour is involved: `docs/usage.rst:52` calls every unmarked column
optional, and the table leaves `description` and `version` unmarked, while
`csv.py:75` and `csv.py:79` require both; the columns of funding are called
`funders.*` and `awards.*` (`docs/usage.rst:100`), and the code reads `funding.*`.
Also, the setting `BULK_IMPORTER_FINALIZE_MAX_POLLS` is documented as leaving the
last status (`config.py:75`), and `finalize_importer_task` ends on `damaged`
instead, as its tests expect; `GiveUp` follows the code.

The state diagram of `docs/import-flow.md:121` lacks transitions that the code makes,
and `TaskLifecycle` has: `start_validation` refuses only a running task
(`services.py:140`), so `success`, `import_failed` and `damaged` lead to `validating`
as well; the validation of an empty file ends on `created`, by
`calculate_task_state`; a load that could publish nothing goes back from `importing` to
`validated` (`_settle_failed_import`); and both running states lead to `damaged` by
`_abandon_importer_task` too, not only at the poll limit.

Deadlock is not checked: a task whose calls are used up, a record whose runs
are, or a file whose uploads are, really stops.

### Fairness

`FairSpec` of `ImporterTask` is weak fairness of all system steps together:
some worker keeps taking jobs. No user has to call, no job is preferred, and no
fault has to happen or to stop happening.

## Proofs

`TaskProgress_proofs` proves, for any number of records, that each is counted once
(`TypeOK`), that the status is never `damaged` by calculation, that settled statuses
describe the records, and that the jobs of a validation and of a load make progress
forward (a single run among records still to be validated need not). The induction needs one more
fact than the counts being natural numbers: no code path puts a record in
`validating`, a state the calculation would answer with `damaged`.

`ImporterTask_proofs` proves, with no assumption but those on the constants, what
holds whatever the user calls and whatever fails: `TypeOK`, and the four properties
of the run `any_calls`. Two of them are about steps (`PurgedStaysPurged`,
`DeletedStaysDeleted`), and two about what is left behind: only a record that was
validated is applied (`OnlyValidatedIsApplied`), and a generated id is that of a
record that was made (`LinkedWasApplied`). The invariant `AnyInv` keeps what no
call and no fault undoes: entries are read in order and a record that is absent was
never touched (`ReadInOrder`, `AbsentIsUntouched`); a job that imports has begun on
a validated record (`ValidatedFirst`), and one that has committed was counted
(`CommittedWasApplied`). Reading the file is the one step that makes records, and
has proofs of its own; a lemma each covers all the others (`KeepsOrder`,
`KeepsResults`).

`OneRun_proofs` proves four properties of the run `safety` for any number of
entries, calls and polls: `ImportsOnlyWhileImporting`, `SettledIsQuiet`,
`PurgeSparesImports` and `DamagedIsTerminal`. They are about one idea: only the
run of the last call is alive, and the status says which kind it is. The last holds
under `Steady`: the user validates, loads and changes options and writes no status
of its own, and no publish both raises and arrives. The other three need `Calm`, by
which also no job outlasts the poll limit. The violation runs and the table above
show what each of these excludes breaks; every other fault is allowed, crashes and
failing database accesses among them.

None of the four is inductive. The code has no lock, so what keeps runs apart
is what its jobs know of each other, and the invariant `IInv`, which needs only
`Steady`, says it. What is alive (`Active`) is a fan-out or a finaliser; record jobs
are kept apart from it, because the ones of a task that was given up outlive both:

- `OneRun`, `OneFollower`: what is alive belongs to the last call; the
  finaliser starts when the fan-out is over, and is the only one;
- `VerdictsAreFinal`, `ReadInOrder`: a record whose validation is not over is
  `created`, and each is published once (entries are read in order);
- `ImportsAreLoaded`, `OneJob`: while its record is there, an import job is of the
  last call, its record is `validated`, and the task is `importing` or was given
  up as `damaged`; no record has two. A task that is damaged can only be validated
  again, which deletes the record, and a job that comes late finds none. So a second
  load meets no jobs of the first, however late they are;
- `LoadsAreValidated`: what a load has yet to publish is validated and has no job,
  so a load that has published nothing has nothing in flight and may set any status
  (`_settle_failed_import`);
- `FollowerKnows`: what a finaliser read is still true when it writes. If
  something was pending, the status it writes is the one the task has; if
  nothing was, no import job is left that has its record, since only validated
  records have one. This is where the version of the row is needed;
- `ValidatedRecords`, `ValidationsOver`: what a load relies on when it starts.

Under `Calm`, `Punctual` joins it: every import job has its record and the status
`importing`, and a finaliser that gives up has none to wait for (`Timely`).

There is one lemma per action, with a step per conjunct that the action can
disturb. Actions with the same effect on the invariant share one: a job that
moves on (`ImportJobStep`), a fan-out that does (`RunPcStep`), a fan-out that
hands over (`FollowStep`), the end of a run (`NothingLeft`).

`TaskResults_proofs` proves the other three invariants of the run `safety`, under
`Steady`: a task that reads as validated has a record of every entry of its file
(`ValidatedIsWhole`); one that reads as a success has every record applied exactly
once (`SuccessIsExact`); and no record is ever applied twice (`AppliedAtMostOnce`).
The run `slow` checks the last two with jobs that come late, and they need no more.
What keeps runs apart (`IInv`) is the larger part of it; the rest, `Results`,
remembers what earlier runs have done:

- `RowsHaveRuns`, `OneFile`, `FileWasRead`: calls to come have no records, a file
  that is being read has all of those there are, and once a finaliser follows the
  run, or the status says it was followed, they are those of the whole file;
- `PhasesOfRows`, `LoadsAreLast`: no record is imported while the status is
  `validating`, all have been validated while it is `importing`, and the finaliser
  of one kind of run does not write a status of the other;
- `NotYetApplied`: a record that is validated, or whose job has not committed, was
  never applied. Together with `IInv`, which gives a record one job, this is why
  nothing is applied twice;
- `NothingIsSkipped`, `SuccessIsApplied`, `SuccessOfAll`: a job that skips its
  record would call it a success, so what a load lists must be validated.

Most steps leave rows and repository alone, and one lemma is about all of those
(`UntouchedRows`).

`OutcomeIsTrue`, of the run `slow`, is proved under `Steady` and `Reliable`: the
database and what follows a commit do not fail, which the table shows to be
necessary. A publish that fails, a worker that dies and a job that comes late are
allowed. It takes one invariant more, `FailuresLeaveNothing`: what has failed was not
applied, nor was what a job is about to record as failed.

On top of `RInv` and `Punctual`, under `Calm`, the module proves the refinement: the
task implements the abstract `TaskLifecycle` (`ImplementsLifecycle`). Every step is
mapped, to the step of the abstract task it makes or to none (`LifecycleStep`). Two
facts are added for the mapping: what is validated or imported is not empty
(`LoadsHaveRecords`), and a finaliser that found nothing pending holds a status that
ends the phase it follows (`FollowerSettles`), so that what it writes later is an
step of the abstract task.

`ValidatedRun_proofs` is about both modules. Of `RecordRun` it proves, for any
files, communities, groups and number of runs, the types and three properties: a run
changes the repository record to the result `Applied` of the abstract run, or not at
all (`ImplementsAtomicRun`, with its initial states and steps mapped one by one);
the outcome it reports is the one that happened, but for what a post-commit operation
may hide (`OutcomeIsHonest`); and no import
takes a grant away (`GrantsAreKept`). The invariant is about the unit of work.
`UnitOfWork` gives, for each place in the run, what the draft has by then: what the
record had, and those files, communities and groups of the job that are no longer
left to do. At the commit nothing is left, and that is `Applied`. What the run
started from (`Base`) is the record that is named, or another one. The smaller parts
say that only imports get past the first call (`OnlyImportsGoOn`), and that the
record differs from what the run found once it is committed, and not before
(`CommitCounts`).

Then it proves that `ValidatedRun` implements `RecordRun`, so those
theorems hold for it (`ValidatedRunsAreAtomic`), its own types, and six properties:
what is validated names the repository record if there is one, unless an earlier run
of it was not recorded (`ValidatedNamesExisting`), and only then a second one is made
(`NoSecondRecord`); nothing of it was dropped (`ValidatedIsComplete`), only
what was checked as an import is imported, whatever becomes of the task's mode
(`ImportsWereChecked`), and no public record enters a restricted community by an
import, nor a restricted one without its groups (`RestrictionsHold`). That is
the hard one: the check is made on the row, and the change happens in a run that
read the importer record, with a task that may have changed. `VInv` bridges them:
while a run lasts, its job is that of the record (`RunsAreOfRec`), a good verdict
still says of the repository, the row and the groups what it said when it was given
(`VerdictHolds`), and nothing is published as an update but a record's payload, which
what passed as a deletion does not have (`UpdatesHavePayload`). The last,
`NothingIsRefused`, says that the next call of a run finds what it needs
(`CallAccepted`). The conditions are those the actions have as guards, by the same
names, so it does not speak of `ENABLED`, which the prover has no rules for. Its proof
joins the two invariants: `UnitOfWork` says what the draft has by then and what is
left, `VInv` what validation promised, and `FilesAreLeft` that there is a file to add
as long as files are added.

`ImportFile_proofs` proves everything the run `import_file` checks, for files of any
length, any table of roles, any ids and any number of uploads. `TypeOK` needs that a
name with an extension finds at most one file (`OneName`). `LatestIsRead`, which
assumes that no file is uploaded while one is read, needs `LInv`: unless a file
without an extension is there, the bucket holds the latest file or none, and a
reader that is reading, or is done and has records left, has it.

The properties about the data rest on what is a record. `EInv` says that every
record, and every entry yet to become one, is an entry of a group of the file that is
read, whatever is uploaded meanwhile; with lemmas about a single entry this proves
`NobodyIsLost`, `FilesKeepTheirNames` and `WithdrawnIsNotImported`. `GroupsFollowFile`
and `LinksMeet` need to know that no entry is missing, which an upload under the
reader breaks, so they assume there is none. `MInv` then places the records:
each is the i-th entry of the n-th group (`Placed`), no two share a place, every
place before the reader's is taken, and what the reader has left is the end of the
last group it read, none of which it would have got had the reading of one failed.
From it, records have one group key if and only if they are of one group
(`KeysAreGroups`), and sorting them by position gives the group of the file back
(`GroupIsPutTogether`).

`OnixRecords_proofs` has the lemmas about the operators. That sorting returns each
element once and in order (`InOrderSorts`, `InOrderIs`) is shown by counting what is
before an element; everything else about sorted and selected lists follows from it:
chapters in strict order of their keys unless two clash (`GroupIsOrdered`), links in
both directions (`GroupIsLinked`), a person in exactly one of the two lists of credits
(`CreditsAreAll`), files that were checked before they are attached
(`FilesAreAttached`). This is why `InOrder` and `Kept` take sets of pairs and of places
rather than operators, which the prover cannot reason about.

`ExportReimports` is proved for exports of any number of records, with lists of any
length and with gaps wherever a record may have them, but for the type of resource of
a related identifier (see the table above), and even if files are uploaded while one is read: what
is read of a file does not depend on it (`ExportReimportsHolds`). The argument, in
`CsvRows_proofs`, goes down the layers of the format and up again. The file puts all
rows under one header, and the import drops what is blank, so that a row has back
exactly the cells that were written for its record (`RowIs`); a field's column and a
group's are never confused (`WrittenIs`), so a group is read as if it were alone
(`RowIsRead`). The central lemma, `EntriesAreRead`, is about a group: if every entry
of a list has something, then every entry comes back at its own place, with what it
had and nothing of its neighbours. That takes both halves: `FlattenEntries` writes a
line for each entry in each column, blank or not, and `ProcessGroupedFields` drops
only the items that are blank in all columns, of which there are none (`KeptAll`). The
mutant of the property, an exporter that writes no line for a missing value, breaks
the first half. `ValuesAreRead`, `PartsAreRead` and `KeyedAreRead` apply it to the ways
in which entries are made, and a lemma for each part of a record says what it is
when it is read. Two parts need an argument of their own: the ids and names of a
person's affiliations, which are two lists in two cells, paired again by place even
if one of the cells is not there (`AffiliationsAreRead`); and the subjects, which are
written as two groups, and of which the vocabulary's come back through a search by
name and scheme (`TermsAreFound`, `SubjectsAreRead`). That the row is valid
(`ExportIsValid`) follows from what was read.

What is assumed of the constants, here and in TLC's runs: a message is a list of
products with lists of contributors, files and chapters, as the XML parser returns
them, and a link has at least one segment, as splitting a text always does
(`MessageAssumption`); a code's role is on one of the two lists of the payload
(`RolesAssumption`), as in the table of `codes.py` (any other would be a `KeyError`
in `split_contributors`); ids can be compared (`RecordIdAssumption`); `None` is not a
number, nor a text that the exporter writes (`WrittenAssumption`). A record that is
exported (`IsExported`, part of `MessageAssumption`) has what the data model of
InvenioRDM requires of each it stores: creators with a name and a type, contributors
with a role besides, dates with a type, related identifiers with a type of relation,
affiliations, funders and licences with an id
or a name, vocabulary subjects that are in the vocabulary. Being in the data rather
than in the property, it cannot be met by having no records: the run `import_file`
has exports of several, and its assumptions are evaluated. A text is one value of the
model, so one with a line break of its own in a list, or with a semicolon in an
affiliation, is not covered.

Of the properties of the passing runs, only `RunsEnd` is left to the model checker:
it is liveness, which is out of the prover's reach.

## Not modelled

- The texts of errors and of fields that are only copied; a person has one name.
- Export of locations: their coordinates are numbers, and how a number is
  flattened is up to a library. Importing them is modelled. Custom fields with a
  transformer or an exporter of a site; the repository's example is modelled.
- XML and CSV parsing, which are libraries'.
- Eager execution of Celery (a test setting), in which a finaliser does not
  follow.
- What the repository's services do inside: a call succeeds or raises. In
  particular what the review service says to a second community of a record
  that the first has published.
- The group import that is to resolve the links between records of a group: the
  code stores them as intents, and nothing reads them yet.
- Operations that only read, or make a task: create, search, the reads. A record
  has no call of its own but `start_run`.
- REST views, permissions, search indices, schemas, administration pages,
  migrations: declarations, or one call each.

## Plan

1. Done: the task runs, the status calculation, the run of one record; its
   validation, and the two composed; the metadata file, the serializers, the
   export and the groups.
2. Done: proofs that one run is alive at a time, of what a task's status then says
   of its records and of the repository, of what holds whatever is called, that a
   run of a record is atomic, that what was validated is what is run, that the
   latest file is read, and that the task implements `TaskLifecycle`.
3. Done: updates and the deletion of a task.
4. Done: what a task's status says of its records without `Timely`, when jobs
   outlast the finaliser that gave up on them; that outcomes are true.
5. Done: what becomes of the products of a message: groups, links, people, files.
6. Done: that nothing refuses what validation accepted.
7. Done: the round trip of the export, for any number of records of any size.
8. Open: locations and custom fields with an exporter of their own, in the export;
   the transitions of a community's review, for records that name several.
