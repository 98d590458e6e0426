----------------------------- MODULE RecordRun ------------------------------
(***************************************************************************)
(* RDMRecord.run() (record_types/rdm.py): turning one importer record into *)
(* a repository record, service call by service call, in a unit of work    *)
(* that is rolled back when any of them raises.                            *)
(*                                                                         *)
(* A step is a call to a service of the repository, which may raise.  Runs *)
(* follow each other on the same repository record: it is created, then    *)
(* updated or deleted by importer records that name it.  The commit is a   *)
(* step of its own: run() has to return after it, which it may fail to do. *)
(***************************************************************************)
EXTENDS Naturals, Sequences, FiniteSets

CONSTANTS
    File,           \* references to files: an origin and a path
    Community, Group,
    MaxRuns         \* bound: runs of importer records

ASSUME MaxRunsAssumption == MaxRuns \in Nat

VARIABLES
    repo,       \* the repository record, as committed
    tx,         \* the same, as this unit of work has it so far
    before,     \* the same, as it was when the run began
    job,        \* the importer record being run and the task's options
    pc,         \* the call to make next
    left,       \* files still to add, or communities to submit to
    errors,     \* types of the errors reported
    item,       \* whether run() returned a record
    runs        \* runs so far

vars == << repo, tx, before, job, pc, left, errors, item, runs >>

Atomic == INSTANCE AtomicRun WITH active <- pc \notin { "idle", "committed" }

Repo == Atomic!Repo
Job == Atomic!Job
NewRecord == Atomic!NewRecord
AnotherRecord(r) == Atomic!AnotherRecord(r)
IsRevision(j) == Atomic!IsRevision(j)

Steps == { "begin", "grant", "init_files", "add_file", "publish",
           "commit", "committed" }

TypeOK ==
    /\ repo \in Repo
    /\ tx \in Repo
    /\ before \in Repo
    /\ job \in Job
    /\ pc \in Steps \cup { "idle" }
    /\ left \subseteq CASE pc \in { "init_files", "add_file" } -> File
                         [] pc = "publish" -> Community
                         [] OTHER -> {}
    /\ errors \subseteq
           { "record_creation_error", "record_update_error", "record_deletion_error",
             "access_grant_error", "file_add_error", "record_add_error",
             "unexpected_error" }
    /\ item \in BOOLEAN
    /\ runs \in 0..MaxRuns

Init ==
    /\ repo = NewRecord
    /\ tx = NewRecord
    /\ before = NewRecord
    /\ job = Atomic!NoJob
    /\ pc = "idle"
    /\ left = {}
    /\ errors = {}
    /\ item = FALSE
    /\ runs = 0

(* A validated importer record names no repository record that is not there.*)
Plausible(j) == j.validated /\ j.existing => repo.state # "absent"

(* Variant: the status of the importer record is not looked at. *)
BeginUnchecked(j) ==
    /\ pc = "idle"
    /\ runs < MaxRuns
    /\ Plausible(j)
    /\ runs' = runs + 1
    /\ job' = j
    /\ pc' = "begin"
    /\ tx' = repo
    /\ before' = repo
    /\ errors' = {}
    /\ item' = FALSE
    /\ UNCHANGED << repo, left >>

(* run() checks the status and opens the unit of work. *)
Begin(j) ==
    /\ pc = "idle"
    /\ runs < MaxRuns
    /\ Plausible(j)
    /\ runs' = runs + 1
    /\ job' = j
    /\ pc' = IF j.validated THEN "begin" ELSE "idle"
    /\ tx' = repo
    /\ before' = repo
    /\ errors' = {}
    /\ item' = FALSE
    /\ UNCHANGED << repo, left >>

(* A call that succeeds changes the unit of work, and another follows. *)
Call(from, to) ==
    /\ pc = from
    /\ pc' = to
    /\ UNCHANGED << repo, before, job, errors, item, runs >>

-----------------------------------------------------------------------------
(* _create_record, _update_new_version, _update_new_revision.              *)

(* create(), and pids.create() when a DOI is to be minted. *)
CreateRecord ==
    /\ Call("begin", "grant")
    /\ job.mode = "import" /\ ~ job.existing
    /\ tx' = [AnotherRecord(tx) EXCEPT !.state = "draft", !.versions = @ + 1]
    /\ UNCHANGED left

(* A draft can be edited, but has no version to make a new one of. *)
UpdateAccepted ==
    \/ tx.state = "published"
    \/ tx.state = "draft" /\ IsRevision(job)

(* new_version() or edit(), then update_draft(). *)
UpdateRecord ==
    /\ Call("begin", "grant")
    /\ job.mode = "import" /\ job.existing
    /\ UpdateAccepted
    /\ tx' = IF IsRevision(job)
             THEN [tx EXCEPT !.revisions = @ + 1]
             ELSE [tx EXCEPT !.versions = @ + 1, !.revisions = 0, !.files = {}]
    /\ UNCHANGED left

(* Only what is named and was published can be deleted. *)
DeletionAccepted == job.existing /\ tx.state = "published"

DeleteRecord ==
    /\ Call("begin", "commit")
    /\ job.mode = "delete"
    /\ DeletionAccepted
    /\ tx' = [tx EXCEPT !.state = "deleted"]
    /\ UNCHANGED left

(* Variant: the groups are granted again. *)
MissingAll == IF job.restricted THEN job.groups ELSE {}

(* Groups the record's parent has no grant for yet. *)
Missing == IF job.restricted THEN job.groups \ tx.grants ELSE {}

(* The access service refuses a group that already has a grant. *)
Refused == Missing \cap tx.grants # {}

(* Variant: the grants of the record are replaced. *)
GrantOnlyMissing ==
    /\ Call("grant", IF IsRevision(job) THEN "publish" ELSE "init_files")
    /\ ~ Refused
    /\ tx' = [tx EXCEPT !.grants = Missing]
    /\ left' = IF IsRevision(job) THEN {} ELSE job.files

GrantRestrictedAccess ==
    /\ Call("grant", IF IsRevision(job) THEN "publish" ELSE "init_files")
    /\ ~ Refused
    /\ tx' = [tx EXCEPT !.grants = @ \cup Missing]
    /\ left' = IF IsRevision(job) THEN {} ELSE job.files

-----------------------------------------------------------------------------
(* _add_files_to_record.                                                   *)

(* Communities are submitted to when a record is created, and only then. *)
ToSubmit == IF job.existing THEN {} ELSE job.communities

(* What a file is called in the draft: remote paths lose their folders.    *)
Key(f) == IF f.origin = "local" THEN f.path ELSE << f.path[Len(f.path)] >>

KeysDiffer(files) == \A f, g \in files : Key(f) = Key(g) => f = g

(* Variant: the communities are forgotten when there are no files to add. *)
InitFilesOnly ==
    /\ Call("init_files", IF left = {} THEN "publish" ELSE "add_file")
    /\ KeysDiffer(left)
    /\ UNCHANGED << tx, left >>

(* The draft has one entry for a key, and refuses a second.                *)
InitFiles ==
    /\ Call("init_files", IF left = {} THEN "publish" ELSE "add_file")
    /\ KeysDiffer(left)
    /\ left' = IF left = {} THEN ToSubmit ELSE left
    /\ UNCHANGED tx

(* Variant: the record is published after its first file. *)
AddOneFile(f) ==
    /\ f \in left
    /\ Call("add_file", "publish")
    /\ left' = left \ {f}
    /\ tx' = [tx EXCEPT !.files = @ \cup {f}]

(* The content of a file is streamed into the draft, then committed. *)
AddFile(f) ==
    /\ f \in left
    /\ Call("add_file", IF left = {f} THEN "publish" ELSE "add_file")
    /\ left' = IF left = {f} THEN ToSubmit ELSE left \ {f}
    /\ tx' = [tx EXCEPT !.files = @ \cup {f}]

-----------------------------------------------------------------------------
(* _publish_record and _add_record_to_communities.                         *)

(***************************************************************************)
(* Each community: a review request, submitted and accepted if the option  *)
(* says to publish, which is what publishes a new record.                  *)
(***************************************************************************)
AddToCommunity(c) ==
    /\ Call("publish", "publish")
    /\ ~ job.existing
    /\ c \in left
    /\ left' = left \ {c}
    /\ tx' = IF job.publish
             THEN [tx EXCEPT !.state = "published", !.communities = @ \cup {c}]
             ELSE tx

(***************************************************************************)
(* An update is published whatever the option says.  A new record has been *)
(* submitted to its communities: community_uuids, as validation writes it, *)
(* is a dict with keys even when it lists no community, so it is never     *)
(* false and the branch that publishes without a community is not taken.   *)
(***************************************************************************)
PublishRecord ==
    /\ Call("publish", "commit")
    /\ left = {}
    /\ tx' = IF job.existing THEN [tx EXCEPT !.state = "published"] ELSE tx
    /\ UNCHANGED left

-----------------------------------------------------------------------------
(* The unit of work ends.                                                  *)

(* run() is left, and with it the unit of work.                            *)
Finish(returned, reported) ==
    /\ pc' = "idle"
    /\ tx' = repo'
    /\ before' = repo'
    /\ left' = {}
    /\ item' = returned
    /\ errors' = reported
    /\ UNCHANGED << job, runs >>

(* The transaction of uow.commit(); its post-commit operations come after. *)
Commit ==
    /\ pc = "commit"
    /\ pc' = "committed"
    /\ repo' = tx
    /\ UNCHANGED << tx, before, job, left, errors, item, runs >>

Return ==
    /\ pc = "committed"
    /\ repo' = repo
    /\ Finish(TRUE, {})

(* One of them raises: what was committed stays, but is not returned.      *)
PostCommitFails ==
    /\ pc = "committed"
    /\ repo' = repo
    /\ Finish(FALSE, { "unexpected_error" })

(* What the handlers around a call report when it raises. *)
ErrorOf(step) ==
    (IF step = "grant" /\ Missing # {} THEN { "access_grant_error" } ELSE {}) \cup
    CASE step \in { "init_files", "add_file" } ->
             IF job.existing THEN { "file_add_error", "record_update_error" }
             ELSE { "file_add_error" }
      [] step = "begin" /\ job.mode = "delete" -> { "record_deletion_error" }
      [] step \in { "begin", "grant", "publish" } /\ job.existing ->
             { "record_update_error" }
      [] step \in { "begin", "grant" } -> { "record_creation_error" }
      [] step = "publish" /\ left # {} -> { "record_add_error" }
      [] OTHER -> { "unexpected_error" }

(* Variant: what was done before the exception is committed. *)
FailCommitting ==
    /\ pc \notin { "idle", "committed" }
    /\ repo' = tx
    /\ Finish(FALSE, ErrorOf(pc))

Fail ==
    /\ pc \notin { "idle", "committed" }
    /\ repo' = repo
    /\ Finish(FALSE, ErrorOf(pc))

(* The worker dies: the database drops an open transaction, nobody is told.*)
Crash ==
    /\ pc # "idle"
    /\ repo' = repo
    /\ Finish(FALSE, {})

Work ==
    \/ CreateRecord
    \/ UpdateRecord
    \/ DeleteRecord
    \/ GrantRestrictedAccess
    \/ InitFiles
    \/ \E f \in File : AddFile(f)
    \/ \E c \in Community : AddToCommunity(c)
    \/ PublishRecord
    \/ Commit
    \/ Return

Next == Work \/ Fail \/ PostCommitFails \/ Crash \/ \E j \in Job : Begin(j)

Spec == Init /\ [][Next]_vars

-----------------------------------------------------------------------------

(***************************************************************************)
(* Whichever call raises, and wherever the worker dies, the repository is  *)
(* left as the whole run leaves it or as it was before: never created but  *)
(* missing files, grants or communities, and never half updated.           *)
(***************************************************************************)
ImplementsAtomicRun == Atomic!Spec

(***************************************************************************)
(* When run() returns, it returns a record or reports an error, never both *)
(* and never neither; what it returns was committed, and unless a          *)
(* post-commit operation raised, what it does not return was not: this is  *)
(* what the importer record's status and generated id are made from.       *)
(***************************************************************************)
OutcomeIsHonest ==
    [][pc # "idle" /\ pc' = "idle" /\ ~ Crash =>
           /\ item' <=> errors' = {}
           /\ item' => repo' # before
           /\ repo' # before => item' \/ PostCommitFails]_vars

(***************************************************************************)
(* A record imported with the option to publish is published, whether or   *)
(* not it names a community.                                               *)
(***************************************************************************)
ImportsArePublished ==
    [][repo' # repo /\ job.mode = "import" /\ job.publish
           => repo'.state = "published"]_vars

(***************************************************************************)
(* Whoever was given access to a record keeps it, whatever is imported or  *)
(* deleted later: grants are shared by all versions of the record.         *)
(***************************************************************************)
GrantsAreKept ==
    [][repo'.number = repo.number => repo.grants \subseteq repo'.grants]_vars
=============================================================================
