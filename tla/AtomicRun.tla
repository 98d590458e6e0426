----------------------------- MODULE AtomicRun ------------------------------
(***************************************************************************)
(* What running a validated importer record promises: the repository is    *)
(* left as the whole run leaves it, or as it was.                          *)
(***************************************************************************)
EXTENDS Naturals

CONSTANTS File, Community, Group

VARIABLES
    repo,       \* the last repository record, with all its versions
    job,        \* the importer record being run and the task's options
    active      \* whether a run is in progress

vars == << repo, job, active >>

Repo ==
    [ number      : Nat,               \* records made so far: it is the last
      state       : { "absent", "draft", "published", "deleted" },
      versions    : Nat,
      revisions   : Nat,
      files       : SUBSET File,       \* of the latest version
      grants      : SUBSET Group,      \* of all versions
      communities : SUBSET Community ]

Job ==
    [ mode        : { "import", "delete" },
      validated   : BOOLEAN,           \* the importer record's status
      existing    : BOOLEAN,           \* whether existing_record_id is set
      files       : SUBSET File,       \* validated_record_files
      communities : SUBSET Community,  \* community_uuids
      restricted  : BOOLEAN,
      groups      : SUBSET Group,      \* configured for restricted records
      publish     : BOOLEAN ]          \* the task's option

NoJob ==
    [ mode |-> "import", validated |-> FALSE, existing |-> FALSE, files |-> {},
      communities |-> {}, restricted |-> FALSE, groups |-> {}, publish |-> FALSE ]

NewRecord ==
    [ number |-> 0, state |-> "absent", versions |-> 0, revisions |-> 0,
      files |-> {}, grants |-> {}, communities |-> {} ]

(* What is created for a row that names none: not the record r.            *)
AnotherRecord(r) == [NewRecord EXCEPT !.number = r.number + 1]

IsRevision(j) == j.existing /\ j.files = {}

(* What a whole import makes of the record it works on. *)
Imported(j, r) ==
    [ number      |-> r.number,
      state       |-> IF j.existing \/ (j.publish /\ j.communities # {})
                      THEN "published" ELSE "draft",
      versions    |-> IF IsRevision(j) THEN r.versions ELSE r.versions + 1,
      revisions   |-> IF IsRevision(j) THEN r.revisions + 1 ELSE 0,
      files       |-> IF IsRevision(j) THEN r.files ELSE j.files,
      grants      |-> IF j.restricted THEN r.grants \cup j.groups ELSE r.grants,
      communities |-> IF j.existing \/ ~ j.publish
                      THEN r.communities ELSE j.communities ]

(* What a whole run makes of the repository. *)
Applied(j, r) ==
    IF j.mode = "delete" THEN [r EXCEPT !.state = "deleted"]
    ELSE Imported(j, IF j.existing THEN r ELSE AnotherRecord(r))

Init ==
    /\ repo = NewRecord
    /\ job = NoJob
    /\ active = FALSE

Begin ==
    /\ ~ active
    /\ job' \in Job
    /\ active' \in BOOLEAN
    /\ UNCHANGED repo

Succeed ==
    /\ active
    /\ active' = FALSE
    /\ repo' = Applied(job, repo)
    /\ UNCHANGED job

Fail ==
    /\ active
    /\ active' = FALSE
    /\ UNCHANGED << repo, job >>

Next == Begin \/ Succeed \/ Fail

Spec == Init /\ [][Next]_vars
=============================================================================
