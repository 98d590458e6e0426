------------------------- MODULE ValidatedRun_proofs -------------------------
(***************************************************************************)
(* A run of an importer record is all or nothing and says which, whatever  *)
(* the files, communities and groups, and however many runs there are: the *)
(* invariant says what the unit of work has done so far at each call.      *)
(*                                                                         *)
(* And what validation found is what a run works on: for any rows, files,  *)
(* communities and groups, however the task is changed in between, and     *)
(* whichever calls raise.                                                  *)
(***************************************************************************)
EXTENDS ValidatedRun, TLAPS

(* The parts of an importer record and of a repository record.             *)
USE DEF Atomic!Repo, Atomic!Job, Repo, Job

-----------------------------------------------------------------------------
(* Types.                                                                  *)

LEMMA NewRecordType == NewRecord \in Repo /\ Atomic!NoJob \in Job
BY DEF NewRecord, Atomic!NewRecord, Atomic!NoJob

LEMMA AnotherRecordType ==
    ASSUME NEW r \in Repo
    PROVE  /\ AnotherRecord(r) \in Repo
           /\ AnotherRecord(r).number = r.number + 1
           /\ AnotherRecord(r).versions = 0 /\ AnotherRecord(r).revisions = 0
           /\ AnotherRecord(r).files = {} /\ AnotherRecord(r).grants = {}
           /\ AnotherRecord(r).communities = {}
BY DEF AnotherRecord, Atomic!AnotherRecord, Atomic!NewRecord

(* The unit of work stays a repository record, whichever call is made.     *)
LEMMA TxType ==
    ASSUME TypeOK, Work
    PROVE  tx' \in Repo
<1> USE DEF TypeOK
<1>0. tx.versions + 1 \in Nat /\ tx.revisions + 1 \in Nat
  OBVIOUS
<1>1. CASE CreateRecord
  <2> DEFINE new == AnotherRecord(tx)
  <2>1. new \in Repo
    BY AnotherRecordType
  <2>2. tx' = [new EXCEPT !.state = "draft", !.versions = @ + 1]
    BY <1>1 DEF CreateRecord
  <2> HIDE DEF new
  <2>3. new.versions + 1 \in Nat
    BY <2>1
  <2>4. QED
    BY <2>1, <2>2, <2>3
<1>2. CASE UpdateRecord
  <2>1. \/ tx' = [tx EXCEPT !.revisions = @ + 1]
        \/ tx' = [tx EXCEPT !.versions = @ + 1, !.revisions = 0, !.files = {}]
    BY <1>2 DEF UpdateRecord
  <2>2. CASE tx' = [tx EXCEPT !.revisions = @ + 1]
    BY <1>0, <2>2
  <2>3. CASE tx' = [tx EXCEPT !.versions = @ + 1, !.revisions = 0, !.files = {}]
    <3>1. tx' = [ number |-> tx.number, state |-> tx.state, versions |-> tx.versions + 1,
                  revisions |-> 0, files |-> {}, grants |-> tx.grants,
                  communities |-> tx.communities ]
      BY <2>3
    <3>2. QED
      BY <1>0, <3>1
  <2>4. QED
    BY <2>1, <2>2, <2>3
<1>3. CASE DeleteRecord
  BY <1>3 DEF DeleteRecord
<1>4. CASE GrantRestrictedAccess
  BY <1>4 DEF GrantRestrictedAccess, Missing
<1>5. CASE InitFiles
  BY <1>5 DEF InitFiles
<1>6. ASSUME NEW f \in File, AddFile(f)
      PROVE  tx' \in Repo
  BY <1>6 DEF AddFile
<1>7. ASSUME NEW c \in Community, AddToCommunity(c)
      PROVE  tx' \in Repo
  BY <1>7 DEF AddToCommunity
<1>8. CASE PublishRecord
  BY <1>8 DEF PublishRecord
<1>9. CASE Commit \/ Return
  BY <1>9 DEF Commit, Return, Finish
<1>10. QED
  BY <1>1, <1>2, <1>3, <1>4, <1>5, <1>6, <1>7, <1>8, <1>9 DEF Work

(* What is left to do is of the kind that the next call works on.          *)
LEMMA LeftType ==
    ASSUME TypeOK, Work
    PROVE  /\ pc' \in Steps \cup { "idle" }
           /\ left' \subseteq CASE pc' \in { "init_files", "add_file" } -> File
                                [] pc' = "publish" -> Community
                                [] OTHER -> {}
<1> USE DEF TypeOK, Steps, Call
<1> DEFINE Kind == CASE pc \in { "init_files", "add_file" } -> File
                     [] pc = "publish" -> Community
                     [] OTHER -> {}
<1>0. left \subseteq Kind /\ ToSubmit \subseteq Community /\ job.files \subseteq File
  BY DEF ToSubmit
<1>1. CASE CreateRecord
  BY <1>0, <1>1 DEF CreateRecord
<1>2. CASE UpdateRecord
  BY <1>0, <1>2 DEF UpdateRecord
<1>3. CASE DeleteRecord
  BY <1>0, <1>3 DEF DeleteRecord
<1>4. CASE GrantRestrictedAccess
  BY <1>0, <1>4 DEF GrantRestrictedAccess
<1>5. CASE InitFiles
  BY <1>0, <1>5 DEF InitFiles
<1>6. ASSUME NEW f \in File, AddFile(f)
      PROVE  /\ pc' \in Steps \cup { "idle" }
             /\ left' \subseteq Kind'
  BY <1>0, <1>6 DEF AddFile
<1>7. ASSUME NEW c \in Community, AddToCommunity(c)
      PROVE  /\ pc' \in Steps \cup { "idle" }
             /\ left' \subseteq Kind'
  BY <1>0, <1>7 DEF AddToCommunity
<1>8. CASE PublishRecord
  BY <1>0, <1>8 DEF PublishRecord
<1>9. CASE Commit \/ Return
  BY <1>0, <1>9 DEF Commit, Return, Finish
<1>10. QED
  BY <1>1, <1>2, <1>3, <1>4, <1>5, <1>6, <1>7, <1>8, <1>9 DEF Work

(* Every handler reports an error, of a known type. *)
LEMMA ErrorType ==
    ASSUME pc \in Steps
    PROVE  /\ ErrorOf(pc) # {}
           /\ ErrorOf(pc) \subseteq
                  { "record_creation_error", "record_update_error",
                    "record_deletion_error", "access_grant_error", "file_add_error",
                    "record_add_error", "unexpected_error" }
BY DEF ErrorOf, Steps

LEMMA EndType ==
    ASSUME TypeOK, Fail \/ PostCommitFails \/ Crash
    PROVE  TypeOK'
BY ErrorType DEF TypeOK, Fail, PostCommitFails, Crash, Finish

LEMMA BeginType ==
    ASSUME TypeOK, NEW j \in Job, Begin(j)
    PROVE  TypeOK'
<1>1. runs' \in 0..MaxRuns
  BY MaxRunsAssumption DEF TypeOK, Begin
<1>2. left' \subseteq CASE pc' \in { "init_files", "add_file" } -> File
                        [] pc' = "publish" -> Community
                        [] OTHER -> {}
  BY DEF TypeOK, Begin
<1>3. QED
  BY <1>1, <1>2 DEF TypeOK, Begin, Steps

LEMMA TypeStep ==
    ASSUME TypeOK, [Next]_vars
    PROVE  TypeOK'
<1>1. CASE Work
  <2>1. /\ repo' \in Repo /\ before' \in { before, repo' } /\ job' = job /\ runs' = runs
        /\ errors' \in { errors, {} } /\ item' \in BOOLEAN
    BY <1>1 DEF Work, CreateRecord, UpdateRecord, DeleteRecord,
       GrantRestrictedAccess, InitFiles, AddFile, AddToCommunity, PublishRecord,
       Commit, Return, Call, Finish, TypeOK
  <2>2. QED
    BY <1>1, <2>1, TxType, LeftType DEF TypeOK
<1>2. CASE Fail \/ PostCommitFails \/ Crash
  BY <1>2, EndType
<1>3. CASE \E j \in Job : Begin(j)
  BY <1>3, BeginType
<1>4. CASE UNCHANGED vars
  BY <1>4 DEF vars, TypeOK
<1>5. QED
  BY <1>1, <1>2, <1>3, <1>4 DEF Next

LEMMA TypeInit == Init => TypeOK
<1>1. 0 \in 0..MaxRuns
  BY MaxRunsAssumption
<1>2. Init => left \subseteq CASE pc \in { "init_files", "add_file" } -> File
                              [] pc = "publish" -> Community
                              [] OTHER -> {}
  BY DEF Init
<1>3. QED
  BY <1>1, <1>2, NewRecordType DEF Init, TypeOK

(* Every variable of a run keeps its type. *)
THEOREM TypeOKHolds == Spec => []TypeOK
BY TypeInit, TypeStep, PTL DEF Spec

-----------------------------------------------------------------------------
(* What the unit of work has done at each call.                            *)

(* What is worked on: the record that is named, or one more.               *)
Base == IF job.existing THEN repo ELSE AnotherRecord(repo)

(* Created or updated, with files, grants and communities added.           *)
Done(files, groups, joined) ==
    /\ tx.number = Base.number
    /\ tx.state = IF job.existing THEN repo.state
                  ELSE IF joined = {} THEN "draft" ELSE "published"
    /\ tx.versions = IF IsRevision(job) THEN Base.versions ELSE Base.versions + 1
    /\ tx.revisions = IF IsRevision(job) THEN Base.revisions + 1 ELSE 0
    /\ tx.files = IF IsRevision(job) THEN Base.files ELSE files
    /\ tx.grants = Base.grants \cup groups
    /\ tx.communities = Base.communities \cup joined

Granted == IF job.restricted THEN job.groups ELSE {}

Joined == IF job.publish THEN ToSubmit \ left ELSE {}

(* A run has changed the repository if and only if it has committed.       *)
CommitCounts == pc = "committed" <=> repo # before

OnlyImportsGoOn == pc \in { "grant", "init_files", "add_file", "publish" } => job.mode = "import"

UnitOfWork ==
    /\ pc = "begin" => tx = repo
    /\ pc = "grant" => Done({}, {}, {})
    /\ pc = "init_files" => /\ ~ IsRevision(job) /\ left = job.files
                            /\ Done({}, Granted, {})
    /\ pc = "add_file" => /\ ~ IsRevision(job) /\ left \subseteq job.files
                          /\ Done(job.files \ left, Granted, {})
    /\ pc = "publish" => /\ left \subseteq ToSubmit
                         /\ Done(job.files, Granted, Joined)
    /\ pc = "commit" => /\ tx = Atomic!Applied(job, repo)
                        /\ job.mode = "delete" => repo.state = "published"

IInv ==
    /\ TypeOK
    /\ CommitCounts
    /\ OnlyImportsGoOn
    /\ UnitOfWork

USE DEF IsRevision, Atomic!IsRevision

(* A call changes neither the repository nor what is run.                  *)
LEMMA CallStep ==
    ASSUME IInv, NEW from \in Steps \ { "committed" }, NEW to \in Steps \ { "committed" },
           Call(from, to),
           to \in { "grant", "init_files", "add_file", "publish" } => job.mode = "import"
    PROVE  CommitCounts' /\ OnlyImportsGoOn'
BY DEF IInv, CommitCounts, OnlyImportsGoOn, Call, Steps

LEMMA CreateStep ==
    ASSUME IInv, CreateRecord
    PROVE  UnitOfWork'
<1>1. pc' = "grant" /\ repo' = repo /\ job' = job /\ tx = repo /\ ~ job.existing
  BY DEF CreateRecord, Call, IInv, UnitOfWork
<1> DEFINE new == AnotherRecord(repo)
<1>2. tx' = [new EXCEPT !.state = "draft", !.versions = @ + 1]
  BY <1>1 DEF CreateRecord
<1>3. new \in Repo /\ new.revisions = 0 /\ new.files = {}
  BY AnotherRecordType DEF IInv, TypeOK
<1>4. Base' = new
  BY <1>1 DEF Base
<1> HIDE DEF new
<1>5. Done({}, {}, {})'
  BY <1>1, <1>2, <1>3, <1>4 DEF Done
<1>6. QED
  BY <1>1, <1>5 DEF UnitOfWork

LEMMA UpdateStep ==
    ASSUME IInv, UpdateRecord
    PROVE  UnitOfWork'
<1>1. pc' = "grant" /\ repo' = repo /\ job' = job /\ tx = repo /\ job.existing
  BY DEF UpdateRecord, Call, IInv, UnitOfWork
<1>2. tx' = IF IsRevision(job)
            THEN [repo EXCEPT !.revisions = @ + 1]
            ELSE [repo EXCEPT !.versions = @ + 1, !.revisions = 0, !.files = {}]
  BY <1>1 DEF UpdateRecord
<1>3. repo \in Repo
  BY DEF IInv, TypeOK
<1>4. Done({}, {}, {})'
  BY <1>1, <1>2, <1>3 DEF Done, Base
<1>5. QED
  BY <1>1, <1>4 DEF UnitOfWork

LEMMA DeleteStep ==
    ASSUME IInv, DeleteRecord
    PROVE  UnitOfWork'
<1>1. /\ pc' = "commit" /\ repo' = repo /\ job' = job /\ tx = repo
      /\ job.mode = "delete" /\ repo.state = "published"
  BY DEF DeleteRecord, DeletionAccepted, Call, IInv, UnitOfWork
<1>2. tx' = [repo EXCEPT !.state = "deleted"]
  BY <1>1 DEF DeleteRecord
<1>3. QED
  BY <1>1, <1>2 DEF UnitOfWork, Atomic!Applied

LEMMA GrantStep ==
    ASSUME IInv, GrantRestrictedAccess
    PROVE  UnitOfWork'
<1>1. /\ repo' = repo /\ job' = job /\ Done({}, {}, {})
      /\ pc' = IF IsRevision(job) THEN "publish" ELSE "init_files"
      /\ left' = IF IsRevision(job) THEN {} ELSE job.files
  BY DEF GrantRestrictedAccess, Call, IInv, UnitOfWork
<1>2. tx' = [tx EXCEPT !.grants = @ \cup Missing] /\ tx \in Repo /\ repo \in Repo
  BY DEF GrantRestrictedAccess, IInv, TypeOK
<1>3. tx.grants \cup Missing = Base.grants \cup Granted
  BY <1>1 DEF Done, Base, Missing, Granted
<1>4. Done({}, Granted, {})'
  BY <1>1, <1>2, <1>3 DEF Done, Base, Granted
<1>5. CASE IsRevision(job)
  <2>1. ToSubmit' = {} /\ Joined' = {}
    BY <1>1, <1>5 DEF ToSubmit, Joined
  <2>2. Done(job.files, Granted, Joined)'
    BY <1>1, <1>4, <1>5, <2>1 DEF Done, Base
  <2>3. QED
    BY <1>1, <1>5, <2>1, <2>2 DEF UnitOfWork
<1>6. CASE ~ IsRevision(job)
  BY <1>1, <1>4, <1>6 DEF UnitOfWork
<1>7. QED
  BY <1>5, <1>6

(* The files are complete: the communities are next.                       *)
LEMMA AllFilesAdded ==
    ASSUME pc' = "publish", left' = ToSubmit, job' = job, Done(job.files, Granted, {})'
    PROVE  UnitOfWork'
<1>1. ToSubmit' = ToSubmit
  BY DEF ToSubmit
<1>2. Joined' = {}
  BY <1>1 DEF Joined
<1>3. Done(job.files, Granted, Joined)'
  BY <1>2 DEF Done, Base
<1>4. QED
  BY <1>1, <1>3 DEF UnitOfWork

LEMMA InitFilesStep ==
    ASSUME IInv, InitFiles
    PROVE  UnitOfWork'
<1>1. /\ repo' = repo /\ job' = job /\ tx' = tx
      /\ left = job.files /\ ~ IsRevision(job)
      /\ Done({}, Granted, {})
  BY DEF InitFiles, Call, IInv, UnitOfWork
<1>2. Done({}, Granted, {})'
  BY <1>1 DEF Done, Base, Granted
<1>3. CASE left = {}
  <2>1. pc' = "publish" /\ left' = ToSubmit
    BY <1>3 DEF InitFiles, Call
  <2>2. Done(job.files, Granted, {})'
    BY <1>1, <1>2, <1>3 DEF Done, Base
  <2>3. QED
    BY <1>1, <2>1, <2>2, AllFilesAdded
<1>4. CASE left # {}
  <2>1. pc' = "add_file" /\ left' = left
    BY <1>4 DEF InitFiles, Call
  <2>2. Done(job.files \ left, Granted, {})'
    BY <1>1, <1>2, <2>1 DEF Done, Base
  <2>3. QED
    BY <1>1, <2>1, <2>2 DEF UnitOfWork
<1>5. QED
  BY <1>3, <1>4

LEMMA AddFileStep ==
    ASSUME IInv, NEW f \in File, AddFile(f)
    PROVE  UnitOfWork'
<1>1. /\ repo' = repo /\ job' = job /\ ~ IsRevision(job)
      /\ f \in left /\ left \subseteq job.files
      /\ Done(job.files \ left, Granted, {})
  BY DEF AddFile, Call, IInv, UnitOfWork
<1>2. tx' = [tx EXCEPT !.files = @ \cup {f}] /\ tx \in Repo
  BY DEF AddFile, IInv, TypeOK
<1>3. (job.files \ left) \cup {f} = job.files \ (left \ {f})
  BY <1>1
<1>5. CASE left = {f}
  <2>1. pc' = "publish" /\ left' = ToSubmit
    BY <1>5 DEF AddFile, Call
  <2>2. tx.files \cup {f} = job.files
    BY <1>1, <1>3, <1>5 DEF Done, Base
  <2>3. Done(job.files, Granted, {})'
    BY <1>1, <1>2, <2>2 DEF Done, Base, Granted
  <2>4. QED
    BY <1>1, <2>1, <2>3, AllFilesAdded
<1>6. CASE left # {f}
  <2>1. pc' = "add_file" /\ left' = left \ {f}
    BY <1>6 DEF AddFile, Call
  <2>2. tx.files \cup {f} = job.files \ left'
    BY <1>1, <1>3, <2>1 DEF Done, Base
  <2>3. Done(job.files \ left, Granted, {})'
    BY <1>1, <1>2, <2>2 DEF Done, Base, Granted
  <2>4. QED
    BY <1>1, <2>1, <2>3 DEF UnitOfWork
<1>7. QED
  BY <1>5, <1>6

LEMMA AddToCommunityStep ==
    ASSUME IInv, NEW c \in Community, AddToCommunity(c)
    PROVE  UnitOfWork'
<1>1. /\ pc' = "publish" /\ repo' = repo /\ job' = job /\ ~ job.existing
      /\ left' = left \ {c} /\ c \in left /\ left \subseteq ToSubmit
      /\ Done(job.files, Granted, Joined)
  BY DEF AddToCommunity, Call, IInv, UnitOfWork
<1>2. tx' = IF job.publish
            THEN [tx EXCEPT !.state = "published", !.communities = @ \cup {c}]
            ELSE tx
  BY DEF AddToCommunity
<1>3. ToSubmit' = ToSubmit /\ Granted' = Granted
  BY <1>1 DEF ToSubmit, Granted
<1>4. Joined' = IF job.publish THEN Joined \cup {c} ELSE {}
  BY <1>1, <1>3 DEF Joined
<1>5. tx \in Repo /\ (~ job.publish => Joined = {})
  BY DEF IInv, TypeOK, Joined
<1>6. CASE job.publish
  <2>1. tx' = [tx EXCEPT !.state = "published", !.communities = @ \cup {c}]
    BY <1>2, <1>6
  <2>2. Joined' = Joined \cup {c} /\ Joined' # {}
    BY <1>4, <1>6
  <2>3. Done(job.files, Granted, Joined)'
    BY <1>1, <1>3, <1>5, <2>1, <2>2 DEF Done, Base
  <2>4. QED
    BY <1>1, <1>3, <2>3 DEF UnitOfWork
<1>7. CASE ~ job.publish
  <2>1. tx' = tx /\ Joined' = {} /\ Joined = {}
    BY <1>2, <1>4, <1>5, <1>7
  <2>2. Done(job.files, Granted, Joined)'
    BY <1>1, <1>3, <2>1 DEF Done, Base
  <2>3. QED
    BY <1>1, <1>3, <2>2 DEF UnitOfWork
<1>8. QED
  BY <1>6, <1>7

(* The calls add up to the run as a whole. *)
LEMMA PublishStep ==
    ASSUME IInv, PublishRecord
    PROVE  UnitOfWork'
<1>1. /\ pc' = "commit" /\ repo' = repo /\ job' = job /\ left = {}
      /\ Done(job.files, Granted, Joined) /\ job.mode = "import"
  BY DEF PublishRecord, Call, IInv, UnitOfWork, OnlyImportsGoOn
<1>2. /\ tx' = IF job.existing THEN [tx EXCEPT !.state = "published"] ELSE tx
      /\ tx \in Repo /\ repo \in Repo
  BY DEF PublishRecord, IInv, TypeOK
<1>3. tx' = [ number |-> tx.number,
              state |-> IF job.existing THEN "published" ELSE tx.state,
              versions |-> tx.versions, revisions |-> tx.revisions, files |-> tx.files,
              grants |-> tx.grants, communities |-> tx.communities ]
  BY <1>2
<1>4. Joined = IF job.existing \/ ~ job.publish THEN {} ELSE job.communities
  BY <1>1 DEF Joined, ToSubmit
<1>5. ~ job.existing => Base.communities = {}
  BY <1>2, AnotherRecordType DEF Base
<1>6. /\ tx.grants = IF job.restricted THEN Base.grants \cup job.groups ELSE Base.grants
      /\ tx.communities = IF job.existing \/ ~ job.publish THEN Base.communities
                          ELSE job.communities
      /\ ~ job.existing => tx.state = IF job.publish /\ job.communities # {}
                                     THEN "published" ELSE "draft"
  BY <1>1, <1>4, <1>5 DEF Done, Granted
<1>7. tx' = Atomic!Imported(job, Base)
  BY <1>1, <1>3, <1>6 DEF Done, Atomic!Imported
<1>8. Atomic!Applied(job, repo) = Atomic!Imported(job, Base)
  BY <1>1 DEF Atomic!Applied, Base, AnotherRecord
<1>9. QED
  BY <1>1, <1>7, <1>8 DEF UnitOfWork

(* What a run applies is there, and is not what was there before.          *)
LEMMA AppliedIsNew ==
    ASSUME NEW j \in Job, NEW r \in Repo, j.mode = "delete" => r.state = "published"
    PROVE  /\ Atomic!Applied(j, r).state # "absent"
           /\ Atomic!Applied(j, r) # r
           /\ Atomic!Applied(j, r).number = r.number =>
                  r.grants \subseteq Atomic!Applied(j, r).grants
<1> DEFINE a == Atomic!Applied(j, r)
<1>1. CASE j.mode = "delete"
  <2>1. a = [r EXCEPT !.state = "deleted"]
    BY <1>1 DEF Atomic!Applied
  <2>2. QED
    BY <1>1, <2>1
<1>2. CASE j.mode # "delete" /\ j.existing
  <2>1. a = Atomic!Imported(j, r)
    BY <1>2 DEF Atomic!Applied
  <2>2. /\ a.state \in { "published", "draft" }
        /\ a.versions = IF IsRevision(j) THEN r.versions ELSE r.versions + 1
        /\ a.revisions = IF IsRevision(j) THEN r.revisions + 1 ELSE 0
        /\ a.grants = IF j.restricted THEN r.grants \cup j.groups ELSE r.grants
    BY <2>1 DEF Atomic!Imported
  <2>3. a.versions # r.versions \/ a.revisions # r.revisions
    BY <2>2
  <2>4. QED
    BY <2>2, <2>3
<1>3. CASE j.mode # "delete" /\ ~ j.existing
  <2>1. a = Atomic!Imported(j, AnotherRecord(r))
    BY <1>3 DEF Atomic!Applied, AnotherRecord
  <2>2. a.state \in { "published", "draft" } /\ a.number = r.number + 1
    BY <2>1, AnotherRecordType DEF Atomic!Imported
  <2>3. QED
    BY <2>2
<1>4. QED
  BY <1>1, <1>2, <1>3

LEMMA CommitStep ==
    ASSUME IInv, Commit
    PROVE  /\ repo' = Atomic!Applied(job, repo) /\ repo' # repo
           /\ repo'.number = repo.number => repo.grants \subseteq repo'.grants
           /\ repo'.state # "absent"
<1>1. repo' = Atomic!Applied(job, repo) /\ (job.mode = "delete" => repo.state = "published")
  BY DEF Commit, IInv, UnitOfWork
<1>2. job \in Job /\ repo \in Repo
  BY DEF IInv, TypeOK
<1>3. QED
  BY <1>1, <1>2, AppliedIsNew

(* After the commit the unit of work is over, and the repository changed.  *)
LEMMA CommittedStep ==
    ASSUME IInv, Commit
    PROVE  CommitCounts' /\ OnlyImportsGoOn' /\ UnitOfWork'
<1>1. pc = "commit" /\ pc' = "committed" /\ before' = before /\ before = repo
  BY DEF Commit, IInv, CommitCounts
<1>2. QED
  BY <1>1, CommitStep DEF CommitCounts, OnlyImportsGoOn, UnitOfWork

(* Between two runs there is nothing but the repository record.            *)
LEMMA EndStep ==
    ASSUME Return \/ Fail \/ PostCommitFails \/ Crash
    PROVE  pc' = "idle" /\ CommitCounts' /\ OnlyImportsGoOn' /\ UnitOfWork'
BY DEF Return, Fail, PostCommitFails, Crash, Finish, CommitCounts, OnlyImportsGoOn, UnitOfWork

LEMMA BeginStep ==
    ASSUME NEW j \in Job, Begin(j)
    PROVE  CommitCounts' /\ OnlyImportsGoOn' /\ UnitOfWork'
BY DEF Begin, CommitCounts, OnlyImportsGoOn, UnitOfWork

LEMMA WorkStep ==
    ASSUME IInv, Work
    PROVE  CommitCounts' /\ OnlyImportsGoOn' /\ UnitOfWork'
<1> USE DEF Steps
<1>1. CASE CreateRecord
  <2>1. Call("begin", "grant") /\ job.mode = "import"
    BY <1>1 DEF CreateRecord
  <2>2. QED
    BY <1>1, <2>1, CreateStep, CallStep
<1>2. CASE UpdateRecord
  <2>1. Call("begin", "grant") /\ job.mode = "import"
    BY <1>2 DEF UpdateRecord
  <2>2. QED
    BY <1>2, <2>1, UpdateStep, CallStep
<1>3. CASE DeleteRecord
  <2>1. Call("begin", "commit")
    BY <1>3 DEF DeleteRecord
  <2>2. QED
    BY <1>3, <2>1, DeleteStep, CallStep
<1>4. pc \in { "grant", "init_files", "add_file", "publish" } => job.mode = "import"
  BY DEF IInv, OnlyImportsGoOn
<1>5. CASE GrantRestrictedAccess
  <2>1. Call("grant", "publish") \/ Call("grant", "init_files")
    BY <1>5 DEF GrantRestrictedAccess
  <2>2. job.mode = "import"
    BY <1>4, <2>1 DEF Call
  <2>3. QED
    BY <1>5, <2>1, <2>2, GrantStep, CallStep
<1>6. CASE InitFiles
  <2>1. Call("init_files", "publish") \/ Call("init_files", "add_file")
    BY <1>6 DEF InitFiles
  <2>2. job.mode = "import"
    BY <1>4, <2>1 DEF Call
  <2>3. QED
    BY <1>6, <2>1, <2>2, InitFilesStep, CallStep
<1>7. ASSUME NEW f \in File, AddFile(f)
      PROVE  CommitCounts' /\ OnlyImportsGoOn' /\ UnitOfWork'
  <2>1. Call("add_file", "publish") \/ Call("add_file", "add_file")
    BY <1>7 DEF AddFile
  <2>2. job.mode = "import"
    BY <1>4, <2>1 DEF Call
  <2>3. QED
    BY <1>7, <2>1, <2>2, AddFileStep, CallStep
<1>8. ASSUME NEW c \in Community, AddToCommunity(c)
      PROVE  CommitCounts' /\ OnlyImportsGoOn' /\ UnitOfWork'
  <2>1. Call("publish", "publish")
    BY <1>8 DEF AddToCommunity
  <2>2. job.mode = "import"
    BY <1>4, <2>1 DEF Call
  <2>3. QED
    BY <1>8, <2>1, <2>2, AddToCommunityStep, CallStep
<1>9. CASE PublishRecord
  <2>1. Call("publish", "commit")
    BY <1>9 DEF PublishRecord
  <2>2. QED
    BY <1>9, <2>1, PublishStep, CallStep
<1>10. CASE Commit
  BY <1>10, CommittedStep
<1>11. CASE Return
  BY <1>11, EndStep
<1>12. QED
  BY <1>1, <1>2, <1>3, <1>5, <1>6, <1>7, <1>8, <1>9, <1>10, <1>11 DEF Work

LEMMA IInvHolds == Spec => []IInv
<1> DEFINE J == CommitCounts /\ OnlyImportsGoOn /\ UnitOfWork
<1>1. Init => J
  BY DEF Init, CommitCounts, OnlyImportsGoOn, UnitOfWork
<1>2. TypeOK /\ J /\ [Next]_vars => J'
  <2> SUFFICES ASSUME TypeOK, J, [Next]_vars
               PROVE  J'
    OBVIOUS
  <2>0. IInv
    BY DEF IInv
  <2>1. CASE Work
    BY <2>0, <2>1, WorkStep
  <2>2. CASE Fail \/ PostCommitFails \/ Crash
    BY <2>2, EndStep
  <2>3. CASE \E j \in Job : Begin(j)
    <3>1. PICK j \in Job : Begin(j)
      BY <2>3
    <3>2. QED
      BY <3>1, BeginStep
  <2>4. CASE UNCHANGED vars
    BY <2>4 DEF vars, CommitCounts, OnlyImportsGoOn, UnitOfWork, Done, Base,
       Granted, Joined, ToSubmit
  <2>5. QED
    BY <2>1, <2>2, <2>3, <2>4 DEF Next
<1>3. IInv <=> TypeOK /\ J
  BY DEF IInv
<1> HIDE DEF J
<1>4. QED
  BY <1>1, <1>2, <1>3, TypeOKHolds, PTL DEF Spec

-----------------------------------------------------------------------------
(* What every run keeps.                                                   *)

(***************************************************************************)
(* run() returns a record or an error, never both and never neither,       *)
(* whichever call raises; a record it returns was committed, and what it   *)
(* does not return was not, unless a post-commit operation raised.         *)
(***************************************************************************)
THEOREM OutcomeIsHonestHolds == Spec => OutcomeIsHonest
<1>1. IInv /\ [Next]_vars =>
          [pc # "idle" /\ pc' = "idle" /\ ~ Crash =>
               /\ item' <=> errors' = {}
               /\ item' => repo' # before
               /\ repo' # before => item' \/ PostCommitFails]_vars
  <2> SUFFICES ASSUME IInv, Next, pc # "idle", pc' = "idle", ~ Crash
               PROVE  /\ item' <=> errors' = {}
                      /\ item' => repo' # before
                      /\ repo' # before => item' \/ PostCommitFails
    BY Zenon
  <2>1. CASE Work
    <3>1. Return
      BY <2>1 DEF Work, CreateRecord, UpdateRecord, DeleteRecord, GrantRestrictedAccess,
         InitFiles, AddFile, AddToCommunity, PublishRecord, Commit, Call
    <3>2. QED
      BY <3>1 DEF Return, Finish, IInv, CommitCounts
  <2>2. CASE Fail
    <3>1. pc \in Steps
      BY <2>2 DEF Fail, IInv, TypeOK
    <3>2. ErrorOf(pc) # {}
      BY <3>1, ErrorType
    <3>3. QED
      BY <2>2, <3>2 DEF Fail, Finish, IInv, CommitCounts
  <2>3. CASE PostCommitFails
    <3>1. item' = FALSE /\ errors' = { "unexpected_error" }
      BY <2>3 DEF PostCommitFails, Finish
    <3>2. QED
      BY <2>3, <3>1
  <2>4. CASE \E j \in Job : Begin(j)
    BY <2>4 DEF Begin
  <2>5. QED
    BY <2>1, <2>2, <2>3, <2>4 DEF Next
<1>2. QED
  BY <1>1, IInvHolds, PTL DEF Spec, OutcomeIsHonest

(* Only a commit changes the repository. *)
LEMMA OnlyCommitChanges ==
    ASSUME Next, ~ Commit
    PROVE  repo' = repo
<1>1. CASE Work
  BY <1>1 DEF Work, CreateRecord, UpdateRecord, DeleteRecord, GrantRestrictedAccess,
     InitFiles, AddFile, AddToCommunity, PublishRecord, Return, Call
<1>2. CASE Fail \/ PostCommitFails \/ Crash
  BY <1>2 DEF Fail, PostCommitFails, Crash
<1>3. CASE \E j \in Job : Begin(j)
  BY <1>3 DEF Begin
<1>4. QED
  BY <1>1, <1>2, <1>3 DEF Next

(* Whoever was given access keeps it, whatever is imported or deleted later. *)
THEOREM GrantsAreKeptHolds == Spec => GrantsAreKept
<1>1. IInv /\ [Next]_vars =>
          [repo'.number = repo.number => repo.grants \subseteq repo'.grants]_vars
  <2> SUFFICES ASSUME IInv, Next, repo'.number = repo.number
               PROVE  repo.grants \subseteq repo'.grants
    BY Zenon
  <2>1. QED
    BY CommitStep, OnlyCommitChanges
<1>2. QED
  BY <1>1, IInvHolds, PTL DEF Spec, GrantsAreKept

(* What each step of a run is to somebody who sees only the repository.    *)
LEMMA WorkIsUnseen ==
    ASSUME Work, ~ Commit
    PROVE  UNCHANGED Atomic!vars
BY DEF Work, CreateRecord, UpdateRecord, DeleteRecord, GrantRestrictedAccess, InitFiles, AddFile,
   AddToCommunity, PublishRecord, Return, Finish, Call, Atomic!vars

LEMMA CommitSucceeds ==
    ASSUME IInv, Commit
    PROVE  Atomic!Succeed
<1>1. pc = "commit" /\ pc' = "committed" /\ job' = job
  BY DEF Commit
<1>2. repo' = Atomic!Applied(job, repo)
  BY CommitStep
<1>3. QED
  BY <1>1, <1>2 DEF Atomic!Succeed

(* What ends a run after its commit is unseen, and before it is a failure. *)
LEMMA WhatRaisesFails ==
    ASSUME Fail \/ PostCommitFails \/ Crash
    PROVE  Atomic!Fail \/ UNCHANGED Atomic!vars
BY DEF Fail, PostCommitFails, Crash, Finish, Atomic!Fail, Atomic!vars

LEMMA BeginBegins ==
    ASSUME NEW j \in Job, Begin(j)
    PROVE  Atomic!Begin
BY DEF Begin, Atomic!Begin

(***************************************************************************)
(* A run, call by call, with any of them raising and the worker dying at   *)
(* any time, implements the run that is applied whole or not at all.       *)
(***************************************************************************)
THEOREM ImplementsAtomicRunHolds == Spec => ImplementsAtomicRun
<1>1. Init => Atomic!Init
  BY DEF Init, Atomic!Init, NewRecord
<1>2. IInv /\ [Next]_vars => [Atomic!Next]_(Atomic!vars)
  <2> SUFFICES ASSUME IInv, [Next]_vars
               PROVE  [Atomic!Next]_(Atomic!vars)
    OBVIOUS
  <2>1. CASE UNCHANGED vars
    BY <2>1 DEF vars, Atomic!vars
  <2>2. CASE Next
    BY <2>2, WorkIsUnseen, CommitSucceeds, WhatRaisesFails, BeginBegins DEF Next, Atomic!Next
  <2>3. QED
    BY <2>1, <2>2
<1>3. QED
  BY <1>1, <1>2, IInvHolds, PTL DEF Spec, ImplementsAtomicRun, Atomic!Spec

HIDE DEF Atomic!Repo, Atomic!Job, Repo, Job, IsRevision, Atomic!IsRevision

-----------------------------------------------------------------------------
(* Types, and the run that the importer record is given to.                *)

LEMMA JobType ==
    ASSUME RecordTypeOK
    PROVE  JobOf \in Job
BY DEF RecordTypeOK, JobOf, Task, IsRestricted, Job, Atomic!Job

(* Every step is a step of the run or leaves it alone. *)
LEMMA RunStep ==
    ASSUME RecordTypeOK, [ValidatedNext]_allVars
    PROVE  [Next]_vars
<1>1. CASE RunGoesOn
  BY <1>1 DEF RunGoesOn, RunCall, RunCommits, RunSucceeds, Next, Work, RecordTypeOK
<1>2. CASE RunFails \/ OutcomeIsLost \/ RunDies
  BY <1>2 DEF RunFails, OutcomeIsLost, RunDies, Next, Work
<1>3. CASE Run
  BY <1>3, JobType DEF Run, Next
<1>4. CASE (\E w \in SubmittedRow : Submit(w)) \/ UpdateTask \/ (\E f \in File : LoseFile(f)) \/ Validate
  BY <1>4 DEF Submit, UpdateTask, LoseFile, Validate
<1>5. CASE UNCHANGED allVars
  BY <1>5 DEF allVars
<1>6. QED
  BY <1>1, <1>2, <1>3, <1>4, <1>5 DEF ValidatedNext

Rec ==
    [ status : RecordStatus, checked : { "import", "delete" },
      errors : SUBSET AllErrors, existing : BOOLEAN,
      files : SUBSET File, communities : SUBSET Community,
      data : { "none", "record", "reason" } ]

LEMMA SubmitType ==
    ASSUME RecordTypeOK, NEW w \in SubmittedRow, Submit(w)
    PROVE  RecordTypeOK'
<1>1. records' \in 0..MaxRecords
  BY MaxRecordsAssumption DEF Submit, RecordTypeOK
<1>2. row' \in Row(File)
  BY SubmittedRowAssumption DEF Submit
<1>3. rec' \in Rec'
  <2>1. NewRec("created") \in Rec
    BY DEF NewRec, Rec, RecordStatus
  <2>2. QED
    BY <2>1 DEF Submit, Rec
<1>4. QED
  BY <1>1, <1>2, <1>3 DEF Submit, RecordTypeOK, Rec

LEMMA VerdictType ==
    ASSUME RecordTypeOK, NEW mode \in { "import", "delete" }
    PROVE  /\ SerializerErrors(row, mode) \subseteq AllErrors
           /\ ValidationErrors(row, mode, repo.state, reachable, task.groups) \subseteq AllErrors
<1>1. /\ SerializerErrors(row, mode) \subseteq { "missing_id", "serializer_error" }
      /\ ExistingErrors(row, mode, repo.state) \subseteq { "existing_record_not_found" }
      /\ FileErrors(row.files, reachable) \subseteq { "file_not_found", "file_not_accessible" }
      /\ CommunityErrors(row.communities) \subseteq { "community_not_provided", "community_not_found" }
      /\ PermissionErrors(row) \subseteq { "invalid_access_restriction" }
      /\ SoundnessErrors(row) \subseteq { "validation_error", "pre_commit_validation_error" }
      /\ GroupErrors(row, task.groups) \subseteq { "access_group_not_found" }
  BY DEF SerializerErrors, ExistingErrors, FileErrors, CommunityErrors, PermissionErrors,
     SoundnessErrors, GroupErrors
<1>2. ValidationErrors(row, mode, repo.state, reachable, task.groups)
          \subseteq { "serialized_record_not_provided" } \cup
                    ExistingErrors(row, mode, repo.state) \cup
                    FileErrors(row.files, reachable) \cup
                    CommunityErrors(row.communities) \cup PermissionErrors(row) \cup
                    SoundnessErrors(row) \cup GroupErrors(row, task.groups)
  BY DEF ValidationErrors
<1>3. QED
  BY <1>1, <1>2 DEF AllErrors

LEMMA ValidateType ==
    ASSUME RecordTypeOK, Validate
    PROVE  RecordTypeOK'
<1> DEFINE refused == SerializerErrors(row, task.mode)
           errs == ValidationErrors(row, task.mode, repo.state, reachable, task.groups)
<1>1. task.mode \in { "import", "delete" } /\ rec \in Rec /\ row \in Row(File)
      /\ reachable \subseteq File
  BY DEF RecordTypeOK, Task, Rec
<1>2. refused \subseteq AllErrors /\ errs \subseteq AllErrors
  BY <1>1, VerdictType
<1>3. RefusedBySerializer(refused) \in Rec
  <2> HIDE DEF refused
  <2>1. QED
    BY <1>1, <1>2 DEF RefusedBySerializer, Rec, RecordStatus
<1>4. Checked(task.mode, errs) \in Rec
  <2> HIDE DEF errs
  <2>1. FilesAccessible(row.files, reachable) \subseteq File /\ CommunityIds(row.communities) \subseteq Community
        /\ row.id \in BOOLEAN
    BY <1>1 DEF FilesAccessible, CommunityIds, Row
  <2>2. QED
    BY <1>1, <1>2, <2>1 DEF Checked, Rec, RecordStatus
<1>5. rec' \in Rec'
  BY <1>3, <1>4 DEF Validate, Rec
<1>6. QED
  BY <1>5 DEF Validate, RecordTypeOK, Rec, vars

LEMMA RunType ==
    ASSUME TypeOK, RecordTypeOK,
           Run \/ RunGoesOn \/ RunFails \/ OutcomeIsLost \/ RunDies
    PROVE  RecordTypeOK'
<1>1. CASE Run
  BY <1>1 DEF Run, RecordTypeOK, RecordStatus
<1>2. CASE RunGoesOn
  BY <1>2 DEF RunGoesOn, RunCall, RunCommits, RunSucceeds, EndRun, checkVars,
     RecordTypeOK, RecordStatus
<1>3. CASE RunFails
  <2>1. errors' \subseteq AllErrors
    BY <1>3, ErrorType DEF RunFails, Fail, PostCommitFails, Finish, TypeOK, AllErrors
  <2>2. QED
    BY <1>3, <2>1 DEF RunFails, EndRun, RecordTypeOK, RecordStatus
<1>4. CASE OutcomeIsLost
  <2>1. rec.errors \cup { "unexpected_error" } \subseteq AllErrors
    BY DEF RecordTypeOK, AllErrors
  <2>2. QED
    BY <1>4, <2>1 DEF OutcomeIsLost, EndRun, RecordTypeOK, RecordStatus
<1>5. CASE RunDies
  BY <1>5 DEF RunDies, checkVars, RecordTypeOK
<1>6. QED
  BY <1>1, <1>2, <1>3, <1>4, <1>5

LEMMA RecordTypeStep ==
    ASSUME TypeOK, RecordTypeOK, [ValidatedNext]_allVars
    PROVE  RecordTypeOK'
<1>1. CASE UpdateTask
  BY <1>1 DEF UpdateTask, RecordTypeOK, Task
<1>2. CASE \E f \in File : LoseFile(f)
  BY <1>2 DEF LoseFile, RecordTypeOK
<1>3. CASE UNCHANGED allVars
  BY <1>3 DEF allVars, checkVars, RecordTypeOK
<1>4. CASE \E w \in SubmittedRow : Submit(w)
  BY <1>4, SubmitType
<1>5. QED
  BY <1>1, <1>2, <1>3, <1>4, ValidateType, RunType DEF ValidatedNext

(* Every variable around a run keeps its type. *)
THEOREM RecordTypeOKHolds == ValidatedSpec => [](TypeOK /\ RecordTypeOK)
<1>1. ValidatedInit => TypeOK /\ RecordTypeOK
  <2>1. NoRow \in Row(File) /\ NewRec("none") \in Rec /\ 0 \in 0..MaxRecords
    BY MaxRecordsAssumption DEF NoRow, Row, NewRec, Rec, RecordStatus
  <2>2. ValidatedInit => RecordTypeOK
    BY <2>1 DEF ValidatedInit, RecordTypeOK, Rec
  <2>3. QED
    BY <2>2, TypeInit DEF ValidatedInit
<1>2. TypeOK /\ RecordTypeOK /\ [ValidatedNext]_allVars => (TypeOK /\ RecordTypeOK)'
  BY RunStep, RecordTypeStep, TypeStep
<1>3. QED
  BY <1>1, <1>2, PTL DEF ValidatedSpec

(***************************************************************************)
(* The importer records of a task, validated and run one after the other,  *)
(* are runs of RecordRun: what holds of every run holds of theirs.         *)
(***************************************************************************)
THEOREM ValidatedRunIsRun == ValidatedSpec => Spec
<1>1. RecordTypeOK /\ [ValidatedNext]_allVars => [Next]_vars
  BY RunStep
<1>2. ValidatedInit => Init
  BY DEF ValidatedInit
<1>3. QED
  BY <1>1, <1>2, RecordTypeOKHolds, PTL DEF ValidatedSpec, Spec

(* Their runs are all or nothing, say which, and take no access away.      *)
THEOREM ValidatedRunsAreAtomic ==
    ValidatedSpec => ImplementsAtomicRun /\ OutcomeIsHonest /\ GrantsAreKept
BY ValidatedRunIsRun, ImplementsAtomicRunHolds, OutcomeIsHonestHolds, GrantsAreKeptHolds

-----------------------------------------------------------------------------
(* What a verdict says, from the validation to the end of the run.         *)

(* A row without an id is submitted as long as there is no record. *)
NewRowsAreNew == rec.status = "created" => row.id \/ repo.state = "absent"

(* What is being run is the importer record, in the groups of the site;    *)
(* the mode and the options are those the task had.                        *)
RunsAreOfRec ==
    pc # "idle" =>
        /\ rec.status = "validated"
        /\ job.existing = rec.existing
        /\ job.files = rec.files
        /\ job.communities = rec.communities
        /\ job.groups = task.groups
        /\ job.restricted = (rec.data = "record" /\ IsRestricted(row))

VerdictHolds ==
    rec.status = "validated" =>
        /\ rec.existing => repo.state # "absent"
        /\ repo.state # "absent" => rec.existing \/ unrecorded
        /\ rec.checked = "delete" => rec.existing /\ rec.data # "record"
        /\ rec.checked = "import" =>
               /\ rec.files = row.files
               /\ rec.communities = row.communities
               /\ rec.data = "record"
               /\ PermissionErrors(row) = {}
               /\ IsRestricted(row) => task.groups \subseteq Role

(* No update is published without a record's payload. *)
UpdatesHavePayload ==
    pc = "commit" /\ job.mode = "import" /\ job.existing => rec.data = "record"

VInv == NewRowsAreNew /\ RunsAreOfRec /\ VerdictHolds /\ UpdatesHavePayload

LEMMA VInvInit == ValidatedInit => VInv
BY DEF ValidatedInit, Init, NewRec, VInv, NewRowsAreNew, RunsAreOfRec, VerdictHolds,
   UpdatesHavePayload

(* No error at all means that every check found what it looked for.        *)
LEMMA NoErrors ==
    ASSUME row \in Row(File), task.mode \in { "import", "delete" },
           NewRowsAreNew, rec.status = "created",
           SerializerErrors(row, task.mode) = {},
           ValidationErrors(row, task.mode, repo.state, reachable, task.groups) = {}
    PROVE  /\ row.id <=> repo.state # "absent"
           /\ task.mode = "delete" => row.id
           /\ task.mode = "import" =>
                  /\ FilesAccessible(row.files, reachable) = row.files
                  /\ CommunityIds(row.communities) = row.communities
                  /\ row.sound
                  /\ PermissionErrors(row) = {}
                  /\ IsRestricted(row) => task.groups \subseteq Role
<1>1. IsProvided(row, task.mode)
  BY DEF ValidationErrors
<1>2. /\ ExistingErrors(row, task.mode, repo.state) = {}
      /\ task.mode = "import" =>
             /\ FileErrors(row.files, reachable) = {}
             /\ CommunityErrors(row.communities) = {}
             /\ PermissionErrors(row) = {}
             /\ SoundnessErrors(row) = {}
             /\ GroupErrors(row, task.groups) = {}
  BY <1>1 DEF ValidationErrors
<1>3. task.mode = "delete" => row.id
  BY DEF SerializerErrors
<1>4. row.id <=> repo.state # "absent"
  BY <1>2, <1>3 DEF ExistingErrors, NewRowsAreNew
<1>5. FileErrors(row.files, reachable) = {} => FilesAccessible(row.files, reachable) = row.files
  BY DEF FileErrors, FilesAccessible
<1>6. CommunityErrors(row.communities) = {} => CommunityIds(row.communities) = row.communities
  BY DEF CommunityErrors, CommunityIds
<1>7. SoundnessErrors(row) = {} => row.sound
  BY DEF SoundnessErrors
<1>8. GroupErrors(row, task.groups) = {} => (IsRestricted(row) => task.groups \subseteq Role)
  BY DEF GroupErrors
<1>9. QED
  BY <1>2, <1>3, <1>4, <1>5, <1>6, <1>7, <1>8

LEMMA ValidateStep ==
    ASSUME RecordTypeOK, VInv, Validate
    PROVE  VInv'
<1> DEFINE refused == SerializerErrors(row, task.mode)
           errs == ValidationErrors(row, task.mode, repo.state, reachable, task.groups)
<1>1. /\ rec' = IF refused # {} THEN RefusedBySerializer(refused) ELSE Checked(task.mode, errs)
      /\ rec.status = "created"
  BY DEF Validate
<1>2. /\ repo' = repo /\ pc' = pc /\ row' = row /\ task' = task /\ job' = job
      /\ pc = "idle" /\ NewRowsAreNew
  BY DEF Validate, vars, VInv, RunsAreOfRec
<1>3. row \in Row(File) /\ task.mode \in { "import", "delete" } /\ row.id \in BOOLEAN
      /\ rec \in Rec
  BY DEF RecordTypeOK, Task, Row, Rec
<1>4. rec'.status # "created"
  BY <1>1, <1>3 DEF RefusedBySerializer, Checked, Rec
<1>5. VerdictHolds'
  <2> SUFFICES ASSUME rec'.status = "validated"
               PROVE  VerdictHolds'
    BY DEF VerdictHolds
  <2>1. refused = {} /\ rec' = Checked(task.mode, errs)
    BY <1>1, <1>3 DEF RefusedBySerializer, Rec
  <2>2. errs = {}
    BY <2>1 DEF Checked
  <2>3. /\ row.id <=> repo.state # "absent"
        /\ task.mode = "delete" => row.id
        /\ task.mode = "import" =>
               /\ FilesAccessible(row.files, reachable) = row.files
               /\ CommunityIds(row.communities) = row.communities
               /\ row.sound
               /\ PermissionErrors(row) = {}
               /\ IsRestricted(row) => task.groups \subseteq Role
    BY <1>1, <1>2, <1>3, <2>1, <2>2, NoErrors
  <2>4. PermissionErrors(row)' = PermissionErrors(row) /\ IsRestricted(row)' = IsRestricted(row)
    BY <1>2
  <2> HIDE DEF refused, errs
  <2>5. /\ rec'.existing = row.id /\ rec'.checked = task.mode
        /\ task.mode = "import" =>
               /\ rec'.files = FilesAccessible(row.files, reachable)
               /\ rec'.communities = CommunityIds(row.communities)
               /\ rec'.data = IF row.sound THEN "record" ELSE "none"
        /\ task.mode = "delete" => rec'.data # "record"
    BY <2>1 DEF Checked
  <2>6. QED
    BY <1>2, <1>3, <2>3, <2>4, <2>5 DEF VerdictHolds
<1>6. QED
  BY <1>2, <1>4, <1>5 DEF VInv, NewRowsAreNew, RunsAreOfRec, UpdatesHavePayload

(* The user and the world leave alone what a verdict is about.             *)
LEMMA WorldStep ==
    ASSUME RecordTypeOK, VInv,
           (\E w \in SubmittedRow : Submit(w)) \/ UpdateTask \/ (\E f \in File : LoseFile(f))
    PROVE  VInv'
<1> USE DEF VInv, NewRowsAreNew, RunsAreOfRec, VerdictHolds, UpdatesHavePayload
<1>1. CASE \E w \in SubmittedRow : Submit(w)
  BY <1>1 DEF Submit, NewRec, vars
<1>2. CASE UpdateTask
  <2>1. /\ repo' = repo /\ pc' = pc /\ row' = row /\ job' = job /\ rec' = rec
        /\ task'.groups = task.groups /\ unrecorded' = unrecorded
    BY <1>2 DEF UpdateTask, vars, RecordTypeOK, Task
  <2>2. PermissionErrors(row)' = PermissionErrors(row) /\ IsRestricted(row)' = IsRestricted(row)
    BY <2>1
  <2>3. QED
    BY <2>1, <2>2
<1>3. CASE \E f \in File : LoseFile(f)
  <2>1. /\ repo' = repo /\ pc' = pc /\ row' = row /\ job' = job /\ rec' = rec /\ task' = task
        /\ unrecorded' = unrecorded
    BY <1>3 DEF LoseFile, vars
  <2>2. PermissionErrors(row)' = PermissionErrors(row) /\ IsRestricted(row)' = IsRestricted(row)
    BY <2>1
  <2>3. QED
    BY <2>1, <2>2
<1>4. QED
  BY <1>1, <1>2, <1>3

LEMMA StartStep ==
    ASSUME RecordTypeOK, VInv, Run
    PROVE  VInv'
<1> USE DEF VInv, NewRowsAreNew, RunsAreOfRec, VerdictHolds, UpdatesHavePayload
<1>1. /\ repo' = repo /\ row' = row /\ task' = task /\ job' = JobOf /\ pc = "idle"
      /\ unrecorded' = unrecorded
      /\ pc' = IF JobOf.validated THEN "begin" ELSE "idle"
      /\ rec' = IF JobOf.validated THEN rec ELSE [rec EXCEPT !.status = "success", !.errors = {}]
  BY DEF Run, Begin
<1>2. PermissionErrors(row)' = PermissionErrors(row) /\ IsRestricted(row)' = IsRestricted(row)
  BY <1>1
<1>3. CASE rec.status = "validated"
  <2>1. rec' = rec /\ pc' = "begin"
    BY <1>1, <1>3 DEF JobOf
  <2>2. QED
    BY <1>1, <1>2, <1>3, <2>1 DEF JobOf
<1>4. CASE rec.status # "validated"
  <2>1. pc' = "idle" /\ rec'.status = "success"
    BY <1>1, <1>4 DEF JobOf, RecordTypeOK
  <2>2. QED
    BY <2>1
<1>5. QED
  BY <1>3, <1>4

LEMMA RunCallStep ==
    ASSUME VInv, RunCall
    PROVE  VInv'
<1> USE DEF VInv, NewRowsAreNew, RunsAreOfRec, VerdictHolds, UpdatesHavePayload
<1>1. /\ repo' = repo /\ job' = job /\ row' = row /\ task' = task /\ rec' = rec
      /\ unrecorded' = unrecorded /\ pc # "idle"
      /\ pc' = "commit" => job.mode = "delete" \/ (job.existing => rec.data = "record")
  BY DEF RunCall, checkVars, CreateRecord, UpdateRecord, DeleteRecord,
     GrantRestrictedAccess, InitFiles, AddFile, AddToCommunity, PublishRecord, Call,
     PayloadAccepted
<1>2. PermissionErrors(row)' = PermissionErrors(row) /\ IsRestricted(row)' = IsRestricted(row)
  BY <1>1
<1>3. QED
  BY <1>1, <1>2

(* What is committed is there; that it is, the importer record is not told.*)
LEMMA RunCommitsStep ==
    ASSUME IInv, VInv, RunCommits
    PROVE  VInv'
<1> USE DEF VInv, NewRowsAreNew, RunsAreOfRec, VerdictHolds, UpdatesHavePayload
<1>1. /\ job' = job /\ row' = row /\ task' = task /\ rec' = rec /\ unrecorded' = TRUE
      /\ pc = "commit" /\ pc' = "committed"
  BY DEF RunCommits, Commit
<1>2. repo'.state # "absent"
  BY CommitStep DEF RunCommits
<1>3. PermissionErrors(row)' = PermissionErrors(row) /\ IsRestricted(row)' = IsRestricted(row)
  BY <1>1
<1>4. QED
  BY <1>1, <1>2, <1>3

LEMMA EndRunStep ==
    ASSUME RecordTypeOK, VInv, RunSucceeds \/ RunFails \/ OutcomeIsLost \/ RunDies
    PROVE  VInv'
<1> USE DEF VInv, NewRowsAreNew, RunsAreOfRec, VerdictHolds, UpdatesHavePayload
<1>1. pc # "idle" /\ pc' = "idle" /\ repo' = repo /\ row' = row /\ task' = task
  BY DEF RunSucceeds, RunFails, OutcomeIsLost, RunDies, EndRun, checkVars, Return, Fail,
     PostCommitFails, Crash, Finish
<1>2. CASE RunSucceeds \/ RunFails \/ OutcomeIsLost
  <2>1. rec'.status \in { "success", "import_failed" }
    BY <1>2 DEF RunSucceeds, RunFails, OutcomeIsLost, EndRun, RecordTypeOK
  <2>2. QED
    BY <1>1, <2>1
<1>3. CASE RunDies
  <2>1. rec' = rec /\ unrecorded' = unrecorded
    BY <1>3 DEF RunDies, checkVars
  <2>2. PermissionErrors(row)' = PermissionErrors(row) /\ IsRestricted(row)' = IsRestricted(row)
    BY <1>1
  <2>3. QED
    BY <1>1, <2>1, <2>2
<1>4. QED
  BY <1>2, <1>3

LEMMA VInvHolds == ValidatedSpec => []VInv
<1>1. IInv /\ RecordTypeOK /\ VInv /\ [ValidatedNext]_allVars => VInv'
  <2> SUFFICES ASSUME IInv, RecordTypeOK, VInv, [ValidatedNext]_allVars
               PROVE  VInv'
    OBVIOUS
  <2>1. CASE UNCHANGED allVars
    <3>1. /\ repo' = repo /\ pc' = pc /\ row' = row /\ job' = job /\ rec' = rec
          /\ task' = task /\ unrecorded' = unrecorded
      BY <2>1 DEF allVars, vars, checkVars
    <3>2. PermissionErrors(row)' = PermissionErrors(row) /\ IsRestricted(row)' = IsRestricted(row)
      BY <3>1
    <3>3. QED
      BY <3>1, <3>2 DEF VInv, NewRowsAreNew, RunsAreOfRec, VerdictHolds, UpdatesHavePayload
  <2>2. CASE ValidatedNext
    BY <2>2, WorldStep, ValidateStep, StartStep, RunCallStep, RunCommitsStep, EndRunStep
       DEF ValidatedNext, RunGoesOn
  <2>3. QED
    BY <2>1, <2>2
<1>2. QED
  BY <1>1, VInvInit, RecordTypeOKHolds, IInvHolds, ValidatedRunIsRun, PTL DEF ValidatedSpec

(***************************************************************************)
(* A validated record names the repository record if and only if there is  *)
(* one, when it is validated and whenever it is run; unless an earlier run *)
(* of it died between its commit and the write of its outcome.             *)
(***************************************************************************)
THEOREM ValidatedNamesExistingHolds == ValidatedSpec => []ValidatedNamesExisting
<1>1. VInv => ValidatedNamesExisting
  BY DEF VInv, VerdictHolds, ValidatedNamesExisting
<1>2. QED
  BY <1>1, VInvHolds, PTL

(* No file and no community of a validated row is dropped on the way.      *)
THEOREM ValidatedIsCompleteHolds == ValidatedSpec => []ValidatedIsComplete
<1>1. VInv => ValidatedIsComplete
  BY DEF VInv, VerdictHolds, ValidatedIsComplete
<1>2. QED
  BY <1>1, VInvHolds, PTL

(* There is a file to add as long as files are added. *)
FilesAreLeft == pc = "add_file" => left # {}

LEMMA FilesAreLeftStep ==
    ASSUME FilesAreLeft, [Next]_vars
    PROVE  FilesAreLeft'
BY DEF FilesAreLeft, Next, Work, CreateRecord, UpdateRecord, DeleteRecord,
   GrantRestrictedAccess, InitFiles, AddFile, AddToCommunity, PublishRecord, Commit,
   Return, PostCommitFails, Fail, Crash, Finish, Begin, Call, vars

LEMMA FilesAreLeftHolds == Spec => []FilesAreLeft
<1>1. Init => FilesAreLeft
  BY DEF Init, FilesAreLeft
<1>2. QED
  BY <1>1, FilesAreLeftStep, PTL DEF Spec

(* Where a run of what was validated is, the next call finds what it needs.*)
LEMMA NextCallAccepted ==
    ASSUME IInv, VInv, FilesAreLeft, pc # "idle", job.mode = rec.checked,
           repo.state \in { "absent", "published" },
           job.files \subseteq reachable, KeysDiffer(job.files)
    PROVE  CallAccepted
<1>0. job.mode \in { "import", "delete" }
  BY DEF IInv, TypeOK, Job, Atomic!Job
<1>1. /\ rec.status = "validated" /\ job.existing = rec.existing
      /\ rec.existing => repo.state # "absent"
  BY DEF VInv, RunsAreOfRec, VerdictHolds
<1>2. /\ job.mode = "delete" => rec.existing
      /\ job.mode = "import" => rec.data = "record"
  BY <1>1 DEF VInv, VerdictHolds
<1>3. ASSUME pc = "begin"
      PROVE  IF job.mode = "delete" THEN DeletionAccepted ELSE job.existing => UpdateAccepted
  <2>1. tx = repo
    BY <1>3 DEF IInv, UnitOfWork
  <2>2. QED
    BY <1>0, <1>1, <1>2, <2>1 DEF DeletionAccepted, UpdateAccepted
<1>4. ~ Refused
  BY DEF Refused, Missing
<1>5. ASSUME pc = "init_files"
      PROVE  KeysDiffer(left)
  BY <1>5 DEF IInv, UnitOfWork
<1>6. ASSUME pc = "add_file"
      PROVE  left # {} /\ left \subseteq reachable
  BY <1>6 DEF IInv, UnitOfWork, FilesAreLeft
<1>7. ASSUME pc = "publish"
      PROVE  IF left = {} THEN PayloadAccepted ELSE ~ job.existing
  <2>1. job.mode = "import" /\ left \subseteq ToSubmit
    BY <1>7 DEF IInv, UnitOfWork, OnlyImportsGoOn
  <2>2. QED
    BY <1>2, <2>1 DEF PayloadAccepted, ToSubmit
<1>8. QED
  BY <1>3, <1>4, <1>5, <1>6, <1>7 DEF CallAccepted

(***************************************************************************)
(* No call of a run refuses what validation accepted, or what an earlier   *)
(* call or run left behind, whatever was imported, deleted or lost before. *)
(***************************************************************************)
THEOREM NothingIsRefusedHolds == ValidatedSpec => []NothingIsRefused
<1>1. IInv /\ VInv /\ FilesAreLeft => NothingIsRefused
  BY NextCallAccepted DEF NothingIsRefused
<1>2. QED
  BY <1>1, IInvHolds, VInvHolds, FilesAreLeftHolds, ValidatedRunIsRun, PTL

(* A change of the repository is a commit of what was validated.           *)
LEMMA ChangeIsCommit ==
    ASSUME IInv, VInv, RecordTypeOK, [ValidatedNext]_allVars, repo' # repo
    PROVE  /\ repo' = Atomic!Applied(job, repo)
           /\ pc = "commit" /\ rec.status = "validated" /\ job.existing = rec.existing
<1>1. [Next]_vars
  BY RunStep
<1>2. Next
  BY <1>1 DEF vars
<1>3. Commit
  BY <1>2, OnlyCommitChanges
<1>4. pc = "commit"
  BY <1>3 DEF Commit
<1>5. QED
  BY <1>3, <1>4, CommitStep DEF VInv, RunsAreOfRec

(***************************************************************************)
(* An importer record makes a second repository record only when it is run *)
(* again after a run whose commit was not written to it, for any rows,     *)
(* however often any importer record is run and whatever raises.           *)
(***************************************************************************)
THEOREM NoSecondRecordHolds == ValidatedSpec => NoSecondRecord
<1>1. IInv /\ VInv /\ RecordTypeOK /\ [ValidatedNext]_allVars =>
          [repo'.number # repo.number /\ repo.state # "absent" => unrecorded]_allVars
  <2> SUFFICES ASSUME IInv, VInv, RecordTypeOK, [ValidatedNext]_allVars,
                      repo'.number # repo.number, repo.state # "absent"
               PROVE  unrecorded
    BY Zenon
  <2>1. /\ repo' = Atomic!Applied(job, repo)
        /\ rec.status = "validated" /\ job.existing = rec.existing
    BY ChangeIsCommit
  <2>2. repo \in Repo
    BY DEF IInv, TypeOK
  <2>3. job.mode # "delete" /\ ~ job.existing
    BY <2>1, <2>2 DEF Atomic!Applied, Atomic!Imported, Repo, Atomic!Repo
  <2>4. QED
    BY <2>1, <2>3 DEF VInv, VerdictHolds
<1>2. QED
  BY <1>1, VInvHolds, RecordTypeOKHolds, IInvHolds, ValidatedRunIsRun, PTL
     DEF ValidatedSpec, NoSecondRecord

(***************************************************************************)
(* Nothing is imported that was not validated as an import, although the   *)
(* mode is read when the run starts and may have changed.                  *)
(***************************************************************************)
THEOREM ImportsWereCheckedHolds == ValidatedSpec => ImportsWereChecked
<1>1. IInv /\ VInv /\ RecordTypeOK /\ [ValidatedNext]_allVars =>
          [repo' # repo /\ job.mode = "import" => rec.checked = "import"]_allVars
  <2> SUFFICES ASSUME IInv, VInv, RecordTypeOK, [ValidatedNext]_allVars,
                      repo' # repo, job.mode = "import"
               PROVE  rec.checked = "import"
    BY Zenon
  <2>1. pc = "commit" /\ rec.status = "validated" /\ rec.checked \in { "import", "delete" }
    BY ChangeIsCommit DEF RecordTypeOK
  <2>2. QED
    BY <2>1 DEF VInv, VerdictHolds, UpdatesHavePayload, RunsAreOfRec
<1>2. QED
  BY <1>1, VInvHolds, RecordTypeOKHolds, IInvHolds, ValidatedRunIsRun, PTL
     DEF ValidatedSpec, ImportsWereChecked

(***************************************************************************)
(* No public record gets into a restricted community by an import, nor     *)
(* does a restricted one without the site's groups.                        *)
(***************************************************************************)
THEOREM RestrictionsHoldHolds == ValidatedSpec => RestrictionsHold
<1> DEFINE Kept == IF repo'.number = repo.number THEN repo.communities ELSE {}
<1>1. IInv /\ VInv /\ RecordTypeOK /\ [ValidatedNext]_allVars =>
          [repo' # repo /\ job.mode = "import" =>
               /\ "record" \in row.access \/
                      repo'.communities \cap RestrictedCommunity \subseteq Kept
               /\ IsRestricted(row) => job.groups \subseteq repo'.grants \cap Role]_allVars
  <2> SUFFICES ASSUME IInv, VInv, RecordTypeOK, [ValidatedNext]_allVars,
                      repo' # repo, job.mode = "import"
               PROVE  /\ "record" \in row.access \/
                             repo'.communities \cap RestrictedCommunity \subseteq Kept
                      /\ IsRestricted(row) => job.groups \subseteq repo'.grants \cap Role
    BY Zenon
  <2>1. /\ repo' = Atomic!Applied(job, repo) /\ pc = "commit"
        /\ rec.status = "validated" /\ rec.checked \in { "import", "delete" }
    BY ChangeIsCommit DEF RecordTypeOK
  <2>2. rec.checked = "import"
    BY <2>1 DEF VInv, VerdictHolds, UpdatesHavePayload, RunsAreOfRec
  <2>3. /\ rec.communities = row.communities /\ rec.data = "record"
        /\ PermissionErrors(row) = {}
        /\ IsRestricted(row) => task.groups \subseteq Role
        /\ job.groups = task.groups /\ job.communities = rec.communities
        /\ job.restricted = IsRestricted(row)
    BY <2>1, <2>2 DEF VInv, VerdictHolds, RunsAreOfRec, IsRestricted
  <2>4. \/ repo'.communities = repo.communities /\ repo'.number = repo.number
        \/ repo'.communities \in { {}, row.communities }
    <3>1. /\ repo \in Repo /\ AnotherRecord(repo) \in Repo
          /\ AnotherRecord(repo).communities = {}
      BY AnotherRecordType DEF IInv, TypeOK
    <3>2. repo' = Atomic!Imported(job, IF job.existing THEN repo ELSE AnotherRecord(repo))
      BY <2>1 DEF Atomic!Applied, AnotherRecord
    <3>3. CASE job.existing
      BY <3>2, <3>3 DEF Atomic!Imported
    <3>4. CASE ~ job.existing
      BY <2>3, <3>1, <3>2, <3>4 DEF Atomic!Imported
    <3>5. QED
      BY <3>3, <3>4
  <2>5. /\ "record" \notin row.access =>
               CommunityIds(row.communities) \cap RestrictedCommunity = {}
        /\ RestrictedCommunity \subseteq Community
    BY <2>3, CommunityAssumption DEF PermissionErrors
  <2>6. "record" \notin row.access => row.communities \cap RestrictedCommunity = {}
    BY <2>5 DEF CommunityIds
  <2>7. IsRestricted(row) => job.groups \subseteq repo'.grants \cap Role
    <3>1. SUFFICES ASSUME IsRestricted(row)
                   PROVE  job.groups \subseteq repo'.grants \cap Role
      OBVIOUS
    <3>2. job.restricted /\ job.groups \subseteq Role
      BY <2>3, <3>1
    <3>3. job.groups \subseteq repo'.grants
      BY <2>1, <3>2 DEF Atomic!Applied, Atomic!Imported
    <3>4. QED
      BY <3>2, <3>3
  <2>8. QED
    BY <2>4, <2>6, <2>7
<1>2. QED
  BY <1>1, VInvHolds, RecordTypeOKHolds, IInvHolds, ValidatedRunIsRun, PTL
     DEF ValidatedSpec, RestrictionsHold
=============================================================================
