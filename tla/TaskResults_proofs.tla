------------------------ MODULE TaskResults_proofs --------------------------
(***************************************************************************)
(* What a task's status says about its records and about the repository:   *)
(* a validated task stands for its whole file, nothing is applied twice,   *)
(* and a success is one, entry by entry.  So the task implements           *)
(* TaskLifecycle, the abstract task.                                       *)
(***************************************************************************)
EXTENDS OneRun_proofs

(* A record belongs to the call that made it, so later calls have none. *)
RowsHaveRuns == \A r \in RecordId : r[1] > calls => rec[r] = "absent"

(* While a file is read, the records are those of this file. *)
OneFile ==
    \A c \in Call : run[c].kind = "validate" /\ RunActive(c) =>
        \A r \in RecordId : /\ r[1] = c => rec[r] # "deleted"
                            /\ r \in Live => r[1] = c

(* Once it has been read, they are all there. *)
FileWasRead ==
    \/ status \in { "validated", "importing", "success" }
    \/ \E c \in Call, k \in Copy : FinalizerActive(c, k)
    => IsWholeFile

(* What is being imported was validated, what is being validated is new. *)
PhasesOfRows ==
    /\ status = "importing" =>
           \A r \in Live : rec[r] \in { "validated", "success", "import_failed" }
    /\ status = "validating" =>
           \A r \in Live : rec[r] \notin { "success", "import_failed" }

(* A load does not make the task loadable again, and nothing else loads. *)
LoadsAreLast ==
    \A c \in Call, k \in Copy : finalizer[c][k].pc = "refreshing" =>
        finalizer[c][k].status \notin
            IF run[c].kind = "load" THEN { "validating", "validated" }
                                    ELSE { "importing" }

(* What can still be loaded, or is about to be run, was not applied. *)
NotYetApplied ==
    /\ status \in { "validating", "validated" } => \A r \in Live : applied[r] = 0
    /\ \A c \in Call, r \in RecordId :
           /\ ijob[c][r] \in { "queued", "running" } => applied[r] = 0
           /\ run[c].kind = "load" /\ RunActive(c) =>
                  /\ r \in run[c].todo => applied[r] = 0
                  /\ ~ run[c].queued /\ r \in Live => applied[r] = 0

(* A job finds its record validated, so it never skips it. *)
NothingIsSkipped ==
    \A c \in Call, r \in RecordId : ijob[c][r] \notin { "skipping", "overtaken" }

(* A success was applied and is linked, and a task says so of every record. *)
SuccessIsApplied ==
    \A r \in Live : rec[r] = "success" => applied[r] = 1 /\ r \in linked

SuccessOfAll ==
    /\ status = "success" => \A r \in Live : rec[r] = "success"
    /\ \A c \in Call, k \in Copy :
           /\ finalizer[c][k].pc = "refreshing"
           /\ finalizer[c][k].status = "success"
           => \A r \in Live : rec[r] = "success"

Results ==
    /\ RowsHaveRuns /\ OneFile /\ FileWasRead
    /\ PhasesOfRows /\ LoadsAreLast
    /\ NotYetApplied /\ AppliedAtMostOnce
    /\ NothingIsSkipped /\ SuccessIsApplied /\ SuccessOfAll

RInv == IInv /\ AnyInv /\ Results

USE DEF IInv, Safe, RInv, Results

-----------------------------------------------------------------------------
(* Steps that leave rows and the repository alone.                         *)

(* A status that says nothing false of the rows as they are. *)
TrueStatus(s) ==
    /\ s \in { "validated", "importing", "success" } => IsWholeFile
    /\ s = "importing" =>
           \A r \in Live : rec[r] \in { "validated", "success", "import_failed" }
    /\ s = "validating" =>
           \A r \in Live : rec[r] \notin { "success", "import_failed" }
    /\ s \in { "validating", "validated" } => \A r \in Live : applied[r] = 0
    /\ s = "success" => \A r \in Live : rec[r] = "success"

(* A fan-out that has nothing to publish that was applied. *)
NewLoad(f) ==
    /\ f.kind = "load"
    /\ \A r \in RecordId :
           /\ r \in f.todo => applied[r] = 0
           /\ ~ f.queued /\ r \in Live => applied[r] = 0

(* A finaliser whose status is true of the rows it has read. *)
TrueFollower(c, f) ==
    /\ f.status \notin IF run'[c].kind = "load" THEN { "validating", "validated" }
                                             ELSE { "importing" }
    /\ f.status = "success" => \A r \in Live : rec[r] = "success"

LEMMA UntouchedRows ==
    ASSUME TypeOK, Results, UNCHANGED << rec, linked, applied >>,
           calls' \in { calls, calls + 1 },
           status' = status \/ TrueStatus(status'),
           \A c \in Call :
               \/ run'[c] = run[c]
               \/ ~ RunActive(c)'
               \/ /\ RunActive(c)
                  /\ run'[c].kind = run[c].kind
                  /\ run'[c].todo = run[c].todo
                  /\ run'[c].queued = run[c].queued
               \/ NewLoad(run'[c]),
           \A c \in Call, r \in RecordId :
               \/ ijob'[c][r] = ijob[c][r]
               \/ ijob'[c][r] \in { "none", "committed", "failed", "ended" }
               \/ ijob'[c][r] \in { "queued", "running" } /\ applied[r] = 0,
           \A c \in Call, k \in Copy :
               /\ FinalizerActive(c, k)' => FinalizerActive(c, k) \/ IsWholeFile
               /\ finalizer'[c][k].pc = "refreshing" =>
                      \/ /\ finalizer'[c][k] = finalizer[c][k]
                         /\ run'[c].kind = run[c].kind
                      \/ TrueFollower(c, finalizer'[c][k])
    PROVE  Results'
  <1>1. Live' = Live /\ IsWholeFile' = IsWholeFile
    BY DEF Live, IsWholeFile
  <1>2. RowsHaveRuns'
    BY DEF RowsHaveRuns, RecordId, Call, TypeOK
  <1>3. OneFile'
    BY <1>1 DEF OneFile, RunActive, NewLoad
  <1>4. FileWasRead'
    BY <1>1 DEF FileWasRead, TrueStatus
  <1>5. PhasesOfRows'
    BY <1>1 DEF PhasesOfRows, TrueStatus
  <1>6. LoadsAreLast'
    BY DEF LoadsAreLast, TrueFollower
  <1>7. NotYetApplied'
    <2>1. status' \in { "validating", "validated" } =>
              \A r \in Live : applied[r] = 0
      BY DEF NotYetApplied, TrueStatus
    <2>2. ASSUME NEW c \in Call, NEW r \in RecordId,
                 run'[c].kind = "load", RunActive(c)'
          PROVE  /\ r \in run'[c].todo => applied[r] = 0
                 /\ ~ run'[c].queued /\ r \in Live => applied[r] = 0
      BY <2>2 DEF NotYetApplied, RunActive, NewLoad
    <2>3. QED
      BY <1>1, <2>1, <2>2 DEF NotYetApplied
  <1>8. AppliedAtMostOnce' /\ SuccessIsApplied'
    BY <1>1 DEF AppliedAtMostOnce, SuccessIsApplied
  <1>9. NothingIsSkipped'
    BY DEF NothingIsSkipped
  <1>10. SuccessOfAll'
    BY <1>1 DEF SuccessOfAll, TrueStatus, TrueFollower
  <1>11. QED
    BY <1>2, <1>3, <1>4, <1>5, <1>6, <1>7, <1>8, <1>9, <1>10

(* A fan-out moves on. *)
LEMMA RunPcResults ==
    ASSUME RInv, NEW c \in Call, NEW pc, RunActive(c),
           run' = [run EXCEPT ![c].pc = pc],
           UNCHANGED << status, calls, rec, linked, applied, ijob, finalizer >>
    PROVE  Results'
  <1>1. /\ run'[c].kind = run[c].kind
        /\ run'[c].todo = run[c].todo
        /\ run'[c].queued = run[c].queued
        /\ \A d \in Call : d # c => run'[d] = run[d]
    BY RunPcFacts
  <1>2. \A d \in Call, k \in Copy : FinalizerActive(d, k)' = FinalizerActive(d, k)
    BY DEF FinalizerActive
  <1>3. QED
    BY <1>1, <1>2, UntouchedRows

(* A fan-out hands over to a finaliser, once the whole file is there. *)
LEMMA FollowResults ==
    ASSUME RInv, NEW c \in Call, NEW k \in Copy, NEW pc, NEW sent,
           RunActive(c), IsWholeFile, run' = [run EXCEPT ![c].pc = pc],
           finalizer' = [finalizer EXCEPT ![c][k] = FinalizerSent(sent)],
           UNCHANGED << status, calls, rec, linked, applied, ijob >>
    PROVE  Results'
  <1>1. /\ run'[c].kind = run[c].kind
        /\ run'[c].todo = run[c].todo
        /\ run'[c].queued = run[c].queued
        /\ \A d \in Call : d # c => run'[d] = run[d]
    BY RunPcFacts
  <1>2. FinalizerSent(sent).pc # "refreshing"
    BY FinalizerSentFacts DEF NoFinalizer
  <1>3. \A d \in Call, l \in Copy :
            \/ finalizer'[d][l] = finalizer[d][l]
            \/ finalizer'[d][l].pc # "refreshing"
    BY <1>2 DEF TypeOK
  <1>4. QED
    BY <1>1, <1>3, UntouchedRows

(* Fan-outs only end, no finaliser starts, and none has read anything new. *)
LEMMA FinalizersResults ==
    ASSUME RInv, UNCHANGED << calls, rec, linked, applied, ijob >>,
           status' = status \/ TrueStatus(status'),
           \A c \in Call :
               \/ run'[c] = run[c]
               \/ ~ RunActive(c)' /\ run'[c].kind = run[c].kind,
           \A c \in Call, k \in Copy :
               /\ FinalizerActive(c, k)' => FinalizerActive(c, k)
               /\ finalizer'[c][k].pc = "refreshing" =>
                      finalizer'[c][k] = finalizer[c][k]
    PROVE  Results'
  BY UntouchedRows

-----------------------------------------------------------------------------
(* Fan-outs.                                                               *)

(* The file has been read to its end: the records are all there. *)
LEMMA AllEntriesRead ==
    ASSUME RInv, NEW c \in Call, run[c].kind = "validate", RunActive(c),
           Unread(c) = {}
    PROVE  IsWholeFile
  <1>1. \A e \in Entry : <<c, e>> \in RecordId /\ rec[<<c, e>>] # "absent"
    BY DEF Unread, RecordId
  <1>2. \A e \in Entry : <<c, e>> \in Live
    BY <1>1 DEF OneFile, Live, TypeOK, RowState
  <1>3. \A r \in Live : r \in {c} \X Entry
    BY DEF OneFile, Live, RecordId
  <1>4. Live = {c} \X Entry
    BY <1>2, <1>3
  <1>5. QED
    BY <1>4 DEF IsWholeFile

LEMMA FollowValidationResults ==
    ASSUME RInv, NEW c \in Call, FollowValidation(c) PROVE Results'
  <1>1. PICK pc, sent :
            /\ run' = [run EXCEPT ![c].pc = pc]
            /\ finalizer' = [finalizer EXCEPT ![c][1] = FinalizerSent(sent)]
    BY DEF FollowValidation
  <1>2. run[c].kind = "validate" /\ RunActive(c) /\ Unread(c) = {} /\ 1 \in Copy
    BY DEF FollowValidation, Reading, RunActive, Copy
  <1>3. QED
    BY <1>1, <1>2, AllEntriesRead, FollowResults DEF FollowValidation

(* A load runs while the task is importing, so of a whole file. *)
LEMMA LoadIsWhole ==
    ASSUME RInv, NEW c \in Call, run[c].kind = "load", Active(c)
    PROVE  status = "importing" /\ IsWholeFile
  BY DEF OneRun, RunningStatus, FileWasRead

LEMMA FollowImportResults ==
    ASSUME RInv, NEW c \in Call, FollowImport(c) PROVE Results'
  <1>1. PICK pc, sent :
            /\ run' = [run EXCEPT ![c].pc = pc]
            /\ finalizer' = [finalizer EXCEPT ![c][1] = FinalizerSent(sent)]
    BY DEF FollowImport
  <1>2. run[c].kind = "load" /\ RunActive(c) /\ Active(c) /\ 1 \in Copy
    BY DEF FollowImport, Loading, RunActive, Active, Copy
  <1>3. QED
    BY <1>1, <1>2, LoadIsWhole, FollowResults DEF FollowImport

LEMMA SettleByFollowingResults ==
    ASSUME RInv, NEW c \in Call, SettleByFollowing(c) PROVE Results'
  <1>1. PICK sent :
            finalizer' = [finalizer EXCEPT ![c][2] = FinalizerSent(sent)]
    BY DEF SettleByFollowing
  <1>2. run[c].kind = "load" /\ RunActive(c) /\ Active(c) /\ 2 \in Copy
    BY DEF SettleByFollowing, LoadsAreValidated, RunActive, Active, Copy
  <1>3. QED
    BY <1>1, <1>2, LoadIsWhole, FollowResults DEF SettleByFollowing

LEMMA AbandonRunResults ==
    ASSUME RInv, NEW c \in Call, AbandonRun(c) PROVE Results'
  <1>1. /\ run'[c].pc = "ended" /\ run'[c].kind = run[c].kind
        /\ \A d \in Call : d # c => run'[d] = run[d]
    BY RunPcFacts DEF AbandonRun
  <1>2. status' = status \/ TrueStatus(status')
    BY DEF AbandonRun, TrueStatus
  <1>3. \A d \in Call, k \in Copy :
            /\ FinalizerActive(d, k)' => FinalizerActive(d, k)
            /\ finalizer'[d][k].pc = "refreshing" =>
                   finalizer'[d][k] = finalizer[d][k]
    BY OvertakenFacts DEF AbandonRun, FinalizerActive
  <1>4. QED
    BY <1>1, <1>2, <1>3, FinalizersResults DEF AbandonRun, RunActive

LEMMA ListRecordsResults ==
    ASSUME RInv, NEW c \in Call, ListRecords(c) PROVE Results'
  <1>1. RunActive(c) /\ run[c].kind = "load" /\ ~ run[c].queued
    BY DEF ListRecords, RunActive, LoadsAreValidated
  <1>2. CASE run' = [run EXCEPT ![c].pc = "settling"]
    BY <1>1, <1>2, RunPcResults DEF ListRecords
  <1>3. CASE run' = [run EXCEPT ![c].pc = "publishing", ![c].todo = Live]
    <2>1. /\ run'[c].kind = "load" /\ run'[c].todo = Live /\ ~ run'[c].queued
          /\ \A d \in Call : d # c => run'[d] = run[d]
      BY <1>1, <1>3 DEF TypeOK, RunState
    <2>2. NewLoad(run'[c])
      BY <1>1, <2>1 DEF NewLoad, NotYetApplied
    <2>3. \A d \in Call, k \in Copy : FinalizerActive(d, k)' = FinalizerActive(d, k)
      BY DEF ListRecords, FinalizerActive
    <2>4. QED
      BY <1>1, <2>1, <2>2, <2>3, UntouchedRows DEF ListRecords
  <1>4. QED
    BY <1>2, <1>3 DEF ListRecords

LEMMA PublishImportResults ==
    ASSUME RInv, NEW c \in Call, NEW r \in RecordId, PublishImport(c, r)
    PROVE  Results'
  <1>1. /\ RunActive(c) /\ run[c].kind = "load" /\ r \in run[c].todo
        /\ applied[r] = 0
    BY DEF PublishImport, Loading, RunActive, NotYetApplied
  <1>2. PICK pc : run' = [run EXCEPT ![c].pc = pc, ![c].todo = run[c].todo \ {r},
                                     ![c].queued = TRUE]
    BY DEF PublishImport
  <1>3. /\ run'[c].kind = "load" /\ run'[c].todo = run[c].todo \ {r}
        /\ run'[c].queued
        /\ \A d \in Call : d # c => run'[d] = run[d]
    BY <1>1, <1>2 DEF TypeOK, RunState
  <1>4. NewLoad(run'[c])
    BY <1>1, <1>3 DEF NewLoad, NotYetApplied
  <1>5. PICK s \in { "none", "queued" } : ijob' = [ijob EXCEPT ![c][r] = s]
    BY Zenon DEF PublishImport, JobSent
  <1>6. \A d \in Call, q \in RecordId :
            \/ ijob'[d][q] = ijob[d][q]
            \/ ijob'[d][q] = "none"
            \/ ijob'[d][q] = "queued" /\ applied[q] = 0
    BY <1>1, <1>5 DEF TypeOK
  <1>7. \A d \in Call, k \in Copy : FinalizerActive(d, k)' = FinalizerActive(d, k)
    BY DEF PublishImport, FinalizerActive
  <1>8. QED
    BY <1>1, <1>3, <1>4, <1>6, <1>7, UntouchedRows DEF PublishImport

(* A task is only calculated as a success when all its records are one. *)
LEMMA CalculatedAsSuccess ==
    ASSUME TypeOK, CalculateTaskState(RecordsStatus) = "success"
    PROVE  \A r \in Live : rec[r] = "success"
  <1>1. RecordsStatus \in Counts
    BY CountsDescribeRecords DEF RecordsStatus, Counts
  <1>2. \A n \in Counts :
            CalculateTaskState(n) = "success" =>
                \A s \in ImporterRecordState \ {"success"} : n[s] = 0
    <2> SUFFICES ASSUME NEW n \in Counts, CalculateTaskState(n) = "success"
                 PROVE  \A s \in ImporterRecordState \ {"success"} : n[s] = 0
      OBVIOUS
    <2>1. /\ n["created"] \in Nat /\ n["validating"] \in Nat
          /\ n["serializer_validation_failed"] \in Nat
          /\ n["validation_failed"] \in Nat /\ n["validated"] \in Nat
          /\ n["import_failed"] \in Nat /\ n["success"] \in Nat
      BY DEF Counts, ImporterRecordState
    <2>2. n["success"] = TotalRecords(n)
      BY DEF CalculateTaskState
    <2>3. /\ n["created"] = 0 /\ n["validating"] = 0
          /\ n["serializer_validation_failed"] = 0
          /\ n["validation_failed"] = 0 /\ n["validated"] = 0
          /\ n["import_failed"] = 0
      <3> DEFINE a == n["created"]
                 b == n["validating"]
                 d == n["serializer_validation_failed"]
                 e == n["validation_failed"]
                 f == n["validated"]
                 g == n["import_failed"]
                 h == n["success"]
      <3>1. h = a + b + d + e + f + g + h
        BY <2>2, Zenon DEF TotalRecords
      <3>2. /\ a \in Nat /\ b \in Nat /\ d \in Nat /\ e \in Nat
            /\ f \in Nat /\ g \in Nat /\ h \in Nat
        BY <2>1, Zenon
      <3> HIDE DEF a, b, d, e, f, g, h
      <3>3. a = 0 /\ b = 0 /\ d = 0 /\ e = 0 /\ f = 0 /\ g = 0
        BY <3>1, <3>2
      <3>4. QED
        BY <3>3, Zenon DEF a, b, d, e, f, g
    <2>4. QED
      BY <2>3 DEF ImporterRecordState
  <1>3. \A s \in ImporterRecordState \ {"success"} : RecordsStatus[s] = 0
    BY <1>1, <1>2
  <1>4. QED
    BY <1>3, CountsDescribeRecords DEF Live

(* A load that published nothing finds its records as they were validated. *)
LEMMA SettleByRefreshingResults ==
    ASSUME RInv, NEW c \in Call, SettleByRefreshing(c) PROVE Results'
  <1>1. RunActive(c) /\ run[c].kind = "load" /\ ~ run[c].queued /\ Active(c)
    BY DEF SettleByRefreshing, RunActive, LoadsAreValidated, Active
  <1>2. CASE UNCHANGED << status, finalizer >> /\ run' = [run EXCEPT ![c].pc = "abandoning"]
    BY <1>1, <1>2, RunPcResults DEF SettleByRefreshing
  <1>3. CASE /\ status' = TaskStatusFromRecords(RecordsStatus, NoPhase)
             /\ finalizer' = Overtaken
             /\ run' = [run EXCEPT ![c].pc = "ended"]
    <2>1. status' = CalculateTaskState(RecordsStatus)
      BY <1>3 DEF TaskStatusFromRecords, NoPhase, Phases
    <2>2. IsWholeFile /\ \A r \in Live : rec[r] = "validated" /\ applied[r] = 0
      BY <1>1, LoadIsWhole DEF LoadsAreValidated, NotYetApplied, Live
    <2>3. TrueStatus(status')
      BY <2>1, <2>2, CalculatedAsSuccess DEF TrueStatus
    <2>4. /\ run'[c].pc = "ended" /\ run'[c].kind = run[c].kind
          /\ \A d \in Call : d # c => run'[d] = run[d]
      BY <1>3, RunPcFacts
    <2>5. \A d \in Call, k \in Copy :
              /\ FinalizerActive(d, k)' => FinalizerActive(d, k)
              /\ finalizer'[d][k].pc # "refreshing"
      BY <1>3, OvertakenFacts DEF FinalizerActive
    <2>6. QED
      BY <2>3, <2>4, <2>5, FinalizersResults DEF SettleByRefreshing, RunActive
  <1>4. QED
    BY <1>2, <1>3 DEF SettleByRefreshing

(* The steps of a fan-out that leave the rows alone. *)
LEMMA RunResults ==
    ASSUME RInv, NEW c \in Call,
           \/ OpenMetadataFile(c) \/ ReadFails(c) \/ FollowValidation(c)
           \/ AbandonRun(c) \/ ListRecords(c) \/ FollowImport(c)
           \/ SettleByFollowing(c) \/ SettleByRefreshing(c) \/ CrashRun(c)
           \/ \E e \in Entry : PublishValidation(c, e)
           \/ \E r \in RecordId : PublishImport(c, r)
    PROVE  Results'
  <1>1. CASE \/ OpenMetadataFile(c) \/ ReadFails(c) \/ CrashRun(c)
             \/ \E e \in Entry : PublishValidation(c, e)
    <2>1. PICK pc : run' = [run EXCEPT ![c].pc = pc]
      BY <1>1 DEF OpenMetadataFile, ReadFails, CrashRun, PublishValidation
    <2>2. RunActive(c)
      BY <1>1 DEF OpenMetadataFile, ReadFails, Reading, CrashRun,
         PublishValidation, RunActive
    <2>3. UNCHANGED << status, calls, rec, linked, applied, ijob, finalizer >>
      BY <1>1 DEF OpenMetadataFile, ReadFails, CrashRun, PublishValidation
    <2>4. QED
      BY <2>1, <2>2, <2>3, RunPcResults
  <1>2. QED
    BY <1>1, FollowValidationResults, AbandonRunResults, ListRecordsResults,
       FollowImportResults, SettleByFollowingResults, SettleByRefreshingResults,
       PublishImportResults

-----------------------------------------------------------------------------
(* Finalisers.                                                             *)

(* Once nothing is pending, a load's status is that of its results. *)
LEMMA CalculatedInPhase ==
    ASSUME TypeOK, PhasesOfRows, NEW c \in Call, status = RunningStatus(c)
    PROVE  TaskStatusFromRecords(RecordsStatus, Phase(c)) \notin
               IF run[c].kind = "load" THEN { "validating", "validated" }
                                       ELSE { "importing" }
  <1> DEFINE n == RecordsStatus
  <1>1. \A s \in ImporterRecordState : n[s] \in Nat
    BY CountsDescribeRecords
  <1>2. HasPendingRecords(n, Phase(c)) =>
            TaskStatusFromRecords(n, Phase(c)) = RunningStatus(c)
    BY StatusRead
  <1>3. ~ HasPendingRecords(n, Phase(c)) =>
            TaskStatusFromRecords(n, Phase(c)) = CalculateTaskState(n)
    BY Zenon DEF TaskStatusFromRecords
  <1>4. CASE run[c].kind = "load"
    <2>1. status = "importing"
      BY <1>4 DEF RunningStatus
    <2>2. n["created"] = 0
      BY <2>1, CountsDescribeRecords DEF PhasesOfRows, Live, ImporterRecordState
    <2>3. ~ HasPendingRecords(n, Phase(c)) => n["validated"] = 0
      <3>1. \A r \in RecordId : rec[r] = "validated" => r \in Live
        BY DEF Live, ImporterRecordState
      <3>2. QED
        BY <1>4, <3>1, PendingDescribesRecords, CountsDescribeRecords
        DEF ImporterRecordState
    <2>4. ~ HasPendingRecords(n, Phase(c)) =>
              CalculateTaskState(n) \notin { "validating", "validated" }
      <3> HIDE DEF n
      <3>1. QED
        BY <2>2, <2>3 DEF CalculateTaskState
    <2>5. QED
      BY <1>2, <1>3, <1>4, <2>4 DEF RunningStatus
  <1>5. CASE run[c].kind # "load"
    <2>1. status = "validating"
      BY <1>5 DEF RunningStatus
    <2>2. n["import_failed"] = 0 /\ n["success"] = 0
      <3>1. \A r \in RecordId : rec[r] \notin { "import_failed", "success" }
        BY <2>1 DEF PhasesOfRows, Live, ImporterRecordState
      <3>2. QED
        BY <3>1, CountsDescribeRecords DEF ImporterRecordState
    <2>3. CalculateTaskState(n) # "importing"
      <3> HIDE DEF n
      <3>1. QED
        BY <2>2 DEF CalculateTaskState
    <2>4. QED
      BY <1>2, <1>3, <1>5, <2>3 DEF RunningStatus
  <1>6. QED
    BY <1>4, <1>5

LEMMA ReadRecordsResults ==
    ASSUME RInv, NEW c \in Call, NEW k \in Copy, ReadRecords(c, k)
    PROVE  Results'
  <1> DEFINE s == TaskStatusFromRecords(RecordsStatus, Phase(c))
             p == HasPendingRecords(RecordsStatus, Phase(c))
  <1>1. FinalizerActive(c, k) /\ Active(c) /\ status = RunningStatus(c)
    BY DEF ReadRecords, FinalizerActive, Active, OneRun
  <1>2. /\ finalizer'[c][k].status = s
        /\ \A d \in Call, l \in Copy :
               <<d, l>> # <<c, k>> => finalizer'[d][l] = finalizer[d][l]
    <2> HIDE DEF s, p
    <2>1. finalizer' = [finalizer EXCEPT ![c][k] =
              [@ EXCEPT !.pc = "refreshing", !.status = s, !.pending = p]]
      BY Zenon DEF ReadRecords, s, p
    <2>2. QED
      BY <2>1 DEF TypeOK, FinalizerState
  <1>3. run' = run
    BY DEF ReadRecords
  <1>4. s = "success" => \A r \in Live : rec[r] = "success"
    <2>1. p => s = RunningStatus(c)
      BY StatusRead
    <2>2. ~ p => s = CalculateTaskState(RecordsStatus)
      BY Zenon DEF TaskStatusFromRecords
    <2>3. RunningStatus(c) # "success"
      BY DEF RunningStatus
    <2> HIDE DEF s, p
    <2>4. QED
      BY <2>1, <2>2, <2>3, CalculatedAsSuccess
  <1>5. s \notin IF run[c].kind = "load" THEN { "validating", "validated" }
                                         ELSE { "importing" }
    BY <1>1, CalculatedInPhase
  <1> HIDE DEF s, p
  <1>6. TrueFollower(c, finalizer'[c][k])
    BY <1>2, <1>3, <1>4, <1>5 DEF TrueFollower
  <1>7. \A d \in Call, l \in Copy :
            /\ FinalizerActive(d, l)' => FinalizerActive(d, l)
            /\ \/ finalizer'[d][l] = finalizer[d][l]
               \/ TrueFollower(d, finalizer'[d][l])
    BY <1>1, <1>2, <1>6 DEF FinalizerActive
  <1>8. QED
    BY <1>3, <1>7, UntouchedRows DEF ReadRecords

(* What a finaliser writes is still true of the rows. *)
LEMMA WriteStatusResults ==
    ASSUME RInv, NEW c \in Call, NEW k \in Copy, WriteStatus(c, k)
    PROVE  Results'
  <1> DEFINE f == finalizer[c][k]
  <1>1. FinalizerActive(c, k) /\ Active(c) /\ f.pc = "refreshing" /\ status' = f.status
    BY DEF WriteStatus, FinalizerActive, Active
  <1>2. IsWholeFile /\ status = RunningStatus(c)
    BY <1>1 DEF FileWasRead, OneRun
  <1>3. TrueStatus(f.status)
    <2>1. f.status = "importing" => status = "importing"
      BY <1>1, <1>2 DEF LoadsAreLast, RunningStatus
    <2>2. f.status \in { "validating", "validated" } => status = "validating"
      BY <1>1, <1>2 DEF LoadsAreLast, RunningStatus
    <2>3. f.status = "success" => \A r \in Live : rec[r] = "success"
      BY <1>1 DEF SuccessOfAll
    <2> HIDE DEF f
    <2>4. QED
      BY <1>2, <2>1, <2>2, <2>3 DEF TrueStatus, PhasesOfRows, NotYetApplied
  <1>4. PICK lost \in MayFail("publish_follow") :
            finalizer' = [Overtaken EXCEPT ![c][k] = Reschedule(f, lost)]
    BY DEF WriteStatus
  <1>5. Reschedule(f, lost).pc # "refreshing"
    BY DEF Reschedule, EndedFinalizer, NoFinalizer
  <1>6. \A d \in Call, l \in Copy :
            /\ FinalizerActive(d, l)' => FinalizerActive(d, l)
            /\ finalizer'[d][l].pc # "refreshing"
    <2> HIDE DEF f
    <2>1. /\ finalizer'[c][k] = Reschedule(f, lost)
          /\ \A d \in Call, l \in Copy :
                 <<d, l>> # <<c, k>> => finalizer'[d][l] = Overtaken[d][l]
      BY <1>4, OvertakenType
    <2>2. QED
      BY <1>1, <1>5, <2>1, OvertakenFacts DEF FinalizerActive
  <1> HIDE DEF f
  <1>7. QED
    BY <1>1, <1>3, <1>6, FinalizersResults DEF WriteStatus

(* The steps of a finaliser. *)
LEMMA FinalizerResults ==
    ASSUME RInv, NEW c \in Call, NEW k \in Copy,
           \/ ReadRecords(c, k) \/ WriteStatus(c, k) \/ RefreshFails(c, k)
           \/ GiveUp(c, k) \/ CrashFinalizer(c, k)
    PROVE  Results'
  <1>1. CASE RefreshFails(c, k) \/ GiveUp(c, k) \/ CrashFinalizer(c, k)
    <2>1. status' = status \/ TrueStatus(status')
      BY <1>1 DEF RefreshFails, GiveUp, CrashFinalizer, TrueStatus
    <2>2. \/ finalizer' = [finalizer EXCEPT ![c][k] = EndedFinalizer]
          \/ finalizer' = [Overtaken EXCEPT ![c][k] = EndedFinalizer]
      BY <1>1 DEF RefreshFails, GiveUp, CrashFinalizer
    <2>3. /\ finalizer'[c][k].pc = "ended"
          /\ \A d \in Call, l \in Copy : <<d, l>> # <<c, k>> =>
                 finalizer'[d][l] \in { finalizer[d][l], Overtaken[d][l] }
      BY <2>2, OvertakenType DEF EndedFinalizer, NoFinalizer, TypeOK
    <2>4. \A d \in Call, l \in Copy :
              /\ FinalizerActive(d, l)' => FinalizerActive(d, l)
              /\ finalizer'[d][l].pc = "refreshing" =>
                     finalizer'[d][l] = finalizer[d][l]
      BY <2>3, OvertakenFacts DEF FinalizerActive
    <2>5. UNCHANGED << calls, rec, linked, applied, ijob, run >>
      BY <1>1 DEF RefreshFails, GiveUp, CrashFinalizer
    <2>6. QED
      BY <2>1, <2>4, <2>5, FinalizersResults
  <1>2. QED
    BY <1>1, ReadRecordsResults, WriteStatusResults

-----------------------------------------------------------------------------
(* Import jobs.                                                            *)

(* The job that imports a record is the only one.  While the record is     *)
(* there, nothing else is about to run it, or takes it for a success.      *)
LEMMA ImportingFacts ==
    ASSUME RInv, NEW c \in Call, NEW r \in RecordId, ImportJobActive(c, r)
    PROVE  /\ \A d \in Call : ImportJobActive(d, r) => d = c
           /\ \A d \in Call : run[d].kind = "load" /\ RunActive(d) =>
                  /\ r \notin run[d].todo
                  /\ r \in Live => run[d].queued
           /\ r \in Live =>
                  /\ status \in { "importing", "damaged" } /\ rec[r] = "validated"
                  /\ \A d \in Call, k \in Copy :
                         finalizer[d][k].pc = "refreshing" =>
                             finalizer[d][k].status # "success"
  <1>1. /\ run[c].kind = "load" /\ run[c].queued
        /\ r \in Live => /\ rec[r] = "validated" /\ c = calls
                         /\ status \in { "importing", "damaged" }
    BY DEF ImportsAreLoaded
  <1>2. \A d \in Call : ImportJobActive(d, r) => d = c
    BY DEF OneJob
  <1>3. ASSUME NEW d \in Call, run[d].kind = "load", RunActive(d)
        PROVE  r \notin run[d].todo /\ (r \in Live => run[d].queued)
    <2>1. d = calls
      BY <1>3 DEF OneRun, Active
    <2>2. r \in run[d].todo => rec[r] = "validated" /\ ~ ImportJobActive(d, r)
      BY <1>3 DEF LoadsAreValidated
    <2>3. r \in run[d].todo => r \in Live
      BY <2>2 DEF Live, ImporterRecordState
    <2>4. QED
      BY <1>1, <2>1, <2>2, <2>3
  <1>4. r \in Live => \A d \in Call, k \in Copy :
                         finalizer[d][k].pc = "refreshing" =>
                             finalizer[d][k].status # "success"
    BY <1>1 DEF SuccessOfAll
  <1>5. QED
    BY <1>1, <1>2, <1>3, <1>4

(* A job moves on, and has not applied anything yet unless it ends. *)
LEMMA JobResults ==
    ASSUME RInv, NEW c \in Call, NEW r \in RecordId,
           NEW s \in { "running", "failed", "ended" }, JobMoves(c, r, s),
           s = "running" => ijob[c][r] = "queued",
           UNCHANGED << status, calls, rec, linked, applied, run, finalizer >>
    PROVE  Results'
  <1>1. \A d \in Call, q \in RecordId :
            ijob'[d][q] = IF <<d, q>> = <<c, r>> THEN s ELSE ijob[d][q]
    BY DEF JobMoves, TypeOK
  <1>2. \A d \in Call, q \in RecordId :
            \/ ijob'[d][q] = ijob[d][q]
            \/ ijob'[d][q] \in { "failed", "ended" }
            \/ ijob'[d][q] = "running" /\ applied[q] = 0
    BY <1>1 DEF NotYetApplied
  <1>3. \A d \in Call, k \in Copy : FinalizerActive(d, k)' = FinalizerActive(d, k)
    BY DEF FinalizerActive
  <1>4. QED
    BY <1>2, <1>3, UntouchedRows

(* A record is applied for the first time. *)
LEMMA CommitRunResults ==
    ASSUME RInv, NEW c \in Call, NEW r \in RecordId, CommitRun(c, r)
    PROVE  Results'
  <1>1. ImportJobActive(c, r) /\ applied[r] = 0
    BY DEF CommitRun, ImportJobActive, NotYetApplied
  <1>2. /\ r \in Live => /\ status \in { "importing", "damaged" }
                         /\ rec[r] = "validated"
        /\ \A d \in Call : ImportJobActive(d, r) => d = c
        /\ \A d \in Call : run[d].kind = "load" /\ RunActive(d) =>
               /\ r \notin run[d].todo
               /\ r \in Live => run[d].queued
    BY <1>1, ImportingFacts
  <1>3. \A q \in RecordId : applied'[q] = IF q = r THEN 1 ELSE applied[q]
    BY <1>1 DEF CommitRun, TypeOK
  <1>4. PICK s \in { "failed", "committed" } : JobMoves(c, r, s)
    BY Zenon DEF CommitRun
  <1>5. \A d \in Call, q \in RecordId :
            ijob'[d][q] = IF <<d, q>> = <<c, r>> THEN s ELSE ijob[d][q]
    BY <1>4 DEF JobMoves, TypeOK
  <1>6. /\ UNCHANGED << status, calls, rec, linked, run, finalizer >>
        /\ Live' = Live /\ IsWholeFile' = IsWholeFile
        /\ \A d \in Call : RunActive(d)' = RunActive(d)
        /\ \A d \in Call, k \in Copy : FinalizerActive(d, k)' = FinalizerActive(d, k)
    BY DEF CommitRun, Live, IsWholeFile, RunActive, FinalizerActive
  <1>7. /\ RowsHaveRuns' /\ OneFile' /\ FileWasRead' /\ PhasesOfRows'
        /\ LoadsAreLast' /\ SuccessOfAll'
    BY <1>6 DEF RowsHaveRuns, OneFile, FileWasRead, PhasesOfRows, LoadsAreLast,
       SuccessOfAll
  <1>8. NotYetApplied'
    <2>1. ASSUME NEW d \in Call, NEW q \in RecordId,
                 ijob'[d][q] \in { "queued", "running" }
          PROVE  applied'[q] = 0
      BY <1>2, <1>3, <1>5, <2>1 DEF NotYetApplied, ImportJobActive
    <2>2. ASSUME NEW d \in Call, NEW q \in RecordId,
                 run'[d].kind = "load", RunActive(d)'
          PROVE  /\ q \in run'[d].todo => applied'[q] = 0
                 /\ ~ run'[d].queued /\ q \in Live => applied'[q] = 0
      BY <1>2, <1>3, <1>6, <2>2 DEF NotYetApplied
    <2>3. ASSUME status' \in { "validating", "validated" }, NEW q \in Live
          PROVE  applied'[q] = 0
      <3>1. q # r /\ q \in RecordId /\ applied[q] = 0
        BY <1>2, <1>6, <2>3 DEF NotYetApplied, Live
      <3>2. QED
        BY <1>3, <3>1
    <2>4. QED
      BY <1>6, <2>1, <2>2, <2>3 DEF NotYetApplied
  <1>9. AppliedAtMostOnce' /\ SuccessIsApplied'
    BY <1>2, <1>3, <1>6 DEF AppliedAtMostOnce, SuccessIsApplied, Live
  <1>10. NothingIsSkipped'
    BY <1>5 DEF NothingIsSkipped
  <1>11. QED
    BY <1>7, <1>8, <1>9, <1>10

(* Nothing is overtaken where nothing is skipped. *)
LEMMA NobodyOvertaken ==
    ASSUME RInv, NEW r PROVE JobsOvertaken(r) = ijob
  <1>1. \A d \in Call, q \in RecordId :
            (IF q = r /\ ijob[d][q] = "skipping" THEN "overtaken" ELSE ijob[d][q])
                = ijob[d][q]
    BY DEF NothingIsSkipped
  <1>2. QED
    BY <1>1 DEF JobsOvertaken, TypeOK

(* A record gets its result: a success if it was applied and is linked. *)
LEMMA EndImportResults ==
    ASSUME RInv, NEW c \in Call, NEW r \in RecordId,
           NEW s \in { "success", "import_failed" },
           NEW link \in { linked, linked \cup {r}, linked \ {r} },
           ImportJobActive(c, r), EndImport(c, r, s, link),
           s = "success" => applied[r] > 0 /\ r \in link
    PROVE  Results'
  <1> SUFFICES ASSUME r \in Live PROVE Results'
    <2>1. CASE r \notin Live
      <3>1. JobMoves(c, r, "ended")
        BY <2>1 DEF EndImport, JobMoves
      <3>2. UNCHANGED << status, calls, rec, linked, applied, run, finalizer >>
        BY <2>1 DEF EndImport
      <3>3. QED
        BY <3>1, <3>2, JobResults
    <2>2. QED
      BY <2>1
  <1>1. /\ status \in { "importing", "damaged" } /\ rec[r] = "validated"
        /\ \A d \in Call, k \in Copy :
               finalizer[d][k].pc = "refreshing" =>
                   finalizer[d][k].status # "success"
    BY ImportingFacts
  <1>2. /\ \A q \in RecordId : rec'[q] = IF q = r THEN s ELSE rec[q]
        /\ Live' = Live /\ IsWholeFile' = IsWholeFile
    BY <1>1 DEF EndImport, TypeOK, Live, ImporterRecordState, IsWholeFile
  <1>3. \A d \in Call, q \in RecordId :
            ijob'[d][q] = IF <<d, q>> = <<c, r>> THEN "ended" ELSE ijob[d][q]
    BY <1>1, NobodyOvertaken DEF EndImport, TypeOK
  <1>4. /\ linked' = link
        /\ UNCHANGED << status, calls, applied, run, finalizer >>
        /\ \A d \in Call : RunActive(d)' = RunActive(d)
        /\ \A d \in Call, k \in Copy : FinalizerActive(d, k)' = FinalizerActive(d, k)
    BY <1>1 DEF EndImport, RunActive, FinalizerActive
  <1>5. RowsHaveRuns' /\ OneFile' /\ FileWasRead'
    BY <1>1, <1>2, <1>4 DEF RowsHaveRuns, OneFile, FileWasRead
  <1>6. PhasesOfRows' /\ LoadsAreLast' /\ SuccessOfAll'
    BY <1>1, <1>2, <1>4 DEF PhasesOfRows, LoadsAreLast, SuccessOfAll, Live
  <1>7. NotYetApplied' /\ NothingIsSkipped'
    BY <1>1, <1>2, <1>3, <1>4 DEF NotYetApplied, NothingIsSkipped
  <1>8. AppliedAtMostOnce'
    BY <1>4 DEF AppliedAtMostOnce
  <1>9. SuccessIsApplied'
    <2>1. applied[r] \in Nat /\ applied[r] <= 1
      BY DEF AppliedAtMostOnce, TypeOK
    <2>2. QED
      BY <1>2, <1>4, <2>1 DEF SuccessIsApplied, Live
  <1>10. QED
    BY <1>5, <1>6, <1>7, <1>8, <1>9

(* The steps of an import job. *)
LEMMA ImportResults ==
    ASSUME RInv, NEW c \in Call, NEW r \in RecordId,
           \/ BeginImport(c, r) \/ CommitRun(c, r) \/ RollbackRun(c, r)
           \/ RecordSuccess(c, r) \/ RecordFailure(c, r) \/ RecordSkip(c, r)
           \/ RecordOvertaken(c, r) \/ RecordNothing(c, r) \/ CrashImport(c, r)
    PROVE  Results'
  <1>1. CASE BeginImport(c, r)
    <2>1. ijob[c][r] = "queued" /\ (r \in Live => rec[r] = "validated")
      BY <1>1, ImportingFacts DEF BeginImport, ImportJobActive
    <2>2. JobMoves(c, r, "running") \/ JobMoves(c, r, "ended")
      BY <1>1, <2>1 DEF BeginImport
    <2>3. QED
      BY <1>1, <2>1, <2>2, JobResults DEF BeginImport
  <1>2. CASE RollbackRun(c, r)
    BY <1>2, JobResults DEF RollbackRun
  <1>3. CASE RecordNothing(c, r) \/ CrashImport(c, r)
    BY <1>3, JobResults DEF RecordNothing, CrashImport
  <1>4. CASE RecordSkip(c, r) \/ RecordOvertaken(c, r)
    BY <1>4 DEF RecordSkip, RecordOvertaken, NothingIsSkipped
  <1>5. CASE RecordSuccess(c, r)
    <2>1. ImportJobActive(c, r) /\ applied[r] > 0
      BY <1>5 DEF RecordSuccess, ImportJobActive, AnyInv, CommittedWasApplied
    <2>2. PICK s \in { "success", "import_failed" },
               link \in { linked, linked \cup {r} } :
              EndImport(c, r, s, link) /\ (s = "success" => r \in link)
      BY <1>5, Zenon DEF RecordSuccess
    <2>3. QED
      BY <2>1, <2>2, EndImportResults
  <1>6. CASE RecordFailure(c, r)
    BY <1>6, EndImportResults DEF RecordFailure, ImportJobActive
  <1>7. QED
    BY <1>1, <1>2, <1>3, <1>4, <1>5, <1>6, CommitRunResults

-----------------------------------------------------------------------------
(* Validations.                                                            *)

(* A new validation starts without records, and follows nothing. *)
LEMMA StartValidationResults == ASSUME RInv, StartValidation PROVE Results'
  <1>1. \A d \in Call : ~ Active(d)
    BY DEF StartValidation, MayValidate, OneRun, RunningStatus, RunningStates
  <1>2. /\ OneRun'
        /\ \A d \in Call : RunActive(d)' => d = calls + 1
        /\ run'[calls + 1].kind = "validate" /\ calls + 1 \in Call
    BY StartStep DEF StartValidation, MayValidate
  <1>3. calls' = calls + 1 /\ calls \in Nat
    BY DEF StartValidation, NewCall, TypeOK
  <1>4. /\ \A r \in RecordId :
               /\ rec'[r] = "absent" <=> rec[r] = "absent"
               /\ rec'[r] \notin ImporterRecordState
        /\ Live' = {}
    <2>1. \A r \in RecordId :
               /\ rec'[r] = "absent" <=> rec[r] = "absent"
               /\ rec'[r] \notin ImporterRecordState
      BY DEF StartValidation, Purged, Live, ImporterRecordState
    <2>2. QED
      BY <2>1 DEF Live
  <1>5. \A d \in Call, l \in Copy :
            ~ FinalizerActive(d, l)' /\ finalizer'[d][l].pc # "refreshing"
    <2>1. finalizer' = Overtaken
      BY DEF StartValidation
    <2>2. QED
      BY <1>1, <2>1, OvertakenFacts DEF Active, FinalizerActive
  <1>6. UNCHANGED << linked, applied, ijob >> /\ status' = "validating"
    BY DEF StartValidation
  <1>7. RowsHaveRuns' /\ OneFile'
    <2>1. \A r \in RecordId : r[1] > calls + 1 => r[1] > calls
      BY <1>3 DEF RecordId, Call
    <2>2. \A r \in RecordId : r[1] = calls + 1 => rec'[r] = "absent"
      BY <1>3, <1>4 DEF RowsHaveRuns
    <2>3. QED
      BY <1>2, <1>3, <1>4, <2>1, <2>2 DEF RowsHaveRuns, OneFile
  <1>8. FileWasRead' /\ PhasesOfRows' /\ LoadsAreLast' /\ SuccessOfAll'
    BY <1>4, <1>5, <1>6 DEF FileWasRead, PhasesOfRows, LoadsAreLast, SuccessOfAll
  <1>9. NotYetApplied'
    <2>1. \A d \in Call : run'[d].kind = "load" => ~ RunActive(d)'
      BY <1>2
    <2>2. QED
      BY <1>4, <1>6, <2>1 DEF NotYetApplied
  <1>10. AppliedAtMostOnce' /\ NothingIsSkipped' /\ SuccessIsApplied'
    BY <1>4, <1>6 DEF AppliedAtMostOnce, NothingIsSkipped, SuccessIsApplied
  <1>11. QED
    BY <1>7, <1>8, <1>9, <1>10

(* An entry becomes a record, which no job has touched. *)
LEMMA CreateRecordResults ==
    ASSUME RInv, NEW c \in Call, NEW e \in Entry, CreateRecord(c, e)
    PROVE  Results'
  <1> DEFINE r == <<c, e>>
  <1>1. /\ r \in RecordId /\ r[1] = c /\ rec[r] = "absent"
        /\ run[c].kind = "validate" /\ RunActive(c) /\ Active(c)
    BY DEF CreateRecord, Reading, Unread, RecordId, RunActive, Active
  <1>2. /\ status = "validating" /\ c = calls
        /\ \A d \in Call : Active(d) => d = c
        /\ \A d \in Call, k \in Copy : ~ FinalizerActive(d, k)
    BY <1>1 DEF OneRun, OneFollower, RunningStatus, Active
  <1>3. applied[r] = 0
    BY <1>1
    DEF AnyInv, AbsentIsUntouched, OnlyValidatedIsApplied, TypeOK
  <1>4. /\ run'[c].kind = run[c].kind
        /\ \A d \in Call : d # c => run'[d] = run[d]
    BY RunPcFacts DEF CreateRecord
  <1>5. UNCHANGED << status, calls, linked, applied, ijob, finalizer >>
    BY DEF CreateRecord
  <1>6. \A q \in RecordId : rec'[q] = IF q = r THEN "created" ELSE rec[q]
    BY <1>1 DEF CreateRecord, TypeOK
  <1>7. Live' = Live \cup {r}
    BY <1>1, <1>6 DEF Live, ImporterRecordState
  <1>8. \A d \in Call : RunActive(d)' => d = c
    BY <1>2, <1>4 DEF RunActive, Active
  <1> HIDE DEF r
  <1>9. RowsHaveRuns'
    BY <1>1, <1>2, <1>5, <1>6 DEF RowsHaveRuns, TypeOK
  <1>10. OneFile'
    BY <1>1, <1>6, <1>7, <1>8 DEF OneFile
  <1>11. \A d \in Call, k \in Copy :
             ~ FinalizerActive(d, k)' /\ finalizer'[d][k].pc # "refreshing"
    BY <1>2, <1>5 DEF FinalizerActive
  <1>12. FileWasRead' /\ LoadsAreLast' /\ SuccessOfAll'
    BY <1>2, <1>5, <1>11 DEF FileWasRead, LoadsAreLast, SuccessOfAll
  <1>13. PhasesOfRows'
    BY <1>2, <1>5, <1>6, <1>7 DEF PhasesOfRows, Live
  <1>14. NotYetApplied'
    <2>1. \A d \in Call : run'[d].kind = "load" => ~ RunActive(d)'
      BY <1>1, <1>4, <1>8
    <2>2. QED
      BY <1>2, <1>3, <1>5, <1>7, <2>1 DEF NotYetApplied
  <1>15. AppliedAtMostOnce' /\ NothingIsSkipped' /\ SuccessIsApplied'
    BY <1>5, <1>6, <1>7
    DEF AppliedAtMostOnce, NothingIsSkipped, SuccessIsApplied, Live
  <1>16. QED
    BY <1>9, <1>10, <1>12, <1>13, <1>14, <1>15

(* A verdict, while the task is validating or was given up. *)
LEMMA VerdictResults ==
    ASSUME RInv, NEW r \in Live, NEW v \in Verdicts, EndValidation(r),
           WriteRecord(r, v)
    PROVE  Results'
  <1>1. r \in RecordId /\ rec[r] = "created" /\ status \in { "validating", "damaged" }
    BY DEF EndValidation, VerdictsAreFinal, ValidationsOver, Live
  <1>2. UNCHANGED << status, calls, linked, applied, run, finalizer, ijob >>
    BY NobodyOvertaken DEF EndValidation, WriteRecord
  <1>3. \A q \in RecordId : rec'[q] = IF q = r THEN v ELSE rec[q]
    BY <1>1 DEF WriteRecord, TypeOK
  <1>4. /\ v \in ImporterRecordState
        /\ v \notin { "absent", "deleted", "success", "import_failed" }
    BY DEF Verdicts, ImporterRecordState
  <1>5. Live' = Live /\ IsWholeFile' = IsWholeFile
    <2>1. Live' = Live
      BY <1>3, <1>4 DEF Live
    <2>2. QED
      BY <2>1 DEF IsWholeFile
  <1>6. /\ \A d \in Call : RunActive(d)' = RunActive(d)
        /\ \A d \in Call, k \in Copy : FinalizerActive(d, k)' = FinalizerActive(d, k)
    BY <1>2 DEF RunActive, FinalizerActive
  <1>7. RowsHaveRuns' /\ OneFile' /\ FileWasRead'
    BY <1>1, <1>2, <1>3, <1>4, <1>5, <1>6 DEF RowsHaveRuns, OneFile, FileWasRead
  <1>8. PhasesOfRows' /\ LoadsAreLast'
    BY <1>1, <1>2, <1>3, <1>4, <1>5 DEF PhasesOfRows, LoadsAreLast, Live
  <1>9. SuccessOfAll'
    <2>1. \A d \in Call, k \in Copy :
              finalizer[d][k].pc = "refreshing" =>
                  finalizer[d][k].status # "success"
      BY <1>1 DEF SuccessOfAll
    <2>2. QED
      BY <1>1, <1>2, <2>1 DEF SuccessOfAll
  <1>10. NotYetApplied'
    BY <1>2, <1>5, <1>6 DEF NotYetApplied
  <1>11. AppliedAtMostOnce' /\ NothingIsSkipped' /\ SuccessIsApplied'
    BY <1>2, <1>3, <1>4, <1>5
    DEF AppliedAtMostOnce, NothingIsSkipped, SuccessIsApplied, Live
  <1>12. QED
    BY <1>7, <1>8, <1>9, <1>10, <1>11

(* The steps of a validation job. *)
LEMMA ValidationResults ==
    ASSUME RInv, NEW r \in RecordId,
           \/ BeginValidation(r) \/ FailValidation(r)
           \/ EndValidation(r) \/ CrashValidation(r)
    PROVE  Results'
  <1>1. CASE UNCHANGED << rec, ijob >>
    <2>1. UNCHANGED << status, calls, linked, applied, run, finalizer >>
      BY DEF BeginValidation, FailValidation, EndValidation, CrashValidation
    <2>2. \A d \in Call, k \in Copy : FinalizerActive(d, k)' = FinalizerActive(d, k)
      BY <2>1 DEF FinalizerActive
    <2>3. QED
      BY <1>1, <2>1, <2>2, UntouchedRows
  <1>2. ~ FailValidation(r)
    BY DEF FailValidation
  <1>3. QED
    BY <1>1, <1>2, VerdictResults
    DEF BeginValidation, EndValidation, CrashValidation

(* A load starts on the records of a validated file, none of them applied. *)
LEMMA StartLoadingResults == ASSUME RInv, StartLoadingRecords PROVE Results'
  <1>1. /\ run'[calls + 1].kind = "load"
        /\ run'[calls + 1].todo = {} /\ run'[calls + 1].queued = FALSE
        /\ calls + 1 \in Call
    BY StartStep DEF StartLoadingRecords, MayLoad, RunningStates
  <1>2. \A d \in Call : d # calls + 1 => run'[d] = run[d]
    BY <1>1 DEF StartLoadingRecords, Dispatched, TypeOK
  <1>3. /\ status = "validated" /\ status' = "importing" /\ finalizer' = Overtaken
        /\ calls' = calls + 1
        /\ UNCHANGED << rec, linked, applied, ijob >>
    BY DEF StartLoadingRecords, MayLoad, NewCall
  <1>4. IsWholeFile /\ \A r \in Live : rec[r] = "validated" /\ applied[r] = 0
    BY <1>3 DEF FileWasRead, ValidatedRecords, NotYetApplied
  <1>5. NewLoad(run'[calls + 1])
    BY <1>1, <1>4 DEF NewLoad
  <1>6. TrueStatus(status')
    BY <1>3, <1>4 DEF TrueStatus
  <1>7. \A d \in Call, k \in Copy :
            /\ FinalizerActive(d, k)' => FinalizerActive(d, k)
            /\ finalizer'[d][k].pc # "refreshing"
    BY <1>3, OvertakenFacts DEF FinalizerActive
  <1>8. QED
    BY <1>2, <1>3, <1>5, <1>6, <1>7, UntouchedRows

-----------------------------------------------------------------------------
(* Every step, and the theorems.                                           *)

(* A new task has no records. *)
LEMMA InitResults == Init => Results
  <1> SUFFICES ASSUME Init PROVE Results
    OBVIOUS
  <1>1. /\ Live = {}
        /\ \A c \in Call : ~ RunActive(c)
        /\ \A c \in Call, k \in Copy : finalizer[c][k].pc = "none"
        /\ \A c \in Call, r \in RecordId : ijob[c][r] = "none"
    BY DEF Init, Live, ImporterRecordState, RunActive, NoRun, NoFinalizer
  <1>2. RowsHaveRuns /\ OneFile /\ FileWasRead
    BY <1>1 DEF Init, RowsHaveRuns, OneFile, FileWasRead, FinalizerActive
  <1>3. PhasesOfRows /\ LoadsAreLast /\ SuccessOfAll
    BY <1>1 DEF Init, PhasesOfRows, LoadsAreLast, SuccessOfAll
  <1>4. NotYetApplied /\ NothingIsSkipped /\ SuccessIsApplied
    BY <1>1 DEF NotYetApplied, NothingIsSkipped, SuccessIsApplied
  <1>5. AppliedAtMostOnce
    BY DEF Init, AppliedAtMostOnce
  <1>6. QED
    BY <1>2, <1>3, <1>4, <1>5

(* Every step keeps what the rows say. *)
LEMMA NextResults == Steady /\ RInv /\ [Next]_vars => Results'
  <1> SUFFICES ASSUME Steady, RInv, [Next]_vars PROVE Results'
    OBVIOUS
  <1>1. CASE OptionsUpdate
    <2>1. \A c \in Call, k \in Copy :
              /\ FinalizerActive(c, k)' => FinalizerActive(c, k)
              /\ finalizer'[c][k].pc # "refreshing"
      BY <1>1, OvertakenFacts DEF OptionsUpdate, FinalizerActive
    <2>2. QED
      BY <1>1, <2>1, FinalizersResults DEF OptionsUpdate
  <1>2. CASE UserStep
    BY <1>1, <1>2, StartValidationResults, StartLoadingResults
    DEF UserStep, Steady, StatusUpdate, UpdateMetadataFile, UpdateTask, DeleteTask,
        StartRun, NewCall
  <1>3. CASE RunStep
    <2>1. PICK c \in Call :
              \/ OpenMetadataFile(c) \/ ReadFails(c) \/ FollowValidation(c)
              \/ AbandonRun(c) \/ ListRecords(c) \/ FollowImport(c)
              \/ SettleByFollowing(c) \/ SettleByRefreshing(c)
              \/ \E e \in Entry : CreateRecord(c, e) \/ PublishValidation(c, e)
              \/ \E r \in RecordId : PublishImport(c, r)
      BY <1>3, Zenon DEF RunStep
    <2>2. QED
      BY <2>1, RunResults, CreateRecordResults
  <1>4. CASE ValidationStep
    BY <1>4, ValidationResults DEF ValidationStep
  <1>5. CASE ImportStep
    BY <1>5, ImportResults DEF ImportStep
  <1>6. CASE FinalizerStep
    BY <1>6, FinalizerResults DEF FinalizerStep
  <1>7. CASE Crash
    BY <1>7, RunResults, ValidationResults, ImportResults, FinalizerResults
    DEF Crash
  <1>8. CASE UNCHANGED vars
    <2>1. \A c \in Call, k \in Copy : FinalizerActive(c, k)' = FinalizerActive(c, k)
      BY <1>8 DEF vars, FinalizerActive
    <2>2. QED
      BY <1>8, <2>1, FinalizersResults DEF vars
  <1>9. QED
    BY <1>2, <1>3, <1>4, <1>5, <1>6, <1>7, <1>8 DEF Next, SystemStep

LEMMA ResultsHold == ASSUME Steady PROVE Spec => []RInv
  <1>1. IInv /\ AnyInv /\ Results /\ [Next]_vars => Results'
    BY NextResults
  <1>2. RInv <=> IInv /\ AnyInv /\ Results
    OBVIOUS
  <1> HIDE DEF IInv, Safe, RInv, Results
  <1>3. QED
    BY <1>1, <1>2, InitResults, IInvHolds, AnyInvHolds, PTL DEF Spec

(* A task that may be loaded stands for its whole file: its status is only *)
(* calculated once every entry has been read and none is left unvalidated. *)
THEOREM ValidatedIsWholeHolds == ASSUME Steady PROVE Spec => []ValidatedIsWhole
  <1>1. RInv => ValidatedIsWhole
    BY DEF ValidatedIsWhole, FileWasRead, ValidatedRecords
  <1>2. QED
    BY <1>1, ResultsHold, PTL

(* A task that reads as a success applied every entry of its file exactly  *)
(* once, and links each to its repository record, whatever jobs were lost. *)
THEOREM SuccessIsExactHolds == ASSUME Steady PROVE Spec => []SuccessIsExact
  <1>1. RInv => SuccessIsExact
    BY DEF SuccessIsExact, FileWasRead, SuccessOfAll, SuccessIsApplied
  <1>2. QED
    BY <1>1, ResultsHold, PTL

(* No record is applied twice: one job at a time imports it, and a record  *)
(* that was applied is never validated or loaded again.                    *)
THEOREM AppliedAtMostOnceHolds == ASSUME Steady PROVE Spec => []AppliedAtMostOnce
  <1>1. RInv => AppliedAtMostOnce
    OBVIOUS
  <1>2. QED
    BY <1>1, ResultsHold, PTL
-----------------------------------------------------------------------------
(* Where the database and the hooks keep up, a failure left nothing behind.*)

Reliable == Faults \cap { "database", "post_commit" } = {}

(* What failed, or is about to be marked as failed, was not applied. *)
FailuresLeaveNothing ==
    /\ \A r \in Live : rec[r] = "import_failed" => applied[r] = 0
    /\ \A c \in Call, r \in RecordId : ijob[c][r] = "failed" => applied[r] = 0

(* A step without a new failure. *)
LEMMA FailuresKept ==
    ASSUME FailuresLeaveNothing, applied' = applied,
           \A r \in RecordId : rec'[r] = "import_failed" => rec[r] = "import_failed",
           \A c \in Call, r \in RecordId :
               ijob'[c][r] = "failed" => ijob[c][r] = "failed"
    PROVE  FailuresLeaveNothing'
  BY DEF FailuresLeaveNothing, Live, ImporterRecordState

(* The calls fail nothing. *)
LEMMA CallFailures ==
    ASSUME RInv, FailuresLeaveNothing,
           StartValidation \/ StartLoadingRecords \/ OptionsUpdate
    PROVE  FailuresLeaveNothing'
  <1>1. applied' = applied /\ ijob' = ijob /\ (rec' = rec \/ rec' = Purged)
    BY DEF StartValidation, StartLoadingRecords, OptionsUpdate
  <1>2. \A r \in RecordId : rec'[r] = "import_failed" => rec[r] = "import_failed"
    BY <1>1 DEF Purged
  <1>3. QED
    BY <1>1, <1>2, FailuresKept

(* Nor do the fan-outs. *)
LEMMA RunFailures ==
    ASSUME RInv, FailuresLeaveNothing, NEW c \in Call,
           \/ OpenMetadataFile(c) \/ ReadFails(c) \/ FollowValidation(c)
           \/ AbandonRun(c) \/ ListRecords(c) \/ FollowImport(c)
           \/ SettleByFollowing(c) \/ SettleByRefreshing(c) \/ CrashRun(c)
           \/ \E e \in Entry : CreateRecord(c, e) \/ PublishValidation(c, e)
           \/ \E r \in RecordId : PublishImport(c, r)
    PROVE  FailuresLeaveNothing'
  <1>1. applied' = applied
    BY DEF OpenMetadataFile, ReadFails, FollowValidation, AbandonRun,
       ListRecords, FollowImport, SettleByFollowing, SettleByRefreshing,
       CrashRun, CreateRecord, PublishValidation, PublishImport
  <1>2. \A r \in RecordId : rec'[r] = "import_failed" => rec[r] = "import_failed"
    BY DEF OpenMetadataFile, ReadFails, FollowValidation, AbandonRun,
       ListRecords, FollowImport, SettleByFollowing, SettleByRefreshing,
       CrashRun, CreateRecord, PublishValidation, PublishImport, TypeOK
  <1>3. \A d \in Call, r \in RecordId :
            ijob'[d][r] = "failed" => ijob[d][r] = "failed"
    <2>1. CASE ijob' = ijob
      BY <2>1
    <2>2. ASSUME NEW r \in RecordId, PublishImport(c, r)
          PROVE  \A d \in Call, q \in RecordId :
                     ijob'[d][q] = "failed" => ijob[d][q] = "failed"
      <3>1. PICK s \in { "none", "queued" } : ijob' = [ijob EXCEPT ![c][r] = s]
        BY <2>2, Zenon DEF PublishImport, JobSent
      <3>2. QED
        BY <3>1 DEF TypeOK
    <2>3. QED
      BY <2>1, <2>2 DEF OpenMetadataFile, ReadFails, FollowValidation,
         AbandonRun, ListRecords, FollowImport, SettleByFollowing,
         SettleByRefreshing, CrashRun, CreateRecord, PublishValidation
  <1>4. QED
    BY <1>1, <1>2, <1>3, FailuresKept

(* An import job only fails what it did not apply. *)
LEMMA ImportFailures ==
    ASSUME Reliable, RInv, FailuresLeaveNothing, NEW c \in Call, NEW r \in RecordId,
           \/ BeginImport(c, r) \/ CommitRun(c, r) \/ RollbackRun(c, r)
           \/ RecordSuccess(c, r) \/ RecordFailure(c, r) \/ RecordSkip(c, r)
           \/ RecordOvertaken(c, r) \/ RecordNothing(c, r) \/ CrashImport(c, r)
    PROVE  FailuresLeaveNothing'
  <1>1. ~ MayRaise
    BY DEF Reliable, MayRaise
  <1>2. ImportJobActive(c, r) /\ ijob[c][r] \notin { "skipping", "overtaken" }
    BY DEF BeginImport, CommitRun, RollbackRun, RecordSuccess, RecordFailure,
       RecordSkip, RecordOvertaken, RecordNothing, CrashImport, ImportJobActive,
       NothingIsSkipped
  <1>3. \A d \in Call : ImportJobActive(d, r) => d = c
    BY <1>2, ImportingFacts
  <1>4. r \in Live => rec[r] = "validated"
    BY <1>2, ImportingFacts
  <1>5. CASE CommitRun(c, r)
    <2>1. JobMoves(c, r, "committed")
      BY <1>5 DEF CommitRun, MayFail, Reliable
    <2>2. /\ \A d \in Call, q \in RecordId :
                 ijob'[d][q] = IF <<d, q>> = <<c, r>> THEN "committed" ELSE ijob[d][q]
          /\ \A q \in RecordId : q # r => applied'[q] = applied[q]
          /\ rec' = rec /\ Live' = Live
      BY <1>5, <2>1 DEF CommitRun, JobMoves, TypeOK, Live
    <2>3. QED
      BY <1>3, <1>4, <2>2 DEF FailuresLeaveNothing, Live, ImportJobActive
  <1>6. CASE RollbackRun(c, r)
    <2>1. applied[r] = 0
      BY <1>6 DEF RollbackRun, NotYetApplied
    <2>2. /\ \A d \in Call, q \in RecordId :
                 ijob'[d][q] = IF <<d, q>> = <<c, r>> THEN "failed" ELSE ijob[d][q]
          /\ rec' = rec /\ applied' = applied /\ Live' = Live
      BY <1>6 DEF RollbackRun, JobMoves, TypeOK, Live
    <2>3. QED
      BY <2>1, <2>2 DEF FailuresLeaveNothing
  <1>7. CASE RecordSuccess(c, r) \/ RecordFailure(c, r)
    <2>1. PICK s \in { "success", "import_failed" } :
              /\ \E link : EndImport(c, r, s, link)
              /\ s = "import_failed" => applied[r] = 0
      BY <1>1, <1>7 DEF RecordSuccess, RecordFailure, FailuresLeaveNothing
    <2>2. applied' = applied
      BY <2>1 DEF EndImport
    <2>3. ijob' = [ijob EXCEPT ![c][r] = "ended"]
      BY <2>1, NobodyOvertaken DEF EndImport
    <2>4. \A d \in Call, q \in RecordId :
              ijob'[d][q] = "failed" => ijob[d][q] = "failed"
      BY <2>3 DEF TypeOK
    <2>5. rec' = rec \/ rec' = [rec EXCEPT ![r] = s]
      BY <2>1 DEF EndImport
    <2>6. \A q \in RecordId :
              rec'[q] = "import_failed" => rec[q] = "import_failed" \/ applied[q] = 0
      BY <2>1, <2>5 DEF TypeOK
    <2>7. QED
      BY <2>2, <2>4, <2>6 DEF FailuresLeaveNothing, Live, ImporterRecordState
  <1>8. CASE BeginImport(c, r) \/ CrashImport(c, r)
    <2>1. \E s \in { "running", "skipping", "overtaken", "ended" } : JobMoves(c, r, s)
      BY <1>8 DEF BeginImport, CrashImport
    <2>2. /\ \A d \in Call, q \in RecordId :
                 ijob'[d][q] = "failed" => ijob[d][q] = "failed"
          /\ rec' = rec /\ applied' = applied
      BY <1>8, <2>1 DEF BeginImport, CrashImport, JobMoves, TypeOK
    <2>3. QED
      BY <2>2, FailuresKept
  <1>9. QED
    BY <1>1, <1>2, <1>5, <1>6, <1>7, <1>8
    DEF RecordSkip, RecordOvertaken, RecordNothing

(* A validation fails no import. *)
LEMMA ValidationFailures ==
    ASSUME RInv, FailuresLeaveNothing, NEW r \in RecordId,
           \/ BeginValidation(r) \/ FailValidation(r)
           \/ EndValidation(r) \/ CrashValidation(r)
    PROVE  FailuresLeaveNothing'
  <1>1. applied' = applied /\ ijob' = ijob
    BY NobodyOvertaken DEF BeginValidation, FailValidation, EndValidation,
       CrashValidation, WriteRecord
  <1>2. \A q \in RecordId : rec'[q] = "import_failed" => rec[q] = "import_failed"
    BY DEF BeginValidation, FailValidation, EndValidation, CrashValidation,
       WriteRecord, Verdicts, TypeOK
  <1>3. QED
    BY <1>1, <1>2, FailuresKept

LEMMA NextFailures ==
    Steady /\ Reliable /\ RInv /\ FailuresLeaveNothing /\ [Next]_vars =>
        FailuresLeaveNothing'
  <1> SUFFICES ASSUME Steady, Reliable, RInv, FailuresLeaveNothing, [Next]_vars
               PROVE  FailuresLeaveNothing'
    OBVIOUS
  <1>1. CASE UserStep
    BY <1>1, CallFailures
    DEF UserStep, Steady, StatusUpdate, UpdateMetadataFile, UpdateTask, DeleteTask,
        StartRun, NewCall
  <1>2. CASE RunStep
    BY <1>2, RunFailures, Zenon DEF RunStep
  <1>3. CASE ValidationStep
    BY <1>3, ValidationFailures DEF ValidationStep
  <1>4. CASE ImportStep
    BY <1>4, ImportFailures DEF ImportStep
  <1>5. UNCHANGED << rec, applied, ijob >> => FailuresLeaveNothing'
    BY FailuresKept
  <1>6. CASE FinalizerStep
    BY <1>5, <1>6 DEF FinalizerStep, ReadRecords, WriteStatus, RefreshFails, GiveUp
  <1>7. CASE Crash
    <2>1. \A c \in Call, k \in Copy :
              CrashFinalizer(c, k) => UNCHANGED << rec, applied, ijob >>
      BY DEF CrashFinalizer
    <2>2. QED
      BY <1>5, <1>7, <2>1, RunFailures, ValidationFailures, ImportFailures, Zenon
      DEF Crash
  <1>8. CASE UNCHANGED vars
    BY <1>5, <1>8 DEF vars
  <1>9. QED
    BY <1>1, <1>2, <1>3, <1>4, <1>6, <1>7, <1>8 DEF Next, SystemStep

(* A record's outcome is what happened to the repository, however late the *)
(* job that brought it: a success was applied and is linked, a failure     *)
(* left nothing behind.                                                    *)
THEOREM OutcomeIsTrueHolds ==
    ASSUME Steady, Reliable PROVE Spec => []OutcomeIsTrue
  <1>1. Init => FailuresLeaveNothing
    BY DEF Init, FailuresLeaveNothing, Live
  <1>2. RInv /\ FailuresLeaveNothing /\ [Next]_vars => FailuresLeaveNothing'
    BY NextFailures
  <1>3. RInv /\ FailuresLeaveNothing => OutcomeIsTrue
    BY DEF OutcomeIsTrue, SuccessIsApplied, FailuresLeaveNothing
  <1> HIDE DEF RInv
  <1>4. QED
    BY <1>1, <1>2, <1>3, ResultsHold, PTL DEF Spec

-----------------------------------------------------------------------------
(* The abstract task: every step is one of its steps, or none.             *)

(* What is validated or imported is something. *)
LoadsHaveRecords == status \in { "validated", "importing" } => Live # {}

(* A status that ends the phase of the records there are. *)
Settles(c, s) ==
    IF run[c].kind = "load"
    THEN s \in { "import_failed", "success", "damaged" }
    ELSE \/ s \in { "validated", "validation_failed", "damaged" } /\ Live # {}
         \/ s = "created" /\ Live = {}

(* A finaliser that found nothing pending is about to end the phase. *)
FollowerSettles ==
    \A c \in Call, k \in Copy :
        finalizer[c][k].pc = "refreshing" /\ ~ finalizer[c][k].pending =>
            Settles(c, finalizer[c][k].status)

Phased == LoadsHaveRecords /\ FollowerSettles

(* No finaliser reads anew. *)
FollowersKept ==
    \A c \in Call, k \in Copy :
        finalizer'[c][k].pc = "refreshing" =>
            finalizer'[c][k] = finalizer[c][k] /\ run'[c].kind = run[c].kind

(* What the abstract task sees. *)
Unseen == Live' = Live /\ UNCHANGED << status, applied >>

LifecycleStep == [Lifecycle!Next]_(Lifecycle!vars)

LEMMA PhasedKept ==
    ASSUME Phased, FollowersKept, Live' = Live,
           status' \in { "validated", "importing" } => Live # {}
    PROVE  Phased'
  BY DEF Phased, FollowersKept, LoadsHaveRecords, FollowerSettles, Settles

LEMMA UnseenStep ==
    ASSUME Phased, FollowersKept, Unseen PROVE Phased' /\ LifecycleStep
  <1>1. Phased'
    BY PhasedKept DEF Unseen, Phased, LoadsHaveRecords
  <1>2. QED
    BY <1>1 DEF Unseen, LifecycleStep, Lifecycle!vars

(* Once nothing is pending, the calculation ends the phase. *)
LEMMA CalculatedSettles ==
    ASSUME TypeOK, PhasesOfRows, LoadsHaveRecords, NEW c \in Call,
           status = RunningStatus(c),
           ~ HasPendingRecords(RecordsStatus, Phase(c))
    PROVE  Settles(c, TaskStatusFromRecords(RecordsStatus, Phase(c)))
  <1> DEFINE n == RecordsStatus
  <1>1. TaskStatusFromRecords(n, Phase(c)) = CalculateTaskState(n)
    BY Zenon DEF TaskStatusFromRecords
  <1>2. /\ n["created"] \in Nat /\ n["validating"] \in Nat
        /\ n["serializer_validation_failed"] \in Nat
        /\ n["validation_failed"] \in Nat /\ n["validated"] \in Nat
        /\ n["import_failed"] \in Nat /\ n["success"] \in Nat
    BY CountsDescribeRecords DEF ImporterRecordState
  <1>3. TotalRecords(n) = 0 <=> Live = {}
    <2>1. TotalRecords(n) = 0 <=>
              \A s \in ImporterRecordState : n[s] = 0
      <3> HIDE DEF n
      <3> DEFINE a == n["created"]
                 b == n["validating"]
                 d == n["serializer_validation_failed"]
                 e == n["validation_failed"]
                 f == n["validated"]
                 g == n["import_failed"]
                 h == n["success"]
                 Zeros == /\ a = 0 /\ b = 0 /\ d = 0 /\ e = 0
                          /\ f = 0 /\ g = 0 /\ h = 0
      <3>1. TotalRecords(n) = a + b + d + e + f + g + h
        BY Zenon DEF TotalRecords
      <3>2. Zeros <=> \A s \in ImporterRecordState : n[s] = 0
        BY DEF ImporterRecordState
      <3>3. /\ a \in Nat /\ b \in Nat /\ d \in Nat /\ e \in Nat
            /\ f \in Nat /\ g \in Nat /\ h \in Nat
        BY <1>2, Zenon
      <3> HIDE DEF a, b, d, e, f, g, h
      <3>4. a + b + d + e + f + g + h = 0 <=> Zeros
        BY <3>3
      <3> HIDE DEF Zeros
      <3>5. QED
        BY <3>1, <3>2, <3>4, Zenon
    <2>2. Live = {} <=> \A s \in ImporterRecordState, r \in RecordId : rec[r] # s
      BY DEF Live
    <2>3. QED
      BY <2>1, <2>2, CountsDescribeRecords
  <1>4. \A r \in RecordId : rec[r] \in ImporterRecordState => r \in Live
    BY DEF Live
  <1>5. CASE run[c].kind = "load"
    <2>1. status = "importing" /\ Live # {}
      BY <1>5 DEF RunningStatus, LoadsHaveRecords
    <2>2. /\ n["created"] = 0 /\ n["validated"] = 0
          /\ n["serializer_validation_failed"] = 0 /\ n["validation_failed"] = 0
      BY <1>4, <1>5, <2>1, PendingDescribesRecords, CountsDescribeRecords
      DEF PhasesOfRows, ImporterRecordState
    <2>3. TotalRecords(n) # 0
      BY <1>3, <2>1
    <2> HIDE DEF n
    <2>4. CalculateTaskState(n) \in { "import_failed", "success", "damaged" }
      BY <2>2, <2>3 DEF CalculateTaskState
    <2>5. QED
      BY <1>1, <1>5, <2>4, Zenon DEF Settles, n
  <1>6. CASE run[c].kind # "load"
    <2>1. status = "validating"
      BY <1>6 DEF RunningStatus
    <2>2. n["created"] = 0 /\ n["import_failed"] = 0 /\ n["success"] = 0
      BY <1>4, <1>6, <2>1, PendingDescribesRecords, CountsDescribeRecords
      DEF PhasesOfRows, ImporterRecordState
    <2> HIDE DEF n
    <2>3. \/ CalculateTaskState(n) = "created" /\ Live = {}
          \/ /\ CalculateTaskState(n) \in
                    { "validated", "validation_failed", "damaged" }
             /\ Live # {}
      <3>1. CASE TotalRecords(n) = 0
        BY <1>3, <3>1, Zenon DEF CalculateTaskState
      <3>2. CASE TotalRecords(n) # 0
        <4>1. CalculateTaskState(n) \in
                  { "validated", "validation_failed", "damaged" }
          BY <1>2, <2>2, <3>2 DEF CalculateTaskState
        <4>2. QED
          BY <1>3, <3>2, <4>1, Zenon
      <3>3. QED
        BY <3>1, <3>2
    <2>4. QED
      BY <1>1, <1>6, <2>3, Zenon DEF Settles, n
  <1>7. QED
    BY <1>5, <1>6

(* A task is calculated as validated when its records are. *)
LEMMA AllValidated ==
    ASSUME TypeOK, Live # {}, \A r \in Live : rec[r] = "validated"
    PROVE  CalculateTaskState(RecordsStatus) = "validated"
  <1> DEFINE n == RecordsStatus
  <1>1. \A s \in ImporterRecordState \ {"validated"} : n[s] = 0
    BY CountsDescribeRecords DEF Live
  <1>2. n["validated"] \in Nat /\ n["validated"] # 0
    BY CountsDescribeRecords DEF Live, ImporterRecordState
  <1>3. /\ n["created"] = 0 /\ n["validating"] = 0
        /\ n["serializer_validation_failed"] = 0 /\ n["validation_failed"] = 0
        /\ n["import_failed"] = 0 /\ n["success"] = 0
    BY <1>1, Zenon DEF ImporterRecordState
  <1> HIDE DEF n
  <1>4. TotalRecords(n) = n["validated"]
    BY <1>2, <1>3 DEF TotalRecords
  <1>5. CalculateTaskState(n) = "validated"
    BY <1>2, <1>3, <1>4 DEF CalculateTaskState
  <1>6. QED
    BY <1>5 DEF n
(* A run is given up. *)
LEMMA GivenUp ==
    ASSUME Phased, FollowersKept, status \in { "validating", "importing" },
           status' = "damaged", Live' = Live, applied' = applied
    PROVE  Phased' /\ LifecycleStep
  <1>1. Phased'
    BY PhasedKept
  <1>2. Lifecycle!EndValidation("damaged") \/ Lifecycle!EndImport("damaged")
    BY DEF Lifecycle!EndValidation, Lifecycle!EndImport
  <1>3. QED
    BY <1>1, <1>2 DEF LifecycleStep, Lifecycle!Next

(* No finaliser changes, or all that had read anything are overtaken. *)
LEMMA SameFollowers ==
    ASSUME TypeOK,
           \/ finalizer' = Overtaken
           \/ finalizer' = finalizer /\ \A c \in Call : run'[c].kind = run[c].kind
    PROVE  FollowersKept
  BY OvertakenFacts DEF FollowersKept

(* One finaliser is replaced by one that has read nothing. *)
LEMMA OtherFollowers ==
    ASSUME TypeOK, NEW c \in Call, NEW k \in Copy, NEW f, f.pc # "refreshing",
           \/ finalizer' = [Overtaken EXCEPT ![c][k] = f]
           \/ /\ finalizer' = [finalizer EXCEPT ![c][k] = f]
              /\ \A d \in Call : run'[d].kind = run[d].kind
    PROVE  FollowersKept
  <1>1. /\ finalizer'[c][k] = f
        /\ \A d \in Call, l \in Copy : <<d, l>> # <<c, k>> =>
               \/ finalizer'[d][l] = Overtaken[d][l]
               \/ /\ finalizer'[d][l] = finalizer[d][l]
                  /\ run'[d].kind = run[d].kind
    BY OvertakenType DEF TypeOK
  <1>2. QED
    BY <1>1, OvertakenFacts DEF FollowersKept

(* A fan-out moves on, or hands over to a finaliser. *)
LEMMA RunUnseen ==
    ASSUME RInv, Phased, NEW c \in Call,
           \/ OpenMetadataFile(c) \/ ReadFails(c) \/ CrashRun(c)
           \/ FollowValidation(c) \/ FollowImport(c) \/ SettleByFollowing(c)
           \/ \E e \in Entry : PublishValidation(c, e)
    PROVE  Phased' /\ LifecycleStep
  <1>1. PICK pc : run' = [run EXCEPT ![c].pc = pc]
    BY DEF OpenMetadataFile, ReadFails, CrashRun, FollowValidation, FollowImport,
       SettleByFollowing, PublishValidation
  <1>2. \A d \in Call : run'[d].kind = run[d].kind
    BY <1>1, RunPcFacts
  <1>3. Unseen
    BY DEF OpenMetadataFile, ReadFails, CrashRun, FollowValidation, FollowImport,
       SettleByFollowing, PublishValidation, Unseen, Live
  <1>4. FollowersKept
    <2>1. CASE finalizer' = finalizer
      BY <1>2, <2>1, SameFollowers
    <2>2. CASE \E sent : \E k \in Copy :
                   finalizer' = [finalizer EXCEPT ![c][k] = FinalizerSent(sent)]
      <3>1. PICK sent : \E k \in Copy :
                finalizer' = [finalizer EXCEPT ![c][k] = FinalizerSent(sent)]
        BY <2>2, Zenon
      <3>2. FinalizerSent(sent).pc # "refreshing"
        BY FinalizerSentFacts DEF NoFinalizer
      <3>3. QED
        BY <1>2, <3>1, <3>2, OtherFollowers
    <2>3. 1 \in Copy /\ 2 \in Copy
      BY DEF Copy
    <2>4. QED
      BY <2>1, <2>2, <2>3 DEF OpenMetadataFile, ReadFails, CrashRun,
         FollowValidation, FollowImport, SettleByFollowing, PublishValidation
  <1>5. QED
    BY <1>3, <1>4, UnseenStep

(* A load lists its records and publishes their jobs. *)
LEMMA LoadUnseen ==
    ASSUME RInv, Phased, NEW c \in Call,
           ListRecords(c) \/ \E r \in RecordId : PublishImport(c, r)
    PROVE  Phased' /\ LifecycleStep
  <1>1. Unseen /\ finalizer' = finalizer
    BY DEF ListRecords, PublishImport, Unseen, Live
  <1>2. \A d \in Call : run'[d].kind = run[d].kind
    <2>1. CASE ListRecords(c)
      BY <2>1 DEF ListRecords, TypeOK, RunState
    <2>2. CASE \E r \in RecordId : PublishImport(c, r)
      <3>1. PICK r \in RecordId : PublishImport(c, r)
        BY <2>2
      <3>2. PICK pc : run' = [run EXCEPT ![c].pc = pc,
                                         ![c].todo = run[c].todo \ {r},
                                         ![c].queued = TRUE]
        BY <3>1 DEF PublishImport
      <3>3. QED
        BY <3>2 DEF TypeOK, RunState
    <2>3. QED
      BY <2>1, <2>2
  <1>3. QED
    BY <1>1, <1>2, SameFollowers, UnseenStep

LEMMA AbandonRunLifecycle ==
    ASSUME RInv, Phased, NEW c \in Call, AbandonRun(c)
    PROVE  Phased' /\ LifecycleStep
  <1>1. status \in { "validating", "importing" }
    BY DEF AbandonRun, OneRun, Active, RunActive, RunningStatus
  <1>2. \A d \in Call : run'[d].kind = run[d].kind
    BY RunPcFacts DEF AbandonRun
  <1>3. FollowersKept
    BY <1>2, SameFollowers DEF AbandonRun
  <1>4. Live' = Live /\ applied' = applied
    BY DEF AbandonRun, Live
  <1>5. status' = status \/ status' = "damaged"
    BY DEF AbandonRun
  <1>6. QED
    BY <1>1, <1>3, <1>4, <1>5, GivenUp, UnseenStep DEF Unseen

(* A load that published nothing leaves its records as they were. *)
LEMMA SettleByRefreshingLifecycle ==
    ASSUME RInv, Phased, NEW c \in Call, SettleByRefreshing(c)
    PROVE  Phased' /\ LifecycleStep
  <1>1. RunActive(c) /\ run[c].kind = "load" /\ ~ run[c].queued /\ Active(c)
    BY DEF SettleByRefreshing, RunActive, LoadsAreValidated, Active
  <1>2. status = "importing" /\ Live # {}
    BY <1>1, LoadIsWhole DEF Phased, LoadsHaveRecords
  <1>3. Live' = Live /\ applied' = applied
    BY DEF SettleByRefreshing, Live
  <1>4. \A d \in Call : run'[d].kind = run[d].kind
    BY RunPcFacts DEF SettleByRefreshing
  <1>5. FollowersKept
    BY <1>4, SameFollowers DEF SettleByRefreshing
  <1>6. CASE status' = status
    BY <1>3, <1>5, <1>6, UnseenStep DEF Unseen
  <1>7. CASE status' = TaskStatusFromRecords(RecordsStatus, NoPhase)
    <2>1. status' = CalculateTaskState(RecordsStatus)
      BY <1>7 DEF TaskStatusFromRecords, NoPhase, Phases
    <2>2. \A r \in Live : rec[r] = "validated" /\ applied[r] = 0
      BY <1>1 DEF LoadsAreValidated, NotYetApplied, Live
    <2>3. status' = "validated"
      BY <1>2, <2>1, <2>2, AllValidated
    <2>4. Lifecycle!EndImport("validated")
      BY <1>2, <1>3, <2>2, <2>3 DEF Lifecycle!EndImport
    <2>5. QED
      BY <1>2, <1>3, <1>5, <2>4, PhasedKept DEF LifecycleStep, Lifecycle!Next
  <1>8. QED
    BY <1>6, <1>7 DEF SettleByRefreshing

(* An entry becomes a record, which is new. *)
LEMMA CreateRecordLifecycle ==
    ASSUME RInv, Phased, NEW c \in Call, NEW e \in Entry, CreateRecord(c, e)
    PROVE  Phased' /\ LifecycleStep
  <1> DEFINE r == <<c, e>>
  <1>1. /\ r \in RecordId /\ rec[r] = "absent" /\ r \notin Live
        /\ run[c].kind = "validate" /\ RunActive(c) /\ Active(c)
    BY DEF CreateRecord, Reading, Unread, RecordId, RunActive, Active, Live,
       ImporterRecordState
  <1>2. /\ status = "validating"
        /\ \A d \in Call, k \in Copy : ~ FinalizerActive(d, k)
    BY <1>1 DEF OneRun, OneFollower, RunningStatus, Active
  <1>3. applied[r] = 0
    BY <1>1
    DEF AnyInv, AbsentIsUntouched, OnlyValidatedIsApplied, TypeOK
  <1>4. UNCHANGED << status, applied, finalizer >>
    BY DEF CreateRecord
  <1>5. \A q \in RecordId : rec'[q] = IF q = r THEN "created" ELSE rec[q]
    BY <1>1 DEF CreateRecord, TypeOK
  <1>6. Live' = Live \cup {r}
    BY <1>1, <1>5 DEF Live, ImporterRecordState
  <1> HIDE DEF r
  <1>7. Phased'
    BY <1>2, <1>4 DEF Phased, LoadsHaveRecords, FollowerSettles, FinalizerActive
  <1>8. Lifecycle!Arrive(r)
    BY <1>1, <1>2, <1>3, <1>4, <1>6 DEF Lifecycle!Arrive
  <1>9. QED
    BY <1>1, <1>7, <1>8 DEF LifecycleStep, Lifecycle!Next

(* A finaliser that reads learns how the phase ends, if it does. *)
LEMMA ReadRecordsLifecycle ==
    ASSUME RInv, Phased, NEW c \in Call, NEW k \in Copy, ReadRecords(c, k)
    PROVE  Phased' /\ LifecycleStep
  <1> DEFINE s == TaskStatusFromRecords(RecordsStatus, Phase(c))
             p == HasPendingRecords(RecordsStatus, Phase(c))
  <1>1. status = RunningStatus(c)
    BY DEF ReadRecords, FinalizerActive, Active, OneRun
  <1>2. ~ p => Settles(c, s)
    BY <1>1, CalculatedSettles DEF Phased
  <1> HIDE DEF s, p
  <1>3. /\ finalizer'[c][k].status = s /\ finalizer'[c][k].pending = p
        /\ \A d \in Call, l \in Copy :
               <<d, l>> # <<c, k>> => finalizer'[d][l] = finalizer[d][l]
    <2>1. finalizer' = [finalizer EXCEPT ![c][k] =
              [@ EXCEPT !.pc = "refreshing", !.status = s, !.pending = p]]
      BY Zenon DEF ReadRecords, s, p
    <2>2. QED
      BY <2>1 DEF TypeOK, FinalizerState
  <1>4. run' = run /\ Unseen
    BY DEF ReadRecords, Unseen, Live
  <1>5. FollowerSettles'
    BY <1>2, <1>3, <1>4 DEF Phased, FollowerSettles, Settles, Unseen
  <1>6. QED
    BY <1>4, <1>5
    DEF Phased, LoadsHaveRecords, Unseen, LifecycleStep, Lifecycle!vars

(* And ends it. *)
LEMMA WriteStatusLifecycle ==
    ASSUME RInv, Phased, NEW c \in Call, NEW k \in Copy, WriteStatus(c, k)
    PROVE  Phased' /\ LifecycleStep
  <1> DEFINE f == finalizer[c][k]
  <1>1. /\ f.pc = "refreshing" /\ status' = f.status /\ status = RunningStatus(c)
        /\ Live' = Live /\ applied' = applied
    BY DEF WriteStatus, FinalizerActive, Active, OneRun, Live
  <1>2. FollowersKept
    <2>1. PICK lost \in MayFail("publish_follow") :
              finalizer' = [Overtaken EXCEPT ![c][k] = Reschedule(f, lost)]
      BY DEF WriteStatus
    <2>2. Reschedule(f, lost).pc # "refreshing"
      BY DEF Reschedule, EndedFinalizer, NoFinalizer
    <2>3. QED
      BY <2>1, <2>2, OtherFollowers
  <1>3. CASE f.pending
    <2>1. status' = status
      BY <1>1, <1>3 DEF FollowerKnows
    <2>2. QED
      BY <1>1, <1>2, <2>1, UnseenStep DEF Unseen
  <1>4. CASE ~ f.pending
    <2>1. Settles(c, f.status)
      BY <1>1, <1>4 DEF Phased, FollowerSettles
    <2>2. f.status = "success" => \A r \in Live : applied[r] = 1
      BY <1>1 DEF SuccessOfAll, SuccessIsApplied
    <2> HIDE DEF f
    <2>3. Phased'
      BY <1>1, <1>2, <2>1, PhasedKept DEF Settles
    <2>4. Lifecycle!EndValidation(f.status) \/ Lifecycle!EndImport(f.status)
      BY <1>1, <2>1, <2>2
      DEF Settles, RunningStatus, Lifecycle!EndValidation, Lifecycle!EndImport
    <2>5. f.status \in { "created", "validated", "validation_failed",
                         "import_failed", "success", "damaged" }
      BY <2>1 DEF Settles
    <2>6. QED
      BY <2>3, <2>4, <2>5 DEF LifecycleStep, Lifecycle!Next
  <1>5. QED
    BY <1>3, <1>4

(* The steps of a finaliser. *)
LEMMA FinalizerLifecycle ==
    ASSUME RInv, Phased, NEW c \in Call, NEW k \in Copy,
           \/ ReadRecords(c, k) \/ WriteStatus(c, k) \/ RefreshFails(c, k)
           \/ GiveUp(c, k) \/ CrashFinalizer(c, k)
    PROVE  Phased' /\ LifecycleStep
  <1>1. CASE RefreshFails(c, k) \/ GiveUp(c, k) \/ CrashFinalizer(c, k)
    <2>1. /\ run' = run /\ Live' = Live /\ applied' = applied
          /\ EndedFinalizer.pc # "refreshing"
      BY <1>1 DEF RefreshFails, GiveUp, CrashFinalizer, Live, EndedFinalizer,
         NoFinalizer
    <2>2. \/ finalizer' = [finalizer EXCEPT ![c][k] = EndedFinalizer]
          \/ finalizer' = [Overtaken EXCEPT ![c][k] = EndedFinalizer]
      BY <1>1 DEF RefreshFails, GiveUp, CrashFinalizer
    <2>3. FollowersKept
      BY <2>1, <2>2, OtherFollowers
    <2>4. status \in { "validating", "importing" }
      BY <1>1 DEF RefreshFails, GiveUp, CrashFinalizer, FinalizerActive, Active,
         OneRun, RunningStatus
    <2>5. status' = status \/ status' = "damaged"
      BY <1>1 DEF RefreshFails, GiveUp, CrashFinalizer
    <2>6. QED
      BY <2>1, <2>3, <2>4, <2>5, GivenUp, UnseenStep DEF Unseen
  <1>2. QED
    BY <1>1, ReadRecordsLifecycle, WriteStatusLifecycle

(* A record job writes its record, and commits to the repository once. *)
LEMMA JobLifecycle ==
    ASSUME RInv, Punctual, Phased, NEW r \in RecordId,
           \/ BeginValidation(r) \/ FailValidation(r)
           \/ EndValidation(r) \/ CrashValidation(r)
           \/ \E c \in Call :
                  \/ BeginImport(c, r) \/ CommitRun(c, r) \/ RollbackRun(c, r)
                  \/ RecordSuccess(c, r) \/ RecordFailure(c, r)
                  \/ RecordSkip(c, r) \/ RecordOvertaken(c, r)
                  \/ RecordNothing(c, r) \/ CrashImport(c, r)
    PROVE  Phased' /\ LifecycleStep
  <1> DEFINE Written == \E s \in ImporterRecordState :
                            r \in Live /\ rec' = [rec EXCEPT ![r] = s]
  <1>1. UNCHANGED << status, run, finalizer >>
    BY DEF BeginValidation, FailValidation, EndValidation, CrashValidation,
       BeginImport, CommitRun, RollbackRun, RecordSuccess, RecordFailure,
       RecordSkip, RecordOvertaken, RecordNothing, CrashImport, EndImport
  <1>2. FollowersKept
    BY <1>1, SameFollowers
  <1>3. Live' = Live
    <2>1. rec' = rec \/ Written
      BY DEF BeginValidation, FailValidation, EndValidation, CrashValidation,
         BeginImport, CommitRun, RollbackRun, RecordSuccess, RecordFailure,
         RecordSkip, RecordOvertaken, RecordNothing, CrashImport, EndImport,
         WriteRecord, Verdicts, ImporterRecordState
    <2>2. QED
      BY <2>1 DEF Live, TypeOK
  <1>4. CASE \E c \in Call : CommitRun(c, r)
    <2>1. PICK c \in Call : CommitRun(c, r)
      BY <1>4
    <2>2. ImportJobActive(c, r) /\ applied[r] = 0
      BY <2>1 DEF CommitRun, ImportJobActive, NotYetApplied
    <2>3. status = "importing" /\ r \in Live
      BY <2>2 DEF Punctual
    <2>4. applied' = [applied EXCEPT ![r] = 1]
      BY <2>1, <2>2 DEF CommitRun, TypeOK
    <2>5. Lifecycle!Apply(r)
      BY <1>1, <1>3, <2>2, <2>3, <2>4 DEF Lifecycle!Apply
    <2>6. QED
      BY <1>1, <1>2, <1>3, <2>5, PhasedKept
      DEF Phased, LoadsHaveRecords, LifecycleStep, Lifecycle!Next
  <1>5. CASE ~ \E c \in Call : CommitRun(c, r)
    <2>1. applied' = applied
      BY <1>5 DEF BeginValidation, FailValidation, EndValidation,
         CrashValidation, BeginImport, RollbackRun, RecordSuccess, RecordFailure,
         RecordSkip, RecordOvertaken, RecordNothing, CrashImport, EndImport
    <2>2. QED
      BY <1>1, <1>2, <1>3, <2>1, UnseenStep DEF Unseen
  <1>6. QED
    BY <1>4, <1>5

(* The calls that a task keeps apart from its runs. *)
LEMMA CallLifecycle ==
    ASSUME RInv, Phased, StartValidation \/ StartLoadingRecords \/ OptionsUpdate
    PROVE  Phased' /\ LifecycleStep
  <1>1. finalizer' = Overtaken /\ FollowersKept
    BY SameFollowers DEF StartValidation, StartLoadingRecords, OptionsUpdate
  <1>2. CASE OptionsUpdate
    BY <1>1, <1>2, UnseenStep DEF OptionsUpdate, Unseen, Live
  <1>3. CASE StartLoadingRecords
    <2>1. /\ status = "validated" /\ status' = "importing"
          /\ Live' = Live /\ applied' = applied
      BY <1>3 DEF StartLoadingRecords, MayLoad, Live
    <2>2. Lifecycle!StartImport
      BY <2>1 DEF Lifecycle!StartImport
    <2>3. QED
      BY <1>1, <2>1, <2>2, PhasedKept
      DEF Phased, LoadsHaveRecords, LifecycleStep, Lifecycle!Next
  <1>4. CASE StartValidation
    <2>1. /\ status \notin RunningStates /\ status' = "validating"
          /\ applied' = applied /\ rec' = Purged
      BY <1>4 DEF StartValidation, MayValidate
    <2>2. Live' = {}
      BY <2>1 DEF Purged, Live, ImporterRecordState
    <2>3. Lifecycle!StartValidation
      BY <2>1, <2>2 DEF Lifecycle!StartValidation, Lifecycle!Running, RunningStates
    <2>4. FollowerSettles'
      BY <1>1, OvertakenFacts DEF FollowerSettles
    <2>5. QED
      BY <2>1, <2>3, <2>4 DEF Phased, LoadsHaveRecords, LifecycleStep, Lifecycle!Next
  <1>5. QED
    BY <1>2, <1>3, <1>4

LEMMA NextLifecycle ==
    Calm /\ RInv /\ Punctual /\ Phased /\ [Next]_vars => Phased' /\ LifecycleStep
  <1> SUFFICES ASSUME Calm, RInv, Punctual, Phased, [Next]_vars
               PROVE  Phased' /\ LifecycleStep
    OBVIOUS
  <1>1. CASE UserStep
    BY <1>1, CallLifecycle
    DEF UserStep, Calm, Steady, StatusUpdate, UpdateMetadataFile, UpdateTask,
        DeleteTask, StartRun, NewCall
  <1>2. CASE RunStep
    <2>1. PICK c \in Call :
              \/ OpenMetadataFile(c) \/ ReadFails(c) \/ FollowValidation(c)
              \/ AbandonRun(c) \/ ListRecords(c) \/ FollowImport(c)
              \/ SettleByFollowing(c) \/ SettleByRefreshing(c)
              \/ \E e \in Entry : CreateRecord(c, e) \/ PublishValidation(c, e)
              \/ \E r \in RecordId : PublishImport(c, r)
      BY <1>2, Zenon DEF RunStep
    <2>2. QED
      BY <2>1, RunUnseen, LoadUnseen, AbandonRunLifecycle,
         SettleByRefreshingLifecycle, CreateRecordLifecycle
  <1>3. CASE ValidationStep
    BY <1>3, JobLifecycle DEF ValidationStep
  <1>4. CASE ImportStep
    BY <1>4, JobLifecycle DEF ImportStep
  <1>5. CASE FinalizerStep
    BY <1>5, FinalizerLifecycle DEF FinalizerStep
  <1>6. CASE Crash
    BY <1>6, RunUnseen, JobLifecycle, FinalizerLifecycle DEF Crash
  <1>7. CASE UNCHANGED vars
    <2>1. Unseen /\ finalizer' = finalizer /\ run' = run
      BY <1>7 DEF vars, Unseen, Live
    <2>2. QED
      BY <2>1, SameFollowers, UnseenStep
  <1>8. QED
    BY <1>1, <1>2, <1>3, <1>4, <1>5, <1>6, <1>7 DEF Next, SystemStep

(* The task implements the abstract one, TaskLifecycle: whatever jobs do   *)
(* and lose, its status, its records and the repository move as if there   *)
(* were none.                                                              *)
THEOREM ImplementsLifecycleHolds == ASSUME Calm PROVE Spec => ImplementsLifecycle
  <1>1. Init => Lifecycle!Init /\ Phased
    <2> SUFFICES ASSUME Init PROVE Lifecycle!Init /\ Phased
      OBVIOUS
    <2>1. Live = {}
      BY DEF Init, Live, ImporterRecordState
    <2>2. QED
      BY <2>1 DEF Init, Lifecycle!Init, Phased, LoadsHaveRecords,
         FollowerSettles, NoFinalizer
  <1>2. RInv /\ Punctual /\ Phased /\ [Next]_vars =>
            Phased' /\ [Lifecycle!Next]_(Lifecycle!vars)
    BY NextLifecycle DEF LifecycleStep
  <1>3. Spec => []RInv /\ []Punctual
    <2>1. Steady
      BY DEF Calm
    <2>2. Spec => []RInv
      BY <2>1, ResultsHold
    <2> HIDE DEF RInv, IInv
    <2>3. QED
      BY <2>2, PunctualHolds, PTL
  <1> HIDE DEF RInv
  <1>4. QED
    BY <1>1, <1>2, <1>3, PTL DEF Spec, ImplementsLifecycle, Lifecycle!Spec
=============================================================================
