--------------------------- MODULE OneRun_proofs ----------------------------
(***************************************************************************)
(* Only one run of a task is alive at a time, and the task's status says   *)
(* what it does: what keeps a purge, a second load and a second run away   *)
(* from workers.                                                           *)
(***************************************************************************)
EXTENDS ImporterTask_proofs, FiniteSetTheorems

(* The user leaves runs alone, and a publish that raised sent nothing: see *)
(* the runs that show what each of these breaks.                           *)
Steady ==
    /\ UserCalls \subseteq { "validate", "load", "options" }
    /\ Writes = {}
    /\ "ambiguous" \notin Faults

(* And no record job outlasts the finaliser that waits for it. *)
Calm == Steady /\ "slow" \notin Faults

(* What is left of a run, its record jobs aside: they may outlive it. *)
Active(c) == RunActive(c) \/ \E k \in Copy : FinalizerActive(c, k)

RunningStatus(c) == IF run[c].kind = "load" THEN "importing" ELSE "validating"

(* Only the last call has anything left, and the status says what. *)
OneRun == \A c \in Call : Active(c) => c = calls /\ status = RunningStatus(c)

(* A finaliser starts when the fan-out is over, and is the only one. *)
OneFollower ==
    \A c \in Call :
        /\ RunActive(c) => \A k \in Copy : ~ FinalizerActive(c, k)
        /\ \A k, l \in Copy :
               FinalizerActive(c, k) /\ FinalizerActive(c, l) => k = l

(* A record's job is over before its row can be anything but created. *)
VerdictsAreFinal ==
    \A r \in RecordId :
        /\ rec[r] = "absent" => vjob[r] = "none"
        /\ r \in Live /\ vjob[r] # "ended" => rec[r] = "created"

(* An import job belongs to a load that queued it.  While its record is    *)
(* there, so is its run, or the task was given up as damaged.              *)
ImportsAreLoaded ==
    \A c \in Call, r \in RecordId :
        ImportJobActive(c, r) =>
            /\ run[c].kind = "load" /\ run[c].queued /\ c <= calls
            /\ rec[r] # "absent"
            /\ r \in Live =>
                   /\ rec[r] = "validated" /\ c = calls
                   /\ status \in { "importing", "damaged" }

(* A record is imported by one job at a time. *)
OneJob ==
    \A c, d \in Call, r \in RecordId :
        ImportJobActive(c, r) /\ ImportJobActive(d, r) => c = d

(* What a load has yet to publish is validated. *)
LoadsAreValidated ==
    \A c \in Call :
        /\ run[c].pc = "settling" => run[c].kind = "load"
        /\ run[c].kind = "load" /\ RunActive(c) =>
            /\ ~ run[c].queued => \A r \in Live : rec[r] = "validated"
            /\ run[c].pc \in { "queued", "abandoning" } => ~ run[c].queued
            /\ \A r \in run[c].todo :
                   rec[r] = "validated" /\ ~ ImportJobActive(c, r)

(* What a finaliser has read stays true until it writes it. *)
FollowerKnows ==
    \A c \in Call, k \in Copy :
        /\ finalizer[c][k].pc = "refreshing" =>
            /\ finalizer[c][k].pending =>
                   finalizer[c][k].status = RunningStatus(c)
            /\ ~ finalizer[c][k].pending =>
                   /\ \A d \in Call, r \in Live : ~ ImportJobActive(d, r)
                   /\ run[c].kind # "load" => \A r \in Live : rec[r] # "created"
            /\ finalizer[c][k].status = "validated" =>
                   \A r \in Live : rec[r] = "validated"

ValidatedRecords == status = "validated" => \A r \in Live : rec[r] = "validated"

ValidationsOver ==
    status \notin { "validating", "damaged" } =>
        \A r \in Live : vjob[r] \notin { "queued", "running" }

Safe ==
    /\ OneRun
    /\ OneFollower
    /\ VerdictsAreFinal
    /\ ReadInOrder
    /\ ImportsAreLoaded
    /\ OneJob
    /\ LoadsAreValidated
    /\ FollowerKnows
    /\ ValidatedRecords
    /\ ValidationsOver

IInv == TypeOK /\ Safe /\ ~ Gone

USE DEF IInv, Safe

-----------------------------------------------------------------------------
(* What is alive: steps that leave it alone, or only end some of it.       *)

(* Nothing starts, so nothing new is alive and the status still says what. *)
LEMMA OneRunKept ==
    ASSUME IInv, UNCHANGED << status, calls >>,
           \A c \in Call : RunningStatus(c)' = RunningStatus(c),
           \A c \in Call : RunActive(c)' => RunActive(c),
           \A c \in Call, k \in Copy : FinalizerActive(c, k)' => FinalizerActive(c, k)
    PROVE  OneRun' /\ OneFollower'
  <1>1. \A c \in Call : Active(c)' => Active(c)
    BY DEF Active
  <1>2. OneRun'
    BY <1>1 DEF OneRun
  <1>3. OneFollower'
    BY DEF OneFollower
  <1>4. QED
    BY <1>2, <1>3

(* No import job starts, and none finds its record in another state.       *)
LEMMA ImportsKept ==
    ASSUME IInv, UNCHANGED calls,
           status' = status \/ status' \in { "importing", "damaged" },
           \A c \in Call : /\ run'[c].kind = run[c].kind
                           /\ run[c].queued => run'[c].queued,
           \A c \in Call, r \in RecordId :
               ImportJobActive(c, r)' => ImportJobActive(c, r) /\ rec'[r] = rec[r]
    PROVE  ImportsAreLoaded' /\ OneJob'
  <1>1. ImportsAreLoaded'
    BY DEF ImportsAreLoaded, Live
  <1>2. OneJob'
    BY DEF OneJob
  <1>3. QED
    BY <1>1, <1>2

(* Nor does a finaliser learn anything, of rows that are as they were.     *)
LEMMA FollowersKnow ==
    ASSUME IInv, UNCHANGED rec,
           \A c \in Call, k \in Copy :
               finalizer'[c][k].pc = "refreshing" => finalizer'[c][k] = finalizer[c][k],
           \A c \in Call : run'[c].kind = run[c].kind,
           \A c \in Call, r \in RecordId :
               ImportJobActive(c, r)' => ImportJobActive(c, r)
    PROVE  FollowerKnows'
  <1>1. Live' = Live /\ Live \in SUBSET RecordId
    BY DEF Live
  <1>2. \A c \in Call : RunningStatus(c)' = RunningStatus(c)
    BY DEF RunningStatus
  <1>3. \A d \in Call, r \in Live : ImportJobActive(d, r)' => ImportJobActive(d, r)
    BY <1>1
  <1>4. ASSUME NEW c \in Call, NEW k \in Copy, finalizer'[c][k].pc = "refreshing"
        PROVE  /\ finalizer'[c][k].pending =>
                      finalizer'[c][k].status = RunningStatus(c)'
               /\ ~ finalizer'[c][k].pending =>
                      /\ \A d \in Call, r \in Live : ~ ImportJobActive(d, r)'
                      /\ run'[c].kind # "load" => \A r \in Live : rec'[r] # "created"
               /\ finalizer'[c][k].status = "validated" =>
                      \A r \in Live : rec'[r] = "validated"
    <2>1. finalizer'[c][k] = finalizer[c][k] /\ finalizer[c][k].pc = "refreshing"
      BY <1>4
    <2>2. QED
      BY <1>2, <1>3, <2>1 DEF FollowerKnows
  <1>5. QED
    BY <1>1, <1>4 DEF FollowerKnows

(* What a fan-out lists are records. *)
LEMMA TodoType ==
    ASSUME TypeOK PROVE \A c \in Call : run[c].todo \in SUBSET RecordId
  BY DEF TypeOK, RunState

(* Rows, validation jobs and fan-outs are as they were. *)
LEMMA RowsKept ==
    ASSUME IInv, UNCHANGED << rec, run, vjob >>
    PROVE  /\ VerdictsAreFinal' /\ ReadInOrder'
           /\ \A c \in Call : RunActive(c)' = RunActive(c)
           /\ \A c \in Call : RunningStatus(c)' = RunningStatus(c)
           /\ Live' = Live
  BY DEF VerdictsAreFinal, ReadInOrder, Live, Unread, RunActive, RunningStatus

(* An import job moves on, or ends without a result. *)
LEMMA ImportJobStep ==
    ASSUME IInv, NEW c \in Call, NEW r \in RecordId, NEW s \in JobState,
           ImportJobActive(c, r), JobMoves(c, r, s),
           UNCHANGED << status, calls, rec, run, vjob, finalizer >>
    PROVE  Safe'
  <1>1. \A d \in Call, q \in RecordId :
            ImportJobActive(d, q)' => ImportJobActive(d, q)
    BY DEF ImportJobActive, JobMoves, TypeOK
  <1>2. \A d \in Call, k \in Copy : FinalizerActive(d, k)' = FinalizerActive(d, k)
    BY DEF FinalizerActive
  <1>3. OneRun' /\ OneFollower'
    BY <1>1, <1>2, RowsKept, OneRunKept
  <1>4. ImportsAreLoaded' /\ OneJob'
    BY <1>1, ImportsKept
  <1>5. LoadsAreValidated'
    BY <1>1, RowsKept, TodoType DEF LoadsAreValidated
  <1>6. FollowerKnows'
    BY <1>1, FollowersKnow
  <1>7. ValidatedRecords' /\ ValidationsOver'
    BY RowsKept DEF ValidatedRecords, ValidationsOver
  <1>8. QED
    BY <1>3, <1>4, <1>5, <1>6, <1>7, RowsKept

(* A validation job begins, or dies. *)
LEMMA ValidationJobStep ==
    ASSUME IInv, NEW r \in RecordId, NEW s \in { "running", "ended" },
           vjob[r] \in { "queued", "running" }, vjob' = [vjob EXCEPT ![r] = s],
           UNCHANGED << status, calls, rec, run, ijob, finalizer >>
    PROVE  Safe'
  <1>1. /\ \A c \in Call : RunActive(c)' = RunActive(c)
        /\ \A c \in Call : RunningStatus(c)' = RunningStatus(c)
        /\ \A c \in Call, k \in Copy : FinalizerActive(c, k)' = FinalizerActive(c, k)
        /\ \A c \in Call, q \in RecordId :
               ImportJobActive(c, q)' = ImportJobActive(c, q)
        /\ Live' = Live
        /\ \A c \in Call : Unread(c)' = Unread(c)
    BY DEF RunActive, RunningStatus, FinalizerActive, ImportJobActive, Live, Unread
  <1>2. OneRun' /\ OneFollower'
    BY <1>1, OneRunKept
  <1>3. VerdictsAreFinal'
    BY <1>1 DEF VerdictsAreFinal, TypeOK
  <1>4. ReadInOrder'
    <2>1. \A q \in RecordId : vjob[q] = "none" => vjob'[q] = "none"
      BY DEF TypeOK
    <2>2. \A d \in Call, e \in Entry : <<d, e>> \in RecordId
      BY DEF RecordId
    <2>3. QED
      BY <1>1, <2>1, <2>2 DEF ReadInOrder
  <1>5. ImportsAreLoaded' /\ OneJob' /\ LoadsAreValidated'
    BY <1>1, ImportsKept, TodoType DEF LoadsAreValidated
  <1>6. FollowerKnows'
    BY <1>1, FollowersKnow
  <1>7. ValidatedRecords' /\ ValidationsOver'
    BY <1>1 DEF ValidatedRecords, ValidationsOver, TypeOK
  <1>8. QED
    BY <1>2, <1>3, <1>4, <1>5, <1>6, <1>7

-----------------------------------------------------------------------------
(* Finalisers.                                                             *)

(* Overtaking a finaliser keeps it alive, and it will not write any more.  *)
LEMMA OvertakenFacts ==
    ASSUME TypeOK, NEW c \in Call, NEW k \in Copy
    PROVE  /\ Overtaken[c][k].pc # "refreshing"
           /\ Overtaken[c][k].pc = "abandoning" <=> finalizer[c][k].pc = "abandoning"
           /\ Overtaken[c][k].pc \notin { "none", "ended" } <=> FinalizerActive(c, k)
  <1>1. Overtaken[c][k] = IF finalizer[c][k].pc = "refreshing"
                          THEN [finalizer[c][k] EXCEPT !.pc = "overtaken"]
                          ELSE finalizer[c][k]
    BY DEF Overtaken
  <1>2. finalizer[c][k] \in FinalizerState
    BY DEF TypeOK
  <1>3. QED
    BY <1>1, <1>2 DEF FinalizerState, FinalizerActive

(* The status and rows are left alone, and no finaliser learns anything.   *)
LEMMA FinalizersStep ==
    ASSUME IInv, UNCHANGED << status, calls, rec, run, vjob, ijob >>,
           \A c \in Call, k \in Copy :
               /\ FinalizerActive(c, k)' => FinalizerActive(c, k)
               /\ finalizer'[c][k].pc = "refreshing" =>
                      finalizer'[c][k] = finalizer[c][k]
    PROVE  Safe'
  <1>1. \A c \in Call, r \in RecordId : ImportJobActive(c, r)' = ImportJobActive(c, r)
    BY DEF ImportJobActive
  <1>2. OneRun' /\ OneFollower'
    BY <1>1, RowsKept, OneRunKept
  <1>3. ImportsAreLoaded' /\ OneJob' /\ LoadsAreValidated'
    BY <1>1, ImportsKept, RowsKept, TodoType DEF LoadsAreValidated
  <1>4. FollowerKnows'
    BY <1>1, FollowersKnow
  <1>5. ValidatedRecords' /\ ValidationsOver'
    BY RowsKept DEF ValidatedRecords, ValidationsOver
  <1>6. QED
    BY <1>2, <1>3, <1>4, <1>5, RowsKept

(* A change of options overtakes the finalisers, and nothing else. *)
LEMMA OptionsUpdateSafe == IInv /\ OptionsUpdate => Safe'
  <1> SUFFICES ASSUME IInv, OptionsUpdate PROVE Safe'
    OBVIOUS
  <1>1. \A c \in Call, k \in Copy :
            /\ FinalizerActive(c, k)' => FinalizerActive(c, k)
            /\ finalizer'[c][k].pc # "refreshing"
    BY OvertakenFacts DEF OptionsUpdate, FinalizerActive
  <1>2. QED
    BY <1>1, FinalizersStep DEF OptionsUpdate

(* A finaliser ends without writing. *)
LEMMA EndedFinalizerSafe ==
    ASSUME IInv, NEW c \in Call, NEW k \in Copy,
           finalizer' = [finalizer EXCEPT ![c][k] = EndedFinalizer],
           UNCHANGED << status, calls, rec, run, vjob, ijob >>
    PROVE  Safe'
  <1>1. EndedFinalizer.pc = "ended"
    BY DEF EndedFinalizer, NoFinalizer
  <1>2. \A d \in Call, l \in Copy :
            finalizer'[d][l] = finalizer[d][l] \/ finalizer'[d][l].pc = "ended"
    BY <1>1 DEF TypeOK
  <1>3. \A d \in Call, l \in Copy :
            /\ FinalizerActive(d, l)' => FinalizerActive(d, l)
            /\ finalizer'[d][l].pc = "refreshing" =>
                   finalizer'[d][l] = finalizer[d][l]
    BY <1>2 DEF FinalizerActive
  <1>4. QED
    BY <1>3, FinalizersStep

-----------------------------------------------------------------------------
(* What the calculated status says of the records.                         *)

(* A task has finitely many records. *)
LEMMA RecordIdFinite == IsFiniteSet(RecordId)
  <1>1. IsFiniteSet(Call) /\ IsFiniteSet(Entry)
    BY NAssumption, MaxCallsAssumption, FS_Interval DEF Call, Entry
  <1>2. QED
    BY <1>1, FS_Product DEF RecordId

(* A count is zero exactly when no record is in its state. *)
LEMMA CountsDescribeRecords ==
    ASSUME NEW s \in ImporterRecordState
    PROVE  /\ RecordsStatus[s] \in Nat
           /\ RecordsStatus[s] = 0 <=> \A r \in RecordId : rec[r] # s
  <1> DEFINE S == { r \in RecordId : rec[r] = s }
  <1>1. IsFiniteSet(S)
    BY RecordIdFinite, FS_Subset
  <1>2. Cardinality(S) \in Nat /\ (Cardinality(S) = 0 <=> S = {})
    BY <1>1, FS_CardinalityType, FS_EmptySet
  <1>3. RecordsStatus[s] = Cardinality(S)
    BY DEF RecordsStatus
  <1>4. QED
    BY <1>2, <1>3

(* A task is only calculated as validated when all its records are.        *)
LEMMA CalculatedAsValidated ==
    ASSUME TypeOK, CalculateTaskState(RecordsStatus) = "validated"
    PROVE  \A r \in Live : rec[r] = "validated"
  <1>1. RecordsStatus \in Counts
    BY CountsDescribeRecords DEF RecordsStatus, Counts
  <1>2. \A n \in Counts :
            CalculateTaskState(n) = "validated" =>
                \A s \in ImporterRecordState \ {"validated"} : n[s] = 0
    BY DEF Counts, CalculateTaskState, TotalRecords, ImporterRecordState
  <1>3. \A s \in ImporterRecordState \ {"validated"} : RecordsStatus[s] = 0
    BY <1>1, <1>2
  <1>4. QED
    BY <1>3, CountsDescribeRecords DEF Live

(* What a finaliser reads: whether the phase of its run is over, ...       *)
LEMMA PendingDescribesRecords ==
    ASSUME TypeOK, NEW c \in Call
    PROVE  HasPendingRecords(RecordsStatus, Phase(c)) <=>
               \E r \in Live : rec[r] = IF run[c].kind = "load"
                                        THEN "validated" ELSE "created"
  <1>1. PendingRecordStates[Phase(c)] =
            { IF run[c].kind = "load" THEN "validated" ELSE "created" }
    BY DEF Phase, PendingRecordStates
  <1>2. "validated" \in ImporterRecordState /\ "created" \in ImporterRecordState
    BY DEF ImporterRecordState
  <1>3. ASSUME NEW s \in ImporterRecordState
        PROVE  RecordsStatus[s] > 0 <=> \E r \in Live : rec[r] = s
    <2>1. RecordsStatus[s] > 0 <=> RecordsStatus[s] # 0
      BY CountsDescribeRecords
    <2>2. QED
      BY <2>1, CountsDescribeRecords DEF Live
  <1>4. QED
    BY <1>1, <1>2, <1>3 DEF HasPendingRecords

(* ... and the status that goes with it.                                   *)
LEMMA StatusRead ==
    ASSUME TypeOK, NEW c \in Call
    PROVE  LET s == TaskStatusFromRecords(RecordsStatus, Phase(c))
           IN  /\ HasPendingRecords(RecordsStatus, Phase(c)) =>
                      s = RunningStatus(c)
               /\ s = "validated" => \A r \in Live : rec[r] = "validated"
  <1>1. /\ Phase(c) \in Phases
        /\ RunningTaskStates[Phase(c)] = RunningStatus(c)
        /\ RunningStatus(c) # "validated"
    BY DEF Phase, Phases, RunningTaskStates, RunningStatus
  <1>2. QED
    BY <1>1, CalculatedAsValidated DEF TaskStatusFromRecords

-----------------------------------------------------------------------------
(* Jobs that write their record.                                           *)

(* Overtaken jobs are as alive as before. *)
LEMMA JobsOvertakenFacts ==
    ASSUME TypeOK, NEW r \in RecordId, NEW d \in Call, NEW q \in RecordId
    PROVE  /\ JobsOvertaken(r)[d][q] \notin { "none", "ended" } <=>
                  ImportJobActive(d, q)
           /\ JobsOvertaken(r) \in [Call -> [RecordId -> JobState]]
  BY JobsOvertakenType DEF JobsOvertaken, ImportJobActive

(* The result of an import. *)
LEMMA EndImportSafe ==
    ASSUME IInv, NEW c \in Call, NEW r \in RecordId,
           NEW s \in { "success", "import_failed" }, NEW link,
           ImportJobActive(c, r), EndImport(c, r, s, link)
    PROVE  Safe'
  <1>1. CASE r \notin Live
    <2>1. JobMoves(c, r, "ended")
      BY <1>1 DEF EndImport, JobMoves
    <2>2. QED
      BY <1>1, <2>1, ImportJobStep DEF EndImport, JobState
  <1>2. CASE r \in Live
    <2>1. /\ run[c].kind = "load" /\ run[c].queued /\ rec[r] = "validated"
          /\ c = calls /\ status \in { "importing", "damaged" }
      BY <1>2 DEF ImportsAreLoaded
    <2>2. \A d \in Call : Active(d) => d = c
      BY <2>1 DEF OneRun
    <2>3. vjob[r] = "ended"
      BY <1>2, <2>1 DEF VerdictsAreFinal
    <2>4. /\ \A q \in RecordId : q # r => rec'[q] = rec[q]
          /\ rec'[r] = s
          /\ Live' = Live
      BY <1>2 DEF EndImport, TypeOK, Live, ImporterRecordState
    <2>5. \A d \in Call : Unread(d)' = Unread(d)
      BY <2>1, <2>4 DEF Unread, RecordId
    <2>6. /\ \A d \in Call, q \in RecordId :
                 ImportJobActive(d, q)' => ImportJobActive(d, q)
          /\ ~ ImportJobActive(c, r)'
      BY <1>2, JobsOvertakenFacts DEF EndImport, ImportJobActive
    <2>7. \A d \in Call : ~ ImportJobActive(d, r)'
      BY <2>6 DEF OneJob
    <2>8. /\ \A d \in Call : RunActive(d)' = RunActive(d)
          /\ \A d \in Call : RunningStatus(d)' = RunningStatus(d)
          /\ \A d \in Call, k \in Copy :
                 FinalizerActive(d, k)' = FinalizerActive(d, k)
      BY DEF EndImport, RunActive, RunningStatus, FinalizerActive
    <2>9. OneRun' /\ OneFollower'
      BY <2>8, OneRunKept DEF EndImport
    <2>10. VerdictsAreFinal'
      BY <2>3, <2>4 DEF VerdictsAreFinal, EndImport
    <2>11. ReadInOrder'
      BY <2>5 DEF ReadInOrder, EndImport
    <2>12. ImportsAreLoaded' /\ OneJob'
      BY <2>4, <2>6, <2>7, ImportsKept DEF EndImport
    <2>13. LoadsAreValidated'
      <3>1. \A d \in Call : RunActive(d) => d = c
        BY <2>2 DEF Active
      <3>2. r \notin run[c].todo \/ ~ RunActive(c)
        BY <2>1 DEF LoadsAreValidated
      <3>3. QED
        BY <2>1, <2>4, <2>6, <2>8, <3>1, <3>2, TodoType
        DEF LoadsAreValidated, EndImport
    <2>14. FollowerKnows'
      <3>1. \A d \in Call, k \in Copy : finalizer[d][k].pc = "refreshing" =>
                /\ d = c
                /\ finalizer[d][k].pending
                /\ finalizer[d][k].status # "validated"
        BY <1>2, <2>1, <2>2
        DEF Active, FinalizerActive, FollowerKnows, RunningStatus
      <3>2. QED
        BY <2>6, <2>8, <3>1 DEF FollowerKnows, EndImport
    <2>15. ValidatedRecords' /\ ValidationsOver'
      BY <2>1, <2>3, <2>4 DEF ValidatedRecords, ValidationsOver, EndImport
    <2>16. QED
      BY <2>9, <2>10, <2>11, <2>12, <2>13, <2>14, <2>15
  <1>3. QED
    BY <1>1, <1>2

(* The verdict of a validation.                                            *)
LEMMA EndValidationSafe ==
    ASSUME IInv, NEW r \in RecordId, EndValidation(r)
    PROVE  Safe'
  <1>1. CASE UNCHANGED << rec, ijob >>
    BY <1>1, ValidationJobStep DEF EndValidation
  <1>2. CASE r \in Live /\ \E v \in Verdicts : WriteRecord(r, v)
    <2>1. rec[r] = "created"
      BY <1>2 DEF EndValidation, VerdictsAreFinal
    <2>2. /\ \A q \in RecordId : q # r => rec'[q] = rec[q]
          /\ rec'[r] \in Verdicts
      BY <1>2 DEF WriteRecord, TypeOK
    <2>3. Live' = Live
      BY <1>2, <2>2 DEF Live, Verdicts, ImporterRecordState
    <2>4. \A d \in Call : Unread(d)' = Unread(d)
      BY <2>1, <2>2 DEF Unread, RecordId, Verdicts
    <2>5. /\ \A q \in RecordId : q # r => vjob'[q] = vjob[q]
          /\ vjob'[r] = "ended"
      BY DEF EndValidation, TypeOK
    <2>6. /\ \A d \in Call : RunActive(d)' = RunActive(d)
          /\ \A d \in Call : RunningStatus(d)' = RunningStatus(d)
          /\ \A d \in Call, k \in Copy :
                 FinalizerActive(d, k)' = FinalizerActive(d, k)
      BY DEF EndValidation, RunActive, RunningStatus, FinalizerActive
    <2>7. \A d \in Call, q \in RecordId :
              ImportJobActive(d, q)' = ImportJobActive(d, q)
      BY <1>2, JobsOvertakenFacts DEF WriteRecord, ImportJobActive
    <2>8. OneRun' /\ OneFollower'
      BY <2>6, <2>7, OneRunKept DEF EndValidation
    <2>9. VerdictsAreFinal'
      BY <2>2, <2>3, <2>5 DEF VerdictsAreFinal, Verdicts
    <2>10. ReadInOrder'
      <3>1. \A d \in Call, e \in Entry : <<d, e>> \in RecordId
        BY DEF RecordId
      <3>2. \A q \in RecordId : vjob[q] = "none" => vjob'[q] = "none"
        BY <2>5 DEF EndValidation
      <3>3. QED
        BY <2>4, <3>1, <3>2 DEF ReadInOrder, EndValidation
    <2>11. ImportsAreLoaded' /\ OneJob'
      <3>1. \A d \in Call : ~ ImportJobActive(d, r)
        BY <1>2, <2>1 DEF ImportsAreLoaded
      <3>2. QED
        BY <2>2, <2>7, <3>1, ImportsKept DEF EndValidation
    <2>12. LoadsAreValidated'
      <3>1. \A d \in Call : run[d].kind = "load" /\ RunActive(d) =>
                run[d].queued /\ r \notin run[d].todo
        BY <1>2, <2>1 DEF LoadsAreValidated
      <3>2. QED
        BY <2>2, <2>6, <2>7, <3>1, TodoType DEF LoadsAreValidated, EndValidation
    <2>13. FollowerKnows'
      <3>1. \A d \in Call, k \in Copy : finalizer[d][k].pc = "refreshing" =>
                finalizer[d][k].status # "validated"
        BY <1>2, <2>1 DEF FollowerKnows
      <3>2. rec'[r] # "created"
        BY <2>2 DEF Verdicts
      <3>3. QED
        BY <2>2, <2>3, <2>6, <2>7, <3>1, <3>2
        DEF FollowerKnows, EndValidation, Live
    <2>14. ValidatedRecords' /\ ValidationsOver'
      BY <1>2, <2>1, <2>2, <2>3, <2>5
      DEF ValidatedRecords, ValidationsOver, EndValidation
    <2>15. QED
      BY <2>8, <2>9, <2>10, <2>11, <2>12, <2>13, <2>14
  <1>3. QED
    BY <1>1, <1>2 DEF EndValidation

-----------------------------------------------------------------------------
(* Fan-outs that move on without touching rows or jobs.                    *)

(* A fan-out that moves on keeps what it was called for. *)
LEMMA RunPcFacts ==
    ASSUME TypeOK, NEW c \in Call, NEW pc, run' = [run EXCEPT ![c].pc = pc]
    PROVE  /\ run'[c].pc = pc
           /\ run'[c].kind = run[c].kind
           /\ run'[c].todo = run[c].todo
           /\ run'[c].queued = run[c].queued
           /\ \A d \in Call : d # c => run'[d] = run[d]
  BY DEF TypeOK, RunState

(* A fan-out reads on, fails, or ends, and nobody else notices. *)
LEMMA RunPcStep ==
    ASSUME IInv, NEW c \in Call,
           NEW pc \in { "reading", "settling", "abandoning", "ended" },
           RunActive(c), run' = [run EXCEPT ![c].pc = pc],
           pc = "settling" => run[c].kind = "load",
           pc = "abandoning" /\ run[c].kind = "load" => ~ run[c].queued,
           UNCHANGED << status, calls, rec, vjob, ijob, finalizer >>
    PROVE  Safe'
  <1>1. /\ run'[c].pc = pc
        /\ \A d \in Call :
               /\ run'[d].kind = run[d].kind
               /\ run'[d].todo = run[d].todo
               /\ run'[d].queued = run[d].queued
               /\ d # c => run'[d] = run[d]
    BY RunPcFacts
  <1>2. \A d \in Call :
            /\ RunActive(d)' => RunActive(d)
            /\ RunningStatus(d)' = RunningStatus(d)
            /\ Unread(d)' = Unread(d)
            /\ \A k \in Copy : FinalizerActive(d, k)' = FinalizerActive(d, k)
            /\ \A q \in RecordId : ImportJobActive(d, q)' = ImportJobActive(d, q)
    BY <1>1 DEF RunActive, RunningStatus, Unread, FinalizerActive, ImportJobActive
  <1>3. Live' = Live
    BY DEF Live
  <1>4. OneRun' /\ OneFollower'
    BY <1>2, OneRunKept
  <1>5. VerdictsAreFinal'
    BY <1>3 DEF VerdictsAreFinal
  <1>6. ReadInOrder'
    BY <1>1, <1>2 DEF ReadInOrder
  <1>7. ImportsAreLoaded' /\ OneJob'
    BY <1>1, <1>2, ImportsKept
  <1>8. LoadsAreValidated'
    BY <1>1, <1>2, <1>3, TodoType DEF LoadsAreValidated
  <1>9. FollowerKnows'
    BY <1>1, <1>2, FollowersKnow
  <1>10. ValidatedRecords' /\ ValidationsOver'
    BY <1>3 DEF ValidatedRecords, ValidationsOver
  <1>11. QED
    BY <1>4, <1>5, <1>6, <1>7, <1>8, <1>9, <1>10

(* Opening the file, or failing to. *)
LEMMA OpenMetadataFileSafe ==
    ASSUME IInv, NEW c \in Call, OpenMetadataFile(c) PROVE Safe'
  <1>1. PICK pc \in { "abandoning", "reading" } : run' = [run EXCEPT ![c].pc = pc]
    BY Zenon DEF OpenMetadataFile
  <1>2. QED
    BY <1>1, RunPcStep DEF OpenMetadataFile, RunActive

(* Reading fails in the middle of the file. *)
LEMMA ReadFailsSafe ==
    ASSUME IInv, NEW c \in Call, ReadFails(c) PROVE Safe'
  BY RunPcStep DEF ReadFails, Reading, RunActive

(* The worker of a fan-out dies. *)
LEMMA CrashRunSafe ==
    ASSUME IInv, NEW c \in Call, CrashRun(c) PROVE Safe'
  BY RunPcStep DEF CrashRun, RunActive

(* An entry becomes a record.                                              *)
LEMMA CreateRecordSafe ==
    ASSUME IInv, NEW c \in Call, NEW e \in Entry, CreateRecord(c, e)
    PROVE  Safe'
  <1> DEFINE r == <<c, e>>
  <1>1. /\ r \in RecordId /\ rec[r] = "absent" /\ vjob[r] = "none"
        /\ run[c].kind = "validate" /\ run[c].pc = "reading"
    BY DEF CreateRecord, Reading, Unread, RecordId, VerdictsAreFinal
  <1>2. RunActive(c) /\ Active(c) /\ status = "validating"
    BY <1>1 DEF RunActive, Active, OneRun, RunningStatus
  <1>3. \A d \in Call : Active(d) => d = c
    BY <1>2 DEF OneRun
  <1>4. \A k \in Copy : ~ FinalizerActive(c, k)
    BY <1>2 DEF OneFollower
  <1>5. \A d \in Call : ~ ImportJobActive(d, r)
    BY <1>1 DEF ImportsAreLoaded
  <1>6. /\ run'[c].pc = "publishing"
        /\ \A d \in Call :
               /\ run'[d].kind = run[d].kind
               /\ run'[d].queued = run[d].queued
               /\ d # c => run'[d] = run[d]
    BY RunPcFacts DEF CreateRecord
  <1>7. /\ \A q \in RecordId : q # r => rec'[q] = rec[q]
        /\ rec'[r] = "created"
    BY <1>1 DEF CreateRecord, TypeOK
  <1>9. /\ \A d \in Call :
               /\ RunActive(d)' => RunActive(d)
               /\ RunningStatus(d)' = RunningStatus(d)
        /\ \A d \in Call, k \in Copy : FinalizerActive(d, k)' = FinalizerActive(d, k)
        /\ \A d \in Call, q \in RecordId :
               ImportJobActive(d, q)' = ImportJobActive(d, q)
    BY <1>2, <1>6 DEF CreateRecord, RunActive, RunningStatus, FinalizerActive,
       ImportJobActive
  <1>10. OneRun' /\ OneFollower'
    BY <1>9, OneRunKept DEF CreateRecord
  <1>11. VerdictsAreFinal'
    BY <1>1, <1>7 DEF VerdictsAreFinal, CreateRecord, Live
  <1>12. ReadInOrder'
    BY CreateRecordInOrder DEF VerdictsAreFinal, AbsentIsUntouched
  <1>13. ImportsAreLoaded' /\ OneJob'
    <2>1. UNCHANGED << calls, status >>
      BY DEF CreateRecord
    <2>2. \A d \in Call, q \in RecordId :
              ImportJobActive(d, q)' => ImportJobActive(d, q) /\ rec'[q] = rec[q]
      BY <1>5, <1>7, <1>9
    <2>3. \A d \in Call : run'[d].kind = run[d].kind /\ run'[d].queued = run[d].queued
      BY <1>6
    <2> HIDE DEF r
    <2>4. QED
      BY <2>1, <2>2, <2>3, ImportsKept
  <1>14. LoadsAreValidated'
    BY <1>1, <1>3, <1>6, <1>9 DEF LoadsAreValidated, Active, RunActive
  <1>15. FollowerKnows'
    BY <1>3, <1>4 DEF FollowerKnows, Active, FinalizerActive, CreateRecord
  <1>16. ValidatedRecords' /\ ValidationsOver'
    BY <1>2 DEF ValidatedRecords, ValidationsOver, CreateRecord
  <1>17. QED
    BY <1>10, <1>11, <1>12, <1>13, <1>14, <1>15, <1>16

(* Its validation is published.                                            *)
LEMMA PublishValidationSafe ==
    ASSUME IInv, NEW c \in Call, NEW e \in Entry, PublishValidation(c, e)
    PROVE  Safe'
  <1> DEFINE r == <<c, e>>
  <1>1. /\ r \in RecordId /\ rec[r] # "absent" /\ vjob[r] = "none"
        /\ run[c].kind = "validate" /\ run[c].pc = "publishing"
    BY DEF PublishValidation, Unread, RecordId, ReadInOrder
  <1>2. RunActive(c) /\ Active(c) /\ status = "validating"
    BY <1>1 DEF RunActive, Active, OneRun, RunningStatus
  <1>3. \A d \in Call : Active(d) => d = c
    BY <1>2 DEF OneRun
  <1>4. PICK pc \in { "abandoning", "reading" } : run' = [run EXCEPT ![c].pc = pc]
    BY Zenon DEF PublishValidation
  <1>5. /\ run'[c].pc = pc
        /\ \A d \in Call :
               /\ run'[d].kind = run[d].kind
               /\ run'[d].todo = run[d].todo
               /\ run'[d].queued = run[d].queued
               /\ d # c => run'[d] = run[d]
    BY <1>4, RunPcFacts
  <1>6. PICK s \in { "none", "queued" } : vjob' = [vjob EXCEPT ![r] = s]
    BY Zenon DEF PublishValidation, JobSent
  <1>7. /\ \A q \in RecordId : q # r => vjob'[q] = vjob[q]
        /\ vjob'[r] = s
    BY <1>1, <1>6 DEF TypeOK
  <1>8. /\ \A d \in Call :
               /\ RunActive(d)' => RunActive(d)
               /\ RunningStatus(d)' = RunningStatus(d)
               /\ Unread(d)' = Unread(d)
        /\ \A d \in Call, k \in Copy : FinalizerActive(d, k)' = FinalizerActive(d, k)
        /\ \A d \in Call, q \in RecordId :
               ImportJobActive(d, q)' = ImportJobActive(d, q)
        /\ Live' = Live
    BY <1>2, <1>5 DEF PublishValidation, RunActive, RunningStatus, Unread,
       FinalizerActive, ImportJobActive, Live
  <1>9. OneRun' /\ OneFollower'
    BY <1>8, OneRunKept DEF PublishValidation
  <1>10. VerdictsAreFinal'
    BY <1>1, <1>7, <1>8 DEF VerdictsAreFinal, PublishValidation
  <1>11. ReadInOrder'
    BY PublishValidationInOrder
  <1>12. ImportsAreLoaded' /\ OneJob'
    BY <1>5, <1>8, ImportsKept DEF PublishValidation
  <1>13. LoadsAreValidated'
    BY <1>1, <1>3, <1>5, <1>8 DEF LoadsAreValidated, Active, RunActive
  <1>14. FollowerKnows'
    BY <1>5, <1>8, FollowersKnow DEF PublishValidation
  <1>15. ValidatedRecords' /\ ValidationsOver'
    BY <1>2 DEF ValidatedRecords, ValidationsOver, PublishValidation
  <1>16. QED
    BY <1>9, <1>10, <1>11, <1>12, <1>13, <1>14, <1>15

(* The records of the task are listed.                                     *)
LEMMA ListRecordsSafe ==
    ASSUME IInv, NEW c \in Call, ListRecords(c) PROVE Safe'
  <1>1. run[c].kind = "load" /\ run[c].pc = "queued" /\ RunActive(c) /\ Active(c)
    BY DEF ListRecords, RunActive, Active
  <1>2. CASE run' = [run EXCEPT ![c].pc = "settling"]
    BY <1>1, <1>2, RunPcStep DEF ListRecords
  <1>3. CASE run' = [run EXCEPT ![c].pc = "publishing", ![c].todo = Live]
    <2>1. /\ run'[c].pc = "publishing" /\ run'[c].todo = Live
          /\ \A d \in Call :
                 /\ run'[d].kind = run[d].kind
                 /\ run'[d].queued = run[d].queued
                 /\ d # c => run'[d] = run[d]
      BY <1>3 DEF TypeOK, RunState
    <2>2. /\ ~ run[c].queued
          /\ \A q \in Live : rec[q] = "validated"
      BY <1>1 DEF LoadsAreValidated
    <2>3. \A q \in RecordId : ~ ImportJobActive(c, q)
      BY <2>2 DEF ImportsAreLoaded
    <2>4. /\ \A d \in Call :
                 /\ RunActive(d)' => RunActive(d)
                 /\ RunningStatus(d)' = RunningStatus(d)
                 /\ Unread(d)' = Unread(d)
          /\ \A d \in Call, k \in Copy :
                 FinalizerActive(d, k)' = FinalizerActive(d, k)
          /\ \A d \in Call, q \in RecordId :
                 ImportJobActive(d, q)' = ImportJobActive(d, q)
          /\ Live' = Live
      BY <1>1, <2>1 DEF ListRecords, RunActive, RunningStatus, Unread,
         FinalizerActive, ImportJobActive, Live
    <2>5. OneRun' /\ OneFollower'
      BY <2>4, OneRunKept DEF ListRecords
    <2>6. VerdictsAreFinal'
      BY <2>4 DEF VerdictsAreFinal, ListRecords
    <2>7. ReadInOrder'
      BY <1>1, <2>1, <2>4 DEF ReadInOrder, ListRecords
    <2>8. ImportsAreLoaded' /\ OneJob'
      BY <2>1, <2>4, ImportsKept DEF ListRecords
    <2>9. LoadsAreValidated'
      <3>1. Live \in SUBSET RecordId
        BY DEF Live
      <3>2. QED
        BY <1>1, <2>1, <2>2, <2>3, <2>4, <3>1, TodoType
        DEF LoadsAreValidated, ListRecords
    <2>10. FollowerKnows'
      BY <2>1, <2>4, FollowersKnow DEF ListRecords
    <2>11. ValidatedRecords' /\ ValidationsOver'
      BY <2>4 DEF ValidatedRecords, ValidationsOver, ListRecords
    <2>12. QED
      BY <2>5, <2>6, <2>7, <2>8, <2>9, <2>10, <2>11
  <1>4. QED
    BY <1>2, <1>3 DEF ListRecords

(* The import of a listed record is published.                             *)
LEMMA PublishImportSafe ==
    ASSUME IInv, NEW c \in Call, NEW r \in RecordId, PublishImport(c, r)
    PROVE  Safe'
  <1>1. /\ run[c].kind = "load" /\ run[c].pc = "publishing" /\ r \in run[c].todo
        /\ RunActive(c) /\ Active(c) /\ status = "importing"
    BY DEF PublishImport, Loading, RunActive, Active, OneRun, RunningStatus
  <1>2. \A d \in Call : Active(d) => d = c
    BY <1>1 DEF OneRun
  <1>3. rec[r] = "validated" /\ \A k \in Copy : ~ FinalizerActive(c, k)
    BY <1>1 DEF LoadsAreValidated, OneFollower
  <1>4. PICK pc \in { "settling", "publishing" } :
            run' = [run EXCEPT ![c].pc = pc, ![c].todo = run[c].todo \ {r},
                               ![c].queued = TRUE]
    BY Zenon DEF PublishImport
  <1>5. /\ run'[c].pc = pc /\ run'[c].todo = run[c].todo \ {r} /\ run'[c].queued
        /\ \A d \in Call :
               /\ run'[d].kind = run[d].kind
               /\ d # c => run'[d] = run[d]
    BY <1>4 DEF TypeOK, RunState
  <1>6. PICK s \in { "none", "queued" } : ijob' = [ijob EXCEPT ![c][r] = s]
    BY Zenon DEF PublishImport, JobSent
  <1>7. \A d \in Call, q \in RecordId :
            <<d, q>> # <<c, r>> => ImportJobActive(d, q)' = ImportJobActive(d, q)
    BY <1>6 DEF TypeOK, ImportJobActive
  <1>8. /\ \A d \in Call :
               /\ RunActive(d)' => RunActive(d)
               /\ RunningStatus(d)' = RunningStatus(d)
               /\ Unread(d)' = Unread(d)
        /\ \A d \in Call, k \in Copy : FinalizerActive(d, k)' = FinalizerActive(d, k)
        /\ Live' = Live
    BY <1>1, <1>5 DEF PublishImport, RunActive, RunningStatus, Unread,
       FinalizerActive, Live
  <1>9. OneRun'
    <2>1. \A d \in Call : Active(d)' => d = c
      BY <1>2, <1>7, <1>8 DEF Active
    <2>2. c = calls
      BY <1>1 DEF OneRun
    <2>3. QED
      BY <1>1, <1>8, <2>1, <2>2 DEF OneRun, PublishImport, RunningStatus
  <1>10. OneFollower'
    BY <1>8 DEF OneFollower
  <1>11. VerdictsAreFinal'
    BY <1>8 DEF VerdictsAreFinal, PublishImport
  <1>12. ReadInOrder'
    <2>1. \A d \in Call, e \in Entry :
              e \in Unread(d) => \A f \in Entry : f > e => f \in Unread(d)
      BY DEF ReadInOrder
    <2>2. \A d \in Call : run'[d].kind = "validate" => run'[d] = run[d]
      BY <1>1, <1>5
    <2>3. vjob' = vjob
      BY DEF PublishImport
    <2>4. QED
      BY <1>8, <2>1, <2>2, <2>3 DEF ReadInOrder
  <1>13. ImportsAreLoaded' /\ OneJob'
    <2>1. \A d \in Call : ~ ImportJobActive(d, r)
      <3>1. r \in Live /\ c = calls /\ ~ ImportJobActive(c, r)
        BY <1>1, <1>3 DEF Live, ImporterRecordState, OneRun, LoadsAreValidated
      <3>2. QED
        BY <3>1 DEF ImportsAreLoaded
    <2>2. /\ run'[c].kind = "load" /\ run'[c].queued
          /\ \A d \in Call : d # c => run'[d] = run[d]
          /\ c = calls /\ calls \in Nat
          /\ UNCHANGED << rec, status, calls >>
      BY <1>1, <1>5 DEF PublishImport, OneRun, TypeOK
    <2>3. ImportsAreLoaded'
      <3>1. ASSUME NEW d \in Call, NEW q \in RecordId, ImportJobActive(d, q)',
                   <<d, q>> = <<c, r>>
            PROVE  d = c /\ rec[q] = "validated"
        BY <1>3, <3>1
      <3>2. ASSUME NEW d \in Call, NEW q \in RecordId, ImportJobActive(d, q)',
                   <<d, q>> # <<c, r>>
            PROVE  ImportJobActive(d, q)
        BY <1>7, <3>2
      <3>3. QED
        BY <1>1, <1>8, <2>2, <3>1, <3>2 DEF ImportsAreLoaded
    <2>4. OneJob'
      BY <1>7, <2>1 DEF OneJob
    <2>5. QED
      BY <2>3, <2>4
  <1>14. LoadsAreValidated'
    <2>1. \A q \in run'[c].todo : q \in run[c].todo /\ q # r /\ q \in RecordId
      BY <1>5, TodoType
    <2>2. /\ run'[c].queued
          /\ \A q \in run'[c].todo : rec'[q] = "validated" /\ ~ ImportJobActive(c, q)'
      BY <1>1, <1>5, <1>7, <2>1 DEF LoadsAreValidated, PublishImport
    <2>3. \A d \in Call : d # c => ~ RunActive(d)'
      BY <1>2, <1>8 DEF Active
    <2>4. \A d \in Call : run'[d].pc = "settling" => run'[d].kind = "load"
      BY <1>1, <1>5 DEF LoadsAreValidated
    <2>5. run'[c].pc \notin { "queued", "abandoning" }
      BY <1>5
    <2>6. QED
      BY <2>2, <2>3, <2>4, <2>5 DEF LoadsAreValidated
  <1>15. FollowerKnows'
    BY <1>2, <1>3 DEF FollowerKnows, Active, FinalizerActive, PublishImport
  <1>16. ValidatedRecords' /\ ValidationsOver'
    BY <1>8 DEF ValidatedRecords, ValidationsOver, PublishImport
  <1>17. QED
    BY <1>9, <1>10, <1>11, <1>12, <1>13, <1>14, <1>15, <1>16

-----------------------------------------------------------------------------
(* Fan-outs that hand over to a finaliser, or give up.                     *)

(* A fan-out ends, and the finaliser it published, if any, is the only one. *)
LEMMA FollowStep ==
    ASSUME IInv, NEW c \in Call, NEW k \in Copy,
           NEW pc \in { "settling", "abandoning", "ended" },
           NEW f \in { NoFinalizer, [NoFinalizer EXCEPT !.pc = "waiting"] },
           RunActive(c), run' = [run EXCEPT ![c].pc = pc],
           finalizer' = [finalizer EXCEPT ![c][k] = f],
           pc = "settling" => run[c].kind = "load",
           pc = "abandoning" => run[c].kind # "load",
           pc # "ended" => f = NoFinalizer,
           UNCHANGED << status, calls, rec, vjob, ijob >>
    PROVE  Safe'
  <1>1. Active(c)
    BY DEF Active
  <1>2. \A d \in Call : Active(d) => d = c
    BY <1>1 DEF OneRun
  <1>3. \A l \in Copy : ~ FinalizerActive(c, l)
    BY DEF OneFollower
  <1>4. /\ run'[c].pc = pc
        /\ \A d \in Call :
               /\ run'[d].kind = run[d].kind
               /\ run'[d].todo = run[d].todo
               /\ run'[d].queued = run[d].queued
               /\ d # c => run'[d] = run[d]
    BY RunPcFacts
  <1>5. f.pc \in { "none", "waiting" } /\ (pc # "ended" => f.pc = "none")
    BY DEF NoFinalizer
  <1>6. /\ finalizer'[c][k] = f
        /\ \A d \in Call, l \in Copy :
               <<d, l>> # <<c, k>> => finalizer'[d][l] = finalizer[d][l]
    BY DEF TypeOK
  <1>7. \A d \in Call, l \in Copy :
            /\ FinalizerActive(d, l)' =>
                   FinalizerActive(d, l) \/ (d = c /\ l = k /\ pc = "ended")
            /\ finalizer'[d][l].pc \notin { "refreshing", "abandoning" }
    <2>1. \A d \in Call, l \in Copy : FinalizerActive(d, l) => d = c
      BY <1>2 DEF Active
    <2>2. QED
      BY <1>3, <1>5, <1>6, <2>1 DEF FinalizerActive
  <1>8. \A d \in Call :
            /\ RunActive(d)' => RunActive(d)
            /\ RunningStatus(d)' = RunningStatus(d)
            /\ Unread(d)' = Unread(d)
            /\ \A q \in RecordId : ImportJobActive(d, q)' = ImportJobActive(d, q)
    BY <1>4 DEF RunActive, RunningStatus, Unread, ImportJobActive
  <1>9. Live' = Live
    BY DEF Live
  <1>10. OneRun'
    <2>1. \A d \in Call : Active(d)' => d = c
      BY <1>2, <1>7, <1>8 DEF Active
    <2>2. QED
      BY <1>1, <1>8, <2>1 DEF OneRun
  <1>11. OneFollower'
    <2>1. \A d \in Call, l \in Copy : FinalizerActive(d, l)' => d = c /\ l = k
      BY <1>2, <1>3, <1>7 DEF Active
    <2>2. (\E l \in Copy : FinalizerActive(c, l)') => ~ RunActive(c)'
      BY <1>3, <1>4, <1>7 DEF RunActive
    <2>3. QED
      BY <2>1, <2>2 DEF OneFollower
  <1>12. VerdictsAreFinal'
    BY <1>9 DEF VerdictsAreFinal
  <1>13. ReadInOrder'
    <2>1. \A d \in Call, e \in Entry :
              e \in Unread(d) => \A g \in Entry : g > e => g \in Unread(d)
      BY DEF ReadInOrder
    <2>2. ASSUME NEW d \in Call, NEW e \in Entry,
                 run'[d].kind = "validate", run'[d].pc = "publishing",
                 e \notin Unread(d), \A g \in Entry : g > e => g \in Unread(d)
          PROVE  vjob'[<<d, e>>] = "none"
      <3>1. run'[d] = run[d]
        BY <1>4, <2>2
      <3>2. QED
        BY <2>2, <3>1 DEF ReadInOrder
    <2>3. \A d \in Call : Unread(d)' = Unread(d)
      BY <1>8
    <2>4. \A d \in Call, e \in Entry :
              e \in Unread(d)' => \A g \in Entry : g > e => g \in Unread(d)'
      BY ONLY <2>1, <2>3
    <2>5. ASSUME NEW d \in Call, NEW e \in Entry,
                 run'[d].kind = "validate", run'[d].pc = "publishing",
                 e \notin Unread(d)', \A g \in Entry : g > e => g \in Unread(d)'
          PROVE  vjob'[<<d, e>>] = "none"
      BY ONLY <2>2, <2>3, <2>5
    <2>6. QED
      BY ONLY <2>4, <2>5 DEF ReadInOrder
  <1>14. ImportsAreLoaded' /\ OneJob'
    BY <1>4, <1>8, ImportsKept
  <1>15. LoadsAreValidated'
    BY <1>4, <1>8, <1>9, TodoType DEF LoadsAreValidated
  <1>16. FollowerKnows'
    BY <1>7 DEF FollowerKnows
  <1>17. ValidatedRecords' /\ ValidationsOver'
    BY <1>9 DEF ValidatedRecords, ValidationsOver
  <1>18. QED
    BY <1>10, <1>11, <1>12, <1>13, <1>14, <1>15, <1>16, <1>17

(* Without "ambiguous", a publish that raised sent nothing. *)
LEMMA RaisedIsNotSent ==
    ASSUME Steady, NEW p \in Publish, p.raised
    PROVE  FinalizerSent(p.sent) = NoFinalizer
  <1>1. p = [sent |-> TRUE, raised |-> FALSE] \/ p = [sent |-> FALSE, raised |-> TRUE]
    BY Zenon DEF Steady, Publish
  <1>2. QED
    BY <1>1 DEF FinalizerSent

(* What FollowStep expects of the message. *)
LEMMA FinalizerSentFacts ==
    \A sent : FinalizerSent(sent) \in
                  { NoFinalizer, [NoFinalizer EXCEPT !.pc = "waiting"] }
  BY Zenon DEF FinalizerSent

(* All entries are read: the validation is followed. *)
LEMMA FollowValidationSafe ==
    ASSUME IInv, Steady, NEW c \in Call, FollowValidation(c) PROVE Safe'
  <1>1. PICK p \in Publish :
            /\ finalizer' = [finalizer EXCEPT ![c][1] = FinalizerSent(p.sent)]
            /\ run' = [run EXCEPT ![c].pc = IF p.raised THEN "abandoning" ELSE "ended"]
    BY DEF FollowValidation
  <1>2. 1 \in Copy /\ RunActive(c) /\ run[c].kind = "validate"
    BY DEF Copy, FollowValidation, Reading, RunActive
  <1>3. CASE p.raised
    <2>1. /\ finalizer' = [finalizer EXCEPT ![c][1] = NoFinalizer]
          /\ run' = [run EXCEPT ![c].pc = "abandoning"]
      BY <1>1, <1>3, RaisedIsNotSent, Zenon
    <2>2. QED
      BY <1>2, <2>1, FollowStep DEF FollowValidation
  <1>4. CASE ~ p.raised
    <2>1. PICK f \in { NoFinalizer, [NoFinalizer EXCEPT !.pc = "waiting"] } :
              finalizer' = [finalizer EXCEPT ![c][1] = f]
      BY <1>1, FinalizerSentFacts, Zenon
    <2>2. run' = [run EXCEPT ![c].pc = "ended"]
      BY <1>1, <1>4, Zenon
    <2>3. QED
      BY <1>2, <2>1, <2>2, FollowStep DEF FollowValidation
  <1>5. QED
    BY <1>3, <1>4

(* All imports are published: the load is followed. *)
LEMMA FollowImportSafe ==
    ASSUME IInv, Steady, NEW c \in Call, FollowImport(c) PROVE Safe'
  <1>1. PICK p \in Publish :
            /\ finalizer' = [finalizer EXCEPT ![c][1] = FinalizerSent(p.sent)]
            /\ run' = [run EXCEPT ![c].pc = IF p.raised THEN "settling" ELSE "ended"]
    BY DEF FollowImport
  <1>2. 1 \in Copy /\ RunActive(c) /\ run[c].kind = "load"
    BY DEF Copy, FollowImport, Loading, RunActive
  <1>3. CASE p.raised
    <2>1. /\ finalizer' = [finalizer EXCEPT ![c][1] = NoFinalizer]
          /\ run' = [run EXCEPT ![c].pc = "settling"]
      BY <1>1, <1>3, RaisedIsNotSent, Zenon
    <2>2. QED
      BY <1>2, <2>1, FollowStep DEF FollowImport
  <1>4. CASE ~ p.raised
    <2>1. PICK f \in { NoFinalizer, [NoFinalizer EXCEPT !.pc = "waiting"] } :
              finalizer' = [finalizer EXCEPT ![c][1] = f]
      BY <1>1, FinalizerSentFacts, Zenon
    <2>2. run' = [run EXCEPT ![c].pc = "ended"]
      BY <1>1, <1>4, Zenon
    <2>3. QED
      BY <1>2, <2>1, <2>2, FollowStep DEF FollowImport
  <1>5. QED
    BY <1>3, <1>4

(* A load that raised after a publish is followed all the same. *)
LEMMA SettleByFollowingSafe ==
    ASSUME IInv, NEW c \in Call, SettleByFollowing(c) PROVE Safe'
  <1>1. PICK f \in { NoFinalizer, [NoFinalizer EXCEPT !.pc = "waiting"] } :
            finalizer' = [finalizer EXCEPT ![c][2] = f]
    BY FinalizerSentFacts, Zenon DEF SettleByFollowing
  <1>2. 2 \in Copy /\ RunActive(c)
    BY DEF Copy, SettleByFollowing, RunActive
  <1>3. QED
    BY <1>1, <1>2, FollowStep DEF SettleByFollowing

(* Whatever ends the run may set the status to anything true of its rows,  *)
(* if no job of a record is left, and to damaged even then.                *)
LEMMA NothingLeft ==
    ASSUME IInv, UNCHANGED << calls, rec, vjob, ijob >>,
           \A c \in Call : ~ Active(c)',
           \A c \in Call : run'[c].kind = run[c].kind /\ run'[c].queued = run[c].queued,
           \/ status' = "damaged"
           \/ \A c \in Call, r \in Live : ~ ImportJobActive(c, r),
           status' = "validated" => \A r \in Live : rec[r] = "validated",
           status' \notin { "validating", "damaged" } =>
               \A r \in Live : vjob[r] \notin { "queued", "running" }
    PROVE  Safe'
  <1>1. /\ Live' = Live /\ \A c \in Call : Unread(c)' = Unread(c)
        /\ \A c \in Call, r \in RecordId :
               ImportJobActive(c, r)' = ImportJobActive(c, r)
    BY DEF Live, Unread, ImportJobActive
  <1>2. OneRun' /\ OneFollower'
    BY DEF OneRun, OneFollower, Active
  <1>3. ImportsAreLoaded' /\ OneJob'
    BY <1>1 DEF ImportsAreLoaded, OneJob
  <1>4. VerdictsAreFinal' /\ ValidatedRecords' /\ ValidationsOver'
    BY <1>1 DEF VerdictsAreFinal, ValidatedRecords, ValidationsOver
  <1>5. ReadInOrder'
    BY <1>1 DEF ReadInOrder, Active, RunActive
  <1>6. LoadsAreValidated' /\ FollowerKnows'
    BY DEF LoadsAreValidated, FollowerKnows, Active, RunActive, FinalizerActive
  <1>7. QED
    BY <1>2, <1>3, <1>4, <1>5, <1>6

(* A fan-out that ends its run leaves no follower behind.                  *)
LEMMA RunLeavesNothing ==
    ASSUME IInv, NEW c \in Call, RunActive(c),
           run' = [run EXCEPT ![c].pc = "ended"], finalizer' = Overtaken
    PROVE  /\ \A d \in Call : ~ Active(d)'
           /\ \A d \in Call : /\ run'[d].kind = run[d].kind
                              /\ run'[d].queued = run[d].queued
  <1>1. \A d \in Call : Active(d) => d = c
    BY DEF OneRun, Active
  <1>2. \A l \in Copy : ~ FinalizerActive(c, l)
    BY DEF OneFollower
  <1>3. /\ run'[c].pc = "ended" /\ \A d \in Call : d # c => run'[d] = run[d]
        /\ run'[c].kind = run[c].kind /\ run'[c].queued = run[c].queued
    BY RunPcFacts
  <1>4. \A d \in Call : ~ RunActive(d)'
    BY <1>1, <1>3 DEF Active, RunActive
  <1>5. \A d \in Call, l \in Copy : ~ FinalizerActive(d, l)'
    <2>1. \A d \in Call, l \in Copy : ~ FinalizerActive(d, l)
      BY <1>1, <1>2 DEF Active
    <2>2. QED
      BY <2>1, OvertakenFacts DEF FinalizerActive
  <1>6. QED
    BY <1>3, <1>4, <1>5 DEF Active

(* A fan-out marks the task as damaged. *)
LEMMA AbandonRunSafe ==
    ASSUME IInv, NEW c \in Call, AbandonRun(c) PROVE Safe'
  <1>1. RunActive(c)
    BY DEF AbandonRun, RunActive
  <1>2. CASE UNCHANGED << status, finalizer >>
    BY <1>1, <1>2, RunPcStep DEF AbandonRun
  <1>3. CASE status' = "damaged" /\ finalizer' = Overtaken
    BY <1>1, <1>3, RunLeavesNothing, NothingLeft DEF AbandonRun
  <1>4. QED
    BY <1>2, <1>3 DEF AbandonRun

(* A load that published nothing calculates the status. *)
LEMMA SettleByRefreshingSafe ==
    ASSUME IInv, NEW c \in Call, SettleByRefreshing(c) PROVE Safe'
  <1>1. /\ RunActive(c) /\ run[c].kind = "load" /\ ~ run[c].queued
        /\ c = calls /\ status = "importing"
    BY DEF SettleByRefreshing, RunActive, LoadsAreValidated, OneRun, Active,
       RunningStatus
  <1>2. CASE UNCHANGED << status, finalizer >> /\ run' = [run EXCEPT ![c].pc = "abandoning"]
    BY <1>1, <1>2, RunPcStep DEF SettleByRefreshing
  <1>3. CASE /\ status' = TaskStatusFromRecords(RecordsStatus, NoPhase)
             /\ finalizer' = Overtaken
             /\ run' = [run EXCEPT ![c].pc = "ended"]
    <2>1. \A d \in Call, r \in Live : ~ ImportJobActive(d, r)
      BY <1>1 DEF ImportsAreLoaded, Live
    <2>2. status' = "validated" => \A r \in Live : rec[r] = "validated"
      <3>1. status' = CalculateTaskState(RecordsStatus)
        BY <1>3 DEF TaskStatusFromRecords, NoPhase, Phases
      <3>2. QED
        BY <3>1, CalculatedAsValidated
    <2>3. \A r \in Live : vjob[r] \notin { "queued", "running" }
      BY <1>1 DEF ValidationsOver
    <2>4. QED
      BY <1>1, <1>3, <2>1, <2>2, <2>3, RunLeavesNothing, NothingLeft
      DEF SettleByRefreshing
  <1>4. QED
    BY <1>2, <1>3 DEF SettleByRefreshing

-----------------------------------------------------------------------------
(* Finalisers that read, write and give up.                                *)

(* A finaliser reads the records, and knows what FollowerKnows says. *)
LEMMA ReadRecordsSafe ==
    ASSUME IInv, NEW c \in Call, NEW k \in Copy, ReadRecords(c, k)
    PROVE  Safe'
  <1> DEFINE s == TaskStatusFromRecords(RecordsStatus, Phase(c))
             p == HasPendingRecords(RecordsStatus, Phase(c))
  <1>1. FinalizerActive(c, k)
    BY DEF ReadRecords, FinalizerActive
  <1>2. /\ \A d \in Call, l \in Copy :
               <<d, l>> # <<c, k>> => finalizer'[d][l] = finalizer[d][l]
        /\ finalizer'[c][k].pc = "refreshing"
        /\ finalizer'[c][k].status = s
        /\ finalizer'[c][k].pending = p
        /\ finalizer'[c][k].polls = finalizer[c][k].polls
    <2> HIDE DEF s, p
    <2>1. finalizer' = [finalizer EXCEPT ![c][k] =
              [@ EXCEPT !.pc = "refreshing", !.status = s, !.pending = p]]
      BY Zenon DEF ReadRecords, s, p
    <2>2. QED
      BY <2>1 DEF TypeOK, FinalizerState
  <1>3. \A d \in Call, r \in RecordId : ImportJobActive(d, r)' = ImportJobActive(d, r)
    BY DEF ReadRecords, ImportJobActive
  <1>4. \A d \in Call, l \in Copy : FinalizerActive(d, l)' => FinalizerActive(d, l)
    BY <1>1, <1>2 DEF FinalizerActive
  <1>5. UNCHANGED << status, calls, rec, run, vjob, ijob >>
    BY DEF ReadRecords
  <1>6. OneRun' /\ OneFollower'
    BY <1>3, <1>4, <1>5, RowsKept, OneRunKept
  <1>7. ImportsAreLoaded' /\ OneJob' /\ LoadsAreValidated'
    BY <1>3, <1>5, ImportsKept, RowsKept, TodoType DEF LoadsAreValidated
  <1>8. FollowerKnows'
    <2>1. p => s = RunningStatus(c)
      BY StatusRead
    <2>2. s = "validated" => \A r \in Live : rec[r] = "validated"
      BY StatusRead
    <2>3. ~ p => /\ \A d \in Call, r \in Live : ~ ImportJobActive(d, r)
                 /\ run[c].kind # "load" => \A r \in Live : rec[r] # "created"
      <3>1. CASE run[c].kind = "load"
        BY <3>1, PendingDescribesRecords DEF ImportsAreLoaded, Live
      <3>2. CASE run[c].kind # "load"
        <4>1. status = "validating"
          BY <1>1, <3>2 DEF OneRun, Active, RunningStatus
        <4>2. \A d \in Call, r \in Live : ~ ImportJobActive(d, r)
          BY <4>1 DEF ImportsAreLoaded, Live
        <4>3. QED
          BY <3>2, <4>2, PendingDescribesRecords
      <3>3. QED
        BY <3>1, <3>2
    <2> HIDE DEF s, p
    <2>4. ASSUME NEW d \in Call, NEW l \in Copy, <<d, l>> # <<c, k>>
          PROVE  finalizer'[d][l] = finalizer[d][l]
      BY <1>2, <2>4
    <2>5. /\ \A d \in Call, r \in RecordId : ImportJobActive(d, r)' = ImportJobActive(d, r)
          /\ Live' = Live /\ Live \in SUBSET RecordId
          /\ \A d \in Call : RunningStatus(d)' = RunningStatus(d)
      BY <1>3, <1>5 DEF Live, RunningStatus
    <2>6. ASSUME NEW d \in Call, NEW l \in Copy, finalizer'[d][l].pc = "refreshing"
          PROVE  /\ finalizer'[d][l].pending =>
                        finalizer'[d][l].status = RunningStatus(d)
                 /\ ~ finalizer'[d][l].pending =>
                        /\ \A e \in Call, r \in Live : ~ ImportJobActive(e, r)
                        /\ run[d].kind # "load" => \A r \in Live : rec[r] # "created"
                 /\ finalizer'[d][l].status = "validated" =>
                        \A r \in Live : rec[r] = "validated"
      <3>1. CASE <<d, l>> = <<c, k>>
        BY <1>2, <2>1, <2>2, <2>3, <3>1
      <3>2. CASE <<d, l>> # <<c, k>>
        BY <2>4, <2>6, <3>2 DEF FollowerKnows
      <3>3. QED
        BY <3>1, <3>2
    <2>7. QED
      BY <1>5, <2>5, <2>6 DEF FollowerKnows
  <1>9. ValidatedRecords' /\ ValidationsOver'
    BY <1>5, RowsKept DEF ValidatedRecords, ValidationsOver
  <1>10. QED
    BY <1>5, <1>6, <1>7, <1>8, <1>9, RowsKept

(* A finaliser that has ended leaves no follower behind.                   *)
LEMMA FollowerLeavesNothing ==
    ASSUME IInv, NEW c \in Call, NEW k \in Copy, FinalizerActive(c, k),
           finalizer' = [Overtaken EXCEPT ![c][k] = EndedFinalizer],
           UNCHANGED run
    PROVE  \A d \in Call : ~ Active(d)'
  <1>1. \A d \in Call : Active(d) => d = c
    BY DEF OneRun, Active
  <1>2. ~ RunActive(c) /\ \A l \in Copy : l # k => ~ FinalizerActive(c, l)
    BY DEF OneFollower
  <1>3. \A d \in Call, l \in Copy :
            <<d, l>> # <<c, k>> => ~ FinalizerActive(d, l)
    BY <1>1, <1>2 DEF Active
  <1>4. /\ finalizer'[c][k].pc = "ended"
        /\ \A d \in Call, l \in Copy :
               <<d, l>> # <<c, k>> => finalizer'[d][l] = Overtaken[d][l]
    BY OvertakenType DEF EndedFinalizer, NoFinalizer
  <1>5. \A d \in Call, l \in Copy : ~ FinalizerActive(d, l)'
    BY <1>3, <1>4, OvertakenFacts DEF FinalizerActive
  <1>6. \A d \in Call : ~ RunActive(d)'
    BY <1>1, <1>2 DEF Active, RunActive
  <1>7. QED
    BY <1>5, <1>6 DEF Active

(* It writes the status, which is still true, and ends or goes on. *)
LEMMA WriteStatusSafe ==
    ASSUME IInv, NEW c \in Call, NEW k \in Copy, WriteStatus(c, k)
    PROVE  Safe'
  <1> DEFINE f == finalizer[c][k]
  <1>1. FinalizerActive(c, k) /\ Active(c) /\ f.pc = "refreshing" /\ f \in FinalizerState
    BY DEF WriteStatus, FinalizerActive, Active, TypeOK
  <1>2. PICK lost \in MayFail("publish_follow") :
            finalizer' = [Overtaken EXCEPT ![c][k] = Reschedule(f, lost)]
    BY DEF WriteStatus
  <1>3. CASE ~ f.pending
    <2>1. finalizer' = [Overtaken EXCEPT ![c][k] = EndedFinalizer]
      BY <1>2, <1>3, Zenon DEF Reschedule
    <2>2. \A d \in Call, r \in Live : ~ ImportJobActive(d, r)
      BY <1>1, <1>3 DEF FollowerKnows
    <2>3. \A d \in Call : ~ Active(d)'
      BY <1>1, <2>1, FollowerLeavesNothing DEF WriteStatus
    <2>4. status' = "validated" => \A r \in Live : rec[r] = "validated"
      BY <1>1 DEF FollowerKnows, WriteStatus
    <2>5. status' \notin { "validating", "damaged" } =>
              \A r \in Live : vjob[r] \notin { "queued", "running" }
      <3>1. CASE run[c].kind = "load"
        BY <1>1, <3>1 DEF OneRun, RunningStatus, ValidationsOver
      <3>2. CASE run[c].kind # "load"
        <4>1. \A r \in Live : rec[r] # "created"
          BY <1>1, <1>3, <3>2 DEF FollowerKnows
        <4>2. QED
          BY <4>1 DEF VerdictsAreFinal, Live
      <3>3. QED
        BY <3>1, <3>2
    <2>6. QED
      BY <2>2, <2>3, <2>4, <2>5, NothingLeft DEF WriteStatus
  <1>4. CASE f.pending
    <2>1. status' = status
      BY <1>1, <1>4 DEF FollowerKnows, OneRun, WriteStatus
    <2>2. Reschedule(f, lost).pc \in { "abandoning", "ended", "waiting" }
      BY <1>4 DEF Reschedule, EndedFinalizer, NoFinalizer
    <2>3. /\ finalizer'[c][k] = Reschedule(f, lost)
          /\ \A d \in Call, l \in Copy :
                 <<d, l>> # <<c, k>> => finalizer'[d][l] = Overtaken[d][l]
      BY <1>2, OvertakenType
    <2>4. ASSUME NEW d \in Call, NEW l \in Copy
          PROVE  /\ FinalizerActive(d, l)' => FinalizerActive(d, l)
                 /\ finalizer'[d][l].pc # "refreshing"
      <3>1. CASE <<d, l>> = <<c, k>>
        BY <1>1, <2>2, <2>3, <3>1
      <3>2. CASE <<d, l>> # <<c, k>>
        BY <2>3, <3>2, OvertakenFacts DEF FinalizerActive
      <3>3. QED
        BY <3>1, <3>2
    <2>5. QED
      BY <2>1, <2>4, FinalizersStep DEF WriteStatus
  <1>5. QED
    BY <1>3, <1>4

(* It has polled for too long and marks the task as damaged. *)
LEMMA GiveUpSafe ==
    ASSUME IInv, NEW c \in Call, NEW k \in Copy, GiveUp(c, k)
    PROVE  Safe'
  <1>1. CASE /\ finalizer' = [finalizer EXCEPT ![c][k] = EndedFinalizer]
             /\ status' = status
    BY <1>1, EndedFinalizerSafe DEF GiveUp
  <1>2. CASE /\ finalizer' = [Overtaken EXCEPT ![c][k] = EndedFinalizer]
             /\ status' = "damaged"
    <2>1. FinalizerActive(c, k)
      BY DEF GiveUp, FinalizerActive
    <2>2. \A d \in Call : ~ Active(d)'
      BY <1>2, <2>1, FollowerLeavesNothing DEF GiveUp
    <2>3. QED
      BY <1>2, <2>2, NothingLeft DEF GiveUp
  <1>3. QED
    BY <1>1, <1>2 DEF GiveUp

-----------------------------------------------------------------------------
(* The user's calls.                                                       *)

(* A call that finds nothing alive starts the next run, and overtakes what *)
(* is left of the finalisers before it.                                    *)
LEMMA StartStep ==
    ASSUME IInv, NewCall("validate") \/ NewCall("load"),
           status \notin RunningStates,
           NEW kind \in { "validate", "load" }, Dispatched(kind),
           status' = IF kind = "load" THEN "importing" ELSE "validating",
           finalizer' = Overtaken, UNCHANGED << vjob, ijob >>
    PROVE  /\ OneRun' /\ OneFollower' /\ OneJob' /\ FollowerKnows'
           /\ \A d \in Call : /\ RunActive(d)' => d = calls + 1
                              /\ run'[d].pc \notin { "publishing", "settling" }
           /\ calls + 1 \in Call
           /\ run'[calls + 1].kind = kind
           /\ run'[calls + 1].pc \in { "queued", "ended" }
           /\ run'[calls + 1].todo = {} /\ run'[calls + 1].queued = FALSE
           /\ \A d \in Call, r \in RecordId :
                  ImportJobActive(d, r)' =>
                      ImportJobActive(d, r) /\ d <= calls' /\ run'[d] = run[d]
  <1> DEFINE n == calls + 1
  <1>1. n \in Call /\ calls' = n
    BY MaxCallsAssumption DEF NewCall, TypeOK, Call
  <1>2. \A d \in Call : ~ Active(d)
    BY DEF OneRun, RunningStatus, RunningStates
  <1>3. PICK pc \in { "queued", "ended" } :
            run' = [run EXCEPT ![n] = [NoRun EXCEPT !.kind = kind, !.pc = pc]]
    BY Zenon DEF Dispatched
  <1> HIDE DEF n
  <1>4. /\ run'[n].pc = pc /\ run'[n].kind = kind
        /\ run'[n].todo = {} /\ run'[n].queued = FALSE
        /\ \A d \in Call : d # n => run'[d] = run[d]
    BY <1>1, <1>3 DEF TypeOK, NoRun
  <1>5. \A d \in Call, l \in Copy : ~ FinalizerActive(d, l)'
    <2>1. \A d \in Call, l \in Copy : ~ FinalizerActive(d, l)
      BY <1>2 DEF Active
    <2>2. QED
      BY <2>1, OvertakenFacts DEF FinalizerActive
  <1>6. \A d \in Call, r \in RecordId :
            ImportJobActive(d, r)' =>
                ImportJobActive(d, r) /\ d <= n /\ run'[d] = run[d]
    <2>1. \A d \in Call, r \in RecordId :
              ImportJobActive(d, r) => d <= calls /\ calls \in Nat /\ d \in Nat
      BY DEF ImportsAreLoaded, TypeOK, Call
    <2>2. \A d \in Call, r \in RecordId : ImportJobActive(d, r) => d <= n /\ d # n
      BY <2>1 DEF n
    <2>3. QED
      BY <1>4, <2>2 DEF ImportJobActive
  <1>7. \A d \in Call : /\ RunActive(d)' => d = n
                        /\ run'[d].pc \notin { "publishing", "settling" }
    BY <1>2, <1>4 DEF Active, RunActive
  <1>8. OneRun'
    BY <1>1, <1>4, <1>5, <1>7 DEF OneRun, Active, RunningStatus
  <1>9. OneFollower' /\ OneJob'
    BY <1>5, <1>6 DEF OneFollower, OneJob
  <1>10. FollowerKnows'
    BY <1>5 DEF FollowerKnows, FinalizerActive
  <1>11. QED
    BY <1>1, <1>4, <1>6, <1>7, <1>8, <1>9, <1>10 DEF n

(* A new validation purges the records. *)
LEMMA StartValidationSafe ==
    ASSUME IInv, StartValidation PROVE Safe'
  <1>1. /\ OneRun' /\ OneFollower' /\ OneJob' /\ FollowerKnows'
        /\ \A d \in Call : /\ RunActive(d)' => d = calls + 1
                           /\ run'[d].pc \notin { "publishing", "settling" }
        /\ run'[calls + 1].kind = "validate"
        /\ \A d \in Call, r \in RecordId :
               ImportJobActive(d, r)' =>
                   ImportJobActive(d, r) /\ d <= calls' /\ run'[d] = run[d]
    BY StartStep DEF StartValidation, MayValidate
  <1>2. /\ \A r \in RecordId :
               /\ rec'[r] = "absent" <=> rec[r] = "absent"
               /\ rec'[r] \notin ImporterRecordState
        /\ Live' = {}
        /\ \A c \in Call : Unread(c)' = Unread(c)
    <2>1. \A r \in RecordId :
               /\ rec'[r] = "absent" <=> rec[r] = "absent"
               /\ rec'[r] \notin ImporterRecordState
      BY DEF StartValidation, Purged, Live, ImporterRecordState
    <2>2. QED
      BY <2>1 DEF Live, Unread, RecordId
  <1>3. VerdictsAreFinal'
    BY <1>2 DEF VerdictsAreFinal, StartValidation
  <1>4. ReadInOrder'
    BY <1>1, <1>2 DEF ReadInOrder
  <1>5. LoadsAreValidated'
    BY <1>1 DEF LoadsAreValidated
  <1>6. ImportsAreLoaded'
    BY <1>1, <1>2 DEF ImportsAreLoaded
  <1>7. ValidatedRecords' /\ ValidationsOver'
    BY DEF ValidatedRecords, ValidationsOver, StartValidation
  <1>8. QED
    BY <1>1, <1>3, <1>4, <1>5, <1>6, <1>7

(* A load starts on validated records. *)
LEMMA StartLoadingRecordsSafe ==
    ASSUME IInv, StartLoadingRecords PROVE Safe'
  <1>1. /\ OneRun' /\ OneFollower' /\ OneJob' /\ FollowerKnows'
        /\ \A d \in Call : /\ RunActive(d)' => d = calls + 1
                           /\ run'[d].pc \notin { "publishing", "settling" }
        /\ run'[calls + 1].todo = {} /\ run'[calls + 1].queued = FALSE
        /\ \A d \in Call, r \in RecordId :
               ImportJobActive(d, r)' =>
                   ImportJobActive(d, r) /\ d <= calls' /\ run'[d] = run[d]
    BY StartStep DEF StartLoadingRecords, MayLoad, RunningStates
  <1>2. /\ Live' = Live
        /\ \A c \in Call : Unread(c)' = Unread(c)
    BY DEF StartLoadingRecords, Live, Unread
  <1>3. VerdictsAreFinal'
    BY <1>2 DEF VerdictsAreFinal, StartLoadingRecords
  <1>4. ReadInOrder'
    BY <1>1, <1>2 DEF ReadInOrder
  <1>5. LoadsAreValidated'
    BY <1>1, <1>2
    DEF LoadsAreValidated, ValidatedRecords, StartLoadingRecords, MayLoad
  <1>6. ImportsAreLoaded'
    BY <1>1, <1>2 DEF ImportsAreLoaded, StartLoadingRecords, MayLoad
  <1>7. ValidatedRecords' /\ ValidationsOver'
    BY <1>2 DEF ValidatedRecords, ValidationsOver, StartLoadingRecords, MayLoad
  <1>8. QED
    BY <1>1, <1>3, <1>4, <1>5, <1>6, <1>7

-----------------------------------------------------------------------------
(* Every step.                                                             *)

(* The steps of an import job. *)
LEMMA ImportStepSafe ==
    ASSUME IInv, NEW c \in Call, NEW r \in RecordId,
           \/ BeginImport(c, r) \/ CommitRun(c, r) \/ RollbackRun(c, r)
           \/ RecordSuccess(c, r) \/ RecordFailure(c, r) \/ RecordSkip(c, r)
           \/ RecordOvertaken(c, r) \/ RecordNothing(c, r) \/ CrashImport(c, r)
    PROVE  Safe'
  <1>1. CASE BeginImport(c, r)
    <2>1. PICK s \in { "ended", "overtaken", "running", "skipping" } :
              JobMoves(c, r, s)
      BY <1>1, Zenon DEF BeginImport
    <2>2. QED
      BY <1>1, <2>1, ImportJobStep DEF BeginImport, ImportJobActive, JobState
  <1>2. CASE CommitRun(c, r)
    <2>1. PICK s \in { "failed", "committed" } : JobMoves(c, r, s)
      BY <1>2, Zenon DEF CommitRun
    <2>2. QED
      BY <1>2, <2>1, ImportJobStep DEF CommitRun, ImportJobActive, JobState
  <1>3. CASE RollbackRun(c, r)
    BY <1>3, ImportJobStep DEF RollbackRun, ImportJobActive, JobState
  <1>4. CASE RecordNothing(c, r) \/ CrashImport(c, r)
    BY <1>4, ImportJobStep DEF RecordNothing, CrashImport, ImportJobActive, JobState
  <1>5. CASE \/ RecordSuccess(c, r) \/ RecordFailure(c, r)
             \/ RecordSkip(c, r) \/ RecordOvertaken(c, r)
    <2>1. ImportJobActive(c, r)
      BY <1>5 DEF RecordSuccess, RecordFailure, RecordSkip, RecordOvertaken,
         ImportJobActive
    <2>2. PICK s \in { "success", "import_failed" },
               link \in { linked, linked \cup {r}, linked \ {r} } :
                   EndImport(c, r, s, link)
      BY <1>5, Zenon
      DEF RecordSuccess, RecordFailure, RecordSkip, RecordOvertaken
    <2>3. QED
      BY <2>1, <2>2, EndImportSafe
  <1>6. QED
    BY <1>1, <1>2, <1>3, <1>4, <1>5

(* The steps of a validation job. *)
LEMMA ValidationStepSafe ==
    ASSUME IInv, NEW r \in RecordId,
           \/ BeginValidation(r) \/ FailValidation(r)
           \/ EndValidation(r) \/ CrashValidation(r)
    PROVE  Safe'
  <1>1. CASE BeginValidation(r)
    <2>1. PICK s \in { "running", "ended" } : vjob' = [vjob EXCEPT ![r] = s]
      BY <1>1, Zenon DEF BeginValidation
    <2>2. QED
      BY <1>1, <2>1, ValidationJobStep DEF BeginValidation
  <1>2. CASE CrashValidation(r)
    BY <1>2, ValidationJobStep DEF CrashValidation
  <1>3. QED
    BY <1>1, <1>2, EndValidationSafe DEF FailValidation

(* A new task. *)
LEMMA InitSafe == Init => Safe
  <1> SUFFICES ASSUME Init PROVE Safe
    OBVIOUS
  <1>1. /\ \A c \in Call : ~ Active(c)
        /\ \A c \in Call, r \in RecordId : ~ ImportJobActive(c, r)
        /\ Live = {}
        /\ \A c \in Call : Unread(c) = Entry
    BY DEF Init, Active, RunActive, FinalizerActive, ImportJobActive, NoRun,
       NoFinalizer, Live, ImporterRecordState, Unread, RecordId
  <1>2. OneRun /\ OneFollower
    BY <1>1 DEF OneRun, OneFollower, Active
  <1>3. VerdictsAreFinal /\ ValidatedRecords /\ ValidationsOver
    BY <1>1 DEF Init, VerdictsAreFinal, ValidatedRecords, ValidationsOver
  <1>4. ReadInOrder /\ LoadsAreValidated
    BY <1>1 DEF Init, NoRun, ReadInOrder, LoadsAreValidated, RunActive
  <1>5. FollowerKnows /\ ImportsAreLoaded /\ OneJob
    BY <1>1 DEF Init, NoFinalizer, FollowerKnows, ImportsAreLoaded, OneJob
  <1>6. QED
    BY <1>2, <1>3, <1>4, <1>5

(* The invariant is inductive. *)
LEMMA NextSafe == Steady /\ IInv /\ [Next]_vars => Safe'
  <1> SUFFICES ASSUME Steady, IInv, [Next]_vars PROVE Safe'
    OBVIOUS
  <1>1. CASE UserStep
    BY <1>1, StartValidationSafe, StartLoadingRecordsSafe, OptionsUpdateSafe
    DEF UserStep, Steady, StatusUpdate, UpdateMetadataFile, UpdateTask, DeleteTask,
        StartRun, NewCall
  <1>2. ASSUME NEW c \in Call,
               \/ OpenMetadataFile(c) \/ ReadFails(c) \/ FollowValidation(c)
               \/ AbandonRun(c) \/ ListRecords(c) \/ FollowImport(c)
               \/ SettleByFollowing(c) \/ SettleByRefreshing(c) \/ CrashRun(c)
               \/ \E e \in Entry : CreateRecord(c, e) \/ PublishValidation(c, e)
               \/ \E r \in RecordId : PublishImport(c, r)
        PROVE  Safe'
    BY <1>2, OpenMetadataFileSafe, ReadFailsSafe, FollowValidationSafe,
       AbandonRunSafe, ListRecordsSafe, FollowImportSafe, SettleByFollowingSafe,
       SettleByRefreshingSafe, CrashRunSafe, CreateRecordSafe,
       PublishValidationSafe, PublishImportSafe
  <1>3. ASSUME NEW c \in Call, NEW k \in Copy,
               \/ ReadRecords(c, k) \/ WriteStatus(c, k) \/ RefreshFails(c, k)
               \/ GiveUp(c, k) \/ CrashFinalizer(c, k)
        PROVE  Safe'
    <2>1. CASE RefreshFails(c, k) \/ CrashFinalizer(c, k)
      BY <2>1, EndedFinalizerSafe DEF RefreshFails, CrashFinalizer
    <2>2. QED
      BY <1>3, <2>1, ReadRecordsSafe, WriteStatusSafe, GiveUpSafe
  <1>4. CASE RunStep
    BY <1>2, <1>4, Zenon DEF RunStep
  <1>5. CASE ValidationStep
    BY <1>5, ValidationStepSafe DEF ValidationStep
  <1>6. CASE ImportStep
    BY <1>6, ImportStepSafe DEF ImportStep
  <1>7. CASE FinalizerStep
    BY <1>3, <1>7, Zenon DEF FinalizerStep
  <1>8. CASE Crash
    BY <1>2, <1>3, <1>8, ValidationStepSafe, ImportStepSafe DEF Crash
  <1>9. CASE UNCHANGED vars
    <2>1. \A c \in Call, k \in Copy :
              /\ FinalizerActive(c, k)' => FinalizerActive(c, k)
              /\ finalizer'[c][k] = finalizer[c][k]
      BY <1>9 DEF vars, FinalizerActive
    <2>2. QED
      BY <1>9, <2>1, FinalizersStep DEF vars
  <1>10. QED
    BY <1>1, <1>4, <1>5, <1>6, <1>7, <1>8, <1>9 DEF Next, SystemStep

(* A task that nobody deletes is not deleted. *)
LEMMA NotGoneKept == Steady /\ TypeOK /\ ~ Gone /\ [Next]_vars => ~ Gone'
  <1> SUFFICES ASSUME Steady, TypeOK, ~ Gone, [Next]_vars
               PROVE  status' = status \/ status' \in ImporterTaskState
    BY DEF Gone, ImporterTaskState
  <1>1. CASE UserStep
    BY <1>1, StatusType
    DEF UserStep, Steady, StartValidation, StartLoadingRecords, StatusUpdate,
        OptionsUpdate, UpdateMetadataFile, UpdateTask, DeleteTask, StartRun,
        ImporterTaskState
  <1>2. CASE RunStep
    BY <1>2, StatusType
    DEF RunStep, OpenMetadataFile, CreateRecord, PublishValidation, ReadFails,
        FollowValidation, AbandonRun, ListRecords, PublishImport, FollowImport,
        SettleByFollowing, SettleByRefreshing, ImporterTaskState
  <1>3. CASE ValidationStep
    BY <1>3 DEF ValidationStep, BeginValidation, FailValidation, EndValidation
  <1>4. CASE ImportStep
    BY <1>4
    DEF ImportStep, BeginImport, CommitRun, RollbackRun, RecordSuccess,
        RecordFailure, RecordSkip, RecordOvertaken, RecordNothing, EndImport
  <1>5. CASE FinalizerStep
    BY <1>5
    DEF FinalizerStep, ReadRecords, WriteStatus, RefreshFails, GiveUp, TypeOK,
        FinalizerState, ImporterTaskState
  <1>6. CASE Crash
    BY <1>6
    DEF Crash, CrashRun, CrashFinalizer, CrashValidation, CrashImport
  <1>7. CASE UNCHANGED vars
    BY <1>7 DEF vars
  <1>8. QED
    BY <1>1, <1>2, <1>3, <1>4, <1>5, <1>6, <1>7 DEF Next, SystemStep

(* The inductive invariant. *)
LEMMA IInvHolds == ASSUME Steady PROVE Spec => []IInv
  <1>1. Init => IInv
    BY InitType, InitSafe DEF Init, Gone
  <1>2. IInv /\ [Next]_vars => IInv'
    BY NextType, NextSafe, NotGoneKept
  <1>3. QED
    BY <1>1, <1>2, PTL DEF Spec

-----------------------------------------------------------------------------
(* Where no job outlasts its finaliser, none outlives its run either.      *)

(* A finaliser that gives up, or is about to. *)
Exhausted(c, k) ==
    \/ finalizer[c][k].pc = "abandoning"
    \/ finalizer[c][k].pc = "refreshing" /\ finalizer[c][k].polls = MaxPolls

(* An import job has its record and its run, and nobody gave up on it. *)
Punctual ==
    /\ \A c \in Call, r \in RecordId :
           ImportJobActive(c, r) => r \in Live /\ status = "importing"
    /\ \A c \in Call, k \in Copy : Exhausted(c, k) => ~ ImportsInFlight

(* A step that starts no import job, and leaves the ones there are alone. *)
LEMMA PunctualKept ==
    ASSUME Punctual,
           \A c \in Call, r \in RecordId :
               ImportJobActive(c, r)' =>
                   ImportJobActive(c, r) /\ r \in Live' /\ status' = status,
           \A c \in Call, k \in Copy :
               Exhausted(c, k)' => Exhausted(c, k) \/ ~ ImportsInFlight
    PROVE  Punctual'
  BY DEF Punctual, ImportsInFlight

(* A step after which no import job is left. *)
LEMMA NoImportsPunctual == ASSUME ~ ImportsInFlight' PROVE Punctual'
  BY DEF Punctual, ImportsInFlight

(* A job's run is the last, and its status says that it is importing. *)
LEMMA PunctualRun ==
    ASSUME IInv, Punctual, NEW c \in Call, Active(c),
           run[c].kind = "load" => ~ run[c].queued
    PROVE  ~ ImportsInFlight
  <1>1. SUFFICES ASSUME NEW d \in Call, NEW r \in RecordId, ImportJobActive(d, r)
                 PROVE  FALSE
    BY DEF ImportsInFlight
  <1>2. r \in Live /\ status = "importing"
    BY <1>1 DEF Punctual
  <1>3. d = calls /\ run[d].queued
    BY <1>1, <1>2 DEF ImportsAreLoaded
  <1>4. c = calls /\ run[c].kind = "load"
    BY <1>2 DEF OneRun, RunningStatus
  <1>5. QED
    BY <1>3, <1>4

(* The calls start when no import job is in flight. *)
LEMMA UserPunctual ==
    ASSUME IInv, Punctual,
           StartValidation \/ StartLoadingRecords \/ OptionsUpdate
    PROVE  Punctual'
  <1>1. ijob' = ijob /\ \A c \in Call, r \in RecordId :
                             ImportJobActive(c, r)' = ImportJobActive(c, r)
    BY DEF StartValidation, StartLoadingRecords, OptionsUpdate, ImportJobActive
  <1>2. CASE StartValidation \/ StartLoadingRecords
    <2>1. status # "importing"
      BY <1>2
      DEF StartValidation, StartLoadingRecords, MayValidate, MayLoad, RunningStates
    <2>2. ~ ImportsInFlight'
      BY <1>1, <2>1 DEF Punctual, ImportsInFlight
    <2>3. QED
      BY <2>2, NoImportsPunctual
  <1>3. CASE OptionsUpdate
    <2>1. \A c \in Call, k \in Copy : Exhausted(c, k)' => Exhausted(c, k)
      BY <1>3, OvertakenFacts DEF OptionsUpdate, Exhausted
    <2>2. Live' = Live /\ status' = status
      BY <1>3 DEF OptionsUpdate, Live
    <2>3. QED
      BY <1>1, <2>1, <2>2, PunctualKept DEF Punctual
  <1>4. QED
    BY <1>2, <1>3

(* The steps of a fan-out. *)
LEMMA RunPunctual ==
    ASSUME IInv, Punctual, NEW c \in Call,
           \/ OpenMetadataFile(c) \/ ReadFails(c) \/ FollowValidation(c)
           \/ AbandonRun(c) \/ ListRecords(c) \/ FollowImport(c)
           \/ SettleByFollowing(c) \/ SettleByRefreshing(c) \/ CrashRun(c)
           \/ \E e \in Entry : CreateRecord(c, e) \/ PublishValidation(c, e)
           \/ \E r \in RecordId : PublishImport(c, r)
    PROVE  Punctual'
  <1>1. CASE AbandonRun(c) \/ SettleByRefreshing(c)
    <2>1. Active(c) /\ (run[c].kind = "load" => ~ run[c].queued)
      BY <1>1 DEF AbandonRun, SettleByRefreshing, Active, RunActive,
         LoadsAreValidated
    <2>2. ~ ImportsInFlight
      BY <2>1, PunctualRun
    <2>3. ~ ImportsInFlight'
      BY <1>1, <2>2 DEF AbandonRun, SettleByRefreshing, ImportsInFlight,
         ImportJobActive
    <2>4. QED
      BY <2>3, NoImportsPunctual
  <1>2. CASE \E r \in RecordId : PublishImport(c, r)
    <2>1. PICK r \in RecordId : PublishImport(c, r)
      BY <1>2
    <2>2. /\ run[c].kind = "load" /\ RunActive(c) /\ Active(c) /\ rec[r] = "validated"
          /\ UNCHANGED << rec, status, finalizer >>
      BY <2>1 DEF PublishImport, Loading, RunActive, Active, LoadsAreValidated
    <2>3. r \in Live /\ Live' = Live /\ status = "importing"
      BY <2>2 DEF Live, ImporterRecordState, OneRun, RunningStatus
    <2>4. \A d \in Call, q \in RecordId :
              ImportJobActive(d, q)' => ImportJobActive(d, q) \/ q = r
      <3>1. PICK s : ijob' = [ijob EXCEPT ![c][r] = s]
        BY <2>1 DEF PublishImport
      <3>2. QED
        BY <3>1 DEF TypeOK, ImportJobActive
    <2>5. \A d \in Call, k \in Copy : ~ FinalizerActive(d, k)
      BY <2>2 DEF OneRun, OneFollower, Active
    <2>6. \A d \in Call, k \in Copy : ~ Exhausted(d, k)'
      BY <2>2, <2>5 DEF Exhausted, FinalizerActive
    <2>7. QED
      BY <2>2, <2>3, <2>4, <2>6 DEF Punctual
  <1>3. CASE \/ OpenMetadataFile(c) \/ ReadFails(c) \/ ListRecords(c)
             \/ CrashRun(c) \/ FollowValidation(c) \/ FollowImport(c)
             \/ SettleByFollowing(c)
             \/ \E e \in Entry : CreateRecord(c, e) \/ PublishValidation(c, e)
    <2>1. ijob' = ijob /\ status' = status
      BY <1>3 DEF OpenMetadataFile, ReadFails, ListRecords, CrashRun,
         FollowValidation, FollowImport, SettleByFollowing, CreateRecord,
         PublishValidation
    <2>2. Live \in SUBSET Live'
      <3>1. rec' = rec \/ \E r \in RecordId : rec' = [rec EXCEPT ![r] = "created"]
        BY <1>3 DEF OpenMetadataFile, ReadFails, ListRecords, CrashRun,
           FollowValidation, FollowImport, SettleByFollowing, CreateRecord,
           PublishValidation, RecordId
      <3>2. QED
        BY <3>1 DEF Live, TypeOK, ImporterRecordState
    <2>3. \A d \in Call, k \in Copy : Exhausted(d, k)' => Exhausted(d, k)
      <3>1. \/ finalizer' = finalizer
            \/ \E k \in Copy, f \in { NoFinalizer, [NoFinalizer EXCEPT !.pc = "waiting"] } :
                   finalizer' = [finalizer EXCEPT ![c][k] = f]
        <4>1. CASE \/ OpenMetadataFile(c) \/ ReadFails(c) \/ ListRecords(c)
                   \/ CrashRun(c)
                   \/ \E e \in Entry : CreateRecord(c, e) \/ PublishValidation(c, e)
          BY <4>1 DEF OpenMetadataFile, ReadFails, ListRecords, CrashRun,
             CreateRecord, PublishValidation
        <4>2. CASE FollowValidation(c) \/ FollowImport(c) \/ SettleByFollowing(c)
          <5>1. PICK k \in { 1, 2 } : \E sent :
                    finalizer' = [finalizer EXCEPT ![c][k] = FinalizerSent(sent)]
            BY <4>2 DEF FollowValidation, FollowImport, SettleByFollowing
          <5>2. k \in Copy
            BY DEF Copy
          <5>3. QED
            BY <5>1, <5>2, FinalizerSentFacts, Zenon
        <4>3. QED
          BY <1>3, <4>1, <4>2
      <3>2. QED
        <4>1. CASE finalizer' = finalizer
          BY <4>1 DEF Exhausted
        <4>2. ASSUME NEW k \in Copy,
                     NEW f \in { NoFinalizer, [NoFinalizer EXCEPT !.pc = "waiting"] },
                     finalizer' = [finalizer EXCEPT ![c][k] = f]
              PROVE  \A d \in Call, l \in Copy : Exhausted(d, l)' => Exhausted(d, l)
          <5>1. f.pc \notin { "refreshing", "abandoning" }
            BY DEF NoFinalizer
          <5>2. finalizer'[c][k] = f
                /\ \A d \in Call, l \in Copy :
                       <<d, l>> # <<c, k>> => finalizer'[d][l] = finalizer[d][l]
            BY <4>2 DEF TypeOK
          <5>3. QED
            BY <5>1, <5>2 DEF Exhausted
        <4>3. QED
          BY <3>1, <4>1, <4>2
    <2>4. QED
      BY <2>1, <2>2, <2>3, PunctualKept DEF ImportJobActive, Punctual
  <1>4. QED
    BY <1>1, <1>2, <1>3

(* The steps of a record's jobs. *)
LEMMA JobPunctual ==
    ASSUME IInv, Punctual, NEW r \in RecordId,
           \/ BeginValidation(r) \/ FailValidation(r)
           \/ EndValidation(r) \/ CrashValidation(r)
           \/ \E c \in Call :
                  \/ BeginImport(c, r) \/ CommitRun(c, r) \/ RollbackRun(c, r)
                  \/ RecordSuccess(c, r) \/ RecordFailure(c, r)
                  \/ RecordSkip(c, r) \/ RecordOvertaken(c, r)
                  \/ RecordNothing(c, r) \/ CrashImport(c, r)
    PROVE  Punctual'
  <1> DEFINE Written == \E s \in ImporterRecordState :
                            r \in Live /\ rec' = [rec EXCEPT ![r] = s]
  <1>1. status' = status /\ finalizer' = finalizer
    BY DEF BeginValidation, FailValidation, EndValidation, CrashValidation,
       BeginImport, CommitRun, RollbackRun, RecordSuccess, RecordFailure,
       RecordSkip, RecordOvertaken, RecordNothing, CrashImport, EndImport
  <1>2. Live' = Live
    <2>1. rec' = rec \/ Written
      BY DEF BeginValidation, FailValidation, EndValidation, CrashValidation,
         BeginImport, CommitRun, RollbackRun, RecordSuccess, RecordFailure,
         RecordSkip, RecordOvertaken, RecordNothing, CrashImport, EndImport,
         WriteRecord, Verdicts, ImporterRecordState
    <2>2. QED
      BY <2>1 DEF Live, TypeOK
  <1>3. \A d \in Call, q \in RecordId :
            ImportJobActive(d, q)' => ImportJobActive(d, q)
    <2>1. CASE ijob' = ijob \/ ijob' = JobsOvertaken(r)
      BY <2>1, JobsOvertakenFacts DEF ImportJobActive
    <2>2. CASE \E c \in Call, s \in JobState :
                   /\ ImportJobActive(c, r)
                   /\ \/ ijob' = [ijob EXCEPT ![c][r] = s]
                      \/ ijob' = [JobsOvertaken(r) EXCEPT ![c][r] = s]
      <3>1. PICK c \in Call, s \in JobState :
                   /\ ImportJobActive(c, r)
                   /\ \/ ijob' = [ijob EXCEPT ![c][r] = s]
                      \/ ijob' = [JobsOvertaken(r) EXCEPT ![c][r] = s]
        BY <2>2
      <3>2. \A d \in Call, q \in RecordId :
                \/ d = c /\ q = r
                \/ ijob'[d][q] = ijob[d][q]
                \/ ijob'[d][q] = JobsOvertaken(r)[d][q]
        BY <3>1, JobsOvertakenFacts DEF TypeOK
      <3>3. QED
        BY <3>1, <3>2, JobsOvertakenFacts DEF ImportJobActive
    <2>3. QED
      <3>1. CASE \/ BeginValidation(r) \/ FailValidation(r)
                 \/ EndValidation(r) \/ CrashValidation(r)
        BY <2>1, <3>1 DEF BeginValidation, FailValidation, EndValidation,
           CrashValidation, WriteRecord
      <3>2. ASSUME NEW c \in Call,
                   \/ BeginImport(c, r) \/ CommitRun(c, r) \/ RollbackRun(c, r)
                   \/ RecordSuccess(c, r) \/ RecordFailure(c, r)
                   \/ RecordSkip(c, r) \/ RecordOvertaken(c, r)
                   \/ RecordNothing(c, r) \/ CrashImport(c, r)
            PROVE  \E s \in JobState :
                       \/ ijob' = [ijob EXCEPT ![c][r] = s]
                       \/ ijob' = [JobsOvertaken(r) EXCEPT ![c][r] = s]
        <4>1. CASE BeginImport(c, r)
          BY <4>1, Zenon DEF BeginImport, JobMoves, JobState
        <4>2. CASE CommitRun(c, r)
          BY <4>2, Zenon DEF CommitRun, JobMoves, JobState
        <4>3. CASE RollbackRun(c, r) \/ RecordNothing(c, r) \/ CrashImport(c, r)
          BY <4>3, Zenon
          DEF RollbackRun, RecordNothing, CrashImport, JobMoves, JobState
        <4>4. CASE \/ RecordSuccess(c, r) \/ RecordFailure(c, r)
                   \/ RecordSkip(c, r) \/ RecordOvertaken(c, r)
          <5>1. \/ ijob' = [JobsOvertaken(r) EXCEPT ![c][r] = "ended"]
                \/ ijob' = [ijob EXCEPT ![c][r] = "ended"]
            BY <4>4, Zenon DEF RecordSuccess, RecordFailure, RecordSkip,
               RecordOvertaken, EndImport
          <5>2. QED
            BY <5>1, Zenon DEF JobState
        <4>5. QED
          BY <3>2, <4>1, <4>2, <4>3, <4>4
      <3>3. \A c \in Call :
                \/ BeginImport(c, r) \/ CommitRun(c, r) \/ RollbackRun(c, r)
                \/ RecordSuccess(c, r) \/ RecordFailure(c, r)
                \/ RecordSkip(c, r) \/ RecordOvertaken(c, r)
                \/ RecordNothing(c, r) \/ CrashImport(c, r)
                => ImportJobActive(c, r)
        BY DEF BeginImport, CommitRun, RollbackRun, RecordSuccess, RecordFailure,
           RecordSkip, RecordOvertaken, RecordNothing, CrashImport, ImportJobActive
      <3>4. QED
        BY <2>2, <3>1, <3>2, <3>3
  <1>4. \A c \in Call, k \in Copy : Exhausted(c, k)' => Exhausted(c, k)
    BY <1>1 DEF Exhausted
  <1>5. QED
    BY <1>1, <1>2, <1>3, <1>4, PunctualKept DEF Punctual

(* The steps of a finaliser: it polls for as long as a job is in flight. *)
LEMMA FinalizerPunctual ==
    ASSUME IInv, Punctual, Calm, NEW c \in Call, NEW k \in Copy,
           \/ ReadRecords(c, k) \/ WriteStatus(c, k) \/ RefreshFails(c, k)
           \/ GiveUp(c, k) \/ CrashFinalizer(c, k)
    PROVE  Punctual'
  <1>1. Live' = Live /\ \A d \in Call, r \in RecordId :
                             ImportJobActive(d, r)' = ImportJobActive(d, r)
    BY DEF ReadRecords, WriteStatus, RefreshFails, GiveUp, CrashFinalizer, Live,
       ImportJobActive
  <1>2. CASE ReadRecords(c, k)
    <2>1. PICK s, p :
              finalizer' = [finalizer EXCEPT ![c][k] =
                  [@ EXCEPT !.pc = "refreshing", !.status = s, !.pending = p]]
      BY <1>2, Zenon DEF ReadRecords
    <2>2. /\ finalizer'[c][k].polls = finalizer[c][k].polls
          /\ finalizer'[c][k].pc = "refreshing"
          /\ \A d \in Call, l \in Copy :
                 <<d, l>> # <<c, k>> => finalizer'[d][l] = finalizer[d][l]
      BY <2>1 DEF TypeOK, FinalizerState
    <2>3. finalizer[c][k].polls = MaxPolls => ~ ImportsInFlight
      BY <1>2, MaxPollsAssumption DEF ReadRecords, Timely, Calm, JobsInFlight
    <2>4. \A d \in Call, l \in Copy :
              Exhausted(d, l)' => Exhausted(d, l) \/ ~ ImportsInFlight
      BY <2>2, <2>3 DEF Exhausted
    <2>5. QED
      BY <1>1, <1>2, <2>4, PunctualKept DEF ReadRecords, Punctual
  <1>3. CASE WriteStatus(c, k)
    <2> DEFINE f == finalizer[c][k]
    <2>1. f.pc = "refreshing" /\ f \in FinalizerState /\ Active(c)
      BY <1>3 DEF WriteStatus, TypeOK, Active, FinalizerActive
    <2>2. CASE ~ f.pending
      <3>1. ~ ImportsInFlight'
        BY <1>1, <2>1, <2>2 DEF FollowerKnows, Punctual, ImportsInFlight
      <3>2. QED
        BY <3>1, NoImportsPunctual
    <2>3. CASE f.pending
      <3>1. status' = status
        BY <1>3, <2>1, <2>3 DEF FollowerKnows, OneRun, WriteStatus
      <3>2. PICK lost : finalizer' = [Overtaken EXCEPT ![c][k] = Reschedule(f, lost)]
        BY <1>3 DEF WriteStatus
      <3>3. /\ finalizer'[c][k] = Reschedule(f, lost)
            /\ \A d \in Call, l \in Copy :
                   <<d, l>> # <<c, k>> => finalizer'[d][l] = Overtaken[d][l]
        BY <3>2, OvertakenType
      <3>4. /\ Reschedule(f, lost).pc # "refreshing"
            /\ Reschedule(f, lost).pc = "abandoning" => Exhausted(c, k)
        BY <2>1, <2>3, MaxPollsAssumption
        DEF Reschedule, EndedFinalizer, NoFinalizer, FinalizerState, Exhausted
      <3>5. ASSUME NEW d \in Call, NEW l \in Copy, Exhausted(d, l)'
            PROVE  Exhausted(d, l)
        <4>1. CASE <<d, l>> = <<c, k>>
          BY <3>3, <3>4, <3>5, <4>1 DEF Exhausted
        <4>2. CASE <<d, l>> # <<c, k>>
          BY <3>3, <3>5, <4>2, OvertakenFacts DEF Exhausted
        <4>3. QED
          BY <4>1, <4>2
      <3>6. QED
        BY <1>1, <3>1, <3>5, PunctualKept DEF Punctual
    <2>4. QED
      BY <2>2, <2>3
  <1>4. CASE GiveUp(c, k)
    <2>1. ~ ImportsInFlight'
      BY <1>1, <1>4 DEF GiveUp, Punctual, Exhausted, ImportsInFlight
    <2>2. QED
      BY <2>1, NoImportsPunctual
  <1>5. CASE RefreshFails(c, k) \/ CrashFinalizer(c, k)
    <2>1. /\ finalizer' = [finalizer EXCEPT ![c][k] = EndedFinalizer]
          /\ status' = status /\ EndedFinalizer.pc = "ended"
      BY <1>5 DEF RefreshFails, CrashFinalizer, EndedFinalizer, NoFinalizer
    <2>2. \A d \in Call, l \in Copy :
              finalizer'[d][l] = finalizer[d][l] \/ finalizer'[d][l].pc = "ended"
      BY <2>1 DEF TypeOK
    <2>3. \A d \in Call, l \in Copy : Exhausted(d, l)' => Exhausted(d, l)
      BY <2>2 DEF Exhausted
    <2>4. QED
      BY <1>1, <2>1, <2>3, PunctualKept DEF Punctual
  <1>6. QED
    BY <1>2, <1>3, <1>4, <1>5

LEMMA NextPunctual == Calm /\ IInv /\ Punctual /\ [Next]_vars => Punctual'
  <1> SUFFICES ASSUME Calm, IInv, Punctual, [Next]_vars PROVE Punctual'
    OBVIOUS
  <1>1. CASE UserStep
    BY <1>1, UserPunctual
    DEF UserStep, Calm, Steady, StatusUpdate, UpdateMetadataFile, UpdateTask,
        DeleteTask, StartRun, NewCall
  <1>2. CASE RunStep
    BY <1>2, RunPunctual DEF RunStep
  <1>3. CASE ValidationStep
    BY <1>3, JobPunctual DEF ValidationStep
  <1>4. CASE ImportStep
    BY <1>4, JobPunctual DEF ImportStep
  <1>5. CASE FinalizerStep
    BY <1>5, FinalizerPunctual DEF FinalizerStep
  <1>6. CASE Crash
    BY <1>6, RunPunctual, JobPunctual, FinalizerPunctual DEF Crash
  <1>7. CASE UNCHANGED vars
    BY <1>7 DEF vars, Punctual, Exhausted, ImportsInFlight, ImportJobActive, Live
  <1>8. QED
    BY <1>1, <1>2, <1>3, <1>4, <1>5, <1>6, <1>7 DEF Next, SystemStep

LEMMA PunctualHolds == ASSUME Calm PROVE Spec => [](IInv /\ Punctual)
  <1>1. Init => Punctual
    BY DEF Init, Punctual, Exhausted, NoFinalizer, ImportsInFlight, ImportJobActive
  <1>2. IInv /\ Punctual /\ [Next]_vars => Punctual'
    BY NextPunctual
  <1>3. Steady
    BY DEF Calm
  <1>4. Spec => []IInv
    BY <1>3, IInvHolds
  <1> HIDE DEF IInv
  <1>5. QED
    BY <1>1, <1>2, <1>4, PTL DEF Spec

-----------------------------------------------------------------------------
(* The theorems.                                                           *)

(* The task says that it is importing whenever an import job is in flight. *)
THEOREM ImportsOnlyWhileImportingHolds ==
    ASSUME Calm PROVE Spec => []ImportsOnlyWhileImporting
  <1>1. IInv /\ Punctual => ImportsOnlyWhileImporting
    BY DEF ImportsOnlyWhileImporting, ImportsInFlight, Punctual
  <1> HIDE DEF IInv
  <1>2. QED
    BY <1>1, PunctualHolds, PTL

(* A task that reads as settled has nothing of its run left.               *)
THEOREM SettledIsQuietHolds == ASSUME Calm PROVE Spec => []SettledIsQuiet
  <1>1. IInv /\ Punctual => SettledIsQuiet
    <2> SUFFICES ASSUME IInv, Punctual, status \notin RunningStates \cup {"damaged"}
                 PROVE  SettledIsQuiet
      BY DEF SettledIsQuiet
    <2>1. \A c \in Call : ~ Active(c)
      BY DEF OneRun, RunningStatus, RunningStates
    <2>2. \A r \in Live : vjob[r] \notin { "queued", "running" }
      BY DEF ValidationsOver, RunningStates
    <2>3. QED
      BY <2>1, <2>2
      DEF SettledIsQuiet, Active, Punctual, ImportsInFlight, RunningStates
  <1> HIDE DEF IInv
  <1>2. QED
    BY <1>1, PunctualHolds, PTL

(* No purge takes a record away from the job that is importing it: only a  *)
(* new validation purges, and it starts when no job is in flight.          *)
THEOREM PurgeSparesImportsHolds == ASSUME Calm PROVE Spec => PurgeSparesImports
  <1>1. IInv /\ Punctual /\ [Next]_vars =>
            [\A r \in Live : rec'[r] = "deleted" =>
                 \A c \in Call : ~ ImportJobActive(c, r)]_vars
    <2> SUFFICES ASSUME IInv, Punctual, Next, NEW r \in Live, rec'[r] = "deleted",
                        NEW c \in Call, ImportJobActive(c, r)
                 PROVE  FALSE
      BY Zenon
    <2>1. r \in RecordId /\ status = "importing" /\ rec[r] # "deleted"
      BY DEF Live, ImporterRecordState, Punctual
    <2>2. ~ StartValidation
      BY <2>1 DEF StartValidation, MayValidate, RunningStates
    <2>3. CASE UserStep
      BY <2>1, <2>2, <2>3
      DEF UserStep, Calm, Steady, StartLoadingRecords, StatusUpdate,
          OptionsUpdate, UpdateMetadataFile, UpdateTask, DeleteTask, StartRun,
          NewCall
    <2>4. CASE RunStep
      <3>1. PICK d \in Call, e \in Entry : CreateRecord(d, e)
        BY <2>1, <2>4
        DEF RunStep, OpenMetadataFile, PublishValidation, ReadFails,
            FollowValidation, AbandonRun, ListRecords, PublishImport,
            FollowImport, SettleByFollowing, SettleByRefreshing
      <3>2. QED
        BY <2>1, <3>1 DEF CreateRecord, TypeOK
    <2>5. CASE ValidationStep
      BY <2>1, <2>5
      DEF ValidationStep, BeginValidation, FailValidation, EndValidation,
          WriteRecord, Verdicts, TypeOK
    <2>6. CASE ImportStep
      <3>1. PICK d \in Call, q \in RecordId :
                \/ BeginImport(d, q) \/ CommitRun(d, q) \/ RollbackRun(d, q)
                \/ RecordSuccess(d, q) \/ RecordFailure(d, q)
                \/ RecordSkip(d, q) \/ RecordOvertaken(d, q)
                \/ RecordNothing(d, q)
        BY <2>6 DEF ImportStep
      <3>2. \E s \in { "success", "import_failed" } :
                rec' = rec \/ rec' = [rec EXCEPT ![q] = s]
        BY <3>1
        DEF BeginImport, CommitRun, RollbackRun, RecordSuccess, RecordFailure,
            RecordSkip, RecordOvertaken, RecordNothing, EndImport
      <3>3. QED
        BY <2>1, <3>2 DEF TypeOK
    <2>7. CASE FinalizerStep \/ Crash
      BY <2>1, <2>7
      DEF FinalizerStep, ReadRecords, WriteStatus, RefreshFails, GiveUp, Crash,
          CrashRun, CrashFinalizer, CrashValidation, CrashImport
    <2>8. QED
      BY <2>3, <2>4, <2>5, <2>6, <2>7 DEF Next, SystemStep
  <1> HIDE DEF IInv
  <1>2. QED
    BY <1>1, PunctualHolds, PTL DEF Spec, PurgeSparesImports

(* Only a new validation takes a task out of damaged: its run is over, so  *)
(* nothing that could write another status is left.                        *)
THEOREM DamagedIsTerminalHolds == ASSUME Steady PROVE Spec => DamagedIsTerminal
  <1>1. IInv /\ [Next]_vars =>
            [status = "damaged" => status' \in { "damaged", "validating" }]_vars
    <2> SUFFICES ASSUME IInv, Next, status = "damaged"
                 PROVE  status' \in { "damaged", "validating" }
      BY Zenon
    <2>1. \A c \in Call : ~ Active(c)
      BY DEF OneRun, RunningStatus
    <2>2. CASE UserStep
      BY <2>2
      DEF UserStep, Steady, StartValidation, StartLoadingRecords, MayLoad,
          StatusUpdate, OptionsUpdate, UpdateMetadataFile, UpdateTask,
          DeleteTask, StartRun, NewCall
    <2>3. ~ RunStep
      BY <2>1
      DEF Active, RunActive, RunStep, OpenMetadataFile, CreateRecord, Reading,
          PublishValidation, ReadFails, FollowValidation, AbandonRun, Loading,
          ListRecords, PublishImport, FollowImport, SettleByFollowing,
          SettleByRefreshing
    <2>4. ~ FinalizerStep
      BY <2>1
      DEF Active, FinalizerActive, FinalizerStep, ReadRecords, WriteStatus,
          RefreshFails, GiveUp
    <2>5. CASE ValidationStep
      BY <2>5 DEF ValidationStep, BeginValidation, FailValidation, EndValidation
    <2>6. CASE ImportStep
      BY <2>6
      DEF ImportStep, BeginImport, CommitRun, RollbackRun, RecordSuccess,
          RecordFailure, RecordSkip, RecordOvertaken, RecordNothing, EndImport
    <2>7. CASE Crash
      BY <2>7
      DEF Crash, CrashRun, CrashFinalizer, CrashValidation, CrashImport
    <2>8. QED
      BY <2>2, <2>3, <2>4, <2>5, <2>6, <2>7 DEF Next, SystemStep
  <1>2. QED
    BY <1>1, IInvHolds, PTL DEF Spec, DamagedIsTerminal
=============================================================================
