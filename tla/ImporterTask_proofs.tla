------------------------ MODULE ImporterTask_proofs -------------------------
(***************************************************************************)
(* What holds of a task for any number of entries, calls and polls,        *)
(* whatever the user calls and whatever fails: its types, the order of its *)
(* jobs and what is left when it is deleted.                               *)
(***************************************************************************)
EXTENDS ImporterTaskProperties, TLAPS

(* Whatever the counts are, the status calculated from them is a status.   *)
LEMMA StatusType ==
    \A n, p : TaskStatusFromRecords(n, p) \in ImporterTaskState
  <1>1. \A n : CalculateTaskState(n) \in ImporterTaskState
    BY DEF CalculateTaskState, ImporterTaskState
  <1>2. \A p \in Phases : RunningTaskStates[p] \in ImporterTaskState
    BY DEF Phases, RunningTaskStates, ImporterTaskState
  <1>3. QED
    BY <1>1, <1>2, Zenon DEF TaskStatusFromRecords

(* What becomes of a finaliser is a finaliser. *)
LEMMA FinalizerType ==
    /\ NoFinalizer \in FinalizerState
    /\ EndedFinalizer \in FinalizerState
    /\ \A sent : FinalizerSent(sent) \in FinalizerState
    /\ \A f \in FinalizerState :
           /\ [f EXCEPT !.pc = "overtaken"] \in FinalizerState
           /\ \A lost : Reschedule(f, lost) \in FinalizerState
  <1>1. NoFinalizer \in FinalizerState
    BY MaxPollsAssumption DEF FinalizerState, NoFinalizer, ImporterTaskState
  <1>2. \A f \in FinalizerState :
            \A pc \in { "overtaken", "ended", "waiting", "abandoning" } :
                [f EXCEPT !.pc = pc] \in FinalizerState
    BY DEF FinalizerState
  <1>3. \A sent : FinalizerSent(sent) \in FinalizerState
    BY <1>1, <1>2 DEF FinalizerSent
  <1>4. ASSUME NEW f \in FinalizerState, NEW lost
        PROVE  Reschedule(f, lost) \in FinalizerState
    <2>1. CASE f.pending /\ ~ f.polls >= MaxPolls /\ ~ lost
      <3>1. f.polls + 1 \in 0..MaxPolls
        BY <2>1, MaxPollsAssumption DEF FinalizerState
      <3>2. [NoFinalizer EXCEPT !.pc = "waiting", !.polls = f.polls + 1]
                \in FinalizerState
        BY <1>1, <3>1 DEF FinalizerState
      <3>3. QED
        BY <2>1, <3>2, Zenon DEF Reschedule
    <2>2. CASE ~ f.pending \/ f.polls >= MaxPolls \/ lost
      <3>1. Reschedule(f, lost) \in
                { EndedFinalizer, [NoFinalizer EXCEPT !.pc = "abandoning"] }
        BY <2>2, Zenon DEF Reschedule
      <3>2. QED
        BY <1>1, <1>2, <3>1 DEF EndedFinalizer
    <2>3. QED
      BY <2>1, <2>2
  <1>5. QED
    BY <1>1, <1>2, <1>3, <1>4 DEF EndedFinalizer

(* An overtaken finaliser is still a finaliser. *)
LEMMA OvertakenType ==
    ASSUME TypeOK PROVE Overtaken \in [Call -> [Copy -> FinalizerState]]
  BY FinalizerType DEF TypeOK, Overtaken

(* Overtaken jobs are jobs. *)
LEMMA JobsOvertakenType ==
    ASSUME TypeOK, NEW r
    PROVE  JobsOvertaken(r) \in [Call -> [RecordId -> JobState]]
  BY DEF TypeOK, JobsOvertaken, JobState

(* Purged rows are rows. *)
LEMMA PurgedType ==
    ASSUME TypeOK PROVE Purged \in [RecordId -> RowState]
  BY DEF TypeOK, Purged, RowState

(* A new task has the types. *)
LEMMA InitType == Init => TypeOK
  BY MaxCallsAssumption, FinalizerType
  DEF Init, TypeOK, ImporterTaskState, RowState, ImporterRecordState, NoRun,
      RunState, JobState

(* Every step keeps the types; one step of the proof for each action. *)
LEMMA NextType == TypeOK /\ [Next]_vars => TypeOK'
  <1> SUFFICES ASSUME TypeOK, [Next]_vars PROVE TypeOK'
    OBVIOUS
  <1> DEFINE Counted == calls + 1 \in Call /\ calls + 1 \in 0..MaxCalls
  <1>a. ASSUME calls < MaxCalls PROVE Counted
    BY <1>a, MaxCallsAssumption DEF TypeOK, Call
  <1>b. 1 \in Copy /\ 2 \in Copy
    BY DEF Copy
  <1>c. \A f \in RunState :
            /\ \A pc \in { "queued", "reading", "publishing", "settling",
                           "abandoning", "ended" } :
                   /\ [f EXCEPT !.pc = pc] \in RunState
                   /\ \A t \in SUBSET RecordId :
                          [f EXCEPT !.pc = pc, !.todo = t] \in RunState
                   /\ \A t \in SUBSET RecordId :
                          [f EXCEPT !.pc = pc, !.todo = t, !.queued = TRUE]
                              \in RunState
    BY DEF RunState
  <1>d. \A kind \in { "validate", "load", "run" }, pc \in { "queued", "ended" } :
            [NoRun EXCEPT !.kind = kind, !.pc = pc] \in RunState
    BY DEF RunState, NoRun
  <1>e. Live \in SUBSET RecordId
    BY DEF Live
  <1>f. ASSUME NEW c \in Call, NEW k \in Copy, NEW f \in FinalizerState
        PROVE  [finalizer EXCEPT ![c][k] = f] \in [Call -> [Copy -> FinalizerState]]
    BY DEF TypeOK
  <1>1. CASE StartValidation
    BY <1>1, <1>a, <1>d, OvertakenType, PurgedType
    DEF StartValidation, NewCall, Dispatched, TypeOK, ImporterTaskState
  <1>2. CASE StartLoadingRecords
    BY <1>2, <1>a, <1>d, OvertakenType
    DEF StartLoadingRecords, NewCall, Dispatched, TypeOK, ImporterTaskState
  <1>3. CASE StatusUpdate
    BY <1>3, StatusType, OvertakenType DEF StatusUpdate, TypeOK
  <1>4. CASE OptionsUpdate
    BY <1>4, OvertakenType DEF OptionsUpdate, TypeOK
  <1>5. CASE UpdateMetadataFile
    BY <1>5, OvertakenType, PurgedType DEF UpdateMetadataFile, TypeOK
  <1>5a. ASSUME NEW s \in ImporterTaskState, UpdateTask(s) PROVE TypeOK'
    BY <1>5a, OvertakenType DEF UpdateTask, TypeOK
  <1>5b. CASE DeleteTask
    BY <1>5b, OvertakenType DEF DeleteTask, TypeOK
  <1>6. ASSUME NEW r \in RecordId, StartRun(r) PROVE TypeOK'
    <2>1. ijob' \in [Call -> [RecordId -> JobState]]
      BY <1>6, <1>a DEF StartRun, NewCall, TypeOK, JobState
    <2>2. QED
      BY <1>6, <1>a, <1>d, <2>1 DEF StartRun, NewCall, TypeOK
  <1>7. ASSUME NEW c \in Call, OpenMetadataFile(c) PROVE TypeOK'
    <2>1. PICK pc \in { "abandoning", "reading" } : run' = [run EXCEPT ![c].pc = pc]
      BY <1>7, Zenon DEF OpenMetadataFile
    <2>2. run' \in [Call -> RunState]
      BY <2>1, <1>c DEF TypeOK
    <2>3. QED
      BY <1>7, <2>2 DEF OpenMetadataFile, TypeOK
  <1>8. ASSUME NEW c \in Call, NEW e \in Entry, CreateRecord(c, e) PROVE TypeOK'
    <2>1. rec' \in [RecordId -> RowState]
      BY <1>8 DEF CreateRecord, TypeOK, RowState, ImporterRecordState
    <2>2. QED
      BY <1>8, <1>c, <2>1 DEF CreateRecord, TypeOK
  <1>9. ASSUME NEW c \in Call, NEW e \in Entry, PublishValidation(c, e)
        PROVE  TypeOK'
    <2>1. PICK pc \in { "abandoning", "reading" } : run' = [run EXCEPT ![c].pc = pc]
      BY <1>9, Zenon DEF PublishValidation
    <2>2. \E s \in { "none", "queued" } : vjob' = [vjob EXCEPT ![<<c, e>>] = s]
      BY <1>9, Zenon DEF PublishValidation, JobSent
    <2>3. run' \in [Call -> RunState]
      BY <2>1, <1>c DEF TypeOK
    <2>4. vjob' \in [RecordId -> { "none", "queued", "running", "ended" }]
      BY <2>2 DEF TypeOK
    <2>5. QED
      BY <1>9, <2>3, <2>4 DEF PublishValidation, TypeOK
  <1>10. ASSUME NEW c \in Call, ReadFails(c) PROVE TypeOK'
    BY <1>10, <1>c DEF ReadFails, TypeOK
  <1>11. ASSUME NEW c \in Call, FollowValidation(c) PROVE TypeOK'
    <2>1. PICK pc \in { "abandoning", "ended" } : run' = [run EXCEPT ![c].pc = pc]
      BY <1>11, Zenon DEF FollowValidation
    <2>2. \E f \in FinalizerState : finalizer' = [finalizer EXCEPT ![c][1] = f]
      BY <1>11, FinalizerType, Zenon DEF FollowValidation
    <2>3. run' \in [Call -> RunState]
      BY <2>1, <1>c DEF TypeOK
    <2>4. finalizer' \in [Call -> [Copy -> FinalizerState]]
      BY <2>2, <1>b, <1>f
    <2>5. QED
      BY <1>11, <2>3, <2>4 DEF FollowValidation, TypeOK
  <1>12. ASSUME NEW c \in Call, AbandonRun(c) PROVE TypeOK'
    BY <1>12, <1>c, OvertakenType DEF AbandonRun, TypeOK, ImporterTaskState
  <1>13. ASSUME NEW c \in Call, ListRecords(c) PROVE TypeOK'
    <2>1. run' \in [Call -> RunState]
      <3>1. CASE run' = [run EXCEPT ![c].pc = "publishing", ![c].todo = Live]
        BY <3>1, <1>c, <1>e DEF TypeOK
      <3>2. CASE run' = [run EXCEPT ![c].pc = "settling"]
        BY <3>2, <1>c DEF TypeOK
      <3>3. QED
        BY <1>13, <3>1, <3>2 DEF ListRecords
    <2>2. QED
      BY <1>13, <2>1 DEF ListRecords, TypeOK
  <1>14. ASSUME NEW c \in Call, NEW r \in RecordId, PublishImport(c, r)
         PROVE  TypeOK'
    <2>1. run[c].todo \ {r} \in SUBSET RecordId
      BY DEF TypeOK, RunState
    <2>2. run' \in [Call -> RunState]
      <3>1. PICK pc \in { "settling", "publishing" } :
                run' = [run EXCEPT ![c].pc = pc, ![c].todo = run[c].todo \ {r},
                                   ![c].queued = TRUE]
        BY <1>14, Zenon DEF PublishImport
      <3>2. QED
        BY <3>1, <2>1, <1>c DEF TypeOK
    <2>3. ijob' \in [Call -> [RecordId -> JobState]]
      BY <1>14 DEF PublishImport, JobSent, JobState, TypeOK
    <2>4. QED
      BY <1>14, <2>2, <2>3 DEF PublishImport, TypeOK
  <1>15. ASSUME NEW c \in Call, FollowImport(c) PROVE TypeOK'
    <2>1. PICK pc \in { "settling", "ended" } : run' = [run EXCEPT ![c].pc = pc]
      BY <1>15, Zenon DEF FollowImport
    <2>2. \E f \in FinalizerState : finalizer' = [finalizer EXCEPT ![c][1] = f]
      BY <1>15, FinalizerType, Zenon DEF FollowImport
    <2>3. run' \in [Call -> RunState]
      BY <2>1, <1>c DEF TypeOK
    <2>4. finalizer' \in [Call -> [Copy -> FinalizerState]]
      BY <2>2, <1>b, <1>f
    <2>5. QED
      BY <1>15, <2>3, <2>4 DEF FollowImport, TypeOK
  <1>16. ASSUME NEW c \in Call, SettleByFollowing(c) PROVE TypeOK'
    <2>1. \E f \in FinalizerState : finalizer' = [finalizer EXCEPT ![c][2] = f]
      BY <1>16, FinalizerType, Zenon DEF SettleByFollowing
    <2>2. finalizer' \in [Call -> [Copy -> FinalizerState]]
      BY <2>1, <1>b, <1>f
    <2>3. run' \in [Call -> RunState]
      BY <1>16, <1>c DEF SettleByFollowing, TypeOK
    <2>4. QED
      BY <1>16, <2>2, <2>3 DEF SettleByFollowing, TypeOK
  <1>17. ASSUME NEW c \in Call, SettleByRefreshing(c) PROVE TypeOK'
    <2>1. run' \in [Call -> RunState]
      <3>1. CASE run' = [run EXCEPT ![c].pc = "ended"]
        BY <3>1, <1>c DEF TypeOK
      <3>2. CASE run' = [run EXCEPT ![c].pc = "abandoning"]
        BY <3>2, <1>c DEF TypeOK
      <3>3. QED
        BY <1>17, <3>1, <3>2 DEF SettleByRefreshing
    <2>2. status' \in ImporterTaskState \cup { "deleted" }
      BY <1>17, StatusType DEF SettleByRefreshing, TypeOK
    <2>3. finalizer' \in [Call -> [Copy -> FinalizerState]]
      BY <1>17, OvertakenType DEF SettleByRefreshing, TypeOK
    <2>4. QED
      BY <1>17, <2>1, <2>2, <2>3 DEF SettleByRefreshing, TypeOK
  <1>18. ASSUME NEW r \in RecordId, BeginValidation(r) PROVE TypeOK'
    BY <1>18 DEF BeginValidation, TypeOK
  <1>18a. ASSUME NEW r \in RecordId, FailValidation(r) PROVE TypeOK'
    <2>1. rec' \in [RecordId -> RowState]
      BY <1>18a
      DEF FailValidation, WriteRecord, TypeOK, RowState, ImporterRecordState
    <2>2. ijob' \in [Call -> [RecordId -> JobState]]
      BY <1>18a, JobsOvertakenType DEF FailValidation, WriteRecord, TypeOK
    <2>3. QED
      BY <1>18a, <2>1, <2>2 DEF FailValidation, TypeOK
  <1>19. ASSUME NEW r \in RecordId, EndValidation(r) PROVE TypeOK'
    <2>1. rec' \in [RecordId -> RowState]
      BY <1>19
      DEF EndValidation, WriteRecord, Verdicts, TypeOK, RowState,
          ImporterRecordState
    <2>2. ijob' \in [Call -> [RecordId -> JobState]]
      BY <1>19, JobsOvertakenType DEF EndValidation, WriteRecord, TypeOK
    <2>3. QED
      BY <1>19, <2>1, <2>2 DEF EndValidation, TypeOK
  <1>20. ASSUME NEW c \in Call, NEW r \in RecordId,
                NEW s \in JobState, JobMoves(c, r, s)
         PROVE  ijob' \in [Call -> [RecordId -> JobState]]
    BY <1>20 DEF JobMoves, TypeOK
  <1>21. ASSUME NEW c \in Call, NEW r \in RecordId, BeginImport(c, r)
         PROVE  TypeOK'
    BY <1>20, <1>21 DEF BeginImport, JobState, TypeOK
  <1>22. ASSUME NEW c \in Call, NEW r \in RecordId, CommitRun(c, r)
         PROVE  TypeOK'
    BY <1>20, <1>22 DEF CommitRun, JobState, TypeOK
  <1>23. ASSUME NEW c \in Call, NEW r \in RecordId, RollbackRun(c, r)
         PROVE  TypeOK'
    BY <1>20, <1>23 DEF RollbackRun, JobState, TypeOK
  <1>24. ASSUME NEW c \in Call, NEW r \in RecordId,
                NEW s \in ImporterRecordState, NEW link \in SUBSET RecordId,
                EndImport(c, r, s, link)
         PROVE  TypeOK'
    <2>1. ijob' \in [Call -> [RecordId -> JobState]]
      BY <1>24, JobsOvertakenType DEF EndImport, JobState, TypeOK
    <2>2. QED
      BY <1>24, <2>1 DEF EndImport, RowState, TypeOK
  <1>25. ASSUME NEW c \in Call, NEW r \in RecordId,
                \/ RecordSuccess(c, r) \/ RecordFailure(c, r)
                \/ RecordSkip(c, r) \/ RecordOvertaken(c, r)
         PROVE  TypeOK'
    <2>1. "success" \in ImporterRecordState /\ "import_failed" \in ImporterRecordState
      BY DEF ImporterRecordState
    <2>2. /\ linked \cup {r} \in SUBSET RecordId
          /\ linked \ {r} \in SUBSET RecordId
          /\ linked \in SUBSET RecordId
      BY DEF TypeOK
    <2>3. QED
      BY <1>24, <1>25, <2>1, <2>2
      DEF RecordSuccess, RecordFailure, RecordSkip, RecordOvertaken
  <1>26. ASSUME NEW c \in Call, NEW r \in RecordId, RecordNothing(c, r)
         PROVE  TypeOK'
    BY <1>20, <1>26 DEF RecordNothing, JobState, TypeOK
  <1>27. ASSUME NEW c \in Call, NEW k \in Copy, ReadRecords(c, k)
         PROVE  TypeOK'
    <2>1. HasPendingRecords(RecordsStatus, Phase(c)) \in BOOLEAN
      BY DEF HasPendingRecords
    <2>2. TaskStatusFromRecords(RecordsStatus, Phase(c)) \in ImporterTaskState
      BY StatusType
    <2>3. \A f \in FinalizerState, pc \in { "overtaken", "refreshing" },
             s \in ImporterTaskState, b \in BOOLEAN :
              [f EXCEPT !.pc = pc, !.status = s, !.pending = b] \in FinalizerState
      BY DEF FinalizerState
    <2>4. (IF Gone THEN "overtaken" ELSE "refreshing") \in { "overtaken", "refreshing" }
      OBVIOUS
    <2>5. QED
      BY <1>27, <2>1, <2>2, <2>3, <2>4 DEF ReadRecords, TypeOK
  <1>28. ASSUME NEW c \in Call, NEW k \in Copy, WriteStatus(c, k)
         PROVE  TypeOK'
    <2>1. finalizer[c][k] \in FinalizerState
      BY DEF TypeOK
    <2>2. finalizer[c][k].status \in ImporterTaskState
      BY <2>1 DEF FinalizerState
    <2>3. finalizer' \in [Call -> [Copy -> FinalizerState]]
      <3>1. \E f \in FinalizerState : finalizer' = [Overtaken EXCEPT ![c][k] = f]
        BY <1>28, <2>1, FinalizerType, Zenon DEF WriteStatus
      <3>2. QED
        BY <3>1, OvertakenType
    <2>4. QED
      BY <1>28, <2>2, <2>3 DEF WriteStatus, TypeOK
  <1>29. ASSUME NEW c \in Call, NEW k \in Copy, RefreshFails(c, k)
         PROVE  TypeOK'
    BY <1>29, FinalizerType DEF RefreshFails, TypeOK
  <1>30. ASSUME NEW c \in Call, NEW k \in Copy, GiveUp(c, k) PROVE TypeOK'
    <2>1. finalizer' \in [Call -> [Copy -> FinalizerState]]
      <3>1. CASE finalizer' = [Overtaken EXCEPT ![c][k] = EndedFinalizer]
        BY <3>1, OvertakenType, FinalizerType
      <3>2. CASE finalizer' = [finalizer EXCEPT ![c][k] = EndedFinalizer]
        BY <3>2, FinalizerType DEF TypeOK
      <3>3. QED
        BY <1>30, <3>1, <3>2 DEF GiveUp
    <2>2. QED
      BY <1>30, <2>1 DEF GiveUp, TypeOK, ImporterTaskState
  <1>31. ASSUME NEW c \in Call, CrashRun(c) PROVE TypeOK'
    BY <1>31, <1>c DEF CrashRun, TypeOK
  <1>32. ASSUME NEW c \in Call, NEW k \in Copy, CrashFinalizer(c, k)
         PROVE  TypeOK'
    BY <1>32, FinalizerType DEF CrashFinalizer, TypeOK
  <1>33. ASSUME NEW r \in RecordId, CrashValidation(r) PROVE TypeOK'
    BY <1>33 DEF CrashValidation, TypeOK
  <1>34. ASSUME NEW c \in Call, NEW r \in RecordId, CrashImport(c, r)
         PROVE  TypeOK'
    BY <1>20, <1>34 DEF CrashImport, JobState, TypeOK
  <1>35. CASE UNCHANGED vars
    BY <1>35 DEF vars, TypeOK
  <1>36. CASE UserStep
    BY <1>36, <1>1, <1>2, <1>3, <1>4, <1>5, <1>5a, <1>5b, <1>6 DEF UserStep
  <1>37. CASE RunStep
    BY <1>37, <1>7, <1>8, <1>9, <1>10, <1>11, <1>12, <1>13, <1>14, <1>15,
       <1>16, <1>17 DEF RunStep
  <1>38. CASE ValidationStep
    BY <1>38, <1>18, <1>18a, <1>19 DEF ValidationStep
  <1>39. CASE ImportStep
    BY <1>39, <1>21, <1>22, <1>23, <1>25, <1>26 DEF ImportStep
  <1>40. CASE FinalizerStep
    BY <1>40, <1>27, <1>28, <1>29, <1>30 DEF FinalizerStep
  <1>41. CASE Crash
    BY <1>41, <1>31, <1>32, <1>33, <1>34 DEF Crash
  <1>42. QED
    BY <1>35, <1>36, <1>37, <1>38, <1>39, <1>40, <1>41 DEF Next, SystemStep

(* Every variable keeps its type: no step of a call, a job or a crash puts *)
(* a row, a job or a finaliser in a state the others do not know.          *)
THEOREM TypeOKHolds == Spec => []TypeOK
  BY InitType, NextType, PTL DEF Spec

-----------------------------------------------------------------------------
(* What holds of a task whatever its user calls, in whatever order, and    *)
(* whatever fails: single runs, uploads under a run, statuses written by   *)
(* hand, deletion.                                                         *)

(* No job knows a record that is not there yet. *)
AbsentIsUntouched == \A r \in RecordId : rec[r] = "absent" => vjob[r] = "none"

(* Entries are read in order; the last one's job is yet to be published. *)
ReadInOrder ==
    \A c \in Call, e \in Entry :
        /\ e \in Unread(c) => \A d \in Entry : d > e => d \in Unread(c)
        /\ /\ run[c].kind = "validate" /\ run[c].pc = "publishing"
           /\ e \notin Unread(c)
           /\ \A d \in Entry : d > e => d \in Unread(c)
           => vjob[<<c, e>>] = "none"

(* A record is validated by the end of its job, and run after that. *)
ValidatedFirst ==
    \A r \in RecordId :
        /\ rec[r] = "validated" => vjob[r] = "ended"
        /\ \A c \in Call : ijob[c][r] = "running" => vjob[r] = "ended"

CommittedWasApplied ==
    \A c \in Call, r \in RecordId : ijob[c][r] = "committed" => applied[r] > 0

(* A deletion overtakes the finalisers that have read the task. *)
GoneIsKnown ==
    Gone => \A c \in Call, k \in Copy : finalizer[c][k].pc # "refreshing"

AnyInv ==
    /\ AbsentIsUntouched
    /\ ReadInOrder
    /\ ValidatedFirst
    /\ CommittedWasApplied
    /\ OnlyValidatedIsApplied
    /\ LinkedWasApplied
    /\ GoneIsKnown

(* Every row but an absent one was created by a validation. *)
LEMMA PurgedRows ==
    ASSUME TypeOK
    PROVE  \A r \in RecordId :
               /\ Purged[r] = "absent" <=> rec[r] = "absent"
               /\ Purged[r] # "validated"
  BY DEF Purged, Live, TypeOK, RowState, ImporterRecordState

(* An overtaken finaliser does not write. *)
LEMMA OvertakenIsNotRefreshing ==
    ASSUME TypeOK
    PROVE  \A c \in Call, k \in Copy : Overtaken[c][k].pc # "refreshing"
  BY DEF Overtaken, TypeOK, FinalizerState

-----------------------------------------------------------------------------
(* Reading the file, the only steps that create rows or publish their jobs.*)

(* What the next entry becomes is the last one read. *)
LEMMA CreateRecordInOrder ==
    ASSUME TypeOK, AbsentIsUntouched, ReadInOrder,
           NEW c \in Call, NEW e \in Entry, CreateRecord(c, e)
    PROVE  ReadInOrder'
  <1> DEFINE r == <<c, e>>
  <1>1. r \in RecordId /\ rec[r] = "absent" /\ vjob[r] = "none"
    BY DEF CreateRecord, Unread, RecordId, AbsentIsUntouched
  <1>2. \A d \in Call : d # c => run'[d] = run[d]
    BY DEF CreateRecord, TypeOK
  <1>3. /\ \A q \in RecordId : q # r => rec'[q] = rec[q]
        /\ rec'[r] = "created"
    BY <1>1 DEF CreateRecord, TypeOK
  <1>4. \A d \in Call : Unread(d)' = Unread(d) \ { f \in Entry : <<d, f>> = r }
    BY <1>3 DEF Unread, RecordId
  <1>5. /\ e \in Unread(c)
        /\ \A f \in Unread(c) : e <= f
        /\ Unread(c)' = Unread(c) \ {e}
        /\ \A d \in Call : d # c => Unread(d)' = Unread(d)
    BY <1>4 DEF CreateRecord, Unread
  <1>6. \A f, g \in Entry : f < g \/ f = g \/ g < f
    BY NAssumption DEF Entry
  <1>7. ASSUME NEW d \in Call, NEW f \in Entry, f \in Unread(d)'
        PROVE  \A g \in Entry : g > f => g \in Unread(d)'
    <2>1. f \in Unread(d)
      BY <1>5, <1>7
    <2>2. \A g \in Entry : g > f => g \in Unread(d)
      BY <2>1 DEF ReadInOrder
    <2>3. d = c => \A g \in Entry : g > f => g # e
      BY <1>5, <2>1, NAssumption DEF Entry
    <2>4. QED
      BY <1>5, <2>2, <2>3
  <1>8. ASSUME NEW d \in Call, NEW f \in Entry,
               run'[d].kind = "validate", run'[d].pc = "publishing",
               f \notin Unread(d)', \A g \in Entry : g > f => g \in Unread(d)'
        PROVE  vjob'[<<d, f>>] = "none"
    <2>1. CASE d = c
      <3>1. ~ f < e
        BY <1>5, <1>8, <2>1
      <3>2. ~ e < f
        BY <1>5, <1>8, <2>1, NAssumption DEF ReadInOrder, Entry
      <3>3. f = e
        BY <3>1, <3>2, <1>6
      <3>4. QED
        BY <1>1, <2>1, <3>3 DEF CreateRecord
    <2>2. CASE d # c
      BY <1>2, <1>5, <1>8, <2>2 DEF ReadInOrder, CreateRecord
    <2>3. QED
      BY <2>1, <2>2
  <1>9. QED
    BY <1>7, <1>8 DEF ReadInOrder

(* Its job is published before the next one is read. *)
LEMMA PublishValidationInOrder ==
    ASSUME TypeOK, ReadInOrder,
           NEW c \in Call, NEW e \in Entry, PublishValidation(c, e)
    PROVE  /\ ReadInOrder'
           /\ <<c, e>> \in RecordId /\ vjob[<<c, e>>] = "none"
           /\ rec[<<c, e>>] # "absent"
           /\ \A q \in RecordId : q # <<c, e>> => vjob'[q] = vjob[q]
           /\ vjob'[<<c, e>>] \in { "none", "queued" }
  <1>1. <<c, e>> \in RecordId /\ vjob[<<c, e>>] = "none" /\ rec[<<c, e>>] # "absent"
    BY DEF PublishValidation, Unread, RecordId, ReadInOrder
  <1>2. PICK pc \in { "abandoning", "reading" } : run' = [run EXCEPT ![c].pc = pc]
    BY Zenon DEF PublishValidation
  <1>3. run'[c].pc = pc /\ \A d \in Call : d # c => run'[d] = run[d]
    BY <1>2 DEF TypeOK, RunState
  <1>4. PICK s \in { "none", "queued" } : vjob' = [vjob EXCEPT ![<<c, e>>] = s]
    BY Zenon DEF PublishValidation, JobSent
  <1>5. /\ \A q \in RecordId : q # <<c, e>> => vjob'[q] = vjob[q]
        /\ vjob'[<<c, e>>] = s
    BY <1>1, <1>4 DEF TypeOK
  <1>6. \A d \in Call : Unread(d)' = Unread(d)
    BY DEF PublishValidation, Unread
  <1>7. \A d \in Call : d # c =>
            \A f \in Entry : <<d, f>> # <<c, e>> /\ <<d, f>> \in RecordId
    BY DEF RecordId
  <1>8. ReadInOrder'
    BY <1>3, <1>5, <1>6, <1>7 DEF ReadInOrder
  <1>9. QED
    BY <1>1, <1>5, <1>8

-----------------------------------------------------------------------------
(* Every other step.                                                       *)

(* What the invariant asks of a step that does not read the file. *)
KeepsOrder ==
    /\ \A r \in RecordId :
           /\ rec'[r] = "absent" <=> rec[r] = "absent"
           /\ rec'[r] = "validated" => rec[r] = "validated" \/ vjob'[r] = "ended"
           /\ vjob[r] \in { "none", "ended" } => vjob'[r] = vjob[r]
    /\ \A c \in Call :
           run'[c].kind = "validate" /\ run'[c].pc = "publishing" =>
               run[c].kind = "validate" /\ run[c].pc = "publishing"

KeepsResults ==
    /\ \A r \in RecordId :
           /\ applied[r] > 0 => applied'[r] > 0
           /\ applied'[r] > 0 =>
                  applied[r] > 0 \/ \E c \in Call : ijob[c][r] = "running"
    /\ \A c \in Call, r \in RecordId :
           /\ ijob'[c][r] = "running" =>
                  ijob[c][r] = "running" \/ (rec[r] = "validated" /\ ~ Gone)
           /\ ijob'[c][r] = "committed" =>
                  ijob[c][r] = "committed" \/ applied'[r] > 0
    /\ \A r \in linked' :
           r \in linked \/ \E c \in Call : ijob[c][r] = "committed"

(* Such a step keeps what the invariant says. *)
LEMMA Kept ==
    ASSUME TypeOK, TypeOK', AnyInv, KeepsOrder, KeepsResults
    PROVE  /\ AbsentIsUntouched' /\ ReadInOrder' /\ ValidatedFirst'
           /\ CommittedWasApplied' /\ OnlyValidatedIsApplied' /\ LinkedWasApplied'
  <1>1. AbsentIsUntouched'
    BY DEF AnyInv, AbsentIsUntouched, KeepsOrder
  <1>2. ReadInOrder'
    <2>1. \A c \in Call : Unread(c)' = Unread(c)
      BY DEF KeepsOrder, Unread, RecordId
    <2>2. \A c \in Call, e \in Entry : <<c, e>> \in RecordId
      BY DEF RecordId
    <2>3. QED
      BY <2>1, <2>2 DEF AnyInv, ReadInOrder, KeepsOrder
  <1>3. ValidatedFirst'
    BY DEF AnyInv, ValidatedFirst, KeepsOrder, KeepsResults
  <1>4. CommittedWasApplied'
    BY DEF AnyInv, CommittedWasApplied, KeepsResults
  <1>5. OnlyValidatedIsApplied'
    BY DEF AnyInv, OnlyValidatedIsApplied, ValidatedFirst, KeepsOrder, KeepsResults
  <1>6. LinkedWasApplied'
    BY DEF AnyInv, LinkedWasApplied, CommittedWasApplied, KeepsResults, TypeOK
  <1>7. QED
    BY <1>1, <1>2, <1>3, <1>4, <1>5, <1>6

(* The steps of the user. *)
LEMMA UserKeeps == TypeOK /\ UserStep => KeepsOrder /\ KeepsResults
  <1> SUFFICES ASSUME TypeOK, UserStep PROVE KeepsOrder /\ KeepsResults
    OBVIOUS
  <1>1. CASE StartValidation
    <2>1. PICK pc \in { "queued", "ended" } :
              run' = [run EXCEPT ![calls + 1] =
                          [NoRun EXCEPT !.kind = "validate", !.pc = pc]]
      BY <1>1, Zenon DEF StartValidation, Dispatched
    <2>2. \A c \in Call : run'[c].pc = "publishing" => run'[c] = run[c]
      BY <2>1 DEF TypeOK, NoRun
    <2>3. QED
      BY <1>1, <2>2, PurgedRows DEF StartValidation, KeepsOrder, KeepsResults
  <1>2. CASE StartLoadingRecords
    <2>1. PICK pc \in { "queued", "ended" } :
              run' = [run EXCEPT ![calls + 1] =
                          [NoRun EXCEPT !.kind = "load", !.pc = pc]]
      BY <1>2, Zenon DEF StartLoadingRecords, Dispatched
    <2>2. \A c \in Call : run'[c].pc = "publishing" => run'[c] = run[c]
      BY <2>1 DEF TypeOK, NoRun
    <2>3. QED
      BY <1>2, <2>2 DEF StartLoadingRecords, KeepsOrder, KeepsResults
  <1>3. CASE \/ StatusUpdate \/ OptionsUpdate \/ DeleteTask
             \/ \E s \in ImporterTaskState : UpdateTask(s)
    BY <1>3
    DEF StatusUpdate, OptionsUpdate, UpdateTask, DeleteTask, KeepsOrder,
        KeepsResults
  <1>4. CASE UpdateMetadataFile
    BY <1>4, PurgedRows DEF UpdateMetadataFile, KeepsOrder, KeepsResults
  <1>5. ASSUME NEW r \in RecordId, StartRun(r)
        PROVE  KeepsOrder /\ KeepsResults
    <2>1. \A c \in Call : run'[c].pc = "publishing" => run'[c] = run[c]
      BY <1>5 DEF StartRun, TypeOK, NoRun
    <2>2. \A c \in Call, q \in RecordId :
              ijob'[c][q] = ijob[c][q] \/ ijob'[c][q] = "queued"
      BY <1>5 DEF StartRun, TypeOK
    <2>3. QED
      BY <1>5, <2>1, <2>2 DEF StartRun, KeepsOrder, KeepsResults
  <1>6. QED
    BY <1>1, <1>2, <1>3, <1>4, <1>5 DEF UserStep

(* The steps of a fan-out that neither create a record nor publish its job. *)
LEMMA RunKeeps ==
    ASSUME TypeOK, NEW c \in Call,
           \/ OpenMetadataFile(c) \/ ReadFails(c) \/ FollowValidation(c)
           \/ AbandonRun(c) \/ ListRecords(c) \/ FollowImport(c)
           \/ SettleByFollowing(c) \/ SettleByRefreshing(c) \/ CrashRun(c)
           \/ \E r \in RecordId : PublishImport(c, r)
    PROVE  KeepsOrder /\ KeepsResults
  <1>1. run[c] \in RunState
    BY DEF TypeOK
  <1>2. CASE \E r \in RecordId : PublishImport(c, r)
    <2>1. PICK r \in RecordId : PublishImport(c, r)
      BY <1>2
    <2>2. PICK pc \in { "settling", "publishing" } :
              run' = [run EXCEPT ![c].pc = pc, ![c].todo = run[c].todo \ {r},
                                 ![c].queued = TRUE]
      BY <2>1, Zenon DEF PublishImport
    <2>3. \A d \in Call : run'[d].kind = "validate" => run'[d] = run[d]
      BY <1>1, <2>1, <2>2 DEF PublishImport, Loading, TypeOK, RunState
    <2>4. PICK s \in { "none", "queued" } : ijob' = [ijob EXCEPT ![c][r] = s]
      BY <2>1, Zenon DEF PublishImport, JobSent
    <2>5. \A d \in Call, q \in RecordId :
              ijob'[d][q] = ijob[d][q] \/ ijob'[d][q] \in { "none", "queued" }
      BY <2>4 DEF TypeOK
    <2>6. UNCHANGED << rec, vjob, applied, linked >>
      BY <2>1 DEF PublishImport
    <2>7. QED
      BY <2>3, <2>5, <2>6 DEF KeepsOrder, KeepsResults
  <1>3. CASE ListRecords(c)
    <2>1. \A d \in Call : run'[d].kind = "validate" => run'[d] = run[d]
      BY <1>1, <1>3 DEF ListRecords, TypeOK, RunState
    <2>2. QED
      BY <1>3, <2>1 DEF ListRecords, KeepsOrder, KeepsResults
  <1>4. CASE \/ OpenMetadataFile(c) \/ ReadFails(c) \/ FollowValidation(c)
             \/ AbandonRun(c) \/ FollowImport(c) \/ SettleByFollowing(c)
             \/ SettleByRefreshing(c) \/ CrashRun(c)
    <2>1. PICK pc \in { "reading", "settling", "abandoning", "ended" } :
              run' = [run EXCEPT ![c].pc = pc]
      BY <1>4, Zenon
      DEF OpenMetadataFile, ReadFails, FollowValidation, AbandonRun, FollowImport,
          SettleByFollowing, SettleByRefreshing, CrashRun
    <2>2. \A d \in Call : run'[d].pc = "publishing" => run'[d] = run[d]
      BY <1>1, <2>1 DEF TypeOK, RunState
    <2>3. UNCHANGED << rec, vjob, ijob, applied, linked >>
      BY <1>4
      DEF OpenMetadataFile, ReadFails, FollowValidation, AbandonRun, FollowImport,
          SettleByFollowing, SettleByRefreshing, CrashRun
    <2>4. QED
      BY <2>2, <2>3 DEF KeepsOrder, KeepsResults
  <1>5. QED
    BY <1>2, <1>3, <1>4

(* The write of a record overtakes jobs, and starts or commits none. *)
LEMMA JobsOvertakenMoves ==
    ASSUME TypeOK, NEW r \in RecordId, NEW c \in Call, NEW q \in RecordId
    PROVE  JobsOvertaken(r)[c][q] = ijob[c][q] \/ JobsOvertaken(r)[c][q] = "overtaken"
  BY DEF JobsOvertaken

(* The steps of a validation job. *)
LEMMA ValidationKeeps ==
    ASSUME TypeOK, NEW r \in RecordId,
           \/ BeginValidation(r) \/ FailValidation(r)
           \/ EndValidation(r) \/ CrashValidation(r)
    PROVE  KeepsOrder /\ KeepsResults
  <1>1. PICK s \in { "running", "ended" } : vjob' = [vjob EXCEPT ![r] = s]
    BY Zenon DEF BeginValidation, FailValidation, EndValidation, CrashValidation
  <1>2. vjob[r] \in { "queued", "running" }
    BY DEF BeginValidation, FailValidation, EndValidation, CrashValidation
  <1>3. /\ \A q \in RecordId : q # r => vjob'[q] = vjob[q]
        /\ vjob'[r] = s
    BY <1>1 DEF TypeOK
  <1>4. \A q \in RecordId :
            /\ rec'[q] = "absent" <=> rec[q] = "absent"
            /\ rec'[q] = "validated" => rec[q] = "validated" \/ vjob'[q] = "ended"
    <2>1. CASE UNCHANGED rec
      BY <2>1
    <2>2. CASE /\ r \in Live
               /\ vjob' = [vjob EXCEPT ![r] = "ended"]
               /\ \E v \in Verdicts : rec' = [rec EXCEPT ![r] = v]
      <3>1. vjob'[r] = "ended" /\ rec[r] # "absent"
        BY <2>2 DEF TypeOK, Live, ImporterRecordState
      <3>2. /\ \A q \in RecordId : q # r => rec'[q] = rec[q]
            /\ rec'[r] \in Verdicts
        BY <2>2 DEF TypeOK
      <3>3. QED
        BY <3>1, <3>2 DEF Verdicts
    <2>3. QED
      BY <2>1, <2>2 DEF BeginValidation, FailValidation, EndValidation,
         CrashValidation, WriteRecord, Verdicts
  <1>5. \A c \in Call, q \in RecordId :
            ijob'[c][q] = ijob[c][q] \/ ijob'[c][q] = "overtaken"
    BY JobsOvertakenMoves
    DEF BeginValidation, FailValidation, EndValidation, CrashValidation,
        WriteRecord
  <1>6. UNCHANGED << run, applied, linked >>
    BY DEF BeginValidation, FailValidation, EndValidation, CrashValidation
  <1>7. QED
    BY <1>2, <1>3, <1>4, <1>5, <1>6 DEF KeepsOrder, KeepsResults

(* The steps of an import job. *)
LEMMA ImportKeeps ==
    ASSUME TypeOK, NEW c \in Call, NEW r \in RecordId,
           \/ BeginImport(c, r) \/ CommitRun(c, r) \/ RollbackRun(c, r)
           \/ RecordSuccess(c, r) \/ RecordFailure(c, r) \/ RecordSkip(c, r)
           \/ RecordOvertaken(c, r) \/ RecordNothing(c, r) \/ CrashImport(c, r)
    PROVE  KeepsOrder /\ KeepsResults
  <1>1. ASSUME NEW s, JobMoves(c, r, s)
        PROVE  \A d \in Call, q \in RecordId :
                   ijob'[d][q] = IF d = c /\ q = r THEN s ELSE ijob[d][q]
    BY <1>1 DEF JobMoves, TypeOK
  <1>2. UNCHANGED << run, vjob >>
    BY DEF BeginImport, CommitRun, RollbackRun, RecordSuccess, RecordFailure,
       RecordSkip, RecordOvertaken, RecordNothing, CrashImport, EndImport
  <1>3. CASE BeginImport(c, r)
    <2>1. PICK s \in { "ended", "overtaken", "running", "skipping" } :
              /\ JobMoves(c, r, s)
              /\ s = "running" => (rec[r] = "validated" /\ ~ Gone)
      BY <1>3, Zenon DEF BeginImport
    <2>2. UNCHANGED << rec, applied, linked >>
      BY <1>3 DEF BeginImport
    <2>3. QED
      BY <1>1, <1>2, <2>1, <2>2 DEF KeepsOrder, KeepsResults
  <1>4. CASE CommitRun(c, r)
    <2>1. PICK s \in { "failed", "committed" } : JobMoves(c, r, s)
      BY <1>4, Zenon DEF CommitRun
    <2>2. /\ \A q \in RecordId : q # r => applied'[q] = applied[q]
          /\ applied'[r] = applied[r] + 1
          /\ applied[r] \in Nat
      BY <1>4 DEF CommitRun, TypeOK
    <2>3. ijob[c][r] = "running" /\ UNCHANGED << rec, linked >>
      BY <1>4 DEF CommitRun
    <2>4. QED
      BY <1>1, <1>2, <2>1, <2>2, <2>3 DEF KeepsOrder, KeepsResults
  <1>5. CASE RollbackRun(c, r) \/ RecordNothing(c, r) \/ CrashImport(c, r)
    <2>1. PICK s \in { "failed", "ended" } : JobMoves(c, r, s)
      BY <1>5, Zenon DEF RollbackRun, RecordNothing, CrashImport
    <2>2. UNCHANGED << rec, applied, linked >>
      BY <1>5 DEF RollbackRun, RecordNothing, CrashImport
    <2>3. QED
      BY <1>1, <1>2, <2>1, <2>2 DEF KeepsOrder, KeepsResults
  <1>6. CASE \/ RecordSuccess(c, r) \/ RecordFailure(c, r)
             \/ RecordSkip(c, r) \/ RecordOvertaken(c, r)
    <2>1. PICK s \in { "success", "import_failed" },
               link \in { linked, linked \cup {r}, linked \ {r} } :
              /\ EndImport(c, r, s, link)
              /\ link = linked \cup {r} => ijob[c][r] = "committed" \/ r \in linked
      BY <1>6
      DEF RecordSuccess, RecordFailure, RecordSkip, RecordOvertaken
    <2>2. \A q \in RecordId : rec'[q] = rec[q] \/
              (rec'[q] \in { "success", "import_failed" } /\ rec[q] # "absent")
      BY <2>1 DEF EndImport, TypeOK, Live, ImporterRecordState
    <2>3. \A d \in Call, q \in RecordId :
              ijob'[d][q] = ijob[d][q] \/ ijob'[d][q] \in { "overtaken", "ended" }
      <3>1. CASE r \in Live
        BY <2>1, <3>1, JobsOvertakenMoves, JobsOvertakenType DEF EndImport
      <3>2. CASE r \notin Live
        BY <2>1, <3>2 DEF EndImport, TypeOK
      <3>3. QED
        BY <3>1, <3>2
    <2>4. \A q \in linked' : q \in linked \/ ijob[c][q] = "committed"
      BY <2>1 DEF EndImport
    <2>5. UNCHANGED applied
      BY <2>1 DEF EndImport
    <2>6. QED
      BY <1>2, <2>2, <2>3, <2>4, <2>5 DEF KeepsOrder, KeepsResults
  <1>7. QED
    BY <1>3, <1>4, <1>5, <1>6

(* The steps of a finaliser. *)
LEMMA FinalizerKeeps ==
    ASSUME NEW c \in Call, NEW k \in Copy,
           \/ ReadRecords(c, k) \/ WriteStatus(c, k) \/ RefreshFails(c, k)
           \/ GiveUp(c, k) \/ CrashFinalizer(c, k)
    PROVE  KeepsOrder /\ KeepsResults
  BY DEF ReadRecords, WriteStatus, RefreshFails, GiveUp, CrashFinalizer,
     KeepsOrder, KeepsResults

-----------------------------------------------------------------------------
(* Every step.                                                             *)

(* Every step reads the file, or is one of those above. *)
LEMMA EveryStep ==
    ASSUME TypeOK, [Next]_vars
    PROVE  \/ \E c \in Call, e \in Entry :
                  CreateRecord(c, e) \/ PublishValidation(c, e)
           \/ KeepsOrder /\ KeepsResults
  <1>1. CASE UserStep
    BY <1>1, UserKeeps
  <1>2. CASE RunStep
    BY <1>2, RunKeeps DEF RunStep
  <1>3. CASE ValidationStep
    BY <1>3, ValidationKeeps DEF ValidationStep
  <1>4. CASE ImportStep
    BY <1>4, ImportKeeps DEF ImportStep
  <1>5. CASE FinalizerStep
    BY <1>5, FinalizerKeeps DEF FinalizerStep
  <1>6. CASE Crash
    BY <1>6, RunKeeps, ValidationKeeps, ImportKeeps, FinalizerKeeps DEF Crash
  <1>7. CASE UNCHANGED vars
    BY <1>7 DEF vars, KeepsOrder, KeepsResults
  <1>8. QED
    BY <1>1, <1>2, <1>3, <1>4, <1>5, <1>6, <1>7 DEF Next, SystemStep

(* Creating a record, or publishing its job, keeps the invariant. *)
LEMMA ReadingKeeps ==
    ASSUME TypeOK, AnyInv, NEW c \in Call, NEW e \in Entry,
           CreateRecord(c, e) \/ PublishValidation(c, e)
    PROVE  /\ AbsentIsUntouched' /\ ReadInOrder' /\ ValidatedFirst'
           /\ CommittedWasApplied' /\ OnlyValidatedIsApplied' /\ LinkedWasApplied'
  <1> USE DEF AnyInv
  <1> DEFINE r == <<c, e>>
  <1>1. CASE CreateRecord(c, e)
    <2>1. /\ \A q \in RecordId : q # r => rec'[q] = rec[q]
          /\ rec'[r] = "created"
      BY <1>1 DEF CreateRecord, TypeOK, RecordId
    <2>2. UNCHANGED << vjob, ijob, applied, linked >>
      BY <1>1 DEF CreateRecord
    <2>3. QED
      BY <1>1, <2>1, <2>2, CreateRecordInOrder
      DEF AbsentIsUntouched, ValidatedFirst, CommittedWasApplied,
          OnlyValidatedIsApplied, LinkedWasApplied
  <1>2. CASE PublishValidation(c, e)
    <2>1. /\ vjob[r] = "none" /\ rec[r] # "absent"
          /\ \A q \in RecordId : q # r => vjob'[q] = vjob[q]
          /\ ReadInOrder'
      BY <1>2, PublishValidationInOrder
    <2>2. UNCHANGED << rec, ijob, applied, linked >>
      BY <1>2 DEF PublishValidation
    <2>3. QED
      BY <2>1, <2>2
      DEF AbsentIsUntouched, ValidatedFirst, CommittedWasApplied,
          OnlyValidatedIsApplied, LinkedWasApplied
  <1>3. QED
    BY <1>1, <1>2

(* A deleted task is not written, and no finaliser is about to. *)
LEMMA GoneKept ==
    ASSUME TypeOK, GoneIsKnown, [Next]_vars
    PROVE  GoneIsKnown' /\ (Gone => Gone')
  <1>1. \/ Gone' /\ ~ Gone /\ DeleteTask
        \/ UNCHANGED << status, finalizer >>
        \/ ~ Gone /\ ~ Gone'
        \/ /\ UNCHANGED status
           /\ Gone => \A c \in Call, k \in Copy : finalizer'[c][k].pc # "refreshing"
    <2>1. CASE UserStep
      BY <2>1, StatusType
      DEF UserStep, StartValidation, MayValidate, StartLoadingRecords, MayLoad,
          StatusUpdate, OptionsUpdate, UpdateMetadataFile, UpdateTask,
          DeleteTask, StartRun, Gone, ImporterTaskState
    <2>2. CASE RunStep
      <3>1. ASSUME NEW c \in Call, FollowValidation(c) \/ FollowImport(c)
                                     \/ SettleByFollowing(c)
            PROVE  /\ UNCHANGED status
                   /\ Gone => \A d \in Call, k \in Copy :
                                  finalizer'[d][k].pc # "refreshing"
        <4>1. PICK k \in Copy,
                   f \in { NoFinalizer, [NoFinalizer EXCEPT !.pc = "waiting"] } :
                  finalizer' = [finalizer EXCEPT ![c][k] = f]
          <5>1. 1 \in Copy /\ 2 \in Copy
            BY DEF Copy
          <5>2. QED
            BY <3>1, <5>1, Zenon
            DEF FollowValidation, FollowImport, SettleByFollowing, FinalizerSent
        <4>2. f.pc # "refreshing"
          BY <4>1 DEF NoFinalizer
        <4>3. UNCHANGED status
          BY <3>1 DEF FollowValidation, FollowImport, SettleByFollowing
        <4>4. QED
          BY <4>1, <4>2, <4>3 DEF GoneIsKnown, TypeOK
      <3>2. QED
        BY <2>2, <3>1, StatusType
        DEF RunStep, OpenMetadataFile, CreateRecord, PublishValidation, ReadFails,
            AbandonRun, ListRecords, PublishImport, SettleByRefreshing, Gone,
            ImporterTaskState
    <2>3. CASE ValidationStep
      BY <2>3 DEF ValidationStep, BeginValidation, FailValidation, EndValidation
    <2>4. CASE ImportStep
      BY <2>4
      DEF ImportStep, BeginImport, CommitRun, RollbackRun, RecordSuccess,
          RecordFailure, RecordSkip, RecordOvertaken, RecordNothing, EndImport
    <2>5. CASE FinalizerStep
      <3>1. ASSUME NEW c \in Call, NEW k \in Copy, ReadRecords(c, k)
            PROVE  /\ UNCHANGED status
                   /\ Gone => \A d \in Call, l \in Copy :
                                  finalizer'[d][l].pc # "refreshing"
        BY <3>1 DEF ReadRecords, GoneIsKnown, TypeOK, FinalizerState
      <3>2. ASSUME NEW c \in Call, NEW k \in Copy, WriteStatus(c, k)
            PROVE  ~ Gone /\ ~ Gone'
        BY <3>2
        DEF WriteStatus, GoneIsKnown, Gone, TypeOK, FinalizerState,
            ImporterTaskState
      <3>3. ASSUME NEW c \in Call, NEW k \in Copy, RefreshFails(c, k) \/ GiveUp(c, k)
            PROVE  \/ ~ Gone /\ ~ Gone'
                   \/ /\ UNCHANGED status
                      /\ Gone => \A d \in Call, l \in Copy :
                                     finalizer'[d][l].pc # "refreshing"
        <4>1. \/ ~ Gone /\ status' = "damaged"
              \/ /\ UNCHANGED status
                 /\ finalizer' = [finalizer EXCEPT ![c][k] = EndedFinalizer]
          BY <3>3, Zenon DEF RefreshFails, GiveUp
        <4>2. EndedFinalizer.pc = "ended"
          BY DEF EndedFinalizer, NoFinalizer
        <4>3. QED
          BY <4>1, <4>2 DEF GoneIsKnown, TypeOK, Gone
      <3>4. QED
        BY <2>5, <3>1, <3>2, <3>3 DEF FinalizerStep
    <2>6. CASE Crash
      <3>1. ASSUME NEW c \in Call, NEW k \in Copy, CrashFinalizer(c, k)
            PROVE  /\ UNCHANGED status
                   /\ Gone => \A d \in Call, l \in Copy :
                                  finalizer'[d][l].pc # "refreshing"
        BY <3>1
        DEF CrashFinalizer, GoneIsKnown, TypeOK, EndedFinalizer, NoFinalizer
      <3>2. QED
        BY <2>6, <3>1
        DEF Crash, CrashRun, CrashValidation, CrashImport
    <2>7. QED
      BY <2>1, <2>2, <2>3, <2>4, <2>5, <2>6 DEF Next, SystemStep, vars
  <1>2. CASE DeleteTask
    BY <1>2, OvertakenIsNotRefreshing DEF DeleteTask, GoneIsKnown, Gone
  <1>3. QED
    BY <1>1, <1>2 DEF GoneIsKnown, Gone

(* The invariant holds. *)
LEMMA AnyInvHolds == Spec => [](TypeOK /\ AnyInv)
  <1>1. Init => AnyInv
    <2> SUFFICES ASSUME Init PROVE AnyInv
      OBVIOUS
    <2>1. ReadInOrder
      <3>1. \A c \in Call : Unread(c) = Entry /\ run[c].pc = "none"
        BY DEF Init, Unread, RecordId, NoRun
      <3>2. QED
        BY <3>1 DEF ReadInOrder
    <2>2. QED
      BY <2>1
      DEF Init, AnyInv, AbsentIsUntouched, ValidatedFirst, CommittedWasApplied,
          OnlyValidatedIsApplied, LinkedWasApplied, GoneIsKnown, Gone
  <1>2. TypeOK /\ TypeOK' /\ AnyInv /\ [Next]_vars => AnyInv'
    <2> SUFFICES ASSUME TypeOK, TypeOK', AnyInv, [Next]_vars PROVE AnyInv'
      OBVIOUS
    <2>1. GoneIsKnown'
      BY GoneKept DEF AnyInv
    <2>2. /\ AbsentIsUntouched' /\ ReadInOrder' /\ ValidatedFirst'
          /\ CommittedWasApplied' /\ OnlyValidatedIsApplied' /\ LinkedWasApplied'
      BY EveryStep, ReadingKeeps, Kept
    <2>3. QED
      BY <2>1, <2>2 DEF AnyInv
  <1>3. QED
    BY <1>1, <1>2, TypeOKHolds, PTL DEF Spec

-----------------------------------------------------------------------------
(* The theorems.                                                           *)

(* Nothing reaches the repository before its validation has ended: a       *)
(* record is run only if it was validated when its job read it.            *)
THEOREM OnlyValidatedIsAppliedHolds == Spec => []OnlyValidatedIsApplied
  BY AnyInvHolds, PTL DEF AnyInv

(* A generated id names a repository record that was really made: it is    *)
(* set by the job that made it, and by no other.                           *)
THEOREM LinkedWasAppliedHolds == Spec => []LinkedWasApplied
  BY AnyInvHolds, PTL DEF AnyInv

(* A late job does not bring back a record that a purge deleted: every job *)
(* finds its row again before it writes it.                                *)
THEOREM PurgedStaysPurgedHolds == Spec => PurgedStaysPurged
  <1>1. TypeOK /\ [Next]_vars =>
            [\A r \in RecordId : rec[r] = "deleted" => rec'[r] = "deleted"]_vars
    <2> SUFFICES ASSUME TypeOK, Next, NEW r \in RecordId, rec[r] = "deleted"
                 PROVE  rec'[r] = "deleted"
      BY Zenon
    <2>1. r \notin Live
      BY DEF Live, ImporterRecordState
    <2>2. CASE UserStep
      BY <2>1, <2>2
      DEF UserStep, StartValidation, StartLoadingRecords, StatusUpdate,
          OptionsUpdate, UpdateMetadataFile, UpdateTask, DeleteTask, StartRun,
          Purged
    <2>3. CASE RunStep
      <3>1. ASSUME NEW c \in Call, NEW e \in Entry, CreateRecord(c, e)
            PROVE  rec'[r] = "deleted"
        BY <3>1 DEF CreateRecord, Unread, TypeOK
      <3>2. QED
        BY <2>3, <3>1
        DEF RunStep, OpenMetadataFile, PublishValidation, ReadFails,
            FollowValidation, AbandonRun, ListRecords, PublishImport,
            FollowImport, SettleByFollowing, SettleByRefreshing
    <2>4. CASE ValidationStep
      BY <2>1, <2>4
      DEF ValidationStep, BeginValidation, FailValidation, EndValidation,
          WriteRecord, TypeOK
    <2>5. CASE ImportStep
      <3>1. PICK q \in RecordId, s \in { "success", "import_failed" } :
                rec' = rec \/ (q \in Live /\ rec' = [rec EXCEPT ![q] = s])
        BY <2>5, Zenon
        DEF ImportStep, BeginImport, CommitRun, RollbackRun, RecordSuccess,
            RecordFailure, RecordSkip, RecordOvertaken, RecordNothing, EndImport
      <3>2. QED
        BY <2>1, <3>1 DEF TypeOK
    <2>6. CASE FinalizerStep \/ Crash
      BY <2>6
      DEF FinalizerStep, ReadRecords, WriteStatus, RefreshFails, GiveUp, Crash,
          CrashRun, CrashFinalizer, CrashValidation, CrashImport
    <2>7. QED
      BY <2>2, <2>3, <2>4, <2>5, <2>6 DEF Next, SystemStep
  <1>2. QED
    BY <1>1, TypeOKHolds, PTL DEF Spec, PurgedStaysPurged

(* A deletion is final: every writer of the task looks it up again, and a  *)
(* finaliser that had read it is refused by the version of the row; a job  *)
(* that begins later does not find the task it has to run its record for.  *)
THEOREM DeletedStaysDeletedHolds == Spec => DeletedStaysDeleted
  <1>1. TypeOK /\ AnyInv /\ [Next]_vars =>
            [status = "deleted" =>
                /\ status' = "deleted"
                /\ \A c \in Call, r \in RecordId :
                       ijob'[c][r] = "running" => ijob[c][r] = "running"]_vars
    <2> SUFFICES ASSUME TypeOK, AnyInv, Next, Gone
                 PROVE  /\ Gone'
                        /\ \A c \in Call, r \in RecordId :
                               ijob'[c][r] = "running" => ijob[c][r] = "running"
      BY Zenon DEF Gone
    <2>1. Gone'
      BY GoneKept DEF AnyInv
    <2>2. ASSUME NEW c \in Call, NEW e \in Entry,
                 CreateRecord(c, e) \/ PublishValidation(c, e)
          PROVE  UNCHANGED ijob
      BY <2>2 DEF CreateRecord, PublishValidation
    <2>3. QED
      BY <2>1, <2>2, EveryStep DEF KeepsResults
  <1>2. QED
    BY <1>1, AnyInvHolds, PTL DEF Spec, DeletedStaysDeleted

=============================================================================
