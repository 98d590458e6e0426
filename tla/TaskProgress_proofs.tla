------------------------ MODULE TaskProgress_proofs -------------------------
(***************************************************************************)
(* The calculation of a task's status is right for every number of records.*)
(***************************************************************************)
EXTENDS TaskProgress, TLAPS

(* No code path puts a record in the state "validating". *)
Inv == counts \in Counts /\ counts["validating"] = 0

USE DEF ImporterRecordState, Counts

(* The counts stay natural numbers, and none is ever "validating". *)
LEMMA InvHolds == Spec => []Inv
<1>1. Init => Inv
  BY DEF Init, Inv
<1>2. Inv /\ [Next]_counts => Inv'
  <2> SUFFICES ASSUME Inv, [Next]_counts
               PROVE  Inv'
    OBVIOUS
  <2>1. CASE Create
    BY <2>1 DEF Create, Inv
  <2>2. CASE Validate
    BY <2>2 DEF Validate, Move, Inv
  <2>3. CASE Import
    BY <2>3 DEF Import, Move, Inv
  <2>4. CASE UNCHANGED counts
    BY <2>4 DEF Inv
  <2>5. QED
    BY <2>1, <2>2, <2>3, <2>4 DEF Next
<1>3. QED
  BY <1>1, <1>2, PTL DEF Spec

(* However many records are made, validated and imported, each is counted  *)
(* once, in the one state it is in.                                        *)
THEOREM TypeOKHolds == Spec => []TypeOK
<1>1. Inv => TypeOK
  BY DEF Inv, TypeOK
<1>2. QED
  BY <1>1, InvHolds, PTL

(* The last line of calculate_task_state is unreachable. *)
THEOREM NeverDamagedHolds == Spec => []NeverDamaged
<1>1. Inv => NeverDamaged
  BY DEF Inv, NeverDamaged, Status, CalculateTaskState, TotalRecords
<1>2. QED
  BY <1>1, InvHolds, PTL

(* What a settled status says of the records holds for any number of them. *)
THEOREM StatusDescribesRecordsHolds == Spec => []StatusDescribesRecords
<1>1. Inv => StatusDescribesRecords
  <2> SUFFICES ASSUME Inv PROVE StatusDescribesRecords
    OBVIOUS
  <2> USE DEF Inv, Status, CalculateTaskState, TotalRecords, AllIn
  <2>0. \A s \in ImporterRecordState : counts[s] \in Nat
    OBVIOUS
  <2>1. Status = "validated" <=> AllIn({"validated"}) /\ counts["validated"] > 0
    <3>1. AllIn({"validated"}) <=>
            /\ counts["created"] = 0 /\ counts["success"] = 0
            /\ counts["serializer_validation_failed"] = 0
            /\ counts["validation_failed"] = 0
            /\ counts["import_failed"] = 0
      OBVIOUS
    <3>2. QED
      BY <2>0, <3>1
  <2>2. Status = "success" <=> AllIn({"success"}) /\ counts["success"] > 0
    <3>1. AllIn({"success"}) <=>
            /\ counts["created"] = 0 /\ counts["validated"] = 0
            /\ counts["serializer_validation_failed"] = 0
            /\ counts["validation_failed"] = 0
            /\ counts["import_failed"] = 0
      OBVIOUS
    <3>2. QED
      BY <2>0, <3>1
  <2>3. Status = "import_failed" <=>
          AllIn({"success", "import_failed"}) /\ counts["import_failed"] > 0
    OBVIOUS
  <2>4. Status = "importing" => counts["validated"] > 0
    OBVIOUS
  <2>5. QED
    BY <2>1, <2>2, <2>3, <2>4 DEF StatusDescribesRecords
<1>2. QED
  BY <1>1, InvHolds, PTL

(* The jobs of a validation and of a load never make the calculated status *)
(* less advanced, however many records there are.                          *)
THEOREM ProgressIsForwardHolds == Spec => ProgressIsForward
<1>1. Inv /\ [Next]_counts =>
        [Validate \/ (Import /\ counts["created"] = 0)
             => Rank(Status) <= Rank(Status')]_counts
  <2> SUFFICES ASSUME Inv, Validate \/ (Import /\ counts["created"] = 0)
               PROVE  Rank(Status) <= Rank(Status')
    BY Zenon
  <2> USE DEF Inv, Status, CalculateTaskState, TotalRecords, Rank, Move
  <2>1. CASE Validate
    BY <2>1 DEF Validate
  <2>2. ASSUME NEW from \in ImporterRecordState, NEW to \in {"import_failed", "success"},
               counts["created"] = 0, Move(from, to)
        PROVE  Rank(Status) <= Rank(Status')
    <3>1. Status \in {"validation_failed", "validated", "importing", "import_failed", "success"}
      <4>1. TotalRecords(counts) # 0
        BY <2>2
      <4>2. \A s \in ImporterRecordState : counts[s] \in Nat
        OBVIOUS
      <4>3. QED
        BY <2>2, <4>1, <4>2
    <3>2. /\ counts' \in Counts /\ counts'["created"] = 0 /\ counts'[to] > 0
          /\ counts'["validating"] = 0
      BY <2>2
    <3>3. CASE Status = "validation_failed"
      <4>1. Status' \in {"validation_failed", "importing", "import_failed", "success"}
        BY <2>2, <3>2, <3>3
      <4>2. Rank(Status') \in {2, 3, 4} /\ Rank(Status) = 2
        BY ONLY <3>3, <4>1 DEF Rank
      <4>3. QED
        BY ONLY <4>2
    <3>4. CASE Status # "validation_failed"
      <4>1. /\ counts'["serializer_validation_failed"] = 0
            /\ counts'["validation_failed"] = 0
            /\ counts'["validating"] = 0
        BY <2>2, <3>4
      <4>2. Status' \in {"importing", "import_failed", "success"}
        BY <2>2, <3>2, <4>1
      <4>3. CASE counts["validated"] = 0
        <5>1. Status' \in {"import_failed", "success"}
          BY <2>2, <4>2, <4>3
        <5>2. Rank(Status') = 4 /\ Rank(Status) \in {2, 3, 4}
          BY ONLY <3>1, <5>1 DEF Rank
        <5>3. QED
          BY ONLY <5>2
      <4>4. CASE counts["validated"] > 0
        <5>1. Status \in {"validated", "importing"}
          BY <2>2, <3>1, <3>4, <4>4
        <5>2. Rank(Status') \in {3, 4} /\ Rank(Status) \in {2, 3}
          BY ONLY <4>2, <5>1 DEF Rank
        <5>3. QED
          BY ONLY <5>2
      <4>5. QED
        BY <4>3, <4>4
    <3>5. QED
      BY <3>3, <3>4
  <2>3. QED
    BY <2>1, <2>2 DEF Import
<1>2. QED
  BY <1>1, InvHolds, PTL DEF Spec, ProgressIsForward
=============================================================================
