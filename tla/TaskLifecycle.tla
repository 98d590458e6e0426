--------------------------- MODULE TaskLifecycle ----------------------------
(***************************************************************************)
(* What an importer task promises, without jobs, messages or failures: the *)
(* statuses it moves through, and what each of them means for the records  *)
(* of the task and for the repository.  It is read off what start_         *)
(* validation, start_loading_records, _settle and the failure handlers     *)
(* allow (services/services.py, services/tasks.py), and has transitions    *)
(* that the diagram of docs/import-flow.md does not draw: the README       *)
(* lists them.                                                             *)
(***************************************************************************)
EXTENDS Naturals

CONSTANT Record

VARIABLES
    status,     \* the task's status
    current,    \* the records it holds
    applied     \* how often each was applied to the repository

vars == << status, current, applied >>

Running == { "validating", "importing" }

Init ==
    /\ status = "created"
    /\ current = {}
    /\ applied = [r \in Record |-> 0]

(* A validation starts over, and only when nothing is running. *)
StartValidation ==
    /\ status \notin Running
    /\ status' = "validating"
    /\ current' = {}
    /\ UNCHANGED applied

(* Records arrive during a validation only, and are new. *)
Arrive(r) ==
    /\ status = "validating"
    /\ r \notin current
    /\ applied[r] = 0
    /\ current' = current \cup {r}
    /\ UNCHANGED << status, applied >>

(* It ends validated, with failures, on an empty file, or damaged. *)
EndValidation(s) ==
    /\ status = "validating"
    /\ \/ s \in { "validated", "validation_failed" } /\ current # {}
       \/ s = "created" /\ current = {}
       \/ s = "damaged"
    /\ status' = s
    /\ UNCHANGED << current, applied >>

StartImport ==
    /\ status = "validated"
    /\ status' = "importing"
    /\ UNCHANGED << current, applied >>

(* The repository changes during an import only, once for each record. *)
Apply(r) ==
    /\ status = "importing"
    /\ r \in current
    /\ applied[r] = 0
    /\ applied' = [applied EXCEPT ![r] = 1]
    /\ UNCHANGED << status, current >>

(* A success applied all; going back to validated means none was. *)
EndImport(s) ==
    /\ status = "importing"
    /\ \/ s = "success" /\ \A r \in current : applied[r] = 1
       \/ s = "validated" /\ \A r \in current : applied[r] = 0
       \/ s \in { "import_failed", "damaged" }
    /\ status' = s
    /\ UNCHANGED << current, applied >>

Next ==
    \/ StartValidation
    \/ StartImport
    \/ \E r \in Record : Arrive(r) \/ Apply(r)
    \/ \E s \in { "created", "validated", "validation_failed",
                  "import_failed", "success", "damaged" } :
           EndValidation(s) \/ EndImport(s)

Spec == Init /\ [][Next]_vars
=============================================================================
