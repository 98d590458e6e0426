--------------------------- MODULE MCValidatedRun ----------------------------
(***************************************************************************)
(* Small instances of ValidatedRun for TLC.  Two of the three files have   *)
(* the same key; one of the groups does not exist.                         *)
(***************************************************************************)
EXTENDS ValidatedRun

MCFile ==
    { [ origin |-> "url", path |-> << "a", "f" >> ],
      [ origin |-> "gs", path |-> << "b", "f" >> ],
      [ origin |-> "local", path |-> << "g" >> ] }

Local == { f \in MCFile : f.origin = "local" }

Url == { f \in MCFile : f.origin = "url" }

(* Files with different keys, and with the same; a name of no community.   *)
ImportRow ==
    { w \in Row(File) :
          /\ w.readable /\ w.sound /\ ~ w.reason
          /\ w.files \in { {}, Local \cup Url, File \ Local }
          /\ w.communities \in { {}, Community, UnknownCommunity }
          /\ Cardinality(w.access) <= 1 }

(* Rows with or without an id and a reason, good or bad for an import.     *)
BareRow ==
    { w \in Row(File) : w.files = {} /\ w.communities = {} /\ w.access = {} }

MCRow == ImportRow \cup BareRow
=============================================================================
