--------------------------- MODULE MCImporterTask ---------------------------
(***************************************************************************)
(* Small instances of ImporterTask: the environments the runs put it in.   *)
(***************************************************************************)
EXTENDS ImporterTaskProperties

(* Every fault but a message that arrives although its publish raised, and *)
(* jobs that outlast the poll limit.                                       *)
AllFaults ==
    { "read", "publish", "publish_start", "publish_follow", "database",
      "post_commit", "job_crash", "run_crash" }
=============================================================================
