-------------------------- MODULE MCUploadPipeline --------------------------
(* Model-checking instances of UploadPipeline.                             *)
EXTENDS UploadPipeline, TLC

(* The shots are interchangeable in every action and safety property.      *)
ShotSymmetry == Permutations(Shots)

(* One session of the service of less than 5 minutes, so that no file      *)
(* ages, from its start to the end of its stop sequence, without a crash:  *)
(* small enough for liveness and an abandoned receive.  Some of the screenshots are in the temp     *)
(* folder, left by an earlier session; the others are still to come.       *)
SessionInit ==
    /\ \E left \in SUBSET Shots :
          /\ disk = [f \in Shots |-> IF f \in left THEN "retryable" ELSE "none"]
          /\ hpc = [f \in Shots |-> IF f \in left THEN "done" ELSE "idle"]
    /\ copies = [f \in Shots |-> 0] /\ rows = [f \in Shots |-> 0]
    /\ retryList = {} /\ tracked = {} /\ queue = <<>>
    /\ orphans = 0 /\ completing = FALSE
    /\ ppc = "top" /\ pfile = NoShot /\ sem = 1
    /\ shuttingDown = FALSE /\ cancelled = FALSE /\ spc = "running"
    /\ stolen = FALSE

SessionNext ==
    \/ \E f \in Shots : Handler(f) \/ RetryEnqueue(f)
    \/ RetryScan
    \/ Processor
    \/ BeginShutdown \/ StopSequence

SessionSpec == SessionInit /\ [][SessionNext]_vars /\ Fairness
=============================================================================
