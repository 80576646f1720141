---------------------------- MODULE MCEnvManager ----------------------------
(* Tasks and session ids for EnvManager.                                   *)
EXTENDS EnvManager, TLC

CONSTANTS supervisor, client, e1, e2, e3

(* Every start has a session id of its own, as the API gives them.         *)
Distinct == [h \in Handles |-> h]
(* The HTTP service takes the id from its caller: the first two agree.     *)
Shared == [h \in Handles |-> IF h = e3 THEN "j" ELSE "i"]

AllJobs    == [s \in Stoppers |-> IF s = supervisor THEN {"reap"} ELSE {"stop", "stop_all"}]
ReapOnly   == [s \in Stoppers |-> {"reap"}]
=============================================================================
