------------------------------ MODULE EnvPool ------------------------------
(***************************************************************************)
(* What the environment manager promises of its servers, with no tasks, no *)
(* semaphore and no health checks: at most MaxEnvs are alive, each on a    *)
(* port of its own.                                                        *)
(***************************************************************************)
EXTENDS Naturals, FiniteSets

CONSTANTS Handles,   \* one server process each
          Ports, MaxEnvs

VARIABLES live,      \* the handles whose server is alive
          at         \* the set of <<handle, port>> a live server was given

vars == <<live, at>>

Init == live = {} /\ at = {}

Begin(h, p) == /\ h \notin live
               /\ Cardinality(live) < MaxEnvs
               /\ \A g \in live : <<g, p>> \notin at
               /\ live' = live \cup {h}
               /\ at' = at \cup {<<h, p>>}

End(H) == /\ H \subseteq live /\ H # {}
          /\ live' = live \ H
          /\ at' = {x \in at : x[1] \notin H}

Next == \/ \E h \in Handles, p \in Ports : Begin(h, p)
        \/ \E H \in SUBSET Handles : End(H)

Spec == Init /\ [][Next]_vars
=============================================================================
