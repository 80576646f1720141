---------------------------- MODULE GrantLedger ----------------------------
(***************************************************************************)
(* What approval tokens promise, with no clock, no policy and no upstream: *)
(* a grant is issued, spent at most once, and one call at most runs on it, *)
(* after it was spent and before it lapses.                                *)
(***************************************************************************)
CONSTANTS Nonces,    \* identities of grants
          Requests   \* calls that may run on a grant

VARIABLES state,     \* [Nonces -> GrantStates]
          ran        \* the <<grant, call>> pairs for which the upstream was reached

vars == <<state, ran>>

GrantStates == {"unissued", "live", "spent", "lapsed"}

TypeOK == /\ state \in [Nonces -> GrantStates]
          /\ ran \subseteq Nonces \X Requests

Init == /\ state = [n \in Nonces |-> "unissued"]
        /\ ran = {}

Issue(n) == /\ state[n] = "unissued"
            /\ state' = [state EXCEPT ![n] = "live"]
            /\ UNCHANGED ran

(* A live grant is spent; one the policy issues to itself is spent at once. *)
Spend(n) == /\ state[n] \in {"live", "unissued"}
            /\ state' = [state EXCEPT ![n] = "spent"]
            /\ UNCHANGED ran

Run(n, q) == /\ state[n] = "spent"
             /\ \A p \in Requests : <<n, p>> \notin ran
             /\ ran' = ran \cup {<<n, q>>}
             /\ UNCHANGED state

(* Expiry, or a restart of the process that can verify the grant. *)
Lapse(S) == /\ \A n \in S : state[n] # "unissued"
            /\ state' = [n \in Nonces |-> IF n \in S THEN "lapsed" ELSE state[n]]
            /\ UNCHANGED ran

Next == \/ \E n \in Nonces : Issue(n) \/ Spend(n)
        \/ \E n \in Nonces, q \in Requests : Run(n, q)
        \/ \E S \in SUBSET Nonces : Lapse(S)

Spec == Init /\ [][Next]_vars
=============================================================================
