----------------------------- MODULE SynthProxy -----------------------------
(***************************************************************************)
(* The caching proxy of a synthesis run and its cost ledger (ADR-021,      *)
(* ADR-022).  A generation step sends each of its requests up to Tries     *)
(* times; the proxy serves it from the cache, refuses it at the budget, or *)
(* forwards it, and writes one ledger entry when it has answered.          *)
(*                                                                         *)
(* The proxy is one asyncio loop: a request is decided in one step, and    *)
(* others interleave while the upstream is awaited.  Of the ledger only    *)
(* what its readers compute is kept: the cost so far, and for each cache   *)
(* key the last entry the current step wrote.  A billed request costs one. *)
(***************************************************************************)
EXTENDS Naturals, FiniteSets

CONSTANTS
  None,
  Reqs,            \* the requests the generation steps send
  Keys, Key,       \* [Reqs -> Keys]: cache_key of a request's body
  Tries,           \* attempts of one request by the step's client
  MaxFaults        \* bound of the impatient clients and interrupted cache writes

ASSUME ProxyAssumption ==
  /\ IsFiniteSet(Keys) /\ Key \in [Reqs -> Keys] /\ Tries \in Nat \ {0} /\ MaxFaults \in Nat
  /\ None \notin Nat

VARIABLES
  budget,    \* synth.budget of this command (None: no limit)
  spent,     \* Ledger.spent
  cache,     \* keys with a file in cache_dir
  empty,     \* those whose file was opened and never written
  last,      \* [Keys -> Entries]: the key's last ledger entry since the step began
  client,    \* [Reqs -> ...]: what the step knows of its request
  tries,     \* [Reqs -> 0..Tries]: the attempt it is at
  flight,    \* <<request, attempt>> forwarded and not yet answered
  faults     \* history: clients that gave up and answers that were not cached

proxyVars == <<budget, spent, cache, empty, last, client, tries, flight, faults>>

Entries == {"none", "answered", "failed", "refused"}
Attempts == Reqs \X (1..Tries)

ProxyTypeOK ==
  /\ budget \in Nat \cup {None} /\ spent \in Nat
  /\ cache \subseteq Keys /\ empty \subseteq cache /\ last \in [Keys -> Entries]
  /\ client \in [Reqs -> {"idle", "waiting", "answered", "lost"}]
  /\ tries \in [Reqs -> 0..Tries] /\ flight \subseteq Attempts
  /\ faults \in 0..MaxFaults

ProxyInit ==
  /\ budget = None /\ spent = 0 /\ cache = {} /\ empty = {} /\ last = [k \in Keys |-> "none"]
  /\ client = [q \in Reqs |-> "idle"] /\ tries = [q \in Reqs |-> 0]
  /\ flight = {} /\ faults = 0

OverBudget == budget # None /\ spent >= budget

(* The client after its attempt k got no answer: it retries, or goes on    *)
(* without one.                                                            *)
Retry(k) == IF k < Tries THEN "idle" ELSE "lost"

-----------------------------------------------------------------------------
Sent(q) == /\ client[q] = "idle" /\ tries[q] < Tries
           /\ tries' = [tries EXCEPT ![q] = @ + 1]

Hit(q) ==
  /\ Sent(q)
  /\ Key[q] \in cache \ empty
  /\ last' = [last EXCEPT ![Key[q]] = "answered"]
  /\ client' = [client EXCEPT ![q] = "answered"]
  /\ UNCHANGED <<budget, spent, cache, empty, flight, faults>>

(* The cache file is no JSON: the proxy answers 500 and records nothing.   *)
HitEmpty(q) ==
  /\ Sent(q)
  /\ Key[q] \in empty
  /\ client' = [client EXCEPT ![q] = Retry(tries[q] + 1)]
  /\ UNCHANGED <<budget, spent, cache, empty, last, flight, faults>>

Refuse(q) ==
  /\ Sent(q)
  /\ Key[q] \notin cache /\ OverBudget
  /\ last' = [last EXCEPT ![Key[q]] = "refused"]
  /\ client' = [client EXCEPT ![q] = Retry(tries[q] + 1)]
  /\ UNCHANGED <<budget, spent, cache, empty, flight, faults>>

Forward(q) ==
  /\ Sent(q)
  /\ Key[q] \notin cache /\ ~OverBudget
  /\ flight' = flight \cup {<<q, tries[q] + 1>>}
  /\ client' = [client EXCEPT ![q] = "waiting"]
  /\ UNCHANGED <<budget, spent, cache, empty, last, faults>>

Waits(q, k) == client[q] = "waiting" /\ tries[q] = k

(* Mutant: the answer is not cached. *)
AnswerUncached(q, k) ==
  /\ <<q, k>> \in flight
  /\ flight' = flight \ {<<q, k>>}
  /\ spent' = spent + 1
  /\ last' = [last EXCEPT ![Key[q]] = "answered"]
  /\ client' = [client EXCEPT ![q] = IF Waits(q, k) THEN "answered" ELSE @]
  /\ UNCHANGED <<budget, cache, empty, tries, faults>>

(* The upstream answers with JSON: billed, then cached.                    *)
Answer(q, k) ==
  /\ <<q, k>> \in flight
  /\ flight' = flight \ {<<q, k>>}
  /\ spent' = spent + 1
  /\ cache' = cache \cup {Key[q]}
  /\ last' = [last EXCEPT ![Key[q]] = "answered"]
  /\ client' = [client EXCEPT ![q] = IF Waits(q, k) THEN "answered" ELSE @]
  /\ UNCHANGED <<budget, empty, tries, faults>>

(* Mutant: an upstream error is passed on and not recorded. *)
FailUnrecorded(q, k) ==
  /\ <<q, k>> \in flight
  /\ flight' = flight \ {<<q, k>>}
  /\ client' = [client EXCEPT ![q] = IF Waits(q, k) THEN Retry(k) ELSE @]
  /\ UNCHANGED <<budget, spent, cache, empty, last, tries, faults>>

(* A 4xx, an answer that is no JSON, or 5xx and network errors after the   *)
(* proxy's own retries.                                                    *)
Fail(q, k) ==
  /\ <<q, k>> \in flight
  /\ flight' = flight \ {<<q, k>>}
  /\ last' = [last EXCEPT ![Key[q]] = "failed"]
  /\ client' = [client EXCEPT ![q] = IF Waits(q, k) THEN Retry(k) ELSE @]
  /\ UNCHANGED <<budget, spent, cache, empty, tries, faults>>

(* The client's own timeout is shorter than the proxy's, which goes on.    *)
GiveUp(q) ==
  /\ client[q] = "waiting" /\ faults < MaxFaults
  /\ faults' = faults + 1
  /\ client' = [client EXCEPT ![q] = Retry(tries[q])]
  /\ UNCHANGED <<budget, spent, cache, empty, last, tries, flight>>

(* The proxy's process ends: what is in flight is lost, and an answer may  *)
(* have been recorded whose cache file is missing or empty.                *)
ProxyDies ==
  /\ flight' = {}
  /\ \/ UNCHANGED <<spent, cache, empty, faults>>
     \/ \E x \in flight :
          /\ faults < MaxFaults /\ faults' = faults + 1
          /\ spent' = spent + 1
          /\ \/ UNCHANGED <<cache, empty>>
             \/ /\ Key[x[1]] \notin cache
                /\ cache' = cache \cup {Key[x[1]]} /\ empty' = empty \cup {Key[x[1]]}
  /\ UNCHANGED <<budget, last, client, tries>>

-----------------------------------------------------------------------------
(* step_requests: the last entry of a key decides.                         *)
Ended(kind) == {k \in Keys : last[k] = kind}
=============================================================================
