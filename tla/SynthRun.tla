------------------------------ MODULE SynthRun ------------------------------
(***************************************************************************)
(* `workbench synth run --execute`: the steps of the synthesis pipeline,   *)
(* resumed from state.json by running the same command again, after a      *)
(* failure, a stop at the budget, a signal or a crash (ADR-020).           *)
(*                                                                         *)
(* Step s reads what the steps before it wrote.  An output is none, partly *)
(* written or whole, and stale when an earlier step wrote its own again    *)
(* since.                                                                  *)
(***************************************************************************)
EXTENDS SynthProxy

CONSTANTS
  N,               \* steps of the plan
  StepOf,          \* [Reqs -> 1..N]
  Appending,       \* steps that write their output piece by piece
  Budgets, Limits, \* settings a command may be given
  MaxCommands      \* bound of the commands

Steps == 1..N

ASSUME RunAssumption ==
  /\ N \in Nat \ {0} /\ StepOf \in [Reqs -> Steps] /\ Appending \subseteq Steps
  /\ Budgets \subseteq Nat \cup {None} /\ Limits \subseteq Nat /\ MaxCommands \in Nat

VARIABLES
  limit,     \* synth.max_failed_requests of this command
  commands,  \* commands run so far
  runner,    \* "idle" between commands
  at, redo,  \* locals of execute: the step of the loop; redo
  verdict,   \* the entry and outcome about to be saved
  entry,     \* state.json: [Steps -> Entry]
  torn,      \* state.json was opened for writing and not written
  outcome,   \* how the last command ended
  out,       \* [Steps -> Outputs]: the outputs in the run directory
  stale,     \* the steps whose output on disk was made from other inputs
  sound      \* history: no step counted wrongly as finished when the command began

runVars ==
  <<limit, commands, runner, at, redo, verdict, entry, torn, outcome, out, stale, sound>>
vars == <<proxyVars, runVars>>

Statuses == {"none", "done", "done_with_failures", "failed", "interrupted"}
Entry    == [status : Statuses, lost : Nat]
Outputs  == {"none", "part", "whole"}
Outcomes == {"none", "ok", "budget", "upstream_errors", "failed", "interrupted",
             "crashed", "unreadable"}
Pending  == [status |-> "none", lost |-> 0]
Nothing  == [entry |-> Pending, outcome |-> "none"]

TypeOK ==
  /\ ProxyTypeOK
  /\ limit \in Nat /\ commands \in Nat
  /\ runner \in {"idle", "deciding", "running", "judged"}
  /\ at \in 1..(N + 1) /\ (runner \in {"running", "judged"} => at \in Steps)
  /\ redo \in BOOLEAN
  /\ verdict \in [entry : Entry, outcome : Outcomes]
  /\ entry \in [Steps -> Entry] /\ torn \in BOOLEAN /\ outcome \in Outcomes
  /\ out \in [Steps -> Outputs] /\ stale \subseteq Steps /\ sound \in BOOLEAN

Init ==
  /\ ProxyInit
  /\ limit = 0 /\ commands = 0
  /\ runner = "idle" /\ at = 1 /\ redo = FALSE
  /\ verdict = Nothing
  /\ entry = [s \in Steps |-> Pending] /\ torn = FALSE /\ outcome = "none"
  /\ out = [s \in Steps |-> "none"] /\ stale = {} /\ sound = TRUE

-----------------------------------------------------------------------------
(* The command ends, and with it the locals of execute.                    *)
Ends(how) == /\ runner' = "idle" /\ outcome' = how
             /\ at' = 1 /\ redo' = FALSE /\ verdict' = Nothing
             /\ UNCHANGED <<limit, commands, sound>>

(* Recorded as finished, on an output that is not what the step would make *)
(* now.                                                                    *)
Unsound == {s \in Steps : /\ entry[s].status \in {"done", "done_with_failures"}
                          /\ out[s] = "part" \/ s \in stale}

(* The command starts: a proxy of its own, and state.json is loaded.       *)
Start(b, l) ==
  /\ runner = "idle" /\ commands < MaxCommands /\ flight = {}
  /\ commands' = commands + 1
  /\ budget' = b /\ limit' = l
  /\ IF torn
     THEN /\ outcome' = "unreadable" /\ UNCHANGED runner
     ELSE /\ runner' = "deciding" /\ outcome' = "none"
  /\ sound' = (Unsound = {})
  /\ UNCHANGED <<spent, cache, empty, last, client, tries, flight, faults>>
  /\ UNCHANGED <<at, redo, verdict, entry, torn, out, stale>>

Finished(e) == \/ e.status = "done"
               \/ e.status = "done_with_failures" /\ e.lost <= limit

(* Mutant: the steps after a redone one are skipped when recorded. *)
SkippableAlone(s) == Finished(entry[s]) /\ out[s] # "none"

Skippable(s) == ~redo /\ Finished(entry[s]) /\ out[s] # "none"

(* The loop goes on.                                                       *)
Following == at + 1

Skip ==
  /\ runner = "deciding" /\ at \in Steps
  /\ Skippable(at)
  /\ at' = Following
  /\ UNCHANGED <<proxyVars, limit, commands, runner, redo, verdict, entry, torn, outcome, out, stale, sound>>

(* _budget_block: SynthBudgetExceeded before the step.                     *)
Block ==
  /\ runner = "deciding" /\ at \in Steps
  /\ ~Skippable(at) /\ OverBudget
  /\ Ends("budget")
  /\ UNCHANGED <<proxyVars, entry, torn, out, stale>>

(* Outputs of an earlier attempt are set aside, and the step's process     *)
(* starts; what it will write to the ledger begins here.                   *)
Begin ==
  /\ runner = "deciding" /\ at \in Steps
  /\ ~Skippable(at) /\ ~OverBudget
  /\ redo' = TRUE /\ runner' = "running"
  /\ out' = [out EXCEPT ![at] = "none"]
  /\ last' = [k \in Keys |-> "none"]
  /\ client' = [q \in Reqs |-> IF StepOf[q] = at THEN "idle" ELSE client[q]]
  /\ tries' = [q \in Reqs |-> IF StepOf[q] = at THEN 0 ELSE tries[q]]
  /\ UNCHANGED <<budget, spent, cache, empty, flight, faults>>
  /\ UNCHANGED <<limit, commands, at, verdict, entry, torn, outcome, stale, sound>>

Running(q) == runner = "running" /\ StepOf[q] = at

(* The step's output is written from the outputs that are on disk now.     *)
Written(s, o) ==
  /\ out' = [out EXCEPT ![s] = o]
  /\ stale' = (stale \ {s}) \cup {t \in Steps : t > s /\ out[t] # "none"}

WritePart ==
  /\ runner = "running" /\ at \in Appending
  /\ Written(at, "part")
  /\ UNCHANGED <<proxyVars, limit, commands, runner, at, redo, verdict, entry, torn, outcome, sound>>

(* judge_step: the status of the step and the error execute raises.        *)
Judge(ok) ==
  LET lost == Cardinality(Ended("failed"))
      As(status, how) == [entry |-> [status |-> status, lost |-> lost], outcome |-> how]
  IN IF Ended("refused") # {} THEN As("failed", "budget")
     ELSE IF lost > limit THEN As("failed", "upstream_errors")
     ELSE IF ~ok THEN As("failed", "failed")
     ELSE IF lost > 0 THEN As("done_with_failures", "none")
     ELSE As("done", "none")

(* The step's process exits.  It exits 0 with its outputs when it knows    *)
(* the end of each of its requests, lost ones included; otherwise it       *)
(* fails, or leaves outputs out.                                           *)
StepEnds(ok) ==
  /\ runner = "running"
  /\ ok => \A q \in Reqs : StepOf[q] = at => client[q] \in {"answered", "lost"}
  /\ IF ok THEN Written(at, "whole") ELSE UNCHANGED <<out, stale>>
  /\ verdict' = Judge(ok)
  /\ runner' = "judged"
  /\ UNCHANGED <<proxyVars, limit, commands, at, redo, entry, torn, outcome, sound>>

(* SIGINT or SIGTERM while the step runs: its processes are stopped and it *)
(* is about to be marked.                                                  *)
Interrupt ==
  /\ runner = "running"
  /\ verdict' = [entry |-> [status |-> "interrupted", lost |-> 0], outcome |-> "interrupted"]
  /\ runner' = "judged"
  /\ UNCHANGED <<proxyVars, limit, commands, at, redo, entry, torn, outcome, out, stale, sound>>

(* state.save, and the error that ends the command, if any.                *)
Saved(ends) ==
  /\ runner = "judged"
  /\ entry' = [entry EXCEPT ![at] = verdict.entry]
  /\ IF ends
     THEN Ends(verdict.outcome)
     ELSE /\ runner' = "deciding" /\ verdict' = Nothing
          /\ at' = IF verdict.outcome = "none" THEN Following ELSE at
          /\ UNCHANGED <<limit, commands, redo, outcome, sound>>
  /\ UNCHANGED <<proxyVars, torn, out, stale>>

(* Mutant: a failed step is tried again. *)
SaveAndRetry == Saved(verdict.outcome = "interrupted")

Save == Saved(verdict.outcome # "none")

(* A command that is stopped while it saves may leave the file empty.      *)
Torn == torn' \in IF runner = "judged" THEN BOOLEAN ELSE {torn}

(* A signal between two steps or during save, or during the validation.    *)
Stop ==
  /\ runner \in {"deciding", "judged"}
  /\ Ends("interrupted") /\ Torn
  /\ UNCHANGED <<proxyVars, entry, out, stale>>

(* The machine goes down, with the step's processes and the proxy.         *)
Crash ==
  /\ runner # "idle"
  /\ Ends("crashed") /\ Torn /\ ProxyDies
  /\ UNCHANGED <<entry, out, stale>>

(* The ledger is summarised and the outputs are validated.                 *)
Finish ==
  /\ runner = "deciding" /\ at = N + 1
  /\ Ends("ok")
  /\ UNCHANGED <<proxyVars, entry, torn, out, stale>>

(* ProxyThread.__exit__ waits a little for what is in flight.              *)
ProxyEnds ==
  /\ runner = "idle" /\ flight # {}
  /\ ProxyDies
  /\ UNCHANGED runVars

Client(q)   == Running(q) /\ (Hit(q) \/ HitEmpty(q) \/ Refuse(q) \/ Forward(q)) /\ UNCHANGED runVars
Patience(q) == Running(q) /\ GiveUp(q) /\ UNCHANGED runVars
Upstream(q, k) == (Answer(q, k) \/ Fail(q, k)) /\ UNCHANGED runVars
Runner      == Skip \/ Block \/ Begin \/ Save \/ Finish

Next ==
  \/ \E b \in Budgets, l \in Limits : Start(b, l)
  \/ Runner \/ WritePart \/ Interrupt \/ Stop \/ Crash \/ ProxyEnds
  \/ \E ok \in BOOLEAN : StepEnds(ok)
  \/ \E q \in Reqs : Client(q) \/ Patience(q) \/ \E k \in 1..Tries : Upstream(q, k)

Spec == Init /\ [][Next]_vars

(* The runner and the step's process go on, and every forwarded request    *)
(* ends (the proxy's timeouts and retries are bounded).                    *)
Fairness ==
  /\ WF_vars(Runner) /\ WF_vars(StepEnds(TRUE))
  /\ WF_vars(ProxyEnds)
  /\ \A q \in Reqs : WF_vars(Client(q)) /\ \A k \in 1..Tries : WF_vars(Upstream(q, k))
FairSpec == Spec /\ Fairness

-----------------------------------------------------------------------------
(* Properties *)

(* A run that ends well left what an uninterrupted run would: every output *)
(* is whole and made from the outputs that are there (runner.py:548: "once *)
(* a step runs, every later step runs too: its inputs may have changed").  *)
SuccessIsFresh ==
  outcome = "ok" => /\ \A s \in Steps : out[s] = "whole"
                    /\ stale = {}

(* What the code does keep: a command that found no step wrongly counted   *)
(* as finished and ends well leaves whole outputs made from each other,    *)
(* whatever steps it had to redo.                                          *)
SoundCommand ==
  outcome = "ok" /\ sound => /\ \A s \in Steps : out[s] = "whole"
                             /\ stale = {}

(* A step's verdict says what its requests came to (ADR-022): done only    *)
(* when each was answered, done_with_failures only within the limit and    *)
(* none refused, and an answered request does not count as lost; as long   *)
(* as no client gave up on the proxy, no cache write was cut short and no  *)
(* two requests of the plan have the same body (the ledger identifies them *)
(* by their key: an answer to one would hide the loss of the other).       *)
VerdictIsTrue ==
  runner = "judged" /\ faults = 0 =>
    LET lost == {Key[q] : q \in {r \in Reqs : StepOf[r] = at /\ client[r] = "lost"}}
    IN /\ verdict.entry.status = "done" => lost = {}
       /\ verdict.entry.status = "done_with_failures" =>
            /\ verdict.entry.lost = Cardinality(lost)
            /\ Cardinality(lost) <= limit

(* An answer is paid for once, reruns are served from the cache; but for   *)
(* the requests whose client gave up or whose cache write was cut short    *)
(* (and for requests with the same body in flight together).               *)
PaidOnce == spent <= Cardinality(cache \ empty) + faults

(* Every command ends, whatever the upstream does.                         *)
CommandsEnd == runner # "idle" ~> runner = "idle"
=============================================================================
