----------------------------- MODULE AgentTurn -----------------------------
(***************************************************************************)
(* The agent graph: intake -> plan -> act <-> observe -> verify -> respond *)
(* and act -> preview -> approve -> observe, or back to plan.              *)
(*                                                                         *)
(* The variables of the checkpoint are those of AgentState.  A node is one *)
(* step: its update is checkpointed when it returns and lost when it is    *)
(* cancelled, fails or the process dies; only observe has an effect before *)
(* it returns, the gateway's call.  Plans, prompts and answers are left    *)
(* out; a tool call is known by its call_key, an LLM answer costs 1 token. *)
(***************************************************************************)
EXTENDS Naturals

CONSTANTS
  None,
  Calls,           \* call keys: a tool with its arguments
  NeedsPerson,     \* those whose approval_verdict is require_human
  MaxSteps, RepeatThreshold, NoChangeThreshold, TokenBudget, PlanRetries,
                   \* AgentSettings
  MaxTurns,        \* bound of the messages
  MaxCrashes       \* bound of the crashes in a turn

Nodes   == {"intake", "plan", "act", "preview", "approve", "observe", "verify", "respond"}
Reasons == {"max_steps", "repeated_call", "no_state_change", "token_budget", "wall_clock",
            "plan_invalid", "llm_error"}

ASSUME AgentAssumption ==
  /\ None \notin Calls \cup Nodes \cup Reasons /\ NeedsPerson \subseteq Calls
  /\ MaxSteps \in Nat /\ TokenBudget \in Nat /\ PlanRetries \in Nat
  /\ RepeatThreshold \in Nat \ {0} /\ NoChangeThreshold \in Nat \ {0}
  /\ MaxTurns \in Nat /\ MaxCrashes \in Nat

VARIABLES
  active,    \* an invocation of the graph is running
  hops,      \* nodes it has run (LangGraph's supersteps)
  node,      \* checkpoint: the node that comes next
  asked, card,
             \* checkpoint: approve recorded its interrupt; the call it asks about
  steps, counts, rounds, draft, term, tokens,
             \* AgentState: steps, call_counts, verify_rounds, whether there is a
             \* draft_answer, termination's reason, tokens_used
  seen, quiet,   \* whether there is a last_state_digest; no_change
  pending, approvable, token,
             \* pending_call, whether its preview allows an approval, and the call
             \* the approval_token is for
  dangling,  \* the last tool call in messages has no tool message yet
  late,      \* wall_clock_s have passed since started_at
  called,    \* observe has called the gateway
  turns, crashes, made, ran, granted
             \* history, all but turns per turn: crashes, calls that observe
             \* made, and per call its executions and its approvals

turnVars == <<steps, counts, rounds, draft, term, seen, quiet, pending, approvable, token, dangling>>
history  == <<turns, crashes, made, ran, granted>>
vars == <<active, hops, node, asked, card, turnVars, tokens, late, called, history>>

TypeOK ==
  /\ active \in BOOLEAN /\ hops \in Nat /\ node \in Nodes \cup {None}
  /\ asked \in BOOLEAN /\ card \in Calls \cup {None}
  /\ steps \in 0..MaxSteps /\ counts \in [Calls -> Nat] /\ rounds \in Nat
  /\ draft \in BOOLEAN /\ term \in Reasons \cup {None} /\ tokens \in Nat
  /\ seen \in BOOLEAN /\ quiet \in Nat
  /\ pending \in Calls \cup {None} /\ approvable \in BOOLEAN /\ token \in Calls \cup {None}
  /\ dangling \in BOOLEAN /\ late \in BOOLEAN /\ called \in BOOLEAN
  /\ turns \in Nat /\ crashes \in Nat /\ made \in Nat
  /\ ran \in [Calls -> Nat] /\ granted \in [Calls -> Nat]

Zero == [c \in Calls |-> 0]

Init ==
  /\ active = FALSE /\ hops = 0 /\ node = None /\ asked = FALSE /\ card = None
  /\ steps = 0 /\ counts = Zero /\ rounds = 0 /\ draft = FALSE /\ term = None
  /\ seen = FALSE /\ quiet = 0 /\ pending = None /\ approvable = FALSE /\ token = None
  /\ dangling = FALSE /\ tokens = 0 /\ late = FALSE /\ called = FALSE
  /\ turns = 0 /\ crashes = 0 /\ made = 0 /\ ran = Zero /\ granted = Zero

-----------------------------------------------------------------------------
(* A message starts a turn unless an approval is pending; what the last    *)
(* turn left undone is discarded.                                          *)
Message ==
  /\ ~active /\ ~asked /\ turns < MaxTurns
  /\ active' = TRUE /\ hops' = 0 /\ node' = "intake" /\ card' = None
  /\ turns' = turns + 1 /\ crashes' = 0
  /\ made' = 0 /\ ran' = Zero /\ granted' = Zero
  /\ UNCHANGED <<asked, turnVars, tokens, late, called>>

(* Node n of a running invocation returns, and m comes next.               *)
Turn(n, m) == /\ active /\ node = n /\ node' = m /\ hops' = hops + 1
              /\ UNCHANGED <<active, asked, card>>

(* Mutant: the reason is lost. *)
TerminateSilently(n, reason) == Turn(n, "respond") /\ UNCHANGED term

(* terminate: respond with a reason.                                       *)
Terminate(n, reason) == Turn(n, "respond") /\ term' = reason

Spend(k) == tokens' = tokens + k

Intake ==
  /\ Turn("intake", "plan")
  /\ steps' = 0 /\ counts' = Zero /\ rounds' = 0 /\ draft' = FALSE /\ term' = None
  /\ seen' = FALSE /\ quiet' = 0 /\ pending' = None /\ token' = None
  /\ dangling' = FALSE /\ late' = FALSE
  /\ UNCHANGED <<approvable, tokens, called, history>>

(* Mutant: one step too many. *)
ExceededLate == IF steps > MaxSteps THEN "max_steps"
                ELSE IF tokens >= TokenBudget THEN "token_budget"
                ELSE IF late THEN "wall_clock"
                ELSE None

(* budget_guard                                                            *)
Exceeded == IF steps >= MaxSteps THEN "max_steps"
            ELSE IF tokens >= TokenBudget THEN "token_budget"
            ELSE IF late THEN "wall_clock"
            ELSE None

Guarded(n) ==
  /\ Exceeded # None /\ Terminate(n, Exceeded)
  /\ UNCHANGED <<steps, counts, rounds, draft, seen, quiet, pending, approvable, token>>
  /\ UNCHANGED <<dangling, tokens, late, called, history>>

(* The k-th reply is a plan, or none of them is, or the LLM fails before.  *)
Plan(k) ==
  /\ Exceeded = None
  /\ \/ k > 0 /\ Turn("plan", "act") /\ UNCHANGED term
     \/ k = PlanRetries + 1 /\ Terminate("plan", "plan_invalid")
     \/ k <= PlanRetries /\ Terminate("plan", "llm_error")
  /\ Spend(k)
  /\ UNCHANGED <<steps, counts, rounds, draft, seen, quiet, pending, approvable, token>>
  /\ UNCHANGED <<dangling, late, called, history>>

ActFails ==
  /\ Exceeded = None /\ Terminate("act", "llm_error")
  /\ UNCHANGED <<steps, counts, rounds, draft, seen, quiet, pending, approvable, token>>
  /\ UNCHANGED <<dangling, tokens, late, called, history>>

(* The reply has no tool call: it is the draft answer.                     *)
ActAnswers ==
  /\ Exceeded = None /\ Turn("act", "verify")
  /\ draft' = TRUE /\ steps' = steps + 1 /\ Spend(1)
  /\ UNCHANGED <<counts, rounds, term, seen, quiet, pending, approvable, token>>
  /\ UNCHANGED <<dangling, late, called, history>>

(* Mutant: the guard lets one call more through. *)
RepeatsLate(c) == counts[c] >= RepeatThreshold

(* repeat_guard                                                            *)
Repeats(c) == counts[c] + 1 >= RepeatThreshold

ActRepeats(c) ==
  /\ Exceeded = None /\ Repeats(c) /\ Terminate("act", "repeated_call")
  /\ steps' = steps + 1 /\ Spend(1)
  /\ UNCHANGED <<counts, rounds, draft, seen, quiet, pending, approvable, token>>
  /\ UNCHANGED <<dangling, late, called, history>>

(* The approval policy decides whether the call waits for a person.        *)
ActCalls(c) ==
  /\ Exceeded = None /\ ~Repeats(c)
  /\ Turn("act", IF c \in NeedsPerson THEN "preview" ELSE "observe")
  /\ pending' = c /\ dangling' = TRUE
  /\ counts' = [counts EXCEPT ![c] = @ + 1]
  /\ steps' = steps + 1 /\ Spend(1)
  /\ UNCHANGED <<rounds, draft, term, seen, quiet, approvable, token, late, called, history>>

(* The record of the shadow run (none for a read, which can be approved).  *)
Preview(ok) ==
  /\ Turn("preview", "approve")
  /\ approvable' = ok
  /\ UNCHANGED <<steps, counts, rounds, draft, term, seen, quiet, pending, token, dangling>>
  /\ UNCHANGED <<tokens, late, called, history>>

(* interrupt: the invocation ends, and the thread waits for a decision.    *)
Ask ==
  /\ active /\ node = "approve" /\ ~asked
  /\ active' = FALSE /\ asked' = TRUE /\ card' = pending /\ hops' = hops + 1
  /\ UNCHANGED <<node, turnVars, tokens, late, called, history>>

(* A decision resumes the thread at approve, which runs again.             *)
Resume(m) == /\ ~active /\ asked
             /\ active' = TRUE /\ asked' = FALSE /\ hops' = 1 /\ node' = m
             /\ UNCHANGED card

Approve ==
  /\ approvable
  /\ Resume("observe")
  /\ token' = pending
  /\ granted' = [granted EXCEPT ![pending] = @ + 1]
  /\ UNCHANGED <<steps, counts, rounds, draft, term, seen, quiet, pending, approvable, dangling>>
  /\ UNCHANGED <<tokens, late, called, turns, crashes, made, ran>>

Rejected(m, kept, open) ==
  /\ Resume(m)
  /\ pending' = (IF kept THEN pending ELSE None) /\ dangling' = open
  /\ UNCHANGED <<steps, counts, rounds, draft, term, seen, quiet, approvable, token>>
  /\ UNCHANGED <<tokens, late, called, history>>

(* Mutant: a refused call is asked for again. *)
RejectAsksAgain == Rejected("preview", TRUE, TRUE)

(* Mutant: the model is not told the result of its call. *)
RejectUnanswered == Rejected("plan", FALSE, TRUE)

(* A rejection, or an approval that issue_approval refuses.                *)
Reject == Rejected("plan", FALSE, FALSE)

-----------------------------------------------------------------------------
CalledTool(ok, again) ==
  /\ active /\ node = "observe" /\ (~called \/ again)
  /\ called' = TRUE /\ made' = made + 1
  /\ ok => pending \notin NeedsPerson \/ token = pending
  /\ ran' = IF ok THEN [ran EXCEPT ![pending] = @ + 1] ELSE ran
  /\ UNCHANGED <<active, hops, node, asked, card, turnVars>>
  /\ UNCHANGED <<tokens, late, turns, crashes, granted>>

(* Mutant: a call is made again before its result is returned. *)
CallToolAgain(ok) == CalledTool(ok, TRUE)

(* Gateway.call_tool: a call that needs a person runs on a token for it    *)
(* only; any call may be refused or fail.                                  *)
CallTool(ok) == CalledTool(ok, FALSE)

(* no_change_guard                                                         *)
TooQuiet(q) == q >= NoChangeThreshold

(* same: status, text and database are those of the last observation.      *)
Observe(same) ==
  LET q == IF same THEN quiet + 1 ELSE 0 IN
  /\ called /\ (same => seen)
  /\ IF TooQuiet(q) THEN Terminate("observe", "no_state_change")
                    ELSE Turn("observe", "act") /\ UNCHANGED term
  /\ pending' = None /\ token' = None /\ dangling' = FALSE
  /\ seen' = TRUE /\ quiet' = q /\ called' = FALSE
  /\ UNCHANGED <<steps, counts, rounds, draft, approvable, tokens, late, history>>

(* The k-th reply says what is missing, or none can be read, or the LLM    *)
(* fails.  A second round is not sent back.                                *)
Verify(k) ==
  /\ Exceeded = None
  /\ \/ /\ k > 0 /\ rounds' = rounds + 1 /\ UNCHANGED term
        /\ \/ Turn("verify", "respond")
           \/ rounds = 0 /\ Turn("verify", "act")
     \/ k = PlanRetries + 1 /\ Turn("verify", "respond") /\ UNCHANGED <<rounds, term>>
     \/ k <= PlanRetries /\ Terminate("verify", "llm_error") /\ UNCHANGED rounds
  /\ Spend(k)
  /\ UNCHANGED <<steps, counts, draft, seen, quiet, pending, approvable, token>>
  /\ UNCHANGED <<dangling, late, called, history>>

Respond ==
  /\ active /\ node = "respond"
  /\ active' = FALSE /\ node' = None /\ hops' = hops + 1
  /\ UNCHANGED <<asked, card, turnVars, tokens, late, called, history>>

-----------------------------------------------------------------------------
(* The client disconnects, or a node raises.                               *)
Cancel ==
  /\ active /\ active' = FALSE /\ called' = FALSE
  /\ UNCHANGED <<hops, node, asked, card, turnVars, tokens, late, history>>

(* The process dies.  Checkpoints are written while the next node runs, so *)
(* the decision just taken may be lost and its question pending again.     *)
Crash ==
  /\ active /\ crashes < MaxCrashes
  /\ active' = FALSE /\ called' = FALSE /\ crashes' = crashes + 1
  /\ UNCHANGED <<hops, node, asked, card, turnVars>>
  /\ UNCHANGED <<tokens, late, turns, made, ran, granted>>

CrashBeforeSaved ==
  /\ active /\ card # None /\ hops = 1 /\ crashes < MaxCrashes
  /\ active' = FALSE /\ called' = FALSE /\ crashes' = crashes + 1
  /\ node' = "approve" /\ asked' = TRUE
  /\ pending' = card /\ token' = None /\ dangling' = TRUE
  /\ UNCHANGED <<hops, card, steps, counts, rounds, draft, term, seen, quiet, approvable>>
  /\ UNCHANGED <<tokens, late, turns, made, ran, granted>>

(* Time passes, also while a person is asked.                              *)
ClockRuns ==
  /\ ~late /\ node \notin {None, "intake"} /\ late' = TRUE
  /\ UNCHANGED <<active, hops, node, asked, card, turnVars, tokens, called, history>>

Replies == 0..(PlanRetries + 1)

Step ==
  \/ Intake \/ Ask \/ Respond \/ ActFails \/ ActAnswers
  \/ \E n \in {"plan", "act", "verify"} : Guarded(n)
  \/ \E k \in Replies : Plan(k) \/ Verify(k)
  \/ \E c \in Calls : ActRepeats(c) \/ ActCalls(c)
  \/ \E ok \in BOOLEAN : Preview(ok) \/ CallTool(ok) \/ Observe(ok)

Decide == Approve \/ Reject

Next == Message \/ Step \/ Decide \/ Cancel \/ Crash \/ CrashBeforeSaved \/ ClockRuns

Spec == Init /\ [][Next]_vars

(* The event loop runs a ready node, LLM and gateway calls time out, and   *)
(* somebody decides.                                                       *)
FairSpec == Spec /\ WF_vars(Step) /\ WF_vars(Decide)

-----------------------------------------------------------------------------
(* Properties *)

(* Whatever the model replies, an invocation of the graph stays far below  *)
(* the recursion_limit of 200 for the usual settings (runner.py config):   *)
(* steps counts every reply of act, and nothing else loops.                *)
InvocationsAreShort == hops <= 2 * MaxSteps + 4

(* repeat_guard and budget_guard bound what reaches the environment: in a  *)
(* turn a call runs less often than the threshold, and no more calls are   *)
(* made than steps taken; a lost checkpoint adds at most one per crash.    *)
CallsArePaced ==
  node # "intake" => /\ made <= steps + crashes
                     /\ \A c \in Calls : ran[c] < RepeatThreshold + crashes

(* A call that the policy sends to a person runs at most once for every    *)
(* approval given in this turn, through cancellations, crashes and new     *)
(* messages (approve, observe).                                            *)
PersonApproves == \A c \in NeedsPerson : ran[c] <= granted[c]

(* The asserts of preview, approve and observe hold, a token is presented  *)
(* with the call it was issued for, and the LLM never gets a conversation  *)
(* in which a tool call has no result.                                     *)
ContextIsWhole ==
  /\ node \in {"preview", "approve", "observe"} => pending # None /\ dangling
  /\ active /\ node = "observe" => token \in {None, pending}
  /\ node \in {"plan", "act", "verify"} => pending = None /\ token = None /\ ~dangling

(* A turn ends with an answer or the reason why there is none.             *)
TurnsAnswer == node = None /\ turns > 0 => draft \/ term # None

(* Every message and every decision leads to an answer or an abort, if the *)
(* questions it raises are decided.                                        *)
TurnsEnd == active ~> ~active /\ ~asked
=============================================================================
