------------------------------ MODULE Sessions ------------------------------
(***************************************************************************)
(* The HTTP service's sessions: created over an environment and a gateway  *)
(* route, one streamed turn at a time, approval decisions, deletion and    *)
(* shutdown, against an environment service that may be remote.            *)
(*                                                                         *)
(* A handler runs between two awaits in one step.  A request that is       *)
(* looking holds the checkpointer's lock while it reads the thread, and    *)
(* claims the session in the step in which it gets the answer.             *)
(***************************************************************************)
EXTENDS Naturals, FiniteSets

CONSTANTS
  None,
  Sids,          \* one POST /sessions each, and the session id it draws
  Requests,      \* one message or decision each
  MaxSessions,   \* settings.api.max_sessions
  MaxCards,      \* bound of the approval questions of a thread
  Faults         \* calls of a remote environment service that may fail

ASSUME SessionsAssumption ==
  /\ MaxSessions \in Nat \ {0} /\ MaxCards \in Nat
  /\ Faults \subseteq {"start", "stop", "touch"}
  /\ None \notin Sids

VARIABLES
  making,   \* where each POST /sessions is
  open,     \* Runtime.sessions
  routed,   \* the gateway's routes
  env,      \* the environment of each session
  closing,  \* sessions whose close_session awaits envs.stop
  at, on, kind,   \* per request: how far, its session, its kind
  busy,     \* ApiState.busy
  card,     \* the thread's pending approval (0: none)
  cards,    \* approval questions asked on the thread
  down,     \* the lifespan's shutdown: "no", "closing", "closed", "aborted"
  lost,     \* history: sessions whose remote start or stop failed
  stuck     \* history: sessions whose touch failed after they were claimed

makeVars == <<making, open, routed, env, closing, down, lost>>
reqVars  == <<at, on, kind>>
turnVars == <<busy, card, cards, stuck>>
vars == <<makeVars, reqVars, turnVars>>

Waiting == {"sent", "looking"}
Running == {"touching", "streaming", "asked"}

TypeOK ==
  /\ making \in [Sids -> {"new", "starting", "registering", "undoing", "listed", "failed"}]
  /\ open \subseteq Sids /\ routed \subseteq Sids /\ closing \subseteq Sids
  /\ env \in [Sids -> {"none", "up", "gone"}]
  /\ at \in [Requests -> {"idle", "done"} \cup Waiting \cup Running]
  /\ on \in [Requests -> Sids \cup {None}] /\ kind \in [Requests -> {"message", "decision"}]
  /\ busy \subseteq Sids /\ stuck \subseteq Sids /\ lost \subseteq Sids
  /\ card \in [Sids -> 0..MaxCards] /\ cards \in [Sids -> 0..MaxCards]
  /\ down \in {"no", "closing", "closed", "aborted"}

Init ==
  /\ making = [s \in Sids |-> "new"] /\ env = [s \in Sids |-> "none"]
  /\ open = {} /\ routed = {} /\ closing = {} /\ down = "no" /\ lost = {}
  /\ at = [r \in Requests |-> "idle"] /\ on = [r \in Requests |-> None]
  /\ kind = [r \in Requests |-> "message"]
  /\ busy = {} /\ stuck = {}
  /\ card = [s \in Sids |-> 0] /\ cards = [s \in Sids |-> 0]

-----------------------------------------------------------------------------
(* POST /sessions: Runtime.create_session *)

Create(s) ==
  /\ making[s] = "new" /\ down = "no"
  /\ making' = [making EXCEPT ![s] =
                  IF Cardinality(open) >= MaxSessions THEN "failed" ELSE "starting"]
  /\ UNCHANGED <<open, routed, env, closing, down, lost, reqVars, turnVars>>

EnvStarted(s) ==
  /\ making[s] = "starting"
  /\ env' = [env EXCEPT ![s] = "up"]
  /\ making' = [making EXCEPT ![s] = "registering"]
  /\ UNCHANGED <<open, routed, closing, down, lost, reqVars, turnVars>>

(* The manager refuses or fails the start and keeps nothing; a remote one  *)
(* may also go on after the client gave up, and nobody stops it.           *)
EnvFailed(s) ==
  /\ making[s] = "starting"
  /\ making' = [making EXCEPT ![s] = "failed"]
  /\ \/ UNCHANGED <<env, lost>>
     \/ /\ "start" \in Faults
        /\ env' = [env EXCEPT ![s] = "up"] /\ lost' = lost \cup {s}
  /\ UNCHANGED <<open, routed, closing, down, reqVars, turnVars>>

(* register_session discovers the tools and adds the route; the session    *)
(* is listed in the same step.                                             *)
Listed(s) ==
  /\ making[s] = "registering"
  /\ making' = [making EXCEPT ![s] = "listed"]
  /\ routed' = routed \cup {s}
  /\ open' = open \cup {s}
  /\ UNCHANGED <<env, closing, down, lost, reqVars, turnVars>>

(* Mutant: a failed registration only reports the error. *)
RegisterFailsOnly(s) ==
  /\ making[s] = "registering"
  /\ making' = [making EXCEPT ![s] = "failed"]
  /\ UNCHANGED <<open, routed, env, closing, down, lost, reqVars, turnVars>>

RegisterFails(s) ==
  /\ making[s] = "registering"
  /\ making' = [making EXCEPT ![s] = "undoing"]
  /\ UNCHANGED <<open, routed, env, closing, down, lost, reqVars, turnVars>>

(* await envs.stop: the environment is gone, or a remote call fails.       *)
StopEnv(s) ==
  \/ env' = [env EXCEPT ![s] = "gone"] /\ UNCHANGED lost
  \/ "stop" \in Faults /\ lost' = lost \cup {s} /\ UNCHANGED env

Undone(s) ==
  /\ making[s] = "undoing"
  /\ StopEnv(s)
  /\ making' = [making EXCEPT ![s] = "failed"]
  /\ UNCHANGED <<open, routed, closing, down, reqVars, turnVars>>

-----------------------------------------------------------------------------
(* DELETE /sessions/{sid} and the shutdown: Runtime.close_session, aclose *)

(* close_session up to its await.                                          *)
Close(s) ==
  /\ s \in open
  /\ routed' = routed \ {s}
  /\ open' = open \ {s}
  /\ closing' = closing \cup {s}
  /\ UNCHANGED <<making, env, lost>>

Delete(s) == down = "no" /\ Close(s) /\ UNCHANGED <<down, reqVars, turnVars>>

Stopped(s) ==
  /\ s \in closing
  /\ closing' = closing \ {s}
  /\ StopEnv(s)
  /\ down' = IF down = "closing" /\ s \in lost' THEN "aborted" ELSE down
  /\ UNCHANGED <<making, open, routed, reqVars, turnVars>>

(* The server stops when no request is in progress, and closes the         *)
(* sessions one by one; an exception of envs.stop ends the loop.           *)
Shutdown ==
  /\ down = "no" /\ closing = {}
  /\ \A s \in Sids : making[s] \in {"new", "listed", "failed"}
  /\ \A r \in Requests : at[r] \in {"idle", "sent", "done"}
  /\ down' = "closing"
  /\ UNCHANGED <<making, open, routed, env, closing, lost, reqVars, turnVars>>

CloseNext(s) ==
  /\ down = "closing" /\ closing = {}
  /\ Close(s)
  /\ UNCHANGED <<down, reqVars, turnVars>>

Closed ==
  /\ down = "closing" /\ closing = {} /\ open = {}
  /\ down' = "closed"
  /\ UNCHANGED <<making, open, routed, env, closing, lost, reqVars, turnVars>>

(* The environment is reaped, crashes, or its manager restarts.            *)
EnvDies(s) ==
  /\ env[s] = "up"
  /\ env' = [env EXCEPT ![s] = "gone"]
  /\ UNCHANGED <<making, open, routed, closing, down, lost, reqVars, turnVars>>

-----------------------------------------------------------------------------
(* POST /sessions/{sid}/messages and POST /approvals/{sid} *)

(* A client sends a message, or decides on a card it was shown; a decision *)
(* carries only the session's id, and may be a repetition or come late.    *)
Send(r, s) ==
  /\ at[r] = "idle" /\ s \in open
  /\ at' = [at EXCEPT ![r] = "sent"]
  /\ on' = [on EXCEPT ![r] = s]
  /\ \/ UNCHANGED kind
     \/ cards[s] > 0 /\ kind' = [kind EXCEPT ![r] = "decision"]
  /\ UNCHANGED <<makeVars, turnVars>>

(* _session: 404 for a session that is gone.                               *)
Receive(r) ==
  /\ at[r] = "sent" /\ down = "no"
  /\ at' = [at EXCEPT ![r] = IF on[r] \in open THEN "looking" ELSE "done"]
  /\ UNCHANGED <<on, kind, makeVars, turnVars>>

(* Mutant: a message does not look for a pending approval. *)
ClaimableBlind(r) ==
  /\ on[r] \notin busy
  /\ kind[r] = "decision" => card[on[r]] # 0

(* Mutant: a decision does not look whether a turn is running. *)
ClaimableBusy(r) ==
  IF kind[r] = "message" THEN on[r] \notin busy /\ card[on[r]] = 0
                         ELSE card[on[r]] # 0

(* _claim: a message needs a thread without, a decision one with a card.   *)
Claimable(r) ==
  /\ on[r] \notin busy
  /\ (card[on[r]] # 0) <=> (kind[r] = "decision")

Claim(r) ==
  /\ at[r] = "looking" /\ Claimable(r)
  /\ busy' = busy \cup {on[r]}
  /\ at' = [at EXCEPT ![r] = IF kind[r] = "message" THEN "touching" ELSE "streaming"]
  /\ UNCHANGED <<on, kind, card, cards, stuck, makeVars>>

(* 409; an approval also for a card whose required preview failed.         *)
Conflict(r) ==
  /\ at[r] = "looking" /\ (Claimable(r) => kind[r] = "decision")
  /\ at' = [at EXCEPT ![r] = "done"]
  /\ UNCHANGED <<on, kind, makeVars, turnVars>>

Touch(r) ==
  /\ at[r] = "touching"
  /\ at' = [at EXCEPT ![r] = "streaming"]
  /\ UNCHANGED <<on, kind, makeVars, turnVars>>

(* The handler ends before the stream that would release the session.      *)
TouchFails(r) ==
  /\ at[r] = "touching" /\ "touch" \in Faults
  /\ at' = [at EXCEPT ![r] = "done"]
  /\ stuck' = stuck \cup {on[r]}
  /\ UNCHANGED <<on, kind, busy, card, cards, makeVars>>

-----------------------------------------------------------------------------
(* The stream: the agent runs on the session's thread *)

(* The graph takes the input: a decision answers the pending card, a new   *)
(* message would discard one.                                              *)
Enter(r) ==
  /\ at[r] = "streaming" /\ card[on[r]] # 0
  /\ card' = [card EXCEPT ![on[r]] = 0]
  /\ UNCHANGED <<busy, cards, stuck, reqVars, makeVars>>

(* The approve node interrupts: a card is saved, and the stream only has   *)
(* its last events to send.                                                *)
Ask(r) ==
  /\ at[r] = "streaming" /\ card[on[r]] = 0 /\ cards[on[r]] < MaxCards
  /\ card' = [card EXCEPT ![on[r]] = cards[on[r]] + 1]
  /\ cards' = [cards EXCEPT ![on[r]] = @ + 1]
  /\ at' = [at EXCEPT ![r] = "asked"]
  /\ UNCHANGED <<on, kind, busy, stuck, makeVars>>

(* Mutant: only a stream that ends by itself releases the session. *)
ReleaseLeaves(r, cancelled) ==
  /\ at' = [at EXCEPT ![r] = "done"]
  /\ busy' = IF cancelled THEN busy ELSE busy \ {on[r]}
  /\ UNCHANGED <<on, kind, card, cards, stuck, makeVars>>

(* _turn's finally.                                                        *)
Release(r, cancelled) ==
  /\ at' = [at EXCEPT ![r] = "done"]
  /\ busy' = busy \ {on[r]}
  /\ UNCHANGED <<on, kind, card, cards, stuck, makeVars>>

(* The answer is given, or the asked card is all there is.                 *)
Finish(r) ==
  /\ \/ at[r] = "asked"
     \/ at[r] = "streaming" /\ card[on[r]] = 0
  /\ Release(r, FALSE)

(* The client disconnects or the graph raises; the thread stays where its  *)
(* checkpoint left it.                                                     *)
Disconnect(r) == at[r] \in {"streaming", "asked"} /\ Release(r, TRUE)

-----------------------------------------------------------------------------
MakeStep(s) == EnvStarted(s) \/ EnvFailed(s) \/ Listed(s) \/ RegisterFails(s) \/ Undone(s)
CloseStep(s) == Stopped(s) \/ CloseNext(s)
RequestStep(r) == \/ Receive(r) \/ Claim(r) \/ Conflict(r) \/ Touch(r) \/ TouchFails(r)
                  \/ Enter(r) \/ Ask(r) \/ Finish(r)

Next == \/ \E s \in Sids : Create(s) \/ MakeStep(s) \/ Delete(s) \/ CloseStep(s) \/ EnvDies(s)
        \/ \E r \in Requests : \/ \E s \in Sids : Send(r, s)
                               \/ RequestStep(r) \/ Disconnect(r)
        \/ Shutdown \/ Closed

Spec == Init /\ [][Next]_vars

(* The checkpointer answers, calls of the environment service end, and the *)
(* agent's turn ends by its guards and the timeouts of its calls.          *)
Fairness == \A r \in Requests : WF_vars(RequestStep(r))
FairSpec == Spec /\ Fairness

-----------------------------------------------------------------------------
(* Properties *)

(* One turn at a time: two requests never drive one thread, and the one    *)
(* that does has the session claimed (app.py:102, the comment on _claim).  *)
OneTurn ==
  /\ \A r \in Requests : at[r] \in Running => on[r] \in busy
  /\ \A q, r \in Requests :
       at[q] \in Running /\ at[r] \in Running /\ on[q] = on[r] => q = r

(* A session is only busy for a turn in progress, however streams end;     *)
(* the one exception is a touch that failed after the claim.               *)
BusyIsHeld ==
  \A s \in busy : s \in stuck \/ \E r \in Requests : at[r] \in Running /\ on[r] = s

(* A question is never skipped: the pending card of a thread goes away     *)
(* only by a decision that is running, and no other replaces it.           *)
CardsNeedDecisions ==
  [][\A s \in Sids : card[s] # 0 /\ card'[s] # card[s] =>
       /\ card'[s] = 0
       /\ \E r \in Requests : at[r] = "streaming" /\ kind[r] = "decision" /\ on[r] = s]_vars

(* Every environment that is up has an owner who will stop it: a session   *)
(* that is listed, being created or being closed, however creations fail   *)
(* and deletions and the shutdown interleave.  The rest are those a remote *)
(* manager failed to answer for.                                           *)
NoOrphanEnv ==
  \A s \in Sids : env[s] = "up" =>
    \/ s \in open \cup closing \cup lost
    \/ making[s] \in {"registering", "undoing"}

(* A session that was claimed is released again.                           *)
BusyEnds == \A s \in Sids : s \in busy ~> s \notin busy \/ s \in stuck
=============================================================================
