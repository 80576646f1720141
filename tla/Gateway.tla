------------------------------ MODULE Gateway ------------------------------
(***************************************************************************)
(* The governed tool gateway: sessions and their allowlists, approval      *)
(* previews, one-time approval tokens, and concurrent tool calls.          *)
(*                                                                         *)
(* The code runs on one asyncio loop, so the statements between two awaits *)
(* are one step here and other requests interleave at the awaits: the      *)
(* checkpoint before an approved call, the upstream call, and the          *)
(* measurement after it.  Upstream, a request is on the wire until the     *)
(* environment server executes it or it is lost; the client may time out   *)
(* first, and the server may then still execute it later.                  *)
(***************************************************************************)
EXTENDS ApprovalPolicy, UpstreamResults

CONSTANTS
  None,            \* no token, no preview, no route, no checkpoint
  Sessions, Session,     \* [Calls -> Sessions]
  Allowlists,      \* allowlists a session may be registered with
  Tools, Tool,     \* [Calls -> Tools]: the (session, tool) pair of a call
  Rows, Adds, Dels,      \* rows of a session's database; rows a call inserts, deletes
  Rules,           \* the approval policy loaded at startup
  RequirePreview,  \* risk levels of approval.require_preview that are on
  Requests,        \* one call_tool invocation each
  Nonces, PreviewIds,    \* identities of tokens and of preview records
  PreviewsKept,    \* PREVIEWS_KEPT
  TTL, MaxTime,    \* token lifetime; bound of the clock
  Capacity, Refill,      \* token bucket of the rate limiter
  FixedSecret,     \* WORKBENCH_APPROVAL_SECRET is set, so restarts keep the key
  MaxKeys,         \* bound of the restarts that change the key
  Answers          \* answers of the upstream servers (UpstreamResults)

ASSUME GatewayAssumption ==
  /\ Session \in [Calls -> Sessions] /\ Tool \in [Calls -> Tools]
  /\ Allowlists \subseteq SUBSET Calls
  /\ Adds \in [Calls -> SUBSET Rows] /\ Dels \in [Calls -> SUBSET Rows]
  /\ Rules \in Seq(Rule)
  /\ RequirePreview \subseteq RiskLevels
  /\ TTL \in Nat /\ MaxTime \in Nat /\ MaxKeys \in Nat
  /\ PreviewsKept \in Nat \ {0} /\ Capacity \in Nat /\ Refill \in Nat
  /\ FixedSecret \in BOOLEAN /\ \A answer \in Answers : IsAnswer(answer)
  /\ None \notin Nonces /\ None \notin PreviewIds /\ None \notin Calls

VARIABLES
  allow,     \* [Sessions -> SUBSET Calls or None]: the registered routes' allowlists
  key,       \* generation of the signing secret
  now,       \* the clock
  tokens,    \* [Nonces -> Token or None]: every token ever issued
  used,      \* ApprovalService._used: nonces burned, in memory only
  records,   \* [PreviewIds -> Record or None]: every signed record handed out
  kept,      \* Gateway._preview_records, oldest first
  bucket,    \* [Tools -> 0..Capacity]: tokens left in each bucket
  db,        \* [Sessions -> SUBSET Rows]
  wire,      \* requests sent upstream and not yet executed
  pc, call, grant, base, check, audit,
             \* per request: where it is, its call, the token it redeemed, the
             \* checkpoint taken before it, its preview_check, its audit lines
  reached,   \* history: requests for which the upstream was called
  own,       \* history: the rows the request's execution changed
  dirty      \* history: another call's change landed between its checkpoint and
             \* its measurement

tokenVars   == <<key, now, tokens, used>>
previewVars == <<records, kept>>
callVars    == <<pc, call, grant, base, check, audit, reached, own, dirty, wire>>
vars == <<allow, bucket, db, tokenVars, previewVars, callVars>>

(* What the policy, frozen for the process's lifetime, says of each call.  *)
Ruling == [c \in Calls |-> Evaluate(Rules, c)]
Needs  == [c \in Calls |-> NeedsToken(Rules, c)]

Change   == [add : SUBSET Rows, del : SUBSET Rows]
NoChange == [add |-> {}, del |-> {}]
Token    == [call : Calls, by : {"human", "policy"}, exp : Nat, gen : Nat,
             preview : {None} \cup Change, pid : PreviewIds \cup {None}]
ASSUME NoneIsNoToken == None \notin Token

Record   == [call : Calls, ok : BOOLEAN, changes : {None} \cup Change, gen : Nat]

PCs     == {"new", "checkpoint", "waiting", "measure", "done", "cancelled"}
Active  == {"checkpoint", "waiting", "measure"}
Checks  == {"match", "preview_mismatch", "preview_unavailable", "check_failed"}
ASSUME NoneIsNoCheck == None \notin Checks

TypeOK ==
  /\ allow \in [Sessions -> {None} \cup SUBSET Calls]
  /\ key \in Nat /\ now \in Nat
  /\ tokens \in [Nonces -> {None} \cup Token] /\ used \subseteq Nonces
  /\ records \in [PreviewIds -> {None} \cup Record] /\ kept \in Seq(PreviewIds)
  /\ bucket \in [Tools -> 0..Capacity] /\ db \in [Sessions -> SUBSET Rows]
  /\ pc \in [Requests -> PCs] /\ call \in [Requests -> {None} \cup Calls]
  /\ grant \in [Requests -> Nonces \cup {None}]
  /\ base \in [Requests -> {None} \cup SUBSET Rows]
  /\ check \in [Requests -> {None} \cup Checks] /\ audit \in [Requests -> Nat]
  /\ own \in [Requests -> Change]
  /\ wire \subseteq Requests /\ reached \subseteq Requests /\ dirty \subseteq Requests

-----------------------------------------------------------------------------
(* Row-level changes of an execution, and between two copies of the DB.    *)
Effect(c, D)  == [add |-> Adds[c] \ D, del |-> (Dels[c] \cap D) \ Adds[c]]
Apply(c, D)   == (D \ Dels[c]) \cup Adds[c]
(* Mutant: deleted rows are not reported. *)
DiffAddsOnly(D1, D2) == [add |-> D2 \ D1, del |-> {}]

Diff(D1, D2)  == [add |-> D2 \ D1, del |-> D1 \ D2]

(* The record moves to the end; the oldest beyond PreviewsKept is dropped. *)
Without(s, p) ==
  IF \E i \in 1..Len(s) : s[i] = p
  THEN LET k == CHOOSE i \in 1..Len(s) : s[i] = p
       IN [j \in 1..(Len(s) - 1) |-> IF j < k THEN s[j] ELSE s[j + 1]]
  ELSE s
Remember(p) == LET s == Append(Without(kept, p), p)
               IN IF Len(s) > PreviewsKept THEN Tail(s) ELSE s
Known(p) == \E i \in 1..Len(kept) : kept[i] = p

NewToken(c, by, p, changes) ==
  [call |-> c, by |-> by, exp |-> now + TTL, gen |-> key, preview |-> changes, pid |-> p]
Fresh    == {n \in Nonces : tokens[n] = None}
NewNonce == CHOOSE n \in Fresh : TRUE

Init ==
  /\ allow = [s \in Sessions |-> None] /\ key = 0 /\ now = 0
  /\ tokens = [n \in Nonces |-> None] /\ used = {}
  /\ records = [p \in PreviewIds |-> None] /\ kept = <<>>
  /\ bucket = [t \in Tools |-> Capacity] /\ db = [s \in Sessions |-> {}]
  /\ pc = [r \in Requests |-> "new"] /\ call = [r \in Requests |-> None]
  /\ grant = [r \in Requests |-> None] /\ base = [r \in Requests |-> None]
  /\ check = [r \in Requests |-> None] /\ audit = [r \in Requests |-> 0]
  /\ own = [r \in Requests |-> NoChange]
  /\ wire = {} /\ reached = {} /\ dirty = {}

-----------------------------------------------------------------------------
(* Sessions *)

Register(s, A) ==
  /\ allow' = [allow EXCEPT ![s] = {c \in A : Session[c] = s}]
  /\ UNCHANGED <<bucket, db, tokenVars, previewVars, callVars>>

Unregister(s) ==
  /\ allow[s] # None
  /\ allow' = [allow EXCEPT ![s] = None]
  /\ UNCHANGED <<bucket, db, tokenVars, previewVars, callVars>>

-----------------------------------------------------------------------------
(* Previews and approvals *)

(* Gateway.preview: a signed record of what the call changes on a copy of  *)
(* the session's current database, or of the failure.                      *)
Preview(c, p, ok) ==
  /\ allow[Session[c]] # None
  /\ records[p] = None
  /\ records' = [records EXCEPT ![p] =
       [call |-> c, ok |-> ok, gen |-> key,
        changes |-> IF ok THEN Effect(c, db[Session[c]]) ELSE None]]
  /\ kept' = Remember(p)
  /\ UNCHANGED <<allow, bucket, db, tokenVars, callVars>>

(* Gateway._verified: signed by this process's key, for exactly this call. *)
Verified(p, c) == /\ records[p] # None
                  /\ records[p].gen = key
                  /\ records[p].call = c

Approvable(c, p) == p # None /\ Verified(p, c) /\ records[p].ok

(* Mutant: the failed preview of a required level does not refuse. *)
MayApproveAnyway(c, p) == Ruling[c] # "deny"

(* When issue_approval issues instead of raising ApprovalError.            *)
MayApprove(c, p) == /\ Ruling[c] # "deny"
                    /\ Approvable(c, p) \/ Risk[c] \notin RequirePreview

(* Gateway.issue_approval by a person who saw record p (None: no record);  *)
(* the record may come from a client's copy or from the gateway.           *)
IssueApproval(c, p) ==
  /\ allow[Session[c]] # None
  /\ Fresh # {}
  /\ MayApprove(c, p)
  /\ IF Approvable(c, p)
     THEN /\ tokens' = [tokens EXCEPT ![NewNonce] =
                          NewToken(c, "human", p, records[p].changes)]
          /\ kept' = Remember(p)
     ELSE /\ tokens' = [tokens EXCEPT ![NewNonce] = NewToken(c, "human", None, None)]
          /\ UNCHANGED kept
  /\ UNCHANGED <<allow, bucket, db, key, now, used, records, callVars>>

-----------------------------------------------------------------------------
(* Tool calls *)

HumanTokens == {n \in Nonces : tokens[n] # None /\ tokens[n].by = "human"}

(* Mutant: the burned nonces are not consulted. *)
RedeemableAgain(n, c) ==
  tokens[n].gen = key /\ now <= tokens[n].exp /\ tokens[n].call = c

(* ApprovalService.redeem accepts token n for call c.                      *)
Redeemable(n, c) ==
  /\ tokens[n].gen = key
  /\ now <= tokens[n].exp
  /\ tokens[n].call = c
  /\ n \notin used

(* The gateway approves on the policy's behalf, never a destructive call.  *)
SelfApproves(c, t) ==
  /\ t = None
  /\ Ruling[c] = "auto_approve" /\ Needs[c]
  /\ Risk[c] # "destructive"

(* PolicyEngine.decide allows the call.                                    *)
Admissible(c, t) ==
  /\ c \in allow[Session[c]]
  /\ Ruling[c] # "deny"
  /\ ~Needs[c] \/ SelfApproves(c, t) \/ (t # None /\ Redeemable(t, c))

(* The token n an admissible call burns (None: it needs none).             *)
Burn(c, t, n) ==
  \/ /\ ~Needs[c] /\ n = None
     /\ UNCHANGED <<tokens, used>>
  \/ /\ Needs[c] /\ t # None /\ n = t
     /\ used' = used \cup {t}
     /\ UNCHANGED tokens
  \/ /\ SelfApproves(c, t) /\ Fresh # {} /\ n = NewNonce
     /\ tokens' = [tokens EXCEPT ![n] = NewToken(c, "policy", None, None)]
     /\ used' = used \cup {n}

(* The call of an unregistered session raises: no audit line.              *)
RefuseUnknown(r, c) ==
  /\ pc[r] = "new" /\ allow[Session[c]] = None
  /\ pc' = [pc EXCEPT ![r] = "done"]
  /\ UNCHANGED <<allow, bucket, db, tokenVars, previewVars>>
  /\ UNCHANGED <<call, grant, base, check, audit, reached, own, dirty, wire>>

(* Denied by the allowlist, a rule, or for want of a valid token.          *)
Refuse(r, c, t) ==
  /\ pc[r] = "new" /\ allow[Session[c]] # None
  /\ ~Admissible(c, t)
  /\ pc' = [pc EXCEPT ![r] = "done"]
  /\ audit' = [audit EXCEPT ![r] = @ + 1]
  /\ UNCHANGED <<allow, bucket, db, tokenVars, previewVars>>
  /\ UNCHANGED <<call, grant, base, check, reached, own, dirty, wire>>

(* The rate limiter is asked after the token was burned.                   *)
Throttle(r, c, t) ==
  /\ pc[r] = "new" /\ allow[Session[c]] # None
  /\ Admissible(c, t) /\ bucket[Tool[c]] = 0
  /\ \E n \in Nonces \cup {None} : Burn(c, t, n)
  /\ pc' = [pc EXCEPT ![r] = "done"]
  /\ audit' = [audit EXCEPT ![r] = @ + 1]
  /\ UNCHANGED <<allow, bucket, db, key, now, previewVars>>
  /\ UNCHANGED <<call, grant, base, check, reached, own, dirty, wire>>

(* An admitted call goes upstream at once, or first to its checkpoint when *)
(* a token was redeemed for it.                                            *)
Admit(r, c, t) ==
  /\ pc[r] = "new" /\ allow[Session[c]] # None
  /\ Admissible(c, t) /\ bucket[Tool[c]] > 0
  /\ bucket' = [bucket EXCEPT ![Tool[c]] = @ - 1]
  /\ call' = [call EXCEPT ![r] = c]
  /\ \E n \in Nonces \cup {None} :
       /\ Burn(c, t, n)
       /\ grant' = [grant EXCEPT ![r] = n]
       /\ IF n = None
          THEN /\ pc' = [pc EXCEPT ![r] = "waiting"]
               /\ wire' = wire \cup {r} /\ reached' = reached \cup {r}
          ELSE /\ pc' = [pc EXCEPT ![r] = "checkpoint"]
               /\ UNCHANGED <<wire, reached>>
  /\ UNCHANGED <<allow, db, key, now, previewVars, base, check, audit, own, dirty>>

(* _checkpoint, then the call is sent, whether or not it failed.           *)
Checkpoint(r, ok) ==
  /\ pc[r] = "checkpoint"
  /\ base' = [base EXCEPT ![r] = IF ok THEN db[Session[call[r]]] ELSE None]
  /\ pc' = [pc EXCEPT ![r] = "waiting"]
  /\ wire' = wire \cup {r} /\ reached' = reached \cup {r}
  /\ UNCHANGED <<allow, bucket, db, tokenVars, previewVars>>
  /\ UNCHANGED <<call, grant, check, audit, own, dirty>>

(* The environment server executes a request, perhaps after its client     *)
(* gave up on it; a tool that fails changes nothing.                       *)
Execute(r, ok) ==
  LET c == call[r] s == Session[call[r]] e == Effect(call[r], db[Session[call[r]]])
      others == {q \in Requests \ {r} : /\ pc[q] \in {"waiting", "measure"}
                                        /\ call[q] # None /\ Session[call[q]] = s}
  IN /\ r \in wire
     /\ wire' = wire \ {r}
     /\ IF ok
        THEN /\ db' = [db EXCEPT ![s] = Apply(c, @)]
             /\ own' = IF pc[r] \in {"waiting", "measure"}
                       THEN [own EXCEPT ![r] = e] ELSE own
             /\ dirty' = IF e = NoChange THEN dirty ELSE dirty \cup others
        ELSE UNCHANGED <<db, own, dirty>>
     /\ UNCHANGED <<allow, bucket, tokenVars, previewVars>>
     /\ UNCHANGED <<pc, call, grant, base, check, audit, reached>>

(* What follows the upstream call: an approved call is measured, any other *)
(* is audited and returned.                                                *)
AfterUpstream(r) ==
  /\ IF grant[r] = None
     THEN /\ pc' = [pc EXCEPT ![r] = "done"]
          /\ audit' = [audit EXCEPT ![r] = @ + 1]
     ELSE /\ pc' = [pc EXCEPT ![r] = "measure"]
          /\ UNCHANGED audit
  /\ UNCHANGED <<allow, bucket, db, tokenVars, previewVars>>
  /\ UNCHANGED <<call, grant, base, check, reached, own, dirty>>

Respond(r) == /\ pc[r] = "waiting" /\ r \notin wire
              /\ AfterUpstream(r) /\ UNCHANGED wire

(* UpstreamTimeoutError: the request may be executed later.                *)
TimeOut(r) == /\ pc[r] = "waiting"
              /\ AfterUpstream(r) /\ UNCHANGED wire

(* UpstreamTransportError: the request never arrives.                      *)
LoseRequest(r) == /\ pc[r] = "waiting" /\ r \in wire
                  /\ AfterUpstream(r) /\ wire' = wire \ {r}

Compared(record, actual) == IF record = actual THEN "match" ELSE "preview_mismatch"

(* _check_preview: compare what changed since the checkpoint with the      *)
(* preview the token is bound to; ok: changes_since succeeded.             *)
CheckResult(r, ok) ==
  LET g == tokens[grant[r]] IN
  IF base[r] = None \/ ~ok THEN "check_failed"
  ELSE IF g.preview = None THEN "preview_unavailable"
  ELSE IF ~Known(g.pid) \/ records[g.pid].changes # g.preview THEN "check_failed"
  ELSE Compared(records[g.pid].changes, Diff(base[r], db[Session[call[r]]]))

Measure(r, ok) ==
  /\ pc[r] = "measure"
  /\ check' = [check EXCEPT ![r] = CheckResult(r, ok)]
  /\ base' = [base EXCEPT ![r] = None]
  /\ pc' = [pc EXCEPT ![r] = "done"]
  /\ audit' = [audit EXCEPT ![r] = @ + 1]
  /\ UNCHANGED <<allow, bucket, db, tokenVars, previewVars>>
  /\ UNCHANGED <<call, grant, reached, own, dirty, wire>>

(* The task awaiting call_tool is cancelled (a client disconnects): no     *)
(* handler catches it, and what is on the wire stays there.                *)
Cancel(r) ==
  /\ pc[r] \in Active
  /\ pc' = [pc EXCEPT ![r] = "cancelled"]
  /\ UNCHANGED <<allow, bucket, db, tokenVars, previewVars>>
  /\ UNCHANGED <<call, grant, base, check, audit, reached, own, dirty, wire>>

-----------------------------------------------------------------------------
(* Mutant: the bucket is not capped. *)
RefilledPast(level) == level + Refill

Refilled(level) == IF level + Refill > Capacity THEN Capacity ELSE level + Refill

(* The clock refills the buckets (TokenBucket.try_take does so lazily).    *)
Tick ==
  /\ now < MaxTime
  /\ now' = now + 1
  /\ bucket' = [t \in Tools |-> Refilled(bucket[t])]
  /\ UNCHANGED <<allow, db, key, tokens, used, previewVars, callVars>>

(* The gateway process restarts: everything in memory is lost, and the     *)
(* secret too unless the environment fixes it.                             *)
Restart ==
  /\ FixedSecret \/ key < MaxKeys
  /\ key' = IF FixedSecret THEN key ELSE key + 1
  /\ used' = {} /\ kept' = <<>>
  /\ allow' = [s \in Sessions |-> None]
  /\ bucket' = [t \in Tools |-> Capacity]
  /\ pc' = [r \in Requests |-> IF pc[r] \in Active THEN "cancelled" ELSE pc[r]]
  /\ UNCHANGED <<db, now, tokens, records>>
  /\ UNCHANGED <<call, grant, base, check, audit, reached, own, dirty, wire>>

Next ==
  \/ \E s \in Sessions : Unregister(s) \/ \E A \in Allowlists : Register(s, A)
  \/ \E c \in Calls, p \in PreviewIds, ok \in BOOLEAN : Preview(c, p, ok)
  \/ \E c \in Calls, p \in PreviewIds \cup {None} : IssueApproval(c, p)
  \/ \E r \in Requests, c \in Calls : RefuseUnknown(r, c)
  \/ \E r \in Requests, c \in Calls, t \in HumanTokens \cup {None} :
       Refuse(r, c, t) \/ Throttle(r, c, t) \/ Admit(r, c, t)
  \/ \E r \in Requests, ok \in BOOLEAN :
       Checkpoint(r, ok) \/ Execute(r, ok) \/ Measure(r, ok)
  \/ \E r \in Requests : Respond(r) \/ TimeOut(r) \/ LoseRequest(r) \/ Cancel(r)
  \/ Tick
  \/ Restart

Spec == Init /\ [][Next]_vars

-----------------------------------------------------------------------------
(* Properties *)

(* A token runs one call: no two calls reach the upstream on one grant,    *)
(* however callers race to redeem it and across restarts of the gateway    *)
(* that change the key (ApprovalService.redeem).                           *)
SingleUse ==
  \A q, r \in reached : q # r /\ grant[q] = grant[r] => grant[q] = None

(* What reaches the upstream was approved as it runs: never a call a rule  *)
(* denies; on a token for this very call where one is needed; a            *)
(* destructive call only with a person's token; and where a preview is     *)
(* required, a person's token binds a successful preview of this call      *)
(* (the path from preview through issue_approval and decide).              *)
RunsAsApproved ==
  \A r \in reached :
    /\ Ruling[call[r]] # "deny"
    /\ Needs[call[r]] =>
         /\ grant[r] # None
         /\ tokens[grant[r]].call = call[r]
         /\ Risk[call[r]] = "destructive" => tokens[grant[r]].by = "human"
         /\ Risk[call[r]] \in RequirePreview /\ tokens[grant[r]].by = "human" =>
              LET p == tokens[grant[r]].pid
              IN /\ p # None /\ records[p].ok /\ records[p].call = call[r]
                 /\ records[p].changes = tokens[grant[r]].preview

(* preview_check tells the truth whenever no other call changed the        *)
(* session's database in between: it says match exactly when the rows the  *)
(* call changed are those the approver saw.                                *)
CheckIsSound ==
  \A r \in Requests \ dirty :
    check[r] \in {"match", "preview_mismatch"} =>
      (check[r] = "match" <=> own[r] = tokens[grant[r]].preview)

(* What is told of a call is true: its preview_check, and the audit log,   *)
(* where every call that came back from the upstream has exactly one line  *)
(* and one that was cancelled there has none.                              *)
CallsAreTold ==
  /\ CheckIsSound
  /\ \A r \in reached : audit[r] = IF pc[r] = "done" THEN 1 ELSE 0

(* What is told of a call is true of it: the changes listed in its audit   *)
(* line (CallsAreTold) and its status and error code (ResultIsTold).       *)
AnswersAreTold == \A answer \in Answers, readOnly \in BOOLEAN : ResultIsTold(answer, readOnly)
EndsAreTold == CallsAreTold /\ AnswersAreTold

(* The gateway implements the one-time grant ledger.                       *)
GrantState == [n \in Nonces |->
  IF tokens[n] = None THEN "unissued"
  ELSE IF tokens[n].gen # key THEN "lapsed"
  ELSE IF n \in used THEN "spent"
  ELSE IF now > tokens[n].exp THEN "lapsed"
  ELSE "live"]
Ran == {<<grant[r], r>> : r \in {q \in reached : grant[q] # None}}
Ledger == INSTANCE GrantLedger WITH state <- GrantState, ran <- Ran
LedgerSpec == Ledger!Spec
=============================================================================
