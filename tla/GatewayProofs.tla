--------------------------- MODULE GatewayProofs ---------------------------
(***************************************************************************)
(* Theorems about the gateway for every value of its constants.            *)
(***************************************************************************)
EXTENDS Gateway, SequenceTheorems, TLAPS

(* A request under way has a call, whose session's database its steps      *)
(* read: TypeOK is not inductive without it.                               *)
CallsAreKnown == \A r \in Requests : pc[r] \in Active \/ r \in wire => call[r] # None

(* What a token says of its call is true of the previews and the rules.    *)
TokensAreEarned ==
  /\ used \subseteq {n \in Nonces : tokens[n] # None}
  /\ \A n \in Nonces : tokens[n] # None =>
       /\ tokens[n].gen <= key
       /\ tokens[n].by = "policy" => Risk[tokens[n].call] # "destructive"
       /\ tokens[n].by = "human" /\ Risk[tokens[n].call] \in RequirePreview =>
            tokens[n].pid # None
       /\ tokens[n].pid # None =>
            /\ records[tokens[n].pid] # None
            /\ records[tokens[n].pid].ok
            /\ records[tokens[n].pid].call = tokens[n].call
            /\ records[tokens[n].pid].changes = tokens[n].preview

(* A request holds a token of its own call, and has been admitted under    *)
(* the rules from the moment it has a call.                                *)
CallsAreAdmitted ==
  \A r \in Requests :
    /\ grant[r] # None => tokens[grant[r]] # None /\ tokens[grant[r]].call = call[r]
    /\ pc[r] = "new" => call[r] = None /\ grant[r] = None /\ r \notin reached
    /\ r \in reached \/ grant[r] # None => call[r] # None
    /\ call[r] # None => Ruling[call[r]] # "deny"
    /\ call[r] # None /\ Needs[call[r]] => grant[r] # None
    /\ pc[r] \in {"checkpoint", "measure"} => grant[r] # None
    /\ pc[r] = "checkpoint" => r \notin reached /\ tokens[grant[r]].gen = key

(* Inductive, and implies RunsAsApproved.                                  *)
AdmissionInv == TypeOK /\ CallsAreKnown /\ TokensAreEarned /\ CallsAreAdmitted

(* A token of the current key that a request redeemed is burned, so no     *)
(* other request can redeem it; older keys no longer verify.               *)
GrantsAreBurned ==
  \A r \in Requests :
    grant[r] # None /\ tokens[grant[r]].gen = key => grant[r] \in used

GrantsAreDistinct ==
  \A q, r \in Requests : q # r /\ grant[q] = grant[r] => grant[q] = None

(* Inductive when a restart changes the key, and implies SingleUse.        *)
GrantInv == AdmissionInv /\ GrantsAreBurned /\ GrantsAreDistinct

-----------------------------------------------------------------------------
(* Type correctness *)

LEMMA FreshNonce ==
  ASSUME Fresh # {}
  PROVE  NewNonce \in Nonces /\ tokens[NewNonce] = None
BY DEF Fresh, NewNonce

LEMMA RememberType ==
  ASSUME kept \in Seq(PreviewIds), NEW p \in PreviewIds
  PROVE  Remember(p) \in Seq(PreviewIds)
<1> DEFINE w == Without(kept, p)
<1>1. w \in Seq(PreviewIds)
  <2>1. CASE \E i \in 1..Len(kept) : kept[i] = p
    <3> DEFINE k == CHOOSE i \in 1..Len(kept) : kept[i] = p
    <3>1. Len(kept) \in Nat /\ Len(kept) - 1 \in Nat
      BY <2>1
    <3>2. w = [j \in 1..(Len(kept) - 1) |-> IF j < k THEN kept[j] ELSE kept[j + 1]]
      BY <2>1 DEF Without
    <3>3. \A j \in 1..(Len(kept) - 1) : kept[j] \in PreviewIds /\ kept[j + 1] \in PreviewIds
      BY <3>1
    <3> HIDE DEF k
    <3> QED BY <3>1, <3>2, <3>3, IsASeq
  <2>2. CASE ~\E i \in 1..Len(kept) : kept[i] = p
    BY <2>2 DEF Without
  <2> QED BY <2>1, <2>2
<1> HIDE DEF w
<1>2. Append(w, p) \in Seq(PreviewIds) /\ Append(w, p) # <<>>
  BY <1>1
<1>3. Tail(Append(w, p)) \in Seq(PreviewIds)
  BY <1>2
<1> QED BY <1>2, <1>3 DEF Remember, w

LEMMA EffectType ==
  ASSUME NEW c \in Calls, NEW D \in SUBSET Rows
  PROVE  Effect(c, D) \in Change /\ Apply(c, D) \in SUBSET Rows
BY GatewayAssumption DEF Effect, Apply, Change

LEMMA TokenType ==
  ASSUME TypeOK, NEW c \in Calls, NEW by \in {"human", "policy"},
         NEW p \in PreviewIds \cup {None}, NEW ch \in {None} \cup Change
  PROVE  NewToken(c, by, p, ch) \in Token
BY GatewayAssumption DEF NewToken, Token, TypeOK

LEMMA CheckResultType ==
  ASSUME NEW r \in Requests, NEW ok \in BOOLEAN
  PROVE  CheckResult(r, ok) \in Checks
BY DEF CheckResult, Checks, Compared

LEMMA BurnType ==
  ASSUME TypeOK, NEW c \in Calls, NEW t \in HumanTokens \cup {None},
         NEW n \in Nonces \cup {None}, Burn(c, t, n)
  PROVE  tokens' \in [Nonces -> {None} \cup Token] /\ used' \subseteq Nonces
<1>1. CASE UNCHANGED <<tokens, used>>
  BY <1>1 DEF TypeOK
<1>2. CASE t # None /\ n = t /\ used' = used \cup {t} /\ UNCHANGED tokens
  BY <1>2 DEF TypeOK, HumanTokens
<1>3. CASE /\ Fresh # {} /\ n = NewNonce
           /\ tokens' = [tokens EXCEPT ![n] = NewToken(c, "policy", None, None)]
           /\ used' = used \cup {n}
  <2>1. NewToken(c, "policy", None, None) \in Token
    BY TokenType
  <2> QED BY <1>3, <2>1, FreshNonce DEF TypeOK
<1> QED BY <1>1, <1>2, <1>3 DEF Burn

LEMMA TypeStep == TypeOK /\ CallsAreKnown /\ [Next]_vars => TypeOK'
<1> SUFFICES ASSUME TypeOK, CallsAreKnown, [Next]_vars PROVE TypeOK'
  OBVIOUS
<1> USE DEF vars, tokenVars, previewVars, callVars
<1>1. ASSUME NEW s \in Sessions, Unregister(s) PROVE TypeOK'
  BY <1>1 DEF Unregister, TypeOK
<1>2. ASSUME NEW s \in Sessions, NEW A \in Allowlists, Register(s, A) PROVE TypeOK'
  BY <1>2, GatewayAssumption DEF Register, TypeOK
<1>3. ASSUME NEW c \in Calls, NEW p \in PreviewIds, NEW ok \in BOOLEAN, Preview(c, p, ok)
      PROVE  TypeOK'
  <2>1. kept' \in Seq(PreviewIds)
    BY <1>3, RememberType DEF Preview, TypeOK
  <2>2. Effect(c, db[Session[c]]) \in Change
    BY EffectType, GatewayAssumption DEF TypeOK
  <2>3. records' \in [PreviewIds -> {None} \cup Record]
    BY <1>3, <2>2 DEF Preview, TypeOK, Record
  <2> QED BY <1>3, <2>1, <2>3 DEF Preview, TypeOK
<1>4. ASSUME NEW c \in Calls, NEW p \in PreviewIds \cup {None}, IssueApproval(c, p)
      PROVE  TypeOK'
  <2>1. /\ tokens' \in [Nonces -> {None} \cup Token]
        /\ kept' \in Seq(PreviewIds)
    <3>0. NewNonce \in Nonces
      BY <1>4, FreshNonce DEF IssueApproval
    <3>1. CASE Approvable(c, p)
      <4>1. p \in PreviewIds /\ records[p] \in Record
        BY <3>1 DEF Approvable, Verified, TypeOK
      <4>2. NewToken(c, "human", p, records[p].changes) \in Token
        BY <4>1, TokenType DEF Record
      <4>3. kept' \in Seq(PreviewIds)
        BY <1>4, <3>1, <4>1, RememberType DEF IssueApproval, TypeOK
      <4>4. tokens' = [tokens EXCEPT ![NewNonce] = NewToken(c, "human", p, records[p].changes)]
        BY <1>4, <3>1 DEF IssueApproval
      <4> QED BY <3>0, <4>2, <4>3, <4>4 DEF TypeOK
    <3>2. CASE ~Approvable(c, p)
      <4>1. NewToken(c, "human", None, None) \in Token
        BY TokenType
      <4>2. /\ tokens' = [tokens EXCEPT ![NewNonce] = NewToken(c, "human", None, None)]
            /\ kept' = kept
        BY <1>4, <3>2 DEF IssueApproval
      <4> QED BY <3>0, <4>1, <4>2 DEF TypeOK
    <3> QED BY <3>1, <3>2
  <2> QED BY <1>4, <2>1 DEF IssueApproval, TypeOK
<1>5. ASSUME NEW r \in Requests, NEW c \in Calls, RefuseUnknown(r, c) PROVE TypeOK'
  BY <1>5 DEF RefuseUnknown, TypeOK, PCs
<1>6. ASSUME NEW r \in Requests, NEW c \in Calls, NEW t \in HumanTokens \cup {None},
             Refuse(r, c, t) \/ Throttle(r, c, t) \/ Admit(r, c, t)
      PROVE  TypeOK'
  <2>1. CASE Refuse(r, c, t)
    BY <2>1 DEF Refuse, TypeOK, PCs
  <2>2. CASE Throttle(r, c, t)
    <3>1. PICK n \in Nonces \cup {None} : Burn(c, t, n)
      BY <2>2 DEF Throttle
    <3>2. tokens' \in [Nonces -> {None} \cup Token] /\ used' \subseteq Nonces
      BY <3>1, BurnType
    <3> QED BY <2>2, <3>2 DEF Throttle, TypeOK, PCs
  <2>3. CASE Admit(r, c, t)
    <3>1. PICK n \in Nonces \cup {None} :
            /\ Burn(c, t, n)
            /\ grant' = [grant EXCEPT ![r] = n]
            /\ IF n = None
               THEN /\ pc' = [pc EXCEPT ![r] = "waiting"]
                    /\ wire' = wire \cup {r} /\ reached' = reached \cup {r}
               ELSE /\ pc' = [pc EXCEPT ![r] = "checkpoint"]
                    /\ UNCHANGED <<wire, reached>>
      BY <2>3 DEF Admit
    <3>2. tokens' \in [Nonces -> {None} \cup Token] /\ used' \subseteq Nonces
      BY <3>1, BurnType
    <3>3. bucket' \in [Tools -> 0..Capacity] /\ call' \in [Requests -> {None} \cup Calls]
      BY <2>3, GatewayAssumption DEF Admit, TypeOK
    <3>4. /\ grant' \in [Requests -> Nonces \cup {None}] /\ pc' \in [Requests -> PCs]
          /\ wire' \subseteq Requests /\ reached' \subseteq Requests
      BY <3>1 DEF TypeOK, PCs
    <3> QED BY <2>3, <3>2, <3>3, <3>4 DEF Admit, TypeOK
  <2> QED BY <1>6, <2>1, <2>2, <2>3
<1>7. ASSUME NEW r \in Requests, NEW ok \in BOOLEAN,
             Checkpoint(r, ok) \/ Execute(r, ok) \/ Measure(r, ok)
      PROVE  TypeOK'
  <2>1. CASE Checkpoint(r, ok)
    <3>1. call[r] \in Calls /\ Session[call[r]] \in Sessions
      BY <2>1, GatewayAssumption DEF Checkpoint, CallsAreKnown, Active, TypeOK
    <3>2. base' \in [Requests -> {None} \cup SUBSET Rows]
      BY <2>1, <3>1 DEF Checkpoint, TypeOK
    <3> QED BY <2>1, <3>2 DEF Checkpoint, TypeOK, PCs
  <2>2. CASE Execute(r, ok)
    <3>1. call[r] \in Calls /\ Session[call[r]] \in Sessions
      BY <2>2, GatewayAssumption DEF Execute, CallsAreKnown, TypeOK
    <3>2. /\ Effect(call[r], db[Session[call[r]]]) \in Change
          /\ Apply(call[r], db[Session[call[r]]]) \in SUBSET Rows
      BY <3>1, EffectType DEF TypeOK
    <3>3. /\ db' \in [Sessions -> SUBSET Rows] /\ own' \in [Requests -> Change]
          /\ dirty' \subseteq Requests /\ wire' \subseteq Requests
      BY <2>2, <3>1, <3>2 DEF Execute, TypeOK
    <3> QED BY <2>2, <3>3 DEF Execute, TypeOK
  <2>3. CASE Measure(r, ok)
    <3>1. CheckResult(r, ok) \in Checks
      BY CheckResultType
    <3> QED BY <2>3, <3>1 DEF Measure, TypeOK, PCs
  <2> QED BY <1>7, <2>1, <2>2, <2>3
<1>8. ASSUME NEW r \in Requests, Respond(r) \/ TimeOut(r) \/ LoseRequest(r) \/ Cancel(r)
      PROVE  TypeOK'
  <2>1. ASSUME AfterUpstream(r), wire' \subseteq Requests PROVE TypeOK'
    <3>1. pc' \in [Requests -> PCs] /\ audit' \in [Requests -> Nat]
      <4>1. CASE grant[r] = None
        <5>1. /\ pc' = [pc EXCEPT ![r] = "done"]
              /\ audit' = [audit EXCEPT ![r] = audit[r] + 1]
          BY <2>1, <4>1 DEF AfterUpstream
        <5> QED BY <5>1 DEF TypeOK, PCs
      <4>2. CASE grant[r] # None
        BY <2>1, <4>2 DEF AfterUpstream, TypeOK, PCs
      <4> QED BY <4>1, <4>2
    <3>2. /\ UNCHANGED <<allow, bucket, db, tokenVars, previewVars>>
          /\ UNCHANGED <<call, grant, base, check, reached, own, dirty>>
      BY <2>1 DEF AfterUpstream
    <3> QED BY <2>1, <3>1, <3>2 DEF TypeOK
  <2>2. CASE Respond(r) \/ TimeOut(r) \/ LoseRequest(r)
    BY <2>1, <2>2 DEF Respond, TimeOut, LoseRequest, TypeOK
  <2>3. CASE Cancel(r)
    BY <2>3 DEF Cancel, TypeOK, PCs
  <2> QED BY <1>8, <2>2, <2>3
<1>9. CASE Tick
  <2>1. \A l \in 0..Capacity : Refilled(l) \in 0..Capacity
    BY GatewayAssumption DEF Refilled
  <2>2. bucket' \in [Tools -> 0..Capacity] /\ now' \in Nat
    BY <1>9, <2>1 DEF Tick, TypeOK
  <2> QED BY <1>9, <2>2 DEF Tick, TypeOK
<1>10. CASE Restart
  <2>1. key' \in Nat /\ kept' \in Seq(PreviewIds)
    BY <1>10 DEF Restart, TypeOK
  <2>2. /\ allow' \in [Sessions -> {None} \cup SUBSET Calls]
        /\ bucket' \in [Tools -> 0..Capacity]
        /\ pc' \in [Requests -> PCs]
    BY <1>10, GatewayAssumption DEF Restart, TypeOK, PCs
  <2> QED BY <1>10, <2>1, <2>2 DEF Restart, TypeOK
<1>11. CASE UNCHANGED vars
  BY <1>11 DEF TypeOK
<1> QED BY <1>1, <1>2, <1>3, <1>4, <1>5, <1>6, <1>7, <1>8, <1>9, <1>10, <1>11 DEF Next

LEMMA KnownStep == TypeOK /\ CallsAreKnown /\ [Next]_vars => CallsAreKnown'
<1> SUFFICES ASSUME TypeOK, CallsAreKnown, [Next]_vars PROVE CallsAreKnown'
  OBVIOUS
<1> USE DEF vars, tokenVars, previewVars, callVars
<1>1. ASSUME UNCHANGED call, wire' \subseteq wire,
             \A r \in Requests : pc'[r] \in Active => pc[r] \in Active
      PROVE  CallsAreKnown'
  BY <1>1 DEF CallsAreKnown
<1>2. ASSUME NEW r \in Requests, NEW c \in Calls, NEW t \in HumanTokens \cup {None},
             Admit(r, c, t)
      PROVE  CallsAreKnown'
  <2>1. /\ call' = [call EXCEPT ![r] = c] /\ wire' \subseteq wire \cup {r}
        /\ \A q \in Requests : q # r => pc'[q] = pc[q]
    BY <1>2 DEF Admit, TypeOK
  <2> QED BY <2>1, GatewayAssumption DEF CallsAreKnown, TypeOK
<1>3. ASSUME NEW r \in Requests, NEW ok \in BOOLEAN, Checkpoint(r, ok)
      PROVE  CallsAreKnown'
  BY <1>3 DEF Checkpoint, CallsAreKnown, Active, TypeOK
<1>4. ASSUME NEW s \in Sessions, Unregister(s) \/ \E A \in Allowlists : Register(s, A)
      PROVE  CallsAreKnown'
  BY <1>1, <1>4 DEF Unregister, Register
<1>5. ASSUME NEW c \in Calls, NEW p \in PreviewIds \cup {None},
             IssueApproval(c, p) \/ \E ok \in BOOLEAN : Preview(c, p, ok)
      PROVE  CallsAreKnown'
  BY <1>1, <1>5 DEF Preview, IssueApproval
<1>6. ASSUME NEW r \in Requests, NEW c \in Calls,
             \/ RefuseUnknown(r, c)
             \/ \E t \in HumanTokens \cup {None} : Refuse(r, c, t) \/ Throttle(r, c, t)
      PROVE  CallsAreKnown'
  BY <1>1, <1>6 DEF RefuseUnknown, Refuse, Throttle, Active, TypeOK
<1>7. ASSUME NEW r \in Requests, NEW ok \in BOOLEAN, Execute(r, ok) \/ Measure(r, ok)
      PROVE  CallsAreKnown'
  BY <1>1, <1>7 DEF Execute, Measure, Active, TypeOK
<1>8. ASSUME NEW r \in Requests, Respond(r) \/ TimeOut(r) \/ LoseRequest(r) \/ Cancel(r)
      PROVE  CallsAreKnown'
  BY <1>1, <1>8 DEF Respond, TimeOut, LoseRequest, Cancel, AfterUpstream, Active, TypeOK
<1>9. CASE Tick \/ Restart \/ UNCHANGED vars
  BY <1>1, <1>9 DEF Tick, Restart, Active
<1> QED BY <1>2, <1>3, <1>4, <1>5, <1>6, <1>7, <1>8, <1>9 DEF Next

(* Every variable keeps its type: no request's steps ever read the         *)
(* database, the token or the record of a request that has none.           *)
THEOREM TypeCorrect == Spec => []TypeOK
<1>1. Init => TypeOK /\ CallsAreKnown
  BY GatewayAssumption DEF Init, TypeOK, CallsAreKnown, PCs, Active, Change, NoChange
<1>2. TypeOK /\ CallsAreKnown /\ [Next]_vars => (TypeOK /\ CallsAreKnown)'
  BY TypeStep, KnownStep
<1> QED BY <1>1, <1>2, PTL DEF Spec

-----------------------------------------------------------------------------
(* Admission *)

(* The actions that redeem no token and let no request begin.              *)
Quiet ==
  /\ UNCHANGED <<tokens, used, key, records, grant, call, reached>>
  /\ now' \in {now, now + 1}
  /\ \A r \in Requests : \/ pc'[r] = pc[r]
                         \/ pc'[r] \in {"done", "cancelled"}
                         \/ pc'[r] = "measure" /\ grant[r] # None

LEMMA QuietSteps ==
  ASSUME TypeOK
  PROVE  /\ \A s \in Sessions : Unregister(s) => Quiet
         /\ \A s \in Sessions, A \in Allowlists : Register(s, A) => Quiet
         /\ \A r \in Requests, c \in Calls : RefuseUnknown(r, c) => Quiet
         /\ \A r \in Requests, c \in Calls, t \in HumanTokens \cup {None} :
              Refuse(r, c, t) => Quiet
         /\ \A r \in Requests :
              Respond(r) \/ TimeOut(r) \/ LoseRequest(r) \/ Cancel(r) => Quiet
         /\ \A r \in Requests, ok \in BOOLEAN : Execute(r, ok) \/ Measure(r, ok) => Quiet
         /\ Tick \/ UNCHANGED vars => Quiet
<1> USE DEF Quiet, vars, tokenVars, previewVars, callVars
<1>1. \A s \in Sessions : Unregister(s) => Quiet
  BY DEF Unregister
<1>2. \A s \in Sessions, A \in Allowlists : Register(s, A) => Quiet
  BY DEF Register
<1>3. \A r \in Requests, c \in Calls : RefuseUnknown(r, c) => Quiet
  BY DEF RefuseUnknown, TypeOK
<1>4. \A r \in Requests, c \in Calls, t \in HumanTokens \cup {None} : Refuse(r, c, t) => Quiet
  BY DEF Refuse, TypeOK
<1>5. \A r \in Requests : Respond(r) \/ TimeOut(r) \/ LoseRequest(r) \/ Cancel(r) => Quiet
  BY DEF Respond, TimeOut, LoseRequest, Cancel, AfterUpstream, TypeOK
<1>6. \A r \in Requests, ok \in BOOLEAN : Execute(r, ok) \/ Measure(r, ok) => Quiet
  BY DEF Execute, Measure, TypeOK
<1>7. Tick \/ UNCHANGED vars => Quiet
  BY DEF Tick
<1> QED BY <1>1, <1>2, <1>3, <1>4, <1>5, <1>6, <1>7

LEMMA QuietNext ==
  ASSUME TypeOK, [Next]_vars
  PROVE  \/ Quiet
         \/ \E c \in Calls, p \in PreviewIds, ok \in BOOLEAN : Preview(c, p, ok)
         \/ \E c \in Calls, p \in PreviewIds \cup {None} : IssueApproval(c, p)
         \/ \E r \in Requests, c \in Calls, t \in HumanTokens \cup {None} :
              Throttle(r, c, t) \/ Admit(r, c, t)
         \/ \E r \in Requests, ok \in BOOLEAN : Checkpoint(r, ok)
         \/ Restart
BY QuietSteps DEF Next

LEMMA BurnedTokens ==
  ASSUME TypeOK, TokensAreEarned, NEW c \in Calls, NEW t \in HumanTokens \cup {None},
         NEW n \in Nonces \cup {None}, Burn(c, t, n), UNCHANGED <<key, now, records>>
  PROVE  TokensAreEarned'
<1>1. CASE UNCHANGED tokens /\ used' \subseteq used \cup (HumanTokens \cap {n})
  BY <1>1 DEF TokensAreEarned, HumanTokens
<1>2. CASE /\ SelfApproves(c, t) /\ Fresh # {} /\ n = NewNonce
           /\ tokens' = [tokens EXCEPT ![n] = NewToken(c, "policy", None, None)]
           /\ used' = used \cup {n}
  <2>1. n \in Nonces /\ tokens[n] = None
    BY <1>2, FreshNonce
  <2>2. /\ tokens'[n] = NewToken(c, "policy", None, None)
        /\ \A m \in Nonces : m # n => tokens'[m] = tokens[m]
    BY <1>2, <2>1 DEF TypeOK
  <2>3. /\ tokens'[n].gen = key /\ tokens'[n].call = c
        /\ tokens'[n].by = "policy" /\ tokens'[n].pid = None
    BY <2>2 DEF NewToken
  <2>4. tokens'[n] # None
    BY <2>2, TokenType, NoneIsNoToken
  <2>5. Risk[tokens'[n].call] # "destructive"
    BY <1>2, <2>3 DEF SelfApproves
  <2>6. used' \subseteq {m \in Nonces : tokens'[m] # None}
    BY <1>2, <2>1, <2>2, <2>4 DEF TokensAreEarned
  <2>7. tokens'[n].gen <= key'
    BY <2>3 DEF TypeOK
  <2> QED BY <2>1, <2>2, <2>3, <2>5, <2>6, <2>7 DEF TokensAreEarned
<1> QED BY <1>1, <1>2 DEF Burn

LEMMA TokensStep == AdmissionInv /\ [Next]_vars => TokensAreEarned'
<1> SUFFICES ASSUME AdmissionInv, [Next]_vars PROVE TokensAreEarned'
  OBVIOUS
<1> USE DEF AdmissionInv, vars, tokenVars, previewVars, callVars
<1>1. CASE Quiet
  BY <1>1 DEF Quiet, TokensAreEarned
<1>2. ASSUME NEW c \in Calls, NEW p \in PreviewIds, NEW ok \in BOOLEAN, Preview(c, p, ok)
      PROVE  TokensAreEarned'
  <2>1. /\ records[p] = None /\ UNCHANGED <<key, tokens, used>>
        /\ \A q \in PreviewIds : q # p => records'[q] = records[q]
    BY <1>2 DEF Preview, TypeOK
  <2>2. \A n \in Nonces : tokens[n] # None => tokens[n].pid \in PreviewIds \cup {None}
    BY DEF TypeOK, Token
  <2> QED BY <2>1, <2>2 DEF TokensAreEarned
<1>3. ASSUME NEW c \in Calls, NEW p \in PreviewIds \cup {None}, IssueApproval(c, p)
      PROVE  TokensAreEarned'
  <2>1. NewNonce \in Nonces /\ tokens[NewNonce] = None
    BY <1>3, FreshNonce DEF IssueApproval
  <2>2. UNCHANGED <<key, used, records>>
    BY <1>3 DEF IssueApproval
  <2>3. CASE Approvable(c, p)
    <3>1. tokens' = [tokens EXCEPT ![NewNonce] = NewToken(c, "human", p, records[p].changes)]
      BY <1>3, <2>3 DEF IssueApproval
    <3>2. /\ p # None /\ records[p] # None /\ records[p].ok /\ records[p].call = c
      BY <2>3 DEF Approvable, Verified
    <3>3. /\ tokens'[NewNonce].gen = key /\ tokens'[NewNonce].call = c
          /\ tokens'[NewNonce].by = "human" /\ tokens'[NewNonce].pid = p
          /\ tokens'[NewNonce].preview = records[p].changes
      BY <2>1, <3>1 DEF NewToken, TypeOK
    <3>4. \A m \in Nonces : m # NewNonce => tokens'[m] = tokens[m]
      BY <3>1 DEF TypeOK
    <3> QED BY <2>1, <2>2, <3>2, <3>3, <3>4 DEF TokensAreEarned, TypeOK
  <2>4. CASE ~Approvable(c, p)
    <3>1. /\ tokens' = [tokens EXCEPT ![NewNonce] = NewToken(c, "human", None, None)]
          /\ Risk[c] \notin RequirePreview
      BY <1>3, <2>4 DEF IssueApproval, MayApprove
    <3>2. /\ tokens'[NewNonce].gen = key /\ tokens'[NewNonce].call = c
          /\ tokens'[NewNonce].by = "human" /\ tokens'[NewNonce].pid = None
      BY <2>1, <3>1 DEF NewToken, TypeOK
    <3>3. \A m \in Nonces : m # NewNonce => tokens'[m] = tokens[m]
      BY <3>1 DEF TypeOK
    <3> QED BY <2>1, <2>2, <3>1, <3>2, <3>3 DEF TokensAreEarned, TypeOK
  <2> QED BY <2>3, <2>4
<1>4. ASSUME NEW r \in Requests, NEW c \in Calls, NEW t \in HumanTokens \cup {None},
             Throttle(r, c, t) \/ Admit(r, c, t)
      PROVE  TokensAreEarned'
  BY <1>4, BurnedTokens DEF Throttle, Admit
<1>5. ASSUME NEW r \in Requests, NEW ok \in BOOLEAN, Checkpoint(r, ok)
      PROVE  TokensAreEarned'
  BY <1>5 DEF Checkpoint, TokensAreEarned
<1>6. CASE Restart
  <2>1. UNCHANGED <<tokens, records>> /\ used' = {} /\ key' \in Nat /\ key <= key'
    BY <1>6 DEF Restart, TypeOK
  <2>2. \A n \in Nonces : tokens[n] # None => tokens[n].gen \in Nat
    BY DEF TypeOK, Token
  <2>3. \A n \in Nonces : tokens[n] # None => tokens[n].gen <= key'
    BY <2>1, <2>2 DEF TokensAreEarned, TypeOK
  <2> QED BY <2>1, <2>3 DEF TokensAreEarned
<1> QED BY <1>1, <1>2, <1>3, <1>4, <1>5, <1>6, QuietNext DEF Next

(* A request that burns a token burns one of its own call and of this key. *)
LEMMA BurnsOwnToken ==
  ASSUME TypeOK, NEW c \in Calls, NEW t \in HumanTokens \cup {None}, Admissible(c, t),
         NEW n \in Nonces \cup {None}, Burn(c, t, n)
  PROVE  /\ Needs[c] => n # None
         /\ n # None => /\ tokens'[n] # None /\ tokens'[n].call = c /\ tokens'[n].gen = key
                        /\ n \in used' /\ (n \notin used \/ tokens[n] = None)
         /\ \A m \in Nonces : tokens[m] # None => tokens'[m] = tokens[m]
         /\ used \subseteq used'
<1>1. CASE ~Needs[c] /\ n = None /\ UNCHANGED <<tokens, used>>
  BY <1>1
<1>2. CASE /\ Needs[c] /\ t # None /\ n = t
           /\ used' = used \cup {t} /\ UNCHANGED tokens
  <2>1. Redeemable(t, c)
    BY <1>2 DEF Admissible, SelfApproves
  <2> QED BY <1>2, <2>1 DEF Redeemable, HumanTokens
<1>3. CASE /\ Fresh # {} /\ n = NewNonce
           /\ tokens' = [tokens EXCEPT ![n] = NewToken(c, "policy", None, None)]
           /\ used' = used \cup {n}
  <2>1. n \in Nonces /\ tokens[n] = None
    BY <1>3, FreshNonce
  <2>2. /\ tokens'[n] = NewToken(c, "policy", None, None)
        /\ \A m \in Nonces : m # n => tokens'[m] = tokens[m]
    BY <1>3, <2>1 DEF TypeOK
  <2>3. tokens'[n] # None
    BY <2>2, TokenType, NoneIsNoToken
  <2>4. tokens'[n].call = c /\ tokens'[n].gen = key
    BY <2>2 DEF NewToken
  <2> QED BY <1>3, <2>1, <2>2, <2>3, <2>4, GatewayAssumption
<1> QED BY <1>1, <1>2, <1>3 DEF Burn

LEMMA AdmittedStep == AdmissionInv /\ [Next]_vars => CallsAreAdmitted'
<1> SUFFICES ASSUME AdmissionInv, [Next]_vars PROVE CallsAreAdmitted'
  OBVIOUS
<1> USE DEF AdmissionInv, vars, tokenVars, previewVars, callVars
<1>1. CASE Quiet
  BY <1>1 DEF Quiet, CallsAreAdmitted
<1>2. ASSUME NEW c \in Calls, NEW p \in PreviewIds, NEW ok \in BOOLEAN, Preview(c, p, ok)
      PROVE  CallsAreAdmitted'
  BY <1>2 DEF Preview, CallsAreAdmitted
<1>3. ASSUME UNCHANGED callVars, key' = key,
             \A m \in Nonces : tokens[m] # None => tokens'[m] = tokens[m]
      PROVE  CallsAreAdmitted'
  BY <1>3 DEF CallsAreAdmitted, TypeOK
<1>4. ASSUME NEW c \in Calls, NEW p \in PreviewIds \cup {None}, IssueApproval(c, p)
      PROVE  CallsAreAdmitted'
  <2>1. \A m \in Nonces : tokens[m] # None => tokens'[m] = tokens[m]
    BY <1>4, FreshNonce DEF IssueApproval, TypeOK
  <2> QED BY <1>3, <1>4, <2>1 DEF IssueApproval
<1>5. ASSUME NEW r \in Requests, NEW c \in Calls, NEW t \in HumanTokens \cup {None},
             NEW n \in Nonces \cup {None}, Admissible(c, t), Burn(c, t, n), key' = key
      PROVE  \A q \in Requests : grant[q] # None => tokens'[grant[q]] = tokens[grant[q]]
  BY <1>5, BurnsOwnToken DEF CallsAreAdmitted, TypeOK
<1>6. ASSUME NEW r \in Requests, NEW c \in Calls, NEW t \in HumanTokens \cup {None},
             Throttle(r, c, t)
      PROVE  CallsAreAdmitted'
  <2>1. \A q \in Requests : grant[q] # None => tokens'[grant[q]] = tokens[grant[q]]
    BY <1>5, <1>6 DEF Throttle
  <2>2. /\ UNCHANGED <<key, call, grant, reached>>
        /\ \A q \in Requests : pc'[q] = pc[q] \/ pc'[q] = "done"
    BY <1>6 DEF Throttle, TypeOK
  <2> QED BY <2>1, <2>2 DEF CallsAreAdmitted
<1>7. ASSUME NEW r \in Requests, NEW c \in Calls, NEW t \in HumanTokens \cup {None},
             Admit(r, c, t)
      PROVE  CallsAreAdmitted'
  <2>1. PICK n \in Nonces \cup {None} :
          /\ Burn(c, t, n)
          /\ grant' = [grant EXCEPT ![r] = n]
          /\ IF n = None
             THEN /\ pc' = [pc EXCEPT ![r] = "waiting"]
                  /\ wire' = wire \cup {r} /\ reached' = reached \cup {r}
             ELSE /\ pc' = [pc EXCEPT ![r] = "checkpoint"]
                  /\ UNCHANGED <<wire, reached>>
    BY <1>7 DEF Admit
  <2>2. /\ pc[r] = "new" /\ Admissible(c, t) /\ key' = key
        /\ call' = [call EXCEPT ![r] = c]
    BY <1>7 DEF Admit
  <2>3. \A q \in Requests : grant[q] # None => tokens'[grant[q]] = tokens[grant[q]]
    BY <1>5, <2>1, <2>2
  <2>4. /\ grant'[r] = n /\ call'[r] = c
        /\ \A q \in Requests : q # r => /\ grant'[q] = grant[q] /\ call'[q] = call[q]
                                        /\ pc'[q] = pc[q]
                                        /\ q \in reached' <=> q \in reached
    BY <2>1, <2>2 DEF TypeOK
  <2>5. ASSUME NEW q \in Requests, q # r PROVE CallsAreAdmitted!(q)'
    BY <2>2, <2>3, <2>4, <2>5 DEF CallsAreAdmitted
  <2>6. CallsAreAdmitted!(r)'
    <3>1. /\ Needs[c] => n # None
          /\ n # None => tokens'[n] # None /\ tokens'[n].call = c /\ tokens'[n].gen = key
      BY <2>1, <2>2, BurnsOwnToken
    <3>2. Ruling[c] # "deny" /\ c # None
      BY <2>2, GatewayAssumption DEF Admissible
    <3>3. r \notin reached
      BY <2>2 DEF CallsAreAdmitted
    <3>4. /\ pc'[r] = IF n = None THEN "waiting" ELSE "checkpoint"
          /\ n # None => r \notin reached'
      BY <2>1, <3>3 DEF TypeOK
    <3> QED BY <2>2, <2>4, <3>1, <3>2, <3>4
  <2> QED BY <2>5, <2>6 DEF CallsAreAdmitted
<1>8. ASSUME NEW r \in Requests, NEW ok \in BOOLEAN, Checkpoint(r, ok)
      PROVE  CallsAreAdmitted'
  <2>1. /\ UNCHANGED <<key, tokens, call, grant>> /\ pc[r] = "checkpoint"
        /\ reached' = reached \cup {r} /\ pc' = [pc EXCEPT ![r] = "waiting"]
    BY <1>8 DEF Checkpoint
  <2> QED BY <2>1 DEF CallsAreAdmitted, TypeOK
<1>9. CASE Restart
  <2>1. /\ UNCHANGED <<tokens, call, grant, reached>>
        /\ \A r \in Requests : \/ pc'[r] = "cancelled"
                               \/ pc'[r] = pc[r] /\ pc[r] \notin Active
    BY <1>9 DEF Restart
  <2> QED BY <2>1 DEF CallsAreAdmitted, Active
<1> QED BY <1>1, <1>2, <1>4, <1>6, <1>7, <1>8, <1>9, QuietNext

LEMMA AdmissionInvariant == /\ Init => AdmissionInv
                            /\ AdmissionInv /\ [Next]_vars => AdmissionInv'
<1>1. Init => TypeOK /\ CallsAreKnown
  BY GatewayAssumption DEF Init, TypeOK, CallsAreKnown, PCs, Active, Change, NoChange
<1>2. Init => AdmissionInv
  BY <1>1 DEF Init, AdmissionInv, TokensAreEarned, CallsAreAdmitted
<1>3. AdmissionInv /\ [Next]_vars => AdmissionInv'
  BY TypeStep, KnownStep, TokensStep, AdmittedStep DEF AdmissionInv
<1> QED BY <1>2, <1>3

(* What reaches the upstream was approved as it runs, whatever the rules,  *)
(* the levels that need approval or a preview, and however many requests,  *)
(* tokens and restarts there are (preview, issue_approval, decide).        *)
THEOREM RunsOnlyAsApproved == Spec => []RunsAsApproved
<1>1. AdmissionInv => RunsAsApproved
  <2> SUFFICES ASSUME AdmissionInv, NEW r \in reached PROVE RunsAsApproved!(r)
    BY DEF RunsAsApproved
  <2> DEFINE g == grant[r]
  <2>1. /\ r \in Requests /\ call[r] # None /\ Ruling[call[r]] # "deny"
        /\ Needs[call[r]] => g # None
        /\ g # None => tokens[g] # None /\ tokens[g].call = call[r]
    BY DEF AdmissionInv, CallsAreAdmitted, TypeOK
  <2>2. ASSUME g # None
        PROVE  /\ g \in Nonces /\ tokens[g] # None /\ tokens[g].call = call[r]
               /\ tokens[g].by \in {"human", "policy"}
    BY <2>1, <2>2 DEF AdmissionInv, TypeOK, Token
  <2> QED BY <2>1, <2>2 DEF AdmissionInv, TokensAreEarned
<1> QED BY <1>1, AdmissionInvariant, PTL DEF Spec

-----------------------------------------------------------------------------
(* One use *)

LEMMA GrantStep ==
  ASSUME ~FixedSecret, GrantInv, [Next]_vars
  PROVE  GrantsAreBurned' /\ GrantsAreDistinct'
<1> USE DEF vars, tokenVars, previewVars, callVars
<1>0. AdmissionInv /\ TypeOK /\ CallsAreAdmitted /\ TokensAreEarned
  BY DEF GrantInv, AdmissionInv
<1>1. ASSUME UNCHANGED <<key, grant>>, used \subseteq used',
             \A m \in Nonces : tokens[m] # None => tokens'[m] = tokens[m]
      PROVE  GrantsAreBurned' /\ GrantsAreDistinct'
  BY <1>0, <1>1 DEF GrantInv, GrantsAreBurned, GrantsAreDistinct, CallsAreAdmitted, TypeOK
<1>2. CASE Quiet
  BY <1>1, <1>2 DEF Quiet
<1>3. ASSUME NEW c \in Calls, NEW p \in PreviewIds, NEW ok \in BOOLEAN, Preview(c, p, ok)
      PROVE  GrantsAreBurned' /\ GrantsAreDistinct'
  BY <1>1, <1>3 DEF Preview
<1>4. ASSUME NEW c \in Calls, NEW p \in PreviewIds \cup {None}, IssueApproval(c, p)
      PROVE  GrantsAreBurned' /\ GrantsAreDistinct'
  <2>1. \A m \in Nonces : tokens[m] # None => tokens'[m] = tokens[m]
    BY <1>0, <1>4, FreshNonce DEF IssueApproval, TypeOK
  <2> QED BY <1>1, <1>4, <2>1 DEF IssueApproval
<1>5. ASSUME NEW r \in Requests, NEW c \in Calls, NEW t \in HumanTokens \cup {None},
             Throttle(r, c, t)
      PROVE  GrantsAreBurned' /\ GrantsAreDistinct'
  <2>1. \A m \in Nonces : tokens[m] # None => tokens'[m] = tokens[m]
    BY <1>0, <1>5, BurnsOwnToken DEF Throttle
  <2>2. used \subseteq used'
    BY <1>0, <1>5, BurnsOwnToken DEF Throttle
  <2> QED BY <1>1, <1>5, <2>1, <2>2 DEF Throttle
<1>6. ASSUME NEW r \in Requests, NEW c \in Calls, NEW t \in HumanTokens \cup {None},
             Admit(r, c, t)
      PROVE  GrantsAreBurned' /\ GrantsAreDistinct'
  <2>1. PICK n \in Nonces \cup {None} : Burn(c, t, n) /\ grant' = [grant EXCEPT ![r] = n]
    BY <1>6 DEF Admit
  <2>2. /\ Admissible(c, t) /\ key' = key
        /\ grant'[r] = n /\ \A q \in Requests : q # r => grant'[q] = grant[q]
    BY <1>0, <1>6, <2>1 DEF Admit, TypeOK
  <2>3. /\ n # None => n \in used' /\ tokens'[n].gen = key
        /\ \A m \in Nonces : tokens[m] # None => tokens'[m] = tokens[m]
        /\ used \subseteq used'
    BY <1>0, <2>1, <2>2, BurnsOwnToken
  <2>4. GrantsAreBurned'
    <3>1. SUFFICES ASSUME NEW q \in Requests,
                          grant'[q] # None, tokens'[grant'[q]].gen = key'
                   PROVE  grant'[q] \in used'
      BY DEF GrantsAreBurned
    <3>2. CASE q = r
      BY <2>2, <2>3, <3>1, <3>2
    <3>3. CASE q # r
      <4>0. GrantsAreBurned
        BY DEF GrantInv
      <4>1. grant[q] # None /\ grant[q] \in Nonces /\ grant'[q] = grant[q]
        BY <1>0, <2>2, <3>1, <3>3 DEF TypeOK
      <4>2. tokens'[grant[q]] = tokens[grant[q]]
        BY <1>0, <2>3, <4>1 DEF CallsAreAdmitted
      <4>3. grant[q] \in used
        BY <4>0, <2>2, <3>1, <4>1, <4>2 DEF GrantsAreBurned
      <4> QED BY <2>3, <4>1, <4>3
    <3> QED BY <3>2, <3>3
  <2>5. ASSUME n # None, NEW q \in Requests PROVE grant[q] # n
    <3>1. n \notin used \/ tokens[n] = None
      BY <1>0, <2>1, <2>2, <2>5, BurnsOwnToken
    <3>2. tokens[n] # None => tokens[n].gen = key
      BY <2>3, <2>5
    <3> QED BY <1>0, <2>5, <3>1, <3>2 DEF GrantInv, GrantsAreBurned, CallsAreAdmitted
  <2>6. GrantsAreDistinct'
    BY <2>2, <2>5 DEF GrantInv, GrantsAreDistinct
  <2> QED BY <2>4, <2>6
<1>7. ASSUME NEW r \in Requests, NEW ok \in BOOLEAN, Checkpoint(r, ok)
      PROVE  GrantsAreBurned' /\ GrantsAreDistinct'
  BY <1>1, <1>7 DEF Checkpoint
<1>8. CASE Restart
  <2>1. UNCHANGED <<tokens, grant>> /\ key' = key + 1
    BY <1>8 DEF Restart
  <2>2. \A n \in Nonces : tokens[n] # None => tokens[n].gen # key'
    BY <1>0, <2>1 DEF TokensAreEarned, TypeOK, Token
  <2>3. GrantsAreBurned'
    BY <1>0, <2>1, <2>2 DEF GrantsAreBurned, CallsAreAdmitted, TypeOK
  <2> QED BY <2>1, <2>3 DEF GrantInv, GrantsAreDistinct
<1> QED BY <1>0, <1>2, <1>3, <1>4, <1>5, <1>6, <1>7, <1>8, QuietNext

LEMMA GrantInvariant ==
  ASSUME ~FixedSecret
  PROVE  /\ Init => GrantInv
         /\ GrantInv /\ [Next]_vars => GrantInv'
<1>1. Init => GrantInv
  BY AdmissionInvariant DEF GrantInv, Init, GrantsAreBurned, GrantsAreDistinct
<1>2. GrantInv /\ [Next]_vars => GrantInv'
  BY AdmissionInvariant, GrantStep DEF GrantInv
<1> QED BY <1>1, <1>2

(* A token runs at most one call, for any number of concurrent callers,    *)
(* when a restart changes the signing secret; with a fixed secret it does  *)
(* not hold (ApprovalService.redeem keeps the used nonces in memory).      *)
THEOREM TokensRunOnce ==
  ASSUME ~FixedSecret
  PROVE  Spec => []SingleUse
<1>1. GrantInv => SingleUse
  BY DEF GrantInv, AdmissionInv, TypeOK, GrantsAreDistinct, SingleUse
<1>2. ~FixedSecret /\ Init => GrantInv
  BY GrantInvariant
<1>3. GrantInv /\ [Next]_vars => GrantInv'
  BY GrantInvariant
<1> QED BY <1>1, <1>2, <1>3, PTL DEF Spec

-----------------------------------------------------------------------------
(* Refinement *)

LEMMA StateCases ==
  ASSUME TypeOK, NEW n \in Nonces
  PROVE  /\ tokens[n] = None => GrantState[n] = "unissued"
         /\ tokens[n] # None =>
              /\ tokens[n].gen # key => GrantState[n] = "lapsed"
              /\ tokens[n].gen = key /\ n \in used => GrantState[n] = "spent"
              /\ tokens[n].gen = key /\ n \notin used /\ now > tokens[n].exp
                   => GrantState[n] = "lapsed"
              /\ tokens[n].gen = key /\ n \notin used /\ now <= tokens[n].exp
                   => GrantState[n] = "live"
BY DEF GrantState, TypeOK, Token

(* The clock and a restart only lapse grants that were issued.             *)
LEMMA LapseStep ==
  ASSUME TypeOK, TypeOK', UNCHANGED <<tokens, grant, reached>>,
         \/ UNCHANGED <<key, used>> /\ now <= now'
         \/ \A n \in Nonces : tokens[n] # None => tokens[n].gen # key'
  PROVE  Ledger!Next
<1> DEFINE S == {n \in Nonces : tokens[n] # None /\ GrantState'[n] = "lapsed"}
<1>1. Ran' = Ran
  BY DEF Ran
<1>2. \A n \in S : GrantState[n] # "unissued"
  BY DEF GrantState, TypeOK
<1>3. ASSUME NEW n \in Nonces
      PROVE  GrantState'[n] = IF n \in S THEN "lapsed" ELSE GrantState[n]
  <2>1. CASE tokens[n] = None
    BY <2>1 DEF GrantState
  <2>2. CASE tokens[n] # None /\ UNCHANGED <<key, used>> /\ now <= now'
    <3>1. tokens[n].exp \in Nat /\ now \in Nat /\ now' \in Nat
      BY <2>2 DEF TypeOK, Token
    <3> QED BY <2>2, <3>1 DEF GrantState
  <2>3. CASE tokens[n] # None /\ tokens[n].gen # key'
    BY <2>3 DEF GrantState
  <2> QED BY <2>1, <2>2, <2>3
<1>4. GrantState' = [n \in Nonces |-> IF n \in S THEN "lapsed" ELSE GrantState[n]]
  BY <1>3 DEF GrantState
<1>5. Ledger!Lapse(S)
  BY <1>1, <1>2, <1>4 DEF Ledger!Lapse
<1> QED BY <1>5 DEF Ledger!Next

(* Issuing or redeeming a token changes the state of that grant alone.     *)
LEMMA GrantStateUpdate ==
  ASSUME TypeOK, UNCHANGED <<key, now>>, NEW n \in Nonces, NEW st,
         \A m \in Nonces \ {n} : tokens'[m] = tokens[m] /\ (m \in used' <=> m \in used),
         GrantState'[n] = st
  PROVE  GrantState' = [GrantState EXCEPT ![n] = st]
<1>1. \A m \in Nonces \ {n} : GrantState'[m] = GrantState[m]
  BY DEF GrantState
<1>2. /\ GrantState = [m \in Nonces |-> GrantState[m]]
      /\ GrantState' = [m \in Nonces |-> GrantState'[m]]
  BY DEF GrantState
<1> QED BY <1>1, <1>2

LEMMA SpendStep ==
  ASSUME TypeOK, NEW c \in Calls, NEW t \in HumanTokens \cup {None}, Admissible(c, t),
         NEW n \in Nonces \cup {None}, Burn(c, t, n), UNCHANGED <<key, now>>, Ran' = Ran
  PROVE  [Ledger!Next]_(Ledger!vars)
<1>1. CASE UNCHANGED <<tokens, used>>
  BY <1>1 DEF Ledger!vars, GrantState
<1>2. CASE ~UNCHANGED <<tokens, used>>
  <2>1. n # None /\ n \in Nonces
    BY <1>2, FreshNonce, GatewayAssumption DEF Burn, HumanTokens
  <2>2. \A m \in Nonces \ {n} : tokens'[m] = tokens[m] /\ (m \in used' <=> m \in used)
    BY DEF Burn, TypeOK
  <2>3. tokens'[n] # None /\ tokens'[n].gen = key /\ n \in used'
    BY <2>1, BurnsOwnToken
  <2>4. GrantState'[n] = "spent"
    BY <2>1, <2>3 DEF GrantState
  <2>5. GrantState[n] \in {"live", "unissued"}
    <3>1. CASE t # None /\ n = t /\ Needs[c]
      <4>1. Redeemable(n, c)
        BY <3>1 DEF Admissible, SelfApproves
      <4>2. tokens[n] # None
        BY <3>1 DEF HumanTokens
      <4> QED BY <2>1, <4>1, <4>2, StateCases DEF Redeemable
    <3>2. CASE Fresh # {} /\ n = NewNonce
      BY <3>2, <2>1, FreshNonce, StateCases
    <3> QED BY <2>1, <3>1, <3>2 DEF Burn
  <2>6. GrantState' = [GrantState EXCEPT ![n] = "spent"]
    BY <2>1, <2>2, <2>4, GrantStateUpdate
  <2>7. Ledger!Spend(n)
    BY <2>5, <2>6 DEF Ledger!Spend
  <2> QED BY <2>1, <2>7 DEF Ledger!Next
<1> QED BY <1>1, <1>2

LEMMA LedgerStep ==
  ASSUME ~FixedSecret, GrantInv, [Next]_vars
  PROVE  [Ledger!Next]_(Ledger!vars)
<1> USE DEF vars, tokenVars, previewVars, callVars
<1>0. /\ AdmissionInv /\ TypeOK /\ CallsAreAdmitted /\ TokensAreEarned /\ TypeOK'
      /\ GrantsAreDistinct /\ GrantsAreBurned
  BY AdmissionInvariant DEF GrantInv, AdmissionInv
<1>1. CASE Quiet
  <2>1. now <= now'
    BY <1>0, <1>1 DEF Quiet, TypeOK
  <2> QED BY <1>0, <1>1, <2>1, LapseStep DEF Quiet
<1>2. ASSUME NEW c \in Calls, NEW p \in PreviewIds, NEW ok \in BOOLEAN, Preview(c, p, ok)
      PROVE  [Ledger!Next]_(Ledger!vars)
  BY <1>2 DEF Preview, Ledger!vars, GrantState, Ran
<1>3. ASSUME NEW c \in Calls, NEW p \in PreviewIds \cup {None}, IssueApproval(c, p)
      PROVE  [Ledger!Next]_(Ledger!vars)
  <2> DEFINE n == NewNonce
  <2>1. /\ n \in Nonces /\ tokens[n] = None
        /\ UNCHANGED <<key, now, used, grant, reached>>
    BY <1>3, FreshNonce DEF IssueApproval
  <2>2. PICK q \in PreviewIds \cup {None}, ch \in {None} \cup Change :
          tokens' = [tokens EXCEPT ![n] = NewToken(c, "human", q, ch)]
    BY <1>0, <1>3 DEF IssueApproval, Approvable, Verified, TypeOK, Record
  <2>3. /\ tokens'[n] = NewToken(c, "human", q, ch)
        /\ \A m \in Nonces \ {n} : tokens'[m] = tokens[m]
    BY <1>0, <2>1, <2>2 DEF TypeOK
  <2>4. tokens'[n] # None /\ tokens'[n].gen = key /\ tokens'[n].exp = now + TTL
    <3>1. NewToken(c, "human", q, ch) # None
      BY <1>0, TokenType, NoneIsNoToken
    <3> QED BY <2>3, <3>1 DEF NewToken
  <2>5. n \notin used /\ GrantState[n] = "unissued"
    BY <1>0, <2>1, StateCases DEF TokensAreEarned
  <2>6. GrantState'[n] = "live"
    <3>1. now <= now + TTL
      BY <1>0, GatewayAssumption DEF TypeOK
    <3>2. ~(now > now + TTL)
      BY <1>0, GatewayAssumption DEF TypeOK
    <3> QED BY <2>1, <2>4, <2>5, <3>2 DEF GrantState
  <2>7. GrantState' = [GrantState EXCEPT ![n] = "live"]
    BY <1>0, <2>1, <2>3, <2>6, GrantStateUpdate
  <2>8. Ledger!Issue(n)
    BY <2>1, <2>5, <2>7 DEF Ledger!Issue, Ran
  <2> QED BY <2>1, <2>8 DEF Ledger!Next
<1>4. ASSUME NEW r \in Requests, NEW c \in Calls, NEW t \in HumanTokens \cup {None},
             Throttle(r, c, t)
      PROVE  [Ledger!Next]_(Ledger!vars)
  <2>1. Ran' = Ran
    BY <1>4 DEF Throttle, Ran
  <2> QED BY <1>0, <1>4, <2>1, SpendStep DEF Throttle
<1>5. ASSUME NEW r \in Requests, NEW c \in Calls, NEW t \in HumanTokens \cup {None},
             Admit(r, c, t)
      PROVE  [Ledger!Next]_(Ledger!vars)
  <2>1. PICK n \in Nonces \cup {None} :
          /\ Burn(c, t, n)
          /\ grant' = [grant EXCEPT ![r] = n]
          /\ reached' = IF n = None THEN reached \cup {r} ELSE reached
    BY <1>5 DEF Admit
  <2>2. Admissible(c, t) /\ UNCHANGED <<key, now>> /\ r \notin reached
    BY <1>0, <1>5 DEF Admit, CallsAreAdmitted
  <2>3. Ran' = Ran
    <3>1. \A q \in Requests : q # r => grant'[q] = grant[q]
      BY <1>0, <2>1 DEF TypeOK
    <3>2. \A q \in Requests : q \in reached' /\ grant'[q] # None <=> q \in reached /\ grant[q] # None
      BY <1>0, <2>1, <2>2, <3>1 DEF TypeOK
    <3>3. reached \subseteq Requests /\ reached' \subseteq Requests
      BY <1>0 DEF TypeOK
    <3> QED BY <2>2, <3>1, <3>2, <3>3 DEF Ran
  <2> QED BY <1>0, <2>1, <2>2, <2>3, SpendStep
<1>6. ASSUME NEW r \in Requests, NEW ok \in BOOLEAN, Checkpoint(r, ok)
      PROVE  [Ledger!Next]_(Ledger!vars)
  <2> DEFINE n == grant[r]
  <2>1. /\ pc[r] = "checkpoint" /\ reached' = reached \cup {r}
        /\ UNCHANGED <<key, now, tokens, used, grant>>
    BY <1>6 DEF Checkpoint
  <2>2. n # None /\ n \in Nonces /\ n \in used /\ tokens[n] # None /\ tokens[n].gen = key
        /\ r \notin reached
    BY <1>0, <2>1 DEF CallsAreAdmitted, GrantsAreBurned, TypeOK
  <2>3. GrantState[n] = "spent" /\ GrantState' = GrantState
    BY <1>0, <2>1, <2>2, StateCases DEF GrantState
  <2>4. Ran' = Ran \cup {<<n, r>>}
    BY <2>1, <2>2 DEF Ran
  <2>5. \A q \in Requests : <<n, q>> \notin Ran
    BY <1>0, <2>2 DEF Ran, GrantsAreDistinct, TypeOK
  <2>6. Ledger!Run(n, r)
    BY <2>3, <2>4, <2>5 DEF Ledger!Run
  <2> QED BY <2>2, <2>6 DEF Ledger!Next
<1>7. CASE Restart
  <2>1. UNCHANGED <<tokens, grant, reached>> /\ key' = key + 1
    BY <1>7 DEF Restart
  <2>2. \A n \in Nonces : tokens[n] # None => tokens[n].gen # key'
    BY <1>0, <2>1 DEF TokensAreEarned, TypeOK, Token
  <2> QED BY <1>0, <2>1, <2>2, LapseStep
<1> QED BY <1>0, <1>1, <1>2, <1>3, <1>4, <1>5, <1>6, <1>7, QuietNext

(* The gateway's tokens are one-time grants: a grant is live only after it *)
(* was issued, spent once, and run by one call at most, between its issue  *)
(* and its expiry or the restart that changes the secret.                  *)
THEOREM ImplementsLedger ==
  ASSUME ~FixedSecret
  PROVE  Spec => LedgerSpec
<1>1. Init => Ledger!Init
  BY DEF Init, Ledger!Init, GrantState, Ran
<1>2. ~FixedSecret /\ Init => GrantInv
  BY GrantInvariant
<1>3. GrantInv /\ [Next]_vars => GrantInv'
  BY GrantInvariant
<1>4. GrantInv /\ [Next]_vars => [Ledger!Next]_(Ledger!vars)
  BY LedgerStep
<1> QED BY <1>1, <1>2, <1>3, <1>4, PTL DEF Spec, LedgerSpec, Ledger!Spec

-----------------------------------------------------------------------------
(* What is told of a call *)

(* Tokens are never altered, so what a preview check was made against      *)
(* stays what it was.                                                      *)
LEMMA TokensLast ==
  ASSUME AdmissionInv, [Next]_vars
  PROVE  \A m \in Nonces : tokens[m] # None => tokens'[m] = tokens[m]
<1> USE DEF AdmissionInv, vars, tokenVars, previewVars, callVars
<1>1. CASE UNCHANGED tokens
  BY <1>1
<1>2. ASSUME NEW c \in Calls, NEW p \in PreviewIds \cup {None}, IssueApproval(c, p)
      PROVE  \A m \in Nonces : tokens[m] # None => tokens'[m] = tokens[m]
  BY <1>2, FreshNonce DEF IssueApproval, TypeOK
<1>3. ASSUME NEW r \in Requests, NEW c \in Calls, NEW t \in HumanTokens \cup {None},
             Throttle(r, c, t) \/ Admit(r, c, t)
      PROVE  \A m \in Nonces : tokens[m] # None => tokens'[m] = tokens[m]
  BY <1>3, BurnsOwnToken DEF Throttle, Admit
<1> QED BY <1>1, <1>2, <1>3, QuietNext DEF Quiet, Preview, Checkpoint, Restart

(* While a call is measured and nobody else changes its session's rows,    *)
(* the rows that differ from its checkpoint are those it changed; each     *)
(* line of the audit log is written when a call ends.                      *)
ToldOf(r) ==
  /\ pc[r] # "done" => audit[r] = 0 /\ check[r] = None
  /\ r \in reached /\ pc[r] = "done" => audit[r] = 1
  /\ r \in wire \/ r \notin reached => own[r] = NoChange
  /\ r \in wire => r \in reached
  /\ check[r] # None => grant[r] # None
  /\ r \notin dirty /\ pc[r] \in {"waiting", "measure"} /\ grant[r] # None /\ base[r] # None =>
       Diff(base[r], db[Session[call[r]]]) = own[r]
  /\ r \notin dirty /\ check[r] \in {"match", "preview_mismatch"} =>
       (check[r] = "match" <=> own[r] = tokens[grant[r]].preview)
Told == \A r \in Requests : ToldOf(r)

(* What a call changes is what the rows differ by afterwards; a call that  *)
(* changes nothing leaves the rows as they are.                            *)
LEMMA EffectIsDiff ==
  ASSUME NEW c \in Calls, NEW D \in SUBSET Rows
  PROVE  /\ Diff(D, Apply(c, D)) = Effect(c, D)
         /\ Effect(c, D) = NoChange => Apply(c, D) = D
         /\ Diff(D, D) = NoChange
<1>1. Apply(c, D) \ D = Adds[c] \ D /\ D \ Apply(c, D) = (Dels[c] \cap D) \ Adds[c]
  BY DEF Apply
<1>2. ASSUME Adds[c] \ D = {}, (Dels[c] \cap D) \ Adds[c] = {}
      PROVE  Apply(c, D) = D
  BY <1>2 DEF Apply
<1> QED BY <1>1, <1>2 DEF Diff, Effect, NoChange

LEMMA NoDiff ==
  ASSUME NEW D, NEW E, Diff(D, E) = NoChange
  PROVE  D = E
<1>1. E \ D = {} /\ D \ E = {}
  BY DEF Diff, NoChange
<1> QED BY <1>1

(* A request that a step leaves alone.                                     *)
LEMMA ToldElsewhere ==
  ASSUME AdmissionInv, NEW r \in Requests, ToldOf(r),
         \A m \in Nonces : tokens[m] # None => tokens'[m] = tokens[m],
         pc'[r] = pc[r], call'[r] = call[r], grant'[r] = grant[r], base'[r] = base[r],
         check'[r] = check[r], audit'[r] = audit[r], own'[r] = own[r],
         r \in wire' <=> r \in wire, r \in reached' <=> r \in reached,
         r \in dirty => r \in dirty',
         r \in dirty' \/ pc[r] \notin {"waiting", "measure"}
           \/ db'[Session[call[r]]] = db[Session[call[r]]]
  PROVE  ToldOf(r)'
<1>1. grant[r] # None => tokens'[grant[r]] = tokens[grant[r]]
  BY DEF AdmissionInv, CallsAreAdmitted, TypeOK
<1> QED BY <1>1, NoneIsNoCheck DEF ToldOf, Checks

LEMMA ToldStep == AdmissionInv /\ Told /\ [Next]_vars => Told'
<1> SUFFICES ASSUME AdmissionInv, Told, [Next]_vars
             PROVE  \A q \in Requests : ToldOf(q)'
  BY DEF Told
<1> USE DEF vars, tokenVars, previewVars, callVars
<1>0. /\ TypeOK /\ CallsAreKnown /\ CallsAreAdmitted
      /\ \A m \in Nonces : tokens[m] # None => tokens'[m] = tokens[m]
      /\ \A q \in Requests : ToldOf(q)
  BY TokensLast DEF AdmissionInv, Told
<1>1. ASSUME UNCHANGED <<db, callVars>>
      PROVE  \A q \in Requests : ToldOf(q)'
  BY <1>0, <1>1, ToldElsewhere
<1>2. CASE \/ \E s \in Sessions : Unregister(s) \/ \E A \in Allowlists : Register(s, A)
           \/ \E c \in Calls, p \in PreviewIds, ok \in BOOLEAN : Preview(c, p, ok)
           \/ \E c \in Calls, p \in PreviewIds \cup {None} : IssueApproval(c, p)
           \/ Tick \/ UNCHANGED vars
  BY <1>1, <1>2 DEF Unregister, Register, Preview, IssueApproval, Tick
(* A step of r leaves the others as they are.                              *)
<1>3. ASSUME NEW r \in Requests, UNCHANGED <<db, dirty>>, ToldOf(r)',
             \A q \in Requests \ {r} :
               /\ pc'[q] = pc[q] /\ call'[q] = call[q] /\ grant'[q] = grant[q] /\ base'[q] = base[q]
               /\ check'[q] = check[q] /\ audit'[q] = audit[q] /\ own'[q] = own[q]
               /\ (q \in wire' <=> q \in wire) /\ (q \in reached' <=> q \in reached)
      PROVE  \A q \in Requests : ToldOf(q)'
  <2>1. ASSUME NEW q \in Requests \ {r} PROVE ToldOf(q)'
    BY <1>0, <1>3, ToldElsewhere
  <2> QED BY <1>3, <2>1
<1>4. ASSUME NEW r \in Requests, NEW c \in Calls, NEW t \in HumanTokens \cup {None},
             RefuseUnknown(r, c) \/ Refuse(r, c, t) \/ Throttle(r, c, t)
      PROVE  \A q \in Requests : ToldOf(q)'
  <2>1. /\ pc[r] = "new" /\ pc' = [pc EXCEPT ![r] = "done"]
        /\ UNCHANGED <<db, call, grant, base, check, reached, own, dirty, wire>>
        /\ audit' \in {audit, [audit EXCEPT ![r] = @ + 1]}
    BY <1>4 DEF RefuseUnknown, Refuse, Throttle
  <2>2. r \notin reached /\ r \notin wire /\ check[r] = None /\ own[r] = NoChange /\ pc'[r] = "done"
    BY <1>0, <2>1 DEF CallsAreAdmitted, ToldOf, TypeOK
  <2>3. ToldOf(r)'
    BY <2>1, <2>2, NoneIsNoCheck DEF ToldOf, Checks
  <2>4. \A q \in Requests \ {r} : pc'[q] = pc[q] /\ audit'[q] = audit[q]
    BY <1>0, <2>1 DEF TypeOK
  <2> QED BY <1>3, <2>1, <2>3, <2>4
<1>5. ASSUME NEW r \in Requests, NEW c \in Calls, NEW t \in HumanTokens \cup {None}, Admit(r, c, t)
      PROVE  \A q \in Requests : ToldOf(q)'
  <2>1. PICK n \in Nonces \cup {None} :
          /\ grant' = [grant EXCEPT ![r] = n]
          /\ IF n = None
             THEN /\ pc' = [pc EXCEPT ![r] = "waiting"]
                  /\ wire' = wire \cup {r} /\ reached' = reached \cup {r}
             ELSE /\ pc' = [pc EXCEPT ![r] = "checkpoint"]
                  /\ UNCHANGED <<wire, reached>>
    BY <1>5 DEF Admit
  <2>2. pc[r] = "new" /\ call' = [call EXCEPT ![r] = c] /\ UNCHANGED <<db, base, check, audit, own, dirty>>
    BY <1>5 DEF Admit
  <2>3. r \notin reached /\ r \notin wire /\ check[r] = None /\ own[r] = NoChange /\ audit[r] = 0
    BY <1>0, <2>2 DEF CallsAreAdmitted, ToldOf
  <2>4. /\ grant'[r] = n /\ pc'[r] = IF n = None THEN "waiting" ELSE "checkpoint"
        /\ r \in wire' => r \in reached'
    BY <1>0, <2>1, <2>3 DEF TypeOK
  <2>5. ToldOf(r)'
    BY <2>2, <2>3, <2>4, NoneIsNoCheck DEF ToldOf, Checks
  <2>6. \A q \in Requests \ {r} : /\ pc'[q] = pc[q] /\ call'[q] = call[q] /\ grant'[q] = grant[q]
                                  /\ (q \in wire' <=> q \in wire) /\ (q \in reached' <=> q \in reached)
    BY <1>0, <2>1, <2>2 DEF TypeOK
  <2> QED BY <1>3, <2>2, <2>5, <2>6
<1>6. ASSUME NEW r \in Requests, NEW ok \in BOOLEAN, Checkpoint(r, ok)
      PROVE  \A q \in Requests : ToldOf(q)'
  <2>1. /\ pc[r] = "checkpoint" /\ pc' = [pc EXCEPT ![r] = "waiting"]
        /\ base' = [base EXCEPT ![r] = IF ok THEN db[Session[call[r]]] ELSE None]
        /\ wire' = wire \cup {r} /\ reached' = reached \cup {r}
        /\ UNCHANGED <<db, tokens, call, grant, check, audit, own, dirty>>
    BY <1>6 DEF Checkpoint
  <2>2. r \notin reached /\ check[r] = None /\ audit[r] = 0 /\ own[r] = NoChange
    BY <1>0, <2>1 DEF CallsAreAdmitted, ToldOf
  <2>3. Diff(db[Session[call[r]]], db[Session[call[r]]]) = NoChange
    BY DEF Diff, NoChange
  <2>4. pc'[r] = "waiting" /\ base'[r] \in {db[Session[call[r]]], None} /\ r \in reached'
    BY <1>0, <2>1 DEF TypeOK
  <2>5. ToldOf(r)'
    BY <2>1, <2>2, <2>3, <2>4, NoneIsNoCheck DEF ToldOf, Checks
  <2>6. \A q \in Requests \ {r} : /\ pc'[q] = pc[q] /\ base'[q] = base[q]
                                  /\ (q \in wire' <=> q \in wire) /\ (q \in reached' <=> q \in reached)
    BY <1>0, <2>1 DEF TypeOK
  <2> QED BY <1>3, <2>1, <2>5, <2>6
<1>7. ASSUME NEW r \in Requests, NEW ok \in BOOLEAN, Execute(r, ok)
      PROVE  \A q \in Requests : ToldOf(q)'
  <2> DEFINE c == call[r]
             D == db[Session[c]]
  <2>1. /\ r \in wire /\ wire' = wire \ {r}
        /\ UNCHANGED <<tokens, pc, call, grant, base, check, audit, reached>>
    BY <1>7 DEF Execute
  <2>2. c \in Calls /\ D \in SUBSET Rows /\ Session[c] \in Sessions
    BY <1>0, <2>1, GatewayAssumption DEF CallsAreKnown, TypeOK
  <2>3. r \in reached /\ own[r] = NoChange
    BY <1>0, <2>1 DEF ToldOf
  <2>4. CASE ~ok
    <3>1. UNCHANGED <<db, own, dirty>>
      BY <1>7, <2>4 DEF Execute
    <3>2. ToldOf(r)'
      BY <1>0, <2>1, <2>3, <3>1 DEF ToldOf
    <3> QED BY <1>3, <2>1, <3>1, <3>2
  <2>5. CASE ok
    <3>1. /\ db' = [db EXCEPT ![Session[c]] = Apply(c, D)]
          /\ own' = IF pc[r] \in {"waiting", "measure"} THEN [own EXCEPT ![r] = Effect(c, D)] ELSE own
          /\ dirty' = IF Effect(c, D) = NoChange THEN dirty
                      ELSE dirty \cup {q \in Requests \ {r} :
                             /\ pc[q] \in {"waiting", "measure"}
                             /\ call[q] # None /\ Session[call[q]] = Session[c]}
      BY <1>7, <2>5 DEF Execute
    <3>2. db'[Session[c]] = Apply(c, D)
      BY <1>0, <2>2, <3>1 DEF TypeOK
    <3>3. ToldOf(r)'
      <4>1. CASE pc[r] \in {"waiting", "measure"}
        <5>1. own'[r] = Effect(c, D) /\ (r \in dirty' <=> r \in dirty)
          BY <1>0, <3>1, <4>1 DEF TypeOK
        <5>2. r \notin dirty /\ grant[r] # None /\ base[r] # None => base[r] = D
          BY <1>0, <2>3, <4>1, NoDiff DEF ToldOf
        <5>3. r \notin dirty /\ grant[r] # None /\ base[r] # None => Diff(base[r], Apply(c, D)) = Effect(c, D)
          BY <2>2, <5>2, EffectIsDiff
        <5>4. check[r] = None /\ audit[r] = 0 /\ pc'[r] = pc[r]
          BY <1>0, <2>1, <4>1 DEF ToldOf
        <5> QED BY <2>1, <2>3, <3>2, <4>1, <5>1, <5>3, <5>4, NoneIsNoCheck DEF ToldOf, Checks
      <4>2. CASE pc[r] \notin {"waiting", "measure"}
        <5>1. own'[r] = own[r] /\ (r \in dirty' <=> r \in dirty)
          BY <3>1, <4>2
        <5> QED BY <1>0, <2>1, <2>3, <4>2, <5>1 DEF ToldOf
      <4> QED BY <4>1, <4>2
    <3>4. ASSUME NEW q \in Requests \ {r} PROVE ToldOf(q)'
      <4>1. own'[q] = own[q] /\ (q \in dirty => q \in dirty') /\ (q \in wire' <=> q \in wire)
        BY <1>0, <2>1, <3>1 DEF TypeOK
      <4>2. q \in dirty' \/ pc[q] \notin {"waiting", "measure"} \/ db'[Session[call[q]]] = db[Session[call[q]]]
        <5>1. CASE pc[q] \in {"waiting", "measure"} /\ Session[call[q]] = Session[c]
          <6>1. call[q] # None
            BY <1>0, <5>1 DEF CallsAreKnown, Active
          <6>2. Effect(c, D) = NoChange => Apply(c, D) = D
            BY <2>2, EffectIsDiff
          <6> QED BY <3>1, <3>2, <5>1, <6>1, <6>2
        <5>2. CASE pc[q] \in {"waiting", "measure"} /\ Session[call[q]] # Session[c]
          <6>1. Session[call[q]] \in Sessions
            BY <1>0, <5>2, GatewayAssumption DEF CallsAreKnown, Active, TypeOK
          <6> QED BY <1>0, <3>1, <5>2, <6>1 DEF TypeOK
        <5> QED BY <5>1, <5>2
      <4> QED BY <1>0, <2>1, <4>1, <4>2, ToldElsewhere
    <3> QED BY <3>3, <3>4
  <2> QED BY <2>4, <2>5
<1>8. ASSUME NEW r \in Requests, Respond(r) \/ TimeOut(r) \/ LoseRequest(r)
      PROVE  \A q \in Requests : ToldOf(q)'
  <2>1. /\ pc[r] = "waiting" /\ wire' \in {wire, wire \ {r}}
        /\ UNCHANGED <<db, tokens, call, grant, base, check, reached, own, dirty>>
        /\ IF grant[r] = None
           THEN pc' = [pc EXCEPT ![r] = "done"] /\ audit' = [audit EXCEPT ![r] = audit[r] + 1]
           ELSE pc' = [pc EXCEPT ![r] = "measure"] /\ audit' = audit
    BY <1>8 DEF Respond, TimeOut, LoseRequest, AfterUpstream
  <2>2. check[r] = None /\ audit[r] = 0
    BY <1>0, <2>1 DEF ToldOf
  <2>3. IF grant[r] = None THEN pc'[r] = "done" /\ audit'[r] = 1 ELSE pc'[r] = "measure" /\ audit'[r] = 0
    BY <1>0, <2>1, <2>2 DEF TypeOK
  <2>4. ToldOf(r)'
    BY <1>0, <2>1, <2>2, <2>3, NoneIsNoCheck DEF ToldOf, Checks
  <2>5. \A q \in Requests \ {r} : /\ pc'[q] = pc[q] /\ audit'[q] = audit[q]
                                  /\ (q \in wire' <=> q \in wire)
    BY <1>0, <2>1 DEF TypeOK
  <2> QED BY <1>3, <2>1, <2>4, <2>5
<1>9. ASSUME NEW r \in Requests, NEW ok \in BOOLEAN, Measure(r, ok)
      PROVE  \A q \in Requests : ToldOf(q)'
  <2>1. /\ pc[r] = "measure" /\ check' = [check EXCEPT ![r] = CheckResult(r, ok)]
        /\ base' = [base EXCEPT ![r] = None] /\ pc' = [pc EXCEPT ![r] = "done"]
        /\ audit' = [audit EXCEPT ![r] = audit[r] + 1]
        /\ UNCHANGED <<db, tokens, call, grant, reached, own, dirty, wire>>
    BY <1>9 DEF Measure
  <2>2. grant[r] # None /\ audit[r] = 0
    BY <1>0, <2>1 DEF ToldOf, CallsAreAdmitted
  <2>3. pc'[r] = "done" /\ audit'[r] = 1 /\ check'[r] = CheckResult(r, ok)
    BY <1>0, <2>1, <2>2 DEF TypeOK
  <2>4. ASSUME r \notin dirty, CheckResult(r, ok) \in {"match", "preview_mismatch"}
        PROVE  CheckResult(r, ok) = "match" <=> own[r] = tokens[grant[r]].preview
    <3>1. /\ base[r] # None /\ tokens[grant[r]].preview # None
          /\ CheckResult(r, ok) = Compared(tokens[grant[r]].preview, Diff(base[r], db[Session[call[r]]]))
      BY <2>4 DEF CheckResult
    <3>2. Diff(base[r], db[Session[call[r]]]) = own[r]
      BY <1>0, <2>1, <2>2, <2>4, <3>1 DEF ToldOf
    <3> QED BY <3>1, <3>2 DEF Compared
  <2>5. ToldOf(r)'
    BY <1>0, <2>1, <2>2, <2>3, <2>4 DEF ToldOf
  <2>6. \A q \in Requests \ {r} : /\ pc'[q] = pc[q] /\ audit'[q] = audit[q] /\ base'[q] = base[q]
                                  /\ check'[q] = check[q]
    BY <1>0, <2>1 DEF TypeOK
  <2> QED BY <1>3, <2>1, <2>5, <2>6
<1>10. CASE Restart \/ \E r \in Requests : Cancel(r)
  <2>1. /\ \A q \in Requests : pc'[q] = pc[q] \/ (pc[q] \in Active /\ pc'[q] = "cancelled")
        /\ UNCHANGED <<db, tokens, call, grant, base, check, audit, reached, own, dirty, wire>>
    BY <1>0, <1>10 DEF Restart, Cancel, TypeOK
  <2>2. ASSUME NEW q \in Requests PROVE ToldOf(q)'
    BY <1>0, <2>1 DEF ToldOf, Active
  <2> QED BY <2>2
<1> QED BY <1>2, <1>4, <1>5, <1>6, <1>7, <1>8, <1>9, <1>10 DEF Next

(* An answer of the upstream server is told as what it is: a failed call   *)
(* as an error, an answer that holds nothing as empty, and bad arguments   *)
(* as such whoever found them (errors.normalize).                          *)
LEMMA AnswerIsTold ==
  ASSUME NEW answer, IsAnswer(answer), NEW readOnly \in BOOLEAN
  PROVE  ResultIsTold(answer, readOnly)
<1>1. CASE answer.isError = TRUE
  <2>1. HttpError(answer.code) = "invalid_arguments" <=> answer.code = 422
    BY DEF HttpError
  <2>2. Normalize(answer, readOnly).status = "error"
    BY <1>1 DEF Normalize
  <2>3. Normalize(answer, readOnly).code = "invalid_arguments" <=>
          answer.form = "validation" \/ (answer.form = "http" /\ answer.code = 422)
    BY <1>1, <2>1 DEF Normalize, IsAnswer
  <2> QED BY <1>1, <2>2, <2>3 DEF ResultIsTold
<1>2. CASE answer.isError = FALSE
  <2>1. IsText(answer.text)
    BY <1>2 DEF IsAnswer
  <2>2. IsEmptyPayload(answer.text) => ~Holds(answer.text)
    BY <2>1 DEF IsText, IsEmptyPayload, IsEmptyWrapper, Holds
  <2>3. ~IsEmptyPayload(answer.text) =>
          Holds(answer.text) \/ (answer.text.kind = "object" /\ answer.text.lists = {})
    BY <2>1 DEF IsText, IsEmptyPayload, IsEmptyWrapper, Holds
  <2>4. /\ Normalize(answer, readOnly).status = IF readOnly /\ IsEmptyPayload(answer.text) THEN "empty" ELSE "ok"
        /\ Normalize(answer, readOnly).code = "none"
    BY <1>2 DEF Normalize
  <2> QED BY <1>2, <2>2, <2>3, <2>4 DEF ResultIsTold
<1> QED BY <1>1, <1>2 DEF IsAnswer

(* However calls overlap, time out, are cancelled or arrive late, and for  *)
(* any number of sessions, rows and restarts: a preview check that nobody  *)
(* disturbed says match exactly when the call changed what the approver    *)
(* saw, a call that came back has its one line, and an answer is told as   *)
(* what it is (_check_preview, call_tool, errors.normalize).               *)
THEOREM EndsAreToldAsTheyAre == Spec => []EndsAreTold
<1>1. Init => Told
  BY NoneIsNoCheck DEF Init, Told, ToldOf, Checks
<1>2. AdmissionInv /\ Told => EndsAreTold
  <2> SUFFICES ASSUME AdmissionInv, Told
               PROVE  EndsAreTold
    OBVIOUS
  <2>1. CheckIsSound
    BY DEF CheckIsSound, Told, ToldOf
  <2>2. \A r \in reached : audit[r] = IF pc[r] = "done" THEN 1 ELSE 0
    BY DEF AdmissionInv, TypeOK, Told, ToldOf
  <2>3. AnswersAreTold
    BY GatewayAssumption, AnswerIsTold DEF AnswersAreTold
  <2> QED BY <2>1, <2>2, <2>3 DEF EndsAreTold, CallsAreTold
<1> QED BY <1>1, <1>2, AdmissionInvariant, ToldStep, PTL DEF Spec
=============================================================================
