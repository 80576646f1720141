--------------------------- MODULE SessionsProofs ---------------------------
(***************************************************************************)
(* Proofs about Sessions, for any number of sessions, requests and cards   *)
(* and any faults of the environment service: one turn at a time, no       *)
(* session busy for nothing, no question skipped, no environment without   *)
(* an owner.                                                               *)
(***************************************************************************)
EXTENDS Sessions, TLAPS

(* The cases of Next, for a formula P that UNCHANGED vars preserves.       *)
LEMMA SessionCases ==
  ASSUME [Next]_vars
  PROVE  \/ \E s \in Sids : \/ Create(s) \/ EnvStarted(s) \/ EnvFailed(s) \/ Listed(s)
                            \/ RegisterFails(s) \/ Undone(s)
         \/ \E s \in Sids : Delete(s) \/ CloseNext(s)
         \/ \E s \in Sids : Stopped(s)
         \/ \E s \in Sids : EnvDies(s)
         \/ \E r \in Requests, s \in Sids : Send(r, s)
         \/ \E r \in Requests : \/ Receive(r) \/ Claim(r) \/ Conflict(r) \/ Touch(r)
                                \/ TouchFails(r) \/ Enter(r) \/ Ask(r) \/ Finish(r)
                                \/ Disconnect(r)
         \/ Shutdown \/ Closed \/ UNCHANGED vars
BY DEF Next, MakeStep, CloseStep, RequestStep

-----------------------------------------------------------------------------
(* Types *)

(* A request that was sent has a session.                                  *)
OnSession == \A r \in Requests : at[r] # "idle" => on[r] \in Sids

TInv == TypeOK /\ OnSession

(* The steps that touch no request and no turn.                            *)
LEMMA MakeTypes ==
  ASSUME TInv, NEW s \in Sids,
         \/ Create(s) \/ EnvStarted(s) \/ EnvFailed(s) \/ Listed(s) \/ RegisterFails(s)
         \/ Undone(s) \/ Delete(s) \/ CloseNext(s) \/ Stopped(s) \/ EnvDies(s)
  PROVE  TInv' /\ UNCHANGED <<reqVars, turnVars>>
<1> USE DEF TInv, TypeOK, OnSession, reqVars, turnVars
<1>1. CASE Create(s) \/ EnvStarted(s) \/ EnvFailed(s)
  BY <1>1 DEF Create, EnvStarted, EnvFailed
<1>2. CASE Listed(s) \/ RegisterFails(s) \/ EnvDies(s)
  BY <1>2 DEF Listed, RegisterFails, EnvDies
<1>3. CASE Undone(s) \/ Stopped(s)
  BY <1>3 DEF Undone, Stopped, StopEnv
<1>4. CASE Delete(s) \/ CloseNext(s)
  BY <1>4 DEF Delete, CloseNext, Close
<1> QED BY <1>1, <1>2, <1>3, <1>4

LEMMA RequestTypes ==
  ASSUME TInv, NEW r \in Requests,
         \/ Receive(r) \/ Claim(r) \/ Conflict(r) \/ Touch(r) \/ TouchFails(r) \/ Enter(r)
         \/ Ask(r) \/ Finish(r) \/ Disconnect(r)
  PROVE  TInv'
<1> USE DEF TInv, TypeOK, OnSession, Waiting, Running, makeVars
<1>1. CASE Receive(r) \/ Conflict(r) \/ Touch(r)
  BY <1>1 DEF Receive, Conflict, Touch, turnVars
<1>2. CASE Claim(r)
  BY <1>2 DEF Claim
<1>3. CASE TouchFails(r)
  BY <1>3 DEF TouchFails
<1>4. CASE Enter(r)
  BY <1>4, SessionsAssumption DEF Enter, reqVars
<1>5. CASE Ask(r)
  BY <1>5, SessionsAssumption DEF Ask
<1>6. CASE Finish(r) \/ Disconnect(r)
  BY <1>6 DEF Finish, Disconnect, Release
<1> QED BY <1>1, <1>2, <1>3, <1>4, <1>5, <1>6

LEMMA TypeStep ==
  ASSUME TInv, [Next]_vars
  PROVE  TInv'
<1>1. ASSUME NEW r \in Requests, NEW s \in Sids, Send(r, s) PROVE TInv'
  BY <1>1 DEF TInv, TypeOK, OnSession, Send, Waiting, Running, makeVars, turnVars
<1>2. CASE Shutdown \/ Closed \/ UNCHANGED vars
  BY <1>2 DEF TInv, TypeOK, OnSession, Shutdown, Closed, vars, makeVars, reqVars, turnVars
<1> QED BY <1>1, <1>2, MakeTypes, RequestTypes, SessionCases

(* Type correctness of the service, for every set of sessions and requests.*)
THEOREM SessionsTypeCorrect == Spec => []TypeOK
<1>1. Init => TInv
  BY SessionsAssumption DEF Init, TInv, TypeOK, OnSession
<1>2. TInv => TypeOK
  BY DEF TInv
<1> QED BY <1>1, <1>2, TypeStep, PTL DEF Spec

-----------------------------------------------------------------------------
(* Turns *)

(* The thread of a message that runs has no pending card.                  *)
MessagesFindNoCard ==
  \A r \in Requests : at[r] \in {"touching", "streaming"} /\ kind[r] = "message"
                        => card[on[r]] = 0

TurnInv == TInv /\ OneTurn /\ BusyIsHeld /\ MessagesFindNoCard

LEMMA TurnStep ==
  ASSUME TurnInv, [Next]_vars
  PROVE  TurnInv'
<1>0. TInv'
  BY TypeStep DEF TurnInv
<1> USE <1>0 DEF TurnInv, TInv, TypeOK, OnSession, OneTurn, BusyIsHeld, MessagesFindNoCard,
                 Waiting, Running
<1>1. ASSUME UNCHANGED <<reqVars, turnVars>> PROVE TurnInv'
  BY <1>1 DEF reqVars, turnVars
<1>2. ASSUME NEW s \in Sids,
             \/ Create(s) \/ EnvStarted(s) \/ EnvFailed(s) \/ Listed(s) \/ RegisterFails(s)
             \/ Undone(s) \/ Delete(s) \/ CloseNext(s) \/ Stopped(s) \/ EnvDies(s)
      PROVE  TurnInv'
  BY <1>1, <1>2, MakeTypes
<1>3. CASE Shutdown \/ Closed \/ UNCHANGED vars
  BY <1>1, <1>3 DEF Shutdown, Closed, vars
<1>4. ASSUME NEW r \in Requests, NEW s \in Sids, Send(r, s) PROVE TurnInv'
  BY <1>4 DEF Send, turnVars
<1>5. ASSUME NEW r \in Requests, Receive(r) \/ Conflict(r) PROVE TurnInv'
  BY <1>5 DEF Receive, Conflict, turnVars
<1>6. ASSUME NEW r \in Requests, Claim(r) PROVE TurnInv'
  BY <1>6 DEF Claim, Claimable
<1>7. ASSUME NEW r \in Requests, Touch(r) PROVE TurnInv'
  BY <1>7 DEF Touch, turnVars
<1>8. ASSUME NEW r \in Requests, TouchFails(r) PROVE TurnInv'
  BY <1>8 DEF TouchFails
<1>9. ASSUME NEW r \in Requests, Enter(r) PROVE TurnInv'
  BY <1>9 DEF Enter, reqVars
<1>10. ASSUME NEW r \in Requests, Ask(r) PROVE TurnInv'
  BY <1>10 DEF Ask
<1>11. ASSUME NEW r \in Requests, Finish(r) \/ Disconnect(r) PROVE TurnInv'
  BY <1>11 DEF Finish, Disconnect, Release
<1> QED
  BY <1>2, <1>3, <1>4, <1>5, <1>6, <1>7, <1>8, <1>9, <1>10, <1>11, SessionCases

LEMMA TurnInvariant == Spec => []TurnInv
<1>1. Init => TurnInv
  BY SessionsAssumption DEF Init, TurnInv, TInv, TypeOK, OnSession, OneTurn, BusyIsHeld,
     MessagesFindNoCard, Running
<1> QED BY <1>1, TurnStep, PTL DEF Spec

(* However many messages, decisions and repetitions arrive for a session,  *)
(* one of them drives its thread.                                          *)
THEOREM OneTurnAtATime == Spec => []OneTurn
<1>1. TurnInv => OneTurn
  BY DEF TurnInv
<1> QED BY <1>1, TurnInvariant, PTL

(* A session is busy for a turn that runs, or for a touch that failed.     *)
THEOREM NoBusyForNothing == Spec => []BusyIsHeld
<1>1. TurnInv => BusyIsHeld
  BY DEF TurnInv
<1> QED BY <1>1, TurnInvariant, PTL

(* No card is skipped or replaced: only a decision takes it away.          *)
THEOREM NoCardSkipped == Spec => CardsNeedDecisions
<1> DEFINE Kept == \A s \in Sids : card[s] # 0 /\ card'[s] # card[s] =>
       /\ card'[s] = 0
       /\ \E r \in Requests : at[r] = "streaming" /\ kind[r] = "decision" /\ on[r] = s
<1>1. TurnInv /\ [Next]_vars => [Kept]_vars
  <2> SUFFICES ASSUME TurnInv, [Next]_vars PROVE [Kept]_vars
    OBVIOUS
  <2> USE DEF TurnInv, TInv, TypeOK, OnSession, MessagesFindNoCard
  <2>1. ASSUME UNCHANGED card PROVE Kept
    BY <2>1
  <2>2. ASSUME NEW r \in Requests, Enter(r) PROVE Kept
    <3>1. kind[r] = "decision" /\ at[r] = "streaming" /\ on[r] \in Sids
      BY <2>2 DEF Enter
    <3> QED BY <2>2, <3>1 DEF Enter
  <2>3. ASSUME NEW r \in Requests, Ask(r) PROVE Kept
    BY <2>3 DEF Ask
  <2>4. ASSUME NEW s \in Sids,
             \/ Create(s) \/ EnvStarted(s) \/ EnvFailed(s) \/ Listed(s) \/ RegisterFails(s)
             \/ Undone(s) \/ Delete(s) \/ CloseNext(s) \/ Stopped(s) \/ EnvDies(s)
        PROVE  Kept
    BY <2>1, <2>4, MakeTypes DEF turnVars
  <2>5. CASE Shutdown \/ Closed \/ UNCHANGED vars
    BY <2>1, <2>5 DEF Shutdown, Closed, vars, turnVars
  <2>6. ASSUME NEW r \in Requests, NEW s \in Sids, Send(r, s) PROVE Kept
    BY <2>1, <2>6 DEF Send, turnVars
  <2>7. ASSUME NEW r \in Requests,
               \/ Receive(r) \/ Claim(r) \/ Conflict(r) \/ Touch(r) \/ TouchFails(r)
               \/ Finish(r) \/ Disconnect(r)
        PROVE  Kept
    BY <2>1, <2>7 DEF Receive, Claim, Conflict, Touch, TouchFails, Finish, Disconnect, Release, turnVars
  <2> HIDE DEF Kept
  <2> QED BY <2>2, <2>3, <2>4, <2>5, <2>6, <2>7, SessionCases
<1> QED BY <1>1, TurnInvariant, PTL DEF Spec, CardsNeedDecisions

-----------------------------------------------------------------------------
(* Environments *)

EnvInv == TInv /\ NoOrphanEnv

LEMMA EnvStep ==
  ASSUME EnvInv, [Next]_vars
  PROVE  EnvInv'
<1>0. TInv'
  BY TypeStep DEF EnvInv
<1> USE <1>0 DEF EnvInv, TInv, TypeOK, NoOrphanEnv
<1>1. ASSUME NEW s \in Sids, \/ Create(s) \/ EnvStarted(s) \/ EnvFailed(s) \/ Listed(s)
                             \/ RegisterFails(s)
      PROVE  EnvInv'
  BY <1>1 DEF Create, EnvStarted, EnvFailed, Listed, RegisterFails
<1>2. ASSUME NEW s \in Sids, Undone(s) \/ Stopped(s) PROVE EnvInv'
  BY <1>2 DEF Undone, Stopped, StopEnv
<1>3. ASSUME NEW s \in Sids, Delete(s) \/ CloseNext(s) PROVE EnvInv'
  BY <1>3 DEF Delete, CloseNext, Close
<1>4. ASSUME NEW s \in Sids, EnvDies(s) PROVE EnvInv'
  BY <1>4 DEF EnvDies
<1>5. ASSUME UNCHANGED <<making, open, env, closing, lost>> PROVE EnvInv'
  BY <1>5
<1>6. CASE Shutdown \/ Closed \/ UNCHANGED vars
  BY <1>5, <1>6 DEF Shutdown, Closed, vars, makeVars
<1>7. ASSUME NEW r \in Requests, NEW s \in Sids, Send(r, s) PROVE EnvInv'
  BY <1>5, <1>7 DEF Send, makeVars
<1>8. ASSUME NEW r \in Requests,
             \/ Receive(r) \/ Claim(r) \/ Conflict(r) \/ Touch(r) \/ TouchFails(r) \/ Enter(r)
             \/ Ask(r) \/ Finish(r) \/ Disconnect(r)
      PROVE  EnvInv'
  BY <1>5, <1>8 DEF Receive, Claim, Conflict, Touch, TouchFails, Enter, Ask, Finish, Disconnect,
     Release, makeVars
<1> QED BY <1>1, <1>2, <1>3, <1>4, <1>6, <1>7, <1>8, SessionCases

(* Whatever creations, deletions and the shutdown do to each other, an     *)
(* environment that runs belongs to somebody who stops it, unless a remote *)
(* manager did not answer for it.                                          *)
THEOREM NoEnvIsOrphaned == Spec => []NoOrphanEnv
<1>1. Init => EnvInv
  BY SessionsAssumption DEF Init, EnvInv, TInv, TypeOK, OnSession, NoOrphanEnv
<1>2. EnvInv => NoOrphanEnv
  BY DEF EnvInv
<1> QED BY <1>1, <1>2, EnvStep, PTL DEF Spec
=============================================================================
