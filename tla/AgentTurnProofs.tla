-------------------------- MODULE AgentTurnProofs --------------------------
(***************************************************************************)
(* Proofs about AgentTurn: its type invariant, the bounds that the guards  *)
(* give an invocation and the calls of a turn, one execution per approval, *)
(* and the wholeness of the conversation.                                  *)
(***************************************************************************)
EXTENDS AgentTurn, TLAPS

(* The cases of Next, for a formula P that UNCHANGED vars preserves.       *)
LEMMA NextCases ==
  ASSUME [Next]_vars
  PROVE  \/ Message \/ Intake \/ Ask \/ Respond \/ ActFails \/ ActAnswers
         \/ \E n \in {"plan", "act", "verify"} : Guarded(n)
         \/ \E k \in Replies : Plan(k)
         \/ \E k \in Replies : Verify(k)
         \/ \E c \in Calls : ActRepeats(c)
         \/ \E c \in Calls : ActCalls(c)
         \/ \E ok \in BOOLEAN : Preview(ok)
         \/ \E ok \in BOOLEAN : CallTool(ok)
         \/ \E same \in BOOLEAN : Observe(same)
         \/ Approve \/ Reject \/ Cancel \/ Crash \/ CrashBeforeSaved \/ ClockRuns
         \/ UNCHANGED vars
BY DEF Next, Step, Decide

-----------------------------------------------------------------------------
(* Types *)

LEMMA GuardType ==
  ASSUME TypeOK
  PROVE  /\ Exceeded \in Reasons \cup {None}
         /\ Exceeded = None => steps < MaxSteps
BY AgentAssumption DEF TypeOK, Exceeded, Reasons

Flags == /\ active \in BOOLEAN /\ asked \in BOOLEAN /\ draft \in BOOLEAN /\ seen \in BOOLEAN
         /\ approvable \in BOOLEAN /\ dangling \in BOOLEAN /\ late \in BOOLEAN
         /\ called \in BOOLEAN

LEMMA FlagStep ==
  ASSUME TypeOK, [Next]_vars
  PROVE  Flags'
<1>0. Flags
  BY DEF TypeOK, Flags
<1> USE <1>0 DEF Flags, turnVars, history, vars, Turn, Terminate
<1>1. CASE Message \/ Intake
  BY <1>1, Zenon DEF Message, Intake
<1>2. CASE Ask \/ Respond \/ ActFails \/ ActAnswers
  BY <1>2, Zenon DEF Ask, Respond, ActFails, ActAnswers
<1>3. ASSUME NEW n, Guarded(n) PROVE Flags'
  BY <1>3, Zenon DEF Guarded
<1>4. ASSUME NEW k, Plan(k) \/ Verify(k) PROVE Flags'
  BY <1>4, Zenon DEF Plan, Verify
<1>5. ASSUME NEW c, ActRepeats(c) \/ ActCalls(c) PROVE Flags'
  BY <1>5, Zenon DEF ActRepeats, ActCalls
<1>6. ASSUME NEW ok \in BOOLEAN, Preview(ok) \/ CallTool(ok) PROVE Flags'
  BY <1>6, Zenon DEF Preview, CallTool, CalledTool
<1>7. ASSUME NEW same \in BOOLEAN, Observe(same) PROVE Flags'
  <2>1. UNCHANGED <<active, asked>>
    BY <1>7 DEF Observe
  <2> QED BY <1>7, <2>1, Zenon DEF Observe
<1>8. CASE Approve \/ Reject
  BY <1>8, Zenon DEF Approve, Reject, Rejected, Resume
<1>9. CASE Cancel \/ Crash \/ CrashBeforeSaved \/ ClockRuns
  BY <1>9, Zenon DEF Cancel, Crash, CrashBeforeSaved, ClockRuns
<1>10. CASE UNCHANGED vars
  BY <1>10, Zenon
<1> QED
  BY <1>1, <1>2, <1>3, <1>4, <1>5, <1>6, <1>7, <1>8, <1>9, <1>10, NextCases

LEMMA OneMore ==
  ASSUME NEW f \in [Calls -> Nat], NEW x
  PROVE  /\ [f EXCEPT ![x] = @ + 1] \in [Calls -> Nat]
         /\ \A c \in Calls : [f EXCEPT ![x] = @ + 1][c] = IF c = x THEN f[c] + 1 ELSE f[c]
<1> DEFINE g == [f EXCEPT ![x] = @ + 1]
<1>1. DOMAIN f = Calls /\ g = [c \in Calls |-> IF c = x THEN f[c] + 1 ELSE f[c]]
  OBVIOUS
<1>2. \A c \in Calls : f[c] \in Nat /\ f[c] + 1 \in Nat
  OBVIOUS
<1> HIDE DEF g
<1>3. g \in [Calls -> Nat] /\ \A c \in Calls : g[c] = IF c = x THEN f[c] + 1 ELSE f[c]
  BY <1>1, <1>2
<1> QED BY <1>3 DEF g

LEMMA TypeStep ==
  ASSUME TypeOK, [Next]_vars
  PROVE  TypeOK'
<1> USE AgentAssumption, FlagStep DEF TypeOK, Flags, Nodes, turnVars, history, vars
<1>0. Zero \in [Calls -> Nat]
  BY DEF Zero
<1>1. CASE Message
  BY <1>0, <1>1 DEF Message
<1>2. CASE Intake
  BY <1>0, <1>2 DEF Intake, Turn
<1>3. CASE Ask \/ Respond
  BY <1>3 DEF Ask, Respond
<1>4. CASE ActFails
  BY <1>4 DEF ActFails, Terminate, Turn, Reasons
<1>5. CASE ActAnswers
  BY <1>5, GuardType DEF ActAnswers, Turn, Spend
<1>6. ASSUME NEW n \in {"plan", "act", "verify"}, Guarded(n) PROVE TypeOK'
  BY <1>6, GuardType DEF Guarded, Terminate, Turn
<1>7. ASSUME NEW k \in Replies, Plan(k) PROVE TypeOK'
  BY <1>7 DEF Plan, Terminate, Turn, Spend, Replies, Reasons
<1>8. ASSUME NEW k \in Replies, Verify(k) PROVE TypeOK'
  BY <1>8 DEF Verify, Terminate, Turn, Spend, Replies, Reasons
<1>9. ASSUME NEW c \in Calls, ActRepeats(c) PROVE TypeOK'
  BY <1>9, GuardType DEF ActRepeats, Terminate, Turn, Spend, Reasons
<1>10. ASSUME NEW c \in Calls, ActCalls(c) PROVE TypeOK'
  BY <1>10, GuardType DEF ActCalls, Turn, Spend
<1>11. ASSUME NEW ok \in BOOLEAN, Preview(ok) PROVE TypeOK'
  BY <1>11 DEF Preview, Turn
<1>12. ASSUME NEW ok \in BOOLEAN, CallTool(ok) PROVE TypeOK'
  <2>1. ran' = ran \/ ran' = [ran EXCEPT ![pending] = @ + 1]
    BY <1>12, Zenon DEF CallTool, CalledTool
  <2>2. [ran EXCEPT ![pending] = @ + 1] \in [Calls -> Nat]
    BY OneMore
  <2> QED BY <1>12, <2>1, <2>2 DEF CallTool, CalledTool
<1>13. ASSUME NEW same \in BOOLEAN, Observe(same) PROVE TypeOK'
  <2> DEFINE q == IF same THEN quiet + 1 ELSE 0
  <2>1. /\ quiet' = q /\ q \in Nat /\ pending' = None /\ token' = None
        /\ hops' = hops + 1 /\ node' \in Nodes
        /\ UNCHANGED <<steps, counts, rounds, card, tokens, turns, crashes, made, ran, granted>>
    BY <1>13 DEF Observe, Terminate, Turn
  <2>2. term' \in Reasons \cup {None}
    BY <1>13 DEF Observe, Terminate, Turn, Reasons
  <2> QED BY <2>1, <2>2
<1>14. CASE Approve
  <2>1. [granted EXCEPT ![pending] = @ + 1] \in [Calls -> Nat]
    BY OneMore
  <2> QED BY <1>14, <2>1 DEF Approve, Resume
<1>15. CASE Reject
  BY <1>15 DEF Reject, Rejected, Resume
<1>16. CASE Cancel \/ Crash \/ CrashBeforeSaved \/ ClockRuns
  BY <1>16 DEF Cancel, Crash, CrashBeforeSaved, ClockRuns
<1>17. CASE UNCHANGED vars
  BY <1>17
<1> QED
  BY <1>1, <1>2, <1>3, <1>4, <1>5, <1>6, <1>7, <1>8, <1>9, <1>10, <1>11, <1>12, <1>13,
     <1>14, <1>15, <1>16, <1>17, NextCases

(* Type correctness of the checkpointed state and of an invocation, for    *)
(* every set of calls and every setting of the guards.                     *)
THEOREM AgentTypeCorrect == Spec => []TypeOK
<1>1. Init => TypeOK
  <2> SUFFICES ASSUME Init PROVE TypeOK
    OBVIOUS
  <2>1. Flags
    BY Zenon DEF Init, Flags
  <2> QED BY <2>1, AgentAssumption DEF Init, TypeOK, Flags, Zero
<1> QED BY <1>1, TypeStep, PTL DEF Spec

-----------------------------------------------------------------------------
(* Control: when a thread waits for a decision, and when observe calls.    *)

FlowInv ==
  /\ asked => ~active /\ node = "approve"
  /\ active => node # None
  /\ called => active /\ node = "observe"

LEMMA NoneIsNoNode == \A n \in Nodes : n # None
BY AgentAssumption

LEMMA FlowStep ==
  ASSUME TypeOK, FlowInv, [Next]_vars
  PROVE  FlowInv'
<1>0. /\ "intake" # None /\ "plan" # None /\ "act" # None /\ "preview" # None
      /\ "approve" # None /\ "observe" # None /\ "verify" # None /\ "respond" # None
  BY NoneIsNoNode DEF Nodes
<1> USE <1>0 DEF FlowInv, turnVars, history, vars, Turn, Terminate
<1>1. CASE Message \/ Intake
  BY <1>1 DEF Message, Intake
<1>2. CASE Ask \/ Respond
  BY <1>2 DEF Ask, Respond
<1>3. CASE ActFails \/ ActAnswers
  BY <1>3 DEF ActFails, ActAnswers
<1>4. ASSUME NEW n \in {"plan", "act", "verify"}, Guarded(n) PROVE FlowInv'
  BY <1>4 DEF Guarded
<1>5. ASSUME NEW k, Plan(k) \/ Verify(k) PROVE FlowInv'
  BY <1>5 DEF Plan, Verify
<1>6. ASSUME NEW c, ActRepeats(c) \/ ActCalls(c) PROVE FlowInv'
  BY <1>6 DEF ActRepeats, ActCalls
<1>7. ASSUME NEW ok \in BOOLEAN, Preview(ok) \/ CallTool(ok) PROVE FlowInv'
  BY <1>7 DEF Preview, CallTool, CalledTool
<1>8. ASSUME NEW same \in BOOLEAN, Observe(same) PROVE FlowInv'
  BY <1>8 DEF Observe
<1>9. CASE Approve \/ Reject
  BY <1>9 DEF Approve, Reject, Rejected, Resume
<1>10. CASE Cancel \/ Crash \/ CrashBeforeSaved \/ ClockRuns
  BY <1>10 DEF Cancel, Crash, CrashBeforeSaved, ClockRuns
<1>11. CASE UNCHANGED vars
  BY <1>11
<1> QED
  BY <1>1, <1>2, <1>3, <1>4, <1>5, <1>6, <1>7, <1>8, <1>9, <1>10, <1>11, NextCases

THEOREM AgentFlow == Spec => [](TypeOK /\ FlowInv)
<1>1. Init => FlowInv
  BY DEF Init, FlowInv
<1> QED BY <1>1, FlowStep, AgentTypeCorrect, PTL DEF Spec

-----------------------------------------------------------------------------
(* The conversation: no token outlives its call. *)

ContextInv ==
  /\ ContextIsWhole
  /\ node \in {"preview", "approve"} => token = None

LEMMA ContextStep ==
  ASSUME TypeOK, FlowInv, ContextInv, [Next]_vars
  PROVE  ContextInv'
<1>0. None \notin Calls
  BY AgentAssumption
<1>1. node' = None => ContextInv'
  BY NoneIsNoNode DEF ContextInv, ContextIsWhole, Nodes
<1> USE <1>0 DEF FlowInv, ContextInv, ContextIsWhole, turnVars, history, vars, Turn, Terminate
<1>2. CASE Message \/ Intake
  BY <1>2 DEF Message, Intake
<1>3. CASE Ask
  BY <1>3 DEF Ask
<1>4. CASE Respond
  BY <1>1, <1>4 DEF Respond
<1>5. CASE ActFails \/ ActAnswers
  BY <1>5 DEF ActFails, ActAnswers
<1>6. ASSUME NEW n \in {"plan", "act", "verify"}, Guarded(n) PROVE ContextInv'
  BY <1>6 DEF Guarded
<1>7. ASSUME NEW k, Plan(k) \/ Verify(k) PROVE ContextInv'
  BY <1>7 DEF Plan, Verify
<1>8. ASSUME NEW c \in Calls, ActRepeats(c) \/ ActCalls(c) PROVE ContextInv'
  BY <1>8 DEF ActRepeats, ActCalls
<1>9. ASSUME NEW ok \in BOOLEAN, Preview(ok) \/ CallTool(ok) PROVE ContextInv'
  BY <1>9 DEF Preview, CallTool, CalledTool
<1>10. ASSUME NEW same \in BOOLEAN, Observe(same) PROVE ContextInv'
  BY <1>10 DEF Observe
<1>11. CASE Approve \/ Reject
  BY <1>11 DEF Approve, Reject, Rejected, Resume
<1>12. CASE Cancel \/ Crash \/ ClockRuns
  BY <1>12 DEF Cancel, Crash, ClockRuns
<1>13. CASE CrashBeforeSaved
  BY <1>13 DEF CrashBeforeSaved
<1>14. CASE UNCHANGED vars
  BY <1>14
<1> QED
  BY <1>2, <1>3, <1>4, <1>5, <1>6, <1>7, <1>8, <1>9, <1>10, <1>11, <1>12, <1>13, <1>14, NextCases

(* The asserts of preview, approve and observe hold, and the LLM is never  *)
(* shown a tool call without its result.                                   *)
THEOREM ConversationWhole == Spec => []ContextIsWhole
<1>1. Init => ContextInv
  <2>1. node = None => ContextInv
    BY NoneIsNoNode DEF ContextInv, ContextIsWhole, Nodes
  <2> QED BY <2>1 DEF Init
<1>2. ContextInv => ContextIsWhole
  BY DEF ContextInv
<1> QED BY <1>1, <1>2, ContextStep, AgentFlow, PTL DEF Spec

-----------------------------------------------------------------------------
(* Answers *)

AnswerInv ==
  /\ node = "verify" => draft
  /\ node = "respond" => draft \/ term # None
  /\ TurnsAnswer

LEMMA AnswerStep ==
  ASSUME TypeOK, FlowInv, AnswerInv, [Next]_vars
  PROVE  AnswerInv'
<1>1. \A r \in Reasons : r # None
  BY AgentAssumption
<1> USE <1>1, NoneIsNoNode DEF FlowInv, AnswerInv, TurnsAnswer, Reasons, Nodes,
                              turnVars, history, vars, Turn, Terminate
<1>2. CASE Message \/ Intake
  BY <1>2 DEF Message, Intake
<1>3. CASE Ask \/ Respond
  BY <1>3 DEF Ask, Respond
<1>4. CASE ActFails \/ ActAnswers
  BY <1>4 DEF ActFails, ActAnswers
<1>5. ASSUME NEW n \in {"plan", "act", "verify"}, Guarded(n) PROVE AnswerInv'
  BY <1>5, GuardType DEF Guarded
<1>6. ASSUME NEW k, Plan(k) \/ Verify(k) PROVE AnswerInv'
  BY <1>6 DEF Plan, Verify
<1>7. ASSUME NEW c \in Calls, ActRepeats(c) \/ ActCalls(c) PROVE AnswerInv'
  BY <1>7 DEF ActRepeats, ActCalls
<1>8. ASSUME NEW ok \in BOOLEAN, Preview(ok) \/ CallTool(ok) PROVE AnswerInv'
  BY <1>8 DEF Preview, CallTool, CalledTool
<1>9. ASSUME NEW same \in BOOLEAN, Observe(same) PROVE AnswerInv'
  BY <1>9 DEF Observe
<1>10. CASE Approve \/ Reject
  BY <1>10 DEF Approve, Reject, Rejected, Resume
<1>11. CASE Cancel \/ Crash \/ CrashBeforeSaved \/ ClockRuns
  BY <1>11 DEF Cancel, Crash, CrashBeforeSaved, ClockRuns
<1>12. CASE UNCHANGED vars
  BY <1>12
<1> QED
  BY <1>2, <1>3, <1>4, <1>5, <1>6, <1>7, <1>8, <1>9, <1>10, <1>11, <1>12, NextCases

(* A turn that ended has a draft answer or the reason why there is none.   *)
THEOREM TurnsAnswered == Spec => []TurnsAnswer
<1>1. Init => AnswerInv
  BY NoneIsNoNode DEF Init, AnswerInv, TurnsAnswer, Nodes
<1>2. AnswerInv => TurnsAnswer
  BY DEF AnswerInv
<1> QED BY <1>1, <1>2, AnswerStep, AgentFlow, PTL DEF Spec

-----------------------------------------------------------------------------
(* The length of an invocation: each reply of act pays for the two nodes   *)
(* that lead back to it.                                                   *)

HopsInv ==
  /\ node = "intake" => hops = 0
  /\ node = "plan" => hops <= 1
  /\ node \in {"preview", "observe", "verify"} => hops <= 2 * steps + 1
  /\ node = "act" => hops <= 2 * steps + 2
  /\ node = "approve" => hops <= 2 * steps + 3 /\ (~asked => hops <= 2 * steps + 2)
  /\ node = "respond" => hops <= 2 * steps + 3
  /\ node = None => hops <= 2 * steps + 4

LEMMA HopsStep ==
  ASSUME TypeOK, FlowInv, HopsInv, [Next]_vars
  PROVE  HopsInv'
<1>0. steps \in Nat /\ hops \in Nat
  BY AgentAssumption DEF TypeOK
<1> USE <1>0, NoneIsNoNode DEF HopsInv, Nodes, turnVars, history, vars, Turn, Terminate
<1>1. CASE Message \/ Intake
  BY <1>1 DEF Message, Intake
<1>2. CASE Ask
  BY <1>2 DEF Ask
<1>3. CASE Respond
  BY <1>3 DEF Respond
<1>4. CASE ActFails \/ ActAnswers
  BY <1>4 DEF ActFails, ActAnswers
<1>5. ASSUME NEW n \in {"plan", "act", "verify"}, Guarded(n) PROVE HopsInv'
  BY <1>5 DEF Guarded
<1>6. ASSUME NEW k, Plan(k) \/ Verify(k) PROVE HopsInv'
  BY <1>6 DEF Plan, Verify
<1>7. ASSUME NEW c \in Calls, ActRepeats(c) \/ ActCalls(c) PROVE HopsInv'
  BY <1>7 DEF ActRepeats, ActCalls
<1>8. ASSUME NEW ok \in BOOLEAN, Preview(ok) PROVE HopsInv'
  BY <1>8 DEF Preview
<1>9. ASSUME NEW ok \in BOOLEAN, CallTool(ok) PROVE HopsInv'
  BY <1>9 DEF CallTool, CalledTool
<1>10. ASSUME NEW same \in BOOLEAN, Observe(same) PROVE HopsInv'
  BY <1>10 DEF Observe
<1>11. CASE Approve \/ Reject
  BY <1>11 DEF Approve, Reject, Rejected, Resume
<1>12. CASE Cancel \/ Crash \/ ClockRuns
  BY <1>12 DEF Cancel, Crash, ClockRuns
<1>13. CASE CrashBeforeSaved
  BY <1>13 DEF CrashBeforeSaved
<1>14. CASE UNCHANGED vars
  BY <1>14
<1> QED
  BY <1>1, <1>2, <1>3, <1>4, <1>5, <1>6, <1>7, <1>8, <1>9, <1>10, <1>11, <1>12, <1>13,
     <1>14, NextCases

(* No reply of the model makes an invocation of the graph longer than      *)
(* 2 * MaxSteps + 4 nodes.                                                 *)
THEOREM InvocationsBounded == Spec => []InvocationsAreShort
<1>1. Init => HopsInv
  BY NoneIsNoNode DEF Init, HopsInv, Nodes
<1>2. TypeOK /\ HopsInv => InvocationsAreShort
  BY AgentAssumption DEF TypeOK, HopsInv, InvocationsAreShort, Nodes
<1> QED BY <1>1, <1>2, HopsStep, AgentFlow, PTL DEF Spec

-----------------------------------------------------------------------------
(* The pace of the calls: counts runs ahead of the executions. *)

(* The call of the next observe is not made yet.                           *)
Due == node \in {"preview", "approve"} \/ (node = "observe" /\ active /\ ~called)

PaceInv ==
  /\ node = "intake" => made = 0 /\ ran = Zero
  /\ node # "intake" =>
       /\ made <= steps + crashes
       /\ Due => made + 1 <= steps + crashes
       /\ \A c \in Calls :
            /\ counts[c] < RepeatThreshold
            /\ ran[c] <= counts[c] + crashes
            /\ Due /\ pending = c => ran[c] + 1 <= counts[c] + crashes

LEMMA PaceStep ==
  ASSUME TypeOK, FlowInv, HopsInv, PaceInv, [Next]_vars
  PROVE  PaceInv'
<1>0. /\ steps \in Nat /\ made \in Nat /\ crashes \in Nat /\ RepeatThreshold \in Nat \ {0}
      /\ counts \in [Calls -> Nat] /\ ran \in [Calls -> Nat]
      /\ \A c \in Calls : counts[c] \in Nat /\ ran[c] \in Nat /\ Zero[c] = 0
  BY AgentAssumption DEF TypeOK, Zero
<1> USE <1>0, NoneIsNoNode DEF PaceInv, Due, FlowInv, Nodes, turnVars, history, vars, Turn, Terminate
<1>1. CASE Message
  BY <1>1 DEF Message
<1>2. CASE Intake
  BY <1>2 DEF Intake
<1>3. CASE Ask \/ Respond
  BY <1>3 DEF Ask, Respond
<1>4. CASE ActFails \/ ActAnswers
  BY <1>4 DEF ActFails, ActAnswers
<1>5. ASSUME NEW n \in {"plan", "act", "verify"}, Guarded(n) PROVE PaceInv'
  BY <1>5 DEF Guarded
<1>6. ASSUME NEW k, Plan(k) \/ Verify(k) PROVE PaceInv'
  BY <1>6 DEF Plan, Verify
<1>7. ASSUME NEW c \in Calls, ActRepeats(c) PROVE PaceInv'
  BY <1>7 DEF ActRepeats
<1>8. ASSUME NEW c \in Calls, ActCalls(c) PROVE PaceInv'
  <2>1. \A d \in Calls : counts'[d] = IF d = c THEN counts[d] + 1 ELSE counts[d]
    BY <1>8, OneMore DEF ActCalls
  <2>2. /\ node = "act" /\ counts[c] + 1 < RepeatThreshold
        /\ node' # "intake" /\ pending' = c /\ steps' = steps + 1
        /\ UNCHANGED <<ran, made, crashes>>
    BY <1>8 DEF ActCalls, Repeats
  <2> QED BY <2>1, <2>2
<1>9. ASSUME NEW ok \in BOOLEAN, Preview(ok) PROVE PaceInv'
  BY <1>9 DEF Preview
<1>10. ASSUME NEW ok \in BOOLEAN, CallTool(ok) PROVE PaceInv'
  <2>1. Due /\ ~Due' /\ node = "observe" /\ node' = node
    BY <1>10 DEF CallTool, CalledTool
  <2>2. made' = made + 1 /\ UNCHANGED <<steps, counts, crashes>>
    BY <1>10 DEF CallTool, CalledTool
  <2>3. ran' = ran \/ ran' = [ran EXCEPT ![pending] = @ + 1]
    BY <1>10, Zenon DEF CallTool, CalledTool
  <2>4. \A c \in Calls : ran'[c] = ran[c] \/ (c = pending /\ ran'[c] = ran[c] + 1)
    BY <2>3, OneMore
  <2> HIDE DEF Due
  <2> QED BY <2>1, <2>2, <2>4
<1>11. ASSUME NEW same \in BOOLEAN, Observe(same) PROVE PaceInv'
  BY <1>11 DEF Observe
<1>12. CASE Approve
  <2>1. Due /\ node = "approve" /\ node' = "observe"
    BY <1>12 DEF Approve, Resume
  <2>2. UNCHANGED <<steps, counts, crashes, made, ran, pending>>
    BY <1>12 DEF Approve
  <2> HIDE DEF Due
  <2> QED BY <2>1, <2>2
<1>13. CASE Reject
  BY <1>13 DEF Reject, Rejected, Resume
<1>14. CASE Cancel \/ Crash \/ ClockRuns
  BY <1>14 DEF Cancel, Crash, ClockRuns
<1>15. CASE CrashBeforeSaved
  BY <1>15 DEF CrashBeforeSaved, HopsInv
<1>16. CASE UNCHANGED vars
  BY <1>16
<1> QED
  BY <1>1, <1>2, <1>3, <1>4, <1>5, <1>6, <1>7, <1>8, <1>9, <1>10, <1>11, <1>12, <1>13,
     <1>14, <1>15, <1>16, NextCases

(* In a turn a call runs less often than the repeat guard's threshold, and *)
(* no more calls are made than steps taken; each crash adds at most one.   *)
THEOREM CallsPaced == Spec => []CallsArePaced
<1>1. Init => HopsInv /\ PaceInv
  BY AgentAssumption, NoneIsNoNode DEF Init, HopsInv, PaceInv, Due, Zero, Nodes
<1>2. TypeOK /\ PaceInv => CallsArePaced
  BY AgentAssumption DEF TypeOK, PaceInv, CallsArePaced
<1> QED BY <1>1, <1>2, HopsStep, PaceStep, AgentFlow, PTL DEF Spec

-----------------------------------------------------------------------------
(* Approvals *)

(* The token that the next observe presents is an approval not yet used.   *)
ApproveInv == \A c \in NeedsPerson :
  /\ ran[c] <= granted[c]
  /\ node = "observe" /\ active /\ ~called /\ token = c => ran[c] + 1 <= granted[c]

LEMMA ApproveStep ==
  ASSUME TypeOK, FlowInv, ContextInv, ApproveInv, [Next]_vars
  PROVE  ApproveInv'
<1>0. /\ NeedsPerson \subseteq Calls /\ None \notin Calls
      /\ ran \in [Calls -> Nat] /\ granted \in [Calls -> Nat]
      /\ \A c \in Calls : ran[c] \in Nat /\ granted[c] \in Nat /\ Zero[c] = 0
  BY AgentAssumption DEF TypeOK, Zero
<1> USE <1>0, NoneIsNoNode DEF ApproveInv, FlowInv, Nodes, turnVars, history, vars, Turn, Terminate
<1>1. CASE Message \/ Intake
  BY <1>1 DEF Message, Intake
<1>2. CASE Ask \/ Respond
  BY <1>2 DEF Ask, Respond
<1>3. CASE ActFails \/ ActAnswers
  BY <1>3 DEF ActFails, ActAnswers
<1>4. ASSUME NEW n \in {"plan", "act", "verify"}, Guarded(n) PROVE ApproveInv'
  BY <1>4 DEF Guarded
<1>5. ASSUME NEW k, Plan(k) \/ Verify(k) PROVE ApproveInv'
  BY <1>5 DEF Plan, Verify
<1>6. ASSUME NEW c \in Calls, ActRepeats(c) \/ ActCalls(c) PROVE ApproveInv'
  BY <1>6 DEF ActRepeats, ActCalls, ContextInv, ContextIsWhole
<1>7. ASSUME NEW ok \in BOOLEAN, Preview(ok) PROVE ApproveInv'
  BY <1>7 DEF Preview
<1>8. ASSUME NEW ok \in BOOLEAN, CallTool(ok) PROVE ApproveInv'
  <2>1. node = "observe" /\ active /\ ~called /\ called' /\ UNCHANGED granted
    BY <1>8 DEF CallTool, CalledTool
  <2>2. \/ ran' = ran
        \/ /\ ran' = [ran EXCEPT ![pending] = @ + 1]
           /\ pending \notin NeedsPerson \/ token = pending
    BY <1>8, Zenon DEF CallTool, CalledTool
  <2>3. \A c \in NeedsPerson : ran'[c] = ran[c] \/ (token = c /\ ran'[c] = ran[c] + 1)
    BY <2>2, OneMore
  <2> QED BY <2>1, <2>3
<1>9. ASSUME NEW same \in BOOLEAN, Observe(same) PROVE ApproveInv'
  BY <1>9 DEF Observe
<1>10. CASE Approve
  <2>1. token' = pending /\ UNCHANGED ran
    BY <1>10 DEF Approve
  <2>2. \A c \in Calls : granted'[c] = IF c = pending THEN granted[c] + 1 ELSE granted[c]
    BY <1>10, OneMore DEF Approve
  <2> QED BY <2>1, <2>2
<1>11. CASE Reject
  BY <1>11 DEF Reject, Rejected, Resume
<1>12. CASE Cancel \/ Crash \/ CrashBeforeSaved \/ ClockRuns
  BY <1>12 DEF Cancel, Crash, CrashBeforeSaved, ClockRuns
<1>13. CASE UNCHANGED vars
  BY <1>13
<1> QED
  BY <1>1, <1>2, <1>3, <1>4, <1>5, <1>6, <1>7, <1>8, <1>9, <1>10, <1>11, <1>12, <1>13, NextCases

(* A call that needs a person never runs more often than it was approved,  *)
(* whatever is cancelled, lost or asked again.                             *)
THEOREM ApprovalsHold == Spec => []PersonApproves
<1>1. Init => ContextInv /\ ApproveInv
  <2>1. node = None => ContextInv
    BY NoneIsNoNode DEF ContextInv, ContextIsWhole, Nodes
  <2>2. Init => ApproveInv
    BY AgentAssumption, NoneIsNoNode DEF Init, ApproveInv, Zero, Nodes
  <2> QED BY <2>1, <2>2 DEF Init
<1>2. ApproveInv => PersonApproves
  BY DEF ApproveInv, PersonApproves
<1> QED BY <1>1, <1>2, ContextStep, ApproveStep, AgentFlow, PTL DEF Spec
=============================================================================
