-------------------------- MODULE EnvManagerProofs --------------------------
(***************************************************************************)
(* Theorems about the environment manager for every number of starts,      *)
(* ports, slots and stoppers.                                              *)
(***************************************************************************)
EXTENDS EnvManager, FiniteSetTheorems, TLAPS

-----------------------------------------------------------------------------
(* Type correctness *)

(* Only launched handles are registered, checked and terminated: their     *)
(* port, released when they stop, is one.                                  *)
Unlaunched == {"new", "queued", "building"}

HandlesAreLaunched ==
  /\ \A i \in Sids : reg[i] # None => pc[reg[i]] \notin Unlaunched
  /\ \A s \in Stoppers : /\ cur[s] # None => pc[cur[s]] \notin Unlaunched
                         /\ \A h \in todo[s] : pc[h] \notin Unlaunched
                         /\ phase[s] # "ready" => cur[s] # None
  /\ \A c \in Checkers : chk[c] # None => pc[chk[c]] \notin Unlaunched

(* The loop of a stopper over launched handles keeps its types.            *)
LEMMA ProceedType ==
  ASSUME TypeOK, NEW s \in Stoppers, NEW H \in SUBSET Handles, NEW st,
         Proceed(s, H, st)
  PROVE  /\ todo' \in [Stoppers -> SUBSET Handles]
         /\ cur' \in [Stoppers -> {None} \cup Handles]
         /\ phase' \in [Stoppers -> {"ready", "killing", "killed"}]
BY DEF TypeOK, Proceed

(* Every start is typed.                                                   *)
LEMMA StartType ==
  ASSUME TypeOK, NEW h \in Handles,
         Enqueue(h) \/ StartStep(h) \/ StartTimeout(h) \/ CancelStart(h)
  PROVE  TypeOK'
<1> USE EnvAssumption DEF TypeOK, PCs, Ended, States, Live
<1>1. CASE Enqueue(h)
  BY <1>1 DEF Enqueue, stopVars, chkVars
<1>2. CASE Acquire(h)
  BY <1>2 DEF Acquire, stopVars, chkVars
<1>3. CASE GiveUp(h)
  BY <1>3 DEF GiveUp, stopVars, chkVars
<1>4. CASE NotLaunched(h)
  BY <1>4 DEF NotLaunched, stopVars, chkVars
<1>5. ASSUME NEW p \in Ports, NEW written \in BOOLEAN, Launch(h, p, written)
      PROVE  TypeOK'
  BY <1>5 DEF Launch, LaunchOn, stopVars, chkVars
<1>6. CASE Poll(h)
  BY <1>6 DEF Poll, stopVars, chkVars
<1>7. CASE HealthOk(h)
  BY <1>7 DEF HealthOk, stopVars, chkVars
<1>8. CASE HealthBad(h)
  BY <1>8 DEF HealthBad, stopVars, chkVars
<1>9. CASE StartKilled(h)
  BY <1>9 DEF StartKilled, stopVars, chkVars
<1>10. CASE StartFailed(h)
  <2>1. leased' = leased \ {port[h]} /\ slots' \in Nat
    BY <1>10 DEF StartFailed
  <2>2. leased' \subseteq leased
    BY <2>1
  <2>3. pc' \in [Handles -> PCs] /\ state' \in [Handles -> States]
    BY <1>10 DEF StartFailed
  <2> QED BY <1>10, <2>1, <2>2, <2>3 DEF StartFailed, stopVars, chkVars
<1>11. CASE StartTimeout(h)
  BY <1>11 DEF StartTimeout, stopVars, chkVars
<1>12. CASE CancelStart(h)
  BY <1>12 DEF CancelStart, stopVars, chkVars
<1> QED BY <1>1, <1>2, <1>3, <1>4, <1>5, <1>6, <1>7, <1>8, <1>9, <1>10, <1>11, <1>12 DEF StartStep

(* Every termination is typed.                                             *)
LEMMA StopType ==
  ASSUME TypeOK, HandlesAreLaunched, NEW s \in Stoppers,
         StopAll(s) \/ Reap(s) \/ StopStep(s) \/ \E i \in Sids : Stop(s, i)
  PROVE  TypeOK'
<1>1. ASSUME NEW kind, NEW H \in SUBSET Handles, Targets(s, kind, H)
      PROVE  TypeOK'
  <2>1. Proceed(s, H, state)
    BY <1>1 DEF Targets
  <2> QED BY <1>1, <2>1, ProceedType DEF TypeOK, Targets, startVars, chkVars
<1>2. CASE StopAll(s) \/ Reap(s) \/ \E i \in Sids : Stop(s, i)
  <2>1. Active \in SUBSET Handles /\ {h \in Active : idle[h]} \in SUBSET Handles
    BY DEF Active, Registered
  <2>2. \A i \in Sids : reg[i] # None => {reg[i]} \in SUBSET Handles
    BY DEF TypeOK
  <2> QED BY <1>1, <1>2, <2>1, <2>2 DEF StopAll, Reap, Stop
<1>3. CASE Kill(s)
  BY <1>3 DEF TypeOK, Kill, startVars, chkVars, HandlesAreLaunched
<1>4. CASE Terminated(s)
  <2>1. Proceed(s, todo[s], [state EXCEPT ![cur[s]] = "stopped"])
    BY <1>4 DEF Terminated, Released
  <2>2. todo[s] \in SUBSET Handles
    BY DEF TypeOK
  <2>3. leased' = leased \ {port[cur[s]]} /\ slots' \in Nat
    BY <1>4 DEF TypeOK, Terminated, Released
  <2>4. leased' \subseteq leased
    BY <2>3
  <2>5. state' \in [Handles -> States]
    BY <1>4 DEF TypeOK, Terminated, Released, States
  <2>6. /\ todo' \in [Stoppers -> SUBSET Handles]
        /\ cur' \in [Stoppers -> {None} \cup Handles]
        /\ phase' \in [Stoppers -> {"ready", "killing", "killed"}]
    BY <2>1, <2>2, ProceedType
  <2> QED BY <1>4, <2>3, <2>4, <2>5, <2>6
          DEF TypeOK, Terminated, Released, startVars, chkVars
<1> QED BY <1>2, <1>3, <1>4 DEF StopStep

(* Supervision, servers and the exit are typed.                            *)
LEMMA OtherType ==
  ASSUME TypeOK, HandlesAreLaunched,
         \/ \E h \in Handles : Age(h) \/ Boot(h) \/ Crash(h)
         \/ \E c \in Checkers : \/ \E i \in Sids : CheckBegin(c, i)
                                \/ \E ok \in BOOLEAN : CheckEnd(c, ok)
         \/ \E i \in Sids : Touch(i)
         \/ Refresh
         \/ KillAllNow
  PROVE  TypeOK'
<1> USE EnvAssumption
<1>0. Refreshed \in [Handles -> States]
  BY DEF TypeOK, Refreshed, States
<1>1. ASSUME NEW h \in Handles, Age(h) \/ Boot(h) \/ Crash(h)
      PROVE  TypeOK'
  <2>1. CASE Age(h)
    BY <2>1 DEF TypeOK, Age, startVars, stopVars, chkVars
  <2>2. CASE Boot(h)
    BY <2>2 DEF TypeOK, Boot, Live, startVars, stopVars, chkVars
  <2>3. CASE Crash(h)
    BY <2>3 DEF TypeOK, Crash, Live, startVars, stopVars, chkVars
  <2> QED BY <1>1, <2>1, <2>2, <2>3
<1>2. ASSUME NEW c \in Checkers, NEW i \in Sids, CheckBegin(c, i)
      PROVE  TypeOK'
  <2>1. reg[i] \in Handles /\ checks' \in 0..MaxChecks
    BY <1>2 DEF TypeOK, CheckBegin
  <2> QED BY <1>0, <1>2, <2>1 DEF TypeOK, CheckBegin, startVars, stopVars
<1>3. ASSUME NEW c \in Checkers, NEW ok \in BOOLEAN, CheckEnd(c, ok)
      PROVE  TypeOK'
  BY <1>3 DEF TypeOK, CheckEnd, States, startVars, stopVars
<1>4. ASSUME NEW i \in Sids, Touch(i)
      PROVE  TypeOK'
  BY <1>4 DEF TypeOK, Touch, startVars, stopVars, chkVars
<1>5. CASE Refresh
  BY <1>0, <1>5 DEF TypeOK, Refresh, startVars, stopVars, chkVars
<1>6. CASE KillAllNow
  <2>1. /\ proc' \in [Handles -> {"none", "dead"} \cup Live]
        /\ state' \in [Handles -> States] /\ exited' \in BOOLEAN
    BY <1>6 DEF TypeOK, KillAllNow, States
  <2>2. leased' = leased \ {port[h] : h \in Active}
    BY <1>6 DEF KillAllNow
  <2>3. leased' \subseteq leased
    BY <2>2
  <2> QED BY <1>6, <2>1, <2>3 DEF TypeOK, KillAllNow, startVars, stopVars, chkVars
<1> QED BY <1>1, <1>2, <1>3, <1>4, <1>5, <1>6

(* A stopper waits for the kill of one of the handles it was given.        *)
LEMMA ProceedWithin ==
  ASSUME TypeOK, NEW s \in Stoppers, NEW H \in SUBSET Handles, NEW st,
         Proceed(s, H, st)
  PROVE  /\ cur'[s] \in {None} \cup H /\ todo'[s] \subseteq H
         /\ phase'[s] # "ready" => cur'[s] \in H /\ st[cur'[s]] # "stopped"
         /\ phase'[s] # "killed"
         /\ \A q \in Stoppers \ {s} :
              cur'[q] = cur[q] /\ todo'[q] = todo[q] /\ phase'[q] = phase[q]
BY EnvAssumption DEF TypeOK, Proceed

LEMMA StopLaunched ==
  ASSUME TypeOK, HandlesAreLaunched, NEW s \in Stoppers,
         StopAll(s) \/ Reap(s) \/ StopStep(s) \/ \E i \in Sids : Stop(s, i)
  PROVE  HandlesAreLaunched'
<1>1. UNCHANGED <<pc, reg, chk>>
  BY DEF StopAll, Reap, StopStep, Stop, Targets, Kill, Terminated, Released, startVars, chkVars
<1>2. ASSUME NEW H \in SUBSET Handles, NEW st, Proceed(s, H, st),
             \A h \in H : pc[h] \notin Unlaunched
      PROVE  HandlesAreLaunched'
  <2>1. /\ cur'[s] \in {None} \cup H /\ todo'[s] \subseteq H
        /\ phase'[s] # "ready" => cur'[s] \in H
        /\ \A q \in Stoppers \ {s} :
             cur'[q] = cur[q] /\ todo'[q] = todo[q] /\ phase'[q] = phase[q]
    BY <1>2, ProceedWithin
  <2>2. None \notin H
    BY <1>2, EnvAssumption
  <2> QED BY <1>1, <1>2, <2>1, <2>2 DEF HandlesAreLaunched
<1>3. \A h \in Active : pc[h] \notin Unlaunched
  BY EnvAssumption DEF Active, Registered, HandlesAreLaunched
<1>4. CASE StopAll(s) \/ Reap(s)
  <2>1. PICK H \in SUBSET Active : Proceed(s, H, state)
    BY <1>4 DEF StopAll, Reap, Targets
  <2>2. H \in SUBSET Handles
    BY DEF Active, Registered
  <2> QED BY <1>2, <1>3, <2>1, <2>2
<1>5. ASSUME NEW i \in Sids, Stop(s, i)
      PROVE  HandlesAreLaunched'
  <2>1. Proceed(s, {reg[i]}, state) /\ reg[i] # None
    BY <1>5 DEF Stop, Targets
  <2>2. {reg[i]} \in SUBSET Handles /\ pc[reg[i]] \notin Unlaunched
    BY <2>1 DEF TypeOK, HandlesAreLaunched
  <2> QED BY <1>2, <2>1, <2>2
<1>6. CASE Kill(s)
  BY <1>1, <1>6 DEF TypeOK, Kill, HandlesAreLaunched
<1>7. CASE Terminated(s)
  <2>1. Proceed(s, todo[s], [state EXCEPT ![cur[s]] = "stopped"])
    BY <1>7 DEF Terminated, Released
  <2> QED BY <1>2, <2>1 DEF TypeOK, HandlesAreLaunched
<1> QED BY <1>4, <1>5, <1>6, <1>7 DEF StopStep

LEMMA StartLaunched ==
  ASSUME TypeOK, HandlesAreLaunched, NEW h \in Handles,
         Enqueue(h) \/ StartStep(h) \/ StartTimeout(h) \/ CancelStart(h)
  PROVE  HandlesAreLaunched'
<1>1. /\ UNCHANGED <<cur, todo, phase, chk>>
      /\ \A g \in Handles \ {h} : pc'[g] = pc[g]
      /\ pc[h] \notin Unlaunched => pc'[h] \notin Unlaunched
  <2> USE DEF TypeOK, Unlaunched, stopVars, chkVars
  <2>1. CASE Enqueue(h) \/ Acquire(h) \/ GiveUp(h) \/ NotLaunched(h)
    BY <2>1 DEF Enqueue, Acquire, GiveUp, NotLaunched
  <2>2. ASSUME NEW p \in Ports, NEW written \in BOOLEAN, Launch(h, p, written)
        PROVE  <1>1!1 /\ <1>1!2 /\ <1>1!3
    BY <2>2 DEF Launch, LaunchOn
  <2>3. CASE Poll(h) \/ HealthOk(h) \/ HealthBad(h) \/ StartTimeout(h)
    BY <2>3 DEF Poll, HealthOk, HealthBad, StartTimeout
  <2>4. CASE StartKilled(h) \/ StartFailed(h) \/ CancelStart(h)
    BY <2>4 DEF StartKilled, StartFailed, CancelStart
  <2> QED BY <2>1, <2>2, <2>3, <2>4 DEF StartStep
<1>2. CASE UNCHANGED reg
  BY <1>1, <1>2 DEF TypeOK, HandlesAreLaunched
<1>3. CASE ~UNCHANGED reg
  <2>1. reg' = [reg EXCEPT ![SidOf[h]] = h] /\ pc'[h] \notin Unlaunched
    BY <1>3 DEF TypeOK, Unlaunched, Enqueue, StartStep, Acquire, GiveUp, NotLaunched, Launch, LaunchOn,
                Poll, HealthOk, HealthBad, StartKilled, StartFailed, StartTimeout, CancelStart
  <2> QED BY <1>1, <2>1, EnvAssumption DEF TypeOK, HandlesAreLaunched
<1> QED BY <1>2, <1>3

LEMMA OtherLaunched ==
  ASSUME TypeOK, HandlesAreLaunched,
         \/ \E h \in Handles : Age(h) \/ Boot(h) \/ Crash(h)
         \/ \E c \in Checkers : \/ \E i \in Sids : CheckBegin(c, i)
                                \/ \E ok \in BOOLEAN : CheckEnd(c, ok)
         \/ \E i \in Sids : Touch(i)
         \/ Refresh
         \/ KillAllNow
  PROVE  HandlesAreLaunched'
<1>1. UNCHANGED <<pc, reg, todo, cur, phase>>
  BY DEF Age, Boot, Crash, CheckBegin, CheckEnd, Touch, Refresh, KillAllNow, startVars, stopVars
<1>2. \A c \in Checkers : \/ chk'[c] \in {None, chk[c]}
                          \/ \E i \in Sids : reg[i] # None /\ chk'[c] = reg[i]
  BY DEF TypeOK, Age, Boot, Crash, CheckBegin, CheckEnd, Touch, Refresh, KillAllNow, chkVars
<1> QED BY <1>1, <1>2 DEF HandlesAreLaunched

(* Types are inductive with HandlesAreLaunched.                            *)
TypeInv == TypeOK /\ HandlesAreLaunched

LEMMA InitTyped ==
  ASSUME Init
  PROVE  TypeInv
<1>1. /\ pc \in [Handles -> PCs] /\ state \in [Handles -> States]
      /\ port \in [Handles -> {None} \cup Ports]
      /\ proc \in [Handles -> {"none", "dead"} \cup Live] /\ idle \in [Handles -> BOOLEAN]
  BY DEF Init, PCs, States
<1>2. /\ reg \in [Sids -> {None} \cup Handles] /\ leased \subseteq Ports
      /\ todo \in [Stoppers -> SUBSET Handles] /\ cur \in [Stoppers -> {None} \cup Handles]
      /\ phase \in [Stoppers -> {"ready", "killing", "killed"}]
      /\ chk \in [Checkers -> {None} \cup Handles] /\ exited \in BOOLEAN
  BY DEF Init
<1>3. slots \in Nat /\ checks \in 0..MaxChecks
  BY EnvAssumption DEF Init
<1>4. HandlesAreLaunched
  BY DEF Init, HandlesAreLaunched
<1> QED BY <1>1, <1>2, <1>3, <1>4 DEF TypeInv, TypeOK

LEMMA TypeInvStep ==
  ASSUME TypeInv, [Next]_vars
  PROVE  TypeInv'
<1>1. CASE UNCHANGED vars
  BY <1>1 DEF TypeInv, TypeOK, HandlesAreLaunched, vars, startVars, stopVars, chkVars
<1>2. CASE Next
  BY <1>2, StartType, StopType, OtherType, StartLaunched, StopLaunched, OtherLaunched
     DEF TypeInv, Next
<1> QED BY <1>1, <1>2

LEMMA TypeInvHolds == Spec => []TypeInv
<1>1. Init => TypeInv
  BY InitTyped
<1>2. TypeInv /\ [Next]_vars => TypeInv'
  BY TypeInvStep
<1> QED BY <1>1, <1>2, PTL DEF Spec

(* The manager's types hold whichever tasks start, check and stop.         *)
THEOREM EnvTypeCorrect == Spec => []TypeOK
BY TypeInvHolds, PTL DEF TypeInv

-----------------------------------------------------------------------------
(* Live servers are listed *)

(* What is about to be marked stopped has been killed.                     *)
KilledAreDead ==
  /\ \A h \in Handles : pc[h] = "killed" => proc[h] \notin Live
  /\ \A s \in Stoppers : phase[s] = "killed" => proc[cur[s]] \notin Live

(* Servers that no handle has launched are not alive.                      *)
LiveAreLaunched == \A h \in Handles : proc[h] \in Live => pc[h] \notin Unlaunched

ListedInv == TypeInv /\ KilledAreDead /\ LiveAreLaunched /\ LiveIsListed

(* Starts that share no session id overwrite no handle.                    *)
OwnSid == \A g, h \in Handles : g # h => SidOf[g] # SidOf[h]

LEMMA StartListed ==
  ASSUME ListedInv, ~exited, OwnSid, NEW h \in Handles,
         Enqueue(h) \/ StartStep(h) \/ StartTimeout(h) \/ CancelStart(h)
  PROVE  KilledAreDead' /\ LiveAreLaunched' /\ LiveIsListed'
<1> USE DEF ListedInv, TypeInv, TypeOK, LiveIsListed, KilledAreDead, LiveAreLaunched,
            Active, Registered, stopVars, Unlaunched
<1>1. CASE Enqueue(h) \/ Acquire(h) \/ GiveUp(h)
  BY <1>1 DEF Enqueue, Acquire, GiveUp
<1>2. CASE NotLaunched(h)
  BY <1>2 DEF NotLaunched
<1>3. ASSUME NEW p \in Ports, NEW written \in BOOLEAN, Launch(h, p, written)
      PROVE  KilledAreDead' /\ LiveAreLaunched' /\ LiveIsListed'
  <2>1. /\ reg' = [reg EXCEPT ![SidOf[h]] = h] /\ state' = [state EXCEPT ![h] = "starting"]
        /\ proc' = [proc EXCEPT ![h] = "booting"] /\ UNCHANGED <<phase, cur, exited>>
        /\ pc[h] = "building" /\ pc' \in {[pc EXCEPT ![h] = "polling"], [pc EXCEPT ![h] = "failed"]}
    BY <1>3 DEF Launch, LaunchOn
  <2>2. \A s \in Stoppers : phase[s] = "killed" => cur[s] # h /\ cur[s] \in Handles
    BY <2>1 DEF HandlesAreLaunched
  <2>3. KilledAreDead' /\ LiveAreLaunched'
    BY <2>1, <2>2
  <2>0. SidOf \in [Handles -> Sids]
    BY EnvAssumption
  <2>4. reg'[SidOf[h]] = h /\ state'[h] = "starting" /\ ~exited'
    BY <2>0, <2>1
  <2>5. ASSUME NEW g \in Handles \ {h}
        PROVE  reg'[SidOf[g]] = reg[SidOf[g]] /\ state'[g] = state[g] /\ proc'[g] = proc[g]
    BY <2>0, <2>1 DEF OwnSid
  <2>6. LiveIsListed'
    BY <2>4, <2>5
  <2> QED BY <2>3, <2>6
<1>4. CASE Poll(h) \/ StartTimeout(h)
  BY <1>4 DEF Poll, StartTimeout
<1>5. CASE HealthOk(h) \/ HealthBad(h)
  BY <1>5 DEF HealthOk, HealthBad
<1>6. CASE StartKilled(h)
  BY <1>6 DEF StartKilled, Live
<1>7. CASE StartFailed(h)
  BY <1>7 DEF StartFailed
<1>8. CASE CancelStart(h)
  BY <1>8 DEF CancelStart
<1> QED BY <1>1, <1>2, <1>3, <1>4, <1>5, <1>6, <1>7, <1>8 DEF StartStep

LEMMA StopListed ==
  ASSUME ListedInv, ~exited, NEW s \in Stoppers,
         StopAll(s) \/ Reap(s) \/ StopStep(s) \/ \E i \in Sids : Stop(s, i)
  PROVE  KilledAreDead' /\ LiveAreLaunched' /\ LiveIsListed'
<1> USE DEF ListedInv, TypeInv, LiveIsListed, LiveAreLaunched, Active, Registered
<1>1. UNCHANGED <<pc, reg, exited>>
  BY DEF StopAll, Reap, StopStep, Stop, Targets, Kill, Terminated, Released, startVars
<1>2. CASE StopAll(s) \/ Reap(s) \/ \E i \in Sids : Stop(s, i)
  <2>1. \E H \in SUBSET Handles : Proceed(s, H, state)
    <3>1. CASE StopAll(s)
      BY <3>1 DEF StopAll, Targets
    <3>2. CASE Reap(s)
      <4>1. {h \in Active : idle[h]} \in SUBSET Handles
        OBVIOUS
      <4> QED BY <3>2, <4>1 DEF Reap, Targets
    <3>3. ASSUME NEW i \in Sids, Stop(s, i)
          PROVE  \E H \in SUBSET Handles : Proceed(s, H, state)
      <4>1. {reg[i]} \in SUBSET Handles
        BY <3>3 DEF TypeOK, Stop
      <4> QED BY <3>3, <4>1 DEF Stop, Targets
    <3> QED BY <1>2, <3>1, <3>2, <3>3
  <2>2. UNCHANGED <<proc, state>>
    BY <1>2 DEF StopAll, Reap, Stop, Targets
  <2>3. phase'[s] # "killed" /\ \A q \in Stoppers \ {s} : cur'[q] = cur[q] /\ phase'[q] = phase[q]
    BY <2>1, ProceedWithin
  <2> QED BY <1>1, <2>2, <2>3 DEF KilledAreDead
<1>3. CASE Kill(s)
  BY <1>1, <1>3 DEF Kill, TypeOK, HandlesAreLaunched, KilledAreDead, Live
<1>4. CASE Terminated(s)
  <2>1. /\ proc[cur[s]] \notin Live /\ UNCHANGED proc
        /\ state' = [state EXCEPT ![cur[s]] = "stopped"]
        /\ Proceed(s, todo[s], [state EXCEPT ![cur[s]] = "stopped"])
    BY <1>4 DEF Terminated, Released, KilledAreDead
  <2>2. phase'[s] # "killed" /\ \A q \in Stoppers \ {s} : cur'[q] = cur[q] /\ phase'[q] = phase[q]
    BY <2>1, ProceedWithin DEF TypeOK
  <2>3. LiveIsListed'
    BY <1>1, <2>1 DEF TypeOK
  <2> QED BY <1>1, <2>1, <2>2, <2>3 DEF KilledAreDead
<1> QED BY <1>2, <1>3, <1>4 DEF StopStep

LEMMA OtherListed ==
  ASSUME ListedInv, ~exited,
         \/ \E h \in Handles : Age(h) \/ Boot(h) \/ Crash(h)
         \/ \E c \in Checkers : \/ \E i \in Sids : CheckBegin(c, i)
                                \/ \E ok \in BOOLEAN : CheckEnd(c, ok)
         \/ \E i \in Sids : Touch(i)
         \/ Refresh
         \/ KillAllNow
  PROVE  KilledAreDead' /\ LiveAreLaunched' /\ LiveIsListed'
<1> USE DEF ListedInv, TypeInv, TypeOK, LiveIsListed, KilledAreDead, LiveAreLaunched,
            Active, Registered, startVars, stopVars
<1>1. ASSUME NEW h \in Handles, Age(h) \/ Boot(h) \/ Crash(h)
      PROVE  KilledAreDead' /\ LiveAreLaunched' /\ LiveIsListed'
  <2>1. /\ UNCHANGED <<pc, reg, state, phase, cur, exited>>
        /\ \A g \in Handles : proc'[g] \in Live => proc[g] \in Live
    BY <1>1 DEF Age, Boot, Crash, Live
  <2>2. \A s \in Stoppers : phase[s] = "killed" => cur[s] \in Handles
    BY DEF HandlesAreLaunched
  <2> QED BY <2>1, <2>2
<1>2. ASSUME NEW c \in Checkers, NEW i \in Sids, CheckBegin(c, i)
      PROVE  KilledAreDead' /\ LiveAreLaunched' /\ LiveIsListed'
  BY <1>2 DEF CheckBegin, Refreshed
<1>3. ASSUME NEW c \in Checkers, NEW ok \in BOOLEAN, CheckEnd(c, ok)
      PROVE  KilledAreDead' /\ LiveAreLaunched' /\ LiveIsListed'
  BY <1>3 DEF CheckEnd
<1>4. ASSUME NEW i \in Sids, Touch(i)
      PROVE  KilledAreDead' /\ LiveAreLaunched' /\ LiveIsListed'
  BY <1>4 DEF Touch
<1>5. CASE Refresh
  BY <1>5 DEF Refresh, Refreshed
<1>6. CASE KillAllNow
  <2>1. \A g \in Handles : proc'[g] \notin Live
    BY <1>6 DEF KillAllNow, Live
  <2>2. UNCHANGED <<pc, phase, cur>>
    BY <1>6 DEF KillAllNow
  <2>3. \A s \in Stoppers : phase[s] = "killed" => cur[s] \in Handles
    BY DEF HandlesAreLaunched
  <2> QED BY <2>1, <2>2, <2>3
<1> QED BY <1>1, <1>2, <1>3, <1>4, <1>5, <1>6

(* Whatever fails and whoever terminates, every live server has a          *)
(* registered, active handle that reap_idle, stop_all and the cleanup at   *)
(* exit (kill_all_now) see, unless two starts were given one session id.   *)
THEOREM NoServerIsOrphaned ==
  ASSUME OwnSid
  PROVE  Spec => []LiveIsListed
<1>1. Init => ListedInv
  <2> SUFFICES ASSUME Init
               PROVE  ListedInv
    OBVIOUS
  <2>1. TypeInv
    BY InitTyped
  <2>2. KilledAreDead /\ LiveAreLaunched /\ LiveIsListed
    BY DEF Init, KilledAreDead, LiveAreLaunched, LiveIsListed, Live
  <2> QED BY <2>1, <2>2 DEF ListedInv
<1>2. ListedInv /\ TypeInv' /\ [Next]_vars => ListedInv'
  <2> SUFFICES ASSUME ListedInv, TypeInv', [Next]_vars
               PROVE  KilledAreDead' /\ LiveAreLaunched' /\ LiveIsListed'
    BY DEF ListedInv
  <2>1. CASE UNCHANGED vars
    BY <2>1 DEF ListedInv, KilledAreDead, LiveAreLaunched, LiveIsListed, Active, Registered,
                vars, startVars, stopVars
  <2>2. CASE Next
    BY <2>2, StartListed, StopListed, OtherListed DEF Next
  <2> QED BY <2>1, <2>2
<1>3. ListedInv => LiveIsListed
  BY DEF ListedInv
<1> QED BY <1>1, <1>2, <1>3, TypeInvHolds, PTL DEF Spec

-----------------------------------------------------------------------------
(* Slots and ports come back *)

(* A start holds a slot until it has failed, and then its environment      *)
(* until somebody stops it.                                                *)
Holding == {"building", "polling", "health", "killing", "killed"}
Holders == {h \in Handles : pc[h] \in Holding \/ (pc[h] = "returned" /\ state[h] # "stopped")}

(* A slot given up with its holder, or kept with it, is counted; the       *)
(* second termination of one handle gives back a slot too many.            *)
LEMMA SlotsCount ==
  ASSUME NEW H, IsFiniteSet(H), NEW x, NEW n \in Nat, NEW m \in Nat, n + Cardinality(H) >= MaxEnvs
  PROVE  /\ m \in {n, n + 1} => m + Cardinality(H) >= MaxEnvs
         /\ m \in {n, n + 1} => /\ IsFiniteSet(H \cup {x})
                                /\ m + Cardinality(H \cup {x}) >= MaxEnvs
         /\ m = n + 1 => /\ IsFiniteSet(H \ {x})
                         /\ m + Cardinality(H \ {x}) >= MaxEnvs
         /\ n = m + 1 /\ x \notin H => /\ IsFiniteSet(H \cup {x})
                                       /\ m + Cardinality(H \cup {x}) >= MaxEnvs
<1>1. /\ Cardinality(H) \in Nat /\ IsFiniteSet(H \cup {x}) /\ IsFiniteSet(H \ {x})
      /\ Cardinality(H \cup {x}) = IF x \in H THEN Cardinality(H) ELSE Cardinality(H) + 1
      /\ Cardinality(H \ {x}) = IF x \in H THEN Cardinality(H) - 1 ELSE Cardinality(H)
      /\ Cardinality(H \cup {x}) \in Nat /\ Cardinality(H \ {x}) \in Nat
  BY FS_CardinalityType, FS_AddElement, FS_RemoveElement
<1> QED BY <1>1, EnvAssumption

LEMMA SlotsKept ==
  ASSUME NEW x, IsFiniteSet(Holders), slots \in Nat, slots' \in Nat,
         slots + Cardinality(Holders) >= MaxEnvs,
         \/ slots' \in {slots, slots + 1} /\ Holders' \in {Holders, Holders \cup {x}}
         \/ slots' = slots + 1 /\ Holders' = Holders \ {x}
         \/ slots = slots' + 1 /\ Holders' = Holders \cup {x} /\ x \notin Holders
  PROVE  IsFiniteSet(Holders') /\ slots' + Cardinality(Holders') >= MaxEnvs
BY SlotsCount, Zenon

(* What may still be given back: slots are counted, and a leased port is   *)
(* the port of an active handle.                                           *)
GivenBackInv ==
  /\ \A h \in Handles : pc[h] \in {"polling", "health", "killing", "killed", "returned"} =>
       reg[SidOf[h]] = h /\ state[h] # "none"
  /\ IsFiniteSet(Holders)
  /\ slots + Cardinality(Holders) >= MaxEnvs
  /\ leased \subseteq {port[h] : h \in Active}

LEMMA StartGivesBack ==
  ASSUME TypeInv, OwnSid, GivenBackInv, NEW h \in Handles,
         Enqueue(h) \/ StartStep(h) \/ StartTimeout(h) \/ CancelStart(h)
  PROVE  GivenBackInv'
<1> USE EnvAssumption DEF TypeInv, TypeOK, GivenBackInv, Holding
<1> DEFINE Known   == \A g \in Handles : pc[g] \in {"polling", "health", "killing", "killed", "returned"} =>
                        reg[SidOf[g]] = g /\ state[g] # "none"
           Counted == IsFiniteSet(Holders) /\ slots + Cardinality(Holders) >= MaxEnvs
           Leases  == leased \subseteq {port[g] : g \in Active}
<1>1. ASSUME slots' \in Nat,
             \/ slots' \in {slots, slots + 1} /\ Holders' \in {Holders, Holders \cup {h}}
             \/ slots' = slots + 1 /\ Holders' = Holders \ {h}
             \/ slots = slots' + 1 /\ Holders' = Holders \cup {h} /\ h \notin Holders
      PROVE  Counted'
  BY <1>1, SlotsKept
<1>2. CASE Enqueue(h) \/ GiveUp(h)
  <2>1. Holders' = Holders /\ Active' = Active /\ UNCHANGED <<slots, leased, port, reg, state>>
    BY <1>2 DEF Enqueue, GiveUp, Holders, Active, Registered
  <2> QED BY <1>2, <2>1 DEF Enqueue, GiveUp
<1>3. CASE Acquire(h)
  <2>1. /\ Holders' = Holders \cup {h} /\ h \notin Holders /\ slots' \in Nat /\ slots = slots' + 1
        /\ Active' = Active /\ UNCHANGED <<leased, port, reg, state>>
    BY <1>3 DEF Acquire, Holders, Active, Registered
  <2> QED BY <1>1, <1>3, <2>1 DEF Acquire
<1>4. CASE NotLaunched(h)
  <2>1. /\ Holders' = Holders \ {h} /\ slots' = slots + 1
        /\ Active' = Active /\ UNCHANGED <<leased, port, reg, state>>
    BY <1>4 DEF NotLaunched, Holders, Active, Registered
  <2> QED BY <1>1, <1>4, <2>1 DEF NotLaunched
<1>5. ASSUME NEW p \in Ports, NEW written \in BOOLEAN, Launch(h, p, written)
      PROVE  GivenBackInv'
  <2>1. /\ pc[h] = "building" /\ leased' = leased \cup {p} /\ port' = [port EXCEPT ![h] = p]
        /\ state' = [state EXCEPT ![h] = "starting"] /\ reg' = [reg EXCEPT ![SidOf[h]] = h]
        /\ \/ pc' = [pc EXCEPT ![h] = "polling"] /\ slots' = slots
           \/ pc' = [pc EXCEPT ![h] = "failed"] /\ slots' = slots + 1
    BY <1>5 DEF Launch, LaunchOn
  <2>2. \A g \in Handles \ {h} : /\ reg'[SidOf[g]] = reg[SidOf[g]] /\ state'[g] = state[g]
                                 /\ port'[g] = port[g] /\ pc'[g] = pc[g]
    BY <2>1 DEF OwnSid
  <2>3. reg'[SidOf[h]] = h /\ state'[h] = "starting" /\ port'[h] = p
    BY <2>1
  <2>4. Active' = Active \cup {h}
    BY <2>2, <2>3 DEF Active, Registered
  <2>5. Leases'
    <3>1. h \in Active' /\ Active \subseteq Active'
      BY <2>4
    <3>2. ~(pc[h] \notin Unlaunched)
      BY <2>1 DEF Unlaunched
    <3>3. h \notin Active
      BY <3>2 DEF HandlesAreLaunched, Active, Registered
    <3>4. \A g \in Active : port'[g] = port[g]
      BY <2>2, <3>3 DEF Active, Registered
    <3> QED BY <2>1, <2>3, <3>1, <3>4
  <2>6. Known'
    BY <2>1, <2>2, <2>3
  <2>7. Holders' \in {Holders, Holders \ {h}} /\ (Holders' = Holders \ {h} => slots' = slots + 1)
    BY <2>1, <2>2 DEF Holders
  <2>8. Counted'
    BY <1>1, <2>1, <2>7
  <2> QED BY <2>5, <2>6, <2>8
<1>6. ASSUME Active \subseteq Active', UNCHANGED <<leased, port>>
      PROVE  Leases'
  BY <1>6
<1>7. CASE Poll(h) \/ StartTimeout(h) \/ HealthOk(h) \/ HealthBad(h) \/ StartKilled(h)
  <2>1. /\ UNCHANGED <<slots, leased, port, reg>> /\ pc[h] \in {"polling", "health", "killing"}
        /\ pc'[h] \in {"polling", "health", "killing", "killed", "returned"}
        /\ state'[h] \in {state[h], "healthy", "unhealthy"}
        /\ pc'[h] = "returned" => state'[h] = "healthy"
        /\ \A g \in Handles \ {h} : pc'[g] = pc[g] /\ state'[g] = state[g]
    BY <1>7 DEF Poll, StartTimeout, HealthOk, HealthBad, StartKilled
  <2>2. Known'
    BY <2>1
  <2>3. Holders' = Holders
    BY <2>1 DEF Holders
  <2>4. Active \subseteq Active'
    BY <2>1 DEF Active, Registered
  <2> QED BY <1>6, <2>1, <2>2, <2>3, <2>4
<1>8. CASE CancelStart(h)
  <2>1. /\ UNCHANGED <<leased, port, reg, state>> /\ pc[h] = "polling"
        /\ \/ pc' = [pc EXCEPT ![h] = "killing"] /\ slots' = slots
           \/ pc' = [pc EXCEPT ![h] = "failed"] /\ slots' = slots + 1
    BY <1>8 DEF CancelStart
  <2>2. /\ Holders' \in {Holders, Holders \ {h}} /\ (Holders' = Holders \ {h} => slots' = slots + 1)
        /\ Active' = Active /\ Known'
    BY <2>1 DEF Holders, Active, Registered
  <2> QED BY <1>1, <1>6, <2>1, <2>2
<1>9. CASE StartFailed(h)
  <2>1. /\ UNCHANGED <<port, reg>> /\ pc[h] = "killed" /\ slots' = slots + 1
        /\ leased' = leased \ {port[h]} /\ state' = [state EXCEPT ![h] = "stopped"]
        /\ pc' = [pc EXCEPT ![h] = "failed"]
    BY <1>9 DEF StartFailed
  <2>2. Holders' = Holders \ {h} /\ Active \ {h} \subseteq Active' /\ Known'
    BY <2>1 DEF Holders, Active, Registered
  <2>3. \A p \in leased : \E g \in Active : port[g] = p
    OBVIOUS
  <2>4. \A p \in leased' : \E g \in Active' : port'[g] = p
    BY <2>1, <2>2, <2>3
  <2>5. Counted'
    BY <1>1, <2>1, <2>2
  <2> QED BY <2>2, <2>4, <2>5
<1> QED BY <1>2, <1>3, <1>4, <1>5, <1>7, <1>8, <1>9 DEF StartStep

LEMMA StopGivesBack ==
  ASSUME TypeInv, GivenBackInv, NEW s \in Stoppers,
         StopAll(s) \/ Reap(s) \/ StopStep(s) \/ \E i \in Sids : Stop(s, i)
  PROVE  GivenBackInv'
<1> USE EnvAssumption DEF TypeInv, TypeOK, GivenBackInv
<1>1. CASE StopAll(s) \/ Reap(s) \/ Kill(s) \/ \E i \in Sids : Stop(s, i)
  <2>1. UNCHANGED <<pc, port, state, reg, slots, leased>>
    BY <1>1 DEF StopAll, Reap, Stop, Targets, Kill, startVars
  <2>2. Holders' = Holders /\ Active' = Active
    BY <2>1 DEF Holders, Active, Registered
  <2> QED BY <2>1, <2>2
<1>2. CASE Terminated(s)
  <2>1. /\ UNCHANGED <<pc, port, reg>> /\ slots' = slots + 1 /\ leased' = leased \ {port[cur[s]]}
        /\ state' = [state EXCEPT ![cur[s]] = "stopped"]
    BY <1>2 DEF Terminated, Released, startVars
  <2>2. /\ Holders' \in {Holders, Holders \ {cur[s]}} /\ Active \ {cur[s]} \subseteq Active'
        /\ \A h \in Handles : state[h] # "none" => state'[h] # "none"
    BY <2>1 DEF Holders, Active, Registered
  <2>3. IsFiniteSet(Holders') /\ slots' + Cardinality(Holders') >= MaxEnvs
    <3>1. slots \in Nat /\ slots' \in Nat
      BY <2>1
    <3> QED BY <2>1, <2>2, <3>1, SlotsKept
  <2>4. \A p \in leased : \E g \in Active : port[g] = p
    OBVIOUS
  <2>5. \A p \in leased' : \E g \in Active' : port'[g] = p
    BY <2>1, <2>2, <2>4
  <2>6. leased' \subseteq {port'[g] : g \in Active'}
    BY <2>5
  <2>7. \A h \in Handles : pc'[h] \in {"polling", "health", "killing", "killed", "returned"} =>
          reg'[SidOf[h]] = h /\ state'[h] # "none"
    BY <2>1, <2>2
  <2> QED BY <2>3, <2>6, <2>7
<1> QED BY <1>1, <1>2 DEF StopStep

LEMMA OtherGivesBack ==
  ASSUME TypeInv, GivenBackInv,
         \/ \E h \in Handles : Age(h) \/ Boot(h) \/ Crash(h)
         \/ \E c \in Checkers : \/ \E i \in Sids : CheckBegin(c, i)
                                \/ \E ok \in BOOLEAN : CheckEnd(c, ok)
         \/ \E i \in Sids : Touch(i)
         \/ Refresh
  PROVE  GivenBackInv'
<1> USE EnvAssumption DEF TypeInv, TypeOK, GivenBackInv
<1>1. UNCHANGED <<pc, port, reg, slots, leased>>
  BY DEF Age, Boot, Crash, CheckBegin, CheckEnd, Touch, Refresh, startVars
<1>2. CASE \/ \E h \in Handles : Age(h) \/ Boot(h) \/ Crash(h)
           \/ \E c \in Checkers, i \in Sids : CheckBegin(c, i)
           \/ \E i \in Sids : Touch(i)
           \/ Refresh
  <2>1. state' \in {state, Refreshed}
    BY <1>2 DEF Age, Boot, Crash, CheckBegin, Touch, Refresh
  <2>2. Holders' = Holders /\ Active' = Active /\ \A h \in Handles : state'[h] = "none" <=> state[h] = "none"
    BY <1>1, <2>1 DEF Holders, Active, Registered, Refreshed
  <2> QED BY <1>1, <2>2
<1>3. ASSUME NEW c \in Checkers, NEW ok \in BOOLEAN, CheckEnd(c, ok)
      PROVE  GivenBackInv'
  <2>1. /\ chk[c] \in Handles
        /\ state' \in {[state EXCEPT ![chk[c]] = st] : st \in {"healthy", "unhealthy"}}
    BY <1>3 DEF CheckEnd
  <2>2. /\ Holders' \in {Holders, Holders \cup {chk[c]}} /\ Active \subseteq Active'
        /\ \A h \in Handles : state[h] # "none" => state'[h] # "none"
    BY <1>1, <2>1 DEF Holders, Active, Registered
  <2>3. IsFiniteSet(Holders') /\ slots' + Cardinality(Holders') >= MaxEnvs
    BY <1>1, <2>2, SlotsKept
  <2> QED BY <1>1, <2>1, <2>2, <2>3
<1> QED BY <1>2, <1>3

(* However starts fail and whoever terminates, and however often, when     *)
(* every start has ended and no environment is active, no slot and no port *)
(* is missing (EnvManager.start and _terminate), unless two starts were    *)
(* given one session id.                                                   *)
THEOREM NothingIsLeaked ==
  ASSUME OwnSid
  PROVE  Spec => []NothingLeaks
<1> DEFINE Inv == exited \/ GivenBackInv
<1>1. Init => Inv
  <2> SUFFICES ASSUME Init
               PROVE  GivenBackInv
    OBVIOUS
  <2>1. Holders = {}
    BY DEF Init, Holders, Holding
  <2>2. slots + Cardinality(Holders) >= MaxEnvs /\ IsFiniteSet(Holders)
    BY <2>1, FS_EmptySet, EnvAssumption DEF Init
  <2> QED BY <2>2 DEF Init, GivenBackInv
<1>2. TypeInv /\ Inv /\ [Next]_vars => Inv'
  <2> SUFFICES ASSUME TypeInv, Inv, [Next]_vars
               PROVE  Inv'
    OBVIOUS
  <2>1. CASE UNCHANGED vars
    BY <2>1 DEF GivenBackInv, Holders, Active, Registered, vars, startVars
  <2>2. CASE Next
    <3>1. CASE KillAllNow
      BY <3>1 DEF KillAllNow
    <3>2. CASE ~KillAllNow
      BY <2>2, <3>2, StartGivesBack, StopGivesBack, OtherGivesBack DEF Next
    <3> QED BY <3>1, <3>2
  <2> QED BY <2>1, <2>2
<1>3. TypeInv /\ Inv => NothingLeaks
  <2> SUFFICES ASSUME TypeInv, GivenBackInv, Active = {}, ~exited,
                      \A h \in Handles : pc[h] \in {"new"} \cup Ended
               PROVE  slots >= MaxEnvs /\ leased = {}
    BY DEF NothingLeaks
  <2>1. Holders = {}
    BY EnvAssumption DEF TypeInv, TypeOK, GivenBackInv, Holders, Holding, Active, Registered, Ended, States
  <2>2. Cardinality(Holders) = 0 /\ slots \in Nat
    BY <2>1, FS_EmptySet DEF TypeInv, TypeOK
  <2> QED BY <2>2, EnvAssumption DEF GivenBackInv
<1> QED BY <1>1, <1>2, <1>3, TypeInvHolds, PTL DEF Spec

-----------------------------------------------------------------------------
(* Ports and slots when only the supervisor terminates *)

(* One supervisor reaps, and neither clients nor health requests change    *)
(* what the handles are.                                                   *)
Supervised ==
  /\ Checkers = {}
  /\ \A s, t \in Stoppers : s = t
  /\ \A s \in Stoppers : Jobs[s] \subseteq {"reap"}

(* EnvHandles that are not stopped: each owns the lease of its port.       *)
Unstopped == {h \in Handles : state[h] \notin {"none", "stopped"}}

(* A start that goes on is not stopped under its feet; what the supervisor *)
(* terminates has been started, is terminated once, and is dead by then.   *)
TasksApart ==
  /\ \A h \in Handles : /\ pc[h] \in Unlaunched => state[h] = "none"
                        /\ proc[h] \in Live => h \in Unstopped
                        /\ idle[h] => pc[h] \in Ended
  /\ \/ exited
     \/ /\ \A h \in Handles : pc[h] \in {"polling", "health", "killing", "killed"} => h \in Unstopped
        /\ \A h \in Handles : pc[h] = "killed" => proc[h] \notin Live
        /\ \A s \in Stoppers :
             /\ phase[s] # "ready" => /\ cur[s] \in Unstopped /\ pc[cur[s]] \in Ended
                                      /\ cur[s] \notin todo[s]
             /\ phase[s] = "killed" => proc[cur[s]] \notin Live
             /\ \A h \in todo[s] : h \in Unstopped /\ pc[h] \in Ended

(* A step launches a server on a port that is not leased, or some servers  *)
(* are stopped with their leases and others may die.                       *)
Launches(h, p) ==
  /\ pc[h] = "building" /\ h \notin Unstopped /\ h \notin LiveSet /\ p \in Ports \ leased
  /\ ~\E g \in Handles : proc[g] = "serving" /\ port[g] = p
  /\ port' = [port EXCEPT ![h] = p] /\ leased' = leased \cup {p}
  /\ Unstopped' = Unstopped \cup {h} /\ LiveSet' = LiveSet \cup {h}

GivesUp(K) ==
  /\ port' = port /\ leased' = leased \ {port[h] : h \in K}
  /\ Unstopped' = Unstopped \ K /\ LiveSet' \subseteq LiveSet \ K

Owning == (\E h \in Handles, p \in Ports : Launches(h, p)) \/ (\E K \in SUBSET Unstopped : GivesUp(K))

LEMMA StartOwns ==
  ASSUME TypeInv, TasksApart, ~exited, NEW h \in Handles,
         Enqueue(h) \/ StartStep(h) \/ StartTimeout(h) \/ CancelStart(h)
  PROVE  TasksApart' /\ Owning
<1> USE DEF TypeInv, TypeOK, TasksApart, Unlaunched, stopVars
<1>1. ASSUME NEW p \in Ports, NEW written \in BOOLEAN, Launch(h, p, written)
      PROVE  TasksApart' /\ Owning
  <2>1. /\ pc[h] = "building" /\ leased' = leased \cup {p} /\ port' = [port EXCEPT ![h] = p]
        /\ state' = [state EXCEPT ![h] = "starting"] /\ proc' = [proc EXCEPT ![h] = "booting"]
        /\ p \in Ports \ leased /\ UNCHANGED <<idle, todo, cur, phase, exited>>
        /\ pc' \in {[pc EXCEPT ![h] = "polling"], [pc EXCEPT ![h] = "failed"]}
        /\ ~\E g \in Handles : proc[g] = "serving" /\ port[g] = p
    BY <1>1 DEF Launch, LaunchOn, Allocated, Free, Serving
  <2>2. pc[h] \notin Ended /\ ~idle[h]
    BY <2>1 DEF Ended
  <2>3. ASSUME NEW s \in Stoppers
        PROVE  h \notin todo[s] /\ (phase[s] # "ready" => cur[s] # h)
    BY <2>2
  <2>4. state[h] = "none" /\ h \notin Unstopped /\ h \notin LiveSet
    BY <2>1 DEF Unstopped, LiveSet
  <2>5. Unstopped' = Unstopped \cup {h} /\ LiveSet' = LiveSet \cup {h}
    BY <2>1 DEF Unstopped, LiveSet, Live
  <2>6. pc'[h] \in {"polling", "failed"} /\ \A g \in Handles \ {h} : pc'[g] = pc[g]
    BY <2>1
  <2>7. \A g \in Handles : /\ pc'[g] \in Unlaunched => state'[g] = "none"
                           /\ proc'[g] \in Live => g \in Unstopped'
                           /\ idle'[g] => pc'[g] \in Ended
    BY <2>1, <2>2, <2>5, <2>6 DEF Live
  <2>8. /\ \A g \in Handles : pc'[g] \in {"polling", "health", "killing", "killed"} => g \in Unstopped'
        /\ \A g \in Handles : pc'[g] = "killed" => proc'[g] \notin Live
    BY <2>1, <2>5, <2>6
  <2>9. ASSUME NEW s \in Stoppers
        PROVE  /\ phase'[s] # "ready" => /\ cur'[s] \in Unstopped' /\ pc'[cur'[s]] \in Ended
                                         /\ cur'[s] \notin todo'[s]
               /\ phase'[s] = "killed" => proc'[cur'[s]] \notin Live
               /\ \A g \in todo'[s] : g \in Unstopped' /\ pc'[g] \in Ended
    <3>1. phase'[s] # "ready" => pc'[cur'[s]] = pc[cur[s]] /\ proc'[cur'[s]] = proc[cur[s]]
      BY <2>1, <2>3, <2>6 DEF Unstopped
    <3>2. \A g \in todo'[s] : pc'[g] = pc[g]
      BY <2>1, <2>3, <2>6 DEF Unstopped
    <3> QED BY <2>1, <2>5, <3>1, <3>2
  <2> QED BY <2>1, <2>4, <2>5, <2>7, <2>8, <2>9 DEF Owning, Launches
<1>2. CASE StartFailed(h)
  <2>1. /\ pc[h] = "killed" /\ leased' = leased \ {port[h]} /\ state' = [state EXCEPT ![h] = "stopped"]
        /\ pc' = [pc EXCEPT ![h] = "failed"] /\ UNCHANGED <<proc, port, idle, todo, cur, phase, exited>>
    BY <1>2 DEF StartFailed
  <2>2. h \in Unstopped /\ h \notin LiveSet /\ \A s \in Stoppers : h \notin todo[s] /\ (phase[s] # "ready" => cur[s] # h)
    BY <2>1 DEF LiveSet, Ended
  <2>3. TasksApart'
    BY <2>1, <2>2 DEF Unstopped, LiveSet, Ended
  <2>4. Unstopped' = Unstopped \ {h} /\ LiveSet' = LiveSet \ {h} /\ {port[g] : g \in {h}} = {port[h]}
    BY <2>1, <2>2 DEF Unstopped, LiveSet
  <2>5. GivesUp({h})
    BY <2>1, <2>4 DEF GivesUp
  <2> QED BY <2>2, <2>3, <2>5 DEF Owning
<1>3. ASSUME UNCHANGED <<port, leased>>, Unstopped' = Unstopped, LiveSet' \subseteq LiveSet
      PROVE  Owning
  <2>1. GivesUp({})
    BY <1>3 DEF GivesUp
  <2> QED BY <2>1 DEF Owning
<1>4. CASE Enqueue(h) \/ Acquire(h) \/ GiveUp(h) \/ NotLaunched(h)
  <2>1. /\ pc[h] \in Unlaunched /\ UNCHANGED <<state, proc, idle, port, leased, todo, cur, phase, exited>>
        /\ pc' \in {[pc EXCEPT ![h] = q] : q \in {"queued", "building", "failed"}}
    BY <1>4 DEF Enqueue, Acquire, GiveUp, NotLaunched
  <2>2. TasksApart' /\ Unstopped' = Unstopped /\ LiveSet' = LiveSet
    BY <2>1 DEF Unstopped, LiveSet, Ended
  <2> QED BY <1>3, <2>1, <2>2
<1>5. CASE Poll(h) \/ StartTimeout(h) \/ HealthOk(h) \/ HealthBad(h)
  <2>1. /\ pc[h] \in {"polling", "health"} /\ UNCHANGED <<proc, idle, port, leased, todo, cur, phase, exited>>
        /\ pc' \in {[pc EXCEPT ![h] = q] : q \in {"polling", "health", "killing", "returned"}}
        /\ state' \in {state} \cup {[state EXCEPT ![h] = q] : q \in {"healthy", "unhealthy"}}
    BY <1>5 DEF Poll, StartTimeout, HealthOk, HealthBad
  <2>2. TasksApart' /\ Unstopped' = Unstopped /\ LiveSet' = LiveSet
    BY <2>1 DEF Unstopped, LiveSet, Ended
  <2> QED BY <1>3, <2>1, <2>2
<1>6. CASE CancelStart(h)
  <2>1. /\ pc[h] = "polling" /\ UNCHANGED <<proc, idle, state, port, leased, todo, cur, phase, exited>>
        /\ pc' = [pc EXCEPT ![h] = "killing"]
    BY <1>6 DEF CancelStart, Unstopped
  <2>2. TasksApart' /\ Unstopped' = Unstopped /\ LiveSet' = LiveSet
    BY <2>1 DEF Unstopped, LiveSet, Ended
  <2> QED BY <1>3, <2>1, <2>2
<1>7. CASE StartKilled(h)
  <2>1. /\ pc[h] = "killing" /\ UNCHANGED <<idle, state, port, leased, todo, cur, phase, exited>>
        /\ pc' = [pc EXCEPT ![h] = "killed"] /\ proc' = [proc EXCEPT ![h] = "dead"]
    BY <1>7 DEF StartKilled
  <2>2. TasksApart' /\ Unstopped' = Unstopped /\ LiveSet' \subseteq LiveSet
    BY <2>1 DEF Unstopped, LiveSet, Ended, Live, HandlesAreLaunched
  <2> QED BY <1>3, <2>1, <2>2
<1> QED BY <1>1, <1>2, <1>4, <1>5, <1>6, <1>7 DEF StartStep

LEMMA StopOwns ==
  ASSUME TypeInv, TasksApart, ~exited, Supervised, NEW s \in Stoppers,
         StopAll(s) \/ Reap(s) \/ StopStep(s) \/ \E i \in Sids : Stop(s, i)
  PROVE  TasksApart' /\ Owning
<1> USE DEF TypeInv, TypeOK, TasksApart, Unlaunched, startVars
<1>0. ASSUME UNCHANGED <<port, leased>>, Unstopped' = Unstopped, LiveSet' \subseteq LiveSet
      PROVE  Owning
  <2>1. GivesUp({})
    BY <1>0 DEF GivesUp
  <2> QED BY <2>1 DEF Owning
<1>1. CASE StopAll(s) \/ Reap(s) \/ \E i \in Sids : Stop(s, i)
  <2>1. "stop_all" \notin Jobs[s] /\ "stop" \notin Jobs[s]
    BY DEF Supervised
  <2>2. Reap(s)
    BY <1>1, <2>1 DEF StopAll, Stop, Targets
  <2>3. /\ Proceed(s, {h \in Active : idle[h]}, state)
        /\ UNCHANGED <<pc, port, state, proc, idle, leased, exited>>
    BY <2>2 DEF Reap, Targets
  <2>4. {h \in Active : idle[h]} \in SUBSET Handles
    BY DEF Active, Registered
  <2>5. \A h \in {g \in Active : idle[g]} : h \in Unstopped /\ pc[h] \in Ended
    <3>1. \A h \in Active : h \in Unstopped
      BY DEF Active, Registered, Unstopped
    <3>2. \A h \in Active : h \in Handles
      BY DEF Active, Registered
    <3> QED BY <3>1, <3>2
  <2>6. /\ todo'[s] \subseteq {h \in Active : idle[h]} /\ phase'[s] # "killed"
        /\ phase'[s] # "ready" => cur'[s] \in {h \in Active : idle[h]} /\ cur'[s] \notin todo'[s]
    BY <2>3, <2>4 DEF Proceed
  <2>7. TasksApart'
    BY <2>3, <2>5, <2>6 DEF Supervised, Unstopped
  <2> QED BY <1>0, <2>3, <2>7 DEF Unstopped, LiveSet
<1>2. CASE Kill(s)
  <2>1. /\ phase[s] = "killing" /\ proc' = [proc EXCEPT ![cur[s]] = "dead"]
        /\ phase' = [phase EXCEPT ![s] = "killed"] /\ UNCHANGED <<pc, port, state, idle, leased, todo, cur, exited>>
    BY <1>2 DEF Kill
  <2>2. TasksApart' /\ Unstopped' = Unstopped /\ LiveSet' \subseteq LiveSet
    BY <2>1 DEF Unstopped, LiveSet, Live
  <2> QED BY <1>0, <2>1, <2>2
<1>3. CASE Terminated(s)
  <2> DEFINE h == cur[s]
  <2>1. /\ phase[s] = "killed" /\ leased' = leased \ {port[h]} /\ state' = [state EXCEPT ![h] = "stopped"]
        /\ Proceed(s, todo[s], state') /\ UNCHANGED <<pc, port, proc, idle, exited>>
    BY <1>3 DEF Terminated, Released
  <2>2. h \in Unstopped /\ h \in Handles /\ pc[h] \in Ended /\ h \notin todo[s] /\ proc[h] \notin Live
    BY <2>1 DEF Unstopped
  <2>3. /\ todo'[s] \subseteq todo[s] /\ phase'[s] # "killed"
        /\ phase'[s] # "ready" => cur'[s] \in todo[s] /\ cur'[s] \notin todo'[s]
    BY <2>1 DEF Proceed
  <2>4. /\ Unstopped' = Unstopped \ {h} /\ LiveSet' = LiveSet \ {h} /\ {port[g] : g \in {h}} = {port[h]}
    BY <2>1, <2>2 DEF Unstopped, LiveSet
  <2>5. TasksApart'
    BY <2>1, <2>2, <2>3, <2>4 DEF Supervised, Ended, LiveSet
  <2>6. GivesUp({h})
    BY <2>1, <2>4 DEF GivesUp
  <2> QED BY <2>2, <2>5, <2>6 DEF Owning
<1> QED BY <1>1, <1>2, <1>3 DEF StopStep

LEMMA OtherOwns ==
  ASSUME TypeInv, TasksApart, ~exited, Supervised,
         \/ \E h \in Handles : Age(h) \/ Boot(h) \/ Crash(h)
         \/ \E c \in Checkers : \/ \E i \in Sids : CheckBegin(c, i)
                                \/ \E ok \in BOOLEAN : CheckEnd(c, ok)
         \/ \E i \in Sids : Touch(i)
         \/ Refresh
         \/ KillAllNow
  PROVE  TasksApart' /\ Owning
<1> USE DEF TypeInv, TypeOK, TasksApart, startVars, stopVars
<1>1. CASE KillAllNow
  <2>1. /\ exited' /\ UNCHANGED <<port, pc, idle>> /\ leased' = leased \ {port[h] : h \in Active}
        /\ proc' = [h \in Handles |-> IF h \in Active THEN "dead" ELSE proc[h]]
        /\ state' = [h \in Handles |-> IF h \in Active THEN "stopped" ELSE state[h]]
    BY <1>1 DEF KillAllNow
  <2>2. Active \subseteq Unstopped
    BY DEF Active, Registered, Unstopped
  <2>3. Unstopped' = Unstopped \ Active /\ LiveSet' = LiveSet \ Active
    BY <2>1, <2>2 DEF Unstopped, LiveSet, Live
  <2>4. \A h \in Handles : pc'[h] \in Unlaunched => state'[h] = "none"
    <3>1. \A h \in Active : state[h] # "none"
      BY DEF Active
    <3>2. \A h \in Handles : h \notin Active => state'[h] = state[h]
      BY <2>1
    <3> QED BY <2>1, <3>1, <3>2
  <2>5. TasksApart'
    BY <2>1, <2>3, <2>4 DEF LiveSet
  <2> QED BY <2>1, <2>2, <2>3, <2>5 DEF Owning, GivesUp
<1>2. CASE \/ \E h \in Handles : Age(h) \/ Boot(h) \/ Crash(h)
           \/ \E i \in Sids : Touch(i)
           \/ Refresh
  <2>1. /\ UNCHANGED <<pc, port, leased, todo, cur, phase, exited>>
        /\ \A h \in Handles : /\ proc'[h] \in Live => proc[h] \in Live
                              /\ state'[h] = state[h] \/ (state[h] = "healthy" /\ state'[h] = "unhealthy")
                              /\ idle'[h] => idle[h] \/ pc[h] \in Ended
    BY <1>2 DEF Age, Boot, Crash, Touch, Refresh, Refreshed, Live
  <2>2. \A h \in Handles : state'[h] \in {"none", "stopped"} <=> state[h] \in {"none", "stopped"}
    BY <2>1
  <2>3. Unstopped' = Unstopped /\ LiveSet' \subseteq LiveSet
    BY <2>1, <2>2 DEF Unstopped, LiveSet
  <2>5. \A h \in Handles : /\ pc'[h] \in Unlaunched => state'[h] = "none"
                           /\ proc'[h] \in Live => h \in Unstopped'
                           /\ idle'[h] => pc'[h] \in Ended
    BY <2>1, <2>3
  <2>6. TasksApart'
    BY <2>1, <2>3, <2>5 DEF Unstopped
  <2>4. GivesUp({})
    BY <2>1, <2>3 DEF GivesUp
  <2> QED BY <2>4, <2>6 DEF Owning
<1> QED BY <1>1, <1>2 DEF Supervised

LEMMA SupervisedStep ==
  ASSUME TypeInv, TasksApart, Supervised, Next
  PROVE  TasksApart' /\ Owning
BY StartOwns, StopOwns, OtherOwns DEF Next

-----------------------------------------------------------------------------
(* The pool's promise *)

(* Each environment that is not stopped has a port of its own, leased.     *)
OwnPorts ==
  /\ \A h \in Unstopped : port[h] \in leased
  /\ \A g, h \in Unstopped : port[g] = port[h] => g = h

(* A slot is free or held; a start that has failed leaves nothing running. *)
SlotsAdd ==
  /\ \A h \in Handles : pc[h] = "failed" => h \notin Unstopped
  /\ \/ exited
     \/ /\ \A h \in Handles : state[h] = "stopped" => pc[h] \in Ended
        /\ IsFiniteSet(Holders) /\ slots + Cardinality(Holders) = MaxEnvs

LEMMA OwningKeepsPorts ==
  ASSUME TypeOK, OwnPorts, Owning
  PROVE  OwnPorts'
<1>1. ASSUME NEW h \in Handles, NEW p \in Ports, Launches(h, p)
      PROVE  OwnPorts'
  <2>1. /\ port' = [port EXCEPT ![h] = p] /\ leased' = leased \cup {p} /\ p \notin leased
        /\ Unstopped' = Unstopped \cup {h} /\ h \notin Unstopped
    BY <1>1 DEF Launches
  <2>2. port'[h] = p /\ \A g \in Unstopped : port'[g] = port[g] /\ port'[g] # p
    BY <2>1 DEF TypeOK, OwnPorts, Unstopped
  <2> QED BY <2>1, <2>2 DEF OwnPorts
<1>2. ASSUME NEW K \in SUBSET Unstopped, GivesUp(K)
      PROVE  OwnPorts'
  <2>1. /\ port' = port /\ leased' = leased \ {port[h] : h \in K} /\ Unstopped' = Unstopped \ K
    BY <1>2 DEF GivesUp
  <2>2. \A h \in Unstopped' : h \in Unstopped /\ port[h] \notin {port[g] : g \in K}
    BY <2>1 DEF OwnPorts
  <2> QED BY <2>1, <2>2 DEF OwnPorts
<1> QED BY <1>1, <1>2 DEF Owning

LEMMA SlotsMove ==
  ASSUME NEW x, IsFiniteSet(Holders), slots \in Nat, slots' \in Nat,
         slots + Cardinality(Holders) = MaxEnvs,
         \/ slots' = slots /\ Holders' = Holders
         \/ slots' = slots + 1 /\ Holders' = Holders \ {x} /\ x \in Holders
         \/ slots = slots' + 1 /\ Holders' = Holders \cup {x} /\ x \notin Holders
  PROVE  IsFiniteSet(Holders') /\ slots' + Cardinality(Holders') = MaxEnvs
<1>1. /\ Cardinality(Holders) \in Nat /\ IsFiniteSet(Holders \cup {x}) /\ IsFiniteSet(Holders \ {x})
      /\ x \notin Holders => Cardinality(Holders \cup {x}) = Cardinality(Holders) + 1
      /\ x \in Holders => Cardinality(Holders \ {x}) = Cardinality(Holders) - 1
  BY FS_CardinalityType, FS_AddElement, FS_RemoveElement
<1>2. CASE slots' = slots /\ Holders' = Holders
  BY <1>2, Zenon
<1>3. CASE slots' = slots + 1 /\ Holders' = Holders \ {x} /\ x \in Holders
  <2>1. IsFiniteSet(Holders') /\ Cardinality(Holders') = Cardinality(Holders) - 1
    BY <1>1, <1>3, Zenon
  <2> QED BY <1>1, <1>3, <2>1
<1>4. CASE slots = slots' + 1 /\ Holders' = Holders \cup {x} /\ x \notin Holders
  <2>1. IsFiniteSet(Holders') /\ Cardinality(Holders') = Cardinality(Holders) + 1
    BY <1>1, <1>4, Zenon
  <2> QED BY <1>1, <1>4, <2>1
<1> QED BY <1>2, <1>3, <1>4

LEMMA SlotsAddStep ==
  ASSUME TypeInv, TasksApart, SlotsAdd, Supervised, "meta" \notin MayFail, Next,
         slots' \in Nat
  PROVE  SlotsAdd'
<1> USE DEF TypeInv, TypeOK, SlotsAdd, Holding
<1> DEFINE Failed  == \A g \in Handles : pc[g] = "failed" => g \notin Unstopped
           Stopped == \A g \in Handles : state[g] = "stopped" => pc[g] \in Ended
           Counted == IsFiniteSet(Holders) /\ slots + Cardinality(Holders) = MaxEnvs
<1>1. ASSUME ~exited, NEW h \in Handles,
             \/ slots' = slots /\ Holders' = Holders
             \/ slots' = slots + 1 /\ Holders' = Holders \ {h} /\ h \in Holders
             \/ slots = slots' + 1 /\ Holders' = Holders \cup {h} /\ h \notin Holders
      PROVE  Counted'
  BY <1>1, SlotsMove
<1>2. ASSUME NEW h \in Handles, Enqueue(h) \/ StartStep(h) \/ StartTimeout(h) \/ CancelStart(h)
      PROVE  SlotsAdd'
  <2> USE DEF Unstopped, Holders, Ended
  <2>0. ~exited
    BY DEF Next
  <2>1. CASE Enqueue(h) \/ GiveUp(h)
    <3>1. Failed' /\ Stopped' /\ Holders' = Holders /\ slots' = slots
      BY <2>0, <2>1 DEF Enqueue, GiveUp, TasksApart, Unlaunched
    <3> QED BY <1>1, <2>0, <3>1
  <2>2. CASE Acquire(h)
    <3>1. Failed' /\ Stopped' /\ Holders' = Holders \cup {h} /\ h \notin Holders /\ slots = slots' + 1
      BY <2>0, <2>2 DEF Acquire
    <3> QED BY <1>1, <2>0, <3>1
  <2>3. CASE NotLaunched(h)
    <3>1. Failed' /\ Stopped' /\ Holders' = Holders \ {h} /\ h \in Holders /\ slots' = slots + 1
      BY <2>0, <2>3 DEF NotLaunched, TasksApart, Unlaunched
    <3> QED BY <1>1, <2>0, <3>1
  <2>4. ASSUME NEW p \in Ports, NEW written \in BOOLEAN, Launch(h, p, written)
        PROVE  SlotsAdd'
    <3>1. /\ pc[h] = "building" /\ pc' = [pc EXCEPT ![h] = "polling"] /\ slots' = slots
          /\ state' = [state EXCEPT ![h] = "starting"]
      BY <2>4 DEF Launch, LaunchOn
    <3>2. Failed' /\ Stopped' /\ Holders' = Holders
      BY <2>0, <3>1
    <3> QED BY <1>1, <2>0, <3>1, <3>2
  <2>5. CASE Poll(h) \/ StartTimeout(h) \/ HealthOk(h) \/ HealthBad(h) \/ StartKilled(h) \/ CancelStart(h)
    <3>1. /\ pc[h] \in {"polling", "health", "killing"} /\ slots' = slots
          /\ pc' \in {[pc EXCEPT ![h] = q] : q \in {"polling", "health", "killing", "killed", "returned"}}
          /\ state' \in {state, [state EXCEPT ![h] = "healthy"], [state EXCEPT ![h] = "unhealthy"]}
          /\ pc'[h] = "returned" => state'[h] = "healthy"
      BY <2>0, <2>5 DEF Poll, StartTimeout, HealthOk, HealthBad, StartKilled, CancelStart
    <3>2. Failed' /\ Stopped' /\ Holders' = Holders
      BY <2>0, <3>1
    <3> QED BY <1>1, <2>0, <3>1, <3>2
  <2>6. CASE StartFailed(h)
    <3>1. Failed' /\ Stopped' /\ Holders' = Holders \ {h} /\ h \in Holders /\ slots' = slots + 1
      BY <2>0, <2>6 DEF StartFailed
    <3> QED BY <1>1, <2>0, <3>1
  <2> QED BY <1>2, <2>1, <2>2, <2>3, <2>4, <2>5, <2>6 DEF StartStep
<1>3. ASSUME NEW s \in Stoppers, StopAll(s) \/ Reap(s) \/ StopStep(s) \/ \E i \in Sids : Stop(s, i)
      PROVE  SlotsAdd'
  <2>0. ~exited
    BY DEF Next
  <2>1. CASE ~Terminated(s)
    <3>1. UNCHANGED <<pc, state, slots, exited>>
      BY <1>3, <2>1 DEF StopAll, Reap, Stop, Targets, StopStep, Kill, startVars
    <3>2. Failed' /\ Stopped' /\ Holders' = Holders
      BY <2>0, <3>1 DEF Unstopped, Holders
    <3> QED BY <2>0, <3>1, <3>2, SlotsMove
  <2>2. CASE Terminated(s)
    <3>1. /\ phase[s] = "killed" /\ pc' = pc /\ slots' = slots + 1
          /\ state' = [state EXCEPT ![cur[s]] = "stopped"]
      BY <2>2 DEF Terminated, Released, startVars
    <3>2. cur[s] \in Unstopped /\ pc[cur[s]] \in Ended
      BY <2>0, <3>1 DEF TasksApart
    <3>3. cur[s] \in Handles /\ pc[cur[s]] = "returned" /\ state[cur[s]] # "stopped"
      BY <3>2 DEF Unstopped, Ended
    <3>4. Failed' /\ Stopped' /\ Holders' = Holders \ {cur[s]} /\ cur[s] \in Holders
      BY <2>0, <3>1, <3>2, <3>3 DEF Unstopped, Holders
    <3> QED BY <1>1, <2>0, <3>1, <3>3, <3>4
  <2> QED BY <2>1, <2>2
<1>4. CASE \/ \E h \in Handles : Age(h) \/ Boot(h) \/ Crash(h)
           \/ \E i \in Sids : Touch(i)
           \/ Refresh
  <2>0. ~exited
    BY DEF Next
  <2>1. /\ UNCHANGED <<pc, slots, exited>>
        /\ state' \in {state, Refreshed}
    BY <1>4 DEF Age, Boot, Crash, Touch, Refresh, startVars
  <2>2. \A h \in Handles : \/ state'[h] = state[h]
                           \/ state[h] = "healthy" /\ state'[h] = "unhealthy"
    BY <2>1 DEF Refreshed
  <2>3. Failed' /\ Stopped' /\ Holders' = Holders
    BY <2>0, <2>1, <2>2 DEF Unstopped, Holders
  <2> QED BY <2>0, <2>1, <2>3, SlotsMove
<1>5. CASE KillAllNow
  <2>1. exited' /\ pc' = pc /\ \A h \in Handles : state'[h] \in {state[h], "stopped"}
    BY <1>5 DEF KillAllNow, startVars
  <2>2. Failed'
    BY <2>1 DEF Unstopped
  <2> QED BY <2>1, <2>2
<1>6. Checkers = {}
  BY DEF Supervised
<1> QED BY <1>2, <1>3, <1>4, <1>5, <1>6 DEF Next

(* Every step of the manager is a step of the pool or none.                *)
LEMMA PoolStep ==
  ASSUME TypeInv, TasksApart, SlotsAdd, OwnPorts, Owning, ~exited
  PROVE  [Pool!Next]_<<LiveSet, {<<h, port[h]>> : h \in LiveSet}>>
<1> DEFINE At == {<<h, port[h]>> : h \in LiveSet}
<1>1. ASSUME NEW h \in Handles, NEW p \in Ports, Launches(h, p)
      PROVE  Pool!Begin(h, p)
  <2>1. /\ pc[h] = "building" /\ h \notin LiveSet /\ p \notin leased
        /\ port' = [port EXCEPT ![h] = p] /\ LiveSet' = LiveSet \cup {h}
    BY <1>1 DEF Launches
  <2>2. LiveSet \subseteq Unstopped
    BY DEF TasksApart, LiveSet
  <2>3. h \in Holders /\ LiveSet \subseteq Holders \ {h}
    <3>1. \A g \in Unstopped : g \in Holders
      BY DEF Unstopped, Holders, Holding, TasksApart, Unlaunched, SlotsAdd, TypeInv, TypeOK, PCs, Ended
    <3> QED BY <2>1, <2>2, <3>1 DEF Holders, Holding
  <2>4. Cardinality(LiveSet) < MaxEnvs
    <3>1. IsFiniteSet(Holders) /\ slots + Cardinality(Holders) = MaxEnvs /\ slots \in Nat
      BY DEF SlotsAdd, TypeInv, TypeOK
    <3>2. IsFiniteSet(Holders \ {h}) /\ Cardinality(Holders \ {h}) = Cardinality(Holders) - 1
      BY <2>3, <3>1, FS_RemoveElement
    <3>3. Cardinality(LiveSet) <= Cardinality(Holders \ {h}) /\ Cardinality(LiveSet) \in Nat
      BY <2>3, <3>2, FS_Subset, FS_CardinalityType
    <3>4. Cardinality(Holders) \in Nat
      BY <3>1, FS_CardinalityType
    <3> QED BY <3>1, <3>2, <3>3, <3>4
  <2>5. \A g \in LiveSet : port[g] # p /\ g # h
    BY <2>1, <2>2 DEF OwnPorts
  <2>6. At' = At \cup {<<h, p>>}
    <3>1. port'[h] = p /\ \A g \in LiveSet : port'[g] = port[g]
      BY <2>1, <2>5 DEF TypeInv, TypeOK, LiveSet
    <3> QED BY <2>1, <3>1
  <2>7. \A g \in LiveSet : <<g, p>> \notin At
    BY <2>5
  <2> HIDE DEF At
  <2>8. /\ h \notin LiveSet /\ Cardinality(LiveSet) < MaxEnvs /\ \A g \in LiveSet : <<g, p>> \notin At
        /\ LiveSet' = LiveSet \cup {h} /\ At' = At \cup {<<h, p>>}
    BY <2>1, <2>4, <2>6, <2>7
  <2>9. Pool!Cardinality(LiveSet) = Cardinality(LiveSet)
    BY DEF Pool!Cardinality, Cardinality
  <2> QED BY <2>8, <2>9, Zenon DEF Pool!Begin, At
<1>2. ASSUME NEW K \in SUBSET Unstopped, GivesUp(K), LiveSet' # LiveSet
      PROVE  Pool!End(LiveSet \ LiveSet')
  <2>1. port' = port /\ LiveSet' \subseteq LiveSet
    BY <1>2 DEF GivesUp
  <2>2. At' = {x \in At : x[1] \notin LiveSet \ LiveSet'}
    BY <2>1
  <2>3. LiveSet' = LiveSet \ (LiveSet \ LiveSet') /\ LiveSet \ LiveSet' # {}
    BY <1>2, <2>1
  <2> QED BY <2>2, <2>3 DEF Pool!End
<1>3. LiveSet \ LiveSet' \in SUBSET Handles
  BY DEF LiveSet
<1>4. ASSUME NEW K \in SUBSET Unstopped, GivesUp(K), LiveSet' = LiveSet
      PROVE  UNCHANGED <<LiveSet, At>>
  BY <1>4 DEF GivesUp
<1>5. CASE \E h \in Handles, p \in Ports : Launches(h, p)
  BY <1>1, <1>5, Zenon DEF Pool!Next
<1>6. CASE \E K \in SUBSET Unstopped : GivesUp(K)
  <2>1. PICK K \in SUBSET Unstopped : GivesUp(K)
    BY <1>6
  <2>2. CASE LiveSet' # LiveSet
    <3>1. Pool!End(LiveSet \ LiveSet')
      BY <1>2, <2>1, <2>2
    <3>2. \E H \in SUBSET Handles : Pool!End(H)
      BY <1>3, <3>1 DEF Pool!End
    <3> QED BY <3>2 DEF Pool!Next
  <2>3. CASE LiveSet' = LiveSet
    BY <1>4, <2>1, <2>3
  <2> QED BY <2>2, <2>3
<1> QED BY <1>5, <1>6 DEF Owning

(* Never are more than MaxEnvs servers alive nor two of them on one port:  *)
(* start and _terminate implement EnvPool, as long as the metadata of      *)
(* every launched server is written and only the supervisor terminates.    *)
THEOREM KeepsThePool ==
  ASSUME Supervised, "meta" \notin MayFail
  PROVE  Spec => PoolSpec
<1> DEFINE Inv == TasksApart /\ SlotsAdd /\ OwnPorts
<1>1. Init => Inv /\ Pool!Init
  <2> SUFFICES ASSUME Init
               PROVE  Inv /\ Pool!Init
    OBVIOUS
  <2>1. LiveSet = {} /\ Holders = {} /\ Unstopped = {}
    BY DEF Init, LiveSet, Live, Holders, Holding, Unstopped
  <2>2. IsFiniteSet(Holders) /\ slots + Cardinality(Holders) = MaxEnvs
    BY <2>1, FS_EmptySet, EnvAssumption DEF Init
  <2>3. TasksApart
    BY DEF Init, TasksApart, Unlaunched, Live
  <2> QED BY <2>1, <2>2, <2>3 DEF Init, SlotsAdd, OwnPorts, Pool!Init
<1>2. TypeInv /\ TypeInv' /\ Inv /\ [Next]_vars =>
        Inv' /\ [Pool!Next]_<<LiveSet, {<<h, port[h]>> : h \in LiveSet}>>
  <2> SUFFICES ASSUME TypeInv, TypeInv', Inv, [Next]_vars
               PROVE  Inv' /\ [Pool!Next]_<<LiveSet, {<<h, port[h]>> : h \in LiveSet}>>
    OBVIOUS
  <2>1. CASE UNCHANGED vars
    BY <2>1 DEF TasksApart, SlotsAdd, OwnPorts, Holders, Unstopped, LiveSet, vars, startVars, stopVars
  <2>2. CASE Next
    <3>1. TasksApart' /\ Owning
      BY <2>2, SupervisedStep
    <3>2. OwnPorts' /\ SlotsAdd'
      BY <2>2, <3>1, OwningKeepsPorts, SlotsAddStep DEF TypeInv, TypeOK
    <3>3. ~exited
      BY <2>2 DEF Next
    <3> QED BY <3>1, <3>2, <3>3, PoolStep
  <2> QED BY <2>1, <2>2
<1> QED BY <1>1, <1>2, TypeInvHolds, PTL DEF Spec, PoolSpec, Pool!Spec, Pool!vars
=============================================================================
