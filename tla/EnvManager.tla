----------------------------- MODULE EnvManager -----------------------------
(***************************************************************************)
(* EnvManager: scenario servers started on demand, their capacity slots    *)
(* and ports, health checks, and their termination by clients, by the      *)
(* supervisor, by a failing start and at exit.                             *)
(*                                                                         *)
(* Everything runs on one asyncio loop but the kill of a process group,    *)
(* which runs in a thread while its caller awaits it.  A handle stands for *)
(* the one start call that creates it.                                     *)
(***************************************************************************)
EXTENDS Naturals, FiniteSets

CONSTANTS
  None,
  Handles,           \* one start call, and the EnvHandle it creates
  Sids, SidOf,       \* [Handles -> Sids]: the session id the call was given
  Ports, MaxEnvs,
  Stoppers, Jobs,    \* tasks that terminate; [Stoppers -> SUBSET JobKinds]
  Checkers,          \* tasks that serve the health endpoint
  MaxChecks,         \* bound of the health requests
  MayFail            \* steps that may fail

JobKinds == {"stop", "stop_all", "reap"}

ASSUME EnvAssumption ==
  /\ SidOf \in [Handles -> Sids]
  /\ Ports \subseteq Nat /\ MaxEnvs \in Nat \ {0} /\ MaxChecks \in Nat
  /\ Jobs \in [Stoppers -> SUBSET JobKinds]
  /\ MayFail \subseteq {"build", "launch", "meta", "cancel"}
  /\ None \notin Handles /\ None \notin Ports

VARIABLES
  pc,        \* where each start call is
  state,     \* EnvHandle.state ("none" before the handle exists)
  port,      \* EnvHandle.port
  proc,      \* the handle's process group
  idle,      \* last used longer than idle_timeout_s ago
  reg,       \* _handles: [Sids -> Handles or None]
  slots,     \* value of the semaphore
  leased,    \* PortPool._leased
  todo, cur, phase,  \* per stopper: handles to terminate, the current one, how far
  chk,       \* [Checkers -> Handles or None]: the handle whose health is awaited
  checks,    \* health requests so far
  exited     \* the manager process is gone

startVars == <<pc, port>>
stopVars  == <<todo, cur, phase>>
chkVars   == <<chk, checks>>
vars == <<state, proc, idle, reg, slots, leased, startVars, stopVars, chkVars, exited>>

PCs    == {"new", "queued", "building", "polling", "health", "killing", "killed",
           "returned", "failed"}
Ended  == {"returned", "failed"}
States == {"none", "starting", "healthy", "unhealthy", "stopped"}
Live   == {"booting", "serving"}

TypeOK ==
  /\ pc \in [Handles -> PCs] /\ state \in [Handles -> States]
  /\ port \in [Handles -> {None} \cup Ports]
  /\ proc \in [Handles -> {"none", "dead"} \cup Live] /\ idle \in [Handles -> BOOLEAN]
  /\ reg \in [Sids -> {None} \cup Handles] /\ slots \in Nat /\ leased \subseteq Ports
  /\ todo \in [Stoppers -> SUBSET Handles] /\ cur \in [Stoppers -> {None} \cup Handles]
  /\ phase \in [Stoppers -> {"ready", "killing", "killed"}]
  /\ chk \in [Checkers -> {None} \cup Handles] /\ checks \in 0..MaxChecks
  /\ exited \in BOOLEAN

Init ==
  /\ pc = [h \in Handles |-> "new"] /\ state = [h \in Handles |-> "none"]
  /\ port = [h \in Handles |-> None] /\ proc = [h \in Handles |-> "none"]
  /\ idle = [h \in Handles |-> FALSE]
  /\ reg = [i \in Sids |-> None] /\ slots = MaxEnvs /\ leased = {}
  /\ todo = [s \in Stoppers |-> {}] /\ cur = [s \in Stoppers |-> None]
  /\ phase = [s \in Stoppers |-> "ready"]
  /\ chk = [c \in Checkers |-> None] /\ checks = 0
  /\ exited = FALSE

Registered == {h \in Handles : reg[SidOf[h]] = h}
(* EnvManager.active *)
Active == {h \in Registered : state[h] \in {"starting", "healthy", "unhealthy"}}

Serving(p)  == \E g \in Handles : proc[g] = "serving" /\ port[g] = p

-----------------------------------------------------------------------------
(* Ports *)

(* PortPool.allocate: the lowest port neither leased nor bound.            *)
Free == {p \in Ports : p \notin leased /\ ~Serving(p)}
Allocated(p) == p \in Free /\ \A q \in Free : p <= q

-----------------------------------------------------------------------------
(* EnvManager.start *)

Enqueue(h) ==
  /\ pc[h] = "new"
  /\ pc' = [pc EXCEPT ![h] = "queued"]
  /\ UNCHANGED <<state, proc, idle, reg, slots, leased, port, stopVars, chkVars, exited>>

(* Mutant: a start does not wait for a slot. *)
AcquireAnyway(h) ==
  /\ pc[h] = "queued"
  /\ slots' = slots - 1
  /\ pc' = [pc EXCEPT ![h] = "building"]
  /\ UNCHANGED <<state, proc, idle, reg, leased, port, stopVars, chkVars, exited>>

Acquire(h) ==
  /\ pc[h] = "queued" /\ slots > 0
  /\ slots' = slots - 1
  /\ pc' = [pc EXCEPT ![h] = "building"]
  /\ UNCHANGED <<state, proc, idle, reg, leased, port, stopVars, chkVars, exited>>

(* EnvQueueTimeoutError, or the caller is cancelled in the queue.          *)
GiveUp(h) ==
  /\ pc[h] = "queued" /\ (slots = 0 \/ "cancel" \in MayFail)
  /\ pc' = [pc EXCEPT ![h] = "failed"]
  /\ UNCHANGED <<state, proc, idle, reg, slots, leased, port, stopVars, chkVars, exited>>

(* Building fails or is cancelled, no port is free, or the launch fails    *)
(* and its port is released: the slot is given back.                       *)
NotLaunched(h) ==
  /\ pc[h] = "building"
  /\ Free = {} \/ MayFail \cap {"build", "launch", "cancel"} # {}
  /\ slots' = slots + 1
  /\ pc' = [pc EXCEPT ![h] = "failed"]
  /\ UNCHANGED <<state, proc, idle, reg, leased, port, stopVars, chkVars, exited>>

LaunchOn(h, p, written, registered) ==
  /\ pc[h] = "building"
  /\ Allocated(p)
  /\ leased' = leased \cup {p}
  /\ port' = [port EXCEPT ![h] = p]
  /\ proc' = [proc EXCEPT ![h] = "booting"]
  /\ state' = [state EXCEPT ![h] = "starting"]
  /\ reg' = IF registered THEN [reg EXCEPT ![SidOf[h]] = h] ELSE reg
  /\ \/ /\ written
        /\ pc' = [pc EXCEPT ![h] = "polling"] /\ UNCHANGED slots
     \/ /\ ~written /\ "meta" \in MayFail
        /\ pc' = [pc EXCEPT ![h] = "failed"] /\ slots' = slots + 1
  /\ UNCHANGED <<idle, stopVars, chkVars, exited>>

(* Mutant: the handle is registered after its metadata is written. *)
LaunchMetaFirst(h, p, written) == LaunchOn(h, p, written, written)

(* The process is launched and its handle registered; when the metadata    *)
(* cannot be written, start fails and leaves both behind.                  *)
Launch(h, p, written) == LaunchOn(h, p, written, TRUE)

(* _wait_healthy looks at the process, then awaits its health.             *)
Poll(h) ==
  /\ pc[h] = "polling"
  /\ IF proc[h] = "dead"
     THEN /\ state' = [state EXCEPT ![h] = "unhealthy"]
          /\ pc' = [pc EXCEPT ![h] = "killing"]
     ELSE /\ pc' = [pc EXCEPT ![h] = "health"]
          /\ UNCHANGED state
  /\ UNCHANGED <<proc, idle, reg, slots, leased, port, stopVars, chkVars, exited>>

(* Whatever serves the handle's port answers.                              *)
HealthOk(h) ==
  /\ pc[h] = "health" /\ Serving(port[h])
  /\ state' = [state EXCEPT ![h] = "healthy"]
  /\ pc' = [pc EXCEPT ![h] = "returned"]
  /\ UNCHANGED <<proc, idle, reg, slots, leased, port, stopVars, chkVars, exited>>

(* No answer, an error, or a cancellation: check_mcp reports it as one.    *)
HealthBad(h) ==
  /\ pc[h] = "health"
  /\ pc' = [pc EXCEPT ![h] = "polling"]
  /\ UNCHANGED <<state, proc, idle, reg, slots, leased, port, stopVars, chkVars, exited>>

(* Mutant: the deadline is only noticed once the server has died. *)
StartTimeoutDead(h) ==
  /\ pc[h] = "polling" /\ proc[h] = "dead"
  /\ state' = [state EXCEPT ![h] = "unhealthy"]
  /\ pc' = [pc EXCEPT ![h] = "killing"]
  /\ UNCHANGED <<proc, idle, reg, slots, leased, port, stopVars, chkVars, exited>>

StartTimeout(h) ==
  /\ pc[h] = "polling"
  /\ state' = [state EXCEPT ![h] = "unhealthy"]
  /\ pc' = [pc EXCEPT ![h] = "killing"]
  /\ UNCHANGED <<proc, idle, reg, slots, leased, port, stopVars, chkVars, exited>>

(* A start cancelled in its sleep terminates its handle unless somebody    *)
(* did already; either way the slot is given back.                         *)
CancelStart(h) ==
  /\ "cancel" \in MayFail /\ pc[h] = "polling"
  /\ IF state[h] = "stopped"
     THEN /\ pc' = [pc EXCEPT ![h] = "failed"] /\ slots' = slots + 1
     ELSE /\ pc' = [pc EXCEPT ![h] = "killing"] /\ UNCHANGED slots
  /\ UNCHANGED <<state, proc, idle, reg, leased, port, stopVars, chkVars, exited>>

(* _terminate(release_slot=False), and start's own release of the slot.    *)
StartKilled(h) ==
  /\ pc[h] = "killing"
  /\ proc' = [proc EXCEPT ![h] = "dead"]
  /\ pc' = [pc EXCEPT ![h] = "killed"]
  /\ UNCHANGED <<state, idle, reg, slots, leased, port, stopVars, chkVars, exited>>

StartFailed(h) ==
  /\ pc[h] = "killed"
  /\ leased' = leased \ {port[h]}
  /\ state' = [state EXCEPT ![h] = "stopped"]
  /\ slots' = slots + 1
  /\ pc' = [pc EXCEPT ![h] = "failed"]
  /\ UNCHANGED <<proc, idle, reg, port, stopVars, chkVars, exited>>

-----------------------------------------------------------------------------
(* Stopping: stop, stop_all and reap_idle each compute their handles once  *)
(* and terminate them one by one.                                          *)

(* The loop over the handles H up to its next await: the stopped ones it   *)
(* meets are skipped, and the kill of another one starts.                  *)
Proceed(s, H, st) ==
  LET open == {h \in H : st[h] # "stopped"} IN
  \/ /\ open = {}
     /\ todo' = [todo EXCEPT ![s] = {}]
     /\ cur' = [cur EXCEPT ![s] = None]
     /\ phase' = [phase EXCEPT ![s] = "ready"]
  \/ \E h \in open :
       /\ todo' = [todo EXCEPT ![s] = H \ {h}]
       /\ cur' = [cur EXCEPT ![s] = h]
       /\ phase' = [phase EXCEPT ![s] = "killing"]

Targets(s, kind, H) ==
  /\ kind \in Jobs[s] /\ phase[s] = "ready" /\ H # {}
  /\ Proceed(s, H, state)
  /\ UNCHANGED <<state, proc, idle, reg, slots, leased, startVars, chkVars, exited>>

(* Mutant: only healthy environments are reaped. *)
ReapHealthy(s) == Targets(s, "reap", {h \in Active : idle[h] /\ state[h] = "healthy"})

Stop(s, i) == reg[i] # None /\ state[reg[i]] # "stopped" /\ Targets(s, "stop", {reg[i]})
StopAll(s) == Targets(s, "stop_all", Active)
Reap(s)    == Targets(s, "reap", {h \in Active : idle[h]})

(* The thread of _terminate: _kill_group.                                  *)
Kill(s) ==
  /\ phase[s] = "killing"
  /\ proc' = [proc EXCEPT ![cur[s]] = "dead"]
  /\ phase' = [phase EXCEPT ![s] = "killed"]
  /\ UNCHANGED <<state, idle, reg, slots, leased, startVars, todo, cur, chkVars, exited>>

(* The rest of _terminate; whoever else terminated the handle during the   *)
(* kill has done the same.                                                 *)
Released(s, slot) ==
  /\ phase[s] = "killed"
  /\ leased' = leased \ {port[cur[s]]}
  /\ state' = [state EXCEPT ![cur[s]] = "stopped"]
  /\ slots' = slots + slot
  /\ Proceed(s, todo[s], [state EXCEPT ![cur[s]] = "stopped"])
  /\ UNCHANGED <<proc, idle, reg, startVars, chkVars, exited>>

(* Mutant: the slot of a terminated handle is kept. *)
TerminatedKeepSlot(s) == Released(s, 0)

Terminated(s) == Released(s, 1)

-----------------------------------------------------------------------------
(* Supervision *)

(* Mutant: a crash is noticed while starting, not after. *)
RefreshedStarting == [h \in Handles |->
  IF h \in Active /\ state[h] = "starting" /\ proc[h] = "dead" THEN "unhealthy" ELSE state[h]]

Refreshed == [h \in Handles |-> IF h \in Active /\ state[h] = "healthy" /\ proc[h] = "dead"
                                THEN "unhealthy" ELSE state[h]]

Refresh ==
  /\ Refreshed # state
  /\ state' = Refreshed
  /\ UNCHANGED <<proc, idle, reg, slots, leased, startVars, stopVars, chkVars, exited>>

(* EnvManager.check up to its await, and after it.                         *)
CheckBegin(c, i) ==
  /\ chk[c] = None /\ checks < MaxChecks
  /\ reg[i] # None /\ state[reg[i]] # "stopped"
  /\ checks' = checks + 1
  /\ IF proc[reg[i]] = "dead"
     THEN state' = Refreshed /\ UNCHANGED chk
     ELSE chk' = [chk EXCEPT ![c] = reg[i]] /\ UNCHANGED state
  /\ UNCHANGED <<proc, idle, reg, slots, leased, startVars, stopVars, exited>>

CheckEnd(c, ok) ==
  /\ chk[c] # None
  /\ ok => Serving(port[chk[c]])
  /\ state' = [state EXCEPT ![chk[c]] = IF ok THEN "healthy" ELSE "unhealthy"]
  /\ chk' = [chk EXCEPT ![c] = None]
  /\ UNCHANGED <<proc, idle, reg, slots, leased, startVars, stopVars, checks, exited>>

Touch(i) ==
  /\ reg[i] # None /\ idle[reg[i]]
  /\ idle' = [idle EXCEPT ![reg[i]] = FALSE]
  /\ UNCHANGED <<state, proc, reg, slots, leased, startVars, stopVars, chkVars, exited>>

(* idle_timeout_s exceeds start_timeout_s, as configured: only a handle    *)
(* whose start has ended goes idle.                                        *)
Age(h) ==
  /\ h \in Active /\ pc[h] \in Ended /\ ~idle[h]
  /\ idle' = [idle EXCEPT ![h] = TRUE]
  /\ UNCHANGED <<state, proc, reg, slots, leased, startVars, stopVars, chkVars, exited>>

(* The server binds its port, or exits when the port is taken.             *)
Boot(h) ==
  /\ proc[h] = "booting"
  /\ proc' = [proc EXCEPT ![h] = IF Serving(port[h]) THEN "dead" ELSE "serving"]
  /\ UNCHANGED <<state, idle, reg, slots, leased, startVars, stopVars, chkVars, exited>>

Crash(h) ==
  /\ proc[h] \in Live
  /\ proc' = [proc EXCEPT ![h] = "dead"]
  /\ UNCHANGED <<state, idle, reg, slots, leased, startVars, stopVars, chkVars, exited>>

(* kill_all_now, at exit or on a signal.                                   *)
KillAllNow ==
  /\ exited' = TRUE
  /\ proc' = [h \in Handles |-> IF h \in Active THEN "dead" ELSE proc[h]]
  /\ leased' = leased \ {port[h] : h \in Active}
  /\ state' = [h \in Handles |-> IF h \in Active THEN "stopped" ELSE state[h]]
  /\ UNCHANGED <<idle, reg, slots, startVars, stopVars, chkVars>>

StartStep(h) == \/ Acquire(h) \/ GiveUp(h) \/ NotLaunched(h)
                \/ \E p \in Ports, written \in BOOLEAN : Launch(h, p, written)
                \/ Poll(h) \/ HealthOk(h) \/ HealthBad(h)
                \/ StartKilled(h) \/ StartFailed(h)
StopStep(s)  == Kill(s) \/ Terminated(s)

Next ==
  /\ ~exited
  /\ \/ \E h \in Handles : \/ Enqueue(h) \/ StartStep(h) \/ StartTimeout(h) \/ CancelStart(h)
                           \/ Age(h) \/ Boot(h) \/ Crash(h)
     \/ \E s \in Stoppers : \/ StopAll(s) \/ Reap(s) \/ StopStep(s)
                            \/ \E i \in Sids : Stop(s, i)
     \/ \E c \in Checkers : \/ \E i \in Sids : CheckBegin(c, i)
                            \/ \E ok \in BOOLEAN : CheckEnd(c, ok)
     \/ \E i \in Sids : Touch(i)
     \/ Refresh
     \/ KillAllNow

Spec == Init /\ [][Next]_vars

(* The loop runs every ready task, threads end (_kill_group is bounded),   *)
(* the start deadline passes, and the supervisor task refreshes and reaps. *)
Fairness ==
  /\ \A h \in Handles : WF_vars(~exited /\ StartStep(h)) /\ SF_vars(~exited /\ StartTimeout(h))
  /\ \A s \in Stoppers : WF_vars(~exited /\ StopStep(s)) /\ WF_vars(~exited /\ Reap(s))
  /\ WF_vars(~exited /\ Refresh)
FairSpec == Spec /\ Fairness

-----------------------------------------------------------------------------
(* Properties *)

(* The cleanup at exit (kill_all_now), stop_all and reap_idle see a server *)
(* through its handle: every live server has a registered, active handle,  *)
(* and nothing is alive after the exit.                                    *)
LiveIsListed ==
  \A h \in Handles : proc[h] \in Live => h \in Active /\ ~exited

(* Whichever way starts fail and terminations overlap, once every start    *)
(* has ended and no handle is active, all slots and ports are back.        *)
NothingLeaks ==
  (\A h \in Handles : pc[h] \in {"new"} \cup Ended) /\ Active = {} /\ ~exited =>
    /\ slots >= MaxEnvs
    /\ leased = {}

(* A crashed server does not stay advertised as healthy.                   *)
CrashIsNoticed ==
  \A h \in Handles :
    state[h] = "healthy" /\ proc[h] = "dead" ~> state[h] # "healthy" \/ exited

(* An idle environment is reclaimed unless it is used again.               *)
IdleIsReaped ==
  \A h \in Handles :
    h \in Active /\ idle[h] ~> ~idle[h] \/ state[h] = "stopped" \/ exited

(* A start call ends, whatever its server does.                            *)
StartsEnd ==
  \A h \in Handles : pc[h] = "queued" ~> pc[h] \in Ended \/ exited

(* The promise of the pool, kept when only the supervisor terminates.      *)
LiveSet == {h \in Handles : proc[h] \in Live}
Pool == INSTANCE EnvPool WITH live <- LiveSet, at <- {<<h, port[h]>> : h \in LiveSet}
PoolSpec == Pool!Spec

(* manager.py: "Concurrency is bounded by a semaphore; callers beyond the  *)
(* limit queue up to a timeout."                                           *)
ConcurrencyIsBounded == Cardinality(LiveSet) <= MaxEnvs
=============================================================================
