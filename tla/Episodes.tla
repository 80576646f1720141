------------------------------ MODULE Episodes ------------------------------
(* EpisodeRunner of lab/episodes.py and the command around it: commands    *)
(* that run the same episodes on the same results.jsonl, one after the     *)
(* other.  Every command is one event loop: the awaits are the places      *)
(* where episodes interleave, where a cancellation arrives, and where the  *)
(* awaited thing may raise.                                                *)
EXTENDS Naturals, FiniteSets

CONSTANTS
  Episodes,      \* a task and a sample each (episode_id)
  Concurrencies, \* EvalConfig.concurrency, an option of each command
  RetryPasses,   \* RETRY_PASSES
  MaxCommands,   \* bound: commands run
  MaxSignals,    \* bound: signals sent to one command
  MaxCrashes     \* bound: crashes of the machine or kills of the process

ASSUME EpisodesAssumption ==
  /\ IsFiniteSet(Episodes)
  /\ Concurrencies \subseteq Nat \ {0} /\ RetryPasses \in Nat
  /\ MaxCommands \in Nat /\ MaxSignals \in Nat /\ MaxCrashes \in Nat

VARIABLES
  lines,     \* results.jsonl: how many lines of each status an episode has
  torn,      \* a line of the file was cut short
  room,      \* run's semaphore: episodes that may be under way at once
  phase,     \* of the command: what run() and asyncio.run are doing
  attempt,   \* run's loop variable
  pc, st,    \* of each episode: where it is, and its record's status
  env,       \* episodes whose environment runs
  left,      \* environments aclose has still to stop
  hit,       \* tasks with a cancellation under way
  signals,   \* signals this command got
  passes,    \* history: passes of this command in which an episode was due
  spoiled,   \* history: episodes that aclose left without session or client
  untidy,    \* history: an exception escaped an episode of this command, or
             \* one swallowed its cancellation
  forced,    \* history: this command was killed, or signalled during aclose
  commands, crashes

fileVars == <<lines, torn>>
runVars  == <<room, phase, attempt, left, signals>>
epVars   == <<pc, st, env, hit>>
history  == <<passes, spoiled, untidy, forced>>
bounds   == <<commands, crashes>>
vars     == <<fileVars, runVars, epVars, history, bounds>>

Retryable == {"env_error", "verify_error", "llm_unavailable"}
Statuses  == Retryable \cup {"ok", "agent_error"}
Holding   == {"starting", "driving", "closing", "unwinding", "judging"}
PCs       == {"idle", "todo", "over"} \cup Holding
Phases    == {"off", "scan", "sleep", "gather", "finally", "sessions", "envs", "exit"}

TypeOK ==
  /\ lines \in [Episodes -> [Statuses -> Nat]] /\ torn \in BOOLEAN
  /\ room \in Nat /\ phase \in Phases
  /\ attempt \in 0 .. RetryPasses /\ signals \in 0 .. MaxSignals
  /\ pc \in [Episodes -> PCs] /\ st \in [Episodes -> Statuses]
  /\ env \subseteq Episodes /\ left \subseteq Episodes /\ hit \subseteq Episodes
  /\ passes \in [Episodes -> 0 .. RetryPasses + 1] /\ spoiled \subseteq Episodes
  /\ untidy \in BOOLEAN /\ forced \in BOOLEAN
  /\ commands \in 0 .. MaxCommands /\ crashes \in 0 .. MaxCrashes

NoLine     == [s \in Statuses |-> 0]
OneLine(t) == [s \in Statuses |-> IF s = t THEN 1 ELSE 0]

Init ==
  /\ lines = [e \in Episodes |-> NoLine] /\ torn = FALSE
  /\ room = 0 /\ phase = "off" /\ attempt = 0 /\ left = {} /\ signals = 0
  /\ pc = [e \in Episodes |-> "idle"] /\ st = [e \in Episodes |-> "ok"]
  /\ env = {} /\ hit = {}
  /\ passes = [e \in Episodes |-> 0] /\ spoiled = {}
  /\ untidy = FALSE /\ forced = FALSE
  /\ commands = 0 /\ crashes = 0

Running     == {e \in Episodes : pc[e] \notin {"idle", "over"}}
Final(s)    == s \notin Retryable
Finished(e) == \E s \in Statuses : Final(s) /\ lines[e][s] > 0

-----------------------------------------------------------------------------
(* The command: run() *)

Start ==
  /\ phase = "off" /\ commands < MaxCommands
  /\ commands' = commands + 1 /\ room' \in Concurrencies
  /\ phase' = "scan" /\ attempt' = 0 /\ left' = {} /\ signals' = 0
  /\ pc' = [e \in Episodes |-> "idle"] /\ st' = [e \in Episodes |-> "ok"]
  /\ env' = {} /\ hit' = {}
  /\ passes' = [e \in Episodes |-> 0] /\ spoiled' = {}
  /\ untidy' = FALSE /\ forced' = FALSE
  /\ UNCHANGED <<fileVars, crashes>>

(* Mutant: every failed episode is tried again. *)
KeptOk(e) == [s \in Statuses |-> IF s = "ok" THEN lines[e][s] ELSE 0]

(* The lines of e that _done_ids writes back.                              *)
Kept(e) == [s \in Statuses |-> IF Final(s) THEN lines[e][s] ELSE 0]

(* Every pass begins with _done_ids.  A torn line does not parse.          *)
Scan ==
  LET todo == {e \in Episodes : ~Finished(e)}
  IN /\ phase = "scan"
     /\ IF torn THEN UNCHANGED lines ELSE lines' = [e \in Episodes |-> Kept(e)]
     /\ IF torn \/ todo = {}
        THEN phase' = "finally" /\ UNCHANGED <<pc, passes>>
        ELSE /\ phase' = IF attempt = 0 THEN "gather" ELSE "sleep"
             /\ pc' = [e \in Episodes |-> IF e \in todo THEN "todo" ELSE "idle"]
             /\ passes' = [e \in Episodes |-> passes[e] + IF e \in todo THEN 1 ELSE 0]
     /\ UNCHANGED <<torn, room, attempt, left, signals, st, env, hit, spoiled, untidy, forced, bounds>>

Wake ==
  /\ phase = "sleep" /\ phase' = "gather"
  /\ UNCHANGED <<fileVars, room, attempt, left, signals, epVars, history, bounds>>

(* Every task of gather returned: a gather that was cancelled raises now   *)
(* at the latest.                                                          *)
PassEnds ==
  /\ phase = "gather" /\ Running = {}
  /\ IF signals > 0 \/ attempt = RetryPasses
     THEN phase' = "finally" /\ UNCHANGED attempt
     ELSE phase' = "scan" /\ attempt' = attempt + 1
  /\ UNCHANGED <<fileVars, room, left, signals, epVars, history, bounds>>

(* gather raises what its first failed or cancelled task raised, and the   *)
(* others go on.                                                           *)
Raise == phase' = IF phase = "gather" THEN "finally" ELSE phase

-----------------------------------------------------------------------------
(* An episode: one(task, sample) *)

(* A task that is not being cancelled takes its next step.                 *)
At(e, where) == pc[e] = where /\ e \notin hit
Move(e, to)  == pc' = [pc EXCEPT ![e] = to]

(* The task is done and appends its line: nothing is awaited between the   *)
(* end of episode() and the end of the write.                              *)
AppendLine(e, status) ==
  /\ lines' = [lines EXCEPT ![e] = [s \in Statuses |-> IF s = status THEN @[s] + 1 ELSE @[s]]]
  /\ Move(e, "over")

(* gather starts the tasks, each of which waits for the semaphore.         *)
Acquire(e) ==
  /\ At(e, "todo") /\ phase # "sleep"
  /\ Cardinality({f \in Episodes : pc[f] \in Holding}) < room
  /\ Move(e, "starting")
  /\ UNCHANGED <<fileVars, runVars, st, env, hit, history, bounds>>

(* create_session fails.                                                   *)
StartFails(e) ==
  /\ At(e, "starting")
  /\ AppendLine(e, "env_error")
  /\ UNCHANGED <<torn, runVars, st, env, hit, history, bounds>>

Started(e) ==
  /\ At(e, "starting")
  /\ env' = env \cup {e} /\ Move(e, "driving")
  /\ UNCHANGED <<fileVars, runVars, st, hit, history, bounds>>

(* _drive ends: the agent answered or a guard stopped it, its endpoint     *)
(* could not be reached (llm_unavailable), or something was raised.        *)
DriveEnds(e, status) ==
  /\ At(e, "driving")
  /\ st' = [st EXCEPT ![e] = status] /\ Move(e, "closing")
  /\ UNCHANGED <<fileVars, runVars, env, hit, history, bounds>>

(* close_session; then the recording is saved and, when the agent ended,   *)
(* the databases are judged.                                               *)
Closed(e) ==
  /\ At(e, "closing")
  /\ env' = env \ {e}
  /\ IF st[e] = "ok" THEN Move(e, "judging") /\ UNCHANGED lines ELSE AppendLine(e, st[e])
  /\ UNCHANGED <<torn, runVars, st, hit, history, bounds>>

(* Mutant: a verifier that failed leaves no line. *)
JudgeSilently(e, status) ==
  /\ At(e, "judging")
  /\ IF status = "ok" THEN AppendLine(e, status) ELSE Move(e, "over") /\ UNCHANGED lines
  /\ UNCHANGED <<torn, runVars, st, env, hit, history, bounds>>

(* _verify: the verifier's verdict, or it did not run.                     *)
Judge(e, status) ==
  /\ At(e, "judging")
  /\ AppendLine(e, status)
  /\ UNCHANGED <<torn, runVars, st, env, hit, history, bounds>>

(* Something nobody catches is raised: by saving the recording once the    *)
(* session is closed, by the comparison of the databases or the verifier's *)
(* files.                                                                  *)
Escape(e) ==
  /\ \/ At(e, "closing") /\ env' = env \ {e}
     \/ At(e, "judging") /\ UNCHANGED env
  /\ Move(e, "over") /\ Raise
  /\ untidy' = TRUE
  /\ UNCHANGED <<fileVars, room, attempt, left, signals, st, hit, passes, spoiled, forced, bounds>>

-----------------------------------------------------------------------------
(* Cancellation and the way out *)

(* SIGTERM and SIGINT cancel the main task: its gather passes it on to     *)
(* every task, its sleep raises it, and its aclose is cut short.           *)
Signal ==
  /\ phase \in {"sleep", "gather", "finally", "sessions", "envs"} /\ signals < MaxSignals
  /\ signals' = signals + 1
  /\ CASE phase = "gather" -> hit' = Running /\ UNCHANGED <<phase, pc, forced>>
       [] phase = "sleep"  -> /\ phase' = "finally" /\ pc' = [e \in Episodes |-> "idle"]
                              /\ UNCHANGED <<hit, forced>>
       [] OTHER            -> /\ phase' = "exit" /\ hit' = Running /\ forced' = TRUE
                              /\ UNCHANGED pc
  /\ UNCHANGED <<fileVars, room, attempt, left, st, env, passes, spoiled, untidy, bounds>>

(* Mutant: the cancellation of a drive passes by its finally. *)
CancelledAtOnce(e) ==
  /\ e \in hit /\ hit' = hit \ {e}
  /\ Move(e, "over") /\ Raise
  /\ env' = IF pc[e] \in {"closing", "unwinding"} THEN env \ {e} ELSE env
  /\ UNCHANGED <<fileVars, room, attempt, left, signals, st, history, bounds>>

(* Mutant: a drive takes its cancellation for a failure of the agent. *)
CancelledCaught(e) ==
  /\ e \in hit /\ hit' = hit \ {e}
  /\ IF pc[e] = "driving"
     THEN Move(e, "closing") /\ st' = [st EXCEPT ![e] = "agent_error"] /\ UNCHANGED <<env, phase>>
     ELSE /\ Move(e, "over") /\ Raise /\ UNCHANGED st
          /\ env' = IF pc[e] \in {"closing", "unwinding"} THEN env \ {e} ELSE env
  /\ UNCHANGED <<fileVars, room, attempt, left, signals, history, bounds>>

(* The task is cancelled where it waits.  A drive closes its session on    *)
(* the way; the kill of a session that is being closed goes on in its      *)
(* thread; a start terminates the environment it launched.                 *)
Cancelled(e) ==
  /\ e \in hit /\ hit' = hit \ {e}
  /\ IF pc[e] = "driving"
     THEN Move(e, "unwinding") /\ UNCHANGED <<env, phase>>
     ELSE /\ Move(e, "over") /\ Raise
          /\ env' = IF pc[e] \in {"closing", "unwinding"} THEN env \ {e} ELSE env
  /\ UNCHANGED <<fileVars, room, attempt, left, signals, st, history, bounds>>

(* The health request of a start or of a preview takes the cancellation    *)
(* for a bad health (envs/health.py:39): the task goes on.                 *)
Swallow(e) ==
  /\ e \in hit /\ pc[e] \in {"starting", "driving"}
  /\ hit' = hit \ {e} /\ untidy' = TRUE
  /\ UNCHANGED <<fileVars, runVars, pc, st, env, passes, spoiled, forced, bounds>>

(* The session of a cancelled drive is closed.                             *)
Unwound(e) ==
  /\ At(e, "unwinding")
  /\ env' = env \ {e} /\ Move(e, "over") /\ Raise
  /\ UNCHANGED <<fileVars, room, attempt, left, signals, st, hit, history, bounds>>

(* Runtime.aclose: the sessions it finds are closed, one after the other;  *)
(* an episode that is closing its own is no longer among them.             *)
CloseSessions ==
  /\ phase = "finally" /\ phase' = "sessions"
  /\ left' = {e \in env : pc[e] = "driving"}
  /\ UNCHANGED <<fileVars, room, attempt, signals, epVars, history, bounds>>

(* envs.close: stop_all goes through the environments that still run.      *)
StopAll == env

CloseEnvs ==
  /\ phase = "sessions" /\ left = {}
  /\ phase' = "envs" /\ left' = StopAll
  /\ UNCHANGED <<fileVars, room, attempt, signals, epVars, history, bounds>>

(* Mutant: a closed session stays in the table that aclose empties. *)
StopOneKeeps(e) ==
  /\ phase \in {"sessions", "envs"} /\ e \in left
  /\ env' = env \ {e}
  /\ spoiled' = IF pc[e] = "driving" THEN spoiled \cup {e} ELSE spoiled
  /\ UNCHANGED <<fileVars, room, phase, attempt, left, signals, pc, st, hit, passes, untidy, forced, bounds>>

StopOne(e) ==
  /\ phase \in {"sessions", "envs"} /\ e \in left
  /\ left' = left \ {e} /\ env' = env \ {e}
  /\ spoiled' = IF pc[e] = "driving" THEN spoiled \cup {e} ELSE spoiled
  /\ UNCHANGED <<fileVars, room, phase, attempt, signals, pc, st, hit, passes, untidy, forced, bounds>>

(* The client is closed, the main task ends, and asyncio.run cancels what  *)
(* still runs.                                                             *)
CloseClient ==
  /\ phase = "envs" /\ left = {}
  /\ phase' = "exit" /\ hit' = Running
  /\ spoiled' = spoiled \cup {e \in Episodes : pc[e] \in {"todo", "starting", "driving"}}
  /\ UNCHANGED <<fileVars, room, attempt, left, signals, pc, st, env, passes, untidy, forced, bounds>>

Exit ==
  /\ phase = "exit" /\ Running = {}
  /\ phase' = "off"
  /\ UNCHANGED <<fileVars, room, attempt, left, signals, epVars, history, bounds>>

(* The process is killed.  _done_ids truncates the file before it writes   *)
(* it again; an append may be cut short too.                               *)
Crash ==
  /\ phase # "off" /\ crashes < MaxCrashes
  /\ crashes' = crashes + 1 /\ phase' = "off" /\ forced' = TRUE
  /\ \/ UNCHANGED fileVars
     \/ /\ phase = "scan" /\ torn' \in BOOLEAN
        /\ \E lost \in SUBSET Episodes :
             lines' = [e \in Episodes |-> IF e \in lost THEN NoLine ELSE Kept(e)]
     \/ /\ Running # {} /\ torn' = TRUE /\ UNCHANGED lines
  /\ pc' = [e \in Episodes |-> "idle"] /\ hit' = {}
  /\ UNCHANGED <<room, attempt, left, signals, st, env, passes, spoiled, untidy, commands>>

-----------------------------------------------------------------------------
Main == Scan \/ Wake \/ PassEnds \/ CloseSessions \/ CloseEnvs \/ CloseClient \/ Exit
        \/ \E e \in Episodes : StopOne(e)

Task(e) ==
  \/ Acquire(e) \/ StartFails(e) \/ Started(e) \/ Closed(e) \/ Unwound(e)
  \/ \E s \in {"ok", "agent_error", "llm_unavailable"} : DriveEnds(e, s)
  \/ \E s \in {"ok", "verify_error"} : Judge(e, s)
  \/ Escape(e) \/ Cancelled(e) \/ Swallow(e)

Next == Start \/ Main \/ Signal \/ Crash \/ \E e \in Episodes : Task(e)

Spec == Init /\ [][Next]_vars

(* The loop runs every ready task; starts, turns, kills and verifiers end  *)
(* (their own timeouts).  Nobody needs to run another command.             *)
FairSpec == Spec /\ WF_vars(Main) /\ \A e \in Episodes : WF_vars(Task(e))

-----------------------------------------------------------------------------
(* Properties *)

(* episodes.py: "one JSON line per episode is appended", "the last outcome *)
(* is kept": an episode never has two lines, and a command that was left   *)
(* to itself leaves exactly one for each; one that says the infrastructure *)
(* failed was tried in every pass.                                         *)
ResultsAreComplete ==
  \A e \in Episodes :
    /\ lines[e] \in {NoLine} \cup {OneLine(s) : s \in Statuses}
    /\ phase = "off" /\ commands > 0 /\ ~(torn \/ untidy \/ forced) /\ signals = 0 =>
         /\ lines[e] # NoLine
         /\ Finished(e) \/ passes[e] = RetryPasses + 1

(* lab/cli.py: "finished episodes are kept and the run resumes from them": *)
(* whatever ends a command, a finished episode keeps its line and gets no  *)
(* other, unless the process is killed while _done_ids rewrites the file.  *)
FinishedStay ==
  [][\A e \in Episodes : Finished(e) /\ ~(phase = "scan" /\ crashes' > crashes)
                           => lines'[e] = lines[e]]_vars

(* A line that no resume retries is the episode's own outcome: it does not *)
(* come from a session or a client that the way out closed under it.       *)
(* run waits for its tasks except when one of them raises.                 *)
OwnOutcome ==
  [][\A e \in Episodes : ~Finished(e) /\ Finished(e)' => e \notin spoiled \/ untidy]_vars

(* lab/cli.py: "SIGTERM / SIGINT cancel the run, so every open environment *)
(* is closed on the way out": no command leaves one behind unless it is    *)
(* killed, or signalled again while it closes them.                        *)
NoEnvLeft == phase = "off" /\ ~forced => env = {}

(* A command ends, whatever its episodes raise and whenever it is stopped. *)
CommandsEnd == phase # "off" ~> phase = "off"
=============================================================================
