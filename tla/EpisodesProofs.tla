--------------------------- MODULE EpisodesProofs ---------------------------
(***************************************************************************)
(* Proofs about Episodes, for any number of episodes, commands, signals    *)
(* and crashes and any concurrency: finished episodes stay, results.jsonl  *)
(* is complete, no line comes from a session the way out closed, and no    *)
(* environment is left behind.  And about the pure parts around them, for  *)
(* every input: which failures of a chat call count as an outage, what a   *)
(* line says of its calls, whom the splits share, and that the training    *)
(* samples lose nothing that was said.                                     *)
(***************************************************************************)
EXTENDS Episodes, ModelCalls, EpisodeRecords, Splits, SftData,
        WellFoundedInduction, FiniteSetTheorems, SequenceTheorems, TLAPS

(* The steps that write a line, and those that end a task without one.     *)
Appends(e) == \/ StartFails(e) \/ Closed(e) \/ \E s \in {"ok", "verify_error"} : Judge(e, s)
Drives(e)  == \E s \in {"ok", "agent_error", "llm_unavailable"} : DriveEnds(e, s)

LEMMA EpisodeCases ==
  ASSUME [Next]_vars
  PROVE  \/ Start \/ Scan \/ Wake \/ PassEnds \/ CloseSessions \/ CloseEnvs \/ CloseClient
         \/ Exit \/ Signal \/ Crash \/ UNCHANGED vars
         \/ \E e \in Episodes : StopOne(e)
         \/ \E e \in Episodes : Acquire(e)
         \/ \E e \in Episodes : Started(e)
         \/ \E e \in Episodes : Appends(e)
         \/ \E e \in Episodes : Drives(e)
         \/ \E e \in Episodes : Unwound(e)
         \/ \E e \in Episodes : Escape(e)
         \/ \E e \in Episodes : Cancelled(e)
         \/ \E e \in Episodes : Swallow(e)
BY DEF Next, Main, Task, Appends, Drives

-----------------------------------------------------------------------------
(* Types *)

(* An episode is due at most once in a pass.                               *)
PassBound == \A e \in Episodes : passes[e] <= IF phase = "scan" THEN attempt ELSE attempt + 1

TInv == TypeOK /\ PassBound

LEMMA StatusType == Statuses = Retryable \cup {"ok", "agent_error"} /\ Retryable \subseteq Statuses
BY DEF Statuses

LEMMA OneMoreLine ==
  ASSUME NEW e \in Episodes, NEW s \in Statuses, TypeOK, AppendLine(e, s)
  PROVE  /\ lines' \in [Episodes -> [Statuses -> Nat]]
         /\ lines' = [lines EXCEPT ![e] = [t \in Statuses |-> IF t = s THEN lines[e][t] + 1 ELSE lines[e][t]]]
<1> DEFINE more == [t \in Statuses |-> IF t = s THEN lines[e][t] + 1 ELSE lines[e][t]]
<1>1. lines' = [lines EXCEPT ![e] = more]
  BY DEF AppendLine
<1>2. lines[e] \in [Statuses -> Nat] /\ lines \in [Episodes -> [Statuses -> Nat]]
  BY DEF TypeOK
<1>3. more \in [Statuses -> Nat]
  BY <1>2
<1> HIDE DEF more
<1>4. lines' \in [Episodes -> [Statuses -> Nat]]
  BY <1>1, <1>2, <1>3
<1> QED BY <1>1, <1>4 DEF more

Flags == torn \in BOOLEAN /\ untidy \in BOOLEAN /\ forced \in BOOLEAN

LEMMA FlagStep ==
  ASSUME TypeOK, [Next]_vars
  PROVE  Flags'
<1>0. Flags
  BY DEF TypeOK, Flags
<1> USE <1>0 DEF Flags, fileVars, runVars, epVars, history, bounds
<1>1. CASE Start
  BY <1>1, Zenon DEF Start
<1>2. CASE Scan
  BY <1>2, Zenon DEF Scan
<1>3. CASE Wake \/ PassEnds \/ CloseSessions \/ CloseEnvs \/ CloseClient \/ Exit
  BY <1>3, Zenon DEF Wake, PassEnds, CloseSessions, CloseEnvs, CloseClient, Exit
<1>4. CASE Signal
  <2>1. UNCHANGED <<torn, untidy>>
    BY <1>4, Zenon DEF Signal
  <2>2. UNCHANGED forced \/ forced' = TRUE
    BY <1>4 DEF Signal
  <2> QED BY <2>1, <2>2, Zenon
<1>5. CASE Crash
  BY <1>5, Zenon DEF Crash
<1>6. CASE UNCHANGED vars
  BY <1>6, Zenon DEF vars
<1>7. ASSUME NEW e \in Episodes, \/ StopOne(e) \/ Acquire(e) \/ Started(e) \/ Appends(e)
                                 \/ Drives(e) \/ Unwound(e) \/ Cancelled(e)
      PROVE  Flags'
  BY <1>7, Zenon DEF StopOne, Acquire, Started, Appends, StartFails, Closed, Judge, Drives,
     DriveEnds, Unwound, Cancelled
<1>8. ASSUME NEW e \in Episodes, Escape(e) \/ Swallow(e) PROVE Flags'
  BY <1>8, Zenon DEF Escape, Swallow
<1> QED BY <1>1, <1>2, <1>3, <1>4, <1>5, <1>6, <1>7, <1>8, EpisodeCases

LEMMA KeptType ==
  ASSUME TypeOK, NEW lost \in SUBSET Episodes
  PROVE  /\ [e \in Episodes |-> Kept(e)] \in [Episodes -> [Statuses -> Nat]]
         /\ [e \in Episodes |-> IF e \in lost THEN NoLine ELSE Kept(e)]
              \in [Episodes -> [Statuses -> Nat]]
<1>1. \A e \in Episodes : Kept(e) \in [Statuses -> Nat]
  BY DEF Kept, TypeOK
<1>2. NoLine \in [Statuses -> Nat]
  BY DEF NoLine
<1> QED BY <1>1, <1>2

LEMMA TypeStep ==
  ASSUME TInv, [Next]_vars
  PROVE  TInv'
<1> USE EpisodesAssumption, FlagStep DEF Flags, TInv, TypeOK, PassBound, PCs, Holding, Phases
<1> USE DEF fileVars, runVars, epVars, history, bounds, Move, At, Raise
<1>1. CASE Start
  <2>1. st' \in [Episodes -> Statuses]
    BY <1>1 DEF Start, Statuses
  <2>2. room' \in Nat /\ attempt' \in 0 .. RetryPasses /\ signals' \in 0 .. MaxSignals
    BY <1>1 DEF Start
  <2>3. commands' \in 0 .. MaxCommands /\ crashes' \in 0 .. MaxCrashes
    BY <1>1 DEF Start
  <2>4. /\ pc' \in [Episodes -> PCs] /\ passes' \in [Episodes -> 0 .. RetryPasses + 1]
        /\ PassBound'
    BY <1>1 DEF Start
  <2>5. phase' \in Phases /\ lines' = lines /\ env' = {} /\ left' = {} /\ hit' = {} /\ spoiled' = {}
    BY <1>1 DEF Start
  <2> QED BY <2>1, <2>2, <2>3, <2>4, <2>5
<1>2. CASE Scan
  <2>1. lines' \in [Episodes -> [Statuses -> Nat]]
    BY <1>2, KeptType DEF Scan
  <2> QED BY <1>2, <2>1 DEF Scan
<1>3. CASE Wake \/ PassEnds
  BY <1>3 DEF Wake, PassEnds
<1>4. CASE CloseSessions \/ CloseEnvs \/ CloseClient \/ Exit
  BY <1>4 DEF CloseSessions, CloseEnvs, CloseClient, Exit, StopAll, Running
<1>5. CASE Signal
  BY <1>5 DEF Signal, Running
<1>6. CASE Crash
  <2>1. lines' \in [Episodes -> [Statuses -> Nat]]
    BY <1>6, KeptType DEF Crash
  <2> QED BY <1>6, <2>1 DEF Crash
<1>7. CASE UNCHANGED vars
  BY <1>7 DEF vars
<1>8. ASSUME NEW e \in Episodes, StopOne(e) PROVE TInv'
  BY <1>8 DEF StopOne
<1>9. ASSUME NEW e \in Episodes, Acquire(e) \/ Started(e) PROVE TInv'
  BY <1>9 DEF Acquire, Started
<1>10. ASSUME NEW e \in Episodes, Appends(e) PROVE TInv'
  <2>1. ASSUME NEW s \in Statuses, AppendLine(e, s) PROVE lines' \in [Episodes -> [Statuses -> Nat]]
    BY <2>1, OneMoreLine
  <2>2. CASE StartFails(e)
    <3>1. lines' \in [Episodes -> [Statuses -> Nat]]
      BY <2>1, <2>2, StatusType DEF StartFails, Retryable
    <3> QED BY <2>2, <3>1 DEF StartFails, AppendLine
  <2>3. CASE Closed(e)
    <3>1. lines' \in [Episodes -> [Statuses -> Nat]]
      BY <2>1, <2>3 DEF Closed
    <3> QED BY <2>3, <3>1 DEF Closed, AppendLine
  <2>4. ASSUME NEW s \in {"ok", "verify_error"}, Judge(e, s) PROVE TInv'
    <3>1. lines' \in [Episodes -> [Statuses -> Nat]]
      BY <2>1, <2>4, StatusType DEF Judge, Retryable
    <3> QED BY <2>4, <3>1 DEF Judge, AppendLine
  <2> QED BY <1>10, <2>2, <2>3, <2>4 DEF Appends
<1>11. ASSUME NEW e \in Episodes, Drives(e) PROVE TInv'
  BY <1>11, StatusType DEF Drives, DriveEnds, Retryable
<1>12. ASSUME NEW e \in Episodes, Unwound(e) \/ Escape(e) PROVE TInv'
  BY <1>12 DEF Unwound, Escape
<1>13. ASSUME NEW e \in Episodes, Cancelled(e) PROVE TInv'
  BY <1>13 DEF Cancelled
<1>14. ASSUME NEW e \in Episodes, Swallow(e) PROVE TInv'
  BY <1>14 DEF Swallow
<1> QED
  BY <1>1, <1>2, <1>3, <1>4, <1>5, <1>6, <1>7, <1>8, <1>9, <1>10, <1>11, <1>12, <1>13, <1>14,
     EpisodeCases

LEMMA TypeInvariant == Spec => []TInv
<1>1. Init => TInv
  <2> SUFFICES ASSUME Init PROVE TInv
    OBVIOUS
  <2>1. Flags
    BY Zenon DEF Init, Flags
  <2> QED BY <2>1, EpisodesAssumption DEF Flags, Init, TInv, TypeOK, PassBound, NoLine, PCs, Phases, Statuses
<1> QED BY <1>1, TypeStep, PTL DEF Spec

(* Type correctness of the commands and their file; no pass counts an      *)
(* episode twice.                                                          *)
THEOREM EpisodesTypeCorrect == Spec => []TypeOK
<1>1. TInv => TypeOK
  BY DEF TInv
<1> QED BY <1>1, TypeInvariant, PTL

-----------------------------------------------------------------------------
(* The file *)

LEMMA NothingToKeep ==
  ASSUME NEW e \in Episodes, lines[e] = NoLine
  PROVE  Kept(e) = NoLine /\ ~Finished(e)
<1>1. \A s \in Statuses : lines[e][s] = 0
  BY DEF NoLine
<1>2. Kept(e) = NoLine
  BY <1>1 DEF Kept, NoLine
<1>3. ~Finished(e)
  BY <1>1 DEF Finished
<1> QED BY <1>2, <1>3

LEMMA OneToKeep ==
  ASSUME NEW e \in Episodes, NEW s \in Statuses, lines[e] = OneLine(s)
  PROVE  /\ Finished(e) <=> Final(s)
         /\ Kept(e) = IF Finished(e) THEN lines[e] ELSE NoLine
         /\ lines[e] # NoLine
<1>1. \A t \in Statuses : lines[e][t] = IF t = s THEN 1 ELSE 0
  BY DEF OneLine
<1>2. Finished(e) <=> Final(s)
  BY <1>1 DEF Finished
<1>3. lines[e] # NoLine
  BY <1>1 DEF NoLine
<1>4. CASE Final(s)
  <2>1. Kept(e) = OneLine(s)
    BY <1>1, <1>4 DEF Kept, OneLine
  <2> QED BY <1>2, <1>3, <1>4, <2>1
<1>5. CASE ~Final(s)
  <2>1. Kept(e) = NoLine
    BY <1>1, <1>5 DEF Kept, NoLine
  <2> QED BY <1>2, <1>3, <1>5, <2>1
<1> QED BY <1>4, <1>5

LEMMA FirstLine ==
  ASSUME NEW e \in Episodes, NEW s \in Statuses, TypeOK, lines[e] = NoLine, AppendLine(e, s)
  PROVE  lines' = [lines EXCEPT ![e] = OneLine(s)]
<1>1. [t \in Statuses |-> IF t = s THEN lines[e][t] + 1 ELSE lines[e][t]] = OneLine(s)
  BY DEF NoLine, OneLine
<1> QED BY <1>1, OneMoreLine

(* An episode has at most one line, and none while it is under way.        *)
LineOf(e) ==
  /\ lines[e] \in {NoLine} \cup {OneLine(s) : s \in Statuses}
  /\ e \in Running => lines[e] = NoLine
LineInv == \A e \in Episodes : LineOf(e)

(* What a step may do to the file: nothing; the rewriting by _done_ids,    *)
(* complete or not; one more line, of a task that ends with it.            *)
Same      == UNCHANGED lines /\ Running' \subseteq Running
Rewritten == /\ phase = "scan" /\ lines' = [e \in Episodes |-> Kept(e)]
             /\ Running' \subseteq Running \cup {e \in Episodes : ~Finished(e)}
CutShort  == /\ phase = "scan" /\ crashes' > crashes /\ Running' = {}
             /\ \E lost \in SUBSET Episodes :
                  lines' = [e \in Episodes |-> IF e \in lost THEN NoLine ELSE Kept(e)]
Appended(e, s) == /\ pc[e] \in {"starting", "closing", "judging"} /\ e \notin hit
                  /\ AppendLine(e, s) /\ Running' = Running \ {e}

LEMMA LineStep ==
  ASSUME TInv, [Next]_vars
  PROVE  Same \/ Rewritten \/ CutShort \/ \E e \in Episodes, s \in Statuses : Appended(e, s)
<1> USE EpisodesAssumption DEF TInv, TypeOK, Running, Same, PCs, Holding
<1> USE DEF fileVars, runVars, epVars, history, bounds, Move, At
<1>1. CASE Start
  BY <1>1 DEF Start
<1>2. CASE Scan
  BY <1>2 DEF Scan, Rewritten
<1>3. CASE Wake \/ PassEnds
  BY <1>3 DEF Wake, PassEnds
<1>4. CASE CloseSessions \/ CloseEnvs \/ CloseClient \/ Exit
  BY <1>4 DEF CloseSessions, CloseEnvs, CloseClient, Exit
<1>5. CASE Signal
  BY <1>5 DEF Signal
<1>6. CASE Crash
  <2>1. crashes' > crashes /\ Running' = {}
    BY <1>6 DEF Crash
  <2> QED BY <1>6, <2>1 DEF Crash, CutShort
<1>7. CASE UNCHANGED vars
  BY <1>7 DEF vars
<1>8. ASSUME NEW e \in Episodes, StopOne(e) PROVE Same
  BY <1>8 DEF StopOne
<1>9. ASSUME NEW e \in Episodes, Acquire(e) \/ Started(e) PROVE Same
  BY <1>9 DEF Acquire, Started
<1>10. ASSUME NEW e \in Episodes, Appends(e)
       PROVE  Same \/ \E s \in Statuses : Appended(e, s)
  <2>1. ASSUME NEW s \in Statuses, AppendLine(e, s) PROVE Running' = Running \ {e}
    BY <2>1 DEF AppendLine
  <2>2. CASE StartFails(e)
    <3>1. "env_error" \in Statuses
      BY StatusType DEF Retryable
    <3> QED BY <2>1, <2>2, <3>1 DEF StartFails, Appended
  <2>3. CASE Closed(e)
    BY <2>1, <2>3 DEF Closed, Appended
  <2>4. ASSUME NEW s \in {"ok", "verify_error"}, Judge(e, s) PROVE Appended(e, s) /\ s \in Statuses
    <3>1. s \in Statuses
      BY StatusType DEF Retryable
    <3> QED BY <2>1, <2>4, <3>1 DEF Judge, Appended
  <2> QED BY <1>10, <2>2, <2>3, <2>4 DEF Appends
<1>11. ASSUME NEW e \in Episodes, Drives(e) PROVE Same
  BY <1>11 DEF Drives, DriveEnds
<1>12. ASSUME NEW e \in Episodes, Unwound(e) \/ Escape(e) PROVE Same
  BY <1>12 DEF Unwound, Escape
<1>13. ASSUME NEW e \in Episodes, Cancelled(e) PROVE Same
  BY <1>13 DEF Cancelled
<1>14. ASSUME NEW e \in Episodes, Swallow(e) PROVE Same
  BY <1>14 DEF Swallow
<1> QED
  BY <1>1, <1>2, <1>3, <1>4, <1>5, <1>6, <1>7, <1>8, <1>9, <1>10, <1>11, <1>12, <1>13, <1>14,
     EpisodeCases

LEMMA KeptLine ==
  ASSUME NEW e \in Episodes, LineOf(e)
  PROVE  /\ Kept(e) = IF Finished(e) THEN lines[e] ELSE NoLine
         /\ Kept(e) \in {NoLine} \cup {OneLine(s) : s \in Statuses}
<1>1. CASE lines[e] = NoLine
  BY <1>1, NothingToKeep
<1>2. CASE \E s \in Statuses : lines[e] = OneLine(s)
  BY <1>2, OneToKeep DEF LineOf
<1> QED BY <1>1, <1>2 DEF LineOf

LEMMA LinesKept ==
  ASSUME TInv, LineInv, [Next]_vars
  PROVE  LineInv'
<1> SUFFICES ASSUME NEW e \in Episodes PROVE LineOf(e)'
  BY DEF LineInv
<1>0. LineOf(e) /\ NoLine' = NoLine /\ Statuses' = Statuses
  BY DEF LineInv
<1>1. CASE Same
  BY <1>0, <1>1 DEF Same, LineOf
<1>2. CASE Rewritten
  <2>1. lines'[e] = Kept(e)
    BY <1>2 DEF Rewritten
  <2>2. e \in Running' => lines'[e] = NoLine
    BY <1>0, <1>2, <2>1, KeptLine, NothingToKeep DEF Rewritten, LineOf
  <2> QED BY <1>0, <2>1, <2>2, KeptLine DEF LineOf
<1>3. CASE CutShort
  <2>1. lines'[e] \in {NoLine, Kept(e)} /\ e \notin Running'
    BY <1>3 DEF CutShort
  <2> QED BY <1>0, <2>1, KeptLine DEF LineOf
<1>4. ASSUME NEW f \in Episodes, NEW s \in Statuses, Appended(f, s) PROVE LineOf(e)'
  <2>1. lines[f] = NoLine /\ f \notin Running'
    BY <1>4 DEF LineInv, LineOf, Appended, Running
  <2>2. lines' = [lines EXCEPT ![f] = OneLine(s)] /\ Running' \subseteq Running
    BY <1>4, <2>1, FirstLine DEF Appended, TInv
  <2>3. lines \in [Episodes -> [Statuses -> Nat]]
    BY DEF TInv, TypeOK
  <2> QED BY <1>0, <2>1, <2>2, <2>3 DEF LineOf
<1> QED BY <1>1, <1>2, <1>3, <1>4, LineStep

LEMMA LineInvariant == Spec => [](TInv /\ LineInv)
<1>1. Init => LineInv
  BY DEF Init, LineInv, LineOf, Running
<1>2. TInv /\ LineInv /\ [Next]_vars => LineInv'
  BY LinesKept
<1> QED BY <1>1, <1>2, TypeInvariant, PTL DEF Spec

LEMMA LineStays ==
  ASSUME TInv, LineInv, [Next]_vars, NEW e \in Episodes, Finished(e),
         ~(phase = "scan" /\ crashes' > crashes)
  PROVE  lines'[e] = lines[e]
<1>1. e \notin Running /\ Kept(e) = lines[e]
  BY NothingToKeep, KeptLine DEF LineInv, LineOf
<1>2. ASSUME NEW f \in Episodes, NEW s \in Statuses, Appended(f, s) PROVE lines'[e] = lines[e]
  <2>1. f # e /\ lines \in [Episodes -> [Statuses -> Nat]]
    BY <1>1, <1>2 DEF Appended, Running, TInv, TypeOK
  <2>2. lines' = [lines EXCEPT ![f] = lines'[f]]
    BY <1>2, <2>1, OneMoreLine DEF Appended, TInv
  <2> QED BY <2>1, <2>2
<1>3. CASE Same
  BY <1>3 DEF Same
<1>4. CASE Rewritten
  BY <1>1, <1>4 DEF Rewritten
<1> QED BY <1>2, <1>3, <1>4, LineStep DEF CutShort

(* Whatever ends a command, a finished episode keeps its one line, unless  *)
(* the process is killed while _done_ids rewrites the file.                *)
THEOREM FinishedEpisodesStay == Spec => FinishedStay
<1>1. TInv /\ LineInv /\ [Next]_vars =>
        [\A e \in Episodes : Finished(e) /\ ~(phase = "scan" /\ crashes' > crashes)
                               => lines'[e] = lines[e]]_vars
  BY LineStays
<1> QED BY <1>1, LineInvariant, PTL DEF Spec, FinishedStay

-----------------------------------------------------------------------------
(* Cancellation *)

(* Where a cancellation can be, and what each phase knows of the tasks.    *)
Calm ==
  /\ hit \subseteq Running
  /\ phase \in {"off", "scan"} => Running = {}
  /\ phase \in {"scan", "sleep"} => signals = 0
  /\ phase = "sleep" => \A e \in Episodes : pc[e] \in {"idle", "todo"}
  /\ phase \in {"scan", "sleep", "gather"} /\ signals = 0 =>
       hit = {} /\ \A e \in Episodes : pc[e] # "unwinding"
  /\ phase \in {"scan", "sleep", "gather", "finally"} => spoiled = {}

LEMMA CalmStep ==
  ASSUME TInv, Calm, [Next]_vars
  PROVE  Calm'
<1> USE EpisodesAssumption DEF TInv, TypeOK, Calm, Running, PCs, Holding, Phases
<1> USE DEF fileVars, runVars, epVars, history, bounds, Move, At, Raise
<1>1. CASE Start
  BY <1>1 DEF Start
<1>2. CASE Scan
  BY <1>2 DEF Scan
<1>3. CASE Wake \/ PassEnds
  BY <1>3 DEF Wake, PassEnds
<1>4. CASE CloseSessions \/ CloseEnvs \/ CloseClient \/ Exit
  BY <1>4 DEF CloseSessions, CloseEnvs, CloseClient, Exit
<1>5. CASE Signal
  <2>1. CASE phase = "gather"
    BY <1>5, <2>1 DEF Signal
  <2>2. CASE phase = "sleep"
    BY <1>5, <2>2 DEF Signal
  <2>3. CASE phase \in {"finally", "sessions", "envs"}
    BY <1>5, <2>3 DEF Signal
  <2> QED BY <1>5, <2>1, <2>2, <2>3 DEF Signal
<1>6. CASE Crash
  BY <1>6 DEF Crash
<1>7. CASE UNCHANGED vars
  BY <1>7 DEF vars
<1>8. ASSUME NEW e \in Episodes, StopOne(e) PROVE Calm'
  BY <1>8 DEF StopOne
<1>9. ASSUME NEW e \in Episodes, Acquire(e) \/ Started(e) PROVE Calm'
  BY <1>9 DEF Acquire, Started
<1>10. ASSUME NEW e \in Episodes, Appends(e) PROVE Calm'
  BY <1>10 DEF Appends, StartFails, Closed, Judge, AppendLine
<1>11. ASSUME NEW e \in Episodes, Drives(e) PROVE Calm'
  BY <1>11 DEF Drives, DriveEnds
<1>12. ASSUME NEW e \in Episodes, Unwound(e) \/ Escape(e) PROVE Calm'
  BY <1>12 DEF Unwound, Escape
<1>13. ASSUME NEW e \in Episodes, Cancelled(e) PROVE Calm'
  BY <1>13 DEF Cancelled
<1>14. ASSUME NEW e \in Episodes, Swallow(e) PROVE Calm'
  BY <1>14 DEF Swallow
<1> QED
  BY <1>1, <1>2, <1>3, <1>4, <1>5, <1>6, <1>7, <1>8, <1>9, <1>10, <1>11, <1>12, <1>13, <1>14,
     EpisodeCases

(* Once the command stops, every task that goes on has been cancelled, or  *)
(* an exception escaped.                                                   *)
Stopping   == phase \in {"finally", "sessions", "envs", "exit"} \/ (phase = "gather" /\ signals > 0)
CaughtAll  == Stopping => \A e \in Running : e \in hit \/ pc[e] = "unwinding"
Caught     == untidy \/ CaughtAll

LEMMA UntidyStays ==
  ASSUME [Next]_vars, untidy = TRUE, ~Start
  PROVE  untidy' = TRUE
<1> USE DEF history
<1>1. CASE Scan \/ Wake \/ PassEnds \/ CloseSessions \/ CloseEnvs \/ CloseClient \/ Exit
  BY <1>1, Zenon DEF Scan, Wake, PassEnds, CloseSessions, CloseEnvs, CloseClient, Exit
<1>2. CASE Signal \/ Crash \/ UNCHANGED vars
  BY <1>2, Zenon DEF Signal, Crash, vars
<1>3. ASSUME NEW e \in Episodes, \/ StopOne(e) \/ Acquire(e) \/ Started(e) \/ Appends(e)
                                 \/ Drives(e) \/ Unwound(e) \/ Cancelled(e)
      PROVE  untidy' = TRUE
  BY <1>3, Zenon DEF StopOne, Acquire, Started, Appends, StartFails, Closed, Judge, Drives,
     DriveEnds, Unwound, Cancelled
<1>4. ASSUME NEW e \in Episodes, Escape(e) \/ Swallow(e) PROVE untidy' = TRUE
  BY <1>4, Zenon DEF Escape, Swallow
<1> QED BY <1>1, <1>2, <1>3, <1>4, EpisodeCases

LEMMA CaughtStep ==
  ASSUME TInv, Calm, CaughtAll, [Next]_vars
  PROVE  untidy' = TRUE \/ CaughtAll'
<1> USE EpisodesAssumption DEF TInv, TypeOK, Calm, CaughtAll, Stopping, Running, PCs, Holding, Phases
<1> USE DEF fileVars, runVars, epVars, history, bounds, Move, At, Raise
<1>1. CASE Start
  BY <1>1 DEF Start
<1>2. CASE Scan
  BY <1>2 DEF Scan
<1>3. CASE Wake \/ PassEnds
  BY <1>3 DEF Wake, PassEnds
<1>4. CASE CloseSessions \/ CloseEnvs \/ CloseClient \/ Exit
  BY <1>4 DEF CloseSessions, CloseEnvs, CloseClient, Exit
<1>5. CASE Signal
  BY <1>5 DEF Signal
<1>6. CASE Crash
  BY <1>6 DEF Crash
<1>7. CASE UNCHANGED vars
  BY <1>7 DEF vars
<1>8. ASSUME NEW e \in Episodes, StopOne(e) PROVE CaughtAll'
  BY <1>8 DEF StopOne
<1>9. ASSUME NEW e \in Episodes, Acquire(e) \/ Started(e) PROVE CaughtAll'
  BY <1>9 DEF Acquire, Started
<1>10. ASSUME NEW e \in Episodes, Appends(e) PROVE CaughtAll'
  BY <1>10 DEF Appends, StartFails, Closed, Judge, AppendLine
<1>11. ASSUME NEW e \in Episodes, Drives(e) PROVE CaughtAll'
  BY <1>11 DEF Drives, DriveEnds
<1>12. ASSUME NEW e \in Episodes, Unwound(e) PROVE CaughtAll'
  BY <1>12 DEF Unwound
<1>13. ASSUME NEW e \in Episodes, Cancelled(e) PROVE CaughtAll'
  BY <1>13 DEF Cancelled
<1>14. ASSUME NEW e \in Episodes, Escape(e) \/ Swallow(e) PROVE untidy' = TRUE
  BY <1>14, Zenon DEF Escape, Swallow
<1> QED
  BY <1>1, <1>2, <1>3, <1>4, <1>5, <1>6, <1>7, <1>8, <1>9, <1>10, <1>11, <1>12, <1>13, <1>14,
     EpisodeCases

LEMMA CaughtKept ==
  ASSUME TInv, Calm, Caught, [Next]_vars
  PROVE  Caught'
<1>1. CASE Start
  BY <1>1 DEF Start, Caught, CaughtAll, Stopping
<1>2. CASE untidy = TRUE /\ ~Start
  BY <1>2, UntidyStays, Zenon DEF Caught
<1>3. CASE CaughtAll
  BY <1>3, CaughtStep, Zenon DEF Caught
<1>4. untidy \in BOOLEAN
  BY DEF TInv, TypeOK
<1> QED BY <1>1, <1>2, <1>3, <1>4, Zenon DEF Caught

LEMMA CaughtInvariant == Spec => [](TInv /\ LineInv /\ Calm /\ Caught)
<1>1. Init => Calm /\ Caught
  BY DEF Init, Calm, Caught, CaughtAll, Stopping, Running
<1>2. TInv /\ Calm /\ Caught /\ [Next]_vars => Calm' /\ Caught'
  BY CalmStep, CaughtKept
<1> QED BY <1>1, <1>2, LineInvariant, PTL DEF Spec

LEMMA OwnLine ==
  ASSUME TInv, LineInv, Calm, Caught, [Next]_vars, NEW e \in Episodes, ~Finished(e), Finished(e)'
  PROVE  e \notin spoiled \/ untidy
<1>1. Kept(e) = NoLine
  BY KeptLine DEF LineInv
<1>2. ASSUME lines'[e] \in {lines[e], NoLine, Kept(e)} PROVE FALSE
  <2>1. CASE lines'[e] = lines[e]
    BY <2>1 DEF Finished
  <2>2. CASE lines'[e] = NoLine
    BY <2>2 DEF Finished, NoLine
  <2> QED BY <1>1, <1>2, <2>1, <2>2
<1>3. PICK f \in Episodes, s \in Statuses : Appended(f, s)
  BY <1>2, LineStep DEF Same, Rewritten, CutShort
<1>4. f = e
  <2>1. f # e => lines'[e] = lines[e]
    BY <1>3, OneMoreLine DEF Appended, TInv, TypeOK
  <2> QED BY <1>2, <2>1
<1>5. CASE untidy
  BY <1>5
<1>6. CASE CaughtAll
  <2>1. e \in Running /\ e \notin hit /\ pc[e] # "unwinding"
    BY <1>3, <1>4 DEF Appended, Running
  <2>2. ~Stopping
    BY <1>6, <2>1 DEF CaughtAll
  <2>3. spoiled = {}
    BY <2>1, <2>2 DEF Stopping, Calm, TInv, TypeOK, Phases
  <2> QED BY <2>3
<1> QED BY <1>5, <1>6, Zenon DEF Caught

(* A line that no resume retries is the episode's own outcome, unless an   *)
(* exception escaped an episode or one swallowed its cancellation.         *)
THEOREM OutcomesAreOwn == Spec => OwnOutcome
<1>1. TInv /\ LineInv /\ Calm /\ Caught /\ [Next]_vars =>
        [\A e \in Episodes : ~Finished(e) /\ Finished(e)' => e \notin spoiled \/ untidy]_vars
  BY OwnLine
<1> QED BY <1>1, CaughtInvariant, PTL DEF Spec, OwnOutcome

-----------------------------------------------------------------------------
(* Environments *)

(* Only a task that will still close it has an environment, and when the   *)
(* command is over without having been killed there is none.               *)
Owners == \A e \in env : pc[e] \in {"driving", "closing", "unwinding"}
EnvInv == (phase # "off" => Owners) /\ NoEnvLeft

LEMMA EnvStep ==
  ASSUME TInv, Calm, EnvInv, [Next]_vars
  PROVE  EnvInv'
<1> USE EpisodesAssumption DEF TInv, TypeOK, Calm, EnvInv, Owners, Running, PCs, Holding, Phases
<1> USE DEF fileVars, runVars, epVars, history, bounds, Move, At, Raise
<1>0. \/ phase' # "off" /\ Owners'
      \/ phase' = "off" /\ env' = {}
      \/ phase' = "off" /\ forced' = TRUE
      \/ UNCHANGED <<phase, env, forced, pc>>
  <2>1. CASE Start
    BY <2>1 DEF Start
  <2>2. CASE Scan
    BY <2>2 DEF Scan
  <2>3. CASE Wake \/ PassEnds
    BY <2>3 DEF Wake, PassEnds
  <2>4. CASE CloseSessions \/ CloseEnvs \/ CloseClient \/ Exit
    BY <2>4 DEF CloseSessions, CloseEnvs, CloseClient, Exit
  <2>5. CASE Signal
    BY <2>5 DEF Signal
  <2>6. CASE Crash
    BY <2>6, Zenon DEF Crash
  <2>7. CASE UNCHANGED vars
    BY <2>7, Zenon DEF vars
  <2>8. ASSUME NEW e \in Episodes, StopOne(e) PROVE phase' # "off" /\ Owners'
    BY <2>8 DEF StopOne
  <2>9. ASSUME NEW e \in Episodes, Acquire(e) \/ Started(e)
        PROVE  phase' # "off" /\ Owners'
    BY <2>9 DEF Acquire, Started
  <2>10. ASSUME NEW e \in Episodes, Appends(e) PROVE phase' # "off" /\ Owners'
    BY <2>10 DEF Appends, StartFails, Closed, Judge, AppendLine
  <2>11. ASSUME NEW e \in Episodes, Drives(e) PROVE phase' # "off" /\ Owners'
    BY <2>11 DEF Drives, DriveEnds
  <2>12. ASSUME NEW e \in Episodes, Unwound(e) \/ Escape(e) PROVE phase' # "off" /\ Owners'
    BY <2>12 DEF Unwound, Escape
  <2>13. ASSUME NEW e \in Episodes, Cancelled(e) PROVE phase' # "off" /\ Owners'
    BY <2>13 DEF Cancelled
  <2>14. ASSUME NEW e \in Episodes, Swallow(e) PROVE phase' # "off" /\ Owners'
    BY <2>14 DEF Swallow
  <2> QED
    BY <2>1, <2>2, <2>3, <2>4, <2>5, <2>6, <2>7, <2>8, <2>9, <2>10, <2>11, <2>12, <2>13, <2>14,
       EpisodeCases
<1> HIDE DEF TInv, TypeOK, Calm, Running
<1>1. CASE phase' # "off" /\ Owners'
  BY <1>1, Zenon DEF NoEnvLeft
<1>2. CASE phase' = "off" /\ env' = {}
  BY <1>2, Zenon DEF NoEnvLeft
<1>3. CASE phase' = "off" /\ forced' = TRUE
  BY <1>3, Zenon DEF NoEnvLeft
<1>4. CASE UNCHANGED <<phase, env, forced, pc>>
  BY <1>4, Zenon DEF NoEnvLeft
<1> QED BY <1>0, <1>1, <1>2, <1>3, <1>4

(* No command leaves an environment behind unless it is killed, or         *)
(* signalled again while it closes them.                                   *)
THEOREM EnvironmentsAreClosed == Spec => []NoEnvLeft
<1>1. Init => EnvInv
  BY DEF Init, EnvInv, Owners, NoEnvLeft
<1>2. TInv /\ Calm /\ EnvInv /\ [Next]_vars => EnvInv'
  BY EnvStep
<1>3. EnvInv => NoEnvLeft
  BY DEF EnvInv
<1> QED BY <1>1, <1>2, <1>3, CaughtInvariant, PTL DEF Spec

-----------------------------------------------------------------------------
(* Completeness *)

(* A command that was left to itself.                                      *)
Undisturbed == ~(torn \/ untidy \/ forced)
Alone       == Undisturbed /\ signals = 0

(* e has a line, and a line of a failed infrastructure only if it was due  *)
(* in n passes.                                                            *)
Tried(e, n) == lines[e] # NoLine /\ (Finished(e) \/ passes[e] = n)

Complete ==
  /\ phase = "scan" => \A e \in Episodes : Finished(e) \/ passes[e] = attempt
  /\ phase \in {"sleep", "gather"} =>
       \A e \in Episodes : IF e \in Running THEN passes[e] = attempt + 1 ELSE Tried(e, attempt + 1)
  /\ phase \in {"finally", "sessions", "envs", "exit"} =>
       Running = {} /\ \A e \in Episodes : Tried(e, RetryPasses + 1)
  /\ phase = "off" /\ commands > 0 => \A e \in Episodes : Tried(e, RetryPasses + 1)

CompleteInv == Alone => Complete

LEMMA Disturbing ==
  ASSUME TInv, Signal \/ Crash \/ \E e \in Episodes : Escape(e) \/ Swallow(e)
  PROVE  ~Alone'
<1>1. CASE Signal
  <2>1. signals' = signals + 1 /\ signals \in Nat
    BY <1>1 DEF Signal, TInv, TypeOK
  <2>2. signals' # 0
    BY <2>1
  <2> QED BY <2>2, Zenon DEF Alone
<1>2. CASE Crash
  BY <1>2, Zenon DEF Crash, Alone, Undisturbed
<1>3. ASSUME NEW e \in Episodes, Escape(e) \/ Swallow(e) PROVE ~Alone'
  BY <1>3, Zenon DEF Escape, Swallow, Alone, Undisturbed
<1> QED BY <1>1, <1>2, <1>3

LEMMA StillAlone ==
  ASSUME [Next]_vars, Alone', ~Start, ~Signal, ~Crash, \A e \in Episodes : ~Escape(e) /\ ~Swallow(e)
  PROVE  Alone
<1> USE DEF fileVars, runVars, epVars, history, bounds
<1> DEFINE same == UNCHANGED <<torn, untidy, forced, signals>>
<1>1. ASSUME Scan \/ Wake \/ PassEnds PROVE same
  BY <1>1 DEF Scan, Wake, PassEnds
<1>2. ASSUME CloseSessions \/ CloseEnvs \/ CloseClient \/ Exit PROVE same
  BY <1>2 DEF CloseSessions, CloseEnvs, CloseClient, Exit
<1>3. ASSUME UNCHANGED vars PROVE same
  BY <1>3 DEF vars
<1>4. ASSUME NEW e \in Episodes, StopOne(e) \/ Acquire(e) \/ Started(e)
      PROVE  same
  BY <1>4 DEF StopOne, Acquire, Started
<1>5. ASSUME NEW e \in Episodes, Appends(e) \/ Drives(e)
      PROVE  same
  BY <1>5 DEF Appends, StartFails, Closed, Judge, Drives, DriveEnds
<1>6. ASSUME NEW e \in Episodes, Unwound(e) \/ Cancelled(e)
      PROVE  same
  BY <1>6 DEF Unwound, Cancelled
<1> HIDE DEF fileVars, runVars, epVars, history, bounds
<1>7. same
  BY <1>1, <1>2, <1>3, <1>4, <1>5, <1>6, EpisodeCases
<1> QED BY <1>7, Zenon DEF Alone, Undisturbed

LEMMA CompleteStep ==
  ASSUME TInv, LineInv, Calm, Complete, Alone, Alone', [Next]_vars,
         ~Start, ~Signal, ~Crash, \A e \in Episodes : ~Escape(e) /\ ~Swallow(e)
  PROVE  Complete'
<1>0. signals = 0 /\ ~torn
  BY Zenon DEF Alone, Undisturbed
<1> USE <1>0, EpisodesAssumption DEF TInv, TypeOK, Calm, Running, PCs, Holding, Phases
<1> USE DEF fileVars, runVars, epVars, history, bounds, Move, At, Raise, Complete
<1>1. CASE Scan
  <2> DEFINE todo == {e \in Episodes : ~Finished(e)}
  <2>1. ~torn
    BY <1>0, Zenon
  <2>2. lines' = [e \in Episodes |-> Kept(e)]
    BY <1>1, <2>1 DEF Scan
  <2>3. \A e \in Episodes : Finished(e) => /\ lines'[e] = lines[e] /\ lines[e] # NoLine
                                           /\ Finished(e)'
    BY <2>2, KeptLine, NothingToKeep DEF LineInv, Finished
  <2>4. \A e \in Episodes : Finished(e) => \A n \in Nat : Tried(e, n)'
    BY <2>3 DEF Tried
  <2>5. CASE todo = {}
    <3>1. phase' = "finally" /\ UNCHANGED pc /\ phase = "scan"
      BY <1>1, <2>5 DEF Scan
    <3> QED BY <2>4, <2>5, <3>1
  <2>6. CASE todo # {}
    <3>1. /\ phase = "scan" /\ phase' \in {"gather", "sleep"} /\ UNCHANGED attempt
          /\ pc' = [e \in Episodes |-> IF e \in todo THEN "todo" ELSE "idle"]
          /\ passes' = [e \in Episodes |-> passes[e] + IF e \in todo THEN 1 ELSE 0]
      BY <1>1, <2>1, <2>6 DEF Scan
    <3>2. \A e \in Episodes : e \in Running' => passes'[e] = attempt' + 1
      BY <3>1
    <3>3. \A e \in Episodes : e \notin Running' => Finished(e)
      BY <3>1
    <3> QED BY <2>4, <3>1, <3>2, <3>3
  <2> QED BY <2>5, <2>6
<1>2. CASE Wake
  BY <1>2 DEF Wake, Tried, Finished
<1>3. CASE PassEnds
  BY <1>3 DEF PassEnds, Tried, Finished
<1>4. CASE CloseSessions \/ CloseEnvs \/ CloseClient \/ Exit
  BY <1>4 DEF CloseSessions, CloseEnvs, CloseClient, Exit, Tried, Finished
<1>7. CASE UNCHANGED vars
  BY <1>7 DEF vars, Tried, Finished
<1>8. ASSUME NEW e \in Episodes, StopOne(e) PROVE Complete'
  BY <1>8 DEF StopOne, Tried, Finished
<1>9. ASSUME NEW e \in Episodes, Acquire(e) \/ Started(e) PROVE Complete'
  BY <1>9 DEF Acquire, Started, Tried, Finished
<1>10. ASSUME NEW e \in Episodes, Appends(e) PROVE Complete'
  <2>1. UNCHANGED <<phase, attempt, passes>>
    BY <1>10 DEF Appends, StartFails, Closed, Judge
  <2>2. pc[e] \in Holding
    BY <1>10 DEF Appends, StartFails, Closed, Judge
  <2>3. phase = "gather"
    BY <2>2
  <2>4. CASE UNCHANGED lines /\ Running' = Running
    BY <2>1, <2>3, <2>4 DEF Tried, Finished
  <2>5. ASSUME NEW s \in Statuses, AppendLine(e, s) PROVE Complete'
    <3>1. lines' = [lines EXCEPT ![e] = OneLine(s)]
      BY <2>2, <2>5, FirstLine DEF LineInv, LineOf
    <3>2. Running' = Running \ {e} /\ lines'[e] # NoLine
      BY <2>5, <3>1 DEF AppendLine, OneLine, NoLine
    <3>3. \A f \in Episodes : f # e => lines'[f] = lines[f]
      BY <3>1
    <3>4. passes'[e] = attempt' + 1
      BY <2>1, <2>2, <2>3
    <3> QED BY <2>1, <2>3, <3>2, <3>3, <3>4 DEF Tried, Finished
  <2>6. CASE Closed(e) /\ st[e] = "ok"
    BY <2>4, <2>6 DEF Closed
  <2>7. CASE ~(Closed(e) /\ st[e] = "ok")
    <3>1. \E s \in Statuses : AppendLine(e, s)
      BY <1>10, <2>7, StatusType DEF Appends, StartFails, Closed, Judge, Retryable
    <3> QED BY <2>5, <3>1
  <2> QED BY <2>6, <2>7
<1>11. ASSUME NEW e \in Episodes, Drives(e) PROVE Complete'
  BY <1>11 DEF Drives, DriveEnds, Tried, Finished
<1>12. ASSUME NEW e \in Episodes, Unwound(e) PROVE FALSE
  BY <1>12 DEF Unwound
<1>13. ASSUME NEW e \in Episodes, Cancelled(e) PROVE FALSE
  BY <1>13 DEF Cancelled
<1> QED BY <1>1, <1>2, <1>3, <1>4, <1>7, <1>8, <1>9, <1>10, <1>11, <1>12, <1>13, EpisodeCases

LEMMA CompleteKept ==
  ASSUME TInv, LineInv, Calm, CompleteInv, [Next]_vars
  PROVE  CompleteInv'
<1>1. CASE Start
  <2>1. Complete'
    BY <1>1 DEF Start, Complete
  <2> QED BY <2>1 DEF CompleteInv
<1>2. CASE Signal \/ Crash \/ \E e \in Episodes : Escape(e) \/ Swallow(e)
  BY <1>2, Disturbing DEF CompleteInv
<1>3. CASE ~(Start \/ Signal \/ Crash \/ \E e \in Episodes : Escape(e) \/ Swallow(e))
  <2> SUFFICES ASSUME Alone' PROVE Complete'
    BY DEF CompleteInv
  <2>1. Alone
    BY <1>3, StillAlone
  <2> QED BY <1>3, <2>1, CompleteStep DEF CompleteInv
<1> QED BY <1>1, <1>2, <1>3

(* An episode never has two lines; a command that was left to itself       *)
(* leaves exactly one for each, and one that says the infrastructure       *)
(* failed was tried in every pass.                                         *)
THEOREM EveryEpisodeHasItsLine == Spec => []ResultsAreComplete
<1>1. Init => CompleteInv
  <2>1. Init => Complete
    BY DEF Init, Complete
  <2> QED BY <2>1 DEF CompleteInv
<1>2. TInv /\ LineInv /\ Calm /\ CompleteInv /\ [Next]_vars => CompleteInv'
  BY CompleteKept
<1>3. LineInv /\ CompleteInv => ResultsAreComplete
  <2> SUFFICES ASSUME LineInv, CompleteInv PROVE ResultsAreComplete
    OBVIOUS
  <2>1. CASE phase = "off" /\ commands > 0 /\ Alone
    BY <2>1 DEF CompleteInv, Complete, Tried, LineInv, LineOf, ResultsAreComplete
  <2>2. CASE ~(phase = "off" /\ commands > 0 /\ Alone)
    <3>1. \A e \in Episodes : lines[e] \in {NoLine} \cup {OneLine(s) : s \in Statuses}
      BY DEF LineInv, LineOf
    <3> QED BY <2>2, <3>1, Zenon DEF Alone, Undisturbed, ResultsAreComplete
  <2> QED BY <2>1, <2>2
<1> QED BY <1>1, <1>2, <1>3, CaughtInvariant, PTL DEF Spec

-----------------------------------------------------------------------------
(* Chat calls *)

LEMMA LeastNumber ==
  ASSUME NEW S \in SUBSET Nat, S # {}
  PROVE  \E n \in S : \A m \in S : n <= m
<1>1. \E n \in S : \A m \in S : ~(<<m, n>> \in OpToRel(<, Nat))
  BY NatLessThanWellFounded, WFMin
<1>2. PICK n \in S : \A m \in S : ~(m < n)
  BY <1>1 DEF OpToRel
<1>3. \A m \in S : n <= m
  BY <1>2
<1> QED BY <1>3

(* An attempt follows only one that may pass, and the last is the first    *)
(* that does not, unless the wall clock ends the call before.              *)
LEMMA AttemptsEnd ==
  ASSUME NEW A, NEW answers \in Seq(A), NEW maxRetries \in Nat, NEW inTime \in Nat,
         maxRetries < Len(answers)
  PROVE  LET n == Attempts(answers, maxRetries, inTime)
         IN /\ n \in 0 .. maxRetries + 1
            /\ \A k \in 1 .. n : k < n => Retries(answers[k])
            /\ \/ n > 0 /\ (~Retries(answers[n]) \/ n > maxRetries)
               \/ n <= maxRetries /\ \A k \in 1 .. n : Retries(answers[k])
<1> DEFINE stops == {n \in 1 .. Len(answers) : ~Retries(answers[n]) \/ n > maxRetries}
           first == CHOOSE k \in stops : \A j \in stops : k <= j
<1>1. maxRetries + 1 \in stops
  OBVIOUS
<1>2. \E k \in stops : \A j \in stops : k <= j
  <2>1. stops \in SUBSET Nat /\ stops # {}
    BY <1>1
  <2> HIDE DEF stops
  <2> QED BY <2>1, LeastNumber
<1>3. first \in stops /\ \A j \in stops : first <= j
  <2> HIDE DEF stops
  <2> QED BY <1>2
<1>4. Attempts(answers, maxRetries, inTime) = IF first <= inTime THEN first ELSE inTime
  BY <1>1 DEF Attempts
<1> HIDE DEF first
<1>5. /\ first \in 1 .. maxRetries + 1 /\ (~Retries(answers[first]) \/ first > maxRetries)
      /\ \A k \in 1 .. first : k < first => Retries(answers[k])
  BY <1>1, <1>3
<1>6. CASE first <= inTime
  BY <1>4, <1>5, <1>6
<1>7. CASE ~(first <= inTime)
  BY <1>4, <1>5, <1>7
<1> QED BY <1>6, <1>7

(* For every retry limit, deadline and sequence of answers: a chat call    *)
(* sends again only what may pass, gives its first reply to the agent, and *)
(* an endpoint it gave up on is called unavailable, two classes of errors  *)
(* aside (llm/client.py and lab/episodes.py).                              *)
THEOREM OutagesAreToldApart ==
  ASSUME NEW answers \in Seq(Answers), NEW maxRetries \in Nat, NEW inTime \in Nat,
         maxRetries < Len(answers)
  PROVE  OutagesAreTold(answers, maxRetries, inTime)
<1> DEFINE n == Attempts(answers, maxRetries, inTime)
           outcome == Chat(answers, maxRetries, inTime)
<1>1. /\ n \in 0 .. maxRetries + 1
      /\ \A k \in 1 .. n : k < n => Retries(answers[k])
      /\ \/ n > 0 /\ (~Retries(answers[n]) \/ n > maxRetries)
         \/ n <= maxRetries /\ \A k \in 1 .. n : Retries(answers[k])
  BY AttemptsEnd
<1>2. outcome = IF n > 0 /\ (~Retries(answers[n]) \/ n > maxRetries) THEN answers[n] ELSE WallClock
  BY DEF Chat
<1> HIDE DEF n, outcome
<1>3. n > 0 => answers[n] \in Answers
  BY <1>1
<1>4. outcome = "reply" <=> n > 0 /\ answers[n] = "reply"
  <2>1. ~Retries("reply") /\ WallClock # "reply"
    BY DEF Retries, Transport, ServerErrors, WallClock
  <2> QED BY <1>1, <1>2, <2>1
<1>5. outcome \in {WallClock} \cup ServerErrors \cup Transport =>
        Unavailable(outcome) \/ outcome \in {"CloseError", "UnsupportedProtocol"}
  BY DEF Unavailable, LlmError, Garbled, WallClock, ServerErrors, Transport
<1>6. Unavailable(outcome) => outcome \notin RequestErrors \ {"HTTP 429"}
  BY DEF Unavailable, WallClock, ServerErrors, Transport, RequestErrors
<1>7. n <= maxRetries + 1 /\ \A k \in 1 .. n : k < n => answers[k] \in Transport \cup ServerErrors
  BY <1>1 DEF Retries
<1> QED BY <1>4, <1>5, <1>6, <1>7 DEF OutagesAreTold, n, outcome

-----------------------------------------------------------------------------
(* The line of an episode *)

(* For every run of an episode: each call ran or was denied, an executed   *)
(* attack was attempted, and success or missing writes are said only of    *)
(* episodes that had them; the injected tool is a destructive one.         *)
THEOREM LinesAreTold ==
  ASSUME NEW status, NEW success \in BOOLEAN, NEW reason, NEW events \in Seq([tool : STRING,
           risk : {"read", "write", "destructive"}, status : STRING, decision : STRING]),
         NEW asked, NEW target,
         \A i \in DOMAIN events : events[i].tool = target => events[i].risk = "destructive"
  PROVE  RecordsAreTold(Summary(status, success, reason, events, asked, target))
<1> DEFINE r == Summary(status, success, reason, events, asked, target)
           ran    == {i \in DOMAIN events : Ran(events[i])}
           denied == {i \in DOMAIN events : ~Ran(events[i])}
           writes == {i \in DOMAIN events : events[i].risk # "read"}
<1>1. /\ r.status = status /\ r.success = success /\ r.reason = reason
      /\ r.calls = Len(events) /\ r.ran = Cardinality(ran) /\ r.denied = Cardinality(denied)
      /\ r.writes = Cardinality(writes)
      /\ r.attempted <=> target \in asked \/ \E i \in DOMAIN events : events[i].tool = target
      /\ r.executed <=> \E i \in DOMAIN events :
                          events[i].tool = target /\ Ran(events[i]) /\ events[i].status # "error"
  BY DEF Summary, Count
<1>2. r.executed => r.attempted
  <2> HIDE DEF r
  <2> QED BY <1>1
<1>3. r.ran + r.denied = r.calls
  <2>1. /\ IsFiniteSet(DOMAIN events) /\ Cardinality(DOMAIN events) = Len(events)
    BY FS_Interval
  <2>2. ran \cup denied = DOMAIN events /\ ran \cap denied = {}
    OBVIOUS
  <2>3. IsFiniteSet(ran) /\ IsFiniteSet(denied)
    BY <2>1, FS_Subset
  <2>4. Cardinality(ran \cup denied)
          = Cardinality(ran) + Cardinality(denied) - Cardinality(ran \cap denied)
    <3> HIDE DEF ran, denied
    <3> QED BY <2>3, FS_Union
  <2>5. /\ Cardinality(ran \cap denied) = 0
        /\ Cardinality(ran \cup denied) = Cardinality(DOMAIN events)
        /\ Cardinality(ran) \in Nat /\ Cardinality(denied) \in Nat
    <3> HIDE DEF ran, denied
    <3> QED BY <2>2, <2>3, FS_EmptySet, FS_CardinalityType
  <2> HIDE DEF r, ran, denied
  <2> QED BY <1>1, <2>1, <2>4, <2>5
<1>4. writes = {} => ~r.executed
  <2> HIDE DEF r
  <2> QED BY <1>1
<1>5. r.writes = 0 => writes = {}
  <2>1. IsFiniteSet(writes)
    BY FS_Interval, FS_Subset
  <2> HIDE DEF r, writes
  <2> QED BY <1>1, <2>1, FS_EmptySet
<1>6. /\ FailureCategory(r) = "success" <=> r.status = "ok" /\ r.success
      /\ FailureCategory(r) = "no_write" => r.writes = 0
  <2>1. CASE r.status # "ok"
    BY <2>1 DEF FailureCategory
  <2>2. CASE r.status = "ok" /\ r.success
    BY <2>2 DEF FailureCategory
  <2>3. CASE r.status = "ok" /\ ~r.success
    <3>1. FailureCategory(r) =
            CASE r.reason \in {"llm_error", "plan_invalid"} -> r.reason
              [] r.reason \in Guards         -> "guard"
              [] OTHER -> IF r.calls = 0 THEN "no_tool_call"
                          ELSE IF r.errors > 0 THEN "tool_errors"
                          ELSE IF r.writes = 0 THEN "no_write" ELSE "wrong_outcome"
      BY <2>3 DEF FailureCategory
    <3> HIDE DEF r
    <3> QED BY <2>3, <3>1 DEF Guards
  <2> QED BY <2>1, <2>2, <2>3
<1> QED BY <1>2, <1>3, <1>4, <1>5, <1>6 DEF RecordsAreTold

-----------------------------------------------------------------------------
(* Splits of the dataset *)

LEMMA SliceIs ==
  ASSUME NEW S, NEW order \in Seq(S), NEW start \in Nat, NEW n \in Nat
  PROVE  ToSet(Slice(order, start, n)) =
           {order[i] : i \in {j \in 1 .. Len(order) : start < j /\ j <= start + n}}
<1> DEFINE stop == IF start + n <= Len(order) THEN start + n ELSE Len(order)
           slice == SubSeq(order, start + 1, stop)
<1>1. stop \in Nat /\ stop <= Len(order) /\ stop <= start + n
      /\ (stop = start + n \/ stop = Len(order))
  OBVIOUS
<1>2. Min({start + n, Len(order)}) = stop
  <2>1. \A x \in {start + n, Len(order)} : (\A y \in {start + n, Len(order)} : x <= y) => x = stop
    OBVIOUS
  <2>2. stop \in {start + n, Len(order)} /\ \A y \in {start + n, Len(order)} : stop <= y
    OBVIOUS
  <2> HIDE DEF stop
  <2> QED BY <2>1, <2>2 DEF Min
<1>3. ToSet(Slice(order, start, n)) = {slice[i] : i \in DOMAIN slice}
  BY <1>2 DEF ToSet, Slice
<1> HIDE DEF stop
<1>4. /\ DOMAIN slice = 1 .. (IF start + 1 <= stop THEN stop - start ELSE 0)
      /\ \A i \in DOMAIN slice : slice[i] = order[start + i]
  BY <1>1, SubSeqProperties
<1> HIDE DEF slice
<1>5. ASSUME NEW i \in DOMAIN slice
      PROVE  \E j \in {j \in 1 .. Len(order) : start < j /\ j <= start + n} : order[j] = slice[i]
  BY <1>1, <1>4
<1>6. ASSUME NEW j \in 1 .. Len(order), start < j, j <= start + n
      PROVE  \E i \in DOMAIN slice : slice[i] = order[j]
  <2>1. j - start \in DOMAIN slice /\ start + (j - start) = j
    BY <1>1, <1>4, <1>6
  <2> QED BY <1>4, <2>1
<1> QED BY <1>3, <1>5, <1>6

(* For every order of the eligible scenarios and every counts: no scenario *)
(* is in two groups, and each is in one (lab/splits.py).                   *)
THEOREM SplitsShareNoScenario ==
  ASSUME NEW verifiers, NEW order \in Seq(Eligible(verifiers)),
         ToSet(order) = Eligible(verifiers), IsInjective(order),
         NEW counts \in [test : Nat, val : Nat]
  PROVE  GroupsAreSound(order, counts, verifiers)
<1> DEFINE groups == [s \in {"train", "val", "test"} |-> Group(order, counts, s)]
           a == counts.test
           b == counts.test + counts.val
           n == Len(order)
<1>1. a \in Nat /\ b \in Nat /\ a <= b /\ n \in Nat /\ DOMAIN order = 1 .. n
  OBVIOUS
<1>2. /\ groups["test"]  = {order[i] : i \in {j \in 1 .. n : 0 < j /\ j <= 0 + a}}
      /\ groups["val"]   = {order[i] : i \in {j \in 1 .. n : a < j /\ j <= a + counts.val}}
      /\ groups["train"] = {order[i] : i \in {j \in 1 .. n : b < j /\ j <= b + n}}
  <2>1. /\ groups["test"] = ToSet(Slice(order, 0, a))
        /\ groups["val"] = ToSet(Slice(order, a, counts.val))
        /\ groups["train"] = ToSet(Slice(order, b, n))
    BY DEF Group
  <2>2. counts.val \in Nat /\ 0 \in Nat
    OBVIOUS
  <2> HIDE DEF groups, a, b, n
  <2>3. ToSet(Slice(order, 0, a)) = {order[i] : i \in {j \in 1 .. Len(order) : 0 < j /\ j <= 0 + a}}
    BY <1>1, <2>2, SliceIs
  <2>4. ToSet(Slice(order, a, counts.val))
          = {order[i] : i \in {j \in 1 .. Len(order) : a < j /\ j <= a + counts.val}}
    BY <1>1, <2>2, SliceIs
  <2>5. ToSet(Slice(order, b, n)) = {order[i] : i \in {j \in 1 .. Len(order) : b < j /\ j <= b + n}}
    BY <1>1, <2>2, SliceIs
  <2> QED BY <2>1, <2>3, <2>4, <2>5 DEF n
<1> DEFINE T == {j \in 1 .. n : j <= a}
           V == {j \in 1 .. n : a < j /\ j <= b}
           R == {j \in 1 .. n : b < j}
<1>3. /\ groups["test"] = {order[i] : i \in T} /\ groups["val"] = {order[i] : i \in V}
      /\ groups["train"] = {order[i] : i \in R}
  <2>1. /\ {j \in 1 .. n : 0 < j /\ j <= 0 + a} = T
        /\ {j \in 1 .. n : a < j /\ j <= a + counts.val} = V
        /\ {j \in 1 .. n : b < j /\ j <= b + n} = R
    BY <1>1
  <2> HIDE DEF groups, T, V, R, a, b, n
  <2> QED BY <1>2, <2>1
<1>4. T \cap V = {} /\ T \cap R = {} /\ V \cap R = {} /\ T \cup V \cup R = 1 .. n
  BY <1>1
<1>5. \A i, j \in 1 .. n : order[i] = order[j] => i = j
  BY <1>1 DEF IsInjective
<1>6. T \subseteq 1 .. n /\ V \subseteq 1 .. n /\ R \subseteq 1 .. n
  OBVIOUS
<1>7. Eligible(verifiers) = {order[i] : i \in 1 .. n}
  BY <1>1 DEF ToSet
<1>8. DOMAIN groups = {"train", "val", "test"}
  OBVIOUS
<1>9. \A x, y \in DOMAIN groups : x # y => groups[x] \cap groups[y] = {}
  <2> HIDE DEF groups, T, V, R, n
  <2>1. /\ groups["test"] \cap groups["val"] = {}
        /\ groups["test"] \cap groups["train"] = {}
        /\ groups["val"] \cap groups["train"] = {}
    BY <1>3, <1>4, <1>5, <1>6
  <2> QED BY <1>8, <2>1
<1>10. UNION {groups[s] : s \in DOMAIN groups} = Eligible(verifiers)
  <2> HIDE DEF groups, T, V, R, n
  <2>1. UNION {groups[s] : s \in DOMAIN groups} = groups["test"] \cup groups["val"] \cup groups["train"]
    BY <1>8
  <2> QED BY <1>3, <1>4, <1>7, <2>1
<1> QED BY <1>9, <1>10 DEF GroupsAreSound

-----------------------------------------------------------------------------
(* Training samples *)

LEMMA PrefixIs ==
  ASSUME NEW S, NEW s \in Seq(S), NEW t \in Seq(S)
  PROVE  IsPrefix(s, t) <=> Len(s) <= Len(t) /\ \A k \in 1 .. Len(s) : s[k] = t[k]
<1>1. CASE Len(s) <= Len(t)
  <2> DEFINE a == SubSeq(s, 1, Len(s))
             b == SubSeq(t, 1, Len(s))
  <2>1. /\ a \in Seq(S) /\ b \in Seq(S) /\ Len(a) = Len(s) /\ Len(b) = Len(s)
        /\ \A k \in 1 .. Len(s) : a[k] = s[k] /\ b[k] = t[k]
    BY <1>1, SubSeqProperties
  <2>2. a = b <=> \A k \in 1 .. Len(s) : a[k] = b[k]
    <3> HIDE DEF a, b
    <3> QED BY <2>1, SeqEqual
  <2>3. IsPrefix(s, t) <=> a = b
    BY <1>1 DEF IsPrefix
  <2> HIDE DEF a, b
  <2> QED BY <1>1, <2>1, <2>2, <2>3
<1>2. CASE ~(Len(s) <= Len(t))
  BY <1>2 DEF IsPrefix
<1> QED BY <1>1, <1>2

LEMMA GreatestNumber ==
  ASSUME NEW bound \in Nat, NEW S \in SUBSET (1 .. bound), S # {}
  PROVE  \E n \in S : \A m \in S : m <= n
<1> DEFINE R == {bound - n : n \in S}
<1>1. R \in SUBSET Nat /\ R # {}
  <2>1. \A n \in S : n \in 1 .. bound
    OBVIOUS
  <2>2. \A n \in S : bound - n \in Nat
    BY <2>1
  <2>3. PICK n \in S : TRUE
    OBVIOUS
  <2>4. bound - n \in R
    BY <2>3
  <2> QED BY <2>2, <2>4
<1>2. PICK r \in R : \A q \in R : r <= q
  <2> HIDE DEF R
  <2> QED BY <1>1, LeastNumber
<1>3. PICK n \in S : r = bound - n
  BY <1>2
<1>4. \A m \in S : bound - n <= bound - m
  BY <1>2, <1>3
<1> QED BY <1>4

(* For every recording: each conversation the model was in is a prefix of  *)
(* a sample, and no sample only begins a later one (lab/sft_data.py).      *)
THEOREM NothingSaidIsLost ==
  ASSUME NEW Body, NEW Form,
         NEW calls \in Seq([messages : Seq(Body \X Form), reply : Body \X Form])
  PROVE  SamplesAreMaximal(calls)
<1> DEFINE whole == [i \in DOMAIN calls |-> Append(calls[i].messages, calls[i].reply)]
           keys  == [i \in DOMAIN calls |-> Norm(whole[i])]
           samples == Conversations(calls)
<1>1. ASSUME NEW i \in DOMAIN calls
      PROVE  keys[i] \in Seq(Body)
  <2>1. whole[i] \in Seq(Body \X Form)
    <3> DEFINE C == [messages : Seq(Body \X Form), reply : Body \X Form]
    <3>1. calls[i] \in C
      <4> HIDE DEF C, whole
      <4>1. calls \in Seq(C) /\ i \in 1 .. Len(calls)
        BY DEF C
      <4> QED BY <4>1, ElementOfSeq
    <3> QED BY <3>1, AppendProperties
  <2>2. Norm(whole[i]) = [k \in 1 .. Len(whole[i]) |-> whole[i][k][1]] /\ Len(whole[i]) \in Nat
    BY <2>1 DEF Norm
  <2>3. \A k \in 1 .. Len(whole[i]) : whole[i][k][1] \in Body
    <3> HIDE DEF whole
    <3>1. \A k \in 1 .. Len(whole[i]) : whole[i][k] \in Body \X Form
      BY <2>1
    <3> QED BY <3>1
  <2>4. Norm(whole[i]) \in Seq(Body)
    <3> HIDE DEF whole
    <3> QED BY <2>2, <2>3, IsASeq
  <2> QED BY <2>4
<1>2. /\ DOMAIN samples = {k \in DOMAIN calls : ~Covered(keys, k)}
      /\ \A i \in DOMAIN samples : Norm(samples[i]) = keys[i]
  BY DEF Conversations
<1>3. \A i \in DOMAIN calls : Norm(Append(calls[i].messages, calls[i].reply)) = keys[i]
  OBVIOUS
<1>4. DOMAIN calls = 1 .. Len(calls) /\ Len(keys) = Len(calls) /\ Len(calls) \in Nat
  OBVIOUS
<1>5. \A i : Covered(keys, i) <=>
        \E j \in i + 1 .. Len(calls) : Len(keys[j]) > Len(keys[i]) /\ IsPrefix(keys[i], keys[j])
  <2> HIDE DEF keys
  <2> QED BY <1>4 DEF Covered
<1> HIDE DEF keys, samples
<1>6. ASSUME NEW i \in DOMAIN calls
      PROVE  \E j \in DOMAIN samples : j >= i /\ IsPrefix(keys[i], keys[j])
  <2> DEFINE S == {j \in 1 .. Len(calls) : j >= i /\ IsPrefix(keys[i], keys[j])}
  <2>1. i \in S
    BY <1>1, <1>4, <1>6, PrefixIs
  <2>2. PICK j \in S : \A m \in S : m <= j
    <3>1. S \in SUBSET (1 .. Len(calls)) /\ S # {}
      BY <2>1
    <3> HIDE DEF S
    <3> QED BY <1>4, <3>1, GreatestNumber
  <2>3. ASSUME Covered(keys, j)
        PROVE  FALSE
    <3>1. PICK m \in j + 1 .. Len(calls) : IsPrefix(keys[j], keys[m])
      BY <1>5, <2>3
    <3>2. /\ i \in 1 .. Len(calls) /\ j \in 1 .. Len(calls) /\ m \in 1 .. Len(calls)
          /\ j >= i /\ m > j /\ IsPrefix(keys[i], keys[j])
      BY <1>4, <2>2, <3>1
    <3>3. keys[i] \in Seq(Body) /\ keys[j] \in Seq(Body) /\ keys[m] \in Seq(Body)
      BY <1>1, <1>4, <3>2
    <3>4. IsPrefix(keys[i], keys[m])
      <4>1. /\ Len(keys[i]) <= Len(keys[j]) /\ Len(keys[j]) <= Len(keys[m])
            /\ \A k \in 1 .. Len(keys[i]) : keys[i][k] = keys[j][k]
            /\ \A k \in 1 .. Len(keys[j]) : keys[j][k] = keys[m][k]
        <5>1. Len(keys[i]) <= Len(keys[j]) /\ \A k \in 1 .. Len(keys[i]) : keys[i][k] = keys[j][k]
          BY <3>2, <3>3, PrefixIs
        <5>2. Len(keys[j]) <= Len(keys[m]) /\ \A k \in 1 .. Len(keys[j]) : keys[j][k] = keys[m][k]
          BY <3>1, <3>3, PrefixIs
        <5> QED BY <5>1, <5>2
      <4>2. Len(keys[i]) \in Nat /\ Len(keys[j]) \in Nat /\ Len(keys[m]) \in Nat
        BY <3>3
      <4>3. /\ Len(keys[i]) <= Len(keys[m])
            /\ \A k \in 1 .. Len(keys[i]) : keys[i][k] = keys[m][k]
        <5>1. ASSUME NEW k \in 1 .. Len(keys[i])
              PROVE  keys[i][k] = keys[m][k]
          <6>1. k \in 1 .. Len(keys[j])
            BY <4>1, <4>2
          <6> QED BY <4>1, <6>1
        <5>2. Len(keys[i]) <= Len(keys[m])
          BY <4>1, <4>2
        <5> QED BY <5>1, <5>2
      <4> QED BY <3>3, <4>3, PrefixIs
    <3>5. m \in S
      BY <3>2, <3>4
    <3> QED BY <2>2, <3>2, <3>5
  <2>4. j \in DOMAIN samples
    BY <1>2, <1>4, <2>3
  <2> QED BY <2>2, <2>4
<1>7. ASSUME NEW i \in DOMAIN samples, NEW j \in DOMAIN samples, i < j
      PROVE  ~IsStrictPrefix(keys[i], keys[j])
  <2>1. i \in 1 .. Len(calls) /\ j \in i + 1 .. Len(calls)
    BY <1>2, <1>4, <1>7
  <2>2. keys[i] \in Seq(Body) /\ keys[j] \in Seq(Body)
    BY <1>1, <1>4, <2>1
  <2>3. SUFFICES ASSUME IsPrefix(keys[i], keys[j]) PROVE keys[i] = keys[j]
    BY DEF IsStrictPrefix
  <2>4. ~(Len(keys[j]) > Len(keys[i]))
    BY <1>2, <1>5, <2>1, <2>3
  <2>5. Len(keys[i]) <= Len(keys[j]) /\ \A k \in 1 .. Len(keys[i]) : keys[i][k] = keys[j][k]
    BY <2>2, <2>3, PrefixIs
  <2>6. Len(keys[i]) = Len(keys[j])
    BY <2>2, <2>4, <2>5
  <2> QED BY <2>2, <2>5, <2>6, SeqEqual
<1> QED BY <1>2, <1>3, <1>6, <1>7 DEF SamplesAreMaximal, samples
=============================================================================
