--------------------------- MODULE SynthRunProofs ---------------------------
(***************************************************************************)
(* Proofs about SynthRun: its type invariant; a command that runs to its   *)
(* end leaves sound outputs if it found none wrongly counted as finished;  *)
(* while the limit of lost requests stays the same, every one does; an     *)
(* answer is paid for once; a step's status is what its requests became.   *)
(***************************************************************************)
EXTENDS SynthRun, FiniteSetTheorems, TLAPS

USE DEF Following

-----------------------------------------------------------------------------
(* Types *)

LEMMA JudgeType ==
  ASSUME TypeOK, NEW ok \in BOOLEAN
  PROVE  /\ Judge(ok) \in [entry : Entry, outcome : Outcomes]
         /\ Judge(ok).outcome = "none" =>
              /\ ok
              /\ Judge(ok).entry.status \in {"done", "done_with_failures"}
              /\ Judge(ok).entry.lost <= limit
         /\ Judge(ok).outcome # "none" => Judge(ok).entry.status = "failed"
         /\ Judge(ok).outcome # "ok"
<1>1. Cardinality(Ended("failed")) \in Nat
  <2>1. IsFiniteSet(Ended("failed"))
    BY ProxyAssumption, FS_Subset DEF Ended
  <2> QED BY <2>1, FS_CardinalityType
<1>2. limit \in Nat
  BY DEF TypeOK
<1> DEFINE lost == Cardinality(Ended("failed"))
<1> HIDE DEF lost
<1>3. lost \in Nat
  BY <1>1 DEF lost
<1>4. Judge(ok) \in {[entry |-> [status |-> "failed", lost |-> lost], outcome |-> how] :
                       how \in {"budget", "upstream_errors", "failed"}}
      \/ /\ ok /\ lost <= limit
         /\ Judge(ok) \in {[entry |-> [status |-> st, lost |-> lost], outcome |-> "none"] :
                             st \in {"done", "done_with_failures"}}
  BY <1>2, <1>3 DEF Judge, lost
<1> QED BY <1>3, <1>4 DEF Entry, Statuses, Outcomes

LEMMA ProxyType ==
  ASSUME TypeOK, NEW q \in Reqs, Client(q) \/ Patience(q) \/ \E k \in 1..Tries : Upstream(q, k)
  PROVE  TypeOK'
<1> USE ProxyAssumption
<1>1. UNCHANGED runVars
  BY DEF Client, Patience, Upstream
<1>2. Key[q] \in Keys
  OBVIOUS
<1>3. CASE Client(q)
  <2>0. Tries \in Nat /\ tries[q] \in 0..Tries
    BY DEF TypeOK, ProxyTypeOK
  <2>1. /\ tries' = [tries EXCEPT ![q] = @ + 1] /\ tries[q] < Tries
        /\ client' \in [Reqs -> {"idle", "waiting", "answered", "lost"}]
        /\ UNCHANGED <<budget, spent, cache, empty, faults>>
    BY <1>3 DEF Client, Hit, HitEmpty, Refuse, Forward, Sent, TypeOK, ProxyTypeOK, Retry
  <2>2. tries' \in [Reqs -> 0..Tries] /\ tries[q] + 1 \in 1..Tries
    BY <2>0, <2>1 DEF TypeOK, ProxyTypeOK
  <2>3. last' \in [Keys -> Entries]
    BY <1>2, <1>3 DEF Client, Hit, HitEmpty, Refuse, Forward, TypeOK, ProxyTypeOK, Entries
  <2>4. flight' \subseteq Attempts
    BY <1>3, <2>2 DEF Client, Hit, HitEmpty, Refuse, Forward, TypeOK, ProxyTypeOK, Attempts
  <2> QED BY <1>1, <2>1, <2>2, <2>3, <2>4 DEF TypeOK, ProxyTypeOK, runVars
<1>4. CASE Patience(q)
  BY <1>1, <1>4 DEF Patience, GiveUp, Retry, TypeOK, ProxyTypeOK, runVars
<1>5. ASSUME NEW k \in 1..Tries, Upstream(q, k)
      PROVE  TypeOK'
  <2>1. /\ flight' \subseteq flight /\ spent' \in Nat
        /\ cache' \in SUBSET Keys /\ cache \subseteq cache' /\ UNCHANGED <<budget, empty, tries, faults>>
    BY <1>2, <1>5 DEF Upstream, Answer, Fail, TypeOK, ProxyTypeOK
  <2>2. last' \in [Keys -> Entries]
    BY <1>2, <1>5 DEF Upstream, Answer, Fail, TypeOK, ProxyTypeOK, Entries
  <2>3. client' \in [Reqs -> {"idle", "waiting", "answered", "lost"}]
    BY <1>5 DEF Upstream, Answer, Fail, TypeOK, ProxyTypeOK, Retry
  <2> QED BY <1>1, <2>1, <2>2, <2>3 DEF TypeOK, ProxyTypeOK, runVars
<1> QED BY <1>3, <1>4, <1>5

LEMMA DyingType ==
  ASSUME ProxyTypeOK, ProxyDies
  PROVE  ProxyTypeOK'
<1> USE ProxyAssumption
<1>1. CASE UNCHANGED <<spent, cache, empty, faults>>
  BY <1>1 DEF ProxyDies, ProxyTypeOK
<1>2. ASSUME NEW x \in flight, faults < MaxFaults, faults' = faults + 1, spent' = spent + 1,
             \/ UNCHANGED <<cache, empty>>
             \/ cache' = cache \cup {Key[x[1]]} /\ empty' = empty \cup {Key[x[1]]}
      PROVE  ProxyTypeOK'
  <2>1. Key[x[1]] \in Keys
    BY <1>2 DEF ProxyTypeOK, Attempts
  <2>2. cache' \subseteq Keys /\ empty' \subseteq cache'
    BY <1>2, <2>1 DEF ProxyTypeOK
  <2>3. spent' \in Nat /\ faults' \in 0..MaxFaults
    BY <1>2 DEF ProxyTypeOK
  <2>4. flight' \subseteq Attempts /\ UNCHANGED <<budget, last, client, tries>>
    BY DEF ProxyDies, ProxyTypeOK
  <2> QED BY <2>2, <2>3, <2>4 DEF ProxyTypeOK
<1> QED BY <1>1, <1>2 DEF ProxyDies

LEMMA EndsType ==
  ASSUME TypeOK, NEW how \in Outcomes, Ends(how)
  PROVE  /\ limit' \in Nat /\ commands' \in Nat
         /\ runner' \in {"idle", "deciding", "running", "judged"}
         /\ at' \in 1..(N + 1) /\ (runner' \in {"running", "judged"} => at' \in Steps)
         /\ redo' \in BOOLEAN /\ outcome' \in Outcomes /\ sound' \in BOOLEAN
         /\ verdict' \in [entry : Entry, outcome : Outcomes]
<1>1. at' = 1 /\ 1 \in 1..(N + 1)
  BY RunAssumption DEF Ends
<1>2. verdict' = Nothing /\ Nothing \in [entry : Entry, outcome : Outcomes]
  BY DEF Ends, Nothing, Pending, Entry, Statuses, Outcomes
<1>3. /\ runner' = "idle" /\ redo' = FALSE /\ outcome' = how
      /\ UNCHANGED <<limit, commands, sound>>
  BY DEF Ends
<1> QED BY <1>1, <1>2, <1>3 DEF TypeOK

LEMMA RunnerType ==
  ASSUME TypeOK,
         \/ \E b \in Budgets, l \in Limits : Start(b, l)
         \/ Runner \/ WritePart \/ Interrupt \/ Stop \/ Crash \/ ProxyEnds
         \/ \E ok \in BOOLEAN : StepEnds(ok)
  PROVE  TypeOK'
<1> USE RunAssumption DEF TypeOK
<1>0. N \in Nat /\ at \in Nat
  BY DEF Steps
<1>1. ASSUME NEW b \in Budgets, NEW l \in Limits, Start(b, l)
      PROVE  TypeOK'
  <2>1. /\ budget' \in Nat \cup {None} /\ limit' \in Nat /\ commands' \in Nat
        /\ runner' \in {"idle", "deciding"} /\ outcome' \in Outcomes /\ sound' \in BOOLEAN
    BY <1>1 DEF Start, Outcomes
  <2>2. UNCHANGED <<spent, cache, empty, last, client, tries, flight, faults>>
        /\ UNCHANGED <<at, redo, verdict, entry, torn, out, stale>>
    BY <1>1 DEF Start
  <2> QED BY <2>1, <2>2 DEF ProxyTypeOK
<1>2. CASE Skip
  <2>1. at' \in 1..(N + 1)
    BY <1>0, <1>2 DEF Skip, Steps
  <2>2. runner = "deciding"
        /\ UNCHANGED <<proxyVars, limit, commands, runner, redo, verdict, entry, torn, outcome, out, stale, sound>>
    BY <1>2 DEF Skip
  <2> QED BY <2>1, <2>2 DEF ProxyTypeOK, proxyVars
<1>3. CASE Block
  <2>1. "budget" \in Outcomes /\ Ends("budget")
    BY <1>3 DEF Block, Outcomes
  <2> QED BY <1>3, <2>1, EndsType DEF Block, ProxyTypeOK, proxyVars
<1>4. CASE Begin
  <2>1. /\ last' \in [Keys -> Entries]
        /\ client' \in [Reqs -> {"idle", "waiting", "answered", "lost"}]
        /\ tries' \in [Reqs -> 0..Tries] /\ UNCHANGED <<budget, spent, cache, empty, flight, faults>>
    BY <1>4, ProxyAssumption DEF Begin, ProxyTypeOK, Entries
  <2>2. /\ out' \in [Steps -> Outputs] /\ redo' \in BOOLEAN /\ runner' = "running" /\ at \in Steps
        /\ UNCHANGED <<limit, commands, at, verdict, entry, torn, outcome, stale, sound>>
    BY <1>4 DEF Begin, Outputs
  <2> QED BY <2>1, <2>2 DEF ProxyTypeOK
<1>5. ASSUME NEW o \in Outputs, Written(at, o), at \in Steps
      PROVE  out' \in [Steps -> Outputs] /\ stale' \subseteq Steps
  BY <1>5 DEF Written
<1>6. CASE WritePart
  <2>1. at \in Steps /\ out' \in [Steps -> Outputs] /\ stale' \subseteq Steps
    BY <1>5, <1>6 DEF WritePart, Outputs
  <2> QED BY <1>6, <2>1 DEF WritePart, ProxyTypeOK, proxyVars
<1>7. ASSUME NEW ok \in BOOLEAN, StepEnds(ok)
      PROVE  TypeOK'
  <2>1. at \in Steps /\ out' \in [Steps -> Outputs] /\ stale' \subseteq Steps
    BY <1>5, <1>7 DEF StepEnds, Outputs
  <2>2. verdict' \in [entry : Entry, outcome : Outcomes]
    BY <1>7, JudgeType DEF StepEnds
  <2>3. runner' = "judged"
        /\ UNCHANGED <<proxyVars, limit, commands, at, redo, entry, torn, outcome, sound>>
    BY <1>7 DEF StepEnds
  <2> QED BY <2>1, <2>2, <2>3 DEF ProxyTypeOK, proxyVars
<1>8. CASE Interrupt
  BY <1>8 DEF Interrupt, ProxyTypeOK, proxyVars, Entry, Statuses, Outcomes
<1>9. CASE Save
  <2>1. /\ entry' \in [Steps -> Entry] /\ at \in Steps
        /\ UNCHANGED <<proxyVars, torn, out, stale>>
    BY <1>9 DEF Save, Saved
  <2>2. CASE Ends(verdict.outcome)
    <3>1. verdict.outcome \in Outcomes
      OBVIOUS
    <3> QED BY <2>1, <2>2, <3>1, EndsType DEF ProxyTypeOK, proxyVars
  <2>3. CASE ~Ends(verdict.outcome)
    <3>1. /\ runner' = "deciding" /\ verdict' = Nothing /\ at' \in {at, at + 1}
          /\ UNCHANGED <<limit, commands, redo, outcome, sound>>
      BY <1>9, <2>3 DEF Save, Saved
    <3>2. at' \in 1..(N + 1)
      BY <1>0, <2>1, <3>1 DEF Steps
    <3> QED BY <2>1, <3>1, <3>2 DEF ProxyTypeOK, proxyVars, Nothing, Pending, Entry, Statuses, Outcomes
  <2> QED BY <2>2, <2>3
<1>10. CASE Stop
  <2>1. "interrupted" \in Outcomes /\ Ends("interrupted")
    BY <1>10 DEF Stop, Outcomes
  <2> QED BY <1>10, <2>1, EndsType DEF Stop, Torn, ProxyTypeOK, proxyVars
<1>11. CASE Crash
  <2>1. "crashed" \in Outcomes /\ Ends("crashed") /\ ProxyTypeOK'
    BY <1>11, DyingType DEF Crash, Outcomes
  <2> QED BY <1>11, <2>1, EndsType DEF Crash, Torn
<1>12. CASE Finish
  <2>1. "ok" \in Outcomes /\ Ends("ok")
    BY <1>12 DEF Finish, Outcomes
  <2> QED BY <1>12, <2>1, EndsType DEF Finish, ProxyTypeOK, proxyVars
<1>13. CASE ProxyEnds
  BY <1>13, DyingType DEF ProxyEnds, runVars
<1> QED BY <1>1, <1>2, <1>3, <1>4, <1>6, <1>7, <1>8, <1>9, <1>10, <1>11, <1>12, <1>13 DEF Runner

LEMMA TypeInductive == /\ Init => TypeOK
                       /\ TypeOK /\ [Next]_vars => TypeOK'
<1>1. Init => TypeOK
  <2> SUFFICES ASSUME Init PROVE TypeOK
    OBVIOUS
  <2>1. ProxyTypeOK
    BY ProxyAssumption DEF Init, ProxyInit, ProxyTypeOK, Entries
  <2>2. /\ limit \in Nat /\ commands \in Nat /\ runner = "idle"
        /\ redo \in BOOLEAN /\ torn \in BOOLEAN /\ sound \in BOOLEAN /\ outcome \in Outcomes
    BY DEF Init, Outcomes
  <2>5. at \in 1..(N + 1)
    BY RunAssumption DEF Init
  <2>3. Pending \in Entry /\ verdict \in [entry : Entry, outcome : Outcomes]
    BY DEF Init, Nothing, Pending, Entry, Statuses, Outcomes
  <2>4. /\ entry \in [Steps -> Entry] /\ out \in [Steps -> Outputs] /\ stale \subseteq Steps
    BY <2>3 DEF Init, Outputs
  <2> QED BY <2>1, <2>2, <2>3, <2>4, <2>5 DEF TypeOK
<1>2. TypeOK /\ [Next]_vars => TypeOK'
  <2> SUFFICES ASSUME TypeOK, [Next]_vars PROVE TypeOK'
    OBVIOUS
  <2>1. CASE UNCHANGED vars
    BY <2>1 DEF TypeOK, ProxyTypeOK, vars, proxyVars, runVars
  <2> QED BY <2>1, ProxyType, RunnerType DEF Next
<1> QED BY <1>1, <1>2

(* Every value stays typed: steps judged are steps of the plan, an empty   *)
(* cache file is a cache file, tries stay bounded.                         *)
THEOREM SynthTypeCorrect == Spec => []TypeOK
BY TypeInductive, PTL DEF Spec

-----------------------------------------------------------------------------
(* A command that finds no unsound step keeps the outputs sound.           *)

Good(s) == out[s] = "whole" /\ s \notin stale

(* While a command runs that found no unsound step: the steps it is past   *)
(* are good; until it runs a step itself nothing has changed, and from     *)
(* then on redo is set; a verdict that lets it go on is about a good step. *)
CommandInv ==
  /\ TypeOK
  /\ verdict.outcome # "ok"
  /\ runner = "idle" => at = 1 /\ ~redo
  /\ runner # "idle" => outcome = "none"
  /\ runner \in {"running", "judged"} => redo
  /\ sound /\ runner # "idle" =>
       /\ \A s \in Steps : s < at => Good(s)
       /\ ~redo => Unsound = {}
       /\ runner = "judged" /\ verdict.outcome = "none" => Good(at)
  /\ SoundCommand

(* What a step writes leaves the earlier ones as they are.                 *)
LEMMA WrittenKeeps ==
  ASSUME TypeOK, at \in Steps, at' = at, NEW o \in Outputs, Written(at, o)
  PROVE  /\ \A s \in Steps : s < at => (Good(s) => Good(s)')
         /\ o = "whole" => Good(at)'
<1>1. \A s \in Steps : s \in Nat
  BY RunAssumption DEF Steps
<1>2. /\ out'[at] = o /\ \A s \in Steps \ {at} : out'[s] = out[s]
      /\ \A s \in Steps : (s \in stale' => (s \in stale /\ s # at) \/ s > at)
  BY DEF Written, TypeOK
<1> QED BY <1>1, <1>2 DEF Good

LEMMA CommandStep ==
  ASSUME CommandInv, [Next]_vars
  PROVE  CommandInv'
<1> USE DEF CommandInv
<1>0. TypeOK /\ TypeOK' /\ at \in Nat /\ N \in Nat /\ \A s \in Steps : s \in Nat /\ 1 <= s
  BY TypeInductive, RunAssumption DEF TypeOK, Steps
<1> DEFINE Rest == /\ verdict.outcome # "ok"
                   /\ runner = "idle" => at = 1 /\ ~redo
                   /\ runner # "idle" => outcome = "none"
                   /\ runner \in {"running", "judged"} => redo
           Kept == sound /\ runner # "idle" =>
                     /\ \A s \in Steps : s < at => Good(s)
                     /\ ~redo => Unsound = {}
                     /\ runner = "judged" /\ verdict.outcome = "none" => Good(at)
<1>1. SUFFICES Rest' /\ Kept' /\ SoundCommand'
  BY <1>0
<1>2. ASSUME UNCHANGED runVars
      PROVE  Rest' /\ Kept' /\ SoundCommand'
  BY <1>2 DEF runVars, Good, Unsound, SoundCommand
<1>3. ASSUME NEW b \in Budgets, NEW l \in Limits, Start(b, l)
      PROVE  Rest' /\ Kept' /\ SoundCommand'
  <2>1. /\ at' = 1 /\ ~redo' /\ outcome' \in {"none", "unreadable"}
        /\ (runner' # "idle" => outcome' = "none") /\ runner' \in {"idle", "deciding"}
        /\ UNCHANGED <<verdict, entry, out, stale>>
    BY <1>3 DEF Start
  <2>2. sound' => Unsound' = {}
    BY <1>3, <2>1 DEF Start, Unsound
  <2> QED BY <1>0, <2>1, <2>2 DEF SoundCommand
<1>4. CASE Skip
  <2>1. /\ at' = at + 1 /\ runner' = "deciding" /\ runner = "deciding" /\ at \in Steps
        /\ UNCHANGED <<redo, verdict, entry, outcome, out, stale, sound>>
        /\ ~redo /\ Finished(entry[at]) /\ out[at] # "none"
    BY <1>4 DEF Skip, Skippable
  <2>2. sound => Good(at)
    <3>1. sound => at \notin Unsound
      BY <2>1
    <3>2. entry[at].status \in {"done", "done_with_failures"} /\ out[at] \in Outputs
      BY <1>0, <2>1 DEF Finished, TypeOK
    <3> QED BY <2>1, <3>1, <3>2 DEF Unsound, Good, Outputs
  <2>3. \A s \in Steps : s < at + 1 => s < at \/ s = at
    BY <1>0
  <2>4. Kept'
    BY <2>1, <2>2, <2>3 DEF Good, Unsound
  <2> QED BY <2>1, <2>4 DEF SoundCommand
<1>5. ASSUME NEW how \in Outcomes, how # "ok", Ends(how)
      PROVE  Rest' /\ Kept' /\ SoundCommand'
  BY <1>5 DEF Ends, Nothing, SoundCommand
<1>6. CASE Begin
  <2>1. /\ redo' /\ runner' = "running" /\ runner = "deciding" /\ at \in Steps
        /\ out' = [out EXCEPT ![at] = "none"]
        /\ UNCHANGED <<at, verdict, outcome, stale, sound>>
    BY <1>6 DEF Begin
  <2>2. \A s \in Steps : s < at => (Good(s) => Good(s)')
    BY <1>0, <2>1 DEF Good, TypeOK
  <2>3. Kept'
    BY <2>1, <2>2
  <2> QED BY <2>1, <2>3 DEF SoundCommand
<1>7. CASE WritePart
  <2>1. /\ at \in Steps /\ Written(at, "part") /\ "part" \in Outputs /\ runner = "running" /\ redo
        /\ UNCHANGED <<runner, at, redo, verdict, outcome, sound>>
    BY <1>7 DEF WritePart, TypeOK, Outputs
  <2>2. Kept'
    BY <1>0, <2>1, WrittenKeeps
  <2> QED BY <2>1, <2>2 DEF SoundCommand
<1>8. ASSUME NEW ok \in BOOLEAN, StepEnds(ok)
      PROVE  Rest' /\ Kept' /\ SoundCommand'
  <2>1. /\ at \in Steps /\ runner = "running" /\ redo /\ runner' = "judged"
        /\ verdict' = Judge(ok) /\ outcome = "none"
        /\ UNCHANGED <<at, redo, outcome, sound>>
    BY <1>8 DEF StepEnds, TypeOK
  <2>2. CASE ok
    <3>1. Written(at, "whole") /\ "whole" \in Outputs
      BY <1>8, <2>2 DEF StepEnds, Outputs
    <3>2. Kept'
      BY <1>0, <2>1, <3>1, WrittenKeeps
    <3> QED BY <1>0, <2>1, <3>2, JudgeType DEF SoundCommand
  <2>3. CASE ~ok
    <3>1. UNCHANGED <<out, stale>> /\ verdict'.outcome # "none"
      BY <1>0, <1>8, <2>1, <2>3, JudgeType DEF StepEnds
    <3>2. Kept'
      BY <2>1, <3>1 DEF Good
    <3> QED BY <1>0, <2>1, <3>2, JudgeType DEF SoundCommand
  <2> QED BY <2>2, <2>3
<1>9. CASE Interrupt
  <2>1. /\ runner = "running" /\ redo /\ runner' = "judged" /\ verdict'.outcome = "interrupted"
        /\ UNCHANGED <<at, redo, outcome, out, stale, sound>>
    BY <1>9 DEF Interrupt
  <2>2. Kept'
    BY <2>1 DEF Good
  <2> QED BY <2>1, <2>2 DEF SoundCommand
<1>10. CASE Save
  <2>1. CASE verdict.outcome = "none"
    <3>1. /\ runner = "judged" /\ runner' = "deciding" /\ at' = at + 1 /\ redo
          /\ verdict'.outcome = "none"
          /\ UNCHANGED <<redo, outcome, sound, out, stale>>
      BY <1>10, <2>1 DEF Save, Saved, Nothing
    <3>2. \A s \in Steps : s < at + 1 => s < at \/ s = at
      BY <1>0
    <3>3. Kept'
      BY <2>1, <3>1, <3>2 DEF Good
    <3> QED BY <3>1, <3>3 DEF SoundCommand
  <2>2. CASE verdict.outcome # "none"
    <3>1. /\ runner = "judged" /\ runner' = "idle" /\ outcome' = verdict.outcome
          /\ at' = 1 /\ ~redo' /\ verdict' = Nothing /\ UNCHANGED <<out, stale, sound>>
      BY <1>10, <2>2 DEF Save, Saved, Ends
    <3> QED BY <3>1 DEF SoundCommand, Nothing
  <2> QED BY <2>1, <2>2
<1>11. CASE Finish
  <2>1. /\ runner = "deciding" /\ runner' = "idle" /\ outcome' = "ok" /\ at = N + 1
        /\ at' = 1 /\ ~redo' /\ verdict' = Nothing /\ UNCHANGED <<out, stale, sound>>
    BY <1>11 DEF Finish, Ends
  <2>2. sound => \A s \in Steps : Good(s)
    <3>1. \A s \in Steps : s < N + 1
      BY <1>0 DEF Steps
    <3> QED BY <2>1, <3>1
  <2>3. stale \subseteq Steps
    BY <1>0 DEF TypeOK
  <2> QED BY <2>1, <2>2, <2>3 DEF SoundCommand, Nothing, Good
<1>12. CASE Block \/ Stop \/ Crash
  <2>1. PICK how \in {"budget", "interrupted", "crashed"} : Ends(how)
    BY <1>12 DEF Block, Stop, Crash
  <2> QED BY <1>5, <2>1 DEF Outcomes
<1>13. CASE ProxyEnds \/ \E q \in Reqs : Client(q) \/ Patience(q) \/ \E k \in 1..Tries : Upstream(q, k)
  <2>1. UNCHANGED runVars
    BY <1>13 DEF ProxyEnds, Client, Patience, Upstream
  <2> QED BY <1>2, <2>1
<1>14. CASE UNCHANGED vars
  BY <1>2, <1>14 DEF vars
<1> QED BY <1>3, <1>4, <1>6, <1>7, <1>8, <1>9, <1>10, <1>11, <1>12, <1>13, <1>14 DEF Next, Runner

(* Whatever it redoes and whatever settings it is given, a command that    *)
(* finds no step wrongly counted as finished and ends well leaves whole    *)
(* outputs made from each other.                                           *)
THEOREM CommandsAreSound == Spec => []SoundCommand
<1>1. Init => CommandInv
  BY TypeInductive DEF Init, CommandInv, SoundCommand, Nothing
<1>2. CommandInv => SoundCommand
  BY DEF CommandInv
<1> QED BY <1>1, <1>2, CommandStep, PTL DEF Spec
-----------------------------------------------------------------------------
(* Resuming under one limit *)

Recorded(s) == entry[s].status \in {"done", "done_with_failures"}

(* What is recorded as finished is a prefix of the plan, was judged under  *)
(* the limit L, and is good; a command that has run a step has nothing     *)
(* recorded from there on.                                                 *)
ResumeInv(L) ==
  /\ CommandInv /\ sound
  /\ \A s, t \in Steps : s < t /\ Recorded(t) => Recorded(s)
  /\ \A s \in Steps : Recorded(s) =>
       Good(s) /\ (entry[s].status = "done_with_failures" => entry[s].lost <= L)
  /\ runner # "idle" => limit = L /\ \A s \in Steps : s < at => Recorded(s)
  /\ runner # "idle" /\ redo => \A s \in Steps : s >= at => ~Recorded(s)
  /\ runner = "judged" =>
       IF verdict.outcome = "none"
       THEN /\ Good(at) /\ verdict.entry.lost <= L
            /\ verdict.entry.status \in {"done", "done_with_failures"}
       ELSE verdict.entry.status \notin {"done", "done_with_failures"}

LEMMA ResumeStep ==
  ASSUME NEW L \in Limits, Limits = {L}, ResumeInv(L), [Next]_vars
  PROVE  ResumeInv(L)'
<1> USE DEF ResumeInv
<1>0. /\ TypeOK /\ CommandInv /\ CommandInv' /\ at \in Nat /\ L \in Nat
      /\ \A s \in Steps : s \in Nat /\ 1 <= s
  BY CommandStep, RunAssumption DEF CommandInv, TypeOK, Steps
<1> DEFINE Prefix == \A s, t \in Steps : s < t /\ Recorded(t) => Recorded(s)
           Judged == \A s \in Steps : Recorded(s) =>
                       Good(s) /\ (entry[s].status = "done_with_failures" => entry[s].lost <= L)
           Past   == runner # "idle" => limit = L /\ \A s \in Steps : s < at => Recorded(s)
           Ahead  == runner # "idle" /\ redo => \A s \in Steps : s >= at => ~Recorded(s)
           Coming == runner = "judged" =>
                       IF verdict.outcome = "none"
                       THEN /\ Good(at) /\ verdict.entry.lost <= L
                            /\ verdict.entry.status \in {"done", "done_with_failures"}
                       ELSE verdict.entry.status \notin {"done", "done_with_failures"}
           Rest   == sound /\ Prefix /\ Judged /\ Past /\ Ahead /\ Coming
<1>1. SUFFICES Rest'
  BY <1>0
<1>2. ASSUME UNCHANGED runVars
      PROVE  Rest'
  BY <1>2 DEF runVars, Recorded, Good
<1>3. ASSUME UNCHANGED <<entry, out, stale>>
      PROVE  Prefix' /\ Judged'
  BY <1>3 DEF Recorded, Good
<1>4. ASSUME NEW b \in Budgets, NEW l \in Limits, Start(b, l)
      PROVE  Rest'
  <2>1. /\ UNCHANGED <<at, redo, entry, out, stale>> /\ limit' = L
        /\ runner = "idle" /\ runner' \in {"idle", "deciding"} /\ sound' = (Unsound = {})
    BY <1>4 DEF Start
  <2>2. Unsound = {}
    BY DEF Unsound, Recorded, Good
  <2>3. at = 1 /\ ~redo
    BY <2>1 DEF CommandInv
  <2>4. Past' /\ Ahead' /\ Coming'
    BY <1>0, <2>1, <2>3
  <2> QED BY <1>3, <2>1, <2>2, <2>4
<1>5. CASE Skip
  <2>1. /\ at' = at + 1 /\ runner = "deciding" /\ runner' = "deciding" /\ at \in Steps
        /\ UNCHANGED <<limit, redo, verdict, entry, out, stale, sound>>
        /\ ~redo /\ Recorded(at)
    BY <1>5 DEF Skip, Skippable, Finished, Recorded
  <2>2. \A s \in Steps : s < at + 1 => s < at \/ s = at
    BY <1>0
  <2>3. Past' /\ Ahead' /\ Coming'
    BY <2>1, <2>2 DEF Recorded
  <2> QED BY <1>3, <2>1, <2>3
<1>6. ASSUME NEW how, Ends(how), UNCHANGED <<entry, out, stale>>
      PROVE  Rest'
  BY <1>3, <1>6 DEF Ends
<1>7. CASE Begin
  <2>1. /\ redo' /\ runner = "deciding" /\ runner' = "running" /\ at \in Steps
        /\ out' = [out EXCEPT ![at] = "none"] /\ ~Skippable(at)
        /\ UNCHANGED <<limit, at, verdict, entry, stale, sound>>
    BY <1>7 DEF Begin
  <2>2. ~Recorded(at)
    <3>1. CASE redo
      BY <1>0, <2>1, <3>1
    <3>2. CASE ~redo
      BY <2>1, <3>2 DEF Skippable, Finished, Recorded, Good
    <3> QED BY <3>1, <3>2
  <2>3. \A s \in Steps : s >= at => ~Recorded(s)
    <3>1. \A s \in Steps : s >= at => s = at \/ at < s
      BY <1>0
    <3> QED BY <2>1, <2>2, <3>1
  <2>4. \A s \in Steps : Recorded(s) => (Good(s) => Good(s)')
    BY <2>1, <2>2 DEF Good, TypeOK
  <2>5. Prefix' /\ Judged'
    BY <2>1, <2>4 DEF Recorded
  <2>6. Past' /\ Ahead' /\ Coming'
    BY <2>1, <2>3 DEF Recorded
  <2> QED BY <2>1, <2>5, <2>6
<1>8. ASSUME NEW o \in Outputs, Written(at, o), runner = "running",
             UNCHANGED <<at, redo, limit, entry, sound>>, runner' # "idle"
      PROVE  sound' /\ Prefix' /\ Judged' /\ Past' /\ Ahead'
  <2>1. at \in Steps /\ redo
    BY <1>0, <1>8 DEF TypeOK, CommandInv
  <2>2. \A s \in Steps : Recorded(s) => s < at
    BY <1>0, <1>8, <2>1
  <2>3. \A s \in Steps : Recorded(s) => Good(s)'
    BY <1>0, <1>8, <2>1, <2>2, WrittenKeeps
  <2>4. Prefix' /\ Judged'
    BY <1>8, <2>3 DEF Recorded
  <2> QED BY <1>8, <2>1, <2>4 DEF Recorded
<1>9. CASE WritePart
  <2>1. "part" \in Outputs /\ Written(at, "part") /\ runner = "running" /\ runner' = "running"
        /\ UNCHANGED <<at, redo, limit, entry, sound>>
    BY <1>9 DEF WritePart, Outputs
  <2> QED BY <1>8, <2>1
<1>10. ASSUME NEW ok \in BOOLEAN, StepEnds(ok)
       PROVE  Rest'
  <2>1. /\ at \in Steps /\ runner = "running" /\ runner' = "judged" /\ limit = L
        /\ verdict' = Judge(ok) /\ UNCHANGED <<at, redo, limit, entry, sound>>
    BY <1>0, <1>10 DEF StepEnds, TypeOK
  <2>2. CASE ok
    <3>1. Written(at, "whole") /\ "whole" \in Outputs
      BY <1>10, <2>2 DEF StepEnds, Outputs
    <3>2. Coming'
      BY <1>0, <2>1, <3>1, WrittenKeeps, JudgeType
    <3> QED BY <1>8, <2>1, <3>1, <3>2
  <2>3. CASE ~ok
    <3>1. UNCHANGED <<out, stale>>
      BY <1>10, <2>3 DEF StepEnds
    <3>2. Coming'
      BY <1>0, <2>1, <2>3, JudgeType
    <3>3. Past' /\ Ahead'
      BY <2>1 DEF Recorded
    <3> QED BY <1>3, <2>1, <3>1, <3>2, <3>3
  <2> QED BY <2>2, <2>3
<1>11. CASE Interrupt
  <2>1. /\ runner = "running" /\ runner' = "judged" /\ verdict'.outcome = "interrupted"
        /\ verdict'.entry.status = "interrupted"
        /\ UNCHANGED <<at, redo, limit, entry, out, stale, sound>>
    BY <1>11 DEF Interrupt
  <2>2. Past' /\ Ahead' /\ Coming'
    BY <2>1 DEF Recorded
  <2> QED BY <1>3, <2>1, <2>2
<1>12. CASE Save
  <2>1. /\ runner = "judged" /\ redo /\ at \in Steps /\ limit = L
        /\ entry' = [entry EXCEPT ![at] = verdict.entry]
        /\ UNCHANGED <<out, stale, sound, limit>>
    BY <1>12 DEF Save, Saved, Ends, CommandInv, TypeOK
  <2>2. /\ entry'[at] = verdict.entry
        /\ \A s \in Steps \ {at} : entry'[s] = entry[s]
        /\ \A s \in Steps : s >= at => ~Recorded(s)
    BY <1>0, <2>1 DEF TypeOK
  <2>3. \A s \in Steps : /\ s < at \/ s = at \/ s > at
                         /\ s < at + 1 => s < at \/ s = at
                         /\ s >= at + 1 => s > at
    BY <1>0
  <2>4. CASE verdict.outcome = "none"
    <3>1. runner' = "deciding" /\ at' = at + 1 /\ redo'
      BY <1>12, <2>1, <2>4 DEF Save, Saved
    <3>2. Good(at) /\ verdict.entry.lost <= L
      BY <2>1, <2>4
    <3>3. \A s \in Steps : /\ s < at => Recorded(s) /\ Recorded(s)'
                           /\ s > at => ~Recorded(s)'
      BY <1>0, <2>1, <2>2 DEF Recorded
    <3>4. \A s \in Steps : Good(s)' <=> Good(s)
      BY <2>1 DEF Good
    <3>5. Judged'
      BY <2>2, <2>3, <3>2, <3>3, <3>4 DEF Recorded
    <3>6. entry'[at].status \in {"done", "done_with_failures"} => \A s \in Steps : s < at + 1 => Recorded(s)'
      BY <2>3, <3>3 DEF Recorded
    <3>7. Prefix'
      BY <1>0, <2>1, <2>3, <3>3
    <3>8. \A s \in Steps : s >= at + 1 => ~Recorded(s)'
      BY <2>3, <3>3
    <3>9. verdict.entry.status \in {"done", "done_with_failures"}
      BY <2>1, <2>4
    <3>10. entry'[at] = verdict.entry
      BY <2>2
    <3>11. entry'[at].status \in {"done", "done_with_failures"}
      BY <2>1, <3>9, <3>10 DEF Recorded
    <3>12. \A s \in Steps : s < at + 1 => Recorded(s)'
      BY <3>6, <3>11
    <3>13. at' = at + 1 /\ runner' = "deciding" /\ limit' = L
      BY <2>1, <3>1
    <3>14. Past' /\ Ahead' /\ Coming'
      BY <3>8, <3>12, <3>13 DEF Recorded
    <3> QED BY <2>1, <3>5, <3>7, <3>14
  <2>5. CASE verdict.outcome # "none"
    <3>1. runner' = "idle"
      BY <1>12, <2>5 DEF Save, Saved, Ends
    <3>2. \A s \in Steps : Recorded(s)' => Recorded(s) /\ s < at
      BY <1>0, <2>1, <2>2, <2>3, <2>5 DEF Recorded
    <3>3. \A s \in Steps : s < at => (Recorded(s) => Recorded(s)') /\ entry'[s] = entry[s]
      BY <2>1, <2>2, <1>0 DEF Recorded
    <3>4. Prefix'
      BY <1>0, <2>1, <3>2, <3>3
    <3>5. Judged'
      BY <2>1, <3>2, <3>3 DEF Good
    <3> QED BY <2>1, <3>1, <3>4, <3>5
  <2> QED BY <2>4, <2>5
<1>13. CASE Block \/ Stop \/ Crash \/ Finish
  <2>1. PICK how \in Outcomes : Ends(how)
    BY <1>13 DEF Block, Stop, Crash, Finish, Outcomes
  <2>2. UNCHANGED <<entry, out, stale>>
    BY <1>13 DEF Block, Stop, Crash, Finish
  <2> QED BY <1>6, <2>1, <2>2
<1>14. CASE ProxyEnds \/ \E q \in Reqs : Client(q) \/ Patience(q) \/ \E k \in 1..Tries : Upstream(q, k)
  <2>1. UNCHANGED runVars
    BY <1>14 DEF ProxyEnds, Client, Patience, Upstream
  <2> QED BY <1>2, <2>1
<1>15. CASE UNCHANGED vars
  BY <1>2, <1>15 DEF vars
<1> QED BY <1>4, <1>5, <1>7, <1>9, <1>10, <1>11, <1>12, <1>13, <1>14, <1>15 DEF Next, Runner

(* While every command is given the same limit of lost requests, a run     *)
(* resumed however often ends well only on whole outputs made from each    *)
(* other: the steps to redo are then always the last ones recorded.        *)
THEOREM ResumedRunsAreFresh ==
  ASSUME NEW L \in Limits, Limits = {L}
  PROVE  Spec => []SuccessIsFresh
<1>1. Init => ResumeInv(L)
  BY TypeInductive DEF Init, ResumeInv, CommandInv, SoundCommand, Nothing, Recorded, Pending
<1>2. ResumeInv(L) /\ [Next]_vars => ResumeInv(L)'
  BY ResumeStep
<1>3. ResumeInv(L) => SuccessIsFresh
  BY DEF ResumeInv, CommandInv, SoundCommand, SuccessIsFresh
<1> QED BY <1>1, <1>2, <1>3, PTL DEF Spec
-----------------------------------------------------------------------------
(* What is paid *)

(* No two requests of the plan have the same body.                         *)
OwnKeys == \A q, r \in Reqs : Key[q] = Key[r] => q = r

Awaited == {x \in flight : Waits(x[1], x[2])}

(* Forwarded requests whose answer will add no key to the cache that the   *)
(* client is known to be waiting for.                                      *)
Extra == {x \in flight : ~Waits(x[1], x[2]) \/ Key[x[1]] \in cache}

(* What is in flight is not an empty file of the cache, and is awaited     *)
(* only by the step that runs.                                             *)
FlightInv ==
  /\ TypeOK /\ IsFiniteSet(flight)
  /\ \A x \in flight : Key[x[1]] \notin empty
  /\ runner = "running" => \A x \in Awaited : StepOf[x[1]] = at
  /\ runner = "deciding" \/ (runner = "judged" /\ verdict.outcome = "none") => Awaited = {}

(* Each request in flight beyond those that will fill the cache was left   *)
(* there by a client that gave up.                                         *)
PaidInv == /\ FlightInv
           /\ spent + Cardinality(Extra) <= Cardinality(cache \ empty) + faults

(* The step's client turns to the proxy: its request was not awaited, and  *)
(* is then if it is forwarded.                                             *)
LEMMA ClientSends ==
  ASSUME TypeOK, NEW q \in Reqs, Client(q)
  PROVE  /\ \A x \in flight : x[1] = q => ~Waits(x[1], x[2])
         /\ \A x \in flight : x[1] # q => (Waits(x[1], x[2])' <=> Waits(x[1], x[2]))
         /\ \/ flight' = flight /\ \A x \in flight : x[1] = q => ~Waits(x[1], x[2])'
            \/ /\ flight' = flight \cup {<<q, tries[q] + 1>>} /\ Key[q] \notin cache
               /\ \A x \in flight' : x[1] = q => (Waits(x[1], x[2])' <=> x[2] = tries[q] + 1)
         /\ UNCHANGED <<spent, cache, empty, faults>>
<1>1. /\ client[q] = "idle" /\ UNCHANGED <<spent, cache, empty, faults>>
      /\ tries' = [tries EXCEPT ![q] = @ + 1]
      /\ \/ flight' = flight
            /\ \E c \in {"answered", "idle", "lost"} : client' = [client EXCEPT ![q] = c]
         \/ /\ flight' = flight \cup {<<q, tries[q] + 1>>} /\ Key[q] \notin cache
            /\ client' = [client EXCEPT ![q] = "waiting"]
  BY DEF Client, Hit, HitEmpty, Refuse, Forward, Sent, Retry
<1>2. /\ client \in [Reqs -> {"idle", "waiting", "answered", "lost"}] /\ tries \in [Reqs -> 0..Tries]
      /\ \A x \in flight : x[1] \in Reqs
  BY DEF TypeOK, ProxyTypeOK, Attempts
<1>3. /\ client'[q] \in {"answered", "idle", "lost", "waiting"} /\ tries'[q] = tries[q] + 1
      /\ \A r \in Reqs \ {q} : client'[r] = client[r] /\ tries'[r] = tries[r]
      /\ flight' = flight => client'[q] # "waiting" \/ flight' = flight \cup {<<q, tries[q] + 1>>}
  BY <1>1, <1>2
<1>4. \A x \in flight : x[1] = q => ~Waits(x[1], x[2])
  BY <1>1 DEF Waits
<1>5. \A x \in flight : x[1] # q => (Waits(x[1], x[2])' <=> Waits(x[1], x[2]))
  BY <1>2, <1>3 DEF Waits
<1>6. CASE flight' = flight /\ \E c \in {"answered", "idle", "lost"} : client' = [client EXCEPT ![q] = c]
  <2>1. client'[q] # "waiting"
    BY <1>2, <1>6
  <2> QED BY <1>1, <1>4, <1>5, <1>6, <2>1 DEF Waits
<1>7. CASE /\ flight' = flight \cup {<<q, tries[q] + 1>>} /\ Key[q] \notin cache
           /\ client' = [client EXCEPT ![q] = "waiting"]
  <2>1. client'[q] = "waiting"
    BY <1>2, <1>7
  <2>2. \A x \in flight' : x[1] = q => (Waits(x[1], x[2])' <=> x[2] = tries[q] + 1)
    BY <1>3, <2>1 DEF Waits
  <2> QED BY <1>1, <1>4, <1>5, <1>7, <2>2
<1> QED BY <1>1, <1>6, <1>7

(* The proxy answers its client, or nobody who still waits.                *)
LEMMA UpstreamEnds ==
  ASSUME TypeOK, NEW q \in Reqs, NEW k \in 1..Tries, Upstream(q, k)
  PROVE  /\ <<q, k>> \in flight /\ flight' = flight \ {<<q, k>>}
         /\ \A x \in flight' : Waits(x[1], x[2])' <=> Waits(x[1], x[2])
         /\ UNCHANGED <<empty, faults>>
         /\ \/ spent' = spent + 1 /\ cache' = cache \cup {Key[q]}
            \/ UNCHANGED <<spent, cache>>
<1>1. /\ <<q, k>> \in flight /\ flight' = flight \ {<<q, k>>}
      /\ UNCHANGED <<empty, faults, tries>>
      /\ \/ spent' = spent + 1 /\ cache' = cache \cup {Key[q]}
         \/ UNCHANGED <<spent, cache>>
      /\ \E c \in {"answered", "idle", "lost"} :
            client' = [client EXCEPT ![q] = IF Waits(q, k) THEN c ELSE @]
  BY DEF Upstream, Answer, Fail, Retry
<1>2. /\ client \in [Reqs -> {"idle", "waiting", "answered", "lost"}]
      /\ \A x \in flight : x \in Reqs \X (1..Tries)
  BY DEF TypeOK, ProxyTypeOK, Attempts
<1>3. ASSUME NEW x \in flight'
      PROVE  Waits(x[1], x[2])' <=> Waits(x[1], x[2])
  <2>1. x \in Reqs \X (1..Tries) /\ x # <<q, k>>
    BY <1>1, <1>2, <1>3
  <2>2. x[1] # q \/ x[2] # k
    BY <2>1
  <2>3. CASE x[1] # q
    BY <1>1, <1>2, <2>1, <2>3 DEF Waits
  <2>4. CASE x[1] = q /\ x[2] # k
    BY <1>1, <1>2, <2>1, <2>4 DEF Waits
  <2> QED BY <2>2, <2>3, <2>4
<1> QED BY <1>1, <1>3

LEMMA FlightStep ==
  ASSUME FlightInv, [Next]_vars
  PROVE  FlightInv'
<1> USE DEF FlightInv
<1>0. TypeOK /\ TypeOK' /\ \A x \in flight : x[1] \in Reqs /\ x[2] \in 1..Tries
  BY TypeInductive DEF TypeOK, ProxyTypeOK, Attempts
<1> DEFINE Fine == \A x \in flight : Key[x[1]] \notin empty
           Mine == /\ runner = "running" => \A x \in Awaited : StepOf[x[1]] = at
                   /\ runner = "deciding" \/ (runner = "judged" /\ verdict.outcome = "none") => Awaited = {}
<1>1. SUFFICES IsFiniteSet(flight)' /\ Fine' /\ Mine'
  BY <1>0
<1>2. ASSUME UNCHANGED proxyVars
      PROVE  IsFiniteSet(flight)' /\ Fine' /\ Awaited' = Awaited
  BY <1>2 DEF proxyVars, Awaited, Waits
<1>3. ASSUME flight' = {}
      PROVE  IsFiniteSet(flight)' /\ Fine' /\ Mine'
  BY <1>3, FS_EmptySet DEF Awaited
<1>4. ASSUME NEW b \in Budgets, NEW l \in Limits, Start(b, l)
      PROVE  IsFiniteSet(flight)' /\ Fine' /\ Mine'
  BY <1>3, <1>4 DEF Start
<1>5. CASE Skip \/ Block \/ WritePart \/ Interrupt \/ Stop \/ Finish
  <2>1. UNCHANGED proxyVars /\ (runner' = "running" => runner = "running" /\ at' = at)
    BY <1>5 DEF Skip, Block, WritePart, Interrupt, Stop, Finish, Ends
  <2>2. runner' = "deciding" => runner = "deciding"
    BY <1>5 DEF Skip, Block, WritePart, Interrupt, Stop, Finish, Ends
  <2>3. runner' = "judged" => verdict'.outcome # "none"
    BY <1>5 DEF Skip, Block, WritePart, Interrupt, Stop, Finish, Ends
  <2> QED BY <1>2, <2>1, <2>2, <2>3
<1>6. CASE Begin
  <2>1. runner = "deciding" /\ runner' = "running" /\ UNCHANGED <<flight, empty, at>>
    BY <1>6 DEF Begin
  <2>2. \A q \in Reqs : client'[q] = "waiting" => client[q] = "waiting" /\ tries'[q] = tries[q]
    BY <1>0, <1>6 DEF Begin, TypeOK, ProxyTypeOK
  <2>3. Awaited' \subseteq Awaited
    BY <1>0, <2>1, <2>2 DEF Awaited, Waits
  <2> QED BY <2>1, <2>3
<1>7. ASSUME NEW ok \in BOOLEAN, StepEnds(ok)
      PROVE  IsFiniteSet(flight)' /\ Fine' /\ Mine'
  <2>1. UNCHANGED proxyVars /\ runner = "running" /\ runner' = "judged" /\ verdict' = Judge(ok)
    BY <1>7 DEF StepEnds
  <2>2. verdict'.outcome = "none" => ok
    BY <1>0, <2>1, JudgeType
  <2>3. ok => Awaited = {}
    BY <1>0, <1>7, <2>1 DEF StepEnds, Awaited, Waits
  <2> QED BY <1>2, <2>1, <2>2, <2>3
<1>8. CASE Save
  <2>1. /\ UNCHANGED proxyVars /\ runner = "judged"
        /\ \/ runner' = "deciding" /\ verdict.outcome = "none"
           \/ runner' = "idle"
    BY <1>8 DEF Save, Saved, Ends
  <2> QED BY <1>2, <2>1
<1>9. CASE Crash \/ ProxyEnds
  BY <1>3, <1>9 DEF Crash, ProxyEnds, ProxyDies
<1>10. ASSUME NEW q \in Reqs, Client(q)
       PROVE  IsFiniteSet(flight)' /\ Fine' /\ Mine'
  <2>1. runner = "running" /\ StepOf[q] = at /\ UNCHANGED <<runner, at>>
    BY <1>10 DEF Client, Running, runVars
  <2>2. flight' = flight \/ (flight' = flight \cup {<<q, tries[q] + 1>>} /\ Key[q] \notin cache)
    BY <1>0, <1>10, ClientSends
  <2>3. empty' = empty /\ empty \subseteq cache
    BY <1>0, <1>10, ClientSends DEF TypeOK, ProxyTypeOK
  <2>4. IsFiniteSet(flight)'
    BY <2>2, FS_AddElement
  <2>5. Fine'
    BY <2>2, <2>3
  <2>6. \A x \in flight' : x \in flight \/ x[1] = q
    BY <2>2
  <2>7. \A x \in Awaited' : x[1] # q => x \in Awaited
    BY <1>0, <1>10, <2>6, ClientSends DEF Awaited
  <2>8. Mine'
    BY <2>1, <2>7
  <2> QED BY <2>4, <2>5, <2>8
<1>11. ASSUME NEW q \in Reqs, Patience(q)
       PROVE  IsFiniteSet(flight)' /\ Fine' /\ Mine'
  <2>1. runner = "running" /\ UNCHANGED <<runner, at, flight, empty, tries>>
        /\ client' = [client EXCEPT ![q] = Retry(tries[q])]
    BY <1>11 DEF Patience, Running, GiveUp, runVars
  <2>2. \A r \in Reqs : client'[r] = "waiting" => client[r] = "waiting"
    BY <1>0, <2>1 DEF TypeOK, ProxyTypeOK, Retry
  <2>3. Awaited' \subseteq Awaited
    BY <1>0, <2>1, <2>2 DEF Awaited, Waits
  <2> QED BY <2>1, <2>3
<1>12. ASSUME NEW q \in Reqs, NEW k \in 1..Tries, Upstream(q, k)
       PROVE  IsFiniteSet(flight)' /\ Fine' /\ Mine'
  <2>1. flight' \subseteq flight /\ UNCHANGED <<empty, runner, at, verdict>>
    BY <1>0, <1>12, UpstreamEnds DEF Upstream, runVars
  <2>2. Awaited' \subseteq Awaited
    BY <1>0, <1>12, <2>1, UpstreamEnds DEF Awaited
  <2>3. IsFiniteSet(flight)'
    BY <2>1, FS_Subset
  <2> QED BY <2>1, <2>2, <2>3
<1>13. CASE UNCHANGED vars
  BY <1>2, <1>13 DEF vars, runVars
<1> QED BY <1>4, <1>5, <1>6, <1>7, <1>8, <1>9, <1>10, <1>11, <1>12, <1>13 DEF Next, Runner

(* The bill of one answer.                                                 *)
LEMMA AnswerIsPaid ==
  ASSUME OwnKeys, PaidInv, NEW q \in Reqs, NEW k \in 1..Tries, Upstream(q, k)
  PROVE  PaidInv!2'
<1> USE DEF PaidInv, FlightInv
<1>0. /\ TypeOK /\ IsFiniteSet(flight) /\ \A x \in flight : x \in Reqs \X (1..Tries)
      /\ IsFiniteSet(cache) /\ spent \in Nat /\ faults \in Nat /\ Key[q] \in Keys
  BY ProxyAssumption, FS_Subset DEF TypeOK, ProxyTypeOK, Attempts
<1>1. /\ <<q, k>> \in flight /\ flight' = flight \ {<<q, k>>}
      /\ \A x \in flight' : Waits(x[1], x[2])' <=> Waits(x[1], x[2])
      /\ UNCHANGED <<empty, faults>>
  BY <1>0, UpstreamEnds
<1>2. /\ IsFiniteSet(Extra) /\ IsFiniteSet(cache \ empty)
      /\ Cardinality(Extra) \in Nat /\ Cardinality(cache \ empty) \in Nat
  <2>1. Extra \subseteq flight /\ cache \ empty \subseteq cache
    BY DEF Extra
  <2>2. IsFiniteSet(Extra) /\ IsFiniteSet(cache \ empty)
    BY <1>0, <2>1, FS_Subset
  <2> QED BY <2>2, FS_CardinalityType
<1>3. spent + Cardinality(Extra) <= Cardinality(cache \ empty) + faults
  OBVIOUS
<1>4. CASE UNCHANGED <<spent, cache>>
  <2>1. Extra' \subseteq Extra
    BY <1>1, <1>4 DEF Extra
  <2>2. Cardinality(Extra') <= Cardinality(Extra) /\ Cardinality(Extra') \in Nat
    BY <1>2, <2>1, FS_Subset, FS_CardinalityType
  <2> QED BY <1>0, <1>1, <1>2, <1>3, <1>4, <2>2
<1>5. CASE spent' = spent + 1 /\ cache' = cache \cup {Key[q]} /\ Key[q] \in cache
  <2>1. cache' = cache
    BY <1>5
  <2>2. Extra' \subseteq Extra \ {<<q, k>>} /\ <<q, k>> \in Extra
    BY <1>1, <1>5, <2>1 DEF Extra
  <2>3. /\ IsFiniteSet(Extra \ {<<q, k>>})
        /\ Cardinality(Extra \ {<<q, k>>}) = Cardinality(Extra) - 1
    BY <1>2, <2>2, FS_RemoveElement
  <2>4. Cardinality(Extra') <= Cardinality(Extra) - 1 /\ Cardinality(Extra') \in Nat
    BY <2>2, <2>3, FS_Subset, FS_CardinalityType
  <2>5. Cardinality(cache' \ empty') = Cardinality(cache \ empty)
    BY <1>1, <2>1, Zenon
  <2>6. faults' = faults /\ spent' = spent + 1
    BY <1>1, <1>5
  <2> QED BY <1>0, <1>2, <1>3, <2>4, <2>5, <2>6
<1>6. CASE spent' = spent + 1 /\ cache' = cache \cup {Key[q]} /\ Key[q] \notin cache
  <2>1. cache' \ empty' = (cache \ empty) \cup {Key[q]} /\ Key[q] \notin cache \ empty
    BY <1>1, <1>6
  <2>2. Cardinality(cache' \ empty') = Cardinality(cache \ empty) + 1
    BY <1>2, <2>1, FS_AddElement
  <2> DEFINE next == <<q, tries[q]>>
  <2>3. \A x \in Extra' : x \in Extra \/ x[1] = q
    BY <1>0, <1>1, <1>6 DEF Extra, OwnKeys
  <2>4. \A x \in flight : x[1] = q => x = next \/ ~Waits(x[1], x[2])
    BY <1>0 DEF Waits
  <2>5. Extra' \subseteq (Extra \ {<<q, k>>}) \cup {next}
    <3>1. ASSUME NEW x \in Extra', x # next
          PROVE  x \in Extra \ {<<q, k>>}
      <4>1. x \in flight /\ x # <<q, k>>
        BY <1>1, <3>1 DEF Extra
      <4> QED BY <2>3, <2>4, <3>1, <4>1 DEF Extra
    <3> QED BY <3>1
  <2>6. Cardinality(Extra') <= Cardinality(Extra) /\ Cardinality(Extra') \in Nat
    <3>1. CASE Waits(q, k)
      <4>1. next = <<q, k>>
        BY <3>1 DEF Waits
      <4>2. next \notin Extra'
        BY <1>1, <4>1 DEF Extra
      <4>3. Extra' \subseteq Extra
        BY <2>5, <4>2
      <4> QED BY <1>2, <4>3, FS_Subset, FS_CardinalityType
    <3>2. CASE ~Waits(q, k)
      <4>1. <<q, k>> \in Extra
        BY <1>1, <3>2 DEF Extra
      <4>2. /\ IsFiniteSet(Extra \ {<<q, k>>})
            /\ Cardinality(Extra \ {<<q, k>>}) = Cardinality(Extra) - 1
        BY <1>2, <4>1, FS_RemoveElement
      <4> DEFINE rest == Extra \ {<<q, k>>}
      <4>3. /\ IsFiniteSet(rest \cup {next})
            /\ Cardinality(rest \cup {next}) = IF next \in rest THEN Cardinality(rest) ELSE Cardinality(rest) + 1
        BY <4>2, FS_AddElement
      <4>4. Cardinality(rest \cup {next}) <= Cardinality(Extra)
        BY <1>2, <4>2, <4>3
      <4>5. Cardinality(Extra') <= Cardinality(rest \cup {next}) /\ IsFiniteSet(Extra')
        BY <2>5, <4>3, FS_Subset
      <4>6. Cardinality(Extra') \in Nat /\ Cardinality(rest \cup {next}) \in Nat
        BY <4>3, <4>5, FS_CardinalityType
      <4> QED BY <1>2, <4>4, <4>5, <4>6
    <3> QED BY <3>1, <3>2
  <2> QED BY <1>0, <1>1, <1>2, <1>3, <1>6, <2>2, <2>6
<1> QED BY <1>0, <1>4, <1>5, <1>6, UpstreamEnds

LEMMA PaidStep ==
  ASSUME OwnKeys, PaidInv, [Next]_vars
  PROVE  PaidInv'
<1> USE DEF PaidInv
<1>0. /\ FlightInv /\ FlightInv' /\ TypeOK /\ IsFiniteSet(flight) /\ IsFiniteSet(cache)
      /\ \A x \in flight : x \in Reqs \X (1..Tries)
      /\ spent \in Nat /\ faults \in Nat /\ spent' \in Nat /\ faults' \in Nat
  BY FlightStep, ProxyAssumption, FS_Subset DEF FlightInv, TypeOK, ProxyTypeOK, Attempts
<1> DEFINE Paid == spent + Cardinality(Extra) <= Cardinality(cache \ empty) + faults
<1>1. SUFFICES Paid'
  BY <1>0
<1>2. /\ IsFiniteSet(Extra) /\ IsFiniteSet(cache \ empty)
      /\ Cardinality(Extra) \in Nat /\ Cardinality(cache \ empty) \in Nat
  <2>1. Extra \subseteq flight /\ cache \ empty \subseteq cache
    BY DEF Extra
  <2>2. IsFiniteSet(Extra) /\ IsFiniteSet(cache \ empty)
    BY <1>0, <2>1, FS_Subset
  <2> QED BY <2>2, FS_CardinalityType
<1>3. spent + Cardinality(Extra) <= Cardinality(cache \ empty) + faults
  OBVIOUS
<1>4. ASSUME Extra' \subseteq Extra, UNCHANGED <<spent, cache, empty, faults>>
      PROVE  Paid'
  <2>1. Cardinality(Extra') <= Cardinality(Extra) /\ Cardinality(Extra') \in Nat
    BY <1>2, <1>4, FS_Subset, FS_CardinalityType
  <2> QED BY <1>0, <1>2, <1>3, <1>4, <2>1
<1>5. CASE Begin
  <2>1. /\ runner = "deciding" /\ UNCHANGED <<spent, cache, empty, faults, flight>>
    BY <1>5 DEF Begin
  <2>2. Extra = flight
    BY <1>0, <2>1 DEF Extra, Awaited, FlightInv
  <2>3. Extra' \subseteq flight'
    BY DEF Extra
  <2> QED BY <1>4, <2>1, <2>2, <2>3
<1>6. ASSUME ProxyDies
      PROVE  Paid'
  <2>1. Extra' = {}
    BY <1>6 DEF ProxyDies, Extra
  <2>2. \/ cache' \ empty' = cache \ empty /\ UNCHANGED <<spent, faults>>
        \/ cache' \ empty' = cache \ empty /\ spent' = spent + 1 /\ faults' = faults + 1
    BY <1>6 DEF ProxyDies
  <2>3. Cardinality(Extra') = 0
    BY <2>1, FS_EmptySet, Zenon
  <2>4. Cardinality(cache' \ empty') = Cardinality(cache \ empty)
    BY <2>2, Zenon
  <2>5. spent' + Cardinality(Extra') <= Cardinality(cache' \ empty') + faults'
    BY <1>0, <1>2, <1>3, <2>2, <2>3, <2>4
  <2> QED BY <2>5
<1>7. ASSUME NEW q \in Reqs, Client(q)
      PROVE  Paid'
  <2>1. Extra' \subseteq Extra
    <3>1. ASSUME NEW x \in Extra', x[1] = q
          PROVE  x \in Extra
      <4>1. CASE flight' = flight
        <5>1. x \in flight /\ ~Waits(x[1], x[2])
          BY <1>0, <1>7, <3>1, <4>1, ClientSends DEF Extra
        <5> QED BY <5>1 DEF Extra
      <4>2. CASE /\ flight' = flight \cup {<<q, tries[q] + 1>>} /\ Key[q] \notin cache
                 /\ \A y \in flight' : y[1] = q => (Waits(y[1], y[2])' <=> y[2] = tries[q] + 1)
        <5>1. cache' = cache
          BY <1>0, <1>7, ClientSends
        <5>2. x \in flight' /\ ~Waits(x[1], x[2])'
          BY <3>1, <4>2, <5>1 DEF Extra
        <5>3. x[2] # tries[q] + 1
          BY <3>1, <4>2, <5>2
        <5>4. x \in flight
          BY <4>2, <5>2, <5>3
        <5> QED BY <1>0, <1>7, <3>1, <5>4, ClientSends DEF Extra
      <4> QED BY <1>0, <1>7, <4>1, <4>2, ClientSends
    <3>2. ASSUME NEW x \in Extra', x[1] # q
          PROVE  x \in Extra
      <4>1. x \in flight
        BY <1>0, <1>7, <3>2, ClientSends DEF Extra
      <4>2. (Waits(x[1], x[2])' <=> Waits(x[1], x[2])) /\ cache' = cache
        BY <1>0, <1>7, <3>2, <4>1, ClientSends
      <4> QED BY <3>2, <4>1, <4>2 DEF Extra
    <3> QED BY <3>1, <3>2
  <2>2. UNCHANGED <<spent, cache, empty, faults>>
    BY <1>0, <1>7, ClientSends
  <2> QED BY <1>4, <2>1, <2>2
<1>8. ASSUME NEW q \in Reqs, Patience(q)
      PROVE  Paid'
  <2>1. /\ UNCHANGED <<flight, spent, cache, empty, tries>> /\ faults' = faults + 1
        /\ client' = [client EXCEPT ![q] = Retry(tries[q])]
    BY <1>8 DEF Patience, GiveUp
  <2> DEFINE awaited == <<q, tries[q]>>
  <2>2. \A r \in Reqs \ {q} : client'[r] = client[r]
    BY <1>0, <2>1 DEF TypeOK, ProxyTypeOK
  <2>3. Extra' \subseteq Extra \cup {awaited}
    BY <1>0, <2>1, <2>2 DEF Extra, Waits
  <2>4. /\ IsFiniteSet(Extra \cup {awaited})
        /\ Cardinality(Extra \cup {awaited}) =
             IF awaited \in Extra THEN Cardinality(Extra) ELSE Cardinality(Extra) + 1
    BY <1>2, FS_AddElement
  <2>5. Cardinality(Extra') <= Cardinality(Extra \cup {awaited}) /\ IsFiniteSet(Extra')
    BY <2>3, <2>4, FS_Subset
  <2>6. Cardinality(Extra') \in Nat
    BY <2>5, FS_CardinalityType
  <2>7. Cardinality(Extra \cup {awaited}) <= Cardinality(Extra) + 1
        /\ Cardinality(Extra \cup {awaited}) \in Nat
    BY <1>2, <2>4, FS_CardinalityType
  <2> QED BY <1>0, <1>2, <1>3, <2>1, <2>5, <2>6, <2>7
<1>9. ASSUME UNCHANGED <<spent, cache, empty, faults, flight, client, tries>>
      PROVE  Paid'
  <2>1. Extra' = Extra
    BY <1>9 DEF Extra, Waits
  <2> QED BY <1>4, <1>9, <2>1
<1>10. CASE \/ \E b \in Budgets, l \in Limits : Start(b, l)
            \/ Skip \/ Block \/ Save \/ Finish \/ WritePart \/ Interrupt \/ Stop
            \/ \E ok \in BOOLEAN : StepEnds(ok)
            \/ UNCHANGED vars
  <2>1. UNCHANGED <<spent, cache, empty, faults, flight, client, tries>>
    BY <1>10 DEF Start, Skip, Block, Save, Saved, Finish, WritePart, Interrupt, Stop, StepEnds,
                 proxyVars, vars
  <2> QED BY <1>9, <2>1
<1>11. ASSUME NEW q \in Reqs, NEW k \in 1..Tries, Upstream(q, k)
       PROVE  Paid'
  BY <1>0, <1>11, AnswerIsPaid
<1> QED BY <1>5, <1>6, <1>7, <1>8, <1>10, <1>11 DEF Next, Runner, Crash, ProxyEnds

(* When no two requests of the plan have the same body, an answer is paid  *)
(* for once, however often the run is resumed; but for the requests whose  *)
(* client gave up or whose cache write was cut short.                      *)
THEOREM AnswersArePaidOnce ==
  ASSUME OwnKeys
  PROVE  Spec => []PaidOnce
<1>1. Init => PaidInv
  <2> SUFFICES ASSUME Init PROVE PaidInv
    OBVIOUS
  <2>1. TypeOK /\ flight = {} /\ cache = {} /\ spent = 0 /\ faults = 0 /\ runner = "idle"
    BY TypeInductive DEF Init, ProxyInit
  <2>2. Extra = {} /\ cache \ empty = {} /\ Cardinality({}) = 0 /\ IsFiniteSet({})
    BY <2>1, FS_EmptySet DEF Extra
  <2> QED BY <2>1, <2>2 DEF PaidInv, FlightInv
<1>2. PaidInv => PaidOnce
  <2> SUFFICES ASSUME PaidInv PROVE PaidOnce
    OBVIOUS
  <2>1. Extra \subseteq flight /\ IsFiniteSet(flight)
    BY DEF Extra, PaidInv, FlightInv
  <2>2. IsFiniteSet(Extra)
    BY <2>1, FS_Subset
  <2>3. Cardinality(Extra) \in Nat /\ spent \in Nat
    BY <2>2, FS_CardinalityType DEF PaidInv, FlightInv, TypeOK, ProxyTypeOK
  <2>4. IsFiniteSet(cache) /\ cache \ empty \subseteq cache
    BY ProxyAssumption, FS_Subset DEF PaidInv, FlightInv, TypeOK, ProxyTypeOK
  <2>5. Cardinality(cache \ empty) \in Nat /\ faults \in Nat
    BY <2>4, FS_Subset, FS_CardinalityType DEF PaidInv, FlightInv, TypeOK, ProxyTypeOK
  <2> QED BY <2>3, <2>5 DEF PaidInv, PaidOnce
<1> QED BY <1>1, <1>2, PaidStep, PTL DEF Spec
-----------------------------------------------------------------------------
(* What a verdict says of its requests *)

OfStep(q) == StepOf[q] = at

(* The ledger and the step's client agree on how a request ended, and the  *)
(* ledger holds nothing of other steps.                                    *)
Agreed ==
  /\ \A q \in Reqs : OfStep(q) =>
       /\ client[q] = "lost" => last[Key[q]] \in {"failed", "refused"}
       /\ client[q] = "answered" => last[Key[q]] = "answered"
  /\ \A k \in Keys : last[k] # "none" => \E q \in Reqs : OfStep(q) /\ Key[q] = k

(* Without a fault, whatever is in flight is awaited, and ledger and       *)
(* client agree while the step runs; a verdict that lets the command go    *)
(* on is the only one that says done.                                      *)
VerdictInv ==
  /\ FlightInv
  /\ faults = 0 => empty = {} /\ Awaited = flight
  /\ faults = 0 /\ runner = "running" => Agreed
  /\ runner = "judged" /\ verdict.entry.status \in {"done", "done_with_failures"} =>
       verdict.outcome = "none"
  /\ VerdictIsTrue

Lost == {Key[q] : q \in {r \in Reqs : StepOf[r] = at /\ client[r] = "lost"}}

(* When each request ended, those counted as lost are those that are lost. *)
LEMMA JudgedRight ==
  ASSUME OwnKeys, TypeOK, Agreed, Judge(TRUE).outcome = "none",
         \A q \in Reqs : OfStep(q) => client[q] \in {"answered", "lost"}
  PROVE  /\ Judge(TRUE).entry.status = "done" => Lost = {}
         /\ Judge(TRUE).entry.status = "done_with_failures" =>
              Judge(TRUE).entry.lost = Cardinality(Lost) /\ Cardinality(Lost) <= limit
<1>1. Ended("refused") = {}
  BY DEF Judge
<1>2. Ended("failed") = Lost
  <2>1. ASSUME NEW k \in Ended("failed")
        PROVE  k \in Lost
    <3>1. k \in Keys /\ last[k] = "failed"
      BY <2>1 DEF Ended
    <3>2. PICK q \in Reqs : OfStep(q) /\ Key[q] = k
      BY <3>1 DEF Agreed
    <3>3. client[q] = "lost"
      BY <3>1, <3>2 DEF Agreed
    <3> QED BY <3>2, <3>3 DEF Lost, OfStep
  <2>2. ASSUME NEW k \in Lost
        PROVE  k \in Ended("failed")
    <3>1. PICK q \in Reqs : OfStep(q) /\ client[q] = "lost" /\ k = Key[q]
      BY <2>2 DEF Lost, OfStep
    <3>2. k \in Keys
      BY <3>1, ProxyAssumption
    <3>3. last[k] \in {"failed", "refused"}
      BY <3>1 DEF Agreed
    <3> QED BY <1>1, <3>2, <3>3 DEF Ended
  <2> QED BY <2>1, <2>2
<1> DEFINE lost == Cardinality(Ended("failed"))
<1>3. IsFiniteSet(Ended("failed")) /\ lost \in Nat
  <2>1. IsFiniteSet(Ended("failed"))
    BY ProxyAssumption, FS_Subset DEF Ended
  <2> QED BY <2>1, FS_CardinalityType
<1>4. /\ Judge(TRUE).entry.lost = lost /\ lost <= limit
      /\ Judge(TRUE).entry.status = "done" => ~(lost > 0)
  <2>1. limit \in Nat
    BY DEF TypeOK
  <2>2. ~(lost > limit)
    BY <1>1 DEF Judge
  <2>3. CASE lost > 0
    BY <1>1, <1>3, <2>1, <2>2, <2>3 DEF Judge
  <2>4. CASE ~(lost > 0)
    BY <1>1, <1>3, <2>1, <2>2, <2>4 DEF Judge
  <2> QED BY <2>3, <2>4
<1>5. Judge(TRUE).entry.status = "done" => Ended("failed") = {}
  <2>1. lost = 0 => Ended("failed") = {}
    BY <1>3, FS_EmptySet, Zenon
  <2>2. ~(lost > 0) => lost = 0
    <3> HIDE DEF lost
    <3> QED BY <1>3
  <2> QED BY <1>4, <2>1, <2>2, Zenon
<1>6. lost = Cardinality(Lost)
  BY <1>2, Zenon
<1> QED BY <1>2, <1>4, <1>5, <1>6

(* A request that is answered or lost once, one by one.                    *)
LEMMA AgreedStep ==
  ASSUME OwnKeys, TypeOK, Agreed, NEW q \in Reqs, OfStep(q), at' = at,
         NEW e \in Entries, NEW c, client' = [client EXCEPT ![q] = c],
         \/ last' = [last EXCEPT ![Key[q]] = e] /\ e # "none"
            /\ (c = "lost" => e \in {"failed", "refused"}) /\ (c = "answered" => e = "answered")
         \/ last' = last /\ c = "waiting"
  PROVE  Agreed'
<1>1. /\ client \in [Reqs -> {"idle", "waiting", "answered", "lost"}] /\ last \in [Keys -> Entries]
      /\ Key \in [Reqs -> Keys]
  BY ProxyAssumption DEF TypeOK, ProxyTypeOK
<1>2. \A r \in Reqs : Key[r] = Key[q] => r = q
  BY DEF OwnKeys
<1>3. ASSUME NEW r \in Reqs, OfStep(r)
      PROVE  /\ client'[r] = "lost" => last'[Key[r]] \in {"failed", "refused"}
             /\ client'[r] = "answered" => last'[Key[r]] = "answered"
  BY <1>1, <1>2, <1>3 DEF Agreed
<1>4. ASSUME NEW k \in Keys, last'[k] # "none"
      PROVE  \E r \in Reqs : OfStep(r) /\ Key[r] = k
  <2>1. k = Key[q] \/ last'[k] = last[k]
    BY <1>1
  <2> QED BY <1>4, <2>1 DEF Agreed
<1> QED BY <1>3, <1>4 DEF Agreed, OfStep

LEMMA VerdictStep ==
  ASSUME OwnKeys, VerdictInv, [Next]_vars
  PROVE  VerdictInv'
<1> USE DEF VerdictInv
<1>0. /\ FlightInv /\ FlightInv' /\ TypeOK /\ TypeOK' /\ faults \in Nat
      /\ \A x \in flight : x \in Reqs \X (1..Tries)
  BY FlightStep, ProxyAssumption DEF FlightInv, TypeOK, ProxyTypeOK, Attempts
<1> DEFINE Clean == faults = 0 => empty = {} /\ Awaited = flight
           Told  == faults = 0 /\ runner = "running" => Agreed
           Done  == runner = "judged" /\ verdict.entry.status \in {"done", "done_with_failures"} =>
                      verdict.outcome = "none"
           Rest  == Clean /\ Told /\ Done /\ VerdictIsTrue
<1>1. SUFFICES Rest'
  BY <1>0
<1>2. ASSUME runner' \notin {"running", "judged"}
      PROVE  Told' /\ Done' /\ VerdictIsTrue'
  BY <1>2 DEF VerdictIsTrue
<1>3. ASSUME UNCHANGED <<flight, client, tries, empty, faults>>
      PROVE  Clean'
  BY <1>3 DEF Awaited, Waits
<1>4. ASSUME UNCHANGED <<client, at, verdict, limit, runner, faults>>, runner = "judged"
      PROVE  Told' /\ Done' /\ VerdictIsTrue'
  BY <1>4 DEF VerdictIsTrue
<1>5. CASE \/ \E b \in Budgets, l \in Limits : Start(b, l)
           \/ Skip \/ Block \/ Save \/ Finish \/ Stop
  <2>1. UNCHANGED <<flight, client, tries, empty, faults>> /\ runner' \notin {"running", "judged"}
    BY <1>5 DEF Start, Skip, Block, Save, Saved, Finish, Stop, Ends, proxyVars
  <2> QED BY <1>2, <1>3, <2>1
<1>6. CASE Begin
  <2>1. /\ runner = "deciding" /\ runner' = "running" /\ UNCHANGED <<empty, faults, flight, at>>
        /\ last' = [k \in Keys |-> "none"]
        /\ client' = [q \in Reqs |-> IF StepOf[q] = at THEN "idle" ELSE client[q]]
    BY <1>6 DEF Begin
  <2>2. faults = 0 => flight = {}
    BY <1>0, <2>1 DEF FlightInv
  <2>3. Clean'
    BY <2>1, <2>2 DEF Awaited
  <2>4. Agreed'
    BY <2>1 DEF Agreed, OfStep
  <2> QED BY <2>1, <2>3, <2>4 DEF VerdictIsTrue
<1>7. CASE WritePart
  <2>1. UNCHANGED <<flight, client, tries, empty, faults, last, at, runner>> /\ runner = "running"
    BY <1>7 DEF WritePart, proxyVars
  <2> QED BY <1>3, <2>1 DEF Agreed, OfStep, VerdictIsTrue
<1>8. ASSUME NEW ok \in BOOLEAN, StepEnds(ok)
      PROVE  Rest'
  <2>1. /\ UNCHANGED <<flight, client, tries, empty, faults, last, at, limit>>
        /\ runner = "running" /\ runner' = "judged" /\ verdict' = Judge(ok)
    BY <1>8 DEF StepEnds, proxyVars
  <2>2. Done'
    BY <1>0, <2>1, JudgeType
  <2>3. Told'
    BY <2>1
  <2>4. ASSUME faults = 0, verdict'.outcome = "none"
        PROVE  VerdictIsTrue'
    <3>1. ok = TRUE /\ \A q \in Reqs : OfStep(q) => client[q] \in {"answered", "lost"}
      BY <1>0, <1>8, <2>1, <2>4, JudgeType DEF StepEnds, OfStep
    <3>2. /\ Judge(TRUE).entry.status = "done" => Lost = {}
          /\ Judge(TRUE).entry.status = "done_with_failures" =>
               Judge(TRUE).entry.lost = Cardinality(Lost) /\ Cardinality(Lost) <= limit
      BY <1>0, <2>1, <2>4, <3>1, JudgedRight
    <3>3. verdict' = Judge(TRUE) /\ Lost' = Lost /\ limit' = limit
      BY <2>1, <3>1 DEF Lost
    <3>4. /\ verdict'.entry.status = "done" => Lost' = {}
          /\ verdict'.entry.status = "done_with_failures" =>
               verdict'.entry.lost = Cardinality(Lost') /\ Cardinality(Lost') <= limit'
      BY <3>2, <3>3, Zenon
    <3> QED BY <3>4, Zenon DEF VerdictIsTrue, Lost
  <2>5. VerdictIsTrue'
    BY <2>1, <2>2, <2>4 DEF VerdictIsTrue
  <2> QED BY <1>3, <2>1, <2>2, <2>3, <2>5
<1>9. CASE Interrupt
  <2>1. /\ UNCHANGED <<flight, client, tries, empty, faults>> /\ runner' = "judged"
        /\ verdict'.entry.status = "interrupted"
    BY <1>9 DEF Interrupt, proxyVars
  <2> QED BY <1>3, <2>1 DEF VerdictIsTrue
<1>10. ASSUME ProxyDies
       PROVE  Clean' /\ UNCHANGED <<client, last>> /\ faults <= faults' /\ faults' \in Nat
  <2>1. flight' = {} /\ UNCHANGED <<client, last>>
        /\ (UNCHANGED <<empty, faults>> \/ faults' = faults + 1)
    BY <1>10 DEF ProxyDies
  <2> QED BY <1>0, <2>1 DEF Awaited
<1>11. CASE Crash
  <2>1. runner' = "idle"
    BY <1>11 DEF Crash, Ends
  <2> QED BY <1>2, <1>10, <1>11, <2>1 DEF Crash
<1>12. CASE ProxyEnds
  <2>1. runner' = "idle"
    BY <1>12 DEF ProxyEnds, runVars
  <2> QED BY <1>2, <1>10, <1>12, <2>1 DEF ProxyEnds
<1>13. ASSUME NEW q \in Reqs, Client(q)
       PROVE  Rest'
  <2>1. /\ UNCHANGED <<runner, at, limit, verdict, empty, faults>> /\ runner = "running" /\ OfStep(q)
        /\ Key[q] \in Keys
    BY <1>0, <1>13, ClientSends, ProxyAssumption DEF Client, Running, runVars, OfStep
  <2>2. Clean'
    <3> SUFFICES ASSUME faults = 0 PROVE Awaited' = flight'
      BY <2>1
    <3>1. \A x \in flight : x[1] # q /\ Waits(x[1], x[2])'
      BY <1>0, <1>13, ClientSends DEF Awaited
    <3>2. \A x \in flight' : Waits(x[1], x[2])'
      BY <1>0, <1>13, <3>1, ClientSends
    <3> QED BY <3>2 DEF Awaited
  <2>3. ASSUME faults = 0
        PROVE  Agreed'
    <3>1. Agreed /\ empty = {}
      BY <2>1, <2>3
    <3>2. \E e \in Entries, c \in {"answered", "idle", "lost", "waiting"} :
            /\ client' = [client EXCEPT ![q] = c]
            /\ \/ last' = [last EXCEPT ![Key[q]] = e] /\ e # "none"
                  /\ (c = "lost" => e \in {"failed", "refused"}) /\ (c = "answered" => e = "answered")
               \/ last' = last /\ c = "waiting"
      <4>1. CASE Hit(q)
        <5>1. /\ client' = [client EXCEPT ![q] = "answered"] /\ "answered" \in Entries
              /\ last' = [last EXCEPT ![Key[q]] = "answered"]
          BY <4>1 DEF Hit, Entries
        <5> QED BY <5>1
      <4>2. CASE Refuse(q)
        <5>1. /\ client' = [client EXCEPT ![q] = Retry(tries[q] + 1)] /\ "refused" \in Entries
              /\ last' = [last EXCEPT ![Key[q]] = "refused"]
              /\ Retry(tries[q] + 1) \in {"idle", "lost"}
          BY <4>2 DEF Refuse, Entries, Retry
        <5> QED BY <5>1
      <4>3. CASE Forward(q)
        <5>1. client' = [client EXCEPT ![q] = "waiting"] /\ last' = last /\ "none" \in Entries
          BY <4>3 DEF Forward, Entries
        <5> QED BY <5>1
      <4>4. ~HitEmpty(q)
        BY <3>1 DEF HitEmpty
      <4> QED BY <1>13, <4>1, <4>2, <4>3, <4>4 DEF Client
    <3> QED BY <1>0, <2>1, <3>1, <3>2, AgreedStep
  <2> QED BY <2>1, <2>2, <2>3 DEF VerdictIsTrue
<1>14. ASSUME NEW q \in Reqs, Patience(q)
       PROVE  Rest'
  <2>1. faults' = faults + 1 /\ runner' = "running"
    BY <1>14 DEF Patience, Running, GiveUp, runVars
  <2> QED BY <1>0, <2>1 DEF VerdictIsTrue
<1>15. ASSUME NEW q \in Reqs, NEW k \in 1..Tries, Upstream(q, k)
       PROVE  Rest'
  <2>1. /\ UNCHANGED <<runner, at, limit, verdict, empty, faults>>
        /\ <<q, k>> \in flight /\ flight' = flight \ {<<q, k>>}
        /\ \A x \in flight' : Waits(x[1], x[2])' <=> Waits(x[1], x[2])
    BY <1>0, <1>15, UpstreamEnds DEF Upstream, runVars
  <2>2. Clean'
    BY <2>1 DEF Awaited
  <2>3. ASSUME faults = 0, runner = "running"
        PROVE  Agreed'
    <3>1. Agreed /\ Waits(q, k)
      BY <2>1, <2>3 DEF Awaited
    <3>2. OfStep(q)
      BY <1>0, <2>1, <2>3, <3>1 DEF FlightInv, Awaited, OfStep
    <3>3. \E e \in Entries, c \in {"answered", "idle", "lost"} :
            /\ client' = [client EXCEPT ![q] = c]
            /\ last' = [last EXCEPT ![Key[q]] = e] /\ e # "none"
            /\ (c = "lost" => e \in {"failed", "refused"}) /\ (c = "answered" => e = "answered")
      <4>1. CASE Answer(q, k)
        <5>1. /\ client' = [client EXCEPT ![q] = "answered"] /\ "answered" \in Entries
              /\ last' = [last EXCEPT ![Key[q]] = "answered"]
          BY <3>1, <4>1 DEF Answer, Entries
        <5> QED BY <5>1
      <4>2. CASE Fail(q, k)
        <5>1. /\ client' = [client EXCEPT ![q] = Retry(k)] /\ "failed" \in Entries
              /\ last' = [last EXCEPT ![Key[q]] = "failed"]
              /\ Retry(k) \in {"idle", "lost"}
          BY <3>1, <4>2 DEF Fail, Entries, Retry
        <5> QED BY <5>1
      <4> QED BY <1>15, <4>1, <4>2 DEF Upstream
    <3> QED BY <1>0, <2>1, <3>1, <3>2, <3>3, AgreedStep
  <2>4. VerdictIsTrue' /\ Done'
    <3>1. CASE runner = "judged" /\ verdict.entry.status \in {"done", "done_with_failures"}
      <4>1. ~Waits(q, k)
        BY <1>0, <2>1, <3>1 DEF FlightInv, Awaited
      <4>2. client' = client
        BY <1>0, <1>15, <4>1 DEF Upstream, Answer, Fail, TypeOK, ProxyTypeOK
      <4> QED BY <1>4, <2>1, <3>1, <4>2
    <3>2. CASE ~(runner = "judged" /\ verdict.entry.status \in {"done", "done_with_failures"})
      BY <2>1, <3>2 DEF VerdictIsTrue
    <3> QED BY <3>1, <3>2
  <2> QED BY <2>1, <2>2, <2>3, <2>4
<1>16. CASE UNCHANGED vars
  BY <1>16 DEF vars, proxyVars, runVars, Awaited, Waits, Agreed, OfStep, VerdictIsTrue
<1> QED BY <1>5, <1>6, <1>7, <1>8, <1>9, <1>11, <1>12, <1>13, <1>14, <1>15, <1>16 DEF Next, Runner

(* When no two requests of the plan have the same body, no client gives up *)
(* and no cache write is cut short: a step is called done only when each   *)
(* of its requests was answered, and done with failures with the number    *)
(* that was lost, within the limit.                                        *)
THEOREM VerdictsAreTrue ==
  ASSUME OwnKeys
  PROVE  Spec => []VerdictIsTrue
<1>1. Init => VerdictInv
  <2> SUFFICES ASSUME Init PROVE VerdictInv
    OBVIOUS
  <2>1. TypeOK /\ flight = {} /\ empty = {} /\ runner = "idle"
    BY TypeInductive DEF Init, ProxyInit
  <2> QED BY <2>1, FS_EmptySet DEF VerdictInv, FlightInv, Awaited, VerdictIsTrue
<1>2. VerdictInv => VerdictIsTrue
  BY DEF VerdictInv
<1> QED BY <1>1, <1>2, VerdictStep, PTL DEF Spec
=============================================================================
