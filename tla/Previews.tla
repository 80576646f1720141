------------------------------ MODULE Previews ------------------------------
(***************************************************************************)
(* EnvManager.preview: one tool call on a shadow copy of a session's       *)
(* database, served by a shadow server that takes its port from the pool   *)
(* of the environments, and reclaimed afterwards.                          *)
(*                                                                         *)
(* Two threads of a preview run while its task awaits them: the one that   *)
(* prepares the copy, which a timeout does not stop, and the one that      *)
(* reclaims.  A shadow's port is leased for as long as its server lives,   *)
(* so an environment finds the free ports without looking at shadows.      *)
(***************************************************************************)
EXTENDS EnvManager

CONSTANTS
  Shadows,       \* one preview each
  MaxPreviews,   \* settings.max_previews
  Causes,        \* what cuts a preview short: its timeout, a cancelled caller
  Troubles       \* steps of a preview that may fail

ASSUME PreviewsAssumption ==
  /\ MaxPreviews \in Nat \ {0}
  /\ Causes \subseteq {"timeout", "cancel"}
  /\ Troubles \subseteq {"copy", "launch", "call"}
  /\ Shadows \cap Handles = {}

VARIABLES
  ppc,      \* the preview's stage
  copy,     \* the thread that prepares the copy
  rec,      \* the thread that reclaims
  sport,    \* _Shadow.port
  sproc,    \* the shadow's process group ("none" before it and after)
  dir,      \* the shadow's directory exists
  permits,  \* value of the preview semaphore
  due       \* [Shadows -> SUBSET Causes]: what may still cut it short

shadowVars == <<ppc, copy, rec, sport, sproc, dir, permits, due>>

Inside == {"preparing", "polling", "health", "calling", "diffing"}

PreviewsTypeOK ==
  /\ ppc \in [Shadows -> Inside \cup {"new", "queue", "reclaiming", "ended"}]
  /\ copy \in [Shadows -> {"none", "begun", "made", "done", "failed"}]
  /\ rec \in [Shadows -> {"none", "killing", "killed", "done"}]
  /\ sport \in [Shadows -> {None} \cup Ports]
  /\ sproc \in [Shadows -> {"none"} \cup Live]
  /\ dir \in [Shadows -> BOOLEAN] /\ permits \in 0..MaxPreviews
  /\ due \in [Shadows -> SUBSET Causes]

PreviewsInit ==
  /\ Init
  /\ ppc = [v \in Shadows |-> "new"] /\ copy = [v \in Shadows |-> "none"]
  /\ rec = [v \in Shadows |-> "none"] /\ sport = [v \in Shadows |-> None]
  /\ sproc = [v \in Shadows |-> "none"] /\ dir = [v \in Shadows |-> FALSE]
  /\ permits = MaxPreviews /\ due = [v \in Shadows |-> Causes]

(* The live servers on a port, of environments and of shadows.             *)
ServersOn(p) == {h \in Handles : proc[h] = "serving" /\ port[h] = p}
                  \cup {v \in Shadows : sproc[v] = "serving" /\ sport[v] = p}

-----------------------------------------------------------------------------
(* The preview *)

Ask(v) ==
  /\ ppc[v] = "new" /\ ~exited
  /\ \E i \in Sids : reg[i] # None
  /\ ppc' = [ppc EXCEPT ![v] = "queue"]
  /\ UNCHANGED <<copy, rec, sport, sproc, dir, permits, due, vars>>

Admit(v) ==
  /\ ppc[v] = "queue" /\ permits > 0
  /\ permits' = permits - 1
  /\ ppc' = [ppc EXCEPT ![v] = "preparing"]
  /\ copy' = [copy EXCEPT ![v] = "begun"]
  /\ UNCHANGED <<rec, sport, sproc, dir, due, vars>>

(* The preview leaves its block: its timer is off, its permit is back, and *)
(* the thread that reclaims begins.                                        *)
Leave(v) ==
  /\ permits' = permits + (IF ppc[v] \in Inside THEN 1 ELSE 0)
  /\ due' = [due EXCEPT ![v] = @ \ {"timeout"}]
  /\ ppc' = [ppc EXCEPT ![v] = "reclaiming"]
  /\ rec' = [rec EXCEPT ![v] = "killing"]

(* The thread of _prepare_shadow makes the directory; then it backs up and *)
(* copies the database, making a directory that is gone again.             *)
MakeDir(v) ==
  /\ copy[v] = "begun"
  /\ copy' = [copy EXCEPT ![v] = "made"]
  /\ dir' = [dir EXCEPT ![v] = TRUE]
  /\ UNCHANGED <<ppc, rec, sport, sproc, permits, due, vars>>

CopyDb(v, end) ==
  /\ copy[v] = "made" /\ (end = "failed" => "copy" \in Troubles)
  /\ copy' = [copy EXCEPT ![v] = end]
  /\ dir' = [dir EXCEPT ![v] = TRUE]
  /\ UNCHANGED <<ppc, rec, sport, sproc, permits, due, vars>>

NotPrepared(v) ==
  /\ ppc[v] = "preparing"
  /\ copy[v] = "failed" \/ (copy[v] = "done" /\ Free = {})
  /\ copy' = [copy EXCEPT ![v] = "none"]
  /\ Leave(v)
  /\ UNCHANGED <<sport, sproc, dir, vars>>

(* _start_shadow up to its first await: the launch may fail with the port  *)
(* leased, which the shadow knows since before.                            *)
StartOn(v, p, launched, known) ==
  /\ ppc[v] = "preparing" /\ copy[v] = "done"
  /\ Allocated(p) /\ ServersOn(p) = {}
  /\ leased' = leased \cup {p}
  /\ sport' = [sport EXCEPT ![v] = IF known THEN p ELSE None]
  /\ copy' = [copy EXCEPT ![v] = "none"]
  /\ \/ /\ launched
        /\ sproc' = [sproc EXCEPT ![v] = "booting"]
        /\ ppc' = [ppc EXCEPT ![v] = "polling"]
        /\ UNCHANGED <<permits, due, rec>>
     \/ /\ ~launched /\ "launch" \in Troubles
        /\ Leave(v)
        /\ UNCHANGED sproc
  /\ UNCHANGED dir
  /\ UNCHANGED <<state, proc, idle, reg, slots, startVars, stopVars, chkVars, exited>>

(* Mutant: the shadow gets its port once its server is launched. *)
StartPortLater(v, p, launched) == StartOn(v, p, launched, launched)

StartShadow(v, p, launched) == StartOn(v, p, launched, TRUE)

PollShadow(v) ==
  /\ ppc[v] = "polling"
  /\ IF sproc[v] = "none" THEN Leave(v)
                          ELSE /\ ppc' = [ppc EXCEPT ![v] = "health"]
                               /\ UNCHANGED <<permits, due, rec>>
  /\ UNCHANGED <<copy, sport, sproc, dir, vars>>

(* Whatever serves the port answers; what check_mcp catches is a bad       *)
(* health, a cancellation included.                                        *)
ShadowHealth(v, ok) ==
  /\ ppc[v] = "health" /\ (ok => ServersOn(sport[v]) # {})
  /\ ppc' = [ppc EXCEPT ![v] = IF ok THEN "calling" ELSE "polling"]
  /\ UNCHANGED <<copy, rec, sport, sproc, dir, permits, due, vars>>

(* The tool runs on whatever serves the port.                              *)
Call(v) ==
  /\ ppc[v] = "calling" /\ ServersOn(sport[v]) # {}
  /\ ppc' = [ppc EXCEPT ![v] = "diffing"]
  /\ UNCHANGED <<copy, rec, sport, sproc, dir, permits, due, vars>>

CallFails(v) ==
  /\ ppc[v] = "calling" /\ ("call" \in Troubles \/ ServersOn(sport[v]) = {})
  /\ Leave(v)
  /\ UNCHANGED <<copy, sport, sproc, dir, vars>>

(* The changes are listed, or the listing fails.                           *)
Diff(v) ==
  /\ ppc[v] = "diffing"
  /\ Leave(v)
  /\ UNCHANGED <<copy, sport, sproc, dir, vars>>

(* Mutant: a preview cut short before its server runs has nothing to clean.*)
CutShortBare(v, why) ==
  /\ why \in due[v] /\ ppc[v] \in {"queue"} \cup Inside
  /\ ppc' = [ppc EXCEPT ![v] = "ended"]
  /\ due' = [due EXCEPT ![v] = {}]
  /\ UNCHANGED <<copy, rec, sport, sproc, dir, permits, vars>>

(* The timeout passes or the caller is cancelled, once: the preview is cut *)
(* short at its await, but check_mcp takes it for a bad health.  A caller  *)
(* cancelled while the shadow is reclaimed leaves that to the thread.      *)
CutShort(v, why) ==
  /\ why \in due[v]
  /\ \/ /\ ppc[v] \in {"queue"} \cup (Inside \ {"health"})
        /\ Leave(v)
     \/ /\ ppc[v] = "health"
        /\ due' = [due EXCEPT ![v] = @ \ {why}]
        /\ ppc' = [ppc EXCEPT ![v] = "polling"]
        /\ UNCHANGED <<permits, rec>>
     \/ /\ ppc[v] = "reclaiming"
        /\ due' = [due EXCEPT ![v] = {}]
        /\ ppc' = [ppc EXCEPT ![v] = "ended"]
        /\ UNCHANGED <<permits, rec>>
  /\ UNCHANGED <<copy, sport, sproc, dir, vars>>

-----------------------------------------------------------------------------
(* The thread of _reclaim_shadow *)

(* Mutant: the port is released before the process group is killed. *)
ReleaseFirst(v) ==
  /\ rec[v] = "killing"
  /\ rec' = [rec EXCEPT ![v] = "killed"]
  /\ leased' = leased \ {sport[v]}
  /\ UNCHANGED <<ppc, copy, sport, sproc, dir, permits, due>>
  /\ UNCHANGED <<state, proc, idle, reg, slots, startVars, stopVars, chkVars, exited>>

KillShadow(v) ==
  /\ rec[v] = "killing"
  /\ rec' = [rec EXCEPT ![v] = "killed"]
  /\ sproc' = [sproc EXCEPT ![v] = "none"]
  /\ UNCHANGED <<ppc, copy, sport, dir, permits, due, vars>>

(* The port is released and the directory removed, though a thread that    *)
(* still copies may make it again.                                         *)
Reclaim(v) ==
  /\ rec[v] = "killed"
  /\ rec' = [rec EXCEPT ![v] = "done"]
  /\ leased' = leased \ {sport[v]}
  /\ sport' = [sport EXCEPT ![v] = None]
  /\ dir' = [dir EXCEPT ![v] = FALSE]
  /\ UNCHANGED <<ppc, copy, sproc, permits, due>>
  /\ UNCHANGED <<state, proc, idle, reg, slots, startVars, stopVars, chkVars, exited>>

Answer(v) ==
  /\ ppc[v] = "reclaiming" /\ rec[v] = "done"
  /\ ppc' = [ppc EXCEPT ![v] = "ended"]
  /\ due' = [due EXCEPT ![v] = {}]
  /\ UNCHANGED <<copy, rec, sport, sproc, dir, permits, vars>>

-----------------------------------------------------------------------------
(* The shadow server *)

BootShadow(v) ==
  /\ sproc[v] = "booting"
  /\ sproc' = [sproc EXCEPT ![v] = IF ServersOn(sport[v]) = {} THEN "serving" ELSE "none"]
  /\ UNCHANGED <<ppc, copy, rec, sport, dir, permits, due, vars>>

CrashShadow(v) ==
  /\ sproc[v] \in Live
  /\ sproc' = [sproc EXCEPT ![v] = "none"]
  /\ UNCHANGED <<ppc, copy, rec, sport, dir, permits, due, vars>>

ThreadStep(v) == \/ MakeDir(v) \/ \E end \in {"done", "failed"} : CopyDb(v, end)
                 \/ KillShadow(v) \/ Reclaim(v)
TaskStep(v) == \/ Admit(v) \/ NotPrepared(v) \/ PollShadow(v)
               \/ \E p \in Ports, launched \in BOOLEAN : StartShadow(v, p, launched)
               \/ \E ok \in BOOLEAN : ShadowHealth(v, ok)
               \/ Call(v) \/ CallFails(v) \/ Diff(v) \/ Answer(v)

PreviewsNext ==
  \/ Next /\ UNCHANGED shadowVars
  \/ \E v \in Shadows : \/ Ask(v) \/ ThreadStep(v) \/ TaskStep(v)
                        \/ \E why \in Causes : CutShort(v, why)
                        \/ BootShadow(v) \/ CrashShadow(v)

PreviewsSpec == PreviewsInit /\ [][PreviewsNext]_<<vars, shadowVars>>

(* Tasks and threads go on (a call ends by its own timeout), and the timer *)
(* of a preview fires.                                                     *)
PreviewsFair ==
  /\ PreviewsSpec
  /\ \A v \in Shadows : /\ WF_<<vars, shadowVars>>(ThreadStep(v))
                        /\ WF_<<vars, shadowVars>>(TaskStep(v))
                        /\ SF_<<vars, shadowVars>>(CutShort(v, "timeout"))

-----------------------------------------------------------------------------
(* Properties *)

(* A preview never reaches a session's data or another preview's: while it *)
(* checks and calls its port, nobody but its own shadow serves it, however *)
(* ports are reused by environments and shadows that start, crash and are  *)
(* reclaimed.                                                              *)
CallsStayInShadow ==
  \A v \in Shadows : ppc[v] \in {"health", "calling"} => ServersOn(sport[v]) \subseteq {v}

(* Leases are exactly the ports of environments not yet stopped and of     *)
(* shadows not yet reclaimed, each of one owner; no server outlives its    *)
(* lease.                                                                  *)
Owners == {h \in Handles : state[h] \notin {"none", "stopped"}}
            \cup {v \in Shadows : sport[v] # None}
PortOf(x) == IF x \in Handles THEN port[x] ELSE sport[x]
LeasesAreOwned ==
  exited \/ /\ leased = {PortOf(x) : x \in Owners}
            /\ \A x, y \in Owners : PortOf(x) = PortOf(y) => x = y
            /\ \A h \in Handles : proc[h] \in Live => h \in Owners
            /\ \A v \in Shadows : sproc[v] \in Live => v \in Owners

(* A preview that is over leaves no server, lease or permit behind, and no *)
(* directory unless it was cut short while its thread copied the database; *)
(* until then its thread is at work.                                       *)
NothingIsLeft ==
  /\ permits = MaxPreviews - Cardinality({v \in Shadows : ppc[v] \in Inside})
  /\ \A v \in Shadows : ppc[v] = "ended" =>
       \/ rec[v] \in {"killing", "killed"}
       \/ sproc[v] = "none" /\ sport[v] = None /\ (dir[v] => copy[v] # "none")

(* Every preview ends, unless its timeout was taken for a bad health: then *)
(* only the health of its server, or its death, ends it.                   *)
PreviewsEndUnlessSwallowed ==
  \A v \in Shadows : ppc[v] = "queue" ~>
    \/ ppc[v] = "ended"
    \/ "timeout" \notin due[v] /\ ppc[v] \in {"polling", "health"}

(* manager.py:493: "while True:  # bounded by the preview's timeout".      *)
PreviewsEnd == \A v \in Shadows : ppc[v] = "queue" ~> ppc[v] = "ended"
=============================================================================
