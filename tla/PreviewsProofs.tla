--------------------------- MODULE PreviewsProofs ---------------------------
(***************************************************************************)
(* Theorems about previews for every number of environments, previews,     *)
(* ports and permits: what a preview leaves behind, who owns a port, whom  *)
(* its calls reach; and that the changes it lists are exact.               *)
(***************************************************************************)
EXTENDS Previews, EnvManagerProofs, ChangeSets

Insiders == {v \in Shadows : ppc[v] \in Inside}

(* A shadow has its port before its server, and is reclaimed after both;   *)
(* its thread copies until its port is known, or after it is reclaimed.    *)
StageOf(v) ==
  /\ ppc[v] \in {"new", "queue"} => /\ rec[v] = "none" /\ sport[v] = None
                                    /\ copy[v] = "none" /\ dir[v] = FALSE
  /\ ppc[v] \in Inside => rec[v] = "none"
  /\ ppc[v] = "preparing" => sport[v] = None /\ copy[v] # "none"
  /\ ppc[v] \in Inside \ {"preparing"} => sport[v] # None /\ copy[v] = "none"
  /\ ppc[v] \in {"reclaiming", "ended"} => rec[v] # "none"
  /\ rec[v] \in {"killed", "done"} => sproc[v] = "none"
  /\ rec[v] = "done" => sport[v] = None /\ (dir[v] = TRUE => copy[v] # "none")
  /\ sport[v] = None => sproc[v] = "none"

PermitsAdd == IsFiniteSet(Insiders) /\ permits + Cardinality(Insiders) = MaxPreviews

PreviewsInv == PreviewsTypeOK /\ (\A v \in Shadows : StageOf(v)) /\ PermitsAdd

ShadowStep(v) == \/ Ask(v) \/ ThreadStep(v) \/ TaskStep(v)
                 \/ \E why \in Causes : CutShort(v, why)
                 \/ BootShadow(v) \/ CrashShadow(v)

-----------------------------------------------------------------------------
(* What previews leave behind *)

(* A step of a preview changes that preview, and what it changes is one of *)
(* these.                                                                  *)
LEMMA ShadowStepCases ==
  ASSUME PreviewsTypeOK, NEW v \in Shadows, StageOf(v), ShadowStep(v)
  PROVE  /\ StageOf(v)'
         /\ ppc' \in [Shadows -> Inside \cup {"new", "queue", "reclaiming", "ended"}]
         /\ copy' \in [Shadows -> {"none", "begun", "made", "done", "failed"}]
         /\ rec' \in [Shadows -> {"none", "killing", "killed", "done"}]
         /\ sport' \in [Shadows -> {None} \cup Ports]
         /\ sproc' \in [Shadows -> {"none"} \cup Live]
         /\ dir' \in [Shadows -> BOOLEAN] /\ due' \in [Shadows -> SUBSET Causes]
         /\ \A w \in Shadows \ {v} : /\ ppc'[w] = ppc[w] /\ copy'[w] = copy[w] /\ rec'[w] = rec[w]
                                     /\ sport'[w] = sport[w] /\ sproc'[w] = sproc[w] /\ dir'[w] = dir[w]
         /\ \/ permits' = permits /\ (ppc'[v] \in Inside <=> ppc[v] \in Inside)
            \/ permits' = permits + 1 /\ ppc'[v] \notin Inside /\ ppc[v] \in Inside
            \/ permits' = permits - 1 /\ permits > 0 /\ ppc'[v] \in Inside /\ ppc[v] \notin Inside
<1> USE EnvAssumption, PreviewsAssumption DEF PreviewsTypeOK, StageOf, Inside, Live
<1>1. CASE Ask(v)
  BY <1>1 DEF Ask
<1>2. CASE Admit(v)
  BY <1>2 DEF Admit
<1>3. CASE MakeDir(v)
  BY <1>3 DEF MakeDir
<1>4. CASE \E end \in {"done", "failed"} : CopyDb(v, end)
  BY <1>4 DEF CopyDb
<1>5. CASE KillShadow(v)
  BY <1>5 DEF KillShadow
<1>6. CASE Reclaim(v)
  BY <1>6 DEF Reclaim
<1>7. CASE NotPrepared(v)
  BY <1>7 DEF NotPrepared, Leave
<1>8. CASE \E p \in Ports, launched \in BOOLEAN : StartShadow(v, p, launched)
  BY <1>8 DEF StartShadow, StartOn, Leave
<1>9. CASE PollShadow(v)
  BY <1>9 DEF PollShadow, Leave
<1>10. CASE \E ok \in BOOLEAN : ShadowHealth(v, ok)
  BY <1>10 DEF ShadowHealth
<1>11. CASE Call(v)
  BY <1>11 DEF Call
<1>12. CASE CallFails(v)
  BY <1>12 DEF CallFails, Leave
<1>13. CASE Diff(v)
  BY <1>13 DEF Diff, Leave
<1>14. CASE Answer(v)
  BY <1>14 DEF Answer
<1>15. CASE \E why \in Causes : CutShort(v, why)
  BY <1>15 DEF CutShort, Leave
<1>16. CASE BootShadow(v)
  BY <1>16 DEF BootShadow
<1>17. CASE CrashShadow(v)
  BY <1>17 DEF CrashShadow
<1> QED BY <1>1, <1>2, <1>3, <1>4, <1>5, <1>6, <1>7, <1>8, <1>9, <1>10, <1>11, <1>12,
           <1>13, <1>14, <1>15, <1>16, <1>17 DEF ShadowStep, ThreadStep, TaskStep

(* A permit is taken or given back by one preview at a time.               *)
LEMMA PermitsMove ==
  ASSUME NEW v, IsFiniteSet(Insiders), permits \in Nat, permits' \in Int,
         permits + Cardinality(Insiders) = MaxPreviews,
         \/ permits' = permits /\ Insiders' = Insiders
         \/ permits' = permits + 1 /\ Insiders' = Insiders \ {v} /\ v \in Insiders
         \/ permits' = permits - 1 /\ Insiders' = Insiders \cup {v} /\ v \notin Insiders
  PROVE  PermitsAdd'
<1> USE DEF PermitsAdd
<1>1. /\ Cardinality(Insiders) \in Nat /\ IsFiniteSet(Insiders \cup {v}) /\ IsFiniteSet(Insiders \ {v})
      /\ v \notin Insiders => Cardinality(Insiders \cup {v}) = Cardinality(Insiders) + 1
      /\ v \in Insiders => Cardinality(Insiders \ {v}) = Cardinality(Insiders) - 1
  BY FS_CardinalityType, FS_AddElement, FS_RemoveElement
<1>2. CASE permits' = permits /\ Insiders' = Insiders
  BY <1>2, Zenon
<1>3. CASE permits' = permits + 1 /\ Insiders' = Insiders \ {v} /\ v \in Insiders
  <2>1. IsFiniteSet(Insiders') /\ Cardinality(Insiders') = Cardinality(Insiders) - 1
    BY <1>1, <1>3, Zenon
  <2> QED BY <1>1, <1>3, <2>1
<1>4. CASE permits' = permits - 1 /\ Insiders' = Insiders \cup {v} /\ v \notin Insiders
  <2>1. IsFiniteSet(Insiders') /\ Cardinality(Insiders') = Cardinality(Insiders) + 1
    BY <1>1, <1>4, Zenon
  <2> QED BY <1>1, <1>4, <2>1
<1> QED BY <1>2, <1>3, <1>4

LEMMA PreviewsInvStep ==
  ASSUME PreviewsInv, [PreviewsNext]_<<vars, shadowVars>>
  PROVE  PreviewsInv'
<1> USE DEF PreviewsInv
<1>1. CASE UNCHANGED shadowVars
  <2>1. UNCHANGED <<ppc, copy, rec, sport, sproc, dir, permits, due>>
    BY <1>1 DEF shadowVars
  <2>2. PreviewsTypeOK' /\ \A v \in Shadows : StageOf(v)'
    BY <2>1 DEF PreviewsTypeOK, StageOf
  <2>3. Insiders' = Insiders
    BY <2>1 DEF Insiders
  <2>4. PermitsAdd'
    BY <2>1, <2>3, Zenon DEF PermitsAdd
  <2> QED BY <2>2, <2>4
<1>2. ASSUME NEW v \in Shadows, ShadowStep(v)
      PROVE  PreviewsInv'
  <2>0. /\ \A w \in Shadows \ {v} : /\ ppc'[w] = ppc[w] /\ copy'[w] = copy[w] /\ rec'[w] = rec[w]
                                    /\ sport'[w] = sport[w] /\ sproc'[w] = sproc[w] /\ dir'[w] = dir[w]
        /\ StageOf(v)'
    BY <1>2, ShadowStepCases
  <2>1. \A w \in Shadows : StageOf(w)'
    <3>1. \A w \in Shadows \ {v} : StageOf(w)'
      BY <2>0 DEF StageOf
    <3> QED BY <2>0, <3>1, Zenon
  <2>2. \/ permits' = permits /\ Insiders' = Insiders
        \/ permits' = permits + 1 /\ Insiders' = Insiders \ {v} /\ v \in Insiders
        \/ permits' = permits - 1 /\ permits > 0 /\ Insiders' = Insiders \cup {v} /\ v \notin Insiders
    BY <1>2, ShadowStepCases DEF Insiders
  <2>3. permits \in Nat /\ permits' \in Int /\ permits' >= 0
    BY <2>2, PreviewsAssumption DEF PreviewsTypeOK
  <2>4. PermitsAdd'
    BY <2>2, <2>3, PermitsMove DEF PermitsAdd
  <2>5. Cardinality(Insiders') \in Nat /\ permits' + Cardinality(Insiders') = MaxPreviews
    BY <2>4, FS_CardinalityType DEF PermitsAdd
  <2>6. permits' \in 0..MaxPreviews
    BY <2>3, <2>5, PreviewsAssumption
  <2>7. PreviewsTypeOK'
    BY <1>2, <2>6, ShadowStepCases DEF PreviewsTypeOK
  <2> QED BY <2>1, <2>4, <2>7
<1> QED BY <1>1, <1>2 DEF PreviewsNext, ShadowStep, shadowVars

LEMMA PreviewsInvHolds == PreviewsSpec => []PreviewsInv
<1>1. PreviewsInit => PreviewsInv
  <2> SUFFICES ASSUME PreviewsInit
               PROVE  PreviewsInv
    OBVIOUS
  <2>1. Insiders = {}
    BY DEF PreviewsInit, Insiders, Inside
  <2>2. PermitsAdd
    BY <2>1, FS_EmptySet, PreviewsAssumption DEF PreviewsInit, PermitsAdd
  <2>3. PreviewsTypeOK /\ \A v \in Shadows : StageOf(v)
    BY PreviewsAssumption DEF PreviewsInit, PreviewsTypeOK, StageOf, Inside, Live
  <2> QED BY <2>2, <2>3 DEF PreviewsInv
<1>2. PreviewsInv /\ [PreviewsNext]_<<vars, shadowVars>> => PreviewsInv'
  BY PreviewsInvStep
<1> QED BY <1>1, <1>2, PTL DEF PreviewsSpec

(* However a preview fails, is cut short or is cancelled, when it is over  *)
(* its permit is back, and its server, its port and its directory are gone *)
(* or the thread that reclaims them is at work (EnvManager.preview,        *)
(* _reclaim_shadow); only a copy that goes on may leave a directory.       *)
THEOREM NothingIsLeftBehind == PreviewsSpec => []NothingIsLeft
<1>1. PreviewsInv => NothingIsLeft
  <2> SUFFICES ASSUME PreviewsInv
               PROVE  NothingIsLeft
    OBVIOUS
  <2>1. permits = MaxPreviews - Cardinality(Insiders)
    <3>1. Cardinality(Insiders) \in Nat
      BY FS_CardinalityType DEF PreviewsInv, PermitsAdd
    <3> QED BY <3>1, PreviewsAssumption DEF PreviewsInv, PermitsAdd, PreviewsTypeOK
  <2>2. ASSUME NEW v \in Shadows, ppc[v] = "ended", rec[v] \notin {"killing", "killed"}
        PROVE  sproc[v] = "none" /\ sport[v] = None /\ (dir[v] => copy[v] # "none")
    BY <2>2 DEF PreviewsInv, PreviewsTypeOK, StageOf
  <2> QED BY <2>1, <2>2 DEF NothingIsLeft, Insiders
<1> QED BY <1>1, PreviewsInvHolds, PTL

-----------------------------------------------------------------------------
(* Ports *)

(* A preview takes a port nobody has, gives its own back, or leaves the    *)
(* environments and the ports alone.                                       *)
LEMMA ShadowPorts ==
  ASSUME PreviewsInv, NEW v \in Shadows, ShadowStep(v)
  PROVE  /\ UNCHANGED <<state, proc, idle, reg, slots, startVars, stopVars, chkVars, exited>>
         /\ \/ UNCHANGED <<leased, sport>>
            \/ \E p \in Ports \ leased :
                 /\ leased' = leased \cup {p}
                 /\ sport[v] = None /\ sport' = [sport EXCEPT ![v] = p]
            \/ leased' = leased \ {sport[v]} /\ sport' = [sport EXCEPT ![v] = None]
<1>1. CASE \E p \in Ports, launched \in BOOLEAN : StartShadow(v, p, launched)
  BY <1>1 DEF StartShadow, StartOn, Allocated, Free, PreviewsInv, PreviewsTypeOK, StageOf
<1>2. CASE Reclaim(v)
  BY <1>2 DEF Reclaim
<1>3. CASE ~(Reclaim(v) \/ \E p \in Ports, launched \in BOOLEAN : StartShadow(v, p, launched))
  BY <1>3 DEF ShadowStep, ThreadStep, TaskStep, Ask, Admit, MakeDir, CopyDb, KillShadow, NotPrepared,
              PollShadow, ShadowHealth, Call, CallFails, Diff, Answer, CutShort, BootShadow,
              CrashShadow, vars
<1> QED BY <1>1, <1>2, <1>3

(* The manager's own types hold with previews beside it.                   *)
LEMMA EnvBesideShadows ==
  ASSUME TypeInv, PreviewsInv, [PreviewsNext]_<<vars, shadowVars>>
  PROVE  TypeInv'
<1>1. CASE [Next]_vars
  BY <1>1, TypeInvStep
<1>2. ASSUME NEW v \in Shadows, ShadowStep(v)
      PROVE  TypeInv'
  <2>1. UNCHANGED <<state, proc, idle, reg, slots, startVars, stopVars, chkVars, exited>>
    BY <1>2, ShadowPorts
  <2>2. leased' \subseteq Ports
    <3>1. leased \subseteq Ports
      BY DEF TypeInv, TypeOK
    <3> QED BY <1>2, <3>1, ShadowPorts
  <2> QED BY <2>1, <2>2 DEF TypeInv, TypeOK, HandlesAreLaunched, startVars, stopVars, chkVars
<1> QED BY <1>1, <1>2 DEF PreviewsNext, ShadowStep

(* The types of the previews and of the manager beside them hold whatever  *)
(* fails, is cut short or is cancelled.                                    *)
THEOREM PreviewsTypeCorrect == PreviewsSpec => [](TypeOK /\ PreviewsTypeOK)
<1>1. PreviewsInit => TypeInv
  BY InitTyped DEF PreviewsInit
<1>2. PreviewsInv /\ TypeInv /\ [PreviewsNext]_<<vars, shadowVars>> => TypeInv'
  BY EnvBesideShadows
<1>3. PreviewsInv /\ TypeInv => TypeOK /\ PreviewsTypeOK
  BY DEF PreviewsInv, TypeInv
<1> QED BY <1>1, <1>2, <1>3, PreviewsInvHolds, PTL DEF PreviewsSpec

(* Leases are those of the owners' ports, one each.                        *)
OneLeaseEach ==
  /\ leased = {PortOf(x) : x \in Owners}
  /\ \A x, y \in Owners : PortOf(x) = PortOf(y) => x = y

LEMMA LeaseTaken ==
  ASSUME OneLeaseEach, NEW z, NEW p, z \notin Owners, p \notin leased,
         leased' = leased \cup {p}, Owners' = Owners \cup {z}, PortOf(z)' = p,
         \A x \in Owners : PortOf(x)' = PortOf(x)
  PROVE  OneLeaseEach'
<1>1. \A x \in Owners : PortOf(x) \in leased /\ PortOf(x)' # p
  BY DEF OneLeaseEach
<1>2. leased' = {PortOf(x)' : x \in Owners'}
  BY <1>1 DEF OneLeaseEach
<1>3. \A x, y \in Owners' : PortOf(x)' = PortOf(y)' => x = y
  BY <1>1 DEF OneLeaseEach
<1> QED BY <1>2, <1>3 DEF OneLeaseEach

LEMMA LeasesGivenUp ==
  ASSUME OneLeaseEach, NEW K \in SUBSET Owners,
         leased' = leased \ {PortOf(x) : x \in K}, Owners' = Owners \ K,
         \A x \in Owners \ K : PortOf(x)' = PortOf(x)
  PROVE  OneLeaseEach'
<1>1. \A x \in Owners \ K : PortOf(x) \in leased /\ PortOf(x) \notin {PortOf(y) : y \in K}
  BY DEF OneLeaseEach
<1>2. leased' = {PortOf(x)' : x \in Owners'}
  BY <1>1 DEF OneLeaseEach
<1>3. \A x, y \in Owners' : PortOf(x)' = PortOf(y)' => x = y
  BY DEF OneLeaseEach
<1> QED BY <1>2, <1>3 DEF OneLeaseEach

LEMMA EnvKeepsLeases ==
  ASSUME TypeInv, PreviewsInv, OneLeaseEach, Owning, UNCHANGED shadowVars
  PROVE  OneLeaseEach'
<1>1. Owners = Unstopped \cup {v \in Shadows : sport[v] # None} /\ sport' = sport
  BY DEF Owners, Unstopped, shadowVars
<1>2. Owners' = Unstopped' \cup {v \in Shadows : sport[v] # None}
  BY <1>1 DEF Owners, Unstopped
<1>3. /\ \A h \in Handles : PortOf(h) = port[h] /\ PortOf(h)' = port'[h] /\ h \notin Shadows
      /\ \A v \in Shadows : PortOf(v) = sport[v] /\ PortOf(v)' = sport[v] /\ v \notin Handles
  BY <1>1, PreviewsAssumption DEF PortOf
<1>4. ASSUME NEW h \in Handles, NEW p \in Ports, Launches(h, p)
      PROVE  OneLeaseEach'
  <2>1. /\ h \notin Unstopped /\ p \notin leased /\ port' = [port EXCEPT ![h] = p]
        /\ leased' = leased \cup {p} /\ Unstopped' = Unstopped \cup {h}
    BY <1>4 DEF Launches
  <2>2. h \notin Owners /\ Owners' = Owners \cup {h}
    BY <1>1, <1>2, <1>3, <2>1
  <2>3. PortOf(h)' = p /\ \A x \in Owners : PortOf(x)' = PortOf(x)
    BY <1>1, <1>3, <2>1, <2>2 DEF TypeInv, TypeOK, Unstopped
  <2> QED BY <2>1, <2>2, <2>3, LeaseTaken
<1>5. ASSUME NEW K \in SUBSET Unstopped, GivesUp(K)
      PROVE  OneLeaseEach'
  <2>1. port' = port /\ leased' = leased \ {port[h] : h \in K} /\ Unstopped' = Unstopped \ K
    BY <1>5 DEF GivesUp
  <2>2. K \in SUBSET Owners /\ Owners' = Owners \ K
    BY <1>1, <1>2, <1>3, <2>1 DEF Unstopped
  <2>3. \A x \in K : PortOf(x) = port[x]
    BY <1>3 DEF Unstopped
  <2>4. leased' = leased \ {PortOf(x) : x \in K} /\ \A x \in Owners : PortOf(x)' = PortOf(x)
    BY <1>1, <1>3, <2>1, <2>3 DEF Unstopped
  <2> QED BY <2>2, <2>4, LeasesGivenUp
<1> QED BY <1>4, <1>5 DEF Owning

LEMMA ShadowKeepsLeases ==
  ASSUME TypeInv, PreviewsInv, OneLeaseEach, NEW v \in Shadows, ShadowStep(v)
  PROVE  OneLeaseEach'
<1>1. state' = state /\ port' = port
  BY ShadowPorts DEF startVars
<1>2. /\ \A h \in Handles : PortOf(h) = port[h] /\ PortOf(h)' = port[h] /\ h \notin Shadows
      /\ \A w \in Shadows : PortOf(w) = sport[w] /\ PortOf(w)' = sport'[w] /\ w \notin Handles
  BY <1>1, PreviewsAssumption DEF PortOf
<1>3. CASE UNCHANGED <<leased, sport>>
  BY <1>1, <1>3 DEF OneLeaseEach, Owners, PortOf
<1>4. ASSUME NEW p \in Ports \ leased, leased' = leased \cup {p},
             sport[v] = None, sport' = [sport EXCEPT ![v] = p]
      PROVE  OneLeaseEach'
  <2>1. sport'[v] = p /\ p # None /\ \A w \in Shadows \ {v} : sport'[w] = sport[w]
    BY <1>4, EnvAssumption DEF PreviewsInv, PreviewsTypeOK
  <2>2. v \notin Owners /\ Owners' = Owners \cup {v}
    BY <1>1, <1>2, <1>4, <2>1 DEF Owners
  <2>3. PortOf(v)' = p /\ \A x \in Owners : PortOf(x)' = PortOf(x)
    BY <1>2, <2>1, <2>2 DEF Owners
  <2> QED BY <1>4, <2>2, <2>3, LeaseTaken
<1>5. CASE leased' = leased \ {sport[v]} /\ sport' = [sport EXCEPT ![v] = None]
  <2>1. sport'[v] = None /\ \A w \in Shadows \ {v} : sport'[w] = sport[w]
    BY <1>5 DEF PreviewsInv, PreviewsTypeOK
  <2>2. CASE sport[v] = None
    <3>1. \A w \in Shadows : sport'[w] = sport[w]
      BY <2>1, <2>2
    <3>2. Owners' = Owners /\ \A x \in Owners : PortOf(x)' = PortOf(x)
      BY <1>1, <1>2, <3>1 DEF Owners
    <3>3. None \notin leased
      BY EnvAssumption DEF TypeInv, TypeOK
    <3>4. leased' = leased \ {PortOf(x) : x \in {}} /\ {} \in SUBSET Owners /\ Owners' = Owners \ {}
      BY <1>5, <2>2, <3>2, <3>3
    <3> QED BY <3>2, <3>4, LeasesGivenUp
  <2>3. CASE sport[v] # None
    <3>1. {v} \in SUBSET Owners /\ Owners' = Owners \ {v}
      BY <1>1, <1>2, <2>1, <2>3 DEF Owners
    <3>2. leased' = leased \ {PortOf(x) : x \in {v}}
      BY <1>2, <1>5
    <3>3. \A x \in Owners \ {v} : PortOf(x)' = PortOf(x)
      BY <1>2, <2>1 DEF Owners
    <3> QED BY <3>1, <3>2, <3>3, LeasesGivenUp
  <2> QED BY <2>2, <2>3
<1> QED BY <1>3, <1>4, <1>5, ShadowPorts

LEMMA LeasesInvHolds ==
  ASSUME Supervised
  PROVE  PreviewsSpec => [](TypeInv /\ PreviewsInv /\ TasksApart /\ OneLeaseEach)
<1>1. PreviewsInit => TypeInv /\ TasksApart /\ OneLeaseEach
  <2> SUFFICES ASSUME PreviewsInit
               PROVE  TypeInv /\ TasksApart /\ OneLeaseEach
    OBVIOUS
  <2>1. Owners = {} /\ leased = {}
    BY DEF PreviewsInit, Init, Owners
  <2>2. TasksApart
    BY DEF PreviewsInit, Init, TasksApart, Unlaunched, Live
  <2> QED BY <2>1, <2>2, InitTyped DEF PreviewsInit, OneLeaseEach
<1>2. TypeInv /\ TasksApart /\ OneLeaseEach /\ PreviewsInv /\ [PreviewsNext]_<<vars, shadowVars>> =>
        TypeInv' /\ TasksApart' /\ OneLeaseEach'
  <2> SUFFICES ASSUME TypeInv, TasksApart, OneLeaseEach, PreviewsInv, [PreviewsNext]_<<vars, shadowVars>>
               PROVE  TasksApart' /\ OneLeaseEach'
    BY EnvBesideShadows
  <2>1. CASE UNCHANGED <<vars, shadowVars>>
    BY <2>1 DEF TasksApart, OneLeaseEach, Owners, PortOf, Unstopped, vars, startVars, stopVars, shadowVars
  <2>2. CASE Next /\ UNCHANGED shadowVars
    BY <2>2, SupervisedStep, EnvKeepsLeases
  <2>3. ASSUME NEW v \in Shadows, ShadowStep(v)
        PROVE  TasksApart' /\ OneLeaseEach'
    <3>1. UNCHANGED <<state, proc, idle, reg, slots, startVars, stopVars, chkVars, exited>>
      BY <2>3, ShadowPorts
    <3>2. TasksApart'
      BY <3>1 DEF TasksApart, Unstopped, startVars, stopVars
    <3> QED BY <2>3, <3>2, ShadowKeepsLeases
  <2> QED BY <2>1, <2>2, <2>3 DEF PreviewsNext, ShadowStep
<1> QED BY <1>1, <1>2, PreviewsInvHolds, PTL DEF PreviewsSpec

(* Every leased port is that of one environment that is not stopped or of  *)
(* one shadow that is not reclaimed, and no server outlives its lease      *)
(* (PortPool, _terminate, _start_shadow, _reclaim_shadow), when only the   *)
(* supervisor stops environments.                                          *)
THEOREM LeasesHaveOwners ==
  ASSUME Supervised
  PROVE  PreviewsSpec => []LeasesAreOwned
<1>1. TypeInv /\ PreviewsInv /\ TasksApart /\ OneLeaseEach => LeasesAreOwned
  <2> SUFFICES ASSUME TypeInv, PreviewsInv, TasksApart, OneLeaseEach
               PROVE  /\ \A h \in Handles : proc[h] \in Live => h \in Owners
                      /\ \A v \in Shadows : sproc[v] \in Live => v \in Owners
    BY DEF LeasesAreOwned, OneLeaseEach
  <2>1. \A h \in Handles : proc[h] \in Live => h \in Owners
    BY DEF TasksApart, Unstopped, Owners
  <2>2. \A v \in Shadows : sproc[v] \in Live => v \in Owners
    BY DEF PreviewsInv, StageOf, Owners, Live
  <2> QED BY <2>1, <2>2
<1> QED BY <1>1, LeasesInvHolds, PTL

(* While a preview checks and calls its port, nobody but its own shadow    *)
(* serves it: no environment and no other preview (_start_shadow, preview),*)
(* when only the supervisor stops environments.                            *)
THEOREM CallsReachTheShadow ==
  ASSUME Supervised
  PROVE  PreviewsSpec => []CallsStayInShadow
<1>1. TypeInv /\ PreviewsInv /\ TasksApart /\ OneLeaseEach => CallsStayInShadow
  <2> SUFFICES ASSUME TypeInv, PreviewsInv, TasksApart, OneLeaseEach,
                      NEW v \in Shadows, ppc[v] \in {"health", "calling"}
               PROVE  ServersOn(sport[v]) \subseteq {v}
    BY DEF CallsStayInShadow
  <2>1. v \in Owners /\ v \notin Handles /\ PortOf(v) = sport[v]
    BY PreviewsAssumption DEF PreviewsInv, StageOf, Inside, Owners, PortOf
  <2>2. ASSUME NEW h \in Handles, proc[h] = "serving", port[h] = sport[v]
        PROVE  FALSE
    <3>1. h \in Owners /\ PortOf(h) = sport[v]
      BY <2>2 DEF TasksApart, Unstopped, Owners, Live, PortOf
    <3> QED BY <2>1, <3>1 DEF OneLeaseEach
  <2>3. ASSUME NEW w \in Shadows, sproc[w] = "serving", sport[w] = sport[v]
        PROVE  w = v
    <3>1. w \in Owners /\ PortOf(w) = sport[v]
      BY <2>1, <2>3, PreviewsAssumption DEF PreviewsInv, StageOf, Owners, PortOf
    <3> QED BY <2>1, <3>1 DEF OneLeaseEach
  <2> QED BY <2>2, <2>3 DEF ServersOn
<1> QED BY <1>1, LeasesInvHolds, PTL

-----------------------------------------------------------------------------
(* The changes a preview lists *)

LEMMA RowsAreFunctions ==
  ASSUME NEW rows \in Rows
  PROVE  /\ DOMAIN rows \subseteq Keys /\ rows = [k \in DOMAIN rows |-> rows[k]]
         /\ \A k \in DOMAIN rows : rows[k] \in [Columns -> Values]
BY DEF Rows

LEMMA ChangesRebuildTheRows == ChangesRebuild
<1> SUFFICES ASSUME NEW old \in Rows, NEW new \in Rows
             PROVE  LET c == TableChanges(old, new) IN
                    /\ c.shape.added = Added(old, new)
                    /\ c.shape.added = DOMAIN c.added /\ DOMAIN c.shape.changed = DOMAIN c.changed
                         => Rebuilt(old, c) = new
  BY DEF ChangesRebuild
<1> DEFINE c == TableChanges(old, new)
<1>1. /\ c.added = Shown(new, Added(old, new))
      /\ c.changed = Shown(new, DOMAIN ChangedColumns(old, new))
      /\ c.shape.added = Added(old, new) /\ c.shape.removed = Removed(old, new)
      /\ c.shape.changed = ChangedColumns(old, new)
  BY DEF TableChanges
<1>2. DOMAIN ChangedColumns(old, new) = {k \in Kept(old, new) : old[k] # new[k]}
  BY DEF ChangedColumns
<1>3. \A K : \A k \in DOMAIN Shown(new, K) : Shown(new, K)[k] = new[k]
  BY DEF Shown
<1>4. ASSUME c.shape.added = DOMAIN c.added, DOMAIN c.shape.changed = DOMAIN c.changed
      PROVE  Rebuilt(old, c) = new
  <2> HIDE DEF c
  <2> DEFINE D == (DOMAIN old \ c.shape.removed) \cup DOMAIN c.added
  <2>1. D = DOMAIN new
    BY <1>1, <1>4 DEF Added, Removed
  <2>2. Rebuilt(old, c) = [k \in D |-> IF k \in DOMAIN c.added THEN c.added[k]
                                       ELSE IF k \in DOMAIN c.changed THEN c.changed[k] ELSE old[k]]
    BY DEF Rebuilt
  <2>3. ASSUME NEW k \in DOMAIN new
        PROVE  Rebuilt(old, c)[k] = new[k]
    <3>1. CASE k \in DOMAIN c.added
      BY <1>1, <1>3, <2>1, <2>2, <3>1
    <3>2. CASE k \notin DOMAIN c.added /\ k \in DOMAIN c.changed
      BY <1>1, <1>3, <2>1, <2>2, <3>2
    <3>3. CASE k \notin DOMAIN c.added /\ k \notin DOMAIN c.changed
      <4>1. k \in DOMAIN old /\ old[k] = new[k]
        BY <1>1, <1>2, <1>4, <3>3 DEF Added, Kept
      <4> QED BY <2>1, <2>2, <3>3, <4>1
    <3> QED BY <3>1, <3>2, <3>3
  <2>4. DOMAIN Rebuilt(old, c) = DOMAIN new /\ Rebuilt(old, c) = [k \in DOMAIN new |-> Rebuilt(old, c)[k]]
    BY <2>1, <2>2
  <2>5. new = [k \in DOMAIN new |-> new[k]]
    BY RowsAreFunctions
  <2> HIDE DEF D
  <2> QED BY <2>3, <2>4, <2>5
<1> QED BY <1>1, <1>4

LEMMA ListedTables ==
  ASSUME NEW before, NEW after
  PROVE  /\ DOMAIN Changes(before, after).tables = DiffTables(before, after)
         /\ \A t \in DiffTables(before, after) :
              Changes(before, after).tables[t] = TableChanges(before[t], after[t])
         /\ Changes(before, after).tables_added = Added(before, after)
         /\ Changes(before, after).tables_removed = Removed(before, after)
<1> DEFINE kept == Kept(before, after)
           all  == [t \in kept |-> TableChanges(before[t], after[t])]
           listed == {t \in kept : \/ all[t].shape.added # {}
                                   \/ all[t].shape.removed # {}
                                   \/ DOMAIN all[t].shape.changed # {}}
<1>1. /\ Changes(before, after).tables = [t \in listed |-> all[t]]
      /\ Changes(before, after).tables_added = Added(before, after)
      /\ Changes(before, after).tables_removed = Removed(before, after)
  BY DEF Changes
<1>2. ASSUME NEW t \in kept
      PROVE  /\ all[t].shape.added = Added(before[t], after[t])
             /\ all[t].shape.removed = Removed(before[t], after[t])
             /\ DOMAIN all[t].shape.changed
                  = {k \in Kept(before[t], after[t]) : before[t][k] # after[t][k]}
  BY DEF TableChanges, ChangedColumns
<1>3. listed = DiffTables(before, after)
  <2> HIDE DEF all
  <2> QED BY <1>2 DEF DiffTables
<1>4. \A t \in listed : all[t] = TableChanges(before[t], after[t])
  OBVIOUS
<1> HIDE DEF listed, all
<1> QED BY <1>1, <1>3, <1>4

LEMMA ChangesSayWhatDiffSees == ChangesAgreeWithDiff
<1> SUFFICES ASSUME NEW before \in Databases, NEW after \in Databases
             PROVE  LET c == Changes(before, after) IN
                    /\ DOMAIN c.tables = DiffTables(before, after)
                    /\ IsChanged(before, after)
                         <=> c.tables_added \cup c.tables_removed \cup DOMAIN c.tables # {}
  BY DEF ChangesAgreeWithDiff
<1>1. DOMAIN before # DOMAIN after <=> Added(before, after) \cup Removed(before, after) # {}
  BY DEF Added, Removed
<1> QED BY <1>1, ListedTables DEF IsChanged

(* What _project leaves of the changes of one table.                       *)
Differing(kind, old, x, k) == {c \in Columns \ kind.volatile : old[k][c] # x[k][c]}
Told(kind, old, x) ==
  [added   |-> IF kind.generated THEN {Cardinality(Added(old, x))} \ {0} ELSE Added(old, x),
   removed |-> Removed(old, x),
   changed |-> [k \in {k \in Kept(old, x) : Differing(kind, old, x, k) # {}} |->
                  Differing(kind, old, x, k)]]

LEMMA ProjectedShape ==
  ASSUME NEW t, NEW kind, NEW old \in Rows, NEW x \in Rows
  PROVE  Project(kind, ShapeOf(Changes([s \in {t} |-> old], [s \in {t} |-> x]), t))
           = Told(kind, old, x)
<1> DEFINE before == [s \in {t} |-> old]
           after  == [s \in {t} |-> x]
           shape  == TableChanges(old, x).shape
<1>1. /\ shape.added = Added(old, x) /\ shape.removed = Removed(old, x)
      /\ shape.changed = ChangedColumns(old, x)
  BY DEF TableChanges
<1>2. /\ DOMAIN ChangedColumns(old, x) = {k \in Kept(old, x) : old[k] # x[k]}
      /\ \A k \in DOMAIN ChangedColumns(old, x) :
           ChangedColumns(old, x)[k] = {c \in Columns : old[k][c] # x[k][c]}
  BY DEF ChangedColumns
<1>3. Project(kind, shape) = Told(kind, old, x)
  <2> DEFINE columns == [k \in DOMAIN shape.changed |-> shape.changed[k] \ kind.volatile]
             kept    == {k \in DOMAIN columns : columns[k] # {}}
  <2>1. \A k \in DOMAIN columns : columns[k] = Differing(kind, old, x, k)
    BY <1>1, <1>2 DEF Differing
  <2>2. kept = {k \in Kept(old, x) : Differing(kind, old, x, k) # {}}
    <3>1. \A k \in Kept(old, x) : Differing(kind, old, x, k) # {} => old[k] # x[k]
      BY DEF Differing
    <3>2. DOMAIN columns = {k \in Kept(old, x) : old[k] # x[k]}
      BY <1>1, <1>2
    <3> HIDE DEF columns
    <3> QED BY <2>1, <3>1, <3>2
  <2>3. [k \in kept |-> columns[k]]
          = [k \in {k \in Kept(old, x) : Differing(kind, old, x, k) # {}} |-> Differing(kind, old, x, k)]
    <3> HIDE DEF columns
    <3> QED BY <2>1, <2>2
  <2>4. Project(kind, shape) =
          [added   |-> IF kind.generated THEN {Cardinality(shape.added)} \ {0} ELSE shape.added,
           removed |-> shape.removed,
           changed |-> [k \in kept |-> columns[k]]]
    BY DEF Project
  <2> HIDE DEF kept, columns, shape
  <2> QED BY <1>1, <2>3, <2>4, Zenon DEF Told
<1>4. /\ Kept(before, after) = {t} /\ before[t] = old /\ after[t] = x
  BY DEF Kept
<1>5. CASE t \in DiffTables(before, after)
  <2>1. ShapeOf(Changes(before, after), t) = shape
    BY <1>4, <1>5, ListedTables DEF ShapeOf
  <2> QED BY <1>3, <2>1
<1>6. CASE t \notin DiffTables(before, after)
  <2>1. ShapeOf(Changes(before, after), t) = NoShape
    BY <1>6, ListedTables DEF ShapeOf
  <2>2. Added(old, x) = {} /\ Removed(old, x) = {} /\ \A k \in Kept(old, x) : old[k] = x[k]
    <3> HIDE DEF before, after
    <3> QED BY <1>4, <1>6 DEF DiffTables
  <2>3. {k \in Kept(old, x) : Differing(kind, old, x, k) # {}} = {}
    BY <2>2 DEF Differing
  <2>4. Told(kind, old, x) =
          [added   |-> IF kind.generated THEN {Cardinality({})} \ {0} ELSE {},
           removed |-> {},
           changed |-> [k \in {} |-> Differing(kind, old, x, k)]]
    BY <2>2, <2>3, Zenon DEF Told
  <2> DEFINE columns == [k \in DOMAIN NoShape.changed |-> NoShape.changed[k] \ kind.volatile]
  <2>5. Project(kind, NoShape) =
          [added   |-> IF kind.generated THEN {Cardinality({})} \ {0} ELSE {},
           removed |-> {},
           changed |-> [k \in {k \in DOMAIN columns : columns[k] # {}} |-> columns[k]]]
    BY DEF Project, NoShape
  <2>6. {k \in DOMAIN columns : columns[k] # {}} = {}
    BY DEF NoShape
  <2>7. [k \in {k \in DOMAIN columns : columns[k] # {}} |-> columns[k]]
          = [k \in {} |-> Differing(kind, old, x, k)]
    BY <2>6
  <2> QED BY <2>1, <2>4, <2>5, <2>7
<1> QED BY <1>5, <1>6

(* Two tellings are the same exactly when the calls did the same.          *)
LEMMA ToldAlike ==
  ASSUME NEW kind \in [volatile : SUBSET Columns, generated : BOOLEAN],
         NEW old \in Rows, NEW x \in Rows, NEW y \in Rows
  PROVE  (\A part \in {"added", "removed", "changed"} :
            Told(kind, old, x)[part] = Told(kind, old, y)[part])
           <=> Repeats(kind, old, x, y)
<1> DEFINE Same(part) == Told(kind, old, x)[part] = Told(kind, old, y)[part]
           D(r) == {k \in Kept(old, r) : Differing(kind, old, r, k) # {}}
<1>1. Same("removed") <=> Removed(old, x) = Removed(old, y)
  BY DEF Told
<1>2. Same("added") <=> IF kind.generated
                        THEN Cardinality(Added(old, x)) = Cardinality(Added(old, y))
                        ELSE Added(old, x) = Added(old, y)
  <2>1. Same("added") <=> IF kind.generated
                          THEN {Cardinality(Added(old, x))} \ {0} = {Cardinality(Added(old, y))} \ {0}
                          ELSE Added(old, x) = Added(old, y)
    BY DEF Told
  <2>2. \A a, b : {a} \ {0} = {b} \ {0} <=> a = b
    OBVIOUS
  <2> QED BY <2>1, <2>2
<1>3. Removed(old, x) = Removed(old, y) => Kept(old, x) = Kept(old, y)
  BY DEF Removed, Kept
<1>4. ASSUME Kept(old, x) = Kept(old, y)
      PROVE  Same("changed") <=> \A k \in Kept(old, x) :
                                   Differing(kind, old, x, k) = Differing(kind, old, y, k)
  <2> DEFINE X == [k \in D(x) |-> Differing(kind, old, x, k)]
             Y == [k \in D(y) |-> Differing(kind, old, y, k)]
  <2>1. Same("changed") <=> X = Y
    BY DEF Told
  <2>2. ASSUME \A k \in Kept(old, x) : Differing(kind, old, x, k) = Differing(kind, old, y, k)
        PROVE  X = Y
    <3>1. D(x) = D(y)
      BY <1>4, <2>2
    <3> QED BY <2>2, <3>1
  <2>3. ASSUME X = Y, NEW k \in Kept(old, x)
        PROVE  Differing(kind, old, x, k) = Differing(kind, old, y, k)
    <3>1. D(x) = D(y)
      <4>1. DOMAIN X = D(x) /\ DOMAIN Y = D(y)
        OBVIOUS
      <4> HIDE DEF X, Y, D
      <4> QED BY <2>3, <4>1
    <3>2. CASE k \in D(x)
      <4>1. X[k] = Differing(kind, old, x, k) /\ Y[k] = Differing(kind, old, y, k)
        BY <3>1, <3>2
      <4> HIDE DEF X, Y
      <4> QED BY <2>3, <4>1
    <3>3. CASE k \notin D(x)
      BY <1>4, <2>3, <3>1, <3>3
    <3> QED BY <3>2, <3>3
  <2> QED BY <2>1, <2>2, <2>3
<1>5. ASSUME NEW k \in Kept(old, x)
      PROVE  Differing(kind, old, x, k) = Differing(kind, old, y, k)
               <=> \A c \in Columns \ kind.volatile : (x[k][c] = old[k][c]) <=> (y[k][c] = old[k][c])
  BY DEF Differing
<1>6. (\A k \in Kept(old, x) : Differing(kind, old, x, k) = Differing(kind, old, y, k))
        <=> \A k \in Kept(old, x), c \in Columns \ kind.volatile :
              (x[k][c] = old[k][c]) <=> (y[k][c] = old[k][c])
  BY <1>5
<1>7. Repeats(kind, old, x, y) <=>
        /\ Removed(old, x) = Removed(old, y)
        /\ IF kind.generated THEN Cardinality(Added(old, x)) = Cardinality(Added(old, y))
                             ELSE Added(old, x) = Added(old, y)
        /\ \A k \in Kept(old, x), c \in Columns \ kind.volatile :
             (x[k][c] = old[k][c]) <=> (y[k][c] = old[k][c])
  BY DEF Repeats
<1>8. (\A part \in {"added", "removed", "changed"} : Same(part))
        <=> Same("added") /\ Same("removed") /\ Same("changed")
  <2> HIDE DEF Same
  <2> QED OBVIOUS
<1> HIDE DEF Same
<1>9. (\A part \in {"added", "removed", "changed"} : Same(part)) <=> Repeats(kind, old, x, y)
  BY <1>1, <1>2, <1>3, <1>4, <1>6, <1>7, <1>8
<1> QED BY <1>9 DEF Same

(* The comparison of two whole databases of one table.                     *)
LEMMA ComparisonIsSound == SoundCompare
<1> SUFFICES ASSUME NEW t \in Tables, NEW schema \in Schemas,
                    NEW old \in Rows, NEW x \in Rows, NEW y \in Rows
             PROVE  LET Preview(rows) == Changes([s \in {t} |-> old], [s \in {t} |-> rows])
                    IN  Matches(schema, Preview(x), Preview(y)) <=> Repeats(schema[t], old, x, y)
  BY DEF SoundCompare
<1> DEFINE Preview(rows) == Changes([s \in {t} |-> old], [s \in {t} |-> rows])
           kind == schema[t]
           Parts == {"added", "removed", "changed"}
           P(s) == Project(schema[s], ShapeOf(Preview(x), s))
           A(s) == Project(schema[s], ShapeOf(Preview(y), s))
           listed == DOMAIN Preview(x).tables \cup DOMAIN Preview(y).tables
<1>1. kind \in [volatile : SUBSET Columns, generated : BOOLEAN]
  BY DEF Schemas
<1>2. P(t) = Told(kind, old, x) /\ A(t) = Told(kind, old, y)
  BY ProjectedShape
<1>3. /\ DOMAIN Preview(x).tables \subseteq {t} /\ DOMAIN Preview(y).tables \subseteq {t}
      /\ Preview(x).tables_added = {} /\ Preview(y).tables_added = {}
      /\ Preview(x).tables_removed = {} /\ Preview(y).tables_removed = {}
  <2>1. ASSUME NEW rows
        PROVE  /\ DOMAIN Preview(rows).tables \subseteq {t}
               /\ Preview(rows).tables_added = {} /\ Preview(rows).tables_removed = {}
    BY ListedTables DEF DiffTables, Kept, Added, Removed
  <2> QED BY <2>1
<1>4. Differences(schema, Preview(x), Preview(y)) =
        {<<k>> : k \in {k \in {"tables_added", "tables_removed"} : Preview(x)[k] # Preview(y)[k]}}
          \cup {z \in listed \X Parts : P(z[1])[z[2]] # A(z[1])[z[2]]}
  BY DEF Differences
<1>5. {k \in {"tables_added", "tables_removed"} : Preview(x)[k] # Preview(y)[k]} = {}
  <2> HIDE DEF Preview
  <2> QED BY <1>3
<1>6. Matches(schema, Preview(x), Preview(y)) <=>
        {z \in listed \X Parts : P(z[1])[z[2]] # A(z[1])[z[2]]} = {}
  <2> HIDE DEF Preview, P, A, listed
  <2> QED BY <1>4, <1>5 DEF Matches
<1>7. listed \subseteq {t}
  <2> HIDE DEF Preview
  <2> QED BY <1>3
<1>8. CASE listed = {t}
  <2>1. Matches(schema, Preview(x), Preview(y)) <=> \A part \in Parts : P(t)[part] = A(t)[part]
    <3> HIDE DEF P, A, Preview, listed
    <3>1. \A part \in Parts : <<t, part>> \in listed \X Parts
      BY <1>8
    <3>2. \A z \in listed \X Parts : z[1] = t /\ z[2] \in Parts
      BY <1>8
    <3> QED BY <1>6, <3>1, <3>2
  <2> QED BY <1>1, <1>2, <2>1, ToldAlike
<1>9. CASE listed = {}
  <2>1. Matches(schema, Preview(x), Preview(y))
    <3> HIDE DEF P, A, Preview, listed
    <3> QED BY <1>6, <1>9
  <2>2. t \notin DOMAIN Preview(x).tables /\ t \notin DOMAIN Preview(y).tables
    <3> HIDE DEF Preview
    <3> QED BY <1>9
  <2>3. P(t) = A(t)
    BY <2>2 DEF ShapeOf
  <2>4. \A part \in Parts : Told(kind, old, x)[part] = Told(kind, old, y)[part]
    <3>1. Told(kind, old, x) = Told(kind, old, y)
      <4> HIDE DEF P, A
      <4> QED BY <1>2, <2>3
    <3> QED BY <3>1
  <2> QED BY <1>1, <2>1, <2>4, ToldAlike
<1> QED BY <1>7, <1>8, <1>9

(* For every table, key, column and value: the changes an approver is      *)
(* shown rebuild the database whenever no row is left out and list every   *)
(* table that snapshot.diff finds changed, and a preview matches the real  *)
(* call exactly when that call did the same, volatile columns and          *)
(* generated keys aside (envs/changes.py).                                 *)
THEOREM ListedChangesAreExact == ChangeLaws
BY ChangesRebuildTheRows, ChangesSayWhatDiffSees, ComparisonIsSound DEF ChangeLaws
=============================================================================
