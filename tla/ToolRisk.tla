------------------------------ MODULE ToolRisk ------------------------------
(* classify of gateway/policy.py: the risk level the gateway gives a tool. *)
(* Pure.  A tool is described by the words of its name and the first word  *)
(* of its description (_tokens), its scenario, and the HTTP method of its  *)
(* route in the offline catalogue (None: not in the catalogue).            *)
EXTENDS Naturals, FiniteSets

Rank == [read |-> 0, write |-> 1, destructive |-> 2]

(* _heuristic: the worst level with a verb among the words.                *)
Heuristic(words, config) ==
  LET hits == {level \in DOMAIN Rank : words \cap config.verbs[level] # {}}
  IN IF hits = {} THEN config.unknown_default
     ELSE CHOOSE level \in hits : \A other \in hits : Rank[other] <= Rank[level]

MethodFloor == [POST |-> "write", PUT |-> "write", PATCH |-> "write", DELETE |-> "destructive"]

(* Mutant: a verb that is known counts more than the route. *)
FlooredUnknown(level, method) ==
  IF level = "write" /\ method = "DELETE" THEN "destructive" ELSE level

(* The level is raised to what the route's method implies.                 *)
Floored(level, method) ==
  IF method \in DOMAIN MethodFloor /\ Rank[MethodFloor[method]] > Rank[level]
  THEN MethodFloor[method] ELSE level

(* The keys under which a person may have set the level, the scenario's    *)
(* own first.                                                              *)
OverrideKeys(tool) == <<<<tool.scenario, tool.name>>, <<"any", tool.name>>>>
Overriding(tool, config) == {i \in 1 .. 2 : OverrideKeys(tool)[i] \in DOMAIN config.overrides}

Classify(tool, config) ==
  LET keys == Overriding(tool, config)
  IN CASE 1 \in keys -> config.overrides[OverrideKeys(tool)[1]]
       [] keys = {2} -> config.overrides[OverrideKeys(tool)[2]]
       [] keys = {}  -> Floored(Heuristic(tool.words, config), tool.method)
=============================================================================
