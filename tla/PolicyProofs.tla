---------------------------- MODULE PolicyProofs ----------------------------
(***************************************************************************)
(* Theorems about the approval policy for every list of rules.             *)
(***************************************************************************)
EXTENDS GovernedCalls, WellFoundedInduction, TLAPS

(* The first element of a set of positions is its least.                   *)
LEMMA FirstIsLeast ==
  ASSUME NEW S \in SUBSET Nat, S # {}
  PROVE  First(S) \in S /\ \A j \in S : First(S) <= j
<1>1. \E x \in S : \A y \in S : ~(<<y, x>> \in OpToRel(<, Nat))
  BY NatLessThanWellFounded, WFMin
<1>2. PICK x \in S : \A y \in S : ~(y < x)
  BY <1>1 DEF OpToRel
<1>3. \A j \in S : x <= j
  BY <1>2
<1> QED BY <1>3 DEF First

LEMMA FirstIs ==
  ASSUME NEW S \in SUBSET Nat, NEW x \in S, \A j \in S : x <= j
  PROVE  First(S) = x
<1>1. First(S) \in S /\ \A j \in S : First(S) <= j
  BY DEF First
<1>2. First(S) \in Nat /\ x \in Nat /\ First(S) <= x /\ x <= First(S)
  BY <1>1
<1> QED BY <1>2

LEMMA DecidersAreRules ==
  ASSUME NEW rs \in Seq(Rule), NEW x \in Calls
  PROVE  /\ Deciders(rs, x) \in SUBSET Nat
         /\ \A k \in Deciders(rs, x) : k \in 1..Len(rs) /\ rs[k] \in Rule
BY DEF Deciders

LEMMA TheFirstDecides ==
  ASSUME NEW rs \in Seq(Rule), NEW x \in Calls
  PROVE  \/ /\ Deciders(rs, x) = {}
            /\ Evaluate(rs, x) = IF NeedsByDefault(x) THEN "require_human" ELSE "allow"
         \/ \E k \in Deciders(rs, x) : /\ Evaluate(rs, x) = rs[k].decision
                                       /\ \A j \in Deciders(rs, x) : k <= j
<1>1. CASE Deciders(rs, x) = {}
  BY <1>1 DEF Evaluate
<1>2. CASE Deciders(rs, x) # {}
  BY <1>2, FirstIsLeast, DecidersAreRules DEF Evaluate
<1> QED BY <1>1, <1>2

(* No policy file makes the gateway approve a destructive call by itself   *)
(* (the destructive guard of ApprovalPolicy.evaluate, ADR-027).            *)
THEOREM DestructiveIsNeverAutoApproved ==
  ASSUME NEW rs \in Seq(Rule), NEW x \in Calls, Risk[x] = "destructive"
  PROVE  Evaluate(rs, x) \in {"require_human", "deny"}
<1>1. CASE Deciders(rs, x) = {}
  BY <1>1 DEF Evaluate, NeedsByDefault
<1>2. ASSUME NEW k \in Deciders(rs, x), Evaluate(rs, x) = rs[k].decision
      PROVE  Evaluate(rs, x) \in {"require_human", "deny"}
  <2>1. rs[k] \in Rule /\ ~Guarded(rs[k], x)
    BY DecidersAreRules DEF Deciders
  <2> QED BY <1>2, <2>1 DEF Guarded, Rule, RuleDecision
<1> QED BY <1>1, <1>2, TheFirstDecides

-----------------------------------------------------------------------------
(* The loop *)

(* No rule the loop went past decides.                                     *)
LoopInv == /\ TypeOK
           /\ \A j \in 1..(i - 1) : j \notin Deciders(rules, c)
           /\ DecidesAsDefined

LEMMA LoopInit == Init => LoopInv
<1> SUFFICES ASSUME Init PROVE LoopInv
  OBVIOUS
<1>1. rules \in Seq(Rule) /\ Len(rules) \in Nat /\ i = 1 /\ guard = 0
  BY RuleListsAssumption DEF Init
<1>2. TypeOK
  <2>1. i \in 1..(Len(rules) + 1) /\ guard \in 0..Len(rules)
    BY <1>1
  <2>2. c \in Calls /\ decision \in Outcomes \cup {"pending"} /\ needsToken \in BOOLEAN
    BY DEF Init
  <2> QED BY <1>1, <2>1, <2>2 DEF TypeOK
<1>3. DecidesAsDefined
  BY DEF Init, DecidesAsDefined
<1> QED BY <1>1, <1>2, <1>3 DEF LoopInv

LEMMA LoopStep == LoopInv /\ [Next]_vars => LoopInv'
<1> SUFFICES ASSUME LoopInv, [Next]_vars PROVE LoopInv'
  OBVIOUS
<1> USE DEF LoopInv
<1>1. rules \in Seq(Rule) /\ c \in Calls /\ i \in Nat /\ 1 <= i /\ i <= Len(rules) + 1
  BY DEF TypeOK
<1>2. CASE Pass
  BY <1>1, <1>2 DEF Pass, TypeOK, Deciders, DecidesAsDefined
<1>3. CASE PassGuarded
  BY <1>1, <1>3 DEF PassGuarded, TypeOK, Deciders, DecidesAsDefined
<1>4. CASE Decide
  <2>1. i \in Deciders(rules, c) /\ rules[i] \in Rule
    BY <1>1, <1>4 DEF Decide, Deciders
  <2>2. \A j \in Deciders(rules, c) : i <= j
    BY <1>1, DecidersAreRules
  <2>3. First(Deciders(rules, c)) = i
    BY <1>1, <2>1, <2>2, FirstIs, DecidersAreRules
  <2>4. Evaluate(rules, c) = rules[i].decision
    BY <2>1, <2>3 DEF Evaluate
  <2>5. /\ decision' = rules[i].decision /\ UNCHANGED <<rules, c, i, guard>>
        /\ needsToken' = (\/ rules[i].decision = "require_human"
                          \/ rules[i].decision = "auto_approve" /\ NeedsByDefault(c))
    BY <1>4 DEF Decide
  <2>6. DecidesAsDefined'
    <3>1. decision' = Evaluate(rules', c') /\ NeedsByDefault(c') = NeedsByDefault(c)
      BY <2>4, <2>5
    <3>2. needsToken' = NeedsToken(rules', c')
      BY <2>5, <3>1 DEF NeedsToken
    <3> QED BY <3>1, <3>2 DEF DecidesAsDefined
  <2>7. TypeOK'
    <3>1. decision' \in Outcomes
      BY <2>1, <2>5 DEF Outcomes, Rule
    <3>2. needsToken' \in BOOLEAN
      BY <2>5
    <3> QED BY <2>5, <3>1, <3>2 DEF TypeOK
  <2> QED BY <2>5, <2>6, <2>7 DEF Deciders
<1>5. CASE Default
  <2>1. Deciders(rules, c) = {}
    BY <1>1, <1>5, DecidersAreRules DEF Default
  <2>2. Evaluate(rules, c) = IF NeedsByDefault(c) THEN "require_human" ELSE "allow"
    BY <2>1 DEF Evaluate
  <2>3. /\ decision' = Evaluate(rules, c) /\ UNCHANGED <<rules, c, i, guard>>
        /\ needsToken' = NeedsByDefault(c)
    BY <1>5, <2>2 DEF Default
  <2>4. DecidesAsDefined'
    <3>1. /\ decision' = Evaluate(rules', c') /\ NeedsByDefault(c') = NeedsByDefault(c)
          /\ Evaluate(rules', c') = IF NeedsByDefault(c) THEN "require_human" ELSE "allow"
      BY <2>2, <2>3
    <3>2. needsToken' = NeedsToken(rules', c')
      <4>1. CASE NeedsByDefault(c) = TRUE
        BY <2>3, <3>1, <4>1 DEF NeedsToken
      <4>2. CASE NeedsByDefault(c) = FALSE
        BY <2>3, <3>1, <4>2 DEF NeedsToken
      <4>3. NeedsByDefault(c) \in BOOLEAN
        BY DEF NeedsByDefault
      <4> QED BY <4>1, <4>2, <4>3
    <3> QED BY <3>1, <3>2 DEF DecidesAsDefined
  <2>5. TypeOK'
    <3>1. decision' \in Outcomes
      BY <2>2, <2>3 DEF Outcomes, RuleDecision
    <3>2. needsToken' \in BOOLEAN
      BY <2>3 DEF NeedsByDefault
    <3> QED BY <2>3, <3>1, <3>2 DEF TypeOK
  <2> QED BY <2>3, <2>4, <2>5 DEF Deciders
<1>6. CASE UNCHANGED vars
  BY <1>6 DEF vars, TypeOK, DecidesAsDefined
<1> QED BY <1>2, <1>3, <1>4, <1>5, <1>6 DEF Next

(* The rule-by-rule loop decides what the definition of the first decider  *)
(* says, for every list of rules and call (ApprovalPolicy.evaluate).       *)
THEOREM LoopDecidesAsDefined == Spec => []DecidesAsDefined
<1>1. Init => LoopInv
  BY LoopInit
<1>2. LoopInv => DecidesAsDefined
  BY DEF LoopInv
<1> QED BY <1>1, <1>2, LoopStep, PTL DEF Spec

-----------------------------------------------------------------------------
(* Uncertainty *)

(* What decides the unclear call without a person decides, or is preceded  *)
(* by an auto_approve rule, for the clearer one.                           *)
LEMMA ClearerDecides ==
  ASSUME rules \in Seq(Rule), c \in Calls, NEW d \in ClearerThan(c), NEW k \in DOMAIN rules
  PROVE  /\ rules[k].decision # "auto_approve" /\ k \in Deciders(rules, d)
              => k \in Deciders(rules, c)
         /\ rules[k].decision = "auto_approve" /\ k \in Deciders(rules, c)
              => k \in Deciders(rules, d)
<1>1. /\ d \in Calls /\ Risk[d] = Risk[c] /\ (d \in rules[k].scope <=> c \in rules[k].scope)
      /\ \A a \in rules[k].args : /\ Outcome[a][c] \in {"unclear", Outcome[a][d]}
                                  /\ Outcome[a][d] # "unclear"
  BY DEF ClearerThan
<1>2. \A a \in rules[k].args : Outcome[a][c] \in ArgOutcome /\ Outcome[a][d] \in ArgOutcome
  <2>1. rules[k] \in Rule
    OBVIOUS
  <2>2. rules[k].args \subseteq Conditions
    BY <2>1 DEF Rule
  <2> QED BY <1>1, <2>2, PolicyAssumption
<1>3. Match(rules[k], d) \in {"yes", "no"}
  BY <1>1 DEF Match
<1>4. Match(rules[k], d) = "yes" => Match(rules[k], c) \in {"yes", "unclear"}
  BY <1>1 DEF Match
<1>5. Match(rules[k], c) = "yes" => Match(rules[k], d) = "yes"
  BY <1>1, <1>2 DEF Match, ArgOutcome
<1>6. CASE rules[k].decision # "auto_approve" /\ k \in Deciders(rules, d)
  <2>1. Match(rules[k], d) = "yes"
    BY <1>3, <1>6 DEF Deciders, Matched
  <2> QED BY <1>4, <1>6, <2>1 DEF Deciders, Matched, Guarded
<1>7. CASE rules[k].decision = "auto_approve" /\ k \in Deciders(rules, c)
  <2>1. Match(rules[k], c) = "yes"
    BY <1>7 DEF Deciders, Matched
  <2> QED BY <1>1, <1>5, <1>7, <2>1 DEF Deciders, Matched, Guarded
<1> QED BY <1>6, <1>7

LEMMA ClearerIsUnattended ==
  ASSUME rules \in Seq(Rule), c \in Calls, Evaluate(rules, c) \in {"allow", "auto_approve"},
         NEW d \in ClearerThan(c)
  PROVE  Evaluate(rules, d) \in {"allow", "auto_approve"}
<1>1. d \in Calls /\ NeedsByDefault(d) = NeedsByDefault(c)
  BY DEF ClearerThan, NeedsByDefault
<1>2. \A k \in Deciders(rules, d) \cup Deciders(rules, c) : k \in DOMAIN rules /\ k \in Nat
  BY <1>1, DecidersAreRules DEF Deciders
<1>3. CASE Deciders(rules, c) = {}
  <2>1. \A k \in Deciders(rules, d) : rules[k].decision = "auto_approve"
    BY <1>2, <1>3, ClearerDecides
  <2>2. Evaluate(rules, c) = "allow" /\ ~NeedsByDefault(c)
    BY <1>3 DEF Evaluate
  <2> QED BY <1>1, <2>1, <2>2, TheFirstDecides
<1>4. ASSUME NEW k \in Deciders(rules, c), Evaluate(rules, c) = rules[k].decision,
             \A j \in Deciders(rules, c) : k <= j
      PROVE  Evaluate(rules, d) \in {"allow", "auto_approve"}
  <2>1. rules[k] \in Rule /\ rules[k].decision = "auto_approve"
    BY <1>4, DecidersAreRules DEF Rule, RuleDecision
  <2>2. k \in Deciders(rules, d)
    BY <1>2, <2>1, ClearerDecides
  <2>3. PICK j \in Deciders(rules, d) : /\ Evaluate(rules, d) = rules[j].decision
                                        /\ \A m \in Deciders(rules, d) : j <= m
    BY <1>1, <2>2, TheFirstDecides
  <2>4. CASE rules[j].decision = "auto_approve"
    BY <2>3, <2>4
  <2>5. CASE rules[j].decision # "auto_approve"
    <3>1. j \in Deciders(rules, c)
      BY <1>2, <2>5, ClearerDecides
    <3>2. j <= k /\ k <= j /\ j \in Nat /\ k \in Nat
      BY <1>2, <1>4, <2>2, <2>3, <3>1
    <3> QED BY <2>1, <2>5, <3>2
  <2> QED BY <2>4, <2>5
<1> QED BY <1>3, <1>4, TheFirstDecides

(* For every policy, a value that cannot be compared never lets a call run *)
(* without the person its comparable twins would need; it may still turn a *)
(* deny into require_human.                                                *)
THEOREM UncertaintyKeepsThePerson == Spec => []UncertaintyNeverWaivesAPerson
<1>1. Init => LoopInv
  BY LoopInit
<1>2. LoopInv => UncertaintyNeverWaivesAPerson
  <2> SUFFICES ASSUME LoopInv, decision \in {"allow", "auto_approve"}, NEW d \in ClearerThan(c)
               PROVE  Evaluate(rules, d) \in {"allow", "auto_approve"}
    BY DEF UncertaintyNeverWaivesAPerson
  <2>1. rules \in Seq(Rule) /\ c \in Calls /\ decision = Evaluate(rules, c)
    BY DEF LoopInv, TypeOK, DecidesAsDefined
  <2> QED BY <2>1, ClearerIsUnattended
<1> QED BY <1>1, <1>2, LoopStep, PTL DEF Spec

-----------------------------------------------------------------------------
(* Classification *)

Level(tool) == Floored(Heuristic(tool.words, Config), tool.method)

(* A verb is never outweighed by a milder one.                             *)
LEMMA WorstVerbCounts ==
  ASSUME NEW tool
  PROVE  /\ Heuristic(tool.words, Config) \in RiskLevels
         /\ \A level \in RiskLevels :
              HasVerb(tool, level) => Rank[level] <= Rank[Heuristic(tool.words, Config)]
<1> DEFINE hits == {level \in DOMAIN Rank : HasVerb(tool, level)}
<1>1. DOMAIN Rank = RiskLevels /\ \A level \in RiskLevels : Rank[level] \in Nat
  BY DEF Rank, RiskLevels
<1>2. CASE hits = {}
  <2>1. Heuristic(tool.words, Config) = Config.unknown_default
    BY <1>2 DEF Heuristic, HasVerb
  <2> QED BY <1>1, <1>2, <2>1, CallsAreClassified
<1>3. CASE hits # {}
  <2>1. \E level \in hits : \A other \in hits : Rank[other] <= Rank[level]
    <3>1. hits \subseteq {"read", "write", "destructive"}
      BY <1>1 DEF RiskLevels
    <3>2. Rank["read"] = 0 /\ Rank["write"] = 1 /\ Rank["destructive"] = 2
      BY DEF Rank
    <3> HIDE DEF hits
    <3>3. CASE "destructive" \in hits
      BY <3>1, <3>2, <3>3
    <3>4. CASE "destructive" \notin hits /\ "write" \in hits
      BY <3>1, <3>2, <3>4
    <3>5. CASE "destructive" \notin hits /\ "write" \notin hits
      <4>1. "read" \in hits /\ \A other \in hits : other = "read"
        BY <1>3, <3>1, <3>5
      <4>2. \A other \in hits : Rank[other] <= Rank["read"]
        BY <3>2, <4>1
      <4> QED BY <4>1, <4>2
    <3> QED BY <3>3, <3>4, <3>5
  <2>2. Heuristic(tool.words, Config) =
          CHOOSE level \in hits : \A other \in hits : Rank[other] <= Rank[level]
    BY <1>3 DEF Heuristic, HasVerb
  <2>3. /\ Heuristic(tool.words, Config) \in hits
        /\ \A other \in hits : Rank[other] <= Rank[Heuristic(tool.words, Config)]
    <3> HIDE DEF hits
    <3> QED BY <2>1, <2>2
  <2> QED BY <1>1, <2>3
<1> QED BY <1>2, <1>3

(* What a route or a verb implies is a lower bound of the level.           *)
LEMMA LevelIsAFloor ==
  ASSUME NEW tool
  PROVE  /\ tool.method = "DELETE" \/ HasVerb(tool, "destructive") => Level(tool) = "destructive"
         /\ tool.method \in DOMAIN MethodFloor \/ HasVerb(tool, "write") =>
              Level(tool) \in {"write", "destructive"}
<1> DEFINE level == Heuristic(tool.words, Config)
<1>1. /\ level \in RiskLevels
      /\ HasVerb(tool, "destructive") => Rank["destructive"] <= Rank[level]
      /\ HasVerb(tool, "write") => Rank["write"] <= Rank[level]
  BY WorstVerbCounts DEF RiskLevels
<1>2. Rank["read"] = 0 /\ Rank["write"] = 1 /\ Rank["destructive"] = 2
  BY DEF Rank
<1>3. /\ DOMAIN MethodFloor = {"POST", "PUT", "PATCH", "DELETE"}
      /\ MethodFloor["DELETE"] = "destructive"
      /\ \A method \in {"POST", "PUT", "PATCH"} : MethodFloor[method] = "write"
  BY DEF MethodFloor
<1> HIDE DEF level
<1>4. HasVerb(tool, "destructive") => level = "destructive"
  BY <1>1, <1>2 DEF RiskLevels
<1>5. HasVerb(tool, "write") => level \in {"write", "destructive"}
  BY <1>1, <1>2 DEF RiskLevels
<1>6. Level(tool) = IF /\ tool.method \in DOMAIN MethodFloor
                       /\ Rank[MethodFloor[tool.method]] > Rank[level]
                    THEN MethodFloor[tool.method] ELSE level
  BY DEF Level, Floored, level
<1>7. CASE level = "destructive"
  BY <1>2, <1>3, <1>6, <1>7
<1>8. CASE level = "write"
  BY <1>2, <1>3, <1>4, <1>6, <1>8
<1>9. CASE level = "read"
  BY <1>2, <1>3, <1>4, <1>5, <1>6, <1>9
<1> QED BY <1>1, <1>7, <1>8, <1>9 DEF RiskLevels

(* For every policy file, tool configuration and rule list: a tool nobody  *)
(* classified runs without a person only if neither its route nor any of   *)
(* its words destroys, and without an approval only if none of them        *)
(* writes.                                                                 *)
THEOREM UnattendedCallsAreMild == Spec => []UnattendedIsMild
<1>1. Init => LoopInv
  BY LoopInit
<1>2. LoopInv => UnattendedIsMild
  <2> SUFFICES ASSUME LoopInv, Overriding(ToolOf[c], Config) = {},
                      decision \in {"allow", "auto_approve"}
               PROVE  /\ ToolOf[c].method # "DELETE" /\ ~HasVerb(ToolOf[c], "destructive")
                      /\ ~needsToken => /\ ToolOf[c].method \notin DOMAIN MethodFloor
                                        /\ ~HasVerb(ToolOf[c], "write")
    BY DEF UnattendedIsMild
  <2>1. /\ rules \in Seq(Rule) /\ c \in Calls
        /\ decision = Evaluate(rules, c) /\ needsToken = NeedsToken(rules, c)
    BY DEF LoopInv, TypeOK, DecidesAsDefined
  <2>2. Risk[c] = Level(ToolOf[c])
    BY <2>1, CallsAreClassified DEF Classify, Level
  <2>3. Risk[c] # "destructive"
    BY <2>1, DestructiveIsNeverAutoApproved
  <2>4. ~needsToken => ~NeedsByDefault(c)
    <3>1. Evaluate(rules, c) = "allow" => ~NeedsByDefault(c)
      <4>1. \A k \in Deciders(rules, c) : rules[k].decision # "allow"
        BY <2>1, DecidersAreRules DEF Rule, RuleDecision
      <4>2. Evaluate(rules, c) = "allow" =>
              Evaluate(rules, c) = IF NeedsByDefault(c) THEN "require_human" ELSE "allow"
        BY <2>1, <4>1, TheFirstDecides
      <4>3. CASE NeedsByDefault(c)
        BY <4>2, <4>3
      <4> QED BY <4>3
    <3>2. ~needsToken => ~NeedsToken(rules, c)
      BY <2>1, Zenon
    <3> QED BY <2>1, <3>1, <3>2 DEF NeedsToken
  <2>5. ~needsToken => Risk[c] \notin {"write", "destructive"}
    BY <2>4 DEF NeedsByDefault
  <2> QED BY <2>2, <2>3, <2>5, LevelIsAFloor
<1> QED BY <1>1, <1>2, LoopStep, PTL DEF Spec
=============================================================================
