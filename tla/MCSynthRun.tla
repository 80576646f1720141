----------------------------- MODULE MCSynthRun -----------------------------
(* The first step sends q1, the second q2.                                 *)
EXTENDS SynthRun, SynthPlan, LedgerCosts

CONSTANTS q1, q2

OwnKey   == [q \in Reqs |-> q]
OneEach  == [q \in Reqs |-> IF q = q2 THEN 2 ELSE 1]

SomeDirs == {<<>>} \cup {[f \in set |-> "old"] : set \in SUBSET {"gen_scenario", "gen_tasks"}}
PlanLaws ==
  /\ \A mode \in {"sql", "code"}, file \in {"none", "mine"} : PlanIsSound(mode, file)
  /\ \A rows \in {<<>>} \cup {<<r>> : r \in [wellformed : BOOLEAN, local : BOOLEAN,
                                             number : BOOLEAN, official : BOOLEAN]},
        known \in BOOLEAN : ScenariosAreOwn(rows, known)
  /\ \A dir \in SomeDirs :
       \A file \in {"none", "old", "mine"} : DirectoryKeepsScenarios(dir, file)

SomePrices == {"dear" :> 2, "dear" :> 2 @@ "cheap" :> 0}
SomeEntry(s, k) == [step : {s}, model : {"dear", "cheap"}, tokens : {1},
                    how : {"billed", "cached", "refused", "failed"}, key : k]
LedgerLaws ==
  \A a, b \in SomeEntry(1, {"", "k"}), c \in SomeEntry(2, {"k"}) :
    \A prices \in SomePrices, entries \in {<<a>>, <<a, c>>, <<b, a>>, <<a, b, c>>} :
      LedgerAddsUp(entries, prices)

(* The steps numbered here are a plan: each reads only what earlier steps  *)
(* write, so that redoing the later ones is enough (SynthPlan states it);  *)
(* and the ledger adds up, step by step and in all (LedgerCosts does).     *)
PlanAndLedgerAreSound == [][runner' = "deciding" => PlanLaws /\ LedgerLaws]_runner
=============================================================================
