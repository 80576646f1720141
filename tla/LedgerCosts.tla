---------------------------- MODULE LedgerCosts ----------------------------
(* synth/ledger.py: what a ledger of a synthesis run adds up to.  Pure.    *)
(* An entry is [step, model, tokens, how, key]: how it ended is billed,    *)
(* cached, refused or failed, and key names its request ("": none).  Costs *)
(* are whole numbers per token; a model without a price is not in prices.  *)
EXTENDS Naturals, Sequences, SequencesExt, FiniteSets, FiniteSetsExt, Functions

(* Mutant: hits of the cache are charged again. *)
ChargedWithHits(entries) == {i \in DOMAIN entries : entries[i].how \in {"billed", "cached"}}

Charged(entries) == {i \in DOMAIN entries : entries[i].how = "billed"}

Unpriced(entries, prices) == {entries[i].model : i \in Charged(entries)} \ DOMAIN prices

CostOf(entries, prices, set) ==
  FoldFunctionOnSet(LAMBDA x, y : x + y, 0,
    [i \in DOMAIN entries |-> IF entries[i].model \in DOMAIN prices
                              THEN entries[i].tokens * prices[entries[i].model] ELSE 0],
    set)

(* Ledger.spent.                                                           *)
SpentOf(entries, prices) == CostOf(entries, prices, Charged(entries))

(* Ledger.summary of one step.                                             *)
StepSummary(entries, prices, step) ==
  LET mine(how) == {i \in DOMAIN entries : entries[i].step = step /\ entries[i].how = how}
      paid == {i \in DOMAIN entries : entries[i].step = step /\ entries[i].how = "billed"}
  IN [calls   |-> Cardinality(mine("billed") \cup mine("cached")),
      cached  |-> Cardinality(mine("cached")),
      refused |-> Cardinality(mine("refused")),
      failed  |-> Cardinality(mine("failed")),
      cost    |-> CostOf(entries, prices, paid)]

(* step_requests: the last entry of each request, those without a key each *)
(* on their own.                                                           *)
LastEntries(entries) ==
  {i \in DOMAIN entries : entries[i].key = "" \/ \A j \in i + 1 .. Len(entries) : entries[j].key # entries[i].key}
LostIn(entries, how) == Cardinality({i \in LastEntries(entries) : entries[i].how = how})

-----------------------------------------------------------------------------
(* Properties *)

(* The budget sees what the summary of the steps shows; it never falls,    *)
(* neither hits of the cache nor refused or failed attempts move it, and a *)
(* billed request moves it unless its model is reported without a price.   *)
(* A request that failed and then succeeded is not lost, and no request is *)
(* counted twice ("the last attempt decides").                             *)
LedgerAddsUp(entries, prices) ==
  LET steps == {entries[i].step : i \in DOMAIN entries}
      sum(f(_)) == FoldFunctionOnSet(LAMBDA x, y : x + y, 0, [s \in steps |-> f(s)], steps)
      keys(how) == {entries[i].key : i \in {j \in DOMAIN entries : entries[j].how = how}}
  IN /\ SpentOf(entries, prices) = sum(LAMBDA s : StepSummary(entries, prices, s).cost)
     /\ Len(entries) = sum(LAMBDA s : LET r == StepSummary(entries, prices, s)
                                      IN r.calls + r.refused + r.failed)
     /\ entries # <<>> =>
          LET x == Last(entries)
              grown == SpentOf(entries, prices) - SpentOf(Front(entries), prices)
          IN /\ grown >= 0
             /\ grown > 0 => x.how = "billed"
             /\ x.how = "billed" =>
                  grown > 0 \/ x.model \in Unpriced(entries, prices) \/ prices[x.model] * x.tokens = 0
     /\ "" \notin keys("failed") \cup keys("refused") =>
          LostIn(entries, "failed") + LostIn(entries, "refused") <=
            Cardinality(keys("failed") \cup keys("refused"))
=============================================================================
