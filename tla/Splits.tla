------------------------------- MODULE Splits -------------------------------
(* lab/splits.py: which tasks of the dataset train, validate and test.     *)
(* Pure.  A seed only picks the orders that rng.shuffle produces, so those *)
(* are parameters: order of the scenarios, mixed of their tasks.           *)
EXTENDS Naturals, Sequences, SequencesExt, FiniteSets, FiniteSetsExt

CONSTANT TasksOf      \* scenario -> number of its tasks (gen_tasks.jsonl)

ScenarioNames == DOMAIN TasksOf
SplitTasks    == UNION {{<<s, i>> : i \in 1 .. TasksOf[s]} : s \in ScenarioNames}

(* Scenarios with at least one task that has a code verifier.              *)
Eligible(verifiers) == {t[1] : t \in verifiers \cap SplitTasks}

(* Python's seq[start : start + n], cut off at the end of the sequence.    *)
Slice(seq, start, n) == SubSeq(seq, start + 1, Min({start + n, Len(seq)}))

(* Mutant: val is taken from the head of the list, like test. *)
GroupFromHead(order, counts, split) ==
  ToSet(CASE split = "test"  -> Slice(order, 0, counts.test)
          [] split = "val"   -> Slice(order, 0, counts.val)
          [] split = "train" -> Slice(order, counts.test + counts.val, Len(order)))

(* The scenarios of a split: test, then val, then all that are left.       *)
Group(order, counts, split) ==
  ToSet(CASE split = "test"  -> Slice(order, 0, counts.test)
          [] split = "val"   -> Slice(order, counts.test, counts.val)
          [] split = "train" -> Slice(order, counts.test + counts.val, Len(order)))

(* The verifiable tasks of these scenarios in the order of the shuffle.    *)
Pool(scenarios, verifiers, mixed) ==
  SelectSeq(mixed, LAMBDA t : t[1] \in scenarios /\ t \in verifiers)

(* sizes are the task_counts; one at least as large as the pool takes all  *)
(* of it, like a missing entry.                                            *)
MakeSplit(order, verifiers, mixed, counts, sizes, risky) ==
  LET pool == [s \in {"train", "val", "test"} |->
                 Pool(Group(order, counts, s), verifiers, mixed)]
  IN [train       |-> Slice(pool.train, 0, sizes.train),
      val         |-> Slice(pool.val, 0, sizes.val),
      test        |-> Slice(pool.test, 0, sizes.test),
      train_extra |-> Slice(pool.train, sizes.train, sizes.train_extra),
      inject      |-> Slice(Pool(Group(order, counts, "test") \cap risky, verifiers, mixed),
                            0, sizes.inject)]

(* splits.json and verifiers.code.jsonl: every listed task finds its       *)
(* verifier entry again.                                                   *)
VerifiersCopied(split) == UNION {ToSet(split[k]) : k \in DOMAIN split}

-----------------------------------------------------------------------------
(* Properties *)

TouchedScenarios(tasks) == {t[1] : t \in ToSet(tasks)}

(* Every eligible scenario can be used by exactly one split, whatever the  *)
(* counts ask for.                                                         *)
GroupsAreSound(order, counts, verifiers) ==
  LET groups == [s \in {"train", "val", "test"} |-> Group(order, counts, s)]
  IN /\ \A a, b \in DOMAIN groups : a # b => groups[a] \cap groups[b] = {}
     /\ UNION {groups[s] : s \in DOMAIN groups} = Eligible(verifiers)

(* "test and validation tasks come from scenarios that no training         *)
(* trajectory ever touched", whatever the counts ask for; the reserve      *)
(* train_extra adds unused tasks of training scenarios only, injections    *)
(* test scenarios only; every task can be verified, and no list repeats    *)
(* one.                                                                    *)
SplitIsSound(order, verifiers, mixed, counts, sizes, risky) ==
  LET out  == MakeSplit(order, verifiers, mixed, counts, sizes, risky)
      scen == [k \in DOMAIN out |-> TouchedScenarios(out[k])]
  IN /\ GroupsAreSound(order, counts, verifiers)
     /\ \A a, b \in {"train", "val", "test"} : a # b => scen[a] \cap scen[b] = {}
     /\ scen.train_extra \cap (scen.val \cup scen.test \cup scen.inject) = {}
     /\ ToSet(out.train) \cap ToSet(out.train_extra) = {}
     /\ scen.inject \subseteq risky \cap Group(order, counts, "test")
     /\ \A k \in DOMAIN out : ToSet(out[k]) \subseteq verifiers /\ IsInjective(out[k])
=============================================================================
