----------------------------- MODULE SynthPlan -----------------------------
(* synth/runner.py: the plan of a synthesis run, the files its steps read  *)
(* and write, and how a run directory is prepared.  Pure.  A directory     *)
(* maps file names to contents.                                            *)
EXTENDS Naturals, Sequences, SequencesExt, FiniteSets, TLC

StepPlan(name, reads, output) == [name |-> name, reads |-> reads, output |-> output]

VerifierOut(mode) == IF mode = "sql" THEN "gen_verifier" ELSE "gen_verifier.pure_code"

(* Mutant: the samples are made before the databases they are put in. *)
SamplesFirst(mode, skipScenario) ==
  SelectSeq(<<StepPlan("scenario", {"seed_scenario"}, "gen_scenario"),
              StepPlan("task", {"gen_scenario"}, "gen_tasks"),
              StepPlan("sample", {"gen_tasks", "gen_db"}, "gen_sample"),
              StepPlan("db", {"gen_tasks"}, "gen_db"),
              StepPlan("spec", {"gen_tasks", "gen_db"}, "gen_spec"),
              StepPlan("env", {"gen_spec", "gen_db"}, "gen_envs"),
              StepPlan("verifier", {"gen_tasks"}, VerifierOut(mode))>>,
            LAMBDA s : ~(skipScenario /\ s.name = "scenario"))

PlanSteps(mode, skipScenario) ==
  SelectSeq(<<StepPlan("scenario", {"seed_scenario"}, "gen_scenario"),
              StepPlan("task", {"gen_scenario"}, "gen_tasks"),
              StepPlan("db", {"gen_tasks"}, "gen_db"),
              StepPlan("sample", {"gen_tasks", "gen_db"}, "gen_sample"),
              StepPlan("spec", {"gen_tasks", "gen_db"}, "gen_spec"),
              StepPlan("env", {"gen_spec", "gen_db"}, "gen_envs"),
              StepPlan("verifier", {"gen_tasks"}, VerifierOut(mode))>>,
            LAMBDA s : ~(skipScenario /\ s.name = "scenario"))

(* What reset_db and check_all are given.                                  *)
ValidationReads == {"gen_db", "gen_sample", "gen_envs"}

(* load_scenario_file: the file is used or the command refused.  A row is  *)
(* wellformed or not; its name has the form local_*, may end in _<number>, *)
(* and may be one of the official names, when these are known.             *)
Loads(rows, officialKnown) ==
  /\ rows # <<>>
  /\ \A i \in DOMAIN rows :
       /\ rows[i].wellformed /\ rows[i].local /\ ~rows[i].number
       /\ officialKnown => ~rows[i].official

(* _prepare: the directory with the seeds or with the scenario file, or    *)
(* none when it holds other scenarios already.                             *)
Refused == [refused |-> TRUE]
Prepare(dir, scenarioFile, seed) ==
  IF scenarioFile = "none" THEN dir @@ ("seed_scenario" :> seed)
  ELSE IF "gen_scenario" \in DOMAIN dir /\ dir.gen_scenario # scenarioFile THEN Refused
  ELSE dir @@ ("gen_scenario" :> scenarioFile)

(* _set_aside: the step begins without its output.                         *)
SetAside(dir, step) == [f \in DOMAIN dir \ {step.output} |-> dir[f]]

(* A step makes its output from what it reads.                             *)
RunStep(dir, step) == (step.output :> <<step.name, [f \in step.reads |-> dir[f]]>>) @@ dir

(* The directory after the steps of the plan from k on ran.                *)
RunFrom(dir, plan, k) ==
  FoldLeft(LAMBDA d, step : RunStep(SetAside(d, step), step),
           dir, SubSeq(plan, k, Len(plan)))

-----------------------------------------------------------------------------
(* Properties *)

(* Every step finds what it reads, prepared or written by an earlier step, *)
(* and so does the validation; and redoing all steps from one on leaves    *)
(* what a run from the start would have left, which is why execute redoes  *)
(* every later step and no earlier one.                                    *)
PlanIsSound(mode, scenarioFile) ==
  LET plan == PlanSteps(mode, scenarioFile # "none")
      dir  == Prepare(<<>>, scenarioFile, "seed")
      done == RunFrom(dir, plan, 1)
  IN /\ \A k \in DOMAIN plan :
          plan[k].reads \subseteq DOMAIN dir \cup {plan[j].output : j \in 1 .. k - 1}
     /\ ValidationReads \subseteq DOMAIN done
     /\ \A k \in DOMAIN plan : RunFrom(done, plan, k) = done

(* A hand-written scenario never takes an official name, all of which end  *)
(* in a number, whether or not the official list is at hand; and a run     *)
(* directory keeps the scenarios it was first given.                       *)
ScenariosAreOwn(rows, officialKnown) ==
  (\A i \in DOMAIN rows : rows[i].official => rows[i].number) /\ Loads(rows, officialKnown) =>
    \A i \in DOMAIN rows : ~rows[i].official

DirectoryKeepsScenarios(dir, scenarioFile) ==
  LET new == Prepare(dir, scenarioFile, "seed")
  IN new # Refused => \A f \in DOMAIN dir : new[f] = dir[f]
=============================================================================
