------------------------------ MODULE SftData ------------------------------
(* lab/sft_data.py: training samples from the episodes of runs.  Pure.     *)
(* A message is a pair <<body, form>>: form is what _norm ignores (white   *)
(* space, arguments as JSON text or as an object, call ids).  A call is a  *)
(* request with its reply.                                                 *)
EXTENDS Naturals, Sequences, SequencesExt, FiniteSets, FiniteSetsExt, Folds

Norm(conversation) == [i \in DOMAIN conversation |-> conversation[i][1]]

(* Mutant: a call that merely repeats this one drops it, and is dropped by *)
(* it. *)
CoveredByAny(keys, i) == \E j \in DOMAIN keys : j # i /\ IsPrefix(keys[i], keys[j])

(* A later call holds this one's conversation and more.                    *)
Covered(keys, i) ==
  \E j \in i + 1 .. Len(keys) : Len(keys[j]) > Len(keys[i]) /\ IsPrefix(keys[i], keys[j])

(* The calls of a recording as whole conversations.                        *)
Conversations(calls) ==
  LET whole == [i \in DOMAIN calls |-> Append(calls[i].messages, calls[i].reply)]
      keys  == [i \in DOMAIN calls |-> Norm(whole[i])]
  IN [i \in {k \in DOMAIN calls : ~Covered(keys, k)} |-> whole[i]]

-----------------------------------------------------------------------------
(* build: which episodes are used.  A row is a line of results.jsonl, with *)
(* recorded saying whether its file under calls/ exists.                   *)
NoStats == [episodes |-> 0, unfit |-> 0, missing |-> 0, trivial |-> 0, capped |-> 0]
Counted(stats, what) == [stats EXCEPT !.episodes = @ + 1, ![what] = @ + 1]

(* The body of the loop, on what it has so far; the options are            *)
(* include_failed, max_per_task and exclude_tasks.                         *)
Consider(row, sofar, opts) ==
  LET per == Len(SelectSeq(sofar.chosen, LAMBDA r : r.task = row.task))
      drop(what) == [sofar EXCEPT !.stats = Counted(@, what)]
  IN IF row.status # "ok" \/ ~(row.success \/ opts.failed) THEN drop("unfit")
     ELSE IF ~row.recorded THEN drop("missing")
     ELSE IF row.task \in opts.exclude THEN drop("trivial")
     ELSE IF per >= opts.cap THEN drop("capped")
     ELSE [chosen |-> Append(sofar.chosen, row),
           stats  |-> [sofar.stats EXCEPT !.episodes = @ + 1]]

(* rows: the lines of all run directories, in the order given.             *)
Choose(rows, opts) ==
  FoldLeft(LAMBDA sofar, row : Consider(row, sofar, opts),
           [chosen |-> <<>>, stats |-> NoStats], rows)

(* max_episodes keeps that many, wherever the seed finds them, in order.   *)
Subsamples(chosen, max) ==
  IF Len(chosen) <= max THEN {chosen} ELSE {s \in AllSubSeqs(chosen) : Len(s) = max}

-----------------------------------------------------------------------------
(* Properties *)

(* "a call whose conversation is a prefix of a later call is dropped and   *)
(* only the longest one is kept": nothing a model said is lost, however    *)
(* the calls of plan, act and verify alternate, and no sample says only    *)
(* what a later one repeats.                                               *)
SamplesAreMaximal(calls) ==
  LET samples == Conversations(calls)
      said(i) == Norm(Append(calls[i].messages, calls[i].reply))
      kept(i) == Norm(samples[i])
  IN /\ \A i \in DOMAIN calls : \E j \in DOMAIN samples : j >= i /\ IsPrefix(said(i), kept(j))
     /\ \A i, j \in DOMAIN samples : i < j => ~IsStrictPrefix(kept(i), kept(j))

(* "Only verified successes are used unless include_failed", at most       *)
(* max_per_task of a task over all runs, none of a task whose verifier     *)
(* also passes when nothing is done; every row is accounted for, and none  *)
(* is refused for a cap that rows without a sample have filled.            *)
ChosenAreFit(rows, opts, max) ==
  LET out  == Choose(rows, opts)
      of(t, seq) == SelectSeq(seq, LAMBDA r : r.task = t)
      fit  == SelectSeq(rows, LAMBDA r : /\ r.status = "ok" /\ (r.success \/ opts.failed)
                                         /\ r.recorded /\ r.task \notin opts.exclude)
  IN /\ \A t \in {rows[i].task : i \in DOMAIN rows} :
          Len(of(t, out.chosen)) = Min({opts.cap, Len(of(t, fit))})
     /\ \A i \in DOMAIN out.chosen : out.chosen[i] \in ToSet(fit)
     /\ Len(rows) = out.stats.unfit + out.stats.missing + out.stats.trivial
                      + out.stats.capped + Len(out.chosen)
     /\ \A s \in Subsamples(out.chosen, max) : Len(s) = Min({max, Len(out.chosen)})
=============================================================================
