---------------------------- MODULE SessionFiles ----------------------------
(* The databases in a session's directory: EnvManager.snapshot, restore,   *)
(* checkpoint and changes_since over envs/snapshot.py.  Pure.  A database  *)
(* is a value; a name is stored under what _safe leaves of it.             *)
EXTENDS Naturals, Sequences, SequencesExt, FiniteSets, TLC

NewSession(db) == [initial |-> db, work |-> db, snapshots |-> <<>>, checkpoints |-> <<>>]

(* snapshot overwrites an earlier one of that name.                        *)
Snapshot(session, name) ==
  [session EXCEPT !.snapshots = (name.safe :> session.work) @@ @]

(* The file that restore and diff read, {} when there is none: they raise. *)
Base(session, name) ==
  IF name.full = "initial" THEN {session.initial}
  ELSE {session.snapshots[n] : n \in {name.safe} \cap DOMAIN session.snapshots}

Restore(session, name) ==
  [session EXCEPT !.work = CHOOSE db \in IF Base(session, name) = {} THEN {@} ELSE Base(session, name) : TRUE]

TakeCheckpoint(session, id) == [session EXCEPT !.checkpoints = (id :> session.work) @@ @]

(* Mutant: the checkpoint stays for another call to find. *)
ChangesSinceKeeps(session, id) == session

(* changes_since compares the work database with a checkpoint and deletes  *)
(* it, whatever happened.                                                  *)
ChangesSince(session, id) ==
  [session EXCEPT !.checkpoints = [i \in DOMAIN @ \ {id} |-> @[i]]]
ComparedBy(session, id) ==
  {<<session.checkpoints[i], session.work>> : i \in {id} \cap DOMAIN session.checkpoints}

(* An operation is [do, name] or [do, value].                              *)

Perform(session, op) ==
  CASE op.do = "write"      -> [session EXCEPT !.work = op.value]
    [] op.do = "snapshot"   -> Snapshot(session, op.name)
    [] op.do = "restore"    -> Restore(session, op.name)
    [] op.do = "checkpoint" -> TakeCheckpoint(session, op.value)
    [] op.do = "changes"    -> ChangesSince(session, op.value)

-----------------------------------------------------------------------------
(* Properties *)

StateAfter(db, ops, k) == FoldLeft(Perform, NewSession(db), SubSeq(ops, 1, k))
Latest(set) == CHOOSE k \in set : \A j \in set : j <= k

(* Whatever else is called in between, a restore brings back the database  *)
(* of the latest snapshot stored under the name, the initial one for       *)
(* "initial"; and changes_since compares with the database its own         *)
(* checkpoint saw, once: calls that are measured at the same time do not   *)
(* take each other's checkpoints.                                          *)
FilesAreTold(db, ops) ==
  \A k \in DOMAIN ops :
    LET op == ops[k] before == StateAfter(db, ops, k - 1)
        taken(do, P(_)) == {j \in 1 .. k - 1 : ops[j].do = do /\ P(ops[j])}
        saved == taken("snapshot", LAMBDA o : o.name.safe = op.name.safe)
        asked == taken("checkpoint", LAMBDA o : o.value = op.value)
        used  == taken("changes", LAMBDA o : o.value = op.value)
    IN /\ op.do = "restore" =>
            StateAfter(db, ops, k).work =
              IF op.name.full = "initial" THEN db
              ELSE IF saved = {} THEN before.work
              ELSE StateAfter(db, ops, Latest(saved)).work
       /\ op.do = "changes" =>
            ComparedBy(before, op.value) =
              IF asked = {} \/ \E j \in used : j > Latest(asked) THEN {}
              ELSE {<<StateAfter(db, ops, Latest(asked)).work, before.work>>}
=============================================================================
