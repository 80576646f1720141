----------------------------- MODULE MCPreviews -----------------------------
(* Two environments and two previews; nobody stops an environment, but its *)
(* start may fail, which frees its port.                                   *)
EXTENDS Previews, ChangeSets, SessionFiles, TLC

CONSTANTS e1, e2, v1, v2

Distinct == [h \in Handles |-> h]
NoJobs   == [s \in Stoppers |-> {}]
Symmetry == Permutations(Shadows)

(* Two names for one file, and the name of the first database.             *)
SomeNames == {[full |-> f, safe |-> IF f = "a/" THEN "a" ELSE f] : f \in {"a", "a/", "initial"}}
SomeOps ==
  [do : {"write"}, value : {1, 2}] \cup [do : {"snapshot", "restore"}, name : SomeNames] \cup
  [do : {"checkpoint", "changes"}, value : {1, 2}]
FileLaws == \A n \in 0 .. 4 : \A ops \in [1 .. n -> SomeOps] : FilesAreTold(0, ops)

(* Whatever the tool did to the copy, the changes a preview lists are      *)
(* exact, and their comparison with those of the real call is sound; and   *)
(* the files that are compared are those that were saved (SessionFiles).   *)
ListedChangesAreSound == [][\A v \in Shadows : Diff(v) => ChangeLaws /\ FileLaws]_ppc
=============================================================================
