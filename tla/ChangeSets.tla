----------------------------- MODULE ChangeSets -----------------------------
(***************************************************************************)
(* Row-level database changes and their structural comparison              *)
(* (envs/changes.py, ADR-026).  A table is a function from keys to rows, a *)
(* database a function from tables; `schema' gives the volatile columns of *)
(* a table and whether its keys are generated by the server.               *)
(***************************************************************************)
EXTENDS Naturals, FiniteSets

CONSTANTS
  Tables, Keys, Columns, Values,
  MaxRows    \* rows shown per table and kind

ASSUME ChangeSetsAssumption == Keys \subseteq Nat /\ MaxRows \in Nat

Rows == UNION {[K -> [Columns -> Values]] : K \in SUBSET Keys}
Databases == UNION {[T -> Rows] : T \in SUBSET Tables}
Schemas == [Tables -> [volatile : SUBSET Columns, generated : BOOLEAN]]

-----------------------------------------------------------------------------
(* snapshot.diff *)

Added(old, new)   == DOMAIN new \ DOMAIN old
Removed(old, new) == DOMAIN old \ DOMAIN new
Kept(old, new)    == DOMAIN old \cap DOMAIN new
DiffTables(before, after) ==
  {t \in Kept(before, after) : \/ Added(before[t], after[t]) # {}
                               \/ Removed(before[t], after[t]) # {}
                               \/ \E k \in Kept(before[t], after[t]) :
                                    before[t][k] # after[t][k]}
IsChanged(before, after) ==
  DOMAIN before # DOMAIN after \/ DiffTables(before, after) # {}

-----------------------------------------------------------------------------
(* changes.changes *)

ChangedColumns(old, new) ==
  [k \in {k \in Kept(old, new) : old[k] # new[k]} |->
     {c \in Columns : old[k][c] # new[k][c]}]

(* The first MaxRows rows of a table among the keys K.                     *)
Shown(rows, K) ==
  [k \in {k \in K : Cardinality({j \in K : j < k}) < MaxRows} |-> rows[k]]

TableChanges(old, new) ==
  [added   |-> Shown(new, Added(old, new)),
   removed |-> Shown(old, Removed(old, new)),
   changed |-> Shown(new, DOMAIN ChangedColumns(old, new)),
   shape   |-> [added   |-> Added(old, new),
                removed |-> Removed(old, new),
                changed |-> ChangedColumns(old, new)]]

NoShape == [added |-> {}, removed |-> {}, changed |-> << >>]

Changes(before, after) ==
  LET kept == Kept(before, after)
      all  == [t \in kept |-> TableChanges(before[t], after[t])]
  IN  [tables_added   |-> Added(before, after),
       tables_removed |-> Removed(before, after),
       tables |-> [t \in {t \in kept : \/ all[t].shape.added # {}
                                       \/ all[t].shape.removed # {}
                                       \/ DOMAIN all[t].shape.changed # {}} |-> all[t]]]

-----------------------------------------------------------------------------
(* changes.compare *)

(* Mutant: a row of which only volatile columns changed is compared. *)
ProjectAllRows(kind, shape) ==
  [added   |-> IF kind.generated THEN {Cardinality(shape.added)} \ {0} ELSE shape.added,
   removed |-> shape.removed,
   changed |-> [k \in DOMAIN shape.changed |-> shape.changed[k] \ kind.volatile]]

(* _project: added rows of a table with generated keys are only counted,   *)
(* and volatile columns are left out.                                      *)
Project(kind, shape) ==
  LET columns == [k \in DOMAIN shape.changed |-> shape.changed[k] \ kind.volatile] IN
  [added   |-> IF kind.generated THEN {Cardinality(shape.added)} \ {0} ELSE shape.added,
   removed |-> shape.removed,
   changed |-> [k \in {k \in DOMAIN columns : columns[k] # {}} |-> columns[k]]]

ShapeOf(changes, t) == IF t \in DOMAIN changes.tables THEN changes.tables[t].shape ELSE NoShape

(* compare: the tables and the parts that differ.                          *)
Differences(schema, preview, actual) ==
  LET P(t) == Project(schema[t], ShapeOf(preview, t))
      A(t) == Project(schema[t], ShapeOf(actual, t))
  IN  {<<kind>> : kind \in {k \in {"tables_added", "tables_removed"} : preview[k] # actual[k]}}
        \cup {x \in (DOMAIN preview.tables \cup DOMAIN actual.tables)
                      \X {"added", "removed", "changed"} : P(x[1])[x[2]] # A(x[1])[x[2]]}
Matches(schema, preview, actual) == Differences(schema, preview, actual) = {}

-----------------------------------------------------------------------------
(* Laws *)

(* When every row is shown, the changes say all: applied to the database   *)
(* before, they give the one after; and when rows are left out, the shape  *)
(* still lists every one of them.                                          *)
Rebuilt(old, c) ==
  [k \in (DOMAIN old \ c.shape.removed) \cup DOMAIN c.added |->
     IF k \in DOMAIN c.added THEN c.added[k]
     ELSE IF k \in DOMAIN c.changed THEN c.changed[k] ELSE old[k]]
ChangesRebuild ==
  \A old, new \in Rows :
    LET c == TableChanges(old, new) IN
    /\ c.shape.added = Added(old, new)
    /\ c.shape.added = DOMAIN c.added /\ DOMAIN c.shape.changed = DOMAIN c.changed
         => Rebuilt(old, c) = new

(* Every change snapshot.diff sees is listed, and nothing else.            *)
ChangesAgreeWithDiff ==
  \A before, after \in Databases :
    LET c == Changes(before, after) IN
    /\ DOMAIN c.tables = DiffTables(before, after)
    /\ IsChanged(before, after)
         <=> c.tables_added \cup c.tables_removed \cup DOMAIN c.tables # {}

(* A call that repeats its preview on the same database matches, though    *)
(* clocks and generated keys differ: neither volatile columns nor the      *)
(* names of generated keys make a difference.  A match means that the same *)
(* rows went, that as many came and, unless the keys are generated, the    *)
(* same ones, and that the same other columns changed.                     *)
Repeats(kind, old, x, y) ==
  /\ Removed(old, x) = Removed(old, y)
  /\ IF kind.generated THEN Cardinality(Added(old, x)) = Cardinality(Added(old, y))
                       ELSE Added(old, x) = Added(old, y)
  /\ \A k \in Kept(old, x), c \in Columns \ kind.volatile :
       (x[k][c] = old[k][c]) <=> (y[k][c] = old[k][c])
SoundCompare ==
  \A t \in Tables, schema \in Schemas, old, x, y \in Rows :
    LET Preview(rows) == Changes([s \in {t} |-> old], [s \in {t} |-> rows])
    IN  Matches(schema, Preview(x), Preview(y)) <=> Repeats(schema[t], old, x, y)

(* The laws of the changes an approver is shown and of their comparison.   *)
ChangeLaws == ChangesRebuild /\ ChangesAgreeWithDiff /\ SoundCompare
=============================================================================
