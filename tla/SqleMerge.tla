------------------------------ MODULE SqleMerge ------------------------------
(***************************************************************************)
(* What sqle makes of an ALTER TABLE: mergeAlterToTable applies the parts  *)
(* of the statement, kind by kind, to its copy of the table's definition.  *)
(*                                                                         *)
(* A table is [cols, cons]: cols a sequence of [name, def, pk] (default,   *)
(* PRIMARY KEY option), cons a sequence of [tp, name].  A part is [tp,     *)
(* old, new, at]; new is a column or a constraint, at the place asked for  *)
(* (FIRST, AFTER), which the code does not read.  The new and the old      *)
(* definition share the array of columns: rest is what the array holds     *)
(* behind the new columns, seen again when the old definition is returned. *)
(***************************************************************************)
EXTENDS Integers, Sequences, FiniteSets, SequencesExt

Parts(alter, tp) == SelectSeq(alter, LAMBDA p : p.tp = tp)
Place(cols, name) == SelectInSeq(cols, LAMBDA c : c.name = name)

NewMerge(table) == [cols |-> table.cols, rest |-> << >>, cons |-> table.cons, ok |-> TRUE]
Fail(m) == [m EXCEPT !.ok = FALSE]

HasPrimaryKey(m) ==
  (\E i \in DOMAIN m.cons : m.cons[i].tp = "primary") \/ \E i \in DOMAIN m.cols : m.cols[i].pk

DropColumn(m, p) ==
  LET i == Place(m.cols, p.old)
  IN  IF i = 0 THEN Fail(m)
      ELSE [m EXCEPT !.cols = RemoveAt(@, i), !.rest = <<Last(m.cols)>> \o @]

\* Every column of that name is replaced
ChangeColumn(m, p) ==
  IF Place(m.cols, p.old) = 0 THEN Fail(m)
  ELSE [m EXCEPT !.cols = [i \in DOMAIN @ |-> IF @[i].name = p.old THEN p.new ELSE @[i]]]
\* Variant: MODIFY looks for the old name, which only CHANGE has
ModifyColumnOld(m, p) == ChangeColumn(m, p)
ModifyColumn(m, p) == ChangeColumn(m, [p EXCEPT !.old = p.new.name])

\* ALTER COLUMN: SET DEFAULT or DROP DEFAULT ("")
AlterColumn(m, p) ==
  IF Place(m.cols, p.new.name) = 0 THEN Fail(m)
  ELSE [m EXCEPT !.cols = [i \in DOMAIN @ |->
          IF @[i].name = p.new.name THEN [@[i] EXCEPT !.def = p.new.def] ELSE @[i]]]

AddColumn(m, p) ==
  IF Place(m.cols, p.new.name) # 0 THEN Fail(m)
  ELSE [m EXCEPT !.cols = Append(@, p.new), !.rest = IF @ = << >> THEN @ ELSE Tail(@)]

DropPrimaryKey(m, p) ==
  IF ~HasPrimaryKey(m) THEN Fail(m)
  ELSE [m EXCEPT !.cons = SelectSeq(@, LAMBDA c : c.tp # "primary"),
                 !.cols = [i \in DOMAIN @ |-> [@[i] EXCEPT !.pk = FALSE]]]

DropIndex(m, p) ==
  LET i == Place(m.cons, p.old) IN IF i = 0 THEN Fail(m) ELSE [m EXCEPT !.cons = RemoveAt(@, i)]

RenameIndex(m, p) ==
  IF Place(m.cons, p.old) = 0 THEN Fail(m)
  ELSE [m EXCEPT !.cons = [i \in DOMAIN @ |-> IF @[i].name = p.old THEN [@[i] EXCEPT !.name = p.new.name] ELSE @[i]]]

AddConstraint(m, p) ==
  IF IF p.new.tp = "primary" THEN HasPrimaryKey(m) ELSE Place(m.cons, p.new.name) # 0
  THEN Fail(m) ELSE [m EXCEPT !.cons = Append(@, p.new)]

\* All parts of one kind; after a failure nothing more is done
Merge(m, alter, tp, Op(_, _)) ==
  FoldLeft(LAMBDA a, p : IF a.ok THEN Op(a, p) ELSE a, m, Parts(alter, tp))

MergeAlterToTable(table, alter) ==
  LET a == Merge(NewMerge(table), alter, "dropColumn", DropColumn)
      b == Merge(a, alter, "changeColumn", ChangeColumn)
      c == Merge(b, alter, "modifyColumn", ModifyColumn)
      d == Merge(c, alter, "alterColumn", AlterColumn)
      e == Merge(d, alter, "addColumn", AddColumn)
      f == Merge(e, alter, "dropPrimaryKey", DropPrimaryKey)
      g == Merge(f, alter, "dropIndex", DropIndex)
      h == Merge(g, alter, "renameIndex", RenameIndex)
      i == Merge(h, alter, "addConstraint", AddConstraint)
  IN  IF i.ok THEN [cols |-> i.cols, cons |-> i.cons]
      ELSE [cols |-> SubSeq(i.cols \o i.rest, 1, Len(table.cols)), cons |-> table.cons]

-----------------------------------------------------------------------------
(* MySQL (external): the columns after an ALTER TABLE.  All parts refer to *)
(* the columns as they were; columns without a place asked for are added   *)
(* at the end.                                                             *)

Named(cols, name) == \E i \in DOMAIN cols : cols[i].name = name

Altered(col, alter) ==
  LET parts == SelectSeq(alter, LAMBDA p :
                 \/ p.tp = "changeColumn" /\ p.old = col.name
                 \/ p.tp \in {"modifyColumn", "alterColumn"} /\ p.new.name = col.name)
  IN  IF parts = << >> THEN col
      ELSE IF parts[1].tp = "alterColumn" THEN [col EXCEPT !.def = parts[1].new.def]
      ELSE [parts[1].new EXCEPT !.pk = col.pk]

MySQLColumns(table, alter) ==
  LET dropped == {alter[i].old : i \in {j \in DOMAIN alter : alter[j].tp = "dropColumn"}}
      kept == SelectSeq(table.cols, LAMBDA c : c.name \notin dropped)
      added == Parts(alter, "addColumn")
      unkeyed == \E i \in DOMAIN alter : alter[i].tp = "dropPrimaryKey"
  IN  [i \in 1 .. Len(kept) + Len(added) |->
         LET c == IF i <= Len(kept) THEN Altered(kept[i], alter) ELSE added[i - Len(kept)].new
         IN  [c EXCEPT !.pk = @ /\ ~unkeyed]]

Keyed(table) ==
  (\E i \in DOMAIN table.cons : table.cons[i].tp = "primary") \/ \E i \in DOMAIN table.cols : table.cols[i].pk

\* The statements that MySQL accepts: they name columns that exist, each once,
\* and leave distinct names
Accepted(table, alter) ==
  LET target(p) == IF p.tp \in {"dropColumn", "changeColumn"} THEN p.old ELSE p.new.name
      onColumn(i) == alter[i].tp \in {"dropColumn", "changeColumn", "modifyColumn", "alterColumn"}
      after == MySQLColumns(table, alter)
  IN  /\ \A i \in DOMAIN alter : onColumn(i) => Named(table.cols, target(alter[i]))
      /\ \A i, j \in DOMAIN alter :
           i # j /\ onColumn(i) /\ onColumn(j) => target(alter[i]) # target(alter[j])
      /\ \A i, j \in DOMAIN after : i # j => after[i].name # after[j].name
      /\ \A i \in DOMAIN alter : alter[i].tp = "dropPrimaryKey" => Keyed(table)
      /\ Cardinality({i \in DOMAIN alter : alter[i].tp = "dropPrimaryKey"}) <= 1
      /\ after # << >>
=============================================================================
