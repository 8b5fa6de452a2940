----------------------------- MODULE TableFilter -----------------------------
(***************************************************************************)
(* Which tables a job replicates, under which names, and which of their    *)
(* rows: the ReplicateDoDb, ReplicateIgnoreDb, SqlFilter and Where of a    *)
(* MySQL source, as the extractor reads them at the start (inspectTables)  *)
(* and the binlog reader at a DDL.                                         *)
(*                                                                         *)
(* doDb: a sequence of [schema, regex, rename, tables], tables a sequence  *)
(* of [table, regex, rename, where].  A regex is the set of names that it  *)
(* matches, {} is the empty one; rename is a function of the name (the     *)
(* expansion of a regex), "" is no new name.  ignoreDb: a sequence of      *)
(* [schema, tables].  The empty name is "".                                *)
(***************************************************************************)
EXTENDS Integers, Sequences, SequencesExt, FiniteSetsExt

StringElse(s, default) == IF s = "" THEN default ELSE s

\* The first index of a sequence with a property; 0: none
FirstIndex(seq, Test(_)) ==
  LET hits == {i \in DOMAIN seq : Test(seq[i])} IN IF hits = {} THEN 0 ELSE Min(hits)

IgnoreDbByReplicateIgnoreDb(ignoreDb, s) ==
  \E i \in DOMAIN ignoreDb : ignoreDb[i].schema = s /\ ignoreDb[i].tables = {}
IgnoreTbByReplicateIgnoreDb(ignoreDb, s, t) ==
  \E i \in DOMAIN ignoreDb : ignoreDb[i].schema = s /\ t \in ignoreDb[i].tables

MatchTable(doDb, s, t) ==
  LET i == FirstIndex(doDb, LAMBDA d : d.schema = s \/ s \in d.regex)
  IN  s # "" /\ i # 0
      /\ \/ t = "" \/ doDb[i].tables = << >>
         \/ \E j \in DOMAIN doDb[i].tables :
              doDb[i].tables[j].table = t \/ t \in doDb[i].tables[j].regex

SystemSchema == {"sys", "information_schema", "performance_schema", "dtle"}

SkipQueryDDL(cfg, s, t) ==
  IF s = "mysql" THEN ~cfg.expand
  ELSE \/ s \in SystemSchema
       \/ IgnoreDbByReplicateIgnoreDb(cfg.ignoreDb, s)
       \/ IgnoreTbByReplicateIgnoreDb(cfg.ignoreDb, s, t)
       \/ cfg.doDb # << >> /\ ~MatchTable(cfg.doDb, s, t)

FindSchemaConfig(doDb, s) == FirstIndex(doDb, LAMBDA d : s # "" /\ (d.schema = s \/ s \in d.regex))
FindTableConfig(d, t) == FirstIndex(d.tables, LAMBDA c : c.table = t \/ t \in c.regex)

-----------------------------------------------------------------------------
(* Contexts.  tables: a function from schemas to [rename, map], map a      *)
(* function from tables to contexts.                                       *)

NewTable == [rename |-> "", where |-> FALSE]
NewTableContext(table) ==
  [rename |-> table.rename, where |-> table.where, ver |-> 0, children |-> {}, sent |-> FALSE]
NewSchemaContext(rename) == [rename |-> rename, map |-> << >>]
Put(f, k, v) == [x \in DOMAIN f \cup {k} |-> IF x = k THEN v ELSE f[x]]

\* updateCurrentReplicateDoDb: the schema
WithSchema(cfg, tables, s) ==
  LET i == FindSchemaConfig(cfg.doDb, s)
  IN  IF s \in DOMAIN tables THEN tables
      ELSE IF cfg.doDb = << >> THEN Put(tables, s, NewSchemaContext(""))
      ELSE IF i = 0 THEN tables
      ELSE Put(tables, s, NewSchemaContext(cfg.doDb[i].rename[s]))

\* The table a DDL brings in.  0 tables in the configuration: all of them
NewTableByConfig(cfg, s, t) ==
  LET i == FindSchemaConfig(cfg.doDb, s)
  IN  IF i = 0 \/ (i # 0 /\ cfg.doDb[i].tables = << >>) THEN <<NewTable>>
      ELSE LET j == FindTableConfig(cfg.doDb[i], t)
           IN  IF j = 0 THEN << >>
               ELSE LET c == cfg.doDb[i].tables[j] IN <<[rename |-> c.rename[t], where |-> c.where]>>

UpdateCurrentReplicateDoDb(cfg, tables, s, t) ==
  LET with == WithSchema(cfg, tables, s)
      new == NewTableByConfig(cfg, s, t)
  IN  IF s \notin DOMAIN with \/ t = "" \/ (t # "" /\ s \in DOMAIN with /\ t \in DOMAIN with[s].map) \/ new = << >>
      THEN with
      ELSE [with EXCEPT ![s].map = Put(@, t, NewTableContext(new[1]))]

\* inspectTables at the start.  doDbs: an entry with a regex stands for every
\* schema it matches; a later entry for a schema replaces an earlier one
DoDbs(cfg, schemas) ==
  FoldLeft(LAMBDA a, d :
             LET matched == {s \in schemas : s = d.schema \/ s \in d.regex}
             IN  [s \in DOMAIN a \cup matched |-> IF s \in matched THEN d ELSE a[s]],
           << >>, cfg.doDb)

\* The tables of one entry; a table listed later replaces an earlier one
InspectSchema(d, names) ==
  IF d.tables = << >> THEN [t \in names |-> NewTableContext(NewTable)]
  ELSE FoldLeft(LAMBDA a, c :
                  LET matched == {t \in names : IF c.regex # {} THEN t \in c.regex ELSE t = c.table}
                  IN  [t \in DOMAIN a \cup matched |->
                         IF t \in matched
                           THEN NewTableContext([rename |-> c.rename[t], where |-> c.where]) ELSE a[t]],
                << >>, d.tables)

InspectTables(cfg, schemas, existing) ==
  LET dbs == {s \in schemas : ~IgnoreDbByReplicateIgnoreDb(cfg.ignoreDb, s)}
      names(s) == {t \in existing[s] : ~IgnoreTbByReplicateIgnoreDb(cfg.ignoreDb, s, t)}
      all == DoDbs(cfg, dbs)
  IN  IF cfg.doDb = << >>
      THEN [s \in dbs |-> [rename |-> "", map |-> [t \in names(s) |-> NewTableContext(NewTable)]]]
      ELSE [s \in DOMAIN all |-> [rename |-> all[s].rename[s], map |-> InspectSchema(all[s], names(s))]]

-----------------------------------------------------------------------------
(* Names on the target                                                     *)

\* generateRenameMaps and the closures of loadMapping: a name in a DDL
RenameAst(tables, n) ==
  LET s == n[1]
      t == n[2]
  IN  IF s \notin DOMAIN tables THEN n
      ELSE <<StringElse(tables[s].rename, s),
             IF t \in DOMAIN tables[s].map THEN StringElse(tables[s].map[t].rename, t) ELSE t>>

\* handleRowsEvent: the name in a row event.
\* Variant: the table keeps its name
RenameRowsSchema(tables, n) == <<StringElse(tables[n[1]].rename, n[1]), n[2]>>
RenameRows(tables, n) ==
  <<StringElse(tables[n[1]].rename, n[1]), StringElse(tables[n[1]].map[n[2]].rename, n[2])>>

-----------------------------------------------------------------------------
(* SqlFilter and Where                                                     *)

SkipBySqlFilter(stmt, filter) ==
  \/ "NoDDL" \in filter
  \/ stmt = "createSchema" /\ "NoDDLCreateSchema" \in filter
  \/ stmt = "dropSchema" /\ "NoDDLDropSchema" \in filter
  \/ stmt = "create" /\ "NoDDLCreateTable" \in filter
  \/ stmt = "drop" /\ "NoDDLDropTable" \in filter
  \/ stmt = "dropIndex" /\ "NoDDLDropIndex" \in filter
  \/ stmt = "truncate" /\ "NoDDLTruncate" \in filter
  \/ stmt \in {"addColumn", "dropColumn", "alterFK", "alterRename"} /\ "NoDDLAlterTable" \in filter
  \/ stmt = "addColumn" /\ "NoDDLAlterTableAddColumn" \in filter
  \/ stmt = "dropColumn" /\ "NoDDLAlterTableDropColumn" \in filter

SkipDml(dml, filter) ==
  \/ "NoDML" \in filter
  \/ dml = "insert" /\ "NoDMLInsert" \in filter
  \/ dml = "update" /\ "NoDMLUpdate" \in filter
  \/ dml = "delete" /\ "NoDMLDelete" \in filter

\* The images of a row event that pass Where, which is true of the rows in where;
\* both empty: no row is sent.
FilterRows(event, where) ==
  LET Passes(r) == r \in where
  IN  [before |-> SelectSeq(event.before, Passes), after |-> SelectSeq(event.after, Passes)]
=============================================================================
