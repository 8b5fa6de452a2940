---------------------------- MODULE SourceTables ----------------------------
(***************************************************************************)
(* The metadata of a MySQL source.  The binlog reader keeps a context for  *)
(* every replicated table (columns, new name, Where, foreign-key children, *)
(* whether its definition was sent) and follows the DDLs of the binlog in  *)
(* the sqle context to keep it current.  A DDL and a row event name their  *)
(* table on the target through that context; a row event carries the       *)
(* definition when it is new, and a flag that tells the target's writeset  *)
(* scheduler that other tables refer to this one.                          *)
(*                                                                         *)
(* The columns of a table are a version, raised by every DDL on it.  The   *)
(* source, the target and the receiver's definitions are external.  What   *)
(* the reader sends is applied in order: the transport and the replay have *)
(* modules of their own.                                                   *)
(***************************************************************************)
EXTENDS TableFilter

CONSTANTS
  Config,        \* [doDb, ignoreDb, expand, filter]: the job's configuration
  InitSchemas,   \* schemas of the source at the start
  InitTables,    \* tables of the source at the start: name -> fk, a sequence of parents
  Creates,       \* CREATE TABLE statements: [name, fk]; a parent <<"", t>> is unqualified
  Drops,         \* DROP TABLE statements: sequences of names
  Renames,       \* RENAME TABLE statements: sequences of <<old, new>>
  Uses,          \* default schemas of the sessions
  MaxStmt,       \* bound on the statements and row events of the source
  MaxBehind,     \* bound on the events that the reader has not read
  RestartBehind  \* BOOLEAN: the reader may be restarted before it has read every DDL

VARIABLES
  db,      \* source: [schemas, tables], tables: name -> [ver, fk, intact]
  binlog,  \* what the reader has not read yet
  ctx,     \* sqle context: loaded schema -> (table -> [ver, fk])
  tables,  \* BinlogReader.tables
  reader,  \* "running", "failed" (an error stops the job) or "panic"
  target,  \* tables of the target: name -> version of the columns
  known,   \* definitions that the receiver has: name -> version
  out,     \* the event just read, and what became of it
  stmts,   \* statements and row events so far
  ver      \* the last version given

vars == <<db, binlog, ctx, tables, reader, target, known, out, stmts, ver>>

Without(f, S) == [x \in DOMAIN f \ S |-> f[x]]
Resolve(p, schema) == <<StringElse(p[1], schema), p[2]>>
Selected(n) == ~SkipQueryDDL(Config, n[1], n[2])

\* Tables that refer to n; unqualified names are of the child's schema
Children(all, n) ==
  {c \in DOMAIN all : \E i \in DOMAIN all[c].fk : Resolve(all[c].fk[i], c[1]) = n}

-----------------------------------------------------------------------------
(* Start: getSchemaTablesAndMeta                                           *)

Existing(d) == [s \in d.schemas |-> {n[2] : n \in {m \in DOMAIN d.tables : m[1] = s}}]

\* sqle: the selected tables of the selected schemas
LoadContext(d, found) ==
  [s \in DOMAIN found |->
     [t \in DOMAIN found[s].map |-> [ver |-> d.tables[<<s, t>>].ver, fk |-> d.tables[<<s, t>>].fk]]]

ReadTableColumns(d, found) ==
  LET inMap(n) == n[1] \in DOMAIN found /\ n[2] \in DOMAIN found[n[1]].map
  IN  [s \in DOMAIN found |-> [found[s] EXCEPT !.map =
         [t \in DOMAIN @ |-> [@[t] EXCEPT !.ver = d.tables[<<s, t>>].ver,
                                          !.children = {c \in Children(d.tables, <<s, t>>) : inMap(c)}]]]]

GetSchemaTablesAndMeta(d) ==
  LET found == InspectTables(Config, d.schemas, Existing(d))
  IN  [tables |-> ReadTableColumns(d, found), ctx |-> LoadContext(d, found)]

\* The full copy leaves the selected tables on the target, under their new names
Copied(d, found) ==
  LET all == {n \in DOMAIN d.tables : n[1] \in DOMAIN found /\ n[2] \in DOMAIN found[n[1]].map}
      at(m) == CHOOSE n \in all : RenameAst(found, n) = m
  IN  [m \in {RenameAst(found, n) : n \in all} |-> d.tables[at(m)].ver]

Init ==
  /\ db = [schemas |-> InitSchemas,
           tables |-> [n \in DOMAIN InitTables |-> [ver |-> 1, fk |-> InitTables[n], intact |-> TRUE]]]
  /\ LET start == GetSchemaTablesAndMeta(db)
     IN  tables = start.tables /\ ctx = start.ctx /\ target = Copied(db, start.tables)
  /\ binlog = << >> /\ known = << >> /\ reader = "running"
  /\ out = [kind |-> "none"] /\ stmts = 0 /\ ver = 1

-----------------------------------------------------------------------------
(* The source (external): statements and row events, written to the binlog *)

Write(event) ==
  /\ stmts < MaxStmt /\ Len(binlog) < MaxBehind
  /\ stmts' = stmts + 1
  /\ binlog' = Append(binlog, event)
  /\ out' = [kind |-> "none"]
  /\ UNCHANGED <<ctx, tables, reader, target, known>>

SourceSchema ==
  \E s \in InitSchemas :
    /\ UNCHANGED ver
    /\ IF s \in db.schemas
       THEN /\ \A n \in DOMAIN db.tables : n[1] = s => \A c \in Children(db.tables, n) : c[1] = s
            /\ db' = [schemas |-> db.schemas \ {s},
                      tables |-> Without(db.tables, {n \in DOMAIN db.tables : n[1] = s})]
            /\ Write([kind |-> "dropSchema", cur |-> "", name |-> <<s, "">>])
       ELSE /\ db' = [db EXCEPT !.schemas = @ \cup {s}]
            /\ Write([kind |-> "createSchema", cur |-> "", name |-> <<s, "">>])

SourceCreate ==
  \E c \in Creates, use \in Uses :
    /\ c.name[1] \in db.schemas /\ c.name \notin DOMAIN db.tables
    /\ \A i \in DOMAIN c.fk : Resolve(c.fk[i], c.name[1]) \in DOMAIN db.tables
    /\ ver' = ver + 1
    /\ db' = [db EXCEPT !.tables = Put(@, c.name, [ver |-> ver', fk |-> c.fk, intact |-> TRUE])]
    /\ Write([kind |-> "create", cur |-> use, name |-> c.name, fk |-> c.fk, ver |-> ver'])

\* A referred table is not dropped; a name in the statement may be ignored by the job
SourceDrop ==
  \E d \in Drops :
    /\ Range(d) \subseteq DOMAIN db.tables
    /\ \A n \in Range(d) : Children(db.tables, n) \subseteq Range(d)
    /\ db' = [db EXCEPT !.tables = Without(@, Range(d))]
    /\ UNCHANGED ver
    /\ Write([kind |-> "drop", cur |-> d[1][1], names |-> d])

\* op: a column, the end of the foreign keys, an index, TRUNCATE
SourceAlter ==
  \E n \in DOMAIN db.tables, op \in {"addColumn", "alterFK", "dropIndex", "truncate"}, use \in Uses :
    /\ op = "alterFK" => db.tables[n].fk # << >>
    /\ op = "truncate" => Children(db.tables, n) = {}
    /\ ver' = IF op \in {"addColumn", "alterFK"} THEN ver + 1 ELSE ver
    /\ db' = [db EXCEPT !.tables[n] =
                [ver |-> IF op \in {"addColumn", "alterFK"} THEN ver' ELSE @.ver,
                 fk |-> IF op = "alterFK" THEN << >> ELSE @.fk,
                 intact |-> @.intact /\ op = "truncate"]]
    /\ Write([kind |-> op, cur |-> use, name |-> n, was |-> db.tables[n].ver, ver |-> ver'])

Moved(all, pair) == Put(Without(all, {pair[1]}), pair[2], [all[pair[1]] EXCEPT !.intact = FALSE])

\* RENAME TABLE, or ALTER TABLE ... RENAME for one table; of tables without
\* foreign keys, and the new name of one may be the old name of another
SourceRename ==
  \E r \in Renames, kind \in {"rename", "alterRename"}, use \in Uses :
    /\ kind = "alterRename" => Len(r) = 1
    /\ \A i \in DOMAIN r :
         LET at == FoldLeft(Moved, db.tables, SubSeq(r, 1, i - 1))
         IN  r[i][1] \in DOMAIN db.tables /\ r[i][1] \in DOMAIN at /\ r[i][2] \notin DOMAIN at
             /\ r[i][2][1] \in db.schemas
             /\ Children(db.tables, r[i][1]) = {} /\ db.tables[r[i][1]].fk = << >>
    /\ db' = [db EXCEPT !.tables = FoldLeft(Moved, @, r)]
    /\ UNCHANGED ver
    /\ Write([kind |-> kind, cur |-> use, name |-> r[1][1], pairs |-> r])

HasWhere(n) == LET c == NewTableByConfig(Config, n[1], n[2]) IN c # << >> /\ c[1].where

\* pass: some row of the event passes the table's Where, if it has one
SourceRows ==
  \E n \in DOMAIN db.tables, dml \in {"insert", "delete"}, pass \in BOOLEAN :
    /\ ~pass => HasWhere(n) /\ dml = "insert"
    /\ UNCHANGED <<db, ver>>
    /\ Write([kind |-> "rows", name |-> n, dml |-> dml, pass |-> pass, ver |-> db.tables[n].ver,
              intact |-> db.tables[n].intact,
              parent |-> \E c \in Children(db.tables, n) : Selected(c)])

-----------------------------------------------------------------------------
(* sqle context: UpdateContext for the statement as resolveQuery rewrote it *)

SqleMove(c, pair) ==
  LET old == pair[1]
      new == pair[2]
      has == old[1] \in DOMAIN c /\ old[2] \in DOMAIN c[old[1]]
  IN  IF ~has THEN c
      ELSE LET info == c[old[1]][old[2]]
               less == [c EXCEPT ![old[1]] = Without(@, {old[2]})]
           IN  IF new[1] \notin DOMAIN c THEN less ELSE [less EXCEPT ![new[1]] = Put(@, new[2], info)]

SqleHas(c, n) == n[1] \in DOMAIN c /\ n[2] \in DOMAIN c[n[1]]

\* mergeAlterToTable: 0 when the columns are not those the statement was written for
MergedVer(info, e) == IF info.ver = e.was THEN e.ver ELSE 0

\* ALTER ... RENAME files the table under the schema of its old name
UpdateContext(e) ==
  LET n == e.name IN
  CASE e.kind = "create" ->
         IF SqleHas(ctx, n) \/ n[1] \notin DOMAIN ctx THEN ctx
         ELSE [ctx EXCEPT ![n[1]] = Put(@, n[2], [ver |-> e.ver, fk |-> e.fk])]
    [] e.kind = "dropSchema" -> Without(ctx, {n[1]})
    [] e.kind = "drop" -> [s \in DOMAIN ctx |-> Without(ctx[s], {m[2] : m \in {k \in Range(e.names) : k[1] = s}})]
    [] e.kind \in {"addColumn", "alterFK"} ->
         IF ~SqleHas(ctx, n) THEN ctx
         ELSE [ctx EXCEPT ![n[1]][n[2]] =
                 [ver |-> MergedVer(@, e), fk |-> IF e.kind = "alterFK" THEN << >> ELSE @.fk]]
    [] e.kind = "alterRename" -> SqleMove(ctx, <<n, <<n[1], e.pairs[1][2][2]>> >>)
    [] e.kind = "rename" -> FoldLeft(SqleMove, ctx, e.pairs)
    [] OTHER -> ctx

-----------------------------------------------------------------------------
(* Contexts of the reader                                                  *)

\* removeFKChildSchema, removeFKChild: for the children in S
RemoveFKChildren(tabs, S) ==
  [s \in DOMAIN tabs |-> [tabs[s] EXCEPT !.map =
     [t \in DOMAIN @ |-> [@[t] EXCEPT !.children = @ \ S]]]]

\* addFKChildren: up to the first parent that has no context; an unqualified
\* parent is looked for in the default schema of the session
AddFKChildren(tabs, cur, parents, child) ==
  LET at == [i \in DOMAIN parents |-> Resolve(parents[i], cur)]
      found(i) == at[i][1] \in DOMAIN tabs /\ at[i][2] \in DOMAIN tabs[at[i][1]].map
      told == {at[i] : i \in {j \in DOMAIN parents : \A k \in 1 .. j : found(k)}}
  IN  [s \in DOMAIN tabs |-> [tabs[s] EXCEPT !.map =
         [t \in DOMAIN @ |-> IF <<s, t>> \in told
                             THEN [@[t] EXCEPT !.children = @ \cup {child}] ELSE @[t]]]]

\* updateTableMeta: a context of its own for table (a record, or << >> for a
\* new one).  Result: the contexts, or why there are none.
\* Variant: the old context is kept and only its columns are replaced
UpdateColumns(tabs, c, cur, table, n) ==
  IF ~SqleHas(c, n) THEN [err |-> "failed", tables |-> tabs]
  ELSE IF n[1] \notin DOMAIN tabs THEN [err |-> "panic", tables |-> tabs]
  ELSE LET old == IF n[2] \in DOMAIN tabs[n[1]].map THEN tabs[n[1]].map[n[2]] ELSE NewTableContext(NewTable)
       IN  [err |-> "", tables |-> [tabs EXCEPT ![n[1]].map =
              Put(@, n[2], [old EXCEPT !.ver = c[n[1]][n[2]].ver])]]
UpdateTableMeta(tabs, c, cur, table, n) ==
  IF ~SqleHas(c, n) THEN [err |-> "failed", tables |-> tabs]
  ELSE IF n[1] \notin DOMAIN tabs THEN [err |-> "panic", tables |-> tabs]
  ELSE LET info == c[n[1]][n[2]]
           new == [NewTableContext(IF table = << >> THEN NewTable ELSE table[1]) EXCEPT !.ver = info.ver]
       IN  [err |-> "", tables |-> AddFKChildren([tabs EXCEPT ![n[1]].map = Put(@, n[2], new)],
                                                 cur, info.fk, n)]

\* The statements that change contexts, once the table of the statement is known
UpdateMeta(e, tabs, c, table) ==
  LET ok(t) == [err |-> "", tables |-> t]
      renamed(r, pair) ==
        IF r.err # "" \/ ~Selected(pair[2]) THEN r ELSE UpdateTableMeta(r.tables, c, e.cur, << >>, pair[2])
  IN  CASE e.kind = "dropSchema" ->
             ok(RemoveFKChildren(tabs, {n \in UNION {tabs[s].map[t].children : <<s, t>> \in
                  UNION {{s} \X DOMAIN tabs[s].map : s \in DOMAIN tabs}} : n[1] = e.name[1]}))
        [] e.kind = "drop" -> ok(RemoveFKChildren(tabs, Range(e.names)))
        [] e.kind \in {"create", "dropIndex", "addColumn"} -> UpdateTableMeta(tabs, c, e.cur, table, e.name)
        [] e.kind = "alterFK" ->
             IF table = << >> THEN [err |-> "panic", tables |-> tabs]
             ELSE UpdateTableMeta(RemoveFKChildren(tabs, {e.name}), c, e.cur, table, e.name)
        [] e.kind \in {"rename", "alterRename"} -> FoldLeft(renamed, ok(tabs), e.pairs)
        [] OTHER -> ok(tabs)

-----------------------------------------------------------------------------
(* The target (external): effect of a DDL whose names are mapped           *)

TargetMove(r, pair) ==
  IF r.ok /\ pair[1] \in DOMAIN r.target /\ pair[2] \notin DOMAIN r.target
  THEN [r EXCEPT !.target = Put(Without(@, {pair[1]}), pair[2], @[pair[1]])]
  ELSE [r EXCEPT !.ok = FALSE]

Execute(e, tabs) ==
  LET to(n) == RenameAst(tabs, n)
      n == to(e.name)
      ok(t) == [ok |-> TRUE, target |-> t]
      bad == [ok |-> FALSE, target |-> target]
  IN  CASE e.kind = "createSchema" -> ok(target)
        [] e.kind = "dropSchema" -> ok(Without(target, {m \in DOMAIN target : m[1] = n[1]}))
        [] e.kind = "create" -> IF n \in DOMAIN target THEN bad ELSE ok(Put(target, n, e.ver))
        [] e.kind = "drop" ->
             LET S == {to(m) : m \in Range(e.names)} IN IF S \subseteq DOMAIN target THEN ok(Without(target, S)) ELSE bad
        [] e.kind \in {"addColumn", "alterFK"} ->
             IF n \in DOMAIN target /\ target[n] = e.was THEN ok(Put(target, n, e.ver)) ELSE bad
        [] e.kind \in {"rename", "alterRename"} ->
             FoldLeft(TargetMove, ok(target), [i \in DOMAIN e.pairs |-> <<to(e.pairs[i][1]), to(e.pairs[i][2])>>])
        [] OTHER -> IF n \in DOMAIN target THEN ok(target) ELSE bad

-----------------------------------------------------------------------------
(* The reader                                                              *)

ResolveQuery(e) ==
  IF e.kind # "drop" THEN e
  ELSE LET kept == SelectSeq(e.names, Selected)
           names == IF kept = << >> THEN <<e.names[1]>> ELSE kept
       IN  [kind |-> "drop", cur |-> e.cur, names |-> names, name |-> names[1]]

\* The end of handleQueryEvent: names are mapped and the statement is sent.
\* The event carries the definition of the statement's table
SendQuery(e, table, res) ==
  LET done == Execute(e, res.tables)
      s == e.name[1]
      at == <<StringElse(res.tables[s].rename, s), StringElse(table[1].rename, e.name[2])>>
  IN  IF SkipBySqlFilter(e.kind, Config.filter)
      THEN out' = [kind |-> "skipped"] /\ UNCHANGED <<target, known>>
      ELSE /\ out' = [kind |-> "query", ok |-> done.ok]
           /\ target' = done.target
           /\ known' = IF table = << >> THEN known
                       ELSE Put(known, at, res.tables[s].map[e.name[2]].ver)

HandleQueryEvent ==
  /\ reader = "running" /\ binlog # << >> /\ Head(binlog).kind # "rows"
  /\ binlog' = Tail(binlog)
  /\ UNCHANGED <<db, stmts, ver>>
  /\ LET e == ResolveQuery(Head(binlog))
         s == e.name[1]
         t == e.name[2]
         c0 == UpdateContext(e)
     IN  IF SkipQueryDDL(Config, s, t)
         THEN ctx' = c0 /\ out' = [kind |-> "skipped"] /\ UNCHANGED <<tables, target, known, reader>>
         ELSE LET c == IF e.kind = "createSchema" /\ s \notin DOMAIN c0 THEN Put(c0, s, << >>) ELSE c0
                  tabs == UpdateCurrentReplicateDoDb(Config, tables, s, t)
                  isNew == s \in DOMAIN tabs /\ t \in DOMAIN tabs[s].map
                           /\ ~(s \in DOMAIN tables /\ (s \in DOMAIN tables => t \in DOMAIN tables[s].map))
                  seen == IF s # e.cur THEN s \in DOMAIN tabs ELSE s \in DOMAIN tables
                  table == IF seen /\ (seen => t \in DOMAIN tabs[s].map)
                           THEN <<[rename |-> tabs[s].map[t].rename, where |-> tabs[s].map[t].where]>> ELSE << >>
                  res == UpdateMeta(e, tabs, c, table)
              IN  \* NewWhereCtx reads the columns, and a table from the configuration has none yet
                  IF isNew /\ (isNew => tabs[s].map[t].where)
                  THEN reader' = "panic" /\ out' = [kind |-> "none"] /\ UNCHANGED <<ctx, tables, target, known>>
                  ELSE IF res.err # ""
                  THEN reader' = res.err /\ out' = [kind |-> "none"] /\ UNCHANGED <<ctx, tables, target, known>>
                  ELSE ctx' = c /\ tables' = res.tables /\ UNCHANGED reader /\ SendQuery(e, table, res)

\* skipRowEvent, the filters, the definition, Where.  The definition counts as
\* sent even when no row is left to carry it
HandleRowsEvent ==
  /\ reader = "running" /\ binlog # << >> /\ Head(binlog).kind = "rows"
  /\ binlog' = Tail(binlog)
  /\ UNCHANGED <<db, ctx, reader, target, stmts, ver>>
  /\ LET e == Head(binlog)
         s == e.name[1]
         t == e.name[2]
         has == s \in DOMAIN tables /\ (s \in DOMAIN tables => t \in DOMAIN tables[s].map)
     IN  IF ~has \/ SkipDml(e.dml, Config.filter)
         THEN out' = [kind |-> "skippedRows", event |-> e] /\ UNCHANGED <<tables, known>>
         ELSE LET table == tables[s].map[t]
                  to == RenameRows(tables, e.name)
              IN  /\ tables' = [tables EXCEPT ![s].map[t].sent = TRUE]
                  /\ IF table.where /\ ~e.pass
                     THEN out' = [kind |-> "skipped"] /\ UNCHANGED known
                     ELSE /\ known' = IF table.sent THEN known ELSE Put(known, to, table.ver)
                          /\ out' = [kind |-> "rows", event |-> e, to |-> to, where |-> table.where,
                                     fkParent |-> table.children # {}]

\* The job is started again: metadata is read from the source as it is now,
\* the receiver starts without definitions
Restart ==
  /\ RestartBehind \/ \A i \in DOMAIN binlog : binlog[i].kind = "rows"
  /\ LET start == GetSchemaTablesAndMeta(db) IN tables' = start.tables /\ ctx' = start.ctx
  /\ reader' = "running" /\ known' = << >> /\ out' = [kind |-> "none"]
  /\ UNCHANGED <<db, binlog, target, stmts, ver>>

Next ==
  \/ SourceSchema \/ SourceCreate \/ SourceDrop \/ SourceAlter \/ SourceRename \/ SourceRows
  \/ HandleQueryEvent \/ HandleRowsEvent \/ Restart

Spec == Init /\ [][Next]_vars

-----------------------------------------------------------------------------
(* Properties                                                              *)

\* A context has a type, and every context that is not of a dropped table has
\* the columns that sqle has for the table: the reader's two views agree
TypeOK ==
  /\ reader \in {"running", "failed", "panic"} /\ stmts \in 0 .. MaxStmt
  /\ \A s \in DOMAIN tables : \A t \in DOMAIN tables[s].map :
       LET c == tables[s].map[t]
       IN  c.ver \in 0 .. ver /\ c.sent \in BOOLEAN /\ (SqleHas(ctx, <<s, t>>) => ctx[s][t].ver = c.ver)


\* A row event is sent if and only if the configuration selects its table: the
\* contexts that row events are filtered by follow DDLs and restarts
RowsSelected ==
  /\ out.kind = "rows" => Selected(out.event.name)
  /\ out.kind = "skippedRows" => ~Selected(out.event.name) \/ SkipDml(out.event.dml, Config.filter)

\* When a row event of a table without Where arrives, the receiver has the
\* definition that the rows were written with
DefinitionKnown ==
  out.kind = "rows" /\ ~out.where => out.to \in DOMAIN known /\ known[out.to] = out.event.ver

\* The rows of the selected tables, and no others, are sent.  They name a table
\* that the target has, with the columns that they were written with: DDLs
\* (loadMapping) and rows (handleRowsEvent) map a table to one name, and the
\* definition is sent along whenever it has changed
RowsLand ==
  /\ TypeOK /\ RowsSelected /\ DefinitionKnown
  /\ out.kind = "rows" => out.to \in DOMAIN target /\ target[out.to] = out.event.ver

\* Every table, with Where or without: kafka3.go takes a row event without a definition for
\* a bug of dtle
TableMetaKnown == out.kind = "rows" => out.to \in DOMAIN known

=============================================================================
