--------------------------- MODULE MCConversions ---------------------------
EXTENDS KafkaValues, WireFormat, TableFilter, SqleMerge

VARIABLE case

\* Values of a column: the ends of its range and the bits around its sign
IntValues(sql, unsigned) ==
  LET half == 2 ^ (Bits(sql) - 1)
  IN  IF unsigned THEN {0, 1, half - 1, half, 2 * half - 1} ELSE {-half, -1, 0, half - 1}
ValuesOf(c) ==
  CASE c.sql \in IntTypes -> IntValues(c.sql, c.unsigned)
    [] c.sql = "decimal" -> {-129, -128, -1, 0, 127, 128, 255, 256, 32768}
    [] c.sql \in {"time"} -> [neg : BOOLEAN, sec : {0, 61}, frac : {0, 100000}]
    [] c.sql = "bit(1)" -> {0, 1}
    [] c.sql = "bit(9)" -> {0, 1, 255, 256, 511}
    [] c.sql = "set" -> {<< >>, <<1>>, <<1, 3>>, <<1, 2, 3>>}
    [] c.sql = "enum" -> 1 .. 3
    [] c.sql = "year" -> {1901, 1970, 2000, 2155}
    [] c.sql = "binary" -> {<<1, 1>>, <<1, 0>>}
    [] OTHER -> {0, 1, 2}

SqlTypes == IntTypes \cup
  {"float", "double", "decimal", "bit(1)", "bit(9)", "date", "datetime", "datetime(6)", "timestamp",
   "timestamp(6)", "time", "char", "varchar", "binary", "varbinary", "blob", "text", "json", "enum", "set", "year"}
Columns == [sql : SqlTypes, unsigned : {FALSE}] \cup [sql : IntTypes, unsigned : {TRUE}]

\* Samples of a type: the shortest value, and values that differ in one place
Message == <<DumpEntry, MySQLCoordinateTx, OracleCoordinateTx, MySQLCoordinates, OracleCoordinates,
             TableSpec, DumpStatResult, DataEvent, DataEntry, DataEntries, ControlMsg, BigTxAck>>
RECURSIVE Shortest(_), Samples(_)
Shortest(type) ==
  CASE type.k \in {"bytes", "slice", "ptr"} -> << >>
    [] type.k = "int" -> <<0>>
    [] type.k = "array" -> [j \in 1 .. type.n |-> Shortest(type.of)]
    [] type.k = "struct" -> [j \in DOMAIN type.of |-> Shortest(type.of[j])]
    [] type.k = "union" -> [tag |-> 0, v |-> << >>]
Samples(type) ==
  CASE type.k = "bytes" -> {[j \in 1 .. n |-> Base - 1] : n \in {0, 1, Chunk - 1, Chunk, Base + 1}}
    [] type.k = "int" ->
         LET end == Base ^ type.w
         IN  {<<v>> : v \in IF type.signed THEN {-(end \div 2), -1, 0, 1, end \div 2 - 1} ELSE {0, 1, end - 1}}
    [] type.k = "array" ->
         {[j \in 1 .. type.n |-> IF j = 1 THEN x ELSE y] : x \in Samples(type.of), y \in {Shortest(type.of)}}
    [] type.k = "slice" ->
         {<< >>} \cup {<<x>> : x \in Samples(type.of)}
           \cup {[j \in 1 .. n |-> Shortest(type.of)] : n \in {2, Chunk}}
    [] type.k = "ptr" -> {<< >>} \cup {<<x>> : x \in Samples(type.of)}
    [] type.k = "struct" ->
         UNION {{[Shortest(type) EXCEPT ![j] = x] : x \in Samples(type.of[j])} : j \in DOMAIN type.of}
    [] type.k = "union" ->
         {Shortest(type)} \cup UNION {{[tag |-> j, v |-> x] : x \in Samples(type.of[j])} : j \in DOMAIN type.of}

Image == {<< >>} \cup {<<[pk |-> k, v |-> v]>> : k \in 1 .. 2, v \in 1 .. 2}
Event(table) ==
  {e \in [before : Image, after : Image] :
     /\ e.before # e.after
     /\ Range(e.before) \subseteq table
     /\ IF e.before = << >> THEN \A r \in table : r.pk # e.after[1].pk
        ELSE e.after # << >> => e.after[1].pk = e.before[1].pk}

\* Where: of the rows, those with v = 1
WhereTrue == [pk : 1 .. 2, v : {1}]
Passed(e) == IF case.where THEN FilterRows(e, WhereTrue) ELSE e
Sent(e) == LET p == Passed(e) IN IF p.before = << >> /\ p.after = << >> THEN << >> ELSE RowMessages(p)

\* Configurations over the schemas a and b and the tables p and q of each
Names == {"p", "q"}
Renamed(S) == [x \in S |-> CASE x = "a" -> "A" [] x = "b" -> "B" [] x = "p" -> "P" [] OTHER -> "Q"]
Same(S) == [x \in S |-> ""]
TableConfigs ==
  {[table |-> t, regex |-> {}, rename |-> r, where |-> w] : t \in Names, r \in {Same(Names), Renamed(Names)}, w \in BOOLEAN}
    \cup {[table |-> "", regex |-> S, rename |-> Renamed(Names), where |-> FALSE] : S \in {{"p"}, Names}}
Lists == {<< >>} \cup {<<c>> : c \in TableConfigs} \cup
         {<<c, d>> : c \in {x \in TableConfigs : ~x.where}, d \in {x \in TableConfigs : x.where}}
DataSources ==
  [schema : {"a", "b"}, regex : {{}}, rename : {Same({"a", "b"}), Renamed({"a", "b"})}, tables : Lists]
    \cup [schema : {""}, regex : {{"a"}, {"a", "b"}}, rename : {Renamed({"a", "b"})}, tables : Lists]
Ignores == {<< >>, <<[schema |-> "a", tables |-> {}]>>, <<[schema |-> "a", tables |-> {"p"}]>>}

\* Tables and ALTER TABLE statements
Col(name, def, pk) == [name |-> name, def |-> def, pk |-> pk]
Definitions ==
  {[cols |-> <<Col("a", "", FALSE), Col("b", "0", pk), Col("c", "", FALSE)>>, cons |-> k] :
     pk \in BOOLEAN, k \in {<< >>, <<[tp |-> "index", name |-> "i"]>>, <<[tp |-> "primary", name |-> ""]>>}}
Part(tp, old, new) == [tp |-> tp, old |-> old, new |-> new]
AlterParts ==
  {Part("dropColumn", x, << >>) : x \in {"a", "b", "c"}}
    \cup {Part("changeColumn", x, Col(y, "", FALSE)) : x \in {"a", "c"}, y \in {"b", "d"}}
    \cup {Part("modifyColumn", "", Col(x, "1", FALSE)) : x \in {"a", "b"}}
    \cup {Part("alterColumn", "", Col("b", d, FALSE)) : d \in {"", "2"}}
    \cup {Part("addColumn", "", Col(x, "", FALSE)) : x \in {"a", "d", "e"}}
    \cup {Part("dropPrimaryKey", "", << >>), Part("dropIndex", "i", << >>),
          Part("renameIndex", "i", [tp |-> "index", name |-> "j"])}
    \cup {Part("addConstraint", "", [tp |-> tp, name |-> tp]) : tp \in {"primary", "index"}}

Init == \E where \in BOOLEAN : case = [kind |-> "events", table |-> {}, topic |-> << >>, n |-> 0, where |-> where]

\* The next event of a table, or another case
NextEvent ==
  /\ case.kind = "events" /\ case.n < 4
  /\ \E e \in Event(case.table) :
       case' = [case EXCEPT !.n = @ + 1, !.table = Change(@, e), !.topic = @ \o Sent(e)]
NextValue ==
  /\ case.kind = "events" /\ case.n = 0
  /\ \E c \in Columns : \E x \in {<< >>} \cup {<<v>> : v \in ValuesOf(c)} :
       case' = [kind |-> "value", c |-> c, x |-> x]
NextDecimal ==
  /\ case.kind = "events" /\ case.n = 0
  /\ \E x \in -128 .. 300 : case' = [kind |-> "decimal", x |-> x]
NextMessage ==
  /\ case.kind = "events" /\ case.n = 0
  /\ \E m \in DOMAIN Message : \E v \in Samples(Message[m]) :
       case' = [kind |-> "message", type |-> Message[m], v |-> v]
NextConfig ==
  /\ case.kind = "events" /\ case.n = 0
  /\ \E d \in DataSources, i \in Ignores, n \in 0 .. 2 :
       \E e \in {x \in DataSources : n = 2 => x.tables = << >>} :
         case' = [kind |-> "config",
                  cfg |-> [doDb |-> SubSeq(<<d, e>>, 1, n), ignoreDb |-> i, expand |-> FALSE]]
NextAlter ==
  /\ case.kind = "events" /\ case.n = 0
  /\ \E t \in Definitions, p, q, r \in AlterParts, n \in 1 .. 3 :
       case' = [kind |-> "alter", table |-> t, alter |-> SubSeq(<<p, q, r>>, 1, n)]

Next == NextEvent \/ NextValue \/ NextDecimal \/ NextMessage \/ NextConfig \/ NextAlter
Spec == Init /\ [][Next]_case

\* A field is written as its schema says, from the dump and from the binlog.
\* From the binlog, texts and json come in base64 and a timestamp(6) as 0.
Conforms ==
  case.kind = "value" =>
    /\ Snapshot(case.c, case.x).json \in {"null", JsonOf(SchemaType(case.c))}
    /\ case.c.sql \notin {"text", "json", "timestamp(6)"} =>
         Incremental(case.c, case.x).json \in {"null", JsonOf(SchemaType(case.c))}

\* A row is the same whether it was dumped or came from the binlog: a consumer
\* cannot tell where the snapshot ends.  Besides the three types above, years
\* differ, and binary values that end in zeros.
SnapshotEqIncremental ==
  case.kind = "value" /\ case.c.sql \notin {"text", "json", "timestamp(6)", "year", "binary"} =>
    Snapshot(case.c, case.x) = Incremental(case.c, case.x)

\* A field that takes its default is read as the row that holds it.  Years are
\* text there, bits are in the other order and large bigints are cut.
DefaultEqValue ==
  case.kind = "value" /\ case.x # << >> /\ case.c.sql \notin {"text", "blob", "json", "year", "bit(9)"}
    /\ ~(case.c.sql = "bigint" /\ case.c.unsigned /\ case.x[1] >= 2 ^ (BigBits - 1)) =>
    DefaultField(case.c, case.x[1]) = Snapshot(case.c, case.x)

\* A decimal is the number its bytes stand for (DecimalValueFromStringMysql).
DecimalKept == case.kind = "decimal" => DecimalOf(DecimalValueFromStringMysql(case.x)) = case.x

\* What the source marshals the target unmarshals, with more bytes after it too:
\* NULL stays apart from the empty string, lengths and tags of any size and the
\* ends of the integers come through, and Size (which Marshal allocates, and
\* which nested values are written into) is the length.
RoundTrip ==
  case.kind = "message" =>
    LET buf == Marshal(case.type, case.v)
    IN  /\ Len(buf) = Size(case.type, case.v)
        /\ Unmarshal(case.type, buf \o <<1, Chunk>>, 0) = [v |-> case.v, i |-> Len(buf)]

\* What is left of a compacted topic is the part of the table that passes Where:
\* of a row the last image, of a row that was deleted, or that an update took out
\* of it, the tombstone.  (An update of the key stays under the old key.)
Compacted ==
  case.kind = "events" =>
    /\ UNION {Range(m.after) : m \in Compact(case.topic)} = {r \in case.table : case.where => r \in WhereTrue}
    /\ \A m \in Compact(case.topic) : m.after = << >> => m.op = "tombstone"


\* No schema is in two entries of ReplicateDoDb and no table in two of an entry
Unambiguous(cfg) ==
  \A i \in DOMAIN cfg.doDb :
    LET d == cfg.doDb[i]
    IN  /\ \A j \in DOMAIN cfg.doDb : i # j =>
             (d.regex \cup {d.schema}) \cap (cfg.doDb[j].regex \cup {cfg.doDb[j].schema}) \subseteq {""}
        /\ \A j, k \in DOMAIN d.tables : j # k =>
             (d.tables[j].regex \cup {d.tables[j].table}) \cap (d.tables[k].regex \cup {d.tables[k].table}) \subseteq {""}


\* No CHANGE takes the name of another column of the table
NoChain(table, alter) ==
  \A i \in DOMAIN alter :
    alter[i].tp = "changeColumn" =>
      \A j \in DOMAIN table.cols : table.cols[j].name = alter[i].new.name => table.cols[j].name = alter[i].old
\* A new constraint has a name that the table did not have, and the renamed index is there
NamedApart(table, alter) ==
  /\ \A i, j \in DOMAIN alter : i # j /\ alter[i].tp = "addConstraint" => alter[i].new # alter[j].new
  /\ \A i, j \in DOMAIN alter : i # j /\ {alter[i].tp, alter[j].tp} \subseteq {"dropIndex", "renameIndex"} => FALSE
  /\ \A i \in DOMAIN alter : alter[i].tp \in {"dropIndex", "renameIndex"} =>
       \E j \in DOMAIN table.cons : table.cons[j].name = "i"
  /\ \A i \in DOMAIN alter : alter[i].tp = "addConstraint" /\ alter[i].new.tp = "primary" /\ Keyed(table) =>
       \E j \in DOMAIN alter : alter[j].tp = "dropPrimaryKey"
\* The key is not an option of a column that the statement drops or defines again
KeyKept(table, alter) ==
  \A i \in DOMAIN table.cols, j \in DOMAIN alter :
    table.cols[i].pk =>
      /\ alter[j].tp \in {"dropColumn", "changeColumn"} => alter[j].old # table.cols[i].name
      /\ alter[j].tp = "modifyColumn" => alter[j].new.name # table.cols[i].name

\* After an ALTER TABLE that MySQL accepts, sqle has the table's columns in the
\* order of the binlog's rows, by which Kafka names the values: whatever parts the
\* statement has and in whatever order.  Exceptions: a place (FIRST, AFTER)
\* is not read, a CHANGE may take the name of a column that is changed or dropped
\* in the same statement, and a second constraint without a name undoes the merge.
ColumnsMerged ==
  case.kind = "alter" /\ Accepted(case.table, case.alter) /\ NoChain(case.table, case.alter)
    /\ NamedApart(case.table, case.alter) /\ KeyKept(case.table, case.alter) =>
      MergeAlterToTable(case.table, case.alter).cols = MySQLColumns(case.table, case.alter)
=============================================================================
