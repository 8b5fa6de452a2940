---------------------------- MODULE KafkaValues ----------------------------
(***************************************************************************)
(* What the Kafka target writes for a value, once from the text of the     *)
(* dump (kafkaTransformSnapshotData) and once from the binlog (ConvertArg  *)
(* and kafkaConvertArg), under which field of the schema                   *)
(* (kafkaColumnListToColDefs), and the messages of a row event.            *)
(*                                                                         *)
(* A JSON value is [json, v]; bytes are written in base64.  Integers have  *)
(* the widths of the code except int (IntBits) and bigint (BigBits).       *)
(***************************************************************************)
EXTENDS Integers, Sequences, SequencesExt, FiniteSetsExt

CONSTANTS IntBits, BigBits   \* 32 and 64 in the code

Null == [json |-> "null", v |-> 0]
Number(x) == [json |-> "number", v |-> x]
String(x) == [json |-> "string", v |-> x]
Base64(x) == [json |-> "base64", v |-> x]
Empty == 0     \* the empty text or blob
Boolean(x) == [json |-> "boolean", v |-> IF x THEN 1 ELSE 0]

-----------------------------------------------------------------------------
(* Columns.  sql: the declared type.  A column that the source describes   *)
(* for Kafka has the Type that GetTableColumnsSqle takes from the parser,  *)
(* which has one type for char, binary and varchar, and one for text and   *)
(* blob (external).                                                        *)

IntTypes == {"tinyint", "smallint", "mediumint", "int", "bigint"}
Bits(sql) == CASE sql = "tinyint" -> 8 [] sql = "smallint" -> 16 [] sql = "mediumint" -> 24
               [] sql = "int" -> IntBits [] sql = "bigint" -> BigBits

GetTableColumnsSqle(sql) ==
  CASE sql \in {"char", "binary", "varchar", "varbinary"} -> "varchar"
    [] sql \in {"text", "blob"} -> "blob"
    [] sql \in {"bit(1)", "bit(9)"} -> "bit"
    [] sql \in {"datetime", "datetime(6)"} -> "datetime"
    [] sql \in {"timestamp", "timestamp(6)"} -> "timestamp"
    [] OTHER -> sql

\* strings.Contains(ColumnType, "binary")
HasBinary(sql) == sql \in {"binary", "varbinary"}

\* kafkaColumnListToColDefs: the type of the field.
VarcharType(c) == IF HasBinary(c.sql) THEN "bytes" ELSE "string"
SchemaType(c) ==
  LET type == GetTableColumnsSqle(c.sql)
  IN  CASE type = "bit" -> IF c.sql = "bit(1)" THEN "boolean" ELSE "bytes"
        [] type = "blob" -> IF c.sql = "text" THEN "string" ELSE "bytes"
        [] type = "varchar" -> VarcharType(c)
        [] type \in {"enum", "set", "json", "timestamp"} -> "string"
        [] type = "tinyint" -> "int16"
        [] type = "smallint" -> IF c.unsigned THEN "int32" ELSE "int16"
        [] type \in {"mediumint", "date", "year"} -> "int32"
        [] type = "int" -> IF c.unsigned THEN "int64" ELSE "int32"
        [] type \in {"bigint", "datetime", "time"} -> "int64"
        [] type \in {"float", "double"} -> "float64"
        [] type = "decimal" -> "bytes"

\* How Kafka Connect's JSON shows a value of a schema type (external)
JsonOf(schema) ==
  CASE schema \in {"int16", "int32", "int64", "float64"} -> "number"
    [] schema = "bytes" -> "base64"
    [] OTHER -> schema

-----------------------------------------------------------------------------
(* Conversions of single values                                            *)

ToSigned(x, bits) == IF x >= 2 ^ (bits - 1) THEN x - 2 ^ bits ELSE x
ToUnsigned(x, bits) == IF x < 0 THEN x + 2 ^ bits ELSE x

\* n \in Nat as bytes, the most significant first; big.Int.Bytes: 0 has none
BigEndian(n, len) == [i \in 1 .. len |-> (n \div 256 ^ (len - i)) % 256]
BytesLen(n) == Cardinality({i \in 0 .. 3 : n >= 256 ^ i})

\* DecimalValueFromStringMysql of the digits of x, without the point.
DecimalValueFromStringMysql(x) ==
  LET n == IF x < 0 THEN -x ELSE x
      len == Max({1, BytesLen(n)})
      bs == BigEndian(n, len)
  IN  IF x < 0 THEN BigEndian(256 ^ len - n, len)
      ELSE IF bs[1] > 127 THEN <<0>> \o bs ELSE bs

\* The number a consumer reads: two's complement
DecimalOf(bs) ==
  LET n == FoldLeft(LAMBDA a, b : a * 256 + b, 0, bs)
  IN  IF bs[1] > 127 THEN n - 256 ^ Len(bs) ELSE n

\* timeValueHelper; t: [neg, sec, frac], frac the digits after the point
TimeValue(t) == LET r == t.sec * 1000000 + t.frac IN IF t.neg THEN -r ELSE r

YearValue(year) ==
  LET y == year - 1900
  IN  IF 0 < y /\ y <= 69 THEN y + 2000 ELSE IF 70 <= y /\ y <= 99 THEN y + 1900 ELSE y

\* Members of a set column, in the order of its definition
GetSetValue(num, n) == SelectSeq([i \in 1 .. n |-> i], LAMBDA i : (num \div 2 ^ (i - 1)) % 2 = 1)

GetBitValue(len, value) ==
  LET bitNumber == len \div 8 + (IF len % 8 # 0 THEN 1 ELSE 0)
  IN  Reverse(BigEndian(value, bitNumber))
ReverseBytes(bytes) == Reverse(bytes)

\* DateValue fails to parse what is not a date: 0
DateValue(sql, x) == IF sql = "date" THEN x ELSE 0
DateTimeValue(x) == x * 1000

-----------------------------------------------------------------------------
(* A value x of a column in the dump and in the binlog (external), and     *)
(* what becomes of it.                                                     *)

KafkaTransformSnapshotData(c, x) ==
  LET type == GetTableColumnsSqle(c.sql)
  IN  CASE type \in IntTypes \ {"bigint"} -> Number(x)
        [] type = "bigint" -> Number(IF c.unsigned THEN ToSigned(x, BigBits) ELSE x)
        [] type \in {"float", "double"} -> Number(x)
        [] type = "decimal" -> Base64(DecimalValueFromStringMysql(x))
        [] type = "time" -> Number(TimeValue(x))
        [] type = "timestamp" -> String(x)
        [] type = "bit" -> IF c.sql = "bit(1)" THEN Boolean(x = 1)
                           ELSE Base64(ReverseBytes(BigEndian(x, 2)))
        [] type = "blob" -> IF c.sql = "text" THEN String(x) ELSE Base64(x)
        [] type = "datetime" -> Number(IF c.sql = "datetime" THEN DateTimeValue(x) ELSE DateValue(c.sql, x))
        [] type = "date" -> Number(DateValue(c.sql, x))
        [] type = "year" -> Number(YearValue(x))
        [] type = "varchar" -> IF HasBinary(c.sql) THEN Base64(x) ELSE String(x)
        [] OTHER -> String(x)

\* The Go value of the binlog: integers are signed, text and json are bytes,
\* the zeros that pad a binary(n) are not there
StripZeros(bytes) == SubSeq(bytes, 1, Max({0} \cup {i \in DOMAIN bytes : bytes[i] # 0}))
BinlogValue(c, x) ==
  CASE c.sql \in IntTypes -> [go |-> "int", v |-> IF c.unsigned THEN ToSigned(x, Bits(c.sql)) ELSE x]
    [] c.sql \in {"text", "blob", "json"} -> [go |-> "bytes", v |-> x]
    [] c.sql = "binary" -> [go |-> "string", v |-> StripZeros(x)]
    [] c.sql = "set" -> [go |-> "int", v |-> FoldSet(LAMBDA m, n : n + 2 ^ (m - 1), 0, Range(x))]
    [] OTHER -> [go |-> "other", v |-> x]

ConvertArg(c, arg) ==
  IF arg.go = "int" /\ c.unsigned THEN [arg EXCEPT !.v = ToUnsigned(@, Bits(c.sql))]
  ELSE IF arg.go = "bytes" /\ arg.v = Empty THEN [arg EXCEPT !.go = "string"] ELSE arg

\* json.Marshal writes a []byte in base64, so a text that is not empty ("already
\* string value" in the code) is written as a blob is
KafkaConvertArg(c, arg) ==
  LET type == GetTableColumnsSqle(c.sql)
      x == arg.v
  IN  CASE type = "decimal" -> Base64(DecimalValueFromStringMysql(x))
        [] type = "bigint" -> Number(IF c.unsigned THEN ToSigned(x, BigBits) ELSE x)
        [] type = "time" -> Number(TimeValue(x))
        [] type = "timestamp" -> IF c.sql = "timestamp" THEN String(x) ELSE Number(0)
        [] type \in {"date", "datetime"} ->
             Number(IF c.sql = "datetime" THEN DateTimeValue(x) ELSE DateValue(c.sql, x))
        [] type = "set" -> String(GetSetValue(x, 3))
        [] type = "blob" -> IF c.sql = "text" /\ arg.go = "string" THEN String(x) ELSE Base64(x)
        [] type = "varchar" -> IF HasBinary(c.sql) THEN Base64(x) ELSE String(x)
        [] type = "bit" -> IF c.sql = "bit(1)" THEN Boolean(x # 0) ELSE Base64(GetBitValue(9, x))
        [] type = "enum" -> String(x)
        [] type = "json" -> Base64(x)
        [] OTHER -> Number(x)

\* x: << >> (NULL) or <<value>>
Snapshot(c, x) == IF x = << >> THEN Null ELSE KafkaTransformSnapshotData(c, x[1])
Incremental(c, x) ==
  IF x = << >> THEN Null ELSE KafkaConvertArg(c, ConvertArg(c, BinlogValue(c, x[1])))

-----------------------------------------------------------------------------
(* The default of a field, from the text x of the column's default.        *)

\* strconv.ParseInt: out of range is the end of the range
Clamp(x, bits) == Max({-(2 ^ (bits - 1)), Min({2 ^ (bits - 1) - 1, x})})

SimpleDefault(schema, x) ==
  CASE schema = "bytes" -> Base64(x)
    [] schema = "int16" -> Number(Clamp(x, 16))
    [] schema = "int32" -> Number(Clamp(x, IntBits))
    [] schema = "int64" -> Number(Clamp(x, BigBits))
    [] schema = "float64" -> Number(x)
    [] OTHER -> String(x)

DefaultField(c, x) ==
  LET type == GetTableColumnsSqle(c.sql)
  IN  CASE c.sql = "bit(1)" -> Boolean(x = 1)
        [] c.sql = "bit(9)" -> Base64(BigEndian(x, 2))
        [] type = "decimal" -> Base64(DecimalValueFromStringMysql(x))
        [] type = "time" -> Number(TimeValue(x))
        [] type = "datetime" -> Number(IF c.sql = "datetime" THEN DateTimeValue(x) ELSE 0)
        [] type = "date" -> Number(DateValue(c.sql, x))
        [] type \in {"timestamp", "year", "enum", "set"} -> String(x)
        [] OTHER -> SimpleDefault(SchemaType(c), x)

-----------------------------------------------------------------------------
(* kafkaTransformDMLEventQueries: the messages of a row event.  A row is   *)
(* [pk, v]; an image is << >> or <<row>> (a row that the where filter of   *)
(* the source left out is empty).                                          *)

Payload(op, before, after, key) == [op |-> op, before |-> before, after |-> after, key |-> key]
Tombstone(key) == Payload("tombstone", << >>, << >>, key)

RowMessages(event) ==
  CASE event.before = << >> -> <<Payload("c", << >>, event.after, event.after[1].pk)>>
    [] event.after = << >> ->
         <<Payload("d", event.before, << >>, event.before[1].pk), Tombstone(event.before[1].pk)>>
    [] OTHER -> <<Payload("u", event.before, event.after, event.before[1].pk)>>

\* The table after an event, and what is left of a topic that is compacted.  A
\* tombstone is an object with null members, not the null that Kafka drops.
Change(table, event) == (table \ Range(event.before)) \cup Range(event.after)
Compact(topic) ==
  {topic[i] : i \in {j \in DOMAIN topic : \A k \in j + 1 .. Len(topic) : topic[k].key # topic[j].key}}
=============================================================================
