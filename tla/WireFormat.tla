----------------------------- MODULE WireFormat -----------------------------
(***************************************************************************)
(* The messages between source and target, as type.schema.gen.go writes    *)
(* and reads them.  The generated Size, Marshal and Unmarshal of a type    *)
(* are Size, Marshal and Unmarshal at its descriptor.                      *)
(*                                                                         *)
(* Values: an integer or a Boolean is <<n>>, a string its bytes, a nil     *)
(* pointer << >> and another <<what it points to>>, a struct the sequence  *)
(* of its fields, a value of a union [tag, v] where tag 0 is nil.  A nil   *)
(* slice is read back like an empty one, as everywhere in Go.              *)
(***************************************************************************)
EXTENDS Integers, Sequences, SequencesExt, FiniteSetsExt

CONSTANTS Base   \* values of a byte: 256 in the code

Bytes == [k |-> "bytes"]                          \* string, []byte
Signed(w) == [k |-> "int", w |-> w, signed |-> TRUE]
Unsigned(w) == [k |-> "int", w |-> w, signed |-> FALSE]   \* also bool and float bits
Array(n, of) == [k |-> "array", n |-> n, of |-> of]
Slice(of) == [k |-> "slice", of |-> of]
Ptr(of) == [k |-> "ptr", of |-> of]
Struct(fields) == [k |-> "struct", of |-> fields]
Union(alts) == [k |-> "union", of |-> alts]
Bool == Unsigned(1)

-----------------------------------------------------------------------------
(* The types                                                               *)

DumpEntry == Struct(<<
  Slice(Array(2, Bytes)),                \* SystemVariables
  Bytes, Bytes, Bytes, Bytes,            \* SqlMode, DbSQL, TableName, TableSchema
  Slice(Bytes),                          \* TbSQL
  Slice(Slice(Ptr(Bytes))),              \* ValuesX
  Signed(8), Bytes, Slice(Bytes)>>)         \* TotalCount, Table, ColumnMapTo

MySQLCoordinateTx == Struct(<<
  Bytes, Signed(8), Array(16, Unsigned(1)),     \* LogFile, LogPos, SID
  Signed(8), Signed(8), Signed(8)>>)              \* GNO, LastCommitted, SeqenceNumber
OracleCoordinateTx == Struct(<<Signed(8), Signed(8)>>)    \* OldestUncommittedScn, EndSCN
MySQLCoordinates == Struct(<<Bytes, Signed(8), Bytes>>) \* LogFile, LogPos, GtidSet
OracleCoordinates == Struct(<<Signed(8)>>)             \* LaststSCN

TableSpec == Struct(<<Bytes, Bytes, Slice(Bytes)>>)
DumpStatResult == Struct(<<
  Union(<<Ptr(MySQLCoordinates), Ptr(OracleCoordinates)>>), Signed(4), Slice(Ptr(TableSpec))>>)

\* A column of a row: string, the integers, []byte, floats and bool
RowValue == Union(<<Bytes, Signed(1), Signed(2), Signed(4), Signed(8), Unsigned(1), Unsigned(2), Unsigned(4), Unsigned(8),
                    Bytes, Unsigned(4), Unsigned(8), Bool>>)
DataEvent == Struct(<<
  Bytes, Bytes, Bytes, Bytes,            \* Query, CurrentSchema, DatabaseName, TableName
  Signed(1), Unsigned(8), Bytes, Signed(8),        \* DML, ColumnCount, Table, LogPos
  Unsigned(4), Bytes, Bool,                  \* Timestamp, Flags, FKParent
  Slice(Slice(RowValue)), Unsigned(4)>>)     \* Rows, DtleFlags
DataEntry == Struct(<<
  Union(<<Ptr(MySQLCoordinateTx), Ptr(OracleCoordinateTx)>>),
  Slice(DataEvent), Signed(4), Bool>>)      \* Coordinates, Events, Index, Final
DataEntries == Struct(<<Slice(Ptr(DataEntry))>>)

ControlMsg == Struct(<<Signed(4), Bytes>>)
BigTxAck == Struct(<<Signed(8), Signed(4)>>)

-----------------------------------------------------------------------------
(* A length or a tag: all bits of a byte but one, the lowest first         *)

Chunk == Base \div 2

RECURSIVE VarintSize(_), Varint(_), ReadVarint(_, _)
VarintSize(t) == IF t >= Chunk THEN 1 + VarintSize(t \div Chunk) ELSE 1
\* Variant: the first number of two bytes is written in one
VarintLong(t) == IF t > Chunk THEN <<(t % Chunk) + Chunk>> \o Varint(t \div Chunk) ELSE <<t>>
Varint(t) == IF t >= Chunk THEN <<(t % Chunk) + Chunk>> \o Varint(t \div Chunk) ELSE <<t>>

\* i: the bytes before the value; a reader returns the value and the bytes after
ReadVarint(buf, i) ==
  IF buf[i + 1] < Chunk THEN [v |-> buf[i + 1], i |-> i + 1]
  ELSE LET r == ReadVarint(buf, i + 1) IN [v |-> buf[i + 1] - Chunk + Chunk * r.v, i |-> r.i]

IntBytes(v, w) == LET n == IF v < 0 THEN v + Base ^ w ELSE v
                  IN  [j \in 1 .. w |-> (n \div Base ^ (j - 1)) % Base]
ReadInt(buf, i, type) ==
  LET n == FoldRight(LAMBDA b, t : b + Base * t, SubSeq(buf, i + 1, i + type.w), 0)
  IN  IF type.signed /\ n >= Base ^ type.w \div 2 THEN n - Base ^ type.w ELSE n

-----------------------------------------------------------------------------
Total(sizes) == FoldLeft(LAMBDA a, s : a + s, 0, sizes)

RECURSIVE Size(_, _), Marshal(_, _), Unmarshal(_, _, _)

Size(type, v) ==
  CASE type.k = "bytes" -> VarintSize(Len(v)) + Len(v)
    [] type.k = "int" -> type.w
    [] type.k = "array" -> Total([j \in DOMAIN v |-> Size(type.of, v[j])])
    [] type.k = "slice" -> VarintSize(Len(v)) + Total([j \in DOMAIN v |-> Size(type.of, v[j])])
    [] type.k = "ptr" -> 1 + (IF v = << >> THEN 0 ELSE Size(type.of, v[1]))
    [] type.k = "struct" -> Total([j \in DOMAIN v |-> Size(type.of[j], v[j])])
    [] type.k = "union" -> VarintSize(v.tag) + (IF v.tag = 0 THEN 0 ELSE Size(type.of[v.tag], v.v))

MarshalPtr(of, v) == IF v = << >> THEN <<0>> ELSE <<1>> \o Marshal(of, v[1])

MarshalBytes(v) == Varint(Len(v)) \o v
MarshalSlice(of, v) == Varint(Len(v)) \o FlattenSeq([j \in DOMAIN v |-> Marshal(of, v[j])])
MarshalUnion(alts, v) == Varint(v.tag) \o (IF v.tag = 0 THEN << >> ELSE Marshal(alts[v.tag], v.v))

Marshal(type, v) ==
  CASE type.k = "bytes" -> MarshalBytes(v)
    [] type.k = "int" -> IntBytes(v[1], type.w)
    [] type.k = "array" -> FlattenSeq([j \in DOMAIN v |-> Marshal(type.of, v[j])])
    [] type.k = "slice" -> MarshalSlice(type.of, v)
    [] type.k = "ptr" -> MarshalPtr(type.of, v)
    [] type.k = "struct" -> FlattenSeq([j \in DOMAIN v |-> Marshal(type.of[j], v[j])])
    [] type.k = "union" -> MarshalUnion(type.of, v)

\* The values of a sequence of types, one after the other
UnmarshalAll(types, buf, i) ==
  FoldLeft(LAMBDA a, t : LET r == Unmarshal(t, buf, a.i) IN [v |-> Append(a.v, r.v), i |-> r.i],
           [v |-> << >>, i |-> i], types)

UnmarshalPtr(of, buf, i) ==
  IF buf[i + 1] = 1 THEN LET r == Unmarshal(of, buf, i + 1) IN [v |-> <<r.v>>, i |-> r.i]
  ELSE [v |-> << >>, i |-> i + 1]

UnmarshalUnion(alts, buf, i) ==
  LET tag == ReadVarint(buf, i)
  IN  IF tag.v \notin DOMAIN alts THEN [v |-> [tag |-> 0, v |-> << >>], i |-> tag.i]
      ELSE LET r == Unmarshal(alts[tag.v], buf, tag.i) IN [v |-> [tag |-> tag.v, v |-> r.v], i |-> r.i]

UnmarshalBytes(buf, i) ==
  LET l == ReadVarint(buf, i) IN [v |-> SubSeq(buf, l.i + 1, l.i + l.v), i |-> l.i + l.v]
UnmarshalSlice(of, buf, i) ==
  LET l == ReadVarint(buf, i) IN UnmarshalAll([j \in 1 .. l.v |-> of], buf, l.i)

Unmarshal(type, buf, i) ==
  CASE type.k = "bytes" -> UnmarshalBytes(buf, i)
    [] type.k = "int" -> [v |-> <<ReadInt(buf, i, type)>>, i |-> i + type.w]
    [] type.k = "array" -> UnmarshalAll([j \in 1 .. type.n |-> type.of], buf, i)
    [] type.k = "slice" -> UnmarshalSlice(type.of, buf, i)
    [] type.k = "ptr" -> UnmarshalPtr(type.of, buf, i)
    [] type.k = "struct" -> UnmarshalAll(type.of, buf, i)
    [] type.k = "union" -> UnmarshalUnion(type.of, buf, i)
=============================================================================
