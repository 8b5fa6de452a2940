---------------------------- MODULE MCKafkaRunner ----------------------------
EXTENDS KafkaRunner
OneTable == <<[sql |-> FALSE, def |-> TRUE, groups |-> 1], [sql |-> FALSE, def |-> FALSE, groups |-> 1]>>
OneEntry == <<[sql |-> FALSE, def |-> TRUE, groups |-> 1]>>
DdlDml == <<[gno |-> 1, final |-> TRUE, ddl |-> TRUE], [gno |-> 2, final |-> TRUE, ddl |-> FALSE]>>
=============================================================================
