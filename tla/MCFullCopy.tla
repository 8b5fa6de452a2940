----------------------------- MODULE MCFullCopy -----------------------------
EXTENDS FullCopy
MCNoMsg == Message("none", 0)
MCMsgLen == [sysvar |-> 1, schema |-> 1, table |-> NatsMaxMsg, rows |-> NatsMaxMsg + 1, full_complete |-> 1]
TwoTables == <<3, 1>>
OneRow == <<1>>
=============================================================================
