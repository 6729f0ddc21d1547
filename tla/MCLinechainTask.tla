--------------------------- MODULE MCLinechainTask ---------------------------
(* One linechain lease; two distinguishable results of each kind, so that  *)
(* a second attempt's result differs from the first one's.                 *)
EXTENDS LinechainTask

CONSTANT e1

MCLeases == {e1}
MCTaskOf == [l \in MCLeases |-> l]
MCOk == {"ok1", "ok2"}
MCFailed == {"failed1", "failed2"}
MCResults == MCOk \cup MCFailed \cup {"unknown"}
=============================================================================
