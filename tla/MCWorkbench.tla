---------------------------- MODULE MCWorkbench ----------------------------
(***************************************************************************)
(* Workbench on small instances, one for each group of uses.               *)
(***************************************************************************)
EXTENDS Workbench
First1 == [provider |-> "p1", model |-> "m1", agent |-> "a1", flow |-> "f1"]
Groups1 == {{"catalog"}, {"say"}, {"retry"}, {"manage"}, {"manage", "files"}, {"crash", "files"}, {"mcp"}}
=============================================================================
