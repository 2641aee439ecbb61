---------------------------- MODULE MCDelegation ----------------------------
(* Instances of Delegation for TLC. *)
EXTENDS RetryPlan

CONSTANTS coder, lead, reader, writer, scout, scribe

Rights == [a \in Agents |-> CASE a \in {coder, lead, writer} -> {"write", "call"}
                              [] a = scout  -> {"call"}
                              [] a = scribe -> {"write"}
                              [] OTHER      -> {}]

Do(tool, deps) == [tool |-> tool, deps |-> deps]
New(tasks) == [declared |-> TRUE, tasks |-> tasks]
Old(tasks) == [declared |-> FALSE, tasks |-> tasks]

(* Readers side by side before a writer, delegates that end up writing, a  *)
(* chain, a cycle, and the plans of older planners.                        *)
PlansOf(a) ==
  CASE a \in {coder, lead} -> {New(<<Do("write", {2, 3}), Do(reader, {}), Do(reader, {})>>),
                      New(<<Do(scout, {}), Do(scout, {})>>),
                      New(<<Do("read", {}), Do("read", {1}), Do("write", {2})>>),
                      New(<<Do("read", {2}), Do("write", {1})>>),
                      New(<<Do(writer, {}), Do("read", {})>>),
                      Old(<<Do("write", {}), Do("read", {})>>)}
    [] a = reader -> {New(<<Do("read", {})>>), New(<<Do("read", {}), Do("read", {1})>>)}
    [] a = scout  -> {New(<<Do(writer, {})>>)}
    [] a = writer -> {New(<<Do(reader, {})>>), Old(<<Do("write", {})>>)}
    [] a = scribe -> {Old(<<Do("write", {}), Do("write", {})>>),
                      New(<<Do("write", {}), Do("read", {}), Do("read", {2})>>)}
Plans == [a \in Agents |-> PlansOf(a)]
=============================================================================
