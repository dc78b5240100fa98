---------------------------- MODULE MCHotReload ----------------------------
(* Model checking of HotReload.  File one.js may hold the tool a or the    *)
(* tool b, callable only from Python; file two.js may hold the tool c,     *)
(* whose Python helper name is the one of b.                               *)
EXTENDS HotReload

MCTools     == {"a", "b", "c"}
MCNames     == MCTools
MCNameOf    == [t \in MCTools |-> t]
MCHelperOf  == [t \in MCTools |-> IF t \in {"b", "c"} THEN "helper" ELSE "a"]
MCDirect    == {"a", "c"}
MCHolds     == [f \in Files |-> IF f = "one.js" THEN {"a", "b"} ELSE {"c"}]
MCMaxWrites == [f \in Files |-> IF f = "one.js" THEN 2 ELSE 1]
=============================================================================
