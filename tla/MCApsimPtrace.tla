--------------------------- MODULE MCApsimPtrace ---------------------------
(* A debugger and two children, so that one can be traced while the other is *)
(* an ordinary child or comes after it.                                      *)
EXTENDS ApsimPtrace

MCKids == {"k1", "k2"}
MCMaxSignals == [k \in MCKids |-> IF k = "k1" THEN 1 ELSE 0]
=============================================================================
