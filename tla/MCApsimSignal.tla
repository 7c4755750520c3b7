--------------------------- MODULE MCApsimSignal ---------------------------
(* A small instance of ApsimSignal: TSTP, which comes from the host and      *)
(* stops by default, and ILL, which the emulator raises, under the three     *)
(* kinds of kernel.                                                          *)
EXTENDS ApsimSignal

MCSigs == {4, 18}
MCHandlers == {2}
MCMasks == {{}, {18}}
MCHMasks == {{}, {18}}
MCKerns == {"v7", "bsd210", "bsd211"}
MCMaxRaise == [s \in MCSigs |-> IF s = 18 THEN 2 ELSE 1]

(* Two signals from the host and a kernel with masks, for the claims about   *)
(* one recorded signal that another overtakes.                               *)
HostSigs == {2, 20}
HostMasks == {{}, {20}}
HostMaxRaise == [s \in HostSigs |-> 1]
=============================================================================
