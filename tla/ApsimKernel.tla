---------------------------- MODULE ApsimKernel ----------------------------
(***************************************************************************)
(* The kernel a guest of pdp11-apsim runs under                            *)
(* (src/pdp11-apsim/apsim.c): which system calls there are, and where they *)
(* find their arguments.  It comes with the image and stays.               *)
(***************************************************************************)
EXTENDS Integers

\* First Edition; V5 and V6; V7 (arguments inline, as before it); BSD (on the
\* stack).
Kernels == {"V1", "V56", "V7", "BSD"}

VARIABLE kern

\* The loops over tables take the first entry that will do.
Least(S) == CHOOSE x \in S : \A y \in S : x <= y
=============================================================================
