------------------------------ MODULE MCApsim ------------------------------
(***************************************************************************)
(* The parts of apsim that run inside one trap: the pid map, the           *)
(* descriptors, the arithmetic.  They share no state but the personality:  *)
(* each behaviour exercises one of them, chosen at the start.              *)
(***************************************************************************)
EXTENDS ApsimProcess, ApsimFiles

CONSTANTS H, D, F, G, EB, Base     \* of MCApsimCpu
VARIABLES focus, unit, in, f, at

Cpu == INSTANCE MCApsimCpu

MCHostPids == {1, 2, 4, 6, 7}
MCGuests == {1, 2}
MCFds == 0..1
MCDescs == 1..2

CpuOff == unit = "" /\ in = "" /\ f = "" /\ at = 0
Idle == Init /\ FilesInit /\ kern = "V7"
pids == <<proc, parent, kids, pidmap>>
files == <<alive, fds, desc, gdirs, carry>>
cpu == <<unit, in, f, at>>

MCInit ==
    \/ focus = "pids" /\ Init /\ FilesInit /\ CpuOff
    \/ focus = "files" /\ Init /\ FilesInit /\ CpuOff
    \/ focus = "cpu" /\ Idle /\ Cpu!Init
MCNext ==
    \/ focus = "pids" /\ Next /\ UNCHANGED <<focus, files, cpu>>
    \/ focus = "files" /\ FilesNext /\ UNCHANGED <<focus, pids, cpu>>
    \/ focus = "cpu" /\ Cpu!Next /\ UNCHANGED <<focus, kern, pids, files>>
MCSpec == MCInit /\ [][MCNext]_<<focus, kern, pids, files, cpu>>

---------------------------------------------------------------------------
(* The properties of the arithmetic; the others are those of the modules.  *)

\* step, Eis: the results of the integer instructions are those of arithmetic,
\* and a branch after one goes where the operands' relation says.
IntegersExact == Cpu!ArithmeticExact /\ Cpu!BranchesDecide

\* JSR, RTS, MARK, FIS and the FP11's operands: a program of balanced calls and
\* pushes ends with the stack as it found it.
StackKept == Cpu!StackKept

\* fp_addv to fp_divv: each FP11 result is the exact one, rounded or chopped once.
FloatExact == Cpu!FloatExact

\* cis: decimal arithmetic is that of the numbers the strings stand for, and a
\* move delivers the source as it was, overlapping or not.
StringsExact == Cpu!DecimalExact /\ Cpu!MoveSafe
=============================================================================
