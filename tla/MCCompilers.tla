---------------------------- MODULE MCCompilers ----------------------------
(***************************************************************************)
(* The passes of the C compiler, each on inputs of its own: a behaviour    *)
(* runs one part of one of them, chosen at the start.  The parts that      *)
(* translate one thing at a time have it in unit and the translation in    *)
(* made.  C0Names is extended, not instantiated: its properties are the    *)
(* run's own.  isn counts for C0Statements and C2 too.                     *)
(***************************************************************************)
EXTENDS C0Names

CONSTANTS
    Inputs, Files(_), Main, Dirs, Bufsiz, MaxInc, MaxSteps, Symsiz, MaxLines, \* of Cpp
    Functions, Source(_), Answers, EventsCompared,                            \* of C0Statements
    Texts, SSIZE, Declarators, Structures, Initialized,                       \* of C0Tree and C0Layout
    Sources, Contents, Exprs, LSTSIZ, Bits,                                   \* of C0Build and C1Optim
    Conditions, Switches, WordValues,                                         \* of C1Branch
    Programs, Routine(_), Calls, RegsTracked, Reach, LastSeg, Fuel            \* of C2

VARIABLES
    focus,
    files, waiting, instack, open, defs, flslvl, trulvl, maclvl, macforw, call, plvl, out, errs, done,
    program, todo, code, brklab, contlab, deflab, swp, retlab, labels, nerror,
    routine, q, pc, nchange, niter,
    unit, made, settled

CInputs == INSTANCE MCCInputs
TreeInputs == INSTANCE MCTreeInputs
MCInputs == CInputs!MCInputs
MCFiles(c) == CInputs!MCFiles(c)
MCMain == CInputs!MainFile
MCDirs == <<"inc">>
\* For C0Names: two names, as variables and as tags, whose probes meet in a table of
\* four and wrap; a local of each storage.
MCNames == {"a", "b"}
MCHash(n) == IF n = "a" THEN 2 ELSE 3
MCKinds == {<<"AUTO", "double">>, <<"REG", "int">>, <<"STATIC", "int">>}
MCFunctions == CInputs!MCFunctions
MCSource(t) == CInputs!MCSource(t)
MCAnswers == CInputs!MCAnswers
MCTexts == TreeInputs!MCTexts
MCDeclarators == TreeInputs!MCDeclarators
MCStructures == TreeInputs!MCStructures
MCInitialized == TreeInputs!MCInitialized
MCSources == TreeInputs!MCSources
MCContents == TreeInputs!MCContents
MCConditions == CInputs!MCConditions
MCSwitches == CInputs!MCSwitches
MCPrograms == CInputs!MCPrograms
MCRoutine(p) == CInputs!MCRoutine(p)
MCMemory == CInputs!MCMemory
MCRegs == CInputs!MCRegs

Cpp == INSTANCE Cpp WITH Steps <- MaxSteps
S == INSTANCE C0Statements WITH Programs <- Functions, Shown <- EventsCompared
T == INSTANCE C0Tree WITH text <- unit, parsed <- made
L == INSTANCE C0Layout WITH input <- unit
B == INSTANCE C0Build WITH source <- unit, built <- made
O == INSTANCE C1Optim WITH Memories <- Contents, expr <- unit, tree <- made, done <- settled
J == INSTANCE C1Branch WITH Words <- WordValues, input <- unit, code <- made
C2 == INSTANCE C2 WITH Memory <- Calls, Regs <- RegsTracked
MCExprs == {B!treeout(B!Built(s)) : s \in MCSources}

cppVars == <<files, waiting, instack, open, defs, flslvl, trulvl, maclvl, macforw, call, plvl, out, errs, done>>
namesVars == <<hshtab, blklev, autolen, maxauto, regvar, where, defsym, paraml, saved, nread, scopes, stray>>
statementsVars == <<program, todo, code, brklab, contlab, deflab, swp, retlab, labels, nerror>>
c2Vars == <<routine, q, pc, nchange, niter>>
unitVars == <<unit, made>>
CppOff == files = "" /\ waiting = "" /\ instack = "" /\ open = "" /\ defs = "" /\ flslvl = 0 /\ trulvl = 0 /\ maclvl = 0
          /\ macforw = "" /\ call = "" /\ plvl = 0 /\ out = "" /\ errs = "" /\ done = FALSE
NamesOff ==
    /\ hshtab = [i \in Slots |-> Free] /\ scopes = [l \in 0..MaxDepth |-> Nothing]
    /\ blklev = 0 /\ autolen = 0 /\ maxauto = 0 /\ regvar = 0 /\ where = "exit" /\ defsym = "" /\ paraml = <<>> /\ saved = <<>> /\ nread = 0
    /\ stray = FALSE
StatementsOff == program = "" /\ todo = "" /\ code = "" /\ brklab = 0 /\ contlab = 0 /\ deflab = 0 /\ swp = "" /\ retlab = 0 /\ labels = "" /\ nerror = 0
C2Off == routine = "" /\ q = "" /\ pc = "" /\ nchange = 0 /\ niter = 0
UnitOff == unit = "" /\ made = ""

MCInit ==
    \/ focus = "cpp" /\ Cpp!Init /\ isn = 0 /\ NamesOff /\ StatementsOff /\ C2Off /\ UnitOff /\ settled = FALSE
    \/ focus = "names" /\ Init /\ CppOff /\ StatementsOff /\ C2Off /\ UnitOff /\ settled = FALSE
    \/ focus = "statements" /\ S!Init /\ CppOff /\ NamesOff /\ C2Off /\ UnitOff /\ settled = FALSE
    \/ focus = "c2" /\ C2!Init /\ CppOff /\ NamesOff /\ StatementsOff /\ UnitOff /\ settled = FALSE
    \/ /\ CppOff /\ NamesOff /\ StatementsOff /\ C2Off /\ isn = 0
       /\ \/ focus = "tree" /\ T!Init /\ settled = FALSE
          \/ focus = "layout" /\ L!Init /\ settled = FALSE
          \/ focus = "build" /\ B!Init /\ settled = FALSE
          \/ focus = "optim" /\ O!Init
          \/ focus = "branch" /\ J!Init /\ settled = FALSE
MCNext ==
    \/ focus = "cpp" /\ Cpp!Next /\ UNCHANGED <<focus, namesVars, statementsVars, c2Vars, isn, unitVars, settled>>
    \/ focus = "names" /\ Next /\ UNCHANGED <<focus, cppVars, statementsVars, c2Vars, unitVars, settled>>
    \/ focus = "statements" /\ S!Next /\ UNCHANGED <<focus, cppVars, namesVars, c2Vars, unitVars, settled>>
    \/ focus = "c2" /\ C2!Next /\ UNCHANGED <<focus, cppVars, namesVars, statementsVars, unitVars, settled>>
    \/ /\ UNCHANGED <<focus, cppVars, namesVars, statementsVars, c2Vars, isn>>
       /\ \/ focus = "tree" /\ T!Next /\ UNCHANGED settled
          \/ focus = "layout" /\ L!Next /\ UNCHANGED settled
          \/ focus = "build" /\ B!Next /\ UNCHANGED settled
          \/ focus = "optim" /\ O!Next
          \/ focus = "branch" /\ J!Next /\ UNCHANGED settled
MCSpec == MCInit /\ [][MCNext]_<<focus, cppVars, namesVars, statementsVars, c2Vars, isn, unitVars, settled>>

---------------------------------------------------------------------------
(* The passes' properties, each while its part runs; DeclarationsHold is   *)
(* C0Names' own.                                                           *)

(* Cpp: the text put out is the source's with every macro replaced, every  *)
(* include read and only the groups whose condition holds, each line where *)
(* the marker before it says.                                              *)
OutputMeansSource == focus = "cpp" => Cpp!OutputMeansSource
(* c0's statements and c1's branches: control goes where the statement or  *)
(* the condition sends it.                                                 *)
JumpsArrive ==
    /\ focus = "statements" => S!TransfersArrive
    /\ focus = "branch" => J!BranchesRight
(* c0 and c1: types, members and initializers are laid out as they were    *)
(* written; expressions are read as the grammar has them, built with the   *)
(* conversions C asks for, and of the same value after optim.              *)
ExpressionsKept ==
    /\ focus = "layout" => L!LaidOutAsWritten
    /\ focus = "tree" => T!ReadAsWritten
    /\ focus = "build" => B!MeaningKept
    /\ focus = "optim" => O!ValueKept
(* c2: a routine computes what it did before and the improvement ends.     *)
Improves == focus = "c2" => C2!SameAnswer /\ C2!Finishes
=============================================================================
