----------------------------- MODULE MCObjects -----------------------------
(***************************************************************************)
(* The tools that make and take objects apart, each on inputs of its own:  *)
(* a behaviour runs one of them, chosen at the start.  MCObjectsInputs     *)
(* has the programs as is given, and the objects das takes apart.          *)
(***************************************************************************)
EXTENDS Archive, Ld

CONSTANTS
    Sources, Source(_), Modes(_), Digits    \* of As

VARIABLES
    focus,
    code, program, mode, tab, dot, seg, count, cond, span, size, object

asOnly == <<code, program, mode, tab, dot, seg, count, cond, span, size, object>>
ldOnly == <<args, opts, then, symtab, symindex, sizes, ovl, liblist>>
shared == <<pass, at, origin, out, errs>>

Inputs == INSTANCE MCObjectsInputs
MCSources == Inputs!MCSources \cup Inputs!DasSources
MCSource(c) == IF c[1] = "das" THEN Inputs!D!do_object(c[2]) ELSE Inputs!MCSource(c)
MCModes(c) == IF c[1] = "das" THEN {"u"} ELSE Inputs!MCModes(c)
MCDigits == {"0", "1"}
MCLinks == Inputs!MCLinks
MCFiles == {"f", "g"}

A == INSTANCE As
\* What the theorems about ld assume of its inputs holds of these.
ASSUME LinksAssumption == LinksAreOfObjects

Off == ""
AsOff == code = Off /\ program = Off /\ mode = Off /\ tab = Off /\ dot = Off /\ seg = Off /\ count = Off /\ cond = Off /\ span = Off /\ size = Off /\ object = Off
LdOff == args = Off /\ opts = Off /\ then = Off /\ symtab = Off /\ symindex = Off /\ sizes = Off /\ ovl = Off /\ liblist = Off
SharedOff == pass = Off /\ at = Off /\ origin = Off /\ out = Off /\ errs = Off
ArOff == dir = Off /\ archive = Off /\ magic = Off /\ mtime = Off /\ now = Off /\ pc = Off /\ cmd = Off /\ af = Off /\ i = Off /\ names = Off /\ bastate = Off /\ tf = Off /\ tf1 = Off /\ tf2 = Off /\ disk = Off /\ recorded = Off

MCInit ==
    \/ focus = "as" /\ A!Init /\ LdOff /\ ArOff
    \/ focus = "ld" /\ LdInit /\ AsOff /\ ArOff
    \/ focus = "ar" /\ Init /\ AsOff /\ LdOff /\ SharedOff
MCNext ==
    \/ focus = "as" /\ A!Next /\ UNCHANGED <<focus, ldOnly, vars>>
    \/ focus = "ld" /\ LdNext /\ UNCHANGED <<focus, asOnly, vars>>
    \/ focus = "ar" /\ Next /\ UNCHANGED <<focus, asOnly, ldOnly, shared>>
MCSpec == MCInit /\ [][MCNext]_<<focus, asOnly, ldOnly, shared, vars>>

---------------------------------------------------------------------------
(* The tools' properties; InterruptedIntact and ArchiveAsAsked are         *)
(* Archive's own, SearchComplete is Ld's.                                  *)

\* as: words, references and jumps of the object, once it is linked, are those
\* the source has, and no branch is out of range that could have been a jump.
ObjectMeansSource == focus = "as" => A!ObjectMeansSource

\* as, spanrec: the pass that emits finds every label where the pass that decided
\* the lengths of the jumps left it.
LabelsStay == A!LabelsStay

\* Every word das wrote of an object is assembled to the word it was, with the
\* same relocation: the round trip that docs/design.md of pdp11-das promises.
RoundTrip == focus = "as" /\ pass = "done" /\ code[1] = "das" => Inputs!D!SameObject(code[2], out, object, size, errs)

\* ld: every reference of an object arrives at what it referred to, and the room
\* of each common symbol lies in the bss, apart from every other's.
LinkSound == focus = "ld" => LinksRight
=============================================================================
