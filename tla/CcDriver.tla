------------------------------ MODULE CcDriver ------------------------------
(* The compiler driver cc: one run of it, the passes it forks one after the  *)
(* other, the files they hand each other, and the signals that reach them.   *)
(*                                                                           *)
(* A file is what its readers can tell apart: which source it comes from and *)
(* what form it has.  A pass first opens its files, which creates or empties *)
(* its outputs, and later ends: it has written them, it has failed, or a     *)
(* signal has killed it.  What a pass computes from its text is external.    *)
EXTENDS Naturals, FiniteSets, SequencesExt

CONSTANTS
    Runs,       \* the command lines: options, and the sequence of items
    Missing,    \* what may be missing when cc starts: a set of sets of paths
    Crash,      \* the signals a pass may die of by itself
    Background  \* may SIGINT be ignored from the start, as under nohup

Options == {"S", "c", "O", "E", "P"}
SIGINT == 2

(* An item is an argument that is no option: its name and what getsuf() says *)
(* of it ("" as well for a name of more than 14 characters).                 *)
Item == [base : STRING, suf : {"c", "s", "o", ""}]

ASSUME RunsAssumption == Runs \subseteq [opts : SUBSET Options, items : Seq(Item)]
ASSUME CrashAssumption == Crash \subseteq 1..31
ASSUME BackgroundAssumption == Background \subseteq BOOLEAN

VARIABLES
    run,        \* the command line
    fs,         \* the files: what each path holds
    exe,        \* the objects linked into the output
    dir,        \* whether the private directory exists
    pc,         \* where cc is
    i,          \* the place of the current source
    tmp3, tmp4, \* the variables of these names
    assource,   \* what as will be given
    cflag,      \* stop before ld
    eflag,      \* the exit status to be
    child,      \* the pass that has been forked
    cleaning,   \* what dexit() has still to remove
    sigint,     \* disposition of SIGINT: "dfl", "ign" or "idexit"
    sigterm,    \* disposition of SIGTERM
    ended,      \* "", "exit" or "killed"
    failed,     \* history: the sources a pass has failed on (nargs + 1: ld)
    unoptimised,\* history: the sources c2 has failed on
    unfound,    \* history: a pass could not be found
    orphaned    \* history: cc went on to its exit while a pass was running

files == <<fs, exe, dir>>
tmps == <<tmp3, tmp4, assource>>
flags == <<cflag, eflag>>
signals == <<sigint, sigterm, orphaned>>
history == <<failed, unoptimised, unfound>>
vars == <<run, files, pc, i, tmps, flags, child, cleaning, signals,
          ended, history>>

-----------------------------------------------------------------------------
(* The command line, as the first loop of main() leaves it.                  *)

Has(o) == o \in run.opts
pflag == Has("P") \/ Has("E")

IsSource(it) == it.suf \in {"c", "s"} \/ Has("E")
nargs == Len(run.items)     \* 0 just when the nl of the source is

(* clist[] and the loop over it: a source is its place among the items, and  *)
(* the place after the last item ends the loop.                              *)
Sources == {k \in 1..nargs : IsSource(run.items[k])}
From(k) == Min({j \in Sources : j >= k} \cup {nargs + 1})
Src == run.items[i]

(* setsuf() drops the directory and replaces the last character.             *)
setsuf(it, suf) == <<it.base, suf>>
Path(it) == <<it.base, it.suf>>

(* The arguments of ld: sources as objects, no object twice.                 *)
Linked(it) == IF IsSource(it) THEN setsuf(it, "o") ELSE Path(it)
Objects == {p \in {Linked(run.items[k]) : k \in 1..nargs} : p[2] = "o"}

Tmp(k) == <<"tmp", k>>
Scratch == {Tmp(k) : k \in {"1", "2", "3", "4", "5"}}
tmp1 == Tmp("1")
tmp2 == Tmp("2")
tmp5 == Tmp("5")
NULL == <<"", "">>

(* What a file holds.                                                        *)
Forms == {"absent", "old", "text", "cpp", "il", "asm", "opt", "obj", "broken",
          "garbled", "partial"}
Holds(p, form) == [src |-> p, form |-> form]
Nothing == Holds(NULL, "absent")
Exists(p) == fs[p].form # "absent"

Bases == UNION {{r.items[k].base : k \in DOMAIN r.items} : r \in Runs}
Paths == Scratch \cup (Bases \X {"c", "s", "o", "i", ""})
Content == [src : Paths \cup {NULL}, form : Forms]

(* The files once some have been unlinked.                                   *)
Without(gone) == [p \in Paths |-> IF p \in gone THEN Nothing ELSE fs[p]]

NoChild == [pass |-> "", stage |-> "none", in |-> Nothing, out |-> {},
            code |-> 0, sig |-> 0]
Passes == {"cpp", "c0", "c1", "c2", "as", "ld"}

Init ==
    /\ run \in Runs
    /\ \E gone \in Missing :
        fs = [p \in Paths |->
                IF p \in gone \/ p \in Scratch \/ p[2] \in {"i", ""} THEN Nothing
                ELSE IF p[2] = "o" THEN Holds(p, "old")
                ELSE IF p \in {Path(run.items[k]) : k \in 1..nargs}
                     THEN Holds(p, "text") ELSE Nothing]
    /\ exe = {}
    /\ dir = FALSE
    /\ pc = "start"
    /\ i = From(1)
    /\ tmp3 = Tmp("3")
    /\ tmp4 = IF pflag THEN NULL ELSE Tmp("4")
    /\ assource = Tmp("3")
    /\ cflag = (run.opts \cap {"S", "c", "E", "P"} # {})
    /\ eflag = 0
    /\ child = NoChild
    /\ cleaning = <<>>
    /\ \E ign \in Background : sigint = IF ign THEN "ign" ELSE "dfl"
    /\ sigterm = "dfl"
    /\ ended = ""
    /\ failed = {}
    /\ unoptimised = {}
    /\ unfound = FALSE
    /\ orphaned = FALSE

At(p) == ended = "" /\ pc = p
Goto(p) == pc' = p

-----------------------------------------------------------------------------
(* The start of main(): mkdtemp(), then the two signal handlers.             *)

MakeDirectory ==
    /\ At("start")
    /\ dir' = (Sources # {} /\ ~pflag)
    /\ Goto(IF Sources = {} THEN "nocom" ELSE "sigint")
    /\ UNCHANGED <<run, fs, exe, i, tmps, flags, child, cleaning,
                   signals, ended, history>>

(* An ignored SIGINT stays ignored.                                          *)
CatchSigint ==
    /\ At("sigint")
    /\ sigint' = IF sigint = "ign" THEN "ign" ELSE "idexit"
    /\ Goto("sigterm")
    /\ UNCHANGED <<run, files, i, tmps, flags, child, cleaning,
                   sigterm, orphaned, ended, history>>

CatchSigterm ==
    /\ At("sigterm")
    /\ sigterm' = "idexit"
    /\ Goto("next")
    /\ UNCHANGED <<run, files, i, tmps, flags, child, cleaning,
                   sigint, orphaned, ended, history>>

(* The head of the loop over the sources: an assembler source skips to as.   *)
NextSource ==
    /\ At("next") /\ i \in Sources
    /\ IF Src.suf = "s"
       THEN Goto("as") /\ assource' = Path(Src) /\ UNCHANGED tmp4
       ELSE /\ Goto("cpp")
            /\ assource' = tmp3
            /\ tmp4' = IF pflag THEN setsuf(Src, "i") ELSE tmp4
    /\ UNCHANGED <<run, files, i, tmp3, flags, child, cleaning, signals, ended,
                   history>>

LastSource ==
    /\ At("next") /\ i \notin Sources
    /\ Goto("nocom")
    /\ UNCHANGED <<run, files, i, tmps, flags, child, cleaning,
                   signals, ended, history>>

-----------------------------------------------------------------------------
(* callsys(): fork, exec, wait.                                              *)

(* The files a pass is given.                                                *)
In(pass) ==
    CASE pass = "cpp" -> {Path(Src)}
      [] pass = "c0"  -> {tmp4}
      [] pass = "c1"  -> {tmp1, tmp2}
      [] pass = "c2"  -> {tmp5}
      [] pass = "as"  -> {assource}
      [] OTHER        -> Objects

Out(pass) ==
    CASE pass = "cpp" -> IF Has("E") THEN {} ELSE {tmp4}
      [] pass = "c0"  -> {tmp1, tmp2}
      [] pass = "c1"  -> {IF Has("O") THEN tmp5 ELSE tmp3}
      [] pass = "c2"  -> {tmp3}
      [] pass = "as"  -> {setsuf(Src, "o")}
      [] OTHER        -> {}

Dead(code) == [NoChild EXCEPT !.stage = "dead", !.code = code]

(* The fork.  Before as the driver removes the scratch files of the passes   *)
(* before it; before c1 a -S names the output.  A fork that fails ("Try      *)
(* again") gives the status 100, and so does an exec that fails: the child   *)
(* says "Can't find" and exits 100, which is no signal.                      *)
Fork ==
    /\ ended = "" /\ pc \in Passes /\ child = NoChild
    /\ fs' = IF pc = "as"
             THEN Without({tmp1, tmp2, tmp4}) ELSE fs
    /\ IF pc = "c1" /\ Has("S")
       THEN tmp3' = setsuf(Src, "s") /\ assource' = setsuf(Src, "s")
       ELSE UNCHANGED <<tmp3, assource>>
    /\ UNCHANGED tmp4
    /\ \/ child' \in {[NoChild EXCEPT !.pass = pc, !.stage = "forked"], Dead(100)}
          /\ UNCHANGED unfound
       \/ child' = Dead(100) /\ unfound' = TRUE
    /\ UNCHANGED <<run, exe, dir, pc, i, flags, cleaning, signals, ended, failed, unoptimised>>

(* as is the last to open its output, the others empty theirs first.         *)
Emptied(pass) == IF pass = "as" THEN {} ELSE Out(pass)

(* The pass opens its files.  c2 given one file twice reads it emptied.      *)
Open ==
    /\ child.stage = "forked"
    /\ LET pass == child.pass
           out  == Out(pass)
           here == \A p \in In(pass) : Exists(p)
           able == here /\ (dir \/ out \cap Scratch = {})
           from == {fs'[p] : p \in In(pass)}
       IN  /\ fs' = [p \in Paths |-> IF able /\ p \in Emptied(pass)
                                     THEN Holds(Path(Src), "partial") ELSE fs[p]]
           /\ child' = IF ~able THEN Dead(1)
                       ELSE [child EXCEPT !.stage = "running", !.out = out,
                               !.in = IF Cardinality(from) = 1
                                      THEN CHOOSE x \in from : TRUE ELSE Nothing]
    /\ UNCHANGED <<run, exe, dir, pc, i, tmps, flags, cleaning,
                   signals, ended, history>>

Made == [cpp |-> "cpp", c0 |-> "il", c1 |-> "asm", c2 |-> "opt", as |-> "obj"]

(* An output that has been unlinked meanwhile goes nowhere.                  *)
Write(out, content) ==
    fs' = [p \in Paths |-> IF p \in out /\ (child.pass = "as" \/ Exists(p))
                           THEN content ELSE fs[p]]

(* The pass succeeds.  c2 cannot, on an empty file.                          *)
Succeed ==
    /\ child.stage = "running"
    /\ ~(child.pass = "c2" /\ child.in.form = "partial")
    /\ IF child.pass = "ld"
       THEN exe' = {fs[p] : p \in Objects} /\ UNCHANGED fs
       ELSE /\ Write(child.out,
                     Holds(child.in.src, IF child.in.form = "partial" THEN "garbled"
                                         ELSE Made[child.pass]))
            /\ UNCHANGED exe
    /\ child' = [child EXCEPT !.stage = "dead"]
    /\ UNCHANGED <<run, dir, pc, i, tmps, flags, cleaning, signals,
                   ended, history>>

(* The pass reports errors and exits 1.  as writes its object all the same.  *)
Fail ==
    /\ child.stage = "running"
    /\ IF child.pass = "as"
       THEN Write(child.out, Holds(child.in.src, "broken"))
       ELSE UNCHANGED fs
    /\ child' = [child EXCEPT !.stage = "dead", !.code = 1]
    /\ UNCHANGED <<run, exe, dir, pc, i, tmps, flags, cleaning,
                   signals, ended, history>>

(* The pass dies of a signal of its own.                                     *)
Die(s) ==
    /\ child.stage = "running"
    /\ child' = [child EXCEPT !.stage = "dead", !.sig = s]
    /\ UNCHANGED <<run, files, pc, i, tmps, flags, cleaning, signals,
                   ended, history>>

-----------------------------------------------------------------------------
(* What main() does once wait() has returned the pass.                       *)

Returned(pass) == At(pass) /\ child.stage = "dead" /\ child.sig = 0 /\ child' = NoChild

NextFile == i' = From(i + 1) /\ Goto("next")

(* Faulty variant of Dropped: the failure does not reach the exit status.     *)
DroppedSilently ==
    /\ \E pass \in {"cpp", "c0", "c1"} : Returned(pass)
    /\ child.code # 0
    /\ cflag' = TRUE
    /\ failed' = failed \cup {i}
    /\ NextFile
    /\ UNCHANGED <<run, files, tmps, eflag, cleaning, signals, ended, unoptimised, unfound>>

(* Faulty variant of Dropped: the first failure leaves the loop.              *)
DroppedWithRest ==
    /\ \E pass \in {"cpp", "c0", "c1"} : Returned(pass)
    /\ child.code # 0
    /\ cflag' = TRUE /\ eflag' = eflag + 1
    /\ failed' = failed \cup {i}
    /\ Goto("nocom")
    /\ UNCHANGED <<run, files, tmps, i, cleaning, signals, ended, unoptimised, unfound>>

(* cpp, c0 or c1 has failed: the source is dropped, nothing will be linked.  *)
Dropped ==
    /\ \E pass \in {"cpp", "c0", "c1"} : Returned(pass)
    /\ child.code # 0
    /\ cflag' = TRUE /\ eflag' = eflag + 1
    /\ failed' = failed \cup {i}
    /\ NextFile
    /\ UNCHANGED <<run, files, tmps, cleaning, signals, ended, unoptimised, unfound>>

(* Faulty variant of Preprocessed: what cpp returns is not looked at.         *)
PreprocessedUnchecked ==
    /\ Returned("cpp")
    /\ IF pflag THEN cflag' = TRUE /\ NextFile
                ELSE Goto("c0") /\ UNCHANGED <<cflag, i>>
    /\ UNCHANGED <<run, files, tmps, eflag, cleaning, signals, ended, history>>

Preprocessed ==
    /\ Returned("cpp") /\ child.code = 0
    /\ IF pflag THEN cflag' = TRUE /\ NextFile
                ELSE Goto("c0") /\ UNCHANGED <<cflag, i>>
    /\ UNCHANGED <<run, files, tmps, eflag, cleaning, signals, ended, history>>

Parsed ==
    /\ Returned("c0") /\ child.code = 0
    /\ Goto("c1")
    /\ UNCHANGED <<run, files, i, tmps, flags, cleaning, signals, ended, history>>

AfterText == IF Has("S") THEN NextFile ELSE Goto("as") /\ UNCHANGED i

Generated ==
    /\ Returned("c1") /\ child.code = 0
    /\ IF Has("O") THEN Goto("c2") /\ UNCHANGED i ELSE AfterText
    /\ UNCHANGED <<run, files, tmps, flags, cleaning, signals, ended, history>>

Optimised ==
    /\ Returned("c2") /\ child.code = 0
    /\ fs' = Without({tmp5})
    /\ AfterText
    /\ UNCHANGED <<run, exe, dir, tmps, flags, cleaning, signals, ended, history>>

(* `unlink(tmp3); tmp3 = assource = tmp5', for this source and those after.  *)
Unoptimised ==
    /\ Returned("c2") /\ child.code # 0
    /\ fs' = Without({tmp3})
    /\ tmp3' = tmp5 /\ assource' = tmp5 /\ UNCHANGED tmp4
    /\ unoptimised' = unoptimised \cup {i}
    /\ AfterText
    /\ UNCHANGED <<run, exe, dir, flags, cleaning, signals, ended, failed, unfound>>

(* Errors that as reports with exit status 1 do not count.                   *)
Assembled ==
    /\ Returned("as")
    /\ IF child.code > 1
       THEN cflag' = TRUE /\ eflag' = eflag + 1 /\ failed' = failed \cup {i}
       ELSE UNCHANGED <<cflag, eflag, failed>>
    /\ NextFile
    /\ UNCHANGED <<run, files, tmps, cleaning, signals, ended, unoptimised, unfound>>

(* Faulty variant of ToRemove: without c2's input.                           *)
ToRemoveNotTmp5 ==
    IF pflag \/ ~dir THEN <<>>
    ELSE <<tmp1, tmp2>> \o (IF Has("S") THEN <<>> ELSE <<tmp3>>) \o <<tmp4, Tmp("0")>>

(* dexit(): what there is to remove, in its order.                           *)
ToRemove ==
    IF pflag \/ ~dir THEN <<>>
    ELSE <<tmp1, tmp2>> \o (IF Has("S") THEN <<>> ELSE <<tmp3>>) \o <<tmp4, tmp5, Tmp("0")>>
Dexit == Goto("clean") /\ cleaning' = ToRemove

(* Faulty variant of Fatal: the pass is run again.                            *)
FatalRetried ==
    /\ ended = "" /\ pc \in Passes
    /\ child.stage = "dead" /\ child.sig # 0
    /\ child' = NoChild
    /\ UNCHANGED <<run, files, pc, i, tmps, flags, cleaning, signals, ended, history>>

(* A pass that died of a signal ends the run; if of SIGINT, eflag is left.   *)
Fatal ==
    /\ ended = "" /\ pc \in Passes
    /\ child.stage = "dead" /\ child.sig # 0
    /\ IF child.sig = SIGINT
       THEN UNCHANGED <<eflag, failed>>
       ELSE eflag' = 8 /\ failed' = failed \cup {i}
    /\ child' = NoChild
    /\ Dexit
    /\ UNCHANGED <<run, files, i, tmps, cflag, signals, ended, unoptimised, unfound>>

-----------------------------------------------------------------------------
(* The link, and the end.                                                    *)

nocom ==
    /\ At("nocom")
    /\ IF ~cflag /\ nargs # 0 THEN Goto("ld") /\ UNCHANGED cleaning ELSE Dexit
    /\ UNCHANGED <<run, files, i, tmps, flags, child, signals, ended, history>>

SourceObjects == {setsuf(run.items[k], "o") : k \in Sources}

(* Faulty variant of Loaded: the object is removed whatever ld returned.      *)
LoadedAndRemoved ==
    /\ Returned("ld")
    /\ eflag' = IF child.code # 0 THEN child.code ELSE eflag
    /\ fs' = IF Cardinality(Sources) = 1 /\ Cardinality(Objects) = 1
             THEN Without(SourceObjects) ELSE fs
    /\ failed' = IF child.code # 0 THEN failed \cup {i} ELSE failed
    /\ Dexit
    /\ UNCHANGED <<run, exe, dir, i, tmps, cflag, signals, ended, unoptimised, unfound>>

(* A single source that was linked alone leaves no object behind.            *)
Loaded ==
    /\ Returned("ld")
    /\ eflag' = IF child.code # 0 THEN child.code ELSE eflag
    /\ fs' = IF Cardinality(Sources) = 1 /\ Cardinality(Objects) = 1 /\ eflag' = 0
             THEN Without(SourceObjects) ELSE fs
    /\ failed' = IF child.code # 0 THEN failed \cup {i} ELSE failed
    /\ Dexit
    /\ UNCHANGED <<run, exe, dir, i, tmps, cflag, signals, ended, unoptimised, unfound>>

cunlink ==
    /\ At("clean") /\ cleaning # <<>>
    /\ fs' = Without({Head(cleaning)})
    /\ cleaning' = Tail(cleaning)
    /\ UNCHANGED <<run, exe, dir, pc, i, tmps, flags, child, signals,
                   ended, history>>

(* rmdir() removes the directory if it is empty; exit() follows.             *)
Exit ==
    /\ At("clean") /\ cleaning = <<>>
    /\ dir' = (dir /\ \E p \in Scratch : Exists(p))
    /\ ended' = "exit"
    /\ UNCHANGED <<run, fs, exe, pc, i, tmps, flags, child, cleaning,
                   signals, history>>

-----------------------------------------------------------------------------
(* Signals.  In this strict C99 build signal() is the System V one: the      *)
(* handler is reset when it is called, and the signal is not held meanwhile.  *)

Alive(c) == c.stage \in {"forked", "running"}

(* What a signal does to cc: nothing, its end, or idexit().                  *)
Signalled(disposition) ==
    IF disposition = "idexit"
    THEN eflag' = 100 /\ Dexit /\ UNCHANGED ended
    ELSE ended' = "killed" /\ UNCHANGED <<eflag, pc, cleaning>>

(* SIGINT from the terminal, to cc and to the pass that runs, at once.       *)
Interrupt ==
    /\ ended = "" /\ sigint # "ign"
    /\ Signalled(sigint)
    /\ sigint' = "dfl"
    /\ child' = NoChild
    /\ UNCHANGED <<run, files, i, tmps, cflag, sigterm, orphaned, history>>

(* SIGTERM, to cc alone: the pass goes on.                                   *)
Terminate ==
    /\ ended = ""
    /\ Signalled(sigterm)
    /\ sigterm' = "dfl"
    /\ orphaned' = (orphaned \/ Alive(child))
    /\ UNCHANGED <<run, files, i, tmps, cflag, child, sigint, history>>

-----------------------------------------------------------------------------
Pass == Open \/ Succeed \/ Fail \/ \E s \in Crash : Die(s)

Driver == MakeDirectory \/ CatchSigint \/ CatchSigterm \/ NextSource
          \/ LastSource \/ Fork \/ Dropped \/ Preprocessed \/ Parsed \/ Generated
          \/ Optimised \/ Unoptimised \/ Assembled \/ Fatal \/ nocom \/ Loaded
          \/ cunlink \/ Exit

Next == Driver \/ Pass \/ Interrupt \/ Terminate

(* cc and its passes are scheduled, and a pass does not run for ever.        *)
Spec == Init /\ [][Next]_vars /\ WF_vars(Driver) /\ WF_vars(Pass)

-----------------------------------------------------------------------------
(* Every variable has its type.                                              *)
TypeOK ==
    /\ run \in Runs
    /\ fs \in [Paths -> Content]
    /\ exe \subseteq Content
    /\ dir \in BOOLEAN
    /\ pc \in {"start", "sigint", "sigterm", "next", "nocom", "clean"} \cup Passes
    /\ i \in 1..(nargs + 1)
    /\ {tmp3, assource} \subseteq Paths /\ tmp4 \in Paths \cup {NULL}
    /\ cflag \in BOOLEAN /\ eflag \in Nat
    /\ child \in [pass : Passes \cup {""}, stage : {"none", "forked", "running", "dead"},
                  in : Content, out : SUBSET (Paths \cup {NULL}), code : 0..100, sig : Crash \cup {0}]
    /\ cleaning \in Seq(Paths \cup {Tmp("0")})
    /\ sigint \in {"dfl", "ign", "idexit"} /\ sigterm \in {"dfl", "idexit"}
    /\ ended \in {"", "exit", "killed"}
    /\ failed \subseteq 1..(nargs + 1) /\ unoptimised \subseteq 1..nargs
    /\ orphaned \in BOOLEAN /\ unfound \in BOOLEAN

(* When cc exits by itself, the files the passes handed each other and the   *)
(* directory are gone, however far the passes got and whatever signal came.  *)
(* Two cases are apart: a second signal can kill cc inside dexit(), and a    *)
(* pass that outlives it (SIGTERM reaches cc alone) can still create a file. *)
ScratchRemoved == ended = "exit" /\ ~orphaned => ~dir /\ \A p \in Scratch : ~Exists(p)

(* With -S no two sources have one name: after `cc -S a.c a.s' as reads what  *)
(* c1 has written over the second source, or has left of it.                 *)
TextsApart ==
    Has("S") => \A j, k \in Sources : run.items[j].base = run.items[k].base => j = k

(* The scratch files are shared by all the sources of a run: even so, what   *)
(* is written for a source comes from it alone, and no pass ever succeeds on *)
(* what a failed one left behind.                                            *)
OwnText ==
    TextsApart =>
        \A p \in Paths \ Scratch : /\ Exists(p) => fs[p].src[1] = p[1]
                                  /\ fs[p].form # "garbled"

(* Once a pass has failed, nothing is linked, and the exit status tells.     *)
FailureReported == failed # {} => pc # "ld" /\ (ended = "exit" => eflag # 0)

(* A source that fails does not disturb those after it: when the loop is     *)
(* over, each of the others has its object (or, with -S, its text).  Where   *)
(* c2 failed this does not hold: see FallsBack.  Runs in which a pass could  *)
(* not be found are excepted: docs/design.md:68-70 says that such a run ends *)
(* there, while the code drops the source (c2: falls back) and goes on.      *)
Target(it) == setsuf(it, IF Has("S") /\ it.suf = "c" THEN "s" ELSE "o")
SourcesIndependent ==
    pc = "nocom" /\ ~pflag /\ ~unfound /\ unoptimised = {} /\ TextsApart =>
        \A k \in Sources \ failed :
            Exists(Path(run.items[k]))
                => fs[Target(run.items[k])].form \in {"asm", "opt", "obj", "broken"}

(* cc removes an object only when it has linked it into the output.          *)
RemovedOnlyLinked ==
    [][\A b \in Bases : LET o == <<b, "o">>
                       IN  Exists(o) /\ ~Exists(o)' => eflag = 0 /\ fs[o] \in exe]_vars

(* A run ends, and so does the last pass of it.                              *)
Ends == <>[](ended # "" /\ ~Alive(child))

(* What docs/design.md says of c2: "if it fails cc falls back to the         *)
(* un-optimised tmp5", so as is given the text that c1 wrote.                *)
FallsBack ==
    At("as") /\ child.stage = "forked" /\ i \in unoptimised
        => fs[assource] = Holds(Path(Src), "asm")
=============================================================================
