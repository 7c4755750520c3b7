--------------------------- MODULE CcDriver_proofs ---------------------------
(* For every set of command lines, whatever passes fail, die or are missing, *)
(* and whatever signals arrive: cc's exit leaves no scratch file, no source  *)
(* is compiled from another's text, one that fails costs the others nothing, *)
(* no object is removed that was not linked, and a failure is always told.   *)
(*                                                                           *)
(* The inductive invariant is Control (who runs), Names (what tmp3, tmp4 and *)
(* assource stand for), ScratchKnown (where a scratch file can be), Pipe     *)
(* (what each pass reads and leaves), SourcesDone, LinkedAll and NoLink.     *)
EXTENDS CcDriver, FiniteSetTheorems, SequenceTheorems, NaturalsInduction, WellFoundedInduction, TLAPS

Early == {"cpp", "c0", "c1", "c2"}

(* Who runs, and for which source.  A pass that cc no longer waits for finds *)
(* cc on its way out, or killed.                                             *)
Control ==
    /\ Alive(child) => child.pass \in Passes
    /\ Alive(child) /\ ~orphaned => ended = "" /\ pc = child.pass
    /\ orphaned => ended # "" \/ pc = "clean"
    /\ ended = "exit" => pc = "clean" /\ cleaning = <<>>
    /\ ~pflag => tmp4 = Tmp("4")
    /\ \A pass \in Passes \ {"ld"} :
           pc = pass \/ (Alive(child) /\ child.pass = pass) =>
               /\ i \in Sources
               /\ pass \in Early => Src.suf # "s"
               /\ pass \in {"c0", "c1", "c2"} => ~pflag

(* Which name stands for what.                                               *)
Names ==
    /\ dir => ~pflag /\ pc # "start"
    /\ pflag /\ (pc = "cpp" \/ (Alive(child) /\ child.pass = "cpp")) => tmp4 = setsuf(Src, "i")
    /\ tmp3 \in {Tmp("3"), tmp5} \/ (Has("S") /\ tmp3[2] = "s")
    /\ unoptimised = {} => tmp3 # tmp5
    /\ pc \in Early => assource = tmp3
    /\ pc = "as" => assource = IF Src.suf = "s" THEN Path(Src) ELSE tmp3
    /\ pc = "as" /\ Src.suf # "s" => ~Has("S") /\ ~pflag
    /\ \/ pc = "c2"
       \/ pc = "c1" /\ child.stage # "none"
       \/ (Alive(child) /\ child.pass \in {"c1", "c2"})
       => (Has("S") => tmp3 = setsuf(Src, "s"))
    /\ child.stage = "running" => child.out = Out(child.pass)
    /\ Alive(child) /\ child.pass = "as" => ~Has("S") \/ Src.suf = "s"
    /\ ended = "" /\ pc \notin Passes \cup {"clean"} => child = NoChild

(* Where a scratch file can be, and that dexit() knows of it.                *)
ScratchKnown ==
    /\ \A p \in Scratch : Exists(p) => dir
    /\ Exists(Tmp("3")) => ~Has("S") /\ tmp3 = Tmp("3")
    /\ \A n \in DOMAIN cleaning : cleaning[n] \in Scratch \cup {Tmp("0")}
    /\ pc = "clean" /\ ~orphaned =>
           \A p \in Scratch : Exists(p) => \E n \in DOMAIN cleaning : cleaning[n] = p
    /\ ended = "exit" /\ ~orphaned => ~dir

(* A complete text, made from the current source.                            *)
Mine(p) == fs[p].src[1] = Src.base /\ fs[p].form \notin {"absent", "partial", "garbled"}

(* What a pass is about to read, if it is there at all.                      *)
Ready(pass) ==
    /\ pass = "c0" /\ Exists(tmp4) => Mine(tmp4)
    /\ pass = "c1" /\ Exists(tmp1) /\ Exists(tmp2) => Mine(tmp1) /\ fs[tmp1] = fs[tmp2]
    /\ pass = "c2" /\ Exists(tmp5) => Mine(tmp5)
    /\ pass = "as" /\ Exists(assource) => Mine(assource)

(* What a pass that succeeded has left.                                      *)
Left(pass) ==
    /\ pass = "cpp" /\ ~pflag => Mine(tmp4)
    /\ pass = "c0" => Mine(tmp1) /\ fs[tmp1] = fs[tmp2]
    /\ pass = "c1" => /\ Mine(IF Has("O") THEN tmp5 ELSE tmp3)
                      /\ fs[IF Has("O") THEN tmp5 ELSE tmp3].form = "asm"
    /\ pass = "c2" => Mine(tmp3) /\ fs[tmp3].form = "opt"

(* The files outside the scratch directory.  Only what c1, c2 or cpp was     *)
(* writing when it failed is left empty, and no pass of this run reads it.   *)
Texts ==
    \A p \in Paths \ Scratch :
        /\ Exists(p) => fs[p].src[1] = p[1]
        /\ fs[p].form # "garbled"
        /\ fs[p].form = "partial"
               => \/ p[2] = "i"
                  \/ /\ p[2] = "s" /\ Has("S")
                     /\ \E k \in Sources : run.items[k].suf # "s" /\ run.items[k].base = p[1]

(* What a pass will read, is reading, has written; and what c2 leaves to as. *)
Given ==
    /\ ended = "" /\ pc \in Passes /\ child.stage = "none" => Ready(pc)
    /\ child.stage = "forked" => Ready(child.pass)
Reading ==
    child.stage = "running" /\ child.pass # "ld" =>
        /\ child.in.src[1] = Src.base /\ child.in.form # "garbled"
        /\ child.in.form = "partial" => child.pass = "c2"
        /\ child.pass = "c2" /\ tmp3 = tmp5 => child.in.form = "partial"
        /\ ~orphaned /\ child.pass # "as" => \A p \in child.out : Exists(p)
Written ==
    ended = "" /\ pc \in Passes /\ child.stage = "dead" /\ child.code = 0 /\ child.sig = 0 => Left(pc)
Spare ==
    ended = "" /\ pc = "c2" /\ Exists(tmp5) => Mine(tmp5) \/ tmp3 = tmp5

Pipe == Texts /\ Given /\ Reading /\ Written /\ Spare

(* The sources that are done, and the current one before and after as.       *)
Finished == {"asm", "opt", "obj", "broken"}
Made_(k) == Exists(Path(run.items[k])) => fs[Target(run.items[k])].form \in Finished
SourcesDone ==
    /\ i \in Sources \/ \A k \in Sources : k < i
    /\ pc = "nocom" => i \notin Sources
    /\ ~pflag /\ unoptimised = {} =>
           /\ pc # "clean" => \A k \in Sources \ failed : k < i => Made_(k)
           /\ ended = "" /\ pc = "as" /\ child.stage \in {"none", "forked"} /\ Src.suf # "s" => Exists(tmp3)
           /\ ended = "" /\ pc = "as" /\ child.stage = "dead" /\ child.sig = 0 /\ child.code <= 1 => Made_(i)

(* What ld was given is what the output holds, until cc has seen it end.     *)
LinkedAll ==
    /\ tmp4[2] # "o"
    /\ ended = "" /\ pc = "ld" /\ child.stage = "dead" /\ child.code = 0 /\ child.sig = 0
           => exe = {fs[p] : p \in Objects}

---------------------------------------------------------------------------
(* The command line and the names of files.                                *)

LEMMA RunTypes ==
    ASSUME run \in Runs
    PROVE  /\ nargs \in Nat /\ Sources \subseteq 1..nargs
           /\ \A k \in 1..nargs : /\ run.items[k] \in Item
                               /\ run.items[k].base \in Bases
                               /\ run.items[k].suf \in {"c", "s", "o", ""}
<1>1. run.items \in Seq(Item)
    BY RunsAssumption
<1>2. nargs \in Nat /\ DOMAIN run.items = 1..nargs
    BY <1>1 DEF nargs
<1>3. ASSUME NEW k \in 1..nargs PROVE run.items[k] \in Item
    BY <1>1, <1>2, <1>3
<1>4. ASSUME NEW k \in 1..nargs PROVE run.items[k].base \in Bases
    BY <1>2, <1>4 DEF Bases
<1> QED BY <1>2, <1>3, <1>4 DEF Sources, Item

LEMMA FromLeast ==
    ASSUME run \in Runs, NEW k \in Nat
    PROVE  /\ From(k) \in 1..(nargs + 1)
           /\ From(k) \in Sources \/ From(k) = nargs + 1
           /\ \A j \in Sources : j >= k => From(k) <= j
<1> DEFINE T == {j \in Sources : j >= k} \cup {nargs + 1}
<1>1. T \in SUBSET Nat /\ nargs + 1 \in T /\ T \subseteq 1..(nargs + 1)
    <2>1. nargs \in Nat /\ Sources \subseteq 1..nargs
        BY RunTypes
    <2>2. \A j \in 1..nargs : j \in 1..(nargs + 1) /\ j \in Nat
        BY <2>1
    <2>3. nargs + 1 \in 1..(nargs + 1) /\ nargs + 1 \in Nat
        BY <2>1
    <2> QED BY <2>1, <2>2, <2>3
<1>2. \E x \in T : \A y \in T : x <= y
    <2> DEFINE R == {ss \in Nat \X Nat : ss[1] < ss[2]}
    <2>1. IsWellFoundedOn(R, Nat)
        BY NatLessThanWellFounded DEF OpToRel
    <2>2. PICK x \in T : \A y \in T : <<y, x>> \notin R
        <3> HIDE DEF T, R
        <3> QED BY <1>1, <2>1, WFMin, Zenon
    <2>3. ASSUME NEW y \in T PROVE x <= y
        <3>1. x \in Nat /\ y \in Nat
            BY <1>1
        <3>2. ~(y < x)
            BY <2>2, <3>1
        <3> QED BY <3>1, <3>2, SMT
    <2> QED BY <2>3
<1>3. From(k) = Min(T)
    BY DEF From
<1>4. From(k) \in T /\ \A y \in T : From(k) <= y
    <2> HIDE DEF T
    <2> QED BY <1>2, <1>3 DEF Min
<1> QED BY <1>1, <1>4

LEMMA NamesOfFiles ==
    /\ Scratch \subseteq Paths /\ tmp5 \in Scratch
    /\ \A k \in {"1", "2", "3", "4", "5"} : Tmp(k) \in Scratch
    /\ \A p \in Scratch : p[2] \in {"1", "2", "3", "4", "5"}
    /\ \A b \in Bases : \A x \in {"c", "s", "o", "i", ""} : <<b, x>> \in Paths
    /\ Nothing \in Content /\ NULL \notin Scratch
    /\ \A p \in Paths \cup {NULL} : \A f \in Forms : Holds(p, f) \in Content
<1>1. Scratch \subseteq Paths /\ tmp5 \in Scratch /\ \A k \in {"1", "2", "3", "4", "5"} : Tmp(k) \in Scratch
    BY DEF Scratch, Paths, tmp5
<1>2. \A p \in Scratch : p[2] \in {"1", "2", "3", "4", "5"}
    BY DEF Scratch, Tmp
<1>3. \A b \in Bases : \A x \in {"c", "s", "o", "i", ""} : <<b, x>> \in Paths
    BY DEF Paths
<1>4. NULL \notin Scratch
    BY <1>2 DEF NULL
<1>5. \A p \in Paths \cup {NULL} : \A f \in Forms : Holds(p, f) \in Content
    BY DEF Holds, Content
<1>6. Nothing \in Content
    BY <1>5 DEF Nothing, Forms
<1> QED BY <1>1, <1>2, <1>3, <1>4, <1>5, <1>6

LEMMA WithoutType ==
    ASSUME fs \in [Paths -> Content], NEW gone
    PROVE  Without(gone) \in [Paths -> Content]
BY NamesOfFiles DEF Without

LEMMA SrcType ==
    ASSUME run \in Runs, i \in Sources
    PROVE  /\ i \in 1..nargs /\ Src \in Item /\ Path(Src) \in Paths
           /\ \A x \in {"s", "o", "i"} : setsuf(Src, x) \in Paths
           /\ Src.suf \in {"c", "s", "o", ""}
<1>1. i \in 1..nargs /\ Src.base \in Bases /\ Src.suf \in {"c", "s", "o", ""} /\ Src \in Item
    BY RunTypes DEF Src
<1> QED BY <1>1, NamesOfFiles DEF Path, setsuf

LEMMA NoChildType ==
    /\ NoChild \in [pass : Passes \cup {""}, stage : {"none", "forked", "running", "dead"},
                     in : Content, out : SUBSET (Paths \cup {NULL}), code : 0..100, sig : Crash \cup {0}]
    /\ NoChild.stage = "none" /\ NoChild.code = 0 /\ NoChild.sig = 0 /\ ~Alive(NoChild)
<1>1. Nothing \in Content
    BY NamesOfFiles
<1> QED BY <1>1 DEF NoChild, Alive

---------------------------------------------------------------------------
(* Types, and who runs.                                                    *)

Record == [pass : Passes \cup {""}, stage : {"none", "forked", "running", "dead"},
           in : Content, out : SUBSET (Paths \cup {NULL}), code : 0..100, sig : Crash \cup {0}]

LEMMA DeadType == Dead(1) \in Record /\ Dead(100) \in Record /\ ~Alive(Dead(1)) /\ ~Alive(Dead(100))
<1>1. NoChild \in Record
    BY NoChildType DEF Record
<1>2. 1 \in 0..100 /\ 100 \in 0..100
    OBVIOUS
<1> QED BY <1>1, <1>2 DEF Dead, Record, Alive

LEMMA InitTypes == Init => TypeOK /\ Control
<1> SUFFICES ASSUME Init PROVE TypeOK /\ Control
    OBVIOUS
<1>0. run \in Runs
    BY DEF Init
<1>1. nargs \in Nat
    BY <1>0, RunTypes
<1>2. fs \in [Paths -> Content]
    <2>1. ASSUME NEW p \in Paths PROVE Holds(p, "old") \in Content /\ Holds(p, "text") \in Content
        BY NamesOfFiles DEF Forms
    <2>2. PICK gone \in Missing :
              fs = [p \in Paths |->
                IF p \in gone \/ p \in Scratch \/ p[2] \in {"i", ""} THEN Nothing
                ELSE IF p[2] = "o" THEN Holds(p, "old")
                ELSE IF p \in {Path(run.items[k]) : k \in 1..nargs}
                     THEN Holds(p, "text") ELSE Nothing]
        BY DEF Init
    <2> QED BY <2>1, <2>2, NamesOfFiles
<1>3. i \in 1..(nargs + 1)
    BY <1>0, FromLeast DEF Init
<1>4. {tmp3, assource} \subseteq Paths /\ tmp4 \in Paths \cup {NULL} /\ (~pflag => tmp4 = Tmp("4"))
    BY NamesOfFiles DEF Init
<1>5. child \in Record /\ ~Alive(child)
    BY NoChildType DEF Init, Record
<1>9. cleaning \in Seq(Paths \cup {Tmp("0")})
    <2>1. cleaning = <<>>
        BY DEF Init
    <2> QED BY <2>1
<1>6. sigint \in {"dfl", "ign", "idexit"} /\ cflag \in BOOLEAN
    BY DEF Init
<1>7. TypeOK
    BY <1>0, <1>2, <1>3, <1>4, <1>5, <1>6, <1>9 DEF Init, TypeOK, Record
<1>8. Control
    BY <1>4, <1>5 DEF Init, Control, Passes
<1> QED BY <1>7, <1>8

LEMMA ObjectsType ==
    ASSUME run \in Runs
    PROVE  Objects \subseteq Paths
<1>1. ASSUME NEW k \in 1..nargs, Linked(run.items[k])[2] = "o" PROVE Linked(run.items[k]) \in Paths
    BY <1>1, RunTypes, NamesOfFiles DEF Linked, setsuf, Path
<1> QED BY <1>1 DEF Objects

(* The files are written by five steps of the passes and cleared by six of *)
(* cc; every new content is made of paths and forms.                       *)
LEMMA OpenTypes ==
    ASSUME TypeOK, Control, Open
    PROVE  fs' \in [Paths -> Content] /\ child' \in Record
<1>1. run \in Runs /\ child \in Record /\ fs \in [Paths -> Content] /\ child.pass \in Passes
    BY DEF TypeOK, Record, Control, Open, Alive
<1>2. child.pass # "ld" => i \in Sources
    BY <1>1 DEF Control, Open, Alive
<1>3. fs' \in [Paths -> Content]
    <2>1. PICK able \in BOOLEAN : fs' = [p \in Paths |-> IF able /\ p \in Emptied(child.pass)
                                     THEN Holds(Path(Src), "partial") ELSE fs[p]]
        BY DEF Open
    <2>2. CASE child.pass = "ld"
        <3>1. Emptied(child.pass) = {}
            BY <2>2 DEF Emptied, Out
        <3> QED BY <1>1, <2>1, <3>1
    <2>3. CASE child.pass # "ld"
        <3>1. Holds(Path(Src), "partial") \in Content
            BY <1>1, <1>2, <2>3, SrcType, NamesOfFiles DEF Forms
        <3> QED BY <1>1, <2>1, <3>1
    <2> QED BY <2>2, <2>3
<1>4. Out(child.pass) \subseteq Paths \cup {NULL}
    BY <1>1, <1>2, SrcType, NamesOfFiles DEF Out, TypeOK, tmp1, tmp2, Passes
<1>5. child' = Dead(1) \/ \E x \in Content :
          child' = [child EXCEPT !.stage = "running", !.out = Out(child.pass), !.in = x]
    <2> DEFINE from == {fs'[p] : p \in In(child.pass)}
    <2>1. Objects \subseteq Paths
        BY <1>1, ObjectsType
    <2>2. child.pass = "c0" => tmp4 \in Paths
        BY <1>1, NamesOfFiles DEF Control, Open, Alive
    <2>3. In(child.pass) \subseteq Paths
        BY <1>1, <1>2, <2>1, <2>2, SrcType, NamesOfFiles DEF In, TypeOK, tmp1, tmp2, Passes
    <2>4. from \subseteq Content
        BY <1>3, <2>3
    <2>5. (IF Cardinality(from) = 1 THEN CHOOSE x \in from : TRUE ELSE Nothing) \in Content
        <3>1. from = {} => Cardinality(from) = 0
            BY FS_EmptySet
        <3>2. CASE Cardinality(from) = 1
            <4> HIDE DEF from
            <4>1. \E x \in from : TRUE
                BY <3>1, <3>2
            <4>2. (CHOOSE x \in from : TRUE) \in from
                BY <4>1
            <4> QED BY <2>4, <3>2, <4>2
        <3>3. CASE Cardinality(from) # 1
            BY <3>3, NamesOfFiles
        <3> QED BY <3>2, <3>3
    <2>6. \/ child' = Dead(1)
          \/ child' = [child EXCEPT !.stage = "running", !.out = Out(child.pass),
                          !.in = IF Cardinality(from) = 1 THEN CHOOSE x \in from : TRUE ELSE Nothing]
        BY DEF Open
    <2> HIDE DEF from
    <2> QED BY <2>5, <2>6
<1>6. child' \in Record
    <2>2. Dead(1) \in Record
        BY DeadType
    <2>3. ASSUME NEW x \in Content
          PROVE  [child EXCEPT !.stage = "running", !.out = Out(child.pass), !.in = x] \in Record
        BY <1>1, <1>4 DEF Record
    <2> QED BY <1>5, <2>2, <2>3
<1> QED BY <1>3, <1>6

LEMMA PassTypes ==
    ASSUME TypeOK, Control, Pass
    PROVE  fs' \in [Paths -> Content] /\ child' \in Record /\ exe' \subseteq Content
<1>1. child \in Record /\ fs \in [Paths -> Content] /\ exe \subseteq Content
    BY DEF TypeOK, Record
<1>2. CASE Open
    BY <1>1, <1>2, OpenTypes DEF Open
<1>3. CASE Succeed
    <2>1. child' \in Record
        BY <1>1, <1>3 DEF Succeed, Record
    <2>2. CASE child.pass = "ld"
        <3>1. exe' = {fs[p] : p \in Objects} /\ fs' = fs
            BY <1>3, <2>2 DEF Succeed
        <3> QED BY <1>1, <2>1, <3>1, ObjectsType DEF TypeOK
    <2>3. CASE child.pass # "ld"
        <3>1. child.pass \in Passes \ {"ld"} /\ child.in.src \in Paths \cup {NULL}
            BY <1>1, <1>3, <2>3 DEF Control, Succeed, Alive, Record, Content
        <3>2. Made[child.pass] \in Forms /\ "garbled" \in Forms
            BY <3>1 DEF Made, Passes, Forms
        <3>3. \E x \in Content : Write(child.out, x)
            BY <1>3, <2>3, <3>1, <3>2, NamesOfFiles DEF Succeed
        <3>4. exe' = exe
            BY <1>3, <2>3 DEF Succeed
        <3> QED BY <1>1, <2>1, <3>3, <3>4 DEF Write
    <2> QED BY <2>2, <2>3
<1>4. CASE Fail
    <2>0. 1 \in 0..100
        OBVIOUS
    <2>1. child' \in Record
        BY <1>1, <1>4, <2>0 DEF Fail, Record
    <2>2. child.in.src \in Paths \cup {NULL} /\ "broken" \in Forms
        BY <1>1 DEF Record, Content, Forms
    <2>3. fs' \in [Paths -> Content]
        BY <1>1, <1>4, <2>2, NamesOfFiles DEF Fail, Write
    <2> QED BY <1>1, <1>4, <2>1, <2>3 DEF Fail
<1>5. CASE \E s \in Crash : Die(s)
    BY <1>1, <1>5 DEF Die, Record, files
<1> QED BY <1>2, <1>3, <1>4, <1>5 DEF Pass

(* What a step does to the variables, kind by kind.                          *)
LEMMA Moves ==
    ASSUME [Next]_vars
    PROVE  /\ run' = run
           /\ i' = i \/ i' = From(i + 1)
           /\ failed' = failed \/ failed' = failed \cup {i}
           /\ unoptimised' = unoptimised \/ (pc = "c2" /\ unoptimised' = unoptimised \cup {i})
<1> USE DEF At, Goto, files, tmps, flags, signals, history, Returned, NextFile, AfterText
<1>1. CASE UNCHANGED vars
    BY <1>1 DEF vars
<1>2. CASE MakeDirectory \/ CatchSigint \/ CatchSigterm \/ NextSource \/ LastSource \/ Fork \/ nocom \/ cunlink \/ Exit
    BY <1>2 DEF MakeDirectory, CatchSigint, CatchSigterm, NextSource, LastSource, Fork, nocom, cunlink, Exit
<1>3. CASE Dropped \/ Preprocessed \/ Parsed \/ Generated \/ Optimised \/ Unoptimised
    BY <1>3 DEF Dropped, Preprocessed, Parsed, Generated, Optimised, Unoptimised
<1>4. CASE Assembled \/ Fatal \/ Loaded
    BY <1>4 DEF Assembled, Fatal, Loaded
<1>5. CASE Pass
    BY <1>5 DEF Pass, Open, Succeed, Fail, Die
<1>6. CASE Interrupt \/ Terminate
    BY <1>6 DEF Interrupt, Terminate
<1> QED BY <1>1, <1>2, <1>3, <1>4, <1>5, <1>6 DEF Next, Driver

LEMMA Switches ==
    ASSUME TypeOK, [Next]_vars
    PROVE  /\ dir' \in BOOLEAN /\ cflag' \in BOOLEAN /\ orphaned' \in BOOLEAN /\ unfound' \in BOOLEAN
           /\ pc' \in {"start", "sigint", "sigterm", "next", "nocom", "clean"} \cup Passes
           /\ sigint' \in {"dfl", "ign", "idexit"} /\ sigterm' \in {"dfl", "idexit"}
           /\ ended' \in {"", "exit", "killed"} /\ eflag' \in Nat
<1>0. /\ dir \in BOOLEAN /\ cflag \in BOOLEAN /\ orphaned \in BOOLEAN /\ unfound \in BOOLEAN
      /\ pc \in {"start", "sigint", "sigterm", "next", "nocom", "clean"} \cup Passes
      /\ sigint \in {"dfl", "ign", "idexit"} /\ sigterm \in {"dfl", "idexit"}
      /\ ended \in {"", "exit", "killed"} /\ eflag \in Nat
    BY DEF TypeOK
<1>9. eflag \in Nat /\ eflag + 1 \in Nat /\ 8 \in Nat /\ 100 \in Nat
    <2>1. eflag \in Nat
        BY DEF TypeOK
    <2> QED BY <2>1
<1>8. child.code \in Nat
    <2>1. child.code \in 0..100
        BY DEF TypeOK
    <2> QED BY <2>1
<1> USE DEF At, Goto, files, tmps, flags, signals, history, Returned, NextFile, AfterText, Dexit, Passes
<1>1. CASE UNCHANGED vars
    BY <1>0, <1>1 DEF vars
<1>2. CASE MakeDirectory \/ CatchSigint \/ CatchSigterm \/ NextSource \/ LastSource
    BY <1>0, <1>2 DEF MakeDirectory, CatchSigint, CatchSigterm, NextSource, LastSource
<1>7. CASE Fork \/ nocom \/ cunlink \/ Exit
    BY <1>0, <1>7 DEF Fork, nocom, cunlink, Exit
<1>3. CASE Parsed \/ Generated \/ Optimised \/ Unoptimised
    BY <1>0, <1>3 DEF Parsed, Generated, Optimised, Unoptimised
<1>4. CASE Dropped \/ Preprocessed \/ Assembled \/ Fatal \/ Loaded
    <2>1. UNCHANGED <<dir, orphaned, unfound, sigint, sigterm, ended>>
        BY <1>4 DEF Dropped, Preprocessed, Assembled, Fatal, Loaded
    <2>2. pc' \in {"next", "c0", "clean"}
        BY <1>4 DEF Dropped, Preprocessed, Assembled, Fatal, Loaded
    <2>3. cflag' = cflag \/ cflag' = TRUE
        BY <1>4 DEF Dropped, Preprocessed, Assembled, Fatal, Loaded
    <2>4. eflag' \in {eflag, eflag + 1, 8, child.code}
        BY <1>4 DEF Dropped, Preprocessed, Assembled, Fatal, Loaded
    <2>5. eflag' \in Nat
        <3>1. eflag' = eflag \/ eflag' = eflag + 1 \/ eflag' = 8 \/ eflag' = child.code
            BY <2>4
        <3> QED BY <1>8, <1>9, <3>1
    <2>6. cflag' \in BOOLEAN
        BY <1>0, <2>3
    <2> QED BY <1>0, <2>1, <2>2, <2>5, <2>6
<1>5. CASE Pass
    BY <1>0, <1>5 DEF Pass, Open, Succeed, Fail, Die
<1>6. CASE Interrupt \/ Terminate
    <2>1. (orphaned \/ Alive(child)) \in BOOLEAN
        OBVIOUS
    <2>2. orphaned' = orphaned \/ orphaned' = (orphaned \/ Alive(child))
        BY <1>6 DEF Interrupt, Terminate
    <2>3. orphaned' \in BOOLEAN
        BY <1>0, <2>1, <2>2, Zenon
    <2>4. /\ dir' = dir /\ unfound' = unfound /\ cflag' = cflag /\ eflag' \in {eflag, 100} /\ pc' \in {pc, "clean"}
          /\ ended' \in {ended, "killed"} /\ sigint' \in {sigint, "dfl"} /\ sigterm' \in {sigterm, "dfl"}
        BY <1>6 DEF Interrupt, Terminate, Signalled
    <2>5. eflag' \in Nat
        <3>1. eflag' = eflag \/ eflag' = 100
            BY <2>4
        <3> QED BY <1>9, <3>1
    <2>6. pc' \in {"start", "sigint", "sigterm", "next", "nocom", "clean"} \cup Passes
        BY <1>0, <2>4
    <2> QED BY <1>0, <2>3, <2>4, <2>5, <2>6
<1> QED BY <1>1, <1>2, <1>3, <1>4, <1>5, <1>6, <1>7 DEF Next, Driver

LEMMA Indices ==
    ASSUME TypeOK, Control
    PROVE  /\ run \in Runs /\ nargs \in Nat /\ i \in 1..(nargs + 1) /\ i \in Nat /\ i + 1 \in Nat
           /\ Sources \subseteq 1..nargs /\ child \in Record
           /\ pc = "c2" => i \in Sources
<1>1. run \in Runs /\ i \in 1..(nargs + 1) /\ child \in Record
    BY DEF TypeOK, Record
<1>2. nargs \in Nat /\ Sources \subseteq 1..nargs
    BY <1>1, RunTypes
<1>3. i \in Nat /\ i + 1 \in Nat
    BY <1>1, <1>2
<1>4. pc = "c2" => i \in Sources
    BY DEF Control, Passes
<1> QED BY <1>1, <1>2, <1>3, <1>4

(* What cc itself does to the names, the pass and the files.                 *)
LEMMA CcMoves ==
    ASSUME TypeOK, Control, Driver \/ Interrupt \/ Terminate
    PROVE  /\ exe' = exe
           /\ tmp3' \in {tmp3, tmp5} \/ (pc = "c1" /\ tmp3' = setsuf(Src, "s"))
           /\ assource' \in {assource, tmp3, tmp5} \/ (pc = "c1" /\ assource' = setsuf(Src, "s"))
              \/ (i \in Sources /\ assource' = Path(Src))
           /\ tmp4' = tmp4 \/ (i \in Sources /\ pflag /\ tmp4' = setsuf(Src, "i"))
           /\ fs' = fs \/ \E gone : fs' = Without(gone)
           /\ \/ child' \in {child, NoChild, Dead(100)}
              \/ ended = "" /\ pc \in Passes /\ child' = [NoChild EXCEPT !.pass = pc, !.stage = "forked"]
           /\ cleaning' \in {cleaning, ToRemove} \/ (cleaning # <<>> /\ cleaning' = Tail(cleaning))
<1> USE DEF At, Goto, files, tmps, flags, signals, history, Returned, NextFile, AfterText, Dexit
<1>1. CASE MakeDirectory \/ CatchSigint \/ CatchSigterm \/ NextSource \/ LastSource
    BY <1>1 DEF MakeDirectory, CatchSigint, CatchSigterm, NextSource, LastSource
<1>2. CASE Fork
    BY <1>2 DEF Fork
<1>3. CASE nocom \/ cunlink \/ Exit
    BY <1>3 DEF nocom, cunlink, Exit
<1>4. CASE Dropped \/ Preprocessed \/ Parsed \/ Assembled
    BY <1>4 DEF Dropped, Preprocessed, Parsed, Assembled
<1>5. CASE Generated \/ Optimised \/ Unoptimised
    BY <1>5 DEF Generated, Optimised, Unoptimised
<1>6. CASE Fatal \/ Loaded
    BY <1>6 DEF Fatal, Loaded
<1>7. CASE Interrupt \/ Terminate
    BY <1>7 DEF Interrupt, Terminate, Signalled
<1> QED BY <1>1, <1>2, <1>3, <1>4, <1>5, <1>6, <1>7 DEF Driver

LEMMA ToRemoveType ==
    ASSUME TypeOK, Control
    PROVE  ToRemove \in Seq(Paths \cup {Tmp("0")})
<1> DEFINE S == Paths \cup {Tmp("0")}
<1>1. CASE pflag \/ ~dir
    <2>1. ToRemove = <<>>
        BY <1>1 DEF ToRemove
    <2> QED BY <2>1
<1>2. CASE ~(pflag \/ ~dir)
    <2>1. tmp1 \in S /\ tmp2 \in S /\ tmp3 \in S /\ tmp4 \in S /\ tmp5 \in S /\ Tmp("0") \in S
        BY <1>2, NamesOfFiles DEF TypeOK, Control, tmp1, tmp2
    <2> HIDE DEF S
    <2>2. <<tmp1, tmp2>> \in Seq(S) /\ <<>> \in Seq(S) /\ <<tmp3>> \in Seq(S) /\ <<tmp4, tmp5, Tmp("0")>> \in Seq(S)
        BY <2>1
    <2>3. ToRemove = (<<tmp1, tmp2>> \o (IF Has("S") THEN <<>> ELSE <<tmp3>>)) \o <<tmp4, tmp5, Tmp("0")>>
        BY <1>2 DEF ToRemove
    <2>4. ToRemove \in Seq(S)
        BY <2>2, <2>3
    <2> QED BY <2>4 DEF S
<1> QED BY <1>1, <1>2

LEMMA NextTyped ==
    ASSUME TypeOK, Control, [Next]_vars
    PROVE  TypeOK'
<1>0. run \in Runs /\ run' = run /\ nargs' = nargs /\ Sources' = Sources
    BY Moves DEF TypeOK, nargs, Sources, IsSource, Has
<1>1. i' \in 1..(nargs + 1) /\ failed' \subseteq 1..(nargs + 1) /\ unoptimised' \subseteq 1..nargs
    <2>1. i' \in 1..(nargs + 1)
        BY Moves, Indices, FromLeast
    <2>2. failed \subseteq 1..(nargs + 1) /\ unoptimised \subseteq 1..nargs
        BY DEF TypeOK
    <2> QED BY <2>1, <2>2, Moves, Indices
<1>2. /\ fs' \in [Paths -> Content] /\ exe' \subseteq Content /\ child' \in Record
      /\ tmp3' \in Paths /\ assource' \in Paths /\ tmp4' \in Paths \cup {NULL}
      /\ cleaning' \in Seq(Paths \cup {Tmp("0")})
    <2>0. /\ fs \in [Paths -> Content] /\ exe \subseteq Content /\ child \in Record
          /\ tmp3 \in Paths /\ assource \in Paths /\ tmp4 \in Paths \cup {NULL}
          /\ cleaning \in Seq(Paths \cup {Tmp("0")})
        BY DEF TypeOK, Record
    <2>1. CASE UNCHANGED vars
        BY <2>0, <2>1 DEF vars, files, tmps
    <2>2. CASE Pass
        <3>1. UNCHANGED <<tmp3, assource, tmp4, cleaning>>
            BY <2>2 DEF Pass, Open, Succeed, Fail, Die, tmps
        <3> QED BY <2>0, <2>2, <3>1, PassTypes
    <2>3. CASE Driver \/ Interrupt \/ Terminate
        <3>1. fs' \in [Paths -> Content] /\ exe' \subseteq Content
            BY <2>0, <2>3, CcMoves, WithoutType
        <3>2. i \in Sources => Path(Src) \in Paths /\ setsuf(Src, "i") \in Paths /\ setsuf(Src, "s") \in Paths
            BY <1>0, SrcType
        <3>3. pc = "c1" => i \in Sources
            BY DEF Control, Passes
        <3>4. tmp3' \in Paths /\ assource' \in Paths
            BY <2>0, <2>3, <3>2, <3>3, CcMoves, NamesOfFiles
        <3>5. tmp4' \in Paths \cup {NULL}
            BY <2>0, <2>3, <3>2, CcMoves
        <3>6. cleaning' \in Seq(Paths \cup {Tmp("0")})
            <4>1. cleaning # <<>> => Tail(cleaning) \in Seq(Paths \cup {Tmp("0")})
                BY <2>0
            <4> QED BY <2>0, <2>3, <4>1, CcMoves, ToRemoveType
        <3>7. child' \in Record
            <4>1. NoChild \in Record /\ Dead(100) \in Record
                BY NoChildType, DeadType DEF Record
            <4>2. CASE child' = [NoChild EXCEPT !.pass = pc, !.stage = "forked"] /\ pc \in Passes
                BY <4>1, <4>2 DEF Record
            <4> QED BY <2>0, <2>3, <4>1, <4>2, CcMoves
        <3> QED BY <3>1, <3>4, <3>5, <3>6, <3>7
    <2> QED BY <2>1, <2>2, <2>3 DEF Next
<1> QED BY <1>0, <1>1, <1>2, Switches DEF TypeOK, Record

LEMMA Frame ==
    ASSUME TypeOK, [Next]_vars
    PROVE  /\ run' = run /\ nargs' = nargs /\ Sources' = Sources /\ pflag' = pflag
           /\ \A o : Has(o)' = Has(o)
           /\ i' = i => Src' = Src
<1>1. run' = run
    BY Moves
<1> QED BY <1>1 DEF nargs, Sources, IsSource, Has, pflag, Src

(* A pass in its steps stays the pass it is.                                 *)
LEMMA PassRuns ==
    ASSUME TypeOK, Pass
    PROVE  /\ UNCHANGED <<run, dir, pc, i, tmps, flags, cleaning, signals, ended, history>>
           /\ Alive(child) /\ (Alive(child') => child'.pass = child.pass)
<1>1. UNCHANGED <<run, dir, pc, i, tmps, flags, cleaning, signals, ended, history>>
    BY DEF Pass, Open, Succeed, Fail, Die, files
<1>2. child \in Record
    BY DEF TypeOK, Record
<1>3. CASE Open
    <2>1. Alive(child) /\ (child' = Dead(1) \/ child'.pass = child.pass)
        BY <1>2, <1>3 DEF Open, Alive, Record
    <2> QED BY <1>1, <2>1, DeadType
<1>4. CASE Succeed \/ Fail \/ \E s \in Crash : Die(s)
    BY <1>1, <1>2, <1>4 DEF Succeed, Fail, Die, Alive, Record
<1> QED BY <1>3, <1>4 DEF Pass

(* While cc is in a phase of its own, no pass of it runs.                    *)
LEMMA Quiet ==
    ASSUME TypeOK, Control, ended = ""
    PROVE  /\ pc # "clean" => ~orphaned
           /\ pc \notin Passes \cup {"clean"} => ~Alive(child)
           /\ child.stage = "dead" \/ child = NoChild => ~Alive(child)
BY NoChildType DEF Control, Alive

LEMMA NextControl ==
    ASSUME TypeOK, Control, [Next]_vars
    PROVE  Control'
<1>0. /\ run' = run /\ nargs' = nargs /\ Sources' = Sources /\ pflag' = pflag
      /\ i' = i => Src' = Src
    BY Frame
<1> USE DEF At, Goto, files, tmps, flags, signals, history, Returned, NextFile, AfterText, Dexit
<1>1. CASE UNCHANGED vars
    BY <1>0, <1>1 DEF Control, vars
<1>2. CASE Pass
    <2>1. UNCHANGED <<pc, i, tmp4, cleaning, orphaned, ended>>
        BY <1>2, PassRuns
    <2>2. Alive(child) /\ (Alive(child') => child'.pass = child.pass)
        BY <1>2, PassRuns
    <2> QED BY <1>0, <2>1, <2>2 DEF Control
<1>3. CASE MakeDirectory \/ CatchSigint \/ CatchSigterm \/ LastSource \/ nocom
    <2>1. /\ ended = "" /\ pc \notin Passes \cup {"clean"} /\ pc' \notin Passes \ {"ld"}
          /\ UNCHANGED <<tmp4, child, orphaned, ended>>
        BY <1>3 DEF MakeDirectory, CatchSigint, CatchSigterm, LastSource, nocom, Passes
    <2>2. ~Alive(child) /\ ~orphaned
        BY <2>1, Quiet
    <2> QED BY <1>0, <2>1, <2>2 DEF Control
<1>4. CASE NextSource
    <2>1. /\ ended = "" /\ pc \notin Passes \cup {"clean"} /\ i \in Sources
          /\ pc' = IF Src.suf = "s" THEN "as" ELSE "cpp"
          /\ UNCHANGED <<i, child, orphaned, ended>> /\ (~pflag => tmp4' = tmp4)
        BY <1>4 DEF NextSource, Passes
    <2>2. ~Alive(child) /\ ~orphaned
        BY <2>1, Quiet
    <2> QED BY <1>0, <2>1, <2>2 DEF Control, Early
<1>5. CASE Fork
    <2>1. /\ ended = "" /\ pc \in Passes
          /\ UNCHANGED <<pc, i, tmp4, orphaned, ended>>
          /\ child' = Dead(100) \/ child' = [NoChild EXCEPT !.pass = pc, !.stage = "forked"]
        BY <1>5 DEF Fork
    <2>2. Alive(child') => child'.pass = pc
        BY <2>1, DeadType DEF NoChild
    <2>3. ~orphaned
        BY <2>1, Quiet DEF Passes
    <2> QED BY <1>0, <2>1, <2>2, <2>3 DEF Control
<1>6. CASE Dropped \/ Assembled \/ Fatal \/ Loaded
    <2>1. /\ ended = "" /\ pc \in Passes /\ pc' \in {"next", "clean"} /\ child' = NoChild
          /\ UNCHANGED <<tmp4, orphaned, ended>>
        BY <1>6 DEF Dropped, Assembled, Fatal, Loaded, Passes
    <2>2. ~orphaned /\ ~Alive(child')
        BY <2>1, Quiet, NoChildType DEF Passes
    <2> QED BY <1>0, <2>1, <2>2 DEF Control, Passes
<1>7. CASE Preprocessed \/ Parsed \/ Generated \/ Optimised \/ Unoptimised
    <2>1. /\ ended = "" /\ pc \in Early /\ child' = NoChild
          /\ UNCHANGED <<tmp4, orphaned, ended>>
          /\ \/ pc' = "next"
             \/ i' = i /\ pc = "cpp" /\ ~pflag /\ pc' = "c0"
             \/ i' = i /\ pc \in {"c0", "c1", "c2"} /\ pc' \in {"c1", "c2", "as"}
        BY <1>7 DEF Preprocessed, Parsed, Generated, Optimised, Unoptimised, Early
    <2>2. ~orphaned /\ ~Alive(child')
        BY <2>1, Quiet, NoChildType DEF Passes, Early
    <2> QED BY <1>0, <2>1, <2>2 DEF Control, Passes, Early
<1>8. CASE cunlink \/ Exit
    <2>1. /\ ended = "" /\ pc = "clean" /\ pc' = pc
          /\ UNCHANGED <<i, tmp4, child, orphaned>>
          /\ ended' = "" \/ (ended' = "exit" /\ cleaning' = <<>>)
        BY <1>8 DEF cunlink, Exit
    <2> QED BY <1>0, <2>1 DEF Control, Passes
<1>9. CASE Interrupt
    <2>1. /\ ended = "" /\ child' = NoChild /\ UNCHANGED <<i, tmp4, orphaned>>
          /\ \/ ended' = "" /\ pc' = "clean"
             \/ ended' = "killed" /\ pc' = pc
        BY <1>9 DEF Interrupt, Signalled
    <2>2. ~Alive(child')
        BY <2>1, NoChildType
    <2> QED BY <1>0, <2>1, <2>2 DEF Control, Passes
<1>10. CASE Terminate
    <2>1. /\ ended = "" /\ UNCHANGED <<child, i, tmp4>>
          /\ orphaned' = (orphaned \/ Alive(child))
          /\ \/ ended' = "" /\ pc' = "clean"
             \/ ended' = "killed" /\ pc' = pc
        BY <1>10 DEF Terminate, Signalled
    <2>2. Alive(child') => orphaned'
        BY <2>1, Zenon
    <2> QED BY <1>0, <2>1, <2>2 DEF Control, Passes
<1> QED BY <1>1, <1>2, <1>3, <1>4, <1>5, <1>6, <1>7, <1>8, <1>9, <1>10 DEF Next, Driver

---------------------------------------------------------------------------
(* The names.                                                              *)

LEMMA TmpsApart ==
    /\ Tmp("1") # Tmp("2") /\ Tmp("1") # Tmp("3") /\ Tmp("1") # Tmp("4") /\ Tmp("1") # Tmp("5")
    /\ Tmp("2") # Tmp("3") /\ Tmp("2") # Tmp("4") /\ Tmp("2") # Tmp("5")
    /\ Tmp("3") # Tmp("4") /\ Tmp("3") # Tmp("5") /\ Tmp("4") # Tmp("5")
    /\ \A k : Tmp(k) = <<"tmp", k>>
    /\ \A it : \A x \in {"s", "o", "i"} : setsuf(it, x)[2] = x /\ setsuf(it, x) \notin Scratch
<1>1. \A it : \A x \in {"s", "o", "i"} : setsuf(it, x)[2] = x
    BY DEF setsuf
<1> QED BY <1>1, NamesOfFiles DEF Tmp

LEMMA InitNames == Init => Names
<1> SUFFICES ASSUME Init PROVE Names
    OBVIOUS
<1>1. pc = "start" /\ ~dir /\ tmp3 = Tmp("3") /\ child = NoChild
    BY DEF Init
<1> QED BY <1>1, TmpsApart, NoChildType DEF Names, Early, tmp5

LEMMA OutSame ==
    ASSUME TypeOK, [Next]_vars, UNCHANGED <<i, tmp3, tmp4>>
    PROVE  \A pass : Out(pass)' = Out(pass)
BY Frame DEF Out, tmp1, tmp2, tmp5

LEMMA NextNames ==
    ASSUME TypeOK, Control, Names, [Next]_vars
    PROVE  Names'
<1>0. /\ run' = run /\ Sources' = Sources /\ pflag' = pflag /\ Has("S")' = Has("S")
      /\ i' = i => Src' = Src
    BY Frame
<1>i. i' = i => Path(Src)' = Path(Src) /\ setsuf(Src, "i")' = setsuf(Src, "i") /\ setsuf(Src, "s")' = setsuf(Src, "s")
    BY <1>0 DEF Path, setsuf
<1> USE DEF At, Goto, files, tmps, flags, signals, history, Returned, NextFile, AfterText, Dexit
<1>1. CASE UNCHANGED vars
    <2>1. UNCHANGED <<dir, pc, i, tmp3, tmp4, assource, child, unoptimised, ended>>
        BY <1>1 DEF vars
    <2>2. Out(child.pass)' = Out(child.pass)
        BY <2>1, OutSame
    <2>3. ended' = "" /\ pc' \notin Passes \cup {"clean"} => child' = NoChild
        BY <2>1 DEF Names
    <2>4. Alive(child)' = Alive(child)
        BY <2>1 DEF Alive
    <2> QED BY <1>0, <1>i, <2>1, <2>2, <2>3, <2>4 DEF Names
<1>2. CASE Pass
    <2>1. UNCHANGED <<dir, pc, i, tmp3, tmp4, assource, unoptimised>>
        BY <1>2, PassRuns
    <2>2. Alive(child) /\ (Alive(child') => child'.pass = child.pass) /\ child.stage # "none"
        BY <1>2, PassRuns DEF Alive
    <2>3. child'.stage = "running" => child'.out = Out(child.pass) /\ child'.pass = child.pass
        <3>1. child \in Record
            BY DEF TypeOK, Record
        <3>2. CASE Open
            BY <3>1, <3>2, DeadType DEF Open, Record, Alive
        <3>3. CASE Succeed \/ Fail \/ \E s \in Crash : Die(s)
            BY <3>1, <3>3 DEF Succeed, Fail, Die, Record
        <3> QED BY <1>2, <3>2, <3>3 DEF Pass
    <2>4. \A pass : Out(pass)' = Out(pass)
        BY <2>1, OutSame
    <2>6. ended' = ended
        BY <1>2, PassRuns
    <2>5. ended' = "" => pc' \in Passes \cup {"clean"}
        BY <2>1, <2>2, <2>6 DEF Control
    <2> QED BY <1>0, <1>i, <2>1, <2>2, <2>3, <2>4, <2>5 DEF Names
<1>3. CASE MakeDirectory \/ CatchSigint \/ CatchSigterm \/ LastSource \/ nocom
    <2>1. /\ ended = "" /\ pc \notin Passes \cup {"clean"} /\ pc' \notin Passes \ {"ld"} /\ pc' # "start"
          /\ UNCHANGED <<i, tmp3, child, unoptimised>>
        BY <1>3 DEF MakeDirectory, CatchSigint, CatchSigterm, LastSource, nocom, Passes
    <2>3. dir' = dir \/ dir' = (Sources # {} /\ ~pflag)
        BY <1>3 DEF MakeDirectory, CatchSigint, CatchSigterm, LastSource, nocom
    <2>4. dir' => dir \/ ~pflag
        BY <2>3, Zenon
    <2>2. ~Alive(child)
        BY <2>1, Quiet
    <2> QED BY <1>0, <1>i, <2>1, <2>2, <2>4 DEF Names, Early, Alive, Passes
<1>4. CASE NextSource
    <2>1. /\ ended = "" /\ pc \notin Passes \cup {"clean"} /\ UNCHANGED <<dir, i, tmp3, child, unoptimised>>
          /\ \/ Src.suf = "s" /\ pc' = "as" /\ assource' = Path(Src)
             \/ Src.suf # "s" /\ pc' = "cpp" /\ assource' = tmp3 /\ (pflag => tmp4' = setsuf(Src, "i"))
        BY <1>4 DEF NextSource, Passes
    <2>2. ~Alive(child)
        BY <2>1, Quiet
    <2> QED BY <1>0, <1>i, <2>1, <2>2 DEF Names, Early, Alive, Passes
<1>5. CASE Fork
    <2>1. /\ pc \in Passes /\ UNCHANGED <<dir, pc, i, tmp4, unoptimised>>
          /\ child' = Dead(100) \/ child' = [NoChild EXCEPT !.pass = pc, !.stage = "forked"]
          /\ IF pc = "c1" /\ Has("S") THEN tmp3' = setsuf(Src, "s") /\ assource' = tmp3'
             ELSE UNCHANGED <<tmp3, assource>>
        BY <1>5 DEF Fork
    <2>2. (Alive(child') => child'.pass = pc) /\ child'.stage # "running"
        BY <2>1, DeadType DEF NoChild, Dead
    <2>3. setsuf(Src, "s")[2] = "s" /\ setsuf(Src, "s") # tmp5
        BY TmpsApart DEF tmp5
    <2>4. Alive(child') /\ child'.pass = "as" => ~Has("S") \/ Src.suf = "s"
        BY <2>2 DEF Names
    <2>5. /\ dir' => ~pflag' /\ pc' # "start"
          /\ pflag' /\ (pc' = "cpp" \/ (Alive(child') /\ child'.pass = "cpp")) => tmp4' = setsuf(Src, "i")
          /\ tmp3' \in {Tmp("3"), tmp5} \/ (Has("S") /\ tmp3'[2] = "s")
          /\ unoptimised' = {} => tmp3' # tmp5
          /\ pc' \in Early => assource' = tmp3'
        BY <1>0, <2>1, <2>2, <2>3 DEF Names
    <2>6. /\ pc' = "as" => assource' = IF Src.suf = "s" THEN Path(Src) ELSE tmp3'
          /\ pc' = "as" /\ Src.suf # "s" => ~Has("S") /\ ~pflag
          /\ \/ pc' = "c2"
             \/ pc' = "c1" /\ child'.stage # "none"
             \/ (Alive(child') /\ child'.pass \in {"c1", "c2"})
             => (Has("S") => tmp3' = setsuf(Src, "s"))
        BY <1>0, <2>1, <2>2 DEF Names
    <2> QED BY <1>0, <1>i, <2>1, <2>2, <2>4, <2>5, <2>6 DEF Names
<1>6. CASE Dropped \/ Assembled \/ Fatal \/ Loaded
    <2>1. /\ ended = "" /\ pc \in Passes /\ pc' \in {"next", "clean"} /\ child' = NoChild
          /\ UNCHANGED <<dir, tmp3, unoptimised>>
        BY <1>6 DEF Dropped, Assembled, Fatal, Loaded, Passes
    <2> QED BY <1>0, <2>1, NoChildType DEF Names, Early, Alive
<1>7. CASE Preprocessed \/ Parsed \/ Generated
    <2>1. /\ ended = "" /\ pc \in {"cpp", "c0", "c1"} /\ child' = NoChild
          /\ UNCHANGED <<dir, tmp3, tmp4, assource, unoptimised>>
          /\ \/ pc' = "next"
             \/ i' = i /\ pc = "cpp" /\ ~pflag /\ pc' = "c0"
             \/ i' = i /\ pc = "c0" /\ pc' = "c1"
             \/ i' = i /\ pc = "c1" /\ child.stage = "dead" /\ (pc' = "c2" \/ (pc' = "as" /\ ~Has("S")))
        BY <1>7 DEF Preprocessed, Parsed, Generated
    <2>2. pc \in {"c0", "c1"} => Src.suf # "s" /\ ~pflag
        BY DEF Control, Passes, Early
    <2> QED BY <1>0, <1>i, <2>1, <2>2, NoChildType DEF Names, Early, Alive
<1>8. CASE Optimised \/ Unoptimised
    <2>1. /\ ended = "" /\ pc = "c2" /\ child' = NoChild /\ UNCHANGED <<dir, tmp4>>
          /\ pc' = "next" \/ (i' = i /\ pc' = "as" /\ ~Has("S"))
          /\ \/ UNCHANGED <<tmp3, assource, unoptimised>>
             \/ tmp3' = tmp5 /\ assource' = tmp5 /\ unoptimised' # {}
        BY <1>8 DEF Optimised, Unoptimised
    <2>2. Src.suf # "s" /\ ~pflag
        BY <2>1 DEF Control, Passes, Early
    <2>3. tmp5' = tmp5
        BY DEF tmp5, Tmp
    <2> QED BY <1>0, <1>i, <2>1, <2>2, <2>3, NoChildType DEF Names, Early, Alive
<1>9. CASE cunlink \/ Exit
    <2>1. /\ ended = "" /\ pc = "clean" /\ pc' = pc
          /\ UNCHANGED <<i, tmp3, tmp4, assource, child, unoptimised>>
        BY <1>9 DEF cunlink, Exit
    <2>3. dir' = dir \/ dir' = (dir /\ \E p \in Scratch : Exists(p))
        BY <1>9 DEF cunlink, Exit
    <2>4. dir' => dir
        BY <2>3, Zenon
    <2>2. \A pass : Out(pass)' = Out(pass)
        BY <2>1, OutSame
    <2> QED BY <1>0, <1>i, <2>1, <2>2, <2>4 DEF Names, Early
<1>10. CASE Interrupt \/ Terminate
    <2>1. /\ ended = "" /\ UNCHANGED <<dir, i, tmp3, tmp4, assource, unoptimised>>
          /\ pc' = "clean" \/ ended' # ""
        BY <1>10 DEF Interrupt, Terminate, Signalled
    <2>2. \A pass : Out(pass)' = Out(pass)
        BY <2>1, OutSame
    <2>3. pc' \in {pc, "clean"} /\ child' \in {child, NoChild}
        BY <1>10 DEF Interrupt, Terminate, Signalled
    <2>4. NoChild.stage = "none" /\ ~Alive(NoChild)
        BY NoChildType
    <2> QED BY <1>0, <1>i, <2>1, <2>2, <2>3, <2>4 DEF Names, Early
<1> QED BY <1>1, <1>2, <1>3, <1>4, <1>5, <1>6, <1>7, <1>8, <1>9, <1>10 DEF Next, Driver

---------------------------------------------------------------------------
(* The scratch files.                                                      *)

(* Only a pass that opens its outputs adds a scratch file, in the directory. *)
LEMMA ScratchGrows ==
    ASSUME TypeOK, Control, Names, [Next]_vars, NEW p \in Scratch, Exists(p)'
    PROVE  Exists(p) \/ (Open /\ dir /\ p \in Out(child.pass))
<1>1. p \in Paths /\ Holds(Path(Src), "partial").form # "absent"
    BY NamesOfFiles DEF Holds
<1>2. Nothing.form = "absent"
    BY DEF Nothing, Holds
<1>3. CASE Pass
    <2>1. child.stage = "running" /\ child.pass = "as" => p \notin child.out
        BY TmpsApart DEF Names, Out
    <2>2. CASE Open
        BY <1>1, <2>2 DEF Open, Emptied, Exists
    <2>3. CASE Succeed
        BY <1>1, <2>1, <2>3 DEF Succeed, Write, Exists
    <2>4. CASE Fail
        BY <1>1, <2>1, <2>4 DEF Fail, Write, Exists
    <2>5. CASE \E s \in Crash : Die(s)
        BY <2>5 DEF Die, files, Exists
    <2> QED BY <1>3, <2>2, <2>3, <2>4, <2>5 DEF Pass
<1>4. CASE Driver \/ Interrupt \/ Terminate
    <2>1. fs' = fs \/ \E gone : fs' = Without(gone)
        BY <1>4, CcMoves
    <2> QED BY <1>1, <1>2, <2>1 DEF Without, Exists
<1>5. CASE UNCHANGED vars
    BY <1>5 DEF vars, files, Exists
<1> QED BY <1>3, <1>4, <1>5 DEF Next

LEMMA InitScratch == Init => ScratchKnown
<1> SUFFICES ASSUME Init PROVE ScratchKnown
    OBVIOUS
<1>1. Nothing.form = "absent"
    BY DEF Nothing, Holds
<1>2. \A p \in Scratch : ~Exists(p)
    BY <1>1, NamesOfFiles DEF Init, Exists
<1>3. pc = "start" /\ cleaning = <<>> /\ ended = ""
    BY DEF Init
<1>4. DOMAIN cleaning = {}
    <2>1. DOMAIN <<>> = {}
        OBVIOUS
    <2> QED BY <1>3, <2>1, Zenon
<1>5. Tmp("3") \in Scratch
    BY NamesOfFiles
<1> QED BY <1>2, <1>3, <1>4, <1>5 DEF ScratchKnown

Removal(x) == <<tmp1, tmp2>> \o x \o <<Tmp("4"), tmp5, Tmp("0")>>

LEMMA Joined ==
    ASSUME NEW S, NEW x \in Seq(S), {tmp1, tmp2, Tmp("4"), tmp5, Tmp("0")} \subseteq S
    PROVE  /\ \A n \in DOMAIN Removal(x) :
                 Removal(x)[n] \in {tmp1, tmp2, Tmp("4"), tmp5, Tmp("0")} \cup {x[m] : m \in DOMAIN x}
           /\ \A y \in {tmp1, tmp2, Tmp("4"), tmp5, Tmp("0")} \cup {x[m] : m \in DOMAIN x} :
                 \E n \in DOMAIN Removal(x) : Removal(x)[n] = y
<1> DEFINE a == tmp1
           b == tmp2
           d == Tmp("4")
           e == tmp5
           f == Tmp("0")
           h == <<a, b>>
           t == <<d, e, f>>
           w == Removal(x)
<1>w. w = <<a, b>> \o x \o <<d, e, f>> /\ a \in S /\ b \in S /\ d \in S /\ e \in S /\ f \in S
    BY DEF Removal
<1> HIDE DEF a, b, d, e, f, w
<1>1. h \in Seq(S) /\ Len(h) = 2 /\ h[1] = a /\ h[2] = b
    BY <1>w
<1>2. t \in Seq(S) /\ Len(t) = 3 /\ t[1] = d /\ t[2] = e /\ t[3] = f
    BY <1>w
<1> HIDE DEF h, t
<1>0. \A u, v \in Seq(S) :
          /\ u \o v \in Seq(S) /\ Len(u \o v) = Len(u) + Len(v)
          /\ \A m \in 1..(Len(u) + Len(v)) : (u \o v)[m] = IF m <= Len(u) THEN u[m] ELSE v[m - Len(u)]
    BY ConcatProperties, Zenon
<1>x. Len(x) \in Nat /\ x \in Seq(S)
    OBVIOUS
<1>3. /\ h \o x \in Seq(S) /\ Len(h \o x) = 2 + Len(x) /\ Len(x) \in Nat
      /\ \A m \in 1..(2 + Len(x)) : (h \o x)[m] = IF m <= 2 THEN h[m] ELSE x[m - 2]
    <2>1. /\ h \o x \in Seq(S) /\ Len(h \o x) = Len(h) + Len(x)
          /\ \A m \in 1..(Len(h) + Len(x)) : (h \o x)[m] = IF m <= Len(h) THEN h[m] ELSE x[m - Len(h)]
        BY <1>0, <1>1, <1>x, Zenon
    <2> QED BY <1>1, <1>x, <2>1
<1> DEFINE g == h \o x
<1> HIDE DEF g
<1>4. g \in Seq(S) /\ Len(g) = 2 + Len(x) /\ Len(x) \in Nat
      /\ g[1] = a /\ g[2] = b /\ \A m \in 1..Len(x) : g[m + 2] = x[m]
    <2>1. g \in Seq(S) /\ Len(g) = 2 + Len(x) /\ Len(x) \in Nat
          /\ \A m \in 1..(2 + Len(x)) : g[m] = IF m <= 2 THEN h[m] ELSE x[m - 2]
        BY <1>3 DEF g
    <2>2. 1 \in 1..(2 + Len(x)) /\ 2 \in 1..(2 + Len(x))
        BY <2>1
    <2>3. g[1] = a /\ g[2] = b
        BY <1>1, <2>1, <2>2
    <2>4. ASSUME NEW m \in 1..Len(x) PROVE g[m + 2] = x[m]
        <3>1. m + 2 \in 1..(2 + Len(x)) /\ ~(m + 2 <= 2) /\ (m + 2) - 2 = m
            BY <2>1
        <3> QED BY <2>1, <3>1
    <2> QED BY <2>1, <2>3, <2>4
<1>5. /\ w \in Seq(S) /\ Len(w) = 5 + Len(x)
      /\ \A m \in 1..Len(g) : w[m] = g[m]
      /\ \A m \in 1..3 : w[m + Len(g)] = t[m]
    <2>1. w = g \o t
        BY <1>w DEF g, h, t
    <2>2. /\ w \in Seq(S) /\ Len(w) = Len(g) + 3
          /\ \A m \in 1..(Len(g) + 3) : w[m] = IF m <= Len(g) THEN g[m] ELSE t[m - Len(g)]
        <3>1. /\ g \o t \in Seq(S) /\ Len(g \o t) = Len(g) + Len(t)
              /\ \A m \in 1..(Len(g) + Len(t)) : (g \o t)[m] = IF m <= Len(g) THEN g[m] ELSE t[m - Len(g)]
            BY <1>0, <1>2, <1>4, Zenon
        <3> QED BY <1>2, <2>1, <3>1, Zenon
    <2>3. ASSUME NEW m \in 1..Len(g) PROVE w[m] = g[m]
        <3>1. m \in 1..(Len(g) + 3) /\ m <= Len(g)
            BY <1>4
        <3> QED BY <2>2, <3>1
    <2>4. ASSUME NEW m \in 1..3 PROVE w[m + Len(g)] = t[m]
        <3>1. m + Len(g) \in 1..(Len(g) + 3) /\ ~(m + Len(g) <= Len(g)) /\ (m + Len(g)) - Len(g) = m
            BY <1>4
        <3> QED BY <2>2, <3>1
    <2>5. Len(w) = 5 + Len(x)
        BY <1>4, <2>2
    <2> QED BY <2>2, <2>3, <2>4, <2>5
<1>6. /\ w \in Seq(S) /\ DOMAIN w = 1..(5 + Len(x)) /\ w[1] = a /\ w[2] = b
      /\ \A m \in 1..Len(x) : w[m + 2] = x[m]
      /\ w[Len(x) + 3] = d /\ w[Len(x) + 4] = e /\ w[Len(x) + 5] = f
    <2>1. w \in Seq(S) /\ DOMAIN w = 1..(5 + Len(x))
        BY <1>4, <1>5
    <2>2. w[1] = a /\ w[2] = b
        BY <1>4, <1>5
    <2>3. \A m \in 1..Len(x) : w[m + 2] = x[m]
        <3> TAKE m \in 1..Len(x)
        <3>1. m + 2 \in 1..Len(g)
            BY <1>4
        <3> QED BY <1>4, <1>5, <3>1
    <2>4. w[1 + Len(g)] = d /\ w[2 + Len(g)] = e /\ w[3 + Len(g)] = f
        <3>1. 1 \in 1..3 /\ 2 \in 1..3 /\ 3 \in 1..3
            OBVIOUS
        <3> QED BY <1>2, <1>5, <3>1
    <2>5. 1 + Len(g) = Len(x) + 3 /\ 2 + Len(g) = Len(x) + 4 /\ 3 + Len(g) = Len(x) + 5
        BY <1>4
    <2> QED BY <2>1, <2>2, <2>3, <2>4, <2>5
<1>7. \A n \in DOMAIN w : w[n] \in {a, b, d, e, f} \cup {x[m] : m \in DOMAIN x}
    <2> TAKE n \in DOMAIN w
    <2>1. n \in 1..(5 + Len(x)) /\ n \in Int
        BY <1>4, <1>6
    <2>2. n = 1 \/ n = 2 \/ n - 2 \in 1..Len(x) \/ n = Len(x) + 3 \/ n = Len(x) + 4 \/ n = Len(x) + 5
        BY <1>4, <2>1
    <2>3. CASE n - 2 \in 1..Len(x)
        <3>1. w[(n - 2) + 2] = x[n - 2] /\ (n - 2) + 2 = n /\ n - 2 \in DOMAIN x
            BY <1>6, <2>1, <2>3
        <3> QED BY <3>1
    <2> QED BY <1>6, <2>2, <2>3
<1>8. \A y \in {a, b, d, e, f} \cup {x[m] : m \in DOMAIN x} : \E n \in DOMAIN w : w[n] = y
    <2> TAKE y \in {a, b, d, e, f} \cup {x[m] : m \in DOMAIN x}
    <2>1. 1 \in DOMAIN w /\ 2 \in DOMAIN w /\ Len(x) + 3 \in DOMAIN w /\ Len(x) + 4 \in DOMAIN w /\ Len(x) + 5 \in DOMAIN w
        BY <1>4, <1>6
    <2>2. ASSUME NEW m \in DOMAIN x, y = x[m] PROVE m + 2 \in DOMAIN w /\ w[m + 2] = y
        <3>1. m \in 1..Len(x) /\ m \in Int
            BY <1>4
        <3>2. m + 2 \in 1..(5 + Len(x))
            BY <1>4, <3>1
        <3> QED BY <1>6, <2>2, <3>1, <3>2
    <2> QED BY <1>6, <2>1, <2>2
<1> QED BY <1>7, <1>8 DEF a, b, d, e, f, w

(* What dexit() sets out to remove is every scratch file there is.           *)
LEMMA AllListed ==
    ASSUME TypeOK, Control, Names, ScratchKnown
    PROVE  /\ \A n \in DOMAIN ToRemove : ToRemove[n] \in Scratch \cup {Tmp("0")}
           /\ \A p \in Scratch : Exists(p) => \E n \in DOMAIN ToRemove : ToRemove[n] = p
<1>1. CASE pflag \/ ~dir
    <2>1. ToRemove = <<>> /\ ~dir
        BY <1>1 DEF ToRemove, Names
    <2>2. DOMAIN ToRemove = {}
        BY <2>1
    <2> QED BY <2>1, <2>2 DEF ScratchKnown
<1>2. CASE ~(pflag \/ ~dir)
    <2> DEFINE x == IF Has("S") THEN <<>> ELSE <<tmp3>>
               S == Paths \cup {Tmp("0")}
    <2>1. tmp4 = Tmp("4") /\ (~Has("S") => tmp3 \in Scratch)
        BY <1>2, NamesOfFiles DEF Control, Names
    <2>2. x \in Seq(S) /\ {x[m] : m \in DOMAIN x} = IF Has("S") THEN {} ELSE {tmp3}
        <3>1. CASE Has("S")
            <4>1. x = <<>>
                BY <3>1
            <4>2. DOMAIN x = {} /\ x \in Seq(S)
                BY <4>1
            <4> HIDE DEF x
            <4> QED BY <3>1, <4>2
        <3>2. CASE ~Has("S")
            <4>1. x = <<tmp3>> /\ tmp3 \in S
                BY <3>2 DEF TypeOK
            <4> HIDE DEF S
            <4>2. DOMAIN x = {1} /\ x[1] = tmp3 /\ x \in Seq(S)
                BY <4>1
            <4> HIDE DEF x
            <4> QED BY <3>2, <4>2
        <3> QED BY <3>1, <3>2
    <2>3. tmp1 \in S /\ tmp2 \in S /\ Tmp("4") \in S /\ tmp5 \in S /\ Tmp("0") \in S
        BY NamesOfFiles DEF tmp1, tmp2
    <2>4. ToRemove = <<tmp1, tmp2>> \o x \o <<Tmp("4"), tmp5, Tmp("0")>>
        BY <1>2, <2>1 DEF ToRemove
    <2>5. /\ \A n \in DOMAIN ToRemove : ToRemove[n] \in {tmp1, tmp2, Tmp("4"), tmp5, Tmp("0")} \cup {x[m] : m \in DOMAIN x}
          /\ \A y \in {tmp1, tmp2, Tmp("4"), tmp5, Tmp("0")} \cup {x[m] : m \in DOMAIN x} :
                 \E n \in DOMAIN ToRemove : ToRemove[n] = y
        <3> HIDE DEF x, S
        <3>1. x \in Seq(S)
            BY <2>2
        <3>2. ToRemove = Removal(x)
            BY <2>4 DEF Removal
        <3>3. {tmp1, tmp2, Tmp("4"), tmp5, Tmp("0")} \subseteq S
            BY <2>3
        <3>4. /\ \A n \in DOMAIN Removal(x) :
                    Removal(x)[n] \in {tmp1, tmp2, Tmp("4"), tmp5, Tmp("0")} \cup {x[m] : m \in DOMAIN x}
              /\ \A y \in {tmp1, tmp2, Tmp("4"), tmp5, Tmp("0")} \cup {x[m] : m \in DOMAIN x} :
                    \E n \in DOMAIN Removal(x) : Removal(x)[n] = y
            BY <3>1, <3>3, Joined, Zenon
        <3> HIDE DEF Removal
        <3> QED BY <3>2, <3>4
    <2>6. {tmp1, tmp2, Tmp("4"), tmp5} \subseteq Scratch
        BY NamesOfFiles DEF tmp1, tmp2
    <2>7. \A p \in Scratch : Exists(p) => p \in {tmp1, tmp2, Tmp("4"), tmp5} \/ (~Has("S") /\ p = tmp3)
        <3>1. \A p \in Scratch : p \in {tmp1, tmp2, Tmp("3"), Tmp("4"), tmp5}
            BY DEF Scratch, tmp1, tmp2, tmp5
        <3> QED BY <3>1 DEF ScratchKnown
    <2> HIDE DEF x
    <2> QED BY <2>1, <2>2, <2>5, <2>6, <2>7
<1> QED BY <1>1, <1>2

LEMMA NextScratch ==
    ASSUME TypeOK, Control, Names, ScratchKnown, [Next]_vars
    PROVE  ScratchKnown'
<1> USE DEF At, Goto, files, tmps, flags, signals, history, Returned, NextFile, AfterText
<1>0. Scratch' = Scratch /\ Tmp("3")' = Tmp("3") /\ Tmp("0")' = Tmp("0") /\ Has("S")' = Has("S")
    BY Frame DEF Scratch, Tmp
<1>1. dir' = dir \/ pc = "start" \/ (dir' = (dir /\ \E p \in Scratch : Exists(p)) /\ UNCHANGED fs)
    <2>1. CASE UNCHANGED vars
        BY <2>1 DEF vars
    <2>2. CASE Pass
        BY <2>2, PassRuns
    <2>3. CASE MakeDirectory \/ CatchSigint \/ CatchSigterm \/ LastSource \/ nocom \/ NextSource \/ Fork
        BY <2>3 DEF MakeDirectory, CatchSigint, CatchSigterm, LastSource, nocom, NextSource, Fork
    <2>4. CASE Dropped \/ Assembled \/ Fatal \/ Loaded \/ Preprocessed \/ Parsed \/ Generated \/ Optimised \/ Unoptimised
        BY <2>4 DEF Dropped, Assembled, Fatal, Loaded, Preprocessed, Parsed, Generated, Optimised, Unoptimised
    <2>5. CASE cunlink \/ Exit \/ Interrupt \/ Terminate
        BY <2>5 DEF cunlink, Exit, Interrupt, Terminate
    <2> QED BY <2>1, <2>2, <2>3, <2>4, <2>5 DEF Next, Driver
<1>2. \A p \in Scratch : Exists(p)' => dir'
    <2> SUFFICES ASSUME NEW p \in Scratch, Exists(p)' PROVE dir'
        OBVIOUS
    <2>1. dir
        BY ScratchGrows DEF ScratchKnown
    <2>2. pc # "start"
        BY <2>1 DEF Names
    <2>3. UNCHANGED fs => Exists(p)
        BY DEF Exists
    <2> QED BY <1>1, <2>1, <2>2, <2>3, Zenon
<1>3. Exists(Tmp("3"))' => ~Has("S") /\ tmp3' = Tmp("3")
    <2> SUFFICES ASSUME Exists(Tmp("3"))' PROVE ~Has("S") /\ tmp3' = Tmp("3")
        OBVIOUS
    <2>0. Tmp("3") \in Scratch /\ Tmp("3") \in Paths
        BY NamesOfFiles
    <2>1. CASE Open /\ Tmp("3") \in Out(child.pass)
        <3>1. Alive(child) /\ child.pass \in Passes /\ tmp3' = tmp3
            BY <2>1 DEF Open, Alive, Control
        <3>2. tmp4 = Tmp("4") \/ child.pass # "cpp" \/ tmp4 = setsuf(Src, "i")
            BY <3>1 DEF Control, Names
        <3>3. child.pass \in {"c1", "c2"} /\ tmp3 = Tmp("3")
            BY <2>0, <2>1, <3>1, <3>2, TmpsApart DEF Out, tmp1, tmp2, tmp5, Passes
        <3>4. ~Has("S")
            BY <2>0, <3>1, <3>3, TmpsApart DEF Names
        <3> QED BY <3>1, <3>3, <3>4
    <2>2. CASE Exists(Tmp("3"))
        <3>1. ~Has("S") /\ tmp3 = Tmp("3")
            BY <2>2 DEF ScratchKnown
        <3>2. CASE Unoptimised
            <4>1. fs'[Tmp("3")] = Nothing
                BY <2>0, <3>1, <3>2 DEF Unoptimised, Without
            <4> QED BY <4>1 DEF Exists, Nothing, Holds
        <3>3. CASE ~Unoptimised
            <4>1. CASE UNCHANGED vars
                BY <3>1, <4>1 DEF vars
            <4>2. CASE Pass
                BY <3>1, <4>2, PassRuns
            <4>3. CASE MakeDirectory \/ CatchSigint \/ CatchSigterm \/ LastSource \/ nocom \/ NextSource \/ Fork
                BY <3>1, <4>3 DEF MakeDirectory, CatchSigint, CatchSigterm, LastSource, nocom, NextSource, Fork
            <4>4. CASE Dropped \/ Assembled \/ Fatal \/ Loaded \/ Preprocessed \/ Parsed \/ Generated \/ Optimised
                BY <3>1, <4>4 DEF Dropped, Assembled, Fatal, Loaded, Preprocessed, Parsed, Generated, Optimised
            <4>5. CASE cunlink \/ Exit \/ Interrupt \/ Terminate
                BY <3>1, <4>5 DEF cunlink, Exit, Interrupt, Terminate
            <4> QED BY <3>3, <4>1, <4>2, <4>3, <4>4, <4>5 DEF Next, Driver
        <3> QED BY <3>2, <3>3
    <2> QED BY <2>0, <2>1, <2>2, ScratchGrows
<1>4. cleaning' = cleaning \/ cleaning' = ToRemove \/ (cleaning # <<>> /\ cleaning' = Tail(cleaning))
    <2>1. Driver \/ Interrupt \/ Terminate => cleaning' \in {cleaning, ToRemove} \/ (cleaning # <<>> /\ cleaning' = Tail(cleaning))
        BY CcMoves
    <2>2. UNCHANGED vars => cleaning' = cleaning
        BY DEF vars
    <2> QED BY <2>1, <2>2, PassRuns DEF Next
<1>c. cleaning \in Seq(Paths \cup {Tmp("0")})
    BY DEF TypeOK
<1>5. \A n \in DOMAIN cleaning' : cleaning'[n] \in Scratch \cup {Tmp("0")}
    <2>1. CASE cleaning # <<>> /\ cleaning' = Tail(cleaning)
        <3>1. \A n \in DOMAIN cleaning' : n + 1 \in DOMAIN cleaning /\ cleaning'[n] = cleaning[n + 1]
            BY <1>c, <2>1
        <3> QED BY <3>1 DEF ScratchKnown
    <2> QED BY <1>4, <2>1, AllListed DEF ScratchKnown
<1>6. pc' = "clean" /\ ~orphaned' =>
          \A p \in Scratch : Exists(p)' => \E n \in DOMAIN cleaning' : cleaning'[n] = p
    <2> SUFFICES ASSUME pc' = "clean", ~orphaned', NEW p \in Scratch, Exists(p)'
                 PROVE  \E n \in DOMAIN cleaning' : cleaning'[n] = p
        OBVIOUS
    <2>0. ~orphaned
        <3>1. Terminate \/ UNCHANGED orphaned
            BY DEF Next, Driver, Pass, vars, MakeDirectory, CatchSigint, CatchSigterm, NextSource, LastSource,
               Fork, Dropped, Preprocessed, Parsed, Generated, Optimised, Unoptimised, Assembled, Fatal, nocom,
               Loaded, cunlink, Exit, Open, Succeed, Fail, Die, Interrupt
        <3>2. Terminate => (orphaned => orphaned')
            BY Zenon DEF Terminate
        <3> QED BY <3>1, <3>2
    <2>1. CASE pc = "clean"
        <3>1. ~Alive(child)
            BY <2>0, <2>1 DEF Control, Passes
        <3>2. ~Open
            BY <3>1 DEF Open, Alive
        <3>3. Exists(p)
            BY <3>2, ScratchGrows
        <3>4. PICK n \in DOMAIN cleaning : cleaning[n] = p
            BY <2>0, <2>1, <3>3 DEF ScratchKnown
        <3>5. CASE cleaning' = cleaning
            BY <3>4, <3>5
        <3>6. CASE cleaning' = ToRemove
            BY <3>3, <3>6, AllListed
        <3>7. CASE cleaning' # cleaning /\ cleaning' # ToRemove
            <4>1. cleaning # <<>> /\ cleaning' = Tail(cleaning)
                BY <1>4, <3>7
            <4>2. cunlink
                BY <2>1, <3>7 DEF Next, Driver, Pass, vars, MakeDirectory, CatchSigint, CatchSigterm, NextSource, LastSource,
                   Fork, Dropped, Preprocessed, Parsed, Generated, Optimised, Unoptimised, Assembled, Fatal, nocom,
                   Loaded, Exit, Open, Succeed, Fail, Die, Interrupt, Terminate, Signalled, Dexit
            <4>3. n # 1
                <5>1. p \in Paths
                    BY NamesOfFiles
                <5>3. n = 1 => Head(cleaning) = p
                    BY <1>c, <3>4, <4>1
                <5>4. fs' = Without({Head(cleaning)})
                    BY <4>2 DEF cunlink
                <5>2. n = 1 => fs'[p] = Nothing
                    BY <5>1, <5>3, <5>4 DEF Without
                <5> QED BY <5>2 DEF Exists, Nothing, Holds
            <4>4. n - 1 \in DOMAIN cleaning' /\ cleaning'[n - 1] = p
                BY <1>c, <3>4, <4>1, <4>3
            <4> QED BY <4>4
        <3> QED BY <3>5, <3>6, <3>7
    <2>2. CASE pc # "clean"
        <3>1. cleaning' = ToRemove /\ ~Open
            BY <2>2 DEF Next, Driver, Pass, vars, MakeDirectory, CatchSigint, CatchSigterm, NextSource, LastSource,
               Fork, Dropped, Preprocessed, Parsed, Generated, Optimised, Unoptimised, Assembled, Fatal, nocom,
               Loaded, cunlink, Exit, Open, Succeed, Fail, Die, Interrupt, Terminate, Signalled, Dexit, Passes
        <3>2. Exists(p)
            BY <3>1, ScratchGrows
        <3> QED BY <3>1, <3>2, AllListed
    <2> QED BY <2>1, <2>2
<1>7. ended' = "exit" /\ ~orphaned' => ~dir'
    <2> SUFFICES ASSUME ended' = "exit", ~orphaned' PROVE ~dir'
        OBVIOUS
    <2>1. CASE ended = "exit"
        <3>1. Pass \/ UNCHANGED vars
            BY <2>1 DEF Next, Driver, MakeDirectory, CatchSigint, CatchSigterm, NextSource, LastSource,
               Fork, Dropped, Preprocessed, Parsed, Generated, Optimised, Unoptimised, Assembled, Fatal, nocom,
               Loaded, cunlink, Exit, Interrupt, Terminate
        <3>2. UNCHANGED <<dir, orphaned>>
            BY <3>1, PassRuns DEF vars
        <3> QED BY <2>1, <3>2 DEF ScratchKnown
    <2>2. CASE ended # "exit"
        <3>1. Exit
            BY <2>2 DEF Next, Driver, Pass, vars, MakeDirectory, CatchSigint, CatchSigterm, NextSource, LastSource,
               Fork, Dropped, Preprocessed, Parsed, Generated, Optimised, Unoptimised, Assembled, Fatal, nocom,
               Loaded, cunlink, Open, Succeed, Fail, Die, Interrupt, Terminate, Signalled, Dexit
        <3>2. pc = "clean" /\ cleaning = <<>> /\ orphaned' = orphaned
            BY <3>1 DEF Exit
        <3>3. \A p \in Scratch : ~Exists(p)
            BY <3>2 DEF ScratchKnown
        <3>4. dir' = (dir /\ \E p \in Scratch : Exists(p))
            BY <3>1 DEF Exit
        <3> QED BY <3>3, <3>4, Zenon
    <2> QED BY <2>1, <2>2
<1> QED BY <1>0, <1>2, <1>3, <1>5, <1>6, <1>7 DEF ScratchKnown

(* Every variable keeps its type.                                            *)
THEOREM CcTypes == Spec => []TypeOK
<1>1. TypeOK /\ Control /\ [Next]_vars => TypeOK' /\ Control'
    BY NextTyped, NextControl
<1> QED BY <1>1, InitTypes, PTL DEF Spec

(* The names, the pass that runs and the scratch files together.             *)
Kept == TypeOK /\ Control /\ Names /\ ScratchKnown

LEMMA AlwaysKept == Spec => []Kept
<1>1. Init => Kept
    BY InitTypes, InitNames, InitScratch DEF Kept
<1>2. Kept /\ [Next]_vars => Kept'
    BY NextTyped, NextControl, NextNames, NextScratch DEF Kept
<1> QED BY <1>1, <1>2, PTL DEF Spec

(* When cc exits by itself and has left no pass running, its scratch files   *)
(* and their directory are gone, whatever failed and whatever signal came.   *)
THEOREM ScratchGone == Spec => []ScratchRemoved
<1>1. Kept => ScratchRemoved
    BY DEF Kept, ScratchKnown, ScratchRemoved
<1> QED BY <1>1, AlwaysKept, PTL

---------------------------------------------------------------------------
(* The texts the passes hand each other.                                   *)

LEMMA Forms_ ==
    /\ Nothing.form = "absent"
    /\ \A c, f : Holds(c, f).form = f /\ Holds(c, f).src = c
BY DEF Nothing, Holds

(* Outputs, and where they are.                                              *)
LEMMA Outs ==
    ASSUME TypeOK, Control, Names, Alive(child), child.pass # "ld"
    PROVE  /\ i \in Sources /\ Path(Src) \in Paths
           /\ Path(Src)[1] = Src.base /\ Path(Src)[2] = Src.suf
           /\ \A p \in Out(child.pass) \ Scratch :
                  /\ p[1] = Src.base
                  /\ p[2] \in {"i", "o"} \/ (p[2] = "s" /\ Has("S") /\ Src.suf # "s")
                  /\ child.pass # "as" => p[2] # "o"
           /\ child.pass = "as" => Out(child.pass) = {setsuf(Src, "o")}
           /\ child.pass = "c0" => In("c0") = {Tmp("4")} /\ Out("c0") = {tmp1, tmp2}
           /\ child.pass \in {"c1", "c2"} => tmp3 \notin {tmp1, tmp2}
<1>1. child.pass \in Passes \ {"ld"} /\ i \in Sources
    BY DEF Control
<1>2. Path(Src) \in Paths
    BY <1>1, SrcType DEF TypeOK
<1>3. Path(Src)[1] = Src.base /\ Path(Src)[2] = Src.suf /\ \A x : setsuf(Src, x)[1] = Src.base /\ setsuf(Src, x)[2] = x
    BY DEF Path, setsuf
<1>4. CASE child.pass = "cpp"
    <2>1. tmp4 = Tmp("4") \/ tmp4 = setsuf(Src, "i")
        BY <1>4 DEF Control, Names
    <2>2. Out(child.pass) \subseteq {tmp4} /\ Tmp("4") \in Scratch
        BY <1>4, NamesOfFiles DEF Out
    <2> QED BY <1>1, <1>2, <1>3, <1>4, <2>1, <2>2
<1>5. CASE child.pass = "c0"
    <2>1. tmp4 = Tmp("4") /\ tmp1 \in Scratch /\ tmp2 \in Scratch
        BY <1>5, NamesOfFiles DEF Control, Passes, tmp1, tmp2
    <2>2. In("c0") = {Tmp("4")} /\ Out("c0") = {tmp1, tmp2}
        BY <2>1 DEF In, Out
    <2> QED BY <1>1, <1>2, <1>3, <1>5, <2>1, <2>2
<1>6. CASE child.pass \in {"c1", "c2"}
    <2>1. Src.suf # "s" /\ (Has("S") => tmp3 = setsuf(Src, "s")) /\ (~Has("S") => tmp3 \in {Tmp("3"), tmp5})
        BY <1>6 DEF Control, Names, Passes, Early
    <2>2. Out(child.pass) \subseteq {tmp3, tmp5} /\ tmp5 \in Scratch /\ Tmp("3") \in Scratch
        BY <1>6, NamesOfFiles DEF Out
    <2>3. tmp3 \notin {tmp1, tmp2}
        BY <2>1, TmpsApart, NamesOfFiles DEF tmp1, tmp2, tmp5
    <2>4. \A p \in Out(child.pass) \ Scratch : p = setsuf(Src, "s") /\ Has("S")
        BY <2>1, <2>2
    <2> QED BY <1>1, <1>2, <1>3, <1>6, <2>1, <2>3, <2>4
<1>7. CASE child.pass = "as"
    <2>1. Out(child.pass) = {setsuf(Src, "o")}
        BY <1>7 DEF Out
    <2> QED BY <1>1, <1>2, <1>3, <1>7, <2>1
<1> QED BY <1>1, <1>4, <1>5, <1>6, <1>7 DEF Passes

LEMMA InitPipe == Init => Pipe
<1> SUFFICES ASSUME Init PROVE Pipe
    OBVIOUS
<1>1. child.stage = "none" /\ pc = "start"
    BY NoChildType DEF Init
<1>2. Texts
    <2> SUFFICES ASSUME NEW p \in Paths \ Scratch
                 PROVE  (Exists(p) => fs[p].src[1] = p[1]) /\ fs[p].form \notin {"garbled", "partial"}
        BY DEF Texts
    <2>1. fs[p] = Nothing \/ fs[p] = Holds(p, "old") \/ fs[p] = Holds(p, "text")
        BY DEF Init
    <2> QED BY <2>1, Forms_ DEF Exists
<1> QED BY <1>1, <1>2 DEF Pipe, Given, Reading, Written, Spare, Passes

(* cc only removes files; what is left is what it was.                       *)
LEMMA Shrinks ==
    ASSUME TypeOK, NEW p \in Paths, fs' = fs \/ \E gone : fs' = Without(gone)
    PROVE  fs'[p] = fs[p] \/ fs'[p] = Nothing
BY DEF Without

LEMMA TextsShrink ==
    ASSUME TypeOK, [Next]_vars, Texts, fs' = fs \/ \E gone : fs' = Without(gone)
    PROVE  Texts'
<1>1. Has("S")' = Has("S") /\ Sources' = Sources /\ run' = run
    BY Frame
<1> SUFFICES ASSUME NEW p \in Paths \ Scratch
             PROVE  /\ fs'[p].form # "absent" => fs'[p].src[1] = p[1]
                    /\ fs'[p].form # "garbled"
                    /\ fs'[p].form = "partial"
                           => \/ p[2] = "i"
                              \/ /\ p[2] = "s" /\ Has("S")
                                 /\ \E k \in Sources : run.items[k].suf # "s" /\ run.items[k].base = p[1]
    BY <1>1 DEF Texts, Exists
<1>2. fs'[p] = fs[p] \/ fs'[p] = Nothing
    BY Shrinks
<1> QED BY <1>2, Forms_ DEF Texts, Exists

(* A pass that is about to read still will when cc has only removed files.   *)
LEMMA ReadyShrinks ==
    ASSUME TypeOK, [Next]_vars, UNCHANGED <<i, tmp4, assource>>,
           fs' = fs \/ \E gone : fs' = Without(gone), NEW pass \in Passes, Ready(pass),
           pass = "c0" => tmp4 \in Paths
    PROVE  Ready(pass)'
<1>1. Src' = Src
    BY Frame
<1>2. \A p \in Paths : fs'[p] = fs[p] \/ fs'[p] = Nothing
    BY Shrinks
<1>3. tmp1 \in Paths /\ tmp2 \in Paths /\ tmp5 \in Paths /\ assource \in Paths
    BY NamesOfFiles DEF tmp1, tmp2, TypeOK
<1>4. tmp1' = tmp1 /\ tmp2' = tmp2 /\ tmp5' = tmp5
    BY DEF tmp1, tmp2, tmp5, Tmp
<1> QED BY <1>1, <1>2, <1>3, <1>4, Forms_ DEF Ready, Mine, Exists

(* A pass opens its files.                                                   *)
LEMMA OpenPipe ==
    ASSUME TypeOK, Control, Names, Pipe, Open
    PROVE  Pipe'
<1>0. [Next]_vars /\ Alive(child) /\ child \in Record /\ child.pass \in Passes /\ ~(child.stage \in {"none", "running", "dead"})
    BY DEF Open, Alive, Next, Pass, TypeOK, Record, Control
<1>1. /\ UNCHANGED <<run, pc, i, tmp3, tmp4, orphaned, ended>> /\ Src' = Src /\ run' = run
      /\ Has("S")' = Has("S") /\ Sources' = Sources
      /\ tmp5' = tmp5 /\ tmp1' = tmp1 /\ tmp2' = tmp2
    BY <1>0, Frame DEF Open, tmps, signals, tmp1, tmp2, tmp5, Tmp
<1> DEFINE pass == child.pass
           able == (\A p \in In(pass) : Exists(p)) /\ (dir \/ Out(pass) \cap Scratch = {})
           from == {fs'[p] : p \in In(pass)}
<1>2. /\ fs' = [p \in Paths |-> IF able /\ p \in Emptied(pass) THEN Holds(Path(Src), "partial") ELSE fs[p]]
      /\ ~able => child' = Dead(1)
      /\ able => child' = [child EXCEPT !.stage = "running", !.out = Out(pass),
                             !.in = IF Cardinality(from) = 1 THEN CHOOSE x \in from : TRUE ELSE Nothing]
    BY DEF Open
<1>a. able \in BOOLEAN
    OBVIOUS
<1>b. ASSUME NEW p \in Paths
      PROVE  fs'[p] = IF able /\ p \in Emptied(pass) THEN Holds(Path(Src), "partial") ELSE fs[p]
    BY <1>2
<1>3. \A p \in Paths : \/ fs'[p] = fs[p]
                       \/ pass \notin {"as", "ld"} /\ p \in Out(pass) /\ fs'[p] = Holds(Path(Src), "partial")
    <2>1. pass \in {"as", "ld"} => Emptied(pass) = {}
        BY DEF Emptied, Out
    <2>2. Emptied(pass) \subseteq Out(pass)
        BY DEF Emptied
    <2> HIDE DEF able
    <2>3. ASSUME NEW p \in Paths
          PROVE  fs'[p] = fs[p] \/ (p \in Emptied(pass) /\ fs'[p] = Holds(Path(Src), "partial"))
        BY <1>a, <1>b
    <2>4. ASSUME NEW p \in Paths, p \in Emptied(pass) PROVE pass \notin {"as", "ld"} /\ p \in Out(pass)
        BY <2>1, <2>2, <2>4
    <2> QED BY <2>3, <2>4, Zenon
<1>4. child'.stage = "running" \/ (child'.stage = "dead" /\ child'.code # 0)
    <2>1. Dead(1).stage = "dead" /\ Dead(1).code # 0
        BY DEF Dead, NoChild
    <2>2. \A x : [child EXCEPT !.stage = "running", !.out = Out(pass), !.in = x].stage = "running"
        BY <1>0 DEF Record
    <2> HIDE DEF able, from
    <2> QED BY <1>2, <2>1, <2>2
<1>5. Texts'
    <2> SUFFICES ASSUME NEW p \in Paths \ Scratch
                 PROVE  /\ fs'[p].form # "absent" => fs'[p].src[1] = p[1]
                        /\ fs'[p].form # "garbled"
                        /\ fs'[p].form = "partial"
                               => \/ p[2] = "i"
                                  \/ /\ p[2] = "s" /\ Has("S")
                                     /\ \E k \in Sources : run.items[k].suf # "s" /\ run.items[k].base = p[1]
        BY <1>1 DEF Texts, Exists
    <2>1. CASE fs'[p] = fs[p]
        BY <2>1 DEF Pipe, Texts, Exists
    <2>2. CASE pass \notin {"as", "ld"} /\ p \in Out(pass) /\ fs'[p] = Holds(Path(Src), "partial")
        <3>1. /\ i \in Sources /\ Path(Src)[1] = Src.base /\ p[1] = Src.base
              /\ p[2] = "i" \/ (p[2] = "s" /\ Has("S") /\ Src.suf # "s")
            BY <1>0, <2>2, Outs
        <3> QED BY <2>2, <3>1, Forms_ DEF Src
    <2> QED BY <1>3, <2>1, <2>2
<1>6. Given' /\ Written' /\ (child'.stage = "dead" => Reading')
    BY <1>1, <1>4 DEF Given, Written, Reading
<1>7. Spare'
    <2> SUFFICES ASSUME ended = "", pc = "c2", fs'[tmp5].form # "absent", tmp3 # tmp5
                 PROVE  fs'[tmp5].src[1] = Src.base /\ fs'[tmp5].form \notin {"absent", "partial", "garbled"}
        BY <1>1 DEF Spare, Mine, Exists
    <2>1. pass = "c2"
        BY <1>0 DEF Control
    <2>2. tmp5 \notin Out(pass) /\ tmp5 \in Paths
        BY <2>1, NamesOfFiles DEF Out
    <2>3. fs'[tmp5] = fs[tmp5]
        BY <1>3, <2>2
    <2> QED BY <2>3 DEF Pipe, Spare, Mine, Exists
<1>8. ASSUME able, pass # "ld" PROVE Reading'
    <2>1. child'.pass = pass /\ child'.out = Out(pass)
          /\ child'.in = IF Cardinality(from) = 1 THEN CHOOSE x \in from : TRUE ELSE Nothing
        BY <1>0, <1>2, <1>8 DEF Record
    <2>2. \A x : from = {x} => child'.in = x
        <3> HIDE DEF from
        <3>1. \A x : Cardinality({x}) = 1
            BY FS_Singleton
        <3> QED BY <2>1, <3>1
    <2>3. Ready(pass) /\ \A p \in In(pass) : fs[p].form # "absent"
        BY <1>0, <1>8 DEF Pipe, Given, Open, Exists
    <2>4. /\ Path(Src) \in Paths /\ Path(Src)[1] = Src.base /\ Path(Src)[2] = Src.suf
          /\ Src.suf \in {"c", "s", "o", ""} /\ Path(Src) \notin Scratch
        <3>1. Path(Src) \in Paths /\ Path(Src)[1] = Src.base /\ Path(Src)[2] = Src.suf /\ i \in Sources
            BY <1>0, <1>8, Outs
        <3>2. Src.suf \in {"c", "s", "o", ""}
            BY <3>1, SrcType DEF TypeOK
        <3> QED BY <3>1, <3>2, NamesOfFiles
    <2>5. /\ child'.in.src[1] = Src.base /\ child'.in.form # "garbled"
          /\ child'.in.form = "partial" => pass = "c2"
          /\ pass = "c2" /\ tmp3 = tmp5 => child'.in.form = "partial"
        <3>1. CASE pass = "cpp"
            <4>1. In(pass) = {Path(Src)} /\ Src.suf # "s"
                BY <1>0, <3>1 DEF In, Control, Passes, Early
            <4>2. Path(Src) \notin Out(pass)
                <5>1. \A p \in Out(pass) \ Scratch : p[2] \in {"i", "o"} \/ (p[2] = "s" /\ Src.suf # "s")
                    BY <1>0, <3>1, Outs
                <5>2. \A p \in Out(pass) \ Scratch : p[2] # "o"
                    BY <1>0, <3>1, Outs
                <5> QED BY <2>4, <4>1, <5>1, <5>2
            <4>3. child'.in = fs[Path(Src)]
                <5>1. from = {fs'[Path(Src)]}
                    BY <4>1
                <5> QED BY <1>3, <2>2, <2>4, <4>2, <5>1
            <4>4. fs[Path(Src)].form # "absent"
                BY <2>3, <4>1
            <4> QED BY <2>4, <3>1, <4>1, <4>3, <4>4 DEF Pipe, Texts, Exists
        <3>2. CASE pass = "c0"
            <4>1. In(pass) = {Tmp("4")} /\ Out(pass) = {tmp1, tmp2} /\ Tmp("4") \in Paths /\ tmp4 = Tmp("4")
                BY <1>0, <3>2, Outs, NamesOfFiles DEF Control, Passes
            <4>2. from = {fs[Tmp("4")]}
                BY <1>3, <4>1, TmpsApart DEF tmp1, tmp2
            <4>3. child'.in = fs[Tmp("4")]
                BY <2>2, <4>2
            <4> QED BY <2>3, <3>2, <4>1, <4>3 DEF Ready, Mine, Exists
        <3>3. CASE pass = "c1"
            <4>1. In(pass) = {tmp1, tmp2} /\ Out(pass) \subseteq {tmp3, tmp5} /\ tmp3 \notin {tmp1, tmp2}
                  /\ tmp1 \in Paths /\ tmp2 \in Paths
                BY <1>0, <3>3, Outs, NamesOfFiles DEF In, Out, tmp1, tmp2
            <4>2. tmp5 \notin {tmp1, tmp2}
                BY TmpsApart DEF tmp1, tmp2, tmp5
            <4>3. fs'[tmp1] = fs[tmp1] /\ fs'[tmp2] = fs[tmp2] /\ fs[tmp1] = fs[tmp2]
                BY <1>3, <2>3, <3>3, <4>1, <4>2 DEF Ready, Exists
            <4>4. from = {fs[tmp1]}
                BY <4>1, <4>3
            <4>5. child'.in = fs[tmp1]
                BY <2>2, <4>4
            <4> QED BY <2>3, <3>3, <4>1, <4>5 DEF Ready, Mine, Exists
        <3>4. CASE pass = "c2"
            <4>1. In(pass) = {tmp5} /\ Out(pass) = {tmp3} /\ Emptied(pass) = {tmp3} /\ tmp5 \in Paths
                BY <3>4, NamesOfFiles DEF In, Out, Emptied
            <4>2. from = {fs'[tmp5]}
                BY <4>1
            <4>3. child'.in = fs'[tmp5]
                BY <2>2, <4>2
            <4>4. CASE tmp3 = tmp5
                <5>1. fs'[tmp5] = Holds(Path(Src), "partial")
                    <6> HIDE DEF able, from
                    <6>1. tmp5 \in Emptied(pass) /\ tmp5 \in Paths
                        BY <4>1, <4>4
                    <6> QED BY <1>b, <1>8, <6>1, Zenon
                <5>2. child'.in.form = "partial" /\ child'.in.src = Path(Src)
                    BY <4>3, <5>1, Forms_
                <5> QED BY <2>4, <3>4, <5>2
            <4>5. CASE tmp3 # tmp5
                <5>1. fs'[tmp5] = fs[tmp5]
                    BY <1>3, <4>1, <4>5
                <5> QED BY <2>3, <3>4, <4>1, <4>3, <4>5, <5>1 DEF Ready, Mine, Exists
            <4> QED BY <4>4, <4>5
        <3>5. CASE pass = "as"
            <4>1. In(pass) = {assource} /\ assource \in Paths
                BY <3>5 DEF In, TypeOK
            <4>2. fs'[assource] = fs[assource]
                BY <1>3, <3>5, <4>1
            <4>3. from = {fs[assource]}
                BY <4>1, <4>2
            <4>4. child'.in = fs[assource]
                BY <2>2, <4>3
            <4> QED BY <2>3, <3>5, <4>1, <4>4 DEF Ready, Mine, Exists
        <3> HIDE DEF from, able
        <3> QED BY <1>0, <1>8, <3>1, <3>2, <3>3, <3>4, <3>5 DEF Passes
    <2>6. pass # "as" => \A p \in Out(pass) : fs'[p].form # "absent"
        <3> SUFFICES ASSUME pass # "as", NEW p \in Out(pass) PROVE fs'[p].form # "absent"
            OBVIOUS
        <3>1. p \in Paths
            BY <1>0, <1>8, NamesOfFiles, SrcType DEF Out, Passes, TypeOK, Control, Names, tmp1, tmp2
        <3>2. p \in Emptied(pass)
            BY DEF Emptied
        <3>3. fs'[p] = Holds(Path(Src), "partial")
            BY <1>b, <1>8, <3>1, <3>2
        <3> QED BY <3>3, Forms_
    <2> HIDE DEF from, able
    <2> QED BY <1>1, <2>1, <2>5, <2>6 DEF Reading, Exists
<1>9. able /\ pass = "ld" => Reading'
    BY <1>0, <1>2 DEF Reading, Record
<1>10. Reading'
    <2>1. ~able => child'.stage = "dead"
        BY <1>2 DEF Dead, NoChild
    <2> HIDE DEF able
    <2> QED BY <1>6, <1>8, <1>9, <2>1
<1> QED BY <1>5, <1>6, <1>7, <1>10 DEF Pipe

(* A pass ends: its outputs that are there hold what it made of the source.  *)
LEMMA TextsWritten ==
    ASSUME TypeOK, Control, Names, Pipe, [Next]_vars, child.stage = "running", child.pass # "ld",
           NEW form \in Forms \ {"garbled", "partial"}, Write(child.out, Holds(child.in.src, form))
    PROVE  Texts'
<1>1. Has("S")' = Has("S") /\ Sources' = Sources /\ run' = run /\ Alive(child)
    BY Frame DEF Alive
<1>2. child.out = Out(child.pass) /\ child.in.src[1] = Src.base
    BY DEF Names, Pipe, Reading
<1> SUFFICES ASSUME NEW p \in Paths \ Scratch
             PROVE  /\ fs'[p].form # "absent" => fs'[p].src[1] = p[1]
                    /\ fs'[p].form # "garbled"
                    /\ fs'[p].form = "partial"
                           => \/ p[2] = "i"
                              \/ /\ p[2] = "s" /\ Has("S")
                                 /\ \E k \in Sources : run.items[k].suf # "s" /\ run.items[k].base = p[1]
    BY <1>1 DEF Texts, Exists
<1>3. CASE fs'[p] = fs[p]
    BY <1>3 DEF Pipe, Texts, Exists
<1>4. CASE p \in child.out /\ fs'[p] = Holds(child.in.src, form)
    <2>1. p[1] = Src.base
        BY <1>1, <1>2, <1>4, Outs
    <2>2. fs'[p].form = form /\ fs'[p].src = child.in.src
        BY <1>4, Forms_
    <2> QED BY <1>2, <2>1, <2>2
<1> QED BY <1>3, <1>4 DEF Write

LEMMA SucceedPipe ==
    ASSUME TypeOK, Control, Names, Pipe, Succeed
    PROVE  Pipe'
<1>0. [Next]_vars /\ Alive(child) /\ child \in Record /\ child.pass \in Passes /\ child.stage = "running"
    BY DEF Succeed, Alive, Next, Pass, TypeOK, Record, Control
<1>1. /\ UNCHANGED <<run, pc, i, tmp3, tmp4, orphaned, ended>> /\ Src' = Src /\ pflag' = pflag /\ Has("O")' = Has("O")
      /\ Has("S")' = Has("S") /\ Sources' = Sources /\ run' = run
      /\ tmp5' = tmp5 /\ tmp1' = tmp1 /\ tmp2' = tmp2
    BY <1>0, Frame DEF Succeed, tmps, signals, tmp1, tmp2, tmp5, Tmp
<1>2. child'.stage = "dead"
    BY <1>0 DEF Succeed, Record
<1>3. CASE child.pass = "ld"
    <2>1. fs' = fs
        BY <1>3 DEF Succeed
    <2>2. Texts'
        BY <1>1, <2>1 DEF Pipe, Texts, Exists
    <2>3. ended = "" /\ pc \in Passes => pc = "ld"
        BY <1>0, <1>3 DEF Control, Passes
    <2>4. Spare' /\ Written'
        BY <1>1, <2>3 DEF Spare, Written, Left, Passes
    <2> QED BY <1>1, <1>2, <2>2, <2>4 DEF Pipe, Given, Reading
<1>4. CASE child.pass # "ld"
    <2>1. child.pass \in {"cpp", "c0", "c1", "c2", "as"} /\ child.in.form # "partial"
        BY <1>0, <1>4 DEF Succeed, Pipe, Reading, Passes
    <2>2. Write(child.out, Holds(child.in.src, Made[child.pass])) /\ child.out = Out(child.pass)
        BY <1>0, <1>4, <2>1 DEF Succeed, Names
    <2>3. Made[child.pass] \in Forms \ {"garbled", "partial", "absent"}
        BY <2>1 DEF Made, Forms
    <2>4. Texts'
        BY <1>0, <1>4, <2>2, <2>3, TextsWritten
    <2>5. ended = "" /\ pc \in Passes => pc = child.pass /\ ~orphaned
        BY <1>0 DEF Control, Passes
    <2>6. child.pass # "as" /\ ~orphaned =>
              \A p \in Out(child.pass) : p \in Paths => fs'[p] = Holds(child.in.src, Made[child.pass])
        BY <1>0, <1>4, <2>2 DEF Pipe, Reading, Write
    <2>7. child.in.src[1] = Src.base
        BY <1>0, <1>4 DEF Pipe, Reading
    <2>8. ASSUME NEW p \in Paths, fs'[p] = Holds(child.in.src, Made[child.pass])
          PROVE  Mine(p)' /\ fs'[p].form = Made[child.pass]
        BY <1>1, <2>3, <2>7, <2>8, Forms_ DEF Mine
    <2>9. Written'
        <3> SUFFICES ASSUME ended = "", pc \in Passes PROVE Left(pc)'
            BY <1>1 DEF Written
        <3>1. tmp1 \in Paths /\ tmp2 \in Paths /\ tmp5 \in Paths /\ tmp3 \in Paths
            BY NamesOfFiles DEF TypeOK, tmp1, tmp2
        <3>2. CASE pc = "cpp" /\ ~pflag
            <4>1. Out("cpp") = {tmp4} /\ tmp4 \in Paths
                BY <3>2, NamesOfFiles DEF Out, pflag, Control
            <4>2. Mine(tmp4)'
                <5>1. fs'[tmp4] = Holds(child.in.src, Made[child.pass])
                    BY <2>5, <2>6, <3>2, <4>1
                <5> QED BY <1>1, <2>8, <4>1, <5>1 DEF Mine
            <4> QED BY <1>1, <3>2, <4>2 DEF Left
        <3>3. CASE pc = "c0"
            <4>1. Out("c0") = {tmp1, tmp2}
                BY DEF Out
            <4>2. fs'[tmp1] = Holds(child.in.src, Made[child.pass]) /\ fs'[tmp2] = fs'[tmp1]
                BY <2>5, <2>6, <3>1, <3>3, <4>1
            <4>3. Mine(tmp1)'
                BY <1>1, <2>8, <3>1, <4>2 DEF Mine
            <4> QED BY <1>1, <3>3, <4>2, <4>3 DEF Left
        <3>4. CASE pc = "c1"
            <4> DEFINE q == IF Has("O") THEN tmp5 ELSE tmp3
            <4>1. Out("c1") = {q} /\ q \in Paths /\ Made["c1"] = "asm" /\ q' = q
                BY <1>1, <3>1 DEF Out, Made
            <4> HIDE DEF q
            <4>2. fs'[q] = Holds(child.in.src, Made[child.pass])
                BY <2>5, <2>6, <3>4, <4>1
            <4>3. fs'[q].src[1] = Src.base /\ fs'[q].form = "asm"
                <5>1. child.pass = "c1"
                    BY <2>5, <3>4
                <5>3. fs'[q] = Holds(child.in.src, Made["c1"])
                    BY <4>2, <5>1
                <5>4. Made["c1"] = "asm"
                    BY DEF Made
                <5> DEFINE h == Holds(child.in.src, Made["c1"])
                <5>5. h.src = child.in.src /\ h.form = Made["c1"]
                    BY Forms_
                <5> HIDE DEF h
                <5>6. h.src[1] = Src.base /\ h.form = "asm"
                    BY <2>7, <5>4, <5>5
                <5> QED BY <5>3, <5>6 DEF h
            <4>4. Mine(q)' /\ fs'[q].form = "asm"
                BY <1>1, <4>1, <4>3 DEF Mine
            <4> QED BY <1>1, <3>4, <4>4 DEF Left, q
        <3>5. CASE pc = "c2"
            <4>1. Out("c2") = {tmp3} /\ Made["c2"] = "opt"
                BY DEF Out, Made
            <4>2. fs'[tmp3] = Holds(child.in.src, Made[child.pass])
                BY <2>5, <2>6, <3>1, <3>5, <4>1
            <4>3. Mine(tmp3)' /\ fs'[tmp3].form = "opt"
                BY <1>1, <2>5, <2>8, <3>1, <3>5, <4>1, <4>2 DEF Mine
            <4> QED BY <1>1, <3>5, <4>3 DEF Left
        <3>6. CASE pc \notin {"cpp", "c0", "c1", "c2"} \/ (pc = "cpp" /\ pflag)
            BY <1>1, <3>6 DEF Left
        <3> QED BY <3>2, <3>3, <3>4, <3>5, <3>6
    <2>10. Spare'
        <3> SUFFICES ASSUME ended = "", pc = "c2", fs'[tmp5].form # "absent", tmp3 # tmp5
                     PROVE  fs'[tmp5].src[1] = Src.base /\ fs'[tmp5].form \notin {"absent", "partial", "garbled"}
            BY <1>1 DEF Spare, Mine, Exists
        <3>1. child.out = {tmp3} /\ tmp5 \in Paths
            BY <2>2, <2>5, NamesOfFiles DEF Out, Passes
        <3>2. fs'[tmp5] = fs[tmp5]
            BY <2>2, <3>1 DEF Write
        <3> QED BY <3>2 DEF Pipe, Spare, Mine, Exists
    <2> QED BY <1>1, <1>2, <2>4, <2>9, <2>10 DEF Pipe, Given, Reading
<1> QED BY <1>3, <1>4

LEMMA FailPipe ==
    ASSUME TypeOK, Control, Names, Pipe, Fail \/ \E s \in Crash : Die(s)
    PROVE  Pipe'
<1>0. [Next]_vars /\ Alive(child) /\ child \in Record /\ child.pass \in Passes /\ child.stage = "running"
    BY DEF Fail, Die, Alive, Next, Pass, TypeOK, Record, Control
<1>1. /\ UNCHANGED <<run, pc, i, tmp3, tmp4, orphaned, ended>> /\ Src' = Src
      /\ Has("S")' = Has("S") /\ Sources' = Sources /\ run' = run
      /\ tmp5' = tmp5
    BY <1>0, Frame, PassRuns DEF Fail, Die, tmps, signals, tmp5, Tmp
<1>2. child'.stage = "dead" /\ (child'.code # 0 \/ child'.sig # 0)
    <2>1. CASE Fail
        <3>1. child' = [child EXCEPT !.stage = "dead", !.code = 1]
            BY <2>1 DEF Fail
        <3>2. child'.stage = "dead" /\ child'.code = 1
            BY <1>0, <3>1 DEF Record
        <3> QED BY <3>2
    <2>2. ASSUME NEW s \in Crash, Die(s) PROVE child'.stage = "dead" /\ child'.sig # 0
        <3>1. s # 0
            BY CrashAssumption
        <3> QED BY <1>0, <2>2, <3>1 DEF Die, Record
    <2> QED BY <2>1, <2>2
<1>3. fs' = fs \/ (child.pass = "as" /\ Write(child.out, Holds(child.in.src, "broken")))
    BY DEF Fail, Die, files
<1>4. Texts'
    <2>1. CASE fs' = fs
        BY <1>1, <2>1 DEF Pipe, Texts, Exists
    <2>2. CASE child.pass = "as" /\ Write(child.out, Holds(child.in.src, "broken"))
        <3>1. "broken" \in Forms \ {"garbled", "partial"}
            BY DEF Forms
        <3> QED BY <1>0, <2>2, <3>1, TextsWritten
    <2> QED BY <1>3, <2>1, <2>2
<1>5. Spare'
    <2>1. CASE ended = "" /\ pc = "c2"
        <3>1. fs' = fs
            BY <1>0, <1>3, <2>1 DEF Control
        <3> QED BY <1>1, <3>1 DEF Pipe, Spare, Mine, Exists
    <2>2. CASE ~(ended = "" /\ pc = "c2")
        BY <1>1, <2>2 DEF Spare
    <2> QED BY <2>1, <2>2
<1> QED BY <1>1, <1>2, <1>4, <1>5 DEF Pipe, Given, Reading, Written

(* What cc does while a pass of it may still run, or after it is over.       *)
LEMMA CcAside ==
    ASSUME TypeOK, Control, Names, Pipe, [Next]_vars,
           UNCHANGED <<i, tmp3, tmp4, assource>>, fs' = fs \/ \E gone : fs' = Without(gone),
           child' = child \/ child' = NoChild,
           pc' \notin Passes \/ ended' # "" \/ UNCHANGED <<fs, pc, ended, child>>,
           child.stage \in {"forked", "running"} => UNCHANGED fs \/ orphaned',
           orphaned => orphaned'
    PROVE  Pipe'
<1>1. Src' = Src /\ tmp5' = tmp5 /\ (\A pass : Ready(pass) => pass \notin Passes \/ Ready(pass)' \/ (pass = "c0" /\ tmp4 \notin Paths))
    <2>1. ASSUME NEW pass \in Passes, Ready(pass), pass = "c0" => tmp4 \in Paths PROVE Ready(pass)'
        BY <2>1, ReadyShrinks
    <2>2. Src' = Src /\ tmp5' = tmp5
        BY Frame DEF tmp5, Tmp
    <2> QED BY <2>1, <2>2
<1>2. Texts'
    BY TextsShrink DEF Pipe
<1>3. Given'
    <2>1. CASE child'.stage = "forked"
        <3>1. child' = child /\ child.pass \in Passes /\ Ready(child.pass)
            BY <2>1, NoChildType DEF Pipe, Given, Control, Alive
        <3>2. child.pass = "c0" => tmp4 \in Paths
            BY <2>1, <3>1, NamesOfFiles DEF Control, Alive
        <3> QED BY <1>1, <2>1, <3>1, <3>2 DEF Given
    <2>2. CASE child'.stage = "none" /\ ended' = "" /\ pc' \in Passes
        <3>1. UNCHANGED <<fs, pc, ended, child>>
            BY <2>2
        <3>2. Ready(pc)
            BY <2>2, <3>1 DEF Pipe, Given
        <3>3. pc = "c0" => tmp4 \in Paths
            BY NamesOfFiles DEF Control, Passes
        <3> QED BY <1>1, <2>2, <3>1, <3>2, <3>3 DEF Given
    <2>3. CASE child'.stage # "forked" /\ ~(child'.stage = "none" /\ ended' = "" /\ pc' \in Passes)
        BY <2>3 DEF Given
    <2> QED BY <2>1, <2>2, <2>3
<1>4. Reading'
    <2>1. CASE child'.stage = "running" /\ child'.pass # "ld"
        <3>1. child' = child
            BY <2>1, NoChildType
        <3>2. CASE fs' = fs
            BY <1>1, <2>1, <3>1, <3>2 DEF Pipe, Reading, Exists
        <3>3. CASE orphaned'
            BY <1>1, <2>1, <3>1, <3>3 DEF Pipe, Reading
        <3> QED BY <2>1, <3>1, <3>2, <3>3
    <2> QED BY <2>1 DEF Reading
<1>5. Written' /\ Spare'
    <2>1. CASE UNCHANGED <<fs, pc, ended, child>>
        <3>1. pflag' = pflag /\ Has("O")' = Has("O") /\ tmp1' = tmp1 /\ tmp2' = tmp2
            BY Frame DEF tmp1, tmp2, Tmp
        <3>2. Written'
            BY <1>1, <2>1, <3>1 DEF Pipe, Written, Left, Mine
        <3> QED BY <1>1, <2>1, <3>2 DEF Pipe, Spare, Mine, Exists
    <2>2. CASE pc' \notin Passes \/ ended' # ""
        BY <2>2 DEF Written, Spare, Passes
    <2> QED BY <2>1, <2>2
<1> QED BY <1>2, <1>3, <1>4, <1>5 DEF Pipe

(* cc has seen a pass end, or has done with this source.                     *)
LEMMA CcWithout ==
    ASSUME TypeOK, Control, Pipe, [Next]_vars,
           fs' = fs \/ \E gone : fs' = Without(gone), child' = NoChild,
           pc' \notin Passes
    PROVE  Pipe'
<1>1. Texts'
    BY TextsShrink DEF Pipe
<1>2. child'.stage = "none"
    BY NoChildType
<1> QED BY <1>1, <1>2 DEF Pipe, Given, Reading, Written, Spare, Passes

(* On to the next pass, whose files are there or will be missed.             *)
LEMMA CcOnward ==
    ASSUME TypeOK, Control, Pipe, [Next]_vars,
           fs' = fs \/ \E gone : fs' = Without(gone),
           child'.stage \in {"none", "forked"} \/ (child'.stage = "dead" /\ child'.code # 0),
           Given', Spare'
    PROVE  Pipe'
<1>1. Texts'
    BY TextsShrink DEF Pipe
<1> QED BY <1>1 DEF Pipe, Reading, Written

LEMMA NextSourcePipe ==
    ASSUME TypeOK, Control, Names, Pipe, TextsApart, NextSource
    PROVE  Pipe'
<1>0. [Next]_vars
    BY DEF Next, Driver
<1>1. /\ ended = "" /\ pc = "next" /\ i \in Sources /\ UNCHANGED <<i, tmp3, child, fs, ended>>
      /\ pc' = IF Src.suf = "s" THEN "as" ELSE "cpp"
      /\ Src.suf = "s" => assource' = Path(Src)
    BY DEF NextSource, At, Goto, files
<1>2. child' = NoChild /\ Src' = Src
    BY <1>0, <1>1, Frame DEF Names, Passes
<1>3. CASE Src.suf = "s"
    <2>1. /\ Path(Src) \in Paths \ Scratch /\ Path(Src)[1] = Src.base /\ Path(Src)[2] = "s"
        <3>1. Path(Src) \in Paths /\ Path(Src)[1] = Src.base /\ Path(Src)[2] = "s"
            BY <1>1, <1>3, SrcType DEF Path, TypeOK
        <3> QED BY <3>1, NamesOfFiles
    <2>2. fs[Path(Src)].form # "partial"
        <3> SUFFICES ASSUME fs[Path(Src)].form = "partial" PROVE FALSE
            OBVIOUS
        <3>1. Has("S") /\ \E k \in Sources : run.items[k].suf # "s" /\ run.items[k].base = Src.base
            BY <2>1 DEF Pipe, Texts
        <3>2. PICK k \in Sources : run.items[k].suf # "s" /\ run.items[k].base = run.items[i].base
            BY <3>1 DEF Src
        <3>3. k = i
            BY <1>1, <3>1, <3>2 DEF TextsApart
        <3> QED BY <1>3, <3>2, <3>3 DEF Src
    <2>3. fs[Path(Src)].form # "absent" => fs[Path(Src)].src[1] = Src.base /\ fs[Path(Src)].form # "garbled"
        BY <2>1 DEF Pipe, Texts, Exists
    <2>4. fs'[assource'] = fs[Path(Src)] /\ pc' = "as"
        BY <1>1, <1>3
    <2>5. Ready(pc)'
        BY <1>2, <2>2, <2>3, <2>4 DEF Ready, Mine, Exists
    <2>6. Given' /\ Spare'
        BY <1>2, <2>4, <2>5, NoChildType DEF Given, Spare
    <2> QED BY <1>0, <1>1, <1>2, <2>6, NoChildType, CcOnward
<1>4. CASE Src.suf # "s"
    <2>1. pc' = "cpp"
        BY <1>1, <1>4
    <2>2. Given' /\ Spare'
        BY <1>2, <2>1, NoChildType DEF Given, Spare, Ready
    <2> QED BY <1>0, <1>1, <1>2, <2>2, NoChildType, CcOnward
<1> QED BY <1>3, <1>4

LEMMA ForkPipe ==
    ASSUME TypeOK, Control, Names, Pipe, Fork
    PROVE  Pipe'
<1>0. [Next]_vars
    BY DEF Next, Driver
<1>1. /\ ended = "" /\ pc \in Passes /\ child = NoChild /\ UNCHANGED <<i, tmp4, pc, ended>>
      /\ fs' = IF pc = "as" THEN Without({tmp1, tmp2, tmp4}) ELSE fs
      /\ pc # "c1" => UNCHANGED <<tmp3, assource>>
      /\ child' = Dead(100) \/ child' = [NoChild EXCEPT !.pass = pc, !.stage = "forked"]
    BY DEF Fork
<1>2. Src' = Src /\ tmp1' = tmp1 /\ tmp2' = tmp2 /\ tmp5' = tmp5
    BY <1>0, <1>1, Frame DEF tmp1, tmp2, tmp5, Tmp
<1>3. \/ child'.stage = "dead" /\ child'.code # 0
      \/ child'.stage = "forked" /\ child'.pass = pc
    <2>1. Dead(100).stage = "dead" /\ Dead(100).code # 0
        BY DEF Dead, NoChild
    <2>2. [NoChild EXCEPT !.pass = pc, !.stage = "forked"].stage = "forked"
          /\ [NoChild EXCEPT !.pass = pc, !.stage = "forked"].pass = pc
        BY DEF NoChild
    <2> QED BY <1>1, <2>1, <2>2, Zenon
<1>4. Ready(pc)
    BY <1>1, NoChildType DEF Pipe, Given
<1>5. Ready(pc)'
    <2>1. CASE pc = "c1"
        BY <1>1, <1>2, <1>4, <2>1 DEF Ready, Mine, Exists
    <2>2. CASE pc # "c1"
        <3>1. pc = "c0" => tmp4 \in Paths
            BY NamesOfFiles DEF Control, Passes
        <3>2. ASSUME NEW pass \in Passes, pass = pc PROVE Ready(pass)'
            <4>1. Ready(pass)
                BY <1>4, <3>2
            <4> QED BY <1>0, <1>1, <2>2, <3>1, <3>2, <4>1, ReadyShrinks
        <3> QED BY <1>1, <3>2
    <2> QED BY <2>1, <2>2
<1>6. Given'
    BY <1>1, <1>3, <1>5 DEF Given
<1>7. Spare'
    <2>1. pc = "c2" => fs' = fs /\ tmp3' = tmp3
        BY <1>1
    <2> QED BY <1>1, <1>2, <2>1 DEF Pipe, Spare, Mine, Exists
<1> QED BY <1>0, <1>1, <1>3, <1>6, <1>7, CcOnward

LEMMA ReturnPipe ==
    ASSUME TypeOK, Control, Names, Pipe,
           Preprocessed \/ Parsed \/ Generated \/ Optimised \/ Unoptimised
    PROVE  Pipe'
<1>0. [Next]_vars
    BY DEF Next, Driver
<1> USE DEF At, Goto, files, tmps, Returned, NextFile, AfterText
<1>1. /\ ended = "" /\ pc \in Early /\ child' = NoChild /\ tmp4' = tmp4 /\ ended' = ended
      /\ child.stage = "dead" /\ child.sig = 0
      /\ \/ pc' = "next" /\ pc \in {"cpp", "c1", "c2"} /\ (fs' = fs \/ \E gone : fs' = Without(gone))
         \/ i' = i /\ fs' = fs /\ pc = "cpp" /\ pc' = "c0" /\ ~pflag /\ child.code = 0
         \/ i' = i /\ fs' = fs /\ pc = "c0" /\ pc' = "c1" /\ child.code = 0
         \/ i' = i /\ fs' = fs /\ pc = "c1" /\ child.code = 0 /\ UNCHANGED <<tmp3, assource>>
            /\ pc' = IF Has("O") THEN "c2" ELSE "as"
         \/ i' = i /\ fs' = Without({tmp5}) /\ pc = "c2" /\ pc' = "as" /\ child.code = 0 /\ assource' = assource
         \/ i' = i /\ fs' = Without({tmp3}) /\ pc = "c2" /\ pc' = "as" /\ assource' = tmp5
    BY DEF Preprocessed, Parsed, Generated, Optimised, Unoptimised, Early
<1>2. i' = i => Src' = Src
    BY <1>0, Frame
<1>3. tmp1' = tmp1 /\ tmp2' = tmp2 /\ tmp5' = tmp5 /\ child'.stage = "none" /\ pc \in Passes
    BY <1>1, NoChildType DEF tmp1, tmp2, tmp5, Tmp, Early, Passes
<1>4. child.code = 0 => Left(pc)
    BY <1>1, <1>3 DEF Pipe, Written
<1>5. CASE pc' = "next" /\ (fs' = fs \/ \E gone : fs' = Without(gone))
    BY <1>0, <1>1, <1>5, CcWithout DEF Passes
<1>6. CASE i' = i /\ fs' = fs /\ pc = "cpp" /\ pc' = "c0" /\ ~pflag /\ child.code = 0
    <2>1. Ready(pc)' /\ Spare'
        BY <1>1, <1>2, <1>4, <1>6 DEF Ready, Left, Mine, Exists, Spare
    <2> QED BY <1>0, <1>3, <1>6, <2>1, CcOnward DEF Given
<1>7. CASE i' = i /\ fs' = fs /\ pc = "c0" /\ pc' = "c1" /\ child.code = 0
    <2>1. Ready(pc)' /\ Spare'
        BY <1>1, <1>2, <1>3, <1>4, <1>7 DEF Ready, Left, Mine, Exists, Spare
    <2> QED BY <1>0, <1>3, <1>7, <2>1, CcOnward DEF Given
<1>8. CASE /\ i' = i /\ fs' = fs /\ pc = "c1" /\ child.code = 0 /\ UNCHANGED <<tmp3, assource>>
           /\ pc' = IF Has("O") THEN "c2" ELSE "as"
    <2>1. assource = tmp3
        BY <1>8 DEF Names, Early
    <2>2. Ready(pc)' /\ Spare'
        <3>1. CASE Has("O")
            BY <1>1, <1>2, <1>3, <1>4, <1>8, <3>1 DEF Ready, Left, Mine, Exists, Spare
        <3>2. CASE ~Has("O")
            BY <1>1, <1>2, <1>3, <1>4, <1>8, <2>1, <3>2 DEF Ready, Left, Mine, Exists, Spare
        <3> QED BY <3>1, <3>2
    <2> QED BY <1>0, <1>3, <1>8, <2>2, CcOnward DEF Given
<1>9. CASE i' = i /\ fs' = Without({tmp5}) /\ pc = "c2" /\ pc' = "as" /\ child.code = 0 /\ assource' = assource
    <2>1. assource = tmp3 /\ assource \in Paths
        BY <1>9 DEF Names, Early, TypeOK
    <2>2. fs'[assource] = fs[tmp3] \/ fs'[assource] = Nothing
        BY <1>9, <2>1 DEF Without
    <2>3. Ready(pc)' /\ Spare'
        BY <1>2, <1>4, <1>9, <2>2, Forms_ DEF Ready, Left, Mine, Exists, Spare
    <2> QED BY <1>0, <1>3, <1>9, <2>3, CcOnward DEF Given
<1>10. CASE i' = i /\ fs' = Without({tmp3}) /\ pc = "c2" /\ pc' = "as" /\ assource' = tmp5
    <2>1. tmp5 \in Paths
        BY NamesOfFiles
    <2>2. (fs'[tmp5] = fs[tmp5] /\ tmp3 # tmp5) \/ fs'[tmp5] = Nothing
        BY <1>10, <2>1 DEF Without
    <2>3. fs[tmp5].form # "absent" => (fs[tmp5].src[1] = Src.base /\ fs[tmp5].form \notin {"absent", "partial", "garbled"}) \/ tmp3 = tmp5
        BY <1>1, <1>10 DEF Pipe, Spare, Exists, Mine
    <2>4. Ready(pc)' /\ Spare'
        BY <1>2, <1>10, <2>2, <2>3, Forms_ DEF Ready, Mine, Exists, Spare
    <2> QED BY <1>0, <1>3, <1>10, <2>4, CcOnward DEF Given
<1> QED BY <1>1, <1>5, <1>6, <1>7, <1>8, <1>9, <1>10

LEMMA NextPipe ==
    ASSUME TypeOK, Control, Names, Pipe, TextsApart, [Next]_vars
    PROVE  Pipe'
<1> USE DEF At, Goto, files, tmps, flags, signals, history, Returned, NextFile
<1>1. CASE UNCHANGED vars
    BY <1>1, CcAside DEF vars
<1>2. CASE Pass
    BY <1>2, OpenPipe, SucceedPipe, FailPipe DEF Pass
<1>3. CASE MakeDirectory \/ CatchSigint \/ CatchSigterm \/ LastSource
    <2>1. /\ UNCHANGED <<i, tmp3, tmp4, assource, fs, child, orphaned>> /\ pc' \notin Passes
        BY <1>3 DEF MakeDirectory, CatchSigint, CatchSigterm, LastSource, Passes
    <2> QED BY <2>1, CcAside
<1>4. CASE nocom
    <2>1. UNCHANGED <<i, tmp3, tmp4, assource, fs, child, orphaned>> /\ ended = "" /\ pc = "nocom" /\ pc' \in {"ld", "clean"}
        BY <1>4 DEF nocom, Dexit
    <2>2. child' = NoChild
        BY <2>1 DEF Names, Passes
    <2>3. Given' /\ Spare'
        BY <2>1, <2>2, NoChildType DEF Given, Spare, Ready, Passes
    <2> QED BY <2>1, <2>2, <2>3, NoChildType, CcOnward
<1>5. CASE NextSource
    BY <1>5, NextSourcePipe
<1>6. CASE Fork
    BY <1>6, ForkPipe
<1>7. CASE Preprocessed \/ Parsed \/ Generated \/ Optimised \/ Unoptimised
    BY <1>7, ReturnPipe
<1>8. CASE Dropped \/ Assembled \/ Fatal \/ Loaded
    <2>1. child' = NoChild /\ pc' \notin Passes /\ (fs' = fs \/ \E gone : fs' = Without(gone))
        BY <1>8 DEF Dropped, Assembled, Fatal, Loaded, Dexit, Passes
    <2> QED BY <2>1, CcWithout
<1>9. CASE cunlink \/ Exit
    <2>1. UNCHANGED <<i, tmp3, tmp4, assource, child, orphaned>> /\ ended = "" /\ pc = "clean" /\ pc' = pc
          /\ (fs' = fs \/ \E gone : fs' = Without(gone))
        BY <1>9 DEF cunlink, Exit
    <2>2. child.stage \in {"forked", "running"} => orphaned
        BY <2>1 DEF Control, Alive, Passes
    <2> QED BY <2>1, <2>2, CcAside DEF Passes
<1>10. CASE Interrupt
    <2>1. UNCHANGED <<i, tmp3, tmp4, assource, fs, orphaned>> /\ child' = NoChild /\ (pc' = "clean" \/ ended' # "")
        BY <1>10 DEF Interrupt, Signalled, Dexit
    <2> QED BY <2>1, CcAside DEF Passes
<1>11. CASE Terminate
    <2>1. UNCHANGED <<i, tmp3, tmp4, assource, fs, child>> /\ (pc' = "clean" \/ ended' # "")
        BY <1>11 DEF Terminate, Signalled, Dexit
    <2>2. orphaned' = (orphaned \/ Alive(child))
        BY <1>11 DEF Terminate
    <2>3. orphaned => orphaned'
        BY <2>2, Zenon
    <2> QED BY <2>1, <2>3, CcAside DEF Passes
<1> QED BY <1>1, <1>2, <1>3, <1>4, <1>5, <1>6, <1>7, <1>8, <1>9, <1>10, <1>11 DEF Next, Driver

(* Whatever the passes and the signals do, what is written for a source      *)
(* comes from it alone, and no pass succeeds on what a failed one has left.  *)
THEOREM TextsOwn == Spec => []OwnText
<1> DEFINE J == Kept /\ (TextsApart => Pipe)
<1>1. Init => J
    BY InitTypes, InitNames, InitScratch, InitPipe DEF Kept
<1>2. J /\ [Next]_vars => J'
    <2> SUFFICES ASSUME J, [Next]_vars PROVE J'
        OBVIOUS
    <2>1. TextsApart' = TextsApart
        BY Frame DEF TextsApart, Kept
    <2> QED BY <2>1, NextTyped, NextControl, NextNames, NextScratch, NextPipe DEF Kept
<1>3. J => OwnText
    BY DEF OwnText, Pipe, Texts, Exists
<1> HIDE DEF J
<1> QED BY <1>1, <1>2, <1>3, PTL DEF Spec

---------------------------------------------------------------------------
(* The objects.                                                            *)

LEMMA InitLinked == Init => LinkedAll
<1> SUFFICES ASSUME Init PROVE LinkedAll
    OBVIOUS
<1>1. NULL[2] = "" /\ Tmp("4")[2] = "4"
    BY DEF NULL, Tmp
<1>2. (tmp4 = NULL \/ tmp4 = Tmp("4")) /\ pc = "start"
    BY DEF Init
<1> QED BY <1>1, <1>2 DEF LinkedAll

LEMMA NextLinked ==
    ASSUME TypeOK, Control, Names, LinkedAll, [Next]_vars
    PROVE  LinkedAll'
<1>0. run' = run /\ Objects' = Objects
    BY Frame DEF Objects, Linked, IsSource, Has, nargs, Path, setsuf
<1>1. tmp4'[2] # "o"
    <2>1. setsuf(Src, "i")[2] = "i"
        BY TmpsApart
    <2>2. CASE UNCHANGED vars
        BY <2>2 DEF vars, tmps, LinkedAll
    <2>3. CASE Pass
        BY <2>3, PassRuns DEF tmps, LinkedAll
    <2> QED BY <2>1, <2>2, <2>3, CcMoves DEF Next, LinkedAll
<1>2. ASSUME ended' = "", pc' = "ld", child'.stage = "dead", child'.code = 0, child'.sig = 0
      PROVE  exe' = {fs'[p] : p \in Objects}
    <2>1. NoChild.stage = "none" /\ Dead(100).code # 0 /\ Dead(1).code # 0
        BY DEF NoChild, Dead
    <2>2. CASE Pass
        <3>1. ended = "" /\ pc = "ld" /\ Alive(child)
            BY <1>2, <2>2, PassRuns
        <3>2. child.pass = "ld" /\ child \in Record
            BY <3>1 DEF Control, TypeOK, Record
        <3>3. ~Open
            BY <1>2, <2>1, <3>2 DEF Open, Record
        <3>4. ~Fail
            <4> SUFFICES ASSUME Fail PROVE FALSE
                OBVIOUS
            <4>1. child' = [child EXCEPT !.stage = "dead", !.code = 1]
                BY DEF Fail
            <4>2. child'.code = 1
                BY <3>2, <4>1 DEF Record
            <4>3. child'.code = 0
                BY <1>2
            <4>4. 1 # 0
                OBVIOUS
            <4> QED BY <4>2, <4>3, <4>4, Zenon
        <3>5. ASSUME NEW s \in Crash, Die(s) PROVE FALSE
            <4>1. s # 0
                BY CrashAssumption
            <4>2. child' = [child EXCEPT !.stage = "dead", !.sig = s]
                BY <3>5 DEF Die
            <4>3. child'.sig = s
                BY <3>2, <4>2 DEF Record
            <4> QED BY <1>2, <4>1, <4>3
        <3>6. Succeed
            BY <2>2, <3>3, <3>4, <3>5 DEF Pass
        <3> QED BY <3>2, <3>6 DEF Succeed
    <2>3. CASE Driver \/ Interrupt \/ Terminate
        <3>1. child' = child
            <4>1. CASE child' = [NoChild EXCEPT !.pass = pc, !.stage = "forked"]
                <5>1. [NoChild EXCEPT !.pass = pc, !.stage = "forked"].stage = "forked"
                    BY DEF NoChild
                <5> QED BY <1>2, <4>1, <5>1
            <4> QED BY <1>2, <2>1, <2>3, <4>1, CcMoves
        <3>2. pc = "ld" /\ ended = "" /\ UNCHANGED <<fs, exe>>
            <4>1. ~Fork /\ ~Dropped /\ ~Preprocessed /\ ~Parsed /\ ~Generated /\ ~Optimised /\ ~Unoptimised
                  /\ ~Assembled /\ ~Fatal /\ ~Loaded /\ ~Interrupt
                BY <1>2, <2>1, <3>1 DEF Fork, Dropped, Preprocessed, Parsed, Generated, Optimised, Unoptimised,
                   Assembled, Fatal, Loaded, Returned, Interrupt
            <4>2. ~Terminate /\ ~cunlink /\ ~Exit /\ ~MakeDirectory /\ ~CatchSigint /\ ~CatchSigterm
                  /\ ~NextSource /\ ~LastSource
                BY <1>2 DEF Terminate, Signalled, Dexit, cunlink, Exit, MakeDirectory, CatchSigint,
                   CatchSigterm, NextSource, LastSource, Goto, At
            <4>3. nocom => child = NoChild
                BY DEF nocom, At, Names, Passes
            <4> QED BY <1>2, <2>1, <2>3, <3>1, <4>1, <4>2, <4>3 DEF Driver
        <3> QED BY <1>2, <3>1, <3>2 DEF LinkedAll
    <2>4. CASE UNCHANGED vars
        BY <1>2, <2>4 DEF vars, files, LinkedAll
    <2> QED BY <2>2, <2>3, <2>4 DEF Next
<1> QED BY <1>0, <1>1, <1>2 DEF LinkedAll

(* cc removes an object only when it has linked it: no other step does away  *)
(* with a file outside the scratch directory that is named as an object.     *)
THEOREM ObjectsKept == Spec => RemovedOnlyLinked
<1> DEFINE A == \A b \in Bases : LET o == <<b, "o">>
                       IN  Exists(o) /\ ~Exists(o)' => eflag = 0 /\ fs[o] \in exe
<1>1. Init => Kept /\ LinkedAll
    BY InitTypes, InitNames, InitScratch, InitLinked DEF Kept
<1>2. Kept /\ LinkedAll /\ [Next]_vars => (Kept /\ LinkedAll)'
    BY NextTyped, NextControl, NextNames, NextScratch, NextLinked DEF Kept
<1>3. Kept /\ LinkedAll /\ [Next]_vars => [A]_vars
    <2> SUFFICES ASSUME Kept, LinkedAll, [Next]_vars, NEW b \in Bases,
                        fs[<<b, "o">>].form # "absent", fs'[<<b, "o">>].form = "absent"
                 PROVE  eflag = 0 /\ fs[<<b, "o">>] \in exe
        BY DEF Exists
    <2> DEFINE o == <<b, "o">>
    <2>0. TypeOK /\ Control /\ Names /\ ScratchKnown
        BY DEF Kept
    <2>1. o \in Paths /\ o \notin Scratch /\ o[2] = "o"
        BY NamesOfFiles
    <2> HIDE DEF o
    <2>2. ~Pass /\ ~UNCHANGED vars
        <3>1. ~UNCHANGED vars
            BY DEF vars, files, o
        <3>2. \A c : \A f \in Forms \ {"absent"} : Holds(c, f).form # "absent"
            BY Forms_
        <3>3. {"partial", "broken", "garbled", "cpp", "il", "asm", "opt", "obj"} \subseteq Forms \ {"absent"}
            BY DEF Forms
        <3>4. ~Open
            BY <2>1, <3>2, <3>3 DEF Open, o
        <3>5. ~Succeed
            <4>1. child.stage = "running" /\ child.pass # "ld" => Made[child.pass] \in {"cpp", "il", "asm", "opt", "obj"}
                <5>1. child.stage = "running" /\ child.pass # "ld" => child.pass \in Passes \ {"ld"}
                    BY <2>0 DEF Control, Alive
                <5> QED BY <5>1 DEF Made, Passes
            <4> QED BY <2>1, <3>2, <3>3, <4>1 DEF Succeed, Write, o
        <3>6. ~Fail /\ ~\E s \in Crash : Die(s)
            <4>1. fs' = fs => FALSE
                BY DEF o
            <4>2. ~\E s \in Crash : Die(s)
                BY <4>1 DEF Die, files
            <4>3. Fail => Write(child.out, Holds(child.in.src, "broken"))
                BY <4>1 DEF Fail
            <4>4. ~Write(child.out, Holds(child.in.src, "broken"))
                BY <2>1, <3>2, <3>3 DEF Write, o
            <4> QED BY <4>2, <4>3, <4>4
        <3> QED BY <3>1, <3>4, <3>5, <3>6 DEF Pass
    <2>3. CASE ~Loaded
        <3> USE DEF files
        <3>1. fs' # fs
            BY DEF o
        <3>2. CASE Fork
            <4>1. o \notin {tmp1, tmp2, tmp4}
                BY <2>1, NamesOfFiles DEF LinkedAll, tmp1, tmp2
            <4> QED BY <2>1, <3>2, <4>1 DEF Fork, Without, o
        <3>3. CASE Optimised
            BY <2>1, <3>3, NamesOfFiles DEF Optimised, Without, o
        <3>4. CASE Unoptimised
            <4>1. o # tmp3
                BY <2>0, <2>1, NamesOfFiles DEF Names
            <4> QED BY <2>1, <3>4, <4>1 DEF Unoptimised, Without, o
        <3>5. CASE cunlink
            <4>1. Head(cleaning) \in Scratch \cup {Tmp("0")}
                <5>1. cleaning # <<>> /\ cleaning \in Seq(Paths \cup {Tmp("0")})
                    BY <2>0, <3>5 DEF cunlink, TypeOK
                <5>2. 1 \in DOMAIN cleaning /\ Head(cleaning) = cleaning[1]
                    BY <5>1
                <5> QED BY <2>0, <5>2 DEF ScratchKnown
            <4>2. o # Tmp("0")
                BY <2>1 DEF Tmp
            <4> QED BY <2>1, <3>5, <4>1, <4>2 DEF cunlink, Without, o
        <3>6. CASE ~Fork /\ ~Optimised /\ ~Unoptimised /\ ~cunlink
            BY <2>2, <2>3, <3>1, <3>6 DEF Next, Driver, MakeDirectory, CatchSigint, CatchSigterm, NextSource, LastSource,
               Dropped, Preprocessed, Parsed, Generated, Assembled, Fatal, nocom, Exit, Interrupt, Terminate
        <3> QED BY <3>2, <3>3, <3>4, <3>5, <3>6
    <2>4. CASE Loaded
        <3>1. /\ ended = "" /\ pc = "ld" /\ child.stage = "dead" /\ child.sig = 0
              /\ eflag' = IF child.code # 0 THEN child.code ELSE eflag
              /\ fs' = IF Cardinality(Sources) = 1 /\ Cardinality(Objects) = 1 /\ eflag' = 0
                       THEN Without(SourceObjects) ELSE fs
            BY <2>4 DEF Loaded, Returned, At
        <3>2. eflag' = 0 /\ o \in SourceObjects
            BY <2>1, <3>1 DEF Without, o
        <3>3. child.code = 0 /\ eflag = 0
            BY <3>1, <3>2
        <3>4. exe = {fs[p] : p \in Objects}
            BY <3>1, <3>3 DEF LinkedAll
        <3>5. o \in Objects
            <4>1. PICK k \in Sources : o = setsuf(run.items[k], "o")
                BY <3>2 DEF SourceObjects
            <4>2. k \in 1..nargs /\ Linked(run.items[k]) = o
                BY <4>1 DEF Sources, Linked
            <4> QED BY <2>1, <4>2 DEF Objects
        <3> QED BY <3>3, <3>4, <3>5 DEF o
    <2> QED BY <2>3, <2>4
<1> HIDE DEF A
<1>4. [][A]_vars <=> RemovedOnlyLinked
    BY DEF A, RemovedOnlyLinked
<1> QED BY <1>1, <1>2, <1>3, <1>4, PTL DEF Spec

---------------------------------------------------------------------------
(* The sources that are done.                                              *)

LEMMA InitDone == Init => SourcesDone
<1> SUFFICES ASSUME Init PROVE SourcesDone
    OBVIOUS
<1>1. run \in Runs /\ i = From(1) /\ pc = "start"
    BY DEF Init
<1>2. nargs \in Nat /\ Sources \subseteq 1..nargs
    BY <1>1, RunTypes
<1>3. i \in 1..(nargs + 1) /\ (i \in Sources \/ i = nargs + 1) /\ \A k \in Sources : k >= 1 => i <= k
    BY <1>1, FromLeast
<1>4. \A k \in Sources : k < nargs + 1 /\ k >= 1 /\ k \in Nat
    BY <1>2
<1>5. \A k \in Sources : ~(k < i)
    <2>1. i \in Nat
        BY <1>2, <1>3
    <2> QED BY <1>3, <1>4, <2>1
<1> QED BY <1>1, <1>3, <1>4, <1>5 DEF SourcesDone

(* A file of a source outside the scratch directory changes only when its    *)
(* pass writes it.                                                           *)
LEMMA Outside ==
    ASSUME TypeOK, Control, Names, Pipe, [Next]_vars, ~pflag, unoptimised' = {}, pc' # "clean",
           NEW p \in Paths \ Scratch
    PROVE  \/ fs'[p] = fs[p]
           \/ p = setsuf(Src, "o") /\ fs'[p].form \in Finished
           \/ Has("S") /\ p = setsuf(Src, "s") /\ i \in Sources /\ Src.suf # "s"
<1> USE DEF At, Goto, files
<1>1. CASE Pass
    <2>0. Alive(child)
        BY <1>1, PassRuns
    <2>1. CASE child.pass = "ld"
        <3>1. Emptied("ld") = {}
            BY DEF Emptied, Out
        <3> QED BY <1>1, <2>1, <3>1 DEF Pass, Open, Succeed, Fail, Die
    <2>2. CASE child.pass = "as"
        <3>1. i \in Sources /\ Emptied("as") = {} /\ Out("as") = {setsuf(Src, "o")}
            BY <2>0, <2>2, Outs DEF Emptied
        <3>2. CASE Open
            BY <2>2, <3>1, <3>2 DEF Open
        <3>3. CASE \E s \in Crash : Die(s)
            BY <3>3 DEF Die
        <3>4. CASE Succeed \/ Fail
            <4>1. child.out = {setsuf(Src, "o")} /\ child.in.form # "partial"
                BY <2>2, <3>1, <3>4 DEF Succeed, Fail, Names, Pipe, Reading
            <4>2. fs' = fs \/ Write(child.out, Holds(child.in.src, "obj")) \/ Write(child.out, Holds(child.in.src, "broken"))
                BY <2>2, <3>4, <4>1 DEF Succeed, Fail, Made
            <4>3. \A c : Holds(c, "obj").form \in Finished /\ Holds(c, "broken").form \in Finished
                BY Forms_ DEF Finished
            <4> QED BY <4>1, <4>2, <4>3 DEF Write
        <3> QED BY <1>1, <3>2, <3>3, <3>4 DEF Pass
    <2>3. CASE child.pass \notin {"as", "ld"}
        <3>1. /\ i \in Sources
              /\ p \in Out(child.pass) => Has("S") /\ p[2] = "s" /\ p[1] = Src.base /\ Src.suf # "s"
            <4>1. i \in Sources /\ p \in Out(child.pass) =>
                      p[1] = Src.base /\ p[2] # "o" /\ (p[2] = "i" \/ p[2] = "o" \/ (p[2] = "s" /\ Has("S") /\ Src.suf # "s"))
                BY <2>0, <2>3, Outs
            <4>2. child.pass = "cpp" => Out(child.pass) \subseteq {Tmp("4")}
                BY <2>0 DEF Control, Out
            <4>3. child.pass = "c0" => Out(child.pass) = {tmp1, tmp2}
                BY <2>0, <2>3, Outs
            <4>4. child.pass \in {"c1", "c2"} => Out(child.pass) \subseteq {tmp3, tmp5}
                BY DEF Out
            <4>5. Tmp("4") \in Scratch /\ tmp1 \in Scratch /\ tmp2 \in Scratch /\ tmp5 \in Scratch /\ Tmp("3") \in Scratch
                BY NamesOfFiles DEF tmp1, tmp2
            <4>6. i \in Sources
                BY <2>0, <2>3, Outs
            <4>7. child.pass \in {"cpp", "c0", "c1", "c2"}
                BY <2>0, <2>3 DEF Control, Passes
            <4>8. p = tmp3 => Has("S") /\ p[2] = "s"
                BY <4>5 DEF Names
            <4> QED BY <4>1, <4>2, <4>3, <4>4, <4>5, <4>6, <4>7, <4>8
        <3>2. p \in Out(child.pass) => p = setsuf(Src, "s")
            <4>1. p \in Out(child.pass) => p = tmp3 /\ child.pass \in {"c1", "c2"}
                <5>1. child.pass \in {"cpp", "c0", "c1", "c2"}
                    BY <2>0, <2>3 DEF Control, Passes
                <5>2. tmp1 \in Scratch /\ tmp2 \in Scratch /\ tmp5 \in Scratch /\ Tmp("4") \in Scratch
                    BY NamesOfFiles DEF tmp1, tmp2
                <5>3. tmp4 = Tmp("4")
                    BY DEF Control
                <5> QED BY <5>1, <5>2, <5>3 DEF Out
            <4> QED BY <2>0, <3>1, <4>1 DEF Names
        <3>3. fs'[p] = fs[p] \/ p \in Out(child.pass)
            <4>1. Open => fs'[p] = fs[p] \/ p \in Emptied(child.pass)
                BY DEF Open
            <4>2. Emptied(child.pass) \subseteq Out(child.pass)
                BY DEF Emptied
            <4>3. Succeed \/ Fail => fs'[p] = fs[p] \/ p \in child.out
                BY DEF Succeed, Fail, Write
            <4>4. Succeed \/ Fail => child.out = Out(child.pass)
                BY DEF Succeed, Fail, Names
            <4>5. (\E s \in Crash : Die(s)) => fs' = fs
                BY DEF Die
            <4> QED BY <1>1, <4>1, <4>2, <4>3, <4>4, <4>5 DEF Pass
        <3> QED BY <3>1, <3>2, <3>3
    <2> QED BY <2>1, <2>2, <2>3
<1>2. CASE Fork
    <2>1. p \notin {tmp1, tmp2, tmp4}
        BY NamesOfFiles DEF Control, tmp1, tmp2
    <2> QED BY <1>2, <2>1 DEF Fork, Without
<1>3. CASE Optimised
    BY <1>3, NamesOfFiles DEF Optimised, Without
<1>4. ~Unoptimised
    BY DEF Unoptimised
<1>5. CASE UNCHANGED vars
    BY <1>5 DEF vars
<1>6. CASE ~Fork /\ ~Optimised /\ ~Unoptimised /\ (Driver \/ Interrupt \/ Terminate)
    BY <1>6 DEF Driver, MakeDirectory, CatchSigint, CatchSigterm, NextSource, LastSource, Loaded, cunlink, Dexit,
       Dropped, Preprocessed, Parsed, Generated, Assembled, Fatal, nocom, Exit, Interrupt, Terminate
<1> QED BY <1>1, <1>2, <1>3, <1>4, <1>5, <1>6 DEF Next

LEMMA SourceFiles ==
    ASSUME TypeOK, ~pflag, NEW k \in Sources
    PROVE  /\ Path(run.items[k]) \in Paths \ Scratch /\ Target(run.items[k]) \in Paths \ Scratch
           /\ run.items[k].suf \in {"c", "s"}
           /\ Path(run.items[k]) = <<run.items[k].base, run.items[k].suf>>
           /\ Target(run.items[k]) = <<run.items[k].base, IF Has("S") /\ run.items[k].suf = "c" THEN "s" ELSE "o">>
<1>1. k \in 1..nargs /\ run.items[k].base \in Bases /\ run.items[k].suf \in {"c", "s"}
    <2>1. k \in 1..nargs /\ run.items[k].base \in Bases
        BY RunTypes DEF TypeOK
    <2>2. IsSource(run.items[k]) /\ ~Has("E")
        BY DEF Sources, pflag
    <2> QED BY <2>1, <2>2 DEF IsSource
<1>2. Path(run.items[k]) = <<run.items[k].base, run.items[k].suf>>
      /\ Target(run.items[k]) = <<run.items[k].base, IF Has("S") /\ run.items[k].suf = "c" THEN "s" ELSE "o">>
    BY DEF Path, Target, setsuf
<1>3. Path(run.items[k]) \in Paths /\ Target(run.items[k]) \in Paths
    BY <1>1, <1>2, NamesOfFiles
<1>4. Path(run.items[k]) \notin Scratch /\ Target(run.items[k]) \notin Scratch
    <2>1. Path(run.items[k])[2] \in {"c", "s"} /\ Target(run.items[k])[2] \in {"s", "o"}
        BY <1>1, <1>2
    <2> QED BY <2>1, NamesOfFiles
<1> QED BY <1>1, <1>2, <1>3, <1>4

(* What a source was made into stays, while the others are compiled.         *)
LEMMA MadeStays ==
    ASSUME TypeOK, Control, Names, Pipe, TextsApart, [Next]_vars, ~pflag, unoptimised' = {}, pc' # "clean",
           NEW k \in Sources, Made_(k), k # i \/ fs' = fs
    PROVE  Made_(k)'
<1>0. run' = run /\ Has("S")' = Has("S")
    BY Frame
<1> DEFINE p == Path(run.items[k])
           t == Target(run.items[k])
<1>1. p' = p /\ t' = t
    BY <1>0 DEF Path, Target, setsuf
<1>2. /\ p \in Paths \ Scratch /\ t \in Paths \ Scratch
      /\ p[1] = run.items[k].base /\ t[1] = run.items[k].base /\ p[2] \in {"c", "s"}
    BY SourceFiles
<1>3. Src = run.items[i] /\ \A x : setsuf(Src, x) = <<Src.base, x>>
    BY DEF Src, setsuf
<1>4. \A q : Has("S") /\ q = setsuf(Src, "s") /\ i \in Sources /\ q[1] = run.items[k].base => k = i
    BY <1>3 DEF TextsApart
<1>5. Made_(k) <=> (fs[p].form # "absent" => fs[t].form \in Finished)
    BY DEF Made_, Exists
<1>6. Made_(k)' <=> (fs'[p].form # "absent" => fs'[t].form \in Finished)
    BY <1>0, <1>1 DEF Made_, Exists
<1>7. CASE fs' = fs
    BY <1>5, <1>6, <1>7
<1>8. CASE k # i
    <2>1. fs'[p] = fs[p]
        <3> HIDE DEF p, t
        <3>1. p # setsuf(Src, "o")
            BY <1>2, <1>3
        <3>2. \/ fs'[p] = fs[p]
              \/ p = setsuf(Src, "o") /\ fs'[p].form \in Finished
              \/ Has("S") /\ p = setsuf(Src, "s") /\ i \in Sources /\ Src.suf # "s"
            BY <1>2, Outside
        <3> QED BY <1>2, <1>4, <1>8, <3>1, <3>2
    <2>2. fs'[t] = fs[t] \/ fs'[t].form \in Finished
        <3> HIDE DEF p, t
        <3>2. \/ fs'[t] = fs[t]
              \/ t = setsuf(Src, "o") /\ fs'[t].form \in Finished
              \/ Has("S") /\ t = setsuf(Src, "s") /\ i \in Sources /\ Src.suf # "s"
            BY <1>2, Outside
        <3> QED BY <1>2, <1>4, <1>8, <3>2
    <2> HIDE DEF p, t
    <2> QED BY <1>5, <1>6, <2>1, <2>2
<1> QED BY <1>7, <1>8

(* The source is done when cc goes on to the next one.                       *)
LEMMA CurrentMade ==
    ASSUME TypeOK, Control, Names, Pipe, TextsApart, SourcesDone, [Next]_vars,
           ~pflag, unoptimised = {}, unoptimised' = {}, pc' # "clean", i' # i,
           NEW k \in Sources, k = i, k \notin failed'
    PROVE  Made_(k)'
<1> USE DEF At, Goto, files, tmps, flags, history, Returned, NextFile, AfterText
<1>1. \/ Preprocessed /\ pflag
      \/ Generated /\ Has("S") /\ ~Has("O")
      \/ Optimised /\ Has("S")
      \/ Assembled /\ ~(child.code > 1)
    <2>1. ~Pass /\ ~UNCHANGED vars /\ ~Interrupt /\ ~Terminate
        BY DEF Pass, Open, Succeed, Fail, Die, vars, Interrupt, Terminate
    <2>2. /\ ~MakeDirectory /\ ~CatchSigint /\ ~CatchSigterm /\ ~NextSource /\ ~LastSource /\ ~Fork /\ ~nocom
          /\ ~Loaded /\ ~cunlink /\ ~Exit /\ ~Fatal /\ ~Dropped /\ ~Parsed
        BY DEF MakeDirectory, CatchSigint, CatchSigterm, NextSource, LastSource, Fork, nocom, Loaded, cunlink, Exit,
           Fatal, Dropped, Parsed
    <2>3. ~Unoptimised
        BY DEF Unoptimised
    <2>4. Preprocessed \/ Generated \/ Optimised \/ Assembled
        BY <2>1, <2>2, <2>3 DEF Next, Driver
    <2> QED BY <2>4 DEF Preprocessed, Generated, Optimised, Assembled
<1>2. run' = run /\ Has("S")' = Has("S")
    BY Frame
<1> DEFINE p == Path(run.items[k])
           t == Target(run.items[k])
<1>3. /\ p' = p /\ t' = t /\ Src = run.items[k]
      /\ Made_(k)' <=> (fs'[p].form # "absent" => fs'[t].form \in Finished)
    BY <1>2 DEF Path, Target, setsuf, Made_, Exists, Src
<1>4. CASE Assembled /\ ~(child.code > 1)
    <2>1. ended = "" /\ pc = "as" /\ child.stage = "dead" /\ child.sig = 0 /\ fs' = fs
        BY <1>4 DEF Assembled
    <2>2. child.code <= 1
        <3>1. child.code \in 0..100
            BY DEF TypeOK
        <3> QED BY <1>4, <3>1
    <2>3. Made_(k)
        BY <2>1, <2>2 DEF SourcesDone
    <2> QED BY <2>1, <2>3, MadeStays
<1>5. CASE (Generated /\ Has("S") /\ ~Has("O")) \/ (Optimised /\ Has("S"))
    <2>1. /\ ended = "" /\ pc \in {"c1", "c2"} /\ child.stage = "dead" /\ child.sig = 0 /\ child.code = 0
          /\ fs' = fs \/ fs' = Without({tmp5})
          /\ pc = "c1" => ~Has("O")
        BY <1>5 DEF Generated, Optimised
    <2>2. Left(pc) /\ tmp3 = setsuf(Src, "s") /\ Src.suf # "s"
        BY <1>5, <2>1 DEF Pipe, Written, Names, Control, Passes, Early
    <2>3. fs[tmp3].form \in Finished
        BY <2>1, <2>2 DEF Left, Finished
    <2>4. t = tmp3 /\ tmp3 \in Paths \ Scratch
        <3>1. run.items[k].suf \in {"c", "s"} /\ t \in Paths \ Scratch
            BY SourceFiles
        <3>2. t = tmp3
            BY <1>3, <1>5, <2>2, <3>1 DEF Target, setsuf
        <3> QED BY <3>1, <3>2
    <2>5. fs'[tmp3] = fs[tmp3]
        BY <2>1, <2>4, NamesOfFiles DEF Without
    <2> QED
        <3> HIDE DEF p, t
        <3> QED BY <1>3, <2>3, <2>4, <2>5
<1> QED BY <1>1, <1>4, <1>5

(* cc, once it cleans up, does nothing else; a failure is not forgotten.     *)
LEMMA Onward_ ==
    ASSUME TypeOK, [Next]_vars
    PROVE  /\ pc = "clean" => pc' = "clean"
           /\ failed \subseteq failed' /\ (unoptimised' = {} => unoptimised = {})
           /\ pc' = "nocom" => (i' = i /\ pc = "nocom") \/ Sources = {} \/ (i' = i /\ i \notin Sources)
<1>1. failed \subseteq failed' /\ (unoptimised' = {} => unoptimised = {})
    BY Moves
<1> USE DEF At, Goto, files, tmps, flags, signals, history, Returned, NextFile, AfterText, Dexit
<1>2. CASE UNCHANGED vars
    BY <1>1, <1>2 DEF vars
<1>3. CASE Pass
    BY <1>1, <1>3, PassRuns
<1>4. CASE MakeDirectory \/ CatchSigint \/ CatchSigterm \/ NextSource \/ LastSource
    BY <1>1, <1>4 DEF MakeDirectory, CatchSigint, CatchSigterm, NextSource, LastSource
<1>5. CASE Fork \/ Dropped \/ Assembled \/ Fatal \/ Loaded \/ nocom
    BY <1>1, <1>5 DEF Fork, Dropped, Assembled, Fatal, Loaded, nocom, Passes
<1>6. CASE Preprocessed \/ Parsed \/ Generated \/ Optimised \/ Unoptimised
    BY <1>1, <1>6 DEF Preprocessed, Parsed, Generated, Optimised, Unoptimised
<1>7. CASE cunlink \/ Exit \/ Interrupt \/ Terminate
    BY <1>1, <1>7 DEF cunlink, Exit, Interrupt, Terminate, Signalled
<1> QED BY <1>2, <1>3, <1>4, <1>5, <1>6, <1>7 DEF Next, Driver

(* Before as is given what was compiled, there is something.                 *)
LEMMA TextThere ==
    ASSUME TypeOK, Control, Names, Pipe, SourcesDone, [Next]_vars, ~pflag, unoptimised' = {},
           ended' = "", pc' = "as", child'.stage \in {"none", "forked"}, Src'.suf # "s"
    PROVE  Exists(tmp3)'
<1>0. unoptimised = {}
    BY Onward_
<1> USE DEF At, Goto, files, tmps, flags, history, Returned, NextFile, AfterText
<1>1. CASE UNCHANGED vars
    BY <1>0, <1>1, Frame DEF SourcesDone, vars, Exists
<1>2. CASE Fork
    <2>1. /\ pc = "as" /\ ended = "" /\ child.stage = "none" /\ tmp3' = tmp3 /\ i' = i
          /\ fs' = Without({tmp1, tmp2, tmp4})
        BY <1>2, NoChildType DEF Fork
    <2>2. Src' = Src
        BY <2>1, Frame
    <2>3. Exists(tmp3)
        BY <1>0, <2>1, <2>2 DEF SourcesDone
    <2>4. tmp3 \in Paths /\ tmp3 \notin {tmp1, tmp2, tmp4}
        <3>1. tmp3 \in {Tmp("3"), tmp5} /\ tmp4 = Tmp("4")
            BY <2>1, <2>2 DEF Names, Control
        <3> QED BY <3>1, TmpsApart, NamesOfFiles DEF tmp1, tmp2, tmp5
    <2> QED BY <2>1, <2>3, <2>4 DEF Without, Exists
<1>3. CASE Generated \/ Optimised
    <2>1. /\ ended = "" /\ child.stage = "dead" /\ child.sig = 0 /\ child.code = 0 /\ tmp3' = tmp3 /\ ~Has("S")
          /\ (pc = "c1" /\ ~Has("O") /\ fs' = fs) \/ (pc = "c2" /\ fs' = Without({tmp5}))
        BY <1>3 DEF Generated, Optimised
    <2>2. Left(pc)
        BY <2>1 DEF Pipe, Written, Passes
    <2>3. fs[tmp3].form \in {"asm", "opt"}
        BY <2>1, <2>2 DEF Left
    <2>4. tmp3 \in Paths /\ tmp3 # tmp5
        BY <1>0 DEF Names, TypeOK
    <2> QED BY <2>1, <2>3, <2>4 DEF Without, Exists
<1>4. ~Pass
    <2>1. CASE Open
        <3>1. child \in Record
            BY DEF TypeOK, Record
        <3>2. child'.stage \in {"running", "dead"}
            BY <2>1, <3>1 DEF Open, Record, Dead, NoChild
        <3> QED BY <3>2
    <2>2. CASE Succeed \/ Fail \/ \E s \in Crash : Die(s)
        <3>1. child \in Record
            BY DEF TypeOK, Record
        <3>2. child'.stage = "dead"
            BY <2>2, <3>1 DEF Succeed, Fail, Die, Record
        <3> QED BY <3>2
    <2> QED BY <2>1, <2>2 DEF Pass
<1>5. ~(NextSource \/ Unoptimised)
    BY <1>0, Frame DEF NextSource, Unoptimised
<1>6. ~(MakeDirectory \/ CatchSigint \/ CatchSigterm \/ LastSource \/ Dropped \/ Preprocessed \/ Parsed
        \/ Assembled \/ Fatal \/ nocom \/ Loaded \/ cunlink \/ Exit \/ Interrupt \/ Terminate)
    BY DEF MakeDirectory, CatchSigint, CatchSigterm, LastSource, Dropped, Preprocessed, Parsed, Assembled, Fatal,
       Dexit, nocom, Loaded, cunlink, Exit, Interrupt, Terminate, Signalled
<1> QED BY <1>1, <1>2, <1>3, <1>4, <1>5, <1>6 DEF Next, Driver

LEMMA Codes == ~(100 <= 1) /\ 0 \notin 1..31
OBVIOUS

(* as has made the object, or had no source to make it from.                 *)
LEMMA ObjectThere ==
    ASSUME TypeOK, Control, Names, Pipe, SourcesDone, [Next]_vars, ~pflag, unoptimised' = {},
           ended' = "", pc' = "as", child'.stage = "dead", child'.sig = 0, child'.code <= 1,
           NEW k \in Sources, k = i'
    PROVE  Made_(k)'
<1>0. unoptimised = {} /\ run' = run /\ Has("S")' = Has("S")
    BY Onward_, Frame
<1> USE DEF At, Goto, files, tmps, flags, history, Returned, NextFile, AfterText
<1> DEFINE p == Path(run.items[k])
           t == Target(run.items[k])
<1>1. /\ p' = p /\ t' = t
      /\ Made_(k)' <=> (fs'[p].form # "absent" => fs'[t].form \in Finished)
      /\ Made_(k) <=> (fs[p].form # "absent" => fs[t].form \in Finished)
    BY <1>0 DEF Path, Target, setsuf, Made_, Exists
<1>2. CASE UNCHANGED vars
    <2>1. Made_(k)
        BY <1>0, <1>2 DEF SourcesDone, vars
    <2> QED BY <1>1, <1>2, <2>1 DEF vars
<1>3. CASE Pass
    <2>0. /\ Alive(child) /\ child.pass = "as" /\ ended = "" /\ pc = "as" /\ i' = i /\ Src = run.items[k] /\ k = i
          /\ child \in Record /\ child.code = child.code
        <3>1. Alive(child) /\ UNCHANGED <<i, pc, ended>>
            BY <1>3, PassRuns
        <3>2. ~orphaned
            BY <3>1 DEF Control
        <3> QED BY <3>1, <3>2 DEF Control, Src, TypeOK, Record
    <2>1. /\ t \in Paths /\ p \in Paths /\ p = Path(Src) /\ t = setsuf(Src, "o") /\ Out("as") = {t}
        <3>1. ~Has("S") \/ Src.suf = "s"
            BY <2>0 DEF Names
        <3>2. t = setsuf(Src, "o")
            BY <2>0, <3>1 DEF Target
        <3> QED BY <2>0, <3>2, SourceFiles DEF Out
    <2>2. CASE Open
        <3>1. child' = Dead(1)
            BY <2>0, <2>2 DEF Open, Record
        <3>2. fs' = fs
            <4>1. Emptied("as") = {}
                BY DEF Emptied
            <4> QED BY <2>0, <2>2, <4>1 DEF Open, TypeOK
        <3>3. ~Exists(assource)
            <4>1. Out("as") \cap Scratch = {}
                BY <2>1, SourceFiles
            <4>2. ~(\A q \in In("as") : Exists(q))
                <5>1. Dead(1).stage = "dead"
                    BY DEF Dead, NoChild
                <5>2. [child EXCEPT !.stage = "running", !.out = Out("as"),
                           !.in = child'.in].stage = "running"
                    BY <2>0 DEF Record
                <5>3. (\A q \in In("as") : Exists(q)) => child'.stage = "running"
                    BY <2>0, <2>2, <4>1 DEF Open, Record
                <5> QED BY <3>1, <5>1, <5>3
            <4> QED BY <4>2 DEF In
        <3>4. assource = p
            <4>1. Src.suf # "s" => Exists(tmp3)
                BY <1>0, <2>0, <2>2 DEF SourcesDone, Open
            <4> QED BY <2>0, <2>1, <3>3, <4>1 DEF Names
        <3> QED BY <1>1, <3>2, <3>3, <3>4 DEF Exists
    <2>3. CASE Succeed \/ Fail
        <3>1. child.out = {t} /\ child.in.form # "partial"
            BY <2>0, <2>1, <2>3 DEF Succeed, Fail, Names, Pipe, Reading
        <3>2. Write(child.out, Holds(child.in.src, "obj")) \/ Write(child.out, Holds(child.in.src, "broken"))
            <4>1. Made["as"] = "obj"
                BY DEF Made
            <4> QED BY <2>0, <2>3, <3>1, <4>1 DEF Succeed, Fail
        <3>3. \A c : Holds(c, "obj").form \in Finished /\ Holds(c, "broken").form \in Finished
            BY Forms_ DEF Finished
        <3>4. fs'[t].form \in Finished
            <4> HIDE DEF t
            <4> QED BY <2>0, <2>1, <3>1, <3>2, <3>3 DEF Write
        <3> QED BY <1>1, <3>4
    <2>4. ~(\E s \in Crash : Die(s))
        <3> SUFFICES ASSUME NEW s \in Crash, Die(s) PROVE FALSE
            OBVIOUS
        <3>1. child'.sig = s
            BY <2>0 DEF Die, Record
        <3>2. s \in 1..31
            BY CrashAssumption
        <3> QED BY <3>1, <3>2, Codes, Zenon
    <2> QED BY <1>3, <2>2, <2>3, <2>4 DEF Pass
<1>4. ~Fork
    <2> SUFFICES ASSUME Fork PROVE FALSE
        OBVIOUS
    <2>1. child' = Dead(100) \/ child' = [NoChild EXCEPT !.pass = pc, !.stage = "forked"]
        BY DEF Fork
    <2>2. [NoChild EXCEPT !.pass = pc, !.stage = "forked"].stage = "forked" /\ Dead(100).code = 100
        BY DEF NoChild, Dead
    <2>3. child'.code = 100
        BY <2>1, <2>2, NoChildType
    <2> QED BY <2>3, Codes, Zenon
<1>5. ~(NextSource \/ Unoptimised \/ Generated \/ Optimised)
    <2>1. NextSource => FALSE
        <3> SUFFICES ASSUME NextSource PROVE FALSE
            OBVIOUS
        <3>1. ended = "" /\ pc = "next" /\ child' = child
            BY DEF NextSource
        <3>2. child = NoChild
            BY <3>1 DEF Names, Passes
        <3> QED BY <3>1, <3>2, NoChildType
    <2>2. Unoptimised \/ Generated \/ Optimised => child' = NoChild
        BY DEF Unoptimised, Generated, Optimised
    <2> QED BY <2>1, <2>2, NoChildType
<1>6. ~(MakeDirectory \/ CatchSigint \/ CatchSigterm \/ LastSource \/ Dropped \/ Preprocessed \/ Parsed
        \/ Assembled \/ Fatal \/ nocom \/ Loaded \/ cunlink \/ Exit \/ Interrupt \/ Terminate)
    BY DEF MakeDirectory, CatchSigint, CatchSigterm, LastSource, Dropped, Preprocessed, Parsed, Assembled, Fatal,
       Dexit, nocom, Loaded, cunlink, Exit, Interrupt, Terminate, Signalled
<1> QED BY <1>2, <1>3, <1>4, <1>5, <1>6 DEF Next, Driver

LEMMA NextDone ==
    ASSUME TypeOK, Control, Names, Pipe, TextsApart, SourcesDone, [Next]_vars
    PROVE  SourcesDone'
<1>0. /\ run' = run /\ Sources' = Sources /\ pflag' = pflag /\ nargs \in Nat /\ Sources \subseteq 1..nargs
      /\ i \in 1..(nargs + 1) /\ run \in Runs
    BY Frame, RunTypes DEF TypeOK
<1>1. i' \in Sources \/ \A k \in Sources : k < i'
    <2>1. CASE i' = i
        BY <1>0, <2>1 DEF SourcesDone
    <2>2. CASE i' = From(i + 1)
        <3>1. i + 1 \in Nat
            BY <1>0
        <3>2. i' \in Sources \/ i' = nargs + 1
            BY <1>0, <2>2, <3>1, FromLeast
        <3>3. \A k \in 1..nargs : k < nargs + 1
            BY <1>0
        <3> QED BY <1>0, <3>2, <3>3
    <2> QED BY <2>1, <2>2, Moves
<1>2. pc' = "nocom" => i' \notin Sources'
    BY <1>0, Onward_ DEF SourcesDone
<1>3. ASSUME ~pflag', unoptimised' = {}, pc' # "clean", NEW k \in Sources \ failed', k < i'
      PROVE  Made_(k)'
    <2>1. unoptimised = {} /\ pc # "clean" /\ k \notin failed /\ ~pflag
        BY <1>0, <1>3, Onward_
    <2>2. CASE i' = i
        <3>1. Made_(k) /\ k # i
            <4>1. k < i
                BY <1>3, <2>2
            <4>2. k # i
                <5>1. k \in Nat /\ i \in Nat
                    BY <1>0
                <5> QED BY <4>1, <5>1
            <4>3. Made_(k)
                BY <2>1, <4>1 DEF SourcesDone
            <4> QED BY <4>2, <4>3
        <3> QED BY <1>3, <2>1, <3>1, MadeStays
    <2>3. CASE i' = From(i + 1) /\ i' # i
        <3>1. i + 1 \in Nat /\ k \in Nat /\ i \in Nat
            BY <1>0
        <3>2. ~(k >= i + 1)
            <4>1. From(i + 1) \in 1..(nargs + 1) /\ (k >= i + 1 => From(i + 1) <= k)
                BY <1>0, <3>1, FromLeast
            <4>2. i' \in Nat
                BY <1>0, <2>3, <4>1
            <4> QED BY <1>3, <2>3, <3>1, <4>1, <4>2
        <3>3. k < i \/ k = i
            BY <3>1, <3>2
        <3>4. CASE k < i
            <4>2. k # i
                BY <3>1, <3>4
            <4>3. Made_(k)
                BY <2>1, <3>4 DEF SourcesDone
            <4>1. Made_(k) /\ k # i
                BY <4>2, <4>3
            <4> QED BY <1>3, <2>1, <4>1, MadeStays
        <3>5. CASE k = i
            BY <1>3, <2>1, <2>3, <3>5, CurrentMade
        <3> QED BY <3>3, <3>4, <3>5
    <2> QED BY <2>2, <2>3, Moves
<1>4. ASSUME ~pflag', unoptimised' = {}, ended' = "", pc' = "as", child'.stage \in {"none", "forked"}, Src'.suf # "s"
      PROVE  Exists(tmp3)'
    BY <1>0, <1>4, TextThere
<1>5. ASSUME ~pflag', unoptimised' = {}, ended' = "", pc' = "as", child'.stage = "dead", child'.sig = 0, child'.code <= 1,
             NEW k, k = i'
      PROVE  Made_(k)'
    <2>1. k \in Sources
        <3>1. Control'
            BY NextControl
        <3> QED BY <1>0, <1>5, <3>1 DEF Control, Passes
    <2> QED BY <1>0, <1>5, <2>1, ObjectThere
<1> QED BY <1>0, <1>1, <1>2, <1>3, <1>4, <1>5 DEF SourcesDone

(* A source that fails, whatever happens to it, costs the others nothing.    *)
THEOREM SourcesApart == Spec => []SourcesIndependent
<1> DEFINE J == Kept /\ (TextsApart => Pipe /\ SourcesDone)
<1>1. Init => J
    BY InitTypes, InitNames, InitScratch, InitPipe, InitDone DEF Kept
<1>2. J /\ [Next]_vars => J'
    <2> SUFFICES ASSUME J, [Next]_vars PROVE J'
        OBVIOUS
    <2>1. TextsApart' = TextsApart
        BY Frame DEF TextsApart, Kept
    <2> QED BY <2>1, NextTyped, NextControl, NextNames, NextScratch, NextPipe, NextDone DEF Kept
<1>3. J => SourcesIndependent
    <2> SUFFICES ASSUME J, pc = "nocom", ~pflag, unoptimised = {}, TextsApart,
                        NEW k \in Sources \ failed, Exists(Path(run.items[k]))
                 PROVE  fs[Target(run.items[k])].form \in {"asm", "opt", "obj", "broken"}
        BY DEF SourcesIndependent
    <2>1. k < i
        BY DEF SourcesDone
    <2> QED BY <2>1 DEF SourcesDone, Made_, Finished
<1> HIDE DEF J
<1> QED BY <1>1, <1>2, <1>3, PTL DEF Spec

-----------------------------------------------------------------------------
(* Failures are told.                                                        *)

(* The exit statuses, cc's and the pass's, are numbers.                      *)
Numbers ==
    /\ eflag \in Nat
    /\ {"code", "sig"} \subseteq DOMAIN child /\ child.code \in Nat

(* A failure has set the exit status, and keeps the run from ld: either the  *)
(* flag is set that skips it, or cc is already on its way out.               *)
NoLink ==
    /\ failed # {} => eflag # 0 /\ (cflag \/ pc = "clean")
    /\ pc = "ld" => ~cflag

FailInv == Numbers /\ NoLink

LEMMA InitFail == Init => FailInv
<1> SUFFICES ASSUME Init PROVE FailInv
  OBVIOUS
<1> USE DEF Init, NoChild
<1>1. Numbers
  BY DEF Numbers
<1>2. NoLink
  BY DEF NoLink
<1> QED  BY <1>1, <1>2 DEF FailInv

(* The passes do not touch cc's own variables, and end with a number.        *)
LEMMA PassFail == FailInv /\ Pass => FailInv'
<1> SUFFICES ASSUME FailInv, Pass PROVE FailInv'
  OBVIOUS
<1>1. UNCHANGED <<eflag, cflag, pc, failed>>
  BY DEF Pass, Open, Succeed, Fail, Die, flags, history
<1>2. {"code", "sig"} \subseteq DOMAIN child' /\ child'.code \in Nat
  <2>1. CASE Open
    BY <2>1 DEF Open, FailInv, Numbers, Dead, NoChild
  <2>2. CASE Succeed
    BY <2>2 DEF Succeed, FailInv, Numbers
  <2>3. CASE Fail
    BY <2>3 DEF Fail, FailInv, Numbers
  <2>4. CASE \E s \in Crash : Die(s)
    BY <2>4 DEF Die, FailInv, Numbers
  <2> QED  BY <2>1, <2>2, <2>3, <2>4 DEF Pass
<1> QED  BY <1>1, <1>2 DEF FailInv, Numbers, NoLink

LEMMA NoChildNumbers == {"code", "sig"} \subseteq DOMAIN NoChild /\ NoChild.code = 0
BY DEF NoChild

(* The driver's own steps.                                                   *)
LEMMA DriverFail == FailInv /\ Driver => FailInv'
<1> SUFFICES ASSUME FailInv, Driver PROVE FailInv'
  OBVIOUS
<1> USE DEF FailInv, Numbers, NoLink, Goto, At
<1>1. CASE MakeDirectory
  BY <1>1 DEF MakeDirectory, flags, history
<1>2. CASE CatchSigint
  BY <1>2 DEF CatchSigint, flags, history
<1>3. CASE CatchSigterm
  BY <1>3 DEF CatchSigterm, flags, history
<1>4. CASE NextSource
  BY <1>4 DEF NextSource, flags, history
<1>5. CASE LastSource
  BY <1>5 DEF LastSource, flags, history
<1>6. CASE Fork
  <2>1. child' = [NoChild EXCEPT !.pass = pc, !.stage = "forked"] \/ child' = Dead(100)
    BY <1>6 DEF Fork
  <2>2. {"code", "sig"} \subseteq DOMAIN child' /\ child'.code \in Nat
    <3>1. CASE child' = [NoChild EXCEPT !.pass = pc, !.stage = "forked"]
      BY <3>1, NoChildNumbers
    <3>2. CASE child' = Dead(100)
      BY <3>2, NoChildNumbers DEF Dead
    <3> QED  BY <2>1, <3>1, <3>2
  <2> QED  BY <1>6, <2>2 DEF Fork, flags, history
<1>7. CASE Dropped
  <2>1. cflag' /\ pc' = "next" /\ child' = NoChild
    BY <1>7, Zenon DEF Dropped, Returned, NextFile
  <2>2. eflag' \in Nat /\ eflag' # 0
    BY <1>7 DEF Dropped
  <2> QED  BY <2>1, <2>2, NoChildNumbers
<1>8. CASE Preprocessed
  BY <1>8, NoChildNumbers DEF Preprocessed, Returned, NextFile, history
<1>9. CASE Parsed
  BY <1>9, NoChildNumbers DEF Parsed, Returned, flags, history
<1>10. CASE Generated
  BY <1>10, NoChildNumbers DEF Generated, Returned, AfterText, NextFile, flags, history
<1>11. CASE Optimised
  BY <1>11, NoChildNumbers DEF Optimised, Returned, AfterText, NextFile, flags, history
<1>12. CASE Unoptimised
  <2>1. pc = "c2" /\ pc' \in {"next", "as"} /\ child' = NoChild
    BY <1>12 DEF Unoptimised, Returned, AfterText, NextFile
  <2>2. UNCHANGED <<cflag, eflag, failed>>
    BY <1>12 DEF Unoptimised, flags
  <2> QED  BY <2>1, <2>2, NoChildNumbers
<1>13. CASE Assembled
  <2>1. pc = "as" /\ pc' = "next" /\ child' = NoChild
    BY <1>13 DEF Assembled, Returned, NextFile
  <2>2. CASE child.code > 1
    <3>1. cflag'
      BY <1>13, <2>2, Zenon DEF Assembled
    <3>2. eflag' \in Nat /\ eflag' # 0
      BY <1>13, <2>2 DEF Assembled
    <3> QED  BY <2>1, <3>1, <3>2, NoChildNumbers
  <2>3. CASE ~(child.code > 1)
    <3>1. UNCHANGED <<cflag, eflag, failed>>
      BY <1>13, <2>3 DEF Assembled
    <3> QED  BY <2>1, <3>1, NoChildNumbers
  <2> QED  BY <2>2, <2>3
<1>14. CASE Fatal
  <2>1. pc' = "clean" /\ child' = NoChild
    BY <1>14 DEF Fatal, Dexit
  <2>2. CASE child.sig = SIGINT
    <3>1. UNCHANGED <<eflag, failed>>
      BY <1>14, <2>2 DEF Fatal
    <3> QED  BY <2>1, <3>1, NoChildNumbers
  <2>3. CASE child.sig # SIGINT
    <3>1. eflag' = 8
      BY <1>14, <2>3 DEF Fatal
    <3> QED  BY <2>1, <3>1, NoChildNumbers
  <2> QED  BY <2>2, <2>3
<1>15. CASE nocom
  BY <1>15 DEF nocom, Dexit, flags, history
<1>16. CASE Loaded
  <2>1. pc' = "clean" /\ child' = NoChild
    BY <1>16 DEF Loaded, Returned, Dexit
  <2>2. CASE child.code = 0
    <3>1. UNCHANGED <<eflag, failed>>
      BY <1>16, <2>2 DEF Loaded
    <3> QED  BY <2>1, <3>1, NoChildNumbers
  <2>3. CASE child.code # 0
    <3>1. eflag' = child.code
      BY <1>16, <2>3 DEF Loaded
    <3> QED  BY <2>1, <2>3, <3>1, NoChildNumbers
  <2> QED  BY <2>2, <2>3
<1>17. CASE cunlink
  BY <1>17 DEF cunlink, flags, history
<1>18. CASE Exit
  BY <1>18 DEF Exit, flags, history
<1> QED
  BY <1>1, <1>2, <1>3, <1>4, <1>5, <1>6, <1>7, <1>8, <1>9, <1>10, <1>11, <1>12,
     <1>13, <1>14, <1>15, <1>16, <1>17, <1>18 DEF Driver

(* A signal either ends cc, or sends it to dexit() with status 100.          *)
LEMMA SignalFail == FailInv /\ (Interrupt \/ Terminate) => FailInv'
<1> SUFFICES ASSUME FailInv, Interrupt \/ Terminate PROVE FailInv'
  OBVIOUS
<1>1. CASE Interrupt
  <2>1. child' = NoChild /\ UNCHANGED <<cflag, failed>>
    BY <1>1 DEF Interrupt, history
  <2>2. (eflag' = 100 /\ pc' = "clean") \/ UNCHANGED <<eflag, pc>>
    BY <1>1 DEF Interrupt, Signalled, Dexit, Goto
  <2> QED  BY <2>1, <2>2, NoChildNumbers DEF FailInv, Numbers, NoLink
<1>2. CASE Terminate
  <2>1. UNCHANGED <<child, cflag, failed>>
    BY <1>2 DEF Terminate, history
  <2>2. (eflag' = 100 /\ pc' = "clean") \/ UNCHANGED <<eflag, pc>>
    BY <1>2 DEF Terminate, Signalled, Dexit, Goto
  <2> QED  BY <2>1, <2>2 DEF FailInv, Numbers, NoLink
<1> QED  BY <1>1, <1>2

(* A failed pass is always told: cc never links after one, and never exits   *)
(* with status 0.                                                            *)
THEOREM FailureTold == Spec => []FailureReported
<1>1. FailInv /\ [Next]_vars => FailInv'
  <2> SUFFICES ASSUME FailInv, [Next]_vars PROVE FailInv'
    OBVIOUS
  <2>1. CASE UNCHANGED vars
    BY <2>1 DEF vars, flags, history, FailInv, Numbers, NoLink
  <2> QED  BY <2>1, DriverFail, PassFail, SignalFail DEF Next
<1>2. FailInv => FailureReported
  BY DEF FailInv, NoLink, FailureReported
<1> QED  BY <1>1, <1>2, InitFail, PTL DEF Spec
=============================================================================
