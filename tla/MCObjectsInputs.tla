---------------------------- MODULE MCObjectsInputs ----------------------------
(***************************************************************************)
(* Programs for As: jumps over gaps near the reach of a branch, in every   *)
(* order with the labels they go to and with labels of other segments;     *)
(* operands of every form on symbols of every kind; conditions.            *)
(*                                                                         *)
(* Objects for Das, and the assembler that takes what das writes: operands *)
(* of every relocation on places with and without a symbol; short texts in *)
(* which words that are not instructions stand among those that are.       *)
(*                                                                         *)
(* Links for Ld: a main program, functions that call each other, data and  *)
(* commons they share, archives with and without a table, overlays.        *)
(***************************************************************************)
EXTENDS Integers, Sequences, SequencesExt, FiniteSetsExt

Num(n) == [k |-> "num", v |-> n, sign |-> "+"]
Sym(n) == [k |-> "sym", n |-> n, sign |-> "+"]
Less(n) == [k |-> "sym", n |-> n, sign |-> "-"]
Dot == [k |-> ".", sign |-> "+"]
Lab(n) == [op |-> "label", n |-> n]
Seg(s) == [op |-> "seg", n |-> s]
To(op, n) == [op |-> op, e |-> <<Sym(n)>>]
Gap(n) == IF n = 0 THEN <<>> ELSE <<[op |-> ".", e |-> <<Dot, Num(n)>>]>>

\* <<order of the four items, which jump, which other label, three gaps>>
Orders == {<<1, 2, 3, 4>>, <<1, 3, 2, 4>>, <<3, 1, 4, 2>>, <<4, 1, 2, 3>>, <<1, 3, 4, 2>>, <<2, 4, 3, 1>>}
Between == {<<>>, <<Seg("D"), Lab("d"), [op |-> "byte", n |-> 2], Seg("T")>>,
            <<Seg("B"), [op |-> ".", e |-> <<Dot, Num(8)>>], Lab("e"), Seg("T")>>}
GapSizes == {0, 124, 250, 252}
Jumping == {<<"jump", o, j, m, g>> : o \in Orders, j \in {"jbr", "jxx"}, m \in Between,
                                    g \in GapSizes \X GapSizes \X {0, 126, 252}}
JumpingProgram(c) ==
    LET items == <<To(c[3], "a"), To("jbr", "b"), Lab("a"), Lab("b")>>
        o == c[2]
    IN <<items[o[1]]>> \o Gap(c[5][1]) \o <<items[o[2]]>> \o c[4] \o Gap(c[5][2])
       \o <<items[o[3]]>> \o Gap(c[5][3]) \o <<items[o[4]]>>

Op(form, defer, e) == [form |-> form, defer |-> defer, r |-> 3, e |-> e]
Exprs == {<<Sym("t")>>, <<Sym("d"), Num(4)>>, <<Num(2), Sym("b")>>, <<Sym("x")>>, <<Sym("c"), Num(2)>>,
          <<Sym("k")>>, <<Sym("d"), Less("d0")>>, <<Dot, Num(4)>>}
Operands == {Op(f, d, e) : f \in {"imm", "rel", "idx"}, d \in BOOLEAN, e \in Exprs}
            \cup {Op(f, d, <<>>) : f \in {"at", "inc", "dec", "reg"}, d \in BOOLEAN}
First == {Op("reg", FALSE, <<>>), Op("rel", FALSE, <<Sym("t")>>), Op("at", TRUE, <<>>)}
Where == {"T", "D"}
Referring == {<<"refer", a, b, s, g, o>> : a \in First, b \in Operands, s \in Where, g \in BOOLEAN, o \in {0}}
             \cup {<<"refer", a, b, "T", FALSE, 512>> : a \in First,
                    b \in {Op("rel", FALSE, e) : e \in Exprs \ {<<Sym("x")>>, <<Sym("c"), Num(2)>>}}}
\* Names are used before and after they are defined, with a jump in between.
ReferringProgram(c) ==
    (IF c[6] = 0 THEN <<>> ELSE <<[op |-> "..", e |-> <<Num(c[6])>>]>>)
    \o (IF c[5] THEN <<[op |-> "globl", n |-> "t"], [op |-> "globl", n |-> "x"]>> ELSE <<>>)
    \o <<[op |-> "comm", n |-> "c", size |-> 6], Seg(c[4])>>
    \o <<[op |-> "insn", name |-> "mov", ops |-> <<c[2], c[3]>>], [op |-> "word", e |-> c[3].e]>>
    \o <<Seg("T"), [op |-> "num", n |-> "1"], [op |-> "jbr", e |-> <<[k |-> "f", n |-> "1", sign |-> "+"]>>], Lab("t"),
         [op |-> "~", n |-> "t"],
         [op |-> "insn", name |-> "clr", ops |-> <<c[3]>>], [op |-> "num", n |-> "1"],
         [op |-> "br", e |-> <<[k |-> "b", n |-> "1", sign |-> "+"]>>],
         [op |-> "byte", n |-> 1], Seg("D"), Lab("d0"), [op |-> "byte", n |-> 3], [op |-> "even"], Lab("d"),
         [op |-> "word", e |-> <<Sym("t")>>], Seg("B"), Lab("b"), [op |-> ".", e |-> <<Dot, Num(2)>>],
         [op |-> "assign", n |-> "k", e |-> <<Num(6)>>]>>

\* Nested conditions on a name defined before or after, around jumps.
Conds == {<<"if", k, l, where>> : k \in {0, 1}, l \in {0, 1}, where \in {"before", "after"}}
CondProgram(c) ==
    LET set == <<[op |-> "assign", n |-> "p", e |-> <<Num(c[2])>>], [op |-> "assign", n |-> "q", e |-> <<Num(c[3])>>]>>
    IN (IF c[4] = "before" THEN set ELSE <<>>)
       \o <<To("jbr", "a"), [op |-> "if", e |-> <<Sym("p")>>], To("jbr", "b"), [op |-> "if", e |-> <<Sym("q")>>],
            [op |-> "byte", n |-> 252], [op |-> "word", e |-> <<Sym("x")>>], [op |-> "endif"], To("jbr", "a"), [op |-> "endif"],
            [op |-> "word", e |-> <<Sym("y")>>], Lab("a"), Lab("b")>>
       \o (IF c[4] = "after" THEN set ELSE <<>>)

MCSource(c) == CASE c[1] = "jump" -> JumpingProgram(c)
                 [] c[1] = "refer" -> ReferringProgram(c)
                 [] c[1] = "if" -> CondProgram(c)
MCSources == Jumping \cup Referring \cup Conds

MCModes(c) == IF c[1] = "refer" THEN {"u", "7", "V"} ELSE {"u"}

---------------------------------------------------------------------------
\* What follows write, 4, and indir, 0, in line.
MCSysinline(n) == CASE n = 4 -> 2 [] n = 0 -> 1 [] OTHER -> 0
D == INSTANCE Das WITH Digits <- <<"0", "1">>, sysinline <- MCSysinline

Data(w) == [w |-> w, rel |-> <<"A", 0>>, pc |-> FALSE]
Ptr(w, seg, i) == [w |-> w, rel |-> <<seg, i>>, pc |-> FALSE]
Pc(w, seg, i) == [w |-> w, rel |-> <<seg, i>>, pc |-> TRUE]
Syl(n, type, ext, val) == [name |-> n, type |-> type, ext |-> ext, val |-> val]

SymSets == {<<>>, <<Syl("f", "T", TRUE, 0)>>, <<Syl("l", "T", FALSE, 4)>>, <<Syl("f", "T", FALSE, 0), Syl("g", "T", TRUE, 0)>>,
            <<Syl("z", "T", TRUE, 6), Syl("d", "D", FALSE, 6)>>, <<Syl("e", "D", FALSE, 10)>>, <<Syl("b", "B", FALSE, 12)>>,
            <<Syl("c", "U", TRUE, 4), Syl("k", "A", FALSE, 9), Syl("f", "T", TRUE, 0), Syl("j", "A", TRUE, 7)>>}
Ops == {64, 4288, 2528, 2560}     \* jmp, mov x,r0; jsr pc; clr: where 64 has the operand at bit 0
WithMode(op, m) == IF op = 4288 THEN 4096 + 64 * m ELSE op + m
Targets == {0, 2, 4, 6, 8, 10, 12, 14}
\* No source has a label inside an instruction.
Cells == {c \in {Ptr(v, s, 0) : v \in Targets, s \in {"T", "D", "B", "A"}} : c.rel[1] # "T" \/ c.w # 2}
         \cup {Pc(D!Word(v - 4), s, 0) : v \in Targets, s \in {"T", "D", "B", "A"}}
         \cup {Ptr(v, "X", 1) : v \in {0, 2}} \cup {Pc(D!Word(v - 4), "X", 1) : v \in {0, 2}}
Within == [T |-> {0, 4}, D |-> {6, 8}, B |-> {10, 12}]
Suits(m, c, y) ==
    /\ c.pc <=> m \in {55, 63}
    /\ c.rel[1] = "X" => y # <<>> /\ y[1].type = "U"
    /\ (c.pc /\ c.rel[1] \in {"T", "D", "B"}) => D!Word(c.w + 4) \in Within[c.rel[1]]
OperandObjects == {<<"das", [t |-> <<Data(WithMode(op, m)), c, Data(135)>>, d |-> <<Data(5), e>>, b |-> 4, syms |-> y]>> :
                     op \in Ops, m \in {23, 31, 48, 55, 63}, c \in Cells, y \in SymSets, e \in {Ptr(4, "T", 0)}}
Good(o) == LET t == o[2].t IN
    /\ t[2].pc /\ t[1].w < 4096 /\ t[1].w # 2560 + (t[1].w % 64) => t[2].rel[1] \in {"T", "X"}   \* no jump out of the text
    /\ Suits(t[1].w % 64, t[2], o[2].syms) \/ Suits((t[1].w \div 64) % 64, t[2], o[2].syms)

\* Three items and a return: an item is an instruction, a system call with its
\* arguments or, where the program does not come, a number or a pointer.
Code(a) == {<<Data(w)>> : w \in {135, 4097, 257, 513, 256 + 254, 512 + 253}}
           \cup {<<Data(35076), x, Data(4097)>> : x \in {Data(2615), Ptr(0, "T", 0)}}
           \cup {<<Data(2615), Pc(D!Word(v - (a + 4)), "T", 0)>> : v \in {0, 4}}
           \cup {<<Data(95), Ptr(4, "T", 0)>>, <<Data(2527), Ptr(6, "T", 0)>>}
Numbers == {<<Data(2615)>>, <<Data(4096)>>, <<Data(35076)>>, <<Ptr(4, "T", 0)>>}
Stops(x) == x[1].w \in {135, 257, 256 + 254, 95}
Items(before, a) == Code(a) \cup (IF Stops(before) THEN Numbers ELSE {})
FlowSyms == {<<>>, <<Syl("f", "T", TRUE, 0)>>, <<Syl("l", "T", FALSE, 4)>>}
Refers(x) == {x[k].w : k \in {j \in DOMAIN x : x[j].rel[1] = "T" /\ ~x[j].pc}}
Goes(t) == {2 * k + 2 * D!Signed(t[k].w % 256, 8) : k \in {j \in DOMAIN t : t[j].w \in 256..1023 /\ t[j].rel[1] = "A"}}
           \cup {D!Word(2 * k + t[k].w) : k \in {j \in DOMAIN t : t[j].pc}}
FlowObjects ==
    UNION {UNION {UNION {
        LET starts == {0, 2 * Len(x \o y \o z)} \cup (IF y \in Numbers THEN {} ELSE {2 * Len(x)})
                      \cup (IF z \in Numbers THEN {} ELSE {2 * Len(x \o y)})
        IN {<<"das", [t |-> x \o y \o z \o <<Data(135)>>, d |-> <<>>, b |-> 0, syms |-> s]>> :
              s \in {q \in FlowSyms : /\ \A i \in DOMAIN q : q[i].val \in starts
                                  /\ Refers(x \o y \o z) \cup Goes(x \o y \o z) \subseteq starts}}
        : z \in Items(IF y \in Numbers THEN x ELSE y, 2 * Len(x \o y))} : y \in Items(x, 2 * Len(x))} : x \in Code(0)}

DasSources == {o \in OperandObjects : Good(o)} \cup FlowObjects

---------------------------------------------------------------------------
Zero == [to |-> "abs", v |-> 0, pc |-> FALSE, id |-> [want |-> "", label |-> "", in |-> 0]]
Y(n, k, v) == [n |-> n, k |-> k, v |-> v]
W(label) == [Zero EXCEPT !.id.label = label]
Abs(n, label) == [to |-> n, v |-> 0, pc |-> FALSE, id |-> [want |-> n, label |-> label, in |-> 0]]
Call(n, off) == [to |-> n, v |-> -(off + 1), pc |-> TRUE, id |-> [want |-> n, label |-> "", in |-> 0]]
Local(seg, v, n) == [to |-> seg, v |-> v, pc |-> FALSE, id |-> [want |-> n, label |-> "", in |-> 0]]
LocalPc(seg, v, n) == [to |-> seg, v |-> v, pc |-> TRUE, id |-> [want |-> n, label |-> "", in |-> 0]]

objMain == [name |-> "main", bss |-> 1,
    text |-> <<W("main"), Call("f", 1), Abs("d", ""), LocalPc("D", 5 - 3 - 1, "md")>>, data |-> <<W(""), W("md"), Local("T", 0, "main")>>,
    syms |-> <<Y("main", "T", 0), Y("f", "U", 0), Y("d", "U", 0), Y("c", "U", 1)>>]
objF == [name |-> "f", bss |-> 0,
    text |-> <<W(""), W("f"), Call("g", 2), Local("T", 4, "fl"), W("fl")>>, data |-> <<>>,
    syms |-> <<Y("f", "T", 1), Y("g", "U", 0)>>]
objG == [name |-> "g", bss |-> 2, text |-> <<W("g")>>, data |-> <<Abs("f", "gd")>>,
    syms |-> <<Y("g", "T", 0), Y("f", "U", 0), Y("c", "U", 2), Y("e", "U", 1)>>]
objD == [name |-> "d", bss |-> 1, text |-> <<W("")>>, data |-> <<W("d"), Local("D", 1, "d"), Abs("c", "")>>,
    syms |-> <<Y("k", "U", 1), Y("d", "D", 1), Y("x", "B", 4), Y("c", "U", 0)>>]
objU == [name |-> "u", bss |-> 0, text |-> <<W("u")>>, data |-> <<>>, syms |-> <<Y("u", "T", 0), Y("c", "U", 3)>>]
objH == [name |-> "h", bss |-> 0, text |-> <<W(""), W("ovhndlr1"), W("ovhndlr2")>>, data |-> <<W("__ovno")>>,
    syms |-> <<Y("ovhndlr1", "T", 1), Y("ovhndlr2", "T", 2), Y("__ovno", "D", 3)>>]
O(o) == <<[k |-> "obj", o |-> o]>>
L(toc, lib) == <<[k |-> "lib", toc |-> toc, lib |-> lib]>>
Z == <<[k |-> "Z"]>>
E == <<[k |-> "L"]>>
Overlaid == {Z \o O(objF) \o Z \o O(objG) \o E, Z \o L(FALSE, <<objG, objF, objG, objU>>) \o E}
Groups(b) == Cardinality({i \in DOMAIN b : b[i] \in Overlaid})
Chunks == {O(objF), O(objG), O(objD), L(TRUE, <<objG, objD, objU, objF>>), L(FALSE, <<objU, objF, objG, objD>>), <<[k |-> "u", n |-> "u"]>>} \union Overlaid
Bodies == {b \in UNION {[1..n -> Chunks] : n \in 0..3} : IsInjective(b) /\ Groups(b) <= 1}
MCLinks == {[args |-> O(objMain) \o FlattenSeq(b) \o O(objH), opts |-> o, then |-> <<>>] : b \in Bodies, o \in {{}, {"n"}, {"i"}, {"v1"}, {"r", "d"}}}
           \union {[args |-> O(objMain) \o FlattenSeq(b), opts |-> {"r"}, then |-> <<[args |-> O(objF) \o O(objH) \o O(objG) \o O(objD), opts |-> {"n"}]>>] : b \in Bodies}
==============================================================================
