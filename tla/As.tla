-------------------------------- MODULE As --------------------------------
(***************************************************************************)
(* The assembler pdp11-as (src/pdp11-as/as.c).  assemble() goes over the   *)
(* source three times: an estimate with every forward jump long, a pass    *)
(* that decides the jumps while the layout moves under it, and the pass    *)
(* that emits.  Nothing compares the addresses of two passes.  A statement *)
(* is [op, ...], lexed; an expression is a sequence of signed terms; names *)
(* are <<"s", name, 0>>, a numeric label <<"n", digit, occurrence>>, a     *)
(* symbol marked with ~ is <<"~", "", occurrence>>.                        *)
(***************************************************************************)
EXTENDS Integers, Sequences, SequencesExt, FiniteSetsExt

CONSTANTS
    Sources,        \* the codes of the programs
    Source(_),      \* the program of a code: a sequence of statements
    Modes(_),       \* its command lines: "u" (cc's), "7" (no -u), "V" (ovas)
    Digits          \* the digits of numeric labels

VARIABLES
    code, program, mode,  \* the program and the command line
    pass,           \* "estimate", "decide", "emit", "done"
    at,             \* the statement that is next
    tab,            \* the symbols in order of creation: [id, def, globl, reg, seg, val, last, index]
    dot, seg,       \* the location counters and the current segment
    origin,         \* what `..' is set to
    count,          \* [digit |-> definitions so far, "~" |-> marked names so far]
    cond,           \* <<depth, off>> of .if
    span,           \* [n, long, brdelt]: jumps met, which are long, the drift at the last label
    size,           \* [T, D]: the segments' sizes, even, once they are known
    out,            \* the words of text and data: [seg, at, w, rel, pc, st, k]
    object,         \* the symbol table of the object: [id, type, ext, val]
    errs            \* complaints

vars == <<code, program, mode, pass, at, tab, dot, seg, origin, count, cond, span, size, out, object, errs>>

Program == program
NoSym == <<"", "", 0>>
Reloc == {"T", "D", "B"}
NoCount == [d \in Digits \cup {"~"} |-> 0]
EvenUp(n) == n + (n % 2)
Word(v) == v % 65536

Init ==
    /\ code \in Sources /\ program = Source(code) /\ mode \in Modes(code)
    /\ pass = "estimate" /\ at = 1 /\ tab = <<>>
    /\ dot = [s \in Reloc |-> 0] /\ seg = "T" /\ origin = 0
    /\ count = NoCount /\ cond = <<0, 0>>
    /\ span = [n |-> 0, long |-> <<>>, brdelt |-> 0]
    /\ size = [T |-> 0, D |-> 0] /\ out = <<>> /\ object = <<>> /\ errs = {}

---------------------------------------------------------------------------
(* Symbols.                                                                *)

find_sym(t, id) == LET hits == {i \in DOMAIN t : t[i].id = id}
                   IN IF hits = {} THEN 0 ELSE CHOOSE i \in hits : TRUE
lookup(t, id) ==
    IF find_sym(t, id) # 0 THEN t
    ELSE Append(t, [id |-> id, def |-> FALSE, globl |-> FALSE, reg |-> FALSE,
                    seg |-> "X", val |-> 0, last |-> "", index |-> 0])
Intern(t, ids) == FoldLeft(lookup, t, ids)
Entry(t, id) == t[find_sym(t, id)]
Set(t, id, new(_)) == LET u == lookup(t, id) IN [u EXCEPT ![find_sym(u, id)] = new(@)]

\* Which symbols the object lists, in the order they were met; a numeric label
\* never is.  The indices are given before the words that use them are emitted.
emitsym(y) == (y.globl \/ y.def \/ y.seg = "X") /\ y.id[1] # "n"
Indexed(t) == [i \in DOMAIN t |->
                  [t[i] EXCEPT !.index = Cardinality({j \in 1..(i - 1) : emitsym(t[j])})]]

segbase(s) == CASE s = "D" -> size.T [] s = "B" -> size.T + size.D [] OTHER -> 0

---------------------------------------------------------------------------
(* Expressions.                                                            *)

\* The symbol a term names: 1f is the next definition of 1, 1b the last one.
Named(t) == CASE t.k = "f" -> <<"n", t.n, count[t.n] + 1>>
              [] t.k = "b" -> <<"n", t.n, count[t.n]>>
              [] OTHER -> <<"s", t.n, 0>>

\* A symbol that is not defined yet is minted and external, worth 0.  Under -V
\* a defined global of text is remembered too.
term(t, x) ==
    LET y == Entry(t, Named(x))
    IN CASE x.k = "num" -> [tab |-> t, v |-> x.v, seg |-> "A", sym |-> NoSym]
         [] x.k = "." -> [tab |-> t, v |-> dot[seg], seg |-> seg, sym |-> NoSym]
         [] x.k = ".." -> [tab |-> t, v |-> origin, seg |-> "A", sym |-> NoSym]
         [] OTHER ->
              IF find_sym(t, Named(x)) # 0 /\ y.def
              THEN [tab |-> t, v |-> y.val, seg |-> y.seg,
                    sym |-> IF mode = "V" /\ y.globl /\ y.seg = "T" THEN y.id ELSE NoSym]
              ELSE [tab |-> lookup(t, Named(x)), v |-> 0, seg |-> "X", sym |-> Named(x)]

Complain(b, what) == IF b /\ pass = "emit" THEN {what} ELSE {}

\* Left to right; the segment and the symbol are those of the first term that
\* is not absolute, and a difference within one segment is absolute.
expr(t0, e) ==
    FoldLeft(LAMBDA a, x :
        LET b == term(a.tab, x)
        IN IF x.sign = "+"
           THEN IF a.seg = "A" THEN [b EXCEPT !.v = a.v + @] @@ [errs |-> a.errs]
                ELSE [a EXCEPT !.tab = b.tab, !.v = @ + b.v,
                               !.errs = @ \cup Complain(b.seg # "A", "non-abs in +")]
           ELSE IF a.seg = b.seg /\ a.seg # "X"
                THEN [tab |-> b.tab, v |-> a.v - b.v, seg |-> "A", sym |-> NoSym, errs |-> a.errs]
                ELSE [a EXCEPT !.tab = b.tab, !.v = @ - b.v,
                               !.errs = @ \cup Complain(b.seg # "A", "bad -")],
        [tab |-> t0, v |-> 0, seg |-> "A", sym |-> NoSym, errs |-> {}], e)

---------------------------------------------------------------------------
(* Operands and emission.                                                  *)

\* The mode an operand is written in, and whether a word follows it; *(rn) is
\* mode 7 with the word 0.
Mode(o) ==
    LET d == IF o.defer THEN 1 ELSE 0
    IN CASE o.form = "imm" -> <<2 + d, 7>>
         [] o.form = "at"  -> <<1 + 6 * d, o.r>>
         [] o.form = "inc" -> <<2 + d, o.r>>
         [] o.form = "dec" -> <<4 + d, o.r>>
         [] o.form = "reg" -> <<d, o.r>>
         [] o.form = "idx" -> <<6 + d, o.r>>
         [] o.form = "rel" -> <<6 + d, 7>>
HasExtra(o) == o.form \in {"imm", "idx", "rel"} \/ (o.form = "at" /\ o.defer)

\* Under -V the uses of a global function stay external, for ld's thunks.
Externalised(v) ==
    LET y == Entry(tab, v.sym)
    IN IF mode = "V" /\ v.sym # NoSym /\ v.seg = "T" /\ y.globl /\ y.def /\ ~y.reg
       THEN [v EXCEPT !.v = @ - y.val, !.seg = "X"] ELSE v

\* The relocation of a word; under -V what was not declared .globl has none.
Relocation(v) ==
    IF v.seg # "X" \/ v.sym = NoSym THEN <<v.seg, 0>>
    ELSE LET y == Entry(tab, v.sym)
         IN IF mode = "V" /\ ~y.globl /\ ~y.def THEN <<"A", 0>> ELSE <<"X", y.index>>

\* A word is a number or an instruction with what its fields hold.
Datum(v) == [name |-> "word", n |-> Word(v)]
Insn(name, n) == [name |-> name, n |-> n]

\* Word number k of statement `at', `here' its place: v as it is stored.
emitextra(v0, pc, here, k) ==
    LET v == Externalised(v0)
        biased == v.v + segbase(v.seg) + (IF v.seg \in Reloc THEN origin ELSE 0)
        from == here + segbase(seg) + 2 + (IF v.seg = "X" THEN 0 ELSE origin)
    IN [seg |-> seg, at |-> here, w |-> Datum(biased - (IF pc THEN from ELSE 0)),
        rel |-> Relocation(v), pc |-> pc, st |-> at, k |-> k]
Opcode(w, here) == [seg |-> seg, at |-> here, w |-> w, rel |-> <<"A", 0>>, pc |-> FALSE, st |-> at, k |-> 0]
Emitted(ws) == IF pass = "emit" THEN out \o ws ELSE out

\* Fill up to an even place.
Fill(d, s) == [d EXCEPT ![s] = EvenUp(@)]

---------------------------------------------------------------------------
(* The statements.                                                         *)

St == Program[at]
On == pass # "done" /\ at <= Len(Program) /\ cond[2] = 0
Next1 == at' = at + 1
Same == UNCHANGED <<code, program, mode, pass, size, object>>

\* A label's last value less the counter is how far the layout has moved; a
\* label of bss counts as if its value had been 0.
Drift(old) == IF pass = "decide" /\ seg = "B" THEN -dot[seg] ELSE old - dot[seg]
Define(id) ==
    LET t == lookup(tab, id)
        y == Entry(t, id)
    IN /\ tab' = Set(t, id, LAMBDA z : [z EXCEPT !.def = TRUE, !.seg = seg, !.val = dot[seg], !.last = pass])
       /\ span' = [span EXCEPT !.brdelt = Drift(y.val)]
       /\ errs' = errs \cup (IF y.last = pass /\ id[1] = "s" THEN {"redefined symbol"} ELSE {})
       /\ UNCHANGED <<dot, seg, origin, cond, out>>

Label == On /\ St.op = "label" /\ Define(<<"s", St.n, 0>>) /\ Next1 /\ Same /\ UNCHANGED count

NumericLabel ==
    /\ On /\ St.op = "num"
    /\ count' = [count EXCEPT ![St.n] = @ + 1]
    /\ Define(<<"n", St.n, count[St.n] + 1>>) /\ Next1 /\ Same

\* A marked label is a new symbol at each occurrence, the same in each pass.
MarkedLabel ==
    /\ On /\ St.op = "~"
    /\ count' = [count EXCEPT !["~"] = @ + 1]
    /\ Define(<<"~", "", count["~"] + 1>>) /\ Next1 /\ Same

MarkedAssign ==
    /\ On /\ St.op = "~="
    /\ count' = [count EXCEPT !["~"] = @ + 1]
    /\ tab' = Set(tab, <<"~", "", count["~"] + 1>>, LAMBDA z : [z EXCEPT !.def = TRUE, !.seg = "A", !.val = St.v])
    /\ Next1 /\ Same /\ UNCHANGED <<dot, seg, origin, cond, span, out, errs>>

Assign ==
    LET t == lookup(tab, <<"s", St.n, 0>>)
        v == expr(t, St.e)
    IN /\ On /\ St.op = "assign"
       /\ tab' = Set(v.tab, <<"s", St.n, 0>>, LAMBDA z : [z EXCEPT !.def = TRUE, !.seg = v.seg, !.val = v.v, !.reg = FALSE])
       /\ errs' = errs \cup v.errs
       /\ Next1 /\ Same /\ UNCHANGED <<dot, seg, origin, count, cond, span, out>>

\* `. = e' fills with zeroes, or goes back.
SetDot ==
    LET v == expr(tab, St.e)
    IN /\ On /\ St.op = "."
       /\ dot' = [dot EXCEPT ![seg] = v.v] /\ tab' = v.tab /\ errs' = errs \cup v.errs
       /\ Next1 /\ Same /\ UNCHANGED <<seg, origin, count, cond, span, out>>

SetOrigin ==
    LET v == expr(tab, St.e)
    IN /\ On /\ St.op = ".."
       /\ origin' = v.v /\ tab' = v.tab /\ errs' = errs \cup v.errs
       /\ Next1 /\ Same /\ UNCHANGED <<dot, seg, count, cond, span, out>>

doglobl ==
    /\ On /\ St.op = "globl"
    /\ tab' = Set(tab, <<"s", St.n, 0>>, LAMBDA z : [z EXCEPT !.globl = TRUE])
    /\ Next1 /\ Same /\ UNCHANGED <<dot, seg, origin, count, cond, span, out, errs>>

\* A common is an undefined global whose value is its size.
docomm ==
    /\ On /\ St.op = "comm"
    /\ tab' = Set(tab, <<"s", St.n, 0>>, LAMBDA z : [z EXCEPT !.globl = TRUE, !.val = IF z.def THEN @ ELSE St.size])
    /\ Next1 /\ Same /\ UNCHANGED <<dot, seg, origin, count, cond, span, out, errs>>

\* The segment that is left is padded to a word.
setseg ==
    /\ On /\ St.op = "seg"
    /\ seg' = St.n /\ dot' = IF St.n = seg THEN dot ELSE Fill(dot, seg)
    /\ Next1 /\ Same /\ UNCHANGED <<tab, origin, count, cond, span, out, errs>>

even == /\ On /\ St.op = "even" /\ dot' = Fill(dot, seg)
        /\ Next1 /\ Same /\ UNCHANGED <<tab, seg, origin, count, cond, span, out, errs>>

dobyte == /\ On /\ St.op = "byte" /\ dot' = [dot EXCEPT ![seg] = @ + St.n]
          /\ Next1 /\ Same /\ UNCHANGED <<tab, seg, origin, count, cond, span, out, errs>>

doword ==
    LET v == expr(tab, St.e)
    IN /\ On /\ St.op = "word"
       /\ tab' = v.tab /\ errs' = errs \cup v.errs
       /\ out' = Emitted(<<emitextra(v, FALSE, dot[seg], 1)>>)
       /\ dot' = [dot EXCEPT ![seg] = @ + 2]
       /\ Next1 /\ Same /\ UNCHANGED <<seg, origin, count, cond, span>>

\* A number that is an instruction's, or an instruction without operands.
Bare == /\ On /\ St.op = "bare"
        /\ out' = Emitted(<<Opcode(St.w, dot[seg])>>) /\ dot' = [dot EXCEPT ![seg] = @ + 2]
        /\ Next1 /\ Same /\ UNCHANGED <<tab, seg, origin, count, cond, span, errs>>

\* doublop, singlop, jsrop, eisop: both operands are read, then the words of
\* those that may have one are put after the opcode.
Instruction ==
    LET exprs == FoldLeft(LAMBDA a, o : LET v == expr(a.tab, o.e)
                                        IN [tab |-> v.tab, vs |-> Append(a.vs, v), errs |-> a.errs \cup v.errs],
                          [tab |-> tab, vs |-> <<>>, errs |-> {}], St.ops)
        have == SelectSeq([k \in DOMAIN St.ops |-> k], LAMBDA k : HasExtra(St.ops[k]))
        words == [i \in DOMAIN have |->
                    emitextra(exprs.vs[have[i]], St.ops[have[i]].form = "rel", dot[seg] + 2 * i, have[i])]
    IN /\ On /\ St.op = "insn"
       /\ tab' = exprs.tab /\ errs' = errs \cup exprs.errs
       /\ out' = Emitted(<<Opcode(Insn(St.name, [k \in DOMAIN St.ops |-> Mode(St.ops[k])]), dot[seg])>> \o words)
       /\ dot' = [dot EXCEPT ![seg] = @ + 2 + 2 * Len(have)]
       /\ Next1 /\ Same /\ UNCHANGED <<seg, origin, count, cond, span>>

\* A branch holds how many words it is away.
InRange(disp) == -128 <= disp /\ disp <= 127
Opposite == [br |-> "", bne |-> "beq", beq |-> "bne", bge |-> "blt", blt |-> "bge", bgt |-> "ble", ble |-> "bgt",
             bpl |-> "bmi", bmi |-> "bpl", bhi |-> "blos", blos |-> "bhi", bvc |-> "bvs", bvs |-> "bvc",
             bcc |-> "bcs", bcs |-> "bcc"]
branchop ==
    LET v == expr(tab, St.e)
        disp == (v.v - (dot[seg] + 2)) \div 2
    IN /\ On /\ St.op \in DOMAIN Opposite
       /\ tab' = v.tab
       /\ errs' = errs \cup v.errs \cup Complain(~InRange(disp), "branch out of range")
       /\ out' = Emitted(<<Opcode(Insn(St.op, <<0, disp>>), dot[seg])>>)
       /\ dot' = [dot EXCEPT ![seg] = @ + 2]
       /\ Next1 /\ Same /\ UNCHANGED <<seg, origin, count, cond, span>>

\* sob goes back only; how far is not checked.
sobop ==
    LET v == expr(tab, St.e)
    IN /\ On /\ St.op = "sob"
       /\ tab' = v.tab /\ errs' = errs \cup v.errs
       /\ out' = Emitted(<<Opcode(Insn("sob", <<St.r, -(((dot[seg] + 2 - v.v) \div 2) % 64)>>), dot[seg])>>)
       /\ dot' = [dot EXCEPT ![seg] = @ + 2]
       /\ Next1 /\ Same /\ UNCHANGED <<seg, origin, count, cond, span>>

---------------------------------------------------------------------------
(* Jumps that are as long as they must be.                                 *)

\* r0 = target - dot; a forward target still has its estimated value, which
\* the drift at the last label corrects.
decidedFar(targ) ==
    LET r == targ - dot[seg]
        r0 == IF r > 0 THEN r - span.brdelt ELSE r
    IN r0 < -256 \/ r0 > 256
decided(targ) ==
    LET r == targ - dot[seg]
        r0 == IF r > 0 THEN r - span.brdelt ELSE r
    IN r0 < -254 \/ r0 > 256

\* estimate: forward (undefined) is long, backward by distance.
spanrecAnew(v) ==
    CASE seg # "T" -> TRUE
      [] pass = "estimate" -> v.sym # NoSym \/ v.v - dot[seg] >= 0 \/ v.v - dot[seg] < -254
      [] OTHER -> decided(v.v)
spanrec(v) ==
    CASE seg # "T" -> TRUE
      [] pass = "estimate" -> v.sym # NoSym \/ v.v - dot[seg] >= 0 \/ v.v - dot[seg] < -254
      [] pass = "decide" -> decided(v.v)
      [] OTHER -> span.long[span.n + 1]

\* jbr: br, or jmp *$target; jxx, of which jne stands for all: the branch, or
\* the opposite branch around that jmp.
Jump ==
    LET v == expr(tab, St.e)
        long == spanrec(v)
        disp == (v.v - (dot[seg] + 2)) \div 2
        over == IF St.op = "jxx" THEN <<Opcode(Insn(Opposite["bne"], <<0, 2>>), dot[seg])>> ELSE <<>>
        jmp == dot[seg] + 2 * Len(over)
    IN /\ On /\ St.op \in {"jbr", "jxx"}
       /\ tab' = v.tab
       /\ span' = [span EXCEPT !.n = @ + 1, !.long = IF pass = "emit" THEN @ ELSE Append(@, long)]
       /\ errs' = errs \cup v.errs \cup Complain(~long /\ ~InRange(disp), "span branch out of range")
       /\ out' = Emitted(IF long THEN over \o <<Opcode(Insn("jmp", <<<<3, 7>>>>), jmp), emitextra(v, FALSE, jmp + 2, 1)>>
                         ELSE <<Opcode(Insn(IF St.op = "jxx" THEN "bne" ELSE "br", <<0, disp>>), dot[seg])>>)
       /\ dot' = [dot EXCEPT ![seg] = IF long THEN jmp + 4 ELSE @ + 2]
       /\ Next1 /\ Same /\ UNCHANGED <<seg, origin, count, cond>>

---------------------------------------------------------------------------
(* Conditions.                                                             *)

If == LET v == expr(tab, St.e)
          off == cond[2] # 0
      IN /\ pass # "done" /\ at <= Len(Program) /\ St.op = "if"
         /\ cond' = <<cond[1] + 1, IF off THEN cond[2] ELSE IF v.v = 0 THEN cond[1] + 1 ELSE 0>>
         /\ tab' = IF off THEN tab ELSE v.tab
         /\ errs' = IF off THEN errs ELSE errs \cup v.errs
         /\ Next1 /\ Same /\ UNCHANGED <<dot, seg, origin, count, span, out>>

EndIf == /\ pass # "done" /\ at <= Len(Program) /\ St.op = "endif"
         /\ cond' = <<IF cond[1] > 0 THEN cond[1] - 1 ELSE 0, IF cond[2] = cond[1] THEN 0 ELSE cond[2]>>
         /\ Next1 /\ Same /\ UNCHANGED <<tab, dot, seg, origin, count, span, out, errs>>

\* What is skipped still enters its names, so the order of the table stays.
Terms(st) == (IF st.op \in {"label", "globl", "comm", "assign"} THEN <<[k |-> "sym", n |-> st.n]>> ELSE <<>>)
             \o (IF st.op \in {"word", "sob", "jbr", "jxx", "assign"} \cup DOMAIN Opposite THEN st.e ELSE <<>>)
             \o (IF st.op = "insn" THEN FlattenSeq([k \in DOMAIN st.ops |-> st.ops[k].e]) ELSE <<>>)
Skip == LET named == SelectSeq(Terms(St), LAMBDA x : x.k \in {"sym", "f", "b"})
        IN /\ pass # "done" /\ at <= Len(Program) /\ cond[2] # 0 /\ St.op \notin {"if", "endif"}
           /\ tab' = Intern(tab, [i \in DOMAIN named |-> Named(named[i])])
           /\ Next1 /\ Same /\ UNCHANGED <<dot, seg, origin, count, cond, span, out, errs>>

---------------------------------------------------------------------------
(* The passes, and the object.                                             *)

After == [estimate |-> "decide", decide |-> "emit"]
NextPass ==
    /\ pass \in DOMAIN After /\ at > Len(Program)
    /\ pass' = After[pass] /\ at' = 1
    /\ dot' = [s \in Reloc |-> 0] /\ seg' = "T" /\ count' = NoCount /\ cond' = <<0, 0>>
    /\ span' = [n |-> 0, long |-> IF pass = "decide" THEN span.long ELSE <<>>, brdelt |-> 0]
    /\ size' = IF pass = "decide" THEN [T |-> EvenUp(dot.T), D |-> EvenUp(dot.D)] ELSE size
    /\ tab' = IF pass = "decide" THEN Indexed(tab) ELSE tab
    /\ UNCHANGED <<code, program, mode, origin, out, object, errs>>

\* An undefined symbol is external unless -7 or -V leaves it to its .globl.
TypeOf(y) == CASE y.reg -> "R" [] y.def -> y.seg [] OTHER -> "U"
writeout ==
    /\ pass = "emit" /\ at > Len(Program)
    /\ pass' = "done"
    /\ object' = LET listed == SelectSeq(tab, emitsym)
                 IN [i \in DOMAIN listed |->
                        [id |-> listed[i].id, type |-> TypeOf(listed[i]),
                         ext |-> listed[i].globl \/ (~listed[i].def /\ mode = "u"),
                         val |-> Word(listed[i].val + segbase(listed[i].seg))]]
    /\ UNCHANGED <<code, program, mode, at, tab, dot, seg, origin, count, cond, span, size, out, errs>>

Next == \/ Label \/ NumericLabel \/ MarkedLabel \/ MarkedAssign \/ Assign \/ SetDot \/ SetOrigin
        \/ doglobl \/ docomm \/ setseg \/ even \/ dobyte \/ doword \/ Bare
        \/ Instruction \/ branchop \/ sobop \/ Jump \/ If \/ EndIf \/ Skip \/ NextPass \/ writeout

Spec == Init /\ [][Next]_vars

---------------------------------------------------------------------------
(* What the object means: ld puts the segments elsewhere and knows the     *)
(* symbols that are not defined here.                                      *)

Moved == [T |-> 1000, D |-> 3000, B |-> 5000, A |-> 0]
Elsewhere(id) == 20000 + 100 * find_sym(tab, id)
AddressOf(id) ==
    LET y == Entry(tab, id)
    IN IF y.def THEN y.val + segbase(y.seg) + Moved[y.seg] + (IF y.seg = "A" THEN 0 ELSE origin)
       ELSE Elsewhere(id)

\* The occurrence a numeric reference in statement st means.
Before(st, n) == Cardinality({i \in 1..(st - 1) : Program[i].op = "num" /\ Program[i].n = n})
IdOf(x, st) == CASE x.k = "f" -> <<"n", x.n, Before(st, x.n) + 1>>
                 [] x.k = "b" -> <<"n", x.n, Before(st, x.n)>>
                 [] OTHER -> <<"s", x.n, 0>>
Meaning(e, st, here) ==
    FoldLeft(LAMBDA sum, x :
        LET v == CASE x.k = "num" -> x.v [] x.k = ".." -> origin [] x.k = "." -> here
                   [] OTHER -> AddressOf(IdOf(x, st))
        IN IF x.sign = "+" THEN sum + v ELSE sum - v, 0, e)

\* Where a word will be, and what ld makes of it.
PlaceOf(o, at0) == at0 + segbase(o.seg) + Moved[o.seg] + origin
Linked(o) == o.w.n - (IF o.pc THEN Moved[o.seg] ELSE 0)
             + (CASE o.rel[1] = "X" -> AddressOf(object[o.rel[2] + 1].id) [] OTHER -> Moved[o.rel[1]])
ExprOf(o) == LET st == Program[o.st] IN IF st.op = "insn" THEN st.ops[o.k].e ELSE st.e
Start(st) == Min({out[i].at : i \in {j \in DOMAIN out : out[j].st = st}})

\* Under -V a name that was not declared is left to the overlay linker.
LeftToLd(e, st) == mode = "V" /\ \E i \in DOMAIN e : e[i].k \in {"sym", "f", "b"}
                                /\ ~Entry(tab, IdOf(e[i], st)).def /\ ~Entry(tab, IdOf(e[i], st)).globl

Emptied == pass = "done" /\ errs = {}

\* Every word of an operand, once the segments are moved and the symbols of
\* the other objects are known, is the address or the value its expression
\* says, for whichever pass sized what lies between.
WordsResolve ==
    Emptied => \A i \in DOMAIN out : LET o == out[i] IN
        (o.k > 0 /\ ~LeftToLd(ExprOf(o), o.st)) =>
            Word(Linked(o) + (IF o.pc THEN PlaceOf(o, o.at) + 2 ELSE 0))
              = Word(Meaning(ExprOf(o), o.st, PlaceOf(o, Start(o.st))))

\* A jump that was made a branch reaches its label.
JumpsArrive ==
    Emptied => \A i \in DOMAIN out : LET o == out[i] IN
        (Program[o.st].op \in {"jbr", "jxx"} \cup DOMAIN Opposite /\ o.k = 0 /\ o.w.name # "jmp") =>
            IF \E j \in DOMAIN out : out[j].st = o.st /\ out[j].k = 1
            THEN o.at + 2 + 2 * o.w.n[2] = o.at + 6
            ELSE (InRange(o.w.n[2]) /\ PlaceOf(o, o.at) + 2 + 2 * o.w.n[2] = Meaning(ExprOf(o), o.st, PlaceOf(o, o.at)))

\* The words after an opcode are as many as the CPU takes with those modes.
Takes(m) == m[1] \in {6, 7} \/ (m[1] \in {2, 3} /\ m[2] = 7)
WordsFollow ==
    Emptied => \A i \in DOMAIN out : LET o == out[i] IN
        (Program[o.st].op = "insn" /\ o.k = 0) =>
            Cardinality({j \in DOMAIN out : out[j].st = o.st /\ out[j].k > 0})
              = Cardinality({k \in DOMAIN o.w.n : Takes(o.w.n[k])})

\* A program whose conditions name only what is defined before them has no
\* jump made a branch that turns out too far.
LooksBack == \A i \in DOMAIN Program : Program[i].op = "if" =>
                \A x \in ToSet(Program[i].e) : x.k = "sym" =>
                    \E j \in 1..(i - 1) : Program[j].op = "assign" /\ Program[j].n = x.n
NoneTooFar == LooksBack => "span branch out of range" \notin errs

\* The object does what the source says, and nothing is complained of in vain.
ObjectMeansSource == NoneTooFar /\ JumpsArrive /\ WordsResolve /\ WordsFollow

\* The pass that emits finds every label where the deciding pass left it:
\* nothing in the program compares them.
LabelsStay == [][pass = "emit" => \A i \in DOMAIN tab : tab[i].def => tab'[i].val = tab[i].val]_vars
===========================================================================
