-------------------------------- MODULE Das --------------------------------
(***************************************************************************)
(* The disassembler pdp11-das -a on a relocatable object: which words are  *)
(* instructions, how each word is spelt, and the numeric labels it invents *)
(* (src/pdp11-das/das.c).  An object is [t, d: words [w, rel, pc], b: bytes *)
(* of bss, syms: [name, type, ext, val]] with every address counted from   *)
(* the start of the text; its source is a program as As takes it.          *)
(***************************************************************************)
EXTENDS Integers, Sequences, SequencesExt, FiniteSetsExt

CONSTANTS
    Digits,         \* the digits numeric labels are made of, in order: 0 to 9
    sysinline(_)    \* words that follow a system call in line

Word(v) == v % 65536
Signed(v, bits) == IF v < 2^(bits - 1) THEN v ELSE v - 2^bits
Bits(v, low, n) == (v \div 2^low) % 2^n

---------------------------------------------------------------------------
(* The object.                                                             *)

Tsize(o) == 2 * Len(o.t)
Dsize(o) == 2 * Len(o.d)
End(o) == [T |-> Tsize(o), D |-> Tsize(o) + Dsize(o), B |-> Tsize(o) + Dsize(o) + o.b]
First(o) == [T |-> 0, D |-> Tsize(o), B |-> Tsize(o) + Dsize(o)]
Cell(o, a) == IF a < Tsize(o) THEN o.t[a \div 2 + 1]
              ELSE IF a < End(o).D THEN o.d[(a - Tsize(o)) \div 2 + 1]
              ELSE [w |-> 0, rel |-> <<"A", 0>>, pc |-> FALSE]
Relocated(c) == c.rel[1] # "A"
segof(o, a) == CASE a < Tsize(o) -> "T" [] a >= Tsize(o) /\ a < End(o).D -> "D"
                 [] a >= End(o).D /\ a < End(o).B -> "B" [] OTHER -> "none"

\* The symbols of a segment that stand where P says.
In(o, seg, P(_)) == {i \in DOMAIN o.syms : o.syms[i].type = seg /\ P(o.syms[i].val)}
haslabel(o, a, seg) == In(o, seg, LAMBDA v : v = a) # {}

\* Of those, the external one is preferred; 0 if there is none.
Preferred(o, S) == LET E == {i \in S : o.syms[i].ext}
                   IN IF S = {} THEN 0 ELSE IF E # {} THEN Min(E) ELSE Min(S)
labelatAny(o, a, seg) == Preferred(o, {i \in DOMAIN o.syms : o.syms[i].type \in {"T", "D", "B"} /\ o.syms[i].val = a})
labelat(o, a, seg) == Preferred(o, In(o, seg, LAMBDA v : v = a))
nearestlabel(o, a, seg) ==
    LET below == In(o, seg, LAMBDA v : v <= a)
    IN Preferred(o, {i \in below : \A j \in below : o.syms[j].val <= o.syms[i].val})
nearestabove(o, a, seg) ==
    LET above == In(o, seg, LAMBDA v : v >= a)
    IN IF above = {} THEN 0 ELSE Min({i \in above : \A j \in above : o.syms[j].val >= o.syms[i].val})

---------------------------------------------------------------------------
(* Numeric labels.  The scan notes each place that needs one and from      *)
(* where; color_aux gives digits that no other span between them uses, and *)
(* a place that gets none leans on a lower one.                            *)

\* refs: the <<target, from>> noted.
Spots(refs) == [a \in {r[1] : r \in refs} |->
                  LET from == {a} \cup {r[2] : r \in {q \in refs : q[1] = a}}
                  IN [lo |-> Min(from), hi |-> Max(from), base |-> -1, digit |-> 0]]
Ascending(S) == SetToSortSeq(S, <)
Overlap(p, q) == p.hi >= q.lo /\ p.lo <= q.hi
Coloured(s) ==
    FoldLeft(LAMBDA t, a :
        LET used == {t[j].digit : j \in {k \in DOMAIN t : k < a /\ t[k].base < 0 /\ Overlap(t[k], t[a])}}
            free == {d \in DOMAIN Digits : d \notin used}
        IN IF t[a].base >= 0 THEN t ELSE [t EXCEPT ![a].digit = IF free = {} THEN 0 ELSE Min(free)],
        s, Ascending(DOMAIN s))
aux_root(s, a) == IF s[a].base < 0 THEN a ELSE LET b == s[a].base IN IF s[b].base < 0 THEN b ELSE s[b].base
Merged(o, s) ==
    FoldLeft(LAMBDA t, a :
        LET fit == {r \in DOMAIN t : r < a /\ a - aux_root(t, r) <= 8192 /\ segof(o, aux_root(t, r)) = segof(o, a)}
            root == aux_root(t, Max(fit))
        IN IF t[a].base >= 0 \/ t[a].digit > 0 \/ fit = {} THEN t
           ELSE [t EXCEPT ![a].base = root, ![root].lo = Min({@, t[a].lo}), ![root].hi = Max({@, t[a].hi})],
        s, Ascending(DOMAIN s))
color_aux(o, refs) ==
    LET round[n \in 0..Cardinality({r[1] : r \in refs})] ==
            IF n = 0 THEN Spots(refs) ELSE LET s == round[n - 1] IN Merged(o, Coloured(s))
    IN Coloured(round[Cardinality({r[1] : r \in refs})])

---------------------------------------------------------------------------
(* Spelling a word.  A spelling is [e: the expression, refs: what it       *)
(* noted]; no expression means there is none.                              *)

Num(n) == [k |-> "num", v |-> n, sign |-> "+"]
Sym(n) == [k |-> "sym", n |-> n, sign |-> "+"]
Spelt(e) == [e |-> e, refs |-> {}]
Unspelt == Spelt(<<>>)
Plus(term, n) == IF n = 0 THEN <<term>> ELSE <<term, Num(n)>>
OfSymbol(o, i, a) == Spelt(Plus(Sym(o.syms[i].name), Word(a - o.syms[i].val)))
Number(n) == Spelt(<<Num(n)>>)

\* The label invented for a place, or for the even place below it.
orsynth(o, aux, a, from) ==
    LET targ == a - (a % 2)
        root == aux_root(aux, targ)
        way == IF root > from THEN "f" ELSE "b"
        name == IF aux = <<>> THEN Sym("scan") ELSE [k |-> way, n |-> Digits[aux[root].digit], sign |-> "+"]
    IN IF segof(o, a) = "none" THEN Unspelt
       ELSE [e |-> Plus(name, IF aux = <<>> THEN a - targ ELSE a - root), refs |-> {<<targ, from>>}]

\* Outside of the segment its relocation names: from its end, or its start, or
\* from the place that differs in the flag bits of a handler.
Outside(o, aux, v, seg, from) ==
    LET st == First(o)[seg]
        en == End(o)[seg]
        flagged == {f \in {16384, 32768, 49152} : LET cg == Word(v - f) IN st <= cg /\ cg < en - 1 /\ cg % 2 = 0}
        anchor == IF flagged # {} THEN Word(v - Min(flagged)) ELSE IF v >= en THEN en - 2 ELSE st
        s == orsynth(o, aux, anchor, from)
    IN IF en - 2 >= st /\ (v >= en \/ v < st) /\ s.e # <<>>
       THEN [s EXCEPT !.e = @ \o <<Num(Word(v - anchor))>>] ELSE Unspelt

symword(o, aux, c, from) ==
    LET seg == c.rel[1]
        low == nearestlabel(o, c.w, seg)
        high == nearestabove(o, c.w, seg)
        synth == orsynth(o, aux, c.w, from)
    IN CASE seg = "X" -> Spelt(Plus(Sym(o.syms[c.rel[2]].name), c.w))
         [] seg = "A" -> Unspelt
         [] OTHER -> IF low # 0 THEN OfSymbol(o, low, c.w)
                     ELSE IF (seg # "T" \/ segof(o, c.w) # seg) /\ high # 0 THEN OfSymbol(o, high, c.w)
                     ELSE IF segof(o, c.w) = seg /\ synth.e # <<>> THEN synth
                     ELSE IF high # 0 THEN OfSymbol(o, high, c.w)
                     ELSE Outside(o, aux, c.w, seg, from)
RawWord(o, aux, a) ==
    LET s == symword(o, aux, Cell(o, a), a)
    IN IF s.e # <<>> THEN s ELSE Number(Cell(o, a).w)

\* A place the program counter is added to: the label of the segment the
\* relocation names, else one below it, else an invented one.
Place(o, aux, c, targ, from) ==
    LET seg == c.rel[1]
        segs == IF seg = "A" THEN <<"T", "D", "B">> ELSE <<seg>>
        exact == {i \in DOMAIN segs : labelat(o, targ, segs[i]) # 0}
        low == nearestlabel(o, targ, seg)
        synth == orsynth(o, aux, targ, from)
    IN IF seg = "A" /\ c.pc THEN Number(targ)
       ELSE IF exact # {} THEN OfSymbol(o, labelat(o, targ, segs[Min(exact)]), targ)
       ELSE IF low # 0 THEN OfSymbol(o, low, targ)
       ELSE IF synth.e # <<>> THEN synth ELSE Number(targ)

\* What follows the program counter itself, $n or *$n: a relocated one by name.
Immediate(o, aux, c, from) ==
    LET s == symword(o, aux, c, from) IN IF Relocated(c) /\ s.e # <<>> THEN s ELSE Number(c.w)

\* fmtop: the operand of a mode and a register, its word at a; `target' is the
\* place it is known to mean, -1 if none, and `raw' that it cannot be spelt.
fmtop(o, aux, spec, a, from) ==
    LET mode == spec \div 8
        r == spec % 8
        c == Cell(o, a)
        targ == Word(a + 2 + c.w)
        defer == mode % 2 = 1
        plain == CASE mode = 0 -> "reg" [] mode = 1 -> "at" [] mode \in {2, 3} -> "inc" [] OTHER -> "dec"
        external == Spelt(Plus(Sym(o.syms[c.rel[2]].name), Word(c.w + a + 2)))
        s == IF mode \in {2, 3} \/ r # 7 THEN Immediate(o, aux, c, from)
             ELSE IF ~c.pc THEN Unspelt
             ELSE IF c.rel[1] = "X" THEN external ELSE Place(o, aux, c, targ, from)
        has == mode \in {6, 7} \/ (mode \in {2, 3} /\ r = 7)
        form == IF ~has THEN plain ELSE IF mode \in {2, 3} THEN "imm" ELSE IF r = 7 THEN "rel" ELSE "idx"
    IN [op |-> [form |-> form, defer |-> IF mode = 1 THEN FALSE ELSE defer, r |-> r, e |-> IF has THEN s.e ELSE <<>>],
        len |-> IF has THEN 2 ELSE 0,
        refs |-> IF has THEN s.refs ELSE {},
        raw |-> form = "rel" /\ ~c.pc,
        target |-> IF c.rel[1] = "X" \/ (form = "rel" /\ ~c.pc) THEN -1
                   ELSE IF mode = 3 /\ r = 7 THEN c.w ELSE IF mode = 6 /\ r = 7 THEN targ ELSE -1]

---------------------------------------------------------------------------
(* Decoding.  An instruction is [st: its statement, len, flow, target,     *)
(* inline: words in line after a system call, raw, refs].                  *)

Double == <<"mov", "cmp", "bit", "bic", "bis", "add", "", "", "movb", "cmpb", "bitb", "bicb", "bisb", "sub">>
Single == <<"clr", "com", "inc", "dec", "neg", "adc", "sbc", "tst", "ror", "rol", "asr", "asl">>
SingleByte == <<"clrb", "comb", "incb", "decb", "negb", "adcb", "sbcb", "tstb", "rorb", "rolb", "asrb", "aslb">>
Branch == <<"br", "bne", "beq", "bge", "blt", "bgt", "ble">>
BranchHigh == <<"bpl", "bmi", "bhi", "blos", "bvc", "bvs", "bcc", "bcs">>
Eis == <<"mul", "div", "ash", "ashc">>

Plain(st, len) == [st |-> st, len |-> len, flow |-> "next", target |-> -1, inline |-> 0, raw |-> FALSE, refs |-> {}]
Bare(w) == Plain([op |-> "bare", w |-> [name |-> "bare", n |-> w]], 2)
Reg(r) == [form |-> "reg", defer |-> FALSE, r |-> r, e |-> <<>>]
Operands(name, ops, fs) ==
    [Plain([op |-> "insn", name |-> name, ops |-> ops], 2) EXCEPT
        !.len = 2 + FoldLeft(LAMBDA n, f : n + f.len, 0, fs),
        !.raw = \E i \in DOMAIN fs : fs[i].raw,
        !.refs = UNION {fs[i].refs : i \in DOMAIN fs}]

\* A branch names the label of its segment that it goes to, or how far it is;
\* the one around an absolute jump is spelt as the assembler made it.
Jumping(o, name, r, a, targ, around) ==
    LET seg == IF segof(o, a) = "D" THEN "D" ELSE "T"
        l == labelat(o, targ, seg)
        away == <<[k |-> ".", sign |-> "+"], [k |-> "num", v |-> IF targ >= a THEN targ - a ELSE a - targ,
                                               sign |-> IF targ >= a THEN "+" ELSE "-"]>>
    IN [Plain([op |-> name, r |-> r, e |-> IF l # 0 /\ ~around THEN <<Sym(o.syms[l].name)>> ELSE away], 2)
        EXCEPT !.flow = IF name = "br" THEN "jump" ELSE "cond", !.target = targ]

Dst(o, aux, a, w) == fmtop(o, aux, w % 64, a + 2, a)

\* halt, rti and rtt end a flow; wait, bpt, iot and reset do not.
NoOperand(w) == IF w \in {0, 2, 6} THEN [Bare(w) EXCEPT !.flow = "stop"] ELSE Bare(w)
rts(w) == [Bare(w) EXCEPT !.flow = "stop"]
To(i, flow, targ) == [i EXCEPT !.flow = flow, !.target = targ]
jmp(dst) == To(Operands("jmp", <<dst.op>>, <<dst>>), IF dst.target >= 0 THEN "jump" ELSE "stop", dst.target)
swab(dst) == Operands("swab", <<dst.op>>, <<dst>>)
jsr(dst, r) == To(Operands("jsr", <<Reg(r), dst.op>>, <<dst>>), "call", dst.target)

\* br to bcs, and the branch that `as' made of a jump out of reach.
IsBranch(w) == Bits(w, 11, 4) = 0 /\ Bits(w, 8, 3) + Bits(w, 15, 1) > 0
Conditional(o, a, w, idx) ==
    Jumping(o, IF idx < 8 THEN Branch[idx] ELSE BranchHigh[idx - 7], 0, a, Word(a + 2 + 2 * Signed(w % 256, 8)),
            w % 256 = 2 /\ Cell(o, a + 2).w = 95)

\* A call with bit 0200 has its arguments on the stack; exit does not return.
sys(w) == [Bare(w) EXCEPT !.inline = IF w % 256 >= 128 THEN 0 ELSE sysinline(w % 64),
                          !.flow = IF w % 256 = 1 THEN "stop" ELSE "next"]

DoubleOperand(name, src, dst) == Operands(name, <<src.op, dst.op>>, <<src, dst>>)
DoubleAt(o, aux, a, w, src) == DoubleOperand(Double[Bits(w, 12, 4)], src, fmtop(o, aux, w % 64, a + 2 + src.len, a))

\* The EIS, xor and sob: a register and an operand.
Numbered(w) == [op |-> "word", e |-> <<Num(w)>>]
WithRegister(o, aux, a, w, r) ==
    CASE Bits(w, 9, 3) < 4 -> Operands(Eis[Bits(w, 9, 3) + 1], <<Dst(o, aux, a, w).op, Reg(r)>>, <<Dst(o, aux, a, w)>>)
      [] Bits(w, 9, 3) = 4 -> Operands("xor", <<Reg(r), Dst(o, aux, a, w).op>>, <<Dst(o, aux, a, w)>>)
      [] Bits(w, 9, 3) = 7 -> Jumping(o, "sob", r, a, Word(a + 2 - 2 * (w % 64)), FALSE)
      [] OTHER -> Plain(Numbered(w), 2)
\* clr to asl and their byte forms, mark and sxt; those as has no name for are words.
SingleOperand(o, aux, a, w, g, byte) ==
    CASE g \in 0..11 -> Operands(IF byte THEN SingleByte[g + 1] ELSE Single[g + 1], <<Dst(o, aux, a, w).op>>, <<Dst(o, aux, a, w)>>)
      [] g = 12 /\ ~byte -> Bare(w)
      [] g = 15 /\ ~byte -> Operands("sxt", <<Dst(o, aux, a, w).op>>, <<Dst(o, aux, a, w)>>)
      [] OTHER -> Plain(Numbered(w), 2)

Decoded(o, aux, a, w) ==
    CASE w <= 6 -> NoOperand(w)
      [] w \div 8 = 16 -> rts(w)
      [] w \div 64 = 1 -> jmp(Dst(o, aux, a, w))
      [] w \div 64 = 3 -> swab(Dst(o, aux, a, w))
      [] w \div 512 = 4 -> jsr(Dst(o, aux, a, w), Bits(w, 6, 3))
      [] 160 <= w /\ w < 192 -> Bare(w)
      [] IsBranch(w) -> Conditional(o, a, w, Bits(w, 8, 3) + 8 * Bits(w, 15, 1))
      [] w \div 256 = 137 -> sys(w)
      [] w \div 256 = 136 -> Bare(w)
      [] Bits(w, 12, 4) \in DOMAIN Double \ {7, 8} -> DoubleAt(o, aux, a, w, fmtop(o, aux, Bits(w, 6, 6), a + 2, a))
      [] Bits(w, 12, 4) = 7 -> WithRegister(o, aux, a, w, Bits(w, 6, 3))
      [] Bits(w, 11, 4) = 1 /\ Bits(w, 9, 3) \in {5, 6} -> SingleOperand(o, aux, a, w, Bits(w, 6, 6) - 40, Bits(w, 15, 1) = 1)
      [] OTHER -> Plain(Numbered(w), 2)
decode(o, aux, a) == Decoded(o, aux, a, Cell(o, a).w)

---------------------------------------------------------------------------
(* Which words are instructions.                                           *)

\* The words after one that are in its way: what is branched to, and what is
\* known to begin an instruction.
Rest(i, a) == {a + 2 * k : k \in 1..(i.len \div 2 - 1)}

\* markcode: the walk from every text symbol and every text pointer.  mark: the
\* places of instructions ("start") and of what is not one ("seen").
Seeds(o) ==
    LET syms == {o.syms[i].val : i \in {j \in DOMAIN o.syms : o.syms[j].type = "T"}}
        ptrs == {Cell(o, 2 * k).w : k \in {j \in 0..((Tsize(o) + Dsize(o)) \div 2 - 1) :
                                              Cell(o, 2 * j).rel[1] = "T" /\ ~Cell(o, 2 * j).pc}}
        all == {v \in syms \cup ptrs : v < Tsize(o)}
    IN [queue |-> Ascending({v \in all : v % 2 = 0}) \o (IF syms = {} THEN <<0>> ELSE <<>>),
        barriers |-> {v - (v % 2) : v \in all}]

\* The words a system call has in line, but for those that belong to the
\* instruction whose operand, relative to the program counter, is near.
RECURSIVE InLine(_, _, _)
InLine(o, a, n) ==
    LET near == {p \in {a + 2, a + 4} : p < Tsize(o) /\ Cell(o, p).pc}
    IN IF n = 0 \/ a >= Tsize(o) \/ Cell(o, a).pc \/ (near # {} /\ a >= Min(near) - 4) THEN a
       ELSE InLine(o, a + 2, n - 1)

Begin(o) == [q |-> Seeds(o).queue, pc |-> -1, mark |-> [a \in {} |-> "seen"], targ |-> Seeds(o).barriers]
See(m, S, how) == [a \in DOMAIN m \cup S |-> IF a \in S THEN how ELSE m[a]]
Walk(o, s) ==
    LET i == decode(o, <<>>, s.pc)
        after == s.pc + i.len
        called == i.target >= 0 /\ i.target < Tsize(o)
        args == InLine(o, after, i.inline)
        inText == {a \in Rest(i, s.pc) : a < Tsize(o)}
    IN IF s.pc < 0 \/ s.pc >= Tsize(o) \/ s.pc \in DOMAIN s.mark
       THEN IF s.q = <<>> THEN s ELSE [s EXCEPT !.pc = Head(s.q), !.q = Tail(s.q)]
       ELSE IF Relocated(Cell(o, s.pc)) THEN [s EXCEPT !.mark = See(@, {s.pc}, "seen"), !.pc = @ + 2]
       ELSE IF \E a \in inText : a \in s.targ \/ (a \in DOMAIN s.mark /\ s.mark[a] = "start")
       THEN [s EXCEPT !.mark = See(@, {s.pc}, "seen"), !.pc = @ + 2]
       ELSE LET m == See(See(s.mark, {s.pc}, "start"), inText, "seen")
            IN IF i.inline > 0
               THEN [s EXCEPT !.mark = See(m, {after + 2 * k : k \in 0..((args - after) \div 2 - 1)}, "seen"), !.pc = args]
               ELSE [s EXCEPT !.mark = m,
                              !.targ = IF called THEN @ \cup {i.target} ELSE @,
                              !.q = IF called THEN Append(@, i.target) ELSE @,
                              !.pc = IF i.flow \in {"jump", "stop"} THEN -1 ELSE after]

\* gap_is_code: do instructions tile [g0, g1), with every word relative to the
\* program counter an operand, and every jump to the start of one?
Tiling(o, g0, g1) ==
    LET tile[n \in 0..((g1 - g0) \div 2)] ==
            IF n = 0 THEN [pc |-> g0, ok |-> TRUE, starts |-> {}]
            ELSE LET t == tile[n - 1]
                     c == Cell(o, t.pc)
                     i == decode(o, <<>>, t.pc)
                 IN IF ~t.ok \/ t.pc >= g1 THEN t
                    ELSE IF Relocated(c) THEN [t EXCEPT !.ok = ~c.pc, !.pc = @ + 2]
                    ELSE [t EXCEPT !.ok = t.pc + i.len <= g1, !.pc = @ + i.len, !.starts = @ \cup {t.pc}]
    IN tile[(g1 - g0) \div 2]
gap_is_code(o, g0, g1) ==
    LET t == Tiling(o, g0, g1)
        sawpc == \E a \in t.starts : \E b \in Rest(decode(o, <<>>, a), a) : Cell(o, b).pc
    IN /\ t.ok /\ t.pc = g1 /\ sawpc
       /\ \A a \in t.starts :
            LET i == decode(o, <<>>, a)
            IN (i.flow \in {"cond", "jump", "call"} /\ i.target >= 0) =>
                  IF i.target >= g0 /\ i.target < g1 THEN i.target \in t.starts ELSE i.target < Tsize(o)

\* A gap that is not code as a whole may be from its first such operand on.
Recovered(o, mark) ==
    FoldLeft(LAMBDA m, g :
        LET g1 == Min({a \in {2 * k : k \in 0..Len(o.t)} : a > g /\ (a = Tsize(o) \/ a \in DOMAIN m)})
            pcs == {a \in {2 * k : k \in (g \div 2)..(g1 \div 2 - 1)} : Cell(o, a).pc}
            from == SelectSeq(<<g, Min(pcs) - 4, Min(pcs) - 2>>, LAMBDA s : s >= g /\ gap_is_code(o, s, g1))
            tries == IF pcs = {} THEN IF gap_is_code(o, g, g1) THEN <<g>> ELSE <<>> ELSE from
            t == Tiling(o, tries[1], g1)
        IN IF g \in DOMAIN m \/ (g > 0 /\ g - 2 \notin DOMAIN mark) \/ tries = <<>> THEN m
           ELSE See(See(m, {a \in {2 * k : k \in (tries[1] \div 2)..(g1 \div 2 - 1)} : TRUE}, "seen"), t.starts, "start"),
        mark, [k \in 1..Len(o.t) |-> 2 * (k - 1)])

\* An object without a relocation in its text has code there only if all of it
\* tiles and something in it goes to a label.
Tables(o) ==
    LET t == Tiling(o, 0, Tsize(o))
    IN /\ \A k \in DOMAIN o.t : ~Relocated(o.t[k]) /\ ~o.t[k].pc
       /\ ~(t.pc = Tsize(o) /\ t.ok /\ \E a \in t.starts : LET i == decode(o, <<>>, a)
                                              IN i.target >= 0 /\ haslabel(o, i.target, "T"))
markcode(o) ==
    LET fuel == 4 * Len(o.t) + 2 * Len(Seeds(o).queue) + 2 * Len(o.t)
        walk[n \in 0..fuel] == IF n = 0 THEN Begin(o) ELSE LET s == walk[n - 1] IN Walk(o, s)
    IN IF Tables(o) THEN [a \in {} |-> "seen"] ELSE Recovered(o, walk[fuel].mark)

---------------------------------------------------------------------------
(* The source.                                                             *)

Instruction(o, mark, a) == a \in DOMAIN mark /\ mark[a] = "start" /\ ~Relocated(Cell(o, a))

\* disasm_text at a: an instruction, its words when it cannot be spelt, or the
\* word; never past the end of the text.
Line(o, mark, aux, a) ==
    LET i == decode(o, aux, a)
        word(k) == RawWord(o, aux, a + 2 * (k - 1))
        n == IF Instruction(o, mark, a) /\ a + i.len <= Tsize(o) THEN i.len \div 2 ELSE 1
    IN IF Instruction(o, mark, a) /\ n = i.len \div 2 /\ ~i.raw
       THEN [sts |-> <<i.st>>, len |-> i.len, refs |-> i.refs]
       ELSE [sts |-> [k \in 1..n |-> [op |-> "word", e |-> word(k).e]], len |-> 2 * n,
             refs |-> UNION {word(k).refs : k \in 1..n}]

labels(o, aux, a, seg) ==
    LET here == SelectSeq([i \in DOMAIN o.syms |-> i], LAMBDA i : o.syms[i].type = seg /\ o.syms[i].val = a)
    IN [k \in DOMAIN here |-> [op |-> "label", n |-> o.syms[here[k]].name]]
       \o (IF aux # <<>> /\ a \in DOMAIN aux /\ segof(o, a) = seg /\ aux[a].base < 0
           THEN <<[op |-> "num", n |-> Digits[aux[a].digit]]>> ELSE <<>>)

\* The lines of the text, and what they note.
disasm_text(o, mark, aux) ==
    LET lines[n \in 0..Len(o.t)] ==
            IF n = 0 THEN [sts |-> <<>>, a |-> 0, refs |-> {}]
            ELSE LET s == lines[n - 1]
                     l == Line(o, mark, aux, s.a)
                 IN IF s.a >= Tsize(o) THEN s
                    ELSE [sts |-> s.sts \o labels(o, aux, s.a, "T") \o l.sts, a |-> s.a + l.len, refs |-> s.refs \cup l.refs]
        all == lines[Len(o.t)]
    IN [all EXCEPT !.sts = @ \o labels(o, aux, Tsize(o), "T")]
disasm_data(o, aux) ==
    LET at(k) == Tsize(o) + 2 * (k - 1)
        word(k) == RawWord(o, aux, at(k))
    IN [sts |-> FlattenSeq([k \in DOMAIN o.d |-> labels(o, aux, at(k), "D") \o <<[op |-> "word", e |-> word(k).e]>>])
                \o labels(o, aux, End(o).D, "D"),
        refs |-> UNION {word(k).refs : k \in DOMAIN o.d}]
dump_bss(o, aux) ==
    LET marks == {o.syms[i].val : i \in {j \in DOMAIN o.syms : o.syms[j].type = "B"}}
                 \cup {a \in DOMAIN aux : segof(o, a) = "B" /\ aux[a].base < 0}
        cuts == Ascending({a \in marks : First(o).B < a /\ a < End(o).B} \cup {First(o).B, End(o).B})
    IN FlattenSeq([k \in 1..(Len(cuts) - 1) |-> labels(o, aux, cuts[k], "B")
           \o <<[op |-> ".", e |-> <<[k |-> ".", sign |-> "+"], Num(cuts[k + 1] - cuts[k])>>]>>])
       \o labels(o, aux, End(o).B, "B")

\* needs_decl, emit_decl: commons, what the source does not reference, externals
\* that are defined, and absolute locals.
emit_decl(o, referenced) ==
    FlattenSeq([i \in DOMAIN o.syms |->
        LET y == o.syms[i]
        IN CASE y.type = "U" /\ y.val > 0 -> <<[op |-> "comm", n |-> y.name, size |-> y.val]>>
             [] y.type = "U" /\ y.val = 0 -> IF y.ext /\ i \in referenced THEN <<>> ELSE <<[op |-> "globl", n |-> y.name]>>
             [] y.type = "A" /\ ~y.ext -> <<[op |-> "~=", n |-> y.name, v |-> y.val]>>
             [] y.type = "A" /\ y.ext -> <<[op |-> "globl", n |-> y.name], [op |-> "assign", n |-> y.name, e |-> <<Num(y.val)>>]>>
             [] y.ext -> <<[op |-> "globl", n |-> y.name]>>
             [] OTHER -> <<>>])

\* do_object: the scan, the digits, and the source.
do_object(o) ==
    LET mark == markcode(o)
        refs == disasm_text(o, mark, <<>>).refs \cup disasm_data(o, <<>>).refs
        aux == IF refs = {} THEN [a \in {-1} |-> [base |-> 0, digit |-> 0]] ELSE color_aux(o, refs)
        referenced == {c.rel[2] : c \in {d \in ToSet(o.t) \cup ToSet(o.d) : d.rel[1] = "X"}}
    IN emit_decl(o, referenced) \o disasm_text(o, mark, aux).sts
       \o <<[op |-> "seg", n |-> "D"]>> \o disasm_data(o, aux).sts
       \o <<[op |-> "seg", n |-> "B"]>> \o dump_bss(o, aux)

---------------------------------------------------------------------------
(* What the assembler makes of that source.                                *)

\* The number an instruction is.
Position(name, table) == {i \in DOMAIN table : table[i] = name}
SpecOf(m) == 8 * m[1] + m[2]
Disp(w) == w.n[2]
Encoded(w) ==
    LET one == SpecOf(w.n[1])
        two == SpecOf(w.n[2])
        at(table) == Min(Position(w.name, table))
    IN CASE w.name \in {"word", "bare"} -> w.n
         [] w.name = "jmp" -> 64 + one
         [] w.name = "swab" -> 192 + one
         [] w.name = "sxt" -> 3520 + one
         [] w.name = "jsr" -> 2048 + 64 * w.n[1][2] + two
         [] w.name = "xor" -> 30720 + 64 * w.n[1][2] + two
         [] w.name = "sob" -> 32256 + 64 * w.n[1] - Disp(w)
         [] w.name \in ToSet(Branch) -> 256 * at(Branch) + (Disp(w) % 256)
         [] w.name \in ToSet(BranchHigh) -> 32768 + 256 * (at(BranchHigh) - 1) + (Disp(w) % 256)
         [] w.name \in ToSet(Double) -> 4096 * at(Double) + 64 * one + two
         [] w.name \in ToSet(Eis) -> 28672 + 512 * (at(Eis) - 1) + 64 * w.n[2][2] + one
         [] w.name \in ToSet(Single) -> 2560 + 64 * (at(Single) - 1) + one
         [] OTHER -> 32768 + 2560 + 64 * (at(SingleByte) - 1) + one

\* The word of the object that the assembler's word stands for.
SameWord(o, c, x, table) ==
    /\ Encoded(x.w) = c.w /\ x.pc = c.pc /\ x.rel[1] = c.rel[1]
    /\ x.rel[1] = "X" => table[x.rel[2] + 1].id[2] = o.syms[c.rel[2]].name
Listed(o) == {[name |-> IF o.syms[i].type = "A" /\ ~o.syms[i].ext THEN "" ELSE o.syms[i].name,
               type |-> o.syms[i].type, ext |-> o.syms[i].ext, val |-> o.syms[i].val] : i \in DOMAIN o.syms}
Assembled(table) == {[name |-> table[i].id[2], type |-> table[i].type, ext |-> table[i].ext, val |-> table[i].val] : i \in DOMAIN table}
SameObject(o, out, table, size, errs) ==
    /\ errs = {} /\ size.T = Tsize(o) /\ size.D = Dsize(o)
    /\ Len(out) = Len(o.t) + Len(o.d)
    /\ \A k \in DOMAIN o.t : \E i \in DOMAIN out :
         out[i].seg = "T" /\ out[i].at = 2 * (k - 1) /\ SameWord(o, o.t[k], out[i], table)
    /\ \A k \in DOMAIN o.d : \E i \in DOMAIN out :
         out[i].seg = "D" /\ out[i].at = 2 * (k - 1) /\ SameWord(o, o.d[k], out[i], table)
    /\ Assembled(table) = Listed(o)
=============================================================================
