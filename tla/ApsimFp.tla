------------------------------ MODULE ApsimFp ------------------------------
(***************************************************************************)
(* The FP11 of pdp11-apsim (src/pdp11-apsim/apsim.c), its FIS and the      *)
(* float and long operands in memory, on top of the processor.  A number   *)
(* is 0.1fff * 2^exp: sign, exp and a fraction of D bits whose top bit is  *)
(* set, or all zeros.  Widths are parameters; the code's are 56, 24, 64    *)
(* and an exponent of 8 bits.                                              *)
(***************************************************************************)
EXTENDS ApsimCpu, Sequences

CONSTANTS
    D,      \* bits of fraction in D mode
    F,      \* and in F mode
    G,      \* bits below them in the intermediate of an operation
    EB      \* bits of exponent in memory: EB + D is 4 words, EB + F is 2

Bias == 2^(EB - 1)
fp_zero == [sign |-> 0, exp |-> 0, frac |-> 0]

---------------------------------------------------------------------------
(* Numbers in memory: the bits, without the top one of the fraction.       *)

bits2fpv(bits) ==
    LET e == (bits \div 2^(D - 1)) % 2^EB
    IN IF e = 0 THEN fp_zero
       ELSE [sign |-> bits \div 2^(D + EB - 1), exp |-> e - Bias, frac |-> 2^(D - 1) + (bits % 2^(D - 1))]

Clamped(e) == IF e > 2^EB - 1 THEN 2^EB - 1 ELSE e
fpv2bits(v) ==
    IF v.frac = 0 \/ v.exp + Bias <= 0 THEN 0
    ELSE v.sign * 2^(D + EB - 1) + Clamped(v.exp + Bias) * 2^(D - 1) + (v.frac % 2^(D - 1))

\* The first word holds the highest bits; two words are left-justified.
WordBits == 2 * H
rdfloat(m, a, dbl) ==
    LET w(i) == ld2(m, a + 2 * i) * 2^(WordBits * (3 - i))
    IN bits2fpv(w(0) + w(1) + (IF dbl THEN w(2) + w(3) ELSE 0))
WordOf(bits, i) == (bits \div 2^(WordBits * (3 - i))) % 2^WordBits
wrfloat(m, a, v, dbl) ==
    LET bits == fpv2bits(v)
        two  == st2(st2(m, a, WordOf(bits, 0)), a + 2, WordOf(bits, 1))
    IN IF dbl THEN st2(st2(two, a + 4, WordOf(bits, 2)), a + 6, WordOf(bits, 3)) ELSE two

---------------------------------------------------------------------------
(* Arithmetic.  fps holds the mode bits: d (double), l (long), t (chop).   *)

fpwidth(fps) == IF fps.d THEN D ELSE F
BitLength(v) == CHOOSE k \in 0..(2 * (D + G)) : v < 2^k /\ (k > 0 => v >= 2^(k - 1))
Shift(v, k) == IF k >= 0 THEN v * 2^k ELSE v \div 2^(-k)

\* The intermediate v stands for v * 2^(exp - (D+G)): its top bit is brought
\* to place D+G-1 and it is cut to `bits', one added at the first bit cut off.
RoundUp(fps, v, bits) == IF ~fps.t /\ Shift(v, -(D + G - bits - 1)) % 2 = 1 THEN 1 ELSE 0
fp_norm128NoCarry(fps, sign, exp, v, bits) ==
    LET up   == BitLength(v) - (D + G)
        full == Shift(v, -up)
        frac == Shift(full, -(D + G - bits)) + RoundUp(fps, full, bits)
    IN IF v = 0 THEN fp_zero
       ELSE [sign |-> sign, exp |-> exp + up, frac |-> (frac % 2^bits) * 2^(D - bits)]
fp_norm128(fps, sign, exp, v, bits) ==
    LET up   == BitLength(v) - (D + G)
        full == Shift(v, -up)
        frac == Shift(full, -(D + G - bits)) + RoundUp(fps, full, bits)
    IN IF v = 0 THEN fp_zero
       ELSE IF frac = 2^bits THEN [sign |-> sign, exp |-> exp + up + 1, frac |-> 2^(D - 1)]
       ELSE [sign |-> sign, exp |-> exp + up, frac |-> frac * 2^(D - bits)]

Smaller(a, b) == a.exp < b.exp \/ (a.exp = b.exp /\ a.frac < b.frac)
AddOrdered(fps, a, b) ==
    LET d  == a.exp - b.exp
        mb == IF d > G - 1 THEN 0 ELSE Shift(b.frac * 2^G, -d)
        ma == a.frac * 2^G
    IN fp_norm128(fps, a.sign, a.exp, IF a.sign = b.sign THEN ma + mb ELSE ma - mb, fpwidth(fps))
fp_addv(fps, a, b) ==
    CASE a.frac = 0    -> b
      [] b.frac = 0    -> a
      [] Smaller(a, b) -> AddOrdered(fps, b, a)
      [] OTHER         -> AddOrdered(fps, a, b)
fp_negv(a) == IF a.frac = 0 THEN a ELSE [a EXCEPT !.sign = 1 - @]
fp_mulv(fps, a, b) ==
    IF a.frac = 0 \/ b.frac = 0 THEN fp_zero
    ELSE fp_norm128(fps, (a.sign + b.sign) % 2, a.exp + b.exp, a.frac * b.frac * 2^(G - D), fpwidth(fps))
fp_divv(fps, a, b) ==
    IF a.frac = 0 \/ b.frac = 0 THEN fp_zero
    ELSE fp_norm128(fps, (a.sign + b.sign) % 2, a.exp - b.exp, ((a.frac * 2^G) \div b.frac) * 2^D, fpwidth(fps))

\* The sign of a - b.
fp_cmpv(a, b) ==
    LET way(v) == IF v.sign = 1 THEN -1 ELSE 1
    IN CASE a.frac = 0 /\ b.frac = 0 -> 0
         [] a.frac = 0               -> -way(b)
         [] b.frac = 0 \/ a.sign # b.sign -> way(a)
         [] a = b                    -> 0
         [] OTHER                    -> IF Smaller(a, b) THEN -way(a) ELSE way(a)

fp_fromlong(fps, v) ==
    IF v = 0 THEN fp_zero
    ELSE fp_norm128(fps, Bit(v < 0), D, (IF v < 0 THEN -v ELSE v) * 2^G, fpwidth(fps))

\* Toward zero; far beyond a long the bits are only shifted so far.
fp_tolong(v) ==
    LET up == v.exp - D
        iv == IF v.exp <= 0 THEN 0 ELSE Shift(v.frac, IF up > G - D THEN G - D ELSE up)
    IN IF v.sign = 1 THEN -iv ELSE iv

---------------------------------------------------------------------------
(* Operands.  A float in memory is stepped over whole, and so is a long.   *)

FloatSize(dbl) == IF dbl THEN 8 ELSE 4
Stepped(m, mode, r, size) ==
    IF mode = 2 THEN Located(Bumped(m, r, size), "mem", m.r[r])
    ELSE Located(Bumped(m, r, -size), "mem", Word(m.r[r] - size))
fp_addr(m, mode, r, dbl) ==
    IF mode \in {2, 4} THEN Stepped(m, mode, r, FloatSize(dbl)) ELSE operand(m, mode, r, FALSE)
fpi_addrByWord(fps, m, mode, r) == operand(m, mode, r, FALSE)
fpi_addr(fps, m, mode, r) ==
    IF mode = 4 \/ (mode = 2 /\ r # PC) THEN Stepped(m, mode, r, IF fps.l THEN 4 ELSE 2)
    ELSE operand(m, mode, r, FALSE)

\* The machine with its accumulators: [m, acc, fps, fcc].
fp_get(f, mode, r, dbl) ==
    CASE mode = 0           -> [m |-> f.m, v |-> f.acc[r]]
      [] mode = 2 /\ r = PC -> [m |-> Past(f.m), v |-> bits2fpv(ifetch(f.m, f.m.r[PC]) * 2^(3 * WordBits))]
      [] OTHER              -> LET loc == fp_addr(f.m, mode, r, dbl)
                               IN [m |-> loc.m, v |-> rdfloat(loc.m, loc.at, dbl)]
fp_put(f, mode, r, v, dbl) ==
    IF mode = 0 THEN [f EXCEPT !.acc[r] = v]
    ELSE LET loc == fp_addr(f.m, mode, r, dbl) IN [f EXCEPT !.m = wrfloat(loc.m, loc.at, v, dbl)]
fp_setcc(v) == [n |-> Bit(v.frac # 0 /\ v.sign = 1), z |-> Bit(v.frac = 0), v |-> 0, c |-> 0]

---------------------------------------------------------------------------
(* Instructions.                                                           *)

\* modf: the integer part of the product to ac|1, the rest to ac; the parts
\* are normalised at full width whatever the mode.
ModfParts(fps, p) ==
    LET cut == 2^(D - p.exp)
        part(x) == fp_norm128(fps, p.sign, p.exp, x * 2^G, D)
    IN CASE p.frac = 0 \/ p.exp <= 0 -> [ip |-> fp_zero, fr |-> p]
         [] p.exp >= D               -> [ip |-> p, fr |-> fp_zero]
         [] OTHER -> [ip |-> part(p.frac - (p.frac % cut)), fr |-> part(p.frac % cut)]

Loaded(f, ac, v) == [f EXCEPT !.acc[ac] = v, !.fcc = fp_setcc(v)]
Arith(op, fps, a, s) ==
    CASE op = "mulf" -> fp_mulv(fps, a, s)
      [] op = "addf" -> fp_addv(fps, a, s)
      [] op = "subf" -> fp_addv(fps, a, fp_negv(s))
      [] op = "divf" -> fp_divv(fps, a, s)

\* Instructions with a float source: ldf, movof (the other width), the four
\* operations, cmpf and modf.
SourceFp(f, op, ac, mode, r) ==
    LET src == fp_get(f, mode, r, IF op = "movof" THEN ~f.fps.d ELSE f.fps.d)
        g   == [f EXCEPT !.m = src.m]
        c   == fp_cmpv(src.v, f.acc[ac])
        mod == ModfParts(f.fps, fp_mulv(f.fps, f.acc[ac], src.v))
    IN CASE op \in {"ldf", "movof"} -> Loaded(g, ac, src.v)
         [] op = "cmpf" -> [g EXCEPT !.fcc = [n |-> Bit(c < 0), z |-> Bit(c = 0), v |-> 0, c |-> 0]]
         [] op = "modf" -> Loaded([g EXCEPT !.acc[Mate(ac)] = mod.ip], ac, mod.fr)
         [] op = "tstf" -> [g EXCEPT !.fcc = fp_setcc(src.v)]
         [] OTHER       -> Loaded(g, ac, Arith(op, f.fps, f.acc[ac], src.v))

\* absf and negf resolve their operand twice, once to read and once to write.
RewriteFp(f, op, mode, r) ==
    LET src == fp_get(f, mode, r, f.fps.d)
        v   == CASE op = "absf" -> [src.v EXCEPT !.sign = 0] [] op = "negf" -> fp_negv(src.v) [] op = "clrf" -> fp_zero
        g   == IF op = "clrf" THEN f ELSE [f EXCEPT !.m = src.m]
    IN [fp_put(g, mode, r, v, f.fps.d) EXCEPT !.fcc = fp_setcc(v)]

\* stf, and movfo: the width the mode is not in, rounded if that is F.
StoreFp(f, op, ac, mode, r) ==
    LET a == f.acc[ac]
        v == IF op = "movfo" /\ f.fps.d /\ a.frac # 0 THEN fp_norm128(f.fps, a.sign, a.exp, a.frac * 2^G, F) ELSE a
    IN [fp_put(f, mode, r, v, IF op = "movfo" THEN ~f.fps.d ELSE f.fps.d) EXCEPT !.fcc = fp_setcc(a)]

\* movif (ldcif, ldclf): a register and a literal hold a word in either mode.
LoadInt(f, ac, mode, r) ==
    LET loc == IF mode = 0 THEN Located(f.m, "reg", r) ELSE fpi_addr(f.fps, f.m, mode, r)
        iv  == IF loc.kind = "mem" /\ f.fps.l THEN Signed2(ld2(loc.m, loc.at) * WordMod + ld2(loc.m, loc.at + 2))
               ELSE Short(getv(loc.m, loc, FALSE))
    IN Loaded([f EXCEPT !.m = loc.m], ac, fp_fromlong(f.fps, iv))

\* movfi (stcfi, stcfl).
StoreInt(f, ac, mode, r) ==
    LET loc == IF mode = 0 THEN Located(f.m, "reg", r) ELSE fpi_addr(f.fps, f.m, mode, r)
        iv  == fp_tolong(f.acc[ac])
        put == IF loc.kind = "mem" /\ f.fps.l
               THEN st2(st2(loc.m, loc.at, High(iv)), loc.at + 2, iv)
               ELSE putv(loc.m, loc, iv, FALSE)
    IN [f EXCEPT !.m = put, !.fcc = fp_setcc(f.acc[ac])]

\* movei and movie: the exponent alone.
StoreExp(f, ac, mode, r) ==
    LET loc == operand(f.m, mode, r, FALSE)
    IN [f EXCEPT !.m = putv(loc.m, loc, IF f.acc[ac].frac = 0 THEN 0 ELSE f.acc[ac].exp, FALSE)]
LoadExp(f, ac, mode, r) ==
    LET loc == operand(f.m, mode, r, FALSE)
        n   == Short(getv(loc.m, loc, FALSE))
        v   == IF f.acc[ac].frac = 0 THEN f.acc[ac] ELSE [f.acc[ac] EXCEPT !.exp = n]
    IN [f EXCEPT !.m = loc.m, !.acc[ac] = v,
                 !.fcc = [fp_setcc(v) EXCEPT !.v = Bit(n > Bias - 1 \/ n < 1 - Bias)]]

cfcc(f) == [f EXCEPT !.m.cc = f.fcc]

\* FIS: two F numbers on a stack at r become one, in F mode whatever fps says.
Fis(f, op, r) ==
    LET sp   == f.m.r[r]
        fps  == [f.fps EXCEPT !.d = FALSE]
        res  == Arith(op, fps, rdfloat(f.m, sp + 4, FALSE), rdfloat(f.m, sp, FALSE))
    IN [f EXCEPT !.m = [Bumped(wrfloat(f.m, sp + 4, res, FALSE), r, 4) EXCEPT !.cc = fp_setcc(res)]]

\* One instruction of a program: those that are not of the FP11 or FIS are the
\* processor's.  fsrc instructions name an accumulator, a mode and a register.
SourceOps == {"ldf", "movof", "mulf", "addf", "subf", "divf", "cmpf", "modf", "tstf"}
do_fp(f, i) ==
    LET g == [f EXCEPT !.m = Past(@)]
    IN CASE i.op \in SourceOps -> SourceFp(g, i.op, i.ac, i.mode, i.r)
         [] i.op \in {"absf", "negf", "clrf"} -> RewriteFp(g, i.op, i.mode, i.r)
         [] i.op \in {"stf", "movfo"} -> StoreFp(g, i.op, i.ac, i.mode, i.r)
         [] i.op = "movif" -> LoadInt(g, i.ac, i.mode, i.r)
         [] i.op = "movfi" -> StoreInt(g, i.ac, i.mode, i.r)
         [] i.op = "movei" -> StoreExp(g, i.ac, i.mode, i.r)
         [] i.op = "movie" -> LoadExp(g, i.ac, i.mode, i.r)
         [] i.op = "cfcc"  -> cfcc(g)
         [] i.op = "setf" -> [g EXCEPT !.fps.d = FALSE]
         [] i.op = "setd" -> [g EXCEPT !.fps.d = TRUE]
         [] i.op = "seti" -> [g EXCEPT !.fps.l = FALSE]
         [] i.op = "setl" -> [g EXCEPT !.fps.l = TRUE]
         [] i.op \in {"fadd", "fsub", "fmul", "fdiv"} ->
              Fis(g, [fadd |-> "addf", fsub |-> "subf", fmul |-> "mulf", fdiv |-> "divf"][i.op], i.r)
         [] OTHER -> [f EXCEPT !.m = step(@, i)]

============================================================================
