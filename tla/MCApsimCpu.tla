---------------------------- MODULE MCApsimCpu ----------------------------
(***************************************************************************)
(* Short programs run on the processor, the FP11 and the commercial set,   *)
(* from machines and operands chosen at the start: the idioms of the       *)
(* compilers and the libraries for longs, comparisons and the stack, one   *)
(* operation on every kind of number, one on every kind of string.         *)
(***************************************************************************)
EXTENDS ApsimFp, FiniteSets

CONSTANT Base                 \* digits of a decimal string
C == INSTANCE ApsimCis

VARIABLES
    unit,                     \* "long", "compare", "stack", "ke11", "float", "decimal", "string"
    in,                       \* what was chosen: a record that differs by unit
    f,                        \* the machine with its accumulators
    at                        \* instructions done
vars == <<unit, in, f, at>>

---------------------------------------------------------------------------
(* Programs.                                                               *)

Dst(op, d) == [op |-> op, byte |-> FALSE, dm |-> 0, d |-> d]
Two(op, byte, sm, s, dm, d) == [op |-> op, byte |-> byte, sm |-> sm, s |-> s, dm |-> dm, d |-> d]
RR(op, s, d) == Two(op, FALSE, 0, s, 0, d)
Fop(op, mode, r) == [op |-> op, ac |-> 0, mode |-> mode, r |-> r]

\* R0:R1 is the first long, R2:R3 the second.
LongPrograms == [
    add  |-> <<RR("ADD", 3, 1), Dst("ADC", 0), RR("ADD", 2, 0)>>,
    sub  |-> <<RR("SUB", 3, 1), Dst("SBC", 0), RR("SUB", 2, 0)>>,
    neg  |-> <<Dst("NEG", 0), Dst("NEG", 1), Dst("SBC", 0)>>,
    asl  |-> <<Dst("ASL", 1), Dst("ROL", 0)>>,
    asr  |-> <<Dst("ASR", 0), Dst("ROR", 1)>>,
    ext  |-> <<Dst("TST", 1), Dst("SXT", 0)>>,
    ashc |-> <<RR("ASHC", 3, 0)>>,
    ash  |-> <<RR("ASH", 3, 0)>>,
    mul  |-> <<RR("MUL", 3, 0)>>,
    div  |-> <<RR("DIV", 3, 0)>>]

ComparePrograms == [
    cmp  |-> <<RR("CMP", 1, 3)>>, cmpb |-> <<Two("CMP", TRUE, 0, 1, 0, 3)>>,
    sub  |-> <<RR("SUB", 3, 1)>>, tst  |-> <<Dst("TST", 1)>>, add |-> <<RR("ADD", 3, 1)>>,
    inc  |-> <<Dst("INC", 1)>>, dec |-> <<Dst("DEC", 1)>>, neg |-> <<Dst("NEG", 1)>>,
    asl  |-> <<Dst("ASL", 1)>>, adc |-> <<Dst("ADC", 1)>>, sbc |-> <<Dst("SBC", 1)>>]

\* What is pushed and popped again: words, bytes, floats, longs, a call, a call
\* with a frame, one that returns by emt, an interrupt frame, a FIS sum.
StackPrograms == [
    word  |-> <<Two("MOV", FALSE, 0, 1, 4, SP), Two("MOV", FALSE, 2, SP, 0, 2)>>,
    byte  |-> <<Two("MOV", TRUE, 0, 1, 4, SP), Two("MOV", TRUE, 2, SP, 0, 2)>>,
    prev  |-> <<[op |-> "MFPI", sm |-> 0, s |-> 1], [op |-> "MTPI", dm |-> 0, d |-> 2]>>,
    float |-> <<Fop("stf", 4, SP), Fop("ldf", 2, SP)>>,
    other |-> <<Fop("movfo", 4, SP), Fop("movof", 2, SP)>>,
    long  |-> <<Fop("movfi", 4, SP), Fop("movif", 2, SP)>>,
    call  |-> <<[op |-> "JSR", s |-> 5, dm |-> 1, d |-> 1], [op |-> "RTS", d |-> 5]>>,
    frame |-> <<Two("MOV", FALSE, 0, 5, 4, SP), [op |-> "JSR", s |-> 5, dm |-> 1, d |-> 1],
                [op |-> "RTS", d |-> 5], Two("MOV", FALSE, 2, SP, 0, 5)>>,
    emt   |-> <<[op |-> "JSR", s |-> 5, dm |-> 1, d |-> 1], [op |-> "EMT", d |-> 5]>>,
    rti   |-> <<Two("MOV", FALSE, 0, 1, 4, SP), Two("MOV", FALSE, 0, 2, 4, SP), [op |-> "RTI"]>>,
    fis   |-> <<Fop("setf", 0, 0), Fop("stf", 4, SP), Fop("stf", 4, SP), Fop("fadd", 0, SP), Fop("ldf", 2, SP)>>]

Program ==
    CASE unit = "long"    -> LongPrograms[in.prog]
      [] unit = "compare" -> ComparePrograms[in.prog]
      [] unit = "stack"   -> StackPrograms[in.prog]
      [] unit = "float"   -> <<Fop(in.op, 0, 1)>>
      [] OTHER            -> <<>>

---------------------------------------------------------------------------
(* Inputs.                                                                 *)

Edges == {0, 1, WordMod \div 2 - 1, WordMod \div 2, WordMod - 1}
Machine(r, fill, ke) == [r |-> r, mem |-> [a \in Words |-> fill], text |-> [a \in Words |-> 0],
    cc |-> [n |-> 0, z |-> 0, v |-> 0, c |-> 0], ke11 |-> ke, ac |-> 0, mq |-> 0]
Registers(a, b, c, d, sp) == [i \in 0..7 |-> CASE i = 0 -> a [] i = 1 -> b [] i = 2 -> c [] i = 3 -> d [] i = SP -> sp [] OTHER -> 0]
Fps(d, l, t) == [d |-> d, l |-> l, t |-> t]
Start(r, fill, a, b, fps) ==
    [m |-> Machine(r, fill, -1), acc |-> [i \in 0..5 |-> CASE i = 0 -> a [] i = 1 -> b [] OTHER -> fp_zero],
     fps |-> fps, fcc |-> [n |-> 0, z |-> 0, v |-> 0, c |-> 0]]

\* Fractions with the bits that decide a rounding, exponents up to those where
\* the smaller operand of a sum is lost.
Fractions == {2^(D - 1), 2^(D - 1) + 1, 2^D - 1, 2^D - 2^(D - F), 2^(D - 1) + 2^(D - F - 1), 2^D - 2^(D - F - 1)}
Numbers == {fp_zero} \union [sign : {0, 1}, exp : {0, 1, F, D, G - 1, G + 1}, frac : Fractions]
Operands2 == {fp_zero} \union [sign : {0, 1}, exp : {0, 1}, frac : Fractions]

Longs == {<<hi, lo>> : hi \in Edges, lo \in Words}
FewLongs == {<<hi, lo>> : hi \in Edges, lo \in Edges}

Init ==
    /\ at = 0
    /\ \/ /\ unit = "long"
          /\ in \in [prog : DOMAIN LongPrograms, x : Longs, y : FewLongs]
          /\ f = Start(Registers(in.x[1], in.x[2], in.y[1], in.y[2], 8), 0, fp_zero, fp_zero, Fps(TRUE, FALSE, FALSE))
       \/ /\ unit = "compare"
          /\ in \in [prog : DOMAIN ComparePrograms, x : Words, y : Words, c : {0, 1}]
          /\ f = [Start(Registers(0, in.x, 0, in.y, 8), 0, fp_zero, fp_zero, Fps(TRUE, FALSE, FALSE)) EXCEPT !.m.cc.c = in.c]
       \/ /\ unit = "stack"
          /\ in \in [prog : DOMAIN StackPrograms, x : {0, 5, 10}, fps : [d : BOOLEAN, l : BOOLEAN, t : {FALSE}],
                     a : {n \in Operands2 : n.exp = 1} \union {fp_fromlong(Fps(TRUE, FALSE, FALSE), v) : v \in {-7, 5}}]
          /\ f = Start(Registers(1, in.x, 3, 4, WordMod - 2), 1, in.a, fp_zero, in.fps)
       \/ /\ unit = "ke11"
          /\ in \in [mq : Words, by : Words, op : {"MUL", "DIV"}]
          /\ f = [Start(Registers(0, 0, 0, 0, 8), 0, fp_zero, fp_zero, Fps(TRUE, FALSE, FALSE)) EXCEPT !.m.ke11 = 0]
       \/ /\ unit = "float"
          /\ in \in [op : {"addf", "subf", "mulf", "divf", "cmpf", "modf"}, a : Numbers, b : Operands2,
                     fps : [d : BOOLEAN, l : {FALSE}, t : BOOLEAN]]
          /\ f = Start(Registers(0, 0, 0, 0, 8), 0, in.a, in.b, in.fps)
       \/ /\ unit = "decimal"
          /\ in \in [op : {"add", "sub", "mul", "div"}, a : (-Base^2 + 1)..(Base^2 - 1), b : -Base..Base, to : C!Types, len : 0..3]
          /\ f = Start(Registers(0, 0, 0, 0, 8), 0, fp_zero, fp_zero, Fps(TRUE, FALSE, FALSE))
       \/ /\ unit = "string"
          /\ in \in [src : [len : 0..3, at : 0..2], dst : [len : 0..3, at : 0..2], mem : [0..4 -> 0..1]]
          /\ f = Start(Registers(0, 0, 0, 0, 8), 0, fp_zero, fp_zero, Fps(TRUE, FALSE, FALSE))

Run ==
    /\ at < Len(Program)
    /\ f' = do_fp(f, Program[at + 1])
    /\ at' = at + 1
    /\ UNCHANGED <<unit, in>>

\* The First Edition multiplies and divides by storing to the element.
Ke11 ==
    /\ unit = "ke11" /\ at < 2
    /\ f' = [f EXCEPT !.m = IF at = 0 THEN st2(@, Ke11Offset["MQ"], in.mq) ELSE st2(@, Ke11Offset[in.op], in.by)]
    /\ at' = at + 1
    /\ UNCHANGED <<unit, in>>

Next == Run \/ Ke11
Spec == Init /\ [][Next]_vars

---------------------------------------------------------------------------
(* Properties.                                                             *)

Done(u) == unit = u /\ at = Len(Program)
Long(p) == Signed2(p[1] * WordMod + p[2])
Result == Pair(f.m, 0)
X == Long(in.x)
Y == Long(in.y)

\* Longs: the arithmetic is that of the integers: the sequences for them, which
\* carry through adc, sbc, rol and ror, and ashc, mul and div on pairs whose
\* sign is theirs; a quotient too long or a divisor of 0 leaves the pair.
LongsExact ==
    Done("long") =>
        CASE in.prog = "add" -> Result = Signed2(X + Y)
          [] in.prog = "sub" -> Result = Signed2(X - Y)
          [] in.prog = "neg" -> Result = Signed2(-X)
          [] in.prog = "asl" -> Result = Signed2(2 * X)
          [] in.prog = "asr" -> Result = X \div 2
          [] in.prog = "ext" -> Result = Short(in.x[2])
          [] in.prog = "ash" -> Short(f.m.r[0]) = Short(Shifted(Short(in.x[1]), ShiftCount(in.y[2])))
          [] in.prog = "ashc" -> Result = Signed2(Shifted(X, ShiftCount(in.y[2])))
          [] in.prog = "mul" -> Result = Short(in.x[1]) * Short(in.y[2])
          [] in.prog = "div" ->
               LET by == Short(in.y[2])
                   q == Short(f.m.r[0])
                   rem == Short(f.m.r[1])
               IN IF f.m.cc.v = 1 THEN Result = X /\ (by = 0 \/ Quo(X, by) # Short(Quo(X, by)))
                  ELSE q * by + rem = X /\ C!Abs(rem) < C!Abs(by) /\ rem * X >= 0

\* KE11-A: products of words with their signs, and quotients as long as the
\* dividend has none (the code divides the pair as if it had none).
ElementExact ==
    unit = "ke11" /\ at = 2 =>
        LET pair == Signed2(f.m.ac * WordMod + f.m.mq)
        IN IF in.op = "MUL" THEN pair = Short(in.mq) * Short(in.by)
           ELSE Short(in.mq) >= 0 /\ Short(in.by) # 0 =>
                Short(f.m.mq) * Short(in.by) + Short(f.m.ac) = in.mq /\ C!Abs(Short(f.m.ac)) < C!Abs(Short(in.by))

\* Arithmetic beyond a word is that of the integers, by the sequences for
\* longs, by EIS and by the element of the First Edition.
ArithmeticExact == LongsExact /\ ElementExact

\* What a conditional branch decides after a comparison is the relation of the
\* numbers, with and without sign; after arithmetic the signed ones decide the
\* sign of the exact result, overflow or not: neg, adc and sbc, whose code
\* leaves V out, only if there was none.
ExactResult(x, y) ==
    CASE in.prog = "add" -> x + y [] in.prog = "inc" -> x + 1 [] in.prog = "dec" -> x - 1 [] in.prog = "neg" -> -x
      [] in.prog = "asl" -> 2 * x [] in.prog = "adc" -> x + in.c [] in.prog = "sbc" -> x - in.c
      [] in.prog = "tst" -> x     [] OTHER -> x - y
BranchesDecide ==
    Done("compare") =>
        LET byte == in.prog = "cmpb"
            x == in.x % Modulus(byte)
            y == IF in.prog = "tst" THEN 0 ELSE in.y % Modulus(byte)
            r == ExactResult(sgn(x, byte), sgn(y, byte))
            taken(br) == cond(br, f.m.cc)
        IN /\ \/ in.prog \in {"neg", "adc", "sbc"} /\ r # Short(r)
              \/ /\ taken("BLT") = (r < 0) /\ taken("BGE") = (r >= 0)
                 /\ taken("BGT") = (r > 0) /\ taken("BLE") = (r <= 0)
           /\ in.prog \in {"cmp", "cmpb", "sub", "tst"} =>
                 /\ taken("BEQ") = (x = y) /\ taken("BNE") = (x # y)
                 /\ taken("BHI") = (x > y) /\ taken("BLOS") = (x <= y)
                 /\ taken("BCC") = (x >= y) /\ taken("BCS") = (x < y)

\* What is pushed stays in the space it claims, and popping it gives it back
\* and the stack pointer with it: bytes, words, floats of either width, longs
\* and return addresses alike.
StackKept ==
    unit = "stack" =>
        /\ \A a \in Words : a >= WordMod - 2 => f.m.mem[a] = 1
        /\ at = 1 => \A a \in Words : a < f.m.r[SP] => f.m.mem[a] = 1
        /\ Done("stack") =>
              /\ f.m.r[SP] = WordMod - 2
              /\ in.prog = "word" => f.m.r[2] = in.x
              /\ in.prog = "byte" => f.m.r[2] = Word(sgn(in.x, TRUE))
              /\ in.prog = "prev" => f.m.r[2] = in.x
              /\ in.prog = "long" => fp_tolong(f.acc[0]) = IF in.fps.l THEN fp_tolong(in.a) ELSE Short(fp_tolong(in.a))
              /\ in.prog = "float" /\ in.fps.d => f.acc[0] = in.a
              /\ in.prog \in {"call", "frame", "emt"} => f.m.r[5] = 0
              /\ in.prog = "rti" => f.m.r[PC] = 3 /\ f.m.cc = Unpsw(in.x)
              /\ in.prog = "fis" /\ in.a.frac % 2^(D - F) = 0 => f.acc[0] = fp_addv(f.fps, in.a, in.a)

---------------------------------------------------------------------------
\* The exact magnitude of a result: num/den * 2^exp.
Neg2(v) == [v EXCEPT !.sign = 1 - @]
ExactSum(a, b) ==
    LET low == C!Min2(a.exp, b.exp)
        val(v) == (IF v.sign = 1 THEN -1 ELSE 1) * v.frac * 2^(v.exp - low)
    IN [num |-> val(a) + val(b), den |-> 1, exp |-> low - D]
Exact(op, a, b) ==
    LET s == (IF a.sign = b.sign THEN 1 ELSE -1)
    IN CASE op = "addf" -> ExactSum(a, b)
         [] op = "subf" -> ExactSum(a, Neg2(b))
         [] op = "mulf" -> [num |-> s * a.frac * b.frac, den |-> 1, exp |-> a.exp + b.exp - 2 * D]
         [] op = "divf" -> [num |-> s * a.frac, den |-> IF b.frac = 0 THEN 1 ELSE b.frac, exp |-> a.exp - b.exp]

\* The nearest number of w bits, a half away from zero (or the next toward it).
RoundedTo(e, w, chop) ==
    LET m == C!Abs(e.num)
        k == IF m >= e.den THEN BitLength(m \div e.den)
             ELSE CHOOSE n \in -D..0 : m * 2^(-n) < e.den /\ m * 2^(1 - n) >= e.den
        up == w - k
        num == 2 * m * (IF up > 0 THEN 2^up ELSE 1)
        den == 2 * e.den * (IF up < 0 THEN 2^(-up) ELSE 1)
        frac == (num + (IF chop THEN 0 ELSE den \div 2)) \div den
        full == frac = 2^w
    IN [sign |-> Bit(e.num < 0), exp |-> e.exp + k + Bit(full), frac |-> (IF full THEN 2^(w - 1) ELSE frac) * 2^(D - w)]

\* add, sub, mul and div give the exact result rounded once to the width of
\* the mode, but for operands passed through (the other is 0), division by 0,
\* and a smaller operand beyond the bits kept below when the result is chopped
\* or the larger operand, loaded in D mode, is wider than the mode.
OperationRounded ==
    Done("float") /\ in.op \notin {"cmpf", "modf"} =>
        LET e == Exact(in.op, in.a, in.b)
            gap == C!Abs(in.a.exp - in.b.exp)
        IN \/ in.a.frac = 0 \/ in.b.frac = 0
           \/ e.num = 0 /\ f.acc[0] = fp_zero
           \/ e.num # 0 /\ f.acc[0] = RoundedTo(e, fpwidth(in.fps), in.fps.t)
           \/ /\ in.op \in {"addf", "subf"} /\ gap > G - 1
              /\ in.fps.t \/ in.a.frac % 2^(D - fpwidth(in.fps)) # 0

\* cmpf orders numbers as they are, and modf splits a product in two that add
\* up to it, the whole part being whole.
OrderAndSplit ==
    Done("float") =>
        /\ in.op = "cmpf" => LET e == ExactSum(in.b, Neg2(in.a))
                             IN f.fcc.n = Bit(e.num < 0) /\ f.fcc.z = Bit(e.num = 0)
        /\ in.op = "modf" =>
             LET p == fp_mulv(in.fps, in.a, in.b)
                 whole == f.acc[1]
                 part == f.acc[0]
                 low == C!Min2(p.exp, C!Min2(whole.exp, part.exp))
                 scaled(v) == (IF v.sign = 1 THEN -1 ELSE 1) * v.frac * 2^(v.exp - low)
             IN /\ whole.frac # 0 => whole.exp > 0 /\ (whole.exp < D => whole.frac % 2^(D - whole.exp) = 0)
                /\ part.frac # 0 => part.exp <= 0
                /\ p.exp - low < D => scaled(p) = scaled(whole) + scaled(part)

\* Floating point is exact but for one rounding at the end of an operation.
FloatExact == OperationRounded /\ OrderAndSplit

\* A decimal operation is that of the integers on what its operands were
\* written from, in every representation; what does not fit is cut and told by
\* V.  Shifts drop or add digits at the right; a long goes to digits and back,
\* which the code does for those that are not negative.
Empty == [a \in 0..15 |-> C!Digit("z", 0)]
Kept(d, v, signed) ==      \* what v becomes in d
    LET cut == C!Abs(v) % Base^d.len
    IN IF v < 0 /\ signed /\ (d.len > 0 \/ d.type \in {C!TrailingSeparate, C!LeadingSeparate, C!SignedPacked}) THEN -cut ELSE cut
DecimalExact ==
    unit = "decimal" =>
        LET src == [type |-> in.to, len |-> 2, at |-> 0]
            by  == [type |-> C!SignedPacked, len |-> 2, at |-> 4]
            dst == [type |-> in.to, len |-> in.len, at |-> 8]
            signed == in.to \notin {C!UnsignedZoned, C!UnsignedPacked}
            a == IF signed THEN in.a ELSE C!Abs(in.a)
            mem == C!dec_write(C!dec_write(Empty, src, C!Abs(in.a), in.a < 0), by, C!Abs(in.b), in.b < 0)
            res == C!Decimal(in.op, mem, by, src, dst)
            want == CASE in.op = "add" -> a + in.b [] in.op = "sub" -> a - in.b [] in.op = "mul" -> a * in.b
                      [] OTHER -> IF in.b = 0 THEN 0 ELSE C!Quo(a, in.b)
            shifted(n) == C!dec_read(C!ashn(mem, src, dst, n, 0).mem, dst)
            long == C!cvtnl(mem, src)
        IN /\ IF in.op = "div" /\ in.b = 0 THEN res.mem = mem /\ res.cc.c = 1
              ELSE /\ C!dec_read(res.mem, dst) = Kept(dst, want, signed)
                   /\ (res.cc.v = 1) = (C!Abs(want) >= Base^in.len)
           /\ C!dec_read(res.mem, src) = a
           /\ C!dec_read(C!cvtpn(mem, src, dst).mem, dst) = Kept(dst, a, signed)
           /\ shifted(1) = Kept(dst, a * Base, signed) /\ shifted(-1) = Kept(dst, C!Quo(a, Base), signed)
           /\ C!cmpn(mem, by, src).n = Bit(in.b < a)
           /\ Long(<<long.hi, long.lo>>) = a
           /\ a >= 0 => C!dec_read(C!cvtln(mem, dst, long.hi, long.lo).mem, dst) = Kept(dst, a, signed)

\* A string moved onto one it overlaps is what was there before the move; a
\* string equals its copy, and is found in it where the copy begins.
MoveSafe ==
    unit = "string" =>
        LET to == C!movc(in.mem, in.src, in.dst, 7, [c \in 0..7 |-> c])
            apart == in.src.at + in.src.len <= in.dst.at \/ in.dst.at + in.dst.len <= in.src.at
        IN /\ \A i \in 0..(in.dst.len - 1) :
                 to[in.dst.at + i] = IF i < in.src.len THEN in.mem[in.src.at + i] ELSE 7
           /\ apart /\ in.src.len <= in.dst.len =>
                 /\ C!cmpc(to, in.src, in.dst, 7).equal
                 /\ in.src.len > 0 => C!matc(to, in.dst, in.src).at = in.dst.at
                 /\ in.dst.len > in.src.len => /\ C!locc(to, in.dst, 7).at = in.dst.at + in.src.len
                                               /\ C!scanc(to, in.dst, {7}) = C!locc(to, in.dst, 7)
           /\ LET tail == C!Rest(in.dst, in.src.len) IN in.dst.len > in.src.len =>
                 C!skpc(to, tail, 7).len = 0 /\ C!spanc(to, tail, {7}).len = 0
           /\ C!movcLeft(in.src, in.dst) = Cardinality({i \in 0..(in.src.len - 1) : i >= in.dst.len})
============================================================================
