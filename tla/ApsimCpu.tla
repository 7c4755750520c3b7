----------------------------- MODULE ApsimCpu -----------------------------
(***************************************************************************)
(* The processor of pdp11-apsim (src/pdp11-apsim/apsim.c): operands, the   *)
(* integer instructions with their condition codes, EIS, the calls and     *)
(* the KE11-A arithmetic element of the First Edition.  An instruction is  *)
(* a function from machine state to machine state; words are of two bytes  *)
(* of H bits, so that every pair of operands can be tried.  Instructions   *)
(* are records of their fields: the encodings are not modelled, nor are    *)
(* the traces.                                                             *)
(***************************************************************************)
EXTENDS Integers, Bitwise

CONSTANT H            \* bits in a byte (8)

ByteMod == 2^H
WordMod == 2^(2 * H)
Bytes == 0..(ByteMod - 1)
Words == 0..(WordMod - 1)
SP == 6
PC == 7

\* A machine: registers, data space, text space, condition codes, the two
\* registers of the KE11-A and the address it answers at (-1 if it does not).
Modulus(byte) == IF byte THEN ByteMod ELSE WordMod
Word(v) == v % WordMod
Sign(v, byte) == Modulus(byte) \div 2 <= v % Modulus(byte)
Bit(b) == IF b THEN 1 ELSE 0
sgn(v, byte) == (v % Modulus(byte)) - (IF Sign(v, byte) THEN Modulus(byte) ELSE 0)
Short(v) == sgn(v, FALSE)
Quo(a, b) == IF (a < 0) = (b < 0) THEN (IF a < 0 THEN -a ELSE a) \div (IF b < 0 THEN -b ELSE b)
                                  ELSE -((IF a < 0 THEN -a ELSE a) \div (IF b < 0 THEN -b ELSE b))
Rem(a, b) == a - b * Quo(a, b)
AndNot(a, b) == a - (a & b)

---------------------------------------------------------------------------
(* Memory and the arithmetic element.                                      *)

High(v) == (v \div WordMod) % WordMod
Ke11Offset == [DIV |-> 0, AC |-> 2, MQ |-> 4, MUL |-> 6]
InKe11(m, a) == m.ke11 >= 0 /\ a \in m.ke11 .. m.ke11 + 15
Ke11Register(m, a) ==
    LET off == 2 * ((a - m.ke11) \div 2)
    IN IF \E n \in DOMAIN Ke11Offset : Ke11Offset[n] = off
       THEN CHOOSE n \in DOMAIN Ke11Offset : Ke11Offset[n] = off ELSE "other"

ke11_rd(m, name) == CASE name = "AC" -> m.ac [] name = "MQ" -> m.mq [] OTHER -> 0

\* The dividend is the pair without a sign; MUL and the extension of MQ have one.
ke11_wr(m, name, v) ==
    CASE name = "DIV" ->
           IF Short(v) = 0 THEN [m EXCEPT !.ac = 0, !.mq = 0]
           ELSE LET pair == m.ac * WordMod + m.mq
                IN [m EXCEPT !.mq = Word(Quo(pair, Short(v))), !.ac = Word(Rem(pair, Short(v)))]
      [] name = "AC"  -> [m EXCEPT !.ac = Word(v)]
      [] name = "MQ"  -> [m EXCEPT !.mq = Word(v), !.ac = IF Sign(v, FALSE) THEN WordMod - 1 ELSE 0]
      [] name = "MUL" -> LET p == Short(m.mq) * Short(v) IN [m EXCEPT !.mq = Word(p), !.ac = High(p)]
      [] OTHER        -> m

ifetch(m, a) == m.text[Word(a)] + ByteMod * m.text[Word(a + 1)]
ld2(m, a) == IF InKe11(m, Word(a)) THEN ke11_rd(m, Ke11Register(m, Word(a)))
             ELSE m.mem[Word(a)] + ByteMod * m.mem[Word(a + 1)]
ld1(m, a) == IF InKe11(m, Word(a)) THEN ke11_rd(m, Ke11Register(m, Word(a))) % ByteMod ELSE m.mem[Word(a)]
st2(m, a, v) == IF InKe11(m, Word(a)) THEN ke11_wr(m, Ke11Register(m, Word(a)), Word(v))
                ELSE [m EXCEPT !.mem[Word(a)] = v % ByteMod, !.mem[Word(a + 1)] = Word(v) \div ByteMod]
st1(m, a, v) == IF InKe11(m, Word(a)) THEN ke11_wr(m, Ke11Register(m, Word(a)), v % ByteMod)
                ELSE [m EXCEPT !.mem[Word(a)] = v % ByteMod]

---------------------------------------------------------------------------
(* Operands: a location, and the machine once the mode has had its effect. *)

Bumped(m, r, by) == [m EXCEPT !.r[r] = Word(@ + by)]
Past(m) == Bumped(m, PC, 2)                         \* a word of the text consumed
Located(m, kind, at) == [m |-> m, kind |-> kind, at |-> at]

operand(m, mode, r, byte) ==
    LET inc == IF byte /\ r < SP THEN 1 ELSE 2
        x   == ifetch(m, m.r[PC])
        indexed == Word(Past(m).r[r] + x)
    IN CASE mode = 0            -> Located(m, "reg", r)
         [] mode = 1            -> Located(m, "mem", m.r[r])
         [] mode = 2 /\ r = PC  -> Located(Past(m), "imm", x)
         [] mode = 2 /\ r # PC  -> Located(Bumped(m, r, inc), "mem", m.r[r])
         [] mode = 3 /\ r = PC  -> Located(Past(m), "mem", x)
         [] mode = 3 /\ r # PC  -> Located(Bumped(m, r, 2), "mem", ld2(m, m.r[r]))
         [] mode = 4            -> Located(Bumped(m, r, -inc), "mem", Word(m.r[r] - inc))
         [] mode = 5            -> Located(Bumped(m, r, -2), "mem", ld2(m, m.r[r] - 2))
         [] mode = 6            -> Located(Past(m), "mem", indexed)
         [] OTHER               -> Located(Past(m), "mem", ld2(m, indexed))

getv(m, loc, byte) ==
    LET v == CASE loc.kind = "imm" -> loc.at
               [] loc.kind = "reg" -> m.r[loc.at]
               [] OTHER            -> IF byte THEN ld1(m, loc.at) ELSE ld2(m, loc.at)
    IN v % Modulus(byte)

\* A literal is nobody's destination; a byte leaves the high half of a register.
putv(m, loc, v, byte) ==
    CASE loc.kind = "imm" -> m
      [] loc.kind = "reg" ->
           [m EXCEPT !.r[loc.at] = IF byte THEN ByteMod * (@ \div ByteMod) + (v % ByteMod) ELSE Word(v)]
      [] OTHER -> IF byte THEN st1(m, loc.at, v) ELSE st2(m, loc.at, v)

---------------------------------------------------------------------------
(* Condition codes, and what an instruction computes: r, and the codes it  *)
(* leaves.                                                                 *)

Zero(v, byte) == Bit(v % Modulus(byte) = 0)
Neg(v, byte) == Bit(Sign(v, byte))
setNZ(cc, v, byte) == [cc EXCEPT !.n = Neg(v, byte), !.z = Zero(v, byte)]
Codes(cc, v, byte, vbit, cbit) == [setNZ(cc, v, byte) EXCEPT !.v = vbit, !.c = cbit]
Differ(a, b, byte) == Sign(a, byte) # Sign(b, byte)

cond(br, cc) ==
    CASE br = "BR"  -> TRUE                    [] br = "BNE" -> cc.z = 0
      [] br = "BEQ" -> cc.z = 1                [] br = "BGE" -> cc.n = cc.v
      [] br = "BLT" -> cc.n # cc.v             [] br = "BGT" -> cc.z = 0 /\ cc.n = cc.v
      [] br = "BLE" -> cc.z = 1 \/ cc.n # cc.v [] br = "BPL" -> cc.n = 0
      [] br = "BMI" -> cc.n = 1                [] br = "BHI" -> cc.c = 0 /\ cc.z = 0
      [] br = "BLOS" -> cc.c = 1 \/ cc.z = 1   [] br = "BVC" -> cc.v = 0
      [] br = "BVS" -> cc.v = 1                [] br = "BCC" -> cc.c = 0
      [] OTHER -> cc.c = 1

Compare(cc, sv, dv, byte) ==
    Codes(cc, sv - dv, byte, Bit(Differ(sv, dv, byte) /\ ~Differ(dv, sv - dv, byte)),
          Bit(sv % Modulus(byte) < dv % Modulus(byte)))

Subtract(cc, sv, dv) ==
    Codes(cc, dv - sv, FALSE, Bit(Differ(dv, sv, FALSE) /\ ~Differ(sv, dv - sv, FALSE)), Bit(dv < sv))
Add(cc, sv, dv) ==
    Codes(cc, dv + sv, FALSE, Bit(~Differ(dv, sv, FALSE) /\ Differ(dv, dv + sv, FALSE)), Bit(dv + sv >= WordMod))

\* The double-operand group: what is stored, unless it only reads, and the codes.
ReadOnly == {"CMP", "BIT", "TST"}
Double(op, cc, sv, dv, byte) ==
    CASE op = "MOV" -> [r |-> sv, cc |-> [setNZ(cc, sv, byte) EXCEPT !.v = 0]]
      [] op = "CMP" -> [r |-> dv, cc |-> Compare(cc, sv, dv, byte)]
      [] op = "BIT" -> [r |-> dv, cc |-> [setNZ(cc, sv & dv, byte) EXCEPT !.v = 0]]
      [] op = "BIC" -> [r |-> AndNot(dv, sv), cc |-> [setNZ(cc, AndNot(dv, sv), byte) EXCEPT !.v = 0]]
      [] op = "BIS" -> [r |-> dv | sv, cc |-> [setNZ(cc, dv | sv, byte) EXCEPT !.v = 0]]
      [] op = "ADD" -> [r |-> dv + sv, cc |-> Add(cc, sv, dv)]
      [] op = "SUB" -> [r |-> dv - sv, cc |-> Subtract(cc, sv, dv)]

\* The single-operand group.  ADC and SBC leave V and C as they were.
Rotated(cc, r, byte, out) ==
    LET nz == [setNZ(cc, r, byte) EXCEPT !.c = out] IN [r |-> r, cc |-> [nz EXCEPT !.v = nz.n ^^ out]]
Single(op, cc, dv, byte) ==
    LET top == Modulus(byte) \div 2
        out == Bit(Sign(dv, byte))
    IN CASE op = "CLR" -> [r |-> 0, cc |-> [n |-> 0, z |-> 1, v |-> 0, c |-> 0]]
         [] op = "COM" -> [r |-> -dv - 1, cc |-> Codes(cc, -dv - 1, byte, 0, 1)]
         [] op = "INC" -> [r |-> dv + 1, cc |-> [setNZ(cc, dv + 1, byte) EXCEPT !.v = Bit(dv = top - 1)]]
         [] op = "DEC" -> [r |-> dv - 1, cc |-> [setNZ(cc, dv - 1, byte) EXCEPT !.v = Bit(dv = top)]]
         [] op = "NEG" -> [r |-> -dv, cc |-> Codes(cc, -dv, byte, 0, Bit(dv # 0))]
         [] op = "ADC" -> [r |-> dv + cc.c, cc |-> setNZ(cc, dv + cc.c, byte)]
         [] op = "SBC" -> [r |-> dv - cc.c, cc |-> setNZ(cc, dv - cc.c, byte)]
         [] op = "TST" -> [r |-> dv, cc |-> Codes(cc, dv, byte, 0, 0)]
         [] op = "ROR" -> Rotated(cc, dv \div 2 + cc.c * top, byte, dv % 2)
         [] op = "ROL" -> Rotated(cc, (2 * dv + cc.c) % Modulus(byte), byte, out)
         [] op = "ASR" -> Rotated(cc, (sgn(dv, byte) \div 2) % Modulus(byte), byte, dv % 2)
         [] op = "ASL" -> Rotated(cc, (2 * dv) % Modulus(byte), byte, out)
         [] op = "SWAB" -> LET r == (dv % ByteMod) * ByteMod + dv \div ByteMod
                           IN [r |-> r, cc |-> Codes(cc, r, TRUE, 0, 0)]
         [] op = "SXT" -> [r |-> IF cc.n = 1 THEN WordMod - 1 ELSE 0, cc |-> [cc EXCEPT !.z = 1 - cc.n, !.v = 0]]

---------------------------------------------------------------------------
(* Instructions on the machine.                                            *)

\* The destination's mode acts before the source's value is used up, the
\* source's before that; a byte moved to a register extends over it.
DoubleInsn(m, op, byte, smode, s, dmode, d) ==
    LET src == operand(m, smode, s, byte)
        sv  == getv(src.m, src, byte)
        dst == operand(src.m, dmode, d, byte)
        res == Double(op, m.cc, sv, getv(dst.m, dst, byte), byte)
        put == IF op = "MOV" /\ byte /\ dst.kind = "reg"
               THEN [dst.m EXCEPT !.r[d] = Word(sgn(sv, TRUE))]
               ELSE IF op \in ReadOnly THEN dst.m ELSE putv(dst.m, dst, res.r, byte)
    IN [put EXCEPT !.cc = res.cc]

SingleInsn(m, op, byte, mode, d) ==
    LET dst == operand(m, mode, d, byte)
        res == Single(op, m.cc, getv(dst.m, dst, byte), byte)
    IN [(IF op \in ReadOnly THEN dst.m ELSE putv(dst.m, dst, res.r, byte)) EXCEPT !.cc = res.cc]

\* The pair R,R|1 of EIS is a signed long.
Mate(r) == IF r % 2 = 0 THEN r + 1 ELSE r
LongMod == WordMod * WordMod
Signed2(v) == (v % LongMod) - (IF v % LongMod >= LongMod \div 2 THEN LongMod ELSE 0)
PairUnsigned(m, r) == m.r[r] * WordMod + m.r[Mate(r)]
Pair(m, r) == Signed2(m.r[r] * WordMod + m.r[Mate(r)])
SetPair(m, r, hi, lo) == [[m EXCEPT !.r[r] = Word(hi)] EXCEPT !.r[Mate(r)] = Word(lo)]
ShiftCount(v) == LET c == v % 64 IN IF c >= 32 THEN c - 64 ELSE c

MUL(m, r, sv) ==
    LET p == Short(m.r[r]) * Short(sv)
    IN [SetPair(m, r, p \div WordMod, p) EXCEPT
           !.cc = [z |-> Bit(p = 0), n |-> Bit(p < 0), v |-> 0, c |-> Bit(p # Short(p))]]

\* Division by 0, and a quotient that is no word, leave the registers.
DIV(m, r, sv) ==
    LET dd == Pair(m, r)
        q  == Quo(dd, Short(sv))
    IN IF Short(sv) = 0 THEN [m EXCEPT !.cc.v = 1, !.cc.c = 1]
       ELSE IF q # Short(q) THEN [m EXCEPT !.cc.v = 1, !.cc.c = 0]
       ELSE [SetPair(m, r, q, Rem(dd, Short(sv))) EXCEPT
                !.cc = [z |-> Bit(q = 0), n |-> Bit(q < 0), v |-> 0, c |-> 0]]

Shifted(v, cnt) == IF cnt >= 0 THEN v * 2^cnt ELSE v \div 2^(-cnt)
ASH(m, r, sv) ==
    LET val == Word(Shifted(Short(m.r[r]), ShiftCount(sv)))
    IN [m EXCEPT !.r[r] = val, !.cc = [setNZ(@, val, FALSE) EXCEPT !.v = 0]]
ASHC(m, r, sv) ==
    LET cnt == ShiftCount(sv)
        dd  == Pair(m, r)
        val == Signed2(Shifted(dd, cnt))
        out == CASE cnt > 4 * H -> 0
                 [] cnt > 0     -> (dd \div 2^(4 * H - cnt)) % 2
                 [] cnt < 0     -> (dd \div 2^(-cnt - 1)) % 2
                 [] OTHER       -> m.cc.c
    IN [SetPair(m, r, val \div WordMod, val) EXCEPT
           !.cc = [z |-> Bit(val = 0), n |-> Bit(val < 0), v |-> 0, c |-> out]]

Eis(op, m, r, sv) == CASE op = "MUL" -> MUL(m, r, sv) [] op = "DIV" -> DIV(m, r, sv)
                       [] op = "ASH" -> ASH(m, r, sv) [] op = "ASHC" -> ASHC(m, r, sv)
EisInsn(m, op, r, mode, s) ==
    LET src == operand(m, mode, s, FALSE) IN Eis(op, src.m, r, getv(src.m, src, FALSE))

XOR(m, r, mode, d) ==
    LET dst == operand(m, mode, d, FALSE)
        v == getv(dst.m, dst, FALSE) ^^ dst.m.r[r]
    IN [putv(dst.m, dst, v, FALSE) EXCEPT !.cc = [setNZ(@, v, FALSE) EXCEPT !.v = 0]]

Push(m, v) == LET down == Bumped(m, SP, -2) IN st2(down, down.r[SP], v)

JSR(m, r, mode, d) ==
    LET dst == operand(m, mode, d, FALSE)
        in  == Push(dst.m, dst.m.r[r])
    IN [[in EXCEPT !.r[r] = in.r[PC]] EXCEPT !.r[PC] = Word(dst.at)]
RTS(m, r) ==
    LET back == [m EXCEPT !.r[PC] = m.r[r]]
    IN Bumped([back EXCEPT !.r[r] = ld2(m, back.r[SP])], SP, 2)
JMP(m, mode, d) == LET dst == operand(m, mode, d, FALSE) IN [dst.m EXCEPT !.r[PC] = dst.at]
SOB(m, r, off) ==
    LET n == Bumped(m, r, -1) IN IF n.r[r] # 0 THEN Bumped(n, PC, -2 * off) ELSE n
MARK(m, nn) ==
    LET at == Word(m.r[PC] + 2 * nn)
    IN [m EXCEPT !.r[PC] = m.r[5], !.r[5] = ld2(m, at), !.r[SP] = Word(at + 2)]
MFPI(m, mode, s) ==
    LET src == operand(m, mode, s, FALSE)
        v == getv(src.m, src, FALSE)
    IN [Push(src.m, v) EXCEPT !.cc = [setNZ(@, v, FALSE) EXCEPT !.v = 0]]
MTPI(m, mode, d) ==
    LET v == ld2(m, m.r[SP])
        dst == operand(Bumped(m, SP, 2), mode, d, FALSE)
    IN [putv(dst.m, dst, v, FALSE) EXCEPT !.cc = [setNZ(@, v, FALSE) EXCEPT !.v = 0]]
Unpsw(ps) == [n |-> (ps \div 8) % 2, z |-> (ps \div 4) % 2, v |-> (ps \div 2) % 2, c |-> ps % 2]
RTI(m) == [Bumped(m, SP, 4) EXCEPT !.r[PC] = ld2(m, m.r[SP]), !.cc = Unpsw(ld2(m, m.r[SP] + 2))]

\* emt of the First Edition: rts to an even address that holds something.
V1EmtOk(m, n) == m.r[n] % 2 = 0 /\ ld2(m, m.r[n]) # 0
V1Emt(m, n) ==
    LET popped == Bumped([m EXCEPT !.r[n] = ld2(m, m.r[SP])], SP, 2)
    IN IF n = PC THEN popped ELSE [popped EXCEPT !.r[PC] = m.r[n]]

TSTSET(m, mode, d) ==
    LET dst == operand(m, mode, d, FALSE)
        old == getv(dst.m, dst, FALSE)
    IN [putv([dst.m EXCEPT !.r[0] = old], dst, old | 1, FALSE) EXCEPT
           !.cc = Codes(m.cc, old, FALSE, 0, old % 2)]
WRTLCK(m, mode, d) ==
    LET dst == operand(m, mode, d, FALSE)
    IN [putv(dst.m, dst, dst.m.r[0], FALSE) EXCEPT !.cc = [setNZ(@, dst.m.r[0], FALSE) EXCEPT !.v = 0]]

\* One instruction: the word itself is consumed first.
DoubleOps == {"MOV", "CMP", "BIT", "BIC", "BIS", "ADD", "SUB"}
SingleOps == {"CLR", "COM", "INC", "DEC", "NEG", "ADC", "SBC", "TST", "ROR", "ROL", "ASR", "ASL", "SWAB", "SXT"}
EisOps == {"MUL", "DIV", "ASH", "ASHC"}
step(m0, i) ==
    LET m == Past(m0)
    IN CASE i.op \in DoubleOps -> DoubleInsn(m, i.op, i.byte, i.sm, i.s, i.dm, i.d)
         [] i.op \in SingleOps -> SingleInsn(m, i.op, i.byte, i.dm, i.d)
         [] i.op \in EisOps -> EisInsn(m, i.op, i.d, i.sm, i.s)
         [] i.op = "XOR" -> XOR(m, i.s, i.dm, i.d)
         [] i.op = "JSR" -> JSR(m, i.s, i.dm, i.d)
         [] i.op = "RTS" -> RTS(m, i.d)
         [] i.op = "JMP" -> JMP(m, i.dm, i.d)
         [] i.op = "SOB" -> SOB(m, i.s, i.d)
         [] i.op = "MARK" -> MARK(m, i.d)
         [] i.op = "MFPI" -> MFPI(m, i.sm, i.s)
         [] i.op = "MTPI" -> MTPI(m, i.dm, i.d)
         [] i.op = "RTI" -> RTI(m)
         [] i.op = "EMT" /\ V1EmtOk(m, i.d) -> V1Emt(m, i.d)
         [] i.op = "TSTSET" -> TSTSET(m, i.dm, i.d)
         [] i.op = "WRTLCK" -> WRTLCK(m, i.dm, i.d)
         [] i.op = "CC" -> [m EXCEPT !.cc = [x \in DOMAIN @ |-> IF x \in i.bits THEN i.set ELSE @[x]]]
         [] OTHER -> IF cond(i.op, m.cc) THEN Bumped(m, PC, 2 * i.off) ELSE m
============================================================================
