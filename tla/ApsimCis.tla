----------------------------- MODULE ApsimCis -----------------------------
(***************************************************************************)
(* The commercial instruction set of pdp11-apsim (src/pdp11-apsim/apsim.c):*)
(* character strings and decimal strings.  Memory is a function from       *)
(* addresses to bytes; a byte is a member of Chars, or one of the shapes a *)
(* digit takes.  An instruction is a function from memory to memory and    *)
(* the registers it sets; operands are already fetched (descriptors from   *)
(* R0 to R5, or from the words after an inline form).                      *)
(***************************************************************************)
EXTENDS Integers, Sequences

CONSTANTS Base,        \* digits of a decimal string: 10
          WordMod      \* values of a word

\* cis_dsc and cis_arg: the operands of a register form are in the registers,
\* those of an inline form behind pointers in the text.
Operands(inl, regs, inline) == IF inl THEN inline ELSE regs
Min2(a, b) == IF a < b THEN a ELSE b
Max2(a, b) == IF a > b THEN a ELSE b
Bit(b) == IF b THEN 1 ELSE 0
Str(len, at) == [len |-> len, at |-> at]
Least(S) == CHOOSE x \in S : \A y \in S : x <= y

---------------------------------------------------------------------------
(* Character strings: src and dst are [len, at].                           *)

\* The source is read whole before any of it is overwritten.
movc(mem, src, dst, fill, table) ==
    [a \in DOMAIN mem |->
        IF a \notin dst.at .. dst.at + dst.len - 1 THEN mem[a]
        ELSE IF a - dst.at < src.len THEN table[mem[src.at + a - dst.at]] ELSE fill]
movcLeft(src, dst) == IF src.len > dst.len THEN src.len - dst.len ELSE 0

Rest(s, i) == Str(s.len - i, s.at + i)

\* locc, skpc, scanc, spanc: up to the first character that stops the scan.
Scan(mem, s, Stops(_)) ==
    LET at == {i \in 0..(s.len - 1) : Stops(mem[s.at + i])}
    IN Rest(s, IF at = {} THEN s.len ELSE Least(at))
locc(mem, s, ch) == Scan(mem, s, LAMBDA c : c = ch)
skpc(mem, s, ch) == Scan(mem, s, LAMBDA c : c # ch)
scanc(mem, s, set) == Scan(mem, s, LAMBDA c : c \in set)
spanc(mem, s, set) == Scan(mem, s, LAMBDA c : c \notin set)

\* cmpc: the shorter string goes on with fill.
Padded(mem, s, fill, i) == IF i < s.len THEN mem[s.at + i] ELSE fill
cmpc(mem, s, t, fill) ==
    LET n == Max2(s.len, t.len)
        diff == {i \in 0..(n - 1) : Padded(mem, s, fill, i) # Padded(mem, t, fill, i)}
        i == IF diff = {} THEN n ELSE Least(diff)
    IN [s |-> Rest(s, Min2(i, s.len)), t |-> Rest(t, Min2(i, t.len)), equal |-> diff = {},
        lower |-> diff # {} /\ Padded(mem, s, fill, i) < Padded(mem, t, fill, i)]

\* matc: the first place where all of o is in s.
matc(mem, s, o) ==
    LET at == {i \in 0..(s.len - o.len) : o.len > 0 /\ \A j \in 0..(o.len - 1) : mem[s.at + i + j] = mem[o.at + j]}
    IN IF at = {} THEN Rest(s, s.len) ELSE Rest(s, Least(at))

---------------------------------------------------------------------------
(* Decimal strings.  A descriptor is [type, len, at]; types are numbered as *)
(* in the descriptor word, bits 12 to 14.                                   *)

SignedZoned == 0
UnsignedZoned == 1
TrailingOverpunch == 2
LeadingOverpunch == 3
TrailingSeparate == 4
LeadingSeparate == 5
SignedPacked == 6
UnsignedPacked == 7
Types == 0..7

\* Bytes: a digit in its zone, "z" plain, "n" the negative zone, "+" and "-"
\* overpunched; a sign of its own; two nibbles.
Digit(zone, d) == <<zone, d>>
SignByte(neg) == <<"sign", neg>>
Nibbles(hi, lo) == <<"pack", hi, lo>>
SignNibble(type, neg) == IF type = UnsignedPacked THEN "F" ELSE IF neg THEN "D" ELSE "C"

\* How many bytes, and the digits of v, the least significant first.
Occupies(d) == CASE d.type \in {SignedPacked, UnsignedPacked} -> d.len \div 2 + 1
                 [] d.type \in {TrailingSeparate, LeadingSeparate} -> d.len + 1
                 [] OTHER -> d.len
Digits(v, len) == [i \in 0..(len - 1) |-> (v \div Base^i) % Base]

\* Where a digit of a packed string is: i counts from the right, the sign
\* nibble being the low one of the last byte.
PackedByte(d, i) == d.at + d.len \div 2 - (i + 1) \div 2
PackedHigh(i) == i % 2 = 0

\* What is written at each byte of the string, and whether digits were lost.
ZoneOf(d, neg, i) ==
    CASE d.type = SignedZoned /\ neg /\ i = 0 -> "n"
      [] d.type = TrailingOverpunch /\ i = 0 -> IF neg THEN "-" ELSE "+"
      [] d.type = LeadingOverpunch /\ i = d.len - 1 -> IF neg THEN "-" ELSE "+"
      [] OTHER -> "z"
PackedAt(d, v, neg, b) ==
    LET i == 2 * (d.len \div 2 - b)          \* the digit in the high nibble of byte b
        dig(k) == IF k < d.len THEN Digits(v, d.len)[k] ELSE 0
    IN Nibbles(dig(i), IF i = 0 THEN SignNibble(d.type, neg) ELSE dig(i - 1))
ByteAt(d, v, neg, b) ==
    LET first == IF d.type = LeadingSeparate THEN 1 ELSE 0
        i == d.len - 1 - (b - first)
    IN CASE d.type \in {SignedPacked, UnsignedPacked} -> PackedAt(d, v, neg, b)
         [] d.type = LeadingSeparate /\ b = 0      -> SignByte(neg)
         [] d.type = TrailingSeparate /\ b = d.len -> SignByte(neg)
         [] OTHER -> Digit(ZoneOf(d, neg, i), Digits(v, d.len)[i])
dec_write(mem, d, v, neg) ==
    [a \in DOMAIN mem |-> IF a \in d.at .. d.at + Occupies(d) - 1 THEN ByteAt(d, v, neg, a - d.at) ELSE mem[a]]
OverflowsLate(d, v) == v > Base^d.len
Overflows(d, v) == v >= Base^d.len

\* The digits of a string, the sum of their weights and the sign.
NibbleOf(b, high) == IF b[1] = "pack" THEN (IF high THEN b[2] ELSE b[3]) ELSE 0
Weight(S, val) == LET sum[k \in 0..S] == IF k = 0 THEN 0 ELSE sum[k - 1] + val[k - 1] * Base^(k - 1) IN sum[S]
DigitOf(mem, d, i) ==
    LET first == IF d.type = LeadingSeparate THEN 1 ELSE 0
    IN IF d.type \in {SignedPacked, UnsignedPacked}
       THEN NibbleOf(mem[PackedByte(d, i)], PackedHigh(i))
       ELSE mem[d.at + first + d.len - 1 - i][2]
Negative(mem, d) ==
    CASE d.type = SignedPacked -> mem[d.at + d.len \div 2][3] \in {"B", "D"}
      [] d.type = SignedZoned -> d.len > 0 /\ mem[d.at + d.len - 1][1] = "n"
      [] d.type = TrailingOverpunch -> d.len > 0 /\ mem[d.at + d.len - 1][1] = "-"
      [] d.type = LeadingOverpunch -> d.len > 0 /\ mem[d.at][1] = "-"
      [] d.type = TrailingSeparate -> mem[d.at + d.len] = SignByte(TRUE)
      [] d.type = LeadingSeparate -> mem[d.at] = SignByte(TRUE)
      [] OTHER -> FALSE
Magnitude(mem, d) == Weight(d.len, [i \in 0..(d.len - 1) |-> DigitOf(mem, d, i)])
dec_read(mem, d) == IF Negative(mem, d) THEN -Magnitude(mem, d) ELSE Magnitude(mem, d)

Abs(v) == IF v < 0 THEN -v ELSE v
Quo(a, b) == IF (a < 0) = (b < 0) THEN Abs(a) \div Abs(b) ELSE -(Abs(a) \div Abs(b))
dec_cc(v, neg, ovf) == [z |-> Bit(v = 0), n |-> Bit(neg /\ v # 0), v |-> Bit(ovf), c |-> 0]
Stored(mem, d, v) == [mem |-> dec_write(mem, d, Abs(v), v < 0), cc |-> dec_cc(v, v < 0, Overflows(d, Abs(v)))]

\* addn, subn, mulp, divp (and the packed forms of the first two): the second
\* operand comes first; division by 0 stores nothing.
Decimal(op, mem, a, b, c) ==
    LET x == dec_read(mem, a)
        y == dec_read(mem, b)
    IN CASE op = "add" -> Stored(mem, c, y + x)
         [] op = "sub" -> Stored(mem, c, y - x)
         [] op = "mul" -> Stored(mem, c, y * x)
         [] op = "div" /\ x # 0 -> Stored(mem, c, Quo(y, x))
         [] OTHER      -> [mem |-> mem, cc |-> [z |-> 0, n |-> 0, v |-> 1, c |-> 1]]
cmpn(mem, a, b) == [z |-> Bit(dec_read(mem, a) = dec_read(mem, b)), n |-> Bit(dec_read(mem, a) < dec_read(mem, b)), v |-> 0, c |-> 0]

\* ashn, ashp: by powers of Base; the round digit goes in at the last step down.
ShiftedDecimal(v, cnt, rnd) ==
    IF cnt >= 0 THEN v * Base^cnt ELSE ((v \div Base^(-cnt - 1)) + rnd) \div Base
ashn(mem, a, c, cnt, rnd) ==
    LET v == ShiftedDecimal(Magnitude(mem, a), cnt, rnd)
    IN [mem |-> dec_write(mem, c, v, Negative(mem, a)), cc |-> dec_cc(v, Negative(mem, a), Overflows(c, v))]
\* cvtpn, cvtnp: the same with no shift.
cvtpn(mem, a, c) == ashn(mem, a, c, 0, 0)

\* cvtnl, cvtpl: to the two words of a long.
LongMod == WordMod * WordMod
cvtnl(mem, a) ==
    LET v == dec_read(mem, a)
    IN [hi |-> (v \div WordMod) % WordMod, lo |-> v % WordMod,
        cc |-> [z |-> Bit(v = 0), n |-> Bit(v < 0), v |-> Bit(v >= LongMod \div 2 \/ v < -(LongMod \div 2)), c |-> 0]]

\* cvtln, cvtlp: the long is put together in a wider one and is never negative.
cvtln(mem, c, hi, lo) == Stored(mem, c, hi * WordMod + lo)
============================================================================
