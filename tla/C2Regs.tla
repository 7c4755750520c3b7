------------------------------- MODULE C2Regs -------------------------------
(***************************************************************************)
(* What pdp11-c2 knows of registers and constants while it walks through a *)
(* routine, and what it leaves out for it (src/pdp11-c2/c21.c).  k is      *)
(* [regs, conloc, conval, ccloc], each an operand or No: what a register   *)
(* holds, a cell known to hold a constant, what the condition codes are    *)
(* of.  The floating registers, kept the same way, are left out.           *)
(***************************************************************************)
EXTENDS C2List

CONSTANTS
    Regs,       \* r0 to r4, or the first of them, in order
    Reach       \* how far back sob reaches, in bytes (128)

clearreg == [regs |-> [r \in Range(Regs) |-> No], conloc |-> No, conval |-> No, ccloc |-> No]
isreg(o) == o.m = "reg" /\ o.v \in Range(Regs)
natural(o) == o.m \in {"mem", "reg", "con"}
Holds(k, o) == {r \in Range(Regs) : k.regs[r] = o}
findrand(k, o) ==
    LET at == {i \in DOMAIN Regs : k.regs[Regs[i]] = o}
    IN Regs[CHOOSE i \in at : \A j \in at : i <= j]

\* source: an operand that steps its register makes that one unknown.
Steps(o) == o.m = "inc"
Forget(k, rs) == [k EXCEPT !.regs = [r \in Range(Regs) |-> IF r \in rs THEN No ELSE k.regs[r]]]
source(k, o) == IF Steps(o) THEN Forget(k, {o.v}) ELSE k

\* savereg: r holds what o names, unless that steps or goes through a register.
savereg(k, r, o) == IF Steps(o) THEN source(k, o) ELSE [k EXCEPT !.regs[r] = IF o.m = "def" THEN No ELSE o]

\* dest: o is written.  Through a pointer, all but constants become unknown.
Through(o) == o.m \in {"def", "mdef", "inc"}
destNamed(k, o) ==
    LET s == source(k, o)
    IN Forget(s, (IF isreg(o) THEN {o.v} ELSE {}) \union Holds(s, o) \union {r \in Range(Regs) : s.regs[r].m = "mdef" /\ s.regs[r].v = o.v /\ o.m = "mem"})
destKept(k, o) == IF isreg(o) THEN Forget(k, {o.v}) ELSE k
dest(k, o) ==
    IF ~Through(o) THEN destNamed(k, o)
    ELSE [Forget(destNamed(k, o), {r \in Range(Regs) : k.regs[r].m # "con"}) EXCEPT !.conloc = No]

setcon(k, c, o) == IF c.m = "con" /\ natural(o) THEN [k EXCEPT !.conloc = o, !.conval = c] ELSE k
setcc(k, o) == [k EXCEPT !.ccloc = IF natural(o) THEN o ELSE No]
NoCodes(k) == [k EXCEPT !.ccloc = No]

\* repladdr: a register that holds the operand in its place.
repladdr(k, o) == IF o # No /\ Holds(k, o) # {} THEN [m |-> "reg", v |-> findrand(k, o)] ELSE o

\* findcon, compare: 1, 0, or -1 for not known.  Negative constants are names to it.
findcon(k, o) ==
    IF o.m = "con" THEN o ELSE IF isreg(o) THEN k.regs[o.v] ELSE IF o = k.conloc THEN k.conval ELSE o
Known == {"0", "1", "2"}
Octal(o) == CASE o.v = "0" -> 0 [] o.v = "1" -> 1 [] o.v = "2" -> 2
Decide(c, n1, n2) ==
    CASE c = "JEQ" -> n1 = n2 [] c = "JNE" -> n1 # n2 [] c \in {"JLE", "JLOS"} -> n1 <= n2
      [] c \in {"JGE", "JHIS"} -> n1 >= n2 [] c \in {"JLT", "JLO"} -> n1 < n2 [] c \in {"JGT", "JHI"} -> n1 > n2
compare(c, x, y) ==
    IF x.m # "con" \/ y.m # "con" THEN -1
    ELSE IF {x.v, y.v} \subseteq Known THEN (IF Decide(c, Octal(x), Octal(y)) THEN 1 ELSE 0)
    ELSE IF x = y THEN (IF Decide(c, 0, 0) THEN 1 ELSE 0)
    ELSE -1

---------------------------------------------------------------------------
(* rmove at the node at position i; w is [q, i, k, n].  Each of these      *)
(* leaves i at the node the next one follows.                              *)

Codes == {"CBR", "SXT", "CFCC"}
Drop(w) == [w EXCEPT !.q = RemoveAt(w.q, w.i), !.i = @ - 1]
Put(w, op, a, b) == [w EXCEPT !.q[w.i].op = op, !.q[w.i].a = a, !.q[w.i].b = b]

Cleared(w, o) ==
    LET k == dest(w.k, o)
    IN [Put(w, "CLR", o, No) EXCEPT !.k = NoCodes(IF isreg(o) THEN savereg(k, o.v, Zero) ELSE setcon(k, Zero, o))]

RmoveMov(w) ==
    LET n == w.q[w.i] a == n.a b == n.b
        k == dest(w.k, b)
        kept == IF isreg(a) THEN (IF isreg(b) THEN savereg(k, b.v, k.regs[a.v]) ELSE savereg(k, a.v, b))
                ELSE IF isreg(b) THEN savereg(k, b.v, a)
                ELSE setcon(k, a, b)
    IN IF isreg(b) /\ Holds(w.k, a) # {} /\ findrand(w.k, a) = b.v /\ w.q[w.i + 1].op \notin Codes THEN Drop(w)
       ELSE IF a = Zero THEN Cleared(w, b)
       ELSE [Put(w, "MOV", repladdr(w.k, a), b) EXCEPT !.k = setcc(source(kept, a), b)]

Dual == {"ADD", "SUB", "BIC", "BIS", "MUL", "ASH"}
RmoveDual(w) ==
    LET n == w.q[w.i]
    IN IF n.op = "BIC" /\ n.a = Ones THEN Cleared(w, n.b)
       ELSE IF n.op \in {"BIC", "BIS"} /\ n.a = Zero /\ w.q[w.i + 1].op # "CBR" THEN Drop(w)
       ELSE [Put(w, n.op, repladdr(w.k, n.a), n.b) EXCEPT !.k = NoCodes(dest(source(w.k, n.a), n.b))]

Single == {"COM", "INC", "DEC", "NEG", "ASR", "ASL", "SXT"}
RmoveSingle(w) == [w EXCEPT !.k = NoCodes(dest(w.k, w.q[w.i].a))]

RmoveTst(w) ==
    LET o == w.q[w.i].a s == [w EXCEPT !.k = source(w.k, o)]
    IN IF o = w.k.ccloc THEN [Drop(s) EXCEPT !.n = @ + 1] ELSE Put(s, "TST", repladdr(w.k, o), No)

\* cmp and bit; a bit of all ones or of none is a tst.
Tested(a, b) == IF a = Ones THEN b ELSE IF b = Ones THEN a ELSE IF Zero \in {a, b} THEN Zero ELSE No
RmoveCmp(w) ==
    LET n == w.q[w.i] k == source(source(w.k, n.a), n.b)
        t == IF n.op = "BIT" THEN Tested(n.a, n.b) ELSE No
    IN IF t # No THEN [Put(w, "TST", repladdr(k, t), No) EXCEPT !.k = NoCodes(k), !.n = @ + 1]
       ELSE [Put(w, n.op, repladdr(k, n.a), repladdr(k, n.b)) EXCEPT !.k = NoCodes(k)]

\* A conditional jump after a tst or cmp of constants: never, or always.
Decided(s, i, k) ==
    IF s[i - 1].op = "TST" THEN compare(s[i].sub, findcon(k, s[i - 1].a), Zero)
    ELSE IF s[i - 1].op = "CMP" THEN compare(s[i].sub, findcon(k, s[i - 1].a), findcon(k, s[i - 1].b))
    ELSE -1
Never(w) ==
    LET both == w.q[w.i + 1].op \notin Codes
        s == IF both THEN RemoveAt(RemoveAt(w.q, w.i), w.i - 1) ELSE RemoveAt(w.q, w.i)
        t == IF Ref(w.q, w.i) = 0 THEN s ELSE decref(s, w.q[w.i].lab)
        back == w.q[w.i - 2].id
    IN [w EXCEPT !.q = t, !.n = @ + 1, !.i = IF \E x \in DOMAIN t : t[x].id = back THEN At(t, back) ELSE At(t, w.q[w.i - 3].id)]
Always(w) == [w EXCEPT !.q = RemoveAt([w.q EXCEPT ![w.i].op = "JBR", ![w.i].sub = ""], w.i - 1), !.i = @ - 2, !.n = @ + 1]
RmoveCbr(w) ==
    LET d == Decided(w.q, w.i, w.k) s == [w EXCEPT !.k = NoCodes(w.k)]
    IN CASE d = -1 -> s [] d = 0 -> Never(s) [] d = 1 -> Always(s)

\* redunbr: a jump to a test whose outcome is known here goes where that goes.
redunbr(w) ==
    LET i == w.i r == Ref(w.q, i)
        t == IF r = 0 THEN 0 ELSE nonlab(w.q, r)
        lab == w.q[t + 1].lab
    IN IF r = 0 \/ w.q[t].op \notin {"TST", "CMP"} \/ w.q[t + 1].op # "CBR" \/ Decided(w.q, t + 1, w.k) # 1 THEN w
       ELSE LET p == w.q[i].id s == Incref(decref([w.q EXCEPT ![i].lab = lab], w.q[i].lab), lab)
            IN [w EXCEPT !.q = s, !.i = At(s, p), !.n = @ + 1]

RmoveNode(w) ==
    LET n == w.q[w.i]
    IN CASE n.op = "MOV" /\ n.sub # "BYTE" -> RmoveMov(w)
         [] n.op \in Dual \/ (n.op = "MOV" /\ n.sub = "BYTE") -> RmoveDual(w)
         [] n.op = "CLR" -> Cleared(w, n.a)
         [] n.op \in Single -> RmoveSingle(w)
         [] n.op = "TST" -> RmoveTst(w)
         [] n.op \in {"CMP", "BIT"} -> RmoveCmp(w)
         [] n.op = "CBR" -> RmoveCbr(w)
         [] n.op = "JBR" -> [redunbr(w) EXCEPT !.k = clearreg]
         [] OTHER -> [w EXCEPT !.k = clearreg]
Onward(w) == IF w.i >= Len(w.q) THEN [w EXCEPT !.on = FALSE] ELSE [w EXCEPT !.i = @ + 1]
RmoveOne(w) == Onward(RmoveNode(w))
rmove(s, k) == While(RmoveOne, [q |-> s, i |-> 2, k |-> k, n |-> 0, on |-> TRUE], 2 * Len(s))

---------------------------------------------------------------------------
(* jumpsw and addsob.                                                      *)

Abs(x) == IF x < 0 THEN -x ELSE x
\* jumpsw: of two jumps in a row, the conditional one gets the nearer target.
Reversible(s, i) ==
    /\ i < Len(s) /\ s[i].op = "CBR" /\ s[i + 1].op = "JBR"
    /\ Ref(s, i) # 0 /\ Ref(s, i + 1) # 0 /\ Ref(s, i) # Ref(s, i + 1)
    /\ Abs(i - Ref(s, i)) > Abs(i + 1 - Ref(s, i + 1))
jumpsw(s) ==
    [i \in DOMAIN s |->
        IF Reversible(s, i) THEN [s[i] EXCEPT !.sub = revbr[@], !.lab = s[i + 1].lab]
        ELSE IF i > 1 /\ Reversible(s, i - 1) THEN [s[i] EXCEPT !.lab = s[i - 1].lab]
        ELSE s[i]]

\* addsob: a dec and jne over less than Reach bytes become one instruction.
adrlen(o) == IF o.m \in {"no", "reg", "def", "inc"} THEN 0 ELSE 2
ilen(n) == IF n.op \in {"LABEL", "TEXT", "EROU"} THEN 0 ELSE IF n.op = "CBR" THEN 6 ELSE 2 + adrlen(n.a) + adrlen(n.b)
Length(s, i, j) == LET sum[x \in i..j] == IF x = j THEN 0 ELSE ilen(s[x]) + sum[x + 1] IN sum[i]
toofar(s, i) == Length(s, Ref(s, i), i) >= Reach
SobAt(s) == {i \in 1..(Len(s) - 1) : s[i].op = "DEC" /\ isreg(s[i].a) /\ s[i + 1].op = "CBR" /\ s[i + 1].sub = "JNE"
                                     /\ Ref(s, i + 1) \in 1..i /\ ~toofar(s, i + 1)}
AddOneSob(w) ==
    IF SobAt(w.q) = {} THEN [w EXCEPT !.on = FALSE]
    ELSE LET i == CHOOSE x \in SobAt(w.q) : \A y \in SobAt(w.q) : x <= y
         IN [w EXCEPT !.q = RemoveAt([w.q EXCEPT ![i].op = "SOB", ![i].lab = w.q[i + 1].lab], i + 1)]
addsob(s) == While(AddOneSob, [q |-> s, on |-> TRUE], Len(s)).q
=============================================================================
