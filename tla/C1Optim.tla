------------------------------ MODULE C1Optim ------------------------------
(***************************************************************************)
(* The second pass's expression optimizer: optim and all it calls turn a   *)
(* tree into one that is cheaper and of the forms the code tables know.    *)
(* Expressions over ints, unsigneds, longs, chars, pointers and bit        *)
(* fields; no floating types, calls or structures.                         *)
(***************************************************************************)
EXTENDS CTrees

CONSTANTS
    Exprs,      \* the trees the first pass hands over
    Memories,   \* what the machine holds: [reg, mem, sym]
    LSTSIZ      \* operands one sum can be

VARIABLES expr, tree, done

vars == <<expr, tree, done>>

---------------------------------------------------------------------------
maprel == [EQUAL |-> "EQUAL", NEQUAL |-> "NEQUAL", LESSEQ |-> "GREATEQ", LESS |-> "GREAT", GREATEQ |-> "LESSEQ", GREAT |-> "LESS",
           LESSEQP |-> "GREATQP", LESSP |-> "GREATP", GREATQP |-> "LESSEQP", GREATP |-> "LESSP"]
notrel == [EQUAL |-> "NEQUAL", NEQUAL |-> "EQUAL", LESSEQ |-> "GREAT", LESS |-> "GREATEQ", GREATEQ |-> "LESS", GREAT |-> "LESSEQ",
           LESSEQP |-> "GREATP", LESSP |-> "GREATQP", GREATQP |-> "LESSP", GREATP |-> "LESSEQP"]

islong(type) == IF type = "LONG" THEN 2 ELSE 1
Greater(a, b) == IF a > b THEN a ELSE b

\* isconstant: the constant a node is, itself or widened.
isconstant(t) == IF t.op = "CON" THEN t ELSE IF t.op = "ITOL" /\ t.tr1.op = "CON" THEN t.tr1 ELSE nil

\* Registers a node needs, the constants and the cheap widenings first.
degree(t) ==
    CASE t.op = "nil" -> 0
      [] t.op = "CON" -> -3
      [] t.op = "AMPER" -> -2
      [] t.op = "ITOL" /\ t.tr1.op = "CON" /\ (t.tr1.value >= 0 \/ t.tr1.type = "UNSIGN") -> -2
      [] t.op = "ITOL" /\ t.tr1.type = "UNSIGN" /\ t.tr1.op \in opdope.LEAF -> -1
      [] t.op \in opdope.LEAF -> IF t.type = "CHAR" THEN 1 ELSE 0
      [] OTHER -> t.degree

\* How hard an operand is to address.
dcalc(t) ==
    CASE t.op = "NAME" /\ t.at.class = "REG" -> 9
      [] t.op \in {"NAME", "AMPER", "LCON", "AUTOI", "AUTOD"} -> 12
      [] t.op = "CON" -> IF t.value \in {0, 1} THEN 4 + t.value ELSE IF t.value > 0 THEN 8 ELSE 12
      [] t.op = "STAR" /\ t.tr1.op \in {"NAME", "CON", "AUTOI", "AUTOD"} /\ t.type # "LONG" -> 12
      [] OTHER -> IF t.degree <= (IF t.type = "LONG" THEN -1 ELSE 0) THEN 20 ELSE 24

---------------------------------------------------------------------------
(* The host's arithmetic on constants, in C's int and long: wide enough    *)
(* for what Exprs can make of them, so only the operators need care.       *)

HostBits == 4 * Bits
Host(v) == v % (2 ^ HostBits)
Back(u) == IF u >= 2 ^ (HostBits - 1) THEN u - (2 ^ HostBits) ELSE u
Folded(op, v, w) ==
    CASE op = "PLUS" -> v + w [] op = "MINUS" -> v - w
      [] op \in {"TIMES", "LTIMES"} -> v * w
      [] op \in {"DIVIDE", "LDIV"} -> IF w = 0 THEN v ELSE Quotient(v, w)
      [] op \in {"MOD", "LMOD"} -> IF w = 0 THEN v ELSE Remainder(v, w)
      [] op = "AND" -> Back(Host(v) & Host(w)) [] op = "ANDN" -> Back(Host(v) & Host(HostNot(w)))
      [] op = "OR" -> Back(Host(v) | Host(w)) [] op = "EXOR" -> Back(Host(v) ^^ Host(w))
      [] op = "LSHIFT" -> v * (2 ^ w) [] op = "RSHIFT" -> v \div (2 ^ w)
constfold(op, v, w) == IF op = "PTOI" THEN Host(v) \div w ELSE Folded(op, v, w)

\* lconst: a long operator whose operands are both long constants.
LongOps == {"PLUS", "MINUS", "TIMES", "LTIMES", "DIVIDE", "LDIV", "MOD", "LMOD", "AND", "ANDN", "OR", "EXOR", "LSHIFT", "RSHIFT"}
lconst(op, l, r) ==
    IF IsLong(l) /\ IsLong(r) /\ op \in LongOps THEN Leaf("LCON", "LONG", Folded(op, LongOf(l), LongOf(r))) ELSE nil

ispow2(t) == t.tr2.op = "CON" /\ t.tr2.value > 1 /\ \E i \in 1..HostBits : t.tr2.value = 2 ^ i
Log2(t) == CHOOSE i \in 1..HostBits : t.tr2.value = 2 ^ i

---------------------------------------------------------------------------
(* optim calls all the rest, and all of them call it.                      *)

RECURSIVE optim(_), Again(_, _), unoptim(_), insert(_, _, _), distrib(_)

pow2(t) ==
    LET i == Log2(t)
        As(op, v) == optim([t EXCEPT !.op = op, !.tr2.value = v]) IN
    CASE t.op = "TIMES" -> As("LSHIFT", i) [] t.op = "ASTIMES" -> As("ASLSH", i)
      [] t.op = "DIVIDE" -> As("ULSH", -i) [] t.op = "ASDIV" -> As("ASULSH", -i)
      [] t.op = "MOD" -> As("AND", 2 ^ i - 1) [] t.op = "ASMOD" -> As("ASAND", 2 ^ i - 1)

hardlongs(t) ==
    CASE t.op \in {"TIMES", "DIVIDE", "MOD"} -> optim([t EXCEPT !.op = [TIMES |-> "LTIMES", DIVIDE |-> "LDIV", MOD |-> "LMOD"][@]])
      [] t.op \in {"ASTIMES", "ASDIV", "ASMOD"} ->
            optim([t EXCEPT !.op = [ASTIMES |-> "LASTIMES", ASDIV |-> "LASDIV", ASMOD |-> "LASMOD"][@], !.tr1 = tnode("AMPER", "PTR", @, nil)])
      [] OTHER -> t

\* select(x) op= y becomes select(x op= select(y)), the shifts and masks chosen.
lvfield(t) ==
    LET sel == t.tr1
        mask == (2 ^ sel.tr2.tr1.value - 1) * 2 ^ sel.tr2.tr2.value
        asg == IF t.op = "ASSIGN" THEN [t EXCEPT !.op = "FSELA", !.type = "UNSIGN", !.value = mask] ELSE t IN
    optim(tnode("FSELT", "UNSIGN", [asg EXCEPT !.tr1 = sel.tr1, !.tr2 = [sel EXCEPT !.op = "FSELR", !.tr1 = t.tr2]], sel.tr2))

---------------------------------------------------------------------------
(* Commutative operators: the operands of one operator are put in a list,  *)
(* hardest first and constants last; n holds the operator's nodes, l the   *)
(* operands.                                                               *)

\* An operand goes before the first easier one, which goes on down the list.
Put(l, t) ==
    LET Carry(acc, x) == IF degree(x) < degree(acc.t) THEN [l |-> Append(acc.l, acc.t), t |-> x] ELSE [acc EXCEPT !.l = Append(@, x)]
        end == FoldLeft(Carry, [l |-> <<>>, t |-> t], l) IN
    Append(end.l, end.t)

\* c1*(x+c2) -> c1*x+c1*c2
Distributes(t) ==
    /\ t.op \in {"TIMES", "LSHIFT"} /\ t.tr2.op = "CON" /\ t.tr2.value > 0
    /\ t.tr1.op = "PLUS" /\ t.tr1.tr2.op = "CON"
Distributed(t) ==
    [t EXCEPT !.op = "PLUS", !.tr1.op = t.op, !.tr1.tr2.value = t.tr2.value,
              !.tr2.value = IF t.op = "TIMES" THEN @ * t.tr1.tr2.value ELSE t.tr1.tr2.value * (2 ^ @)]
Inserted(op, t, acl) ==
    CASE t.op = op /\ Len(acl.n) < LSTSIZ - 2 -> insert(op, t.tr2, insert(op, t.tr1, [acl EXCEPT !.n = Append(@, t)]))
      [] ~(t.op = op /\ Len(acl.n) < LSTSIZ - 2) /\ Distributes(t) ->
            IF op = "PLUS" THEN insert(op, optim(Distributed(t)), acl) ELSE [acl EXCEPT !.l = Put(@, optim(Distributed(t)))]
      [] OTHER -> [acl EXCEPT !.l = Put(@, t)]
insert(op, t, acl) == Inserted(op, IF t.op # op THEN optim(t) ELSE t, acl)

\* "put constants together": the last two operands while both are constants.
RECURSIVE Together(_, _)
Together(op, l) ==
    LET n == Len(l) IN
    CASE n > 1 /\ l[n].op = "CON" /\ l[n - 1].op = "CON" -> Together(op, Append(SubSeq(l, 1, n - 2), [l[n - 1] EXCEPT !.value = constfold(op, @, l[n].value)]))
      [] n > 1 /\ lconst(op, l[n - 1], l[n]).op # "nil" -> Together(op, Append(SubSeq(l, 1, n - 2), lconst(op, l[n - 1], l[n])))
      [] OTHER -> l

Zero(l) == (Len(l) > 1 /\ isconstant(Last(l)).op = "CON" /\ isconstant(Last(l)).value = 0) \/ (Last(l).op = "LCON" /\ Last(l).value = 0)
\* "&x+c" is one operand.
Subsumed(op, l) ==
    LET n == Len(l) IN
    IF op = "PLUS" /\ n > 1 /\ l[n].op = "CON" /\ l[n - 1].op = "AMPER"
    THEN Append(SubSeq(l, 1, n - 2), [l[n - 1] EXCEPT !.tr1.at.offset = @ + l[n].value]) ELSE l
Trimmed(op, l) ==
    CASE op \in {"PLUS", "OR"} -> IF Zero(l) /\ Len(l) = 2 THEN Front(l) ELSE Subsumed(op, IF Zero(l) THEN Front(l) ELSE l)
      [] op = "TIMES" /\ Last(l).op = "CON" /\ Last(l).value = 1 /\ Len(l) > 1 -> Front(l)
      [] OTHER -> l

\* The operators built up again, from the left, over the operands in their order.
Negated(c) == IF c.op = "CON" THEN [c EXCEPT !.value = -@] ELSE [c EXCEPT !.tr1.value = -@]
Longer(t) ==
    CASE t.type = "LONG" /\ t.op = "TIMES" -> hardlongs(t)
      [] t.type = "LONG" /\ t.op = "PLUS" /\ isconstant(t.tr1).op = "CON" /\ isconstant(t.tr1).value < 0 /\ isconstant(t.tr1).type # "UNSIGN" ->
            [t EXCEPT !.op = "MINUS", !.tr1 = t.tr2, !.tr2 = Negated(t.tr1)]
      [] OTHER -> t
Degrees(d, e, type) == IF d = e THEN d + islong(type) ELSE Greater(d, e)
Joined(op, node, acc, t, e) ==
    [t |-> Longer([node EXCEPT !.tr1 = acc.t, !.tr2 = t, !.degree = Degrees(acc.d, e, node.type)]), d |-> Degrees(acc.d, e, node.type)]
Built(op, n, l, type) ==
    LET Join(acc, i) ==
            IF op = "EXOR" /\ dcalc(l[i + 1]) <= 12
            THEN LET t == optim(tnode("LOAD", l[i + 1].type, l[i + 1], nil)) IN Joined(op, n[i], acc, t, t.degree)
            ELSE Joined(op, n[i], acc, l[i + 1], degree(l[i + 1])) IN
    FoldLeft(Join, [t |-> l[1], d |-> Greater(degree(l[1]), islong(l[1].type)) + (IF op = "TIMES" THEN 1 ELSE 0)], [i \in 1..(Len(l) - 1) |-> i]).t
Power(t) == IF t.op = "TIMES" /\ ispow2(t) THEN [t EXCEPT !.degree = Greater(degree(t.tr1), islong(t.type))] ELSE t

\* A sum that is one operand has the sum's type.
Alone(t, type) == IF t.type = "CHAR" THEN tnode("LOAD", type, t, nil) ELSE [t EXCEPT !.type = type]
Combined(t, n, l) ==
    CASE t.op \in {"PLUS", "OR"} /\ (Len(l) = 1 \/ (Zero(l) /\ Len(l) = 2)) -> Alone(l[1], t.type)
      [] t.op \in {"TIMES", "AND"} /\ Last(l).op = "CON" /\ Last(l).value = 0 -> Last(l)
      [] t.op = "TIMES" /\ Len(l) = 2 /\ Last(l).op = "CON" /\ Last(l).value = 1 -> IF t.type = "UNSIGN" THEN [l[1] EXCEPT !.type = t.type] ELSE l[1]
      [] OTHER -> LET a == IF t.op = "PLUS" THEN distrib([n |-> n, l |-> Trimmed(t.op, l)]) ELSE [n |-> n, l |-> Trimmed(t.op, l)] IN
                  Power(Built(t.op, a.n, a.l, t.type))
acommute(t) == LET acl == insert(t.op, t, [n |-> <<>>, l |-> <<>>]) IN Combined(t, acl.n, Together(t.op, acl.l))

\* c1c2*x + c1*y -> c1*(y+c2*x), until there is no such pair.
Less(l, i) == [j \in 1..(Len(l) - 1) |-> IF j < i THEN l[j] ELSE l[j + 1]]      \* squash
distrib(acl) ==
    LET l == acl.l
        Products == {i \in DOMAIN l : l[i].op = "TIMES" /\ l[i].tr2.op = "CON"}
        Val(i) == l[i].tr2.value
        Multiples(i) == {j \in Products \ {i} : Remainder(Val(j), Val(i)) = 0}
        Divisors(i) == {j \in Products \ {i} : Remainder(Val(i), Val(j)) = 0}
        Same == {i \in Products : Multiples(i) # {} /\ Val(Min(Multiples(i))) = Val(i)}
        Dividends == {i \in Products : Multiples(i) = {} /\ Divisors(i) # {}} IN
    CASE Same # {} ->
            LET i == Min(Same)
                j == Min(Multiples(i)) IN
            distrib([acl EXCEPT !.l = Less([l EXCEPT ![i] = optim([@ EXCEPT !.tr1 = [l[j] EXCEPT !.op = "PLUS", !.tr2 = l[i].tr1]])], j)])
      [] Same = {} /\ Dividends # {} ->
            LET fewest == Min({Cardinality(Divisors(i)) : i \in Dividends})
                i == Min({k \in Dividends : Cardinality(Divisors(k)) = fewest})
                j == Max(Divisors(i))
                sum == [Last(acl.n) EXCEPT !.op = "PLUS", !.type = l[i].type, !.tr1 = [l[i] EXCEPT !.tr2.value = Quotient(@, Val(j))], !.tr2 = l[j].tr1] IN
            distrib([n |-> Front(acl.n), l |-> Less([l EXCEPT ![Min({i, j})] = optim([l[j] EXCEPT !.tr1 = sum])], Max({i, j}))])
      [] OTHER -> acl

---------------------------------------------------------------------------
(* Unary operators.                                                        *)

Narrowed(p, type) == tnode("LTOI", type, p, nil)
Narrow(t, p) ==      \* LTOI of p
    CASE p.op = "LCON" -> [p EXCEPT !.op = "CON", !.type = t.type]
      [] p.op = "NAME" -> [p EXCEPT !.at.offset = @ + 2, !.type = t.type]
      [] p.op = "STAR" -> optim([p EXCEPT !.type = t.type, !.tr1 = tnode("PLUS", t.type, [@ EXCEPT !.type = "PTR"], tconst(2, "INT"))])
      [] p.op = "ITOL" -> p.tr1
      [] p.op \in {"PLUS", "MINUS", "AND", "ANDN", "OR", "EXOR"} ->
            optim([p EXCEPT !.type = t.type, !.tr1 = Narrowed(@, t.type), !.tr2 = Narrowed(@, t.type)])
      [] p.op \in {"NEG", "COMPL"} -> optim([p EXCEPT !.type = t.type, !.tr1 = Narrowed(@, t.type)])
      [] OTHER -> nil

At(p, type, class, reg, offset) == [p EXCEPT !.type = type, !.at = [class |-> class, reg |-> reg, offset |-> offset]]
\* *p where the machine has an addressing mode for it.
Indirect(t, p) ==
    CASE p.op = "AMPER" -> [p.tr1 EXCEPT !.type = t.type]
      [] Named(p, "REG") -> At(p, t.type, "OFFS", p.at.reg, p.at.offset)
      [] p.op \in {"INCAFT", "DECBEF"} /\ t.type # "LONG" /\ Named(p.tr1, "REG") /\ p.tr1.type = p.type ->
            [p.tr1 EXCEPT !.type = t.type, !.op = IF p.op = "INCAFT" THEN "AUTOI" ELSE "AUTOD"]
      [] p.op = "PLUS" /\ Named(p.tr1, "REG") /\ p.tr2.op = "CON" -> At(p.tr1, t.type, "OFFS", p.tr1.at.reg, p.tr1.at.offset + p.tr2.value)
      [] p.op = "PLUS" /\ Named(p.tr1, "REG") /\ p.tr2.op = "AMPER" -> At(p.tr2.tr1, t.type, "XOFFS", p.tr1.at.reg, p.tr2.tr1.at.offset)
      [] OTHER -> nil
Address(t, p) ==     \* &p
    CASE p.op = "STAR" -> p.tr1
      [] Named(p, "OFFS") -> optim(tnode("PLUS", t.type, At(p, t.type, "REG", p.at.reg, 0), tconst(p.at.offset, "INT")))
      [] OTHER -> nil

\* -p or ~p; ~ of a signed widening is the widening of ~.
Inverted(t, p) ==
    CASE p.op = t.op -> p.tr1
      [] p.op \in {"CON", "LCON"} -> [p EXCEPT !.value = Complemented(t.op, @)]
      [] p.op = "ITOL" /\ p.tr1.op = "CON" -> Leaf("LCON", "LONG", Complemented(t.op, IF p.tr1.type = "UNSIGN" THEN Unsigned(p.tr1.value) ELSE p.tr1.value))
      [] p.op = "ITOL" /\ p.tr1.op # "CON" /\ t.op = "COMPL" /\ p.tr1.type # "UNSIGN" ->
            unoptim([p EXCEPT !.type = "LONG", !.tr1 = tnode("COMPL", p.tr1.type, p.tr1, nil)])
      [] OTHER -> nil
\* A select is a shift and a mask, of what is selected or to be put there.
Mask(t) == tconst(2 ^ t.tr2.tr1.value - 1, "INT")
Select(t, p) ==
    IF t.op = "FSEL" THEN optim([t EXCEPT !.op = "AND", !.tr1 = Mask(t), !.tr2 = [@ EXCEPT !.op = "RSHIFT", !.tr1 = p]])
    ELSE optim([t EXCEPT !.op = "LSHIFT", !.type = "UNSIGN", !.tr1 = [t.tr2 EXCEPT !.op = "AND", !.tr1 = Mask(t), !.tr2 = p], !.tr2 = t.tr2.tr2])

\* What a unary operator over the optimized p becomes; nil where it stays.
Becomes(t, p) ==
    CASE t.op = "ITOL" /\ p.op = "CON" /\ p.type = "INT" /\ p.value < 0 -> Leaf("LCON", "LONG", p.value)
      [] t.op = "LTOI" -> Narrow(t, p)
      [] t.op = "ITOC" /\ p.op = "CON" -> [p EXCEPT !.value = Widened(@, Half)]
      [] t.op = "ITOC" /\ p.op = "NAME" -> [p EXCEPT !.type = "CHAR"]
      [] t.op \in {"FSEL", "FSELR"} -> Select(t, p)
      [] t.op = "AMPER" -> Address(t, p)
      [] t.op = "STAR" -> Indirect(t, p)
      [] t.op = "EXCLA" /\ p.op \in opdope.RELAT -> [p EXCEPT !.op = notrel[@]]
      [] t.op \in {"NEG", "COMPL"} -> Inverted(t, p)
      [] OTHER -> nil
Stays(t) == [t EXCEPT !.degree = Greater(islong(t.type), degree(t.tr1)), !.type = IF t.op \in {"NEG", "COMPL"} /\ @ = "CHAR" THEN "INT" ELSE @]
Settled(t, p) == IF Becomes(t, p).op = "nil" THEN Stays([t EXCEPT !.tr1 = p]) ELSE Becomes(t, p)
unoptim(t) ==
    IF t.op = "AMPER" /\ t.tr1.op = "STAR" THEN optim([t.tr1.tr1 EXCEPT !.type = t.type])
    ELSE Settled(t, optim(t.tr1))

---------------------------------------------------------------------------
(* Binary operators.                                                       *)

\* The operators the code tables do not have, put in terms of those they do.
Prepared(t) ==
    CASE t.op = "ASAND" -> [t EXCEPT !.op = "ASANDN", !.tr2 = tnode("COMPL", @.type, @, nil)]
      [] t.op = "LTOP" -> [t EXCEPT !.op = "TIMES", !.tr1 = unoptim(tnode("LTOI", "INT", @, nil))]
      [] t.op = "ITOP" -> [t EXCEPT !.op = "TIMES"]
      [] t.op = "MINUS" /\ isconstant(t.tr2).op = "CON" /\ (isconstant(t.tr2).type # "UNSIGN" \/ t.type # "LONG") ->
            [t EXCEPT !.op = "PLUS", !.tr2 = Negated(@)]
      [] OTHER -> t

\* "replace a&b by a ANDN ~b", unless a long is masked by what fits a word.
Masked(t) ==
    LET r == t.tr2
        s == IF IsLong(t.tr1) THEN [t EXCEPT !.tr1 = t.tr2, !.tr2 = t.tr1] ELSE t IN
    IF t.type = "LONG" /\ r.op = "ITOL" /\ ((r.tr1.op = "CON" /\ r.tr1.value >= 0) \/ r.tr1.type = "UNSIGN")
    THEN optim([r EXCEPT !.tr1 = [t EXCEPT !.type = "UNSIGN", !.tr1 = Narrowed(@, "UNSIGN"), !.tr2 = r.tr1]])
    ELSE Again([s EXCEPT !.op = "ANDN", !.tr2 = tnode("COMPL", @.type, @, nil)], "ANDN")
Commuted(t, a) == IF a.op = "AND" THEN Masked([a EXCEPT !.type = t.type]) ELSE IF a.op = t.op THEN [a EXCEPT !.type = t.type] ELSE a
Binary(t) ==
    CASE t.op \in opdope.LVALUE /\ t.tr1.op = "FSEL" -> lvfield(t)
      [] t.op \in opdope.COMMUTE -> Commuted(t, acommute(t))
      [] OTHER -> Again(t, t.op)
optim(t) ==
    CASE t.op = "nil" -> t
      [] t.op = "NAME" /\ t.at.class = "AUTO" -> [t EXCEPT !.at = [class |-> "OFFS", reg |-> 5, offset |-> @.offset]]
      [] t.op \in opdope.LEAF /\ ~Named(t, "AUTO") -> t
      [] t.op \in opdope.UNARY -> unoptim(t)
      [] OTHER -> Binary(Prepared(IF t.type = "CHAR" THEN [t EXCEPT !.type = "INT"] ELSE t))

\* A relation's harder side goes left; a constant compared with a char is one.
CharCon(t) ==
    IF /\ t.tr1.type = "CHAR" /\ t.tr2.op = "CON" /\ (dcalc(t.tr1) <= 12 \/ t.tr1.op = "STAR")
       /\ t.tr2.value \in 0..(2 ^ (Half - 1) - 1)
    THEN [t EXCEPT !.tr2.type = "CHAR"] ELSE t
Turned(t) ==
    IF degree(t.tr1) < degree(t.tr2) \/ (degree(t.tr1) = degree(t.tr2) /\ t.tr1.op = "NAME" /\ t.tr2.op # "NAME")
    THEN [t EXCEPT !.tr1 = t.tr2, !.tr2 = t.tr1, !.op = maprel[@]] ELSE t

Degree(t, d1, d2) == [t EXCEPT !.degree = Degrees(d1, d2, t.type)]
Relation(t, op, d1, d2) ==
    CASE ~(t.tr1.op \in opdope.RELAT /\ t.tr2.op = "CON" /\ t.tr2.value = 0) -> Degree(t, IF t.tr1.type = "LONG" THEN 10 ELSE d1, d2)
      [] op = "GREATEQ" -> tconst(1, "INT")
      [] op = "LESS" -> tconst(0, "INT")
      [] op \in {"LESSEQ", "EQUAL"} -> [t.tr1 EXCEPT !.op = notrel[@]]
      [] OTHER -> t.tr1
Constant(t, op, d1, d2) ==
    IF t.tr1.op = "CON" /\ t.tr2.op = "CON" THEN [t.tr1 EXCEPT !.value = constfold(op, @, t.tr2.value)] ELSE Degree(t, d1, d2)

\* Right shifts are negative left shifts, but for one by a signed 1.
Once == {"DIVIDE", "ASDIV", "ASTIMES", "PTOI"}      \* by 1, nothing
Dividing == Once \cup {"MOD", "ASMOD"}
Right == [RSHIFT |-> "LSHIFT", ASRSH |-> "ASLSH"]
Leftward(t, op) ==
    Again([t EXCEPT !.op = IF t.tr1.type # "UNSIGN" THEN Right[op] ELSE [RSHIFT |-> "ULSH", ASRSH |-> "ASULSH"][op], !.tr2 = tnode("NEG", t.type, @, nil)], Right[op])
\* The switch of optim, on the operator as it was before a relation was turned.
Switch(t, op, d1, d2) ==
    LET Is(v) == t.tr2.op = "CON" /\ t.tr2.value = v
        one == IF t.type = "LONG" THEN 1 ELSE 0 IN
    CASE op = "FSELA" /\ Is(0) -> optim([t EXCEPT !.op = "ASAND", !.tr2.value = HostNot(t.value)])
      [] op = "FSELA" /\ ~Is(0) /\ Is(t.value) -> optim([t EXCEPT !.op = "ASOR"])
      [] op = "FSELA" /\ ~Is(0) /\ ~Is(t.value) -> [t EXCEPT !.degree = 10]
      [] op \in {"QUEST", "COLON"} -> [t EXCEPT !.degree = Greater(d1, d2)]
      [] op \in {"LTIMES", "LDIV", "LMOD", "LASTIMES", "LASDIV", "LASMOD"} -> [t EXCEPT !.degree = 10]
      [] op = "ANDN" /\ isconstant(t.tr2).op = "CON" /\ isconstant(t.tr2).value = 0 -> t.tr1
      [] op \in Once /\ Is(1) -> t.tr1
      [] op \in Dividing \ (IF Is(1) THEN Once ELSE {}) /\ t.tr1.type = "UNSIGN" /\ ispow2(t) -> pow2(t)
      [] op \in Dividing \ (IF Is(1) THEN Once ELSE {}) /\ ~(t.tr1.type = "UNSIGN" /\ ispow2(t)) ->
            IF t.type = "LONG" THEN hardlongs(t) ELSE Constant(t, op, d1 + 2, d2 + 2)
      [] op \in {"ULSH", "ASULSH"} -> IF t.type = "LONG" THEN t ELSE Constant(t, op, d1 + 2, d2 + 2)
      [] op \in {"LSHIFT", "ASLSH", "RSHIFT", "ASRSH"} /\ Is(0) -> t.tr1
      [] \/ op \in {"LSHIFT", "ASLSH"} /\ ~Is(0)
         \/ op \in {"RSHIFT", "ASRSH"} /\ Is(1) /\ t.tr1.type # "UNSIGN" -> Constant(t, op, d1 + one, d2 + one)
      [] op \in {"RSHIFT", "ASRSH"} /\ ~Is(0) /\ ~(Is(1) /\ t.tr1.type # "UNSIGN") -> Leftward(t, op)
      [] op \in opdope.RELAT -> Relation(t, op, d1, d2)
      [] OTHER -> Degree(t, d1, d2)
Ready(t, op) ==
    IF t.type = "LONG" /\ lconst(t.op, t.tr1, t.tr2).op # "nil" THEN lconst(t.op, t.tr1, t.tr2)
    ELSE LET u == IF t.op \in opdope.RELAT THEN CharCon(Turned(t)) ELSE t IN
         Switch(u, op, Greater(degree(u.tr1), islong(u.type)), Greater(degree(u.tr2), 0))
Again(t, op) == Ready([t EXCEPT !.tr1 = optim(@), !.tr2 = optim(@)], op)

---------------------------------------------------------------------------
Init == expr \in Exprs /\ tree = expr /\ done = FALSE
Optimize == ~done /\ done' = TRUE /\ tree' = optim(expr) /\ UNCHANGED expr
Next == Optimize
Spec == Init /\ [][Next]_vars

---------------------------------------------------------------------------
(* The optimizer keeps what an expression means: for every memory, the     *)
(* tree it makes has the same value and leaves the same memory.            *)
Same(u, v, type) == IF type = "LONG" THEN Wide(u) = Wide(v) ELSE Unsigned(u) = Unsigned(v)
ValueKept ==
    done => \A m \in Memories :
        /\ After(tree, m) = After(expr, m)
        /\ expr.op \in opdope.LVALUE \/ Same(Value(tree, m), Value(expr, m), expr.type)
=============================================================================
