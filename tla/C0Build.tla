------------------------------ MODULE C0Build ------------------------------
(***************************************************************************)
(* The first pass's typing of expressions: build makes each node, putting  *)
(* in the conversions of its operands, and fold does constants.  treeout   *)
(* hands the tree to the second pass.                                      *)
(*                                                                         *)
(* What the parser calls build with is itself a tree, of the operators the *)
(* source has: casts are CAST of a typed node and an operand, members are  *)
(* names of class MOS, with value the width of a field and reg its bit.    *)
(***************************************************************************)
EXTENDS CTrees

CONSTANTS
    Sources,    \* expressions
    Contents    \* memories

VARIABLES source, built

vars == <<source, built>>

decref == [PINT |-> "INT", PUNSIGN |-> "UNSIGN", PCHAR |-> "CHAR", PLONG |-> "LONG", PPINT |-> "PINT", PS |-> "S", PAINT |-> "AINT", AINT |-> "INT"]
Pointers == {"PINT", "PUNSIGN", "PCHAR", "PLONG", "PPINT", "PS", "PAINT"}
Arrays == {"AINT"}
incref(t) == CHOOSE p \in Pointers : decref[p] = t
length(t) == CASE t \in Arrays -> 3 * SizeOf(decref[t]) [] t = "S" -> 8 [] OTHER -> SizeOf(t)
plength(t) == IF t \in Pointers THEN length(decref[t]) ELSE 1

---------------------------------------------------------------------------
(* Conversions.                                                            *)

\* lintyp and cvtab: what the left and the right operand need.
lintyp(t) == CASE t \in {"INT", "CHAR", "UNSIGN"} -> 1 [] t = "LONG" -> 2 [] OTHER -> 3
cvtab == << << <<"", "">>, <<"LTI", "ITL">>, <<"ITP", "ITP">> >>,
            << <<"", "ITL">>, <<"", "">>, <<"LTP", "LTP">> >>,
            << <<"", "ITP">>, <<"", "LTP">>, <<"", "PTI">> >> >>
convert(p, t, cvn, len) ==
    CASE cvn \in {"ITP", "LTP", "PTI"} -> tnode([ITP |-> "ITOP", LTP |-> "LTOP", PTI |-> "PTOI"][cvn], t, p, tconst(len, "INT"))
      [] OTHER -> tnode([ITL |-> "ITOL", LTI |-> "LTOI"][cvn], t, p, nil)

Asgops == {"ASPLUS", "ASMINUS", "ASTIMES", "ASDIV", "ASMOD", "ASRSH", "ASLSH", "ASAND", "ASOR", "ASXOR", "ASSIGN"}
Orderings == [LESSEQ |-> "LESSEQP", LESS |-> "LESSP", GREATEQ |-> "GREATQP", GREAT |-> "GREATP"]

\* fold: a constant of constants, in the host's int; nil when there is none.
HostInt(v) == v % (2 ^ (2 * Bits))
fold(op, p1, p2) ==
    LET v1 == p1.value
        v2 == p2.value
        unsignf == "UNSIGN" \in {p1.type, p2.type}
        Is(b) == [p1 EXCEPT !.value = IF b THEN 1 ELSE 0] IN
    CASE p1.op # "CON" \/ (p2.op \notin {"nil", "CON"} /\ op # "QUEST") -> nil
      [] op = "QUEST" /\ p1.op = "CON" -> IF p2.tr1.op = "CON" /\ p2.tr2.op = "CON" THEN [p1 EXCEPT !.value = IF v1 # 0 THEN p2.tr1.value ELSE p2.tr2.value] ELSE nil
      [] op \in {"DIVIDE", "MOD"} /\ v2 = 0 -> nil
      [] op \in {"DIVIDE", "MOD"} /\ v2 # 0 -> [p1 EXCEPT !.value = Does(op, IF unsignf THEN HostInt(v1) ELSE v1, v2)]
      [] op = "RSHIFT" -> [p1 EXCEPT !.value = Does(op, IF unsignf THEN HostInt(v1) ELSE v1, v2)]
      [] op \in {"PLUS", "MINUS", "TIMES", "LSHIFT"} -> [p1 EXCEPT !.value = Does(op, v1, v2)]
      [] op \in {"AND", "OR", "EXOR"} -> [p1 EXCEPT !.value = Widened(Does(op, v1, v2), 2 * Bits)]
      [] op \in {"NEG", "COMPL"} -> [p1 EXCEPT !.value = Complemented(op, v1)]
      [] op \in {"EQUAL", "NEQUAL", "LESS", "GREAT", "LESSEQ", "GREATEQ"} -> Is(Compared(op, v1, v2))
      [] OTHER -> nil

\* setype: a reference given another type, and what it is made of.
RECURSIVE setype(_, _)
setype(p, t) ==
    CASE p.op = "AMPER" -> [p EXCEPT !.type = t, !.tr1 = setype(@, decref[t])]
      [] p.op = "STAR" -> [p EXCEPT !.type = t, !.tr1 = setype(@, incref(t))]
      [] p.op = "PLUS" -> [p EXCEPT !.type = t, !.tr1 = setype(@, t)]
      [] OTHER -> [p EXCEPT !.type = t]
\* disarray: an array is a pointer to its base.
disarray(p) ==
    IF p.op # "nil" /\ p.type \in Arrays /\ p.op # "ETYPE" /\ ~Named(p, "MOS")
    THEN tnode("AMPER", incref(decref[p.type]), setype(p, decref[p.type]), nil) ELSE p

---------------------------------------------------------------------------
(* build, for one operator whose operands are built.                       *)

\* The type of the result, and each side's conversion: an assignment
\* converts its right side alone, a comparison of pointers neither.
Needs(op, t1, t2) ==
    LET cv == cvtab[lintyp(t1)][lintyp(t2)]
        asg == op \in Asgops \/ op = "CAST"
        plain == op \in {"ASSIGN", "CAST"}
        alone == IF cv[1] # "" THEN cv[1] ELSE cv[2] IN
    CASE asg /\ plain /\ cv[2] \in {"ITP", "PTI"} -> <<"", "">>
      [] asg /\ plain /\ cv[2] = "LTP" -> IF cv[1] = "" THEN <<"", "LTI">> ELSE <<"", "ITL">>
      [] asg /\ ~(plain /\ cv[2] \in {"ITP", "PTI", "LTP"}) -> <<"", alone>>
      [] op = "COLON" /\ t1 \in Pointers /\ t1 = t2 -> <<"", "">>
      [] op \in opdope.RELAT /\ cv[2] \in {"ITP", "PTI"} -> <<"", "">>
      [] OTHER -> cv
Result(op, t1, t2) ==
    LET left == cvtab[lintyp(t1)][lintyp(t2)][1] # ""
        t == IF left THEN t2 ELSE t1 IN
    CASE op \in Asgops \cup {"CAST"} -> t1
      [] op = "MINUS" /\ t1 \in Pointers /\ t2 \in Pointers -> "INT"
      [] t \in {"INT", "CHAR"} /\ "UNSIGN" \in {t1, t2} -> "UNSIGN"
      [] OTHER -> t
Relation(op, t1, t2, t) ==
    IF op \in DOMAIN Orderings /\ ({t1, t2} \cap Pointers # {} \/ ("UNSIGN" \in {t1, t2} /\ t \in {"INT", "CHAR", "UNSIGN"}))
    THEN Orderings[op] ELSE op
Promoted(t) == IF t = "CHAR" THEN "INT" ELSE t

Cast(p1, p2, t) ==
    LET typed == IF t # "INT" \/ p2.type # "CHAR" THEN [p2 EXCEPT !.type = t] ELSE p2 IN
    IF t = "INT" /\ p1.type = "CHAR" THEN tnode("ITOC", "INT", typed, nil) ELSE typed
\* p1 and p2 converted, of the type t.
Made(op, p1, p2, t, type) ==
    CASE op = "CAST" -> Cast(p1, p2, Promoted(t))
      [] op # "CAST" /\ fold(op, p1, p2).op # "nil" -> fold(op, p1, p2)
      [] OTHER -> tnode(op, type, p1, p2)
\* An integer added to a pointer multiplied by its own size, not by that of what is pointed to.
JoinedOwnSize(op, p1, p2, need, t) ==
    LET right == IF need[2] \notin {"", "PTI"} THEN convert(p2, t, need[2], plength(p2.type)) ELSE p2 IN
    Made(op, p1, right, t, IF op \in opdope.RELAT THEN "INT" ELSE Promoted(t))
Joined(op, p1, p2, need, t) ==
    LET pointers == need[2] = "PTI"
        left == IF need[1] # "" THEN convert(p1, t, need[2], plength(p2.type)) ELSE p1
        right == IF need[1] = "" /\ need[2] # "" /\ ~pointers THEN convert(p2, t, need[2], plength(p1.type)) ELSE p2
        node == Made(op, left, right, t, IF op \in opdope.RELAT THEN "INT" ELSE Promoted(t)) IN
    IF pointers /\ op = "MINUS" /\ p1.type # "PCHAR" THEN convert(node, "INT", "PTI", plength(p1.type)) ELSE node
Both(op, p1, p2) == Joined(Relation(op, p1.type, p2.type, Result(op, p1.type, p2.type)), p1, p2, Needs(op, p1.type, p2.type), Result(op, p1.type, p2.type))

\* a->b: a is given the type of a pointer to b, and b's offset added.
Arrow(p1, p2) ==
    LET field == p2.value # 0
        t == incref(IF p2.type = "INT" /\ field THEN "UNSIGN" ELSE p2.type)
        star == tnode("STAR", decref[t], tnode("PLUS", t, setype(p1, t), tconst(p2.at.offset, "INT")), nil) IN
    IF field THEN tnode("FSEL", "UNSIGN", star, tnode("COMMA", "INT", tconst(p2.value, "INT"), tconst(p2.at.reg, "INT"))) ELSE star

RECURSIVE build(_, _, _)
build(op, p, q) ==
    LET p1 == IF op \in {"AMPER", "SIZEOF"} THEN p ELSE disarray(p)
        p2 == disarray(q) IN
    CASE op = "LBRACK" -> build("STAR", build("PLUS", p, q), nil)
      [] op = "SIZEOF" -> tconst(length(p.type), "UNSIGN")
      [] op = "CAST" /\ p1.type = "UNSIGN" /\ p2.type = "CHAR" -> Both(op, p1, tnode("AND", "INT", p2, tconst(2 ^ Half - 1, "INT")))
      [] op = "QUEST" /\ fold(op, p1, p2).op # "nil" -> fold(op, p1, p2)
      [] op = "SEQNC" -> tnode(op, p2.type, p1, p2)
      [] op \in {"LOGAND", "LOGOR"} -> tnode(op, "INT", p1, p2)
      [] op = "STAR" -> tnode(op, decref[p1.type], p1, nil)
      [] op = "AMPER" -> tnode(op, incref(p1.type), p1, nil)
      [] op = "DOT" -> Arrow(build("AMPER", p1, nil), p2)
      [] op = "ARROW" -> Arrow(p1, p2)
      [] op \in {"NEG", "COMPL"} -> IF fold(op, p1, nil).op # "nil" THEN fold(op, p1, nil) ELSE tnode(op, p1.type, p1, nil)
      [] op = "EXCLA" -> tnode(op, "INT", p1, nil)
      [] OTHER -> Both(op, p1, p2)

\* tree builds what it parses, innermost first; ++ and -- are by 1.
RECURSIVE Built(_)
Built(s) ==
    CASE s.op \in opdope.LEAF \cup {"nil", "ETYPE"} -> s
      [] s.op \in {"INCBEF", "INCAFT", "DECBEF", "DECAFT"} -> build(s.op, Built(s.tr1), tconst(1, "INT"))
      [] OTHER -> build(s.op, Built(s.tr1), Built(s.tr2))
\* A constant goes to the second pass as a word.
RECURSIVE treeout(_)
treeout(t) ==
    CASE t.op = "nil" -> t
      [] t.op = "CON" -> [t EXCEPT !.value = Widened(@, Bits)]
      [] t.op \in {"NAME", "LCON"} -> t
      [] OTHER -> [t EXCEPT !.tr1 = treeout(@), !.tr2 = treeout(@)]

---------------------------------------------------------------------------
Init == source \in Sources /\ built = nil
Build == built = nil /\ built' = treeout(Built(source)) /\ UNCHANGED source
Next == Build
Spec == Init /\ [][Next]_vars

---------------------------------------------------------------------------
(* What the language says an expression means: [type, v], with no          *)
(* conversion but the usual ones.                                          *)

RECURSIVE Meaning(_, _), Lvalue(_, _)
Lvalue(s, m) ==      \* [type, at, len, bit]: len 0 for no field
    LET Cell(type, at) == [type |-> type, at |-> at, len |-> 0, bit |-> 0]
        Member(base) == [type |-> IF s.tr2.value # 0 THEN "UNSIGN" ELSE s.tr2.type, at |-> base + s.tr2.at.offset, len |-> s.tr2.value, bit |-> s.tr2.at.reg] IN
    CASE s.op = "NAME" -> Cell(s.type, Place(s, m))
      [] s.op = "STAR" -> Cell(decref[Meaning(s.tr1, m).type], Meaning(s.tr1, m).v)
      [] s.op = "LBRACK" -> Lvalue(tnode("STAR", "", tnode("PLUS", "", s.tr1, s.tr2), nil), m)
      [] s.op = "DOT" -> Member(Lvalue(s.tr1, m).at)
      [] s.op = "ARROW" -> Member(Meaning(s.tr1, m).v)
Loaded(l, m) ==
    CASE l.type \in Arrays -> [type |-> incref(decref[l.type]), v |-> Unsigned(l.at)]
      [] l.len # 0 -> [type |-> "UNSIGN", v |-> (Word(m, l.at) \div (2 ^ l.bit)) % (2 ^ l.len)]
      [] OTHER -> [type |-> l.type, v |-> Fetch(m, l.at, l.type)]
Usual(t1, t2) ==
    CASE "LONG" \in {t1, t2} -> "LONG" [] "LONG" \notin {t1, t2} /\ "UNSIGN" \in {t1, t2} -> "UNSIGN" [] OTHER -> "INT"
Sum(op, a, b) ==
    CASE a.type \in Pointers /\ b.type \in Pointers -> [type |-> "INT", v |-> Quotient(Widened(a.v - b.v, Bits), plength(a.type))]
      [] a.type \in Pointers /\ b.type \notin Pointers -> [type |-> a.type, v |-> Unsigned(Does(op, a.v, b.v * plength(a.type)))]
      [] b.type \in Pointers /\ a.type \notin Pointers -> [type |-> b.type, v |-> Unsigned(Does(op, a.v * plength(b.type), b.v))]
      [] OTHER -> [type |-> Usual(a.type, b.type), v |-> Norm(Usual(a.type, b.type), Does(op, Norm(Usual(a.type, b.type), a.v), Norm(Usual(a.type, b.type), b.v)))]
Order(op, a, b) ==
    LET t == IF {a.type, b.type} \cap Pointers # {} THEN "PINT" ELSE Usual(a.type, b.type) IN
    Compared(op, Norm(t, a.v), Norm(t, b.v))
Truth(b) == [type |-> "INT", v |-> IF b THEN 1 ELSE 0]
Castto(type, a) ==
    CASE type = "CHAR" -> [type |-> "INT", v |-> Widened(a.v, Half)]
      [] type = "UNSIGN" /\ a.type = "CHAR" -> [type |-> type, v |-> a.v % (2 ^ Half)]      \* a char's byte
      [] OTHER -> [type |-> type, v |-> Norm(type, a.v)]
Meaning(s, m) ==
    LET a == Meaning(s.tr1, m)
        b == Meaning(s.tr2, m) IN
    CASE s.op \in {"CON", "LCON"} -> [type |-> s.type, v |-> s.value]
      [] Bare(s) -> [type |-> s.type, v |-> Held(s, m)]
      [] s.op \in {"NAME", "STAR", "LBRACK", "DOT", "ARROW"} /\ ~Bare(s) -> Loaded(Lvalue(s, m), m)
      [] s.op = "AMPER" -> [type |-> incref(Lvalue(s.tr1, m).type), v |-> Unsigned(Lvalue(s.tr1, m).at)]
      [] s.op = "SIZEOF" -> [type |-> "UNSIGN", v |-> length(IF s.tr1.op \in {"NAME", "ETYPE"} THEN s.tr1.type ELSE a.type)]
      [] s.op = "CAST" -> Castto(s.tr1.type, b)
      [] s.op \in {"NEG", "COMPL"} -> [type |-> Promoted(a.type), v |-> Norm(Promoted(a.type), Complemented(s.op, a.v))]
      [] s.op \in {"INCAFT", "DECAFT"} -> a
      [] s.op \in {"INCBEF", "DECBEF"} -> Sum(Simply(s.op), a, [type |-> "INT", v |-> 1])
      [] s.op = "EXCLA" -> Truth(a.v = 0)
      [] s.op = "SEQNC" -> b
      [] s.op = "LOGAND" -> Truth(a.v # 0 /\ b.v # 0)
      [] s.op = "LOGOR" -> Truth(a.v # 0 \/ b.v # 0)
      [] s.op = "QUEST" -> LET l == Meaning(s.tr2.tr1, m)
                               r == Meaning(s.tr2.tr2, m)
                               t == IF l.type \in Pointers THEN l.type ELSE Usual(l.type, r.type) IN
                           [type |-> t, v |-> Norm(t, IF a.v # 0 THEN l.v ELSE r.v)]
      [] s.op \in opdope.RELAT -> Truth(Order(s.op, a, b))
      [] OTHER -> Sum(s.op, a, b)
\* The memory after an assignment: its left side is set, converted to its type.
Steps == [INCBEF |-> "PLUS", INCAFT |-> "PLUS", DECBEF |-> "MINUS", DECAFT |-> "MINUS"]
Assigns(s) == s.op \in Asgops \cup DOMAIN Steps
Effect(s, m) ==
    LET l == Lvalue(s.tr1, m)
        r == IF s.op \in DOMAIN Steps THEN [type |-> "INT", v |-> 1] ELSE Meaning(s.tr2, m)
        v == IF s.op = "ASSIGN" THEN r.v ELSE Sum(Simply(s.op), IF Bare(s.tr1) THEN Meaning(s.tr1, m) ELSE Loaded(l, m), r).v
        w == Word(m, l.at)
        f == (w \div (2 ^ l.bit)) % (2 ^ l.len) IN
    IF Bare(s.tr1) THEN Put1(m, s.tr1, v) ELSE IF l.len = 0 THEN Store(m, l.at, l.type, v)
    ELSE Store(m, l.at, "INT", w + (((v % (2 ^ l.len)) - f) * (2 ^ l.bit)))

(* The tree handed to the second pass means what the source says: every    *)
(* conversion, scaling and folding keeps the value, and what is assigned.  *)
Means(t, s) ==
    \A m \in Contents :
        IF Assigns(s) THEN After(t, m) = Effect(s, m)
        ELSE LET is == Meaning(s, m) IN (is.type = "LONG") = (t.type = "LONG") /\ Norm(is.type, Value(t, m)) = is.v
MeaningKept == built # nil => Means(built, source)
=============================================================================
