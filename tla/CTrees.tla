------------------------------- MODULE CTrees -------------------------------
(***************************************************************************)
(* The expression trees of the C compiler, as its two passes share them,   *)
(* and what a tree means to the machine.  No floating types, calls or      *)
(* whole structures.                                                       *)
(*                                                                         *)
(* A node is [op, type, degree, value, tr1, tr2, at]: value is a           *)
(* constant's, or the mask of a field assignment; at says where a name is. *)
(* Pointer types begin with P, and the array types with A.                 *)
(***************************************************************************)
EXTENDS Integers, SequencesExt, FiniteSetsExt, Bitwise

CONSTANTS Bits    \* of a word; a long is two words, the host's int and long wider

---------------------------------------------------------------------------
(* Nodes.                                                                  *)

nowhere == [class |-> "", reg |-> 0, offset |-> 0]
nil == [op |-> "nil", type |-> "INT", degree |-> 0, value |-> 0]
tnode(op, type, tr1, tr2) == [op |-> op, type |-> type, degree |-> 0, value |-> 0, tr1 |-> tr1, tr2 |-> tr2, at |-> nowhere]
Leaf(op, type, v) == [tnode(op, type, nil, nil) EXCEPT !.value = v]
tconst(v, type) == Leaf("CON", type, v)

opdope ==
    [LEAF |-> {"NAME", "CON", "LCON", "AUTOI", "AUTOD"},
     RELAT |-> {"EQUAL", "NEQUAL", "LESSEQ", "LESS", "GREATEQ", "GREAT", "LESSEQP", "LESSP", "GREATQP", "GREATP"},
     COMMUTE |-> {"PLUS", "TIMES", "AND", "OR", "EXOR"},
     LVALUE |-> {"ASSIGN", "ASPLUS", "ASMINUS", "ASTIMES", "ASDIV", "ASMOD", "ASRSH", "ASLSH", "ASAND", "ASOR", "ASXOR", "ASANDN",
                 "INCBEF", "INCAFT", "DECBEF", "DECAFT", "ASULSH"},
     UNARY |-> {"AMPER", "STAR", "NEG", "COMPL", "EXCLA", "ITOL", "LTOI", "ITOC", "LOAD", "FSEL", "FSELR"}]
Named(p, class) == p.op = "NAME" /\ p.at.class = class

Unsigned(v) == v % (2 ^ Bits)
Half == Bits \div 2
Widened(v, bits) == IF v % (2 ^ bits) >= 2 ^ (bits - 1) THEN (v % (2 ^ bits)) - (2 ^ bits) ELSE v % (2 ^ bits)
HostNot(v) == -1 - v
Size(v) == IF v < 0 THEN -v ELSE v
Quotient(a, b) == IF (a < 0) = (b < 0) THEN Size(a) \div Size(b) ELSE -(Size(a) \div Size(b))
Remainder(a, b) == a - (b * Quotient(a, b))

Complemented(op, v) == IF op = "NEG" THEN -v ELSE HostNot(v)
IsLong(t) == t.op = "LCON" \/ (t.op = "ITOL" /\ t.tr1.op = "CON")
LongOf(t) == IF t.op = "LCON" THEN t.value ELSE IF t.tr1.type = "INT" THEN t.tr1.value ELSE Unsigned(t.tr1.value)

---------------------------------------------------------------------------
(* What a tree means to the machine: its value, and the memory after it.   *)
(* A memory m has the registers m.reg and the words m.mem, at the even     *)
(* addresses; a long has its high word first.                              *)

Norm(type, v) == CASE type = "LONG" -> Widened(v, 2 * Bits) [] type \in {"INT", "CHAR"} -> Widened(v, Bits) [] OTHER -> Unsigned(v)
Word(m, a) == m.mem[Unsigned(a) \div 2]
Fetch(m, a, type) ==
    CASE type = "LONG" -> Norm(type, (Word(m, a) * (2 ^ Bits)) + Unsigned(Word(m, a + 2)))
      [] type = "CHAR" -> Widened(Word(m, a), Half)
      [] OTHER -> Norm(type, Word(m, a))
Store(m, a, type, v) ==
    IF type = "LONG" THEN [m EXCEPT !.mem[Unsigned(a) \div 2] = Unsigned(v \div (2 ^ Bits)), !.mem[Unsigned(a + 2) \div 2] = Unsigned(v)]
    ELSE [m EXCEPT !.mem[Unsigned(a) \div 2] = IF type = "CHAR" THEN @ - (@ % (2 ^ Half)) + (v % (2 ^ Half)) ELSE Unsigned(v)]
SizeOf(type) == CASE type = "CHAR" -> 1 [] type = "LONG" -> 4 [] OTHER -> 2
Wide(v) == v % (2 ^ (2 * Bits))
Compared(op, l, r) ==
    CASE op = "EQUAL" -> l = r [] op = "NEQUAL" -> l # r
      [] op = "LESSEQ" -> l <= r [] op = "LESS" -> l < r [] op = "GREATEQ" -> l >= r [] op = "GREAT" -> l > r
      [] op = "LESSEQP" -> Unsigned(l) <= Unsigned(r) [] op = "LESSP" -> Unsigned(l) < Unsigned(r)
      [] op = "GREATQP" -> Unsigned(l) >= Unsigned(r) [] op = "GREATP" -> Unsigned(l) > Unsigned(r)
Shifted(v, n) == IF n >= 0 THEN v * (2 ^ n) ELSE v \div (2 ^ (-n))
Plain == [ASPLUS |-> "PLUS", INCBEF |-> "PLUS", INCAFT |-> "PLUS", ASMINUS |-> "MINUS", DECBEF |-> "MINUS", DECAFT |-> "MINUS",
          ASTIMES |-> "TIMES", LASTIMES |-> "TIMES", LTIMES |-> "TIMES", ASDIV |-> "DIVIDE", LASDIV |-> "DIVIDE", LDIV |-> "DIVIDE",
          ASMOD |-> "MOD", LASMOD |-> "MOD", LMOD |-> "MOD", ASRSH |-> "RSHIFT", ASLSH |-> "LSHIFT", ASULSH |-> "ULSH",
          ASAND |-> "AND", ASANDN |-> "ANDN", ASOR |-> "OR", ASXOR |-> "EXOR"]
Simply(op) == IF op \in DOMAIN Plain THEN Plain[op] ELSE op
Does(op, l, r) ==
    CASE op = "PLUS" -> l + r [] op = "MINUS" -> l - r [] op \in {"TIMES", "ITOP", "LTOP"} -> l * r
      [] op \in {"DIVIDE", "PTOI"} -> IF r = 0 THEN 0 ELSE Quotient(l, r)
      [] op = "MOD" -> IF r = 0 THEN 0 ELSE Remainder(l, r)
      [] op = "AND" -> Wide(l) & Wide(r) [] op = "ANDN" -> Wide(l) & Wide(HostNot(r))
      [] op = "OR" -> Wide(l) | Wide(r) [] op = "EXOR" -> Wide(l) ^^ Wide(r)
      [] op = "LSHIFT" -> Shifted(l, r) [] op = "RSHIFT" -> Shifted(l, -r) [] op = "ULSH" -> Shifted(Unsigned(l), r)
      [] op = "ASSIGN" -> r

RECURSIVE Value(_, _), After(_, _)
Place(t, m) ==
    CASE t.op = "STAR" -> Value(t.tr1, m)
      [] t.op = "AUTOI" -> m.reg[t.at.reg]
      [] t.op = "AUTOD" -> m.reg[t.at.reg] - SizeOf(t.type)
      [] t.at.class = "AUTO" -> m.reg[5] + t.at.offset
      [] t.at.class = "EXTERN" -> t.at.offset
      [] OTHER -> m.reg[t.at.reg] + t.at.offset
Bare(t) == Named(t, "REG")
Held(t, m) == IF Bare(t) THEN Norm(t.type, m.reg[t.at.reg] + t.at.offset) ELSE Fetch(m, Place(t, m), t.type)
Put1(m, t, v) == IF Bare(t) THEN [m EXCEPT !.reg[t.at.reg] = Unsigned(v)] ELSE Store(m, Place(t, m), t.type, v)
FieldMask(f) == 2 ^ f.tr1.value - 1
Field(f, v) == (Unsigned(v) \div (2 ^ f.tr2.value)) & FieldMask(f)
Value(t, m) ==
    CASE t.op = "CON" -> Norm(t.type, t.value)
      [] t.op = "LCON" -> Norm("LONG", t.value)
      [] t.op \in {"NAME", "STAR", "AUTOI", "AUTOD"} -> Held(t, m)
      [] t.op = "ITOL" -> IF t.tr1.op = "CON" THEN Norm("LONG", LongOf(t)) ELSE Value(t.tr1, m)
      [] t.op \in {"LTOI", "LOAD"} -> Norm(t.type, Value(t.tr1, m))
      [] t.op = "ITOC" -> Widened(Value(t.tr1, m), Half)
      [] t.op \in {"NEG", "COMPL"} -> Norm(t.type, Complemented(t.op, Value(t.tr1, m)))
      [] t.op = "EXCLA" -> IF Value(t.tr1, m) = 0 THEN 1 ELSE 0
      [] t.op = "AMPER" -> Unsigned(Place(t.tr1, m))
      [] t.op = "FSEL" -> Field(t.tr2, Value(t.tr1, m))
      [] t.op = "FSELR" -> (Unsigned(Value(t.tr1, m)) & FieldMask(t.tr2)) * (2 ^ t.tr2.tr2.value)
      [] t.op \in opdope.RELAT ->
            LET V(z) == IF z.type = "LONG" THEN Value(z, m) ELSE Widened(Value(z, m), Bits) IN
            IF Compared(t.op, V(t.tr1), V(t.tr2)) THEN 1 ELSE 0
      [] t.op = "LOGAND" -> IF Value(t.tr1, m) = 0 THEN 0 ELSE IF Value(t.tr2, m) = 0 THEN 0 ELSE 1
      [] t.op = "LOGOR" -> IF Value(t.tr1, m) # 0 THEN 1 ELSE IF Value(t.tr2, m) = 0 THEN 0 ELSE 1
      [] t.op = "QUEST" -> Norm(t.type, Value(IF Value(t.tr1, m) # 0 THEN t.tr2.tr1 ELSE t.tr2.tr2, m))
      [] t.op = "SEQNC" -> Value(t.tr2, m)
      [] t.op \in {"INCAFT", "DECAFT"} -> Value(t.tr1, m)
      [] OTHER -> Norm(t.type, Does(Simply(t.op), Value(t.tr1, m), Value(t.tr2, m)))
Assigned(t, m) ==
    CASE t.tr1.op = "FSEL" ->       \* a field is set, the rest of its word kept
            LET f == t.tr1.tr2
                old == Unsigned(Value(t.tr1.tr1, m)) IN
            Put1(m, t.tr1.tr1, old + ((Unsigned(Does(Simply(t.op), Field(f, old), Value(t.tr2, m))) & FieldMask(f)) - Field(f, old)) * (2 ^ f.tr2.value))
      [] t.op = "FSELA" -> Put1(m, t.tr1, (Unsigned(Value(t.tr1, m)) & Unsigned(HostNot(t.value))) | Unsigned(Value(t.tr2, m)))
      [] t.op \in {"LASTIMES", "LASDIV", "LASMOD"} -> Store(m, Value(t.tr1, m), "LONG", Does(Simply(t.op), Fetch(m, Value(t.tr1, m), "LONG"), Value(t.tr2, m)))
      [] OTHER -> Put1(m, t.tr1, Does(Simply(t.op), Value(t.tr1, m), Value(t.tr2, m)))
After(t, m) ==
    CASE t.op = "FSELT" -> After(t.tr1, m)
      [] t.op \in {"FSELA", "LASTIMES", "LASDIV", "LASMOD"} \/ t.op \in opdope.LVALUE -> Assigned(t, m)
      [] t.op = "AUTOI" -> [m EXCEPT !.reg[t.at.reg] = Unsigned(@ + SizeOf(t.type))]
      [] t.op = "AUTOD" -> [m EXCEPT !.reg[t.at.reg] = Unsigned(@ - SizeOf(t.type))]
      [] t.op \in opdope.LEAF \cup {"nil"} -> m
      [] t.op \in opdope.UNARY -> After(t.tr1, m)
      [] OTHER -> After(t.tr2, After(t.tr1, m))

=============================================================================
