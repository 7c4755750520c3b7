---------------------------- MODULE MCTreeInputs -----------------------------
(***************************************************************************)
(* Inputs for C0Tree: every operator in every place of every other, and    *)
(* three deep one operator of each priority.  No ^ with |, which the code  *)
(* gives one priority, and in an initializer no comma in an index, where   *)
(* it ends the initializer.                                                *)
(*                                                                         *)
(* Inputs for C0Layout: every declarator four deep, with and without a     *)
(* typedef, and one of seven derivations; every structure of up to three   *)
(* members and nestings of them; initializers of structures, arrays and    *)
(* strings, full and short, braced and not.  A char field follows no int   *)
(* field wider than a char, with which it would share bits.                *)
(*                                                                         *)
(* Inputs for C0Build and C1Optim: expressions two and three operators     *)
(* deep over variables of every type and class, pointers, an array, a      *)
(* structure with fields, and constants about the boundaries, with 6-bit   *)
(* words.  The second pass gets what the first makes of them.  Left out,   *)
(* for there the code does not keep the value: a zero to the left of a     *)
(* comparison, constants shifted right, long constants that add up to      *)
(* zero, side effects under a product with 0, an int divided by an         *)
(* unsigned, constants folded beyond a word.                               *)
(***************************************************************************)
EXTENDS Integers, Sequences

Node(op, kids) == [op |-> op, kids |-> kids]
A == Node("a", <<>>)
B == Node("b", <<>>)
Lit == Node("1", <<>>)
IntType == Node("int", <<>>)
Unaries == {"NEG", "STAR", "AMPER", "EXCLA", "COMPL", "SIZEOF", "INCBEF", "DECBEF", "INCAFT", "DECAFT"}
Binaries == {"PLUS", "MINUS", "TIMES", "DIVIDE", "MOD", "RSHIFT", "LSHIFT", "AND", "OR", "LOGAND", "LOGOR", "EQUAL", "NEQUAL", "LESS", "GREATEQ",
             "ASSIGN", "ASPLUS", "ASAND", "DOT", "ARROW", "SEQNC", "LBRACK", "CALL"}
With(un, bin, x) ==
    {Node(o, <<x>>) : o \in un} \cup {Node(o, <<x, Lit>>) : o \in bin} \cup {Node(o, <<A, x>>) : o \in bin \ {"DOT", "ARROW"}} \cup {Node("CAST", <<IntType, x>>)}
    \cup {Node("QUEST", <<x, Node("COLON", <<A, B>>)>>), Node("QUEST", <<A, Node("COLON", <<x, B>>)>>), Node("QUEST", <<A, Node("COLON", <<B, x>>)>>)}
    \cup {Node("CALL", <<x, Node("nothing", <<>>)>>), Node("CALL", <<B, Node("COMMA", <<x, A>>)>>), Node("CALL", <<B, Node("COMMA", <<Node("COMMA", <<A, Lit>>), x>>)>>)}
Each(un, bin, X) == UNION {With(un, bin, x) : x \in X}
Leaves == {A}
Few1 == {"NEG", "INCAFT"}
Few2 == {"MINUS", "LOGOR", "ASSIGN", "SEQNC", "LBRACK"}
MCTexts == (Each(Unaries, Binaries, Each(Unaries, Binaries, Leaves) \cup {Node("SIZEOF", <<IntType>>)}) \X {FALSE})
           \cup (Each(Few1, Few2, Each(Few1, Few2, Each(Few1, Few2, Leaves))) \X {FALSE})
           \cup (Each(Few1, {"MINUS", "AND", "ASSIGN"}, Each(Unaries, {"MINUS", "LOGOR", "ASPLUS", "SEQNC"}, Leaves)) \X {TRUE})

---------------------------------------------------------------------------
Ident == [k |-> "name"]
Derived(D) == {[k |-> x, of |-> d] : x \in {"ptr", "fn"}, d \in D} \cup {[k |-> "array", of |-> d, n |-> n] : d \in D, n \in {2, 3}}
TwoDeep == {Ident} \cup Derived({Ident}) \cup Derived(Derived({Ident}))
Ptr(d) == [k |-> "ptr", of |-> d]
Seven == Ptr(Ptr(Ptr(Ptr(Ptr(Ptr(Ptr(Ident)))))))
Typedefs == {<< <<>>, <<>> >>, << <<"PTR">>, <<>> >>, << <<"ARRAY", "PTR">>, <<5>> >>}
MCDeclarators == (TwoDeep \cup Derived(Derived(TwoDeep)) \cup {Seven}) \X Typedefs

T(k) == [k |-> k]
Arr(t, n) == [k |-> "array", of |-> t, n |-> n]
M(t) == [t |-> t, bits |-> -1, named |-> TRUE]
Field(t, n) == [t |-> t, bits |-> n, named |-> TRUE]
Filler(n) == [t |-> T("int"), bits |-> n, named |-> FALSE]
S(mems) == [k |-> "struct", mems |-> mems]
Union(mems) == [k |-> "union", mems |-> mems]
Plain == {M(T("char")), M(T("int")), M(T("double")), M(Arr(T("char"), 3)), M(Arr(T("int"), 2))}
Fields == {Field(T("int"), 3), Field(T("int"), 9), Field(T("int"), 16), Field(T("char"), 3), Field(T("char"), 8), Filler(5), Filler(0)}
Nested == {M(S(<<M(T("char"))>>)), M(Union(<<M(T("char")), M(T("long"))>>)), M(Arr(S(<<M(T("char")), M(T("int"))>>), 2)),
           M(Union(<<Field(T("int"), 9), M(T("char"))>>)), M(S(<<Field(T("int"), 3)>>))}
All == Plain \cup Fields \cup Nested
Wide(m) == m.t.k = "int" /\ m.bits > 0
Allowed(ms) == \A i \in DOMAIN ms : ms[i].t.k = "char" /\ ms[i].bits >= 0 => \A j \in 1..(i - 1) : ~Wide(ms[j])
MCStructures == {s \in {S(ms) : ms \in {ms \in (All \X All \X All) : Allowed(ms)}} \cup {Union(ms) : ms \in Plain \X (Plain \cup {Field(T("int"), 9)})} : TRUE}

Num(n) == [k |-> "con", n |-> n]
Str(n) == [k |-> "string", n |-> n]
List(of, brace, comma) == [k |-> "list", of |-> of, brace |-> brace, comma |-> comma]
\* The initializers of a type, its first scalar being n: all of it, or in braces a part.
\* No braces are left out before a brace, which would be taken for them.
Opens(v) == v.k = "list" /\ v.brace
Styles(of) == {List(of, TRUE, FALSE), List(of, TRUE, TRUE)} \cup (IF Opens(of[1]) THEN {} ELSE {List(of, FALSE, FALSE)})
Short(of) == {List(SubSeq(of, 1, i), TRUE, c) : i \in 1..Len(of), c \in BOOLEAN}
ArrInt(n) == Styles(<<Num(n), Num(n + 1)>>) \cup Short(<<Num(n), Num(n + 1)>>)
Chars(n) == {Str(0), Str(2), Str(3), Str(5)} \cup {List(<<Num(n), Num(n + 1), Num(n + 2)>>, FALSE, FALSE)} \cup Short(<<Num(n), Num(n + 1), Num(n + 2)>>)
Pairs(X, Y) == UNION {Styles(<<x, y>>) \cup Short(<<x, y>>) : x \in X, y \in Y}
Inner == S(<<M(T("char")), M(T("int"))>>)
InnerI(n) == Pairs({Num(n)}, {Num(n + 1)})
Braced(V) == {v \in V : v.k # "list" \/ Opens(v)}
InitializedKinds == {<<S(<<M(T("char")), M(Arr(T("int"), 2))>>), Pairs({Num(1)}, ArrInt(2))>>,
          <<S(<<M(Arr(T("char"), 3)), M(T("int"))>>), Pairs(Chars(1), {Num(7)})>>,
          <<S(<<M(Arr(T("char"), 3)), M(T("char"))>>), Pairs(Chars(1), {Num(7)})>>,
          <<S(<<M(Inner), M(T("char"))>>), Pairs(InnerI(1), {Num(7)})>>,
          <<S(<<M(T("char")), M(T("long"))>>), Pairs({Num(1)}, {Num(2)})>>,
          <<Arr(Inner, 2), Pairs(InnerI(1), InnerI(4))>>,
          <<Arr(Inner, 3), Pairs(InnerI(1), InnerI(4))>>,
          <<Arr(Inner, 0), Pairs(InnerI(1), InnerI(4))>>,
          <<Arr(S(<<M(T("char")), M(Arr(Inner, 2))>>), 2), Pairs(Pairs({Num(1)}, Pairs(InnerI(2), {List(<<Num(4), Num(5)>>, TRUE, FALSE)})), {List(<<Num(8)>>, TRUE, FALSE)})>>,
          <<Arr(Arr(T("int"), 2), 2), Pairs(ArrInt(1), ArrInt(4))>>,
          <<Arr(Arr(T("int"), 2), 0), Pairs(ArrInt(1), ArrInt(4))>>,
          <<Arr(Arr(T("char"), 3), 2), Pairs(Chars(1), Chars(5))>>,
          <<Arr(T("char"), 0), Chars(1)>>, <<Arr(T("char"), 4), Chars(1) \ {Str(5)}>>, <<T("int"), {Num(3), List(<<Num(3)>>, TRUE, FALSE)}>>}
MCInitialized == {k \in UNION {{kind[1]} \X Braced(kind[2]) : kind \in InitializedKinds} : TRUE}

---------------------------------------------------------------------------
nowhere == [class |-> "", reg |-> 0, offset |-> 0]
nil == [op |-> "nil", type |-> "INT", degree |-> 0, value |-> 0]
N(op, a, b) == [op |-> op, type |-> "INT", degree |-> 0, value |-> 0, tr1 |-> a, tr2 |-> b, at |-> nowhere]
U(op, a) == N(op, a, nil)
C(v) == [N("CON", nil, nil) EXCEPT !.value = v]
L(v) == [N("LCON", nil, nil) EXCEPT !.value = v, !.type = "LONG"]
Name(type, class, reg, offset) == [N("NAME", nil, nil) EXCEPT !.type = type, !.at = [class |-> class, reg |-> reg, offset |-> offset]]
Cast(type, a) == N("CAST", [N("ETYPE", nil, nil) EXCEPT !.type = type], a)
Member(type, offset, len, bit) == [Name(type, "MOS", bit, offset) EXCEPT !.value = len]

x == Name("INT", "AUTO", 0, -4)
y == Name("INT", "EXTERN", 0, 8)
u == Name("UNSIGN", "AUTO", 0, -6)
w == Name("UNSIGN", "EXTERN", 0, 10)
l == Name("LONG", "AUTO", 0, -10)
k == Name("LONG", "EXTERN", 0, 12)
c == Name("CHAR", "EXTERN", 0, 8)
p == Name("PINT", "REG", 4, 0)
q == Name("PINT", "EXTERN", 0, 16)
lp == Name("PLONG", "AUTO", 0, -12)
cp == Name("PCHAR", "EXTERN", 0, 18)
a == Name("AINT", "AUTO", 0, -18)
s == Name("S", "EXTERN", 0, 20)
sp == Name("PS", "REG", 4, 0)
F(len, bit) == N("DOT", s, Member("UNSIGN", 2, len, bit))
fields == {F(3, 3), F(2, 1), N("ARROW", sp, Member("INT", 4, 3, 2))}
members == {N("DOT", s, Member("INT", 2, 0, 0)), N("ARROW", sp, Member("LONG", 4, 0, 0)), N("ARROW", sp, Member("INT", 0, 0, 0)),
            N("LBRACK", N("DOT", s, Member("AINT", 2, 0, 0)), C(1)), N("LBRACK", N("ARROW", sp, Member("AINT", 2, 0, 0)), C(2))}

Sums == {"PLUS", "MINUS", "TIMES", "AND", "OR", "EXOR"}
Rels == {"EQUAL", "NEQUAL", "LESSEQ", "LESS", "GREATEQ", "GREAT"}
Constants == {C(0), C(1), C(2), C(-3), C(4), C(31)}
Vars == {x, y, u, c, F(3, 3), U("STAR", p), N("LBRACK", a, C(2))}
One == {N(o, i, j) : o \in Sums, i \in Vars, j \in Vars \cup Constants}
Two == {N(o, t, j) : o \in Sums, t \in {N(i, v, d) : i \in Sums, v \in {x, u}, d \in {y, C(2), C(-3)}}, j \in {y, C(4), C(-3), C(0), C(1)}}
Products == {N("PLUS", N("PLUS", N("TIMES", x, C(i)), N("TIMES", y, C(j))), t) : i \in {2, 3, 6}, j \in {2, 6, 12, -3}, t \in {C(3), N("TIMES", u, C(4)), N("PLUS", x, c)}}
Longest == N("PLUS", N("PLUS", N("PLUS", N("PLUS", N("PLUS", x, y), C(3)), u), C(4)), N("PLUS", x, C(5)))
Divide == {N(o, i, j) : o \in {"DIVIDE", "MOD"}, i \in {u, l, Cast("UNSIGN", N("PLUS", x, y))}, j \in {C(1), C(2), C(4), C(3), w}}
          \cup {N(o, i, j) : o \in {"DIVIDE", "MOD"}, i \in {x, c, N("PLUS", x, y), C(13)}, j \in {C(1), C(2), C(4), C(3), y, l}}
Shifts == {N(o, i, C(n)) : o \in {"LSHIFT", "RSHIFT"}, i \in {x, u, l, N("PLUS", x, C(3)), N("AND", u, C(7)), F(2, 1)}, n \in {0, 1, 2, 3}}
Casts == {Cast(t, i) : t \in {"INT", "CHAR", "UNSIGN", "LONG"}, i \in {x, u, c, l, q, N("PLUS", x, C(3)), N("PLUS", c, u), N("PLUS", k, x), C(20), L(70)}}
Unary == {U(o, i) : o \in {"NEG", "COMPL"}, i \in Vars \cup {l, N("PLUS", x, C(2)), Cast("LONG", x), Cast("LONG", u), Cast("LONG", C(5)), Cast("LONG", C(-5)), U("NEG", x), U("COMPL", y), C(7), L(100)}}
         \cup {U("EXCLA", i) : i \in {x, c, p, N("LESS", x, y), N("GREATEQ", u, w), N("LESSEQ", p, q)}}
Longs == {N(o, i, j) : o \in Sums, i \in {l, N("PLUS", l, C(3)), Cast("LONG", x)}, j \in {k, C(5), C(-5), u, L(300), L(-1), x, c}}
         \cup {Cast("INT", N(o, l, j)) : o \in Sums \ {"TIMES"}, j \in {k, C(5), C(-5), u, L(300)}}
         \cup {N("AND", C(-5), l), N("AND", C(5), l), Cast("INT", U("STAR", lp)), Cast("INT", U("NEG", l)), Cast("INT", L(1000)), N("MINUS", l, C(-32))}
Relations == {N(r, i, j) : r \in Rels, i \in {x, c, N("PLUS", x, C(1))}, j \in {y, C(0), C(3), u, N("PLUS", y, C(2))}}
             \cup {N(r, C(3), j) : r \in Rels, j \in {x, c, u}} \cup {N(r, u, j) : r \in Rels, j \in {w, C(3), N("PLUS", w, u), l}}
             \cup {N(r, l, j) : r \in Rels, j \in {x, C(0), k, u}} \cup {N(r, N(i, v, y), C(0)) : r \in Rels, i \in {"LESS", "EQUAL"}, v \in {x, c}}
             \cup {N(r, i, j) : r \in Rels, i \in {p, lp}, j \in {p, C(0), U("AMPER", x)}} \cup {N(r, C(i), C(4)) : r \in Rels, i \in {-3, 4}}
Logical == {N(o, i, j) : o \in {"LOGAND", "LOGOR", "SEQNC"}, i \in {x, N("LESS", x, y)}, j \in {l, u, N("EQUAL", c, C(3))}}
           \cup {N("QUEST", i, N("COLON", j, e)) : i \in {x, N("LESS", u, w), C(0)}, j \in {y, u, c, C(3), l}, e \in {x, k, C(1), c}} \cup {N("QUEST", x, N("COLON", p, q))}
Pointed == {U("STAR", i) : i \in {p, q, lp, cp, N("PLUS", p, C(1)), N("PLUS", q, C(2)), N("PLUS", p, x), N("MINUS", q, x), N("PLUS", C(1), lp), U("AMPER", x), N("INCAFT", p, nil), N("DECBEF", p, nil),
                                  N("INCAFT", Name("PLONG", "REG", 4, 0), nil), N("DECBEF", q, nil), N("PLUS", U("AMPER", y), l), N("PLUS", p, c), a, N("PLUS", a, x)}}
           \cup {U("AMPER", i) : i \in {x, y, U("STAR", p), N("LBRACK", q, C(1)), N("LBRACK", a, x)} \cup {m \in members : m.op # "LBRACK"}}
           \cup {N("LBRACK", i, j) : i \in {a, p, lp, cp}, j \in {C(0), C(2), x, N("PLUS", x, C(1))}}
           \cup {N("MINUS", p, q), N("MINUS", lp, U("AMPER", l)), N("MINUS", cp, cp), N("MINUS", q, a), N("PLUS", U("AMPER", y), C(3)), N("MINUS", q, C(1)), Cast("PLONG", p)} \cup members \cup fields
           \cup {U("SIZEOF", i) : i \in {x, c, l, a, s, p, N("PLUS", x, l)}} \cup {N("DIVIDE", U("SIZEOF", a), U("SIZEOF", N("LBRACK", a, C(0))))}
Asgs == {"ASSIGN", "ASPLUS", "ASMINUS", "ASAND", "ASOR", "ASXOR"}
Effects == {N(o, i, j) : o \in Asgs \cup {"ASTIMES"}, i \in {x, y, c, U("STAR", p), N("LBRACK", a, x)}, j \in {C(1), C(3), N("PLUS", x, C(2)), u, l}}
           \cup {N(o, u, C(n)) : o \in {"ASDIV", "ASMOD", "ASRSH", "ASLSH"}, n \in {1, 2, 4}} \cup {N(o, x, C(n)) : o \in {"ASRSH", "ASLSH", "ASDIV", "ASMOD"}, n \in {1, 2, 3}}
           \cup {N(o, l, j) : o \in {"ASTIMES", "ASDIV", "ASMOD", "ASPLUS", "ASAND", "ASSIGN", "ASMINUS"}, j \in {x, C(3), C(-3), k}}
           \cup {N(o, F(3, 3), j) : o \in Asgs, j \in {C(0), C(5), C(7), x}} \cup {N(o, F(2, 1), j) : o \in {"ASSIGN", "ASAND", "ASOR", "ASXOR"}, j \in {C(0), C(2), C(3), y}}
           \cup {N(o, i, nil) : o \in {"INCAFT", "INCBEF", "DECAFT", "DECBEF"}, i \in {x, u, l, c, p, lp}} \cup {N(o, i, j) : o \in {"ASPLUS", "ASMINUS"}, i \in {p, lp, cp}, j \in {C(2), x, l}}
           \cup {N("ASSIGN", i, j) : i \in {x, p, lp, u, l}, j \in {p, q, l, F(2, 2), c, U("AMPER", y)}}
MCSources == One \cup Two \cup Products \cup {Longest} \cup Divide \cup Shifts \cup Casts \cup Unary \cup Longs \cup Relations \cup Logical \cup Pointed \cup Effects

\* Words all alike, and words of every size.
Memory(f, r4) == [reg |-> [r \in 4..5 |-> IF r = 4 THEN r4 ELSE 60], mem |-> [i \in 0..31 |-> f[(i % Len(f)) + 1]]]
MCContents == {Memory(<<0>>, 12), Memory(<<63>>, 20), Memory(<<4, 2, 60, 34, 30, 8, 1>>, 24), Memory(<<32, 17, 9, 62, 3>>, 28), Memory(<<1, 30, 45, 7, 63, 22, 40, 11, 6, 50, 38>>, 18)}
=============================================================================
