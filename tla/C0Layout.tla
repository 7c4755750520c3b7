------------------------------ MODULE C0Layout ------------------------------
(***************************************************************************)
(* The first pass's declarators, structures and initializers: the type a   *)
(* declarator gives its name, where the members of a structure are, and    *)
(* the bytes an initializer puts out.                                      *)
(*                                                                         *)
(* A type is [k: a scalar's name], [k: "array", of, n] or [k: "struct" or  *)
(* "union", mems], a member [t, bits: of a field, else -1, named].         *)
(***************************************************************************)
EXTENDS Integers, SequencesExt

CONSTANTS
    Declarators,    \* <<tree of ptr, fn, array and name, the typedef it is of: derivations, dimensions>>
    Structures,     \* types
    Initialized     \* <<type, its initializer>>

VARIABLES input, made

vars == <<input, made>>

---------------------------------------------------------------------------
(* Declarators.  A type's derivations stand from the outermost, as the     *)
(* bits of htype do from the lowest; six of them fit.                      *)

MostDerivations == 6
\* decl1: getype has the outermost last.
Reversed(t1, of) == FoldLeft(LAMBDA type, d : <<d>> \o type, of, t1)

tok(s) == [tok |-> s, n |-> 0]
RECURSIVE getype(_), getf(_)
\* in: the tokens left; type: what has been read, the latest first; dims.
getf(q) ==
    CASE Head(q.in).tok = "(" -> getf([q EXCEPT !.in = SubSeq(@, 3, Len(@)), !.type = <<"FUNC">> \o @, !.big = @ \/ Len(q.type) = MostDerivations])
      [] Head(q.in).tok = "[" -> getf([q EXCEPT !.in = SubSeq(@, 4, Len(@)), !.type = <<"ARRAY">> \o @, !.dims = Append(@, q.in[2].n), !.big = @ \/ Len(q.type) = MostDerivations])
      [] OTHER -> q
getype(in) ==
    CASE Head(in).tok = "*" -> LET q == getype(Tail(in)) IN [q EXCEPT !.type = <<"PTR">> \o @, !.big = @ \/ Len(q.type) = MostDerivations]
      [] Head(in).tok = "(" -> LET q == getype(Tail(in)) IN getf([q EXCEPT !.in = Tail(@)])
      [] OTHER -> getf([in |-> Tail(in), type |-> <<>>, dims |-> <<>>, big |-> FALSE])
Declared(tokens, typedef) ==
    LET q == getype(tokens) IN
    [type |-> Reversed(q.type, typedef[1]), dims |-> q.dims \o typedef[2], big |-> q.big \/ Len(q.type) + Len(typedef[1]) > MostDerivations]

---------------------------------------------------------------------------
(* Sizes and places.                                                       *)

Even(n) == n + (n % 2)
RECURSIVE Element(_), length(_)
Element(t) == IF t.k = "array" THEN Element(t.of) ELSE t

\* How far offset moves for a member, and the bit it is at; flen 0 for no field.
Fits(width, flen, bit) == flen + bit <= width
Moved(offset, even, flen, bit, width) ==
    IF flen = 0 \/ Fits(width, flen, bit) THEN [a |-> even - offset, bitoffs |-> bit]
    ELSE [a |-> even - offset + (width \div 8), bitoffs |-> 0]
align(t, offset, flen, bitoffs) ==
    LET ischar == Element(t).k = "char"
        bytes == IF flen = 0 THEN offset + ((7 + bitoffs) \div 8) ELSE offset
        Settle(even) == Moved(offset, even, flen, IF flen = 0 \/ even > offset THEN 0 ELSE bitoffs, IF ischar THEN 8 ELSE 16) IN
    Settle(IF ischar THEN bytes ELSE Even(bytes))

\* decl1 for a member: where it is, and what it adds to offset.
Flen(m) == IF m.bits > 0 THEN m.bits ELSE 0
Placed(m, offset, a) ==
    [mem |-> [t |-> m.t, bits |-> m.bits, hoffset |-> offset + a.a, bit |-> a.bitoffs, hole |-> a.a > 0],
     elsize |-> a.a + (IF m.bits >= 0 THEN 0 ELSE length(m.t)),
     bitoffs |-> a.bitoffs + Flen(m)]
Member(m, offset, bitoffs) == Placed(m, offset, align(m.t, offset, Flen(m), bitoffs))
\* declare: the members of a structure one after the other, of a union at 0.
InStruct(s, m, d) == [memlist |-> IF m.named THEN Append(s.memlist, d.mem) ELSE s.memlist, offset |-> s.offset + d.elsize, bitoffs |-> d.bitoffs]
Longer(s, o) == IF o > s.offset THEN o ELSE s.offset
InUnion(s, m, d) == [memlist |-> IF m.named THEN Append(s.memlist, d.mem) ELSE s.memlist,
                     offset |-> Longer(s, d.elsize + align([k |-> "char"], d.elsize, 0, d.bitoffs).a), bitoffs |-> 0]
declare(t) ==
    FoldLeft(LAMBDA s, m : IF t.k = "union" THEN InUnion(s, m, Member(m, 0, s.bitoffs)) ELSE InStruct(s, m, Member(m, s.offset, s.bitoffs)),
             [memlist |-> <<>>, offset |-> 0, bitoffs |-> 0], t.mems)
\* declist: what is left of the last word is the structure's too.
declist(all) == [memlist |-> all.memlist, ssize |-> all.offset + align([k |-> "int"], all.offset, 0, all.bitoffs).a]
strdec(t) == declist(declare(t))
length(t) ==
    CASE t.k = "array" -> t.n * length(t.of)
      [] t.k \in {"struct", "union"} -> strdec(t).ssize
      [] t.k = "char" -> 1 [] t.k = "long" -> 4 [] t.k = "double" -> 8 [] OTHER -> 2

---------------------------------------------------------------------------
(* Initializers.  q: the tokens left, the bytes put out and whether an     *)
(* error was reported.                                                     *)

Bytes(v, n) == [j \in 1..n |-> <<v, j>>]
SSPACE(q, n) == [q EXCEPT !.out = @ \o [j \in 1..n |-> <<0, 0>>]]
EVEN(q) == SSPACE(q, Len(q.out) % 2)
Is(q, s) == Head(q.in).tok = s
Skip(q) == [q EXCEPT !.in = Tail(@)]
Closed(q, brace) == IF brace /\ Is(q, "}") THEN Skip(q) ELSE q
Least(a, b) == IF a < b THEN a ELSE b
\* putstr: the characters and a null, as many as there is room for.
nchstr(n, room) == Least(n + 1, room)

RECURSIVE cinit(_, _, _), Elements(_, _, _, _, _), strinit(_, _), Members(_, _, _, _)
cinit(q, t, flex) ==
    LET isarray == t.k = "array"
        e == [of |-> IF isarray THEN t.of ELSE t, nel |-> IF isarray THEN t.n ELSE 1, isarray |-> isarray, flex |-> flex /\ isarray]
        brace == Is(q, "{") /\ (isarray \/ t.k # "struct") IN
    Elements(IF brace THEN Skip(q) ELSE q, e, 0, brace, TRUE)
Enough(q, e, ninit, brace) ==
    LET r == Closed(q, brace) IN
    IF ninit < e.nel THEN SSPACE(r, (e.nel - ninit) * length(e.of))
    ELSE IF ninit > e.nel /\ ~(e.flex /\ e.nel = 0) THEN [r EXCEPT !.error = TRUE] ELSE r
Elements(q, e, ninit, brace, more) ==
    LET text == e.isarray /\ e.of.k = "char" /\ Is(q, "string")
        size == nchstr(Head(q.in).n, IF e.flex THEN 100 ELSE e.nel)
        one == CASE e.of.k = "struct" -> strinit(q, e.of)
                 [] e.of.k # "struct" /\ (e.of.k = "array" \/ Is(q, "{")) -> cinit(q, e.of, FALSE)
                 [] OTHER -> [Skip(q) EXCEPT !.out = @ \o Bytes(Head(q.in).n, length(e.of))] IN
    CASE ~more \/ Is(q, "}") -> Enough(q, e, ninit, brace)
      [] more /\ text -> Enough([Skip(q) EXCEPT !.out = @ \o [j \in 1..size |-> IF j <= Head(q.in).n THEN <<j, 1>> ELSE <<0, 0>>]], e, ninit + size, brace)
      [] OTHER -> \* each element is read once
           LET On(r) == IF Is(r, ",") /\ (ninit + 1 < e.nel \/ brace \/ e.flex) THEN Elements(Skip(r), e, ninit + 1, brace, TRUE)
                        ELSE Elements(r, e, ninit + 1, brace, FALSE)
           IN On(one)
strinit(q, t) == LET brace == Is(q, "{") IN Members(IF brace THEN Skip(q) ELSE q, strdec(t), 1, brace)
Members(q, s, i, brace) ==
    LET Left(k) == k <= Len(s.memlist)
        Ended(r, k) == EVEN(Closed(IF Left(k) THEN SSPACE(r, s.ssize - s.memlist[k].hoffset) ELSE r, brace))
        Held(r) == IF Left(i + 1) /\ s.memlist[i + 1].hole THEN EVEN(r) ELSE r
        On(r) == IF Is(r, ",") /\ (Left(i + 1) \/ brace) THEN Members(Skip(r), s, i + 1, brace) ELSE Ended(r, i + 1) IN
    CASE Is(q, "}") -> Ended(q, i)
      [] ~Is(q, "}") /\ ~Left(i) -> [q EXCEPT !.error = TRUE]
      [] OTHER -> On(Held(cinit(q, s.memlist[i].t, FALSE)))
\* An external definition's: the array may get its length from it.
extdef(tokens, t) == EVEN(cinit([in |-> tokens, out |-> <<>>, error |-> FALSE], t, TRUE))

---------------------------------------------------------------------------
(* As C has them.                                                          *)

RECURSIVE Written(_), Means(_, _)
Tight(d) == IF d.k = "ptr" THEN <<tok("(")>> \o Written(d) \o <<tok(")")>> ELSE Written(d)
Written(d) == CASE d.k = "ptr" -> <<tok("*")>> \o Written(d.of)
                [] d.k = "fn" -> Tight(d.of) \o <<tok("("), tok(")")>>
                [] d.k = "array" -> Tight(d.of) \o <<tok("["), [tok |-> "con", n |-> d.n], tok("]")>>
                [] OTHER -> <<tok("name")>>
\* The name's derivations and dimensions, T being what the declarator as a whole is.
Means(d, T) == CASE d.k = "ptr" -> Means(d.of, [T EXCEPT !.type = <<"PTR">> \o @])
                 [] d.k = "fn" -> Means(d.of, [T EXCEPT !.type = <<"FUNC">> \o @])
                 [] d.k = "array" -> Means(d.of, [T EXCEPT !.type = <<"ARRAY">> \o @, !.dims = <<d.n>> \o @])
                 [] OTHER -> T

\* An initializer is [k: "con", n], [k: "string", n: characters] or [k: "list", of, brace, comma].
RECURSIVE Tokens(_), Puts(_, _, _)
Tokens(v) ==
    CASE v.k = "con" -> <<[tok |-> "con", n |-> v.n]>>
      [] v.k = "string" -> <<[tok |-> "string", n |-> v.n]>>
      [] OTHER -> (IF v.brace THEN <<tok("{")>> ELSE <<>>)
                  \o FlattenSeq([i \in DOMAIN v.of |-> IF i = 1 THEN Tokens(v.of[i]) ELSE <<tok(",")>> \o Tokens(v.of[i])])
                  \o (IF v.brace THEN (IF v.comma THEN <<tok(",")>> ELSE <<>>) \o <<tok("}")>> ELSE <<>>)
\* The bytes that are not zero: <<where, which>>.
Puts(v, t, base) ==
    CASE v.k = "con" -> {<<base + j, <<v.n, j>>>> : j \in 1..length(t)}
      [] v.k = "string" -> {<<base + j, <<j, 1>>>> : j \in 1..(IF t.n = 0 THEN v.n ELSE Least(v.n, t.n))}
      [] t.k = "array" -> UNION {Puts(v.of[i], t.of, base + (i - 1) * length(t.of)) : i \in DOMAIN v.of}
      [] t.k \notin {"array", "struct"} -> Puts(v.of[1], t, base)
      [] OTHER -> LET s == strdec(t) IN UNION {Puts(v.of[i], s.memlist[i].t, base + s.memlist[i].hoffset) : i \in DOMAIN v.of}
Asked(v, t) == IF t.k = "array" /\ t.n = 0 THEN (IF v.k = "string" THEN v.n + 1 ELSE Len(v.of) * length(t.of)) ELSE length(t)

---------------------------------------------------------------------------
Init == /\ \/ input \in {"declarator"} \X Declarators
           \/ input \in {"structure"} \X Structures
           \/ input \in {"initializer"} \X Initialized
        /\ made = <<>>
Read ==
    /\ made = <<>>
    /\ made' = CASE input[1] = "declarator" -> <<Declared(Append(Written(input[2][1]), tok(";")), input[2][2])>>
                 [] input[1] = "structure" -> <<strdec(input[2])>>
                 [] OTHER -> <<extdef(Append(Tokens(input[2][2]), tok(";")), input[2][1])>>
    /\ UNCHANGED input
Next == Read
Spec == Init /\ [][Next]_vars

(* A declarator gives its name the derivations and dimensions it spells,   *)
(* or is refused as too complicated.                                       *)
Spelt(d, typedef, r) ==
    r.big \/ [type |-> r.type, dims |-> r.dims] = Means(d, [type |-> typedef[1], dims |-> typedef[2]])
(* No two members of a structure share a bit, what is not a char is at an  *)
(* even place, every member is inside, and another may follow.             *)
From(m) == 8 * m.hoffset + (IF m.bits > 0 THEN m.bit ELSE 0)
To(m) == From(m) + (IF m.bits >= 0 THEN m.bits ELSE 8 * length(m.t))
LaidOut(t, r) ==
    LET M == r.memlist IN
    /\ r.ssize % 2 = 0
    /\ \A i \in DOMAIN M : To(M[i]) <= 8 * r.ssize /\ (Element(M[i].t).k # "char" => M[i].hoffset % 2 = 0)
    /\ t.k = "struct" => \A i, j \in DOMAIN M : i < j => To(M[i]) <= From(M[j])
(* An initializer's values are where the members and elements they are for *)
(* were said to be, all else is zero, and the object has its size.         *)
Filled(t, v, r) ==
    /\ ~r.error
    /\ Len(r.in) = 1
    /\ Len(r.out) = Even(Asked(v, t))
    /\ {<<j, r.out[j]>> : j \in {k \in DOMAIN r.out : r.out[k] # <<0, 0>>}} = Puts(v, t, 0)
LaidOutAsWritten ==
    made # <<>> => CASE input[1] = "declarator" -> Spelt(input[2][1], input[2][2], made[1])
                     [] input[1] = "structure" -> LaidOut(input[2], made[1])
                     [] OTHER -> Filled(input[2][1], input[2][2], made[1])
=============================================================================
