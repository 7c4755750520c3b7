----------------------------- MODULE MCCInputs ------------------------------
(***************************************************************************)
(* Inputs for Cpp: every sequence of conditionals, definitions, uses and   *)
(* an #include whose file may open or close conditionals and has another   *)
(* file's name next to it; calls of macros across the buffers' ends.       *)
(*                                                                         *)
(* For C0Statements: loops, ifs and switches inside each other two deep,   *)
(* every kind of branch in the innermost; labels and gotos into and out of *)
(* loops.                                                                  *)
(*                                                                         *)
(* For C1Branch: every relation of words and of longs, conditions two      *)
(* operators deep, and case values near and far apart, few and many.       *)
(*                                                                         *)
(* For C2: routines of jumps, of moves before a test, of data among text.  *)
(***************************************************************************)
EXTENDS Integers, Sequences, SequencesExt, FiniteSetsExt

CONSTANT MaxLines

Id(n) == [t |-> "id", n |-> n]
NL == [t |-> "nl"]
Punct(c) == [t |-> c]
F(n) == [t |-> "formal", n |-> n]
D(d, n) == [t |-> "dir", d |-> d, n |-> n]
Define(n, params, body) == [t |-> "dir", d |-> "define", n |-> n, m |-> [params |-> params, body |-> body]]
If(k, n) == [t |-> "dir", d |-> "if", c |-> [k |-> k, n |-> n]]
Include(q, n) == [t |-> "dir", d |-> "include", n |-> n, quoted |-> q]

\* The lines of a main file, by number.
Lines == <<
    <<If("def", "X"), NL>>, <<If("ndef", "X"), NL>>, <<D("else", ""), NL>>, <<D("endif", ""), NL>>,
    <<Define("X", 0, <<>>), NL>>, <<Id("u"), NL>>, <<Include(TRUE, "h")>>, <<D("undef", "X"), NL>>,
    <<Include(FALSE, "h")>> >>
MainFile == <<".", "main">>
\* sub/h includes "g", which is beside it and in . as well.
Headers == (<<"inc", "h">> :> <<Id("h1"), NL, Include(TRUE, "g"), Id("h2"), NL>>)
        @@ (<<"inc", "g">> :> <<Id("g1"), NL, Define("X", 0, <<>>), NL>>)
        @@ (<<".", "g">> :> <<Id("wrong"), NL>>)
Uneven == <<".", "h">> :> <<If("def", "X"), NL, Id("h3"), NL, D("else", ""), NL, Include(TRUE, "g")>>

\* Macros: f of two arguments, g of one that calls f, v with no arguments.
Macros == <<Define("f", 2, <<F(2), Punct("("), F(1), Id("k"), Punct(")"), F(2)>>), NL,
            Define("g", 1, <<Id("f"), Punct("("), F(1), Punct(","), F(1), Punct(")")>>), NL,
            Define("k", 0, <<Id("m"), Id("m")>>), NL, Define("v", 0, <<Id("g")>>), NL>>
Args == << <<Id("a")>>, <<Id("k")>>, <<>>, <<Punct("("), Id("a"), Punct(","), Id("k"), Punct(")")>>, <<Id("k"), Id("k"), Id("k"), Id("k")>>,
           <<Id("g"), Punct("("), Id("b"), Punct(")")>> >>
Uses(c) == IF c[2] = "f" THEN <<Id("f"), Punct("(")>> \o Args[c[3]] \o <<Punct(",")>> \o Args[c[4]] \o <<Punct(")")>>
           ELSE <<Id(c[2]), Punct("(")>> \o Args[c[3]] \o <<Punct(")")>>
\* Calls that are not as they should be, names that stand for themselves.
Odd == << <<Id("f"), Punct("("), Id("a")>>, <<Id("g")>>, <<Id("g"), Id("a"), NL, Id("b")>>, <<Id("r"), Id("a")>>, <<Id("s")>>,
          <<Id("f"), Punct("("), Id("a"), Punct(")")>>, <<Define("", 0, <<>>), NL, Id("a")>> >>
Selves == <<Define("r", 0, <<Id("r")>>), NL, Define("s", 0, <<Id("s"), Id("x")>>), NL>>

MCFiles(c) ==
    CASE c[1] = "lines" -> (MainFile :> FlattenSeq([i \in DOMAIN c[2] |-> Lines[c[2][i]]]) \o <<Id("u"), NL>>) @@ Headers @@
                           (IF c[3] THEN Uneven ELSE [n \in {} |-> <<>>])
      [] c[1] = "call" -> MainFile :> Macros \o Uses(c) \o <<Id("z"), NL, Id("k"), NL>>
      [] c[1] = "odd" -> MainFile :> Macros \o Selves \o Odd[c[2]] \o <<NL>>
      [] OTHER -> MainFile :> <<Id("a"), NL, Include(TRUE, "main"), Id("b"), NL>>
MCInputs == {<<"lines", l, u>> : l \in UNION {[1..n -> DOMAIN Lines] : n \in 1..MaxLines}, u \in BOOLEAN}
            \cup ({"call"} \X {"f", "g", "v"} \X (DOMAIN Args) \X (DOMAIN Args))
            \cup ({"odd"} \X (DOMAIN Odd)) \cup {<<"self">>}

---------------------------------------------------------------------------
E == <<"expr">>
Block(s) == <<"block", s>>
Branching == {E, <<"break">>, <<"continue">>, <<"return">>, <<"value">>, <<"goto", "a">>}
Parts == {{}, {"test"}, {"init", "incr"}, {"init", "test", "incr"}}
\* s within one statement more.
Around(s) ==
    {<<"if", <<s>>>>, <<"if", <<s, E>>>>, <<"while", <<s>>>>, <<"do", <<s>>>>}
    \cup {<<"for", <<s>>, p>> : p \in Parts}
    \cup {<<"switch", <<Block(<<<<"case", <<s>>, 1>>, E, <<"default", <<E>>>>>>)>>>>,
          <<"switch", <<Block(<<E, <<"default", <<E>>>>, <<"case", <<E>>, 1>>, <<"case", <<s>>, 2>>>>)>>>>,
          <<"switch", <<Block(<<<<"case", <<Block(<<E, s>>)>>, 0>>, <<"case", <<s>>, 2>>>>)>>>>}
Once == UNION {Around(s) : s \in Branching}
\* Each as a function with a loop or a switch around it, the label a after the inner statement.
Outer(s) == {<<"while", <<s>>>>, <<"for", <<s>>, {"test", "incr"}>>, <<"if", <<<<"while", <<s>>>>, E>>>>,
             <<"switch", <<Block(<<<<"case", <<s>>, 1>>, <<"default", <<E>>>>, <<"case", <<E>>, 2>>>>)>>>>,
             <<"switch", <<Block(<<<<"default", <<s>>>>, <<"case", <<<<"while", <<Block(<<<<"break">>>>)>>>>>>, 2>>>>)>>>>}
MCFunctions == UNION {Outer(Block(<<s, <<"label", <<E>>, "a">>, E>>)) : s \in Once}
              \cup {Block(<<<<"goto", "a">>, <<"while", <<Block(<<E, <<"label", <<s>>, "a">>, E>>)>>>>, E>>) : s \in UNION {Around(E), Around(<<"goto", "a">>)}}
              \cup {Block(<<<<"case", <<E>>, 1>>, <<"empty">>, E>>)}

RECURSIVE Nodes(_, _)
\* The statement t as nodes, the first numbered i.
Nodes(t, i) ==
    LET kids == CASE Len(t) > 1 /\ t[1] # "goto" -> t[2] [] OTHER -> <<>>
        sub[j \in 0..Len(kids)] == IF j = 0 THEN [at |-> <<>>, out |-> <<>>]
                                   ELSE LET s == sub[j - 1] IN
                                        [at |-> Append(s.at, i + 1 + Len(s.out)), out |-> s.out \o Nodes(kids[j], i + 1 + Len(s.out))]
        all == sub[Len(kids)] IN
    <<[k |-> t[1], in |-> all.at,
       n |-> IF t[1] = "goto" THEN t[2] ELSE IF t[1] \in {"label", "case"} THEN t[3] ELSE "",
       has |-> IF t[1] = "for" THEN t[3] ELSE {}]>> \o all.out
MCSource(t) == Nodes(t, 1)
MCAnswers == [1..3 -> 0..2]

---------------------------------------------------------------------------
Unsigneds == {"LESSEQP", "LESSP", "GREATQP", "GREATP"}
Rels == {"EQUAL", "NEQUAL", "LESSEQ", "LESS", "GREATEQ", "GREAT"}
Word(leaf, rel, b) == [op |-> "word", leaf |-> leaf, rel |-> rel, a |-> <<"x">>, b |-> <<b>>]
Longs(leaf, rel, b) == [op |-> "long", leaf |-> leaf, rel |-> rel, a |-> <<"x", "lx">>, b |-> b]
Leaves == {Word("w", r, b) : r \in Rels \cup Unsigneds, b \in {"y", "zero"}}
          \cup {Longs("l", r, b) : r \in Rels, b \in {<<"y", "ly">>, <<"zero", "zero">>}}
          \cup {[op |-> "itols", leaf |-> "i", rel |-> r, a |-> <<"x">>, b |-> <<"y">>, unsign |-> u] : r \in Rels, u \in BOOLEAN}
Two(op, l, r) == [op |-> op, tr1 |-> l, tr2 |-> r]
Not(t) == [op |-> "not", tr1 |-> t]
A == {Word("a", "LESS", "y"), Not(Longs("a", "LESSEQ", <<"y", "ly">>))}
B == {Word("b", "EQUAL", "zero"), [op |-> "seqnc", tr1 |-> "e", tr2 |-> Longs("b", "GREAT", <<"zero", "zero">>)]}
Pairs == {Two(o, a, b) : o \in {"and", "or"}, a \in A, b \in B}
Trees == Leaves \cup Pairs \cup {Two(o, p, Word("c", "GREATP", "y")) : o \in {"and", "or"}, p \in Pairs \cup {Not(p) : p \in Pairs}}
         \cup {Two(o, Word("c", "GREATP", "y"), p) : o \in {"and", "or"}, p \in Pairs}
MCConditions == Trees \X BOOLEAN
Few == <<31, 3, -32, 0, -1, -2>>
Many == {[k \in 1..12 |-> 30 - 5 * k], [k \in 1..12 |-> IF k < 7 THEN 26 - k ELSE k - 39], [k \in 1..12 |-> 6 - k], [k \in 1..21 |-> 3 * k - 32],
         <<0, 1, 2, 3, 4, 5, 6, 7, 8, 9, 31, -31>>, [k \in 1..10 |-> ((k * k) % 41) - 20]}
MCSwitches == {SelectSeq(Few, LAMBDA v : v \in s) : s \in SUBSET Range(Few)} \cup Many

---------------------------------------------------------------------------
No == [m |-> "no", v |-> ""]
Con(v) == [m |-> "con", v |-> v]
Node(op, sub, a, b, lab) == [id |-> 0, op |-> op, sub |-> sub, a |-> a, b |-> b, lab |-> lab, refc |-> 0]

R(r) == [m |-> "reg", v |-> r]
At(m, r) == [m |-> m, v |-> r]
X == [m |-> "mem", v |-> "x"]
Y == [m |-> "mem", v |-> "y"]
I1(op, a) == Node(op, "", a, No, 0)
I2(op, a, b) == Node(op, "", a, b, 0)
Jmp(l) == Node("JBR", "", No, No, l)
Cbr(c, l) == Node("CBR", c, No, No, l)
Lab(l) == Node("LABEL", "", No, No, l)
Ret == Node("JMP", "", Con("cret"), No, 0)
Close == <<Ret, Node("EROU", "", No, No, 0)>>

\* Jumps: instructions, and the labels 1 and 2 among them.
Slots == <<I2("ADD", Con("1"), X), I1("DEC", R("r0")), I1("INC", Y), Jmp(1), Jmp(2), Cbr("JNE", 1), Cbr("JLT", 2)>>
TestsFollow(b) == \A i \in DOMAIN b : b[i] \in {6, 7} => i > 1 /\ (b[i - 1] \in {2, 3} \/ (i > 2 /\ b[i - 1] \in {6, 7} /\ b[i - 2] = 3))
Labelled(b, i, j) == SubSeq(b, 1, i) \o <<Lab(1)>> \o SubSeq(b, i + 1, j) \o <<Lab(2)>> \o SubSeq(b, j + 1, Len(b))
Jumping(n) == {p \in {"jumps"} \X [1..n -> 1..7] \X (0..n) \X (0..n) : p[3] <= p[4] /\ TestsFollow(p[2]) /\ \A k \in {p[3] + 1, p[4] + 1} : k <= n => p[2][k] \notin {6, 7}}

\* Moves, then a test of x or r0 and something that depends on it.
Moves == <<I2("MOV", Con("0"), R("r0")), I2("MOV", X, R("r0")), I2("MOV", Y, R("r0")), I2("MOV", R("r0"), R("r1")), I2("MOV", R("r0"), X),
           I2("MOV", Y, R("r1")), I2("ADD", Con("1"), R("r0")), I1("INC", Y), I1("CLR", R("r1")), I2("MOV", Con("1"), X), I2("MOV", Y, X), I1("INC", X),
           I2("MOV", Con("0"), At("def", "r1")), I2("MOV", At("inc", "r1"), R("r0")), Node("MOV", "BYTE", Y, R("r0"), 0), I1("OTHER", Con("f")), I2("BIC", Con("-1"), R("r0")), I2("BIS", X, Y)>>
Testing == <<I1("TST", X), I1("TST", R("r0")), I2("CMP", R("r0"), Con("1")), I2("BIT", Con("-1"), X), I2("BIT", Con("0"), X)>>
Moving(n, most) == {"moves"} \X [1..n -> 1..most] \X (1..5) \X {"JEQ", "JLT"}

\* Data between text.
Dir(op) == Node(op, "", No, No, 0)
Pieces == <<<<Dir("DATA"), I1("OTHER", Con("1")), Dir("TEXT")>>, <<Dir("DATA"), I1("OTHER", Con("2")), Dir("TEXT")>>, <<I1("INC", X)>>,
            <<Dir("DATA"), Dir("TEXT")>>, <<Dir("BSS"), I1("OTHER", Con("0")), Dir("TEXT")>>, <<Dir("TEXT")>>>>
Scattered == {"data"} \X [1..3 -> 1..6]

MCRoutine(p) ==
    (IF p[1] = "data" THEN Pieces[p[2][1]] \o Pieces[p[2][2]] \o Pieces[p[2][3]]
     ELSE IF p[1] = "jumps" THEN Labelled([i \in DOMAIN p[2] |-> Slots[p[2][i]]], p[3], p[4])
     ELSE [i \in DOMAIN p[2] |-> Moves[p[2][i]]] \o <<Testing[p[3]], Cbr(p[4], 1), I2("MOV", Con("2"), Y), Lab(1)>>) \o Close
\* What c2 is asked in good order: nothing behind a jump but a label, no
\* instruction twice, and no cell written again that held a constant.
Plain(p) ==
    IF p[1] = "data" THEN TRUE
    ELSE IF p[1] = "jumps"
    THEN /\ \A i, j \in DOMAIN p[2] : i < j /\ p[2][i] = p[2][j] => p[2][i] \in 4..7
         /\ \A i \in 1..(Len(p[2]) - 1) : p[2][i] \in {4, 5} => i \in {p[3], p[4]}
    ELSE \A i, j \in DOMAIN p[2] : i < j /\ p[2][i] = 10 => p[2][j] \notin {5, 11, 12}
MCPrograms == {p \in Jumping(4) \union Moving(2, 18) \union Moving(3, 9) \union Scattered : Plain(p)}
MCMemory == {[r0 |-> 1, r1 |-> 2, x |-> 0, y |-> 3], [r0 |-> 0, r1 |-> 3, x |-> 1, y |-> 0], [r0 |-> 3, r1 |-> 1, x |-> 2, y |-> 1]}
MCRegs == <<"r0", "r1">>
=============================================================================
