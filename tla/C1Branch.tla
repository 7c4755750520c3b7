------------------------------ MODULE C1Branch ------------------------------
(***************************************************************************)
(* The second pass's branches: the code for a condition (cbranch, and      *)
(* longrel's comparison of a long a word at a time) and for a switch       *)
(* (pswitch's table, chain of tests or hash).                              *)
(*                                                                         *)
(* A condition is a tree of and, or, not and comma over comparisons of two *)
(* operands; a long operand is its two words.                              *)
(***************************************************************************)
EXTENDS Integers, SequencesExt, FiniteSetsExt

CONSTANTS
    Conditions,    \* <<tree, cond>>: jump when the tree is cond
    Switches,      \* sequences of distinct case values, as read
    Words,         \* the words operands hold
    Bits           \* of a word

VARIABLES input, code

vars == <<input, code>>

Modulus == 2 ^ Bits
Signed(w) == IF w >= Modulus \div 2 THEN w - Modulus ELSE w

---------------------------------------------------------------------------
(* The machine's conditional jumps, after `cmp s,d'.                       *)

Holds(jump, s, d) ==
    CASE jump = "jeq" -> s = d [] jump = "jne" -> s # d
      [] jump = "jlt" -> Signed(s) < Signed(d) [] jump = "jle" -> Signed(s) <= Signed(d)
      [] jump = "jgt" -> Signed(s) > Signed(d) [] jump = "jge" -> Signed(s) >= Signed(d)
      [] jump = "jlo" -> s < d [] jump = "jlos" -> s <= d [] jump = "jhi" -> s > d [] jump = "jhis" -> s >= d
      [] jump = "jbr" -> TRUE [] jump = "nop" -> FALSE

\* branchtab: for each relation, the jump and the opposite one; against zero the carry says nothing.
branchtab == [EQUAL |-> <<"jeq", "jne">>, NEQUAL |-> <<"jne", "jeq">>, LESSEQ |-> <<"jle", "jgt">>, LESS |-> <<"jlt", "jge">>,
              GREATEQ |-> <<"jge", "jlt">>, GREAT |-> <<"jgt", "jle">>, LESSEQP |-> <<"jlos", "jhi">>, LESSP |-> <<"jlo", "jhis">>,
              GREATQP |-> <<"jhis", "jlo">>, GREATP |-> <<"jhi", "jlos">>]
zerotab == [branchtab EXCEPT !.LESSEQP = <<"jeq", "jne">>, !.LESSP = <<"nop", "jbr">>, !.GREATQP = <<"jbr", "nop">>, !.GREATP = <<"jne", "jeq">>]
maprel == [EQUAL |-> "EQUAL", NEQUAL |-> "NEQUAL", LESSEQ |-> "GREATEQ", LESS |-> "GREAT", GREATEQ |-> "LESSEQ", GREAT |-> "LESS",
           LESSEQP |-> "GREATQP", LESSP |-> "GREATP", GREATQP |-> "LESSEQP", GREATP |-> "LESSP"]
notrel == [EQUAL |-> "NEQUAL", NEQUAL |-> "EQUAL", LESSEQ |-> "GREAT", LESS |-> "GREATEQ", GREATEQ |-> "LESS", GREAT |-> "LESSEQ",
           LESSEQP |-> "GREATP", LESSP |-> "GREATQP", GREATQP |-> "LESSP", GREATP |-> "LESSEQP"]

\* Two longs made of ints are compared as ints, as unsigned ones when they are.
unsignedrel == [EQUAL |-> "EQUAL", NEQUAL |-> "NEQUAL", LESSEQ |-> "LESSEQP", LESS |-> "LESSP", GREATEQ |-> "GREATQP", GREAT |-> "GREATP"]

\* lrtab: after the high words, the jump to the label and the jump past the low words; after the low words, the label.
Longrels == <<"EQUAL", "NEQUAL", "LESSEQ", "LESS", "GREATEQ", "GREAT">>
lrtabPastEqual == << << <<"", "NEQUAL", "LESS", "LESS", "GREAT", "GREAT">>,
                       <<"NEQUAL", "", "GREAT", "GREAT", "LESS", "LESS">>,
                       <<"EQUAL", "NEQUAL", "LESSEQ", "LESS", "GREATEQ", "GREAT">> >>,
                    << <<"", "NEQUAL", "LESS", "LESS", "GREATEQ", "GREAT">>,
                       <<"NEQUAL", "", "GREAT", "", "", "LESS">>,
                       <<"EQUAL", "NEQUAL", "EQUAL", "", "", "NEQUAL">> >> >>
lrtab == << << <<"", "NEQUAL", "LESS", "LESS", "GREAT", "GREAT">>,
               <<"NEQUAL", "", "GREAT", "GREAT", "LESS", "LESS">>,
               <<"EQUAL", "NEQUAL", "LESSEQP", "LESSP", "GREATQP", "GREATP">> >>,
            << <<"", "NEQUAL", "LESS", "LESS", "GREATEQ", "GREAT">>,
               <<"NEQUAL", "", "GREAT", "", "", "LESS">>,
               <<"EQUAL", "NEQUAL", "EQUAL", "", "", "NEQUAL">> >> >>

---------------------------------------------------------------------------
(* Conditions.  Code made so far, and the next label.                      *)

Label(l) == <<[op |-> "label", to |-> l]>>
Jump(how, l) == <<[op |-> how, to |-> l]>>
Compare(s, d, leaf) == <<[op |-> "cmp", s |-> s, d |-> d, leaf |-> leaf]>>
Adds(c, s) == [c EXCEPT !.code = @ \o s]

\* longrel and its two calls of xlongrel; zero says the right side is a long zero.
longrel(t, lbl, cond, c) ==
    LET op == IF cond THEN t.rel ELSE notrel[t.rel]
        row == lrtab[IF t.b = <<"zero", "zero">> THEN 2 ELSE 1]
        at == CHOOSE i \in 1..6 : Longrels[i] = op
        Branch(rel, l) == IF rel = "" THEN <<>> ELSE Jump(branchtab[rel][1], l)
        past == row[2][at] # "" IN
    [code |-> c.code \o Compare(t.a[1], t.b[1], t.leaf) \o Branch(row[1][at], lbl) \o Branch(row[2][at], c.isn)
              \o (IF row[3][at] = "" THEN <<>> ELSE Compare(t.a[2], t.b[2], "") \o Branch(row[3][at], lbl))
              \o (IF row[3][at] # "" /\ past THEN Label(c.isn) ELSE <<>>),
     isn |-> IF past THEN c.isn + 1 ELSE c.isn]

RECURSIVE cbranch(_, _, _, _)
cbranch(t, lbl, cond, c) ==
    CASE t.op \in {"and", "or"} /\ (t.op = "and") # cond -> cbranch(t.tr2, lbl, cond, cbranch(t.tr1, lbl, cond, c))
      [] t.op \in {"and", "or"} /\ (t.op = "and") = cond ->
            Adds(cbranch(t.tr2, lbl, cond, cbranch(t.tr1, c.isn, ~cond, [c EXCEPT !.isn = @ + 1])), Label(c.isn))
      [] t.op = "not" -> cbranch(t.tr1, lbl, ~cond, c)
      [] t.op = "seqnc" -> cbranch(t.tr2, lbl, cond, Adds(c, <<[op |-> "expr", leaf |-> t.tr1]>>))
      [] t.op = "long" -> longrel(t, lbl, cond, c)
      [] t.op = "itols" -> cbranch([t EXCEPT !.op = "word", !.rel = IF t.unsign THEN unsignedrel[@] ELSE @], lbl, cond, c)
      [] t.op = "word" /\ t.b[1] = "zero" -> Adds(c, Compare(t.a[1], "zero", t.leaf) \o Jump(zerotab[t.rel][IF cond THEN 1 ELSE 2], lbl))
      [] OTHER -> Adds(c, Compare(t.b[1], t.a[1], t.leaf) \o Jump(branchtab[maprel[t.rel]][IF cond THEN 1 ELSE 2], lbl))

---------------------------------------------------------------------------
(* Switches: r0 is the value; case i of the source goes to label i, and    *)
(* deflab is label 0.                                                      *)

Cases(s) == SortSeq([i \in DOMAIN s |-> [val |-> s[i], lab |-> i]], LAMBDA x, y : x.val < y.val)
breq(v, l) == <<[op |-> "breq", v |-> v, to |-> l]>>
Table(by, labels) == <<[op |-> "table", by |-> by, labels |-> labels]>>
Direct(cs) ==
    LET first == cs[1].val
        range == cs[Len(cs)].val - first
        Of(v) == {i \in DOMAIN cs : cs[i].val = v} IN
    (IF first = 0 THEN <<>> ELSE <<[op |-> "sub", v |-> first]>>) \o <<[op |-> "cmphi", v |-> range, to |-> 0]>>
    \o Table("r0", [k \in 1..(range + 1) |-> IF Of(first + k - 1) = {} THEN 0 ELSE cs[CHOOSE i \in Of(first + k - 1) : TRUE].lab])
Simple(cs) == FlattenSeq([i \in DOMAIN cs |-> breq(cs[i].val, cs[i].lab)]) \o Jump("jbr", 0)
Bucket(cs, tabs, k) == SelectSeq(cs, LAMBDA c : (c.val % Modulus) % tabs = k)
\* The number of buckets that makes the longest cheapest, the first such.
Cost(cs, n) == n * Max({Len(Bucket(cs, n, k)) : k \in 0..(n - 1)})
Tables(cs) == (Len(cs) \div 4)..(Len(cs) \div 2)
Tabs(cs) == CHOOSE n \in Tables(cs) : \A m \in Tables(cs) : Cost(cs, n) < Cost(cs, m) \/ (Cost(cs, n) = Cost(cs, m) /\ n <= m)
Hashed(cs) ==
    LET tabs == Tabs(cs)
        Tests(k) == [i \in DOMAIN Bucket(cs, tabs, k) |-> breq((Bucket(cs, tabs, k)[i].val % Modulus) \div tabs, Bucket(cs, tabs, k)[i].lab)] IN
    <<[op |-> "div", v |-> tabs]>> \o Table("r1", [k \in 1..tabs |-> -k])
    \o FlattenSeq([k \in 1..tabs |-> Label(-k) \o FlattenSeq(Tests(k - 1)) \o Jump("jbr", 0)])
pswitch(s) ==
    LET cs == Cases(s)
        range == cs[Len(cs)].val - cs[1].val IN
    CASE s = <<>> -> Jump("jbr", 0)
      [] range > 0 /\ range <= 3 * Len(cs) -> Direct(cs)
      [] Len(cs) < 10 -> Simple(cs)
      [] OTHER -> Hashed(cs)

---------------------------------------------------------------------------
Init ==
    /\ \/ \E c \in Conditions : input = [k |-> "condition", tree |-> c[1], cond |-> c[2]]
       \/ \E s \in Switches : input = [k |-> "switch", vals |-> s]
    /\ code = <<>>
Branch ==
    /\ code = <<>> /\ input.k = "condition"
    /\ code' = cbranch(input.tree, 1, input.cond, [code |-> <<>>, isn |-> 2]).code
    /\ UNCHANGED input
Switch ==
    /\ code = <<>> /\ input.k = "switch"
    /\ code' = pswitch(input.vals)
    /\ UNCHANGED input
Next == Branch \/ Switch
Spec == Init /\ [][Next]_vars

---------------------------------------------------------------------------
(* What the code does: the leaves it evaluates, and the label it reaches,  *)
(* or that it runs off its end.                                            *)

Place(l) == {p \in DOMAIN code : code[p].op = "label" /\ code[p].to = l}
RECURSIVE Runs(_, _, _, _)
Runs(pc, env, last, seen) ==
    IF pc > Len(code) THEN [at |-> "end", seen |-> seen] ELSE
    LET i == code[pc]
        Goes(l) == IF Place(l) = {} THEN [at |-> ToString(l), seen |-> seen] ELSE Runs(CHOOSE p \in Place(l) : TRUE, env, last, seen) IN
    CASE i.op = "label" -> Runs(pc + 1, env, last, seen)
      [] i.op = "expr" -> Runs(pc + 1, env, last, Append(seen, i.leaf))
      [] i.op = "cmp" -> Runs(pc + 1, env, <<env[i.s], env[i.d]>>, IF i.leaf = "" THEN seen ELSE Append(seen, i.leaf))
      [] i.op = "sub" -> Runs(pc + 1, [env EXCEPT !.r0 = (@ - i.v) % Modulus], last, seen)
      [] i.op = "cmphi" -> IF env.r0 > i.v THEN Goes(i.to) ELSE Runs(pc + 1, env, last, seen)
      [] i.op = "table" -> Goes(i.labels[env[i.by] + 1])
      [] i.op = "div" -> Runs(pc + 1, [r0 |-> env.r0 \div i.v, r1 |-> env.r0 % i.v], last, seen)
      [] i.op = "breq" -> IF env.r0 = i.v % Modulus THEN Goes(i.to) ELSE Runs(pc + 1, env, last, seen)
      [] OTHER -> IF Holds(i.op, last[1], last[2]) THEN Goes(i.to) ELSE Runs(pc + 1, env, last, seen)

\* The condition as C has it: its value, and the leaves evaluated.
Long(env, x) == Signed(env[x[1]]) * Modulus + env[x[2]]
Relation(rel, s, d, u, v) ==
    CASE rel = "EQUAL" -> s = d [] rel = "NEQUAL" -> s # d [] rel = "LESSEQ" -> s <= d [] rel = "LESS" -> s < d
      [] rel = "GREATEQ" -> s >= d [] rel = "GREAT" -> s > d
      [] rel = "LESSEQP" -> u <= v [] rel = "LESSP" -> u < v [] rel = "GREATQP" -> u >= v [] rel = "GREATP" -> u > v
RECURSIVE Value(_, _)
Value(t, env) ==
    CASE t.op = "word" -> [is |-> Relation(t.rel, Signed(env[t.a[1]]), Signed(env[t.b[1]]), env[t.a[1]], env[t.b[1]]), seen |-> <<t.leaf>>]
      [] t.op = "long" -> [is |-> Relation(t.rel, Long(env, t.a), Long(env, t.b), 0, 0), seen |-> <<t.leaf>>]
      [] t.op = "itols" -> LET Of(x) == IF t.unsign THEN env[x] ELSE Signed(env[x]) IN
            [is |-> Relation(t.rel, Of(t.a[1]), Of(t.b[1]), 0, 0), seen |-> <<t.leaf>>]
      [] t.op = "not" -> [Value(t.tr1, env) EXCEPT !.is = ~@]
      [] t.op = "seqnc" -> [Value(t.tr2, env) EXCEPT !.seen = <<t.tr1>> \o @]
      [] OTHER -> LET l == Value(t.tr1, env)
                      r == Value(t.tr2, env) IN
                  IF l.is = (t.op = "or") THEN l ELSE [r EXCEPT !.seen = l.seen \o @]

Environments == [{"x", "y", "lx", "ly"} -> Words]
Env(e) == [x \in DOMAIN e \cup {"zero"} |-> IF x = "zero" THEN 0 ELSE e[x]]

(* A condition's code jumps exactly when the condition says, for all       *)
(* values, having evaluated what C evaluates and in its order; a switch's  *)
(* reaches the case that has the value, the default for every other value. *)
BranchesRight ==
    code # <<>> =>
        IF input.k = "condition"
        THEN \A e \in Environments :
                LET got == Runs(1, Env(e), <<>>, <<>>)
                    is == Value(input.tree, Env(e)) IN
                got.seen = is.seen /\ (got.at = "1") = (is.is = input.cond)
        ELSE \A v \in 0..(Modulus - 1) :
                LET hit == {i \in DOMAIN input.vals : input.vals[i] % Modulus = v} IN
                Runs(1, [r0 |-> v, r1 |-> v], <<>>, <<>>).at = ToString(IF hit = {} THEN 0 ELSE CHOOSE i \in hit : TRUE)
=============================================================================
