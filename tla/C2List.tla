------------------------------- MODULE C2List -------------------------------
(***************************************************************************)
(* The list pdp11-c2 keeps of one routine, and what it does to its labels, *)
(* jumps and data (src/pdp11-c2/c20.c).  A node is [id, op, sub, a, b,     *)
(* lab, refc]; the list starts with the header `first' and ends at END.    *)
(* An operand is [m, v], m one of "reg", "mem", "con", "def" and "mdef"    *)
(* (through a register or a memory cell), "inc" (auto-increment) and "no". *)
(* Switch tables and the spelling of operands are left out.                *)
(***************************************************************************)
EXTENDS Integers, Sequences, SequencesExt, FiniteSets

No == [m |-> "no", v |-> ""]
Con(v) == [m |-> "con", v |-> v]
Zero == Con("0")
Ones == Con("-1")
Node(op, sub, a, b, lab) == [id |-> 0, op |-> op, sub |-> sub, a |-> a, b |-> b, lab |-> lab, refc |-> 0]
first == Node("OTHER", "", No, No, 0)
END == [Node("END", "", No, No, 0) EXCEPT !.id = -1]
Label(l, refs) == [Node("LABEL", "", No, No, l) EXCEPT !.id = l, !.refc = refs]

revbr == [c \in {"JEQ", "JNE", "JLE", "JGE", "JLT", "JGT", "JLO", "JHI", "JLOS", "JHIS"} |->
            CASE c = "JEQ" -> "JNE" [] c = "JNE" -> "JEQ" [] c = "JLE" -> "JGT" [] c = "JGE" -> "JLT" [] c = "JLT" -> "JGE"
              [] c = "JGT" -> "JLE" [] c = "JLO" -> "JHIS" [] c = "JHI" -> "JLOS" [] c = "JLOS" -> "JHI" [] c = "JHIS" -> "JLO"]

---------------------------------------------------------------------------
(* The list.                                                               *)

At(s, id) == CHOOSE i \in DOMAIN s : s[i].id = id
LabelsOf(s, l) == {i \in DOMAIN s : s[i].op = "LABEL" /\ s[i].lab = l}
HasRef(n) == n.op \in {"JBR", "CBR"}
Ref(s, i) == IF HasRef(s[i]) /\ LabelsOf(s, s[i].lab) # {} THEN CHOOSE j \in LabelsOf(s, s[i].lab) : TRUE ELSE 0
nonlab(s, i) == CHOOSE j \in i..Len(s) : s[j].op # "LABEL" /\ \A k \in i..(j - 1) : s[k].op = "LABEL"
Before(s, i) == CHOOSE j \in 1..(i - 1) : s[j].op # "LABEL" /\ \A k \in (j + 1)..(i - 1) : s[k].op = "LABEL"
Incref(s, l) == LET i == CHOOSE j \in LabelsOf(s, l) : TRUE IN [s EXCEPT ![i].refc = @ + 1]
decref(s, l) ==
    LET i == CHOOSE j \in LabelsOf(s, l) : TRUE
    IN IF s[i].refc <= 1 THEN RemoveAt(s, i) ELSE [s EXCEPT ![i].refc = @ - 1]

\* insertl: node i if it is a label, or the label before it, an old one or a new one.
insertl(s, i, new) ==
    IF \E k \in {i - 1, i} : s[k].op = "LABEL"
    THEN LET l == s[IF s[i].op = "LABEL" THEN i ELSE i - 1].lab IN [q |-> Incref(s, l), lab |-> l, isn |-> new]
    ELSE [q |-> InsertAt(s, i, Label(new, 1)), lab |-> new, isn |-> new + 1]
equop(m, n) == m.op = n.op /\ m.sub = n.sub /\ ~(HasRef(m) \/ m.op \in {"JMP", "LABEL", "EROU"}) /\ m.a = n.a /\ m.b = n.b

\* A function on a record with a field on, applied while that is TRUE.
While(step(_), start, most) ==
    LET after[k \in 0..most] == IF k = 0 THEN start ELSE LET last == after[k - 1] IN IF last.on THEN step(last) ELSE last
    IN after[most]

---------------------------------------------------------------------------
(* movedat: the data of the routine in front of its text.                  *)

Segment == {"TEXT", "DATA", "BSS"}
Unmoved(s) == {i \in DOMAIN s : s[i].op = "DATA" /\ \E j \in (i + 1)..Len(s) : s[j].op = "TEXT"}
Gather(w) ==
    IF Unmoved(w.q) = {} THEN [w EXCEPT !.on = FALSE]
    ELSE LET i == CHOOSE x \in Unmoved(w.q) : \A y \in Unmoved(w.q) : x <= y
             j == CHOOSE x \in i..Len(w.q) : w.q[x].op = "TEXT" /\ \A y \in i..(x - 1) : w.q[y].op # "TEXT"
         IN [w EXCEPT !.data = @ \o SubSeq(w.q, i, j), !.q = SubSeq(w.q, 1, i - 1) \o SubSeq(w.q, j + 1, Len(w.q))]

\* Of two directives in a row the last counts, and none that changes nothing stays.
Collapse(w) ==
    IF w.i > Len(w.q) THEN [w EXCEPT !.on = FALSE]
    ELSE IF w.q[w.i].op \notin Segment THEN [w EXCEPT !.i = @ + 1]
    ELSE LET last == w.i = Len(w.q)
             op == IF ~last /\ w.q[w.i + 1].op \in Segment THEN w.q[w.i + 1].op ELSE w.q[w.i].op
         IN IF op = w.seg \/ (~last /\ w.q[w.i + 1].op = w.seg) THEN [w EXCEPT !.q = RemoveAt(w.q, w.i)]
            ELSE [w EXCEPT !.q[w.i].op = op, !.seg = op, !.i = @ + 1]
movedat(s, lastseg) ==
    LET t == IF lastseg \in {"TEXT", ""} THEN s ELSE <<s[1], [Node(lastseg, "", No, No, 0) EXCEPT !.id = -2]>> \o Tail(s)
        g == While(Gather, [q |-> t, data |-> <<>>, on |-> TRUE], Len(t))
        c == While(Collapse, [q |-> <<g.q[1]>> \o g.data \o Tail(g.q), i |-> 2, seg |-> lastseg, on |-> TRUE], 2 * Len(t))
    IN c.q

---------------------------------------------------------------------------
(* refcount and iterate: labels and jumps.                                 *)

\* Every jump goes to the last label of a run; a label nobody uses goes,
\* unless nothing known follows.
refcount(s) ==
    LET last(l) == LET i == CHOOSE j \in LabelsOf(s, l) : TRUE IN s[nonlab(s, i) - 1].lab
        t == [i \in DOMAIN s |-> IF HasRef(s[i]) /\ LabelsOf(s, s[i].lab) # {} THEN [s[i] EXCEPT !.lab = last(s[i].lab)] ELSE s[i]]
        refs(l) == Cardinality({i \in DOMAIN t : HasRef(t[i]) /\ t[i].lab = l})
        used(i) == t[i].op # "LABEL" \/ refs(t[i].lab) > 0 \/ t[nonlab(t, i)].op = "OTHER"
        kept == SelectSeq([i \in DOMAIN t |-> i], LAMBDA i : used(i))
    IN [k \in DOMAIN kept |-> IF t[kept[k]].op = "LABEL" THEN [t[kept[k]] EXCEPT !.refc = refs(t[kept[k]].lab)] ELSE t[kept[k]]]

\* The steps of iterate at the node whose id is c; n counts the changes.
Jumps(s, i) == s[i].op \in {"JBR", "JMP"}
Thread(w) ==
    LET i == At(w.q, w.c) r == Ref(w.q, i)
    IN IF r = 0 THEN w
       ELSE LET t == w.q[nonlab(w.q, r)]
            IN IF t.op = "JBR" /\ t.lab # 0 /\ w.q[i].lab # t.lab
               THEN [w EXCEPT !.q = Incref(decref([w.q EXCEPT ![i].lab = t.lab], w.q[i].lab), t.lab), !.n = @ + 1]
               ELSE w
Skip(w) ==
    LET i == At(w.q, w.c)
    IN IF w.q[i].op = "CBR" /\ w.q[i + 1].op = "JBR" /\ Ref(w.q, i) # 0 /\ Before(w.q, Ref(w.q, i)) = i + 1
       THEN [w EXCEPT !.q = decref(RemoveAt([w.q EXCEPT ![i].lab = w.q[i + 1].lab, ![i].sub = revbr[@]], i + 1), w.q[i].lab), !.n = @ + 1]
       ELSE w
Stops == {"LABEL", "EROU", "END", "OTHER", "DATA"}
DropAfter(w) ==
    LET i == At(w.q, w.c) d == w.q[i + 1]
    IN IF ~Jumps(w.q, i) \/ d.op \in Stops THEN [w EXCEPT !.on = FALSE]
       ELSE [w EXCEPT !.q = LET s == RemoveAt(w.q, i + 1) IN IF Ref(w.q, i + 1) # 0 THEN decref(s, d.lab) ELSE s, !.n = @ + 1]
DeadAfter(w) == LET d == While(DropAfter, [w EXCEPT !.on = TRUE], Len(w.q)) IN [d EXCEPT !.on = TRUE]
ToNext(w) ==
    LET i == At(w.q, w.c)
    IN IF Jumps(w.q, i) /\ Ref(w.q, i) > i /\ \A k \in (i + 1)..Ref(w.q, i) : w.q[k].op = "LABEL"
       THEN [w EXCEPT !.q = decref(RemoveAt(w.q, i), w.q[i].lab), !.c = w.q[i - 1].id, !.n = @ + 1]
       ELSE w

\* xjump: what stands before the jump and before its target is done once.
CrossOne(x) ==
    LET i == Before(x.q, At(x.q, x.p1)) j == Before(x.q, At(x.q, x.p2))
    IN IF i = j \/ ~equop(x.q[i], x.q[j]) THEN [x EXCEPT !.on = FALSE]
       ELSE LET l == insertl(x.q, j, x.isn) p1 == x.q[i].id
            IN [x EXCEPT !.q = [l.q EXCEPT ![At(l.q, p1)] = [Node("JBR", "", No, No, l.lab) EXCEPT !.id = p1]],
                         !.p1 = p1, !.p2 = x.q[j].id, !.isn = l.isn, !.n = @ + 1]
xjump(w) ==
    LET i == At(w.q, w.c)
    IN IF Ref(w.q, i) = 0 THEN w
       ELSE LET x == While(CrossOne, [q |-> w.q, isn |-> w.isn, n |-> w.n, p1 |-> w.c, p2 |-> w.q[Ref(w.q, i)].id, on |-> TRUE], Len(w.q))
            IN [w EXCEPT !.q = x.q, !.isn = x.isn, !.n = x.n]

\* codemove: the block a jump goes to, if nothing runs into it, is put in the
\* jump's place (the links of one right beside the jump become a ring); a loop entered at its test gets the test at the bottom.
Cut(s, i, from, to) ==
    IF from > i THEN SubSeq(s, 1, i - 1) \o SubSeq(s, from, to) \o SubSeq(s, i + 1, from - 1) \o SubSeq(s, to + 1, Len(s))
    ELSE SubSeq(s, 1, from - 1) \o SubSeq(s, to + 1, i - 1) \o SubSeq(s, from, to) \o SubSeq(s, i + 1, Len(s))
\* The walk goes on at the block's first node or, if that was a label that went, before it.
Resume(w, moved, t, top) ==
    [w EXCEPT !.q = t, !.n = @ + 1, !.c = IF \E k \in DOMAIN t : t[k].id = top THEN top ELSE moved[At(moved, top) - 1].id]
Uncounted(w, moved, lab, top) == Resume(w, moved, decref(moved, lab), top)
MoveTo(w, i, from, to) ==
    IF to = i THEN w
    ELSE IF from = i + 1 \/ (to = i - 1 /\ w.q[Ref(w.q, i)].refc = 1) THEN [w EXCEPT !.ring = TRUE]
    ELSE Uncounted(w, Cut(w.q, i, from, to), w.q[i].lab, w.q[from].id)
MoveBlock(w, i, from) ==
    LET ends == {k \in Ref(w.q, i)..Len(w.q) : Jumps(w.q, k)}
    IN IF ends = {} THEN w ELSE MoveTo(w, i, from, CHOOSE k \in ends : \A x \in ends : k <= x)

\* The test, at to, goes below the loop it closes; the jump at j above it.
Rotated(d, from, to, j) == SubSeq(d, 1, from - 1) \o <<d[j]>> \o SubSeq(d, to + 1, j - 1) \o SubSeq(d, from, to) \o SubSeq(d, j + 1, Len(d))
Retarget(w, top, test, lab) ==
    [w EXCEPT !.q = decref([top.q EXCEPT ![At(top.q, test)].lab = top.lab], lab), !.isn = top.isn, !.n = @ + 1, !.c = test]
TestBelow(w, d, from, to, p1, tl) == Retarget(w, insertl(Rotated(d, from, to, At(d, p1)), from + 1, tl.isn), w.q[to].id, tl.lab)
InvertAt(w, i, from, to, tl) ==
    TestBelow(w, decref([tl.q EXCEPT ![to].sub = revbr[@]], w.q[i + 1].lab), from, to, w.q[i].id, tl)
Invert(w, i, from) ==
    LET tests == {k \in (from + 1)..(from + 15) : k \in DOMAIN w.q /\ w.q[k].op = "CBR" /\ w.q[k].lab = w.q[i + 1].lab}
        to == CHOOSE k \in tests : \A x \in tests : k <= x
    IN IF tests = {} \/ i <= to THEN w ELSE InvertAt(w, i, from, to, insertl(w.q, i, w.isn))
codemove(w) ==
    LET i == At(w.q, w.c)
    IN IF w.q[i].op # "JBR" \/ Ref(w.q, i) = 0 THEN w
       ELSE LET b == Before(w.q, Ref(w.q, i))
            IN IF Jumps(w.q, b) THEN MoveBlock(w, i, b + 1)
               ELSE IF w.q[i + 1].op = "LABEL" THEN Invert(w, i, b + 1)
               ELSE w

Jump(w) == IF Jumps(w.q, At(w.q, w.c)) THEN codemove(xjump(w)) ELSE w
Forward(w) ==
    LET next == At(w.q, w.c) + 1
    IN IF w.ring \/ next > Len(w.q) THEN [w EXCEPT !.on = FALSE] ELSE [w EXCEPT !.c = w.q[next].id]
IterateNode(w) == Forward(Jump(ToNext(DeadAfter(Skip(Thread(w))))))
iterate(s, new) == While(IterateNode, [q |-> s, c |-> s[2].id, n |-> 0, isn |-> new, ring |-> FALSE, on |-> TRUE], 6 * Len(s))

---------------------------------------------------------------------------
(* comjump: the same ends before two jumps to one place.                   *)

CommonOne(x) ==
    LET i == Before(x.q, At(x.q, x.p1)) j == At(x.q, x.p2) - 1
    IN IF ~equop(x.q[i], x.q[j]) THEN [x EXCEPT !.on = FALSE]
       ELSE LET l == insertl(x.q, i, x.isn)
                t == SelectSeq(l.q, LAMBDA n : n.id # x.q[j].id)
                p2 == At(t, x.p2)
            IN [x EXCEPT !.q = decref([t EXCEPT ![p2].lab = l.lab], t[p2].lab), !.isn = l.isn, !.p1 = x.q[i].id, !.n = @ + 1]
backjmp(w, p1, p2) ==
    LET x == While(CommonOne, [q |-> w.q, isn |-> w.isn, n |-> w.n, p1 |-> p1, p2 |-> p2, on |-> TRUE], Len(w.q))
    IN [q |-> x.q, isn |-> x.isn, n |-> x.n]
JbrPairs(s) == {<<i, j>> \in (DOMAIN s) \X (DOMAIN s) : i < j /\ s[i].op = "JBR" /\ s[j].op = "JBR"}
comjump(s, new) ==
    LET ids == SetToSortSeq({<<s[ij[1]].id, s[ij[2]].id, ij[1], ij[2]>> : ij \in JbrPairs(s)},
                            LAMBDA a, b : a[3] < b[3] \/ (a[3] = b[3] /\ a[4] < b[4]))
        after[k \in 0..Len(ids)] ==
            IF k = 0 THEN [q |-> s, isn |-> new, n |-> 0]
            ELSE LET w == after[k - 1] i == At(w.q, ids[k][1]) j == At(w.q, ids[k][2])
                 IN IF Ref(w.q, i) # 0 /\ w.q[Ref(w.q, i)].refc > 1 /\ w.q[j].lab = w.q[i].lab
                    THEN backjmp(w, ids[k][1], ids[k][2]) ELSE w
    IN after[Len(ids)]
=============================================================================
