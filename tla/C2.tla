--------------------------------- MODULE C2 ---------------------------------
(***************************************************************************)
(* pdp11-c2, the object code improver (main of src/pdp11-c2/c20.c): the    *)
(* calls it makes for one routine, until nothing changes, and what the     *)
(* routine computes before and after them.                                 *)
(***************************************************************************)
EXTENDS C2Regs

CONSTANTS
    Programs,   \* names of routines
    Routine(_), \* their nodes, closed by EROU
    Memory,     \* the values registers and cells may have when it is called
    LastSeg,    \* the segment the routine before it ended in
    Fuel        \* instructions that are looked at

VARIABLES
    routine,    \* what was read
    q,          \* the list
    pc,         \* the next of main's calls, or "out"; "ring" when it walks in a circle
    nchange, niter,
    isn         \* the next label c2 makes
vars == <<routine, q, pc, nchange, niter, isn>>

\* input: a node for each line.
input(p) == <<first>> \o [i \in DOMAIN p |-> [p[i] EXCEPT !.id = i]] \o <<END>>
Init ==
    /\ \E p \in Programs : routine = input(Routine(p))
    /\ q = routine
    /\ pc = "movedat" /\ nchange = 0 /\ niter = 0 /\ isn = 101

Call(name, next) == pc = name /\ pc' = next /\ UNCHANGED routine
Movedat == Call("movedat", "refcount") /\ q' = movedat(q, LastSeg) /\ UNCHANGED <<nchange, niter, isn>>
Refcount == Call("refcount", "iterate") /\ q' = refcount(q) /\ UNCHANGED <<nchange, niter, isn>>
Iterate ==
    /\ pc = "iterate"
    /\ \E w \in {iterate(q, isn)} :
       /\ ~w.on
       /\ Call("iterate", IF w.ring THEN "ring" ELSE IF w.n # 0 THEN "iterate" ELSE "comjump")
       /\ q' = w.q /\ isn' = w.isn /\ nchange' = w.n /\ niter' = niter + 1
Comjump == pc = "comjump" /\ \E w \in {comjump(q, isn)} : Call("comjump", "rmove") /\ q' = w.q /\ isn' = w.isn /\ nchange' = nchange + w.n /\ UNCHANGED niter
Rmove == pc = "rmove" /\ \E w \in {rmove(q, clearreg)} : Call("rmove", IF nchange + w.n # 0 THEN "refcount" ELSE "jumpsw") /\ q' = w.q /\ nchange' = 0 /\ UNCHANGED <<niter, isn>>
Jumpsw == Call("jumpsw", IF jumpsw(q) # q THEN "refcount" ELSE "addsob") /\ q' = jumpsw(q) /\ UNCHANGED <<nchange, niter, isn>>
Addsob == Call("addsob", "out") /\ q' = addsob(q) /\ UNCHANGED <<nchange, niter, isn>>

Next == Movedat \/ Refcount \/ Iterate \/ Comjump \/ Rmove \/ Jumpsw \/ Addsob
Spec == Init /\ [][Next]_vars

---------------------------------------------------------------------------
(* What a routine computes, in words of two bits and bytes of one.         *)

Sgn(v) == v \div 2
Value(o) == CASE o.v = "0" -> 0 [] o.v = "1" -> 1 [] o.v = "2" -> 2 [] o.v = "-1" -> 3
Pointed(v) == IF v % 2 = 0 THEN "x" ELSE "y"
Place(e, o) == IF o.m \in {"reg", "mem"} THEN o.v ELSE Pointed(e[o.v])
Fetch(e, o) == IF o.m = "con" THEN Value(o) ELSE e[Place(e, o)]
Stepped(e, o) == IF o.m = "inc" THEN [e EXCEPT ![o.v] = (@ + 1) % 4] ELSE e
Extended(v) == IF v % 2 = 1 THEN 3 ELSE 0
Low(old, v) == ((old \div 2) * 2) + (v % 2)
Codes2(v) == [n |-> Sgn(v) = 1, z |-> v = 0, v |-> FALSE, c |-> FALSE]
Difference(a, b) == LET d == (a - b + 4) % 4 IN [n |-> Sgn(d) = 1, z |-> d = 0, v |-> Sgn(a) # Sgn(b) /\ Sgn(d) # Sgn(a), c |-> a < b]
Taken(c, f) ==
    CASE c = "JEQ" -> f.z [] c = "JNE" -> ~f.z [] c = "JLT" -> f.n # f.v [] c = "JGE" -> f.n = f.v
      [] c = "JLE" -> f.z \/ f.n # f.v [] c = "JGT" -> ~f.z /\ f.n = f.v
      [] c = "JLO" -> f.c [] c = "JHIS" -> ~f.c [] c = "JLOS" -> f.c \/ f.z [] c = "JHI" -> ~(f.c \/ f.z)

\* An instruction on [e, f]: cells and registers, and the condition codes.
Set(m, o, v, f) == [e |-> [m.e EXCEPT ![Place(m.e, o)] = v], f |-> f]
Result(op, old, v) ==
    CASE op = "ADD" -> (old + v) % 4 [] op = "SUB" -> (old - v + 4) % 4
      [] op = "BIC" -> (old - (IF Sgn(old) = 1 /\ Sgn(v) = 1 THEN 2 ELSE 0)) - (IF old % 2 = 1 /\ v % 2 = 1 THEN 1 ELSE 0)
      [] op = "BIS" -> (IF Sgn(old) = 1 \/ Sgn(v) = 1 THEN 2 ELSE 0) + (IF old % 2 = 1 \/ v % 2 = 1 THEN 1 ELSE 0)
Does(m, n) ==
    LET a == Fetch(m.e, n.a) s == [m EXCEPT !.e = Stepped(m.e, n.a)]
        b == Fetch(s.e, n.b) t == [s EXCEPT !.e = Stepped(s.e, n.b)]
        at(v, w) == [Set(s, n.b, w, Codes2(v)) EXCEPT !.e = Stepped(@, n.b)]
    IN CASE n.op = "MOV" /\ n.sub = "" -> at(a, a)
         [] n.op = "MOV" -> at(Extended(a), IF n.b.m = "reg" THEN Extended(a) ELSE Low(b, a))
         [] n.op \in {"ADD", "SUB", "BIC", "BIS"} -> at(Result(n.op, b, a), Result(n.op, b, a))
         [] n.op = "CLR" -> [Set(m, n.a, IF n.sub = "" THEN 0 ELSE Low(a, 0), Codes2(0)) EXCEPT !.e = Stepped(@, n.a)]
         [] n.op \in {"INC", "DEC"} -> LET v == (a + (IF n.op = "INC" THEN 1 ELSE 3)) % 4 IN [Set(m, n.a, v, [Codes2(v) EXCEPT !.v = v = (IF n.op = "INC" THEN 2 ELSE 1)]) EXCEPT !.e = Stepped(@, n.a)]
         [] n.op = "TST" -> [s EXCEPT !.f = Codes2(a)]
         [] n.op = "CMP" -> [t EXCEPT !.f = Difference(a, b)]
         [] n.op = "BIT" -> [t EXCEPT !.f = Codes2(a - Result("BIC", a, b))]
         [] n.op = "OTHER" /\ n.a = Con("f") -> [e |-> [m.e EXCEPT !["r0"] = m.e["x"], !["r1"] = 2, !["x"] = (m.e["y"] + 1) % 4], f |-> Codes2(1)]
         [] OTHER -> m

\* Where it goes on: at a node, or nowhere.
StepOn(s, m) ==
    LET n == s[m.i]
        to == [m EXCEPT !.i = Ref(s, m.i)]
        on == [m EXCEPT !.i = @ + 1]
    IN CASE n.op = "JBR" -> to
         [] n.op = "CBR" -> IF Taken(n.sub, m.f) THEN to ELSE on
         [] n.op = "SOB" -> LET v == (m.e[n.a.v] + 3) % 4 t == CHOOSE j \in LabelsOf(s, n.lab) : TRUE
                            IN IF Length(s, t, m.i) > Reach - 4 THEN [m EXCEPT !.i = 0, !.end = "too far"]
                               ELSE [m EXCEPT !.e[n.a.v] = v, !.i = IF v # 0 THEN t ELSE @ + 1]
         [] n.op \in {"JMP", "EROU", "END"} -> [m EXCEPT !.i = 0, !.end = n.op]
         [] OTHER -> LET d == Does([e |-> m.e, f |-> m.f], n) IN [on EXCEPT !.e = d.e, !.f = d.f]
Computes(s, e, fuel) ==
    LET start == [i |-> 2, e |-> e, f |-> Codes2(1), end |-> ""]
        after[k \in 0..fuel] == IF k = 0 THEN start ELSE LET last == after[k - 1] IN IF last.i = 0 THEN last ELSE StepOn(s, last)
        final == after[fuel]
    IN [e |-> final.e, end |-> final.end]
InData(s, i) == LET at == {k \in 1..i : s[k].op \in Segment} IN IF at = {} THEN LastSeg = "DATA" ELSE s[CHOOSE k \in at : \A j \in at : j <= k].op = "DATA"
DataOf(s) == LET is == SelectSeq([i \in DOMAIN s |-> i], LAMBDA i : InData(s, i) /\ s[i].op \notin Segment) IN [k \in DOMAIN is |-> s[is[k]].a]

---------------------------------------------------------------------------
(* Properties.                                                             *)

\* The improved routine leaves in every register and cell what the routine
\* would have left, ends as it would have ended, and has the same data.
SameAnswer ==
    pc = "out" =>
        /\ \A e \in Memory : Computes(routine, e, Fuel).end # "" => Computes(q, e, Fuel) = Computes(routine, e, Fuel)
        /\ DataOf(q) = DataOf(routine)

\* The improvements come to an end, after no more rounds than there are lines.
Finishes == pc # "ring" /\ niter <= Len(routine)
=============================================================================
