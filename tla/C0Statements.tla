---------------------------- MODULE C0Statements ----------------------------
(***************************************************************************)
(* The first pass's statements: what statement() writes for each form, the *)
(* labels it takes from isn, and brklab, contlab, deflab and swtab, which  *)
(* say what a break, a continue, a default and a case belong to.  Its      *)
(* recursion is a stack; a step reads a statement up to the next one.      *)
(*                                                                         *)
(* A program is a sequence of nodes, parents first: what a statement is,   *)
(* its statements, and the parts it has.                                   *)
(***************************************************************************)
EXTENDS Integers, SequencesExt

CONSTANTS
    Programs,      \* the programs read
    Source(_),     \* the nodes of each
    Answers,       \* what its tests may find, in order
    Shown          \* bound: events of a run that are compared

VARIABLES
    program, todo, code,
    isn, brklab, contlab, deflab, swp, retlab, labels,
    nerror

vars == <<program, todo, code, isn, brklab, contlab, deflab, swp, retlab, labels, nerror>>

Node(i) == program[i]
label(l) == <<[op |-> "label", to |-> l]>>
branch(l) == <<[op |-> "branch", to |-> l]>>
cbranch(i, l, cond) == <<[op |-> "cbranch", at |-> i, to |-> l, cond |-> cond]>>
rcexpr(part, i) == <<[op |-> part, at |-> i]>>

NoSwitch == <<[lab |-> 0, val |-> 0]>>                     \* swp == 0
LabelOf(n) == IF n \in DOMAIN labels THEN labels[n] ELSE isn
LabelNamed(n) == labels' = [m \in DOMAIN labels \cup {n} |-> IF m = n THEN LabelOf(n) ELSE labels[m]]

---------------------------------------------------------------------------
(* One disjunct for each form; next is the statement on top of the stack.  *)

Init ==
    /\ \E p \in Programs : program = Source(p)
    /\ todo = <<[k |-> "stmt", i |-> 1], [k |-> "return"]>>
    /\ code = <<>> /\ isn = 2 /\ retlab = 1 /\ labels = [n \in {} |-> 0]
    /\ brklab = 0 /\ contlab = 0 /\ deflab = 0 /\ swp = NoSwitch /\ nerror = 0

\* What is left to read: these, then the rest of the stack.
Then(frames) == todo' = frames \o Tail(todo)
Stmt(i) == [k |-> "stmt", i |-> i]
Emits(s) == code' = code \o s
Loops == <<brklab, contlab>>
Scopes == <<brklab, contlab, deflab, swp>>
Fixed == UNCHANGED <<program, retlab>>

Simple(i) ==
    /\ Node(i).k \in {"expr", "empty"}
    /\ Emits(IF Node(i).k = "expr" THEN rcexpr("expr", i) ELSE <<>>)
    /\ Then(<<>>)
    /\ UNCHANGED <<isn, Scopes, labels, nerror>>
Compound(i) ==
    /\ Node(i).k = "block"
    /\ Then([j \in DOMAIN Node(i).in |-> Stmt(Node(i).in[j])])
    /\ UNCHANGED <<code, isn, Scopes, labels, nerror>>

\* chconbrk complains of a break or continue outside; the branch is written all the same.
chconbrk(k, l) == nerror' = nerror + (IF k \in {"break", "continue"} /\ l = 0 THEN 1 ELSE 0)
TransferTo(k) == CASE k = "break" -> brklab [] k = "continue" -> contlab [] OTHER -> retlab
doret(i) == (IF Node(i).k = "value" THEN rcexpr("expr", i) ELSE <<>>) \o branch(retlab)
Transfer(i) ==
    /\ Node(i).k \in {"break", "continue", "return", "value"}
    /\ Emits(IF Node(i).k \in {"return", "value"} THEN doret(i) ELSE branch(TransferTo(Node(i).k)))
    /\ chconbrk(Node(i).k, TransferTo(Node(i).k))
    /\ Then(<<>>)
    /\ UNCHANGED <<isn, Scopes, labels>>
Goto(i) ==
    /\ Node(i).k = "goto"
    /\ Emits(branch(LabelOf(Node(i).n)))
    /\ LabelNamed(Node(i).n)
    /\ isn' = IF LabelOf(Node(i).n) = isn THEN isn + 1 ELSE isn
    /\ Then(<<>>)
    /\ UNCHANGED <<Scopes, nerror>>
Labelled(i) ==
    /\ Node(i).k = "label"
    /\ Emits(label(LabelOf(Node(i).n)))
    /\ LabelNamed(Node(i).n)
    /\ isn' = IF LabelOf(Node(i).n) = isn THEN isn + 1 ELSE isn
    /\ Then(<<Stmt(Node(i).in[1])>>)
    /\ UNCHANGED <<Scopes, nerror>>

\* if: one conditional branch when its statement is itself a branch, else around it.
Else(i) == IF Len(Node(i).in) = 2 THEN <<Stmt(Node(i).in[2])>> ELSE <<>>
IfSimple(i) ==
    LET s == Node(Node(i).in[1]) IN
    /\ Node(i).k = "if" /\ s.k \in {"break", "continue", "return", "goto"}
    /\ Emits(cbranch(i, IF s.k = "goto" THEN LabelOf(s.n) ELSE TransferTo(s.k), TRUE))
    /\ chconbrk(s.k, TransferTo(s.k))
    /\ IF s.k = "goto" THEN LabelNamed(s.n) /\ isn' = (IF LabelOf(s.n) = isn THEN isn + 1 ELSE isn) ELSE UNCHANGED <<labels, isn>>
    /\ Then(Else(i))
    /\ UNCHANGED Scopes
IfReturn(i) ==
    /\ Node(i).k = "if" /\ Node(Node(i).in[1]).k = "value"
    /\ Emits(cbranch(i, isn, FALSE) \o doret(Node(i).in[1]) \o label(isn))
    /\ isn' = isn + 1
    /\ Then(Else(i))
    /\ UNCHANGED <<Scopes, labels, nerror>>
If(i) ==
    /\ Node(i).k = "if" /\ Node(Node(i).in[1]).k \notin {"break", "continue", "return", "goto", "value"}
    /\ Emits(cbranch(i, isn, FALSE))
    /\ isn' = isn + 1
    /\ Then(<<Stmt(Node(i).in[1]), [k |-> "else", else |-> Else(i), o1 |-> isn]>>)
    /\ UNCHANGED <<Scopes, labels, nerror>>
EndThen(f) ==
    /\ f.k = "else"
    /\ IF f.else = <<>> THEN Emits(label(f.o1)) /\ isn' = isn /\ Then(<<>>)
       ELSE /\ Emits(branch(isn) \o label(f.o1))
            /\ isn' = isn + 1
            /\ Then(Append(f.else, [k |-> "endif", o2 |-> isn]))
    /\ UNCHANGED <<Scopes, labels, nerror>>
EndIf(f) ==
    /\ f.k = "endif"
    /\ Emits(label(f.o2)) /\ Then(<<>>)
    /\ UNCHANGED <<isn, Scopes, labels, nerror>>

\* Loops: what brklab and contlab were waits in the stack.
While(i) ==
    /\ Node(i).k = "while"
    /\ contlab' = isn /\ brklab' = isn + 1 /\ isn' = isn + 2
    /\ Emits(label(contlab') \o cbranch(i, brklab', FALSE))
    /\ Then(<<Stmt(Node(i).in[1]), [k |-> "endwhile", was |-> Loops]>>)
    /\ UNCHANGED <<deflab, swp, labels, nerror>>
EndWhile(f) ==
    /\ f.k = "endwhile"
    /\ Emits(branch(contlab) \o label(brklab))
    /\ brklab' = f.was[1] /\ contlab' = f.was[2]
    /\ Then(<<>>)
    /\ UNCHANGED <<isn, deflab, swp, labels, nerror>>
Do(i) ==
    /\ Node(i).k = "do"
    /\ contlab' = isn /\ brklab' = isn + 1 /\ isn' = isn + 3
    /\ Emits(label(isn + 2))
    /\ Then(<<Stmt(Node(i).in[1]), [k |-> "enddo", i |-> i, was |-> Loops, o3 |-> isn + 2]>>)
    /\ UNCHANGED <<deflab, swp, labels, nerror>>
EndDo(f) ==
    /\ f.k = "enddo"
    /\ Emits(label(contlab) \o cbranch(f.i, f.o3, TRUE) \o label(brklab))
    /\ brklab' = f.was[1] /\ contlab' = f.was[2]
    /\ Then(<<>>)
    /\ UNCHANGED <<isn, deflab, swp, labels, nerror>>
forstmt(i) ==
    LET has == Node(i).has
        cont == isn
        brk == isn + 1
        step == "incr" \in has IN
    /\ Node(i).k = "for"
    /\ brklab' = brk /\ contlab' = (IF step THEN isn + 2 ELSE cont) /\ isn' = (IF step THEN isn + 3 ELSE isn + 2)
    /\ Emits((IF "init" \in has THEN rcexpr("init", i) ELSE <<>>) \o label(cont)
             \o (IF "test" \in has THEN cbranch(i, brk, FALSE) ELSE <<>>))
    /\ Then(<<Stmt(Node(i).in[1]), [k |-> "endfor", i |-> i, was |-> Loops, l |-> cont]>>)
    /\ UNCHANGED <<deflab, swp, labels, nerror>>
EndFor(f) ==
    /\ f.k = "endfor"
    /\ Emits((IF contlab = f.l THEN <<>> ELSE label(contlab) \o rcexpr("incr", f.i)) \o branch(f.l) \o label(brklab))
    /\ brklab' = f.was[1] /\ contlab' = f.was[2]
    /\ Then(<<>>)
    /\ UNCHANGED <<isn, deflab, swp, labels, nerror>>

pswitch(i) ==
    /\ Node(i).k = "switch"
    /\ brklab' = isn /\ isn' = isn + 2 /\ deflab' = 0
    /\ swp' = IF swp = NoSwitch THEN <<>> ELSE swp
    /\ Emits(rcexpr("value", i) \o branch(isn + 1))
    /\ Then(<<Stmt(Node(i).in[1]), [k |-> "endswitch", o1 |-> brklab, dl |-> deflab, sswp |-> swp, swlab |-> isn + 1]>>)
    /\ UNCHANGED <<contlab, labels, nerror>>
Case(i) ==
    /\ Node(i).k = "case"
    /\ IF swp = NoSwitch THEN nerror' = nerror + 1 /\ UNCHANGED <<code, isn, swp>>
       ELSE nerror' = nerror /\ Emits(label(isn)) /\ swp' = Append(swp, [lab |-> isn, val |-> Node(i).n]) /\ isn' = isn + 1
    /\ Then(<<Stmt(Node(i).in[1])>>)
    /\ UNCHANGED <<brklab, contlab, deflab, labels>>
Default(i) ==
    /\ Node(i).k = "default"
    /\ nerror' = nerror + (IF swp = NoSwitch THEN 1 ELSE 0) + (IF deflab # 0 THEN 1 ELSE 0)
    /\ deflab' = isn /\ isn' = isn + 1
    /\ Emits(label(isn))
    /\ Then(<<Stmt(Node(i).in[1])>>)
    /\ UNCHANGED <<brklab, contlab, swp, labels>>
\* The switch's own cases are those added since it began.
OwnCases(f) == IF f.sswp = NoSwitch THEN swp ELSE SubSeq(swp, Len(f.sswp) + 1, Len(swp))
EndSwitch(f) ==
    /\ f.k = "endswitch"
    /\ Emits(branch(brklab) \o label(f.swlab)
             \o <<[op |-> "swit", to |-> IF deflab = 0 THEN brklab ELSE deflab, cases |-> OwnCases(f)]>> \o label(brklab))
    /\ deflab' = f.dl /\ swp' = f.sswp /\ brklab' = f.o1
    /\ Then(<<>>)
    /\ UNCHANGED <<isn, contlab, labels, nerror>>

EndFunction(f) ==
    /\ f.k = "return"
    /\ Emits(label(retlab)) /\ Then(<<>>)
    /\ UNCHANGED <<isn, Scopes, labels, nerror>>

Next ==
    /\ todo # <<>> /\ Fixed
    /\ \/ /\ todo[1].k = "stmt"
          /\ LET i == todo[1].i IN
             Simple(i) \/ Compound(i) \/ Transfer(i) \/ Goto(i) \/ Labelled(i) \/ IfSimple(i) \/ IfReturn(i) \/ If(i)
             \/ While(i) \/ Do(i) \/ forstmt(i) \/ pswitch(i) \/ Case(i) \/ Default(i)
       \/ LET f == todo[1] IN
          EndThen(f) \/ EndIf(f) \/ EndWhile(f) \/ EndDo(f) \/ EndFor(f) \/ EndSwitch(f) \/ EndFunction(f)

Spec == Init /\ [][Next]_vars

---------------------------------------------------------------------------
(* What the program means: where control goes from each place in it, and   *)
(* what a run shows when its tests find the given values.                  *)

Parent(i) == CHOOSE p \in 1..i : \E j \in DOMAIN Node(p).in : Node(p).in[j] = i
RECURSIVE After(_), Encloses(_, _)
Encloses(i, kinds) == LET p == Parent(i) IN IF Node(p).k \in kinds THEN p ELSE Encloses(p, kinds)
Again(i) == CASE Node(i).k = "for" /\ "incr" \in Node(i).has -> <<"incr", i>>
              [] Node(i).k = "for" /\ "test" \notin Node(i).has -> <<"at", Node(i).in[1]>>
              [] OTHER -> <<"test", i>>
After(i) ==
    IF i = 1 THEN <<"end", 0>> ELSE
    LET p == Parent(i)
        j == CHOOSE k \in DOMAIN Node(p).in : Node(p).in[k] = i IN
    CASE Node(p).k = "block" /\ j < Len(Node(p).in) -> <<"at", Node(p).in[j + 1]>>
      [] Node(p).k \in {"while", "do", "for"} -> Again(p)
      [] OTHER -> After(p)
Loop == {"while", "do", "for"}
CaseFor(i, v) ==
    LET own == {j \in DOMAIN program : Node(j).k \in {"case", "default"} /\ Encloses(j, {"switch"}) = i}
        is == {j \in own : Node(j).k = "case" /\ Node(j).n = v} IN
    IF is # {} THEN is ELSE {j \in own : Node(j).k = "default"}
\* From a place: where next, and what is shown; v is what a test finds.
Goes(at, v) ==
    LET i == at[2]
        n == Node(i) IN
    CASE at[1] = "test" -> IF v # 0 THEN <<"at", n.in[1]>> ELSE IF n.k = "if" /\ Len(n.in) = 2 THEN <<"at", n.in[2]>> ELSE After(i)
      [] at[1] = "incr" -> IF "test" \in n.has THEN <<"test", i>> ELSE <<"at", n.in[1]>>
      [] at[1] = "value" -> IF CaseFor(i, v) = {} THEN After(i) ELSE <<"at", CHOOSE j \in CaseFor(i, v) : TRUE>>
      [] at[1] = "init" -> IF "test" \in n.has THEN <<"test", i>> ELSE <<"at", n.in[1]>>
      [] n.k = "block" -> IF n.in = <<>> THEN After(i) ELSE <<"at", n.in[1]>>
      [] n.k \in {"if", "while"} -> <<"test", i>>
      [] n.k = "for" -> <<"init", i>>
      [] n.k = "switch" -> <<"value", i>>
      [] n.k \in {"do", "label", "case", "default"} -> <<"at", n.in[1]>>
      [] n.k = "break" -> After(Encloses(i, Loop \cup {"switch"}))
      [] n.k = "continue" -> Again(Encloses(i, Loop))
      [] n.k \in {"return", "value"} -> <<"end", 0>>
      [] n.k = "goto" -> <<"at", CHOOSE j \in DOMAIN program : Node(j).k = "label" /\ Node(j).n = n.n>>
      [] OTHER -> After(i)
Shows(at) == at[1] \in {"test", "incr", "value"} \/ (at[1] = "init" /\ "init" \in Node(at[2]).has) \/ (at[1] = "at" /\ Node(at[2]).k \in {"expr", "value"})
Asks(at) == at[1] \in {"test", "value"}
Event(at) == IF at[1] = "at" THEN <<"expr", at[2]>> ELSE at

RECURSIVE Means(_, _, _, _), Runs(_, _, _, _)
Means(at, answers, shown, fuel) ==
    IF at[1] = "end" \/ fuel = 0 \/ Len(shown) = Shown \/ (Asks(at) /\ answers = <<>>) THEN shown
    ELSE Means(Goes(at, IF Asks(at) THEN answers[1] ELSE 0), IF Asks(at) THEN Tail(answers) ELSE answers,
               IF Shows(at) THEN Append(shown, Event(at)) ELSE shown, fuel - 1)

\* What the code written shows.
PlaceOf(l) == CHOOSE p \in DOMAIN code : code[p].op = "label" /\ code[p].to = l
Runs(pc, answers, shown, fuel) ==
    IF pc > Len(code) \/ fuel = 0 \/ Len(shown) = Shown THEN shown ELSE
    LET c == code[pc] IN
    CASE c.op = "label" -> Runs(pc + 1, answers, shown, fuel - 1)
      [] c.op = "branch" -> Runs(PlaceOf(c.to), answers, shown, fuel - 1)
      [] c.op = "cbranch" -> IF answers = <<>> THEN shown
                             ELSE Runs(IF (answers[1] # 0) = c.cond THEN PlaceOf(c.to) ELSE pc + 1, Tail(answers), Append(shown, <<"test", c.at>>), fuel - 1)
      [] c.op = "value" -> IF answers = <<>> THEN shown ELSE Runs(pc + 1, answers, Append(shown, <<"value", c.at>>), fuel - 1)
      [] c.op = "swit" -> LET hit == {k \in DOMAIN c.cases : c.cases[k].val = answers[1]} IN
                          Runs(PlaceOf(IF hit = {} THEN c.to ELSE c.cases[CHOOSE k \in hit : TRUE].lab), Tail(answers), shown, fuel - 1)
      [] OTHER -> Runs(pc + 1, answers, Append(shown, <<c.op, c.at>>), fuel - 1)

(* A finished function defines each label once and each it branches to,    *)
(* and, whatever its tests find, does what its source says, in its order.  *)
Targets == {code[p].to : p \in {q \in DOMAIN code : code[q].op \in {"branch", "cbranch", "swit"}}}
TransfersArrive ==
    todo = <<>> /\ nerror = 0 =>
        /\ \A p, q \in DOMAIN code : code[p].op = "label" /\ code[q].op = "label" /\ code[p].to = code[q].to => p = q
        /\ \A l \in Targets : \E p \in DOMAIN code : code[p].op = "label" /\ code[p].to = l
        /\ \A a \in Answers : Runs(1, a, <<>>, 80) = Means(<<"at", 1>>, a, <<>>, 80)
=============================================================================
