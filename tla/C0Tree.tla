------------------------------- MODULE C0Tree -------------------------------
(***************************************************************************)
(* The first pass's expression parser, tree: operators wait on a stack,    *)
(* each with the priority it waits at, until one of no higher priority     *)
(* comes; operands and built trees are on another.                         *)
(*                                                                         *)
(* A tree is [op, kids]; build is only that here.  In a constant or an     *)
(* initializer (initflg) a comma or colon outside parentheses ends it.     *)
(***************************************************************************)
EXTENDS Integers, SequencesExt

CONSTANTS
    Texts,     \* <<a tree to be written, initflg>>
    SSIZE      \* operators that can wait

VARIABLES text, parsed

vars == <<text, parsed>>

Node(op, kids) == [op |-> op, kids |-> kids]
nothing == Node("nothing", <<>>)
Operands == {"a", "b", "c", "1"}
Types == {"int"}
Symbol == [PLUS |-> "+", MINUS |-> "-", TIMES |-> "*", DIVIDE |-> "/", MOD |-> "%", RSHIFT |-> ">>", LSHIFT |-> "<<", AND |-> "&", OR |-> "|", EXOR |-> "^",
           LOGAND |-> "&&", LOGOR |-> "||", EQUAL |-> "==", NEQUAL |-> "!=", LESS |-> "<", GREATEQ |-> ">=", ASSIGN |-> "=", ASPLUS |-> "=+", ASAND |-> "=&",
           NEG |-> "-", STAR |-> "*", AMPER |-> "&", EXCLA |-> "!", COMPL |-> "~", SIZEOF |-> "sizeof", INCBEF |-> "++", DECBEF |-> "--", INCAFT |-> "++", DECAFT |-> "--",
           DOT |-> ".", ARROW |-> "->", SEQNC |-> ",", COMMA |-> ",", COLON |-> ":", QUEST |-> "?", LBRACK |-> "[", CALL |-> "("]

\* opdope: the priority, and whether it groups from the right.
Priority(o) ==
    CASE o = "SEMI" -> 0 [] o \in {"RBRACK", "RPARN"} -> 2 [] o = "COMMA" -> 7 [] o \in {"ASSIGN", "ASPLUS", "ASAND"} -> 10 [] o \in {"COLON", "QUEST"} -> 12
      [] o = "LOGOR" -> 13 [] o = "LOGAND" -> 14 [] o \in {"OR", "EXOR"} -> 15 [] o = "AND" -> 16 [] o \in {"EQUAL", "NEQUAL"} -> 18 [] o \in {"LESS", "GREATEQ"} -> 20
      [] o \in {"RSHIFT", "LSHIFT"} -> 22 [] o \in {"PLUS", "MINUS"} -> 24 [] o \in {"TIMES", "DIVIDE", "MOD"} -> 26
      [] o \in {"CAST", "INCBEF", "DECBEF", "INCAFT", "DECAFT", "NEG", "STAR", "AMPER", "EXCLA", "COMPL", "SIZEOF"} -> 28
      [] o \in {"LBRACK", "DOT", "ARROW", "CALL", "MCALL"} -> 30 [] o = "LPARN" -> 31
RASSOC == {"ASSIGN", "ASPLUS", "ASAND", "COLON", "QUEST", "CAST", "INCBEF", "DECBEF", "INCAFT", "DECAFT", "NEG", "STAR", "AMPER", "EXCLA", "COMPL", "SIZEOF"}
Unary == RASSOC \ {"ASSIGN", "ASPLUS", "ASAND", "COLON", "QUEST", "CAST"}

\* What symbol returns for a token: never the unary or the postfix operator.
Code(token) ==
    CASE token = "(" -> "LPARN" [] token = ")" -> "RPARN" [] token = "]" -> "RBRACK" [] token = ";" -> "SEMI" [] token = "," -> "COMMA"
      [] token = "-" -> "MINUS" [] token = "*" -> "TIMES" [] token = "&" -> "AND" [] token = "++" -> "INCBEF" [] token = "--" -> "DECBEF"
      [] OTHER -> CHOOSE o \in DOMAIN Symbol : Symbol[o] = token

---------------------------------------------------------------------------
(* q: the tokens left, the waiting operators and their priorities, the     *)
(* operands, whether an operand has just been read (andflg).               *)

Syntax == [op |-> "syntax", kids |-> <<>>]
Push(q, o, p) == [q EXCEPT !.op = Append(@, o), !.pp = Append(@, p)]
Pop(q) == [q EXCEPT !.op = Front(@), !.pp = Front(@)]
Top(q) == Last(q.op)
build(q, o) ==
    LET n == Len(q.cp)
        binary == o \notin Unary IN
    IF binary THEN [q EXCEPT !.cp = Append(SubSeq(@, 1, n - 2), Node(o, <<q.cp[n - 1], q.cp[n]>>))]
    ELSE [q EXCEPT !.cp = Append(Front(@), Node(o, <<q.cp[n]>>))]

\* The priority an operator waits at, not that with which it came.
Waits(o, p) == CASE o \in {"INCAFT", "DECAFT"} -> 37 [] o \in {"LPARN", "LBRACK", "CALL"} -> 4 [] OTHER -> p
Ends(q, o) == q.initflg /\ ((o = "COMMA" /\ Top(q) \notin {"LPARN", "CALL"}) \/ (o = "COLON" /\ Top(q) # "QUEST"))

RECURSIVE advance(_), opon1(_, _, _)
opon1(q, o, p) ==
    LET waits == p > Last(q.pp) \/ (p = Last(q.pp) /\ o \in RASSOC)
        os == Top(q)
        r == Pop(q) IN
    CASE waits /\ Ends(q, o) -> opon1(q, o, 0)
      [] waits /\ ~Ends(q, o) -> IF Len(q.op) >= SSIZE THEN Syntax ELSE advance(Push(q, o, Waits(o, p)))
      [] ~waits /\ os = "SEOF" -> Last(q.cp)
      [] ~waits /\ os = "COMMA" -> opon1(build(r, IF Top(r) # "CALL" THEN "SEQNC" ELSE os), o, p)
      [] ~waits /\ os = "CALL" -> IF o # "RPARN" THEN Syntax ELSE advance(build(r, os))
      [] ~waits /\ os = "MCALL" -> opon1(build([r EXCEPT !.cp = Append(@, nothing)], "CALL"), o, p)
      [] ~waits /\ os = "LPARN" -> IF o # "RPARN" THEN Syntax ELSE advance(r)
      [] ~waits /\ os = "LBRACK" -> IF o # "RBRACK" THEN Syntax ELSE advance(build(r, os))
      [] OTHER -> opon1(build(r, os), o, p)
oponst(q, o) == opon1(q, o, Priority(o))

\* A type in parentheses: a cast, or what sizeof is of.
Typed(q) ==
    LET r == Pop([q EXCEPT !.in = SubSeq(@, 3, Len(@)), !.cp = Append(@, Node(q.in[1], <<>>))]) IN
    CASE Top(q) # "LPARN" \/ q.andflg \/ q.in[2] # ")" -> Syntax
      [] Top(q) = "LPARN" /\ Top(r) = "SIZEOF" -> advance([r EXCEPT !.andflg = TRUE, !.pp = Append(Front(@), 100)])
      [] OTHER -> oponst(r, "CAST")
ASop == [PLUS |-> "ASPLUS", AND |-> "ASAND"]
Operator(q, o) ==      \* q is past its token
    LET Without == [q EXCEPT !.andflg = FALSE] IN
    CASE o \in {"INCBEF", "DECBEF"} -> oponst(q, IF ~q.andflg THEN o ELSE IF o = "INCBEF" THEN "INCAFT" ELSE "DECAFT")
      [] o \in {"COMPL", "EXCLA", "SIZEOF"} -> IF q.andflg THEN Syntax ELSE oponst(q, o)
      [] o = "MINUS" -> oponst(Without, IF q.andflg THEN o ELSE "NEG")
      [] o \in {"AND", "TIMES"} -> IF q.andflg THEN oponst(Without, o) ELSE oponst(q, IF o = "AND" THEN "AMPER" ELSE "STAR")
      [] o = "LPARN" -> IF ~q.andflg THEN oponst(q, o)
                        ELSE IF q.in[1] = ")" THEN oponst([q EXCEPT !.in = Tail(@)], "MCALL") ELSE oponst(Without, "CALL")
      [] o \in {"RBRACK", "RPARN"} -> IF q.andflg THEN oponst(q, o) ELSE Syntax
      [] o = "ASSIGN" /\ ~q.andflg /\ Top(q) \in DOMAIN ASop -> oponst(Pop(q), ASop[Top(q)])
      [] OTHER -> IF q.andflg THEN oponst(Without, o) ELSE Syntax
advance(q) ==
    LET token == q.in[1]
        r == [q EXCEPT !.in = Tail(@)] IN
    CASE token \in Operands -> IF q.andflg THEN Syntax ELSE advance([r EXCEPT !.cp = Append(@, Node(token, <<>>)), !.andflg = TRUE])
      [] token \in Types -> Typed(q)
      [] OTHER -> Operator(r, Code(token))
tree(tokens, initflg) == advance([in |-> tokens, op |-> <<"SEOF">>, pp |-> <<6>>, cp |-> <<>>, andflg |-> FALSE, initflg |-> initflg])

---------------------------------------------------------------------------
(* The grammar: how tightly each operator binds, and a tree written with   *)
(* no more parentheses than that needs.  An operator between ? and : is    *)
(* in parentheses if it binds no tighter than they.                        *)

Binds(o) ==
    CASE o \in {"LBRACK", "CALL", "DOT", "ARROW", "INCAFT", "DECAFT"} \cup Operands \cup Types -> 16
      [] o \in Unary \cup {"CAST"} -> 15 [] o \in {"TIMES", "DIVIDE", "MOD"} -> 14 [] o \in {"PLUS", "MINUS"} -> 13 [] o \in {"RSHIFT", "LSHIFT"} -> 12
      [] o \in {"LESS", "GREATEQ"} -> 11 [] o \in {"EQUAL", "NEQUAL"} -> 10 [] o = "AND" -> 9 [] o = "EXOR" -> 8 [] o = "OR" -> 7
      [] o = "LOGAND" -> 6 [] o = "LOGOR" -> 5 [] o = "QUEST" -> 4 [] o \in {"ASSIGN", "ASPLUS", "ASAND"} -> 3 [] o = "SEQNC" -> 2 [] OTHER -> 1
RECURSIVE Written(_, _), Inside(_)
Written(t, binds) == IF Binds(t.op) < binds THEN <<"(">> \o Inside(t) \o <<")">> ELSE Inside(t)
Inside(t) ==
    LET K(i, binds) == Written(t.kids[i], binds)
        me == Binds(t.op) IN
    CASE t.op \in Operands \cup Types -> <<t.op>>
      [] t.op = "CAST" -> <<"(">> \o K(1, 16) \o <<")">> \o K(2, 15)
      [] t.op = "SIZEOF" /\ t.kids[1].op \in Types -> <<"sizeof", "(">> \o K(1, 16) \o <<")">>
      [] t.op \in {"INCAFT", "DECAFT"} -> Append(K(1, 16), Symbol[t.op])
      [] t.op = "SIZEOF" /\ t.kids[1].op = "CAST" -> <<"sizeof">> \o K(1, 16)
      [] t.op \in Unary \ {"INCAFT", "DECAFT"} -> <<Symbol[t.op]>> \o K(1, 15)
      [] t.op = "LBRACK" -> K(1, 16) \o <<"[">> \o K(2, 2) \o <<"]">>
      [] t.op = "CALL" -> K(1, 16) \o <<"(">> \o (IF t.kids[2].op = "nothing" THEN <<>> ELSE Written(t.kids[2], IF t.kids[2].op = "COMMA" THEN 1 ELSE 3)) \o <<")">>
      [] t.op = "COMMA" -> Written(t.kids[1], IF t.kids[1].op = "COMMA" THEN 1 ELSE 3) \o <<",">> \o K(2, 3)
      [] t.op = "QUEST" -> K(1, 5) \o <<"?">> \o Written(t.kids[2].kids[1], 5) \o <<":">> \o Written(t.kids[2].kids[2], 4)
      [] t.op = "ASPLUS" -> K(1, 15) \o <<"+", "=">> \o K(2, 3)
      [] t.op \in {"ASSIGN", "ASAND"} -> K(1, 15) \o <<Symbol[t.op]>> \o K(2, 3)
      [] OTHER -> K(1, me) \o <<Symbol[t.op]>> \o K(2, me + 1)

Init == text \in Texts /\ parsed = nothing
Parse ==
    /\ parsed = nothing
    /\ parsed' = tree(IF text[2] THEN Append(Written(text[1], 3), ",") ELSE Append(Written(text[1], 0), ";"), text[2])
    /\ UNCHANGED text
Next == Parse
Spec == Init /\ [][Next]_vars

(* An expression is parsed as it was written: for every tree, the text     *)
(* that has only the parentheses the grammar needs is read as that tree.   *)
ReadAsWritten == parsed # nothing => parsed = text[1]
=============================================================================
