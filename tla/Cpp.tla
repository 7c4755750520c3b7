-------------------------------- MODULE Cpp --------------------------------
(***************************************************************************)
(* The preprocessor pdp11-cpp (src/pdp11-cpp/cpp.c).  It scans a buffer of *)
(* at most 2 * Bufsiz tokens; what does not fit, and what an #include has  *)
(* to leave for later, waits in side buffers (instack).  Conditionals are  *)
(* two counters, flslvl and trulvl.  Files are sequences of tokens: [t, n] *)
(* with t among id ( , ) txt nl, or dir for a directive, an include with    *)
(* the end of its line.                                                    *)
(***************************************************************************)
EXTENDS Integers, Sequences, SequencesExt, FiniteSetsExt

CONSTANTS
    Inputs,     \* the codes of the inputs
    Files(_),   \* the files of a code
    Main,       \* the file cpp is given
    Dirs,       \* where <> and, after the file's own directory, "" are sought
    Bufsiz,     \* tokens a read or a side buffer holds
    MaxInc,     \* files that may be open (10)
    Steps,      \* bound on the tokens read, for the properties
    Symsiz      \* macro calls within one another before recursion is seen

VARIABLES
    files,      \* the input: <<dir, name>> -> sequence of tokens
    waiting,    \* tokens of the buffer not yet scanned
    instack,    \* side buffers, the last on top
    open,       \* the files being read: [file, pos, line, inctop], the last on top
    defs,       \* name -> [params, body]
    flslvl, trulvl,
    maclvl, macforw,    \* how deep macro calls are, what was left behind the last
    call,       \* <<>>, or <<[n, cur, acts]>>: a call whose actuals are read
    plvl,       \* parentheses open in it; -1 before the first, and after a call without
    out,        \* tokens, newlines and # lines written
    errs, done

vars == <<files, waiting, instack, open, defs, flslvl, trulvl, maclvl, macforw, call, plvl, out, errs, done>>
levels == <<flslvl, trulvl>>
macros == <<maclvl, macforw, call, plvl>>

Here == Last(open)
NoFile == [file |-> Main, pos |-> 0, line |-> 1, inctop |-> 0]
Marker(f) == [k |-> "line", file |-> f.file, n |-> f.line]
NewLine == [k |-> "nl"]
Shown(what) == IF flslvl = 0 THEN out \o what ELSE out

Init ==
    /\ \E c \in Inputs : files = Files(c)
    /\ waiting = <<>> /\ instack = <<>> /\ open = <<NoFile>>
    /\ defs = <<>> /\ flslvl = 0 /\ trulvl = 0
    /\ maclvl = 0 /\ macforw = 0 /\ call = <<>> /\ plvl = 0
    /\ out = <<Marker(NoFile)>> /\ errs = {} /\ done = FALSE

---------------------------------------------------------------------------
(* The buffers.                                                            *)

\* refill: the last side buffer of this file, else the file, else the file
\* that included it; at the end an open call is closed with what it lacks.  (A
\* call left at -1 is told of here, in a file name nothing may have set.)
Refill ==
    LET rest == SubSeq(files[Here.file], Here.pos + 1, Len(files[Here.file]))
        got == SubSeq(rest, 1, IF Len(rest) < Bufsiz THEN Len(rest) ELSE Bufsiz)
    IN /\ ~done /\ waiting = <<>>
       /\ IF Len(instack) > Here.inctop
          THEN /\ waiting' = Last(instack) /\ instack' = Front(instack)
               /\ UNCHANGED <<open, out, errs, done, maclvl, plvl>>
          ELSE IF got # <<>>
          THEN /\ waiting' = got /\ maclvl' = 0
               /\ open' = [open EXCEPT ![Len(open)].pos = @ + Len(got)]
               /\ UNCHANGED <<instack, out, errs, done, plvl>>
          ELSE IF Len(open) > 1
          THEN /\ open' = Front(open) /\ maclvl' = 0
               /\ out' = Append(out, Marker(open[Len(open) - 1]))
               /\ UNCHANGED <<waiting, instack, errs, done, plvl>>
          ELSE IF plvl # 0
          THEN /\ waiting' = <<[t |-> "nl"]>> \o [i \in 1..plvl |-> [t |-> ")"]]
               /\ plvl' = IF plvl < 0 THEN 0 ELSE plvl
               /\ errs' = errs \cup {"unterminated macro call"} /\ maclvl' = 0
               /\ UNCHANGED <<instack, open, out, done>>
          ELSE /\ done' = TRUE /\ UNCHANGED <<waiting, instack, open, out, errs, maclvl, plvl>>
       /\ UNCHANGED <<files, defs, levels, macforw, call>>

\* Text put in front of what waits; unfill() makes room by taking the end of
\* the buffer off, a side buffer at a time.
PushFront(w, side, text) ==
    LET n == Len(text)
        spill(b) == IF Len(b.w) < 2 * Bufsiz THEN b
                    ELSE [w |-> SubSeq(b.w, 1, Bufsiz), side |-> Append(b.side, SubSeq(b.w, Bufsiz + 1, Len(b.w)))]
        after[i \in 0..n] == IF i = 0 THEN [w |-> w, side |-> side]
                             ELSE LET b == spill(after[i - 1]) IN [b EXCEPT !.w = <<text[n + 1 - i]>> \o @]
    IN after[n]

\* All of what waits goes to side buffers, its end first.
PutAside(w, side) ==
    LET n == Len(w)
    IN side \o [k \in 1..((n + Bufsiz - 1) \div Bufsiz) |->
                   SubSeq(w, IF n > k * Bufsiz THEN n - k * Bufsiz + 1 ELSE 1, n - (k - 1) * Bufsiz)]

Remaining == Len(waiting) + FoldLeft(LAMBDA a, s : a + Len(s), 0, SubSeq(instack, Here.inctop + 1, Len(instack)))

---------------------------------------------------------------------------
(* Ordinary text.                                                          *)

Scanning == ~done /\ waiting # <<>> /\ call = <<>>
Tok == Head(waiting)
Took == waiting' = Tail(waiting) /\ UNCHANGED instack
Counted == IF Tok.t = "nl" THEN [open EXCEPT ![Len(open)].line = @ + 1] ELSE open

Defined(n) == n \in DOMAIN defs
Expands == Tok.t = "id" /\ flslvl = 0 /\ Defined(Tok.n)

Text ==
    /\ Scanning /\ Tok.t # "dir" /\ ~Expands
    /\ Took /\ open' = Counted
    /\ out' = Shown(<<IF Tok.t = "nl" THEN NewLine ELSE [k |-> "tok", tok |-> Tok]>>)
    /\ UNCHANGED <<files, defs, levels, macros, errs, done>>

---------------------------------------------------------------------------
(* Macros: subst.                                                          *)

\* A call within what the last one gave is a level deeper; past Symsiz levels
\* it is recursion, and the name is left as it is.
Within == Remaining - 1 >= macforw
TooDeep == Within /\ maclvl + 1 > Symsiz
Level == /\ maclvl' = IF Within THEN maclvl + 1 ELSE 0
         /\ macforw' = Remaining - 1

Recursion ==
    /\ Scanning /\ Expands /\ TooDeep
    /\ Took /\ maclvl' = maclvl + 1
    /\ out' = Append(out, [k |-> "tok", tok |-> Tok]) /\ errs' = errs \cup {"macro recursion"}
    /\ UNCHANGED <<files, open, defs, levels, macforw, call, plvl, done>>

\* The body with the actuals for the formals, which are numbers in it.
Body(n, acts) ==
    FlattenSeq([i \in DOMAIN defs[n].body |->
        LET b == defs[n].body[i] IN IF b.t = "formal" THEN (IF b.n <= Len(acts) THEN acts[b.n] ELSE <<>>) ELSE <<b>>])

Expand ==
    /\ Scanning /\ Expands /\ ~TooDeep /\ defs[Tok.n].params = 0
    /\ LET p == PushFront(Tail(waiting), instack, Body(Tok.n, <<>>))
       IN waiting' = p.w /\ instack' = p.side
    /\ Level /\ UNCHANGED <<files, open, defs, levels, call, plvl, out, errs, done>>

\* A macro with formals: its actuals are read, with nothing expanded.
Call ==
    /\ Scanning /\ Expands /\ ~TooDeep /\ defs[Tok.n].params > 0
    /\ Took /\ Level
    /\ call' = <<[n |-> Tok.n, cur |-> <<>>, acts |-> <<>>]>> /\ plvl' = -1
    /\ flslvl' = flslvl + 1
    /\ UNCHANGED <<files, open, defs, trulvl, out, errs, done>>

Collecting == ~done /\ waiting # <<>> /\ call # <<>>
C == call[1]
Finish(acts, rest, wrong) ==
    /\ LET p == PushFront(rest, instack, Body(C.n, acts)) IN waiting' = p.w /\ instack' = p.side
    /\ call' = <<>> /\ flslvl' = flslvl - 1
    /\ errs' = IF wrong THEN errs \cup {"argument mismatch"} ELSE errs

\* Newlines before the parenthesis are skipped; anything else that is not one
\* ends the call with no actuals, and is lost.
OpenParen ==
    /\ Collecting /\ plvl <= 0
    /\ open' = Counted
    /\ CASE Tok.t = "nl" -> Took /\ UNCHANGED <<call, plvl, flslvl, errs>>
         [] Tok.t = "(" -> Took /\ plvl' = 1 /\ UNCHANGED <<call, flslvl, errs>>
         [] OTHER -> Finish(<<>>, Tail(waiting), TRUE) /\ UNCHANGED plvl
    /\ UNCHANGED <<files, defs, trulvl, maclvl, macforw, out, done>>

Actual ==
    LET depth == plvl + (IF Tok.t = "(" THEN 1 ELSE IF Tok.t = ")" THEN -1 ELSE 0)
        acts == Append(C.acts, C.cur)
    IN /\ Collecting /\ plvl > 0
       /\ open' = Counted
       /\ IF depth = 0
          THEN plvl' = 0 /\ Finish(acts, Tail(waiting), Len(acts) # defs[C.n].params)
          ELSE /\ Took /\ UNCHANGED <<flslvl, errs>>
               /\ plvl' = depth
               /\ call' = <<IF depth = 1 /\ Tok.t = ","
                            THEN [C EXCEPT !.acts = acts, !.cur = <<>>]
                            ELSE [C EXCEPT !.cur = Append(@, Tok)]>>
       /\ UNCHANGED <<files, defs, trulvl, maclvl, macforw, out, done>>

---------------------------------------------------------------------------
(* Control lines.                                                          *)

Dir(d) == Scanning /\ Tok.t = "dir" /\ Tok.d = d
Quiet == UNCHANGED <<files, macros, done>>

\* A redefinition takes effect and is warned of when it differs.  A name that
\* is none is warned of, and the level that kept it from being expanded stays.
define ==
    /\ Dir("define") /\ Took
    /\ IF flslvl > 0 THEN UNCHANGED <<defs, flslvl, errs>>
       ELSE IF Tok.n = "" THEN flslvl' = 1 /\ errs' = errs \cup {"illegal macro name"} /\ UNCHANGED defs
       ELSE /\ defs' = [n \in DOMAIN defs \cup {Tok.n} |-> IF n = Tok.n THEN Tok.m ELSE defs[n]]
            /\ errs' = IF Defined(Tok.n) /\ defs[Tok.n] # Tok.m THEN errs \cup {"redefined"} ELSE errs
            /\ UNCHANGED flslvl
    /\ UNCHANGED <<open, trulvl, out>> /\ Quiet

undef ==
    /\ Dir("undef") /\ Took
    /\ defs' = IF flslvl > 0 THEN defs ELSE [n \in DOMAIN defs \ {Tok.n} |-> defs[n]]
    /\ UNCHANGED <<open, levels, out, errs>> /\ Quiet

\* #ifdef, #ifndef and #if: is a name defined, is it not, or a number.
Holds(c) == CASE c.k = "def" -> Defined(c.n) [] c.k = "ndef" -> ~Defined(c.n) [] OTHER -> c.n # 0
Enter ==
    /\ Dir("if") /\ Took
    /\ IF flslvl = 0 /\ Holds(Tok.c) THEN trulvl' = trulvl + 1 /\ UNCHANGED flslvl
       ELSE flslvl' = flslvl + 1 /\ UNCHANGED trulvl
    /\ UNCHANGED <<open, defs, out, errs>> /\ Quiet

endif ==
    /\ Dir("endif") /\ Took
    /\ CASE flslvl > 0 -> flslvl' = flslvl - 1 /\ UNCHANGED <<trulvl, errs>>
         [] flslvl = 0 /\ trulvl > 0 -> trulvl' = trulvl - 1 /\ UNCHANGED <<flslvl, errs>>
         [] OTHER -> errs' = errs \cup {"If-less endif"} /\ UNCHANGED levels
    /\ out' = IF flslvl = 1 THEN Append(out, Marker(Here)) ELSE out
    /\ UNCHANGED <<open, defs>> /\ Quiet

elseInner ==
    /\ Dir("else") /\ Took
    /\ CASE flslvl > 0 -> flslvl' = flslvl - 1 /\ trulvl' = trulvl + 1 /\ UNCHANGED errs
         [] flslvl = 0 /\ trulvl > 0 -> flslvl' = 1 /\ trulvl' = trulvl - 1 /\ UNCHANGED errs
         [] OTHER -> errs' = errs \cup {"If-less else"} /\ UNCHANGED levels
    /\ out' = IF flslvl = 1 THEN Append(out, Marker(Here)) ELSE out
    /\ UNCHANGED <<open, defs>> /\ Quiet
else ==
    /\ Dir("else") /\ Took
    /\ CASE flslvl > 1 -> UNCHANGED <<levels, errs>>
         [] flslvl = 1 -> flslvl' = 0 /\ trulvl' = trulvl + 1 /\ UNCHANGED errs
         [] flslvl = 0 /\ trulvl > 0 -> flslvl' = 1 /\ trulvl' = trulvl - 1 /\ UNCHANGED errs
         [] OTHER -> errs' = errs \cup {"If-less else"} /\ UNCHANGED levels
    /\ out' = IF flslvl = 1 THEN Append(out, Marker(Here)) ELSE out
    /\ UNCHANGED <<open, defs>> /\ Quiet

\* doincl: "" is sought where the file that names it is, then where <> is.
\* The rest of the buffer waits until the end of the new file.
Candidates(f, quoted, n) ==
    SelectSeq([i \in DOMAIN ((IF quoted THEN <<f[1]>> ELSE <<>>) \o Dirs) |-> <<((IF quoted THEN <<f[1]>> ELSE <<>>) \o Dirs)[i], n>>],
              LAMBDA g : g \in DOMAIN files)
include ==
    LET found == Candidates(Here.file, Tok.quoted, Tok.n)
        side == PutAside(Tail(waiting), instack)
        left == [open EXCEPT ![Len(open)].line = @ + 1]
        new == [file |-> found[1], pos |-> 0, line |-> 1, inctop |-> Len(side)]
        taken == flslvl = 0 /\ Len(open) < MaxInc /\ found # <<>>
    IN /\ Dir("include")
       /\ out' = Shown(<<NewLine>> \o IF taken THEN <<Marker(new)>> ELSE <<>>)
       /\ IF taken THEN waiting' = <<>> /\ instack' = side /\ open' = Append(left, new) /\ UNCHANGED errs
          ELSE /\ Took /\ open' = left
               /\ errs' = IF flslvl > 0 THEN errs
                          ELSE errs \cup {IF Len(open) >= MaxInc THEN "Unreasonable include nesting"
                                          ELSE "Can't find include file"}
       /\ UNCHANGED <<defs, levels>> /\ Quiet

Next == \/ Refill \/ Text \/ Recursion \/ Expand \/ Call \/ OpenParen \/ Actual
        \/ define \/ undef \/ Enter \/ endif \/ else \/ include

Spec == Init /\ [][Next]_vars

---------------------------------------------------------------------------
(* What the input means, with neither buffers nor counters: a list of the  *)
(* tokens to come, and the conditionals one is within, as a stack.         *)

Located(f) == LET ts == files[f]
                  ends(t) == t.t = "nl" \/ (t.t = "dir" /\ t.d = "include")
              IN [i \in DOMAIN ts |-> [tok |-> ts[i], file |-> f,
                                      line |-> 1 + Cardinality({j \in 1..(i - 1) : ends(ts[j])})]]
Live(s) == \A i \in DOMAIN s.ifs : s.ifs[i] = "on"

\* The list from its head to the parenthesis that matches, split at commas.
RECURSIVE Actuals(_, _, _, _)
Actuals(todo, depth, cur, acts) ==
    LET t == Head(todo)
        d == depth + (IF t.tok.t = "(" THEN 1 ELSE IF t.tok.t = ")" THEN -1 ELSE 0)
    IN IF d = 0 THEN [rest |-> Tail(todo), acts |-> Append(acts, cur)]
       ELSE IF d = 1 /\ t.tok.t = "," THEN Actuals(Tail(todo), d, <<>>, Append(acts, cur))
       ELSE Actuals(Tail(todo), d, IF d = 1 /\ depth = 0 THEN cur ELSE Append(cur, t.tok), acts)
At(ts, h) == [i \in DOMAIN ts |-> [h EXCEPT !.tok = ts[i]]]
Substituted(m, acts) ==
    FlattenSeq([i \in DOMAIN m.body |-> IF m.body[i].t = "formal" THEN acts[m.body[i].n] ELSE <<m.body[i]>>])

\* One token more of the list read.
Reading(s) ==
    LET h == Head(s.todo)
        t == h.tok
        r == [s EXCEPT !.todo = Tail(@)]
        n == Len(s.ifs)
        is(d) == t.t = "dir" /\ t.d = d
        c == Candidates(h.file, t.quoted, t.n)
        m == s.defs[t.n]
        a == IF m.params = 0 THEN [rest |-> r.todo, acts |-> <<>>] ELSE Actuals(r.todo, 0, <<>>, <<>>)
        holds == CASE t.c.k = "def" -> t.c.n \in DOMAIN s.defs
                   [] t.c.k = "ndef" -> t.c.n \notin DOMAIN s.defs [] OTHER -> t.c.n # 0
    IN IF s.todo = <<>> THEN s
       ELSE CASE is("if") -> [r EXCEPT !.ifs = Append(@, IF ~Live(s) THEN "dead" ELSE IF holds THEN "on" ELSE "off")]
              [] is("else") /\ n > 0 -> [r EXCEPT !.ifs[n] = CASE @ = "on" -> "off" [] @ = "off" -> "on" [] OTHER -> @]
              [] is("endif") /\ n > 0 -> [r EXCEPT !.ifs = Front(@)]
              [] (is("else") \/ is("endif")) /\ n = 0 -> r
              [] t.t = "nl" \/ (~Live(s) /\ ~is("if") /\ ~is("else") /\ ~is("endif")) -> r
              [] is("define") /\ Live(s) -> [r EXCEPT !.defs = [x \in DOMAIN @ \cup {t.n} |-> IF x = t.n THEN t.m ELSE @[x]]]
              [] is("undef") /\ Live(s) -> [r EXCEPT !.defs = [x \in DOMAIN @ \ {t.n} |-> @[x]]]
              [] is("include") /\ Live(s) -> IF c = <<>> THEN r ELSE [r EXCEPT !.todo = Located(c[1]) \o @]
              [] t.t = "id" /\ t.n \in DOMAIN s.defs /\ Live(s) -> [r EXCEPT !.todo = At(Substituted(m, a.acts), h) \o a.rest]
              [] OTHER -> [r EXCEPT !.text = Append(@, h)]

Meanings[n \in 0..Steps] ==
    IF n = 0 THEN [todo |-> Located(Main), ifs |-> <<>>, defs |-> <<>>, text |-> <<>>]
    ELSE LET s == Meanings[n - 1] IN Reading(s)
Expected == Meanings[Steps].text

\* The tokens written, where the # lines and the newlines say they come from.
Written ==
    FoldLeft(LAMBDA a, o :
        CASE o.k = "line" -> [a EXCEPT !.file = o.file, !.line = o.n]
          [] o.k = "nl"   -> [a EXCEPT !.line = @ + 1]
          [] OTHER        -> [a EXCEPT !.text = Append(@, [tok |-> o.tok, file |-> a.file, line |-> a.line])],
        [file |-> Main, line |-> 1, text |-> <<>>], out).text

\* The text that is written is what the input means, each token said to come
\* from the line it, or the call that gave it, stands on: for all that buffers
\* are set aside and brought back, files left and returned to, parts skipped.
OutputMeansSource == (done /\ errs \subseteq {"If-less endif", "If-less else", "redefined", "Can't find include file"})
                     => Written = Expected

===========================================================================
