-------------------------------- MODULE Ld --------------------------------
(***************************************************************************)
(* The link editor pdp11-ld (src/pdp11-ld/ld.c): pass 1 over the arguments *)
(* builds the symbol table and the sizes, middle() gives every symbol its  *)
(* value, pass 2 relocates the words of the same objects again and         *)
(* finishout() puts the file together.  Sizes and addresses are in words;  *)
(* an object is [name, text, data, bss, syms], its words [to, v, pc, id]:  *)
(* `to' is what the word is relocated by (nothing, a segment or a symbol), *)
(* pc whether it is relative to its place, id which word of which object.  *)
(* Archives are sequences of objects, with a table of contents or without. *)
(***************************************************************************)
EXTENDS Integers, Sequences, SequencesExt, FiniteSetsExt

CONSTANTS
    Links,      \* the links that may be asked for: [args, opts, then]
    Round,      \* words text and overlays are rounded to (32)
    Page,       \* words of a page (4096)
    Origin1     \* where the text of a First Edition program begins

THUNKSIZ == 4
NoOvl == 0

VARIABLES
    args, opts, \* the command line: arguments, and the options among n i r d v1
    then,       \* the link of this one's output that follows, if any
    pass,       \* "one", "two", "finish", "done", "error"
    at,         \* the argument that is next
    symtab,     \* <<[n, k, v, ov, ova]>>: name, kind, value, overlay, value there
    symindex,   \* how many are in use: those above keep what they held
    sizes,      \* [t, d, b] so far, in pass 1; in pass 2 the header's
    ovl,        \* [cur, in, num, size, was]: the overlays
    liblist,    \* the members each archive gave, in order
    origin,     \* [t, d, b, ov, was]: where the next object goes in pass 2
    out,        \* [t, v, d]: the words of text, overlays and data
    errs        \* what was complained of

ldVars == <<args, opts, then, pass, at, symtab, symindex, sizes, ovl, liblist, origin, out, errs>>
fixed == <<args, opts, then>>
table == <<symtab, symindex, sizes>>

Empty == [t |-> 0, d |-> 0, b |-> 0]
NoSym == [n |-> "", k |-> "U", v |-> 0, ov |-> NoOvl, ova |-> 0]
NoOverlays == [cur |-> 0, in |-> FALSE, num |-> 0, size |-> [i \in 1..7 |-> 0], was |-> 0]
NoOrigin == [t |-> 0, d |-> 0, b |-> 0, ov |-> 0, was |-> 0]
NoOutput == [t |-> <<>>, v |-> <<>>, d |-> <<>>]
RoundUp(x, to) == to * ((x + to - 1) \div to)

\* What may be linked: objects, which have a symbol once, with a size or 0 if it
\* is undefined, and archives of them.
IsSequence(s) == Len(s) \in Nat /\ s = [i \in 1..Len(s) |-> s[i]]
IsSymbol(y) == y = [n |-> y.n, k |-> y.k, v |-> y.v] /\ (y.k = "U" => y.v \in Nat)
IsObject(o) ==
    /\ IsSequence(o.syms)
    /\ \A j \in 1..Len(o.syms) : IsSymbol(o.syms[j])
    /\ \A i, j \in 1..Len(o.syms) : o.syms[i].n = o.syms[j].n => i = j
IsArchive(l) == IsSequence(l) /\ \A m \in 1..Len(l) : IsObject(l[m])
AreArguments(a) ==
    /\ IsSequence(a)
    /\ \A i \in 1..Len(a) : (a[i].k = "obj" => IsObject(a[i].o)) /\ (a[i].k = "lib" => IsArchive(a[i].lib))
LinksAreOfObjects == \A l \in Links : AreArguments(l.args) /\ (l.then # <<>> => AreArguments(l.then[1].args))

LdInit ==
    /\ \E l \in Links : args = l.args /\ opts = l.opts /\ then = l.then
    /\ pass = "one" /\ at = 1
    /\ symtab = <<>> /\ symindex = 0 /\ sizes = Empty
    /\ ovl = NoOverlays /\ liblist = <<>> /\ origin = NoOrigin /\ out = NoOutput
    /\ errs = {}

---------------------------------------------------------------------------
(* The symbol table.                                                       *)

lookup(tab, n) == LET hits == {i \in 1..tab.index : tab.sym[i].n = n}
                  IN IF hits = {} THEN 0 ELSE CHOOSE i \in hits : TRUE

\* A new symbol takes the next slot; what that slot last said of overlays
\* stays, unless the symbol is text.
enter(tab, y, cur) ==
    LET slot == tab.index + 1
        left == IF slot <= Len(tab.sym) THEN tab.sym[slot] ELSE NoSym
        new  == [left EXCEPT !.n = y.n, !.k = y.k, !.v = y.v, !.ov = IF y.k = "T" THEN cur ELSE left.ov]
    IN [tab EXCEPT !.index = slot, !.sym = IF slot <= Len(@) THEN [@ EXCEPT ![slot] = new] ELSE Append(@, new)]

\* Where an object's segments go, given the sizes before it.
Place(o, s) == [T |-> s.t, D |-> s.d - Len(o.text), B |-> s.b - Len(o.text) - Len(o.data)]
symreloc(y, rel) == IF y.k \in DOMAIN rel THEN [y EXCEPT !.v = @ + rel[y.k]] ELSE y

---------------------------------------------------------------------------
(* Pass 1.                                                                 *)

\* A symbol of an object: entered, or it raises a common, or it defines one
\* that is undefined; text does not define what is common already.
TakeSymbol(tab, y, cur) ==
    LET hit == lookup(tab, y.n)
        sp  == tab.sym[hit]
    IN IF hit = 0 THEN enter(tab, y, cur)
       ELSE IF sp.k # "U" THEN tab
       ELSE IF y.k = "U" THEN [tab EXCEPT !.sym[hit].v = IF y.v > @ THEN y.v ELSE @]
       ELSE IF sp.v # 0 /\ y.k = "T" THEN tab
       ELSE [tab EXCEPT !.ndef = @ + 1, !.sym[hit] =
               [sp EXCEPT !.k = y.k, !.v = y.v, !.ov = IF y.k = "T" THEN cur ELSE sp.ov]]

\* load1: a member that defines nothing wanted has its symbols ripped out; the
\* commons it raised stay raised.  tab: [sym, index, ndef, size, libs].
TakeSymbols(tab, o, cur) ==
    LET taken[k \in 0..Len(o.syms)] ==
            IF k = 0 THEN [tab EXCEPT !.ndef = 0]
            ELSE TakeSymbol(taken[k - 1], symreloc(o.syms[k], Place(o, tab.size)), cur)
    IN taken[Len(o.syms)]
load1(tab, o, lib, cur) ==
    LET end == TakeSymbols(tab, o, cur)
        grown == [t |-> tab.size.t + Len(o.text), d |-> tab.size.d + Len(o.data), b |-> tab.size.b + o.bss]
    IN IF lib /\ end.ndef = 0 THEN [end EXCEPT !.index = tab.index]
       ELSE [end EXCEPT !.size = grown, !.libs = IF lib THEN Append(@, o) ELSE @]

\* An archive without a table, or with an old one: each member once, in order.
scan(tab, lib, cur) ==
    LET read[i \in 0..Len(lib)] == IF i = 0 THEN tab ELSE load1(read[i - 1], lib[i], TRUE, cur) IN read[Len(lib)]

\* With a table: for each symbol a member defines it has an entry, and the member
\* is tried if the symbol is undefined; so on from the top, until a round takes none.
\* As many rounds as there are members reach that one (RescanEnds in Ld_proofs),
\* and the rounds after it do what it did.
Undefined(tab, n) == lookup(tab, n) # 0 /\ tab.sym[lookup(tab, n)].k = "U"
step(tab, o, j, cur) == IF o.syms[j].k # "U" /\ Undefined(tab, o.syms[j].n) THEN load1(tab, o, TRUE, cur) ELSE tab
Try(tab, o, cur) ==
    LET tried[j \in 0..Len(o.syms)] == IF j = 0 THEN tab ELSE step(tried[j - 1], o, j, cur) IN tried[Len(o.syms)]
ldrand(tab, lib, cur) ==
    LET tried[i \in 0..Len(lib)] == IF i = 0 THEN tab ELSE Try(tried[i - 1], lib[i], cur) IN tried[Len(lib)]
rescanOnce(tab, lib, cur) == ldrand(tab, lib, cur)
rescan(tab, lib, cur) ==
    LET round[k \in 0..Len(lib)] == IF k = 0 THEN tab ELSE ldrand(round[k - 1], lib, cur) IN round[Len(lib)]

Now == [sym |-> symtab, index |-> symindex, ndef |-> 0, size |-> sizes, libs |-> <<>>]
Keep(tab) == symtab' = tab.sym /\ symindex' = tab.index /\ sizes' = tab.size
Arg == args[at]
MoreArgs == at <= Len(args)
NextArg == at' = at + 1

Load1Object ==
    /\ pass = "one" /\ MoreArgs /\ Arg.k = "obj"
    /\ Keep(load1(Now, Arg.o, FALSE, ovl.cur))
    /\ NextArg /\ UNCHANGED <<fixed, pass, ovl, liblist, origin, out, errs>>

Load1Archive ==
    /\ pass = "one" /\ MoreArgs /\ Arg.k = "lib"
    /\ LET tab == IF Arg.toc THEN rescan(Now, Arg.lib, ovl.cur) ELSE scan(Now, Arg.lib, ovl.cur)
       IN Keep(tab) /\ liblist' = Append(liblist, tab.libs)
    /\ NextArg /\ UNCHANGED <<fixed, pass, ovl, origin, out, errs>>

\* -u name: wanted before anything asks for it.
Use ==
    /\ pass = "one" /\ MoreArgs /\ Arg.k = "u"
    /\ LET y == [n |-> Arg.n, k |-> "U", v |-> 0]
       IN Keep(IF lookup(Now, Arg.n) = 0 THEN enter(Now, y, ovl.cur) ELSE Now)
    /\ NextArg /\ UNCHANGED <<fixed, pass, ovl, liblist, origin, out, errs>>

\* -Z: an overlay begins; the first one also asks for the handler.
BeginOverlay ==
    /\ pass = "one" /\ MoreArgs /\ Arg.k = "Z"
    /\ LET y   == [n |-> "ovhndlr1", k |-> "U", v |-> 0]
           tab == IF ovl.num = 0 /\ lookup(Now, y.n) = 0 THEN enter(Now, y, 0) ELSE Now
       IN Keep([tab EXCEPT !.size.t = 0])
    /\ ovl' = [cur |-> ovl.cur + 1, in |-> TRUE, num |-> ovl.num + 1,
               size |-> IF ovl.in THEN [ovl.size EXCEPT ![ovl.cur] = sizes.t] ELSE ovl.size,
               was |-> IF ovl.in THEN ovl.was ELSE sizes.t]
    /\ NextArg /\ UNCHANGED <<fixed, pass, liblist, origin, out, errs>>

\* -L: back to the root, whose text goes on where it stopped.
EndOverlay ==
    /\ pass = "one" /\ MoreArgs /\ Arg.k = "L" /\ ovl.in
    /\ ovl' = [ovl EXCEPT !.size[ovl.cur] = sizes.t, !.cur = 0, !.in = FALSE]
    /\ sizes' = [sizes EXCEPT !.t = ovl.was]
    /\ NextArg /\ UNCHANGED <<fixed, pass, symtab, symindex, liblist, origin, out, errs>>

---------------------------------------------------------------------------
(* middle(): the values of the symbols.                                    *)

\* One of ld's own symbols: defined if it was wanted and nothing defines it.
ldrsym(tab, y) ==
    LET hit == lookup(tab, y.n)
        sp  == tab.sym[hit]
    IN IF hit = 0 THEN tab
       ELSE IF sp.k # "U" \/ sp.v # 0 THEN [tab EXCEPT !.errs = @ \union {<<"Multiply defined", y.n>>}]
       ELSE [tab EXCEPT !.sym[hit] = [sp EXCEPT !.k = y.k, !.v = y.v]]
EndsOf(s) == << [n |-> "_etext", k |-> "T", v |-> s.t], [n |-> "_edata", k |-> "D", v |-> s.d],
                [n |-> "_end", k |-> "B", v |-> s.b] >>
Ends == {"_etext", "_edata", "_end"}
UndefinedIn(tab) == \E i \in 1..tab.index : tab.sym[i].k = "U" /\ tab.sym[i].v = 0 /\ tab.sym[i].n \notin Ends
Univ == [n |-> "__univ", k |-> "A", v |-> 7]

\* Commons, in the order of the table, one after the other.
Common(y) == y.k = "U" /\ y.v # 0
Allotted(tab, from) ==
    [i \in DOMAIN tab.sym |->
        IF i <= tab.index /\ Common(tab.sym[i]) THEN [tab.sym[i] EXCEPT !.k = "C", !.v = from[i - 1]] ELSE tab.sym[i]]
AllocateOverlapping(tab) ==
    LET csize[i \in 0..tab.index] ==
            IF i = 0 THEN 0 ELSE IF Common(tab.sym[i]) /\ tab.sym[i].v > csize[i - 1] THEN tab.sym[i].v ELSE csize[i - 1]
    IN [tab EXCEPT !.sym = Allotted(tab, csize), !.csize = csize[tab.index]]
Allocate(tab) ==
    LET csize[i \in 0..tab.index] == IF i = 0 THEN 0 ELSE csize[i - 1] + (IF Common(tab.sym[i]) THEN tab.sym[i].v ELSE 0)
    IN [tab EXCEPT !.sym = Allotted(tab, csize), !.csize = csize[tab.index]]

\* A function in an overlay is known by its thunk, at the end of the root.
Thunked(y) == y.ov # NoOvl /\ y.k = "T"
Stubbed(tab, from) ==
    [i \in DOMAIN tab.sym |->
        IF i <= tab.index /\ Thunked(tab.sym[i]) THEN [tab.sym[i] EXCEPT !.ova = tab.sym[i].v, !.v = from[i - 1]]
        ELSE tab.sym[i]]
MakeThunks(tab) ==
    LET tsize[i \in 0..tab.index] == IF i = 0 THEN tab.t ELSE tsize[i - 1] + (IF Thunked(tab.sym[i]) THEN THUNKSIZ ELSE 0)
    IN [tab EXCEPT !.sym = Stubbed(tab, tsize), !.t = tsize[tab.index]]

\* What the options come to: undefined symbols make the output relocatable,
\* and a relocatable output is neither pure nor separate; overlays never are.
Relocatable(tab) == ovl.num = 0 /\ ("r" \in opts \/ UndefinedIn(tab))
DefineCommons(tab) == IF "d" \in opts THEN "r" \in opts \/ ~UndefinedIn(tab) ELSE ~Relocatable(tab)
Has(o, tab) == o \in opts /\ ~Relocatable(tab)
FirstEdition == IF "v1" \in opts THEN Origin1 ELSE 0
Largest(f) == f[CHOOSE i \in DOMAIN f : \A j \in DOMAIN f : f[i] >= f[j]]

\* The table with _univ, with the ends and the commons, with the thunks.
WithUniv ==
    LET start == [sym |-> symtab, index |-> symindex, errs |-> errs, csize |-> 0, t |-> sizes.t]
    IN IF "r" \in opts /\ ovl.num = 0 THEN start ELSE ldrsym(start, Univ)
WithCommons(tab) ==
    LET e == EndsOf(sizes)
    IN IF DefineCommons(tab) THEN Allocate(ldrsym(ldrsym(ldrsym(tab, e[1]), e[2]), e[3])) ELSE tab
WithThunks(tab) == IF ovl.num # 0 THEN MakeThunks(tab) ELSE tab
Final(y, base, ovbase) ==
    [y EXCEPT !.v   = IF y.k \in DOMAIN base THEN @ + base[y.k] ELSE @,
              !.k   = IF @ = "C" THEN "B" ELSE @,
              !.ova = IF ovl.num # 0 /\ Thunked(y) THEN @ + ovbase ELSE @]

Middle ==
    /\ pass = "one" /\ ~MoreArgs
    /\ LET univ   == WithUniv
           common == WithCommons(univ)
           thunks == WithThunks(common)
           pure   == Has("n", univ) \/ Has("i", univ)
           tsize  == IF pure THEN RoundUp(thunks.t, Round) ELSE thunks.t
           osize  == [i \in DOMAIN ovl.size |-> RoundUp(ovl.size[i], Round)]
           ovbase == RoundUp(tsize, Page)
           ttsize == IF ovl.num # 0 THEN RoundUp(ovbase + Largest(osize), Page) ELSE tsize
           dorg   == IF Has("i", univ) THEN 0 ELSE IF Has("n", univ) THEN RoundUp(ttsize, Page) ELSE ttsize + FirstEdition
           corg   == dorg + sizes.d
           base   == [T |-> FirstEdition, D |-> dorg, B |-> corg + common.csize, C |-> corg]
       IN /\ symtab' = [i \in DOMAIN thunks.sym |-> IF i <= symindex THEN Final(thunks.sym[i], base, ovbase) ELSE thunks.sym[i]]
          /\ sizes' = [t |-> tsize, d |-> sizes.d, b |-> sizes.b + common.csize]
          /\ origin' = [t |-> FirstEdition, d |-> dorg, b |-> base.B, ov |-> ovbase, was |-> 0]
          /\ ovl' = [ovl EXCEPT !.size = osize]
          /\ opts' = IF Relocatable(univ) THEN {"r"} ELSE opts \ {"r"}
          /\ errs' = common.errs \union {<<"Undefined", common.sym[i].n>> :
                        i \in {j \in 1..symindex : common.sym[j].k = "U" /\ common.sym[j].v = 0 /\ "r" \notin opts}}
          /\ pass' = IF ovl.num # 0 /\ ~pure THEN "error" ELSE "two"
    /\ at' = 1 /\ UNCHANGED <<args, then, symindex, liblist, out>>

---------------------------------------------------------------------------
(* Pass 2.                                                                 *)

\* A word where it lands: relocated by its segment, or by its symbol.
Relocate(w, rel, self) ==
    LET hit == lookup(Now, w.to)
        sp  == symtab[hit]
        moved == CASE w.to = "abs" -> w
                   [] w.to \in DOMAIN rel -> [w EXCEPT !.v = @ + rel[w.to]]
                   [] OTHER -> IF sp.k = "U" THEN w
                               ELSE [w EXCEPT !.v = @ + sp.v, !.to = IF sp.k = "A" THEN "abs" ELSE sp.k]
    IN IF w.pc THEN [moved EXCEPT !.v = @ - self] ELSE moved

\* An object says where it thinks its data are: is it where they were put?
Disagrees(y) ==
    LET sp == symtab[lookup(Now, y.n)]
    IN y.k \notin {"U", "T"} /\ (y.k # sp.k \/ y.v # IF sp.ov # NoOvl THEN sp.ova ELSE sp.v)

load2(g, o) ==
    LET rel == Place(o, g.at)
        text == [i \in DOMAIN o.text |-> Relocate(o.text[i], rel, rel.T)]
        data == [i \in DOMAIN o.data |-> Relocate(o.data[i], rel, rel.D)]
    IN [at  |-> [g.at EXCEPT !.t = @ + Len(o.text), !.d = @ + Len(o.data), !.b = @ + o.bss],
        out |-> [g.out EXCEPT !.t = IF ovl.in THEN @ ELSE @ \o text, !.v = IF ovl.in THEN @ \o text ELSE @, !.d = @ \o data],
        errs |-> g.errs \union {<<"Multiply defined", o.syms[i].n>> : i \in {j \in DOMAIN o.syms : Disagrees(symreloc(o.syms[j], rel))}}]
Load2(objs) ==
    LET end == FoldLeft(load2, [at |-> origin, out |-> out, errs |-> errs], objs)
    IN origin' = end.at /\ out' = end.out /\ errs' = end.errs

Load2Object ==
    /\ pass = "two" /\ MoreArgs /\ Arg.k = "obj"
    /\ Load2(<<Arg.o>>)
    /\ NextArg /\ UNCHANGED <<fixed, pass, table, ovl, liblist>>

\* The members pass 1 took, and no search.
Load2Archive ==
    /\ pass = "two" /\ MoreArgs /\ Arg.k = "lib"
    /\ Load2(liblist[Cardinality({i \in 1..at : args[i].k = "lib"})])
    /\ NextArg /\ UNCHANGED <<fixed, pass, table, ovl, liblist>>

Skip2 ==
    /\ pass = "two" /\ MoreArgs /\ Arg.k = "u"
    /\ NextArg /\ UNCHANGED <<fixed, pass, table, ovl, liblist, origin, out, errs>>

\* roundov: an overlay fills its words up.
Zero == [to |-> "abs", v |-> 0, pc |-> FALSE, id |-> [want |-> "", label |-> "", in |-> 0]]
Zeros(n) == [i \in 1..n |-> Zero]
roundov(v) == v \o Zeros(RoundUp(origin.t, Round) - origin.t)

BeginOverlay2 ==
    /\ pass = "two" /\ MoreArgs /\ Arg.k = "Z"
    /\ out' = IF ovl.in THEN [out EXCEPT !.v = roundov(@)] ELSE out
    /\ origin' = [origin EXCEPT !.t = origin.ov, !.was = IF ovl.in THEN @ ELSE origin.t]
    /\ ovl' = [ovl EXCEPT !.in = TRUE, !.cur = @ + 1]
    /\ NextArg /\ UNCHANGED <<fixed, pass, table, liblist, errs>>
EndOverlay2 ==
    /\ pass = "two" /\ MoreArgs /\ Arg.k = "L"
    /\ out' = [out EXCEPT !.v = roundov(@)]
    /\ origin' = [origin EXCEPT !.t = origin.was]
    /\ ovl' = [ovl EXCEPT !.in = FALSE]
    /\ NextArg /\ UNCHANGED <<fixed, pass, table, liblist, errs>>

\* finishout: the thunks, of every symbol with an overlay, and the padding.
Handler(k) == "ovhndlr" \o ToString(k)
adrof(n) == IF lookup(Now, n) = 0 THEN 0 ELSE symtab[lookup(Now, n)].v
Thunk(y) == << [Zero EXCEPT !.id.label = y.n], [Zero EXCEPT !.v = y.ova + 2, !.id = [want |-> y.n, label |-> "", in |-> y.ov]],
               Zero, [Zero EXCEPT !.v = adrof(Handler(y.ov)), !.id.want = Handler(y.ov)] >>
Finish ==
    /\ pass = "two" /\ ~MoreArgs
    /\ LET stubs == SelectSeq(SubSeq(symtab, 1, symindex), LAMBDA y : y.ov # NoOvl)
           text == out.t \o (IF ovl.num # 0 THEN FlattenSeq([i \in DOMAIN stubs |-> Thunk(stubs[i])]) ELSE <<>>)
           end == origin.t + (Len(text) - Len(out.t))
       IN out' = [out EXCEPT !.t = IF {"n", "i"} \intersect opts # {} THEN text \o Zeros(RoundUp(end, Round) - end) ELSE text]
    /\ errs' = errs \union {<<"Undefined!", Handler(k)>> : k \in {j \in 1..ovl.num : lookup(Now, Handler(j)) = 0}}
    /\ pass' = "done" /\ UNCHANGED <<fixed, at, table, ovl, liblist, origin>>

\* What -r made is an object like any other, and may be linked again.
Output == [name |-> "l.out", text |-> out.t, data |-> out.d, bss |-> sizes.b,
           syms |-> [i \in 1..symindex |-> [n |-> symtab[i].n, k |-> symtab[i].k, v |-> symtab[i].v]]]
LinkAgain ==
    /\ pass = "done" /\ "r" \in opts /\ then # <<>>
    /\ args' = <<[k |-> "obj", o |-> Output]>> \o then[1].args /\ opts' = then[1].opts /\ then' = <<>>
    /\ pass' = "one" /\ at' = 1 /\ symtab' = <<>> /\ symindex' = 0 /\ sizes' = Empty /\ ovl' = NoOverlays /\ liblist' = <<>>
    /\ origin' = NoOrigin /\ out' = NoOutput /\ errs' = {}

LdNext ==
    \/ Load1Object \/ Load1Archive \/ Use \/ BeginOverlay \/ EndOverlay \/ Middle
    \/ Load2Object \/ Load2Archive \/ Skip2 \/ BeginOverlay2 \/ EndOverlay2 \/ Finish \/ LinkAgain
LdSpec == LdInit /\ [][LdNext]_ldVars

---------------------------------------------------------------------------
(* Properties.  A word's id says what it refers to (want) and what it is   *)
(* the place of (label): nothing above looks at either.                    *)

\* What the loader makes of the file: one stream, cut by the header.
Stream(i) == LET file == out.t \o out.v \o out.d IN IF i \in DOMAIN file THEN file[i] ELSE Zero
OvlBase == RoundUp(sizes.t, Page)
OvlStart(k) == sizes.t + FoldLeft(+, 0, SubSeq(ovl.size, 1, k - 1))
DataStart == OvlStart(8)
DataBase == LET end == IF ovl.num # 0 THEN RoundUp(OvlBase + Largest(ovl.size), Page) ELSE sizes.t
            IN IF "i" \in opts THEN 0 ELSE IF "n" \in opts THEN RoundUp(end, Page) ELSE end + FirstEdition
CoreText(a) == LET i == a - FirstEdition + 1 IN IF i \in 1..sizes.t THEN Stream(i) ELSE Zero
CoreData(a) == LET i == a - DataBase + 1 IN IF i \in 1..sizes.d THEN Stream(DataStart + i) ELSE Zero
CoreOverlay(k, a) == LET i == a - OvlBase + 1 IN IF i \in 1..ovl.size[k] THEN Stream(OvlStart(k) + i) ELSE Zero

Runs == pass = "done" /\ "r" \notin opts /\ errs = {}
\* A slot whose last tenant was text of an overlay keeps its overlay number.
StaleSlot == \E i \in 1..symindex : symtab[i].ov # NoOvl /\ symtab[i].k # "T"

\* The places words have in the running program: <<word, address, overlay>>.
Placed == {<<CoreText(a), a, 0>> : a \in FirstEdition .. FirstEdition + sizes.t - 1}
          \union {<<CoreData(a), a, 0>> : a \in DataBase .. DataBase + sizes.d - 1}
          \union UNION {{<<CoreOverlay(k, a), a, k>> : a \in OvlBase .. OvlBase + ovl.size[k] - 1} : k \in 1..ovl.num}
Target(p) == IF p[1].pc THEN p[1].v + p[2] + 1 ELSE p[1].v
Labels(p, n) ==
    \/ n \in {CoreText(Target(p)).id.label, CoreData(Target(p)).id.label}
    \/ p[3] # 0 /\ CoreOverlay(p[3], Target(p)).id.label = n

\* In a program linked without a complaint every reference arrives: the word it
\* names is where the loader put the word that has the name, through a thunk
\* when it is in an overlay, however many links it went through.
HasWord(n) == \E p \in Placed : p[1].id.label = n
ReferencesArrive ==
    Runs /\ ~StaleSlot => \A p \in Placed :
        LET n == p[1].id.want
        IN HasWord(n) => IF p[1].id.in # 0 THEN CoreOverlay(p[1].id.in, p[1].v - 2).id.label = n ELSE Labels(p, n)

\* The objects of the program: those named and the members taken.
LinkedObjects == {args[i].o : i \in {j \in DOMAIN args : args[j].k = "obj"}} \union UNION {Range(liblist[i]) : i \in DOMAIN liblist}
Symbols == UNION {Range(o.syms) : o \in LinkedObjects}
Commons == {n \in {y.n : y \in Symbols} : (\E y \in Symbols : y.n = n /\ y.v > 0) /\ \A y \in Symbols : y.n = n => y.k = "U"}
LargestAsked(n) == LET asked == {y.v : y \in {z \in Symbols : z.n = n}} IN CHOOSE v \in asked : \A w \in asked : v >= w
Room(n) == LET v == symtab[lookup(Now, n)].v IN v .. v + LargestAsked(n) - 1

\* Every common has room of its own, as much as any object asked for, after the
\* data and before what the objects' bss begins at.
CommonsApart ==
    Runs => \A n \in Commons :
        /\ Room(n) \subseteq DataBase + sizes.d .. DataBase + sizes.d + sizes.b - FoldSet(LAMBDA o, b : b + o.bss, 0, LinkedObjects) - 1
        /\ \A m \in Commons \ {n} : Room(m) \intersect Room(n) = {}

LinksRight == ReferencesArrive /\ CommonsApart

\* When an archive with a table has been searched, no member of it is left that
\* defines a symbol still undefined, and none was taken twice.
SearchComplete ==
    [][pass = "one" /\ Load1Archive /\ Arg.toc =>
         /\ \A i \in 1..symindex' : symtab'[i].k = "U" /\ symtab'[i].v = 0
                => \A o \in Range(Arg.lib) : \A y \in Range(o.syms) : y.k # "U" => y.n # symtab'[i].n
         /\ IsInjective(Last(liblist'))]_ldVars
=============================================================================
