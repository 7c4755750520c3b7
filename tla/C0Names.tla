------------------------------ MODULE C0Names ------------------------------
(***************************************************************************)
(* The first pass's symbol table: one open-addressed hash table in which   *)
(* an inner declaration pushes the outer one down, and from which the end  *)
(* of a block deletes, pops and rehashes in place; and the storage its     *)
(* declarations are given.  An action reads one declarator, one mention of *)
(* a name, or one end of a block.                                          *)
(***************************************************************************)
EXTENDS Integers, Sequences, FiniteSetsExt

CONSTANTS
    Names,
    Hash(_),       \* where lookup starts for a name
    HSHSIZ,        \* slots
    Kinds,         \* <<storage class, type>> of the local declarations read
    MaxDepth,      \* bound: nested blocks
    MaxEvents      \* bound: declarators and mentions read

ASSUME NamesAssumption ==
    /\ HSHSIZ \in Nat \ {0} /\ MaxDepth \in Nat \ {0} /\ MaxEvents \in Nat
    /\ "" \notin Names
    /\ \A n \in Names : Hash(n) \in 0..(HSHSIZ - 1)
    /\ Kinds \subseteq {"AUTO", "REG", "STATIC", "EXTERN", "TYPEDEF"} \X {"char", "int", "double", "fn"}

VARIABLES
    hshtab,
    blklev, autolen, maxauto, regvar, isn,
    where,                                \* ext, params, args, body, or a struct's braces
    defsym,                               \* the declarator's name, while its parameters are read
    paraml, saved,                        \* the parameters; autolen and regvar at each {
    nread,
    scopes,                               \* what C says is declared, by block level (no part of the program)
    stray                                 \* history: parameters were read of what had no body

vars == <<hshtab, blklev, autolen, maxauto, regvar, isn, where, defsym, paraml, saved, nread, scopes, stray>>

Slots == 0..(HSHSIZ - 1)
Keys == Names \X BOOLEAN                  \* a name, and whether it is a member or a tag (FMOS)
Undeclared == [hclass |-> "", lab |-> FALSE, htype |-> "int", hoffset |-> 0]
Free == [name |-> "", mos |-> FALSE, hblklev |-> 0, d |-> Undeclared, hpdown |-> <<>>]
STAUTO == -6
STARG == 4
length(type) == CASE type = "char" -> 1 [] type = "double" -> 8 [] type = "fn" -> 0 [] OTHER -> 2
rlength(type) == IF type = "char" THEN 2 ELSE length(type)

---------------------------------------------------------------------------
(* The table.                                                              *)

Probe(n, k) == (Hash(n) + k) % HSHSIZ
lookup(t, n, mos) ==
    Probe(n, Min({k \in Slots : t[Probe(n, k)].name = "" \/ (t[Probe(n, k)].name = n /\ t[Probe(n, k)].mos = mos)}))
Enter(t, i, n, mos, level) ==
    IF t[i].name # "" THEN t ELSE [t EXCEPT ![i] = [Free EXCEPT !.name = n, !.mos = mos, !.hblklev = level]]
Entered(t, n, mos, level) == Enter(t, lookup(t, n, mos), n, mos, level)

pushdecl(t, i, level) ==
    [t EXCEPT ![i] = [t[i] EXCEPT !.d = Undeclared, !.hblklev = level,
                                  !.hpdown = <<[d |-> t[i].d, hblklev |-> t[i].hblklev]>> \o t[i].hpdown]]
Popped(t, i) ==
    [t EXCEPT ![i] = [t[i] EXCEPT !.d = t[i].hpdown[1].d, !.hblklev = t[i].hpdown[1].hblklev, !.hpdown = Tail(t[i].hpdown)]]
NewScope(t, i, level) == IF t[i].hblklev < level THEN pushdecl(t, i, level) ELSE t
Set(t, n, mos, d) == [t EXCEPT ![lookup(t, n, mos)].d = d]

Agrees(old, new) ==
    \/ old.hclass = ""
    \/ new.hclass \in {"ARG", "AREG"} /\ old.hclass = "ARG1"
    \/ new.hclass \in {"EXTERN", "MOS"} /\ old.hclass = new.hclass /\ old.htype = new.htype
SetIfAgrees(t, i, d) == IF Agrees(t[i].d, d) THEN [t EXCEPT ![i].d = d] ELSE t
decl1(t, n, mos, d) ==
    LET i == lookup(t, n, mos) IN SetIfAgrees(NewScope(Enter(t, i, n, mos, blklev), i, blklev), i, d)
\* The old declaration is the same block's, and another.
RedeclaredAt(t, i, d) == t[i].name # "" /\ t[i].hblklev >= blklev /\ ~Agrees(t[i].d, d)
Redeclared(t, n, mos, d) == RedeclaredAt(t, lookup(t, n, mos), d)

\* blkend's visit to one slot: deleted, popped, kept, or rehashed and kept.
Kept(s, level) == (s.d.hclass = "EXTERN" /\ level = 0) \/ (s.d.lab /\ level # 0)
\* Mutant: a kept name stays where it is.
RehashedNot(t, i, level) == [t EXCEPT ![i].hblklev = IF @ > 1 \/ t[i].d.hclass = "EXTERN" THEN @ - 1 ELSE @]
Rehashed(t, i, level) ==
    [t EXCEPT ![i] = Free,
              ![lookup(t, t[i].name, t[i].mos)] =
                  [t[i] EXCEPT !.hblklev = IF @ > 1 \/ (@ > 0 /\ t[i].d.hclass = "EXTERN") THEN @ - 1 ELSE @]]
Visited(t, i, level) ==
    IF t[i].name = "" \/ t[i].hblklev <= level THEN t
    ELSE IF Kept(t[i], level) THEN Rehashed(t, i, level)
    ELSE IF t[i].hpdown = <<>> THEN [t EXCEPT ![i] = Free]
    ELSE Popped(t, i)
\* The slot the sweep starts from, so that a run of collisions is met from its head.
endcs(t) ==
    IF \E i \in Slots : t[i].name = "" THEN CHOOSE i \in Slots : t[i].name = "" /\ \A j \in 0..(i - 1) : t[j].name # ""
    ELSE HSHSIZ - 1
Swept(t0, level) ==
    LET after[k \in 0..HSHSIZ] == IF k = 0 THEN t0 ELSE Visited(after[k - 1], (endcs(t0) + k - 1) % HSHSIZ, level) IN
    after
blkend(t, level) == Swept(t, level)[HSHSIZ]

hshused(t) == Cardinality({i \in Slots : t[i].name # ""})

---------------------------------------------------------------------------
(* The same, as C has it: a stack of scopes.                               *)

Innermost(n, mos) == Max({l \in 0..blklev : scopes[l][<<n, mos>>] # Undeclared} \cup {-1})
Meaning(n, mos) == IF Innermost(n, mos) = -1 THEN Undeclared ELSE scopes[Innermost(n, mos)][<<n, mos>>]
Declares(l, n, mos, d) == scopes' = [scopes EXCEPT ![l][<<n, mos>>] = d]
DeclaresHere(n, mos, d) == IF Agrees(scopes[blklev][<<n, mos>>], d) THEN Declares(blklev, n, mos, d) ELSE UNCHANGED scopes
Nothing == [k \in Keys |-> Undeclared]
ScopeEnds ==
    LET gone == scopes[blklev]
        stays(d) == IF blklev = 1 THEN d.hclass = "EXTERN" ELSE d.lab IN
    scopes' = [scopes EXCEPT ![blklev] = Nothing,
                             ![blklev - 1] = [k \in Keys |-> IF stays(gone[k]) THEN gone[k] ELSE @[k]]]

---------------------------------------------------------------------------
Init ==
    /\ hshtab = [i \in Slots |-> Free]
    /\ blklev = 0 /\ autolen = 0 /\ maxauto = 0 /\ regvar = 0 /\ isn = 1
    /\ where = "ext" /\ defsym = "" /\ paraml = <<>> /\ saved = <<>> /\ nread = 0
    /\ scopes = [l \in 0..MaxDepth |-> Nothing] /\ stray = FALSE

\* Every handler reads one name: the table it leaves, unless that name was one too many.
Reads(t) ==
    /\ nread < MaxEvents
    /\ nread' = nread + 1
    /\ hshused(t) < HSHSIZ
    /\ hshtab' = t
\* error("Symbol table overflow"); exit(1).
Overflow(n, mos) ==
    /\ where # "exit" /\ nread < MaxEvents
    /\ hshused(Entered(hshtab, n, mos, blklev)) >= HSHSIZ
    /\ where' = "exit"
    /\ hshtab' = [i \in Slots |-> Free] /\ scopes' = [l \in 0..MaxDepth |-> Nothing]
    /\ blklev' = 0 /\ autolen' = 0 /\ maxauto' = 0 /\ regvar' = 0 /\ isn' = 0 /\ defsym' = "" /\ paraml' = <<>> /\ saved' = <<>> /\ nread' = 0
    /\ stray' = FALSE

D(class, type, offset) == [hclass |-> class, lab |-> FALSE, htype |-> type, hoffset |-> offset]

extdef(n, class, type) ==
    LET d == D(class, type, 0) IN
    /\ where = "ext"
    /\ Reads(decl1(hshtab, n, FALSE, d))
    /\ DeclaresHere(n, FALSE, d)
    /\ UNCHANGED <<blklev, autolen, maxauto, regvar, isn, where, defsym, paraml, saved, stray>>

\* A declarator with parameters: getype enters its name, which is not declared yet,
\* and declares theirs at level 1.
Function(n) ==
    /\ where = "ext"
    /\ Reads(Entered(hshtab, n, FALSE, blklev))
    /\ where' = "params" /\ blklev' = blklev + 1 /\ defsym' = n /\ paraml' = <<>>
    /\ UNCHANGED <<autolen, maxauto, regvar, isn, saved, scopes, stray>>
Parameter(n) ==
    LET d == D("ARG1", "int", 0) IN
    /\ where = "params"
    /\ Reads(decl1(hshtab, n, FALSE, d))
    /\ paraml' = IF Redeclared(hshtab, n, FALSE, d) THEN paraml ELSE Append(paraml, n)
    /\ DeclaresHere(n, FALSE, d)
    /\ UNCHANGED <<blklev, autolen, maxauto, regvar, isn, where, defsym, saved, stray>>
\* Back at level 0, decl1 declares the name, or reports that it is another's: a
\* file's, or a parameter's.
Declarator(d) ==
    /\ where = "params"
    /\ hshtab' = SetIfAgrees(hshtab, lookup(hshtab, defsym, FALSE), d)
    /\ IF Agrees(scopes[0][<<defsym, FALSE>>], d) THEN Declares(0, defsym, FALSE, d) ELSE UNCHANGED scopes
\* A body follows what was declared a function.
cfunc ==
    /\ Declarator(D("EXTERN", "fn", 0))
    /\ hshtab'[lookup(hshtab, defsym, FALSE)].d.htype = "fn"
    /\ where' = "args" /\ isn' = isn + 3 /\ regvar' = 5 /\ autolen' = STAUTO /\ maxauto' = STAUTO
    /\ UNCHANGED <<blklev, defsym, paraml, saved, nread, stray>>
\* None does, and the parameters stay at level 1 though the file goes on at level 0.
NoBody(class, type) ==
    /\ Declarator(D(class, type, 0))
    /\ where' = "ext" /\ blklev' = blklev - 1 /\ stray' = (stray \/ paraml # <<>>)
    /\ UNCHANGED <<autolen, maxauto, regvar, isn, defsym, paraml, saved, nread>>
Argument(n, class, type) ==
    LET d == D(class, type, 0) IN
    /\ where = "args"
    /\ Reads(decl1(hshtab, n, FALSE, d))
    /\ DeclaresHere(n, FALSE, d)
    /\ UNCHANGED <<blklev, autolen, maxauto, regvar, isn, where, defsym, paraml, saved, stray>>

\* goodreg: the next register, or none.
Suits(type) == type \in {"int", "char"} /\ regvar >= 3
\* funchead's walk over the parameters: where each is, and the registers left.
Arg(k) == hshtab[lookup(hshtab, paraml[k], FALSE)].d
ArgAt[k \in 0..Len(paraml)] == IF k = 0 THEN STARG ELSE ArgAt[k - 1] + rlength(Arg(k).htype)
ArgRegs[k \in 0..Len(paraml)] ==
    IF k = 0 THEN regvar
    ELSE IF Arg(k).hclass = "AREG" /\ Arg(k).htype \in {"int", "char"} /\ ArgRegs[k - 1] >= 3 THEN ArgRegs[k - 1] - 1
    ELSE ArgRegs[k - 1]
Place(k) == IF ArgRegs[k] < ArgRegs[k - 1] THEN D("REG", Arg(k).htype, ArgRegs[k]) ELSE D("AUTO", Arg(k).htype, ArgAt[k - 1])
Placed[k \in 0..Len(paraml)] == IF k = 0 THEN hshtab ELSE Set(Placed[k - 1], paraml[k], FALSE, Place(k))
\* C's scope of the first k parameters placed.
ArgKey(k) == <<paraml[k], FALSE>>
ArgScope(k) ==
    [key \in Keys |-> IF \E m \in 1..k : key = ArgKey(m) THEN Place(CHOOSE m \in 1..k : key = ArgKey(m)) ELSE scopes[1][key]]
funchead ==
    /\ where = "args"
    /\ hshtab' = Placed[Len(paraml)]
    /\ scopes' = [scopes EXCEPT ![1] = ArgScope(Len(paraml))]
    /\ regvar' = ArgRegs[Len(paraml)]
    /\ where' = "body" /\ saved' = <<[autolen |-> autolen, regvar |-> regvar']>>
    /\ UNCHANGED <<blklev, autolen, maxauto, isn, defsym, paraml, nread, stray>>

\* A declaration in a block, with its storage.
Declaration(n, skw, type) ==
    LET class == IF type = "fn" THEN "EXTERN" ELSE IF skw = "REG" /\ ~Suits(type) THEN "AUTO" ELSE skw
        d == D(class, type, CASE class = "AUTO" -> autolen - rlength(type) [] class = "STATIC" -> isn
                              [] class = "REG" -> regvar - 1 [] OTHER -> 0)
        ok == ~Redeclared(hshtab, n, FALSE, d) IN
    /\ where = "body"
    /\ Reads(decl1(hshtab, n, FALSE, d))
    /\ DeclaresHere(n, FALSE, d)
    /\ autolen' = IF ok /\ class = "AUTO" THEN autolen - rlength(type) ELSE autolen
    /\ maxauto' = IF autolen' < maxauto THEN autolen' ELSE maxauto
    /\ regvar' = IF ok /\ class = "REG" THEN regvar - 1 ELSE regvar
    /\ isn' = IF ok /\ class = "STATIC" THEN isn + 1 ELSE isn
    /\ UNCHANGED <<blklev, where, defsym, paraml, saved, stray>>

\* struct n, struct n { (then a member).
SetIfNew(t, i, d) == IF t[i].d.hclass = "" THEN [t EXCEPT ![i].d = d] ELSE t
strdec(n, brace) ==
    LET i == lookup(hshtab, n, TRUE)
        t == Enter(hshtab, i, n, TRUE, blklev)
        tag == D("STRTAG", "int", 0)
        new == IF brace THEN scopes[blklev][<<n, TRUE>>] ELSE Meaning(n, TRUE) IN
    /\ where = "body"
    /\ Reads(SetIfNew(IF brace THEN NewScope(t, i, blklev) ELSE t, i, tag))
    /\ IF new = Undeclared THEN Declares(blklev, n, TRUE, tag) ELSE UNCHANGED scopes
    /\ where' = IF brace THEN "members" ELSE where
    /\ UNCHANGED <<blklev, autolen, maxauto, regvar, isn, defsym, paraml, saved, stray>>
Member(n) ==
    LET d == D("MOS", "int", 0) IN
    /\ where = "members"
    /\ Reads(decl1(hshtab, n, TRUE, d))
    /\ DeclaresHere(n, TRUE, d)
    /\ where' = "body"
    /\ UNCHANGED <<blklev, autolen, maxauto, regvar, isn, defsym, paraml, saved, stray>>

\* A name in an expression, a call's when `(' follows.
SetIfUnseen(t, i, d) == IF t[i].d.hclass = "" /\ t[i].d.htype = "int" THEN [t EXCEPT ![i].d = d] ELSE t
Mention(n, called) ==
    LET i == lookup(hshtab, n, FALSE)
        d == IF called THEN D("EXTERN", "fn", 0) ELSE D("STATIC", "int", 0) IN
    /\ where = "body"
    /\ Reads(SetIfUnseen(Enter(hshtab, i, n, FALSE, blklev), i, d))
    /\ IF Meaning(n, FALSE) = Undeclared THEN Declares(blklev, n, FALSE, d) ELSE UNCHANGED scopes
    /\ UNCHANGED <<blklev, autolen, maxauto, regvar, isn, where, defsym, paraml, saved, stray>>

Pending(off) == [hclass |-> "", lab |-> TRUE, htype |-> "label", hoffset |-> off]
\* A label is the function's: what C has for it, above the file's level.
HasLocal(n) == Innermost(n, FALSE) > 0
\* The slot's declaration is pushed down when it is the file's.
PushFiles(t, i) == IF t[i].hblklev = 0 THEN pushdecl(t, i, blklev) ELSE t
Goto(u, i, n) ==
    /\ Reads(IF u[i].d = Undeclared THEN [u EXCEPT ![i].d = Pending(isn)] ELSE u)
    /\ isn' = IF u[i].d = Undeclared THEN isn + 1 ELSE isn
simplegoto(n) ==
    LET i == lookup(hshtab, n, FALSE) IN
    /\ where = "body"
    /\ Goto(PushFiles(Enter(hshtab, i, n, FALSE, blklev), i), i, n)
    /\ IF HasLocal(n) THEN UNCHANGED scopes ELSE Declares(blklev, n, FALSE, Pending(isn))
    /\ UNCHANGED <<blklev, autolen, maxauto, regvar, where, defsym, paraml, saved, stray>>
LabelIs(u, i, n, off) ==
    /\ Reads(IF u[i].d.hclass = "" THEN [u EXCEPT ![i].d = [Pending(off) EXCEPT !.hclass = "STATIC"]] ELSE u)
    /\ isn' = IF u[i].d.hclass = "" /\ off = isn THEN isn + 1 ELSE isn
    /\ IF HasLocal(n) /\ Meaning(n, FALSE).hclass # "" THEN UNCHANGED scopes
       ELSE Declares(IF HasLocal(n) THEN Innermost(n, FALSE) ELSE blklev, n, FALSE, [Pending(off) EXCEPT !.hclass = "STATIC"])
LabelAt(u, i, n) == LabelIs(u, i, n, IF u[i].d.hoffset = 0 THEN isn ELSE u[i].d.hoffset)
Labelled(n) ==
    LET i == lookup(hshtab, n, FALSE)
        t == Enter(hshtab, i, n, FALSE, blklev) IN
    /\ where = "body"
    /\ LabelAt(IF t[i].d.hclass # "" THEN PushFiles(t, i) ELSE t, i, n)
    /\ UNCHANGED <<blklev, autolen, maxauto, regvar, where, defsym, paraml, saved, stray>>

blockhead ==
    /\ where = "body" /\ blklev < MaxDepth /\ nread < MaxEvents
    /\ saved' = Append(saved, [autolen |-> autolen, regvar |-> regvar])
    /\ blklev' = blklev + 1
    /\ UNCHANGED <<hshtab, autolen, maxauto, regvar, isn, where, defsym, paraml, nread, scopes, stray>>
BlockEnds ==
    LET last == saved[Len(saved)] IN
    /\ where = "body"
    /\ autolen' = last.autolen /\ regvar' = last.regvar /\ saved' = SubSeq(saved, 1, Len(saved) - 1)
    /\ blklev' = blklev - 1
    /\ hshtab' = blkend(hshtab, blklev')
    /\ ScopeEnds
    /\ where' = IF blklev' = 0 THEN "ext" ELSE where
    /\ UNCHANGED <<maxauto, isn, defsym, paraml, nread, stray>>

Next ==
    \/ \E n \in Names, mos \in BOOLEAN : Overflow(n, mos)
    \/ \E n \in Names, class \in {"EXTERN", "TYPEDEF"} : extdef(n, class, "int")
    \/ \E n \in Names : Function(n) \/ Parameter(n) \/ Member(n) \/ simplegoto(n) \/ Labelled(n)
    \/ cfunc \/ funchead \/ blockhead \/ BlockEnds
    \/ \E class \in {"EXTERN", "TYPEDEF"}, type \in {"int", "fn"} : NoBody(class, type)
    \/ \E n \in Names, class \in {"ARG", "AREG"}, type \in {"int", "double"} : Argument(n, class, type)
    \/ \E n \in Names, kind \in Kinds : Declaration(n, kind[1], kind[2])
    \/ \E n \in Names, b \in BOOLEAN : strdec(n, b) \/ Mention(n, b)

Spec == Init /\ [][Next]_vars

---------------------------------------------------------------------------
(* Every name, member and tag means what the innermost scope that declares *)
(* it says, a label what its function says, whatever collided with it in   *)
(* the table and whatever blkend deleted, popped or moved since.           *)
Resolves ==
    \A n \in Names, mos \in BOOLEAN :
        hshtab[lookup(hshtab, n, mos)].d = Meaning(n, mos)

(* The declarations in force, the hidden ones included, share no word of   *)
(* the frame, no register and no label, and the frame reserved covers them.*)
InForce == UNION {{<<hshtab[i].name, hshtab[i].hblklev, hshtab[i].d>>} \cup
                  {<<hshtab[i].name, hshtab[i].hpdown[k].hblklev, hshtab[i].hpdown[k].d>> : k \in DOMAIN hshtab[i].hpdown} : i \in Slots}
Span(d) == d.hoffset..(d.hoffset + rlength(d.htype) - 1)
StorageApart ==
    \A x, y \in {z \in InForce : z[2] > 0 /\ z[3].hoffset # 0} :
        /\ x[3].hclass = "AUTO" => \A w \in Span(x[3]) : w >= maxauto
        /\ x # y /\ (x[3].hclass = y[3].hclass \/ (x[3].lab /\ y[3].lab)) =>
            IF x[3].hclass = "AUTO" THEN Span(x[3]) \cap Span(y[3]) = {} ELSE x[3].hoffset # y[3].hoffset

(* Both, after every declarator, mention and end of a block, but in a file *)
(* one of whose declarators names parameters and has no body: int f(a);, a *)
(* pointer to such a function, or f(f), which is redeclared.  They stay at *)
(* level 1 until the next function ends, hiding what the file declares and *)
(* in the way of its names' probes.                                        *)
DeclarationsHold == ~stray => Resolves /\ StorageApart
=============================================================================
