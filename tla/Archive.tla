------------------------------ MODULE Archive ------------------------------
(***************************************************************************)
(* pdp11-ar and pdp11-ranlib (src/pdp11-ar/ar.c, src/pdp11-ranlib/        *)
(* ranlib.c) on one archive, and when pdp11-ld believes the table of       *)
(* contents (getfile of src/pdp11-ld/ld.c).  A member is [n, v, date]: its *)
(* name, which version of the file it holds, its date; the table is the    *)
(* member SYMDEF, whose v is the entries.  ar copies the archive through   *)
(* temporary files, member by member, and then over itself.                *)
(***************************************************************************)
EXTENDS Integers, Sequences, SequencesExt, FiniteSets

CONSTANTS
    Files,      \* names of object files, each defining a symbol of its name
    MaxVersion, \* edits of a file
    MaxMembers, \* members of the archive
    MaxRuns     \* runs of ar and ranlib, and edits

SYMDEF == "__.SYMDEF"
FarFuture == 1000   \* the largest date there is
ASSUME ArchiveAssumption == SYMDEF \notin Files /\ MaxRuns \in Nat /\ MaxRuns < FarFuture

\* A temporary file, once it is there, holds a sequence of members.  Stdin is the
\* standard input, taken to be empty and not to be written: tf1 is that, being 0,
\* when the second file cannot be created.
Nothing == <<>>
File(s) == <<s>>
Stdin == <<<<>>, <<>>>>
Held(t) == IF t = Nothing THEN <<>> ELSE t[1]

\* Of the elements of s those in S, in their order; F of every element.
Those(s, S) ==
    LET upto[k \in 0..Len(s)] == IF k = 0 THEN <<>> ELSE IF s[k] \in S THEN Append(upto[k - 1], s[k]) ELSE upto[k - 1]
    IN upto[Len(s)]
Each(F, s) == [k \in DOMAIN s |-> F[s[k]]]

VARIABLES
    dir,        \* what is in the directory: [Files -> version], 0 for no such file
    archive,    \* members, or <<>>: what is in the file now
    magic,      \* whether it begins with the number of archives
    mtime,      \* and when it was written
    now,        \* the time
    pc,         \* "idle", "init", "open", "third", "scan", "second", "install",
                \* "copy"
    cmd,        \* [op, names, pos, where, u]: what ar was asked
    af,         \* the members ar reads
    i,          \* the next of them
    names,      \* the names not yet found
    bastate,    \* 1 position not found yet, 2 it was the last member, 0 past it
    tf, tf1, tf2, \* the temporary files, or Nothing
    disk,       \* those of this run that exist: "tf", "tf1", "tf2"
    recorded    \* those whose name is in tfnam, tf1nam, tf2nam

vars == <<dir, archive, magic, mtime, now, pc, cmd, af, i, names, bastate, tf, tf1, tf2, disk, recorded>>
temps == <<tf, tf1, tf2>>
tempnames == <<disk, recorded>>
world == <<dir, archive, magic, mtime, now>>

NoCmd == [op |-> "none", names |-> <<>>, pos |-> "", where |-> "", u |-> FALSE]

Init ==
    /\ dir = [f \in Files |-> 1] /\ archive = <<>> /\ magic = TRUE /\ mtime = 0 /\ now = 1
    /\ pc = "idle" /\ cmd = NoCmd /\ af = <<>> /\ i = 1 /\ names = <<>> /\ bastate = 0
    /\ tf = Nothing /\ tf1 = Nothing /\ tf2 = Nothing
    /\ disk = {} /\ recorded = {}

---------------------------------------------------------------------------
(* The table.                                                              *)

\* A member is a header and what it holds.
SizeOf(m) == IF m.n = SYMDEF THEN 1 + Len(m.v) ELSE 1 + m.v
Offset(a, k) == LET before[j \in 0..Len(a)] == IF j = 0 THEN 0 ELSE before[j - 1] + SizeOf(a[j]) IN before[k - 1]
Objects(a) == Those([k \in DOMAIN a |-> k], {k \in DOMAIN a : a[k].n # SYMDEF})
HasTable(a) == a # <<>> /\ a[1].n = SYMDEF

\* ranlib: every symbol with the offset its member will have once the table is
\* in front; offdelta allows for an old table there.
offdelta(a, tnum) == 1 + tnum - (IF HasTable(a) THEN SizeOf(a[1]) ELSE 0)
stash(a) == LET t == Objects(a) IN Each([k \in DOMAIN a |-> [n |-> a[k].n, off |-> Offset(a, k) + offdelta(a, Len(t))]], t)

\* ld looks at the table if its date is not before the file's.
LdUsesTable == HasTable(archive) /\ mtime <= archive[1].date
MemberAt(a, off) == {k \in DOMAIN a : Offset(a, k) = off}

---------------------------------------------------------------------------
(* A run of ar.                                                            *)

Member(f, v) == [n |-> f, v |-> v, date |-> v]
Write(a) == archive' = a /\ mtime' = now

\* The arguments a run may be given: no name twice, a position that need not exist.
NameLists == {s \in UNION {[1..k -> Files] : k \in 0..2} : IsInjective(s)}
Places == {[pos |-> "", where |-> ""]} \union [pos : Files, where : {"a", "b"}]
Commands == {[op |-> o, names |-> n, pos |-> p.pos, where |-> p.where, u |-> u] :
                o \in {"r", "d", "m"}, n \in NameLists, p \in Places, u \in BOOLEAN}

\* init: the first file is made; only then is its name where done() looks for it.
\* d and m need an archive; a position means nothing to d.
Begin(c, a) ==
    /\ pc' = "init" /\ cmd' = c /\ af' = a /\ i' = 1 /\ names' = c.names
    /\ bastate' = IF c.pos # "" THEN 1 ELSE 0
    /\ tf' = File(<<>>) /\ tf1' = Nothing /\ tf2' = Nothing
    /\ disk' = {"tf"} /\ recorded' = {}
Ar(c) ==
    /\ pc = "idle" /\ now <= MaxRuns /\ magic
    /\ c.u => c.op = "r"
    /\ c.op = "d" => c.pos = ""
    /\ c.op = "r" => Len(archive) + Len(c.names) <= MaxMembers
    /\ c.op # "r" => archive # <<>>
    /\ now' = now + 1
    /\ Begin(c, archive)
    /\ UNCHANGED <<dir, archive, magic, mtime>>

\* The name is recorded.  m then makes its third file, and records that.
Record(f) == recorded' = recorded \cup {f} /\ UNCHANGED disk
Create(f) == disk' = disk \cup {f} /\ UNCHANGED recorded
InitNamed ==
    /\ pc = "init" /\ Record("tf") /\ pc' = IF cmd.op = "m" THEN "open" ELSE "scan"
    /\ UNCHANGED <<world, cmd, af, i, names, bastate, temps>>
ThirdMade ==
    /\ pc = "open" /\ Create("tf2") /\ tf2' = File(<<>>) /\ pc' = "third"
    /\ UNCHANGED <<world, cmd, af, i, names, bastate, tf, tf1>>
ThirdNamed ==
    /\ pc = "third" /\ Record("tf2") /\ pc' = "scan"
    /\ UNCHANGED <<world, cmd, af, i, names, bastate, temps>>

\* bamatch: from the position on, members go to a second file.  It is made, then
\* its name recorded and the two files swapped; if it cannot be made, its name is
\* recorded all the same, and tf1 stays what it was, 0.
Swaps(m) == bastate = 2 \/ (bastate = 1 /\ m.n = cmd.pos /\ cmd.where = "b")
Reading == pc = "scan" /\ i <= Len(af)
SecondMade ==
    /\ Reading /\ Swaps(af[i])
    /\ Create("tf1") /\ bastate' = 0 /\ pc' = "second"
    /\ UNCHANGED <<world, cmd, af, i, names, temps>>
SecondNamed ==
    /\ pc = "second" /\ Record("tf1") /\ tf1' = tf /\ tf' = File(<<>>) /\ pc' = "scan"
    /\ UNCHANGED <<world, cmd, af, i, names, bastate, tf2>>
SecondFails ==
    /\ Reading /\ Swaps(af[i])
    /\ Record("tf1") /\ bastate' = 0 /\ tf1' = Stdin
    /\ UNCHANGED <<world, pc, cmd, af, i, names, tf, tf2>>
bamatch(m) ==
    /\ ~Swaps(m)
    /\ bastate' = IF bastate = 1 /\ m.n = cmd.pos /\ cmd.where = "a" THEN 2 ELSE bastate

Matches(m) == m.n \in Range(names)
Older(m) == m.date < dir[m.n]
Replacing(m) == (cmd.names = <<>> \/ Matches(m)) /\ m.n \in Files /\ dir[m.n] # 0 /\ (cmd.u => Older(m))
Strike(m) == names' = Those(names, Files \ {m.n})

NextMember == Reading /\ i' = i + 1 /\ UNCHANGED <<world, pc, cmd, af, tf1, tempnames>>
ReplaceOne ==
    /\ NextMember /\ cmd.op = "r" /\ Strike(af[i]) /\ bamatch(af[i])
    /\ tf' = File(Append(Held(tf), IF Replacing(af[i]) THEN Member(af[i].n, dir[af[i].n]) ELSE af[i]))
    /\ UNCHANGED tf2
DeleteOne ==
    /\ NextMember /\ cmd.op = "d" /\ Strike(af[i])
    /\ tf' = IF Matches(af[i]) THEN tf ELSE File(Append(Held(tf), af[i]))
    /\ UNCHANGED <<bastate, tf2>>
MoveOne ==
    /\ NextMember /\ cmd.op = "m" /\ Strike(af[i]) /\ bamatch(af[i])
    /\ tf' = IF Matches(af[i]) THEN tf ELSE File(Append(Held(tf), af[i]))
    /\ tf2' = IF Matches(af[i]) THEN File(Append(Held(tf2), af[i])) ELSE tf2

\* The end of the archive: back to the first file, where r puts what is new.
There == {f \in Files : dir[f] # 0}
Members(n) == Each([f \in Files |-> Member(f, dir[f])], Those(n, There))
Adding == IF cmd.op = "r" THEN Members(names) ELSE <<>>
cleanup ==
    /\ pc = "scan" /\ i > Len(af)
    /\ LET first == IF tf1 = Nothing THEN tf ELSE tf1
       IN /\ first = Stdin => Adding = <<>>
          /\ tf' = IF first = Stdin THEN Stdin ELSE File(Held(first) \o Adding)
    /\ tf1' = IF tf1 = Nothing THEN Nothing ELSE tf
    /\ names' = IF cmd.op = "r" THEN <<>> ELSE names
    /\ pc' = "install"
    /\ UNCHANGED <<world, cmd, af, i, bastate, tf2, tempnames>>

\* done: what is recorded is unlinked.
doneWithTf2 ==
    /\ pc' = "idle" /\ tf' = Nothing /\ tf1' = Nothing /\ tf2' = Nothing
    /\ disk' = disk \ (recorded \ {"tf2"}) /\ recorded' = {}
    /\ cmd' = NoCmd /\ af' = <<>> /\ i' = 1 /\ names' = <<>> /\ bastate' = 0
done ==
    /\ pc' = "idle" /\ tf' = Nothing /\ tf1' = Nothing /\ tf2' = Nothing
    /\ disk' = disk \ recorded /\ recorded' = {}
    /\ cmd' = NoCmd /\ af' = <<>> /\ i' = 1 /\ names' = <<>> /\ bastate' = 0

\* install: signals are ignored, the archive is emptied, the files follow.  The
\* number of archives is in the file that was made first.
Truncate ==
    /\ pc = "install" /\ Write(<<>>) /\ pc' = "copy"
    /\ UNCHANGED <<dir, magic, now, cmd, af, i, names, bastate, temps, tempnames>>
installSwapped(a, b, c) == Held(a) \o Held(c) \o Held(b)
install(a, b, c) == Held(a) \o Held(b) \o Held(c)
CopyBack ==
    /\ pc = "copy" /\ Write(install(tf, tf2, tf1)) /\ done
    /\ magic' = (tf = Stdin => Held(tf2) = <<>>)
    /\ UNCHANGED <<dir, now>>
\* sigdone, while signals are caught.  Errors before the archive is emptied end the
\* run in the same way: a file that cannot be created, or written (wrerr).
Working == {"init", "open", "third", "scan", "second", "install"}
Interrupt ==
    /\ pc \in Working /\ done /\ UNCHANGED world

\* q: the new members are written behind the old ones, in place, and what
\* cannot be opened is passed over.
Quick(n) ==
    /\ pc = "idle" /\ now <= MaxRuns /\ magic /\ Len(archive) + Len(n) <= MaxMembers
    /\ Write(archive \o Members(n))
    /\ now' = now + 1
    /\ UNCHANGED <<dir, magic, pc, cmd, af, i, names, bastate, temps, tempnames>>

\* ranlib: an ar of its own puts the table before the first member, or over an
\* old one wherever that is; then fixdate() dates whatever member is first.
RanlibMember == [n |-> SYMDEF, v |-> stash(archive), date |-> now]
WithTable(a) ==
    LET old == {k \in DOMAIN a : a[k].n = SYMDEF}
    IN IF old = {} THEN <<RanlibMember>> \o a ELSE [a EXCEPT ![CHOOSE k \in old : \A j \in old : k <= j] = RanlibMember]
fixdate(a) == [a EXCEPT ![1].date = FarFuture]
Ranlib ==
    /\ pc = "idle" /\ archive # <<>> /\ now <= MaxRuns /\ magic /\ Len(archive) < MaxMembers
    /\ Write(fixdate(WithTable(archive)))
    /\ now' = now + 1
    /\ UNCHANGED <<dir, magic, pc, cmd, af, i, names, bastate, temps, tempnames>>

\* Somebody edits or removes a file.
EditFile(f) ==
    /\ pc = "idle" /\ dir[f] < MaxVersion /\ now <= MaxRuns
    /\ dir' = [dir EXCEPT ![f] = @ + 1] /\ now' = now + 1
    /\ UNCHANGED <<archive, magic, mtime, pc, cmd, af, i, names, bastate, temps, tempnames>>
RemoveFile(f) ==
    /\ pc = "idle" /\ dir[f] # 0 /\ now <= MaxRuns
    /\ dir' = [dir EXCEPT ![f] = 0] /\ now' = now + 1
    /\ UNCHANGED <<archive, magic, mtime, pc, cmd, af, i, names, bastate, temps, tempnames>>

Next ==
    \/ \E c \in Commands : Ar(c)
    \/ InitNamed \/ ThirdMade \/ ThirdNamed \/ SecondMade \/ SecondNamed \/ SecondFails
    \/ ReplaceOne \/ DeleteOne \/ MoveOne \/ cleanup \/ Truncate \/ CopyBack \/ Interrupt
    \/ \E n \in NameLists : Quick(n)
    \/ Ranlib
    \/ \E f \in Files : EditFile(f) \/ RemoveFile(f)
Spec == Init /\ [][Next]_vars

---------------------------------------------------------------------------
(* Properties.                                                             *)

\* What a run is asked for, without temporary files.  A name stands for the
\* first member that has it; new members go to the position, or to the end.
Named(k) == af[k].n \in Range(cmd.names) /\ \A j \in 1..(k - 1) : af[j].n # af[k].n
Fresh(m, named) == IF m.n \in Files /\ (named \/ cmd.names = <<>>) /\ dir[m.n] # 0 /\ (cmd.u => m.date < dir[m.n])
                   THEN Member(m.n, dir[m.n]) ELSE m
Result(k) == IF cmd.op = "r" THEN Fresh(af[k], Named(k)) ELSE af[k]
Kept == {k \in DOMAIN af : cmd.op = "r" \/ ~Named(k)}
InOrder(S) == Those([k \in DOMAIN af |-> k], S)
Contents(S) == Each([k \in DOMAIN af |-> Result(k)], InOrder(S))
Added ==
    IF cmd.op = "r" THEN Members(Those(cmd.names, {n \in Files : \A k \in DOMAIN af : af[k].n # n}))
    ELSE IF cmd.op = "m" THEN Each(af, InOrder({k \in DOMAIN af : Named(k)})) ELSE <<>>
Position == LET at == {k \in DOMAIN af : cmd.pos # "" /\ af[k].n = cmd.pos}
            IN IF at = {} THEN Len(af) ELSE LET k == CHOOSE x \in at : \A y \in at : x <= y IN IF cmd.where = "b" THEN k - 1 ELSE k
Asked == Contents({k \in Kept : k <= Position}) \o Added \o Contents({k \in Kept : k > Position})

\* A finished run has made of the archive what it was asked for: members replaced
\* where they were, new and moved ones at the position in order, no other touched.
\* A run that could not create its second file is excepted: m then puts what moves
\* before the number of archives, and the archive is lost.
EditsAsAsked == [][CopyBack /\ tf # Stdin => archive' = Asked]_vars

\* Until the archive is written over, it is what it was, and a run that ends, by a
\* signal, an error or itself, leaves no temporary file, but one that mkstemp() has
\* just made and whose name is not recorded yet (docs/design.md:148-149 knows of no
\* such exception).
JustMade == IF pc = "init" THEN {"tf"} ELSE IF pc = "third" THEN {"tf2"} ELSE IF pc = "second" THEN {"tf1"} ELSE {}
InterruptedIntact ==
    /\ [](pc \in Working => archive = af)
    /\ [][pc # "idle" /\ pc' = "idle" => disk' = JustMade]_vars

\* Each entry of the table, if there is one, leads to the member that defines its
\* symbol.
TableRight(a) == HasTable(a) => \A e \in Range(a[1].v) : \E k \in MemberAt(a, e.off) : a[k].n = e.n

\* Right after ranlib ld uses the table and it leads to the members, whatever table
\* was there before.
TableLeads == [][Ranlib /\ HasTable(archive') => LdUsesTable' /\ TableRight(archive')]_vars

\* A table that leads to the members does so until ar r, d or m installs an archive:
\* q, an interrupted run, or a change to a file that is a member make none wrong.
TableLasts ==
    [][(pc \in Working \cup {"idle"}) /\ TableRight(archive) => TableRight(archive')]_vars

\* ar and ranlib: an archive that is installed is what the command asked for; the
\* table that ranlib writes leads to the members, and goes on to do so until ar r, d
\* or m.  After that it may not, and ld uses it nevertheless (its date is FarFuture),
\* where docs/user-guide.md:78-79 of ld promises a warning: nothing is claimed then.
ArchiveAsAsked == EditsAsAsked /\ TableLeads /\ TableLasts
============================================================================
