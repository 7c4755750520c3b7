------------------------- MODULE ApsimKernel_proofs -------------------------
(***************************************************************************)
(* Theorems about what apsim keeps for its guests: descriptors and         *)
(* directory snapshots, for any number of guests, descriptors, table       *)
(* entries and sizes; whom kill and wait4 reach, for any pids the host     *)
(* gives, any width of guest pids and any size of the table of them.       *)
(***************************************************************************)
EXTENDS ApsimProcess, ApsimFiles, SequenceTheorems, WellFoundedInduction, TLAPS

\* Least finds one: every set of naturals has a smallest member.
LEMMA LeastIsIn ==
    ASSUME NEW T \in SUBSET Nat, T # {}
    PROVE  Least(T) \in T
<1> DEFINE R == {ss \in Nat \X Nat : ss[1] < ss[2]}
<1>1. IsWellFoundedOn(R, Nat)
    BY NatLessThanWellFounded DEF OpToRel
<1>2. PICK x \in T : \A y \in T : <<y, x>> \notin R
    BY <1>1, WFMin, Zenon
<1>3. ASSUME NEW y \in T PROVE x <= y
    <2>1. x \in Nat /\ y \in Nat
        OBVIOUS
    <2>2. ~(y < x)
        BY <1>2, <2>1
    <2> QED BY <2>1, <2>2, SMT
<1>4. \E z \in T : \A y \in T : z <= y
    BY <1>3
<1> QED BY <1>4 DEF Least

---------------------------------------------------------------------------
(* The types, and what makes them and SlotsOwned inductive.                *)

Dirs == [fd : Fds \union {-1}, pos : Nat]
TypeOK ==
    /\ kern \in Kernels
    /\ alive \subseteq Guests
    /\ fds \in [Guests -> [Fds -> Descs \union {0}]]
    /\ desc \in [Descs -> [obj : {"none", "file", "dir"}, pos : Nat]]
    /\ gdirs \in [Guests -> [Slots -> Dirs]]

\* The First Edition layer, whose close drops no snapshot, has none, nor has
\* a guest that is not there.
HasNone == \A p \in Guests, i \in Slots : kern = "V1" \/ p \notin alive => gdirs[p][i].fd = -1

FilesInv == TypeOK /\ HasNone /\ SlotsOwned

\* A descriptor that is closed has no snapshot.
LEMMA ClosedHasNone ==
    ASSUME SlotsOwned, FilesAssumption, TypeOK, NEW p \in Guests, NEW f \in Fds, fds[p][f] = 0
    PROVE  dir_find(p, f) = {}
<1>1. ASSUME NEW i \in Slots, gdirs[p][i].fd = f PROVE FALSE
    <2>1. i \in Snapshots(p)
        BY <1>1 DEF Snapshots, FilesAssumption
    <2> QED BY <1>1, <2>1 DEF SlotsOwned
<1> QED BY <1>1 DEF dir_find

LEMMA InitFiles == FilesAssumption /\ FilesInit => FilesInv
<1> SUFFICES ASSUME FilesAssumption, FilesInit PROVE FilesInv
    OBVIOUS
<1>1. TypeOK
    BY DEF FilesInit, TypeOK, FilesAssumption, Dirs, NoDir, NoDesc
<1>2. HasNone
    BY DEF FilesInit, HasNone, NoDir
<1>3. SlotsOwned
    BY DEF FilesInit, SlotsOwned, Snapshots, NoDir
<1> QED BY <1>1, <1>2, <1>3 DEF FilesInv

\* Descriptions nobody has open are given back; the others stay.
LEMMA CollectedType ==
    ASSUME TypeOK, NEW open
    PROVE  Collected(open, desc) \in [Descs -> [obj : {"none", "file", "dir"}, pos : Nat]]
BY DEF Collected, TypeOK, NoDesc

LEMMA DirDropType ==
    ASSUME TypeOK, NEW p \in Guests, NEW f \in Fds
    PROVE  dir_drop(p, f) \in [Slots -> Dirs]
BY DEF dir_drop, TypeOK, Dirs, NoDir

\* dir_snapshot takes a slot nobody has, and the first of those, or none.
LEMMA SnapshotTakes ==
    ASSUME FilesAssumption, TypeOK, NEW p \in Guests, NEW f \in Fds
    PROVE  \/ dir_snapshot(p, f) = gdirs[p]
           \/ \E i \in Slots : /\ gdirs[p][i].fd = -1
                               /\ dir_snapshot(p, f) = [gdirs[p] EXCEPT ![i] = [fd |-> f, pos |-> 0]]
<1> DEFINE free == {i \in Slots : gdirs[p][i].fd = -1}
<1>1. CASE free = {}
    BY <1>1 DEF dir_snapshot
<1>2. CASE free # {}
    <2>1. free \subseteq Nat
        BY DEF Slots, FilesAssumption
    <2>2. Least(free) \in free
        BY <2>1, <1>2, LeastIsIn
    <2>3. dir_snapshot(p, f) = [gdirs[p] EXCEPT ![Least(free)] = [fd |-> f, pos |-> 0]]
        BY <1>2 DEF dir_snapshot
    <2> QED BY <2>2, <2>3
<1> QED BY <1>1, <1>2

---------------------------------------------------------------------------
(* Each action keeps the invariant.                                        *)

\* A descriptor keeps its snapshot's slot as long as no slot comes to say
\* another descriptor and no owner is closed: true of all actions but three.
LEMMA SlotsStayOwned ==
    ASSUME FilesAssumption, FilesInv, TypeOK',
           \A q \in Guests : \E p \in Guests :
               /\ \A i \in Slots : gdirs'[q][i].fd = gdirs[p][i].fd
               /\ \A f \in Fds : fds[p][f] # 0 => fds'[q][f] # 0
    PROVE  SlotsOwned'
<1> SUFFICES ASSUME NEW q \in Guests, NEW i \in Snapshots(q)'
             PROVE  /\ fds'[q][gdirs'[q][i].fd] # 0
                    /\ \A j \in Snapshots(q)' : gdirs'[q][i].fd = gdirs'[q][j].fd => i = j
    BY Zenon DEF SlotsOwned
<1>1. PICK p \in Guests : /\ \A k \in Slots : gdirs'[q][k].fd = gdirs[p][k].fd
                          /\ \A f \in Fds : fds[p][f] # 0 => fds'[q][f] # 0
    OBVIOUS
<1>2. Snapshots(q)' = Snapshots(p)
    BY <1>1 DEF Snapshots
<1>3. i \in Slots /\ gdirs'[q][i].fd = gdirs[p][i].fd /\ gdirs[p][i].fd \in Fds
    BY <1>1, <1>2 DEF Snapshots, FilesInv, TypeOK, Dirs
<1>4. fds[p][gdirs[p][i].fd] # 0 /\ \A j \in Snapshots(p) : gdirs[p][i].fd = gdirs[p][j].fd => i = j
    BY <1>2 DEF FilesInv, SlotsOwned
<1>5. \A j \in Snapshots(q)' : gdirs'[q][j].fd = gdirs[p][j].fd
    BY <1>1 DEF Snapshots
<1> QED BY <1>1, <1>2, <1>3, <1>4, <1>5

LEMMA ForkKeeps ==
    ASSUME FilesAssumption, FilesInv, NEW p \in Guests, NEW c \in Guests, ForkFiles(p, c)
    PROVE  FilesInv'
<1> USE DEF FilesInv
<1>1. TypeOK'
    BY DEF ForkFiles, TypeOK
<1>2. HasNone'
    BY DEF ForkFiles, HasNone, TypeOK
<1>3. SlotsOwned'
    <2>1. fds'[c] = fds[p] /\ gdirs'[c] = gdirs[p]
        BY DEF ForkFiles, TypeOK
    <2>2. ASSUME NEW q \in Guests, q # c PROVE fds'[q] = fds[q] /\ gdirs'[q] = gdirs[q]
        BY <2>2 DEF ForkFiles, TypeOK
    <2> QED BY <1>1, <2>1, <2>2, SlotsStayOwned
<1> QED BY <1>1, <1>2, <1>3

LEMMA ExitKeeps ==
    ASSUME FilesAssumption, FilesInv, NEW p \in Guests, ExitFiles(p)
    PROVE  FilesInv'
<1> USE DEF FilesInv
<1>0. gdirs'[p] = [i \in Slots |-> NoDir] /\ \A q \in Guests \ {p} : gdirs'[q] = gdirs[q] /\ fds'[q] = fds[q]
    BY DEF ExitFiles, TypeOK
<1>1. TypeOK'
    <2>1. desc' \in [Descs -> [obj : {"none", "file", "dir"}, pos : Nat]]
        BY CollectedType DEF ExitFiles
    <2>2. [i \in Slots |-> NoDir] \in [Slots -> Dirs]
        BY DEF NoDir, Dirs
    <2> QED BY <2>1, <2>2 DEF ExitFiles, TypeOK
<1>2. HasNone'
    BY <1>0 DEF ExitFiles, HasNone, NoDir
<1>3. SlotsOwned'
    <2> SUFFICES ASSUME NEW q \in Guests, NEW i \in Snapshots(q)'
                 PROVE  /\ fds'[q][gdirs'[q][i].fd] # 0
                        /\ \A j \in Snapshots(q)' : gdirs'[q][i].fd = gdirs'[q][j].fd => i = j
        BY Zenon DEF SlotsOwned
    <2>1. q # p
        BY <1>0 DEF Snapshots, NoDir
    <2>2. Snapshots(q)' = Snapshots(q)
        BY <1>0, <2>1 DEF Snapshots
    <2> QED BY <1>0, <2>1, <2>2 DEF SlotsOwned
<1> QED BY <1>1, <1>2, <1>3

LEMMA OpenKeeps ==
    ASSUME FilesAssumption, FilesInv, NEW p \in Guests, NEW obj \in {"file", "dir"}, Open(p, obj)
    PROVE  FilesInv'
<1> USE DEF FilesInv
<1> DEFINE f == Least(FreeFd(p))
           d == Least(FreeDesc)
<1>1. f \in Fds /\ fds[p][f] = 0
    <2>1. FreeFd(p) \in SUBSET Nat /\ FreeFd(p) # {}
        BY DEF FreeFd, FilesAssumption, Open
    <2> QED BY <2>1, LeastIsIn DEF FreeFd
<1>2. d \in Descs
    <2>1. FreeDesc \in SUBSET Nat /\ FreeDesc # {}
        BY DEF FreeDesc, FilesAssumption, Open
    <2> QED BY <2>1, LeastIsIn DEF FreeDesc
<1>3. /\ fds' = [fds EXCEPT ![p][f] = d]
      /\ desc' = [desc EXCEPT ![d] = [obj |-> obj, pos |-> 0]]
      /\ UNCHANGED <<kern, alive>>
    BY DEF Open
<1>4. dir_snapshot(p, f) \in [Slots -> Dirs]
    <2>1. gdirs[p] \in [Slots -> Dirs] /\ [fd |-> f, pos |-> 0] \in Dirs
        BY <1>1 DEF TypeOK, Dirs
    <2> QED BY <1>1, <2>1, SnapshotTakes
<1>5. gdirs' = [gdirs EXCEPT ![p] = IF obj = "dir" /\ kern # "V1" THEN dir_snapshot(p, f) ELSE @]
    BY DEF Open
<1>6. TypeOK'
    <2>1. fds' \in [Guests -> [Fds -> Descs \union {0}]]
        BY <1>1, <1>2, <1>3 DEF TypeOK
    <2>2. desc' \in [Descs -> [obj : {"none", "file", "dir"}, pos : Nat]]
        BY <1>2, <1>3 DEF TypeOK
    <2>3. gdirs' \in [Guests -> [Slots -> Dirs]]
        BY <1>4, <1>5 DEF TypeOK
    <2> QED BY <1>3, <2>1, <2>2, <2>3 DEF TypeOK
<1>7. HasNone'
    <2>1. p \in alive
        BY DEF Open
    <2>2. \A q \in Guests : q # p \/ kern = "V1" => gdirs'[q] = gdirs[q]
        BY <1>5 DEF TypeOK
    <2> QED BY <1>3, <2>1, <2>2 DEF HasNone
<1>8. SlotsOwned'
    <2>1. ASSUME NEW q \in Guests, NEW x \in Fds, fds[q][x] # 0 PROVE fds'[q][x] # 0
        BY <2>1, <1>1, <1>2, <1>3 DEF TypeOK, FilesAssumption
    <2>2. CASE \A q \in Guests : gdirs'[q] = gdirs[q]
        BY <1>6, <2>1, <2>2, SlotsStayOwned
    <2>3. CASE \E i \in Slots : /\ gdirs[p][i].fd = -1
                                /\ gdirs' = [gdirs EXCEPT ![p][i] = [fd |-> f, pos |-> 0]]
        <3>1. PICK i \in Slots : /\ gdirs[p][i].fd = -1
                                 /\ gdirs' = [gdirs EXCEPT ![p][i] = [fd |-> f, pos |-> 0]]
            BY <2>3
        <3>2. gdirs'[p][i].fd = f /\ fds'[p][f] # 0
            BY <1>1, <1>2, <1>3, <3>1 DEF TypeOK, FilesAssumption
        <3>3. \A q \in Guests, k \in Slots : q # p \/ k # i => gdirs'[q][k] = gdirs[q][k]
            BY <3>1 DEF TypeOK
        <3>4. \A k \in Slots : gdirs[p][k].fd # f
            BY <1>1, ClosedHasNone DEF dir_find
        <3>5. \A q \in Guests : \A k \in Snapshots(q)' : (q = p /\ k = i) \/ k \in Snapshots(q)
            BY <3>3 DEF Snapshots
        <3>6. \A q \in Guests : \A k \in Snapshots(q) : gdirs[q][k].fd \in Fds
            BY DEF Snapshots, TypeOK, Dirs
        <3>7. ASSUME NEW q \in Guests, NEW k \in Snapshots(q)' PROVE fds'[q][gdirs'[q][k].fd] # 0
            <4>1. CASE q = p /\ k = i
                BY <3>2, <4>1
            <4>2. CASE ~(q = p /\ k = i)
                <5>1. k \in Snapshots(q) /\ gdirs'[q][k] = gdirs[q][k]
                    BY <3>3, <3>5, <4>2 DEF Snapshots
                <5> QED BY <2>1, <3>6, <5>1 DEF SlotsOwned
            <4> QED BY <4>1, <4>2
        <3>8. ASSUME NEW q \in Guests, NEW k \in Snapshots(q)', NEW j \in Snapshots(q)',
                     gdirs'[q][k].fd = gdirs'[q][j].fd
              PROVE  k = j
            <4>1. k \in Slots /\ j \in Slots
                BY DEF Snapshots
            <4>2. CASE q = p /\ (k = i \/ j = i)
                BY <3>2, <3>3, <3>4, <3>8, <4>1, <4>2
            <4>3. CASE ~(q = p /\ (k = i \/ j = i))
                <5>1. k \in Snapshots(q) /\ j \in Snapshots(q)
                    BY <3>5, <4>3
                <5>2. gdirs'[q][k] = gdirs[q][k] /\ gdirs'[q][j] = gdirs[q][j]
                    BY <3>3, <4>1, <4>3
                <5> QED BY <3>8, <5>1, <5>2 DEF SlotsOwned
            <4> QED BY <4>2, <4>3
        <3> QED BY <3>7, <3>8, Zenon DEF SlotsOwned
    <2>4. CASE obj = "dir" /\ kern # "V1"
        <3>1. gdirs' = [gdirs EXCEPT ![p] = dir_snapshot(p, f)]
            BY <1>5, <2>4
        <3>2. CASE dir_snapshot(p, f) = gdirs[p]
            BY <2>2, <3>1, <3>2 DEF TypeOK
        <3>3. ASSUME NEW i \in Slots, gdirs[p][i].fd = -1,
                     dir_snapshot(p, f) = [gdirs[p] EXCEPT ![i] = [fd |-> f, pos |-> 0]]
              PROVE  SlotsOwned'
            BY <2>3, <3>1, <3>3
        <3> QED BY <1>1, <3>2, <3>3, SnapshotTakes
    <2>5. CASE ~(obj = "dir" /\ kern # "V1")
        BY <1>5, <2>2, <2>5 DEF TypeOK
    <2> QED BY <2>4, <2>5
<1> QED BY <1>6, <1>7, <1>8

\* A descriptor's snapshot goes with it.
LEMMA CloseKeeps ==
    ASSUME FilesAssumption, FilesInv, NEW p \in Guests, NEW f \in Fds, Close(p, f)
    PROVE  FilesInv'
<1> USE DEF FilesInv
<1>1. /\ fds' = [fds EXCEPT ![p][f] = 0]
      /\ gdirs' = [gdirs EXCEPT ![p] = IF kern = "V1" THEN @ ELSE dir_drop(p, f)]
      /\ UNCHANGED <<kern, alive>>
    BY DEF Close
<1>2. TypeOK'
    <2>1. desc' \in [Descs -> [obj : {"none", "file", "dir"}, pos : Nat]]
        BY CollectedType DEF Close
    <2>2. gdirs' \in [Guests -> [Slots -> Dirs]]
        BY <1>1, DirDropType DEF TypeOK
    <2> QED BY <1>1, <2>1, <2>2 DEF TypeOK
<1>3. HasNone'
    <2>1. p \in alive
        BY DEF Close
    <2>2. \A q \in Guests : q # p \/ kern = "V1" => gdirs'[q] = gdirs[q]
        BY <1>1 DEF TypeOK
    <2> QED BY <1>1, <2>1, <2>2 DEF HasNone
<1>4. \A q \in Guests, i \in Slots : \/ gdirs'[q][i] = gdirs[q][i] /\ (q = p => gdirs[q][i].fd # f)
                                    \/ gdirs'[q][i].fd = -1
    BY <1>1 DEF HasNone, TypeOK, dir_drop, dir_find, NoDir
<1>5. \A q \in Guests, x \in Fds : q # p \/ x # f => fds'[q][x] = fds[q][x]
    BY <1>1 DEF TypeOK
<1>6. \A q \in Guests : \A i \in Snapshots(q)' :
          i \in Snapshots(q) /\ gdirs'[q][i] = gdirs[q][i] /\ gdirs[q][i].fd \in Fds /\ (q = p => gdirs[q][i].fd # f)
    BY <1>4 DEF Snapshots, TypeOK, Dirs
<1>7. SlotsOwned'
    BY <1>5, <1>6 DEF SlotsOwned
<1> QED BY <1>2, <1>3, <1>7

LEMMA DupKeeps ==
    ASSUME FilesAssumption, FilesInv, NEW p \in Guests, NEW f \in Fds, Dup(p, f)
    PROVE  FilesInv'
<1> USE DEF FilesInv
<1>1. Least(FreeFd(p)) \in Fds
    BY LeastIsIn DEF Dup, FreeFd, FilesAssumption
<1>2. fds' = [fds EXCEPT ![p][Least(FreeFd(p))] = fds[p][f]] /\ UNCHANGED <<kern, alive, desc, gdirs>>
    BY DEF Dup
<1>3. TypeOK'
    BY <1>1, <1>2 DEF TypeOK
<1>4. \A q \in Guests, x \in Fds : fds[q][x] # 0 => fds'[q][x] # 0
    BY <1>1, <1>2 DEF Dup, TypeOK
<1> QED BY <1>2, <1>3, <1>4, SlotsStayOwned DEF HasNone

LEMMA Dup2Keeps ==
    ASSUME FilesAssumption, FilesInv, NEW p \in Guests, NEW f \in Fds, NEW to \in Fds, Dup2(p, f, to)
    PROVE  FilesInv'
<1> USE DEF FilesInv
<1>1. /\ fds' = [fds EXCEPT ![p] = [x \in Fds |-> IF x \in Dup2Argument(to) THEN fds[p][f] ELSE @[x]]]
      /\ desc' = Collected(fds', desc)
      /\ UNCHANGED <<kern, alive, gdirs>>
    BY DEF Dup2
<1>2. TypeOK'
    BY <1>1, CollectedType DEF TypeOK
<1>3. \A q \in Guests, x \in Fds : fds[q][x] # 0 => fds'[q][x] # 0
    BY <1>1 DEF Dup2, TypeOK
<1> QED BY <1>1, <1>2, <1>3, SlotsStayOwned DEF HasNone

\* Reading and seeking move positions and nothing else.
LEMMA SetPosMoves ==
    ASSUME FilesAssumption, FilesInv, NEW p \in Guests, NEW f \in Fds, NEW pos \in Nat,
           fds[p][f] # 0, SetPos(p, f, pos)
    PROVE  /\ gdirs' \in [Guests -> [Slots -> Dirs]]
           /\ desc' \in [Descs -> [obj : {"none", "file", "dir"}, pos : Nat]]
           /\ \A q \in Guests, i \in Slots : gdirs'[q][i].fd = gdirs[q][i].fd
           /\ \A d \in Descs : desc'[d].obj = desc[d].obj
<1> USE DEF FilesInv
<1>1. CASE HasSnapshot(p, f)
    <2> DEFINE s == Least(dir_find(p, f))
    <2>1. s \in Slots
        BY <1>1, LeastIsIn DEF HasSnapshot, dir_find, Slots
    <2>2. gdirs' = [gdirs EXCEPT ![p][s].pos = pos] /\ desc' = desc
        BY <1>1 DEF SetPos
    <2>3. gdirs[p][s] \in Dirs
        BY <2>1 DEF TypeOK
    <2>4. [gdirs[p][s] EXCEPT !.pos = pos] = [fd |-> gdirs[p][s].fd, pos |-> pos]
        BY <2>3 DEF Dirs
    <2>5. gdirs' = [gdirs EXCEPT ![p][s] = [fd |-> gdirs[p][s].fd, pos |-> pos]]
        BY <2>2, <2>4
    <2>6. gdirs[p][s].fd \in Fds \union {-1}
        BY <2>3 DEF Dirs
    <2> QED BY <2>1, <2>2, <2>5, <2>6 DEF TypeOK, Dirs
<1>2. CASE ~HasSnapshot(p, f)
    <2> DEFINE d == fds[p][f]
    <2>1. d \in Descs
        BY DEF TypeOK
    <2>2. desc' = [desc EXCEPT ![d].pos = pos] /\ gdirs' = gdirs
        BY <1>2 DEF SetPos
    <2>3. desc[d].obj \in {"none", "file", "dir"} /\ [desc[d] EXCEPT !.pos = pos] = [obj |-> desc[d].obj, pos |-> pos]
        BY <2>1 DEF TypeOK
    <2>4. desc' = [desc EXCEPT ![d] = [obj |-> desc[d].obj, pos |-> pos]]
        BY <2>2, <2>3
    <2> QED BY <2>1, <2>2, <2>3, <2>4 DEF TypeOK
<1> QED BY <1>1, <1>2

\* A position is a natural, in a file and in a snapshot.
LEMMA AtIsNat ==
    ASSUME FilesAssumption, FilesInv, NEW p \in Guests, NEW f \in Fds, fds[p][f] # 0
    PROVE  At(p, f) \in Nat
<1> USE DEF FilesInv
<1>1. CASE HasSnapshot(p, f)
    <2>1. Least(dir_find(p, f)) \in Slots
        BY <1>1, LeastIsIn DEF HasSnapshot, dir_find, Slots
    <2> QED BY <1>1, <2>1 DEF At, TypeOK, Dirs
<1>2. CASE ~HasSnapshot(p, f)
    BY <1>2 DEF At, TypeOK
<1> QED BY <1>1, <1>2

LEMMA MoveKeeps ==
    ASSUME FilesAssumption, FilesInv, NEW p \in Guests, NEW f \in Fds, NEW pos \in Nat,
           fds[p][f] # 0, SetPos(p, f, pos), UNCHANGED <<kern, alive, fds>>
    PROVE  FilesInv'
<1> USE DEF FilesInv
<1>1. TypeOK'
    BY SetPosMoves DEF TypeOK
<1>2. HasNone'
    BY SetPosMoves DEF HasNone
<1>3. SlotsOwned'
    BY <1>1, SetPosMoves, SlotsStayOwned
<1> QED BY <1>1, <1>2, <1>3

LEMMA ReadKeeps ==
    ASSUME FilesAssumption, FilesInv, NEW p \in Guests, NEW f \in Fds, NEW n \in 1 .. Size, Read(p, f, n)
    PROVE  FilesInv'
<1> DEFINE pos == At(p, f) + GreaterOf(0, LesserOf(n, Size - At(p, f)))
<1>1. At(p, f) \in Nat
    BY AtIsNat DEF Read
<1>2. pos \in Nat
    BY <1>1 DEF GreaterOf, LesserOf, FilesAssumption
<1> QED BY <1>2, MoveKeeps DEF Read

LEMMA SeekKeeps ==
    ASSUME FilesAssumption, FilesInv, NEW p \in Guests, NEW f \in Fds, NEW hi, NEW lo, NEW mode, Seek(p, f, hi, lo, mode)
    PROVE  FilesInv'
<1>1. SeekTo(p, f, hi, lo, mode) \in Nat
    BY DEF Seek
<1> QED BY <1>1, MoveKeeps DEF Seek

LEMMA NextFiles == FilesAssumption /\ FilesInv /\ [FilesNext]_fileVars => FilesInv'
<1> SUFFICES ASSUME FilesAssumption, FilesInv, [FilesNext]_fileVars PROVE FilesInv'
    OBVIOUS
<1>1. CASE UNCHANGED fileVars
    BY <1>1 DEF fileVars, FilesInv, TypeOK, HasNone, SlotsOwned, Snapshots
<1>2. ASSUME NEW p \in Guests, NEW c \in Guests, ForkFiles(p, c) PROVE FilesInv'
    BY <1>2, ForkKeeps
<1>3. ASSUME NEW p \in Guests, ExitFiles(p) PROVE FilesInv'
    BY <1>3, ExitKeeps
<1>4. ASSUME NEW p \in Guests, NEW obj \in {"file", "dir"}, Open(p, obj) PROVE FilesInv'
    BY <1>4, OpenKeeps
<1>5. ASSUME NEW p \in Guests, NEW f \in Fds, Close(p, f) \/ Dup(p, f) PROVE FilesInv'
    BY <1>5, CloseKeeps, DupKeeps
<1>6. ASSUME NEW p \in Guests, NEW f \in Fds, NEW to \in Fds, Dup2(p, f, to) PROVE FilesInv'
    BY <1>6, Dup2Keeps
<1>7. ASSUME NEW p \in Guests, NEW f \in Fds, NEW n \in 1 .. Size, Read(p, f, n) PROVE FilesInv'
    BY <1>7, ReadKeeps
<1>8. ASSUME NEW p \in Guests, NEW f \in Fds, NEW s \in SeekForms, Seek(p, f, s[1], s[2], s[3]) PROVE FilesInv'
    BY <1>8, SeekKeeps
<1> QED BY <1>1, <1>2, <1>3, <1>4, <1>5, <1>6, <1>7, <1>8 DEF FilesNext

---------------------------------------------------------------------------
(* The theorems.                                                           *)

LEMMA FilesInvHolds == FilesSpec => []FilesInv
<1> USE FilesParameters
<1>1. FilesInit => FilesInv
    BY InitFiles
<1>2. FilesInv /\ [FilesNext]_fileVars => FilesInv'
    BY NextFiles
<1> QED BY <1>1, <1>2, PTL DEF FilesSpec

\* An offset of the long forms is less than 2^32, whose half a signed long starts at.
LEMMA LongRange ==
    ASSUME FilesAssumption, NEW hi \in 0..(WordValues - 1), NEW lo \in 0..(WordValues - 1)
    PROVE  /\ WordValues * WordValues \in Nat \ {0}
           /\ hi * WordValues + lo \in 0..(WordValues * WordValues - 1)
<1>1. WordValues \in Nat \ {0}
    BY DEF FilesAssumption
<1>2. WordValues * WordValues \in Nat \ {0}
    BY <1>1
<1>3. hi * WordValues <= (WordValues - 1) * WordValues /\ hi * WordValues \in Nat
    BY <1>1
<1>4. (WordValues - 1) * WordValues = WordValues * WordValues - WordValues
    BY <1>1
<1> HIDE DEF FilesAssumption
<1> QED BY <1>1, <1>2, <1>3, <1>4

\* The snapshot's int wraps to what the manual's signed long says.
LEMMA Wraps ==
    ASSUME NEW Q \in Nat \ {0}, NEW v \in 0..(Q - 1), NEW base \in Nat,
           base + Signed(v, Q) < Q \div 2
    PROVE  GreaterOf(0, Signed((base + v) % Q, Q)) = GreaterOf(0, base + Signed(v, Q))
<1> DEFINE h == Q \div 2
<1>1. h \in Nat /\ 2 * h <= Q /\ Q <= 2 * h + 1
    OBVIOUS
<1>2. CASE v < h
    <2>1. Signed(v, Q) = v
        BY <1>2 DEF Signed
    <2>2. base + v < Q
        BY <2>1, <1>1
    <2>3. (base + v) % Q = base + v
        BY <2>2
    <2>4. Signed(base + v, Q) = base + v
        BY <2>1 DEF Signed
    <2> QED BY <2>1, <2>3, <2>4
<1>3. CASE v >= h
    <2>1. Signed(v, Q) = v - Q
        BY <1>3 DEF Signed
    <2>2. CASE base + v < Q
        <3>1. (base + v) % Q = base + v
            BY <2>2
        <3>2. Signed(base + v, Q) = base + v - Q
            BY <1>3, <2>2 DEF Signed
        <3> QED BY <2>1, <3>1, <3>2
    <2>3. CASE base + v >= Q
        <3>1. (base + v) % Q = base + v - Q
            BY <2>1, <2>3, <1>1
        <3>2. Signed(base + v - Q, Q) = base + v - Q
            BY <2>1 DEF Signed
        <3> QED BY <2>1, <3>1, <3>2
    <2> QED BY <2>2, <2>3
<1> QED BY <1>1, <1>2, <1>3

\* Every form of seek lands where the manual has it land.
LEMMA SeeksLand ==
    ASSUME FilesAssumption, FilesInv, NEW p \in Guests, NEW f \in Fds, fds[p][f] # 0,
           NEW s \in SeekForms,
           HasSnapshot(p, f) \/ kern \in {"V1", "V56"} \/ Asked(s[1], s[2], s[3]) >= 0
    PROVE  Lands(p, f, s[1], s[2], s[3])
<1> DEFINE hi == s[1]
           lo == s[2]
           mode == s[3]
           at == At(p, f)
           base == SeekBase(mode, at)
           short == IF mode = 0 THEN lo ELSE Signed(lo, WordValues)
<1>1. hi \in 0..(WordValues - 1) /\ lo \in 0..(WordValues - 1) /\ mode \in 0..5
    BY DEF SeekForms
<1>2. kern \in Kernels /\ WordValues \in Nat \ {0} /\ Block \in Nat /\ Size \in Nat
    BY DEF FilesInv, TypeOK, FilesAssumption
<1>3. at \in Nat
    BY AtIsNat
<1>4. base \in Nat
    BY <1>1, <1>2, <1>3 DEF SeekBase
<1>5. CASE kern \in {"V1", "V56"}
    <2>1. mode > 2 => kern = "V56"
        BY <1>5 DEF SeekForms
    <2>2. short \in Int
        BY <1>1, <1>2 DEF Signed
    <2>3. SeekOffset(hi, lo, mode) = Asked(hi, lo, mode)
        BY <1>1, <1>2, <1>5, <2>1, <2>2 DEF SeekOffset, Asked
    <2>4. SnapshotSeek(base + Asked(hi, lo, mode)) = GreaterOf(0, base + Asked(hi, lo, mode))
        BY <1>5 DEF SnapshotSeek
    <2> QED BY <2>3, <2>4 DEF Lands, SeekTo
<1>6. CASE kern \in {"V7", "BSD"}
    <2> DEFINE Q == WordValues * WordValues
               v == hi * WordValues + lo
    <2>1. Q \in Nat \ {0} /\ v \in 0..(Q - 1)
        BY <1>1, LongRange
    <2>2. SeekOffset(hi, lo, mode) = v /\ Asked(hi, lo, mode) = Signed(v, Q)
        BY <1>6 DEF SeekOffset, Asked
    <2>3. SnapshotSeek(base + v) = GreaterOf(0, Signed((base + v) % Q, Q))
        BY <1>6 DEF SnapshotSeek
    <2>4. CASE HasSnapshot(p, f)
        <3> HIDE DEF Q, v, base
        <3>1. base + Signed(v, Q) < Q \div 2 => SnapshotSeek(base + v) = GreaterOf(0, base + Signed(v, Q))
            BY <1>4, <2>1, <2>3, Wraps
        <3> QED BY <2>2, <2>4, <3>1 DEF Lands, SeekTo, base, Q
    <2>5. CASE ~HasSnapshot(p, f)
        <3>1. Signed(v, Q) >= 0
            BY <1>6, <2>2, <2>5
        <3>2. Signed(v, Q) = v
            BY <2>1, <3>1 DEF Signed
        <3> QED BY <2>2, <2>5, <3>2 DEF Lands, SeekTo
    <2> QED BY <2>4, <2>5
<1> QED BY <1>2, <1>5, <1>6 DEF Kernels

\* gdirs leaks no slot and gives none twice, over every open, close, dup, fork
\* and exit; and every seek lands, with the one exception SeekLandsForward names.
THEOREM DescriptorsHold == FilesSpec => []DescriptorsSound
<1> USE FilesParameters
<1>1. FilesInv => DescriptorsSound
    <2> SUFFICES ASSUME FilesInv PROVE SeekLandsForward
        BY DEF DescriptorsSound, FilesInv
    <2> SUFFICES ASSUME NEW p \in alive, NEW f \in Fds, fds[p][f] # 0, NEW s \in SeekForms,
                        ~(~HasSnapshot(p, f) /\ kern \in {"V7", "BSD"} /\ Asked(s[1], s[2], s[3]) < 0)
                 PROVE  Lands(p, f, s[1], s[2], s[3])
        BY DEF SeekLandsForward
    <2>1. p \in Guests /\ kern \in Kernels
        BY DEF FilesInv, TypeOK
    <2>2. kern \in {"V7", "BSD"} => Asked(s[1], s[2], s[3]) \in Int
        <3>1. s[1] \in 0..(WordValues - 1) /\ s[2] \in 0..(WordValues - 1)
            BY DEF SeekForms
        <3>2. WordValues * WordValues \in Nat /\ s[1] * WordValues + s[2] \in Nat
            BY <3>1, LongRange
        <3> QED BY <3>2 DEF Asked, Signed
    <2> QED BY <2>1, <2>2, SeeksLand DEF Kernels
<1> QED BY <1>1, FilesInvHolds, PTL

---------------------------------------------------------------------------
(* What a step does to the snapshot of one descriptor.                     *)

\* A step that changes no descriptor of gdirs finds the same slots.
LEMMA SameSlotsFound ==
    ASSUME NEW p \in Guests, NEW q \in Guests, NEW f \in Fds,
           \A i \in Slots : gdirs'[q][i].fd = gdirs[p][i].fd
    PROVE  dir_find(q, f)' = dir_find(p, f)
BY DEF dir_find

\* Opening leaves every descriptor the snapshot it has, and gives one only to
\* the descriptor it opens, of a directory.
LEMMA OpenKeepsSlots ==
    ASSUME FilesAssumption, FilesInv, NEW q \in Guests, NEW obj \in {"file", "dir"}, Open(q, obj),
           NEW p \in Guests, NEW f \in Fds
    PROVE  /\ dir_find(p, f) \subseteq dir_find(p, f)'
           /\ dir_find(p, f) = {} /\ dir_find(p, f)' # {} => p = q /\ f = Least(FreeFd(q)) /\ obj = "dir"
<1> USE DEF FilesInv
<1> DEFINE g == Least(FreeFd(q))
<1>1. g \in Fds
    <2>1. FreeFd(q) \in SUBSET Nat /\ FreeFd(q) # {}
        BY DEF FreeFd, FilesAssumption, Open
    <2> QED BY <2>1, LeastIsIn DEF FreeFd
<1>2. gdirs' = [gdirs EXCEPT ![q] = IF obj = "dir" /\ kern # "V1" THEN dir_snapshot(q, g) ELSE @]
    BY DEF Open
<1>3. CASE gdirs' = gdirs
    BY <1>3 DEF dir_find
<1>4. ASSUME NEW i \in Slots, gdirs[q][i].fd = -1, obj = "dir",
             gdirs' = [gdirs EXCEPT ![q] = [gdirs[q] EXCEPT ![i] = [fd |-> g, pos |-> 0]]]
      PROVE  /\ dir_find(p, f) \subseteq dir_find(p, f)'
             /\ dir_find(p, f) = {} /\ dir_find(p, f)' # {} => p = q /\ f = g /\ obj = "dir"
    <2>1. \A k \in Slots : p # q \/ k # i => gdirs'[p][k] = gdirs[p][k]
        BY <1>4 DEF TypeOK
    <2>2. gdirs'[q][i].fd = g
        BY <1>4 DEF TypeOK
    <2>3. f # -1
        BY DEF FilesAssumption
    <2> QED BY <1>4, <2>1, <2>2, <2>3 DEF dir_find
<1>5. CASE obj = "dir" /\ kern # "V1"
    <2>1. gdirs' = [gdirs EXCEPT ![q] = dir_snapshot(q, g)]
        BY <1>2, <1>5
    <2>2. CASE dir_snapshot(q, g) = gdirs[q]
        BY <1>3, <2>1, <2>2 DEF TypeOK
    <2> QED BY <1>1, <1>4, <1>5, <2>1, <2>2, SnapshotTakes
<1>6. CASE ~(obj = "dir" /\ kern # "V1")
    BY <1>2, <1>3, <1>6 DEF TypeOK
<1> QED BY <1>5, <1>6

LEMMA CloseDropsOne ==
    ASSUME FilesAssumption, FilesInv, NEW q \in Guests, NEW g \in Fds, Close(q, g),
           NEW p \in Guests, NEW f \in Fds
    PROVE  /\ p # q \/ f # g => dir_find(p, f)' = dir_find(p, f)
           /\ dir_find(q, g)' = {} /\ fds'[q][g] = 0
<1> USE DEF FilesInv
<1>1. gdirs' = [gdirs EXCEPT ![q] = IF kern = "V1" THEN @ ELSE dir_drop(q, g)]
    BY DEF Close
<1>2. fds'[q][g] = 0
    BY DEF Close, TypeOK
<1>3. f # -1 /\ g # -1
    BY DEF FilesAssumption
<1>4. CASE kern = "V1"
    <2>1. gdirs' = gdirs
        BY <1>1, <1>4 DEF TypeOK
    <2>2. \A r \in Guests, i \in Slots : gdirs[r][i].fd = -1
        BY <1>4 DEF HasNone
    <2> QED BY <1>2, <1>3, <2>1, <2>2 DEF dir_find
<1>5. CASE kern # "V1"
    <2>1. gdirs'[q] = dir_drop(q, g) /\ (p # q => gdirs'[p] = gdirs[p])
        BY <1>1, <1>5 DEF TypeOK
    <2>2. \A i \in Slots : gdirs'[q][i] = IF gdirs[q][i].fd = g THEN NoDir ELSE gdirs[q][i]
        BY <2>1 DEF dir_drop, dir_find
    <2> QED BY <1>2, <1>3, <2>1, <2>2 DEF dir_find, NoDir
<1> QED BY <1>4, <1>5

\* read and seek find the same slots.
LEMMA MoveSameSlots ==
    ASSUME FilesAssumption, FilesInv, NEW q \in Guests, NEW g \in Fds, NEW pos \in Nat,
           fds[q][g] # 0, SetPos(q, g, pos), NEW p \in Guests, NEW f \in Fds
    PROVE  dir_find(p, f)' = dir_find(p, f)
BY SetPosMoves, SameSlotsFound

LEMMA ReadSeekMove ==
    ASSUME FilesAssumption, FilesInv, NEW q \in Guests, NEW g \in Fds,
           \/ \E n \in 1 .. Size : Read(q, g, n)
           \/ \E s \in SeekForms : Seek(q, g, s[1], s[2], s[3])
    PROVE  /\ UNCHANGED <<kern, alive, fds>> /\ fds[q][g] # 0
           /\ \E pos \in Nat : SetPos(q, g, pos)
<1>1. ASSUME NEW n \in 1 .. Size, Read(q, g, n)
      PROVE  UNCHANGED <<kern, alive, fds>> /\ fds[q][g] # 0 /\ \E pos \in Nat : SetPos(q, g, pos)
    <2>1. At(q, g) \in Nat
        BY <1>1, AtIsNat DEF Read
    <2>2. At(q, g) + GreaterOf(0, LesserOf(n, Size - At(q, g))) \in Nat
        BY <2>1 DEF GreaterOf, LesserOf, FilesAssumption
    <2> QED BY <1>1, <2>2 DEF Read
<1>2. ASSUME NEW s \in SeekForms, Seek(q, g, s[1], s[2], s[3])
      PROVE  UNCHANGED <<kern, alive, fds>> /\ fds[q][g] # 0 /\ \E pos \in Nat : SetPos(q, g, pos)
    <2>1. SeekTo(q, g, s[1], s[2], s[3]) \in Nat
        BY <1>2 DEF Seek
    <2> QED BY <1>2, <2>1 DEF Seek
<1> QED BY <1>1, <1>2

LEMMA StepKeepsSnapshots == FilesAssumption /\ FilesInv /\ [FilesNext]_fileVars => [KeepsSnapshots]_fileVars
<1> SUFFICES ASSUME FilesAssumption, FilesInv, FilesNext, NEW p \in Guests, NEW f \in Fds, dir_find(p, f) # {}
             PROVE  /\ fds'[p][f] # 0 => dir_find(p, f)' # {}
                    /\ \A c \in Guests : ForkFiles(p, c) => dir_find(c, f)' # {}
    BY DEF KeepsSnapshots
<1>1. ASSUME NEW c \in Guests, ForkFiles(p, c) PROVE dir_find(c, f)' # {}
    <2>1. gdirs'[c] = gdirs[p]
        BY <1>1 DEF ForkFiles, FilesInv, TypeOK
    <2> QED BY <2>1, SameSlotsFound
<1>2. ASSUME NEW q \in Guests, NEW c \in Guests, ForkFiles(q, c), fds'[p][f] # 0 PROVE dir_find(p, f)' # {}
    <2>1. p = c => gdirs'[p] = gdirs[q] /\ fds'[p] = fds[q]
        BY <1>2 DEF ForkFiles, FilesInv, TypeOK
    <2>2. p # c => gdirs'[p] = gdirs[p]
        BY <1>2 DEF ForkFiles, FilesInv, TypeOK
    <2>3. p # c
        <3>1. p \in alive
            BY DEF FilesInv, HasNone, dir_find, FilesAssumption
        <3> QED BY <1>2, <3>1 DEF ForkFiles
    <2> QED BY <2>2, <2>3, SameSlotsFound
<1>3. ASSUME NEW q \in Guests, ExitFiles(q), fds'[p][f] # 0 PROVE dir_find(p, f)' # {}
    <2>1. p # q
        BY <1>3 DEF ExitFiles, FilesInv, TypeOK
    <2>2. gdirs'[p] = gdirs[p]
        BY <1>3, <2>1 DEF ExitFiles, FilesInv, TypeOK
    <2> QED BY <2>2, SameSlotsFound
<1>4. ASSUME NEW q \in Guests, NEW obj \in {"file", "dir"}, Open(q, obj) PROVE dir_find(p, f)' # {}
    BY <1>4, OpenKeepsSlots, Zenon
<1>5. ASSUME NEW q \in Guests, NEW g \in Fds, Close(q, g), fds'[p][f] # 0 PROVE dir_find(p, f)' # {}
    BY <1>5, CloseDropsOne
<1>6. ASSUME NEW q \in Guests, NEW g \in Fds, Dup(q, g) \/ \E to \in Fds : Dup2(q, g, to) PROVE dir_find(p, f)' # {}
    <2>1. gdirs' = gdirs
        BY <1>6 DEF Dup, Dup2
    <2> QED BY <2>1, SameSlotsFound
<1>7. ASSUME NEW q \in Guests, NEW g \in Fds,
             \/ \E n \in 1 .. Size : Read(q, g, n)
             \/ \E s \in SeekForms : Seek(q, g, s[1], s[2], s[3])
      PROVE  dir_find(p, f)' # {}
    BY <1>7, ReadSeekMove, MoveSameSlots
<1>8. ASSUME fds'[p][f] # 0 PROVE dir_find(p, f)' # {}
    BY <1>2, <1>3, <1>4, <1>5, <1>6, <1>7, <1>8 DEF FilesNext
<1> QED BY <1>1, <1>8

LEMMA StepStalesByDup2 == FilesAssumption /\ FilesInv /\ [FilesNext]_fileVars => [OnlyDup2Stales]_fileVars
<1> SUFFICES ASSUME FilesAssumption, FilesInv, FilesNext, NEW p \in Guests, NEW f \in Fds,
                    p \in alive, p \in alive', BecomesStale(p, f)
             PROVE  \E from \in Fds : Dup2(p, from, f)
    BY DEF OnlyDup2Stales
<1> USE DEF FilesInv
<1>0. dir_find(p, f)' # {} /\ ~DirUnder(p, f)' /\ (dir_find(p, f) = {} \/ DirUnder(p, f))
    BY DEF BecomesStale
\* A step that keeps what the descriptor is open on gives it no snapshot.
<1>1. ASSUME fds'[p][f] = fds[p][f], DirUnder(p, f) => desc'[fds[p][f]].obj = "dir" PROVE ~DirUnder(p, f) /\ dir_find(p, f) = {}
    BY <1>0, <1>1 DEF DirUnder
<1>2. ASSUME fds'[p][f] = fds[p][f], DirUnder(p, f) => desc'[fds[p][f]].obj = "dir", dir_find(p, f)' = dir_find(p, f) PROVE FALSE
    BY <1>0, <1>1, <1>2
\* What is open in one guest at least is not given back.
<1>3. ASSUME fds'[p][f] = fds[p][f], DirUnder(p, f), desc' = Collected(fds', desc) PROVE desc'[fds[p][f]].obj = "dir"
    BY <1>3 DEF Collected, DirUnder, TypeOK
<1>4. ASSUME NEW q \in Guests, NEW c \in Guests, ForkFiles(q, c) PROVE FALSE
    <2>1. p # c
        BY <1>4 DEF ForkFiles
    <2>2. fds'[p] = fds[p] /\ gdirs'[p] = gdirs[p] /\ desc' = desc
        BY <1>4, <2>1 DEF ForkFiles, TypeOK
    <2> QED BY <1>2, <2>2, SameSlotsFound DEF DirUnder
<1>5. ASSUME NEW q \in Guests, ExitFiles(q) PROVE FALSE
    <2>1. p # q
        BY <1>5 DEF ExitFiles
    <2>2. fds'[p] = fds[p] /\ gdirs'[p] = gdirs[p] /\ desc' = Collected(fds', desc)
        BY <1>5, <2>1 DEF ExitFiles, TypeOK
    <2> QED BY <1>2, <1>3, <2>2, SameSlotsFound
<1>6. ASSUME NEW q \in Guests, NEW obj \in {"file", "dir"}, Open(q, obj) PROVE FALSE
    <2> DEFINE g == Least(FreeFd(q))
               d == Least(FreeDesc)
    <2>1. g \in Fds /\ fds[q][g] = 0
        <3>1. FreeFd(q) \in SUBSET Nat /\ FreeFd(q) # {}
            BY <1>6 DEF FreeFd, FilesAssumption, Open
        <3> QED BY <3>1, LeastIsIn DEF FreeFd
    <2>2. d \in Descs /\ desc[d].obj = "none" /\ d # 0
        <3>1. FreeDesc \in SUBSET Nat /\ FreeDesc # {}
            BY <1>6 DEF FreeDesc, FilesAssumption, Open
        <3> QED BY <3>1, LeastIsIn DEF FreeDesc, FilesAssumption
    <2>3. fds' = [fds EXCEPT ![q][g] = d] /\ desc' = [desc EXCEPT ![d] = [obj |-> obj, pos |-> 0]]
        BY <1>6 DEF Open
    <2>4. CASE p = q /\ f = g
        <3>1. dir_find(p, f) = {}
            BY <2>1, <2>4, ClosedHasNone
        <3>2. obj = "dir"
            BY <1>0, <1>6, <3>1, OpenKeepsSlots
        <3> QED BY <1>0, <2>1, <2>2, <2>3, <2>4, <3>2 DEF DirUnder, TypeOK
    <2>5. CASE ~(p = q /\ f = g)
        <3>1. fds'[p][f] = fds[p][f]
            BY <2>1, <2>3, <2>5 DEF TypeOK
        <3>2. DirUnder(p, f) => desc'[fds[p][f]].obj = "dir"
            BY <2>2, <2>3 DEF DirUnder, TypeOK
        <3>3. dir_find(p, f) = {}
            BY <1>1, <3>1, <3>2
        <3> QED BY <1>0, <1>6, <2>5, <3>3, OpenKeepsSlots
    <2> QED BY <2>4, <2>5
<1>7. ASSUME NEW q \in Guests, NEW g \in Fds, Close(q, g) PROVE FALSE
    <2>1. p # q \/ f # g
        BY <1>0, <1>7, CloseDropsOne
    <2>2. dir_find(p, f)' = dir_find(p, f)
        BY <1>7, <2>1, CloseDropsOne
    <2>3. fds'[p][f] = fds[p][f] /\ desc' = Collected(fds', desc)
        BY <1>7, <2>1 DEF Close, TypeOK
    <2> QED BY <1>2, <1>3, <2>2, <2>3
<1>8. ASSUME NEW q \in Guests, NEW g \in Fds, Dup(q, g) PROVE FALSE
    <2> DEFINE to == Least(FreeFd(q))
    <2>1. to \in Fds /\ fds[q][to] = 0
        <3>1. FreeFd(q) \in SUBSET Nat /\ FreeFd(q) # {}
            BY <1>8 DEF FreeFd, FilesAssumption, Dup
        <3> QED BY <3>1, LeastIsIn DEF FreeFd
    <2>2. fds' = [fds EXCEPT ![q][to] = fds[q][g]] /\ desc' = desc /\ gdirs' = gdirs
        BY <1>8 DEF Dup
    <2>3. dir_find(p, f)' = dir_find(p, f)
        BY <2>2, SameSlotsFound
    <2>4. p # q \/ f # to
        BY <1>0, <2>1, <2>3, ClosedHasNone
    <2>5. fds'[p][f] = fds[p][f]
        BY <2>1, <2>2, <2>4 DEF TypeOK
    <2> QED BY <1>2, <2>2, <2>3, <2>5 DEF DirUnder
<1>9. ASSUME NEW q \in Guests, NEW g \in Fds, NEW to \in Fds, Dup2(q, g, to), p # q \/ f # to PROVE FALSE
    <2>1. desc' = Collected(fds', desc) /\ gdirs' = gdirs
        BY <1>9 DEF Dup2
    <2>2. fds'[p][f] = fds[p][f]
        BY <1>9 DEF Dup2, Dup2Argument, TypeOK
    <2>3. dir_find(p, f)' = dir_find(p, f)
        BY <2>1, SameSlotsFound
    <2> QED BY <1>2, <1>3, <2>1, <2>2, <2>3
<1>10. ASSUME NEW q \in Guests, NEW g \in Fds,
              \/ \E n \in 1 .. Size : Read(q, g, n)
              \/ \E s \in SeekForms : Seek(q, g, s[1], s[2], s[3])
       PROVE  FALSE
    <2>1. UNCHANGED <<kern, alive, fds>> /\ fds[q][g] # 0
        BY <1>10, ReadSeekMove
    <2>2. PICK pos \in Nat : SetPos(q, g, pos)
        BY <1>10, ReadSeekMove
    <2>3. dir_find(p, f)' = dir_find(p, f)
        BY <2>1, <2>2, MoveSameSlots
    <2>4. DirUnder(p, f) => desc'[fds[p][f]].obj = "dir"
        <3>1. \A d \in Descs : desc'[d].obj = desc[d].obj
            BY <2>1, <2>2, SetPosMoves
        <3> QED BY <3>1 DEF DirUnder, TypeOK
    <2> QED BY <1>2, <2>1, <2>3, <2>4
<1> QED BY <1>4, <1>5, <1>6, <1>7, <1>8, <1>9, <1>10 DEF FilesNext

\* A directory being read is not lost under the reader, over any sequence of
\* the calls, and a child starts with the snapshots of its parent.
THEOREM SnapshotsLast == FilesSpec => SnapshotKept
<1> USE FilesParameters
<1>1. FilesInv /\ [FilesNext]_fileVars => [KeepsSnapshots]_fileVars
    BY StepKeepsSnapshots
<1> QED BY <1>1, FilesInvHolds, PTL DEF SnapshotKept, FilesSpec

\* Only dup2 leaves a snapshot behind for something else.
THEOREM StaleByDup2Alone == FilesSpec => StaleOnlyByDup2
<1> USE FilesParameters
<1>1. FilesInv /\ [FilesNext]_fileVars => [OnlyDup2Stales]_fileVars
    BY StepStalesByDup2
<1> QED BY <1>1, FilesInvHolds, PTL DEF StaleOnlyByDup2, FilesSpec

---------------------------------------------------------------------------
(* A table of pids, by itself.                                             *)

Table(map) == map \in Seq(HostPids) /\ Len(map) <= PidSlots
Holds(map, h) == \E k \in DOMAIN map : map[k] = h
\* h is in the table, or did not fit.
Learned(map, h) == Holds(map, h) \/ Len(map) = PidSlots

\* Learning one pid forgets none, and the table stays one.
LEMMA LearnAdds ==
    ASSUME NEW map, Table(map), NEW h \in HostPids
    PROVE  /\ Table(pid_learn(map, h))
           /\ Learned(pid_learn(map, h), h)
           /\ \A x : Learned(map, x) => Learned(pid_learn(map, h), x)
<1>1. CASE Holds(map, h) \/ Len(map) = PidSlots
    <2>1. pid_learn(map, h) = map
        BY <1>1 DEF pid_learn, Holds
    <2> QED BY <1>1, <2>1 DEF Learned
<1>2. CASE ~(Holds(map, h) \/ Len(map) = PidSlots)
    <2>1. pid_learn(map, h) = Append(map, h)
        BY <1>2 DEF pid_learn, Holds
    <2>2. /\ Append(map, h) \in Seq(HostPids)
          /\ Len(Append(map, h)) = Len(map) + 1
          /\ \A k \in 1..Len(map) : Append(map, h)[k] = map[k]
          /\ Append(map, h)[Len(map) + 1] = h
        BY AppendProperties DEF Table
    <2>3. Len(map) \in Nat /\ DOMAIN map = 1..Len(map) /\ DOMAIN Append(map, h) = 1..(Len(map) + 1)
        BY <2>2, LenProperties DEF Table
    <2>4. Len(map) + 1 <= PidSlots
        <3>1. Len(map) # PidSlots /\ Len(map) <= PidSlots
            BY <1>2 DEF Table
        <3>2. Len(map) \in Nat /\ PidSlots \in Nat
            BY <2>3, PidAssumption
        <3> QED BY <3>1, <3>2, SMT
    <2>5. Holds(Append(map, h), h)
        BY <2>2, <2>3 DEF Holds
    <2>6. ASSUME NEW x, Learned(map, x) PROVE Learned(Append(map, h), x)
        BY <1>2, <2>2, <2>3, <2>6 DEF Holds, Learned
    <2> QED BY <2>1, <2>2, <2>4, <2>5, <2>6 DEF Table, Learned
<1> QED BY <1>1, <1>2

\* A pid in the table that shares its low bits with no other in it is found.
LEMMA FoundIfAlone ==
    ASSUME NEW map, Table(map), NEW h \in HostPids, Low15(h) # 0,
           \A k \in DOMAIN map : Low15(map[k]) = Low15(h) => map[k] = h,
           Holds(map, h) \/ Low15(h) = h
    PROVE  pid_g2h(map, Low15(h)) = h
<1> DEFINE match == {k \in DOMAIN map : Low15(map[k]) = Low15(h)}
<1>1. CASE match = {}
    BY <1>1 DEF pid_g2h, Holds
<1>2. CASE match # {}
    <2>1. match \in SUBSET Nat
        BY LenProperties DEF Table
    <2>2. Least(match) \in match
        BY <1>2, <2>1, LeastIsIn
    <2>3. map[Least(match)] = h
        BY <2>2
    <2> QED BY <1>2, <2>3 DEF pid_g2h
<1> QED BY <1>1, <1>2

---------------------------------------------------------------------------
(* The invariant.                                                          *)

PidsTyped ==
    /\ kern \in Kernels
    /\ proc \in [HostPids -> {"none", "born", "run", "zombie"}]
    /\ parent \in [HostPids -> HostPids]
    /\ kids \in [HostPids -> SUBSET HostPids]
    /\ pidmap \in [HostPids -> Seq(HostPids)]
    /\ \A p \in HostPids : Table(pidmap[p])

\* Who has not returned from fork has forked nobody.
BornChildless == \A p \in HostPids : proc[p] = "born" => kids[p] = {}

\* But for the First Edition, every guest has learned itself, its children and
\* its parent, while it has one, as far as its table goes.
AllLearned ==
    kern # "V1" =>
        \A p \in HostPids : Running(p) =>
            \A c \in {p} \union kids[p] \union ({parent[p]} \ {Reaper}) : Learned(pidmap[p], c)

PidInv == PidsTyped /\ BornChildless /\ AllLearned

LEMMA InitPid == Init => PidInv
<1> SUFFICES ASSUME Init PROVE PidInv
    OBVIOUS
<1>1. Table(<<>>)
    BY PidAssumption DEF Table
<1>2. Table(<<Root, Reaper>>) /\ Holds(<<Root, Reaper>>, Root)
    <2>1. <<Root, Reaper>> \in Seq(HostPids) /\ Len(<<Root, Reaper>>) = 2 /\ <<Root, Reaper>>[1] = Root
        BY PidAssumption
    <2> QED BY <2>1, PidAssumption DEF Table, Holds
<1>3. PidsTyped
    BY <1>1, <1>2, PidAssumption DEF Init, PidsTyped, Table
<1>4. BornChildless
    BY DEF Init, BornChildless
<1>5. AllLearned
    BY <1>2, PidAssumption DEF Init, AllLearned, Running, Learned
<1> QED BY <1>3, <1>4, <1>5 DEF PidInv

LEMMA ForkKeepsPids ==
    ASSUME PidInv, NEW p \in HostPids, NEW c \in HostPids, Fork(p, c)
    PROVE  PidInv'
<1> USE DEF PidInv
<1>1. p # c /\ Running(p)
    BY DEF Fork, Running
<1>2. /\ Table(pid_learn(pidmap[p], c)) /\ Learned(pid_learn(pidmap[p], c), c)
      /\ \A x : Learned(pidmap[p], x) => Learned(pid_learn(pidmap[p], c), x)
    BY LearnAdds DEF PidsTyped
<1>3. /\ proc' = [proc EXCEPT ![c] = "born"] /\ parent' = [parent EXCEPT ![c] = p]
      /\ kids' = [kids EXCEPT ![p] = @ \union {x \in {c} : Low15(x) # 0}, ![c] = {}]
      /\ pidmap'[c] = pidmap[p]
      /\ pidmap'[p] = IF kern = "V1" THEN pidmap[p] ELSE pid_learn(pidmap[p], c)
      /\ \A q \in HostPids \ {p, c} : pidmap'[q] = pidmap[q]
      /\ pidmap' = [q \in HostPids |-> pidmap'[q]] /\ kern' = kern
    BY <1>1 DEF Fork, PidsTyped
<1>4. PidsTyped'
    <2>1. \A q \in HostPids : Table(pidmap'[q])
        BY <1>2, <1>3 DEF PidsTyped
    <2>2. pidmap' \in [HostPids -> Seq(HostPids)]
        BY <1>3, <2>1 DEF Table
    <2> QED BY <1>3, <2>1, <2>2 DEF PidsTyped
<1>5. BornChildless'
    BY <1>1, <1>3 DEF BornChildless, PidsTyped, Running
<1>6. AllLearned'
    <2> SUFFICES ASSUME kern # "V1", NEW q \in HostPids, Running(q)',
                        NEW x \in {q} \union kids'[q] \union ({parent'[q]} \ {Reaper})
                 PROVE  Learned(pidmap'[q], x)
        BY <1>3 DEF AllLearned
    <2>1. q # c /\ Running(q) /\ parent'[q] = parent[q]
        BY <1>3 DEF Running, PidsTyped
    <2>2. CASE q = p
        <3>1. x = c \/ x \in {p} \union kids[p] \union ({parent[p]} \ {Reaper})
            BY <1>1, <1>3, <2>1, <2>2 DEF PidsTyped
        <3>2. x # c => Learned(pidmap[p], x)
            BY <2>1, <2>2, <3>1 DEF AllLearned
        <3> QED BY <1>2, <1>3, <2>2, <3>1, <3>2
    <2>3. CASE q # p
        <3>1. kids'[q] = kids[q] /\ pidmap'[q] = pidmap[q]
            BY <1>3, <2>1, <2>3 DEF PidsTyped
        <3> QED BY <2>1, <3>1 DEF AllLearned
    <2> QED BY <2>2, <2>3
<1> QED BY <1>4, <1>5, <1>6

LEMMA ChildOfForkKeeps ==
    ASSUME PidInv, NEW c \in HostPids, ChildOfFork(c)
    PROVE  PidInv'
<1> USE DEF PidInv
<1> DEFINE own == pid_learn(pidmap[c], c)
           both == pid_learn(own, parent[c])
<1>1. Table(own) /\ Learned(own, c)
    BY LearnAdds DEF PidsTyped
<1>2. parent[c] \in HostPids
    BY DEF PidsTyped
<1>3. Table(both) /\ Learned(both, parent[c]) /\ Learned(both, c)
    BY <1>1, <1>2, LearnAdds
<1>4. /\ proc' = [proc EXCEPT ![c] = "run"] /\ UNCHANGED <<kern, parent, kids>>
      /\ pidmap' = [pidmap EXCEPT ![c] = IF kern = "V1" THEN @ ELSE both]
    BY DEF ChildOfFork
<1> HIDE DEF own, both
<1>5. PidsTyped'
    BY <1>3, <1>4 DEF PidsTyped, Table
<1>6. BornChildless'
    BY <1>4 DEF BornChildless, PidsTyped
<1>7. AllLearned'
    <2> SUFFICES ASSUME kern # "V1", NEW q \in HostPids, Running(q)',
                        NEW x \in {q} \union kids[q] \union ({parent[q]} \ {Reaper})
                 PROVE  Learned(pidmap'[q], x)
        BY <1>4 DEF AllLearned
    <2>1. CASE q = c
        <3>1. kids[c] = {}
            BY DEF BornChildless, ChildOfFork
        <3> QED BY <1>3, <1>4, <2>1, <3>1 DEF PidsTyped
    <2>2. CASE q # c
        BY <1>4, <2>2 DEF AllLearned, Running, PidsTyped
    <2> QED BY <2>1, <2>2
<1> QED BY <1>5, <1>6, <1>7

\* The end of a process, by exit or by kill.
LEMMA GoneKeeps ==
    ASSUME PidInv, NEW t \in HostPids, Gone(t), kern' = kern
    PROVE  PidInv'
<1> USE DEF PidInv
<1>1. /\ \A q \in HostPids : proc'[q] \in {"none", "zombie", proc[q]}
      /\ proc' \in [HostPids -> {"none", "born", "run", "zombie"}]
      /\ proc'[t] \in {"none", "zombie"}
    BY DEF Gone, PidsTyped
<1>2. /\ parent' \in [HostPids -> HostPids]
      /\ \A q \in HostPids : parent'[q] \in {parent[q], Reaper}
    BY PidAssumption DEF Gone, PidsTyped
<1>3. kids' = [kids EXCEPT ![t] = {}] /\ pidmap' = [pidmap EXCEPT ![t] = <<>>]
    BY DEF Gone
<1>4. Table(<<>>)
    BY PidAssumption DEF Table
<1>5. PidsTyped'
    BY <1>1, <1>2, <1>3, <1>4 DEF PidsTyped, Table
<1>6. BornChildless'
    BY <1>1, <1>3 DEF BornChildless, PidsTyped
<1>7. AllLearned'
    <2> SUFFICES ASSUME kern # "V1", NEW q \in HostPids, Running(q)',
                        NEW x \in {q} \union kids'[q] \union ({parent'[q]} \ {Reaper})
                 PROVE  Learned(pidmap'[q], x)
        BY DEF AllLearned
    <2>1. q # t /\ Running(q)
        BY <1>1 DEF Running
    <2>2. kids'[q] = kids[q] /\ pidmap'[q] = pidmap[q]
        BY <1>3, <2>1 DEF PidsTyped
    <2> QED BY <1>2, <2>1, <2>2 DEF AllLearned
<1> QED BY <1>5, <1>6, <1>7

LEMMA ReapKeeps ==
    ASSUME PidInv, NEW p \in HostPids, NEW c \in HostPids, Reap(p, c)
    PROVE  PidInv'
<1> USE DEF PidInv
<1>1. /\ proc' = [proc EXCEPT ![c] = "none"] /\ parent' = [parent EXCEPT ![c] = Reaper]
      /\ kids' = [kids EXCEPT ![p] = @ \ {c}] /\ UNCHANGED <<kern, pidmap>>
    BY DEF Reap
<1>2. PidsTyped'
    BY <1>1, PidAssumption DEF PidsTyped
<1>3. BornChildless'
    BY <1>1 DEF BornChildless, PidsTyped
<1>4. AllLearned'
    BY <1>1 DEF AllLearned, Running, PidsTyped
<1> QED BY <1>2, <1>3, <1>4

LEMMA NextPid == PidInv /\ [Next]_vars => PidInv'
<1> SUFFICES ASSUME PidInv, [Next]_vars PROVE PidInv'
    OBVIOUS
<1>1. CASE UNCHANGED vars
    BY <1>1 DEF vars, PidInv, PidsTyped, BornChildless, AllLearned, Running
<1>2. ASSUME NEW p \in HostPids, NEW c \in HostPids, Fork(p, c) PROVE PidInv'
    BY <1>2, ForkKeepsPids
<1>3. ASSUME NEW p \in HostPids, NEW c \in HostPids, Wait(p, c) \/ Wait4(p, c) PROVE PidInv'
    BY <1>3, ReapKeeps DEF Wait, Wait4
<1>4. ASSUME NEW p \in HostPids, NEW c \in HostPids, Kill(p, c) PROVE PidInv'
    BY <1>4, GoneKeeps DEF Kill
<1>5. ASSUME NEW p \in HostPids, ChildOfFork(p) \/ Exit(p) PROVE PidInv'
    BY <1>5, ChildOfForkKeeps, GoneKeeps DEF Exit
<1> QED BY <1>1, <1>2, <1>3, <1>4, <1>5 DEF Next

---------------------------------------------------------------------------
\* kill and wait4 of a child or of the parent reach that process and no other,
\* unless the table was full, a pid with the same low 15 bits was learned, or
\* the First Edition layer met a pid of more than 15 bits.
THEOREM NamedReached == Spec => []NamedIsReached
<1>1. PidInv => NamedIsReached
    <2> SUFFICES ASSUME PidInv, NEW p \in HostPids, Running(p), NEW c \in Known(p),
                        Len(pidmap[p]) # PidSlots, ~AliasKnown(p, c), ~(kern = "V1" /\ c >= PidModulus)
                 PROVE  KillTarget(p, Low15(c)) = c /\ WaitTarget(p, Low15(c)) = c
        BY DEF NamedIsReached
    <2> USE DEF PidInv
    <2>1. Table(pidmap[p]) /\ c \in HostPids /\ Low15(c) # 0 /\ c # Reaper
        BY DEF PidsTyped, Known
    <2>2. \A k \in DOMAIN pidmap[p] : Low15(pidmap[p][k]) = Low15(c) => pidmap[p][k] = c
        BY DEF AliasKnown
    <2>3. CASE kern = "V1"
        <3>1. Low15(c) = c
            BY <2>1, <2>3, PidAssumption DEF Low15
        <3> QED BY <2>1, <2>2, <2>3, <3>1, FoundIfAlone DEF KillTarget, WaitTarget
    <2>4. CASE kern # "V1"
        <3>1. Holds(pidmap[p], c) /\ Holds(pidmap[p], p)
            BY <2>1, <2>4 DEF AllLearned, Learned, Known
        <3>2. pid_g2h(pidmap[p], Low15(c)) = c
            BY <2>1, <2>2, <3>1, FoundIfAlone
        <3>3. Low15(c) = Low15(p) => p = c
            BY <2>2, <3>1 DEF Holds
        <3> QED BY <3>2, <3>3 DEF KillTarget, WaitTarget
    <2> QED BY <2>3, <2>4
<1> QED BY <1>1, InitPid, NextPid, PTL DEF Spec
=============================================================================
