---------------------------- MODULE ApsimFiles ----------------------------
(***************************************************************************)
(* The descriptors of guest processes under pdp11-apsim                    *)
(* (src/pdp11-apsim/apsim.c): guest descriptors are the host's, but a      *)
(* directory, which the host does not let a program read, is served from a *)
(* snapshot made when it is opened, kept in a small table keyed by         *)
(* descriptor and copied by fork like everything else.  Open file          *)
(* descriptions, shared by dup and fork, are the host's and the            *)
(* environment.                                                            *)
(***************************************************************************)
EXTENDS ApsimKernel, FiniteSets

CONSTANTS
    Guests,   \* the guest processes there may be
    First,    \* the one there is at the start
    Fds,      \* the descriptors of a process: an initial segment of the naturals
    Descs,    \* open file descriptions of the host, as naturals
    NGDIR,    \* entries of gdirs (16)
    WordValues, \* number of values of a guest word (2^16)
    Block,    \* the unit of seek's modes 3 to 5 (512)
    Size,     \* length of the file and of the directory snapshot
    MaxPos    \* bound of the model: no offset goes beyond it

\* What the parameters are in every build: sizes, and -1 and 0 for no descriptor
\* and no description.
FilesAssumption ==
    /\ First \in Guests /\ Fds \subseteq Nat /\ Descs \subseteq Nat \ {0}
    /\ NGDIR \in Nat /\ Size \in Nat /\ Block \in Nat /\ WordValues \in Nat \ {0}
ASSUME FilesParameters == FilesAssumption

VARIABLES
    alive,    \* the guests there are
    fds,      \* descriptor -> open file description, 0 if closed
    desc,     \* open file description -> what it is open on, and the offset
    gdirs,    \* the directory snapshots of each process
    carry     \* whether the last dup2 failed (the C bit; the other calls here clear it)

fileVars == <<kern, alive, fds, desc, gdirs, carry>>

Slots == 1..NGDIR
NoDir == [fd |-> -1, pos |-> 0]
NoDesc == [obj |-> "none", pos |-> 0]

FilesInit ==
    /\ kern \in Kernels
    /\ alive = {First}
    /\ fds = [h \in Guests |-> [f \in Fds |-> 0]]
    /\ desc = [d \in Descs |-> NoDesc]
    /\ gdirs = [h \in Guests |-> [i \in Slots |-> NoDir]]
    /\ carry = FALSE

---------------------------------------------------------------------------
Collected(open, d) == [x \in Descs |-> IF \E p \in Guests, f \in Fds : open[p][f] = x THEN d[x] ELSE NoDesc]

\* fork(2) is the host's: the child has the descriptors and a copy of gdirs.
ForkFiles(p, c) ==
    /\ carry' = FALSE
    /\ p \in alive /\ c \notin alive
    /\ alive' = alive \union {c}
    /\ fds' = [fds EXCEPT ![c] = fds[p]]
    /\ gdirs' = [gdirs EXCEPT ![c] = gdirs[p]]
    /\ UNCHANGED <<kern, desc>>

ExitFiles(p) ==
    /\ carry' = FALSE
    /\ p \in alive
    /\ alive' = alive \ {p}
    /\ fds' = [fds EXCEPT ![p] = [f \in Fds |-> 0]]
    /\ desc' = Collected(fds', desc)
    /\ gdirs' = [gdirs EXCEPT ![p] = [i \in Slots |-> NoDir]]
    /\ UNCHANGED kern

FreeFd(p) == {f \in Fds : fds[p][f] = 0}
FreeDesc == {d \in Descs : desc[d].obj = "none"}
dir_find(p, f) == {i \in Slots : gdirs[p][i].fd = f}
dir_dropNot(p, f) == gdirs[p]
dir_drop(p, f) == [i \in Slots |-> IF i \in dir_find(p, f) THEN NoDir ELSE gdirs[p][i]]
dir_snapshotFirst(p, f) == [gdirs[p] EXCEPT ![1] = [fd |-> f, pos |-> 0]]
dir_snapshot(p, f) ==
    LET free == {i \in Slots : gdirs[p][i].fd = -1}
    IN IF free = {} THEN gdirs[p] ELSE [gdirs[p] EXCEPT ![Least(free)] = [fd |-> f, pos |-> 0]]

\* The V1 layer opens a directory like any file.
Open(p, obj) ==
    /\ carry' = FALSE
    /\ p \in alive /\ FreeFd(p) # {} /\ FreeDesc # {}
    /\ LET f == Least(FreeFd(p))
           d == Least(FreeDesc)
       IN /\ fds' = [fds EXCEPT ![p][f] = d]
          /\ desc' = [desc EXCEPT ![d] = [obj |-> obj, pos |-> 0]]
          /\ gdirs' = [gdirs EXCEPT ![p] = IF obj = "dir" /\ kern # "V1" THEN dir_snapshot(p, f) ELSE @]
          /\ UNCHANGED <<kern, alive>>

CloseLast(p, f) ==
    /\ carry' = FALSE
    /\ p \in alive /\ fds[p][f] # 0
    /\ fds' = [fds EXCEPT ![p][f] = 0]
    /\ desc' = Collected(fds', desc)
    /\ gdirs' = [gdirs EXCEPT ![p] = IF kern # "V1" /\ desc'[fds[p][f]].obj = "none" THEN dir_drop(p, f) ELSE @]
    /\ UNCHANGED <<kern, alive>>

Close(p, f) ==
    /\ carry' = FALSE
    /\ p \in alive /\ fds[p][f] # 0
    /\ fds' = [fds EXCEPT ![p][f] = 0]
    /\ desc' = Collected(fds', desc)
    /\ gdirs' = [gdirs EXCEPT ![p] = IF kern = "V1" THEN @ ELSE dir_drop(p, f)]
    /\ UNCHANGED <<kern, alive>>

\* dup, and fcntl(F_DUPFD) from 0: the First Edition has neither.
Dup(p, f) ==
    /\ carry' = FALSE
    /\ kern # "V1" /\ p \in alive /\ fds[p][f] # 0 /\ FreeFd(p) # {}
    /\ fds' = [fds EXCEPT ![p][Least(FreeFd(p))] = fds[p][f]]
    /\ UNCHANGED <<kern, alive, desc, gdirs>>

\* dup2(f, to).  The new descriptor is taken from a1, the second argument on
\* the stack: with inline arguments that is the word after the trap, and
\* never a descriptor, since the library passes `to' in r1.
Dup2Argument(to) == IF kern = "BSD" THEN {to} ELSE {}

Dup2(p, f, to) ==
    /\ kern \in {"V7", "BSD"} /\ p \in alive /\ fds[p][f] # 0 /\ f # to
    /\ carry' = (Dup2Argument(to) = {})
    /\ fds' = [fds EXCEPT ![p] = [x \in Fds |-> IF x \in Dup2Argument(to) THEN fds[p][f] ELSE @[x]]]
    /\ desc' = Collected(fds', desc)
    /\ UNCHANGED <<kern, alive, gdirs>>

LesserOf(a, b) == IF a < b THEN a ELSE b
GreaterOf(a, b) == IF a > b THEN a ELSE b

Signed(v, m) == IF v >= m \div 2 THEN v - m ELSE v

\* The offset of a seek: one word, signed unless counted from the start, in
\* blocks for modes 3 to 5 (V5, V6); the two words of a long, taken as they are
\* (V7 on).  The First Edition's is the word without the block modes.
SeekOffset(hi, lo, mode) ==
    LET short == IF mode = 0 THEN lo ELSE Signed(lo, WordValues)
    IN CASE kern = "V1"  -> short
         [] kern = "V56" -> IF mode >= 3 THEN short * Block ELSE short
         [] OTHER        -> hi * WordValues + lo

\* What the manual of each kernel makes of the words (for the properties).
Asked(hi, lo, mode) ==
    IF kern \in {"V1", "V56"}
    THEN (IF mode = 0 THEN lo ELSE Signed(lo, WordValues)) * (IF mode >= 3 THEN Block ELSE 1)
    ELSE Signed(hi * WordValues + lo, WordValues * WordValues)

SeekBase(mode, at) == CASE mode % 3 = 0 -> 0 [] mode % 3 = 1 -> at [] OTHER -> Size

\* The position in a snapshot is an int, which a long too large wraps into.
SnapshotSeek(to) == GreaterOf(0, IF kern \in {"V1", "V56"} THEN to ELSE Signed(to % (WordValues * WordValues), WordValues * WordValues))

\* Where a seek goes, by snapshot and by file; the host refuses to go below 0.
HasSnapshot(p, f) == kern # "V1" /\ dir_find(p, f) # {}
At(p, f) == IF HasSnapshot(p, f) THEN gdirs[p][Least(dir_find(p, f))].pos ELSE desc[fds[p][f]].pos
SeekTo(p, f, hi, lo, mode) ==
    LET to == SeekBase(mode, At(p, f)) + SeekOffset(hi, lo, mode)
    IN IF HasSnapshot(p, f) THEN SnapshotSeek(to) ELSE to

SetPos(p, f, pos) ==
    IF HasSnapshot(p, f)
    THEN gdirs' = [gdirs EXCEPT ![p][Least(dir_find(p, f))].pos = pos] /\ desc' = desc
    ELSE desc' = [desc EXCEPT ![fds[p][f]].pos = pos] /\ gdirs' = gdirs

\* read of n: the snapshot if the descriptor has one, else what the host does,
\* which for a directory is to fail.
Read(p, f, n) ==
    /\ carry' = FALSE
    /\ p \in alive /\ fds[p][f] # 0
    /\ HasSnapshot(p, f) \/ desc[fds[p][f]].obj # "dir"
    /\ SetPos(p, f, At(p, f) + GreaterOf(0, LesserOf(n, Size - At(p, f))))
    /\ UNCHANGED <<kern, alive, fds>>

Seek(p, f, hi, lo, mode) ==
    /\ carry' = FALSE
    /\ p \in alive /\ fds[p][f] # 0
    /\ SeekTo(p, f, hi, lo, mode) \in 0..MaxPos
    /\ SetPos(p, f, SeekTo(p, f, hi, lo, mode))
    /\ UNCHANGED <<kern, alive, fds>>

---------------------------------------------------------------------------
\* The forms of the call the libraries make.
SeekForms == {s \in (0..(WordValues - 1)) \X (0..(WordValues - 1)) \X (0..5) :
                 IF kern \in {"V1", "V56"} THEN s[1] = 0 /\ (s[3] > 2 => kern = "V56") ELSE s[3] < 3}

FilesNext ==
    \/ \E p, c \in Guests : ForkFiles(p, c)
    \/ \E p \in Guests : ExitFiles(p)
    \/ \E p \in Guests, obj \in {"file", "dir"} : Open(p, obj)
    \/ \E p \in Guests, f \in Fds : Close(p, f) \/ Dup(p, f)
    \/ \E p \in Guests, f, to \in Fds : Dup2(p, f, to)
    \/ \E p \in Guests, f \in Fds, n \in 1..Size : Read(p, f, n)
    \/ \E p \in Guests, f \in Fds, s \in SeekForms : Seek(p, f, s[1], s[2], s[3])

FilesSpec == FilesInit /\ [][FilesNext]_fileVars

---------------------------------------------------------------------------
(* Properties.                                                             *)

Snapshots(p) == {i \in Slots : gdirs[p][i].fd # -1}

\* No slot of gdirs leaks and none is taken twice: each belongs to one open
\* descriptor of the process, whatever was closed, duplicated or inherited.
SlotsOwned ==
    \A p \in Guests : \A i \in Snapshots(p) :
        /\ fds[p][gdirs[p][i].fd] # 0
        /\ \A j \in Snapshots(p) : gdirs[p][i].fd = gdirs[p][j].fd => i = j

\* A directory being read is not lost under the reader: while a descriptor
\* stays open its snapshot stays, whatever happens to the other descriptors,
\* and a child starts with the snapshots of its parent.
KeepsSnapshots ==
    \A p \in Guests, f \in Fds :
        dir_find(p, f) # {} =>
            /\ fds'[p][f] # 0 => dir_find(p, f)' # {}
            /\ \A c \in Guests : ForkFiles(p, c) => dir_find(c, f)' # {}
SnapshotKept == [][KeepsSnapshots]_fileVars

DirUnder(p, f) == fds[p][f] # 0 /\ desc[fds[p][f]].obj = "dir"

\* A snapshot is of the directory its descriptor is open on: only dup2 onto
\* that very descriptor leaves it behind, serving the old directory for the
\* new object.
BecomesStale(p, f) == dir_find(p, f)' # {} /\ ~DirUnder(p, f)' /\ ~(dir_find(p, f) # {} /\ ~DirUnder(p, f))
OnlyDup2Stales ==
    \A p \in Guests, f \in Fds :
        p \in alive /\ p \in alive' /\ BecomesStale(p, f) => \E from \in Fds : Dup2(p, from, f)
StaleOnlyByDup2 == [][OnlyDup2Stales]_fileVars

\* A seek lands where it was asked to, in a file and in a snapshot (where it
\* stops at 0), as long as that is a long at all.
Lands(p, f, hi, lo, mode) ==
    LET to == SeekBase(mode, At(p, f)) + Asked(hi, lo, mode)
    IN to < (WordValues * WordValues) \div 2 =>
          SeekTo(p, f, hi, lo, mode) = IF HasSnapshot(p, f) THEN GreaterOf(0, to) ELSE to

\* Every seek does, but for the negative long offset on a file, which the code
\* leaves unsigned (the host's long is wider).
SeekLandsForward ==
    \A p \in alive, f \in Fds : fds[p][f] # 0 => \A s \in SeekForms :
        \/ Lands(p, f, s[1], s[2], s[3])
        \/ ~HasSnapshot(p, f) /\ kern \in {"V7", "BSD"} /\ Asked(s[1], s[2], s[3]) < 0

DescriptorsSound == SlotsOwned /\ SeekLandsForward
============================================================================
