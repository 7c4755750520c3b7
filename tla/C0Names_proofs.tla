--------------------------- MODULE C0Names_proofs ---------------------------
(***************************************************************************)
(* Theorems about the first pass's symbol table, for any names, any hash,  *)
(* any number of slots and any depth of blocks.                            *)
(***************************************************************************)
EXTENDS C0Names, FiniteSetTheorems, WellFoundedInduction, TLAPS

---------------------------------------------------------------------------
(* Arithmetic and recursion.                                               *)

LEMMA LeastNat ==
    ASSUME NEW T \in SUBSET Nat, T # {}
    PROVE  \E x \in T : \A y \in T : x <= y
<1> DEFINE R == {ss \in Nat \X Nat : ss[1] < ss[2]}
<1>1. IsWellFoundedOn(R, Nat)
    BY NatLessThanWellFounded DEF OpToRel
<1>2. PICK x \in T : \A y \in T : <<y, x>> \notin R
    BY <1>1, WFMin, Zenon
<1>3. ASSUME NEW y \in T PROVE x <= y
    <2>1. x \in Nat /\ y \in Nat
        OBVIOUS
    <2>2. ~(y < x)
        BY <1>2, <2>1
    <2> QED BY <2>1, <2>2, SMT
<1> QED BY <1>3

LEMMA MinIsLeast ==
    ASSUME NEW T \in SUBSET Nat, T # {}
    PROVE  Min(T) \in T /\ \A y \in T : Min(T) <= y
<1>1. \E x \in T : \A y \in T : x <= y
    BY LeastNat
<1> QED BY <1>1 DEF Min

\* What holds at 0 and of k + 1 when of k holds up to b.
LEMMA UpTo ==
    ASSUME NEW b \in Nat, NEW S, 0 \in S,
           \A k \in 0..(b - 1) : k \in S => k + 1 \in S
    PROVE  \A k \in 0..b : k \in S
<1> DEFINE T == {k \in 0..b : k \notin S}
<1> SUFFICES ASSUME T # {} PROVE FALSE
    OBVIOUS
<1>1. PICK m \in T : \A y \in T : m <= y
    <2>1. T \in SUBSET Nat
        OBVIOUS
    <2> HIDE DEF T
    <2> QED BY <2>1, LeastNat
<1>2. m \in 0..b /\ m \notin S /\ m # 0
    BY <1>1
<1>3. m - 1 \in 0..(b - 1) /\ m - 1 \in 0..b
    BY <1>2
<1>4. m - 1 \in S
    BY <1>1, <1>3
<1>5. (m - 1) + 1 \in S
    BY <1>3, <1>4
<1> QED BY <1>2, <1>5

\* A function defined by recursion over 0..b exists.
Stepwise(X, b, base, St) == \E f \in [0..b -> X] : f[0] = base /\ \A k \in 1..b : f[k] = St[<<f[k - 1], k>>]
LEMMA Recursion ==
    ASSUME NEW X, NEW b \in Nat, NEW base \in X, NEW St, St \in [X \X (1..b) -> X]
    PROVE  Stepwise(X, b, base, St)
<1> DEFINE P(m) == \E f \in [0..m -> X] : f[0] = base /\ \A k \in 1..m : f[k] = St[<<f[k - 1], k>>]
           S == {m \in 0..b : P(m)}
<1>1. 0 \in S
    <2> DEFINE f0 == [k \in 0..0 |-> base]
    <2>1. f0 \in [0..0 -> X] /\ f0[0] = base /\ \A k \in 1..0 : f0[k] = St[<<f0[k - 1], k>>]
        OBVIOUS
    <2>2. P(0)
        <3> HIDE DEF f0
        <3> QED BY <2>1
    <2> QED BY <2>2
<1>2. ASSUME NEW m \in 0..(b - 1), m \in S PROVE m + 1 \in S
    <2>1. PICK f \in [0..m -> X] : f[0] = base /\ \A k \in 1..m : f[k] = St[<<f[k - 1], k>>]
        BY <1>2
    <2> DEFINE g == [k \in 0..(m + 1) |-> IF k = m + 1 THEN St[<<f[m], m + 1>>] ELSE f[k]]
    <2>2. m \in 0..m /\ m + 1 \in 1..b /\ f[m] \in X
        OBVIOUS
    <2>3. St[<<f[m], m + 1>>] \in X
        BY <2>2
    <2>4. g \in [0..(m + 1) -> X]
        BY <2>3
    <2>5. g[0] = base
        BY <2>1
    <2>6. ASSUME NEW k \in 1..(m + 1) PROVE g[k] = St[<<g[k - 1], k>>]
        <3>1. CASE k = m + 1
            <4>1. k \in 0..(m + 1) /\ k - 1 = m /\ m \in 0..(m + 1) /\ m # m + 1
                BY <3>1
            <4>2. g[k] = St[<<f[m], m + 1>>] /\ g[m] = f[m]
                BY <3>1, <4>1
            <4> HIDE DEF g
            <4> QED BY <3>1, <4>1, <4>2
        <3>2. CASE k # m + 1
            <4>1. k \in 1..m /\ k - 1 \in 0..m /\ k \in 0..m
                BY <3>2
            <4>2. g[k] = f[k] /\ g[k - 1] = f[k - 1]
                BY <4>1
            <4> HIDE DEF g
            <4> QED BY <2>1, <4>1, <4>2
        <3> QED BY <3>1, <3>2
    <2>7. P(m + 1)
        <3> HIDE DEF g
        <3> QED BY <2>4, <2>5, <2>6
    <2> QED BY <2>2, <2>7
<1>3. b \in S
    <2> HIDE DEF S
    <2>1. \A k \in 0..b : k \in S
        BY <1>1, <1>2, UpTo
    <2> QED BY <2>1
<1> QED BY <1>3 DEF Stepwise

LEMMA Size == HSHSIZ \in Nat /\ HSHSIZ > 0 /\ \A n \in Names : Hash(n) \in 0..(HSHSIZ - 1)
<1>1. HSHSIZ \in Nat \ {0} /\ \A n \in Names : Hash(n) \in 0..(HSHSIZ - 1)
    BY NamesAssumption, Zenon
<1>2. HSHSIZ \in Nat \ {0} => HSHSIZ \in Nat /\ HSHSIZ > 0
    OBVIOUS
<1> QED BY <1>1, <1>2, Zenon

LEMMA Positive == HSHSIZ \in Nat /\ HSHSIZ > 0 /\ HSHSIZ - 1 \in Int
<1>1. HSHSIZ \in Nat \ {0}
    BY NamesAssumption, Zenon
<1>2. HSHSIZ \in Nat \ {0} => HSHSIZ \in Nat /\ HSHSIZ > 0 /\ HSHSIZ - 1 \in Int
    OBVIOUS
<1> QED BY <1>1, <1>2, Zenon

LEMMA Depths == MaxDepth \in Nat /\ MaxDepth > 0 /\ \A l \in 0..MaxDepth : l \in Nat /\ \A k \in 0..l : k \in 0..MaxDepth
<1>1. MaxDepth \in Nat \ {0}
    BY NamesAssumption, Zenon
<1>2. MaxDepth \in Nat \ {0} => MaxDepth \in Nat /\ MaxDepth > 0 /\ \A l \in 0..MaxDepth : l \in Nat /\ \A k \in 0..l : k \in 0..MaxDepth
    OBVIOUS
<1> QED BY <1>1, <1>2, Zenon

LEMMA Wrap ==
    ASSUME NEW a \in Slots, NEW k \in Slots
    PROVE  (a + k) % HSHSIZ = IF a + k < HSHSIZ THEN a + k ELSE a + k - HSHSIZ
<1>1. CASE a + k < HSHSIZ
    <2>1. a + k \in 0..(HSHSIZ - 1)
        BY <1>1, Size DEF Slots
    <2> QED BY <1>1, <2>1, Size
<1>2. CASE a + k >= HSHSIZ
    <2>1. a + k - HSHSIZ \in 0..(HSHSIZ - 1)
        BY <1>2, Size DEF Slots
    <2>2. a + k = HSHSIZ * 1 + (a + k - HSHSIZ)
        BY Size DEF Slots
    <2> QED BY <1>2, <2>1, <2>2, Size
<1> QED BY <1>1, <1>2, Size DEF Slots

\* A probe reaches every slot, and each by one number of steps.
LEMMA ProbeIs ==
    ASSUME NEW n \in Names, NEW k \in Slots
    PROVE  Probe(n, k) = IF Hash(n) + k < HSHSIZ THEN Hash(n) + k ELSE Hash(n) + k - HSHSIZ
BY Wrap, Size DEF Probe, Slots
LEMMA ProbeSlot ==
    ASSUME NEW n \in Names, NEW k \in Slots PROVE Probe(n, k) \in Slots
<1>1. Hash(n) \in 0..(HSHSIZ - 1) /\ HSHSIZ \in Nat
    BY Size
<1> QED BY <1>1, ProbeIs DEF Slots
LEMMA ProbeReaches ==
    ASSUME NEW n \in Names, NEW i \in Slots PROVE \E k \in Slots : Probe(n, k) = i
<1> DEFINE k == IF i >= Hash(n) THEN i - Hash(n) ELSE i - Hash(n) + HSHSIZ
<1>1. Hash(n) \in 0..(HSHSIZ - 1) /\ HSHSIZ \in Nat
    BY Size, Zenon
<1>2. k \in Slots
    BY <1>1 DEF Slots
<1>3. Probe(n, k) = i
    BY <1>1, <1>2, ProbeIs DEF Slots
<1> QED BY <1>2, <1>3

---------------------------------------------------------------------------
(* What a table is, and when lookup finds a name in it.                    *)

Classes == {"", "EXTERN", "TYPEDEF", "ARG1", "ARG", "AREG", "AUTO", "REG", "STATIC", "STRTAG", "MOS"}
Types == {"int", "char", "double", "fn", "label"}
Decls == [hclass : Classes, lab : BOOLEAN, htype : Types, hoffset : Int]
Hidden == [d : Decls, hblklev : Nat]
Slot == [name : Names \cup {""}, mos : BOOLEAN, hblklev : Nat, d : Decls, hpdown : Seq(Hidden)]
Tables == [Slots -> Slot]

Depth(s) == Len(s.hpdown)
Level(s, k) == IF k = 0 THEN s.hblklev ELSE s.hpdown[k].hblklev
Decl(s, k) == IF k = 0 THEN s.d ELSE s.hpdown[k].d
\* The block the name was entered in.
Bottom(s) == Level(s, Depth(s))

Taken(t, i) == t[i].name # ""
Named(s, n, mos) == s.name = n /\ s.mos = mos
Is(t, i, n, mos) == t[i].name = n /\ t[i].mos = mos
\* Before a name on its probe come only names entered no deeper.
Path(t, i) ==
    \E k \in Slots : /\ Probe(t[i].name, k) = i
                     /\ \A m \in 0..(k - 1) : LET j == Probe(t[i].name, m) IN Taken(t, j) /\ Bottom(t[j]) <= Bottom(t[i])
Room(t) == \E i \in Slots : t[i].name = ""
Clean(t) == \A i \in Slots : t[i].name = "" => t[i] = Free
Unique(t) == \A i, j \in Slots : Taken(t, i) /\ t[i].name = t[j].name /\ t[i].mos = t[j].mos => i = j

LEMMA LookupStops ==
    ASSUME NEW t \in Tables, Room(t), NEW n \in Names, NEW mos \in BOOLEAN
    PROVE  \E k \in Slots : /\ lookup(t, n, mos) = Probe(n, k)
                            /\ ~Taken(t, Probe(n, k)) \/ Is(t, Probe(n, k), n, mos)
                            /\ \A m \in 0..(k - 1) : Taken(t, Probe(n, m)) /\ ~Is(t, Probe(n, m), n, mos)
<1> DEFINE T == {k \in Slots : t[Probe(n, k)].name = "" \/ (t[Probe(n, k)].name = n /\ t[Probe(n, k)].mos = mos)}
<1>1. PICK i \in Slots : t[i].name = ""
    BY DEF Room
<1>2. PICK k \in Slots : Probe(n, k) = i
    BY ProbeReaches
<1>3. T # {} /\ T \in SUBSET Nat
    <2>1. k \in T
        BY <1>1, <1>2
    <2>2. Slots \subseteq Nat
        BY Size DEF Slots
    <2> QED BY <2>1, <2>2
<1>4. Min(T) \in T /\ \A y \in T : Min(T) <= y
    <2> HIDE DEF T
    <2> QED BY <1>3, MinIsLeast
<1>5. lookup(t, n, mos) = Probe(n, Min(T))
    BY DEF lookup
<1>6. ASSUME NEW m \in 0..(Min(T) - 1) PROVE Taken(t, Probe(n, m)) /\ ~Is(t, Probe(n, m), n, mos)
    <2>1. Min(T) \in Slots
        BY <1>4
    <2>2. m \in Slots /\ ~(Min(T) <= m)
        <3> HIDE DEF T
        <3> QED BY <2>1, <1>6, Size DEF Slots
    <2>3. m \notin T
        BY <1>4, <2>2
    <2> QED BY <2>2, <2>3 DEF Taken, Is
<1>7. ~Taken(t, Probe(n, Min(T))) \/ Is(t, Probe(n, Min(T)), n, mos)
    BY <1>4 DEF Taken, Is
<1>8. Min(T) \in Slots
    BY <1>4
<1> HIDE DEF T
<1> QED BY <1>5, <1>6, <1>7, <1>8

LEMMA LookupSlot ==
    ASSUME NEW t \in Tables, Room(t), NEW n \in Names, NEW mos \in BOOLEAN
    PROVE  /\ lookup(t, n, mos) \in Slots
           /\ ~Taken(t, lookup(t, n, mos)) \/ Is(t, lookup(t, n, mos), n, mos)
BY LookupStops, ProbeSlot

\* lookup finds what is there.
LEMMA LookupFinds ==
    ASSUME NEW t \in Tables, Room(t), Unique(t), NEW i \in Slots, Taken(t, i), Path(t, i)
    PROVE  lookup(t, t[i].name, t[i].mos) = i
<1> DEFINE n == t[i].name
           mos == t[i].mos
<1>1. n \in Names /\ mos \in BOOLEAN
    BY DEF Tables, Slot, Taken
<1>2. PICK k \in Slots : /\ Probe(n, k) = i
                         /\ \A m \in 0..(k - 1) : Taken(t, Probe(n, m))
    BY DEF Path
<1>3. PICK l \in Slots : /\ lookup(t, n, mos) = Probe(n, l)
                         /\ ~Taken(t, Probe(n, l)) \/ Is(t, Probe(n, l), n, mos)
                         /\ \A m \in 0..(l - 1) : Taken(t, Probe(n, m)) /\ ~Is(t, Probe(n, m), n, mos)
    BY <1>1, LookupStops
<1>4. ~(k < l)
    <2> SUFFICES ASSUME k < l PROVE FALSE
        OBVIOUS
    <2>1. k \in 0..(l - 1)
        BY DEF Slots
    <2>2. ~Is(t, i, n, mos)
        BY <1>2, <1>3, <2>1
    <2> QED BY <2>2 DEF Is
<1>5. CASE k = l
    BY <1>2, <1>3, <1>5
<1>6. CASE l < k
    <2>1. l \in 0..(k - 1)
        BY <1>6 DEF Slots
    <2>2. Is(t, Probe(n, l), n, mos)
        BY <1>2, <1>3, <2>1
    <2>3. Probe(n, l) = i
        BY <2>2, <1>1, ProbeSlot DEF Unique, Is, Taken
    <2> QED BY <1>3, <2>3
<1> QED BY <1>4, <1>5, <1>6, Size DEF Slots

\* What is not there is looked up at a free slot, past names only.
LEMMA LookupMisses ==
    ASSUME NEW t \in Tables, Room(t), NEW n \in Names, NEW mos \in BOOLEAN,
           ~Taken(t, lookup(t, n, mos))
    PROVE  /\ \E k \in Slots : /\ Probe(n, k) = lookup(t, n, mos)
                               /\ \A m \in 0..(k - 1) : Taken(t, Probe(n, m))
           /\ (Unique(t) /\ \A i \in Slots : Taken(t, i) => Path(t, i)) => \A i \in Slots : ~Is(t, i, n, mos)
<1>1. PICK k \in Slots : /\ lookup(t, n, mos) = Probe(n, k)
                         /\ \A m \in 0..(k - 1) : Taken(t, Probe(n, m)) /\ ~Is(t, Probe(n, m), n, mos)
    BY LookupStops
<1>2. ASSUME Unique(t), \A i \in Slots : Taken(t, i) => Path(t, i), NEW i \in Slots, Is(t, i, n, mos)
      PROVE  FALSE
    <2>1. Taken(t, i)
        BY <1>2, NamesAssumption DEF Is, Taken
    <2>2. lookup(t, n, mos) = i
        BY <1>2, <2>1, LookupFinds DEF Is
    <2> QED BY <2>1, <2>2
<1> QED BY <1>1, <1>2

---------------------------------------------------------------------------
(* One slot and the declarations of its name, by block level.              *)

\* What is declared is not Undeclared; without a class it is a label not met yet.
Declared(d, mos) == d # Undeclared /\ (d.hclass = "" => d.lab /\ d.htype = "label" /\ ~mos)
Column(sc, n, mos) == [l \in 0..MaxDepth |-> sc[l][<<n, mos>>]]
Columns == [0..MaxDepth -> Decls]

Within(s, lev) == \A k \in 0..Depth(s) : Level(s, k) \in 0..lev /\ Declared(Decl(s, k), s.mos)
Descends(s) == \A k, l \in 0..Depth(s) : k < l => Level(s, l) < Level(s, k) \/ (Level(s, k) = 0 /\ Level(s, l) = 0)
Agreed(s, g) == \A k \in 0..Depth(s) : k = 0 \/ Level(s, k - 1) > 0 => g[Level(s, k)] = Decl(s, k)
Complete(s, g) == \A l \in 0..MaxDepth : g[l] # Undeclared => \E k \in 0..Depth(s) : Level(s, k) = l
\* A label hides only what the file declares.
LabelsOnFiles(s) == \A k \in 1..Depth(s) : Decl(s, k - 1).lab => Level(s, k) = 0
Denotes(s, g, lev) == Within(s, lev) /\ Descends(s) /\ Agreed(s, g) /\ Complete(s, g) /\ LabelsOnFiles(s)

LEMMA SlotFields ==
    ASSUME NEW s \in Slot
    PROVE  /\ s.name \in Names \cup {""} /\ s.mos \in BOOLEAN /\ s.hblklev \in Nat /\ s.d \in Decls
           /\ s.hpdown \in Seq(Hidden)
BY Zenon DEF Slot
LEMMA DepthNat ==
    ASSUME NEW s \in Slot
    PROVE  Depth(s) \in Nat /\ Len(s.hpdown) = Depth(s) /\ \A k \in 1..Depth(s) : s.hpdown[k] \in Hidden
<1>1. s.hpdown \in Seq(Hidden)
    BY SlotFields
<1> QED BY <1>1 DEF Depth
LEMMA SetField ==
    ASSUME NEW s \in Slot, NEW d \in Decls
    PROVE  LET u == [s EXCEPT !.d = d] IN
           /\ u \in Slot /\ u.d = d /\ u.name = s.name /\ u.mos = s.mos /\ u.hblklev = s.hblklev /\ u.hpdown = s.hpdown
BY DEF Slot
LEMMA LevelField ==
    ASSUME NEW s \in Slot, NEW l \in Nat
    PROVE  LET u == [s EXCEPT !.hblklev = l] IN
           /\ u \in Slot /\ u.d = s.d /\ u.name = s.name /\ u.mos = s.mos /\ u.hblklev = l /\ u.hpdown = s.hpdown
BY DEF Slot
LEMMA LevelNat ==
    ASSUME NEW s \in Slot, NEW k \in 0..Depth(s)
    PROVE  Level(s, k) \in Nat /\ Decl(s, k) \in Decls
<1>1. CASE k = 0
    BY <1>1, SlotFields DEF Level, Decl
<1>2. CASE k # 0
    <2>1. k \in 1..Depth(s)
        BY <1>2, DepthNat
    <2>2. s.hpdown[k] \in Hidden
        BY <2>1, DepthNat
    <2> QED BY <1>2, <2>2 DEF Hidden, Level, Decl
<1> QED BY <1>1, <1>2

LEMMA BottomLevel ==
    ASSUME NEW s \in Slot PROVE Bottom(s) \in Nat /\ (Descends(s) => Bottom(s) <= s.hblklev)
<1>1. Depth(s) \in 0..Depth(s) /\ 0 \in 0..Depth(s)
    BY DepthNat
<1>2. Level(s, Depth(s)) \in Nat /\ s.hblklev \in Nat /\ Level(s, 0) = s.hblklev
    BY <1>1, LevelNat DEF Level, Slot
<1>3. CASE Depth(s) = 0
    BY <1>2, <1>3 DEF Bottom
<1>4. CASE Depth(s) > 0
    BY <1>1, <1>2, <1>4 DEF Bottom, Descends
<1> QED BY <1>3, <1>4, DepthNat

LEMMA DenotesFresh ==
    ASSUME NEW s \in Slot, s.hpdown = <<>>, NEW lev \in 0..MaxDepth, s.hblklev = lev,
           Declared(s.d, s.mos), NEW g \in Columns, \A l \in 0..MaxDepth : g[l] = Undeclared
    PROVE  Denotes(s, [g EXCEPT ![lev] = s.d], lev) /\ Bottom(s) = lev
<1>1. Depth(s) = 0
    BY DEF Depth
<1>2. Level(s, 0) = lev /\ Decl(s, 0) = s.d /\ lev \in Nat
    BY DEF Level, Decl
<1>3. Within(s, lev) /\ Descends(s) /\ LabelsOnFiles(s) /\ Bottom(s) = lev
    BY <1>1, <1>2 DEF Within, Descends, LabelsOnFiles, Bottom
<1>4. Agreed(s, [g EXCEPT ![lev] = s.d])
    BY <1>1, <1>2 DEF Agreed, Columns
<1>5. Complete(s, [g EXCEPT ![lev] = s.d])
    BY <1>1, <1>2 DEF Complete, Columns
<1> QED BY <1>3, <1>4, <1>5 DEF Denotes

\* A declaration that takes the place of the one in force.
LEMMA DenotesSet ==
    ASSUME NEW s \in Slot, NEW lev \in 0..MaxDepth, NEW g \in Columns, Denotes(s, g, lev),
           NEW d \in Decls, Declared(d, s.mos), d.lab => s.d.lab \/ s.hpdown = <<>>
    PROVE  /\ Denotes([s EXCEPT !.d = d], [g EXCEPT ![s.hblklev] = d], lev)
           /\ Bottom([s EXCEPT !.d = d]) = Bottom(s) /\ [s EXCEPT !.d = d] \in Slot
<1> DEFINE u == [s EXCEPT !.d = d]
           h == [g EXCEPT ![s.hblklev] = d]
<1>1. /\ u \in Slot /\ u.d = d /\ u.mos = s.mos /\ u.hblklev = s.hblklev /\ u.hpdown = s.hpdown
      /\ Depth(u) = Depth(s) /\ Depth(s) \in Nat
    BY DepthNat, SetField DEF Depth
<1> HIDE DEF u
<1>2. \A k \in 0..Depth(s) : Level(u, k) = Level(s, k) /\ Level(s, k) \in 0..lev
    BY <1>1 DEF Level, Denotes, Within
<1>3. Decl(u, 0) = d /\ \A k \in 1..Depth(s) : Decl(u, k) = Decl(s, k)
    BY <1>1 DEF Decl
<1>4. Level(s, 0) = s.hblklev /\ s.hblklev \in 0..MaxDepth
    <2>1. Level(s, 0) \in 0..lev /\ lev \in 0..MaxDepth
        BY <1>1, <1>2
    <2>2. Level(s, 0) \in 0..MaxDepth
        BY <2>1, Depths
    <2> QED BY <2>2 DEF Level
<1>5. Within(u, lev)
    BY <1>1, <1>2, <1>3 DEF Denotes, Within
<1>6. Descends(u)
    BY <1>1, <1>2 DEF Denotes, Descends
<1>7. Agreed(u, h)
    <2> SUFFICES ASSUME NEW k \in 0..Depth(s), k = 0 \/ Level(s, k - 1) > 0 PROVE h[Level(s, k)] = Decl(u, k)
        BY <1>1, <1>2 DEF Agreed
    <2>1. CASE k = 0
        BY <1>3, <1>4, <2>1 DEF Columns
    <2>2. CASE k # 0
        <3>1. k \in 1..Depth(s) /\ k - 1 \in 0..Depth(s)
            BY <1>1, <2>2
        <3>2. Level(s, k) < Level(s, 0)
            <4>1. k - 1 # 0 => Level(s, k - 1) < Level(s, 0) \/ Level(s, k - 1) = 0
                BY <3>1, <1>1 DEF Denotes, Descends
            <4>2. Level(s, k) < Level(s, k - 1)
                BY <3>1, <1>1, <1>2, <2>2 DEF Denotes, Descends
            <4>3. Level(s, k) \in Nat /\ Level(s, k - 1) \in Nat /\ Level(s, 0) \in Nat
                BY <1>1, <1>2, <3>1
            <4> QED BY <4>1, <4>2, <4>3, <3>1
        <3>3. g[Level(s, k)] = Decl(s, k)
            BY <1>1, <2>2 DEF Denotes, Agreed
        <3>4. Level(s, k) \in 0..MaxDepth /\ Level(s, k) # s.hblklev
            <4>1. Level(s, k) \in 0..lev /\ Level(s, 0) \in 0..lev /\ lev \in 0..MaxDepth
                <5>1. k \in 0..Depth(s) /\ 0 \in 0..Depth(s)
                    BY <1>1, <3>1
                <5> QED BY <1>2, <5>1
            <4> QED BY <4>1, <3>2, <1>4, Depths
        <3> QED BY <1>3, <3>1, <3>3, <3>4 DEF Columns
    <2> QED BY <2>1, <2>2
<1>8. Complete(u, h)
    <2> SUFFICES ASSUME NEW l \in 0..MaxDepth, h[l] # Undeclared PROVE \E k \in 0..Depth(s) : Level(s, k) = l
        BY <1>1, <1>2 DEF Complete
    <2>1. CASE l = s.hblklev
        BY <1>1, <1>4, <2>1
    <2>2. CASE l # s.hblklev
        <3>1. h[l] = g[l]
            BY <2>2 DEF Columns
        <3> QED BY <3>1 DEF Denotes, Complete
    <2> QED BY <2>1, <2>2
<1>9. LabelsOnFiles(u)
    <2> SUFFICES ASSUME NEW k \in 1..Depth(s), Decl(u, k - 1).lab PROVE Level(s, k) = 0
        BY <1>1, <1>2 DEF LabelsOnFiles
    <2>1. Decl(s, k - 1).lab
        <3>1. CASE k = 1
            <4>1. s.hpdown # <<>>
                BY <3>1 DEF Depth
            <4> QED BY <1>3, <3>1, <4>1 DEF Decl
        <3>2. CASE k # 1
            <4>1. k - 1 \in 1..Depth(s)
                BY <1>1, <3>2
            <4> QED BY <1>3, <4>1
        <3> QED BY <3>1, <3>2
    <2> QED BY <2>1 DEF Denotes, LabelsOnFiles
<1>10. Bottom(u) = Bottom(s)
    BY <1>1, <1>2 DEF Bottom
<1> QED BY <1>1, <1>5, <1>6, <1>7, <1>8, <1>9, <1>10 DEF Denotes, u

\* pushdecl, and the declaration set over the one pushed down.
Over(s, d, lev) == [s EXCEPT !.d = d, !.hblklev = lev, !.hpdown = <<[d |-> s.d, hblklev |-> s.hblklev]>> \o s.hpdown]
LEMMA DenotesPush ==
    ASSUME NEW s \in Slot, NEW lev \in 0..MaxDepth, NEW g \in Columns, Denotes(s, g, lev), s.hblklev < lev,
           NEW d \in Decls, Declared(d, s.mos), d.lab => s.hblklev = 0
    PROVE  /\ Denotes(Over(s, d, lev), [g EXCEPT ![lev] = d], lev)
           /\ Bottom(Over(s, d, lev)) = Bottom(s) /\ Over(s, d, lev) \in Slot
<1> DEFINE u == Over(s, d, lev)
           h == [g EXCEPT ![lev] = d]
           top == [d |-> s.d, hblklev |-> s.hblklev]
<1>1. /\ u \in Slot /\ u.mos = s.mos /\ Depth(u) = Depth(s) + 1 /\ Depth(s) \in Nat
      /\ u.hpdown = <<top>> \o s.hpdown
    <2>1. top \in Hidden /\ s.hpdown \in Seq(Hidden) /\ lev \in Nat
        BY SlotFields, Depths DEF Hidden
    <2>2. <<top>> \o s.hpdown \in Seq(Hidden) /\ Len(<<top>> \o s.hpdown) = Len(s.hpdown) + 1 /\ Len(s.hpdown) \in Nat
        <3> HIDE DEF top
        <3> QED BY <2>1
    <2>3. u \in Slot /\ u.mos = s.mos /\ u.hpdown = <<top>> \o s.hpdown
        <3> DEFINE q == <<top>> \o s.hpdown
        <3>1. u = [s EXCEPT !.d = d, !.hblklev = lev, !.hpdown = q]
            BY DEF Over
        <3>2. q \in Seq(Hidden)
            BY <2>2
        <3> HIDE DEF u, q
        <3>3. u \in Slot /\ u.mos = s.mos /\ u.hpdown = q
            BY <2>1, <3>1, <3>2 DEF Slot
        <3> QED BY <3>3 DEF q
    <2> QED BY <2>2, <2>3 DEF Depth
<1>2. \A k \in 0..Depth(s) : Level(u, k + 1) = Level(s, k) /\ Decl(u, k + 1) = Decl(s, k)
    <2> SUFFICES ASSUME NEW k \in 0..Depth(s) PROVE Level(u, k + 1) = Level(s, k) /\ Decl(u, k + 1) = Decl(s, k)
        OBVIOUS
    <2>1. s.hpdown \in Seq(Hidden) /\ Len(s.hpdown) = Depth(s)
        BY DEF Slot, Depth
    <2>2. k = 0 => u.hpdown[k + 1] = top
        BY <1>1, <2>1
    <2>3. k # 0 => u.hpdown[k + 1] = s.hpdown[k]
        BY <1>1, <2>1
    <2> HIDE DEF u
    <2> QED BY <2>2, <2>3 DEF Level, Decl
<1>3. Level(u, 0) = lev /\ Decl(u, 0) = d
    BY DEF Level, Decl, Over, Slot
<1>4. \A k \in 0..Depth(s) : Level(s, k) \in 0..lev /\ Level(s, k) < lev
    <2>1. Level(s, 0) = s.hblklev
        BY DEF Level
    <2>2. \A k \in 0..Depth(s) : Level(s, k) \in 0..lev
        BY DEF Denotes, Within
    <2> QED BY <1>1, <2>1, <2>2 DEF Denotes, Descends
<1> HIDE DEF u
<1>5. \A k \in 1..Depth(u) : k - 1 \in 0..Depth(s) /\ Level(u, k) = Level(s, k - 1) /\ Decl(u, k) = Decl(s, k - 1)
    <2> SUFFICES ASSUME NEW k \in 1..Depth(u) PROVE k - 1 \in 0..Depth(s) /\ Level(u, k) = Level(s, k - 1) /\ Decl(u, k) = Decl(s, k - 1)
        OBVIOUS
    <2>1. k - 1 \in 0..Depth(s) /\ (k - 1) + 1 = k
        BY <1>1
    <2> QED BY <1>2, <2>1
<1>6. Within(u, lev)
    <2>1. ASSUME NEW k \in 0..Depth(u), k # 0 PROVE Level(u, k) \in 0..lev /\ Declared(Decl(u, k), u.mos)
        <3>1. k \in 1..Depth(u)
            BY <1>1, <2>1
        <3> QED BY <1>1, <1>5, <3>1 DEF Denotes, Within
    <2>2. lev \in 0..lev
        OBVIOUS
    <2> QED BY <1>1, <1>3, <2>1, <2>2 DEF Within
<1>7. Descends(u)
    <2> SUFFICES ASSUME NEW k \in 0..Depth(u), NEW l \in 0..Depth(u), k < l
                 PROVE Level(u, l) < Level(u, k) \/ (Level(u, k) = 0 /\ Level(u, l) = 0)
        BY DEF Descends
    <2>1. l \in 1..Depth(u) /\ l - 1 \in 0..Depth(s) /\ Level(u, l) = Level(s, l - 1)
        BY <1>1, <1>5
    <2>2. CASE k = 0
        BY <1>3, <1>4, <2>1, <2>2
    <2>3. CASE k # 0
        <3>1. k \in 1..Depth(u) /\ k - 1 < l - 1
            BY <1>1, <2>3
        <3>2. k - 1 \in 0..Depth(s) /\ Level(u, k) = Level(s, k - 1)
            BY <1>5, <3>1
        <3> QED BY <2>1, <3>1, <3>2 DEF Denotes, Descends
    <2> QED BY <2>2, <2>3
<1>8. Agreed(u, h)
    <2> SUFFICES ASSUME NEW k \in 0..Depth(u), k = 0 \/ Level(u, k - 1) > 0 PROVE h[Level(u, k)] = Decl(u, k)
        BY DEF Agreed
    <2>1. CASE k = 0
        BY <1>3, <2>1 DEF Columns
    <2>2. CASE k # 0
        <3>1. k \in 1..Depth(u) /\ k - 1 \in 0..Depth(s) /\ Level(u, k) = Level(s, k - 1) /\ Decl(u, k) = Decl(s, k - 1)
            BY <1>1, <1>5, <2>2
        <3>2. k - 1 = 0 \/ Level(s, (k - 1) - 1) > 0
            <4>1. CASE k = 1
                BY <4>1
            <4>2. CASE k # 1
                <5>1. k - 1 \in 1..Depth(u)
                    BY <3>1, <4>2, <1>1
                <5> QED BY <1>5, <2>2, <5>1
            <4> QED BY <4>1, <4>2
        <3>3. g[Level(s, k - 1)] = Decl(s, k - 1)
            BY <3>1, <3>2 DEF Denotes, Agreed
        <3>4. Level(s, k - 1) \in 0..MaxDepth /\ Level(s, k - 1) # lev
            <4>1. k - 1 \in 0..Depth(s) /\ Level(s, k - 1) \in 0..lev /\ Level(s, k - 1) < lev /\ lev \in 0..MaxDepth
                BY <1>4, <3>1
            <4> QED BY <4>1, Depths
        <3> QED BY <3>1, <3>3, <3>4 DEF Columns
    <2> QED BY <2>1, <2>2
<1>9. Complete(u, h)
    <2> SUFFICES ASSUME NEW l \in 0..MaxDepth, h[l] # Undeclared PROVE \E k \in 0..Depth(u) : Level(u, k) = l
        BY DEF Complete
    <2>1. CASE l = lev
        BY <1>1, <1>3, <2>1
    <2>2. CASE l # lev
        <3>1. h[l] = g[l]
            BY <2>2 DEF Columns
        <3>2. PICK k \in 0..Depth(s) : Level(s, k) = l
            BY <3>1 DEF Denotes, Complete
        <3>3. k + 1 \in 0..Depth(u) /\ Level(u, k + 1) = l
            BY <1>1, <1>2, <3>2
        <3> QED BY <3>3
    <2> QED BY <2>1, <2>2
<1>10. LabelsOnFiles(u)
    <2> SUFFICES ASSUME NEW k \in 1..Depth(u), Decl(u, k - 1).lab PROVE Level(u, k) = 0
        BY DEF LabelsOnFiles
    <2>1. k - 1 \in 0..Depth(s) /\ Level(u, k) = Level(s, k - 1)
        BY <1>5
    <2>2. CASE k = 1
        BY <1>3, <2>1, <2>2 DEF Level
    <2>3. CASE k # 1
        <3>1. k - 1 \in 1..Depth(s) /\ k - 1 \in 1..Depth(u)
            BY <1>1, <2>3
        <3>2. Decl(s, (k - 1) - 1).lab
            BY <1>5, <3>1
        <3> QED BY <2>1, <3>1, <3>2 DEF Denotes, LabelsOnFiles
    <2> QED BY <2>2, <2>3
<1>11. Bottom(u) = Bottom(s)
    <2>1. Depth(s) \in 0..Depth(s)
        BY <1>1
    <2> QED BY <1>1, <1>2, <2>1 DEF Bottom
<1> QED BY <1>1, <1>6, <1>7, <1>8, <1>9, <1>10, <1>11 DEF Denotes, u

---------------------------------------------------------------------------
(* One slot at the end of a block: the scope's declarations go, those that *)
(* stay go to the scope around it.                                         *)

Ends(g, L) == [g EXCEPT ![L + 1] = Undeclared,
                        ![L] = IF (IF L = 0 THEN g[L + 1].hclass = "EXTERN" ELSE g[L + 1].lab) THEN g[L + 1] ELSE @]

LEMMA EndsAre ==
    ASSUME NEW g \in Columns, NEW L \in Nat, L + 1 \in 0..MaxDepth
    PROVE  /\ Ends(g, L) \in Columns /\ L \in 0..MaxDepth
           /\ Ends(g, L)[L + 1] = Undeclared
           /\ \A l \in 0..MaxDepth : l # L /\ l # L + 1 => Ends(g, L)[l] = g[l]
           /\ Ends(g, L)[L] = IF (IF L = 0 THEN g[L + 1].hclass = "EXTERN" ELSE g[L + 1].lab) THEN g[L + 1] ELSE g[L]
<1>1. L \in 0..MaxDepth /\ L # L + 1
    BY Depths
<1>2. Undeclared \in Decls
    BY DEF Undeclared, Decls, Classes, Types
<1> QED BY <1>1, <1>2 DEF Ends, Columns

\* A name of an outer block.
LEMMA DenotesStill ==
    ASSUME NEW s \in Slot, NEW g \in Columns, NEW L \in Nat, L + 1 \in 0..MaxDepth, Denotes(s, g, L + 1), s.hblklev <= L
    PROVE  Denotes(s, Ends(g, L), L)
<1>1. Depth(s) \in Nat /\ \A k \in 0..Depth(s) : Level(s, k) \in 0..L
    <2>1. Depth(s) \in Nat /\ Level(s, 0) = s.hblklev /\ \A k \in 0..Depth(s) : Level(s, k) \in 0..(L + 1)
        BY DepthNat DEF Level, Denotes, Within
    <2>2. ASSUME NEW k \in 0..Depth(s), k # 0 PROVE Level(s, k) < Level(s, 0) \/ Level(s, k) = 0
        BY <2>1, <2>2 DEF Denotes, Descends
    <2>3. ASSUME NEW k \in 0..Depth(s) PROVE Level(s, k) \in 0..L
        <3>1. Level(s, k) \in 0..(L + 1) /\ Level(s, 0) \in 0..(L + 1)
            BY <2>1
        <3> QED BY <2>1, <2>2, <3>1
    <2> QED BY <2>1, <2>3
<1>2. g[L + 1] = Undeclared
    <2> SUFFICES ASSUME g[L + 1] # Undeclared PROVE FALSE
        OBVIOUS
    <2>1. PICK k \in 0..Depth(s) : Level(s, k) = L + 1
        BY DEF Denotes, Complete
    <2> QED BY <1>1, <2>1
<1>3. Undeclared.hclass # "EXTERN" /\ ~Undeclared.lab
    BY DEF Undeclared
<1>4. \A l \in 0..MaxDepth : Ends(g, L)[l] = g[l]
    BY <1>2, <1>3, EndsAre
<1>5. Within(s, L) /\ Descends(s) /\ LabelsOnFiles(s)
    BY <1>1 DEF Denotes, Within
<1>6. Agreed(s, Ends(g, L))
    <2>1. \A k \in 0..Depth(s) : Level(s, k) \in 0..MaxDepth
        BY <1>1, Depths
    <2> QED BY <1>4, <2>1 DEF Denotes, Agreed
<1>7. Complete(s, Ends(g, L))
    BY <1>4 DEF Denotes, Complete
<1> QED BY <1>5, <1>6, <1>7 DEF Denotes

Uncovered(s) == [s EXCEPT !.d = s.hpdown[1].d, !.hblklev = s.hpdown[1].hblklev, !.hpdown = Tail(s.hpdown)]
\* A name whose declaration goes and uncovers the one below.
LEMMA DenotesPopped ==
    ASSUME NEW s \in Slot, NEW g \in Columns, NEW L \in Nat, L + 1 \in 0..MaxDepth, Denotes(s, g, L + 1), s.hblklev = L + 1,
           ~Kept(s, L), s.hpdown # <<>>
    PROVE  /\ Denotes(Uncovered(s), Ends(g, L), L) /\ Bottom(Uncovered(s)) = Bottom(s) /\ Bottom(s) <= L
           /\ Uncovered(s).hblklev <= L /\ Uncovered(s) \in Slot
           /\ Uncovered(s).name = s.name /\ Uncovered(s).mos = s.mos
<1> DEFINE u == Uncovered(s)
           h == Ends(g, L)
<1>1. /\ u \in Slot /\ u.mos = s.mos /\ u.name = s.name /\ Depth(u) = Depth(s) - 1 /\ Depth(s) \in Nat /\ Depth(s) > 0
      /\ u.hpdown = Tail(s.hpdown) /\ u.d = s.hpdown[1].d /\ u.hblklev = s.hpdown[1].hblklev
    <2>1. Depth(s) \in Nat /\ Len(s.hpdown) = Depth(s) /\ s.hpdown \in Seq(Hidden)
        BY DepthNat, SlotFields
    <2>2. Depth(s) # 0
        BY <2>1
    <2>3. s.hpdown[1] \in Hidden
        BY <2>1, <2>2
    <2> DEFINE q == Tail(s.hpdown)
    <2>4. q \in Seq(Hidden) /\ Len(q) = Depth(s) - 1
        BY <2>1, <2>2
    <2>5. s.hpdown[1].d \in Decls /\ s.hpdown[1].hblklev \in Nat
        BY <2>3 DEF Hidden
    <2>6. u = [s EXCEPT !.d = s.hpdown[1].d, !.hblklev = s.hpdown[1].hblklev, !.hpdown = q]
        BY DEF Uncovered
    <2> HIDE DEF u, q
    <2>7. u \in Slot /\ u.mos = s.mos /\ u.name = s.name /\ u.hpdown = q /\ u.d = s.hpdown[1].d /\ u.hblklev = s.hpdown[1].hblklev
        BY <2>4, <2>5, <2>6 DEF Slot
    <2>8. u.hpdown = Tail(s.hpdown)
        BY <2>7 DEF q
    <2> QED BY <2>1, <2>2, <2>4, <2>7, <2>8 DEF Depth
<1>2. \A k \in 0..Depth(u) : k + 1 \in 1..Depth(s) /\ Level(u, k) = Level(s, k + 1) /\ Decl(u, k) = Decl(s, k + 1)
    <2> SUFFICES ASSUME NEW k \in 0..Depth(u)
                 PROVE  k + 1 \in 1..Depth(s) /\ Level(u, k) = Level(s, k + 1) /\ Decl(u, k) = Decl(s, k + 1)
        OBVIOUS
    <2>1. s.hpdown \in Seq(Hidden) /\ Len(s.hpdown) = Depth(s)
        BY SlotFields DEF Depth
    <2>2. k + 1 \in 1..Depth(s)
        BY <1>1
    <2>3. k # 0 => u.hpdown[k] = s.hpdown[k + 1]
        BY <1>1, <2>1
    <2>4. k + 1 # 0
        BY <1>1
    <2> HIDE DEF u
    <2>5. CASE k = 0
        <3>1. k + 1 = 1
            BY <2>5
        <3> QED BY <1>1, <2>2, <2>4, <2>5, <3>1 DEF Level, Decl
    <2>6. CASE k # 0
        BY <2>2, <2>3, <2>4, <2>6 DEF Level, Decl
    <2> QED BY <2>5, <2>6
<1> HIDE DEF u
<1>3. Level(s, 0) = L + 1 /\ Decl(s, 0) = s.d
    BY DEF Level, Decl
<1>4. \A k \in 1..Depth(s) : Level(s, k) \in 0..L /\ Level(s, k) \in 0..MaxDepth
    <2> SUFFICES ASSUME NEW k \in 1..Depth(s) PROVE Level(s, k) \in 0..L /\ Level(s, k) \in 0..MaxDepth
        OBVIOUS
    <2>1. k \in 0..Depth(s) /\ 0 \in 0..Depth(s) /\ 0 < k
        BY <1>1
    <2>2. Level(s, k) \in 0..(L + 1)
        BY <2>1 DEF Denotes, Within
    <2>3. Level(s, k) < L + 1
        BY <1>3, <2>1, <2>2 DEF Denotes, Descends
    <2> QED BY <2>2, <2>3, Depths
<1>5. g[L + 1] = s.d
    <2>1. 0 \in 0..Depth(s)
        BY <1>1
    <2> QED BY <1>3, <2>1 DEF Denotes, Agreed
<1>6. \A l \in 0..MaxDepth : l # L + 1 => h[l] = g[l]
    <2>1. ~(IF L = 0 THEN g[L + 1].hclass = "EXTERN" ELSE g[L + 1].lab)
        BY <1>5 DEF Kept
    <2> QED BY <2>1, EndsAre
<1>7. Within(u, L)
    <2> SUFFICES ASSUME NEW k \in 0..Depth(u) PROVE Level(u, k) \in 0..L /\ Declared(Decl(u, k), u.mos)
        BY DEF Within
    <2>1. k + 1 \in 1..Depth(s) /\ k + 1 \in 0..Depth(s) /\ Level(u, k) = Level(s, k + 1) /\ Decl(u, k) = Decl(s, k + 1)
        BY <1>2
    <2> QED BY <1>1, <1>4, <2>1 DEF Denotes, Within
<1>8. Descends(u)
    <2> SUFFICES ASSUME NEW k \in 0..Depth(u), NEW l \in 0..Depth(u), k < l
                 PROVE  Level(u, l) < Level(u, k) \/ (Level(u, k) = 0 /\ Level(u, l) = 0)
        BY DEF Descends
    <2>1. /\ k + 1 \in 0..Depth(s) /\ Level(u, k) = Level(s, k + 1)
          /\ l + 1 \in 0..Depth(s) /\ Level(u, l) = Level(s, l + 1) /\ k + 1 < l + 1
        BY <1>1, <1>2
    <2> QED BY <2>1 DEF Denotes, Descends
<1>9. Agreed(u, h)
    <2> SUFFICES ASSUME NEW k \in 0..Depth(u), k = 0 \/ Level(u, k - 1) > 0 PROVE h[Level(u, k)] = Decl(u, k)
        BY DEF Agreed
    <2>1. k + 1 \in 1..Depth(s) /\ k + 1 \in 0..Depth(s) /\ Level(u, k) = Level(s, k + 1) /\ Decl(u, k) = Decl(s, k + 1)
        BY <1>2
    <2>2. Level(s, (k + 1) - 1) > 0
        <3>1. CASE k = 0
            BY <1>3, <3>1
        <3>2. CASE k # 0
            <4>1. k - 1 \in 0..Depth(u) /\ (k - 1) + 1 = k /\ (k + 1) - 1 = k
                BY <1>1, <3>2
            <4>2. Level(u, k - 1) = Level(s, k)
                BY <1>2, <4>1
            <4> QED BY <2>1, <3>2, <4>1, <4>2
        <3> QED BY <3>1, <3>2
    <2>3. g[Level(s, k + 1)] = Decl(s, k + 1)
        BY <2>1, <2>2 DEF Denotes, Agreed
    <2>4. Level(s, k + 1) \in 0..L /\ Level(s, k + 1) \in 0..MaxDepth
        BY <1>4, <2>1
    <2> QED BY <1>6, <2>1, <2>3, <2>4
<1>10. Complete(u, h)
    <2> SUFFICES ASSUME NEW l \in 0..MaxDepth, h[l] # Undeclared PROVE \E k \in 0..Depth(u) : Level(u, k) = l
        BY DEF Complete
    <2>1. l # L + 1
        BY EndsAre
    <2>2. PICK k \in 0..Depth(s) : Level(s, k) = l
        BY <1>6, <2>1 DEF Denotes, Complete
    <2>3. k # 0
        BY <1>3, <2>1, <2>2
    <2>4. k - 1 \in 0..Depth(u) /\ (k - 1) + 1 = k
        BY <1>1, <2>3
    <2> QED BY <1>2, <2>2, <2>4
<1>11. LabelsOnFiles(u)
    <2> SUFFICES ASSUME NEW k \in 1..Depth(u), Decl(u, k - 1).lab PROVE Level(u, k) = 0
        BY DEF LabelsOnFiles
    <2>1. k - 1 \in 0..Depth(u) /\ (k - 1) + 1 = k /\ k \in 0..Depth(u) /\ (k + 1) - 1 = k
        BY <1>1
    <2>2. Decl(u, k - 1) = Decl(s, (k + 1) - 1) /\ Level(u, k) = Level(s, k + 1) /\ k + 1 \in 1..Depth(s)
        BY <1>2, <2>1
    <2> QED BY <2>2 DEF Denotes, LabelsOnFiles
<1>12. Bottom(u) = Bottom(s) /\ Bottom(s) <= L
    <2>1. Depth(u) \in 0..Depth(u) /\ Depth(u) + 1 = Depth(s) /\ Depth(s) \in 1..Depth(s)
        BY <1>1
    <2>2. Bottom(u) = Bottom(s)
        BY <1>2, <2>1 DEF Bottom
    <2>3. Level(s, Depth(s)) \in 0..L
        BY <1>4, <2>1
    <2> QED BY <2>2, <2>3 DEF Bottom
<1>13. u.hblklev <= L
    <2>1. 1 \in 1..Depth(s) /\ Level(s, 1) = s.hpdown[1].hblklev
        BY <1>1 DEF Level
    <2>2. Level(s, 1) \in 0..L
        BY <1>4, <2>1
    <2> QED BY <1>1, <2>1, <2>2
<1> QED BY <1>1, <1>7, <1>8, <1>9, <1>10, <1>11, <1>12, <1>13 DEF Denotes, u

\* A name that is kept.
LEMMA DenotesKept ==
    ASSUME NEW s \in Slot, NEW g \in Columns, NEW L \in Nat, L + 1 \in 0..MaxDepth, Denotes(s, g, L + 1), s.hblklev = L + 1,
           Kept(s, L)
    PROVE  LET u == [s EXCEPT !.hblklev = L] IN
           /\ Denotes(u, Ends(g, L), L) /\ u \in Slot
           /\ IF s.hpdown = <<>> THEN Bottom(s) = L + 1 /\ Bottom(u) = L ELSE Bottom(s) <= L /\ Bottom(u) = Bottom(s)
<1> DEFINE u == [s EXCEPT !.hblklev = L]
           h == Ends(g, L)
<1>1. /\ u \in Slot /\ u.d = s.d /\ u.mos = s.mos /\ u.hblklev = L /\ u.hpdown = s.hpdown
      /\ Depth(u) = Depth(s) /\ Depth(s) \in Nat
    BY DepthNat, LevelField DEF Depth
<1> HIDE DEF u
<1>2. Level(s, 0) = L + 1 /\ Level(u, 0) = L /\ Decl(s, 0) = s.d /\ Decl(u, 0) = s.d
    BY <1>1 DEF Level, Decl
<1>3. \A k \in 1..Depth(s) : Level(u, k) = Level(s, k) /\ Decl(u, k) = Decl(s, k) /\ Level(s, k) \in 0..L /\ Level(s, k) \in 0..MaxDepth
    <2> SUFFICES ASSUME NEW k \in 1..Depth(s)
                 PROVE Level(u, k) = Level(s, k) /\ Decl(u, k) = Decl(s, k) /\ Level(s, k) \in 0..L /\ Level(s, k) \in 0..MaxDepth
        OBVIOUS
    <2>1. k \in 0..Depth(s) /\ 0 \in 0..Depth(s) /\ 0 < k
        BY <1>1
    <2>2. Level(s, k) \in 0..(L + 1)
        BY <2>1 DEF Denotes, Within
    <2>3. Level(s, k) < L + 1
        BY <1>2, <2>1, <2>2 DEF Denotes, Descends
    <2>4. Level(u, k) = Level(s, k) /\ Decl(u, k) = Decl(s, k)
        BY <1>1 DEF Level, Decl
    <2> QED BY <2>2, <2>3, <2>4, Depths
\* What it hides is the file's, or it goes to the file itself.
<1>4. \A k \in 1..Depth(s) : Level(s, k) = 0
    <2> SUFFICES ASSUME NEW k \in 1..Depth(s) PROVE Level(s, k) = 0
        OBVIOUS
    <2>1. CASE L = 0
        <3>1. Level(s, k) \in 0..0
            BY <1>3, <2>1
        <3> QED BY <3>1
    <2>2. CASE L # 0
        <3>1. s.d.lab
            BY <2>2 DEF Kept
        <3>2. 1 \in 1..Depth(s) /\ 1 - 1 = 0 /\ 1 \in 0..Depth(s) /\ k \in 0..Depth(s)
            BY <1>1
        <3>3. Level(s, 1) = 0
            BY <1>2, <3>1, <3>2 DEF Denotes, LabelsOnFiles
        <3>4. CASE k = 1
            BY <3>3, <3>4
        <3>5. CASE k # 1
            <4>1. Level(s, k) < Level(s, 1) \/ Level(s, k) = 0
                BY <3>2, <3>5 DEF Denotes, Descends
            <4>2. Level(s, k) \in Nat
                BY <1>3
            <4> QED BY <3>3, <4>1, <4>2
        <3> QED BY <3>4, <3>5
    <2> QED BY <2>1, <2>2
<1>5. g[L + 1] = s.d /\ h[L] = s.d /\ h \in Columns
    <2>1. 0 \in 0..Depth(s)
        BY <1>1
    <2>2. g[L + 1] = s.d
        BY <1>2, <2>1 DEF Denotes, Agreed
    <2>3. IF L = 0 THEN g[L + 1].hclass = "EXTERN" ELSE g[L + 1].lab
        BY <2>2 DEF Kept
    <2> QED BY <2>2, <2>3, EndsAre
<1>6. Within(u, L)
    <2> SUFFICES ASSUME NEW k \in 0..Depth(s) PROVE Level(u, k) \in 0..L /\ Declared(Decl(u, k), u.mos)
        BY <1>1 DEF Within
    <2>1. Declared(Decl(s, k), s.mos)
        BY DEF Denotes, Within
    <2>2. CASE k = 0
        BY <1>1, <1>2, <2>1, <2>2
    <2>3. CASE k # 0
        <3>1. k \in 1..Depth(s)
            BY <1>1, <2>3
        <3> QED BY <1>1, <1>3, <2>1, <3>1
    <2> QED BY <2>2, <2>3
<1>7. Descends(u)
    <2> SUFFICES ASSUME NEW k \in 0..Depth(s), NEW l \in 0..Depth(s), k < l
                 PROVE  Level(u, l) < Level(u, k) \/ (Level(u, k) = 0 /\ Level(u, l) = 0)
        BY <1>1 DEF Descends
    <2>1. l \in 1..Depth(s) /\ Level(u, l) = 0
        <3>1. l \in 1..Depth(s)
            BY <1>1
        <3> QED BY <1>3, <1>4, <3>1
    <2>2. k # 0 => Level(u, k) = 0
        <3>1. k # 0 => k \in 1..Depth(s)
            BY <1>1
        <3> QED BY <1>3, <1>4, <3>1
    <2> QED BY <1>2, <2>1, <2>2
<1>8. Agreed(u, h)
    <2> SUFFICES ASSUME NEW k \in 0..Depth(s), k = 0 \/ Level(u, k - 1) > 0 PROVE h[Level(u, k)] = Decl(u, k)
        BY <1>1 DEF Agreed
    <2>1. CASE k = 0
        BY <1>2, <1>5, <2>1
    <2>2. CASE k # 0
        <3>1. k \in 1..Depth(s)
            BY <1>1, <2>2
        <3>2. k = 1
            <4> SUFFICES ASSUME k # 1 PROVE FALSE
                OBVIOUS
            <4>1. k - 1 \in 1..Depth(s)
                BY <1>1, <3>1
            <4>2. Level(u, k - 1) = 0
                BY <1>3, <1>4, <4>1
            <4> QED BY <2>2, <4>2
        <3>3. L > 0
            BY <1>2, <2>2, <3>2
        <3>4. Level(s, k) = 0 /\ Level(u, k) = Level(s, k) /\ Decl(u, k) = Decl(s, k)
            BY <1>3, <1>4, <3>1
        <3>5. g[0] = Decl(s, k)
            <4>1. Level(s, k - 1) > 0
                BY <1>2, <3>2
            <4> QED BY <3>4, <4>1 DEF Denotes, Agreed
        <3>6. h[0] = g[0]
            <4>1. 0 \in 0..MaxDepth /\ 0 # L /\ 0 # L + 1
                BY <3>3, Depths
            <4> QED BY <4>1, EndsAre
        <3> QED BY <3>4, <3>5, <3>6
    <2> QED BY <2>1, <2>2
<1>9. Complete(u, h)
    <2> SUFFICES ASSUME NEW l \in 0..MaxDepth, h[l] # Undeclared PROVE \E k \in 0..Depth(s) : Level(u, k) = l
        BY <1>1 DEF Complete
    <2>1. CASE l = L
        BY <1>1, <1>2, <2>1
    <2>2. CASE l # L
        <3>1. l # L + 1
            BY EndsAre
        <3>2. g[l] # Undeclared
            BY <2>2, <3>1, EndsAre
        <3>3. PICK k \in 0..Depth(s) : Level(s, k) = l
            BY <3>2 DEF Denotes, Complete
        <3>4. k # 0
            BY <1>2, <3>1, <3>3
        <3>5. k \in 1..Depth(s)
            BY <1>1, <3>4
        <3> QED BY <1>3, <3>3, <3>5
    <2> QED BY <2>1, <2>2
<1>10. LabelsOnFiles(u)
    BY <1>1, <1>3, <1>4 DEF LabelsOnFiles
<1>11. IF s.hpdown = <<>> THEN Bottom(s) = L + 1 /\ Bottom(u) = L ELSE Bottom(s) <= L /\ Bottom(u) = Bottom(s)
    <2>1. CASE s.hpdown = <<>>
        <3>1. Depth(s) = 0
            BY <2>1 DEF Depth
        <3> QED BY <1>1, <1>2, <2>1, <3>1 DEF Bottom
    <2>2. CASE s.hpdown # <<>>
        <3>1. Depth(s) # 0
            <4>1. s.hpdown \in Seq(Hidden)
                BY SlotFields
            <4> QED BY <2>2, <4>1 DEF Depth
        <3>2. Depth(s) \in 1..Depth(s)
            BY <1>1, <3>1
        <3>3. Level(u, Depth(s)) = Level(s, Depth(s)) /\ Level(s, Depth(s)) \in 0..L
            BY <1>3, <3>2
        <3> QED BY <1>1, <2>2, <3>3 DEF Bottom
    <2> QED BY <2>1, <2>2
<1> QED BY <1>1, <1>6, <1>7, <1>8, <1>9, <1>10, <1>11 DEF Denotes, u

\* A name that goes.
LEMMA DenotesNothing ==
    ASSUME NEW s \in Slot, NEW g \in Columns, NEW L \in Nat, L + 1 \in 0..MaxDepth, Denotes(s, g, L + 1), s.hblklev = L + 1,
           ~Kept(s, L), s.hpdown = <<>>
    PROVE  (\A l \in 0..MaxDepth : Ends(g, L)[l] = Undeclared) /\ Bottom(s) = L + 1
<1>1. Depth(s) = 0 /\ Level(s, 0) = L + 1 /\ Decl(s, 0) = s.d
    BY DEF Depth, Level, Decl
<1>2. g[L + 1] = s.d
    BY <1>1 DEF Denotes, Agreed
<1>3. \A l \in 0..MaxDepth : l # L + 1 => g[l] = Undeclared
    BY <1>1 DEF Denotes, Complete
<1>4. ~(IF L = 0 THEN g[L + 1].hclass = "EXTERN" ELSE g[L + 1].lab)
    BY <1>2 DEF Kept
<1>5. L \in 0..MaxDepth /\ L # L + 1
    BY Depths
<1>6. \A l \in 0..MaxDepth : Ends(g, L)[l] = Undeclared
    BY <1>3, <1>4, <1>5, EndsAre
<1> QED BY <1>1, <1>6 DEF Bottom

---------------------------------------------------------------------------
(* The table and the scopes.                                               *)

Scopes == [0..MaxDepth -> [Keys -> Decls]]
Entry(sc, l, n, mos) == sc[l][<<n, mos>>]
Absent(sc, n, mos) == \A l \in 0..MaxDepth : Entry(sc, l, n, mos) = Undeclared
\* Only this name's declarations change.
Others(sc, sc2, n, mos) == \A l \in 0..MaxDepth, key \in Keys : key # <<n, mos>> => sc2[l][key] = sc[l][key]
Book(t, sc, lev) ==
    /\ t \in Tables /\ sc \in Scopes /\ lev \in 0..MaxDepth
    /\ Room(t) /\ Clean(t) /\ Unique(t)
    /\ \A i \in Slots : Taken(t, i) => Path(t, i) /\ Denotes(t[i], Column(sc, t[i].name, t[i].mos), lev)
    /\ \A n \in Names, mos \in BOOLEAN :
           (\A i \in Slots : ~Is(t, i, n, mos)) => Absent(sc, n, mos)

LEMMA Constants ==
    /\ Undeclared \in Decls /\ Undeclared.hclass = "" /\ ~Undeclared.lab /\ Undeclared.htype = "int"
    /\ Free \in Slot /\ Free.name = "" /\ Free.d = Undeclared /\ Free.hpdown = <<>> /\ "" \notin Names
<1>1. Undeclared \in Decls /\ Undeclared.hclass = "" /\ ~Undeclared.lab /\ Undeclared.htype = "int"
    BY DEF Undeclared, Decls, Classes, Types
<1>2. <<>> \in Seq(Hidden)
    OBVIOUS
<1>3. Free \in Slot /\ Free.name = "" /\ Free.d = Undeclared /\ Free.hpdown = <<>>
    BY <1>1, <1>2 DEF Free, Slot
<1> QED BY <1>1, <1>3, NamesAssumption, Zenon

LEMMA ColumnIs ==
    ASSUME NEW sc \in Scopes, NEW n \in Names, NEW mos \in BOOLEAN
    PROVE  Column(sc, n, mos) \in Columns /\ \A l \in 0..MaxDepth : Column(sc, n, mos)[l] = Entry(sc, l, n, mos)
<1>1. <<n, mos>> \in Keys
    BY DEF Keys
<1> QED BY <1>1 DEF Column, Columns, Scopes, Entry

LEMMA TakenKey ==
    ASSUME NEW t \in Tables, NEW i \in Slots
    PROVE  /\ t[i] \in Slot /\ (Taken(t, i) => t[i].name \in Names /\ t[i].mos \in BOOLEAN)
           /\ \A n \in Names, mos \in BOOLEAN : Is(t, i, n, mos) => Taken(t, i)
<1>1. t[i] \in Slot
    BY DEF Tables
<1> QED BY <1>1, SlotFields, Constants DEF Taken, Is

LEMMA SlotsCount == ASSUME NEW used, used = 0..(HSHSIZ - 1) PROVE Cardinality(used) = HSHSIZ
<1>1. 0 \in Int /\ HSHSIZ - 1 \in Int /\ HSHSIZ \in Nat /\ HSHSIZ > 0
    BY Positive
<1> QED BY <1>1, FS_Interval
LEMMA UsedRoom == ASSUME NEW t, hshused(t) < HSHSIZ PROVE Room(t)
<1> DEFINE used == {i \in Slots : t[i].name # ""}
<1>1. ~Room(t) => used = 0..(HSHSIZ - 1)
    BY DEF Slots, Room
<1>2. hshused(t) = Cardinality(used)
    BY DEF hshused
<1> HIDE DEF used
<1>3. used = 0..(HSHSIZ - 1) => Cardinality(used) = HSHSIZ
    BY SlotsCount
<1>4. Cardinality(used) = HSHSIZ => ~(Cardinality(used) < HSHSIZ)
    BY Positive
<1> QED BY <1>1, <1>2, <1>3, <1>4, Zenon

\* The way from where lookup starts for a name to a slot is taken.
Missed(t, n, i) == \E k \in Slots : Probe(n, k) = i /\ \A m \in 0..(k - 1) : Taken(t, Probe(n, m))
\* What lookup gives in such a table.
LEMMA LookupBook ==
    ASSUME NEW t, NEW sc, NEW lev, Book(t, sc, lev), NEW n \in Names, NEW mos \in BOOLEAN, NEW i, i = lookup(t, n, mos)
    PROVE  /\ i \in Slots
           /\ \A j \in Slots : Is(t, j, n, mos) => i = j
           /\ Taken(t, i) => Is(t, i, n, mos)
           /\ ~Taken(t, i) => /\ t[i] = Free
                              /\ Absent(sc, n, mos)
                              /\ Missed(t, n, i)
<1>1. t \in Tables /\ Room(t) /\ Unique(t) /\ Clean(t) /\ \A j \in Slots : Taken(t, j) => Path(t, j)
    BY DEF Book
<1>2. i \in Slots /\ (Taken(t, i) => Is(t, i, n, mos))
    BY <1>1, LookupSlot
<1>3. ASSUME NEW j \in Slots, Is(t, j, n, mos) PROVE i = j
    <2>1. Taken(t, j)
        BY <1>1, <1>3, TakenKey
    <2>2. lookup(t, t[j].name, t[j].mos) = j
        BY <1>1, <2>1, LookupFinds
    <2> QED BY <1>3, <2>2 DEF Is
<1>4. ASSUME ~Taken(t, i) PROVE \A j \in Slots : ~Is(t, j, n, mos)
    BY <1>1, <1>3, <1>4, TakenKey
<1>5. ASSUME ~Taken(t, i)
      PROVE  /\ t[i] = Free
             /\ Absent(sc, n, mos)
             /\ Missed(t, n, i)
    <2>1. t[i] = Free
        BY <1>1, <1>2, <1>5 DEF Clean, Taken
    <2>2. Absent(sc, n, mos)
        BY <1>4, <1>5 DEF Book
    <2>3. Missed(t, n, i)
        BY <1>1, <1>5, LookupMisses DEF Missed
    <2> QED BY <2>1, <2>2, <2>3
<1> QED BY <1>2, <1>3, <1>5

LEMMA BottomWithin ==
    ASSUME NEW s \in Slot, NEW lev \in 0..MaxDepth, NEW g, Denotes(s, g, lev)
    PROVE  Bottom(s) \in 0..lev /\ s.hblklev \in 0..lev
<1>1. Depth(s) \in 0..Depth(s) /\ 0 \in 0..Depth(s)
    BY DepthNat
<1>2. Level(s, Depth(s)) \in 0..lev /\ Level(s, 0) \in 0..lev
    BY <1>1 DEF Denotes, Within
<1> QED BY <1>2 DEF Bottom, Level

\* One name's slot changes, or is taken, and its scopes with it.
LEMMA BookChanged ==
    ASSUME NEW t, NEW sc, NEW lev, Book(t, sc, lev), NEW n \in Names, NEW mos \in BOOLEAN,
           NEW s \in Slot, Named(s, n, mos),
           NEW sc2 \in Scopes,
           Others(sc, sc2, n, mos),
           Denotes(s, Column(sc2, n, mos), lev),
           Taken(t, lookup(t, n, mos)) => Bottom(s) = Bottom(t[lookup(t, n, mos)]),
           ~Taken(t, lookup(t, n, mos)) => Bottom(s) = lev,
           Room([t EXCEPT ![lookup(t, n, mos)] = s])
    PROVE  Book([t EXCEPT ![lookup(t, n, mos)] = s], sc2, lev)
<1> DEFINE i == lookup(t, n, mos)
           t2 == [t EXCEPT ![i] = s]
<1>1. t \in Tables /\ sc \in Scopes /\ lev \in 0..MaxDepth /\ Clean(t) /\ Unique(t)
    BY DEF Book
<1>2. /\ i \in Slots
      /\ \A j \in Slots : Is(t, j, n, mos) => i = j
      /\ Taken(t, i) => Is(t, i, n, mos)
      /\ ~Taken(t, i) => Missed(t, n, i)
    <2>1. Book(t, sc, lev) /\ n \in Names /\ mos \in BOOLEAN /\ i = lookup(t, n, mos)
        OBVIOUS
    <2> HIDE DEF i
    <2> QED BY ONLY <2>1, LookupBook
<1>3. t2 \in Tables /\ t2[i] = s /\ \A j \in Slots : j # i => t2[j] = t[j]
    BY <1>1, <1>2 DEF Tables
<1>4. Taken(t, i) => Bottom(s) = Bottom(t[i])
    OBVIOUS
<1>5. ~Taken(t, i) => Bottom(s) = lev
    OBVIOUS
<1>6. Room(t2)
    OBVIOUS
<1> HIDE DEF t2, i
<1>7. Clean(t2)
    BY <1>1, <1>2, <1>3, Constants DEF Clean, Named
<1>8. Unique(t2)
    <2> SUFFICES ASSUME NEW j \in Slots, NEW k \in Slots, t2[j].name # "", t2[j].name = t2[k].name, t2[j].mos = t2[k].mos
                 PROVE  j = k
        BY DEF Unique, Taken
    <2>1. CASE j # i /\ k # i
        BY <1>1, <1>3, <2>1 DEF Unique, Taken
    <2>2. CASE j = i /\ k # i
        BY <1>2, <1>3, <2>2 DEF Is, Named
    <2>3. CASE j # i /\ k = i
        BY <1>2, <1>3, <2>3 DEF Is, Named
    <2> QED BY <2>1, <2>2, <2>3
<1>9. \A j \in Slots : Taken(t, j) => Taken(t2, j) /\ Bottom(t2[j]) = Bottom(t[j])
    <2> SUFFICES ASSUME NEW j \in Slots, Taken(t, j) PROVE Taken(t2, j) /\ Bottom(t2[j]) = Bottom(t[j])
        OBVIOUS
    <2>1. CASE j = i
        BY <1>3, <1>4, <2>1, Constants DEF Taken, Named
    <2>2. CASE j # i
        BY <1>3, <2>2 DEF Taken
    <2> QED BY <2>1, <2>2
<1>10. ASSUME NEW j \in Slots, Taken(t, j) PROVE t2[j].name = t[j].name /\ t2[j].mos = t[j].mos
    BY <1>2, <1>3, <1>10 DEF Is, Named
<1>11. ASSUME NEW j \in Slots, Taken(t, j), Path(t, j) PROVE Path(t2, j)
    <2>1. PICK k \in Slots : /\ Probe(t[j].name, k) = j
                             /\ \A m \in 0..(k - 1) : Taken(t, Probe(t[j].name, m)) /\ Bottom(t[Probe(t[j].name, m)]) <= Bottom(t[j])
        BY <1>11 DEF Path
    <2>2. \A m \in 0..(k - 1) : Probe(t[j].name, m) \in Slots
        <3>1. t[j].name \in Names
            BY <1>1, <1>11, TakenKey
        <3>2. \A m \in 0..(k - 1) : m \in Slots
            BY Size DEF Slots
        <3> QED BY <3>1, <3>2, ProbeSlot
    <2>3. t2[j].name = t[j].name /\ Bottom(t2[j]) = Bottom(t[j])
        BY <1>9, <1>10, <1>11
    <2>4. \A m \in 0..(k - 1) : Taken(t2, Probe(t[j].name, m)) /\ Bottom(t2[Probe(t[j].name, m)]) <= Bottom(t2[j])
        BY <1>9, <2>1, <2>2, <2>3
    <2> QED BY <2>1, <2>3, <2>4 DEF Path
<1>12. ASSUME ~Taken(t, i) PROVE Path(t2, i)
    <2>1. PICK k \in Slots : Probe(n, k) = i /\ \A m \in 0..(k - 1) : Taken(t, Probe(n, m))
        BY <1>2, <1>12 DEF Missed
    <2>2. ASSUME NEW m \in 0..(k - 1) PROVE Taken(t2, Probe(n, m)) /\ Bottom(t2[Probe(n, m)]) <= Bottom(s)
        <3>1. m \in Slots
            BY Size DEF Slots
        <3>2. Probe(n, m) \in Slots /\ Taken(t, Probe(n, m))
            BY <2>1, <3>1, ProbeSlot
        <3>3. Denotes(t[Probe(n, m)], Column(sc, t[Probe(n, m)].name, t[Probe(n, m)].mos), lev)
            BY <3>2 DEF Book
        <3>4. Bottom(t[Probe(n, m)]) \in 0..lev
            BY <1>1, <3>2, <3>3, TakenKey, BottomWithin
        <3>5. Bottom(t[Probe(n, m)]) <= lev
            BY <3>4
        <3> QED BY <1>5, <1>9, <1>12, <3>2, <3>5
    <2>3. t2[i].name = n
        BY <1>3 DEF Named
    <2> QED BY <1>3, <2>1, <2>2, <2>3 DEF Path
<1>13. ASSUME NEW j \in Slots, Taken(t2, j)
       PROVE  Path(t2, j) /\ Denotes(t2[j], Column(sc2, t2[j].name, t2[j].mos), lev)
    <2>1. CASE j = i
        <3>1. Path(t2, i)
            BY <1>11, <1>12, <1>2 DEF Book
        <3> QED BY <1>3, <2>1, <3>1 DEF Named
    <2>2. CASE j # i
        <3>1. t2[j] = t[j] /\ Taken(t, j)
            BY <1>3, <1>13, <2>2 DEF Taken
        <3>2. Path(t, j) /\ Denotes(t[j], Column(sc, t[j].name, t[j].mos), lev)
            BY <3>1 DEF Book
        <3>3. <<t[j].name, t[j].mos>> \in Keys /\ <<t[j].name, t[j].mos>> # <<n, mos>>
            <4>1. t[j].name \in Names /\ t[j].mos \in BOOLEAN
                BY <1>1, <3>1, TakenKey
            <4>2. ~(t[j].name = n /\ t[j].mos = mos)
                BY <1>2, <2>2 DEF Is, Named
            <4> QED BY <4>1, <4>2 DEF Keys
        <3>4. Column(sc2, t[j].name, t[j].mos) = Column(sc, t[j].name, t[j].mos)
            BY <3>3 DEF Column, Others
        <3> QED BY <1>11, <3>1, <3>2, <3>4
    <2> QED BY <2>1, <2>2
<1>14. ASSUME NEW a \in Names, NEW b \in BOOLEAN, \A j \in Slots : ~Is(t2, j, a, b)
       PROVE  Absent(sc2, a, b)
    <2>1. <<a, b>> # <<n, mos>> /\ <<a, b>> \in Keys
        BY <1>2, <1>3, <1>14 DEF Is, Keys, Named
    <2>2. ASSUME NEW j \in Slots, Is(t, j, a, b) PROVE FALSE
        <3>1. Taken(t, j)
            BY <1>1, <2>2, TakenKey
        <3> QED BY <1>10, <1>14, <2>2, <3>1 DEF Is
    <2>3. Absent(sc, a, b)
        BY <2>2 DEF Book
    <2> QED BY <2>1, <2>3 DEF Absent, Entry, Others
<1>15. Book(t2, sc2, lev)
    BY <1>1, <1>3, <1>6, <1>7, <1>8, <1>13, <1>14 DEF Book
<1> QED BY <1>15 DEF t2, i

Put(t, i, s) == [t EXCEPT ![i] = s]
LEMMA BookUpdate ==
    ASSUME NEW t, NEW sc, NEW lev, Book(t, sc, lev), NEW n \in Names, NEW mos \in BOOLEAN, NEW i, i = lookup(t, n, mos),
           NEW s \in Slot, Named(s, n, mos),
           NEW sc2 \in Scopes,
           Others(sc, sc2, n, mos),
           Denotes(s, Column(sc2, n, mos), lev),
           Bottom(s) = IF Taken(t, i) THEN Bottom(t[i]) ELSE lev,
           Room(Put(t, i, s))
    PROVE  Book(Put(t, i, s), sc2, lev)
<1> DEFINE t2 == Put(t, i, s)
<1>1. t2 = [t EXCEPT ![lookup(t, n, mos)] = s]
    BY DEF Put
<1>2. Taken(t, lookup(t, n, mos)) => Bottom(s) = Bottom(t[lookup(t, n, mos)])
    OBVIOUS
<1>3. ~Taken(t, lookup(t, n, mos)) => Bottom(s) = lev
    OBVIOUS
<1>4. Room([t EXCEPT ![lookup(t, n, mos)] = s])
    BY DEF Put
<1>5. Book([t EXCEPT ![lookup(t, n, mos)] = s], sc2, lev)
    BY <1>2, <1>3, <1>4, BookChanged
<1> QED BY <1>1, <1>5

\* A block opens.
LEMMA BookDeeper ==
    ASSUME NEW t, NEW sc, NEW lev, Book(t, sc, lev), lev + 1 \in 0..MaxDepth
    PROVE  Book(t, sc, lev + 1)
<1>1. lev \in Nat
    BY Depths DEF Book
<1>2. ASSUME NEW s, NEW g, Denotes(s, g, lev) PROVE Denotes(s, g, lev + 1)
    <2>1. \A k \in 0..lev : k \in 0..(lev + 1)
        BY <1>1
    <2> QED BY <1>2, <2>1 DEF Denotes, Within
<1> QED BY <1>2 DEF Book

\* What a slot says is what its block declares, and no inner one.
LEMMA SlotMeans ==
    ASSUME NEW t, NEW sc, NEW lev, Book(t, sc, lev), NEW n \in Names, NEW mos \in BOOLEAN, NEW i, i = lookup(t, n, mos), Taken(t, i)
    PROVE  /\ t[i].hblklev \in 0..lev /\ t[i].hblklev \in 0..MaxDepth /\ t[i].hblklev \in Nat
           /\ Entry(sc, t[i].hblklev, n, mos) = t[i].d
           /\ Declared(t[i].d, mos)
           /\ \A l \in 0..MaxDepth : Entry(sc, l, n, mos) # Undeclared => l <= t[i].hblklev
<1> DEFINE s == t[i]
<1>1. /\ i \in Slots /\ Is(t, i, n, mos)
    BY LookupBook
<1>2. t \in Tables /\ sc \in Scopes /\ lev \in 0..MaxDepth /\ lev \in Nat
    BY Depths DEF Book
<1>3. s \in Slot /\ s.name = n /\ s.mos = mos
    BY <1>1, <1>2, TakenKey DEF Is
<1>4. Denotes(s, Column(sc, n, mos), lev)
    BY <1>1, <1>3 DEF Book
<1> HIDE DEF s
<1>5. s.hblklev \in 0..lev /\ s.hblklev \in 0..MaxDepth /\ s.hblklev \in Nat
    BY <1>2, <1>3, <1>4, BottomWithin, Depths
<1>6. 0 \in 0..Depth(s) /\ Depth(s) \in Nat
    BY <1>3, DepthNat
<1>7. Column(sc, n, mos)[s.hblklev] = s.d /\ Declared(s.d, mos)
    BY <1>3, <1>4, <1>6 DEF Denotes, Agreed, Within, Level, Decl
<1>8. Entry(sc, s.hblklev, n, mos) = s.d
    BY <1>2, <1>5, <1>7, ColumnIs
<1>9. ASSUME NEW l \in 0..MaxDepth, Entry(sc, l, n, mos) # Undeclared PROVE l <= s.hblklev
    <2>1. Column(sc, n, mos)[l] # Undeclared
        BY <1>2, <1>9, ColumnIs
    <2>2. PICK k \in 0..Depth(s) : Level(s, k) = l
        BY <1>4, <2>1 DEF Denotes, Complete
    <2>3. Level(s, 0) = s.hblklev
        BY DEF Level
    <2>4. k # 0 => l < s.hblklev \/ l = 0
        BY <1>4, <1>6, <2>2, <2>3 DEF Denotes, Descends
    <2> QED BY <1>5, <2>2, <2>3, <2>4
<1> QED BY <1>5, <1>7, <1>8, <1>9 DEF s

\* The innermost scope that declares a name is the block of its slot.
LEMMA InnermostIs ==
    ASSUME Book(hshtab, scopes, blklev), NEW n \in Names, NEW mos \in BOOLEAN, NEW i, i = lookup(hshtab, n, mos)
    PROVE  /\ Innermost(n, mos) = IF Taken(hshtab, i) THEN hshtab[i].hblklev ELSE -1
           /\ Meaning(n, mos) = hshtab[i].d
           /\ Taken(hshtab, i) => /\ hshtab[i].hblklev \in 0..blklev /\ Entry(scopes, hshtab[i].hblklev, n, mos) = hshtab[i].d
                                  /\ Declared(hshtab[i].d, mos)
                                  /\ \A l \in 0..MaxDepth : l > hshtab[i].hblklev => Entry(scopes, l, n, mos) = Undeclared
<1> DEFINE s == hshtab[i]
           T == {l \in 0..blklev : Entry(scopes, l, n, mos) # Undeclared} \cup {-1}
<1>1. /\ i \in Slots /\ (Taken(hshtab, i) => Is(hshtab, i, n, mos))
      /\ ~Taken(hshtab, i) => s = Free /\ Absent(scopes, n, mos)
    BY LookupBook
<1>2. hshtab \in Tables /\ scopes \in Scopes /\ blklev \in 0..MaxDepth /\ blklev \in Nat
    BY Depths DEF Book
<1>3. Innermost(n, mos) = Max(T) /\ Max(T) = CHOOSE x \in T : \A y \in T : x >= y
    BY DEF Innermost, Max, Entry
<1> HIDE DEF T
<1>4. CASE ~Taken(hshtab, i)
    <2>1. T = {-1}
        <3>1. \A l \in 0..blklev : l \in 0..MaxDepth
            BY <1>2, Depths
        <3> QED BY <1>1, <1>4, <3>1 DEF T, Absent
    <2>2. Max(T) = -1
        BY <1>3, <2>1
    <2>3. Meaning(n, mos) = Undeclared
        BY <1>3, <2>2 DEF Meaning
    <2> QED BY <1>1, <1>3, <1>4, <2>2, <2>3, Constants
<1>5. CASE Taken(hshtab, i)
    <2>1. s.hblklev \in 0..blklev /\ s.hblklev \in 0..MaxDepth
        BY <1>5, SlotMeans
    <2>2. Declared(s.d, mos)
        BY <1>5, SlotMeans
    <2>3. Entry(scopes, s.hblklev, n, mos) = s.d
        BY <1>5, SlotMeans
    <2>4. ASSUME NEW l \in 0..MaxDepth, Entry(scopes, l, n, mos) # Undeclared PROVE l <= s.hblklev
        BY <1>5, <2>4, SlotMeans
    <2>5. s.hblklev \in T /\ \A y \in T : s.hblklev >= y
        <3>1. s.d # Undeclared
            BY <2>2 DEF Declared
        <3>2. s.hblklev \in T
            BY <2>1, <2>3, <3>1 DEF T
        <3>3. ASSUME NEW y \in T PROVE s.hblklev >= y
            <4>1. y = -1 \/ (y \in 0..MaxDepth /\ Entry(scopes, y, n, mos) # Undeclared)
                BY <1>2, Depths DEF T
            <4> QED BY <2>1, <2>4, <4>1
        <3> QED BY <3>2, <3>3
    <2>6. \A x \in T : x \in Int
        BY <1>2 DEF T
    <2>7. Max(T) = s.hblklev
        <3>1. Max(T) \in T /\ \A y \in T : Max(T) >= y
            BY <1>3, <2>5
        <3>2. Max(T) \in Int /\ s.hblklev \in Int /\ Max(T) >= s.hblklev /\ s.hblklev >= Max(T)
            BY <2>5, <2>6, <3>1
        <3> QED BY <3>2
    <2>8. Meaning(n, mos) = s.d
        <3>1. Innermost(n, mos) = s.hblklev /\ s.hblklev # -1
            BY <1>3, <2>1, <2>7
        <3> QED BY <2>3, <3>1 DEF Meaning, Entry
    <2>9. \A l \in 0..MaxDepth : l > s.hblklev => Entry(scopes, l, n, mos) = Undeclared
        BY <2>1, <2>4
    <2> QED BY <1>3, <1>5, <2>1, <2>2, <2>3, <2>7, <2>8, <2>9
<1> QED BY <1>4, <1>5

LEMMA BookResolves == ASSUME Book(hshtab, scopes, blklev) PROVE Resolves
<1> SUFFICES ASSUME NEW n \in Names, NEW mos \in BOOLEAN PROVE hshtab[lookup(hshtab, n, mos)].d = Meaning(n, mos)
    BY DEF Resolves
<1> DEFINE i == lookup(hshtab, n, mos)
<1>1. i = lookup(hshtab, n, mos)
    OBVIOUS
<1> HIDE DEF i
<1>2. Meaning(n, mos) = hshtab[i].d
    BY <1>1, InnermostIs
<1> QED BY <1>1, <1>2

---------------------------------------------------------------------------
(* A name is entered, declared anew, or declared over.                     *)

Stores(sc, l, n, mos, d) == [sc EXCEPT ![l][<<n, mos>>] = d]
Stored(sc, sc2, l, n, mos, d) ==
    /\ sc2 \in Scopes
    /\ Others(sc, sc2, n, mos)
    /\ Column(sc2, n, mos) = [Column(sc, n, mos) EXCEPT ![l] = d]

LEMMA StoresIs ==
    ASSUME NEW sc \in Scopes, NEW l \in 0..MaxDepth, NEW n \in Names, NEW mos \in BOOLEAN, NEW d \in Decls
    PROVE  Stored(sc, Stores(sc, l, n, mos, d), l, n, mos, d)
<1> DEFINE c == <<n, mos>>
           sc2 == Stores(sc, l, n, mos, d)
<1>1. c \in Keys
    BY DEF Keys
<1>2. sc2 = [sc EXCEPT ![l][c] = d]
    BY DEF Stores
<1>3. Column(sc2, n, mos) = [k \in 0..MaxDepth |-> sc2[k][c]] /\ Column(sc, n, mos) = [k \in 0..MaxDepth |-> sc[k][c]]
    BY DEF Column
<1>4. Others(sc, sc2, n, mos) <=> \A k \in 0..MaxDepth, key \in Keys : key # c => sc2[k][key] = sc[k][key]
    BY DEF Others
<1> HIDE DEF c, sc2
<1>5. sc2 \in Scopes
    BY <1>1, <1>2 DEF Scopes
<1>6. sc2[l][c] = d /\ \A k \in 0..MaxDepth : k # l => sc2[k][c] = sc[k][c]
    BY <1>1, <1>2 DEF Scopes
<1>7. \A k \in 0..MaxDepth, key \in Keys : key # c => sc2[k][key] = sc[k][key]
    BY <1>1, <1>2 DEF Scopes
<1>8. [k \in 0..MaxDepth |-> sc2[k][c]] = [[k \in 0..MaxDepth |-> sc[k][c]] EXCEPT ![l] = d]
    BY <1>6
<1>9. Stored(sc, sc2, l, n, mos, d)
    BY <1>3, <1>4, <1>5, <1>7, <1>8 DEF Stored
<1> QED BY <1>9 DEF sc2

LEMMA StoredEntries ==
    ASSUME NEW sc \in Scopes, NEW sc2, NEW l \in 0..MaxDepth, NEW n \in Names, NEW mos \in BOOLEAN, NEW d \in Decls,
           Stored(sc, sc2, l, n, mos, d)
    PROVE  /\ Entry(sc2, l, n, mos) = d
           /\ \A k \in 0..MaxDepth : k # l => Entry(sc2, k, n, mos) = Entry(sc, k, n, mos)
<1>1. sc2 \in Scopes /\ Column(sc2, n, mos) = [Column(sc, n, mos) EXCEPT ![l] = d]
    BY DEF Stored
<1>2. Column(sc, n, mos) \in Columns
    BY ColumnIs
<1>3. [Column(sc, n, mos) EXCEPT ![l] = d][l] = d
      /\ \A k \in 0..MaxDepth : k # l => [Column(sc, n, mos) EXCEPT ![l] = d][k] = Column(sc, n, mos)[k]
    BY <1>2 DEF Columns
<1>4. \A k \in 0..MaxDepth : Column(sc, n, mos)[k] = Entry(sc, k, n, mos) /\ Column(sc2, n, mos)[k] = Entry(sc2, k, n, mos)
    BY <1>1, ColumnIs
<1> QED BY <1>1, <1>3, <1>4

New(n, mos, d, lev) == [name |-> n, mos |-> mos, hblklev |-> lev, d |-> d, hpdown |-> <<>>]
LEMMA NewIs ==
    ASSUME NEW n \in Names, NEW mos \in BOOLEAN, NEW d \in Decls, NEW lev \in Nat
    PROVE  /\ New(n, mos, d, lev) \in Slot /\ Named(New(n, mos, d, lev), n, mos)
           /\ New(n, mos, d, lev).hblklev = lev /\ New(n, mos, d, lev).d = d /\ New(n, mos, d, lev).hpdown = <<>>
<1>1. <<>> \in Seq(Hidden)
    OBVIOUS
<1> QED BY <1>1 DEF New, Slot, Named

LEMMA BookEnter ==
    ASSUME NEW t, NEW sc, NEW lev, Book(t, sc, lev), NEW n \in Names, NEW mos \in BOOLEAN, NEW i, i = lookup(t, n, mos),
           ~Taken(t, i), NEW d \in Decls, Declared(d, mos),
           NEW t2, t2 = Put(t, i, New(n, mos, d, lev)), Room(t2),
           NEW sc2, Stored(sc, sc2, lev, n, mos, d)
    PROVE  Book(t2, sc2, lev)
<1>1. sc \in Scopes /\ lev \in 0..MaxDepth /\ lev \in Nat
    BY Depths DEF Book
<1>2. Absent(sc, n, mos)
    BY LookupBook
<1>3. Column(sc, n, mos) \in Columns /\ \A l \in 0..MaxDepth : Column(sc, n, mos)[l] = Undeclared
    BY <1>1, <1>2, ColumnIs DEF Absent
<1> DEFINE s == New(n, mos, d, lev)
<1>4. s \in Slot /\ Named(s, n, mos) /\ s.hblklev = lev /\ s.d = d /\ s.hpdown = <<>>
    BY <1>1, NewIs
<1>5. t2 = Put(t, i, s)
    OBVIOUS
<1> HIDE DEF s
<1>6. Declared(s.d, s.mos)
    BY <1>4 DEF Named
<1>7. Denotes(s, [Column(sc, n, mos) EXCEPT ![lev] = s.d], lev) /\ Bottom(s) = lev
    BY <1>1, <1>3, <1>4, <1>6, DenotesFresh
<1>8. Denotes(s, Column(sc2, n, mos), lev) /\ sc2 \in Scopes /\ Others(sc, sc2, n, mos)
    BY <1>4, <1>7 DEF Stored
<1>9. Bottom(s) = IF Taken(t, i) THEN Bottom(t[i]) ELSE lev
    BY <1>7
<1> QED BY <1>4, <1>5, <1>8, <1>9, BookUpdate

LEMMA RoomStays ==
    ASSUME NEW t \in Tables, Room(t), NEW i \in Slots, NEW s, s.name = t[i].name
    PROVE  Room(Put(t, i, s))
<1>1. PICK j \in Slots : t[j].name = ""
    BY DEF Room
<1>2. Put(t, i, s)[j].name = ""
    BY <1>1 DEF Tables, Put
<1> QED BY <1>2 DEF Room

LEMMA BookSlot ==
    ASSUME NEW t, NEW sc, NEW lev, Book(t, sc, lev), NEW n \in Names, NEW mos \in BOOLEAN, NEW i, i = lookup(t, n, mos), Taken(t, i)
    PROVE  /\ t \in Tables /\ Room(t) /\ sc \in Scopes /\ lev \in 0..MaxDepth /\ Column(sc, n, mos) \in Columns
           /\ i \in Slots /\ t[i] \in Slot /\ Named(t[i], n, mos) /\ Denotes(t[i], Column(sc, n, mos), lev)
           /\ t[i].hblklev \in 0..lev /\ t[i].hblklev \in 0..MaxDepth
<1>1. t \in Tables /\ Room(t) /\ sc \in Scopes /\ lev \in 0..MaxDepth
    BY DEF Book
<1>2. i \in Slots /\ Is(t, i, n, mos)
    BY LookupBook
<1>3. t[i] \in Slot /\ Named(t[i], n, mos)
    BY <1>1, <1>2, TakenKey DEF Named, Is
<1>4. Denotes(t[i], Column(sc, n, mos), lev)
    BY <1>2 DEF Book, Is
<1>5. t[i].hblklev \in 0..lev
    BY <1>1, <1>3, <1>4, BottomWithin
<1>6. t[i].hblklev \in 0..MaxDepth
    BY <1>1, <1>5, Depths
<1> QED BY <1>1, <1>2, <1>3, <1>4, <1>5, <1>6, ColumnIs

Redone(s, d) == [s EXCEPT !.d = d]
\* A label takes only a label's place, or hides only what the file declares.
MayReplace(d, s) == d.lab => s.d.lab \/ s.hpdown = <<>>
Outer(s, lev) == s.hblklev < lev
MayHide(d, s) == d.lab => s.hblklev = 0
LEMMA BookSet ==
    ASSUME NEW t, NEW sc, NEW lev, Book(t, sc, lev), NEW n \in Names, NEW mos \in BOOLEAN, NEW i, i = lookup(t, n, mos),
           Taken(t, i), NEW d \in Decls, Declared(d, mos), MayReplace(d, t[i]),
           NEW t2, t2 = Put(t, i, Redone(t[i], d)),
           NEW sc2, Stored(sc, sc2, t[i].hblklev, n, mos, d)
    PROVE  Book(t2, sc2, lev)
<1>1. /\ t \in Tables /\ Room(t) /\ sc \in Scopes /\ lev \in 0..MaxDepth /\ Column(sc, n, mos) \in Columns
      /\ i \in Slots /\ t[i] \in Slot /\ Named(t[i], n, mos) /\ Denotes(t[i], Column(sc, n, mos), lev)
    BY BookSlot
<1> DEFINE s == Redone(t[i], d)
<1>2. s \in Slot /\ s.name = t[i].name /\ Named(s, n, mos)
    BY <1>1, SetField DEF Named, Redone
<1>3. t2 = Put(t, i, s)
    OBVIOUS
<1>4. Declared(d, t[i].mos)
    BY <1>1 DEF Named
<1>5. Denotes(s, [Column(sc, n, mos) EXCEPT ![t[i].hblklev] = d], lev) /\ Bottom(s) = Bottom(t[i])
    BY <1>1, <1>4, DenotesSet DEF Redone, MayReplace
<1> HIDE DEF s
<1>6. Denotes(s, Column(sc2, n, mos), lev) /\ sc2 \in Scopes /\ Others(sc, sc2, n, mos)
    BY <1>5 DEF Stored
<1>7. Room(t2)
    BY <1>1, <1>2, <1>3, RoomStays
<1>8. Bottom(s) = IF Taken(t, i) THEN Bottom(t[i]) ELSE lev
    BY <1>5
<1> QED BY <1>2, <1>3, <1>6, <1>7, <1>8, BookUpdate

LEMMA BookPush ==
    ASSUME NEW t, NEW sc, NEW lev, Book(t, sc, lev), NEW n \in Names, NEW mos \in BOOLEAN, NEW i, i = lookup(t, n, mos),
           Taken(t, i), Outer(t[i], lev), NEW d \in Decls, Declared(d, mos), MayHide(d, t[i]),
           NEW t2, t2 = Put(t, i, Over(t[i], d, lev)),
           NEW sc2, Stored(sc, sc2, lev, n, mos, d)
    PROVE  Book(t2, sc2, lev)
<1>1. /\ t \in Tables /\ Room(t) /\ sc \in Scopes /\ lev \in 0..MaxDepth /\ Column(sc, n, mos) \in Columns
      /\ i \in Slots /\ t[i] \in Slot /\ Named(t[i], n, mos) /\ Denotes(t[i], Column(sc, n, mos), lev)
    BY BookSlot
<1> DEFINE s == Over(t[i], d, lev)
<1>2. Declared(d, t[i].mos)
    BY <1>1 DEF Named
<1>3. Denotes(s, [Column(sc, n, mos) EXCEPT ![lev] = d], lev) /\ Bottom(s) = Bottom(t[i]) /\ s \in Slot
    BY <1>1, <1>2, DenotesPush DEF MayHide, Outer
<1>4. s.name = t[i].name /\ s.mos = t[i].mos
    BY <1>1 DEF Over, Slot
<1>5. t2 = Put(t, i, s)
    OBVIOUS
<1> HIDE DEF s
<1>6. Named(s, n, mos)
    BY <1>1, <1>4 DEF Named
<1>7. Denotes(s, Column(sc2, n, mos), lev) /\ sc2 \in Scopes /\ Others(sc, sc2, n, mos)
    BY <1>3 DEF Stored
<1>8. Room(t2)
    BY <1>1, <1>4, <1>5, RoomStays
<1>9. Bottom(s) = IF Taken(t, i) THEN Bottom(t[i]) ELSE lev
    BY <1>3
<1> QED BY <1>3, <1>5, <1>6, <1>7, <1>8, <1>9, BookUpdate

---------------------------------------------------------------------------
(* The operations' tables.                                                 *)

SetAt(t, i, d) == [t EXCEPT ![i].d = d]
LEMMA PutIs ==
    ASSUME NEW t \in Tables, NEW i \in Slots, NEW s \in Slot, NEW d \in Decls
    PROVE  /\ Put(t, i, s) \in Tables /\ Put(t, i, s)[i] = s /\ \A j \in Slots : j # i => Put(t, i, s)[j] = t[j]
           /\ SetAt(Put(t, i, s), i, d) = Put(t, i, Redone(s, d))
           /\ SetAt(t, i, d) = Put(t, i, Redone(t[i], d))
<1>1. Put(t, i, s) \in Tables /\ Put(t, i, s)[i] = s /\ \A j \in Slots : j # i => Put(t, i, s)[j] = t[j]
    BY DEF Put, Tables
<1>2. [t EXCEPT ![i].d = d] = Put(t, i, Redone(t[i], d))
    BY DEF Put, Tables, Redone
<1>3. [Put(t, i, s) EXCEPT ![i].d = d] = [Put(t, i, s) EXCEPT ![i] = Redone(s, d)]
    BY <1>1 DEF Tables, Redone
<1> DEFINE r == Redone(s, d)
<1>4. [Put(t, i, s) EXCEPT ![i] = r] = Put(t, i, r)
    <2> HIDE DEF r
    <2> QED BY DEF Put, Tables
<1> QED BY <1>1, <1>2, <1>3, <1>4 DEF SetAt

LEMMA RedoneIs ==
    ASSUME NEW s \in Slot, NEW d \in Decls
    PROVE  Redone(s, d) \in Slot /\ Redone(s, d).d = d /\ Redone(s, d).hblklev = s.hblklev
           /\ Redone(s, d).name = s.name /\ Redone(s, d).hpdown = s.hpdown
BY SetField DEF Redone

LEMMA RedoneNew == ASSUME NEW n, NEW mos, NEW lev, NEW d, NEW e PROVE Redone(New(n, mos, e, lev), d) = New(n, mos, d, lev)
BY DEF Redone, New

LEMMA SameSlot ==
    ASSUME NEW r \in Slot, NEW s \in Slot,
           r.name = s.name, r.mos = s.mos, r.hblklev = s.hblklev, r.d = s.d, r.hpdown = s.hpdown
    PROVE  r = s
<1>1. r = [name |-> r.name, mos |-> r.mos, hblklev |-> r.hblklev, d |-> r.d, hpdown |-> r.hpdown]
    BY DEF Slot
<1>2. s = [name |-> s.name, mos |-> s.mos, hblklev |-> s.hblklev, d |-> s.d, hpdown |-> s.hpdown]
    BY DEF Slot
<1> QED BY <1>1, <1>2, Zenon
LEMMA FreeNamed ==
    ASSUME NEW n \in Names, NEW mos \in BOOLEAN, NEW lev \in Nat
    PROVE  [Free EXCEPT !.name = n, !.mos = mos, !.hblklev = lev] = New(n, mos, Undeclared, lev)
<1> DEFINE r == [Free EXCEPT !.name = n, !.mos = mos, !.hblklev = lev]
           s == New(n, mos, Undeclared, lev)
<1>1. r \in Slot /\ r.name = n /\ r.mos = mos /\ r.hblklev = lev /\ r.d = Free.d /\ r.hpdown = Free.hpdown
    BY Constants DEF Slot
<1>2. s \in Slot /\ s.name = n /\ s.mos = mos /\ s.hblklev = lev /\ s.d = Undeclared /\ s.hpdown = <<>>
    <2>1. s \in Slot
        BY Constants, NewIs
    <2> QED BY <2>1, Zenon DEF New
<1> HIDE DEF r, s
<1>3. r = s
    BY <1>1, <1>2, Constants, SameSlot
<1> QED BY <1>3 DEF r, s

LEMMA EnterIs ==
    ASSUME NEW t, NEW i, NEW n \in Names, NEW mos \in BOOLEAN, NEW lev \in Nat
    PROVE  /\ Taken(t, i) => Enter(t, i, n, mos, lev) = t
           /\ ~Taken(t, i) => Enter(t, i, n, mos, lev) = Put(t, i, New(n, mos, Undeclared, lev))
<1>1. [Free EXCEPT !.name = n, !.mos = mos, !.hblklev = lev] = New(n, mos, Undeclared, lev)
    BY FreeNamed
<1>2. CASE Taken(t, i)
    BY <1>2 DEF Enter, Taken
<1>3. CASE ~Taken(t, i)
    <2>1. Enter(t, i, n, mos, lev) = [t EXCEPT ![i] = [Free EXCEPT !.name = n, !.mos = mos, !.hblklev = lev]]
        BY <1>3 DEF Enter, Taken
    <2> QED BY <1>1, <1>3, <2>1 DEF Put
<1> QED BY <1>2, <1>3

LEMMA OverIs ==
    ASSUME NEW s \in Slot, NEW lev \in Nat, NEW d \in Decls, NEW e \in Decls
    PROVE  /\ Over(s, d, lev) \in Slot /\ Over(s, d, lev).d = d /\ Over(s, d, lev).hblklev = lev /\ Over(s, d, lev).name = s.name
           /\ Redone(Over(s, d, lev), e) = Over(s, e, lev)
<1> DEFINE q == <<[d |-> s.d, hblklev |-> s.hblklev]>> \o s.hpdown
<1>1. q \in Seq(Hidden)
    <2>1. [d |-> s.d, hblklev |-> s.hblklev] \in Hidden /\ s.hpdown \in Seq(Hidden)
        BY SlotFields DEF Hidden
    <2> QED BY <2>1
<1>2. Over(s, d, lev) = [s EXCEPT !.d = d, !.hblklev = lev, !.hpdown = q] /\ Over(s, e, lev) = [s EXCEPT !.d = e, !.hblklev = lev, !.hpdown = q]
    BY DEF Over
<1> HIDE DEF q
<1>3. Over(s, d, lev) \in Slot /\ Over(s, d, lev).d = d /\ Over(s, d, lev).hblklev = lev /\ Over(s, d, lev).name = s.name
    BY <1>1, <1>2 DEF Slot
<1>4. Redone(Over(s, d, lev), e) = Over(s, e, lev)
    BY <1>2 DEF Slot, Redone
<1> QED BY <1>3, <1>4

LEMMA PushIs == ASSUME NEW t, NEW i \in Slots, NEW lev PROVE pushdecl(t, i, lev) = Put(t, i, Over(t[i], Undeclared, lev))
BY Zenon DEF pushdecl, Over, Put

LEMMA DeclTable ==
    ASSUME NEW t \in Tables, NEW n \in Names, NEW mos \in BOOLEAN, NEW d \in Decls, NEW i \in Slots, i = lookup(t, n, mos),
           blklev \in Nat, NEW v, v = decl1(t, n, mos, d)
    PROVE  /\ ~Taken(t, i) => v = Put(t, i, New(n, mos, d, blklev))
           /\ Taken(t, i) /\ Outer(t[i], blklev) => v = Put(t, i, Over(t[i], d, blklev))
           /\ Taken(t, i) /\ ~Outer(t[i], blklev) =>
                /\ Agrees(t[i].d, d) => v = Put(t, i, Redone(t[i], d))
                /\ ~Agrees(t[i].d, d) => v = t
<1>1. decl1(t, n, mos, d) = SetIfAgrees(NewScope(Enter(t, i, n, mos, blklev), i, blklev), i, d)
    BY DEF decl1
<1>2. Agrees(Undeclared, d) /\ Undeclared \in Decls /\ t[i] \in Slot
    BY Constants DEF Agrees, Tables
<1>3. ASSUME ~Taken(t, i) PROVE decl1(t, n, mos, d) = Put(t, i, New(n, mos, d, blklev))
    <2> DEFINE a == New(n, mos, Undeclared, blklev)
               u == Put(t, i, a)
    <2>1. Enter(t, i, n, mos, blklev) = u
        BY <1>3, EnterIs
    <2>2. a \in Slot /\ a.hblklev = blklev /\ a.d = Undeclared
        BY <1>2, NewIs
    <2>3. Redone(a, d) = New(n, mos, d, blklev)
        BY RedoneNew
    <2> HIDE DEF a
    <2>4. u[i] = a /\ SetAt(u, i, d) = Put(t, i, Redone(a, d))
        BY <2>2, PutIs
    <2> HIDE DEF u
    <2>5. NewScope(u, i, blklev) = u
        <3>1. ~(u[i].hblklev < blklev)
            BY <2>2, <2>4
        <3> QED BY <3>1 DEF NewScope
    <2>6. SetIfAgrees(u, i, d) = SetAt(u, i, d)
        BY <1>2, <2>2, <2>4 DEF SetIfAgrees, SetAt
    <2> QED BY <1>1, <2>1, <2>3, <2>4, <2>5, <2>6
<1>4. ASSUME Taken(t, i), t[i].hblklev < blklev PROVE decl1(t, n, mos, d) = Put(t, i, Over(t[i], d, blklev))
    <2> DEFINE a == Over(t[i], Undeclared, blklev)
               u == Put(t, i, a)
    <2>1. Enter(t, i, n, mos, blklev) = t
        BY <1>4, EnterIs
    <2>2. NewScope(t, i, blklev) = u
        BY <1>4, PushIs DEF NewScope
    <2>3. a \in Slot /\ a.d = Undeclared /\ Redone(a, d) = Over(t[i], d, blklev)
        BY <1>2, OverIs
    <2> HIDE DEF a
    <2>4. u[i] = a /\ SetAt(u, i, d) = Put(t, i, Redone(a, d))
        BY <2>3, PutIs
    <2> HIDE DEF u
    <2>5. SetIfAgrees(u, i, d) = SetAt(u, i, d)
        BY <1>2, <2>3, <2>4 DEF SetIfAgrees, SetAt
    <2> QED BY <1>1, <2>1, <2>2, <2>3, <2>4, <2>5
<1>5. ASSUME Taken(t, i), ~(t[i].hblklev < blklev)
      PROVE  decl1(t, n, mos, d) = IF Agrees(t[i].d, d) THEN Put(t, i, Redone(t[i], d)) ELSE t
    <2>1. Enter(t, i, n, mos, blklev) = t /\ NewScope(t, i, blklev) = t
        BY <1>5, EnterIs DEF NewScope
    <2>2. SetAt(t, i, d) = Put(t, i, Redone(t[i], d))
        BY <1>2, PutIs
    <2> QED BY <1>1, <2>1, <2>2 DEF SetIfAgrees, SetAt
<1> QED BY <1>3, <1>4, <1>5 DEF Outer

LEMMA UpToNat ==
    \A x, b : b \in Nat => /\ x \in 0..b => x \in Nat /\ (x < b \/ x = b)
                           /\ x = b => x >= b /\ ~(x < b)
                           /\ x \in Nat /\ x < b => ~(x >= b)
OBVIOUS

LEMMA LookupAt ==
    ASSUME NEW t, NEW sc, NEW lev, Book(t, sc, lev), NEW n \in Names, NEW mos \in BOOLEAN, NEW i, i = lookup(t, n, mos)
    PROVE  i \in Slots /\ (~Taken(t, i) => t[i] = Free /\ Absent(sc, n, mos))
BY LookupBook

LEMMA AgreesUndeclared == ASSUME NEW d PROVE Agrees(Undeclared, d)
BY Constants DEF Agrees

LEMMA DeclRoom == ASSUME NEW t, Reads(t) PROVE hshtab' = t /\ Room(t) /\ nread' = nread + 1
<1>1. hshused(t) < HSHSIZ /\ hshtab' = t /\ nread' = nread + 1
    BY DEF Reads
<1> QED BY <1>1, UsedRoom

Plain(d) == d.hclass # "" /\ ~d.lab
\* decl1 of a table that says what the scopes do.
LEMMA DeclBook ==
    ASSUME NEW t, NEW sc, Book(t, sc, blklev), NEW n \in Names, NEW mos \in BOOLEAN, NEW d \in Decls, Plain(d),
           NEW v, v = decl1(t, n, mos, d), Room(v),
           NEW sc2, sc2 = IF Agrees(Entry(sc, blklev, n, mos), d) THEN Stores(sc, blklev, n, mos, d) ELSE sc
    PROVE  /\ Book(v, sc2, blklev)
           /\ Redeclared(t, n, mos, d) <=> ~Agrees(Entry(sc, blklev, n, mos), d)
<1> DEFINE i == lookup(t, n, mos)
           old == Entry(sc, blklev, n, mos)
           new == Stores(sc, blklev, n, mos, d)
<1>1. t \in Tables /\ sc \in Scopes /\ blklev \in 0..MaxDepth /\ blklev \in Nat /\ Declared(d, mos)
    BY Constants, Depths DEF Book, Declared, Plain
<1>2. sc2 = IF Agrees(old, d) THEN new ELSE sc
    OBVIOUS
<1>3. Stored(sc, new, blklev, n, mos, d)
    BY <1>1, StoresIs
<1>4. Redeclared(t, n, mos, d) <=> Taken(t, i) /\ t[i].hblklev >= blklev /\ ~Agrees(t[i].d, d)
    BY DEF Redeclared, RedeclaredAt, Taken
<1>5. i = lookup(t, n, mos)
    OBVIOUS
<1> HIDE DEF i, new
<1>6. i \in Slots /\ (~Taken(t, i) => Absent(sc, n, mos))
    BY <1>5, LookupAt
<1>7. Taken(t, i) => /\ t[i].hblklev \in 0..blklev /\ t[i].hblklev \in Nat /\ Entry(sc, t[i].hblklev, n, mos) = t[i].d
                      /\ \A l \in 0..MaxDepth : Entry(sc, l, n, mos) # Undeclared => l <= t[i].hblklev
    BY <1>5, SlotMeans
<1>8. Taken(t, i) => /\ t[i].hblklev \in 0..blklev /\ Entry(sc, t[i].hblklev, n, mos) = t[i].d
                     /\ t[i].hblklev < blklev => Entry(sc, blklev, n, mos) = Undeclared
    <2>1. ASSUME Taken(t, i), t[i].hblklev < blklev PROVE ~(blklev <= t[i].hblklev)
        BY <1>1, <1>7, <2>1
    <2> QED BY <1>1, <1>7, <2>1
<1>9. Taken(t, i) => t[i].hblklev \in Nat /\ (t[i].hblklev < blklev \/ t[i].hblklev = blklev)
    BY <1>1, <1>8, UpToNat, Zenon
<1>10. ~Taken(t, i) => v = Put(t, i, New(n, mos, d, blklev))
    BY <1>1, <1>5, <1>6, DeclTable
<1>11. Taken(t, i) /\ Outer(t[i], blklev) => v = Put(t, i, Over(t[i], d, blklev))
    BY <1>1, <1>5, <1>6, DeclTable
<1>12. Taken(t, i) /\ ~Outer(t[i], blklev) =>
           (Agrees(t[i].d, d) => v = Put(t, i, Redone(t[i], d)))
    BY <1>1, <1>5, <1>6, DeclTable
<1>13. Taken(t, i) /\ ~Outer(t[i], blklev) =>
           (~Agrees(t[i].d, d) => v = t)
    BY <1>1, <1>5, <1>6, DeclTable
<1>14. CASE ~Taken(t, i)
    <2>1. old = Undeclared
        BY <1>1, <1>6, <1>14 DEF Absent
    <2>2. Agrees(old, d) /\ sc2 = new
        BY <1>2, <2>1, AgreesUndeclared
    <2>3. Book(v, sc2, blklev)
        BY <1>1, <1>3, <1>5, <1>10, <1>14, <2>2, BookEnter
    <2> QED BY <1>4, <1>14, <2>2, <2>3
<1>15. MayReplace(d, t[i]) /\ MayHide(d, t[i])
    BY DEF MayReplace, MayHide, Plain
<1>16. CASE Taken(t, i) /\ Outer(t[i], blklev)
    <2>1. old = Undeclared
        BY <1>8, <1>16 DEF Outer
    <2>2. Agrees(old, d) /\ sc2 = new
        BY <1>2, <2>1, AgreesUndeclared
    <2>3. Book(v, sc2, blklev)
        BY <1>1, <1>3, <1>5, <1>11, <1>16, <1>15, <2>2, BookPush
    <2>4. ~(t[i].hblklev >= blklev)
        BY <1>1, <1>16, <1>9, UpToNat, Zenon DEF Outer
    <2> QED BY <1>4, <2>2, <2>3, <2>4
<1>17. CASE Taken(t, i) /\ ~Outer(t[i], blklev)
    <2>1. t[i].hblklev = blklev /\ t[i].hblklev >= blklev /\ old = t[i].d
        BY <1>1, <1>8, <1>17, <1>9, UpToNat, Zenon DEF Outer
    <2>2. CASE Agrees(old, d)
        <3>1. v = Put(t, i, Redone(t[i], d)) /\ sc2 = new
            BY <1>2, <1>12, <1>17, <2>1, <2>2
        <3>2. Stored(sc, sc2, t[i].hblklev, n, mos, d)
            BY <1>3, <2>1, <3>1
        <3>3. Book(v, sc2, blklev)
            BY <1>1, <1>5, <1>17, <1>15, <3>1, <3>2, BookSet
        <3> QED BY <1>4, <2>1, <2>2, <3>3
    <2>3. CASE ~Agrees(old, d)
        <3>1. v = t /\ sc2 = sc
            BY <1>2, <1>13, <1>17, <2>1, <2>3
        <3> QED BY <1>4, <1>17, <2>1, <2>3, <3>1
    <2> QED BY <2>2, <2>3
<1> QED BY <1>14, <1>16, <1>17

\* Reading a declarator: decl1 for the table, DeclaresHere for the scopes.
LEMMA DeclStep ==
    ASSUME Book(hshtab, scopes, blklev), NEW n \in Names, NEW mos \in BOOLEAN, NEW d \in Decls, Plain(d),
           Reads(decl1(hshtab, n, mos, d)), DeclaresHere(n, mos, d)
    PROVE  /\ Book(hshtab', scopes', blklev)
           /\ scopes' = IF Agrees(Entry(scopes, blklev, n, mos), d) THEN Stores(scopes, blklev, n, mos, d) ELSE scopes
           /\ Redeclared(hshtab, n, mos, d) <=> ~Agrees(Entry(scopes, blklev, n, mos), d)
<1>1. hshtab' = decl1(hshtab, n, mos, d) /\ Room(hshtab')
    BY DeclRoom
<1>2. scopes' = IF Agrees(Entry(scopes, blklev, n, mos), d) THEN Stores(scopes, blklev, n, mos, d) ELSE scopes
    BY DEF DeclaresHere, Declares, Stores, Entry
<1> QED BY <1>1, <1>2, DeclBook

---------------------------------------------------------------------------
(* The other readers of names.                                             *)

\* What is so of a name's slot, and what the scopes say of the name.
LEMMA NameIs ==
    ASSUME Book(hshtab, scopes, blklev), NEW n \in Names, NEW mos \in BOOLEAN, NEW i, i = lookup(hshtab, n, mos)
    PROVE  /\ i \in Slots /\ hshtab \in Tables /\ hshtab[i] \in Slot /\ scopes \in Scopes /\ blklev \in 0..MaxDepth /\ blklev \in Nat
           /\ ~Taken(hshtab, i) => Meaning(n, mos) = Undeclared /\ Entry(scopes, blklev, n, mos) = Undeclared /\ Innermost(n, mos) = -1
           /\ Taken(hshtab, i) => /\ Meaning(n, mos) = hshtab[i].d /\ Innermost(n, mos) = hshtab[i].hblklev
                                  /\ Declared(hshtab[i].d, mos) /\ hshtab[i].hblklev \in Nat /\ hshtab[i].hblklev \in 0..MaxDepth
                                  /\ Entry(scopes, hshtab[i].hblklev, n, mos) = hshtab[i].d
           /\ Taken(hshtab, i) /\ Outer(hshtab[i], blklev) => Entry(scopes, blklev, n, mos) = Undeclared
           /\ Taken(hshtab, i) /\ ~Outer(hshtab[i], blklev) => hshtab[i].hblklev = blklev
<1>1. hshtab \in Tables /\ scopes \in Scopes /\ blklev \in 0..MaxDepth /\ blklev \in Nat
    BY Depths DEF Book
<1>2. i \in Slots /\ (~Taken(hshtab, i) => hshtab[i] = Free /\ Absent(scopes, n, mos))
    BY LookupAt
<1>3. hshtab[i] \in Slot
    BY <1>1, <1>2 DEF Tables
<1>4. Innermost(n, mos) = IF Taken(hshtab, i) THEN hshtab[i].hblklev ELSE -1
    BY InnermostIs
<1>5. Meaning(n, mos) = hshtab[i].d
    BY InnermostIs
<1>6. CASE ~Taken(hshtab, i)
    <2>1. Meaning(n, mos) = Undeclared /\ Entry(scopes, blklev, n, mos) = Undeclared
        BY <1>1, <1>2, <1>5, <1>6, Constants DEF Absent
    <2> QED BY <1>1, <1>2, <1>3, <1>4, <1>6, <2>1
<1>7. CASE Taken(hshtab, i)
    <2>1. /\ hshtab[i].hblklev \in 0..blklev /\ hshtab[i].hblklev \in 0..MaxDepth /\ hshtab[i].hblklev \in Nat
          /\ Entry(scopes, hshtab[i].hblklev, n, mos) = hshtab[i].d /\ Declared(hshtab[i].d, mos)
        BY <1>7, SlotMeans
    <2>2. \A l \in 0..MaxDepth : Entry(scopes, l, n, mos) # Undeclared => l <= hshtab[i].hblklev
        BY <1>7, SlotMeans
    <2>3. Outer(hshtab[i], blklev) => Entry(scopes, blklev, n, mos) = Undeclared
        <3>1. Outer(hshtab[i], blklev) => ~(blklev <= hshtab[i].hblklev)
            BY <1>1, <2>1 DEF Outer
        <3> QED BY <1>1, <2>2, <3>1
    <2>4. ~Outer(hshtab[i], blklev) => hshtab[i].hblklev = blklev
        BY <1>1, <2>1 DEF Outer
    <2> QED BY <1>1, <1>2, <1>3, <1>4, <1>5, <1>7, <2>1, <2>3, <2>4
<1> QED BY <1>6, <1>7

\* No declaration of the file is a label.
FunctionLabels(sc) == \A l \in 0..MaxDepth, key \in Keys : sc[l][key].lab => l > 0 /\ sc[l][key].hclass # "EXTERN"
OfFunction(d, l) == d.lab => l > 0 /\ d.hclass # "EXTERN"
LEMMA LabelsStored ==
    ASSUME NEW sc \in Scopes, FunctionLabels(sc), NEW l \in 0..MaxDepth, NEW n \in Names, NEW mos \in BOOLEAN, NEW d \in Decls,
           NEW sc2, Stored(sc, sc2, l, n, mos, d), OfFunction(d, l)
    PROVE  FunctionLabels(sc2)
<1>1. Others(sc, sc2, n, mos)
    BY DEF Stored
<1>2. /\ Entry(sc2, l, n, mos) = d
      /\ \A k \in 0..MaxDepth : k # l => Entry(sc2, k, n, mos) = Entry(sc, k, n, mos)
    BY StoredEntries
<1> DEFINE c == <<n, mos>>
<1>3. c \in Keys
    BY DEF Keys
<1>4. \A k \in 0..MaxDepth, key \in Keys : key # c => sc2[k][key] = sc[k][key]
    BY <1>1 DEF Others
<1>5. sc2[l][c] = d /\ \A k \in 0..MaxDepth : k # l => sc2[k][c] = sc[k][c]
    BY <1>2 DEF Entry
<1> HIDE DEF c
<1>6. \A k \in 0..MaxDepth, key \in Keys : sc2[k][key] = sc[k][key] \/ (k = l /\ sc2[k][key] = d)
    BY <1>4, <1>5
<1> SUFFICES ASSUME NEW k \in 0..MaxDepth, NEW key \in Keys, sc2[k][key].lab PROVE k > 0 /\ sc2[k][key].hclass # "EXTERN"
    BY DEF FunctionLabels
<1>7. CASE sc2[k][key] = sc[k][key]
    BY <1>7 DEF FunctionLabels
<1>8. CASE k = l /\ sc2[k][key] = d
    BY <1>8 DEF OfFunction
<1> QED BY <1>6, <1>7, <1>8

LEMMA FileDeclares ==
    ASSUME NEW sc \in Scopes, FunctionLabels(sc), NEW l \in 0..MaxDepth, NEW n \in Names, NEW mos \in BOOLEAN
    PROVE  OfFunction(Entry(sc, l, n, mos), l)
<1>1. <<n, mos>> \in Keys
    BY DEF Keys
<1> QED BY <1>1 DEF FunctionLabels, OfFunction, Entry

\* A name entered with its declaration; the slot it is entered in.
LEMMA EnterStep ==
    ASSUME Book(hshtab, scopes, blklev), NEW n \in Names, NEW mos \in BOOLEAN, NEW i, i = lookup(hshtab, n, mos),
           ~Taken(hshtab, i)
    PROVE  LET t == Enter(hshtab, i, n, mos, blklev) IN
           /\ t = Put(hshtab, i, New(n, mos, Undeclared, blklev))
           /\ t[i].d = Undeclared /\ t[i].hblklev = blklev
           /\ \A d \in Decls : SetAt(t, i, d) = Put(hshtab, i, New(n, mos, d, blklev))
<1> DEFINE t == Enter(hshtab, i, n, mos, blklev)
           a == New(n, mos, Undeclared, blklev)
<1>1. i \in Slots /\ hshtab \in Tables /\ blklev \in Nat
    BY NameIs
<1>2. Undeclared \in Decls
    BY Constants
<1>3. t = Put(hshtab, i, a)
    BY <1>1, EnterIs
<1>4. a \in Slot /\ a.d = Undeclared /\ a.hblklev = blklev
    BY <1>2, <1>1, NewIs
<1>5. \A d : Redone(a, d) = New(n, mos, d, blklev)
    BY RedoneNew
<1> HIDE DEF t, a
<1>6. t[i] = a
    BY <1>2, <1>1, <1>3, <1>4, PutIs
<1>7. ASSUME NEW d \in Decls PROVE SetAt(t, i, d) = Put(hshtab, i, New(n, mos, d, blklev))
    BY <1>1, <1>3, <1>4, <1>5, PutIs
<1>8. t = Put(hshtab, i, New(n, mos, Undeclared, blklev))
    BY <1>3 DEF a
<1>9. t[i].d = Undeclared /\ t[i].hblklev = blklev
    BY <1>4, <1>6
<1>10. /\ t = Put(hshtab, i, New(n, mos, Undeclared, blklev))
      /\ t[i].d = Undeclared /\ t[i].hblklev = blklev
      /\ \A d \in Decls : SetAt(t, i, d) = Put(hshtab, i, New(n, mos, d, blklev))
    BY <1>7, <1>8, <1>9
<1> QED BY <1>10 DEF t

\* A slot pushed down, with the declaration set over it.
LEMMA PushStep ==
    ASSUME NEW t \in Tables, NEW i \in Slots, NEW lev \in Nat
    PROVE  /\ pushdecl(t, i, lev)[i].d = Undeclared
           /\ \A d \in Decls : SetAt(pushdecl(t, i, lev), i, d) = Put(t, i, Over(t[i], d, lev))
<1> DEFINE a == Over(t[i], Undeclared, lev)
<1>1. t[i] \in Slot /\ Undeclared \in Decls
    BY Constants DEF Tables
<1>2. pushdecl(t, i, lev) = Put(t, i, a)
    BY PushIs
<1>3. a \in Slot /\ a.d = Undeclared
    BY <1>1, OverIs
<1>4. \A d \in Decls : Redone(a, d) = Over(t[i], d, lev)
    BY <1>1, OverIs
<1> HIDE DEF a
<1>5. pushdecl(t, i, lev)[i] = a
    BY <1>1, <1>2, <1>3, PutIs
<1>6. ASSUME NEW d \in Decls PROVE SetAt(pushdecl(t, i, lev), i, d) = Put(t, i, Over(t[i], d, lev))
    BY <1>2, <1>3, <1>4, PutIs
<1> QED BY <1>3, <1>5, <1>6

\* What a handler does with a declaration d of the name it reads: nothing,
\* a new entry, an entry over the one hidden, or another in its place.
Read(n, mos, i, d) ==
    \/ hshtab' = hshtab /\ scopes' = scopes
    \/ /\ ~Taken(hshtab, i)
       /\ hshtab' = Put(hshtab, i, New(n, mos, d, blklev)) /\ scopes' = Stores(scopes, blklev, n, mos, d)
    \/ /\ Taken(hshtab, i) /\ Outer(hshtab[i], blklev) /\ MayHide(d, hshtab[i])
       /\ hshtab' = Put(hshtab, i, Over(hshtab[i], d, blklev)) /\ scopes' = Stores(scopes, blklev, n, mos, d)
    \/ /\ Taken(hshtab, i) /\ MayReplace(d, hshtab[i]) /\ OfFunction(d, hshtab[i].hblklev)
       /\ hshtab' = Put(hshtab, i, Redone(hshtab[i], d)) /\ scopes' = Stores(scopes, hshtab[i].hblklev, n, mos, d)
LEMMA ReadBook ==
    ASSUME Book(hshtab, scopes, blklev), FunctionLabels(scopes), NEW n \in Names, NEW mos \in BOOLEAN,
           NEW i, i = lookup(hshtab, n, mos), NEW d \in Decls, Declared(d, mos), OfFunction(d, blklev),
           Read(n, mos, i, d), Room(hshtab')
    PROVE  Book(hshtab', scopes', blklev) /\ FunctionLabels(scopes')
<1>1. scopes \in Scopes /\ blklev \in 0..MaxDepth
    BY DEF Book
<1>2. \A l \in 0..MaxDepth : Stored(scopes, Stores(scopes, l, n, mos, d), l, n, mos, d)
    BY <1>1, StoresIs
<1>3. CASE hshtab' = hshtab /\ scopes' = scopes
    BY <1>3
<1>4. CASE /\ ~Taken(hshtab, i)
           /\ hshtab' = Put(hshtab, i, New(n, mos, d, blklev)) /\ scopes' = Stores(scopes, blklev, n, mos, d)
    <2>1. Stored(scopes, scopes', blklev, n, mos, d)
        BY <1>1, <1>2, <1>4
    <2>2. Book(hshtab', scopes', blklev)
        BY <1>4, <2>1, BookEnter
    <2> QED BY <1>1, <2>1, <2>2, LabelsStored
<1>5. CASE /\ Taken(hshtab, i) /\ Outer(hshtab[i], blklev) /\ MayHide(d, hshtab[i])
           /\ hshtab' = Put(hshtab, i, Over(hshtab[i], d, blklev)) /\ scopes' = Stores(scopes, blklev, n, mos, d)
    <2>1. Stored(scopes, scopes', blklev, n, mos, d)
        BY <1>1, <1>2, <1>5
    <2>2. Book(hshtab', scopes', blklev)
        BY <1>5, <2>1, BookPush
    <2> QED BY <1>1, <2>1, <2>2, LabelsStored
<1>6. CASE /\ Taken(hshtab, i) /\ MayReplace(d, hshtab[i]) /\ OfFunction(d, hshtab[i].hblklev)
           /\ hshtab' = Put(hshtab, i, Redone(hshtab[i], d)) /\ scopes' = Stores(scopes, hshtab[i].hblklev, n, mos, d)
    <2>1. hshtab[i].hblklev \in 0..MaxDepth
        BY <1>6, NameIs
    <2>2. Stored(scopes, scopes', hshtab[i].hblklev, n, mos, d)
        BY <1>1, <1>2, <1>6, <2>1
    <2>3. Book(hshtab', scopes', blklev)
        BY <1>6, <2>2, BookSet
    <2> QED BY <1>1, <1>6, <2>1, <2>2, <2>3, LabelsStored
<1> QED BY <1>3, <1>4, <1>5, <1>6 DEF Read

\* What a class and a type make of a declaration.
LEMMA DIs ==
    ASSUME NEW class \in Classes, class # "", NEW type \in Types, NEW off \in Int
    PROVE  /\ D(class, type, off) \in Decls /\ Plain(D(class, type, off)) /\ D(class, type, off).hclass = class
           /\ Declared(D(class, type, off), TRUE) /\ Declared(D(class, type, off), FALSE)
           /\ \A l : OfFunction(D(class, type, off), l)
<1> DEFINE d == D(class, type, off)
<1>1. d \in Decls /\ d.hclass = class /\ d.lab = FALSE
    BY DEF D, Decls
<1> HIDE DEF d
<1>2. Plain(d) /\ \A l : OfFunction(d, l)
    BY <1>1 DEF Plain, OfFunction
<1>3. d # Undeclared
    BY <1>1, Constants
<1>4. Declared(d, TRUE) /\ Declared(d, FALSE)
    BY <1>1, <1>3 DEF Declared
<1>5. d \in Decls /\ Plain(d) /\ d.hclass = class /\ Declared(d, TRUE) /\ Declared(d, FALSE) /\ \A l : OfFunction(d, l)
    BY <1>1, <1>2, <1>4
<1> QED BY <1>5 DEF d

LEMMA TagStep ==
    ASSUME Book(hshtab, scopes, blklev), FunctionLabels(scopes), NEW n \in Names, NEW brace \in BOOLEAN, strdec(n, brace)
    PROVE  Book(hshtab', scopes', blklev) /\ FunctionLabels(scopes')
<1> DEFINE i == lookup(hshtab, n, TRUE)
           t == Enter(hshtab, i, n, TRUE, blklev)
           tag == D("STRTAG", "int", 0)
           u == IF brace THEN NewScope(t, i, blklev) ELSE t
           v == SetIfNew(u, i, tag)
           new == IF brace THEN Entry(scopes, blklev, n, TRUE) ELSE Meaning(n, TRUE)
<1>1. "STRTAG" \in Classes /\ "STRTAG" # "" /\ "int" \in Types /\ 0 \in Int
    BY DEF Classes, Types
<1>2. tag \in Decls /\ Declared(tag, TRUE) /\ OfFunction(tag, blklev)
    BY <1>1, DIs
<1>3. Reads(v) /\ (new = Undeclared => scopes' = Stores(scopes, blklev, n, TRUE, tag)) /\ (new # Undeclared => scopes' = scopes)
    BY DEF strdec, Declares, Stores, Entry
<1>4. hshtab' = v /\ Room(hshtab')
    BY <1>3, DeclRoom
<1>5. i = lookup(hshtab, n, TRUE)
    OBVIOUS
<1>6. v = IF u[i].d.hclass = "" THEN SetAt(u, i, tag) ELSE u
    BY DEF SetIfNew, SetAt
<1> HIDE DEF i, tag, v
<1>7. Undeclared.hclass = "" /\ \A d : d.hclass = "" => ~Declared(d, TRUE)
    BY Constants DEF Declared
<1>8. /\ i \in Slots /\ hshtab \in Tables /\ blklev \in Nat
      /\ ~Taken(hshtab, i) => new = Undeclared
      /\ Taken(hshtab, i) => Declared(hshtab[i].d, TRUE) /\ hshtab[i].d # Undeclared /\ Meaning(n, TRUE) = hshtab[i].d
      /\ Taken(hshtab, i) /\ Outer(hshtab[i], blklev) => Entry(scopes, blklev, n, TRUE) = Undeclared
      /\ Taken(hshtab, i) /\ ~Outer(hshtab[i], blklev) => Entry(scopes, blklev, n, TRUE) = hshtab[i].d
    BY <1>5, NameIs DEF Declared
<1>9. Read(n, TRUE, i, tag)
    <2>1. CASE ~Taken(hshtab, i)
        <3>1. t[i].d = Undeclared /\ t[i].hblklev = blklev /\ SetAt(t, i, tag) = Put(hshtab, i, New(n, TRUE, tag, blklev))
            BY <1>2, <1>5, <2>1, EnterStep
        <3>2. u = t
            <4>1. ~(t[i].hblklev < blklev)
                BY <1>8, <3>1, UpToNat, Zenon
            <4> HIDE DEF t
            <4> QED BY <4>1 DEF NewScope
        <3>3. v = Put(hshtab, i, New(n, TRUE, tag, blklev))
            BY <1>6, <1>7, <3>1, <3>2
        <3> QED BY <1>3, <1>4, <1>8, <2>1, <3>3 DEF Read
    <2>2. CASE Taken(hshtab, i) /\ brace /\ Outer(hshtab[i], blklev)
        <3>1. t = hshtab
            BY <1>8, <2>2 DEF Enter, Taken
        <3>2. u = pushdecl(hshtab, i, blklev)
            BY <2>2, <3>1 DEF NewScope, Outer
        <3>3. v = Put(hshtab, i, Over(hshtab[i], tag, blklev))
            <4>1. pushdecl(hshtab, i, blklev)[i].d = Undeclared
                BY <1>8, PushStep
            <4>2. SetAt(pushdecl(hshtab, i, blklev), i, tag) = Put(hshtab, i, Over(hshtab[i], tag, blklev))
                BY <1>2, <1>8, PushStep
            <4>3. u[i].d.hclass = ""
                BY <1>7, <3>2, <4>1
            <4> HIDE DEF u
            <4> QED BY <1>6, <3>2, <4>2, <4>3
        <3>4. MayHide(tag, hshtab[i])
            BY DEF MayHide, tag, D
        <3>5. scopes' = Stores(scopes, blklev, n, TRUE, tag)
            BY <1>3, <1>8, <2>2
        <3> QED BY <1>4, <2>2, <3>3, <3>4, <3>5 DEF Read
    <2>3. CASE Taken(hshtab, i) /\ ~(brace /\ Outer(hshtab[i], blklev))
        <3>1. u = hshtab
            BY <1>8, <2>3 DEF NewScope, Outer, Enter, Taken
        <3>2. v = hshtab
            BY <1>6, <1>7, <1>8, <2>3, <3>1
        <3>3. new # Undeclared
            BY <1>8, <2>3
        <3> QED BY <1>3, <1>4, <3>2, <3>3 DEF Read
    <2> QED BY <2>1, <2>2, <2>3
<1> QED BY <1>2, <1>4, <1>5, <1>9, ReadBook

LEMMA MentionStep ==
    ASSUME Book(hshtab, scopes, blklev), FunctionLabels(scopes), NEW n \in Names, NEW called \in BOOLEAN, Mention(n, called)
    PROVE  Book(hshtab', scopes', blklev) /\ FunctionLabels(scopes')
<1> DEFINE i == lookup(hshtab, n, FALSE)
           d == IF called THEN D("EXTERN", "fn", 0) ELSE D("STATIC", "int", 0)
           u == Enter(hshtab, i, n, FALSE, blklev)
           v == SetIfUnseen(u, i, d)
<1>1. /\ "EXTERN" \in Classes /\ "EXTERN" # "" /\ "STATIC" \in Classes /\ "STATIC" # ""
      /\ "int" \in Types /\ "fn" \in Types /\ 0 \in Int
    BY DEF Classes, Types
<1>2. d \in Decls /\ Declared(d, FALSE) /\ OfFunction(d, blklev)
    BY <1>1, DIs
<1>3. Reads(v) /\ (Meaning(n, FALSE) = Undeclared => scopes' = Stores(scopes, blklev, n, FALSE, d))
      /\ (Meaning(n, FALSE) # Undeclared => scopes' = scopes)
    BY DEF Mention, Declares, Stores
<1>4. hshtab' = v /\ Room(hshtab')
    BY <1>3, DeclRoom
<1>5. i = lookup(hshtab, n, FALSE)
    OBVIOUS
<1>6. v = IF u[i].d.hclass = "" /\ u[i].d.htype = "int" THEN SetAt(u, i, d) ELSE u
    BY DEF SetIfUnseen, SetAt
<1> HIDE DEF i, d, v
<1>7. Undeclared.hclass = "" /\ Undeclared.htype = "int" /\ \A e : e.hclass = "" /\ e.htype = "int" => ~Declared(e, FALSE)
    BY Constants DEF Declared
<1>8. /\ i \in Slots /\ hshtab \in Tables
      /\ ~Taken(hshtab, i) => Meaning(n, FALSE) = Undeclared
      /\ Taken(hshtab, i) => Declared(hshtab[i].d, FALSE) /\ hshtab[i].d # Undeclared /\ Meaning(n, FALSE) = hshtab[i].d
    BY <1>5, NameIs DEF Declared
<1>9. Read(n, FALSE, i, d)
    <2>1. CASE ~Taken(hshtab, i)
        <3>1. u[i].d = Undeclared /\ SetAt(u, i, d) = Put(hshtab, i, New(n, FALSE, d, blklev))
            BY <1>2, <1>5, <2>1, EnterStep
        <3>2. v = Put(hshtab, i, New(n, FALSE, d, blklev))
            BY <1>6, <1>7, <3>1
        <3> QED BY <1>3, <1>4, <1>8, <2>1, <3>2 DEF Read
    <2>2. CASE Taken(hshtab, i)
        <3>1. u = hshtab
            BY <2>2 DEF Enter, Taken
        <3>2. v = hshtab
            BY <1>6, <1>7, <1>8, <2>2, <3>1
        <3> QED BY <1>3, <1>4, <1>8, <2>2, <3>2 DEF Read
    <2> QED BY <2>1, <2>2
<1> QED BY <1>2, <1>4, <1>5, <1>9, ReadBook

\* A label's declaration, met or only gone to.
LEMMA PendingIs ==
    ASSUME NEW off \in Int, NEW l \in Nat, l > 0
    PROVE  LET lab == [Pending(off) EXCEPT !.hclass = "STATIC"] IN
           /\ Pending(off) \in Decls /\ Declared(Pending(off), FALSE) /\ OfFunction(Pending(off), l)
           /\ lab \in Decls /\ Declared(lab, FALSE) /\ OfFunction(lab, l) /\ lab.hclass = "STATIC"
<1> DEFINE p == Pending(off)
           lab == [p EXCEPT !.hclass = "STATIC"]
<1>1. p \in Decls /\ p.hclass = "" /\ p.lab = TRUE /\ p.htype = "label"
    BY DEF Pending, Decls, Classes, Types
<1> HIDE DEF p
<1>2. "STATIC" \in Classes
    BY DEF Classes
<1>3. lab \in Decls /\ lab.hclass = "STATIC" /\ lab.lab = TRUE
    BY <1>1, <1>2 DEF Decls
<1> HIDE DEF lab
<1>4. p # Undeclared /\ lab # Undeclared
    BY <1>1, <1>3, Constants
<1>5. Declared(p, FALSE) /\ OfFunction(p, l)
    BY <1>1, <1>4 DEF Declared, OfFunction
<1>6. Declared(lab, FALSE) /\ OfFunction(lab, l)
    BY <1>3, <1>4 DEF Declared, OfFunction
<1>7. p \in Decls /\ Declared(p, FALSE) /\ OfFunction(p, l) /\ lab \in Decls /\ Declared(lab, FALSE) /\ OfFunction(lab, l) /\ lab.hclass = "STATIC"
    BY <1>1, <1>3, <1>5, <1>6
<1> QED BY <1>7 DEF p, lab

\* What pushing down a declaration of the file leads to.
LEMMA FilesStep ==
    ASSUME Book(hshtab, scopes, blklev), blklev > 0, NEW n \in Names, NEW i, i = lookup(hshtab, n, FALSE)
    PROVE  LET t == Enter(hshtab, i, n, FALSE, blklev)
               u == PushFiles(t, i) IN
           /\ ~Taken(hshtab, i) => u = t
           /\ Taken(hshtab, i) => t = hshtab
           /\ Taken(hshtab, i) /\ hshtab[i].hblklev # 0 => u = hshtab /\ HasLocal(n)
           /\ Taken(hshtab, i) /\ hshtab[i].hblklev = 0 =>
                /\ ~HasLocal(n) /\ u[i].d = Undeclared /\ Outer(hshtab[i], blklev)
                /\ \A d \in Decls : MayHide(d, hshtab[i]) /\ SetAt(u, i, d) = Put(hshtab, i, Over(hshtab[i], d, blklev))
           /\ ~Taken(hshtab, i) => ~HasLocal(n)
<1> DEFINE t == Enter(hshtab, i, n, FALSE, blklev)
           u == PushFiles(t, i)
<1>1. i \in Slots /\ hshtab \in Tables /\ blklev \in Nat
    BY NameIs
<1>2. ASSUME ~Taken(hshtab, i) PROVE u = t /\ ~HasLocal(n)
    <2>1. t[i].hblklev = blklev
        BY <1>2, EnterStep
    <2>2. blklev # 0
        BY <1>1
    <2>3. u = t
        <3> HIDE DEF t
        <3> QED BY <2>1, <2>2 DEF PushFiles
    <2>4. Innermost(n, FALSE) = -1
        BY <1>2, NameIs
    <2>5. ~HasLocal(n)
        <3>1. ~(-1 > 0)
            OBVIOUS
        <3> QED BY <2>4, <3>1, Zenon DEF HasLocal
    <2> QED BY <2>3, <2>5
<1>3. ASSUME Taken(hshtab, i) PROVE t = hshtab /\ Innermost(n, FALSE) = hshtab[i].hblklev /\ hshtab[i].hblklev \in Nat
    <2>1. t = hshtab
        BY <1>3 DEF Enter, Taken
    <2>2. Innermost(n, FALSE) = hshtab[i].hblklev /\ hshtab[i].hblklev \in Nat
        BY <1>3, NameIs
    <2> QED BY <2>1, <2>2
<1> HIDE DEF t
<1>4. ASSUME Taken(hshtab, i), hshtab[i].hblklev # 0 PROVE u = hshtab /\ HasLocal(n)
    <2>1. u = hshtab
        BY <1>3, <1>4 DEF PushFiles
    <2>2. \A x \in Nat : x # 0 => x > 0
        OBVIOUS
    <2> QED BY <1>3, <1>4, <2>1, <2>2, Zenon DEF HasLocal
<1>5. ASSUME Taken(hshtab, i), hshtab[i].hblklev = 0
      PROVE  /\ ~HasLocal(n) /\ u[i].d = Undeclared /\ Outer(hshtab[i], blklev)
             /\ \A d \in Decls : MayHide(d, hshtab[i]) /\ SetAt(u, i, d) = Put(hshtab, i, Over(hshtab[i], d, blklev))
    <2>1. u = pushdecl(hshtab, i, blklev)
        BY <1>3, <1>5 DEF PushFiles
    <2>2. ~HasLocal(n) /\ Outer(hshtab[i], blklev) /\ \A d \in Decls : MayHide(d, hshtab[i])
        <3>1. ~(0 > 0) /\ 0 < blklev
            BY <1>1
        <3> QED BY <1>3, <1>5, <3>1, Zenon DEF HasLocal, Outer, MayHide
    <2>3. pushdecl(hshtab, i, blklev)[i].d = Undeclared
        BY <1>1, PushStep
    <2>4. \A d \in Decls : SetAt(pushdecl(hshtab, i, blklev), i, d) = Put(hshtab, i, Over(hshtab[i], d, blklev))
        BY <1>1, PushStep
    <2> HIDE DEF u
    <2> QED BY <2>1, <2>2, <2>3, <2>4
<1> HIDE DEF u
<1>6. /\ ~Taken(hshtab, i) => u = t
      /\ Taken(hshtab, i) => t = hshtab
      /\ Taken(hshtab, i) /\ hshtab[i].hblklev # 0 => u = hshtab /\ HasLocal(n)
      /\ Taken(hshtab, i) /\ hshtab[i].hblklev = 0 =>
           /\ ~HasLocal(n) /\ u[i].d = Undeclared /\ Outer(hshtab[i], blklev)
           /\ \A d \in Decls : MayHide(d, hshtab[i]) /\ SetAt(u, i, d) = Put(hshtab, i, Over(hshtab[i], d, blklev))
      /\ ~Taken(hshtab, i) => ~HasLocal(n)
    BY <1>2, <1>3, <1>4, <1>5
<1> QED BY <1>6 DEF t, u

LEMMA GotoStep ==
    ASSUME Book(hshtab, scopes, blklev), FunctionLabels(scopes), blklev > 0, isn \in Int, NEW n \in Names, simplegoto(n)
    PROVE  Book(hshtab', scopes', blklev) /\ FunctionLabels(scopes') /\ isn' \in Int
<1> DEFINE i == lookup(hshtab, n, FALSE)
           d == Pending(isn)
           t == Enter(hshtab, i, n, FALSE, blklev)
           u == PushFiles(t, i)
           v == IF u[i].d = Undeclared THEN SetAt(u, i, d) ELSE u
<1>1. i = lookup(hshtab, n, FALSE)
    OBVIOUS
<1>2. blklev \in Nat /\ i \in Slots /\ hshtab \in Tables
    BY <1>1, NameIs
<1>3. d \in Decls /\ Declared(d, FALSE) /\ OfFunction(d, blklev)
    BY <1>2, PendingIs
<1>4. Reads(v) /\ isn' \in Int
    <2>1. Goto(u, i, n)
        BY DEF simplegoto
    <2> HIDE DEF u, t, i
    <2>2. Reads(v)
        BY <2>1, Zenon DEF Goto, SetAt
    <2>3. isn' = isn + 1 \/ isn' = isn
        BY <2>1, Zenon DEF Goto
    <2> QED BY <2>2, <2>3
<1>5. (HasLocal(n) => scopes' = scopes) /\ (~HasLocal(n) => scopes' = Stores(scopes, blklev, n, FALSE, d))
    <2>1. IF HasLocal(n) THEN UNCHANGED scopes ELSE Declares(blklev, n, FALSE, d)
        BY DEF simplegoto
    <2> QED BY <2>1 DEF Declares, Stores
<1>6. v = IF u[i].d = Undeclared THEN SetAt(u, i, d) ELSE u
    OBVIOUS
<1> HIDE DEF i, d, v
<1>7. hshtab' = v /\ Room(hshtab')
    BY <1>4, DeclRoom
<1>8. Read(n, FALSE, i, d)
    <2>1. CASE ~Taken(hshtab, i)
        <3>1. u = t /\ ~HasLocal(n)
            BY <1>1, <2>1, FilesStep
        <3>2. t[i].d = Undeclared /\ SetAt(t, i, d) = Put(hshtab, i, New(n, FALSE, d, blklev))
            BY <1>1, <1>3, <2>1, EnterStep
        <3> HIDE DEF t, u
        <3>3. v = Put(hshtab, i, New(n, FALSE, d, blklev))
            BY <1>6, <3>1, <3>2
        <3> QED BY <1>5, <1>7, <2>1, <3>1, <3>3 DEF Read
    <2>2. CASE Taken(hshtab, i) /\ hshtab[i].hblklev = 0
        <3>1. u[i].d = Undeclared /\ ~HasLocal(n) /\ Outer(hshtab[i], blklev)
            BY <1>1, <2>2, FilesStep
        <3>2. MayHide(d, hshtab[i]) /\ SetAt(u, i, d) = Put(hshtab, i, Over(hshtab[i], d, blklev))
            BY <1>1, <1>3, <2>2, FilesStep
        <3> HIDE DEF t, u
        <3>3. v = Put(hshtab, i, Over(hshtab[i], d, blklev))
            BY <1>6, <3>1, <3>2
        <3> QED BY <1>5, <1>7, <2>2, <3>1, <3>2, <3>3 DEF Read
    <2>3. CASE Taken(hshtab, i) /\ hshtab[i].hblklev # 0
        <3>1. u = hshtab /\ HasLocal(n)
            BY <1>1, <2>3, FilesStep
        <3> HIDE DEF t, u
        <3>2. Declared(hshtab[i].d, FALSE)
            BY <1>1, <2>3, NameIs
        <3>3. v = hshtab
            BY <1>6, <3>1, <3>2 DEF Declared
        <3> QED BY <1>5, <1>7, <3>1, <3>3 DEF Read
    <2> QED BY <2>1, <2>2, <2>3
<1> QED BY <1>1, <1>3, <1>4, <1>7, <1>8, ReadBook

LEMMA LabelStep ==
    ASSUME Book(hshtab, scopes, blklev), FunctionLabels(scopes), blklev > 0, isn \in Int, NEW n \in Names, Labelled(n)
    PROVE  Book(hshtab', scopes', blklev) /\ FunctionLabels(scopes') /\ isn' \in Int
<1> DEFINE i == lookup(hshtab, n, FALSE)
           t == Enter(hshtab, i, n, FALSE, blklev)
           u == IF t[i].d.hclass # "" THEN PushFiles(t, i) ELSE t
           off == IF u[i].d.hoffset = 0 THEN isn ELSE u[i].d.hoffset
           d == [Pending(off) EXCEPT !.hclass = "STATIC"]
           v == IF u[i].d.hclass = "" THEN SetAt(u, i, d) ELSE u
<1>1. i = lookup(hshtab, n, FALSE)
    OBVIOUS
<1>2. blklev \in Nat /\ i \in Slots /\ hshtab \in Tables /\ Undeclared.hclass = ""
    BY <1>1, NameIs, Constants
<1>3. LabelIs(u, i, n, off)
    BY DEF Labelled, LabelAt
<1>4. v = IF u[i].d.hclass = "" THEN SetAt(u, i, d) ELSE u
    OBVIOUS
<1>5. u = IF t[i].d.hclass # "" THEN PushFiles(t, i) ELSE t
    OBVIOUS
<1>6. off = IF u[i].d.hoffset = 0 THEN isn ELSE u[i].d.hoffset
    OBVIOUS
<1>7. d = [Pending(off) EXCEPT !.hclass = "STATIC"]
    OBVIOUS
<1>8. t = Enter(hshtab, i, n, FALSE, blklev)
    OBVIOUS
<1> HIDE DEF i, t, u, off, d, v
<1>9. IF HasLocal(n) /\ Meaning(n, FALSE).hclass # "" THEN UNCHANGED scopes
      ELSE Declares(IF HasLocal(n) THEN Innermost(n, FALSE) ELSE blklev, n, FALSE, d)
    BY <1>3, <1>7, Zenon DEF LabelIs
<1>10. hshtab' = v /\ Room(hshtab') /\ isn' \in Int
    <2>1. Reads(v)
        BY <1>3, <1>4, <1>7, Zenon DEF LabelIs, SetAt
    <2>2. hshtab' = v /\ Room(hshtab')
        BY <2>1, DeclRoom
    <2>3. isn' = isn + 1 \/ isn' = isn
        BY <1>3, Zenon DEF LabelIs
    <2>4. isn' \in Int
        BY <2>3
    <2> QED BY <2>2, <2>4
<1>11. off \in Int
    <2>1. CASE ~Taken(hshtab, i)
        <3>1. t[i].d = Undeclared
            BY <1>1, <1>8, <2>1, EnterStep
        <3> QED BY <1>2, <1>5, <1>6, <3>1, Constants DEF Decls
    <2>2. CASE Taken(hshtab, i)
        <3>1. t = hshtab
            BY <1>8, <2>2 DEF Enter, Taken
        <3>2. hshtab[i].hblklev = 0 => PushFiles(t, i)[i].d = Undeclared
            BY <1>1, <1>8, <2>2, FilesStep
        <3>3. hshtab[i].hblklev # 0 => PushFiles(t, i) = hshtab
            BY <1>1, <1>8, <2>2, FilesStep
        <3>4. hshtab[i].d \in Decls /\ Undeclared \in Decls
            BY <1>2, Constants, SlotFields DEF Tables
        <3>5. u[i].d \in Decls
            BY <1>5, <3>1, <3>2, <3>3, <3>4
        <3> QED BY <1>6, <3>5 DEF Decls
    <2> QED BY <2>1, <2>2
<1>12. d \in Decls /\ Declared(d, FALSE) /\ OfFunction(d, blklev)
    BY <1>2, <1>7, <1>11, PendingIs
<1>13. Read(n, FALSE, i, d)
    <2>1. CASE ~Taken(hshtab, i)
        <3>1. ~HasLocal(n)
            BY <1>1, <2>1, FilesStep
        <3>2. t[i].d = Undeclared /\ SetAt(t, i, d) = Put(hshtab, i, New(n, FALSE, d, blklev))
            BY <1>1, <1>8, <1>12, <2>1, EnterStep
        <3>3. v = Put(hshtab, i, New(n, FALSE, d, blklev))
            BY <1>2, <1>4, <1>5, <3>2
        <3>4. scopes' = Stores(scopes, blklev, n, FALSE, d)
            BY <1>9, <3>1 DEF Declares, Stores
        <3> QED BY <1>10, <2>1, <3>3, <3>4 DEF Read
    <2>2. CASE Taken(hshtab, i)
        <3>1. t = hshtab
            BY <1>8, <2>2 DEF Enter, Taken
        <3>2. /\ Declared(hshtab[i].d, FALSE) /\ Meaning(n, FALSE) = hshtab[i].d /\ Innermost(n, FALSE) = hshtab[i].hblklev
              /\ hshtab[i].hblklev \in Nat /\ hshtab[i].hblklev \in 0..MaxDepth
              /\ Entry(scopes, hshtab[i].hblklev, n, FALSE) = hshtab[i].d
            BY <1>1, <2>2, NameIs
        <3>3. CASE hshtab[i].d.hclass = ""
            <4>1. hshtab[i].d.lab
                BY <3>2, <3>3 DEF Declared
            <4>2. OfFunction(hshtab[i].d, hshtab[i].hblklev)
                <5>1. scopes \in Scopes
                    BY DEF Book
                <5> QED BY <3>2, <5>1, FileDeclares
            <4>3. hshtab[i].hblklev > 0
                BY <4>1, <4>2 DEF OfFunction
            <4>4. HasLocal(n)
                BY <3>2, <4>3, Zenon DEF HasLocal
            <4>5. scopes' = Stores(scopes, hshtab[i].hblklev, n, FALSE, d)
                BY <1>9, <3>2, <3>3, <4>4 DEF Declares, Stores
            <4>6. v = Put(hshtab, i, Redone(hshtab[i], d))
                <5>1. u = hshtab
                    BY <1>5, <3>1, <3>3
                <5>2. SetAt(hshtab, i, d) = Put(hshtab, i, Redone(hshtab[i], d))
                    <6>1. hshtab[i] \in Slot
                        BY <1>2 DEF Tables
                    <6> QED BY <1>2, <1>12, <6>1, PutIs
                <5> QED BY <1>4, <3>3, <5>1, <5>2
            <4>7. MayReplace(d, hshtab[i])
                BY <4>1 DEF MayReplace
            <4>8. OfFunction(d, hshtab[i].hblklev)
                BY <1>7, <1>11, <3>2, <4>3, PendingIs
            <4> QED BY <1>10, <2>2, <4>5, <4>6, <4>7, <4>8 DEF Read
        <3>4. CASE hshtab[i].d.hclass # "" /\ hshtab[i].hblklev = 0
            <4>1. /\ ~HasLocal(n) /\ PushFiles(t, i)[i].d = Undeclared /\ Outer(hshtab[i], blklev)
                BY <1>1, <1>8, <2>2, <3>4, FilesStep
            <4>2. MayHide(d, hshtab[i]) /\ SetAt(PushFiles(t, i), i, d) = Put(hshtab, i, Over(hshtab[i], d, blklev))
                BY <1>1, <1>8, <1>12, <2>2, <3>4, FilesStep
            <4>3. v = Put(hshtab, i, Over(hshtab[i], d, blklev))
                BY <1>2, <1>4, <1>5, <3>1, <3>4, <4>1, <4>2
            <4>4. scopes' = Stores(scopes, blklev, n, FALSE, d)
                BY <1>9, <4>1 DEF Declares, Stores
            <4> QED BY <1>10, <2>2, <4>1, <4>2, <4>3, <4>4 DEF Read
        <3>5. CASE hshtab[i].d.hclass # "" /\ hshtab[i].hblklev # 0
            <4>1. PushFiles(t, i) = hshtab /\ HasLocal(n)
                BY <1>1, <1>8, <2>2, <3>5, FilesStep
            <4>2. v = hshtab
                BY <1>4, <1>5, <3>1, <3>5, <4>1
            <4>3. scopes' = scopes
                BY <1>9, <3>2, <3>5, <4>1
            <4> QED BY <1>10, <4>2, <4>3 DEF Read
        <3> QED BY <3>3, <3>4, <3>5
    <2> QED BY <2>1, <2>2
<1> QED BY <1>1, <1>10, <1>12, <1>13, ReadBook

---------------------------------------------------------------------------
(* One slot of the table changes, goes or is filled.                       *)

Paths(t, L) == \A i \in Slots : Taken(t, i) /\ Bottom(t[i]) <= L => Path(t, i)

LEMMA BottomNat == ASSUME NEW t \in Tables, NEW i \in Slots PROVE Bottom(t[i]) \in Nat /\ t[i] \in Slot
<1>1. t[i] \in Slot
    BY DEF Tables
<1> QED BY <1>1, BottomLevel

\* What every name before it on a name's probe is.
LEMMA PathSlots ==
    ASSUME NEW t \in Tables, NEW j \in Slots, Taken(t, j), Path(t, j)
    PROVE  \E k \in Slots : /\ Probe(t[j].name, k) = j
                            /\ \A m \in 0..(k - 1) : /\ m \in Slots /\ Probe(t[j].name, m) \in Slots
                                                     /\ Taken(t, Probe(t[j].name, m)) /\ Bottom(t[Probe(t[j].name, m)]) <= Bottom(t[j])
<1>1. t[j].name \in Names
    BY TakenKey
<1>2. PICK k \in Slots : /\ Probe(t[j].name, k) = j
                         /\ \A m \in 0..(k - 1) : Taken(t, Probe(t[j].name, m)) /\ Bottom(t[Probe(t[j].name, m)]) <= Bottom(t[j])
    BY DEF Path
<1>3. \A m \in 0..(k - 1) : m \in Slots
    BY Size DEF Slots
<1>4. \A m \in 0..(k - 1) : Probe(t[j].name, m) \in Slots
    BY <1>1, <1>3, ProbeSlot
<1> QED BY <1>2, <1>3, <1>4

LEMMA PathGrows ==
    ASSUME NEW t \in Tables, NEW t2 \in Tables, NEW j \in Slots, Taken(t, j), Path(t, j),
           \A m \in Slots : Taken(t, m) => Taken(t2, m) /\ t2[m].name = t[m].name /\ Bottom(t2[m]) = Bottom(t[m])
    PROVE  Path(t2, j)
<1>1. PICK k \in Slots : /\ Probe(t[j].name, k) = j
                         /\ \A m \in 0..(k - 1) : /\ m \in Slots /\ Probe(t[j].name, m) \in Slots
                                                  /\ Taken(t, Probe(t[j].name, m)) /\ Bottom(t[Probe(t[j].name, m)]) <= Bottom(t[j])
    BY PathSlots
<1>2. t2[j].name = t[j].name /\ Bottom(t2[j]) = Bottom(t[j])
    OBVIOUS
<1>3. \A m \in 0..(k - 1) : Taken(t2, Probe(t[j].name, m)) /\ Bottom(t2[Probe(t[j].name, m)]) <= Bottom(t2[j])
    BY <1>1, <1>2
<1> QED BY <1>1, <1>2, <1>3 DEF Path

\* What stays of the table when slot i is changed in place.
LEMMA SlotChanges ==
    ASSUME NEW t \in Tables, Clean(t), Unique(t), NEW L \in Nat, Paths(t, L), NEW i \in Slots, Taken(t, i),
           NEW s \in Slot, NEW n, NEW mos, Named(s, n, mos), Named(t[i], n, mos), Bottom(s) = Bottom(t[i])
    PROVE  /\ Put(t, i, s) \in Tables /\ Clean(Put(t, i, s)) /\ Unique(Put(t, i, s)) /\ Paths(Put(t, i, s), L)
           /\ \A j \in Slots : Taken(t, j) => Taken(Put(t, i, s), j)
<1> DEFINE u == Put(t, i, s)
<1>1. u \in Tables /\ u[i] = s /\ \A j \in Slots : j # i => u[j] = t[j]
    BY DEF Put, Tables
<1>2. \A j \in Slots : u[j].name = t[j].name /\ Named(u[j], t[j].name, t[j].mos)
    BY <1>1 DEF Named
<1>3. \A j \in Slots : Bottom(u[j]) = Bottom(t[j])
    BY <1>1
<1> HIDE DEF u
<1>4. Clean(u)
    BY <1>1, <1>2 DEF Clean, Taken
<1>5. Unique(u)
    BY <1>2 DEF Unique, Taken, Named
<1>6. Paths(u, L)
    <2> SUFFICES ASSUME NEW j \in Slots, Taken(u, j), Bottom(u[j]) <= L PROVE Path(u, j)
        BY DEF Paths
    <2>1. Taken(t, j) /\ Path(t, j)
        BY <1>2, <1>3 DEF Paths, Taken
    <2>2. \A m \in Slots : Taken(t, m) => Taken(u, m) /\ u[m].name = t[m].name /\ Bottom(u[m]) = Bottom(t[m])
        BY <1>2, <1>3 DEF Taken
    <2> QED BY <1>1, <2>1, <2>2, PathGrows
<1>7. u \in Tables /\ Clean(u) /\ Unique(u) /\ Paths(u, L) /\ \A j \in Slots : Taken(t, j) => Taken(u, j)
    BY <1>1, <1>2, <1>4, <1>5, <1>6 DEF Taken
<1> QED BY <1>7 DEF u

\* A slot is freed that no name goes past.
LEMMA SlotFreed ==
    ASSUME NEW t \in Tables, Clean(t), Unique(t), NEW L \in Nat, Paths(t, L), NEW i \in Slots, Taken(t, i), Bottom(t[i]) = L + 1
    PROVE  /\ Put(t, i, Free) \in Tables /\ Clean(Put(t, i, Free)) /\ Unique(Put(t, i, Free)) /\ Paths(Put(t, i, Free), L)
<1> DEFINE u == Put(t, i, Free)
<1>1. u \in Tables /\ u[i] = Free /\ \A j \in Slots : j # i => u[j] = t[j]
    BY Constants DEF Put, Tables
<1> HIDE DEF u
<1>2. Clean(u)
    BY <1>1 DEF Clean
<1>3. ~Taken(u, i) /\ \A j \in Slots : Taken(u, j) => j # i /\ Taken(t, j) /\ u[j] = t[j]
    BY <1>1, Constants DEF Taken
<1>4. Unique(u)
    <2> SUFFICES ASSUME NEW j \in Slots, NEW m \in Slots, Taken(u, j), u[j].name = u[m].name, u[j].mos = u[m].mos PROVE j = m
        BY DEF Unique
    <2>1. Taken(u, m)
        BY DEF Taken
    <2> QED BY <1>3, <2>1 DEF Unique
<1>5. Paths(u, L)
    <2> SUFFICES ASSUME NEW j \in Slots, Taken(u, j), Bottom(u[j]) <= L PROVE Path(u, j)
        BY DEF Paths
    <2>1. j # i /\ Taken(t, j) /\ u[j] = t[j] /\ Path(t, j)
        BY <1>3 DEF Paths
    <2>2. PICK k \in Slots : /\ Probe(t[j].name, k) = j
                             /\ \A m \in 0..(k - 1) : /\ m \in Slots /\ Probe(t[j].name, m) \in Slots
                                                      /\ Taken(t, Probe(t[j].name, m)) /\ Bottom(t[Probe(t[j].name, m)]) <= Bottom(t[j])
        BY <2>1, PathSlots
    <2>3. ~(Bottom(t[i]) <= Bottom(t[j]))
        BY <2>1, BottomNat
    <2>4. \A m \in 0..(k - 1) : Probe(t[j].name, m) # i
        BY <2>2, <2>3
    <2>5. \A m \in 0..(k - 1) : Taken(u, Probe(t[j].name, m)) /\ Bottom(u[Probe(t[j].name, m)]) <= Bottom(u[j])
        BY <1>1, <2>1, <2>2, <2>4 DEF Taken
    <2> QED BY <2>1, <2>2, <2>5 DEF Path
<1>6. u \in Tables /\ Clean(u) /\ Unique(u) /\ Paths(u, L)
    BY <1>1, <1>2, <1>4, <1>5
<1> QED BY <1>6 DEF u

\* A free slot is filled with a name that is nowhere in the table.
LEMMA SlotFilled ==
    ASSUME NEW t \in Tables, Clean(t), Unique(t), NEW L \in Nat, Paths(t, L), NEW i \in Slots, ~Taken(t, i),
           NEW s \in Slot, NEW n \in Names, NEW mos \in BOOLEAN, Named(s, n, mos), \A j \in Slots : ~Is(t, j, n, mos),
           NEW k \in Slots, Probe(n, k) = i,
           \A m \in 0..(k - 1) : Taken(t, Probe(n, m)) /\ Bottom(t[Probe(n, m)]) <= Bottom(s)
    PROVE  /\ Put(t, i, s) \in Tables /\ Clean(Put(t, i, s)) /\ Unique(Put(t, i, s)) /\ Paths(Put(t, i, s), L)
<1> DEFINE u == Put(t, i, s)
<1>1. u \in Tables /\ u[i] = s /\ \A j \in Slots : j # i => u[j] = t[j]
    BY DEF Put, Tables
<1> HIDE DEF u
<1>2. s.name = n /\ s.name # ""
    BY Constants DEF Named
<1>3. Clean(u)
    BY <1>1, <1>2 DEF Clean
<1>4. Unique(u)
    <2> SUFFICES ASSUME NEW j \in Slots, NEW m \in Slots, Taken(u, j), u[j].name = u[m].name, u[j].mos = u[m].mos PROVE j = m
        BY DEF Unique
    <2>1. CASE j # i /\ m # i
        BY <1>1, <2>1 DEF Unique, Taken
    <2>2. CASE j = i /\ m # i
        BY <1>1, <2>2 DEF Named, Is
    <2>3. CASE j # i /\ m = i
        BY <1>1, <2>3 DEF Named, Is
    <2> QED BY <2>1, <2>2, <2>3
<1>5. \A m \in Slots : Taken(t, m) => m # i /\ Taken(u, m) /\ u[m] = t[m]
    BY <1>1 DEF Taken
<1>6. Paths(u, L)
    <2> SUFFICES ASSUME NEW j \in Slots, Taken(u, j), Bottom(u[j]) <= L PROVE Path(u, j)
        BY DEF Paths
    <2>1. CASE j # i
        <3>1. Taken(t, j) /\ Path(t, j)
            BY <1>1, <2>1 DEF Paths, Taken
        <3>2. \A m \in Slots : Taken(t, m) => Taken(u, m) /\ u[m].name = t[m].name /\ Bottom(u[m]) = Bottom(t[m])
            BY <1>5
        <3> QED BY <1>1, <3>1, <3>2, PathGrows
    <2>2. CASE j = i
        <3>1. \A m \in 0..(k - 1) : Probe(n, m) \in Slots
            <4>1. \A m \in 0..(k - 1) : m \in Slots
                BY Size DEF Slots
            <4> QED BY <4>1, ProbeSlot
        <3>2. \A m \in 0..(k - 1) : Taken(u, Probe(n, m)) /\ Bottom(u[Probe(n, m)]) <= Bottom(u[i])
            BY <1>1, <1>5, <3>1
        <3>3. u[i].name = n
            BY <1>1, <1>2
        <3> QED BY <2>2, <3>2, <3>3 DEF Path
    <2> QED BY <2>1, <2>2
<1>7. u \in Tables /\ Clean(u) /\ Unique(u) /\ Paths(u, L)
    BY <1>1, <1>3, <1>4, <1>6
<1> QED BY <1>7 DEF u

---------------------------------------------------------------------------
(* The sweep at the end of a block, slot by slot from a free one.          *)

\* How many slots the sweep visits before slot i.
Pos(e, i) == IF i >= e THEN i - e ELSE i - e + HSHSIZ

LEMMA PosIs ==
    ASSUME NEW e \in Slots, NEW i \in Slots
    PROVE  Pos(e, i) \in Slots /\ Pos(e, i) \in Nat /\ Pos(e, i) < HSHSIZ /\ \A j \in Slots : Pos(e, i) = Pos(e, j) => i = j
BY Positive DEF Pos, Slots

LEMMA PosVisited ==
    ASSUME NEW e \in Slots, NEW k \in 1..HSHSIZ
    PROVE  (e + k - 1) % HSHSIZ \in Slots /\ Pos(e, (e + k - 1) % HSHSIZ) = k - 1
<1>1. k - 1 \in Slots /\ e + (k - 1) = e + k - 1 /\ e \in 0..(HSHSIZ - 1) /\ HSHSIZ \in Nat
    BY Positive DEF Slots
<1>2. (e + (k - 1)) % HSHSIZ = IF e + (k - 1) < HSHSIZ THEN e + (k - 1) ELSE e + (k - 1) - HSHSIZ
    BY <1>1, Wrap
<1>3. (e + k - 1) % HSHSIZ = IF e + k - 1 < HSHSIZ THEN e + k - 1 ELSE e + k - 1 - HSHSIZ
    BY <1>1, <1>2
<1> QED BY <1>1, <1>3 DEF Pos, Slots

\* A run of collisions is met from its head.
LEMMA PosBefore ==
    ASSUME NEW e \in Slots, NEW n \in Names, NEW k \in Slots, \A m \in 0..k : Probe(n, m) # e, NEW m \in 0..(k - 1)
    PROVE  Pos(e, Probe(n, m)) < Pos(e, Probe(n, k))
<1>1. PICK kk \in Slots : Probe(n, kk) = e
    BY ProbeReaches
<1>2. HSHSIZ \in Nat /\ Hash(n) \in 0..(HSHSIZ - 1)
    BY Size, Zenon
<1>3. m \in Slots /\ m < k /\ ~(kk \in 0..k)
    BY <1>1, <1>2 DEF Slots
<1>4. /\ Probe(n, m) = IF Hash(n) + m < HSHSIZ THEN Hash(n) + m ELSE Hash(n) + m - HSHSIZ
      /\ Probe(n, k) = IF Hash(n) + k < HSHSIZ THEN Hash(n) + k ELSE Hash(n) + k - HSHSIZ
      /\ e = IF Hash(n) + kk < HSHSIZ THEN Hash(n) + kk ELSE Hash(n) + kk - HSHSIZ
    BY <1>1, <1>3, ProbeIs
<1>5. k < kk /\ k \in 0..(HSHSIZ - 1) /\ kk \in 0..(HSHSIZ - 1) /\ m \in 0..(HSHSIZ - 1)
    BY <1>2, <1>3 DEF Slots
<1> QED BY <1>2, <1>3, <1>4, <1>5 DEF Pos

Gone(sc, n, mos, L) == \A l \in 0..MaxDepth : Ends(Column(sc, n, mos), L)[l] = Undeclared
SlotEnds(s, sc, L) == s.hblklev <= L /\ Denotes(s, Ends(Column(sc, s.name, s.mos), L), L)

\* k slots visited: those are the outer block's, the others as they were.
Sweeping(t, t0, sc, L, e, k) ==
    /\ t \in Tables /\ Clean(t) /\ Unique(t) /\ Paths(t, L) /\ ~Taken(t, e)
    /\ \A i \in Slots : k <= Pos(e, i) => t[i] = t0[i]
    /\ \A i \in Slots : Pos(e, i) < k /\ Taken(t, i) => SlotEnds(t[i], sc, L)
    /\ \A n \in Names, mos \in BOOLEAN : (\A i \in Slots : ~Is(t, i, n, mos)) => Gone(sc, n, mos, L)

LEMMA SweepOne ==
    ASSUME NEW t, NEW t0, NEW sc, NEW L \in Nat, NEW e \in Slots, NEW k \in Nat, Sweeping(t, t0, sc, L, e, k),
           NEW i \in Slots, Pos(e, i) = k,
           NEW t2 \in Tables, Clean(t2), Unique(t2), Paths(t2, L), ~Taken(t2, e),
           \A j \in Slots : j # i => t2[j] = t[j] \/ (Pos(e, j) < k /\ SlotEnds(t2[j], sc, L)),
           Taken(t2, i) => SlotEnds(t2[i], sc, L),
           \A n \in Names, mos \in BOOLEAN :
               (\A j \in Slots : ~Is(t2, j, n, mos)) => (\A j \in Slots : ~Is(t, j, n, mos)) \/ Gone(sc, n, mos, L)
    PROVE  Sweeping(t2, t0, sc, L, e, k + 1)
<1>1. ASSUME NEW j \in Slots, k + 1 <= Pos(e, j) PROVE t2[j] = t0[j]
    <2>1. j # i /\ ~(Pos(e, j) < k) /\ k <= Pos(e, j)
        BY <1>1, PosIs
    <2> QED BY <2>1 DEF Sweeping
<1>2. ASSUME NEW j \in Slots, Pos(e, j) < k + 1, Taken(t2, j) PROVE SlotEnds(t2[j], sc, L)
    <2>1. CASE j = i
        BY <1>2, <2>1
    <2>2. CASE j # i
        <3>1. Pos(e, j) # k
            BY <2>2, PosIs
        <3>2. Pos(e, j) < k
            BY <1>2, <3>1, PosIs
        <3>3. CASE t2[j] = t[j]
            <4>1. Taken(t, j)
                BY <1>2, <3>3 DEF Taken
            <4>2. SlotEnds(t[j], sc, L)
                BY <3>2, <4>1 DEF Sweeping
            <4> QED BY <3>3, <4>2
        <3> QED BY <2>2, <3>3
    <2> QED BY <2>1, <2>2
<1>3. ASSUME NEW n \in Names, NEW mos \in BOOLEAN, \A j \in Slots : ~Is(t2, j, n, mos) PROVE Gone(sc, n, mos, L)
    BY <1>3, Zenon DEF Sweeping
<1> QED BY <1>1, <1>2, <1>3, Zenon DEF Sweeping

\* Before a name's slot, on its probe, come only slots already visited.
LEMMA Earlier ==
    ASSUME NEW t0, NEW sc, NEW L \in Nat, Book(t0, sc, L + 1), NEW e \in Slots, ~Taken(t0, e), NEW i \in Slots, Taken(t0, i)
    PROVE  \E k \in Slots : /\ Probe(t0[i].name, k) = i
                            /\ \A m \in 0..(k - 1) : /\ m \in Slots /\ Probe(t0[i].name, m) \in Slots
                                                     /\ Probe(t0[i].name, m) # e
                                                     /\ Pos(e, Probe(t0[i].name, m)) < Pos(e, i)
<1>1. t0 \in Tables /\ Path(t0, i)
    BY DEF Book
<1>2. t0[i].name \in Names
    BY <1>1, TakenKey
<1>3. PICK k \in Slots : /\ Probe(t0[i].name, k) = i
                         /\ \A m \in 0..(k - 1) : /\ m \in Slots /\ Probe(t0[i].name, m) \in Slots
                                                  /\ Taken(t0, Probe(t0[i].name, m))
    BY <1>1, PathSlots
<1>4. ASSUME NEW m \in 0..k PROVE Probe(t0[i].name, m) # e
    <2>1. m = k \/ m \in 0..(k - 1)
        BY <1>4, Positive DEF Slots
    <2> QED BY <1>3, <2>1
<1>5. ASSUME NEW m \in 0..(k - 1) PROVE Probe(t0[i].name, m) # e /\ Pos(e, Probe(t0[i].name, m)) < Pos(e, Probe(t0[i].name, k))
    <2>1. m \in 0..k
        BY Positive DEF Slots
    <2>2. Pos(e, Probe(t0[i].name, m)) < Pos(e, Probe(t0[i].name, k))
        BY <1>2, <1>4, PosBefore
    <2> QED BY <1>4, <2>1, <2>2
<1> QED BY <1>3, <1>5

\* A sweep from slot e, of a table as a block leaves it.
Sweeps(t0, sc, L, e) == L \in Nat /\ L + 1 \in 0..MaxDepth /\ Book(t0, sc, L + 1) /\ e \in Slots /\ ~Taken(t0, e)

LEMMA PutAt ==
    ASSUME NEW t \in Tables, NEW i \in Slots, NEW s \in Slot
    PROVE  Put(t, i, s) \in Tables /\ Put(t, i, s)[i] = s /\ \A j \in Slots : j # i => Put(t, i, s)[j] = t[j]
<1>1. Undeclared \in Decls
    BY Constants
<1> QED BY <1>1, PutIs

LEMMA SameNames ==
    ASSUME NEW t \in Tables, NEW i \in Slots, NEW s \in Slot, s.name = t[i].name, s.mos = t[i].mos, NEW n, NEW mos,
           \A j \in Slots : ~Is(Put(t, i, s), j, n, mos)
    PROVE  \A j \in Slots : ~Is(t, j, n, mos)
<1> DEFINE t2 == Put(t, i, s)
<1>1. t2[i] = s /\ \A j \in Slots : j # i => t2[j] = t[j]
    BY PutAt
<1> HIDE DEF t2
<1>2. \A j \in Slots : ~Is(t2, j, n, mos)
    BY DEF t2
<1>3. ASSUME NEW j \in Slots, Is(t, j, n, mos) PROVE FALSE
    <2>1. t2[j].name = t[j].name /\ t2[j].mos = t[j].mos
        BY <1>1, Zenon
    <2>2. Is(t2, j, n, mos)
        BY <2>1, <1>3, Zenon DEF Is
    <2> QED BY <1>2, <2>2
<1> QED BY <1>3

\* Slot i is taken, and visited next.
Due(t, t0, sc, L, e, k, i) ==
    Sweeps(t0, sc, L, e) /\ k \in Nat /\ Sweeping(t, t0, sc, L, e, k) /\ i \in Slots /\ Pos(e, i) = k /\ Taken(t, i)
LEMMA SweepFacts ==
    ASSUME NEW t, NEW t0, NEW sc, NEW L, NEW e, NEW k, NEW i, Due(t, t0, sc, L, e, k, i)
    PROVE  /\ t \in Tables /\ Clean(t) /\ Unique(t) /\ Paths(t, L) /\ Room(t) /\ e # i /\ Taken(t, i)
           /\ t[i] \in Slot /\ t[i].name \in Names /\ t[i].mos \in BOOLEAN /\ t[i] = t0[i] /\ Taken(t0, i)
           /\ Column(sc, t[i].name, t[i].mos) \in Columns
           /\ Denotes(t[i], Column(sc, t[i].name, t[i].mos), L + 1)
           /\ t[i].hblklev \in Nat /\ (t[i].hblklev <= L \/ t[i].hblklev = L + 1)
<1>1. Sweeps(t0, sc, L, e) /\ k \in Nat /\ Sweeping(t, t0, sc, L, e, k) /\ i \in Slots /\ Pos(e, i) = k /\ Taken(t, i)
    BY DEF Due
<1>2. t \in Tables /\ Clean(t) /\ Unique(t) /\ Paths(t, L) /\ ~Taken(t, e) /\ e \in Slots
    BY <1>1 DEF Sweeping, Sweeps
<1>3. Room(t) /\ e # i
    BY <1>1, <1>2 DEF Room, Taken
<1>4. t[i] \in Slot /\ t[i].name \in Names /\ t[i].mos \in BOOLEAN
    BY <1>1, <1>2, TakenKey
<1>5. t[i] = t0[i]
    BY <1>1, PosIs DEF Sweeping, Sweeps
<1>6. Taken(t0, i)
    BY <1>1, <1>5 DEF Taken
<1>7. Denotes(t[i], Column(sc, t[i].name, t[i].mos), L + 1) /\ sc \in Scopes
    BY <1>1, <1>5, <1>6, Zenon DEF Sweeps, Book
<1>8. Column(sc, t[i].name, t[i].mos) \in Columns
    BY <1>4, <1>7, ColumnIs
<1>9. t[i].hblklev \in 0..(L + 1) /\ L \in Nat
    BY <1>1, <1>4, <1>7, BottomWithin DEF Sweeps
<1>10. t[i].hblklev \in Nat /\ (t[i].hblklev <= L \/ t[i].hblklev = L + 1)
    BY <1>9
<1> QED BY <1>1, <1>2, <1>3, <1>4, <1>5, <1>6, <1>7, <1>8, <1>10

LEMMA SweepStays ==
    ASSUME NEW t, NEW t0, NEW sc, NEW L, NEW e, Sweeps(t0, sc, L, e), NEW k \in Nat, Sweeping(t, t0, sc, L, e, k),
           NEW i \in Slots, Pos(e, i) = k, Taken(t, i) => t[i].hblklev <= L
    PROVE  Sweeping(t, t0, sc, L, e, k + 1)
<1>1. L \in Nat /\ L + 1 \in 0..MaxDepth /\ e \in Slots
    BY DEF Sweeps, Due
<1>2. t \in Tables /\ Clean(t) /\ Unique(t) /\ Paths(t, L) /\ ~Taken(t, e)
    BY DEF Sweeping
<1>3. ASSUME Taken(t, i) PROVE SlotEnds(t[i], sc, L)
    <2>1. /\ t \in Tables /\ Clean(t) /\ Unique(t) /\ Paths(t, L)
          /\ t[i] \in Slot /\ Column(sc, t[i].name, t[i].mos) \in Columns
          /\ Denotes(t[i], Column(sc, t[i].name, t[i].mos), L + 1)
        <3>1. Due(t, t0, sc, L, e, k, i)
            BY <1>3 DEF Due
        <3> QED BY <3>1, SweepFacts
    <2>2. Denotes(t[i], Ends(Column(sc, t[i].name, t[i].mos), L), L)
        BY <1>1, <1>3, <2>1, DenotesStill
    <2> QED BY <1>3, <2>2 DEF SlotEnds
<1> QED BY <1>1, <1>2, <1>3, SweepOne DEF Due

\* A slot changed in place.
LEMMA SweepChanges ==
    ASSUME NEW t, NEW t0, NEW sc, NEW L, NEW e, NEW k \in Nat,
           NEW i \in Slots, Due(t, t0, sc, L, e, k, i),
           NEW s \in Slot, s.name = t[i].name, s.mos = t[i].mos, Bottom(s) = Bottom(t[i]), s.hblklev <= L,
           Denotes(s, Ends(Column(sc, t[i].name, t[i].mos), L), L)
    PROVE  Sweeping(Put(t, i, s), t0, sc, L, e, k + 1)
<1>1. L \in Nat /\ e \in Slots
    BY DEF Sweeps, Due
<1>2. /\ t \in Tables /\ Clean(t) /\ Unique(t) /\ Paths(t, L) /\ e # i /\ Taken(t, i)
      /\ t[i].name \in Names /\ t[i].mos \in BOOLEAN
    BY SweepFacts
<1> DEFINE t2 == Put(t, i, s)
<1>3. Named(s, t[i].name, t[i].mos) /\ Named(t[i], t[i].name, t[i].mos)
    BY Zenon DEF Named
<1>4. t2 \in Tables /\ Clean(t2) /\ Unique(t2) /\ Paths(t2, L)
    BY <1>1, <1>2, <1>3, SlotChanges
<1>5. t2[i] = s /\ \A j \in Slots : j # i => t2[j] = t[j]
    BY <1>2, PutAt
<1>6. ~Taken(t2, e)
    BY <1>1, <1>2, <1>5 DEF Due, Sweeping, Taken
<1>7. SlotEnds(t2[i], sc, L)
    <2>1. SlotEnds(s, sc, L)
        BY Zenon DEF SlotEnds
    <2> QED BY <1>5, <2>1, Zenon
<1>8. ASSUME NEW n \in Names, NEW mos \in BOOLEAN, \A j \in Slots : ~Is(t2, j, n, mos)
      PROVE  \A j \in Slots : ~Is(t, j, n, mos)
    BY <1>2, <1>8, SameNames
<1> HIDE DEF t2
<1>9. Sweeping(t2, t0, sc, L, e, k + 1)
    BY <1>1, <1>4, <1>5, <1>6, <1>7, <1>8, SweepOne DEF Due
<1> QED BY <1>9 DEF t2

\* A declaration that goes, over one that does not.
Goes(s, L) == ~Kept(s, L) /\ s.hpdown # <<>>
LEMMA SweepPops ==
    ASSUME NEW t, NEW t0, NEW sc, NEW L, NEW e, NEW k \in Nat,
           NEW i \in Slots, Due(t, t0, sc, L, e, k, i), t[i].hblklev = L + 1, Goes(t[i], L)
    PROVE  Sweeping(Put(t, i, Uncovered(t[i])), t0, sc, L, e, k + 1)
<1>1. L \in Nat /\ L + 1 \in 0..MaxDepth /\ e \in Slots
    BY DEF Sweeps, Due
<1>2. /\ t \in Tables /\ Clean(t) /\ Unique(t) /\ Paths(t, L) /\ e # i /\ Taken(t, i)
      /\ t[i] \in Slot /\ Column(sc, t[i].name, t[i].mos) \in Columns /\ Denotes(t[i], Column(sc, t[i].name, t[i].mos), L + 1)
    BY SweepFacts
<1>3. /\ Denotes(Uncovered(t[i]), Ends(Column(sc, t[i].name, t[i].mos), L), L) /\ Bottom(Uncovered(t[i])) = Bottom(t[i])
      /\ Uncovered(t[i]).hblklev <= L /\ Uncovered(t[i]) \in Slot
      /\ Uncovered(t[i]).name = t[i].name /\ Uncovered(t[i]).mos = t[i].mos
    BY <1>1, <1>2, DenotesPopped DEF Goes
<1> QED BY <1>3, SweepChanges

LEMMA SweepDeletes ==
    ASSUME NEW t, NEW t0, NEW sc, NEW L, NEW e, NEW k \in Nat,
           NEW i \in Slots, Due(t, t0, sc, L, e, k, i), t[i].hblklev = L + 1, ~Kept(t[i], L), t[i].hpdown = <<>>
    PROVE  Sweeping(Put(t, i, Free), t0, sc, L, e, k + 1)
<1>1. L \in Nat /\ L + 1 \in 0..MaxDepth /\ e \in Slots
    BY DEF Sweeps, Due
<1>2. /\ t \in Tables /\ Clean(t) /\ Unique(t) /\ Paths(t, L) /\ e # i /\ Taken(t, i)
      /\ t[i] \in Slot /\ Column(sc, t[i].name, t[i].mos) \in Columns /\ Denotes(t[i], Column(sc, t[i].name, t[i].mos), L + 1)
    BY SweepFacts
<1>3. (\A l \in 0..MaxDepth : Ends(Column(sc, t[i].name, t[i].mos), L)[l] = Undeclared) /\ Bottom(t[i]) = L + 1
    BY <1>1, <1>2, DenotesNothing
<1>4. Gone(sc, t[i].name, t[i].mos, L)
    BY <1>3 DEF Gone
<1> DEFINE t2 == Put(t, i, Free)
<1>5. t2 \in Tables /\ Clean(t2) /\ Unique(t2) /\ Paths(t2, L)
    BY <1>1, <1>2, <1>3, SlotFreed
<1>6. t2[i] = Free /\ \A j \in Slots : j # i => t2[j] = t[j]
    BY <1>2, Constants, PutAt
<1>7. ~Taken(t2, e) /\ ~Taken(t2, i)
    BY <1>1, <1>2, <1>6, Constants DEF Due, Sweeping, Taken
<1>8. ASSUME NEW n \in Names, NEW mos \in BOOLEAN, \A j \in Slots : ~Is(t2, j, n, mos), ~Gone(sc, n, mos, L),
             NEW j \in Slots, Is(t, j, n, mos)
      PROVE  FALSE
    <2>1. CASE j = i
        <3>1. t[i].name = n /\ t[i].mos = mos
            BY <1>8, <2>1, Zenon DEF Is
        <3> QED BY <1>4, <1>8, <3>1, Zenon
    <2>2. CASE j # i
        <3>1. t2[j] = t[j]
            BY <1>6, <2>2
        <3>2. Is(t2, j, n, mos)
            BY <1>8, <3>1, Zenon DEF Is
        <3> QED BY <1>8, <3>2
    <2> QED BY <2>1, <2>2
<1>9. \A n \in Names, mos \in BOOLEAN :
          (\A j \in Slots : ~Is(t2, j, n, mos)) => (\A j \in Slots : ~Is(t, j, n, mos)) \/ Gone(sc, n, mos, L)
    BY <1>8, Zenon
<1> HIDE DEF t2
<1>10. Sweeping(t2, t0, sc, L, e, k + 1)
    BY <1>1, <1>5, <1>6, <1>7, <1>9, SweepOne DEF Due
<1> QED BY <1>10 DEF t2

Lowered(s, L) == [s EXCEPT !.hblklev = L]
LEMMA SweepKeeps ==
    ASSUME NEW t, NEW t0, NEW sc, NEW L, NEW e, NEW k \in Nat,
           NEW i \in Slots, Due(t, t0, sc, L, e, k, i), t[i].hblklev = L + 1, Kept(t[i], L), t[i].hpdown # <<>>
    PROVE  /\ lookup(t, t[i].name, t[i].mos) = i
           /\ Sweeping(Put(t, i, Lowered(t[i], L)), t0, sc, L, e, k + 1)
<1>1. L \in Nat /\ L + 1 \in 0..MaxDepth
    BY DEF Sweeps, Due
<1>2. /\ t \in Tables /\ Clean(t) /\ Unique(t) /\ Paths(t, L) /\ Room(t) /\ Taken(t, i)
      /\ t[i] \in Slot /\ Column(sc, t[i].name, t[i].mos) \in Columns /\ Denotes(t[i], Column(sc, t[i].name, t[i].mos), L + 1)
    BY SweepFacts
<1> DEFINE u == Lowered(t[i], L)
<1>3. /\ Denotes(u, Ends(Column(sc, t[i].name, t[i].mos), L), L) /\ u \in Slot
      /\ Bottom(t[i]) <= L /\ Bottom(u) = Bottom(t[i])
    BY <1>1, <1>2, DenotesKept DEF Lowered
<1>4. Path(t, i)
    BY <1>2, <1>3 DEF Paths
<1>5. lookup(t, t[i].name, t[i].mos) = i
    BY <1>2, <1>4, LookupFinds
<1>6. u.name = t[i].name /\ u.mos = t[i].mos /\ u.hblklev = L /\ u.hblklev <= L
    <2>1. u.name = t[i].name /\ u.mos = t[i].mos /\ u.hblklev = L
        BY <1>1, <1>2, LevelField DEF Lowered
    <2>2. L <= L
        BY <1>1
    <2> QED BY <2>1, <2>2
<1> HIDE DEF u
<1>7. Sweeping(Put(t, i, u), t0, sc, L, e, k + 1)
    BY <1>3, <1>6, SweepChanges
<1> QED BY <1>5, <1>7 DEF u

\* Where a name entered in the block that ends is moved to: its own slot, or
\* one freed before it, past names of the blocks around.
LEMMA SweepHole ==
    ASSUME NEW t, NEW t0, NEW sc, NEW L, NEW e, NEW k \in Nat,
           NEW i \in Slots, Due(t, t0, sc, L, e, k, i), NEW j, j = lookup(t, t[i].name, t[i].mos)
    PROVE  /\ j \in Slots /\ j # e
           /\ j = i \/ (~Taken(t, j) /\ Pos(e, j) < k)
           /\ \E l \in Slots : /\ Probe(t[i].name, l) = j
                               /\ \A m \in 0..(l - 1) : /\ Probe(t[i].name, m) \in Slots /\ Probe(t[i].name, m) # i
                                                        /\ Taken(t, Probe(t[i].name, m)) /\ Bottom(t[Probe(t[i].name, m)]) <= L
<1>1. L \in Nat /\ L \in 0..MaxDepth /\ e \in Slots /\ Book(t0, sc, L + 1) /\ ~Taken(t0, e) /\ Pos(e, i) = k
    BY Depths DEF Sweeps, Due
<1>2. /\ t \in Tables /\ Room(t) /\ e # i /\ Taken(t, i) /\ t[i] = t0[i] /\ Taken(t0, i)
      /\ t[i].name \in Names /\ t[i].mos \in BOOLEAN
    BY SweepFacts
<1> DEFINE n == t[i].name
<1>3. PICK kk \in Slots : /\ Probe(n, kk) = i
                          /\ \A m \in 0..(kk - 1) : /\ m \in Slots /\ Probe(n, m) \in Slots /\ Probe(n, m) # e
                                                    /\ Pos(e, Probe(n, m)) < Pos(e, i)
    BY <1>1, <1>2, Earlier
<1>4. PICK l \in Slots : /\ j = Probe(n, l)
                         /\ ~Taken(t, Probe(n, l)) \/ Is(t, Probe(n, l), n, t[i].mos)
                         /\ \A m \in 0..(l - 1) : Taken(t, Probe(n, m)) /\ ~Is(t, Probe(n, m), n, t[i].mos)
    BY <1>2, LookupStops
<1>5. Is(t, i, n, t[i].mos)
    BY Zenon DEF Is
<1>6. ~(kk < l)
    <2>1. kk < l => kk \in 0..(l - 1)
        BY Positive DEF Slots
    <2> QED BY <1>3, <1>4, <1>5, <2>1, Zenon
<1>7. kk \in Nat /\ l \in Nat
    BY Positive DEF Slots
<1>8. ASSUME NEW m \in 0..(l - 1)
      PROVE  /\ Probe(n, m) \in Slots /\ Probe(n, m) # i /\ Taken(t, Probe(n, m)) /\ Bottom(t[Probe(n, m)]) <= L
    <2> DEFINE q == Probe(n, m)
    <2>1. m \in 0..(kk - 1)
        BY <1>6, <1>7
    <2>2. q \in Slots /\ Pos(e, q) < k
        BY <1>1, <1>3, <2>1
    <2>3. Taken(t, q) /\ q # i
        BY <1>4, <1>5, Zenon
    <2> HIDE DEF q
    <2>4. SlotEnds(t[q], sc, L)
        BY <2>2, <2>3 DEF Due, Sweeping
    <2>5. t[q] \in Slot
        BY <1>2, <2>2, TakenKey
    <2>6. Denotes(t[q], Ends(Column(sc, t[q].name, t[q].mos), L), L)
        BY <2>4 DEF SlotEnds
    <2>7. Bottom(t[q]) \in 0..L
        BY <1>1, <2>5, <2>6, BottomWithin
    <2>8. Bottom(t[q]) <= L
        BY <1>1, <2>7
    <2> QED BY <2>2, <2>3, <2>8 DEF q
<1>9. CASE l = kk
    <2>1. j = i
        BY <1>3, <1>4, <1>9
    <2> QED BY <1>2, <1>4, <1>8, <2>1
<1>10. CASE l # kk
    <2>1. l \in 0..(kk - 1)
        BY <1>6, <1>7, <1>10
    <2>2. j \in Slots /\ j # e /\ Pos(e, j) < k
        BY <1>1, <1>3, <1>4, <2>1
    <2>3. j # i
        BY <1>1, <1>7, <2>2
    <2>4. ~Is(t, j, n, t[i].mos)
        <3> SUFFICES ASSUME Is(t, j, n, t[i].mos) PROVE FALSE
            OBVIOUS
        <3>1. t[j].name = t[i].name /\ t[j].mos = t[i].mos
            BY Zenon DEF Is
        <3>2. Unique(t)
            BY SweepFacts
        <3> QED BY <1>2, <2>2, <2>3, <3>1, <3>2, Zenon DEF Unique
    <2>5. ~Taken(t, j)
        BY <1>4, <2>4
    <2> QED BY <1>4, <1>8, <2>2, <2>5
<1> QED BY <1>9, <1>10

LEMMA SweepMoves ==
    ASSUME NEW t, NEW t0, NEW sc, NEW L, NEW e, NEW k \in Nat,
           NEW i \in Slots, Due(t, t0, sc, L, e, k, i), t[i].hblklev = L + 1, Kept(t[i], L), t[i].hpdown = <<>>,
           NEW j, j = lookup(t, t[i].name, t[i].mos)
    PROVE  j \in Slots /\ Sweeping(Put(Put(t, i, Free), j, Lowered(t[i], L)), t0, sc, L, e, k + 1)
<1>1. L \in Nat /\ L + 1 \in 0..MaxDepth /\ e \in Slots /\ Pos(e, i) = k /\ ~Taken(t, e)
    BY DEF Sweeps, Sweeping, Due
<1>2. /\ t \in Tables /\ Clean(t) /\ Unique(t) /\ Paths(t, L) /\ e # i /\ Taken(t, i)
      /\ t[i] \in Slot /\ t[i].name \in Names /\ t[i].mos \in BOOLEAN
      /\ Column(sc, t[i].name, t[i].mos) \in Columns /\ Denotes(t[i], Column(sc, t[i].name, t[i].mos), L + 1)
    BY SweepFacts
<1> DEFINE u == Lowered(t[i], L)
           t1 == Put(t, i, Free)
           t2 == Put(t1, j, u)
<1>3. /\ Denotes(u, Ends(Column(sc, t[i].name, t[i].mos), L), L) /\ u \in Slot
      /\ Bottom(t[i]) = L + 1 /\ Bottom(u) = L
    BY <1>1, <1>2, DenotesKept DEF Lowered
<1>4. u.name = t[i].name /\ u.mos = t[i].mos /\ u.hblklev <= L
    <2>1. u.name = t[i].name /\ u.mos = t[i].mos /\ u.hblklev = L
        BY <1>1, <1>2, LevelField DEF Lowered
    <2>2. L <= L
        BY <1>1
    <2> QED BY <2>1, <2>2
<1>5. t1 \in Tables /\ Clean(t1) /\ Unique(t1) /\ Paths(t1, L)
    BY <1>1, <1>2, <1>3, SlotFreed
<1>6. t1[i] = Free /\ \A q \in Slots : q # i => t1[q] = t[q]
    BY <1>2, Constants, PutAt
<1>7. /\ j \in Slots /\ j # e
      /\ j = i \/ (~Taken(t, j) /\ Pos(e, j) < k)
    BY SweepHole
<1>8. PICK l \in Slots : /\ Probe(t[i].name, l) = j
                         /\ \A m \in 0..(l - 1) : /\ Probe(t[i].name, m) \in Slots /\ Probe(t[i].name, m) # i
                                                  /\ Taken(t, Probe(t[i].name, m)) /\ Bottom(t[Probe(t[i].name, m)]) <= L
    BY SweepHole
<1>9. Named(u, t[i].name, t[i].mos)
    BY <1>4, Zenon DEF Named
<1> HIDE DEF u, t1
<1>10. ~Taken(t1, i) /\ ~Taken(t1, j)
    BY <1>6, <1>7, Constants DEF Taken
<1>11. \A q \in Slots : ~Is(t1, q, t[i].name, t[i].mos)
    <2> SUFFICES ASSUME NEW q \in Slots, Is(t1, q, t[i].name, t[i].mos) PROVE FALSE
        OBVIOUS
    <2>1. Taken(t1, q)
        BY <1>2, <1>5, TakenKey
    <2>2. q # i /\ t1[q] = t[q]
        BY <1>6, <1>10, <2>1
    <2>3. t[q].name = t[i].name /\ t[q].mos = t[i].mos
        BY <2>2, Zenon DEF Is
    <2> QED BY <1>2, <2>2, <2>3, Zenon DEF Unique
<1>12. \A m \in 0..(l - 1) : Taken(t1, Probe(t[i].name, m)) /\ Bottom(t1[Probe(t[i].name, m)]) <= Bottom(u)
    BY <1>3, <1>6, <1>8 DEF Taken
<1>13. t2 \in Tables /\ Clean(t2) /\ Unique(t2) /\ Paths(t2, L)
    BY <1>1, <1>2, <1>3, <1>5, <1>7, <1>8, <1>9, <1>10, <1>11, <1>12, SlotFilled
<1>14. t2[j] = u /\ \A q \in Slots : q # j => t2[q] = t1[q]
    BY <1>3, <1>5, <1>7, PutAt
<1>15. ~Taken(t2, e)
    BY <1>1, <1>2, <1>6, <1>7, <1>14 DEF Taken
<1>16. SlotEnds(u, sc, L)
    BY <1>3, <1>4, Zenon DEF SlotEnds
<1>17. ASSUME NEW q \in Slots, q # i PROVE t2[q] = t[q] \/ (Pos(e, q) < k /\ SlotEnds(t2[q], sc, L))
    <2>1. CASE q = j
        BY <1>7, <1>14, <1>16, <1>17, <2>1
    <2>2. CASE q # j
        BY <1>6, <1>14, <1>17, <2>2
    <2> QED BY <2>1, <2>2
<1>18. Taken(t2, i) => SlotEnds(t2[i], sc, L)
    <2>1. CASE i = j
        BY <1>14, <1>16, <2>1
    <2>2. CASE i # j
        BY <1>10, <1>14, <2>2 DEF Taken
    <2> QED BY <2>1, <2>2
<1>19. ASSUME NEW n \in Names, NEW mos \in BOOLEAN, \A q \in Slots : ~Is(t2, q, n, mos), NEW q \in Slots, Is(t, q, n, mos)
       PROVE  FALSE
    <2>1. CASE q = i
        <3>1. t2[j].name = t[q].name /\ t2[j].mos = t[q].mos
            BY <1>4, <1>14, <2>1, Zenon
        <3>2. Is(t2, j, n, mos)
            BY <1>19, <3>1, Zenon DEF Is
        <3> QED BY <1>7, <1>19, <3>2
    <2>2. CASE q # i
        <3>1. Taken(t, q)
            BY <1>2, <1>19, TakenKey
        <3>2. t2[q] = t[q]
            BY <1>6, <1>7, <1>14, <2>2, <3>1
        <3>3. Is(t2, q, n, mos)
            BY <1>19, <3>2, Zenon DEF Is
        <3> QED BY <1>19, <3>3
    <2> QED BY <2>1, <2>2
<1>20. \A n \in Names, mos \in BOOLEAN :
          (\A q \in Slots : ~Is(t2, q, n, mos)) => (\A q \in Slots : ~Is(t, q, n, mos)) \/ Gone(sc, n, mos, L)
    BY <1>19, Zenon
<1> HIDE DEF t2
<1>21. Sweeping(t2, t0, sc, L, e, k + 1)
    BY <1>1, <1>13, <1>15, <1>17, <1>18, <1>20, SweepOne DEF Due
<1> QED BY <1>7, <1>21 DEF t1, t2, u

LEMMA PutTwice == ASSUME NEW t \in Tables, NEW i \in Slots, NEW s \in Slot PROVE Put(Put(t, i, Free), i, s) = Put(t, i, s)
BY DEF Put, Tables

LEMMA RehashedIs ==
    ASSUME NEW t \in Tables, NEW i \in Slots, NEW L \in Nat, t[i].hblklev = L + 1, Kept(t[i], L),
           NEW j, j = lookup(t, t[i].name, t[i].mos)
    PROVE  Rehashed(t, i, L) = Put(Put(t, i, Free), j, Lowered(t[i], L))
<1> DEFINE u == [t[i] EXCEPT !.hblklev = IF @ > 1 \/ (@ > 0 /\ t[i].d.hclass = "EXTERN") THEN @ - 1 ELSE @]
<1>1. t[i] \in Slot
    BY TakenKey
<1>2. (IF t[i].hblklev > 1 \/ (t[i].hblklev > 0 /\ t[i].d.hclass = "EXTERN") THEN t[i].hblklev - 1 ELSE t[i].hblklev) = L
    <2>1. CASE L = 0
        <3>1. t[i].d.hclass = "EXTERN"
            BY <2>1 DEF Kept
        <3>2. t[i].hblklev > 0 /\ t[i].hblklev - 1 = L
            BY <2>1
        <3> QED BY <3>1, <3>2
    <2>2. CASE L # 0
        <3>1. t[i].hblklev > 1 /\ t[i].hblklev - 1 = L
            BY <2>2
        <3> QED BY <3>1
    <2> QED BY <2>1, <2>2
<1>3. u = Lowered(t[i], L)
    BY <1>2 DEF Lowered
<1>4. Rehashed(t, i, L) = [t EXCEPT ![i] = Free, ![j] = u]
    BY DEF Rehashed
<1> HIDE DEF u
<1>5. Rehashed(t, i, L) = Put(Put(t, i, Free), j, u)
    BY <1>4 DEF Put
<1> QED BY <1>3, <1>5

LEMMA VisitStep ==
    ASSUME NEW t, NEW t0, NEW sc, NEW L, NEW e, Sweeps(t0, sc, L, e), NEW k \in Nat, Sweeping(t, t0, sc, L, e, k),
           NEW i \in Slots, Pos(e, i) = k
    PROVE  Visited(t, i, L) \in Tables /\ Sweeping(Visited(t, i, L), t0, sc, L, e, k + 1)
<1>1. L \in Nat
    BY DEF Sweeps
<1>2. Sweeping(Visited(t, i, L), t0, sc, L, e, k + 1)
    <2>1. CASE ~Taken(t, i) \/ t[i].hblklev <= L
        <3>1. Visited(t, i, L) = t
            BY <2>1, Zenon DEF Visited, Taken
        <3>2. Sweeping(t, t0, sc, L, e, k + 1)
            BY <2>1, SweepStays
        <3> QED BY <3>1, <3>2
    <2>2. CASE Taken(t, i) /\ ~(t[i].hblklev <= L)
        <3>1. Due(t, t0, sc, L, e, k, i)
            BY <2>2 DEF Due
        <3>2. t \in Tables /\ t[i] \in Slot
            BY <3>1, SweepFacts
        <3>3. t[i].hblklev = L + 1
            BY <2>2, <3>1, SweepFacts
        <3>4. ~(t[i].name = "" \/ t[i].hblklev <= L)
            BY <2>2 DEF Taken
        <3>5. CASE Kept(t[i], L)
            <4> DEFINE j == lookup(t, t[i].name, t[i].mos)
            <4>1. Visited(t, i, L) = Rehashed(t, i, L)
                BY <3>4, <3>5, Zenon DEF Visited
            <4>2. Rehashed(t, i, L) = Put(Put(t, i, Free), j, Lowered(t[i], L))
                BY <1>1, <3>2, <3>3, <3>5, RehashedIs
            <4>3. CASE t[i].hpdown = <<>>
                <5>1. Sweeping(Put(Put(t, i, Free), j, Lowered(t[i], L)), t0, sc, L, e, k + 1)
                    BY <3>1, <3>3, <3>5, <4>3, SweepMoves
                <5> QED BY <4>1, <4>2, <5>1
            <4>4. CASE t[i].hpdown # <<>>
                <5>1. j = i /\ Sweeping(Put(t, i, Lowered(t[i], L)), t0, sc, L, e, k + 1)
                    BY <3>1, <3>3, <3>5, <4>4, SweepKeeps
                <5>2. Lowered(t[i], L) \in Slot
                    BY <1>1, <3>2, LevelField DEF Lowered
                <5>3. Put(Put(t, i, Free), i, Lowered(t[i], L)) = Put(t, i, Lowered(t[i], L))
                    BY <3>2, <5>2, PutTwice
                <5> HIDE DEF j
                <5> QED BY <4>1, <4>2, <5>1, <5>3
            <4> QED BY <4>3, <4>4
        <3>6. CASE ~Kept(t[i], L) /\ t[i].hpdown = <<>>
            <4>1. Visited(t, i, L) = Put(t, i, Free)
                BY <3>4, <3>6, Zenon DEF Visited, Put
            <4>2. Sweeping(Put(t, i, Free), t0, sc, L, e, k + 1)
                BY <3>1, <3>3, <3>6, SweepDeletes
            <4> QED BY <4>1, <4>2
        <3>7. CASE ~Kept(t[i], L) /\ t[i].hpdown # <<>>
            <4>1. Visited(t, i, L) = Popped(t, i)
                BY <3>4, <3>7, Zenon DEF Visited
            <4>2. Popped(t, i) = Put(t, i, Uncovered(t[i]))
                BY Zenon DEF Popped, Put, Uncovered
            <4>3. Sweeping(Put(t, i, Uncovered(t[i])), t0, sc, L, e, k + 1)
                BY <3>1, <3>3, <3>7, SweepPops DEF Goes
            <4> QED BY <4>1, <4>2, <4>3
        <3> QED BY <3>5, <3>6, <3>7
    <2> QED BY <2>1, <2>2
<1> QED BY <1>2 DEF Sweeping

LEMMA SweepStarts ==
    ASSUME NEW t0, NEW sc, NEW L, NEW e, Sweeps(t0, sc, L, e)
    PROVE  Sweeping(t0, t0, sc, L, e, 0)
<1>1. L \in Nat /\ L + 1 \in 0..MaxDepth /\ e \in Slots /\ ~Taken(t0, e) /\ Book(t0, sc, L + 1)
    BY DEF Sweeps
<1>2. t0 \in Tables /\ Clean(t0) /\ Unique(t0) /\ Paths(t0, L) /\ sc \in Scopes
    BY <1>1 DEF Book, Paths
<1>3. ASSUME NEW i \in Slots PROVE ~(Pos(e, i) < 0)
    BY <1>1, PosIs
<1>4. ASSUME NEW n \in Names, NEW mos \in BOOLEAN, \A i \in Slots : ~Is(t0, i, n, mos) PROVE Gone(sc, n, mos, L)
    <2> DEFINE g == Column(sc, n, mos)
    <2>1. Absent(sc, n, mos)
        BY <1>1, <1>4, Zenon DEF Book
    <2>2. g \in Columns /\ \A l \in 0..MaxDepth : g[l] = Undeclared
        BY <1>2, <2>1, ColumnIs DEF Absent
    <2> HIDE DEF g
    <2>3. \A l \in 0..MaxDepth : Ends(g, L)[l] = Undeclared
        <3>1. g[L + 1].hclass # "EXTERN" /\ ~g[L + 1].lab
            BY <1>1, <2>2, Constants
        <3>2. /\ Ends(g, L)[L + 1] = Undeclared /\ L \in 0..MaxDepth
              /\ \A l \in 0..MaxDepth : l # L /\ l # L + 1 => Ends(g, L)[l] = g[l]
              /\ Ends(g, L)[L] = IF (IF L = 0 THEN g[L + 1].hclass = "EXTERN" ELSE g[L + 1].lab) THEN g[L + 1] ELSE g[L]
            BY <1>1, <2>2, EndsAre
        <3>3. Ends(g, L)[L] = Undeclared
            BY <2>2, <3>1, <3>2
        <3> QED BY <2>2, <3>2, <3>3
    <2> QED BY <2>3 DEF Gone, g
<1> QED BY <1>1, <1>2, <1>3, <1>4, Zenon DEF Sweeping

LEMMA SweepAll ==
    ASSUME NEW t0, NEW sc, NEW L, NEW e, Sweeps(t0, sc, L, e),
           NEW f, f[0] = t0,
           \A k \in 1..HSHSIZ : LET v == Visited(f[k - 1], (e + k - 1) % HSHSIZ, L) IN v \in Tables => f[k] = v
    PROVE  \A k \in 0..HSHSIZ : Sweeping(f[k], t0, sc, L, e, k)
<1> DEFINE S == {k \in 0..HSHSIZ : Sweeping(f[k], t0, sc, L, e, k)}
<1>1. 0 \in S
    BY SweepStarts, Positive
<1>2. ASSUME NEW k \in 0..(HSHSIZ - 1), k \in S PROVE k + 1 \in S
    <2> DEFINE i == (e + (k + 1) - 1) % HSHSIZ
    <2>1. k + 1 \in 1..HSHSIZ /\ k + 1 \in 0..HSHSIZ /\ (k + 1) - 1 = k /\ k \in Nat /\ e \in Slots
        BY Positive DEF Sweeps
    <2>2. i \in Slots /\ Pos(e, i) = k
        BY <2>1, PosVisited
    <2>3. Sweeping(f[k], t0, sc, L, e, k)
        BY <1>2
    <2> HIDE DEF i
    <2>4. Visited(f[k], i, L) \in Tables /\ Sweeping(Visited(f[k], i, L), t0, sc, L, e, k + 1)
        BY <2>1, <2>2, <2>3, VisitStep
    <2>5. f[k + 1] = Visited(f[k], i, L)
        BY <2>1, <2>4 DEF i
    <2> QED BY <2>1, <2>4, <2>5
<1>3. \A k \in 0..HSHSIZ : k \in S
    <2> HIDE DEF S
    <2> QED BY <1>1, <1>2, UpTo, Positive
<1> QED BY <1>3

LEMMA EndcsFree == ASSUME NEW t, Room(t) PROVE endcs(t) \in Slots /\ ~Taken(t, endcs(t))
<1> DEFINE T == {i \in Slots : t[i].name = ""}
<1>1. Slots \subseteq Nat
    BY Positive DEF Slots
<1>2. T \in SUBSET Nat /\ T # {}
    BY <1>1 DEF Room
<1>3. PICK i \in T : \A y \in T : i <= y
    <2> HIDE DEF T
    <2> QED BY <1>2, LeastNat
<1>4. ASSUME NEW j \in 0..(i - 1) PROVE t[j].name # ""
    <2>1. i \in 0..(HSHSIZ - 1) /\ HSHSIZ \in Nat
        BY Positive DEF Slots
    <2> HIDE DEF T
    <2>2. j \in 0..(HSHSIZ - 1) /\ ~(i <= j)
        BY <2>1
    <2> USE DEF T
    <2> QED BY <1>3, <2>2 DEF Slots
<1>5. \E q \in Slots : t[q].name = "" /\ \A j \in 0..(q - 1) : t[j].name # ""
    BY <1>3, <1>4
<1>6. endcs(t) = CHOOSE q \in Slots : t[q].name = "" /\ \A j \in 0..(q - 1) : t[j].name # ""
    BY Zenon DEF endcs, Room
<1> DEFINE P(q) == t[q].name = "" /\ \A j \in 0..(q - 1) : t[j].name # ""
<1>7. endcs(t) = CHOOSE q \in Slots : P(q)
    BY <1>6
<1>8. \E q \in Slots : P(q)
    BY <1>5
<1>9. endcs(t) \in Slots /\ P(endcs(t))
    <2> HIDE DEF P
    <2> QED BY <1>7, <1>8
<1> QED BY <1>9 DEF Taken

LEMMA SweepExists ==
    ASSUME NEW t0, NEW sc, NEW L, NEW e, Sweeps(t0, sc, L, e)
    PROVE  \E f : f = [k \in 0..HSHSIZ |-> IF k = 0 THEN t0 ELSE Visited(f[k - 1], (e + k - 1) % HSHSIZ, L)]
<1> DEFINE V(t, k) == Visited(t, (e + k - 1) % HSHSIZ, L)
           St == [p \in Tables \X (1..HSHSIZ) |-> IF V(p[1], p[2]) \in Tables THEN V(p[1], p[2]) ELSE p[1]]
<1>1. t0 \in Tables /\ HSHSIZ \in Nat
    BY Positive DEF Sweeps, Book
<1>2. St \in [Tables \X (1..HSHSIZ) -> Tables]
    <2> HIDE DEF V
    <2> QED OBVIOUS
<1>3. PICK f \in [0..HSHSIZ -> Tables] : f[0] = t0 /\ \A k \in 1..HSHSIZ : f[k] = St[<<f[k - 1], k>>]
    <2> HIDE DEF St
    <2>1. Stepwise(Tables, HSHSIZ, t0, St)
        BY <1>1, <1>2, Recursion
    <2> QED BY <2>1 DEF Stepwise
<1>4. f[0] = t0
    BY <1>3
<1>5. ASSUME NEW k \in 1..HSHSIZ PROVE V(f[k - 1], k) \in Tables => f[k] = V(f[k - 1], k)
    <2>1. k \in 0..HSHSIZ /\ k # 0 /\ k - 1 \in 0..HSHSIZ
        BY <1>1
    <2>2. f[k] = St[<<f[k - 1], k>>] /\ f[k - 1] \in Tables
        <3> HIDE DEF St
        <3> QED BY <1>3, <2>1
    <2>3. St[<<f[k - 1], k>>] = IF V(f[k - 1], k) \in Tables THEN V(f[k - 1], k) ELSE f[k - 1]
        <3> HIDE DEF V
        <3> QED BY <2>2
    <2> HIDE DEF St, V
    <2> QED BY <2>2, <2>3
<1> HIDE DEF St
<1>6. \A k \in 0..HSHSIZ : Sweeping(f[k], t0, sc, L, e, k)
    BY <1>4, <1>5, SweepAll
<1>7. ASSUME NEW k \in 0..HSHSIZ, k # 0 PROVE f[k] = V(f[k - 1], k)
    <2>1. k \in 1..HSHSIZ /\ k - 1 \in 0..HSHSIZ /\ k - 1 \in Nat /\ e \in Slots
        BY <1>1, <1>7 DEF Sweeps
    <2>2. (e + k - 1) % HSHSIZ \in Slots /\ Pos(e, (e + k - 1) % HSHSIZ) = k - 1
        BY <2>1, PosVisited
    <2>3. Sweeping(f[k - 1], t0, sc, L, e, k - 1)
        BY <1>6, <2>1
    <2>4. V(f[k - 1], k) \in Tables
        BY <2>1, <2>2, <2>3, VisitStep
    <2> QED BY <1>5, <2>1, <2>4
<1>8. f = [k \in 0..HSHSIZ |-> IF k = 0 THEN t0 ELSE V(f[k - 1], k)]
    <2> DEFINE h == [k \in 0..HSHSIZ |-> IF k = 0 THEN t0 ELSE V(f[k - 1], k)]
    <2>1. \A k \in 0..HSHSIZ : f[k] = h[k]
        <3> HIDE DEF V
        <3> QED BY <1>4, <1>7
    <2>2. DOMAIN h = 0..HSHSIZ /\ h = [k \in 0..HSHSIZ |-> h[k]] /\ f = [k \in 0..HSHSIZ |-> f[k]]
        OBVIOUS
    <2> HIDE DEF h
    <2>3. f = h
        BY <2>1, <2>2
    <2> QED BY <2>3 DEF h
<1> QED BY <1>8

LEMMA SweptIs ==
    ASSUME NEW t0, NEW sc, NEW L, NEW e, e = endcs(t0), Sweeps(t0, sc, L, e)
    PROVE  Sweeping(blkend(t0, L), t0, sc, L, e, HSHSIZ)
<1> DEFINE f == Swept(t0, L)
<1>1. f = [k \in 0..HSHSIZ |-> IF k = 0 THEN t0 ELSE Visited(f[k - 1], (e + k - 1) % HSHSIZ, L)]
    <2> DEFINE P(g) == g = [k \in 0..HSHSIZ |-> IF k = 0 THEN t0 ELSE Visited(g[k - 1], (e + k - 1) % HSHSIZ, L)]
    <2>1. \E g : P(g)
        BY SweepExists
    <2>2. f = CHOOSE g : P(g)
        BY Zenon DEF Swept
    <2> HIDE DEF f
    <2>3. P(f)
        <3> HIDE DEF P
        <3> QED BY <2>1, <2>2
    <2> QED BY <2>3
<1> HIDE DEF f
<1>2. HSHSIZ \in Nat
    BY Positive
<1>3. f[0] = t0
    BY <1>1, <1>2
<1>4. ASSUME NEW k \in 1..HSHSIZ PROVE f[k] = Visited(f[k - 1], (e + k - 1) % HSHSIZ, L)
    BY <1>1, <1>2
<1>5. \A k \in 0..HSHSIZ : Sweeping(f[k], t0, sc, L, e, k)
    BY <1>3, <1>4, SweepAll
<1>6. Sweeping(f[HSHSIZ], t0, sc, L, e, HSHSIZ)
    BY <1>2, <1>5
<1> QED BY <1>6 DEF f, blkend

\* The end of a block, for the table and the scopes.
LEMMA BlockEnd ==
    ASSUME NEW t0, NEW sc, NEW L \in Nat, L + 1 \in 0..MaxDepth, Book(t0, sc, L + 1),
           NEW sc2 \in Scopes, \A n \in Names, mos \in BOOLEAN : Column(sc2, n, mos) = Ends(Column(sc, n, mos), L)
    PROVE  Book(blkend(t0, L), sc2, L)
<1> DEFINE e == endcs(t0)
           t == blkend(t0, L)
<1>1. Room(t0)
    BY DEF Book
<1>2. Sweeps(t0, sc, L, e)
    BY <1>1, EndcsFree DEF Sweeps
<1>3. Sweeping(t, t0, sc, L, e, HSHSIZ) /\ e \in Slots
    BY <1>2, SweptIs DEF Sweeps
<1> HIDE DEF e, t
<1>4. t \in Tables /\ Clean(t) /\ Unique(t) /\ Paths(t, L) /\ ~Taken(t, e)
    BY <1>3, Zenon DEF Sweeping
<1>5. Room(t) /\ L \in 0..MaxDepth
    <2>1. Room(t)
        BY <1>3, <1>4 DEF Room, Taken
    <2>2. MaxDepth \in Nat
        BY Depths
    <2>3. L \in 0..MaxDepth
        BY <2>2
    <2> QED BY <2>1, <2>3
<1>6. ASSUME NEW i \in Slots, Taken(t, i) PROVE Path(t, i) /\ Denotes(t[i], Column(sc2, t[i].name, t[i].mos), L)
    <2>1. SlotEnds(t[i], sc, L)
        BY <1>3, <1>6, PosIs DEF Sweeping
    <2>2. t[i] \in Slot /\ t[i].name \in Names /\ t[i].mos \in BOOLEAN
        BY <1>4, <1>6, TakenKey
    <2>3. Denotes(t[i], Ends(Column(sc, t[i].name, t[i].mos), L), L)
        BY <2>1 DEF SlotEnds
    <2>4. Bottom(t[i]) \in 0..L
        BY <1>5, <2>2, <2>3, BottomWithin
    <2>5. Bottom(t[i]) <= L
        BY <2>4
    <2>6. Path(t, i)
        BY <1>4, <1>6, <2>5 DEF Paths
    <2>7. Column(sc2, t[i].name, t[i].mos) = Ends(Column(sc, t[i].name, t[i].mos), L)
        BY <2>2, Zenon
    <2> QED BY <2>3, <2>6, <2>7
<1>7. ASSUME NEW n \in Names, NEW mos \in BOOLEAN, \A i \in Slots : ~Is(t, i, n, mos) PROVE Absent(sc2, n, mos)
    <2>1. Gone(sc, n, mos, L)
        BY <1>3, <1>7, Zenon DEF Sweeping
    <2>2. \A l \in 0..MaxDepth : Column(sc2, n, mos)[l] = Undeclared
        BY <2>1 DEF Gone
    <2> QED BY <2>2, ColumnIs DEF Absent
<1>8. Book(t, sc2, L)
    BY <1>4, <1>5, <1>6, <1>7, Zenon DEF Book
<1> QED BY <1>8 DEF t

LEMMA SameColumn == ASSUME NEW p \in Columns, NEW q \in Columns, \A l \in 0..MaxDepth : p[l] = q[l] PROVE p = q
<1>1. p = [l \in 0..MaxDepth |-> p[l]] /\ q = [l \in 0..MaxDepth |-> q[l]]
    BY DEF Columns
<1>2. [l \in 0..MaxDepth |-> p[l]] = [l \in 0..MaxDepth |-> q[l]]
    OBVIOUS
<1> QED BY <1>1, <1>2

\* blkend deletes, pops and moves as C ends a scope.
LEMMA EndStep ==
    ASSUME Book(hshtab, scopes, blklev), FunctionLabels(scopes), blklev > 0,
           ScopeEnds, hshtab' = blkend(hshtab, blklev - 1), blklev' = blklev - 1
    PROVE  Book(hshtab', scopes', blklev') /\ FunctionLabels(scopes')
<1> DEFINE L == blklev - 1
           stays(d) == IF blklev = 1 THEN d.hclass = "EXTERN" ELSE d.lab
           around == [k \in Keys |-> IF stays(scopes[blklev][k]) THEN scopes[blklev][k] ELSE scopes[L][k]]
<1>1. scopes \in Scopes /\ blklev \in 0..MaxDepth /\ MaxDepth \in Nat
    BY Depths DEF Book
<1>2. L \in Nat /\ L + 1 = blklev /\ L \in 0..MaxDepth /\ L # blklev /\ (blklev = 1 <=> L = 0)
    BY <1>1
<1>3. scopes' = [scopes EXCEPT ![blklev] = Nothing, ![L] = around]
    <2>1. [scopes EXCEPT ![blklev] = Nothing][L] = scopes[L]
        BY <1>1, <1>2 DEF Scopes
    <2> QED BY <1>1, <1>2, <2>1 DEF ScopeEnds, Scopes
<1> HIDE DEF L
<1>4. \A k \in Keys : scopes[blklev][k] \in Decls /\ scopes[L][k] \in Decls
    BY <1>1, <1>2 DEF Scopes
<1>5. around \in [Keys -> Decls] /\ Nothing \in [Keys -> Decls]
    <2> HIDE DEF stays
    <2> QED BY <1>4, Constants DEF Nothing
<1>6. \A k \in Keys : around[k] = IF stays(scopes[blklev][k]) THEN scopes[blklev][k] ELSE scopes[L][k]
    OBVIOUS
<1> HIDE DEF around
<1>7. /\ scopes' \in Scopes /\ scopes'[blklev] = Nothing /\ scopes'[L] = around
      /\ \A l \in 0..MaxDepth : l # blklev /\ l # L => scopes'[l] = scopes[l]
    BY <1>1, <1>2, <1>3, <1>5 DEF Scopes
<1>8. ASSUME NEW n \in Names, NEW mos \in BOOLEAN PROVE Column(scopes', n, mos) = Ends(Column(scopes, n, mos), L)
    <2> DEFINE g == Column(scopes, n, mos)
               h == Column(scopes', n, mos)
    <2>1. <<n, mos>> \in Keys
        BY DEF Keys
    <2>2. g \in Columns /\ h \in Columns /\ \A l \in 0..MaxDepth : g[l] = Entry(scopes, l, n, mos) /\ h[l] = Entry(scopes', l, n, mos)
        BY <1>1, <1>7, ColumnIs
    <2>3. h[blklev] = Undeclared
        <3>1. Entry(scopes', blklev, n, mos) = Nothing[<<n, mos>>]
            BY <1>7 DEF Entry
        <3>2. Nothing[<<n, mos>>] = Undeclared
            BY <2>1 DEF Nothing
        <3> QED BY <1>1, <2>2, <3>1, <3>2
    <2>4. h[L] = IF stays(g[blklev]) THEN g[blklev] ELSE g[L]
        <3>1. Entry(scopes', L, n, mos) = around[<<n, mos>>]
            BY <1>7 DEF Entry
        <3>2. around[<<n, mos>>] = IF stays(Entry(scopes, blklev, n, mos)) THEN Entry(scopes, blklev, n, mos) ELSE Entry(scopes, L, n, mos)
            BY <1>6, <2>1, Zenon DEF Entry
        <3>3. h[L] = around[<<n, mos>>] /\ g[blklev] = Entry(scopes, blklev, n, mos) /\ g[L] = Entry(scopes, L, n, mos)
            BY <1>1, <1>2, <2>2, <3>1
        <3> HIDE DEF g, h, stays
        <3> QED BY <3>2, <3>3
    <2>5. \A l \in 0..MaxDepth : l # blklev /\ l # L => h[l] = g[l]
        BY <1>7, <2>2 DEF Entry
    <2> HIDE DEF g, h
    <2>6. /\ Ends(g, L) \in Columns /\ Ends(g, L)[L + 1] = Undeclared
          /\ \A l \in 0..MaxDepth : l # L /\ l # L + 1 => Ends(g, L)[l] = g[l]
          /\ Ends(g, L)[L] = IF (IF L = 0 THEN g[L + 1].hclass = "EXTERN" ELSE g[L + 1].lab) THEN g[L + 1] ELSE g[L]
        BY <1>1, <1>2, <2>2, EndsAre
    <2>7. Ends(g, L)[L] = h[L]
        BY <1>2, <2>4, <2>6
    <2>8. ASSUME NEW l \in 0..MaxDepth PROVE Ends(g, L)[l] = h[l]
        BY <1>2, <2>3, <2>5, <2>6, <2>7
    <2>9. Ends(g, L) = h
        <3> QED BY <2>2, <2>6, <2>8, SameColumn, Zenon
    <2> QED BY <2>9 DEF g, h
<1>9. Book(blkend(hshtab, L), scopes', L)
    BY <1>1, <1>2, <1>7, <1>8, BlockEnd
<1>10. ASSUME NEW l \in 0..MaxDepth, NEW key \in Keys, scopes'[l][key].lab PROVE l > 0 /\ scopes'[l][key].hclass # "EXTERN"
    <2>1. CASE l = blklev
        <3>1. scopes'[l][key] = Undeclared
            BY <1>7, <2>1 DEF Nothing
        <3> QED BY <1>10, <3>1, Constants
    <2>2. CASE l = L
        <3>1. scopes'[l][key] = IF stays(scopes[blklev][key]) THEN scopes[blklev][key] ELSE scopes[L][key]
            BY <1>6, <1>7, <2>2
        <3>2. scopes[blklev][key].lab => scopes[blklev][key].hclass # "EXTERN"
            BY <1>1 DEF FunctionLabels
        <3>3. scopes[L][key].lab => L > 0 /\ scopes[L][key].hclass # "EXTERN"
            BY <1>2 DEF FunctionLabels
        <3>4. L \in Nat
            BY <1>2
        <3>5. CASE stays(scopes[blklev][key])
            <4>1. scopes'[l][key] = scopes[blklev][key]
                BY <3>1, <3>5
            <4>2. scopes[blklev][key].lab /\ scopes[blklev][key].hclass # "EXTERN"
                BY <1>10, <3>2, <4>1
            <4>3. blklev # 1
                BY <3>5, <4>2
            <4>4. L # 0
                BY <1>2, <4>3
            <4> QED BY <2>2, <3>4, <4>1, <4>2, <4>4
        <3>6. CASE ~stays(scopes[blklev][key])
            <4>1. scopes'[l][key] = scopes[L][key]
                BY <3>1, <3>6
            <4> QED BY <1>10, <2>2, <3>3, <4>1
        <3> QED BY <3>5, <3>6
    <2>3. CASE l # blklev /\ l # L
        <3>1. scopes'[l] = scopes[l]
            BY <1>7, <2>3
        <3> QED BY <1>10, <3>1 DEF FunctionLabels
    <2> QED BY <2>1, <2>2, <2>3
<1>11. FunctionLabels(scopes')
    BY <1>10 DEF FunctionLabels
<1> QED BY <1>9, <1>11 DEF L
---------------------------------------------------------------------------
(* A function's head: its parameters are placed.                           *)

Defined(X, b, base, St) == \E f \in [0..b -> X] : f = [k \in 0..b |-> IF k = 0 THEN base ELSE St[<<f[k - 1], k>>]]
LEMMA Definition ==
    ASSUME NEW X, NEW b \in Nat, NEW base \in X, NEW St, St \in [X \X (1..b) -> X]
    PROVE  Defined(X, b, base, St)
<1>1. Stepwise(X, b, base, St)
    BY Recursion
<1>2. PICK f \in [0..b -> X] : f[0] = base /\ \A k \in 1..b : f[k] = St[<<f[k - 1], k>>]
    BY <1>1 DEF Stepwise
<1>3. f = [k \in 0..b |-> IF k = 0 THEN base ELSE St[<<f[k - 1], k>>]]
    <2> DEFINE h == [k \in 0..b |-> IF k = 0 THEN base ELSE St[<<f[k - 1], k>>]]
    <2>1. ASSUME NEW k \in 0..b PROVE f[k] = h[k]
        BY <1>2
    <2>2. h = [k \in 0..b |-> h[k]] /\ f = [k \in 0..b |-> f[k]]
        OBVIOUS
    <2> HIDE DEF h
    <2>3. f = h
        BY <2>1, <2>2
    <2> QED BY <2>3 DEF h
<1> QED BY <1>3 DEF Defined

LEMMA LengthInt == ASSUME NEW type PROVE rlength(type) \in Int
<1>1. length(type) \in {1, 8, 0, 2}
    BY DEF length
<1> QED BY <1>1 DEF rlength

LEMMA ArgAtIs ==
    ASSUME Len(paraml) \in Nat
    PROVE  /\ \A k \in 0..Len(paraml) : ArgAt[k] \in Int
           /\ ArgAt[0] = STARG /\ \A k \in 1..Len(paraml) : ArgAt[k] = ArgAt[k - 1] + rlength(Arg(k).htype)
<1> DEFINE b == Len(paraml)
           P(f) == f = [k \in 0..b |-> IF k = 0 THEN STARG ELSE f[k - 1] + rlength(Arg(k).htype)]
           St == [p \in Int \X (1..b) |-> p[1] + rlength(Arg(p[2]).htype)]
<1>1. St \in [Int \X (1..b) -> Int] /\ STARG \in Int
    BY LengthInt DEF STARG
<1>2. PICK f \in [0..b -> Int] : f = [k \in 0..b |-> IF k = 0 THEN STARG ELSE St[<<f[k - 1], k>>]]
    <2> HIDE DEF St
    <2>1. Defined(Int, b, STARG, St)
        BY <1>1, Definition
    <2> QED BY <2>1 DEF Defined
<1>3. P(f)
    <2>1. ASSUME NEW k \in 0..b, k # 0 PROVE St[<<f[k - 1], k>>] = f[k - 1] + rlength(Arg(k).htype)
        <3>1. f[k - 1] \in Int /\ k \in 1..b
            BY <2>1
        <3> QED BY <3>1
    <2> HIDE DEF St
    <2>2. [k \in 0..b |-> IF k = 0 THEN STARG ELSE St[<<f[k - 1], k>>]] =
          [k \in 0..b |-> IF k = 0 THEN STARG ELSE f[k - 1] + rlength(Arg(k).htype)]
        BY <2>1
    <2> QED BY <1>2, <2>2
<1>4. ArgAt = CHOOSE g : P(g)
    BY Zenon DEF ArgAt
<1>5. P(ArgAt)
    <2> HIDE DEF P
    <2> QED BY <1>3, <1>4
<1>6. ArgAt[0] = STARG /\ \A k \in 1..b : ArgAt[k] = ArgAt[k - 1] + rlength(Arg(k).htype)
    <2> HIDE DEF b
    <2>1. b \in Nat
        BY DEF b
    <2> QED BY <1>5, <2>1
<1> DEFINE S == {k \in 0..b : ArgAt[k] \in Int}
<1>7. 0 \in S
    BY <1>1, <1>6
<1>8. ASSUME NEW k \in 0..(b - 1), k \in S PROVE k + 1 \in S
    <2>1. k + 1 \in 1..b /\ k + 1 \in 0..b /\ (k + 1) - 1 = k
        OBVIOUS
    <2>2. rlength(Arg(k + 1).htype) \in Int
        BY LengthInt
    <2>3. ArgAt[k + 1] = ArgAt[k] + rlength(Arg(k + 1).htype)
        BY <1>6, <2>1
    <2> QED BY <1>8, <2>1, <2>2, <2>3
<1>9. \A k \in 0..b : k \in S
    <2> HIDE DEF S
    <2> QED BY <1>7, <1>8, UpTo
<1> QED BY <1>6, <1>9
LEMMA ArgAtInt == ASSUME Len(paraml) \in Nat PROVE \A k \in 0..Len(paraml) : ArgAt[k] \in Int
BY ArgAtIs

LEMMA ArgRegsIs ==
    ASSUME Len(paraml) \in Nat, regvar \in Int
    PROVE  /\ \A k \in 0..Len(paraml) : ArgRegs[k] \in Int
           /\ \A k \in 1..Len(paraml) : ArgRegs[k] = ArgRegs[k - 1] - 1 \/ ArgRegs[k] = ArgRegs[k - 1]
<1> DEFINE b == Len(paraml)
           Reg(x, k) == IF Arg(k).hclass = "AREG" /\ Arg(k).htype \in {"int", "char"} /\ x >= 3 THEN x - 1 ELSE x
           P(f) == f = [k \in 0..b |-> IF k = 0 THEN regvar ELSE Reg(f[k - 1], k)]
           St == [p \in Int \X (1..b) |-> Reg(p[1], p[2])]
<1>1. \A k : \A x \in Int : Reg(x, k) \in Int
    OBVIOUS
<1>2. St \in [Int \X (1..b) -> Int]
    <2> HIDE DEF Reg
    <2> QED BY <1>1
<1>3. PICK f \in [0..b -> Int] : f = [k \in 0..b |-> IF k = 0 THEN regvar ELSE St[<<f[k - 1], k>>]]
    <2> HIDE DEF St
    <2>1. Defined(Int, b, regvar, St)
        BY <1>2, Definition
    <2> QED BY <2>1 DEF Defined
<1>4. P(f)
    <2>1. ASSUME NEW k \in 0..b, k # 0 PROVE St[<<f[k - 1], k>>] = Reg(f[k - 1], k)
        <3>1. f[k - 1] \in Int /\ k \in 1..b
            BY <2>1
        <3> HIDE DEF Reg
        <3> QED BY <3>1
    <2> HIDE DEF St, Reg
    <2>2. [k \in 0..b |-> IF k = 0 THEN regvar ELSE St[<<f[k - 1], k>>]] =
          [k \in 0..b |-> IF k = 0 THEN regvar ELSE Reg(f[k - 1], k)]
        BY <2>1
    <2> QED BY <1>3, <2>2
<1>5. ArgRegs = CHOOSE g : P(g)
    BY Zenon DEF ArgRegs
<1>6. P(ArgRegs)
    <2> HIDE DEF P
    <2> QED BY <1>4, <1>5
<1> HIDE DEF Reg
<1>7. ArgRegs[0] = regvar /\ \A k \in 1..b : ArgRegs[k] = Reg(ArgRegs[k - 1], k)
    <2> HIDE DEF b
    <2>1. b \in Nat
        BY DEF b
    <2> QED BY <1>6, <2>1
<1> DEFINE S == {k \in 0..b : ArgRegs[k] \in Int}
<1>8. 0 \in S
    BY <1>7
<1>9. ASSUME NEW k \in 0..(b - 1), k \in S PROVE k + 1 \in S
    <2>1. k + 1 \in 1..b /\ k + 1 \in 0..b /\ (k + 1) - 1 = k
        OBVIOUS
    <2>2. ArgRegs[k + 1] = Reg(ArgRegs[k], k + 1)
        BY <1>7, <2>1
    <2> QED BY <1>1, <1>9, <2>1, <2>2
<1>10. \A k \in 0..b : k \in S
    <2> HIDE DEF S
    <2> QED BY <1>8, <1>9, UpTo
<1>11. \A k \in 1..b : ArgRegs[k] = ArgRegs[k - 1] - 1 \/ ArgRegs[k] = ArgRegs[k - 1]
    <2>1. \A x, k : Reg(x, k) = x - 1 \/ Reg(x, k) = x
        BY DEF Reg
    <2> QED BY <1>7, <2>1
<1> QED BY <1>10, <1>11
LEMMA ArgRegsInt == ASSUME Len(paraml) \in Nat, regvar \in Int PROVE \A k \in 0..Len(paraml) : ArgRegs[k] \in Int
BY ArgRegsIs

\* The function's parameters, each declared once in its block.
Parameters ==
    /\ paraml \in Seq(Names)
    /\ \A k, m \in 1..Len(paraml) : paraml[k] = paraml[m] => k = m
    /\ \A k \in 1..Len(paraml) : Entry(scopes, 1, paraml[k], FALSE) # Undeclared

LEMMA ParamIs ==
    ASSUME Parameters
    PROVE  /\ Len(paraml) \in Nat
           /\ \A k \in 1..Len(paraml) : paraml[k] \in Names /\ ArgKey(k) \in Keys
           /\ \A k, m \in 1..Len(paraml) : ArgKey(k) = ArgKey(m) => k = m
<1>1. Len(paraml) \in Nat /\ \A k \in 1..Len(paraml) : paraml[k] \in Names
    BY DEF Parameters
<1>2. \A k \in 1..Len(paraml) : ArgKey(k) \in Keys
    BY <1>1, Zenon DEF ArgKey, Keys
<1>3. \A k, m \in 1..Len(paraml) : ArgKey(k) = ArgKey(m) => paraml[k] = paraml[m]
    BY Zenon DEF ArgKey
<1> QED BY <1>1, <1>2, <1>3 DEF Parameters

LEMMA PlaceIs ==
    ASSUME Book(hshtab, scopes, 1), Parameters, regvar \in Int, NEW k \in 1..Len(paraml)
    PROVE  /\ Place(k) \in Decls /\ Plain(Place(k)) /\ Declared(Place(k), FALSE) /\ OfFunction(Place(k), 1)
           /\ \A s : MayReplace(Place(k), s)
<1>1. Len(paraml) \in Nat /\ paraml[k] \in Names
    BY ParamIs
<1>2. ArgRegs[k] \in Int /\ ArgAt[k - 1] \in Int
    <2>1. k \in 0..Len(paraml) /\ k - 1 \in 0..Len(paraml)
        BY <1>1
    <2> QED BY <1>1, <2>1, ArgRegsInt, ArgAtInt
<1>3. Arg(k).htype \in Types
    <2> DEFINE i == lookup(hshtab, paraml[k], FALSE)
    <2>1. i \in Slots
        BY <1>1, LookupBook
    <2>2. hshtab[i] \in Slot
        BY <2>1, TakenKey DEF Book
    <2>3. hshtab[i].d \in Decls
        BY <2>2, SlotFields
    <2> HIDE DEF i
    <2>4. hshtab[i].d.htype \in Types
        BY <2>3 DEF Decls
    <2> QED BY <2>4 DEF Arg, i
<1>4. \E class \in {"REG", "AUTO"}, off \in Int : Place(k) = D(class, Arg(k).htype, off)
    BY <1>2 DEF Place
<1>5. PICK class \in {"REG", "AUTO"}, off \in Int : Place(k) = D(class, Arg(k).htype, off)
    BY <1>4
<1>6. class \in Classes /\ class # ""
    BY DEF Classes
<1>7. /\ Place(k) \in Decls /\ Plain(Place(k)) /\ Declared(Place(k), FALSE) /\ OfFunction(Place(k), 1)
    BY <1>3, <1>5, <1>6, DIs
<1> QED BY <1>7, Zenon DEF Plain, MayReplace

ScopeAt(k) == [scopes EXCEPT ![1] = ArgScope(k)]

LEMMA ArgScopeIs ==
    ASSUME Parameters, NEW k \in 0..Len(paraml)
    PROVE  /\ DOMAIN ArgScope(k) = Keys /\ ArgScope(k) = [key \in Keys |-> ArgScope(k)[key]]
           /\ \A m \in 1..k : ArgScope(k)[ArgKey(m)] = Place(m)
           /\ \A key \in Keys : (\A m \in 1..k : key # ArgKey(m)) => ArgScope(k)[key] = scopes[1][key]
<1>1. DOMAIN ArgScope(k) = Keys /\ ArgScope(k) = [key \in Keys |-> ArgScope(k)[key]]
    BY DEF ArgScope
<1>2. ASSUME NEW m \in 1..k PROVE ArgScope(k)[ArgKey(m)] = Place(m)
    <2>1. m \in 1..Len(paraml) /\ \A q \in 1..k : q \in 1..Len(paraml)
        BY ParamIs
    <2>2. ArgKey(m) \in Keys /\ \A q \in 1..k : ArgKey(m) = ArgKey(q) => q = m
        BY <2>1, ParamIs
    <2>3. (CHOOSE q \in 1..k : ArgKey(m) = ArgKey(q)) = m
        BY <2>2
    <2> QED BY <2>2, <2>3 DEF ArgScope
<1>3. ASSUME NEW key \in Keys, \A m \in 1..k : key # ArgKey(m) PROVE ArgScope(k)[key] = scopes[1][key]
    BY <1>3 DEF ArgScope
<1> QED BY <1>1, <1>2, <1>3

LEMMA ArgScopeNext ==
    ASSUME Parameters, scopes \in Scopes, NEW k \in 0..(Len(paraml) - 1)
    PROVE  ScopeAt(k + 1) = Stores(ScopeAt(k), 1, paraml[k + 1], FALSE, Place(k + 1))
<1>1. /\ k \in 0..Len(paraml) /\ k + 1 \in 0..Len(paraml) /\ k + 1 \in 1..Len(paraml) /\ k + 1 \in 1..(k + 1)
      /\ \A m \in 1..(k + 1) : m = k + 1 \/ m \in 1..k
      /\ \A m \in 1..k : m \in 1..(k + 1) /\ m \in 1..Len(paraml) /\ m # k + 1
    BY ParamIs
<1>2. 1 \in 0..MaxDepth
    BY Depths
<1> DEFINE old == ArgScope(k)
           new == ArgScope(k + 1)
           ak == ArgKey(k + 1)
           p == Place(k + 1)
<1>3. ak \in Keys /\ \A m \in 1..k : ak # ArgKey(m)
    BY <1>1, ParamIs
<1>4. /\ DOMAIN old = Keys /\ old = [key \in Keys |-> old[key]]
      /\ \A m \in 1..k : old[ArgKey(m)] = Place(m)
      /\ \A key \in Keys : (\A m \in 1..k : key # ArgKey(m)) => old[key] = scopes[1][key]
    BY <1>1, ArgScopeIs
<1>5. /\ DOMAIN new = Keys /\ new = [key \in Keys |-> new[key]]
      /\ \A m \in 1..(k + 1) : new[ArgKey(m)] = Place(m)
      /\ \A key \in Keys : (\A m \in 1..(k + 1) : key # ArgKey(m)) => new[key] = scopes[1][key]
    BY <1>1, ArgScopeIs
<1> HIDE DEF old, new
<1>6. new[ak] = p
    BY <1>1, <1>5
<1>7. ASSUME NEW key \in Keys, key # ak PROVE new[key] = old[key]
    <2>1. CASE \E m \in 1..k : key = ArgKey(m)
        <3>1. PICK m \in 1..k : key = ArgKey(m)
            BY <2>1
        <3>2. new[key] = Place(m) /\ old[key] = Place(m)
            BY <1>1, <1>4, <1>5, <3>1
        <3> QED BY <3>2
    <2>2. CASE \A m \in 1..k : key # ArgKey(m)
        <3>1. \A m \in 1..(k + 1) : key # ArgKey(m)
            BY <1>1, <1>7, <2>2
        <3> QED BY <1>4, <1>5, <2>2, <3>1
    <2> QED BY <2>1, <2>2
<1> HIDE DEF ak, p
<1>8. new = [old EXCEPT ![ak] = p]
    <2> DEFINE h == [old EXCEPT ![ak] = p]
    <2>1. h = [key \in Keys |-> h[key]]
        BY <1>4
    <2>2. ASSUME NEW key \in Keys PROVE new[key] = h[key]
        BY <1>3, <1>4, <1>6, <1>7
    <2> HIDE DEF h
    <2>3. new = h
        BY <1>5, <2>1, <2>2
    <2> QED BY <2>3 DEF h
<1>9. [scopes EXCEPT ![1] = new] = [[scopes EXCEPT ![1] = old] EXCEPT ![1][ak] = p]
    BY <1>2, <1>8 DEF Scopes
<1> QED BY <1>9, Zenon DEF ScopeAt, Stores, old, new, ak, p, ArgKey

LEMMA PlacedStep ==
    ASSUME Parameters, Book(hshtab, scopes, 1), regvar \in Int,
           NEW k \in 0..(Len(paraml) - 1), NEW t, Book(t, ScopeAt(k), 1), FunctionLabels(ScopeAt(k)),
           NEW u, u = Set(t, paraml[k + 1], FALSE, Place(k + 1))
    PROVE  u \in Tables /\ Book(u, ScopeAt(k + 1), 1) /\ FunctionLabels(ScopeAt(k + 1))
<1> DEFINE n == paraml[k + 1]
           i == lookup(t, n, FALSE)
           d == Place(k + 1)
           sc == ScopeAt(k)
           sc2 == ScopeAt(k + 1)
<1>1. /\ k + 1 \in 1..Len(paraml) /\ k \in 0..Len(paraml) /\ n \in Names /\ ArgKey(k + 1) \in Keys
      /\ \A m \in 1..k : m \in 1..Len(paraml) /\ m # k + 1
    BY ParamIs
<1>2. /\ d \in Decls /\ Declared(d, FALSE) /\ OfFunction(d, 1) /\ \A s : MayReplace(d, s)
    BY <1>1, PlaceIs
<1>3. sc \in Scopes /\ scopes \in Scopes /\ t \in Tables /\ 1 \in 0..MaxDepth
    BY Depths DEF Book
<1>4. sc2 = Stores(sc, 1, n, FALSE, d)
    BY <1>3, ArgScopeNext
<1>5. Entry(sc, 1, n, FALSE) # Undeclared
    <2>1. sc[1] = ArgScope(k)
        BY <1>3 DEF ScopeAt, Scopes
    <2>2. \A m \in 1..k : ArgKey(k + 1) # ArgKey(m)
        BY <1>1, ParamIs
    <2>3. ArgScope(k)[ArgKey(k + 1)] = scopes[1][ArgKey(k + 1)]
        BY <1>1, <2>2, ArgScopeIs
    <2>4. Entry(sc, 1, n, FALSE) = Entry(scopes, 1, n, FALSE)
        BY <2>1, <2>3, Zenon DEF Entry, ArgKey
    <2> QED BY <1>1, <2>4 DEF Parameters
<1> HIDE DEF i, d, sc, sc2, n
<1>6. Book(t, sc, 1) /\ FunctionLabels(sc)
    BY DEF sc
<1>7. i \in Slots /\ (~Taken(t, i) => Absent(sc, n, FALSE))
    BY <1>1, <1>6, LookupBook DEF i
<1>8. Taken(t, i)
    BY <1>3, <1>5, <1>7 DEF Absent
<1>9. t[i].hblklev = 1
    <2>1. t[i].hblklev \in 0..1 /\ \A l \in 0..MaxDepth : Entry(sc, l, n, FALSE) # Undeclared => l <= t[i].hblklev
        BY <1>1, <1>6, <1>8, SlotMeans DEF i
    <2>2. 1 <= t[i].hblklev
        BY <1>3, <1>5, <2>1
    <2> QED BY <2>1, <2>2
<1>10. Stored(sc, sc2, 1, n, FALSE, d)
    BY <1>1, <1>2, <1>3, <1>4, StoresIs
<1>11. t[i] \in Slot
    BY <1>3, <1>7, TakenKey
<1>12. u = Put(t, i, Redone(t[i], d))
    <2>1. u = SetAt(t, i, d)
        BY Zenon DEF Set, SetAt, i, d, n
    <2> QED BY <1>2, <1>3, <1>7, <1>11, <2>1, PutIs
<1>13. Book(u, sc2, 1)
    <2>1. MayReplace(d, t[i])
        BY <1>2
    <2>2. Stored(sc, sc2, t[i].hblklev, n, FALSE, d)
        BY <1>9, <1>10
    <2>3. i = lookup(t, n, FALSE)
        BY DEF i
    <2> QED BY <1>1, <1>2, <1>6, <1>8, <1>12, <2>1, <2>2, <2>3, BookSet
<1>14. FunctionLabels(sc2)
    BY <1>1, <1>2, <1>3, <1>6, <1>10, LabelsStored
<1> QED BY <1>13, <1>14 DEF Book, sc2

LEMMA PlacedAll ==
    ASSUME Parameters, Book(hshtab, scopes, 1), FunctionLabels(scopes), regvar \in Int,
           NEW f, f[0] = hshtab,
           \A k \in 1..Len(paraml) : LET u == Set(f[k - 1], paraml[k], FALSE, Place(k)) IN u \in Tables => f[k] = u
    PROVE  \A k \in 0..Len(paraml) : Book(f[k], ScopeAt(k), 1) /\ FunctionLabels(ScopeAt(k))
<1> DEFINE b == Len(paraml)
           S == {k \in 0..b : Book(f[k], ScopeAt(k), 1) /\ FunctionLabels(ScopeAt(k))}
<1>1. b \in Nat /\ 1 \in 0..MaxDepth /\ scopes \in Scopes
    BY ParamIs, Depths DEF Book
<1>2. 0 \in S
    <2>1. 0 \in 0..b /\ \A m \in 1..0 : FALSE
        BY <1>1
    <2>2. /\ ArgScope(0) = [key \in Keys |-> ArgScope(0)[key]]
          /\ \A key \in Keys : (\A m \in 1..0 : key # ArgKey(m)) => ArgScope(0)[key] = scopes[1][key]
        BY <2>1, ArgScopeIs
    <2>3. ArgScope(0) = scopes[1]
        <3>1. scopes[1] = [key \in Keys |-> scopes[1][key]]
            BY <1>1 DEF Scopes
        <3>2. \A key \in Keys : ArgScope(0)[key] = scopes[1][key]
            BY <2>1, <2>2
        <3> HIDE DEF ArgScope
        <3>3. [key \in Keys |-> ArgScope(0)[key]] = [key \in Keys |-> scopes[1][key]]
            BY <3>2
        <3> QED BY <2>2, <3>1, <3>3
    <2>4. ScopeAt(0) = scopes
        BY <1>1, <2>3 DEF ScopeAt, Scopes
    <2> QED BY <2>1, <2>4
<1>3. ASSUME NEW k \in 0..(b - 1), k \in S PROVE k + 1 \in S
    <2> DEFINE u == Set(f[k], paraml[k + 1], FALSE, Place(k + 1))
    <2>1. k + 1 \in 0..b /\ k + 1 \in 1..b /\ (k + 1) - 1 = k
        BY <1>1
    <2>2. Book(f[k], ScopeAt(k), 1) /\ FunctionLabels(ScopeAt(k))
        BY <1>3
    <2>3. u \in Tables /\ Book(u, ScopeAt(k + 1), 1) /\ FunctionLabels(ScopeAt(k + 1))
        BY <1>3, <2>2, PlacedStep
    <2>4. f[k + 1] = u
        BY <2>1, <2>3
    <2> HIDE DEF u
    <2> QED BY <2>1, <2>3, <2>4
<1>4. \A k \in 0..b : k \in S
    <2> HIDE DEF S, b
    <2> QED BY <1>1, <1>2, <1>3, UpTo
<1> QED BY <1>4

\* The walk over the parameters, for the table and the scopes.
LEMMA HeadStep ==
    ASSUME Parameters, Book(hshtab, scopes, 1), FunctionLabels(scopes), regvar \in Int, funchead
    PROVE  Book(hshtab', scopes', 1) /\ FunctionLabels(scopes') /\ regvar' \in Int
<1> DEFINE b == Len(paraml)
           P(f) == f = [k \in 0..b |-> IF k = 0 THEN hshtab ELSE Set(f[k - 1], paraml[k], FALSE, Place(k))]
           V(t, k) == Set(t, paraml[k], FALSE, Place(k))
           St == [p \in Tables \X (1..b) |-> IF V(p[1], p[2]) \in Tables THEN V(p[1], p[2]) ELSE p[1]]
<1>1. b \in Nat /\ hshtab \in Tables
    BY ParamIs DEF Book
<1>2. St \in [Tables \X (1..b) -> Tables]
    <2> HIDE DEF V, b
    <2> QED OBVIOUS
<1>3. PICK f \in [0..b -> Tables] : f[0] = hshtab /\ \A k \in 1..b : f[k] = St[<<f[k - 1], k>>]
    <2> HIDE DEF St
    <2>1. Stepwise(Tables, b, hshtab, St)
        BY <1>1, <1>2, Recursion
    <2> QED BY <2>1 DEF Stepwise
<1> HIDE DEF b
<1>4. ASSUME NEW k \in 1..b PROVE V(f[k - 1], k) \in Tables => f[k] = V(f[k - 1], k)
    <2>1. k - 1 \in 0..b
        BY <1>1
    <2>2. f[k] = St[<<f[k - 1], k>>] /\ f[k - 1] \in Tables
        <3> HIDE DEF St
        <3> QED BY <1>3, <2>1
    <2>3. St[<<f[k - 1], k>>] = IF V(f[k - 1], k) \in Tables THEN V(f[k - 1], k) ELSE f[k - 1]
        <3> HIDE DEF V
        <3> QED BY <2>2
    <2> HIDE DEF St, V
    <2> QED BY <2>2, <2>3
<1>5. \A k \in 0..b : Book(f[k], ScopeAt(k), 1) /\ FunctionLabels(ScopeAt(k))
    <2> HIDE DEF St
    <2> QED BY <1>3, <1>4, PlacedAll DEF b
<1>6. ASSUME NEW k \in 0..b, k # 0 PROVE f[k] = V(f[k - 1], k)
    <2>1. k \in 1..b /\ k - 1 \in 0..(b - 1) /\ k - 1 \in 0..b /\ (k - 1) + 1 = k
        BY <1>1, <1>6
    <2>2. Book(f[k - 1], ScopeAt(k - 1), 1) /\ FunctionLabels(ScopeAt(k - 1))
        BY <1>5, <2>1
    <2>3. V(f[k - 1], k) \in Tables
        BY <2>1, <2>2, PlacedStep DEF b
    <2> QED BY <1>4, <2>1, <2>3
<1>7. P(f)
    <2> DEFINE h == [k \in 0..b |-> IF k = 0 THEN hshtab ELSE V(f[k - 1], k)]
    <2>1. \A k \in 0..b : f[k] = h[k]
        <3> HIDE DEF V, St
        <3> QED BY <1>3, <1>6
    <2>2. h = [k \in 0..b |-> h[k]] /\ f = [k \in 0..b |-> f[k]]
        OBVIOUS
    <2> HIDE DEF h
    <2>3. f = h
        BY <2>1, <2>2
    <2> QED BY <2>3 DEF h
<1>8. Placed = CHOOSE g : P(g)
    BY Zenon DEF Placed, b
<1>9. P(Placed)
    <2> HIDE DEF P
    <2> QED BY <1>7, <1>8
<1>10. Placed[0] = hshtab /\ \A k \in 1..b : Placed[k] = Set(Placed[k - 1], paraml[k], FALSE, Place(k))
    <2> HIDE DEF St
    <2>1. Placed = [k \in 0..b |-> IF k = 0 THEN hshtab ELSE V(Placed[k - 1], k)]
        BY <1>9
    <2>2. 0 \in 0..b /\ \A k \in 1..b : k \in 0..b /\ k # 0
        BY <1>1
    <2> HIDE DEF P, V
    <2>3. Placed[0] = hshtab /\ \A k \in 1..b : Placed[k] = V(Placed[k - 1], k)
        BY <2>1, <2>2
    <2> QED BY <2>3 DEF V
<1> HIDE DEF St, P
<1>11. Book(Placed[b], ScopeAt(b), 1) /\ FunctionLabels(ScopeAt(b))
    <2>1. b \in 0..b
        BY <1>1
    <2>2. \A k \in 0..b : Book(Placed[k], ScopeAt(k), 1) /\ FunctionLabels(ScopeAt(k))
        BY <1>10, PlacedAll DEF b
    <2> QED BY <2>1, <2>2
<1>12. hshtab' = Placed[b] /\ scopes' = ScopeAt(b) /\ regvar' = ArgRegs[b]
    BY Zenon DEF funchead, ScopeAt, b
<1>13. regvar' \in Int
    <2>1. b \in 0..b /\ \A k \in 0..b : ArgRegs[k] \in Int
        BY <1>1, ArgRegsInt DEF b
    <2> QED BY <1>12, <2>1
<1> QED BY <1>11, <1>12, <1>13
---------------------------------------------------------------------------
(* The inductive invariant.                                                *)

ReadingAt ==
    /\ where \in {"ext", "args", "body", "members", "exit"}
    /\ where \in {"ext", "exit"} => blklev = 0
    /\ where = "args" => blklev = 1
    /\ where \in {"body", "members"} => blklev > 0 /\ Len(saved) = blklev
Storage ==
    /\ autolen \in Int /\ maxauto \in Int /\ regvar \in Int /\ isn \in Int /\ nread \in Nat
    /\ saved \in Seq([autolen : Int, regvar : Int])
HeadRead == where = "args" => Parameters
Table == Book(hshtab, scopes, blklev) /\ FunctionLabels(scopes)
IInv == Table /\ ReadingAt /\ Storage /\ HeadRead

LEMMA Levels == 0 \in 0..MaxDepth /\ 1 \in 0..MaxDepth
BY Depths

LEMMA EmptyBook ==
    ASSUME NEW t, t = [i \in Slots |-> Free], NEW sc, sc = [l \in 0..MaxDepth |-> Nothing]
    PROVE  Book(t, sc, 0) /\ FunctionLabels(sc)
<1>1. t \in Tables /\ \A i \in Slots : t[i] = Free /\ ~Taken(t, i)
    BY Constants DEF Tables, Taken
<1>2. Room(t) /\ Clean(t) /\ Unique(t)
    <2>1. 0 \in Slots
        BY Positive DEF Slots
    <2>2. Room(t)
        BY <1>1, <2>1 DEF Room, Taken
    <2> QED BY <1>1, <2>2 DEF Clean, Unique
<1>3. 0 \in 0..MaxDepth /\ 1 \in 0..MaxDepth
    BY Depths
<1>4. \A l \in 0..MaxDepth, key \in Keys : sc[l][key] = Undeclared
    BY DEF Nothing
<1>5. sc \in Scopes
    <2>1. Nothing \in [Keys -> Decls]
        BY Constants DEF Nothing
    <2> QED BY <2>1 DEF Scopes
<1>6. ASSUME NEW n \in Names, NEW mos \in BOOLEAN PROVE Absent(sc, n, mos)
    <2>1. <<n, mos>> \in Keys
        BY DEF Keys
    <2> QED BY <1>4, <2>1, Zenon DEF Absent, Entry
<1>7. FunctionLabels(sc)
    BY <1>4, Constants DEF FunctionLabels
<1>8. Book(t, sc, 0)
    BY <1>1, <1>2, <1>3, <1>5, <1>6, Zenon DEF Book
<1> QED BY <1>7, <1>8

LEMMA InitIInv == ASSUME Init PROVE IInv
<1>1. Table
    BY EmptyBook DEF Init, Table
<1>2. ReadingAt /\ HeadRead
    <2>1. where = "ext" /\ blklev = 0
        BY Zenon DEF Init
    <2> QED BY <2>1 DEF ReadingAt, HeadRead
<1>3. Storage
    <2>1. autolen = 0 /\ maxauto = 0 /\ regvar = 0 /\ isn = 1 /\ saved = <<>> /\ nread = 0
        BY Zenon DEF Init
    <2> QED BY <2>1 DEF Storage
<1> QED BY <1>1, <1>2, <1>3 DEF IInv

LEMMA DeclRead ==
    ASSUME Book(hshtab, scopes, blklev), FunctionLabels(scopes), NEW n \in Names, NEW mos \in BOOLEAN, NEW d \in Decls, Plain(d),
           Reads(decl1(hshtab, n, mos, d)), DeclaresHere(n, mos, d)
    PROVE  /\ Book(hshtab', scopes', blklev) /\ FunctionLabels(scopes') /\ nread' = nread + 1
           /\ scopes' = IF Agrees(Entry(scopes, blklev, n, mos), d) THEN Stores(scopes, blklev, n, mos, d) ELSE scopes
<1>1. /\ Book(hshtab', scopes', blklev)
      /\ scopes' = IF Agrees(Entry(scopes, blklev, n, mos), d) THEN Stores(scopes, blklev, n, mos, d) ELSE scopes
    BY DeclStep
<1>2. scopes \in Scopes /\ blklev \in 0..MaxDepth
    BY DEF Book
<1>3. Stored(scopes, Stores(scopes, blklev, n, mos, d), blklev, n, mos, d)
    BY <1>2, StoresIs
<1>4. OfFunction(d, blklev)
    BY Zenon DEF OfFunction, Plain
<1>5. FunctionLabels(Stores(scopes, blklev, n, mos, d))
    BY <1>2, <1>3, <1>4, LabelsStored
<1>6. nread' = nread + 1
    BY DEF Reads
<1> QED BY <1>1, <1>5, <1>6

LEMMA StoresEntry ==
    ASSUME NEW sc \in Scopes, NEW l \in 0..MaxDepth, NEW n \in Names, NEW mos \in BOOLEAN, NEW d \in Decls
    PROVE  Entry(Stores(sc, l, n, mos, d), l, n, mos) = d
<1> DEFINE sc2 == Stores(sc, l, n, mos, d)
<1>1. Stored(sc, sc2, l, n, mos, d)
    BY StoresIs
<1> HIDE DEF sc2
<1>2. Entry(sc2, l, n, mos) = d
    BY <1>1, StoredEntries
<1> QED BY <1>2 DEF sc2

\* A declaration set at level 1 leaves every parameter declared.
LEMMA ParametersStay ==
    ASSUME Parameters, scopes \in Scopes, NEW n \in Names, NEW d \in Decls, d.hclass # "", paraml' = paraml,
           scopes' = scopes \/ scopes' = Stores(scopes, 1, n, FALSE, d)
    PROVE  Parameters'
<1>1. CASE scopes' = scopes
    BY <1>1 DEF Parameters, Entry
<1>2. CASE scopes' = Stores(scopes, 1, n, FALSE, d)
    <2>1. 1 \in 0..MaxDepth
        BY Levels, Zenon
    <2>2. d # Undeclared
        BY Constants, Zenon
    <2>3. Stored(scopes, scopes', 1, n, FALSE, d)
        BY <1>2, <2>1, StoresIs
    <2>4. Entry(scopes', 1, n, FALSE) = d
        BY <1>2, <2>1, StoresEntry
    <2>5. ASSUME NEW k \in 1..Len(paraml) PROVE Entry(scopes', 1, paraml[k], FALSE) # Undeclared
        <3>1. paraml[k] \in Names /\ Entry(scopes, 1, paraml[k], FALSE) # Undeclared
            <4>1. paraml[k] \in Names
                BY ParamIs, Zenon
            <4>2. Entry(scopes, 1, paraml[k], FALSE) # Undeclared
                BY Zenon DEF Parameters
            <4> QED BY <4>1, <4>2
        <3>2. Stored(scopes, scopes', 1, n, FALSE, d)
            BY <1>2, <2>1, StoresIs
        <3>3. CASE paraml[k] = n
            BY <2>2, <2>4, <3>3, Zenon
        <3>4. CASE paraml[k] # n
            <4>1. <<paraml[k], FALSE>> # <<n, FALSE>>
                BY <3>4
            <4>2. <<paraml[k], FALSE>> \in Keys
                BY <3>1 DEF Keys
            <4>3. scopes'[1][<<paraml[k], FALSE>>] = scopes[1][<<paraml[k], FALSE>>]
                BY <2>1, <3>2, <4>1, <4>2, Zenon DEF Stored, Others
            <4> QED BY <3>1, <4>3 DEF Entry
        <3> QED BY <3>3, <3>4
    <2> QED BY <2>5 DEF Parameters, Entry
<1> QED BY <1>1, <1>2

\* Nothing is declared in a block not open.
LEMMA Unopened ==
    ASSUME NEW t, NEW sc, NEW lev, Book(t, sc, lev), NEW l \in 0..MaxDepth, l > lev, NEW n \in Names, NEW mos \in BOOLEAN
    PROVE  Entry(sc, l, n, mos) = Undeclared
<1>1. lev \in Nat /\ l \in Nat /\ sc \in Scopes /\ t \in Tables
    BY Depths DEF Book
<1>2. CASE \A i \in Slots : ~Is(t, i, n, mos)
    BY <1>2 DEF Book, Absent
<1>3. CASE \E i \in Slots : Is(t, i, n, mos)
    <2>1. PICK i \in Slots : Is(t, i, n, mos)
        BY <1>3
    <2>2. Taken(t, i) /\ t[i].name = n /\ t[i].mos = mos
        BY <2>1, Constants DEF Is, Taken
    <2>3. Denotes(t[i], Column(sc, n, mos), lev)
        BY <2>2 DEF Book
    <2>4. Column(sc, n, mos)[l] = Entry(sc, l, n, mos)
        BY <1>1, ColumnIs
    <2>5. ASSUME Column(sc, n, mos)[l] # Undeclared PROVE FALSE
        <3>1. PICK k \in 0..Depth(t[i]) : Level(t[i], k) = l
            BY <2>3, <2>5 DEF Denotes, Complete
        <3>2. l \in 0..lev
            BY <2>3, <3>1 DEF Denotes, Within
        <3> QED BY <1>1, <3>2
    <2> QED BY <2>4, <2>5
<1> QED BY <1>2, <1>3

---------------------------------------------------------------------------
(* While a declarator's parameters are read its name has a slot and may    *)
(* have no declaration yet: the table is the one in which it has one, but  *)
(* for that slot.                                                          *)

Arg1 == D("ARG1", "int", 0)
FileDecls == {D(class, type, 0) : class \in {"EXTERN", "TYPEDEF"}, type \in {"int", "fn"}}
\* The slot as it was entered, or with a parameter of the same name over it; the same slot with the name declared d.
Fresh(n, mos, d) == New(n, mos, d, 0)
Waits(s, n, mos) == s = Fresh(n, mos, Undeclared) \/ s = Over(Fresh(n, mos, Undeclared), Arg1, 1)
Filled(s, n, mos, d) == IF s = Fresh(n, mos, Undeclared) THEN Fresh(n, mos, d) ELSE Over(Fresh(n, mos, d), Arg1, 1)
\* The innermost level anything is declared at.
ParamLevel == IF paraml = <<>> THEN 0 ELSE 1
\* The name is declared already, or slot i is entered for it and the table right whatever it is declared.
Known(t, sc, n, mos, lev) == Entry(sc, 0, n, mos) # Undeclared /\ Book(t, sc, lev)
Entering(t, sc, n, mos, lev, i) ==
    /\ i \in Slots /\ t \in Tables /\ Waits(t[i], n, mos) /\ sc \in Scopes
    /\ Entry(sc, 0, n, mos) = Undeclared
    /\ \A d \in FileDecls : Book(Put(t, i, Filled(t[i], n, mos, d)), Stores(sc, 0, n, mos, d), lev)
HasSlot(t, sc, n, mos, lev) == Known(t, sc, n, mos, lev) \/ \E i \in Slots : Entering(t, sc, n, mos, lev, i)
OnlyParameters == \A m \in Names : Entry(scopes, 1, m, FALSE) \in {Undeclared, Arg1}
Naming ==
    /\ where = "params" /\ blklev = 1 /\ defsym \in Names
    /\ Storage /\ Parameters /\ OnlyParameters
    /\ scopes \in Scopes /\ FunctionLabels(scopes)
    /\ HasSlot(hshtab, scopes, defsym, FALSE, ParamLevel)

LEMMA ArgIs ==
    /\ Arg1 \in Decls /\ Plain(Arg1) /\ Arg1 # Undeclared /\ Arg1.hclass = "ARG1" /\ Arg1.htype = "int" /\ Arg1.hoffset = 0
    /\ ~Agrees(Arg1, Arg1) /\ \A d \in FileDecls : ~Agrees(Arg1, d)
<1>1. "ARG1" \in Classes /\ "ARG1" # "" /\ "int" \in Types /\ 0 \in Int
    BY DEF Classes, Types
<1>2. Arg1 \in Decls /\ Plain(Arg1)
    BY <1>1, DIs DEF Arg1
<1>3. Arg1.hclass = "ARG1" /\ Arg1.htype = "int" /\ Arg1.hoffset = 0
    BY DEF Arg1, D
<1>4. Arg1 # Undeclared
    BY <1>1, <1>3, Constants
<1>5. ASSUME NEW d, d.hclass \in {"ARG1", "EXTERN", "TYPEDEF"} PROVE ~Agrees(Arg1, d)
    BY <1>3, <1>5 DEF Agrees
<1>6. \A d \in FileDecls : d.hclass \in {"ARG1", "EXTERN", "TYPEDEF"}
    BY DEF FileDecls, D
<1> QED BY <1>2, <1>3, <1>4, <1>5, <1>6

LEMMA FileDeclIs ==
    ASSUME NEW d \in FileDecls
    PROVE  d \in Decls /\ Plain(d) /\ d # Undeclared /\ d.hoffset = 0 /\ ~d.lab /\ OfFunction(d, 0) /\ Declared(d, FALSE)
<1>1. PICK class \in {"EXTERN", "TYPEDEF"}, type \in {"int", "fn"} : d = D(class, type, 0)
    BY DEF FileDecls
<1>2. class \in Classes /\ class # "" /\ type \in Types /\ 0 \in Int
    <2>1. class \in Classes /\ class # ""
        BY DEF Classes
    <2>2. type \in Types
        BY DEF Types
    <2>3. 0 \in Int
        OBVIOUS
    <2> QED BY <2>1, <2>2, <2>3
<1>3. d \in Decls /\ Plain(d) /\ Declared(d, FALSE) /\ OfFunction(d, 0)
    BY <1>1, <1>2, DIs
<1>4. d.hoffset = 0 /\ ~d.lab
    BY <1>1 DEF D
<1>5. d # Undeclared
    BY <1>3 DEF Declared
<1> QED BY <1>3, <1>4, <1>5

LEMMA FreshIs ==
    ASSUME NEW n \in Names, NEW mos \in BOOLEAN, NEW d \in Decls
    PROVE  /\ Fresh(n, mos, d) \in Slot /\ Fresh(n, mos, d).name = n /\ Fresh(n, mos, d).mos = mos
           /\ Fresh(n, mos, d).hblklev = 0 /\ Fresh(n, mos, d).d = d
           /\ Over(Fresh(n, mos, d), Arg1, 1) \in Slot /\ Over(Fresh(n, mos, d), Arg1, 1).name = n /\ Over(Fresh(n, mos, d), Arg1, 1).mos = mos
           /\ Over(Fresh(n, mos, d), Arg1, 1).hblklev = 1 /\ Over(Fresh(n, mos, d), Arg1, 1).d = Arg1
           /\ Over(Fresh(n, mos, d), Arg1, 1) # Fresh(n, mos, Undeclared)
<1> DEFINE f == Fresh(n, mos, d)
           o == Over(f, Arg1, 1)
<1>1. 0 \in Nat /\ 1 \in Nat
    OBVIOUS
<1>2. f \in Slot /\ f.name = n /\ f.mos = mos /\ f.hblklev = 0 /\ f.d = d /\ f.hpdown = <<>>
    <2> DEFINE w == New(n, mos, d, 0)
    <2>1. w \in Slot /\ w.hblklev = 0 /\ w.d = d /\ w.hpdown = <<>> /\ Named(w, n, mos)
        BY <1>1, NewIs
    <2>2. f = w
        BY DEF Fresh
    <2> HIDE DEF w, f
    <2> QED BY <2>1, <2>2 DEF Named
<1>3. Fresh(n, mos, Undeclared).hblklev = 0
    BY DEF Fresh, New
<1> HIDE DEF f
<1>4. o \in Slot
    BY <1>1, <1>2, ArgIs, OverIs
<1>5. o.d = Arg1 /\ o.hblklev = 1 /\ o.name = n /\ o.mos = mos
    BY <1>2 DEF Over, Slot
<1>6. o # Fresh(n, mos, Undeclared)
    BY <1>3, <1>5
<1> QED BY <1>2, <1>4, <1>5, <1>6 DEF f

\* Both cases of a slot that waits.
LEMMA WaitsIs ==
    ASSUME NEW n \in Names, NEW mos \in BOOLEAN, NEW s, Waits(s, n, mos), NEW d \in Decls
    PROVE  /\ s \in Slot /\ s.name = n /\ s.mos = mos
           /\ Filled(s, n, mos, d) \in Slot /\ Filled(s, n, mos, d).name = n /\ Filled(s, n, mos, d).mos = mos /\ Filled(s, n, mos, d).hblklev = s.hblklev
           /\ \/ s = Fresh(n, mos, Undeclared) /\ s.hblklev = 0 /\ s.d = Undeclared /\ Filled(s, n, mos, d) = Fresh(n, mos, d)
              \/ s = Over(Fresh(n, mos, Undeclared), Arg1, 1) /\ s.hblklev = 1 /\ s.d = Arg1 /\ Filled(s, n, mos, d) = Over(Fresh(n, mos, d), Arg1, 1)
<1>1. Undeclared \in Decls
    BY Constants
<1> DEFINE a == Fresh(n, mos, Undeclared)
           b == Over(a, Arg1, 1)
           c == Fresh(n, mos, d)
           e == Over(c, Arg1, 1)
<1>2. /\ a \in Slot /\ a.name = n /\ a.mos = mos /\ a.hblklev = 0 /\ a.d = Undeclared
      /\ b \in Slot /\ b.name = n /\ b.mos = mos /\ b.hblklev = 1 /\ b.d = Arg1 /\ b # a
    BY <1>1, FreshIs
<1>3. /\ c \in Slot /\ c.name = n /\ c.mos = mos /\ c.hblklev = 0
      /\ e \in Slot /\ e.name = n /\ e.mos = mos /\ e.hblklev = 1
    BY FreshIs
<1>4. Filled(s, n, mos, d) = IF s = a THEN c ELSE e
    BY Zenon DEF Filled
<1>5. s = a \/ s = b
    BY Zenon DEF Waits
<1> HIDE DEF a, b, c, e
<1>6. \/ s = a /\ s.hblklev = 0 /\ s.d = Undeclared /\ Filled(s, n, mos, d) = c
      \/ s = b /\ s.hblklev = 1 /\ s.d = Arg1 /\ Filled(s, n, mos, d) = e
    BY <1>2, <1>4, <1>5
<1>7. /\ s \in Slot /\ s.name = n /\ s.mos = mos
      /\ Filled(s, n, mos, d) \in Slot /\ Filled(s, n, mos, d).name = n /\ Filled(s, n, mos, d).mos = mos /\ Filled(s, n, mos, d).hblklev = s.hblklev
    BY <1>2, <1>3, <1>6
<1> QED BY <1>6, <1>7, Zenon DEF a, b, c, e

\* Where lookup stops depends on the names only.
LEMMA SameLookup ==
    ASSUME NEW t \in Tables, NEW i \in Slots, NEW s \in Slot, s.name = t[i].name, s.mos = t[i].mos, NEW n \in Names, NEW mos
    PROVE  lookup(Put(t, i, s), n, mos) = lookup(t, n, mos)
<1> DEFINE t2 == Put(t, i, s)
           At(x) == {k \in Slots : x[Probe(n, k)].name = "" \/ (x[Probe(n, k)].name = n /\ x[Probe(n, k)].mos = mos)}
<1>1. \A j \in Slots : t2[j].name = t[j].name /\ t2[j].mos = t[j].mos
    <2>1. t2[i] = s /\ \A j \in Slots : j # i => t2[j] = t[j]
        BY PutAt
    <2> HIDE DEF t2
    <2> QED BY <2>1
<1> HIDE DEF t2
<1>2. \A k \in Slots : t2[Probe(n, k)].name = t[Probe(n, k)].name /\ t2[Probe(n, k)].mos = t[Probe(n, k)].mos
    BY <1>1, ProbeSlot
<1>3. At(t2) = At(t)
    BY <1>2
<1>4. lookup(t2, n, mos) = Probe(n, Min(At(t2))) /\ lookup(t, n, mos) = Probe(n, Min(At(t)))
    BY DEF lookup
<1> HIDE DEF At
<1>5. lookup(t2, n, mos) = lookup(t, n, mos)
    BY <1>3, <1>4
<1> QED BY <1>5 DEF t2

LEMMA PutSame == ASSUME NEW t \in Tables, NEW i \in Slots PROVE Put(t, i, t[i]) = t
BY DEF Put, Tables
LEMMA PutAgain == ASSUME NEW t \in Tables, NEW i \in Slots, NEW a, NEW b PROVE Put(Put(t, i, a), i, b) = Put(t, i, b)
BY DEF Put, Tables
LEMMA PutSwap ==
    ASSUME NEW t \in Tables, NEW i \in Slots, NEW j \in Slots, j # i, NEW a, NEW b
    PROVE  Put(Put(t, i, a), j, b) = Put(Put(t, j, b), i, a)
BY DEF Put, Tables

\* What decl1 does to a slot, whatever stands in the others.
LEMMA DeclAt ==
    ASSUME NEW t \in Tables, NEW m \in Names, NEW d \in Decls, NEW mos \in BOOLEAN, NEW j \in Slots, j = lookup(t, m, mos), blklev = 1, NEW v, v = decl1(t, m, mos, d)
    PROVE  v = Put(t, j, IF ~Taken(t, j) THEN New(m, mos, d, 1)
                         ELSE IF Outer(t[j], 1) THEN Over(t[j], d, 1)
                         ELSE IF Agrees(t[j].d, d) THEN Redone(t[j], d) ELSE t[j])
<1>1. blklev \in Nat
    OBVIOUS
<1>2. ~Taken(t, j) => v = Put(t, j, New(m, mos, d, blklev))
    BY <1>1, DeclTable
<1>3. Taken(t, j) /\ Outer(t[j], blklev) => v = Put(t, j, Over(t[j], d, blklev))
    BY <1>1, DeclTable
<1>4. Taken(t, j) /\ ~Outer(t[j], blklev) => (Agrees(t[j].d, d) => v = Put(t, j, Redone(t[j], d)))
    BY <1>1, DeclTable
<1>5. Taken(t, j) /\ ~Outer(t[j], blklev) => (~Agrees(t[j].d, d) => v = t)
    BY <1>1, DeclTable
<1>6. Put(t, j, t[j]) = t
    BY PutSame
<1> QED BY <1>2, <1>3, <1>4, <1>5, <1>6, Zenon

\* A parameter read, in the table and in the one in which the name is declared.
LEMMA ParameterCommutes ==
    ASSUME NEW t \in Tables, Room(t), NEW n \in Names, NEW mos \in BOOLEAN, NEW i \in Slots, Waits(t[i], n, mos), i = lookup(t, n, mos), NEW m \in Names,
           NEW d \in Decls, NEW u, u = Put(t, i, Filled(t[i], n, mos, d)), blklev = 1, NEW v, v = decl1(t, m, mos, Arg1)
    PROVE  /\ v \in Tables /\ Waits(v[i], n, mos)
           /\ decl1(u, m, mos, Arg1) = Put(v, i, Filled(v[i], n, mos, d))
           /\ Redeclared(u, m, mos, Arg1) <=> Redeclared(t, m, mos, Arg1)
           /\ Redeclared(t, m, mos, Arg1) => v = t
<1> DEFINE j == lookup(t, m, mos)
           f == Filled(t[i], n, mos, d)
           x(z) == IF ~Taken(z, j) THEN New(m, mos, Arg1, 1)
                   ELSE IF Outer(z[j], 1) THEN Over(z[j], Arg1, 1)
                   ELSE IF Agrees(z[j].d, Arg1) THEN Redone(z[j], Arg1) ELSE z[j]
<1>1. /\ t[i] \in Slot /\ t[i].name = n /\ t[i].mos = mos
      /\ f \in Slot /\ f.name = n /\ f.mos = mos /\ f.hblklev = t[i].hblklev
      /\ \/ t[i] = Fresh(n, mos, Undeclared) /\ t[i].hblklev = 0 /\ t[i].d = Undeclared /\ f = Fresh(n, mos, d)
         \/ t[i] = Over(Fresh(n, mos, Undeclared), Arg1, 1) /\ t[i].hblklev = 1 /\ t[i].d = Arg1 /\ f = Over(Fresh(n, mos, d), Arg1, 1)
    BY WaitsIs
<1>2. j = lookup(t, m, mos) /\ j \in Slots /\ (~Taken(t, j) \/ Is(t, j, m, mos))
    BY LookupSlot
<1>3. u = Put(t, i, f) /\ f \in Slot /\ f.name = t[i].name /\ f.mos = t[i].mos
    BY <1>1
<1>4. u = Put(t, i, f) /\ u \in Tables /\ u[i] = f /\ \A q \in Slots : q # i => u[q] = t[q]
    <2> HIDE DEF f
    <2> QED BY <1>3, PutAt
<1>5. j = lookup(u, m, mos)
    <2>1. lookup(Put(t, i, f), m, mos) = lookup(t, m, mos)
        <3> HIDE DEF f
        <3> QED BY <1>3, SameLookup
    <2> QED BY <1>3, <2>1
<1>6. Arg1 \in Decls /\ ~Agrees(Arg1, Arg1)
    BY ArgIs
<1> HIDE DEF j, f
<1>7. v = Put(t, j, x(t)) /\ decl1(u, m, mos, Arg1) = Put(u, j, x(u))
    <2>1. v = Put(t, j, x(t))
        <3>1. j \in Slots /\ j = lookup(t, m, mos) /\ Arg1 \in Decls /\ blklev = 1
            BY <1>2, <1>6
        <3> QED BY <3>1, DeclAt
    <2>2. decl1(u, m, mos, Arg1) = Put(u, j, x(u))
        <3>1. u \in Tables /\ j \in Slots /\ j = lookup(u, m, mos) /\ Arg1 \in Decls /\ blklev = 1
            BY <1>2, <1>4, <1>5, <1>6
        <3> QED BY <3>1, DeclAt
    <2> QED BY <2>1, <2>2
<1>8. /\ Redeclared(t, m, mos, Arg1) <=> Taken(t, j) /\ t[j].hblklev >= 1 /\ ~Agrees(t[j].d, Arg1)
      /\ Redeclared(u, m, mos, Arg1) <=> Taken(u, j) /\ u[j].hblklev >= 1 /\ ~Agrees(u[j].d, Arg1)
    <2>1. blklev = 1
        OBVIOUS
    <2>2. Redeclared(t, m, mos, Arg1) <=> Taken(t, j) /\ t[j].hblklev >= blklev /\ ~Agrees(t[j].d, Arg1)
        BY DEF Redeclared, RedeclaredAt, Taken, j
    <2>3. Redeclared(u, m, mos, Arg1) <=> Taken(u, j) /\ u[j].hblklev >= blklev /\ ~Agrees(u[j].d, Arg1)
        <3>1. Redeclared(u, m, mos, Arg1) <=> RedeclaredAt(u, lookup(u, m, mos), Arg1)
            BY DEF Redeclared
        <3>2. Redeclared(u, m, mos, Arg1) <=> RedeclaredAt(u, j, Arg1)
            BY <1>5, <3>1
        <3> QED BY <3>2, Zenon DEF RedeclaredAt, Taken
    <2> QED BY <2>1, <2>2, <2>3, Zenon
<1>9. Redeclared(t, m, mos, Arg1) => x(t) = t[j]
    <2>1. t[j].hblklev >= 1 => ~Outer(t[j], 1)
        <3>1. t[j].hblklev \in Nat
            BY <1>2, SlotFields DEF Tables
        <3> QED BY <3>1 DEF Outer
    <2> QED BY <1>8, <2>1
<1>10. Redeclared(t, m, mos, Arg1) => v = t
    <2> SUFFICES ASSUME Redeclared(t, m, mos, Arg1) PROVE v = t
        OBVIOUS
    <2>1. v = Put(t, j, t[j])
        BY <1>7, <1>9, Zenon
    <2>2. Put(t, j, t[j]) = t
        BY <1>2, PutSame
    <2> QED BY <2>1, <2>2
<1>11. CASE j # i
    <2>1. u[j] = t[j] /\ x(u) = x(t)
        BY <1>2, <1>4, <1>11 DEF Taken
    <2> DEFINE y == x(t)
    <2>2. y \in Slot
        <3>1. New(m, mos, Arg1, 1) \in Slot
            BY <1>6, NewIs
        <3>2. t[j] \in Slot
            BY <1>2 DEF Tables
        <3>3. Over(t[j], Arg1, 1) \in Slot /\ Redone(t[j], Arg1) \in Slot
            BY <1>6, <3>2, OverIs, RedoneIs
        <3> QED BY <3>1, <3>2, <3>3
    <2>3. v = Put(t, j, y) /\ decl1(u, m, mos, Arg1) = Put(Put(t, i, f), j, y)
        BY <1>4, <1>7, <2>1
    <2> HIDE DEF y, x
    <2>4. Put(Put(t, i, f), j, y) = Put(Put(t, j, y), i, f)
        BY <1>2, <1>11, PutSwap
    <2>5. v \in Tables /\ v[i] = t[i]
        BY <1>2, <1>11, <2>2, <2>3, PutAt
    <2>6. Filled(v[i], n, mos, d) = f
        BY <2>5 DEF f
    <2> QED BY <1>8, <1>10, <2>1, <2>3, <2>4, <2>5, <2>6 DEF Taken
<1>12. CASE j = i
    <2>1. m = n /\ Taken(t, i) /\ Taken(u, i)
        BY <1>1, <1>2, <1>4, <1>12, Constants DEF Is, Taken
    <2>2. CASE t[i] = Fresh(n, mos, Undeclared)
        <3>1. t[i].hblklev = 0 /\ f.hblklev = 0 /\ f = Fresh(n, mos, d) /\ Outer(t[i], 1) /\ Outer(u[i], 1)
            <4>1. t[i] # Over(Fresh(n, mos, Undeclared), Arg1, 1)
                <5>1. Undeclared \in Decls
                    BY Constants
                <5>2. Over(Fresh(n, mos, Undeclared), Arg1, 1) # Fresh(n, mos, Undeclared)
                    BY <5>1, FreshIs
                <5> QED BY <2>2, <5>2
            <4>2. t[i].hblklev = 0 /\ f = Fresh(n, mos, d) /\ f.hblklev = t[i].hblklev
                BY <1>1, <4>1, Zenon
            <4>3. 0 < 1
                OBVIOUS
            <4> QED BY <1>4, <4>2, <4>3, Zenon DEF Outer
        <3>2. v = Put(t, i, Over(Fresh(n, mos, Undeclared), Arg1, 1)) /\ decl1(u, m, mos, Arg1) = Put(u, i, Over(Fresh(n, mos, d), Arg1, 1))
            BY <1>4, <1>7, <1>12, <2>1, <2>2, <3>1
        <3> DEFINE o == Over(Fresh(n, mos, Undeclared), Arg1, 1)
        <3>3. o \in Slot /\ o # Fresh(n, mos, Undeclared)
            <4>1. Undeclared \in Decls
                BY Constants
            <4> QED BY <4>1, FreshIs
        <3>4. v = Put(t, i, o)
            BY <3>2
        <3>5. Waits(o, n, mos) /\ Filled(o, n, mos, d) = Over(Fresh(n, mos, d), Arg1, 1)
            BY <3>3 DEF Waits, Filled
        <3> HIDE DEF o, x
        <3>6. v \in Tables /\ v[i] = o
            BY <3>3, <3>4, PutAt
        <3>7. Put(u, i, Over(Fresh(n, mos, d), Arg1, 1)) = Put(v, i, Over(Fresh(n, mos, d), Arg1, 1))
            BY <1>4, <3>4, PutAgain
        <3>8. ~Redeclared(t, m, mos, Arg1) /\ ~Redeclared(u, m, mos, Arg1)
            <4>1. t[j].hblklev = 0 /\ u[j].hblklev = 0 /\ ~(0 >= 1)
                <5>1. ~(0 >= 1)
                    OBVIOUS
                <5> QED BY <1>4, <1>12, <3>1, <5>1, Zenon
            <4> QED BY <1>8, <4>1, Zenon
        <3> QED BY <3>2, <3>5, <3>6, <3>7, <3>8
    <2>3. CASE t[i] = Over(Fresh(n, mos, Undeclared), Arg1, 1)
        <3>1. t[i].hblklev = 1 /\ t[i].d = Arg1 /\ f = Over(Fresh(n, mos, d), Arg1, 1) /\ f.hblklev = 1
            <4>1. t[i] # Fresh(n, mos, Undeclared)
                <5>1. Undeclared \in Decls
                    BY Constants
                <5>2. Over(Fresh(n, mos, Undeclared), Arg1, 1) # Fresh(n, mos, Undeclared)
                    BY <5>1, FreshIs
                <5> QED BY <2>3, <5>2
            <4> QED BY <1>1, <4>1
        <3>2. f.d = Arg1
            BY <3>1, FreshIs
        <3>3. ~Outer(t[i], 1) /\ ~Outer(u[i], 1)
            <4>1. t[i].hblklev = 1 /\ u[i].hblklev = 1 /\ ~(1 < 1)
                <5>1. ~(1 < 1)
                    OBVIOUS
                <5> QED BY <1>4, <3>1, <5>1, Zenon
            <4> QED BY <4>1, Zenon DEF Outer
        <3>4. x(t) = t[i] /\ x(u) = u[i]
            BY <1>4, <1>6, <1>12, <2>1, <3>1, <3>2, <3>3
        <3>5. v = t /\ decl1(u, m, mos, Arg1) = u
            <4> HIDE DEF x
            <4>1. v = Put(t, i, t[i]) /\ decl1(u, m, mos, Arg1) = Put(u, i, u[i])
                BY <1>7, <1>12, <3>4, Zenon
            <4> QED BY <1>4, <4>1, PutSame
        <3>6. Redeclared(t, m, mos, Arg1) /\ Redeclared(u, m, mos, Arg1)
            <4>1. t[j].hblklev = 1 /\ u[j].hblklev = 1 /\ 1 >= 1 /\ t[j].d = Arg1 /\ u[j].d = Arg1
                <5>1. 1 >= 1
                    OBVIOUS
                <5> QED BY <1>4, <1>12, <3>1, <3>2, <5>1, Zenon
            <4> QED BY <1>6, <1>8, <1>12, <2>1, <4>1, Zenon
        <3> QED BY <1>4, <1>10, <3>5, <3>6 DEF f
    <2> QED BY <2>2, <2>3 DEF Waits
<1> QED BY <1>11, <1>12

\* A block may be opened over what the parameters are read into.
LEMMA OpenedBook == ASSUME NEW t, NEW sc, NEW lev \in {0, 1}, Book(t, sc, lev) PROVE Book(t, sc, 1)
<1>1. 0 + 1 \in 0..MaxDepth /\ 0 + 1 = 1
    BY Levels
<1>2. CASE lev = 0
    <2>1. Book(t, sc, 0 + 1)
        BY <1>1, <1>2, BookDeeper
    <2> QED BY <1>1, <2>1
<1>3. CASE lev = 1
    BY <1>3
<1> QED BY <1>2, <1>3

\* Where the name is looked up, in a table in which it is not declared.
LEMMA EnteringAt ==
    ASSUME NEW t, NEW sc, NEW n \in Names, NEW mos \in BOOLEAN, NEW lev \in {0, 1}, NEW i \in Slots, Entering(t, sc, n, mos, lev, i)
    PROVE  i = lookup(t, n, mos) /\ Room(t)
<1>1. PICK d \in FileDecls : TRUE
    BY DEF FileDecls
<1> DEFINE f == Filled(t[i], n, mos, d)
           u == Put(t, i, f)
           sc2 == Stores(sc, 0, n, mos, d)
<1>2. t \in Tables /\ Waits(t[i], n, mos) /\ Book(u, sc2, lev)
    BY <1>1 DEF Entering
<1>3. f \in Slot /\ f.name = t[i].name /\ f.mos = t[i].mos /\ f.name = n /\ f.mos = mos
    <2>1. d \in Decls
        BY <1>1, FileDeclIs
    <2>2. f \in Slot /\ f.name = n /\ f.mos = mos /\ t[i].name = n /\ t[i].mos = mos
        BY <1>2, <2>1, WaitsIs
    <2> HIDE DEF f
    <2> QED BY <2>2
<1> HIDE DEF f, sc2
<1>4. u[i] = f /\ \A q \in Slots : q # i => u[q] = t[q]
    BY <1>2, <1>3, PutAt
<1>5. lookup(u, n, mos) = lookup(t, n, mos)
    BY <1>2, <1>3, SameLookup
<1> HIDE DEF u
<1>6. Is(u, i, n, mos)
    BY <1>3, <1>4 DEF Is
<1>7. i = lookup(u, n, mos)
    BY <1>2, <1>6, LookupBook
<1>8. Room(t)
    <2>1. PICK q \in Slots : u[q].name = ""
        BY <1>2 DEF Book, Room
    <2>2. q # i
        BY <1>3, <1>4, <2>1, Constants
    <2> QED BY <1>4, <2>1, <2>2 DEF Room
<1> QED BY <1>5, <1>7, <1>8

LEMMA EnteringSlot ==
    ASSUME NEW t, NEW sc, NEW n \in Names, NEW mos \in BOOLEAN, NEW lev \in {0, 1}, NEW i \in Slots, Entering(t, sc, n, mos, lev, i),
           NEW d \in FileDecls
    PROVE  Book(Put(t, i, Filled(t[i], n, mos, d)), Stores(sc, 0, n, mos, d), 1) /\ i = lookup(t, n, mos) /\ Room(t)
<1> DEFINE u == Put(t, i, Filled(t[i], n, mos, d))
           sc2 == Stores(sc, 0, n, mos, d)
<1>1. Book(u, sc2, lev)
    BY DEF Entering
<1> HIDE DEF u, sc2
<1>2. Book(u, sc2, 1)
    BY <1>1, OpenedBook
<1>3. i = lookup(t, n, mos) /\ Room(t)
    BY EnteringAt
<1> QED BY <1>2, <1>3 DEF u, sc2

\* The name entered: it is the file's already, or what d declares it once read.
LEMMA NameEntered ==
    ASSUME NEW t, NEW sc, Book(t, sc, 0), NEW n \in Names, NEW mos \in BOOLEAN, NEW i, i = lookup(t, n, mos),
           NEW v, v = Enter(t, i, n, mos, 0), Room(v)
    PROVE  HasSlot(v, sc, n, mos, 0)
<1>1. t \in Tables /\ sc \in Scopes /\ 0 \in Nat /\ 0 \in 0..MaxDepth
    BY Levels DEF Book
<1>2. i \in Slots /\ (~Taken(t, i) => t[i] = Free /\ Absent(sc, n, mos))
    BY LookupAt
<1>3. CASE Taken(t, i)
    <2>1. v = t
        BY <1>1, <1>3, EnterIs
    <2>2. t[i].hblklev \in 0..0 /\ Entry(sc, t[i].hblklev, n, mos) = t[i].d /\ Declared(t[i].d, mos)
        BY <1>3, SlotMeans
    <2>3. t[i].hblklev = 0
        BY <2>2
    <2>4. Entry(sc, 0, n, mos) # Undeclared
        BY <2>2, <2>3, Zenon DEF Declared
    <2> QED BY <2>1, <2>4, Zenon DEF HasSlot, Known
<1>4. CASE ~Taken(t, i)
    <2> DEFINE f == Fresh(n, mos, Undeclared)
    <2>1. v = Put(t, i, f)
        <3>1. v = Put(t, i, New(n, mos, Undeclared, 0))
            BY <1>1, <1>4, EnterIs
        <3> QED BY <3>1, Zenon DEF Fresh
    <2>2. f \in Slot /\ f.name = n
        <3>1. Undeclared \in Decls
            BY Constants
        <3> QED BY <3>1, FreshIs
    <2>3. v \in Tables /\ v[i] = f
        <3> HIDE DEF f
        <3> QED BY <1>1, <1>2, <2>1, <2>2, PutAt
    <2>4. Waits(v[i], n, mos) /\ \A d : Filled(v[i], n, mos, d) = Fresh(n, mos, d)
        BY <2>3, Zenon DEF Waits, Filled
    <2>5. Entry(sc, 0, n, mos) = Undeclared
        BY <1>1, <1>2, <1>4 DEF Absent
    <2>6. ASSUME NEW d \in FileDecls PROVE Book(Put(v, i, Filled(v[i], n, mos, d)), Stores(sc, 0, n, mos, d), 0)
        <3> DEFINE g == Fresh(n, mos, d)
                   w == Put(t, i, g)
        <3>1. d \in Decls /\ Declared(d, mos)
            <4>1. d \in Decls /\ Plain(d)
                BY FileDeclIs
            <4> QED BY <4>1, Constants DEF Declared, Plain
        <3>2. g \in Slot /\ g.name = n
            BY <3>1, FreshIs
        <3>3. Put(v, i, g) = w
            <4> HIDE DEF f, g
            <4> QED BY <1>1, <1>2, <2>1, PutAgain
        <3>4. Room(w)
            <4>1. g.name = v[i].name
                BY <2>2, <2>3, <3>2
            <4> HIDE DEF g
            <4>2. Room(Put(v, i, g))
                BY <1>2, <2>3, <4>1, RoomStays
            <4> QED BY <3>3, <4>2
        <3>5. w = Put(t, i, New(n, mos, d, 0))
            BY Zenon DEF Fresh
        <3>6. Stored(sc, Stores(sc, 0, n, mos, d), 0, n, mos, d)
            BY <1>1, <3>1, StoresIs
        <3> HIDE DEF w
        <3>7. Book(w, Stores(sc, 0, n, mos, d), 0)
            BY <1>4, <3>1, <3>4, <3>5, <3>6, BookEnter
        <3> QED BY <2>4, <3>3, <3>7
    <2>7. Entering(v, sc, n, mos, 0, i)
        BY <1>1, <1>2, <2>3, <2>4, <2>5, <2>6, Zenon DEF Entering
    <2> QED BY <1>2, <2>7 DEF HasSlot
<1> QED BY <1>3, <1>4

LEMMA StoresSwap ==
    ASSUME NEW sc \in Scopes, NEW n \in Names, NEW m \in Names, NEW mos \in BOOLEAN, NEW d \in Decls, NEW e \in Decls
    PROVE  Stores(Stores(sc, 0, n, mos, d), 1, m, mos, e) = Stores(Stores(sc, 1, m, mos, e), 0, n, mos, d)
<1>1. 0 \in 0..MaxDepth /\ 1 \in 0..MaxDepth /\ 0 # 1
    BY Levels
<1>2. <<n, mos>> \in Keys /\ <<m, mos>> \in Keys
    BY DEF Keys
<1> DEFINE k == <<n, mos>>
           j == <<m, mos>>
<1>3. k \in Keys /\ j \in Keys
    BY <1>2
<1> HIDE DEF k, j
<1>4. [[sc EXCEPT ![0][k] = d] EXCEPT ![1][j] = e] = [[sc EXCEPT ![1][j] = e] EXCEPT ![0][k] = d]
    BY <1>1, <1>3 DEF Scopes
<1> QED BY <1>4 DEF Stores, k, j

\* decl1 leaves what it reports.
LEMMA RedeclaredStays ==
    ASSUME NEW t, NEW sc, Book(t, sc, blklev), NEW m \in Names, NEW mos \in BOOLEAN, NEW d \in Decls,
           NEW v, v = decl1(t, m, mos, d), Redeclared(t, m, mos, d)
    PROVE  v = t
<1> DEFINE i == lookup(t, m, mos)
<1>1. t \in Tables /\ blklev \in Nat
    BY Depths DEF Book
<1>2. Taken(t, i) /\ t[i].hblklev >= blklev /\ ~Agrees(t[i].d, d)
    BY DEF Redeclared, RedeclaredAt, Taken
<1>3. i = lookup(t, m, mos)
    OBVIOUS
<1> HIDE DEF i
<1>4. i \in Slots
    BY <1>3, LookupAt
<1>5. ~Outer(t[i], blklev)
    <2>1. t[i].hblklev \in Nat
        BY <1>1, <1>4, SlotFields DEF Tables
    <2> QED BY <1>1, <1>2, <2>1 DEF Outer
<1> QED BY <1>1, <1>2, <1>3, <1>4, <1>5, DeclTable

LEMMA OtherLevel ==
    ASSUME NEW sc \in Scopes, NEW l \in 0..MaxDepth, NEW k \in 0..MaxDepth, k # l, NEW n \in Names, NEW mos \in BOOLEAN, NEW d \in Decls,
           NEW m \in Names
    PROVE  Entry(Stores(sc, l, n, mos, d), k, m, mos) = Entry(sc, k, m, mos)
<1>1. <<n, mos>> \in Keys /\ <<m, mos>> \in Keys
    BY DEF Keys
<1> QED BY <1>1, Zenon DEF Entry, Stores, Scopes

\* A parameter read.
LEMMA ParameterEntered ==
    ASSUME NEW t, NEW sc \in Scopes, NEW n \in Names, NEW mos \in BOOLEAN, NEW lev \in {0, 1}, HasSlot(t, sc, n, mos, lev),
           blklev = 1, NEW m \in Names, NEW v, v = decl1(t, m, mos, Arg1), Room(v),
           NEW e, e = Entry(sc, 1, m, mos),
           NEW sc2, sc2 = IF Agrees(e, Arg1) THEN Stores(sc, 1, m, mos, Arg1) ELSE sc
    PROVE  /\ Redeclared(t, m, mos, Arg1) <=> ~Agrees(e, Arg1)
           /\ HasSlot(v, sc2, n, mos, 1)
           /\ ~Agrees(e, Arg1) => v = t
<1>1. Arg1 \in Decls /\ Plain(Arg1) /\ 0 \in 0..MaxDepth /\ 1 \in 0..MaxDepth /\ 0 # 1
    BY ArgIs, Levels
<1>2. sc2 \in Scopes /\ Entry(sc2, 0, n, mos) = Entry(sc, 0, n, mos)
    <2> DEFINE new == Stores(sc, 1, m, mos, Arg1)
    <2>1. Stored(sc, new, 1, m, mos, Arg1)
        BY <1>1, StoresIs
    <2>2. new \in Scopes
        BY <2>1 DEF Stored
    <2>3. Entry(new, 0, n, mos) = Entry(sc, 0, n, mos)
        BY <1>1, OtherLevel
    <2>4. sc2 = IF Agrees(e, Arg1) THEN new ELSE sc
        OBVIOUS
    <2> HIDE DEF new
    <2> QED BY <2>2, <2>3, <2>4
<1>3. CASE Known(t, sc, n, mos, lev)
    <2>1. Book(t, sc, 1)
        <3>1. Book(t, sc, lev)
            BY <1>3 DEF Known
        <3> QED BY <3>1, OpenedBook
    <2>2. Book(t, sc, blklev)
        BY <2>1
    <2>3. sc2 = IF Agrees(Entry(sc, blklev, m, mos), Arg1) THEN Stores(sc, blklev, m, mos, Arg1) ELSE sc
        OBVIOUS
    <2>4. Book(v, sc2, blklev) /\ (Redeclared(t, m, mos, Arg1) <=> ~Agrees(Entry(sc, blklev, m, mos), Arg1))
        BY <1>1, <2>2, <2>3, DeclBook
    <2>5. Book(v, sc2, 1) /\ (Redeclared(t, m, mos, Arg1) <=> ~Agrees(e, Arg1))
        BY <2>4
    <2>6. Redeclared(t, m, mos, Arg1) => v = t
        BY <1>1, <2>2, RedeclaredStays
    <2>7. Entry(sc2, 0, n, mos) # Undeclared
        BY <1>2, <1>3 DEF Known
    <2>8. HasSlot(v, sc2, n, mos, 1)
        BY <2>5, <2>7 DEF HasSlot, Known
    <2> QED BY <2>5, <2>6, <2>8
<1>4. ASSUME NEW i \in Slots, Entering(t, sc, n, mos, lev, i)
      PROVE  /\ Redeclared(t, m, mos, Arg1) <=> ~Agrees(e, Arg1)
             /\ HasSlot(v, sc2, n, mos, 1)
             /\ ~Agrees(e, Arg1) => v = t
    <2>1. t \in Tables /\ Waits(t[i], n, mos) /\ Entry(sc, 0, n, mos) = Undeclared
        BY <1>4 DEF Entering
    <2>2. ASSUME NEW d \in FileDecls
          PROVE  /\ v \in Tables /\ Waits(v[i], n, mos)
                 /\ Redeclared(t, m, mos, Arg1) <=> ~Agrees(e, Arg1)
                 /\ Redeclared(t, m, mos, Arg1) => v = t
                 /\ Book(Put(v, i, Filled(v[i], n, mos, d)), Stores(sc2, 0, n, mos, d), 1)
        <3> DEFINE u == Put(t, i, Filled(t[i], n, mos, d))
                   scd == Stores(sc, 0, n, mos, d)
                   w == Put(v, i, Filled(v[i], n, mos, d))
                   scw == IF Agrees(e, Arg1) THEN Stores(scd, 1, m, mos, Arg1) ELSE scd
        <3>1. d \in Decls
            BY FileDeclIs
        <3>2. Book(u, scd, 1) /\ i = lookup(t, n, mos) /\ Room(t)
            BY <1>4, EnteringSlot
        <3>3. /\ v \in Tables /\ Waits(v[i], n, mos)
              /\ decl1(u, m, mos, Arg1) = w
              /\ Redeclared(u, m, mos, Arg1) <=> Redeclared(t, m, mos, Arg1)
              /\ Redeclared(t, m, mos, Arg1) => v = t
            BY <2>1, <3>1, <3>2, ParameterCommutes
        <3>4. Room(w)
            <4> DEFINE f == Filled(v[i], n, mos, d)
            <4>1. f.name = v[i].name
                <5>1. v[i].name = n /\ f.name = n
                    BY <3>1, <3>3, WaitsIs
                <5> HIDE DEF f
                <5> QED BY <5>1
            <4> HIDE DEF f
            <4>2. Room(Put(v, i, f))
                BY <3>3, <4>1, RoomStays
            <4> QED BY <4>2 DEF f
        <3>5. Entry(scd, 1, m, mos) = e
            BY <1>1, <3>1, OtherLevel
        <3>6. Stores(sc2, 0, n, mos, d) = scw
            <4>1. Stores(Stores(sc, 0, n, mos, d), 1, m, mos, Arg1) = Stores(Stores(sc, 1, m, mos, Arg1), 0, n, mos, d)
                BY <1>1, <3>1, StoresSwap
            <4> QED BY <4>1, Zenon
        <3> HIDE DEF u, scd, w
        <3>7. w = decl1(u, m, mos, Arg1) /\ Book(u, scd, blklev)
              /\ scw = IF Agrees(Entry(scd, blklev, m, mos), Arg1) THEN Stores(scd, blklev, m, mos, Arg1) ELSE scd
            BY <3>2, <3>3, <3>5
        <3> HIDE DEF scw
        <3>8. Book(w, scw, blklev) /\ (Redeclared(u, m, mos, Arg1) <=> ~Agrees(Entry(scd, blklev, m, mos), Arg1))
            BY <1>1, <3>4, <3>7, DeclBook
        <3>9. Book(w, scw, 1) /\ (Redeclared(u, m, mos, Arg1) <=> ~Agrees(e, Arg1))
            BY <3>5, <3>8
        <3> QED BY <3>3, <3>6, <3>9 DEF w
    <2>3. \E d \in FileDecls : TRUE
        BY DEF FileDecls
    <2>4. /\ v \in Tables /\ Waits(v[i], n, mos)
          /\ Redeclared(t, m, mos, Arg1) <=> ~Agrees(e, Arg1)
          /\ Redeclared(t, m, mos, Arg1) => v = t
        BY <2>2, <2>3
    <2>5. Entering(v, sc2, n, mos, 1, i)
        BY <1>2, <2>1, <2>2, <2>4 DEF Entering
    <2> QED BY <2>4, <2>5 DEF HasSlot
<1> QED BY <1>3, <1>4 DEF HasSlot

\* The declarator read, its parameters before it: the name is declared, or a parameter hides it.
LEMMA DeclaratorEntered ==
    ASSUME NEW t, NEW sc \in Scopes, FunctionLabels(sc), NEW n \in Names, NEW mos \in BOOLEAN, NEW lev \in {0, 1}, HasSlot(t, sc, n, mos, lev),
           Entry(sc, 1, n, mos) \in {Undeclared, Arg1}, NEW d \in FileDecls, NEW i, i = lookup(t, n, mos), NEW v, v = SetIfAgrees(t, i, d),
           NEW sc2, sc2 = IF Agrees(Entry(sc, 0, n, mos), d) THEN Stores(sc, 0, n, mos, d) ELSE sc
    PROVE  /\ sc2 \in Scopes /\ FunctionLabels(sc2)
           /\ Book(v, sc2, lev) \/ (lev = 1 /\ v[i].d = Arg1)
<1>1. d \in Decls /\ ~d.lab /\ OfFunction(d, 0) /\ Declared(d, mos) /\ ~Agrees(Arg1, d) /\ 0 \in 0..MaxDepth
    <2>1. d \in Decls /\ Plain(d) /\ ~d.lab /\ OfFunction(d, 0)
        BY FileDeclIs
    <2>2. Declared(d, mos)
        BY <2>1, Constants DEF Declared, Plain
    <2> QED BY <2>1, <2>2, ArgIs, Levels
<1> DEFINE new == Stores(sc, 0, n, mos, d)
<1>2. new \in Scopes /\ FunctionLabels(new) /\ Stored(sc, new, 0, n, mos, d)
    <2>1. Stored(sc, new, 0, n, mos, d)
        BY <1>1, StoresIs
    <2> HIDE DEF new
    <2>2. new \in Scopes
        BY <2>1 DEF Stored
    <2>3. FunctionLabels(new)
        BY <1>1, <2>1, LabelsStored
    <2> QED BY <2>1, <2>2, <2>3
<1>3. sc2 = IF Agrees(Entry(sc, 0, n, mos), d) THEN new ELSE sc
    OBVIOUS
<1> HIDE DEF new
<1>4. sc2 \in Scopes /\ FunctionLabels(sc2)
    BY <1>2, <1>3
<1>5. CASE Known(t, sc, n, mos, lev)
    <2>1. Book(t, sc, lev) /\ Entry(sc, 0, n, mos) # Undeclared
        BY <1>5 DEF Known
    <2>2. Taken(t, i)
        BY <1>1, <2>1, LookupAt DEF Absent
    <2>3. /\ t[i].hblklev \in 0..lev /\ Entry(sc, t[i].hblklev, n, mos) = t[i].d /\ Declared(t[i].d, mos)
          /\ t \in Tables /\ i \in Slots /\ t[i] \in Slot
        BY <2>1, <2>2, SlotMeans, BookSlot
    <2>4. CASE t[i].hblklev = 0
        <3>1. t[i].d = Entry(sc, 0, n, mos)
            BY <2>3, <2>4
        <3>2. CASE Agrees(t[i].d, d)
            <4>1. v = SetAt(t, i, d)
                BY <3>2 DEF SetIfAgrees, SetAt
            <4>2. v = Put(t, i, Redone(t[i], d))
                BY <1>1, <2>3, <4>1, PutIs
            <4>3. sc2 = new /\ Stored(sc, sc2, t[i].hblklev, n, mos, d)
                BY <1>2, <1>3, <2>4, <3>1, <3>2
            <4>4. MayReplace(d, t[i])
                BY <1>1 DEF MayReplace
            <4>5. Book(v, sc2, lev)
                BY <1>1, <2>1, <2>2, <4>2, <4>3, <4>4, BookSet
            <4> QED BY <1>4, <4>5
        <3>3. CASE ~Agrees(t[i].d, d)
            <4>1. v = t /\ sc2 = sc
                BY <1>3, <3>1, <3>3 DEF SetIfAgrees
            <4> QED BY <1>4, <2>1, <4>1
        <3> QED BY <3>2, <3>3
    <2>5. CASE t[i].hblklev = 1
        <3>1. lev = 1
            BY <2>3, <2>5
        <3>2. t[i].d = Arg1
            <4>1. t[i].d = Entry(sc, 1, n, mos) /\ t[i].d # Undeclared
                BY <2>3, <2>5 DEF Declared
            <4> QED BY <4>1
        <3>3. v = t
            BY <1>1, <3>2 DEF SetIfAgrees
        <3> QED BY <1>4, <3>1, <3>2, <3>3
    <2>6. t[i].hblklev = 0 \/ t[i].hblklev = 1
        BY <2>3
    <2> QED BY <2>4, <2>5, <2>6
<1>6. ASSUME NEW q \in Slots, Entering(t, sc, n, mos, lev, q) PROVE Book(v, sc2, lev) \/ (lev = 1 /\ v[i].d = Arg1)
    <2>1. q = i
        BY <1>6, EnteringAt
    <2>2. t \in Tables /\ i \in Slots /\ Waits(t[i], n, mos) /\ Entry(sc, 0, n, mos) = Undeclared /\ Book(Put(t, i, Filled(t[i], n, mos, d)), new, lev)
        BY <1>6, <2>1 DEF Entering, new
    <2>3. sc2 = new
        BY <1>3, <2>2, AgreesUndeclared
    <2> DEFINE f == Filled(t[i], n, mos, d)
    <2>4. /\ t[i] \in Slot /\ f \in Slot /\ f.name = n /\ f.hblklev = t[i].hblklev
          /\ \/ t[i] = Fresh(n, mos, Undeclared) /\ t[i].d = Undeclared /\ f = Fresh(n, mos, d)
             \/ t[i].hblklev = 1 /\ t[i].d = Arg1
        BY <1>1, <2>2, WaitsIs
    <2>5. Book(Put(t, i, f), sc2, lev)
        BY <2>2, <2>3
    <2> HIDE DEF f
    <2>6. CASE t[i] = Fresh(n, mos, Undeclared) /\ t[i].d = Undeclared /\ f = Fresh(n, mos, d)
        <3>1. v = SetAt(t, i, d)
            BY <2>6, AgreesUndeclared DEF SetIfAgrees, SetAt
        <3>2. v = Put(t, i, Redone(t[i], d))
            BY <1>1, <2>2, <2>4, <3>1, PutIs
        <3>3. Redone(t[i], d) = f
            <4>1. Redone(Fresh(n, mos, Undeclared), d) = Fresh(n, mos, d)
                BY RedoneNew, Zenon DEF Fresh
            <4> QED BY <2>6, <4>1
        <3> QED BY <2>5, <3>2, <3>3
    <2>7. CASE t[i].hblklev = 1 /\ t[i].d = Arg1
        <3>1. v = t
            BY <1>1, <2>7 DEF SetIfAgrees
        <3>2. lev = 1
            <4> DEFINE u == Put(t, i, f)
            <4>1. u[i] = f
                BY <2>2, <2>4, PutAt
            <4>2. Book(u, sc2, lev)
                BY <2>5
            <4> HIDE DEF u
            <4>3. u \in Tables /\ lev \in 0..MaxDepth /\ Taken(u, i)
                BY <2>4, <4>1, <4>2, Constants DEF Book, Taken
            <4>4. Denotes(u[i], Column(sc2, u[i].name, u[i].mos), lev)
                BY <2>2, <4>2, <4>3 DEF Book
            <4>5. u[i].hblklev \in 0..lev
                BY <2>4, <4>1, <4>3, <4>4, BottomWithin
            <4>6. 1 \in 0..lev
                BY <2>4, <2>7, <4>1, <4>5
            <4> QED BY <4>6
        <3> QED BY <2>7, <3>1, <3>2
    <2> QED BY <2>4, <2>6, <2>7
<1> QED BY <1>4, <1>5, <1>6 DEF HasSlot
---------------------------------------------------------------------------
(* One action at a time.                                                   *)

LEMMA OverflowStep == ASSUME NEW n, NEW mos, Overflow(n, mos) PROVE IInv'
<1>1. Table'
    <2>1. hshtab' = [i \in Slots |-> Free] /\ scopes' = [l \in 0..MaxDepth |-> Nothing] /\ blklev' = 0
        BY DEF Overflow
    <2>2. Book(hshtab', scopes', 0) /\ FunctionLabels(scopes')
        BY <2>1, EmptyBook
    <2> QED BY <2>1, <2>2 DEF Table
<1>2. ReadingAt' /\ HeadRead'
    BY DEF Overflow, ReadingAt, HeadRead
<1>3. Storage'
    <2>1. autolen' = 0 /\ maxauto' = 0 /\ regvar' = 0 /\ isn' = 0 /\ saved' = <<>> /\ nread' = 0
        BY Zenon DEF Overflow
    <2> QED BY <2>1 DEF Storage
<1> QED BY <1>1, <1>2, <1>3 DEF IInv

LEMMA ExtdefStep == ASSUME IInv, NEW n \in Names, NEW class \in {"EXTERN", "TYPEDEF"}, extdef(n, class, "int") PROVE IInv'
<1> DEFINE d == D(class, "int", 0)
<1>1. class \in Classes /\ class # "" /\ "int" \in Types /\ 0 \in Int
    <2>1. {"EXTERN", "TYPEDEF"} \subseteq Classes /\ "" \notin {"EXTERN", "TYPEDEF"} /\ "int" \in Types /\ 0 \in Int
        BY DEF Classes, Types
    <2> QED BY <2>1
<1>2. d \in Decls /\ Plain(d)
    BY <1>1, DIs
<1>3. where = "ext" /\ Reads(decl1(hshtab, n, FALSE, d)) /\ DeclaresHere(n, FALSE, d)
      /\ UNCHANGED <<blklev, autolen, maxauto, regvar, isn, where, paraml, saved>>
    BY Zenon DEF extdef
<1> HIDE DEF d
<1>4. Book(hshtab', scopes', blklev) /\ FunctionLabels(scopes') /\ nread' = nread + 1
    BY <1>2, <1>3, DeclRead DEF IInv, Table
<1>5. Table'
    BY <1>3, <1>4 DEF Table
<1>6. ReadingAt' /\ HeadRead'
    BY <1>3 DEF IInv, ReadingAt, HeadRead
<1>7. Storage'
    BY <1>3, <1>4 DEF IInv, Storage
<1> QED BY <1>5, <1>6, <1>7 DEF IInv

\* A declarator's name entered: no parameter of it is read yet.
LEMMA FunctionStep == ASSUME IInv, NEW n \in Names, Function(n) PROVE Naming'
<1>1. /\ where = "ext" /\ Reads(Entered(hshtab, n, FALSE, blklev)) /\ where' = "params" /\ blklev' = blklev + 1 /\ defsym' = n /\ paraml' = <<>>
      /\ UNCHANGED <<autolen, maxauto, regvar, isn, saved, scopes>>
    BY Zenon DEF Function
<1>2. blklev = 0 /\ Book(hshtab, scopes, 0) /\ FunctionLabels(scopes) /\ scopes \in Scopes
    <2>1. blklev = 0
        BY <1>1 DEF IInv, ReadingAt
    <2> QED BY <2>1 DEF IInv, Table, Book
<1>3. hshtab' = Entered(hshtab, n, FALSE, 0) /\ Room(hshtab') /\ nread' = nread + 1
    <2>1. Reads(Entered(hshtab, n, FALSE, 0))
        BY <1>1, <1>2
    <2> QED BY <2>1, UsedRoom, Zenon DEF Reads
<1>4. Storage'
    BY <1>1, <1>3 DEF IInv, Storage
<1>5. Parameters' /\ ParamLevel' = 0
    BY <1>1 DEF Parameters, ParamLevel
<1>6. OnlyParameters'
    <2>1. ASSUME NEW m \in Names, NEW mos \in BOOLEAN PROVE Entry(scopes, 1, m, mos) = Undeclared
        <3>1. 1 \in 0..MaxDepth /\ 1 > 0
            BY Levels
        <3> QED BY <1>2, <3>1, Unopened
    <2>2. \A m \in Names : Entry(scopes, 1, m, FALSE) = Undeclared
        BY <2>1
    <2>3. scopes' = scopes
        BY <1>1
    <2> QED BY <2>2, <2>3 DEF OnlyParameters, Entry
<1>7. HasSlot(hshtab', scopes', n, FALSE, 0)
    <2>1. ASSUME NEW mos \in BOOLEAN, hshtab' = Entered(hshtab, n, mos, 0) PROVE HasSlot(hshtab', scopes, n, mos, 0)
        <3> DEFINE i == lookup(hshtab, n, mos)
        <3>1. hshtab' = Enter(hshtab, i, n, mos, 0)
            BY <2>1 DEF Entered
        <3> HIDE DEF i
        <3> QED BY <1>2, <1>3, <3>1, NameEntered DEF i
    <2>2. HasSlot(hshtab', scopes, n, FALSE, 0)
        BY <1>3, <2>1
    <2>3. scopes' = scopes
        BY <1>1
    <2> QED BY <2>2, <2>3
<1>8. blklev' = 1
    BY <1>1, <1>2
<1> QED BY <1>1, <1>2, <1>4, <1>5, <1>6, <1>7, <1>8, Zenon DEF Naming

LEMMA ParameterStep == ASSUME Naming, NEW n \in Names, Parameter(n) PROVE Naming'
<1> DEFINE e == Entry(scopes, 1, n, FALSE)
           new == Stores(scopes, 1, n, FALSE, Arg1)
<1>1. /\ where = "params" /\ Reads(decl1(hshtab, n, FALSE, Arg1)) /\ DeclaresHere(n, FALSE, Arg1)
      /\ paraml' = IF Redeclared(hshtab, n, FALSE, Arg1) THEN paraml ELSE Append(paraml, n)
      /\ UNCHANGED <<blklev, autolen, maxauto, regvar, isn, where, defsym, saved>>
    BY Zenon DEF Parameter, Arg1
<1>2. blklev = 1 /\ Parameters /\ OnlyParameters /\ scopes \in Scopes /\ FunctionLabels(scopes) /\ defsym \in Names
    BY DEF Naming
<1>3. HasSlot(hshtab, scopes, defsym, FALSE, ParamLevel)
    BY Zenon DEF Naming
<1>4. Arg1 \in Decls /\ Plain(Arg1) /\ Arg1 # Undeclared /\ Arg1.hclass = "ARG1" /\ ~Agrees(Arg1, Arg1) /\ ParamLevel \in {0, 1}
    BY ArgIs DEF ParamLevel
<1>5. e \in {Undeclared, Arg1} /\ \A k \in 1..Len(paraml) : Entry(scopes, 1, paraml[k], FALSE) = Arg1
    <2>1. \A k \in 1..Len(paraml) : paraml[k] \in Names /\ Entry(scopes, 1, paraml[k], FALSE) # Undeclared
        BY <1>2, ParamIs DEF Parameters
    <2> QED BY <1>2, <2>1 DEF OnlyParameters
<1>6. hshtab' = decl1(hshtab, n, FALSE, Arg1) /\ Room(hshtab') /\ nread' = nread + 1
    BY <1>1, UsedRoom, Zenon DEF Reads
<1>7. scopes' = IF Agrees(e, Arg1) THEN new ELSE scopes
    <2>1. IF Agrees(scopes[1][<<n, FALSE>>], Arg1) THEN Declares(1, n, FALSE, Arg1) ELSE UNCHANGED scopes
        BY <1>1, <1>2 DEF DeclaresHere
    <2> QED BY <2>1, Zenon DEF Declares, Stores, Entry
<1>8. /\ Redeclared(hshtab, n, FALSE, Arg1) <=> ~Agrees(e, Arg1)
      /\ HasSlot(hshtab', scopes', defsym, FALSE, 1)
      /\ ~Agrees(e, Arg1) => hshtab' = hshtab
    <2>1. ASSUME NEW mos \in BOOLEAN, HasSlot(hshtab, scopes, defsym, mos, ParamLevel), hshtab' = decl1(hshtab, n, mos, Arg1),
                 NEW x, x = Entry(scopes, 1, n, mos), scopes' = IF Agrees(x, Arg1) THEN Stores(scopes, 1, n, mos, Arg1) ELSE scopes
          PROVE  /\ Redeclared(hshtab, n, mos, Arg1) <=> ~Agrees(x, Arg1)
                 /\ HasSlot(hshtab', scopes', defsym, mos, 1)
                 /\ ~Agrees(x, Arg1) => hshtab' = hshtab
        <3>1. Room(hshtab')
            BY <1>6
        <3> QED BY <1>2, <1>4, <2>1, <3>1, ParameterEntered
    <2>2. HasSlot(hshtab, scopes, defsym, FALSE, ParamLevel) /\ hshtab' = decl1(hshtab, n, FALSE, Arg1)
          /\ scopes' = IF Agrees(e, Arg1) THEN Stores(scopes, 1, n, FALSE, Arg1) ELSE scopes
        BY <1>6, <1>7, <1>3
    <2> QED BY <2>1, <2>2
<1> HIDE DEF e, new
<1>9. Storage'
    BY <1>1, <1>6 DEF Naming, Storage
<1>10. CASE ~Agrees(e, Arg1)
    <2>1. paraml' = paraml /\ scopes' = scopes /\ hshtab' = hshtab
        BY <1>1, <1>7, <1>8, <1>10
    <2> QED BY <1>1, <1>2, <1>9, <2>1 DEF Naming, Parameters, OnlyParameters, Entry, ParamLevel
<1>11. CASE Agrees(e, Arg1)
    <2>1. paraml' = Append(paraml, n) /\ scopes' = new /\ e = Undeclared
        BY <1>1, <1>4, <1>5, <1>7, <1>8, <1>11
    <2>2. Stored(scopes, scopes', 1, n, FALSE, Arg1) /\ scopes' \in Scopes
        <3>1. Stored(scopes, scopes', 1, n, FALSE, Arg1)
            BY <1>2, <1>4, <2>1, Levels, StoresIs DEF new
        <3> QED BY <3>1 DEF Stored
    <2>3. FunctionLabels(scopes')
        BY <1>2, <1>4, <2>2, Levels, LabelsStored DEF OfFunction, Plain
    <2>4. Entry(scopes', 1, n, FALSE) = Arg1
        BY <1>2, <1>4, <2>1, StoresEntry, Levels DEF new
    <2>5. ASSUME NEW m \in Names, m # n PROVE Entry(scopes', 1, m, FALSE) = Entry(scopes, 1, m, FALSE)
        <3>1. <<m, FALSE>> # <<n, FALSE>> /\ <<m, FALSE>> \in Keys
            BY <2>5 DEF Keys
        <3> QED BY <2>2, <3>1, Levels, Zenon DEF Stored, Others, Entry
    <2>6. OnlyParameters'
        <3>1. \A m \in Names : Entry(scopes', 1, m, FALSE) \in {Undeclared, Arg1}
            BY <1>2, <2>4, <2>5 DEF OnlyParameters
        <3> QED BY <3>1 DEF OnlyParameters, Entry
    <2>7. ASSUME NEW k \in 1..Len(paraml) PROVE paraml[k] # n /\ Entry(scopes', 1, paraml[k], FALSE) = Arg1
        <3>1. paraml[k] # n
            BY <1>4, <1>5, <2>1 DEF e
        <3>2. paraml[k] \in Names
            BY <1>2, ParamIs
        <3> QED BY <1>5, <2>5, <3>1, <3>2
    <2>8. /\ Len(paraml) \in Nat /\ paraml \in Seq(Names) /\ paraml' \in Seq(Names) /\ Len(paraml') = Len(paraml) + 1
          /\ paraml'[Len(paraml) + 1] = n /\ \A k \in 1..Len(paraml) : paraml'[k] = paraml[k]
        BY <1>2, <2>1 DEF Parameters
    <2>9. \A k \in 1..Len(paraml') : k \in 1..Len(paraml) \/ k = Len(paraml) + 1
        BY <2>8
    <2>10. \A k \in 1..Len(paraml') : Entry(scopes', 1, paraml'[k], FALSE) # Undeclared
        BY <1>4, <2>4, <2>7, <2>8, <2>9
    <2>11. ASSUME NEW k \in 1..Len(paraml'), NEW m \in 1..Len(paraml'), paraml'[k] = paraml'[m] PROVE k = m
        <3>1. CASE k \in 1..Len(paraml) /\ m \in 1..Len(paraml)
            BY <1>2, <2>8, <2>11, <3>1 DEF Parameters
        <3>2. CASE k \in 1..Len(paraml) /\ m = Len(paraml) + 1
            BY <2>7, <2>8, <2>11, <3>2
        <3>3. CASE k = Len(paraml) + 1 /\ m \in 1..Len(paraml)
            BY <2>7, <2>8, <2>11, <3>3
        <3> QED BY <2>9, <2>11, <3>1, <3>2, <3>3
    <2>12. Parameters'
        BY <2>8, <2>10, <2>11 DEF Parameters, Entry
    <2>13. ParamLevel' = 1
        <3>1. paraml' # <<>>
            BY <2>8
        <3> QED BY <3>1 DEF ParamLevel
    <2> QED BY <1>1, <1>2, <1>8, <1>9, <2>2, <2>3, <2>6, <2>12, <2>13, Zenon DEF Naming
<1> QED BY <1>10, <1>11

\* The declarator read: the table and the scopes, or a parameter in the way.
OneStored(d) == scopes' = scopes \/ scopes' = Stores(scopes, 0, defsym, FALSE, d)
ParameterStays == hshtab'[lookup(hshtab, defsym, FALSE)].d = Arg1
LEMMA DeclaratorStep ==
    ASSUME Naming, NEW d \in FileDecls, Declarator(d)
    PROVE  /\ scopes' \in Scopes /\ FunctionLabels(scopes') /\ OneStored(d)
           /\ Book(hshtab', scopes', ParamLevel) \/ (ParamLevel = 1 /\ ParameterStays)
<1>1. /\ Entry(scopes, 1, defsym, FALSE) \in {Undeclared, Arg1} /\ scopes \in Scopes /\ FunctionLabels(scopes) /\ defsym \in Names
      /\ HasSlot(hshtab, scopes, defsym, FALSE, ParamLevel) /\ ParamLevel \in {0, 1}
    BY DEF Naming, OnlyParameters, ParamLevel
<1>2. /\ hshtab' = SetIfAgrees(hshtab, lookup(hshtab, defsym, FALSE), d)
      /\ scopes' = IF Agrees(Entry(scopes, 0, defsym, FALSE), d) THEN Stores(scopes, 0, defsym, FALSE, d) ELSE scopes
    <2>1. IF Agrees(scopes[0][<<defsym, FALSE>>], d) THEN Declares(0, defsym, FALSE, d) ELSE UNCHANGED scopes
        BY Zenon DEF Declarator
    <2>2. hshtab' = SetIfAgrees(hshtab, lookup(hshtab, defsym, FALSE), d)
        BY Zenon DEF Declarator
    <2> QED BY <2>1, <2>2, Zenon DEF Declares, Stores, Entry
<1>3. ASSUME NEW mos \in BOOLEAN, HasSlot(hshtab, scopes, defsym, mos, ParamLevel), Entry(scopes, 1, defsym, mos) \in {Undeclared, Arg1},
             NEW i, i = lookup(hshtab, defsym, mos), hshtab' = SetIfAgrees(hshtab, i, d),
             scopes' = IF Agrees(Entry(scopes, 0, defsym, mos), d) THEN Stores(scopes, 0, defsym, mos, d) ELSE scopes
      PROVE  /\ scopes' \in Scopes /\ FunctionLabels(scopes')
             /\ Book(hshtab', scopes', ParamLevel) \/ (ParamLevel = 1 /\ hshtab'[i].d = Arg1)
    BY <1>1, <1>3, DeclaratorEntered
<1>4. /\ scopes' \in Scopes /\ FunctionLabels(scopes')
      /\ Book(hshtab', scopes', ParamLevel) \/ (ParamLevel = 1 /\ hshtab'[lookup(hshtab, defsym, FALSE)].d = Arg1)
    BY <1>1, <1>2, <1>3
<1>5. OneStored(d)
    BY <1>2, Zenon DEF OneStored
<1> QED BY <1>4, <1>5 DEF ParameterStays

\* Only the name's entry at the file's level is new.
LEMMA ParametersKept ==
    ASSUME Naming, NEW d \in FileDecls, OneStored(d), paraml' = paraml
    PROVE  Parameters'
<1>1. scopes \in Scopes /\ defsym \in Names /\ d \in Decls /\ Parameters /\ 0 \in 0..MaxDepth /\ 1 \in 0..MaxDepth /\ 1 # 0
    <2>1. scopes \in Scopes /\ defsym \in Names /\ Parameters
        BY Zenon DEF Naming
    <2>2. d \in Decls
        BY FileDeclIs
    <2>3. 0 \in 0..MaxDepth /\ 1 \in 0..MaxDepth /\ 1 # 0
        BY Levels
    <2> QED BY <2>1, <2>2, <2>3, Zenon
<1>2. ASSUME NEW m \in Names, NEW mos \in BOOLEAN, scopes' = scopes \/ scopes' = Stores(scopes, 0, defsym, mos, d)
      PROVE  Entry(scopes', 1, m, mos) = Entry(scopes, 1, m, mos)
    BY <1>1, <1>2, OtherLevel
<1>3. \A m \in Names : Entry(scopes', 1, m, FALSE) = Entry(scopes, 1, m, FALSE)
    BY <1>2 DEF OneStored
<1>4. \A k \in 1..Len(paraml) : paraml[k] \in Names
    BY <1>1, ParamIs
<1>5. \A k \in 1..Len(paraml) : Entry(scopes', 1, paraml[k], FALSE) # Undeclared
    BY <1>1, <1>3, <1>4 DEF Parameters
<1> QED BY <1>1, <1>5 DEF Parameters, Entry

LEMMA CfuncStep == ASSUME Naming, cfunc PROVE IInv'
<1> DEFINE d == D("EXTERN", "fn", 0)
<1>1. /\ Declarator(d) /\ hshtab'[lookup(hshtab, defsym, FALSE)].d.htype = "fn"
      /\ where' = "args" /\ isn' = isn + 3 /\ regvar' = 5 /\ autolen' = STAUTO /\ maxauto' = STAUTO
      /\ UNCHANGED <<blklev, paraml, saved, nread>>
    BY Zenon DEF cfunc
<1>2. d \in FileDecls
    BY DEF FileDecls
<1> HIDE DEF d
<1>3. /\ scopes' \in Scopes /\ FunctionLabels(scopes') /\ OneStored(d)
      /\ Book(hshtab', scopes', ParamLevel) \/ (ParamLevel = 1 /\ ParameterStays)
    BY <1>1, <1>2, DeclaratorStep
<1>4. Book(hshtab', scopes', ParamLevel)
    <2>1. Arg1.htype # "fn"
        BY ArgIs
    <2>2. ~ParameterStays
        BY <1>1, <2>1 DEF ParameterStays
    <2> QED BY <1>3, <2>2
<1>5. Book(hshtab', scopes', 1)
    <2>1. ParamLevel \in {0, 1}
        BY DEF ParamLevel
    <2> QED BY <1>4, <2>1, OpenedBook
<1>6. Table' /\ blklev' = 1
    <2>1. blklev' = 1
        <3>1. blklev = 1
            BY Zenon DEF Naming
        <3> QED BY <1>1, <3>1
    <2> QED BY <1>3, <1>5, <2>1 DEF Table
<1>7. ReadingAt'
    BY <1>1, <1>6 DEF ReadingAt
<1>8. Storage'
    BY <1>1 DEF Naming, Storage, STAUTO
<1>9. HeadRead'
    <2>1. Parameters'
        BY <1>1, <1>2, <1>3, ParametersKept
    <2> QED BY <2>1 DEF HeadRead
<1> QED BY <1>6, <1>7, <1>8, <1>9 DEF IInv

LEMMA NoBodyStep ==
    ASSUME Naming, NEW class \in {"EXTERN", "TYPEDEF"}, NEW type \in {"int", "fn"}, NoBody(class, type), ~stray'
    PROVE  IInv'
<1> DEFINE d == D(class, type, 0)
<1>1. /\ Declarator(d) /\ where' = "ext" /\ blklev' = blklev - 1 /\ stray' = (stray \/ paraml # <<>>)
      /\ UNCHANGED <<autolen, maxauto, regvar, isn, saved, nread>>
    BY Zenon DEF NoBody
<1>2. d \in FileDecls
    BY DEF FileDecls
<1> HIDE DEF d
<1>3. ParamLevel = 0
    BY <1>1 DEF ParamLevel
<1>4. Book(hshtab', scopes', 0) /\ FunctionLabels(scopes')
    BY <1>1, <1>2, <1>3, DeclaratorStep
<1>5. Table' /\ blklev' = 0
    BY <1>1, <1>4 DEF Naming, Table
<1>6. ReadingAt' /\ HeadRead'
    BY <1>1, <1>5 DEF ReadingAt, HeadRead
<1>7. Storage'
    BY <1>1 DEF Naming, Storage
<1> QED BY <1>5, <1>6, <1>7 DEF IInv

LEMMA ArgumentStep ==
    ASSUME IInv, NEW n \in Names, NEW class \in {"ARG", "AREG"}, NEW type \in {"int", "double"}, Argument(n, class, type)
    PROVE  IInv'
<1> DEFINE d == D(class, type, 0)
<1>1. class \in Classes /\ class # "" /\ type \in Types /\ 0 \in Int
    <2>1. {"ARG", "AREG"} \subseteq Classes /\ "" \notin {"ARG", "AREG"} /\ {"int", "double"} \subseteq Types /\ 0 \in Int
        BY DEF Classes, Types
    <2> QED BY <2>1
<1>2. d \in Decls /\ Plain(d) /\ d.hclass # ""
    BY <1>1, DIs
<1>3. /\ where = "args" /\ Reads(decl1(hshtab, n, FALSE, d)) /\ DeclaresHere(n, FALSE, d)
      /\ UNCHANGED <<blklev, autolen, maxauto, regvar, isn, where, paraml, saved>>
    BY Zenon DEF Argument
<1>4. blklev = 1 /\ Parameters /\ scopes \in Scopes
    BY <1>3 DEF IInv, ReadingAt, HeadRead, Table, Book
<1> HIDE DEF d
<1>5. /\ Book(hshtab', scopes', blklev) /\ FunctionLabels(scopes') /\ nread' = nread + 1
      /\ scopes' = IF Agrees(Entry(scopes, blklev, n, FALSE), d) THEN Stores(scopes, blklev, n, FALSE, d) ELSE scopes
    BY <1>2, <1>3, DeclRead DEF IInv, Table
<1>6. Table'
    BY <1>3, <1>5 DEF Table
<1>7. scopes' = scopes \/ scopes' = Stores(scopes, 1, n, FALSE, d)
    BY <1>4, <1>5, Zenon
<1>8. Parameters'
    BY <1>2, <1>3, <1>4, <1>7, ParametersStay
<1>9. ReadingAt' /\ HeadRead'
    BY <1>3, <1>8 DEF IInv, ReadingAt, HeadRead
<1>10. Storage'
    BY <1>3, <1>5 DEF IInv, Storage
<1> QED BY <1>6, <1>9, <1>10 DEF IInv

LEMMA FuncheadStep == ASSUME IInv, funchead PROVE IInv'
<1>1. /\ where = "args" /\ where' = "body" /\ saved' = <<[autolen |-> autolen, regvar |-> regvar']>>
      /\ UNCHANGED <<blklev, autolen, maxauto, isn, paraml, nread>>
    BY DEF funchead
<1>2. blklev = 1 /\ Parameters /\ regvar \in Int /\ Book(hshtab, scopes, 1) /\ FunctionLabels(scopes)
    BY <1>1 DEF IInv, ReadingAt, HeadRead, Storage, Table
<1>3. Book(hshtab', scopes', 1) /\ FunctionLabels(scopes') /\ regvar' \in Int
    BY <1>2, HeadStep
<1>4. Table'
    BY <1>1, <1>2, <1>3 DEF Table
<1>5. Len(saved') = 1 /\ saved' \in Seq([autolen : Int, regvar : Int])
    BY <1>1, <1>3 DEF IInv, Storage
<1>6. ReadingAt' /\ HeadRead'
    BY <1>1, <1>2, <1>5 DEF ReadingAt, HeadRead
<1>7. Storage'
    BY <1>1, <1>3, <1>5 DEF IInv, Storage
<1> QED BY <1>4, <1>6, <1>7 DEF IInv

LEMMA DeclarationStep ==
    ASSUME IInv, NEW n \in Names, NEW skw \in {"AUTO", "REG", "STATIC", "EXTERN", "TYPEDEF"},
           NEW type \in {"char", "int", "double", "fn"}, Declaration(n, skw, type)
    PROVE  IInv'
<1> DEFINE class == IF type = "fn" THEN "EXTERN" ELSE IF skw = "REG" /\ ~Suits(type) THEN "AUTO" ELSE skw
           off == CASE class = "AUTO" -> autolen - rlength(type) [] class = "STATIC" -> isn
                    [] class = "REG" -> regvar - 1 [] OTHER -> 0
           d == D(class, type, off)
           ok == ~Redeclared(hshtab, n, FALSE, d)
<1>1. /\ where = "body" /\ Reads(decl1(hshtab, n, FALSE, d)) /\ DeclaresHere(n, FALSE, d)
      /\ autolen' = IF ok /\ class = "AUTO" THEN autolen - rlength(type) ELSE autolen
      /\ maxauto' = IF autolen' < maxauto THEN autolen' ELSE maxauto
      /\ regvar' = IF ok /\ class = "REG" THEN regvar - 1 ELSE regvar
      /\ isn' = IF ok /\ class = "STATIC" THEN isn + 1 ELSE isn
      /\ UNCHANGED <<blklev, where, paraml, saved>>
    BY Zenon DEF Declaration
<1>2. class \in {"AUTO", "REG", "STATIC", "EXTERN", "TYPEDEF"}
    OBVIOUS
<1>3. {"AUTO", "REG", "STATIC", "EXTERN", "TYPEDEF"} \subseteq Classes /\ "" \notin {"AUTO", "REG", "STATIC", "EXTERN", "TYPEDEF"}
      /\ {"char", "int", "double", "fn"} \subseteq Types
    BY DEF Classes, Types
<1>4. rlength(type) \in Int /\ autolen \in Int /\ maxauto \in Int /\ isn \in Int /\ regvar \in Int
    BY LengthInt DEF IInv, Storage
<1> HIDE DEF class, ok
<1>5. off \in Int
    BY <1>2, <1>4
<1> HIDE DEF off
<1>6. d \in Decls /\ Plain(d)
    BY <1>2, <1>3, <1>5, DIs
<1> HIDE DEF d
<1>7. Book(hshtab', scopes', blklev) /\ FunctionLabels(scopes') /\ nread' = nread + 1
    BY <1>1, <1>6, DeclRead DEF IInv, Table
<1>8. Table'
    BY <1>1, <1>7 DEF Table
<1>9. ReadingAt' /\ HeadRead'
    BY <1>1 DEF IInv, ReadingAt, HeadRead
<1>10. autolen' \in Int /\ maxauto' \in Int /\ regvar' \in Int /\ isn' \in Int
    BY <1>1, <1>4
<1>11. Storage'
    BY <1>1, <1>7, <1>10 DEF IInv, Storage
<1> QED BY <1>8, <1>9, <1>11 DEF IInv

LEMMA StrdecStep == ASSUME IInv, NEW n \in Names, NEW brace \in BOOLEAN, strdec(n, brace) PROVE IInv'
<1>1. Book(hshtab', scopes', blklev) /\ FunctionLabels(scopes')
    BY TagStep DEF IInv, Table
<1>2. /\ where = "body" /\ where' \in {"members", "body"} /\ nread' = nread + 1
      /\ UNCHANGED <<blklev, autolen, maxauto, regvar, isn, paraml, saved>>
    BY DEF strdec, Reads
<1>3. Table'
    BY <1>1, <1>2 DEF Table
<1>4. ReadingAt' /\ HeadRead'
    BY <1>2 DEF IInv, ReadingAt, HeadRead
<1>5. Storage'
    BY <1>2 DEF IInv, Storage
<1> QED BY <1>3, <1>4, <1>5 DEF IInv

LEMMA MemberStep == ASSUME IInv, NEW n \in Names, Member(n) PROVE IInv'
<1> DEFINE d == D("MOS", "int", 0)
<1>1. "MOS" \in Classes /\ "int" \in Types /\ 0 \in Int
    BY DEF Classes, Types
<1>2. d \in Decls /\ Plain(d)
    BY <1>1, DIs
<1>3. /\ where = "members" /\ where' = "body" /\ Reads(decl1(hshtab, n, TRUE, d)) /\ DeclaresHere(n, TRUE, d)
      /\ UNCHANGED <<blklev, autolen, maxauto, regvar, isn, paraml, saved>>
    BY Zenon DEF Member
<1> HIDE DEF d
<1>4. Book(hshtab', scopes', blklev) /\ FunctionLabels(scopes') /\ nread' = nread + 1
    BY <1>2, <1>3, DeclRead DEF IInv, Table
<1>5. Table'
    BY <1>3, <1>4 DEF Table
<1>6. ReadingAt' /\ HeadRead'
    BY <1>3 DEF IInv, ReadingAt, HeadRead
<1>7. Storage'
    BY <1>3, <1>4 DEF IInv, Storage
<1> QED BY <1>5, <1>6, <1>7 DEF IInv

LEMMA NameStep == ASSUME IInv, NEW n \in Names, NEW called \in BOOLEAN, Mention(n, called) PROVE IInv'
<1>1. Book(hshtab', scopes', blklev) /\ FunctionLabels(scopes')
    BY MentionStep DEF IInv, Table
<1>2. /\ where = "body" /\ nread' = nread + 1
      /\ UNCHANGED <<blklev, autolen, maxauto, regvar, isn, where, paraml, saved>>
    BY DEF Mention, Reads
<1>3. Table'
    BY <1>1, <1>2 DEF Table
<1>4. ReadingAt' /\ HeadRead'
    BY <1>2 DEF IInv, ReadingAt, HeadRead
<1>5. Storage'
    BY <1>2 DEF IInv, Storage
<1> QED BY <1>3, <1>4, <1>5 DEF IInv

LEMMA LabelReadStep == ASSUME IInv, NEW n \in Names, simplegoto(n) \/ Labelled(n) PROVE IInv'
<1>1. /\ where = "body" /\ nread' = nread + 1
      /\ UNCHANGED <<blklev, autolen, maxauto, regvar, where, paraml, saved>>
    BY DEF simplegoto, Goto, Labelled, LabelAt, LabelIs, Reads
<1>2. blklev > 0 /\ isn \in Int
    BY <1>1 DEF IInv, ReadingAt, Storage
<1>3. Book(hshtab', scopes', blklev) /\ FunctionLabels(scopes') /\ isn' \in Int
    BY <1>2, GotoStep, LabelStep DEF IInv, Table
<1>4. Table'
    BY <1>1, <1>3 DEF Table
<1>5. ReadingAt' /\ HeadRead'
    BY <1>1 DEF IInv, ReadingAt, HeadRead
<1>6. Storage'
    BY <1>1, <1>3 DEF IInv, Storage
<1> QED BY <1>4, <1>5, <1>6 DEF IInv

LEMMA BlockheadStep == ASSUME IInv, blockhead PROVE IInv'
<1>1. /\ where = "body" /\ blklev < MaxDepth /\ saved' = Append(saved, [autolen |-> autolen, regvar |-> regvar])
      /\ blklev' = blklev + 1
      /\ UNCHANGED <<hshtab, autolen, maxauto, regvar, isn, where, paraml, nread, scopes>>
    BY DEF blockhead
<1>2. blklev > 0 /\ Len(saved) = blklev /\ saved \in Seq([autolen : Int, regvar : Int])
      /\ [autolen |-> autolen, regvar |-> regvar] \in [autolen : Int, regvar : Int]
    BY <1>1 DEF IInv, ReadingAt, Storage
<1>3. Book(hshtab, scopes, blklev) /\ FunctionLabels(scopes) /\ blklev \in 0..MaxDepth /\ MaxDepth \in Nat
    BY Depths DEF IInv, Table, Book
<1>4. blklev + 1 \in 0..MaxDepth /\ blklev \in Nat
    BY <1>1, <1>3
<1>5. Book(hshtab, scopes, blklev + 1)
    BY <1>3, <1>4, BookDeeper
<1>6. Table'
    BY <1>1, <1>3, <1>5 DEF Table
<1>7. saved' \in Seq([autolen : Int, regvar : Int]) /\ Len(saved') = blklev'
    BY <1>1, <1>2, <1>4
<1>8. ReadingAt' /\ HeadRead'
    BY <1>1, <1>4, <1>7 DEF ReadingAt, HeadRead
<1>9. Storage'
    BY <1>1, <1>7 DEF IInv, Storage
<1> QED BY <1>6, <1>8, <1>9 DEF IInv

LEMMA BlockEndsStep == ASSUME IInv, BlockEnds PROVE IInv'
<1> DEFINE R == [autolen : Int, regvar : Int]
<1>1. /\ where = "body"
      /\ autolen' = saved[Len(saved)].autolen /\ regvar' = saved[Len(saved)].regvar /\ saved' = SubSeq(saved, 1, Len(saved) - 1)
      /\ blklev' = blklev - 1 /\ hshtab' = blkend(hshtab, blklev') /\ ScopeEnds
      /\ where' = IF blklev' = 0 THEN "ext" ELSE where
      /\ UNCHANGED <<maxauto, isn, paraml, nread>>
    BY Zenon DEF BlockEnds
<1>2. blklev > 0 /\ Len(saved) = blklev /\ saved \in Seq(R)
    BY <1>1 DEF IInv, ReadingAt, Storage
<1>3. Book(hshtab, scopes, blklev) /\ FunctionLabels(scopes) /\ blklev \in Nat
    BY Depths DEF IInv, Table, Book
<1>4. hshtab' = blkend(hshtab, blklev - 1)
    BY <1>1
<1>5. Book(hshtab', scopes', blklev') /\ FunctionLabels(scopes')
    BY <1>1, <1>2, <1>3, <1>4, EndStep
<1>6. Table'
    BY <1>5 DEF Table
<1>7. autolen' \in Int /\ regvar' \in Int
    <2>1. Len(saved) \in 1..Len(saved)
        BY <1>2, <1>3
    <2>2. saved[Len(saved)] \in R
        <3> HIDE DEF R
        <3> QED BY <1>2, <2>1
    <2> QED BY <1>1, <2>2
<1>8. saved' \in Seq(R) /\ Len(saved') = blklev'
    <2>1. Len(saved) - 1 \in 0..Len(saved)
        BY <1>2, <1>3
    <2> DEFINE s == SubSeq(saved, 1, Len(saved) - 1)
    <2>2. s \in Seq(R)
        <3> HIDE DEF R
        <3>1. \A k \in 1..(Len(saved) - 1) : saved[k] \in R
            BY <1>2, <2>1
        <3> QED BY <1>2, <2>1, <3>1
    <2>3. Len(s) = Len(saved) - 1
        <3> HIDE DEF R
        <3> QED BY <1>2, <2>1
    <2> HIDE DEF s
    <2>4. saved' = s
        BY <1>1 DEF s
    <2> QED BY <1>1, <1>2, <2>2, <2>3, <2>4
<1>9. ReadingAt' /\ HeadRead'
    <2>1. blklev' \in Nat
        BY <1>1, <1>2, <1>3
    <2>2. CASE blklev' = 0
        <3>1. where' = "ext"
            BY <1>1, <2>2
        <3> QED BY <2>2, <3>1 DEF ReadingAt, HeadRead
    <2>3. CASE blklev' # 0
        <3>1. where' = "body" /\ blklev' > 0
            <4>1. where' = "body"
                BY <1>1, <2>3, Zenon
            <4>2. \A x \in Nat : x # 0 => x > 0
                OBVIOUS
            <4> QED BY <2>1, <2>3, <4>1, <4>2, Zenon
        <3> QED BY <1>8, <3>1 DEF ReadingAt, HeadRead
    <2> QED BY <2>2, <2>3
<1>10. Storage'
    BY <1>1, <1>7, <1>8 DEF IInv, Storage
<1> QED BY <1>6, <1>9, <1>10 DEF IInv

\* Between declarators, and while one's parameters are read.
Reading == IInv \/ Naming

LEMMA NotNaming == IInv => where # "params"
BY DEF IInv, ReadingAt

LEMMA NamingSteps == ASSUME Naming, [Next]_vars, ~stray' PROVE Reading'
<1>1. where = "params"
    BY Zenon DEF Naming
<1>2. ASSUME NEW n \in Names, NEW mos \in BOOLEAN, Overflow(n, mos) PROVE IInv'
    BY <1>2, OverflowStep
<1>3. ASSUME NEW n \in Names, NEW class \in {"EXTERN", "TYPEDEF"} PROVE ~extdef(n, class, "int")
    BY <1>1, Zenon DEF extdef
<1>4. ASSUME NEW n \in Names PROVE ~(Function(n) \/ Member(n) \/ simplegoto(n) \/ Labelled(n))
    BY <1>1, Zenon DEF Function, Member, simplegoto, Labelled
<1>5. ASSUME NEW n \in Names, Parameter(n) PROVE Naming'
    BY <1>5, ParameterStep
<1>6. ~(funchead \/ blockhead \/ BlockEnds)
    BY <1>1, Zenon DEF funchead, blockhead, BlockEnds
<1>7. cfunc => IInv'
    BY CfuncStep
<1>8. ASSUME NEW class \in {"EXTERN", "TYPEDEF"}, NEW type \in {"int", "fn"}, NoBody(class, type) PROVE IInv'
    BY <1>8, NoBodyStep
<1>9. ASSUME NEW n \in Names, NEW class \in {"ARG", "AREG"}, NEW type \in {"int", "double"} PROVE ~Argument(n, class, type)
    BY <1>1, Zenon DEF Argument
<1>10. ASSUME NEW n \in Names, NEW kind \in Kinds PROVE ~Declaration(n, kind[1], kind[2])
    BY <1>1, Zenon DEF Declaration
<1>11. ASSUME NEW n \in Names, NEW b \in BOOLEAN PROVE ~(strdec(n, b) \/ Mention(n, b))
    BY <1>1, Zenon DEF strdec, Mention
<1>12. CASE UNCHANGED vars
    <2>1. UNCHANGED <<hshtab, blklev, autolen, maxauto, regvar, isn, where, defsym, paraml, saved, nread, scopes>>
        BY <1>12 DEF vars
    <2>2. Storage' /\ Parameters' /\ OnlyParameters' /\ ParamLevel' = ParamLevel
        BY <2>1 DEF Naming, Storage, Parameters, OnlyParameters, ParamLevel, Entry
    <2>3. Naming'
        BY <2>1, <2>2 DEF Naming
    <2> QED BY <2>3 DEF Reading
<1> QED BY <1>2, <1>3, <1>4, <1>5, <1>6, <1>7, <1>8, <1>9, <1>10, <1>11, <1>12, Zenon DEF Next, Reading

LEMMA StepReading == ASSUME Reading, [Next]_vars, ~stray' PROVE Reading'
<1>1. CASE Naming
    BY <1>1, NamingSteps
<1>2. CASE IInv
    <2>1. ASSUME NEW n \in Names, NEW mos \in BOOLEAN, Overflow(n, mos) PROVE IInv'
        BY <2>1, OverflowStep
    <2>2. ASSUME NEW n \in Names, NEW class \in {"EXTERN", "TYPEDEF"}, extdef(n, class, "int") PROVE IInv'
        BY <1>2, <2>2, ExtdefStep
    <2>3. ASSUME NEW n \in Names, Function(n) PROVE Naming'
        BY <1>2, <2>3, FunctionStep
    <2>4. ASSUME NEW n \in Names, Member(n) \/ simplegoto(n) \/ Labelled(n) PROVE IInv'
        BY <1>2, <2>4, MemberStep, LabelReadStep
    <2>5. CASE funchead \/ blockhead \/ BlockEnds
        <3>1. funchead => IInv'
            BY <1>2, FuncheadStep
        <3>2. blockhead => IInv'
            BY <1>2, BlockheadStep
        <3>3. BlockEnds => IInv'
            BY <1>2, BlockEndsStep
        <3> QED BY <2>5, <3>1, <3>2, <3>3 DEF Reading
    <2>6. /\ \A n \in Names : ~Parameter(n)
          /\ ~cfunc
          /\ \A class \in {"EXTERN", "TYPEDEF"}, type \in {"int", "fn"} : ~NoBody(class, type)
        <3>1. where # "params"
            BY <1>2, NotNaming
        <3> QED BY <3>1, Zenon DEF Parameter, cfunc, NoBody, Declarator
    <2>7. ASSUME NEW n \in Names, NEW class \in {"ARG", "AREG"}, NEW type \in {"int", "double"}, Argument(n, class, type) PROVE IInv'
        BY <1>2, <2>7, ArgumentStep
    <2>8. ASSUME NEW n \in Names, NEW kind \in Kinds, Declaration(n, kind[1], kind[2]) PROVE IInv'
        <3>1. kind \in {"AUTO", "REG", "STATIC", "EXTERN", "TYPEDEF"} \X {"char", "int", "double", "fn"}
            BY NamesAssumption
        <3>2. kind[1] \in {"AUTO", "REG", "STATIC", "EXTERN", "TYPEDEF"} /\ kind[2] \in {"char", "int", "double", "fn"}
            BY <3>1
        <3> QED BY <1>2, <2>8, <3>2, DeclarationStep
    <2>9. ASSUME NEW n \in Names, NEW b \in BOOLEAN, strdec(n, b) \/ Mention(n, b) PROVE IInv'
        BY <1>2, <2>9, StrdecStep, NameStep
    <2>10. CASE UNCHANGED vars
        <3>1. IInv'
            BY <1>2, <2>10 DEF vars, IInv, Table, ReadingAt, Storage, HeadRead, Parameters, Entry
        <3> QED BY <3>1 DEF Reading
    <2> QED BY <2>1, <2>2, <2>3, <2>4, <2>5, <2>6, <2>7, <2>8, <2>9, <2>10, Zenon DEF Next, Reading
<1> QED BY <1>1, <1>2 DEF Reading

---------------------------------------------------------------------------
(* Storage: what is declared with a place of its own lies within what has  *)
(* been given out, apart from the rest.                                    *)

Marked(d) == d.lab \/ d.hclass = "STATIC"
Clear(d, e) ==
    d.hoffset # 0 /\ e.hoffset # 0 =>
        /\ d.hclass = "AUTO" /\ e.hclass = "AUTO" =>
               d.hoffset + rlength(d.htype) <= e.hoffset \/ e.hoffset + rlength(e.htype) <= d.hoffset
        /\ d.hclass = "REG" /\ e.hclass = "REG" => d.hoffset # e.hoffset
        /\ Marked(d) /\ Marked(e) => d.hoffset # e.hoffset
\* In block l, with the frame at a, registers from r and labels below n given
\* out: not below what an inner block starts from, either.
Given(d, l, a, r, n, s) ==
    /\ d.lab => d.hclass \in {"", "STATIC"}
    /\ d.hoffset # 0 =>
         /\ d.lab \/ d.hclass \in {"AUTO", "REG", "STATIC"}
         /\ d.hclass = "AUTO" => d.hoffset >= a /\ \A m \in (l + 1)..Len(s) : d.hoffset >= s[m].autolen
         /\ d.hclass = "REG" => d.hoffset >= r /\ \A m \in (l + 1)..Len(s) : d.hoffset >= s[m].regvar
         /\ Marked(d) => d.hoffset < n
\* Given out next.
Newer(d, a, r, n) ==
    /\ d.hclass = "AUTO" => d.hoffset + rlength(d.htype) <= a
    /\ d.hclass = "REG" => d.hoffset < r
    /\ Marked(d) => d.hoffset >= n
AllGiven(sc, a, r, n, s) == \A l \in 1..MaxDepth, key \in Keys : Given(sc[l][key], l, a, r, n, s)
AllClear(sc) ==
    \A l, m \in 1..MaxDepth, k1, k2 \in Keys : (l # m \/ k1 # k2) => Clear(sc[l][k1], sc[m][k2])

LEMMA GivenStays ==
    ASSUME NEW e \in Decls, NEW l \in Nat, NEW a \in Int, NEW r \in Int, NEW n \in Int, NEW s, Given(e, l, a, r, n, s),
           NEW a2 \in Int, NEW r2 \in Int, NEW n2 \in Int, a2 <= a, r2 <= r, n <= n2
    PROVE  Given(e, l, a2, r2, n2, s)
<1>1. e.hoffset \in Int
    BY DEF Decls
<1>2. /\ e.hoffset >= a => e.hoffset >= a2
      /\ e.hoffset >= r => e.hoffset >= r2
      /\ e.hoffset < n => e.hoffset < n2
    BY <1>1
<1> QED BY <1>2, Zenon DEF Given

LEMMA NewerClear ==
    ASSUME NEW d \in Decls, NEW e \in Decls, NEW l, NEW a \in Int, NEW r \in Int, NEW n \in Int, NEW s,
           Given(e, l, a, r, n, s), Newer(d, a, r, n)
    PROVE  Clear(d, e) /\ Clear(e, d)
<1>1. e.hoffset \in Int /\ d.hoffset \in Int /\ rlength(d.htype) \in Int
    BY LengthInt DEF Decls
<1>2. ASSUME e.hoffset # 0
      PROVE  /\ e.hclass = "AUTO" /\ d.hclass = "AUTO" => d.hoffset + rlength(d.htype) <= e.hoffset
             /\ e.hclass = "REG" /\ d.hclass = "REG" => d.hoffset < e.hoffset
             /\ Marked(e) /\ Marked(d) => e.hoffset < d.hoffset
    <2>1. /\ e.hclass = "AUTO" => e.hoffset >= a
          /\ e.hclass = "REG" => e.hoffset >= r
          /\ Marked(e) => e.hoffset < n
        BY <1>2, Zenon DEF Given
    <2>2. /\ d.hclass = "AUTO" => d.hoffset + rlength(d.htype) <= a
          /\ d.hclass = "REG" => d.hoffset < r
          /\ Marked(d) => d.hoffset >= n
        BY Zenon DEF Newer
    <2>3. /\ d.hoffset + rlength(d.htype) <= a /\ e.hoffset >= a => d.hoffset + rlength(d.htype) <= e.hoffset
          /\ d.hoffset < r /\ e.hoffset >= r => d.hoffset < e.hoffset
          /\ d.hoffset >= n /\ e.hoffset < n => e.hoffset < d.hoffset
        BY <1>1
    <2> QED BY <2>1, <2>2, <2>3, Zenon
<1>3. (d.hoffset < e.hoffset => d.hoffset # e.hoffset) /\ (e.hoffset < d.hoffset => d.hoffset # e.hoffset)
    BY <1>1
<1> QED BY <1>2, <1>3, Zenon DEF Clear

\* A label met again has the number it had.
LEMMA SameLabelClear ==
    ASSUME NEW o, NEW d, NEW e, o.lab, o.hclass \in {"", "STATIC"}, d.lab, d.hclass \in {"", "STATIC"},
           d.hoffset = o.hoffset
    PROVE  (Clear(o, e) => Clear(d, e)) /\ (Clear(e, o) => Clear(e, d))
<1>1. d.hclass # "AUTO" /\ d.hclass # "REG" /\ Marked(d) /\ Marked(o)
    BY DEF Marked
<1> QED BY <1>1, Zenon DEF Clear

\* A declaration with no place of its own.
LEMMA NoPlace ==
    ASSUME NEW d, d.hoffset = 0, d.lab => d.hclass \in {"", "STATIC"}
    PROVE  /\ \A l, a, r, n, s : Given(d, l, a, r, n, s)
           /\ \A e : Clear(d, e) /\ Clear(e, d)
BY DEF Given, Clear

\* What a stored declaration must be, of the others and of what is given out.
Fits(sc, l, n, mos, d) ==
    \A m \in 1..MaxDepth, key \in Keys :
        (m # l \/ key # <<n, mos>>) => Clear(d, sc[m][key]) /\ Clear(sc[m][key], d)

LEMMA StoresAt ==
    ASSUME NEW sc \in Scopes, NEW l \in 0..MaxDepth, NEW n \in Names, NEW mos \in BOOLEAN, NEW d \in Decls,
           NEW sc2, sc2 = Stores(sc, l, n, mos, d), NEW c, c = <<n, mos>>
    PROVE  /\ c \in Keys /\ sc2 \in Scopes /\ sc2[l][c] = d
           /\ \A m \in 0..MaxDepth, key \in Keys : m # l \/ key # c => sc2[m][key] = sc[m][key]
<1>1. c \in Keys
    BY DEF Keys
<1>2. sc2 = [sc EXCEPT ![l][c] = d]
    BY DEF Stores
<1>3. sc2 \in Scopes /\ sc2[l][c] = d
    BY <1>1, <1>2 DEF Scopes
<1>4. \A m \in 0..MaxDepth, key \in Keys : m # l \/ key # c => sc2[m][key] = sc[m][key]
    BY <1>1, <1>2 DEF Scopes
<1> QED BY <1>1, <1>3, <1>4

LEMMA InnerLevels == \A l \in 1..MaxDepth : l \in 0..MaxDepth /\ l \in Nat
BY Depths

LEMMA InScope == ASSUME NEW sc \in Scopes, NEW l \in 0..MaxDepth, NEW key \in Keys PROVE sc[l][key] \in Decls
BY DEF Scopes

LEMMA StoreKeeps ==
    ASSUME NEW sc \in Scopes, NEW l \in 0..MaxDepth, NEW n \in Names, NEW mos \in BOOLEAN, NEW d \in Decls,
           NEW sc2, sc2 = Stores(sc, l, n, mos, d), AllClear(sc), Fits(sc, l, n, mos, d),
           NEW a \in Int, NEW r \in Int, NEW v \in Int, NEW s, AllGiven(sc, a, r, v, s),
           NEW a2 \in Int, NEW r2 \in Int, NEW v2 \in Int, a2 <= a, r2 <= r, v <= v2, Given(d, l, a2, r2, v2, s)
    PROVE  AllGiven(sc2, a2, r2, v2, s) /\ AllClear(sc2)
<1> DEFINE c == <<n, mos>>
<1>1. /\ c \in Keys /\ sc2[l][c] = d
      /\ \A m \in 0..MaxDepth, key \in Keys : m # l \/ key # c => sc2[m][key] = sc[m][key]
    BY StoresAt
<1>2. \A m \in 1..MaxDepth, key \in Keys : (m # l \/ key # c) => Clear(d, sc[m][key]) /\ Clear(sc[m][key], d)
    BY DEF Fits
<1> HIDE DEF c
<1>3. ASSUME NEW m \in 1..MaxDepth, NEW key \in Keys PROVE Given(sc2[m][key], m, a2, r2, v2, s)
    <2>1. m \in 0..MaxDepth /\ m \in Nat
        BY InnerLevels
    <2>2. CASE m = l /\ key = c
        BY <1>1, <2>2
    <2>3. CASE m # l \/ key # c
        <3>1. sc2[m][key] = sc[m][key] /\ sc[m][key] \in Decls
            BY <1>1, <2>1, <2>3, InScope
        <3>2. Given(sc[m][key], m, a, r, v, s)
            BY Zenon DEF AllGiven
        <3> QED BY <2>1, <3>1, <3>2, GivenStays
    <2> QED BY <2>2, <2>3
<1>4. ASSUME NEW m \in 1..MaxDepth, NEW q \in 1..MaxDepth, NEW k1 \in Keys, NEW k2 \in Keys, m # q \/ k1 # k2
      PROVE  Clear(sc2[m][k1], sc2[q][k2])
    <2>1. m \in 0..MaxDepth /\ q \in 0..MaxDepth
        BY InnerLevels
    <2>2. CASE m = l /\ k1 = c
        <3>1. q # l \/ k2 # c
            BY <1>4, <2>2
        <3> QED BY <1>1, <1>2, <2>1, <2>2, <3>1
    <2>3. CASE q = l /\ k2 = c
        <3>1. m # l \/ k1 # c
            BY <1>4, <2>3
        <3> QED BY <1>1, <1>2, <2>1, <2>3, <3>1
    <2>4. CASE (m # l \/ k1 # c) /\ (q # l \/ k2 # c)
        <3>1. sc2[m][k1] = sc[m][k1] /\ sc2[q][k2] = sc[q][k2]
            BY <1>1, <2>1, <2>4
        <3>2. Clear(sc[m][k1], sc[q][k2])
            BY <1>4, Zenon DEF AllClear
        <3> QED BY <3>1, <3>2
    <2> QED BY <2>2, <2>3, <2>4
<1> QED BY <1>3, <1>4, Zenon DEF AllGiven, AllClear

LEMMA NewerFits ==
    ASSUME NEW sc \in Scopes, NEW l, NEW n, NEW mos, NEW d \in Decls,
           NEW a \in Int, NEW r \in Int, NEW v \in Int, NEW s, AllGiven(sc, a, r, v, s), Newer(d, a, r, v)
    PROVE  Fits(sc, l, n, mos, d)
<1> SUFFICES ASSUME NEW m \in 1..MaxDepth, NEW key \in Keys PROVE Clear(d, sc[m][key]) /\ Clear(sc[m][key], d)
    BY Zenon DEF Fits
<1>1. sc[m][key] \in Decls
    BY InnerLevels, InScope
<1>2. Given(sc[m][key], m, a, r, v, s)
    BY Zenon DEF AllGiven
<1> QED BY <1>1, <1>2, NewerClear

LEMMA NoPlaceFits ==
    ASSUME NEW sc, NEW l, NEW n, NEW mos, NEW d, d.hoffset = 0, d.lab => d.hclass \in {"", "STATIC"}
    PROVE  Fits(sc, l, n, mos, d)
BY NoPlace, Zenon DEF Fits

\* Only labels of the file's level are no labels: a label met again is one.
LEMMA SameLabelFits ==
    ASSUME NEW sc \in Scopes, AllClear(sc), NEW l \in 1..MaxDepth, NEW n \in Names, NEW mos \in BOOLEAN,
           NEW o, o = Entry(sc, l, n, mos), NEW d, o.lab, o.hclass \in {"", "STATIC"}, d.lab, d.hclass \in {"", "STATIC"},
           d.hoffset = o.hoffset
    PROVE  Fits(sc, l, n, mos, d)
<1> DEFINE c == <<n, mos>>
<1>1. c \in Keys /\ o = sc[l][c]
    BY DEF Keys, Entry
<1> SUFFICES ASSUME NEW m \in 1..MaxDepth, NEW key \in Keys, m # l \/ key # c PROVE Clear(d, sc[m][key]) /\ Clear(sc[m][key], d)
    BY Zenon DEF Fits
<1> HIDE DEF c
<1>2. Clear(o, sc[m][key]) /\ Clear(sc[m][key], o)
    BY <1>1, Zenon DEF AllClear
<1> QED BY <1>2, SameLabelClear

\* What a label's reading stores in block l: a number given out next, or the one it had.
Numbered(n, l, d) ==
    /\ scopes' = Stores(scopes, l, n, FALSE, d)
    /\ d.lab /\ d.hclass \in {"", "STATIC"}
    /\ \/ d.hoffset = isn /\ isn' = isn + 1
       \/ l > 0 /\ Entry(scopes, l, n, FALSE).lab /\ d.hoffset = Entry(scopes, l, n, FALSE).hoffset
NumberRead(n) ==
    /\ isn' = isn \/ isn' = isn + 1
    /\ scopes' = scopes \/ \E l \in 0..MaxDepth, d \in Decls : Numbered(n, l, d)

LEMMA PendingAt ==
    ASSUME NEW off \in Int
    PROVE  /\ Pending(off) \in Decls /\ Pending(off).lab /\ Pending(off).hclass = "" /\ Pending(off).hoffset = off
           /\ [Pending(off) EXCEPT !.hclass = "STATIC"] \in Decls /\ [Pending(off) EXCEPT !.hclass = "STATIC"].lab
           /\ [Pending(off) EXCEPT !.hclass = "STATIC"].hclass = "STATIC" /\ [Pending(off) EXCEPT !.hclass = "STATIC"].hoffset = off
<1> DEFINE p == Pending(off)
<1>1. p \in Decls /\ p.lab /\ p.hclass = "" /\ p.hoffset = off
    BY DEF Pending, Decls, Classes, Types
<1> HIDE DEF p
<1>2. "STATIC" \in Classes
    BY DEF Classes
<1> DEFINE q == [p EXCEPT !.hclass = "STATIC"]
<1>3. q \in Decls /\ q.lab /\ q.hclass = "STATIC" /\ q.hoffset = off
    BY <1>1, <1>2 DEF Decls
<1> HIDE DEF q
<1>4. p \in Decls /\ p.lab /\ p.hclass = "" /\ p.hoffset = off /\ q \in Decls /\ q.lab /\ q.hclass = "STATIC" /\ q.hoffset = off
    BY <1>1, <1>3
<1> QED BY <1>4 DEF p, q

LEMMA GotoNumber ==
    ASSUME Book(hshtab, scopes, blklev), blklev > 0, isn \in Int, NEW n \in Names, simplegoto(n)
    PROVE  NumberRead(n)
<1> DEFINE i == lookup(hshtab, n, FALSE)
           d == Pending(isn)
           t == Enter(hshtab, i, n, FALSE, blklev)
           u == PushFiles(t, i)
<1>1. i = lookup(hshtab, n, FALSE)
    OBVIOUS
<1>2. isn' = IF u[i].d = Undeclared THEN isn + 1 ELSE isn
    <2>1. Goto(u, i, n)
        BY DEF simplegoto
    <2> HIDE DEF u, t, i
    <2> QED BY <2>1, Zenon DEF Goto
<1>3. d \in Decls /\ d.lab /\ d.hclass = "" /\ d.hoffset = isn
    BY PendingAt
<1>4. (HasLocal(n) => scopes' = scopes) /\ (~HasLocal(n) => scopes' = Stores(scopes, blklev, n, FALSE, d))
    <2>1. IF HasLocal(n) THEN UNCHANGED scopes ELSE Declares(blklev, n, FALSE, d)
        BY DEF simplegoto
    <2> QED BY <2>1 DEF Declares, Stores
<1>5. ~HasLocal(n) => u[i].d = Undeclared
    <2>1. CASE ~Taken(hshtab, i)
        <3>1. u = t
            BY <1>1, <2>1, FilesStep
        <3>2. t[i].d = Undeclared
            BY <1>1, <2>1, EnterStep
        <3> HIDE DEF t, u
        <3> QED BY <3>1, <3>2
    <2>2. CASE Taken(hshtab, i) /\ hshtab[i].hblklev = 0
        BY <1>1, <2>2, FilesStep
    <2>3. CASE Taken(hshtab, i) /\ hshtab[i].hblklev # 0
        <3>1. HasLocal(n)
            BY <1>1, <2>3, FilesStep
        <3> QED BY <3>1
    <2> QED BY <2>1, <2>2, <2>3
<1> HIDE DEF i, d, u
<1>6. blklev \in 0..MaxDepth
    BY DEF Book
<1>7. ASSUME ~HasLocal(n) PROVE Numbered(n, blklev, d)
    BY <1>2, <1>3, <1>4, <1>5, <1>7, Zenon DEF Numbered
<1> QED BY <1>2, <1>3, <1>4, <1>6, <1>7, Zenon DEF NumberRead

LEMMA LabelNumber ==
    ASSUME Book(hshtab, scopes, blklev), FunctionLabels(scopes), blklev > 0, isn \in Int, NEW n \in Names, Labelled(n)
    PROVE  NumberRead(n)
<1> DEFINE i == lookup(hshtab, n, FALSE)
           t == Enter(hshtab, i, n, FALSE, blklev)
           u == IF t[i].d.hclass # "" THEN PushFiles(t, i) ELSE t
           off == IF u[i].d.hoffset = 0 THEN isn ELSE u[i].d.hoffset
           d == [Pending(off) EXCEPT !.hclass = "STATIC"]
<1>1. i = lookup(hshtab, n, FALSE)
    OBVIOUS
<1>2. blklev \in 0..MaxDepth /\ i \in Slots /\ hshtab \in Tables /\ Undeclared.hclass = "" /\ Undeclared.hoffset = 0
    <2>1. Undeclared.hclass = "" /\ Undeclared.hoffset = 0
        BY DEF Undeclared
    <2> QED BY <1>1, <2>1, NameIs, Constants
<1>3. LabelIs(u, i, n, off)
    BY DEF Labelled, LabelAt
<1>4. u = IF t[i].d.hclass # "" THEN PushFiles(t, i) ELSE t
    OBVIOUS
<1>5. off = IF u[i].d.hoffset = 0 THEN isn ELSE u[i].d.hoffset
    OBVIOUS
<1>6. d = [Pending(off) EXCEPT !.hclass = "STATIC"]
    OBVIOUS
<1>7. t = Enter(hshtab, i, n, FALSE, blklev)
    OBVIOUS
<1> HIDE DEF i, t, u, off, d
<1>8. IF HasLocal(n) /\ Meaning(n, FALSE).hclass # "" THEN UNCHANGED scopes
      ELSE Declares(IF HasLocal(n) THEN Innermost(n, FALSE) ELSE blklev, n, FALSE, d)
    BY <1>3, <1>6, Zenon DEF LabelIs
<1>9. isn' = IF u[i].d.hclass = "" /\ off = isn THEN isn + 1 ELSE isn
    BY <1>3, Zenon DEF LabelIs
<1>10. off \in Int => d \in Decls /\ d.lab /\ d.hclass \in {"", "STATIC"} /\ d.hoffset = off
    BY <1>6, PendingAt
<1>11. ASSUME u[i].d = Undeclared, ~HasLocal(n) PROVE Numbered(n, blklev, d) /\ d \in Decls
    <2>1. off = isn /\ isn' = isn + 1
        BY <1>2, <1>5, <1>9, <1>11
    <2>2. scopes' = Stores(scopes, blklev, n, FALSE, d)
        BY <1>8, <1>11 DEF Declares, Stores
    <2> QED BY <1>10, <2>1, <2>2, Zenon DEF Numbered
<1>12. scopes' = scopes \/ \E l \in 0..MaxDepth, e \in Decls : Numbered(n, l, e)
    <2>1. CASE ~Taken(hshtab, i)
        <3>1. ~HasLocal(n)
            BY <1>1, <2>1, FilesStep
        <3>2. t[i].d = Undeclared
            BY <1>1, <1>7, <2>1, EnterStep
        <3>3. u[i].d = Undeclared
            BY <1>2, <1>4, <3>2
        <3> QED BY <1>2, <1>11, <3>1, <3>3
    <2>2. CASE Taken(hshtab, i)
        <3>1. t = hshtab
            BY <1>7, <2>2 DEF Enter, Taken
        <3>2. /\ Declared(hshtab[i].d, FALSE) /\ Meaning(n, FALSE) = hshtab[i].d /\ Innermost(n, FALSE) = hshtab[i].hblklev
              /\ hshtab[i].hblklev \in Nat /\ hshtab[i].hblklev \in 0..MaxDepth
              /\ Entry(scopes, hshtab[i].hblklev, n, FALSE) = hshtab[i].d
            BY <1>1, <2>2, NameIs
        <3>3. CASE hshtab[i].d.hclass = ""
            <4>1. hshtab[i].d.lab
                BY <3>2, <3>3 DEF Declared
            <4>2. OfFunction(hshtab[i].d, hshtab[i].hblklev)
                <5>1. scopes \in Scopes
                    BY DEF Book
                <5> QED BY <3>2, <5>1, FileDeclares
            <4>3. hshtab[i].hblklev > 0
                BY <4>1, <4>2 DEF OfFunction
            <4>4. HasLocal(n)
                BY <3>2, <4>3, Zenon DEF HasLocal
            <4>5. scopes' = Stores(scopes, hshtab[i].hblklev, n, FALSE, d)
                BY <1>8, <3>2, <3>3, <4>4 DEF Declares, Stores
            <4>6. u = hshtab
                BY <1>4, <3>1, <3>3
            <4>7. hshtab[i].d.hoffset \in Int
                <5>1. hshtab[i].d \in Decls
                    BY <1>2, SlotFields DEF Tables
                <5> QED BY <5>1 DEF Decls
            <4>8. off \in Int
                BY <1>5, <4>6, <4>7
            <4>9. (off = isn /\ isn' = isn + 1) \/ off = hshtab[i].d.hoffset
                BY <1>5, <1>9, <3>3, <4>6
            <4>10. Numbered(n, hshtab[i].hblklev, d)
                BY <1>10, <3>2, <4>1, <4>3, <4>5, <4>8, <4>9, Zenon DEF Numbered
            <4> QED BY <1>10, <3>2, <4>8, <4>10
        <3>4. CASE hshtab[i].d.hclass # "" /\ hshtab[i].hblklev = 0
            <4>1. ~HasLocal(n) /\ PushFiles(t, i)[i].d = Undeclared
                BY <1>1, <1>7, <2>2, <3>4, FilesStep
            <4>2. u[i].d = Undeclared
                BY <1>4, <3>1, <3>4, <4>1
            <4> QED BY <1>2, <1>11, <4>1, <4>2
        <3>5. CASE hshtab[i].d.hclass # "" /\ hshtab[i].hblklev # 0
            <4>1. HasLocal(n)
                BY <1>1, <1>7, <2>2, <3>5, FilesStep
            <4>2. scopes' = scopes
                BY <1>8, <3>2, <3>5, <4>1
            <4> QED BY <4>2
        <3> QED BY <3>3, <3>4, <3>5
    <2> QED BY <2>1, <2>2
<1> QED BY <1>9, <1>12, Zenon DEF NumberRead

\* Outside a function's body nothing of a block has a place.
Placeless(sc) == \A l \in 1..MaxDepth, key \in Keys : sc[l][key].hoffset = 0 /\ ~sc[l][key].lab
Outside == {"ext", "params", "args", "exit"}
Inside == {"body", "members"}
Frame ==
    /\ where \in Inside => maxauto <= autolen /\ \A k \in 1..Len(saved) : maxauto <= saved[k].autolen
    /\ where \in Outside => Placeless(scopes)
    /\ where = "args" => autolen = STAUTO /\ maxauto = STAUTO
Apart == AllGiven(scopes, autolen, regvar, isn, saved) /\ AllClear(scopes) /\ Frame

LEMMA PlacelessApart ==
    ASSUME NEW sc, Placeless(sc)
    PROVE  AllClear(sc) /\ \A a, r, n, s : AllGiven(sc, a, r, n, s)
<1>1. \A l \in 1..MaxDepth, key \in Keys : sc[l][key].hoffset = 0 /\ ~sc[l][key].lab
    BY DEF Placeless
<1>2. AllClear(sc)
    BY <1>1, NoPlace, Zenon DEF AllClear
<1>3. \A a, r, n, s : AllGiven(sc, a, r, n, s)
    BY <1>1, NoPlace, Zenon DEF AllGiven
<1> QED BY <1>2, <1>3

LEMMA PlacelessStore ==
    ASSUME NEW sc \in Scopes, Placeless(sc), NEW l \in 0..MaxDepth, NEW n \in Names, NEW mos \in BOOLEAN, NEW d \in Decls,
           d.hoffset = 0, ~d.lab
    PROVE  Placeless(Stores(sc, l, n, mos, d))
<1> DEFINE sc2 == Stores(sc, l, n, mos, d)
           c == <<n, mos>>
<1>1. /\ c \in Keys /\ sc2[l][c] = d
      /\ \A m \in 0..MaxDepth, key \in Keys : m # l \/ key # c => sc2[m][key] = sc[m][key]
    BY StoresAt
<1> HIDE DEF sc2, c
<1>2. ASSUME NEW m \in 1..MaxDepth, NEW key \in Keys PROVE sc2[m][key].hoffset = 0 /\ ~sc2[m][key].lab
    <2>1. CASE m = l /\ key = c
        BY <1>1, <2>1
    <2>2. CASE m # l \/ key # c
        <3>1. sc2[m][key] = sc[m][key]
            BY <1>1, <2>2, InnerLevels
        <3> QED BY <3>1, Zenon DEF Placeless
    <2> QED BY <2>1, <2>2
<1>3. Placeless(sc2)
    BY <1>2, Zenon DEF Placeless
<1> QED BY <1>3 DEF sc2

\* Before a body: nothing that is read takes a place.
LEMMA OutsideStep ==
    ASSUME scopes \in Scopes, Apart, where \in Outside, where' \in Outside,
           where' = "args" => autolen' = STAUTO /\ maxauto' = STAUTO,
           NEW l \in 0..MaxDepth, NEW n \in Names, NEW mos \in BOOLEAN, NEW d \in Decls, d.hoffset = 0, ~d.lab,
           scopes' = scopes \/ scopes' = Stores(scopes, l, n, mos, d)
    PROVE  Apart'
<1>1. Placeless(scopes)
    BY DEF Apart, Frame
<1>2. Placeless(scopes')
    BY <1>1, PlacelessStore
<1>3. AllClear(scopes') /\ AllGiven(scopes', autolen', regvar', isn', saved')
    BY <1>2, PlacelessApart
<1>4. Frame'
    <2>1. where' \notin Inside
        BY DEF Outside, Inside
    <2> QED BY <1>2, <2>1 DEF Frame
<1> QED BY <1>3, <1>4 DEF Apart

\* In a body, what is read takes no place.
LEMMA InsideStep ==
    ASSUME scopes \in Scopes, Storage, Apart, where \in Inside, where' \in Inside,
           UNCHANGED <<autolen, maxauto, regvar, isn, saved>>,
           NEW l \in 0..MaxDepth, NEW n \in Names, NEW mos \in BOOLEAN, NEW d \in Decls, d.hoffset = 0, ~d.lab,
           scopes' = scopes \/ scopes' = Stores(scopes, l, n, mos, d)
    PROVE  Apart'
<1>1. autolen \in Int /\ regvar \in Int /\ isn \in Int /\ autolen <= autolen /\ regvar <= regvar /\ isn <= isn
    BY DEF Storage
<1>2. AllGiven(scopes, autolen, regvar, isn, saved) /\ AllClear(scopes)
    BY DEF Apart
<1>3. AllGiven(scopes', autolen, regvar, isn, saved) /\ AllClear(scopes')
    <2>1. CASE scopes' = scopes
        BY <1>2, <2>1
    <2>2. CASE scopes' = Stores(scopes, l, n, mos, d)
        <3>1. Given(d, l, autolen, regvar, isn, saved) /\ Fits(scopes, l, n, mos, d)
            BY NoPlace, NoPlaceFits
        <3> QED BY <1>1, <1>2, <2>2, <3>1, StoreKeeps
    <2> QED BY <2>1, <2>2
<1>4. Frame'
    <2>1. where' \notin Outside /\ where' # "args"
        BY DEF Outside, Inside
    <2> QED BY <2>1 DEF Apart, Frame
<1> QED BY <1>3, <1>4 DEF Apart

LEMMA DAt == ASSUME NEW class, NEW type, NEW off PROVE D(class, type, off).hoffset = off /\ ~D(class, type, off).lab /\ D(class, type, off).hclass = class /\ D(class, type, off).htype = type
BY DEF D

LEMMA DIn == \A class \in Classes, type \in Types, off \in Int : D(class, type, off) \in Decls
BY DEF D, Decls

\* A declarator read: what becomes of the scopes.
LEMMA DeclScopes ==
    ASSUME NEW n \in Names, NEW mos \in BOOLEAN, NEW d, DeclaresHere(n, mos, d)
    PROVE  scopes' = scopes \/ scopes' = Stores(scopes, blklev, n, mos, d)
BY DEF DeclaresHere, Declares, Stores

LEMMA HeadApart ==
    ASSUME scopes \in Scopes, blklev \in 0..MaxDepth, Apart, NEW n \in Names, NEW class \in Classes, NEW type \in Types, DeclaresHere(n, FALSE, D(class, type, 0)),
           where \in Outside, where' \in Outside, where' = "args" => where = "args" /\ UNCHANGED <<autolen, maxauto>>
    PROVE  Apart'
<1> DEFINE d == D(class, type, 0)
<1>1. d \in Decls /\ d.hoffset = 0 /\ ~d.lab
    BY DIn, DAt
<1>2. scopes' = scopes \/ scopes' = Stores(scopes, blklev, n, FALSE, d)
    BY DeclScopes
<1> HIDE DEF d
<1>3. where' = "args" => autolen' = STAUTO /\ maxauto' = STAUTO
    BY DEF Apart, Frame
<1> QED BY <1>1, <1>2, <1>3, OutsideStep

LEMMA ReadHeadApart ==
    ASSUME IInv, Apart, NEW n \in Names
    PROVE  /\ \A class \in {"EXTERN", "TYPEDEF"} : extdef(n, class, "int") => Apart'
           /\ Function(n) => Apart'
           /\ \A class \in {"ARG", "AREG"}, type \in {"int", "double"} : Argument(n, class, type) => Apart'
<1>1. {"EXTERN", "TYPEDEF", "ARG", "AREG"} \subseteq Classes /\ {"int", "double", "fn"} \subseteq Types
    BY DEF Classes, Types
<1>2. scopes \in Scopes /\ blklev \in 0..MaxDepth
    BY DEF IInv, Table, Book
<1>3. ASSUME NEW class \in {"EXTERN", "TYPEDEF"}, extdef(n, class, "int") PROVE Apart'
    <2>1. where = "ext" /\ where' = "ext" /\ DeclaresHere(n, FALSE, D(class, "int", 0))
        BY <1>3 DEF extdef
    <2>2. where \in Outside /\ where' \in Outside /\ where' # "args" /\ class \in Classes /\ "int" \in Types
        BY <1>1, <2>1 DEF Outside
    <2> QED BY <1>2, <2>1, <2>2, HeadApart
<1>4. ASSUME Function(n) PROVE Apart'
    <2>1. where = "ext" /\ where' = "params" /\ scopes' = scopes
        BY <1>4 DEF Function
    <2>2. where \in Outside /\ where' \in Outside /\ where' # "args" /\ where' \notin Inside
        BY <2>1 DEF Outside, Inside
    <2>3. Placeless(scopes')
        BY <2>1, <2>2 DEF Apart, Frame
    <2>4. AllClear(scopes') /\ AllGiven(scopes', autolen', regvar', isn', saved')
        BY <2>3, PlacelessApart
    <2> QED BY <2>2, <2>3, <2>4 DEF Apart, Frame
<1>5. ASSUME NEW class \in {"ARG", "AREG"}, NEW type \in {"int", "double"}, Argument(n, class, type) PROVE Apart'
    <2>1. where = "args" /\ where' = "args" /\ UNCHANGED <<autolen, maxauto>> /\ DeclaresHere(n, FALSE, D(class, type, 0))
        BY <1>5 DEF Argument
    <2>2. where \in Outside /\ where' \in Outside /\ class \in Classes /\ type \in Types
        BY <1>1, <2>1 DEF Outside
    <2> QED BY <1>2, <2>1, <2>2, HeadApart
<1> QED BY <1>3, <1>4, <1>5

LEMMA ParameterApart == ASSUME Reading, Apart, NEW n \in Names, Parameter(n) PROVE Apart'
<1>1. where = "params" /\ where' = "params" /\ DeclaresHere(n, FALSE, D("ARG1", "int", 0))
    BY DEF Parameter
<1>2. Naming
    BY <1>1, NotNaming DEF Reading
<1>3. scopes \in Scopes /\ blklev \in 0..MaxDepth
    BY <1>2, Levels DEF Naming
<1>4. where \in Outside /\ where' \in Outside /\ where' # "args" /\ "ARG1" \in Classes /\ "int" \in Types
    BY <1>1 DEF Outside, Classes, Types
<1> QED BY <1>1, <1>3, <1>4, HeadApart

\* The name declared at the file's level.
LEMMA DeclaratorApart ==
    ASSUME Reading, Apart, NEW d \in FileDecls, Declarator(d), where' \in Outside, where' = "args" => autolen' = STAUTO /\ maxauto' = STAUTO
    PROVE  Apart'
<1>1. where = "params"
    BY Zenon DEF Declarator
<1>2. Naming
    BY <1>1, NotNaming DEF Reading
<1>3. scopes \in Scopes /\ defsym \in Names
    BY <1>2, Zenon DEF Naming
<1>4. where \in Outside
    BY <1>1 DEF Outside
<1>5. d \in Decls /\ d.hoffset = 0 /\ ~d.lab
    BY FileDeclIs
<1>6. OneStored(d)
    BY <1>2, DeclaratorStep
<1>7. ASSUME NEW mos \in BOOLEAN, scopes' = scopes \/ scopes' = Stores(scopes, 0, defsym, mos, d) PROVE Apart'
    <2>1. 0 \in 0..MaxDepth
        BY Levels
    <2> QED BY <1>3, <1>4, <1>5, <1>7, <2>1, OutsideStep
<1> QED BY <1>6, <1>7 DEF OneStored

LEMMA CfuncApart == ASSUME Reading, Apart, cfunc PROVE Apart'
<1> DEFINE d == D("EXTERN", "fn", 0)
<1>1. Declarator(d) /\ where' = "args" /\ autolen' = STAUTO /\ maxauto' = STAUTO
    BY Zenon DEF cfunc
<1>2. d \in FileDecls
    BY DEF FileDecls
<1>3. where' \in Outside
    BY <1>1 DEF Outside
<1> HIDE DEF d
<1> QED BY <1>1, <1>2, <1>3, DeclaratorApart

LEMMA NoBodyApart == ASSUME Reading, Apart, NEW class \in {"EXTERN", "TYPEDEF"}, NEW type \in {"int", "fn"}, NoBody(class, type) PROVE Apart'
<1> DEFINE d == D(class, type, 0)
<1>1. Declarator(d) /\ where' = "ext"
    BY Zenon DEF NoBody
<1>2. d \in FileDecls
    BY DEF FileDecls
<1>3. where' \in Outside /\ where' # "args"
    BY <1>1 DEF Outside
<1> HIDE DEF d
<1> QED BY <1>1, <1>2, <1>3, DeclaratorApart

LEMMA EmptyPlaceless == Placeless([l \in 0..MaxDepth |-> Nothing])
<1> DEFINE e == [l \in 0..MaxDepth |-> Nothing]
<1>1. ASSUME NEW l \in 1..MaxDepth, NEW key \in Keys PROVE e[l][key].hoffset = 0 /\ ~e[l][key].lab
    <2>1. l \in 0..MaxDepth
        BY InnerLevels
    <2>2. e[l][key] = Undeclared
        BY <2>1 DEF Nothing
    <2>3. Undeclared.hoffset = 0 /\ ~Undeclared.lab
        BY DEF Undeclared
    <2> QED BY <2>2, <2>3, Zenon
<1> HIDE DEF e
<1>2. Placeless(e)
    BY <1>1, Zenon DEF Placeless
<1> QED BY <1>2 DEF e

LEMMA OverflowApart == ASSUME NEW n, NEW mos, Overflow(n, mos) PROVE Apart'
<1>1. where' = "exit" /\ scopes' = [l \in 0..MaxDepth |-> Nothing]
    BY DEF Overflow
<1>2. where' \in Outside /\ where' \notin Inside /\ where' # "args"
    BY <1>1 DEF Outside, Inside
<1>3. Placeless(scopes')
    BY <1>1, EmptyPlaceless
<1>4. AllClear(scopes') /\ AllGiven(scopes', autolen', regvar', isn', saved')
    BY <1>3, PlacelessApart
<1> QED BY <1>2, <1>3, <1>4 DEF Apart, Frame

LEMMA InitApart == ASSUME Init PROVE Apart
<1>1. where = "ext" /\ scopes = [l \in 0..MaxDepth |-> Nothing]
    BY DEF Init
<1>2. where \in Outside /\ where \notin Inside /\ where # "args"
    BY <1>1 DEF Outside, Inside
<1>3. Placeless(scopes)
    BY <1>1, EmptyPlaceless
<1>4. AllClear(scopes) /\ AllGiven(scopes, autolen, regvar, isn, saved)
    BY <1>3, PlacelessApart
<1> QED BY <1>2, <1>3, <1>4 DEF Apart, Frame

LEMMA ReadBodyApart ==
    ASSUME IInv, Apart, NEW n \in Names
    PROVE  /\ \A b \in BOOLEAN : strdec(n, b) \/ Mention(n, b) => Apart'
           /\ Member(n) => Apart'
<1>1. scopes \in Scopes /\ blklev \in 0..MaxDepth /\ Storage /\ "body" \in Inside /\ "members" \in Inside
    BY DEF IInv, Table, Book, Inside
<1>2. {"EXTERN", "STATIC", "STRTAG", "MOS"} \subseteq Classes /\ {"int", "fn"} \subseteq Types /\ 0 \in Int
    BY DEF Classes, Types
<1>3. ASSUME NEW b \in BOOLEAN, strdec(n, b) PROVE Apart'
    <2> DEFINE d == D("STRTAG", "int", 0)
    <2>1. /\ where = "body" /\ where' \in {"body", "members"}
          /\ UNCHANGED <<autolen, maxauto, regvar, isn, saved>>
          /\ scopes' = scopes \/ scopes' = Stores(scopes, blklev, n, TRUE, d)
        BY <1>3 DEF strdec, Declares, Stores
    <2>2. d \in Decls /\ d.hoffset = 0 /\ ~d.lab
        BY <1>2, DIn, DAt
    <2> HIDE DEF d
    <2>3. where \in Inside /\ where' \in Inside
        BY <1>1, <2>1
    <2> QED BY <1>1, <2>1, <2>2, <2>3, InsideStep
<1>4. ASSUME NEW b \in BOOLEAN, Mention(n, b) PROVE Apart'
    <2> DEFINE d == IF b THEN D("EXTERN", "fn", 0) ELSE D("STATIC", "int", 0)
    <2>1. /\ where = "body" /\ where' = "body"
          /\ UNCHANGED <<autolen, maxauto, regvar, isn, saved>>
          /\ scopes' = scopes \/ scopes' = Stores(scopes, blklev, n, FALSE, d)
        BY <1>4 DEF Mention, Declares, Stores
    <2>2. d \in Decls /\ d.hoffset = 0 /\ ~d.lab
        BY <1>2, DIn, DAt
    <2> HIDE DEF d
    <2>3. where \in Inside /\ where' \in Inside
        BY <1>1, <2>1
    <2> QED BY <1>1, <2>1, <2>2, <2>3, InsideStep
<1>5. ASSUME Member(n) PROVE Apart'
    <2> DEFINE d == D("MOS", "int", 0)
    <2>1. /\ where = "members" /\ where' = "body"
          /\ UNCHANGED <<autolen, maxauto, regvar, isn, saved>>
          /\ DeclaresHere(n, TRUE, d)
        BY <1>5 DEF Member
    <2>2. d \in Decls /\ d.hoffset = 0 /\ ~d.lab
        BY <1>2, DIn, DAt
    <2>3. scopes' = scopes \/ scopes' = Stores(scopes, blklev, n, TRUE, d)
        BY <2>1, DeclScopes
    <2> HIDE DEF d
    <2>4. where \in Inside /\ where' \in Inside
        BY <1>1, <2>1
    <2> QED BY <1>1, <2>1, <2>2, <2>3, <2>4, InsideStep
<1> QED BY <1>3, <1>4, <1>5

LEMMA LabelApart == ASSUME IInv, Apart, NEW n \in Names, simplegoto(n) \/ Labelled(n) PROVE Apart'
<1>1. /\ where = "body" /\ UNCHANGED <<blklev, autolen, maxauto, regvar, where, paraml, saved>>
    BY DEF simplegoto, Labelled
<1>2. blklev > 0 /\ isn \in Int /\ autolen \in Int /\ regvar \in Int /\ isn <= isn /\ isn <= isn + 1 /\ autolen <= autolen /\ regvar <= regvar
    BY <1>1 DEF IInv, ReadingAt, Storage
<1>3. NumberRead(n)
    BY <1>2, GotoNumber, LabelNumber DEF IInv, Table
<1>4. isn' \in Int /\ isn <= isn'
    BY <1>2, <1>3 DEF NumberRead
<1>5. scopes \in Scopes /\ AllGiven(scopes, autolen, regvar, isn, saved) /\ AllClear(scopes)
    BY DEF IInv, Table, Book, Apart
<1>6. AllGiven(scopes', autolen, regvar, isn', saved) /\ AllClear(scopes')
    <2>1. CASE scopes' = scopes
        <3>1. ASSUME NEW l \in 1..MaxDepth, NEW key \in Keys PROVE Given(scopes[l][key], l, autolen, regvar, isn', saved)
            <4>1. Given(scopes[l][key], l, autolen, regvar, isn, saved)
                BY <1>5, Zenon DEF AllGiven
            <4>2. scopes[l][key] \in Decls /\ l \in Nat
                BY <1>5, InnerLevels, InScope
            <4> QED BY <1>2, <1>4, <4>1, <4>2, GivenStays
        <3> QED BY <1>5, <2>1, <3>1, Zenon DEF AllGiven
    <2>2. ASSUME NEW l \in 0..MaxDepth, NEW d \in Decls, Numbered(n, l, d)
          PROVE  AllGiven(scopes', autolen, regvar, isn', saved) /\ AllClear(scopes')
        <3>1. scopes' = Stores(scopes, l, n, FALSE, d) /\ d.lab /\ d.hclass \in {"", "STATIC"} /\ d.hclass # "AUTO" /\ d.hclass # "REG"
            BY <2>2 DEF Numbered
        <3> DEFINE tag == FALSE
        <3>2. tag \in BOOLEAN /\ scopes' = Stores(scopes, l, n, tag, d)
            BY <3>1
        <3>3. d.hoffset \in Int
            BY DEF Decls
        <3>4. CASE d.hoffset = isn /\ isn' = isn + 1
            <4>1. d.hoffset < isn' /\ d.hoffset >= isn
                BY <1>2, <3>4
            <4>2. Given(d, l, autolen, regvar, isn', saved)
                BY <3>1, <4>1, Zenon DEF Given
            <4>3. Newer(d, autolen, regvar, isn)
                BY <3>1, <4>1, Zenon DEF Newer
            <4>4. Fits(scopes, l, n, tag, d)
                BY <1>2, <1>5, <4>3, NewerFits
            <4> HIDE DEF tag
            <4> QED BY <1>2, <1>4, <1>5, <3>2, <4>2, <4>4, StoreKeeps
        <3>5. CASE l > 0 /\ Entry(scopes, l, n, FALSE).lab /\ d.hoffset = Entry(scopes, l, n, FALSE).hoffset
            <4> DEFINE o == Entry(scopes, l, n, FALSE)
                       c == <<n, FALSE>>
            <4>1. c \in Keys /\ o = scopes[l][c]
                BY DEF Keys, Entry
            <4>2. o = Entry(scopes, l, n, FALSE) /\ o.lab /\ d.hoffset = o.hoffset
                BY <3>5
            <4> HIDE DEF c, o
            <4>3. l \in 1..MaxDepth
                BY <3>5
            <4>4. Given(o, l, autolen, regvar, isn, saved)
                BY <1>5, <4>1, <4>3, Zenon DEF AllGiven
            <4>5. o.hclass \in {"", "STATIC"} /\ (o.hoffset # 0 => o.hoffset < isn)
                BY <4>2, <4>4, Zenon DEF Given, Marked
            <4>6. d.hoffset # 0 => d.hoffset < isn'
                <5>1. \A x \in Int : x < isn => x < isn'
                    BY <1>2, <1>4
                <5> QED BY <3>3, <4>2, <4>5, <5>1, Zenon
            <4>7. Given(d, l, autolen, regvar, isn', saved)
                BY <3>1, <4>6, Zenon DEF Given
            <4>8. o = Entry(scopes, l, n, tag)
                BY <4>2
            <4> HIDE DEF tag
            <4>9. Fits(scopes, l, n, tag, d)
                BY <1>5, <3>2, <3>1, <4>2, <4>3, <4>5, <4>8, SameLabelFits
            <4> QED BY <1>2, <1>4, <1>5, <3>2, <4>7, <4>9, StoreKeeps
        <3> QED BY <2>2, <3>4, <3>5 DEF Numbered
    <2> QED BY <1>3, <2>1, <2>2 DEF NumberRead
<1>7. Frame'
    <2>1. where' \in Inside /\ where' \notin Outside /\ where' # "args" /\ where \in Inside
        BY <1>1 DEF Inside, Outside
    <2> QED BY <1>1, <2>1 DEF Apart, Frame
<1> QED BY <1>1, <1>6, <1>7 DEF Apart

LEMMA LengthNat == ASSUME NEW type PROVE rlength(type) \in Int /\ rlength(type) >= 0
BY DEF rlength, length

\* A declaration with its storage, wanted again or not.
LEMMA DeclarationApart ==
    ASSUME IInv, Apart, NEW n \in Names, NEW skw \in {"AUTO", "REG", "STATIC", "EXTERN", "TYPEDEF"},
           NEW type \in {"char", "int", "double", "fn"}, Declaration(n, skw, type)
    PROVE  Apart'
<1> DEFINE class == IF type = "fn" THEN "EXTERN" ELSE IF skw = "REG" /\ ~Suits(type) THEN "AUTO" ELSE skw
           off == CASE class = "AUTO" -> autolen - rlength(type) [] class = "STATIC" -> isn
                    [] class = "REG" -> regvar - 1 [] OTHER -> 0
           d == D(class, type, off)
           ok == ~Redeclared(hshtab, n, FALSE, d)
           tag == FALSE
<1>1. /\ where = "body" /\ Reads(decl1(hshtab, n, tag, d)) /\ DeclaresHere(n, tag, d)
      /\ autolen' = IF ok /\ class = "AUTO" THEN autolen - rlength(type) ELSE autolen
      /\ maxauto' = IF autolen' < maxauto THEN autolen' ELSE maxauto
      /\ regvar' = IF ok /\ class = "REG" THEN regvar - 1 ELSE regvar
      /\ isn' = IF ok /\ class = "STATIC" THEN isn + 1 ELSE isn
      /\ UNCHANGED <<blklev, where, paraml, saved>>
    BY Zenon DEF Declaration
<1>2. class \in {"AUTO", "REG", "STATIC", "EXTERN", "TYPEDEF"}
    OBVIOUS
<1>3. {"AUTO", "REG", "STATIC", "EXTERN", "TYPEDEF"} \subseteq Classes /\ "" \notin {"AUTO", "REG", "STATIC", "EXTERN", "TYPEDEF"}
      /\ {"char", "int", "double", "fn"} \subseteq Types
    BY DEF Classes, Types
<1>4. rlength(type) \in Int /\ rlength(type) >= 0 /\ autolen \in Int /\ maxauto \in Int /\ isn \in Int /\ regvar \in Int
    BY LengthNat DEF IInv, Storage
<1>5. scopes \in Scopes /\ blklev \in 0..MaxDepth /\ Book(hshtab, scopes, blklev)
    BY DEF IInv, Table, Book
<1>6. blklev \in Nat /\ Len(saved) = blklev /\ where \in Inside
    BY <1>1, <1>5, Depths DEF IInv, ReadingAt, Inside
<1> HIDE DEF class
<1>7. off \in Int
    BY <1>2, <1>4
<1>8. /\ class = "AUTO" => off = autolen - rlength(type)
      /\ class = "REG" => off = regvar - 1
      /\ class = "STATIC" => off = isn
      /\ class \notin {"AUTO", "REG", "STATIC"} => off = 0
    OBVIOUS
<1> HIDE DEF off
<1>9. d \in Decls /\ Plain(d) /\ ~d.lab /\ d.hclass = class /\ d.htype = type /\ d.hoffset = off
    <2>1. class \in Classes /\ class # "" /\ type \in Types
        BY <1>2, <1>3
    <2>2. d \in Decls
        BY <1>7, <2>1, DIn, Zenon
    <2>3. ~d.lab /\ d.hclass = class /\ d.htype = type /\ d.hoffset = off
        BY DAt
    <2>4. Plain(d)
        BY <2>1, <2>3, Zenon DEF Plain
    <2> QED BY <2>2, <2>3, <2>4
<1>10. tag \in BOOLEAN
    OBVIOUS
<1>11. ok <=> ~Redeclared(hshtab, n, tag, d)
    OBVIOUS
<1> HIDE DEF d, ok, tag
<1>12. /\ scopes' = IF Agrees(Entry(scopes, blklev, n, tag), d) THEN Stores(scopes, blklev, n, tag, d) ELSE scopes
       /\ Redeclared(hshtab, n, tag, d) <=> ~Agrees(Entry(scopes, blklev, n, tag), d)
    BY <1>1, <1>5, <1>9, <1>10, DeclStep
<1>13. scopes' = IF ok THEN Stores(scopes, blklev, n, tag, d) ELSE scopes
    BY <1>11, <1>12, Zenon
<1>14. AllGiven(scopes, autolen, regvar, isn, saved) /\ AllClear(scopes) /\ maxauto <= autolen /\ \A k \in 1..Len(saved) : maxauto <= saved[k].autolen
    BY <1>6 DEF Apart, Frame
<1>15. /\ autolen' \in Int /\ regvar' \in Int /\ isn' \in Int
       /\ autolen' <= autolen /\ regvar' <= regvar /\ isn <= isn'
    BY <1>1, <1>4
<1>16. AllGiven(scopes', autolen', regvar', isn', saved) /\ AllClear(scopes')
    <2>1. CASE ~ok
        <3>1. autolen' = autolen /\ regvar' = regvar /\ isn' = isn /\ scopes' = scopes
            BY <1>1, <1>13, <2>1
        <3> QED BY <1>14, <3>1
    <2>2. CASE ok
        <3>1. scopes' = Stores(scopes, blklev, n, tag, d)
            BY <1>13, <2>2
        <3>2. /\ class = "AUTO" => autolen' = off
              /\ class = "REG" => regvar' = off
              /\ class = "STATIC" => off < isn' /\ off >= isn
            BY <1>1, <1>4, <1>7, <1>8, <2>2
        <3>3. off >= off /\ \A k \in (blklev + 1)..Len(saved) : FALSE
            BY <1>6, <1>7
        <3>4. /\ off # 0 => class \in {"AUTO", "REG", "STATIC"}
              /\ class = "AUTO" => off >= autolen'
              /\ class = "REG" => off >= regvar'
              /\ class = "STATIC" => off < isn'
            BY <1>8, <3>2, <3>3
        <3>5. Given(d, blklev, autolen', regvar', isn', saved)
            BY <1>9, <3>3, <3>4, Zenon DEF Given, Marked
        <3>6. /\ class = "AUTO" => off + rlength(type) <= autolen
              /\ class = "REG" => off < regvar
              /\ class = "STATIC" => off >= isn
            BY <1>4, <1>8, <3>2
        <3>7. Newer(d, autolen, regvar, isn)
            BY <1>9, <3>6, Zenon DEF Newer, Marked
        <3>8. Fits(scopes, blklev, n, tag, d)
            BY <1>4, <1>5, <1>9, <1>14, <3>7, NewerFits
        <3> QED BY <1>4, <1>5, <1>9, <1>10, <1>14, <1>15, <3>1, <3>5, <3>8, StoreKeeps
    <2> QED BY <2>1, <2>2
<1>17. maxauto' \in Int /\ maxauto' <= maxauto /\ maxauto' <= autolen'
    BY <1>1, <1>4, <1>15
<1>18. \A k \in 1..Len(saved) : maxauto' <= saved[k].autolen
    <2>1. ASSUME NEW k \in 1..Len(saved) PROVE maxauto' <= saved[k].autolen
        <3> DEFINE R == [autolen : Int, regvar : Int]
        <3>1. saved \in Seq(R)
            BY DEF IInv, Storage
        <3> HIDE DEF R
        <3>2. saved[k] \in R
            BY <3>1
        <3>3. saved[k].autolen \in Int
            BY <3>2 DEF R
        <3>4. maxauto <= saved[k].autolen
            BY <1>14
        <3> QED BY <1>4, <1>17, <3>3, <3>4
    <2> QED BY <2>1
<1>19. Frame'
    <2>1. where' \in Inside /\ where' \notin Outside /\ where' # "args"
        BY <1>1 DEF Inside, Outside
    <2> QED BY <1>1, <1>17, <1>18, <2>1 DEF Frame
<1> QED BY <1>1, <1>16, <1>19 DEF Apart

LEMMA BlockheadApart == ASSUME IInv, Apart, blockhead PROVE Apart'
<1> DEFINE m == [autolen |-> autolen, regvar |-> regvar]
<1>1. /\ where = "body" /\ saved' = Append(saved, m)
      /\ UNCHANGED <<hshtab, autolen, maxauto, regvar, isn, where, paraml, nread, scopes>>
    BY DEF blockhead
<1>2. saved \in Seq([autolen : Int, regvar : Int]) /\ autolen \in Int /\ regvar \in Int /\ maxauto \in Int
    BY DEF IInv, Storage
<1>3. m.autolen = autolen /\ m.regvar = regvar
    OBVIOUS
<1> HIDE DEF m
<1>4. Len(saved) \in Nat /\ Len(saved') = Len(saved) + 1
    BY <1>1, <1>2
<1>5. saved'[Len(saved) + 1] = m /\ \A k \in 1..Len(saved) : saved'[k] = saved[k]
    BY <1>1, <1>2
<1>6. AllGiven(scopes, autolen, regvar, isn, saved) /\ AllClear(scopes)
    BY DEF Apart
<1>7. maxauto <= autolen /\ \A k \in 1..Len(saved) : maxauto <= saved[k].autolen
    BY <1>1 DEF Apart, Frame, Inside
<1>8. ASSUME NEW l \in 1..MaxDepth, NEW key \in Keys PROVE Given(scopes[l][key], l, autolen, regvar, isn, saved')
    <2> DEFINE e == scopes[l][key]
    <2>1. Given(e, l, autolen, regvar, isn, saved)
        BY <1>6, Zenon DEF AllGiven
    <2>2. l \in Nat
        BY InnerLevels
    <2> HIDE DEF e
    <2>3. \A k \in (l + 1)..Len(saved') : k \in (l + 1)..Len(saved) \/ k = Len(saved) + 1
        BY <1>4, <2>2
    <2>4. \A k \in (l + 1)..Len(saved') : saved'[k] = m \/ (k \in (l + 1)..Len(saved) /\ saved'[k] = saved[k])
        <3>1. \A k \in (l + 1)..Len(saved) : k \in 1..Len(saved)
            BY <1>4, <2>2
        <3> QED BY <1>5, <2>3, <3>1
    <2>5. e.hclass = "AUTO" /\ e.hoffset # 0 => e.hoffset >= autolen /\ \A k \in (l + 1)..Len(saved') : e.hoffset >= saved'[k].autolen
        BY <1>3, <2>1, <2>4, Zenon DEF Given
    <2>6. e.hclass = "REG" /\ e.hoffset # 0 => e.hoffset >= regvar /\ \A k \in (l + 1)..Len(saved') : e.hoffset >= saved'[k].regvar
        BY <1>3, <2>1, <2>4, Zenon DEF Given
    <2>7. Given(e, l, autolen, regvar, isn, saved')
        BY <2>1, <2>5, <2>6, Zenon DEF Given
    <2> QED BY <2>7 DEF e
<1>9. AllGiven(scopes', autolen', regvar', isn', saved') /\ AllClear(scopes')
    <2>1. AllGiven(scopes, autolen, regvar, isn, saved')
        BY <1>8, Zenon DEF AllGiven
    <2> QED BY <1>1, <1>6, <2>1
<1>10. Frame'
    <2>1. \A k \in 1..Len(saved') : maxauto <= saved'[k].autolen
        <3>1. \A k \in 1..Len(saved') : k \in 1..Len(saved) \/ k = Len(saved) + 1
            BY <1>4
        <3> QED BY <1>3, <1>5, <1>7, <3>1
    <2>2. where' \notin Outside /\ where' # "args"
        BY <1>1 DEF Outside
    <2> QED BY <1>1, <1>7, <2>1, <2>2 DEF Frame
<1> QED BY <1>9, <1>10 DEF Apart

LEMMA KeyIs == ASSUME NEW key \in Keys PROVE \E n \in Names, mos \in BOOLEAN : key = <<n, mos>>
BY DEF Keys

\* What a block's end leaves at each level.
LEMMA EndedScopes ==
    ASSUME scopes \in Scopes, blklev \in 0..MaxDepth, blklev > 0, ScopeEnds, NEW L, L = blklev - 1
    PROVE  \A key \in Keys :
              /\ scopes'[blklev][key] = Undeclared
              /\ scopes'[L][key] = IF (IF blklev = 1 THEN scopes[blklev][key].hclass = "EXTERN" ELSE scopes[blklev][key].lab)
                                   THEN scopes[blklev][key] ELSE scopes[L][key]
              /\ \A l \in 0..MaxDepth : l # blklev /\ l # L => scopes'[l][key] = scopes[l][key]
<1> DEFINE stays(d) == IF blklev = 1 THEN d.hclass = "EXTERN" ELSE d.lab
           around == [k \in Keys |-> IF stays(scopes[blklev][k]) THEN scopes[blklev][k] ELSE scopes[L][k]]
<1>1. L \in 0..MaxDepth /\ L # blklev
    BY Depths
<1>2. scopes' = [scopes EXCEPT ![blklev] = Nothing, ![L] = around]
    <2>1. [scopes EXCEPT ![blklev] = Nothing][L] = scopes[L]
        BY <1>1 DEF Scopes
    <2> QED BY <1>1, <2>1 DEF ScopeEnds, Scopes
<1>3. \A k \in Keys : around[k] = IF stays(scopes[blklev][k]) THEN scopes[blklev][k] ELSE scopes[L][k]
    OBVIOUS
<1>4. \A k \in Keys : Nothing[k] = Undeclared
    BY DEF Nothing
<1> HIDE DEF around
<1>5. scopes'[blklev] = Nothing /\ scopes'[L] = around /\ \A l \in 0..MaxDepth : l # blklev /\ l # L => scopes'[l] = scopes[l]
    BY <1>1, <1>2 DEF Scopes
<1> HIDE DEF stays
<1>6. \A k \in Keys : /\ scopes'[blklev][k] = Undeclared
                      /\ scopes'[L][k] = IF stays(scopes[blklev][k]) THEN scopes[blklev][k] ELSE scopes[L][k]
                      /\ \A l \in 0..MaxDepth : l # blklev /\ l # L => scopes'[l][k] = scopes[l][k]
    BY <1>3, <1>4, <1>5
<1> QED BY <1>6 DEF stays

\* Of what is left, a label may come from the block that ended.
Origin(l, o, key) ==
    /\ o \in 1..MaxDepth /\ scopes'[l][key] = scopes[o][key]
    /\ (o = l /\ l < blklev) \/ (o = blklev /\ l = blklev - 1 /\ scopes[o][key].lab)
LEMMA EndedFrom ==
    ASSUME Book(hshtab, scopes, blklev), blklev > 1, ScopeEnds, NEW l \in 1..MaxDepth, NEW key \in Keys
    PROVE  scopes'[l][key] = Undeclared \/ \E o \in 1..MaxDepth : Origin(l, o, key)
<1> DEFINE L == blklev - 1
<1>1. scopes \in Scopes /\ blklev \in 0..MaxDepth /\ MaxDepth \in Nat /\ blklev \in Nat /\ l \in 0..MaxDepth
    BY Depths, InnerLevels DEF Book
<1>2. /\ scopes'[blklev][key] = Undeclared
      /\ scopes'[L][key] = IF scopes[blklev][key].lab THEN scopes[blklev][key] ELSE scopes[L][key]
      /\ \A m \in 0..MaxDepth : m # blklev /\ m # L => scopes'[m][key] = scopes[m][key]
    BY <1>1, EndedScopes
<1>3. CASE l = blklev
    BY <1>2, <1>3
<1>4. CASE l > blklev
    <2>1. scopes'[l][key] = scopes[l][key]
        BY <1>1, <1>2, <1>4
    <2>2. PICK n \in Names, mos \in BOOLEAN : key = <<n, mos>>
        BY KeyIs
    <2>3. Entry(scopes, l, n, mos) = Undeclared
        BY <1>1, <1>4, Unopened
    <2> QED BY <2>1, <2>2, <2>3 DEF Entry
<1>5. CASE l = L /\ scopes[blklev][key].lab
    <2>1. Origin(l, blklev, key) /\ blklev \in 1..MaxDepth
        BY <1>1, <1>2, <1>5 DEF Origin
    <2> QED BY <2>1
<1>6. CASE l < blklev /\ ~(l = L /\ scopes[blklev][key].lab)
    <2>1. scopes'[l][key] = scopes[l][key]
        BY <1>1, <1>2, <1>6
    <2>2. Origin(l, l, key)
        BY <1>6, <2>1 DEF Origin
    <2> QED BY <2>2
<1> QED BY <1>1, <1>3, <1>4, <1>5, <1>6

LEMMA BlockEndsApart == ASSUME IInv, Apart, BlockEnds PROVE Apart'
<1> DEFINE R == [autolen : Int, regvar : Int]
           last == saved[Len(saved)]
<1>1. /\ where = "body"
      /\ autolen' = last.autolen /\ regvar' = last.regvar /\ saved' = SubSeq(saved, 1, Len(saved) - 1)
      /\ blklev' = blklev - 1 /\ ScopeEnds
      /\ where' = IF blklev' = 0 THEN "ext" ELSE where
      /\ UNCHANGED <<maxauto, isn, paraml, nread>>
    BY Zenon DEF BlockEnds
<1>2. blklev > 0 /\ Len(saved) = blklev /\ saved \in Seq(R)
    BY <1>1 DEF IInv, ReadingAt, Storage
<1>3. Book(hshtab, scopes, blklev) /\ blklev \in Nat /\ scopes \in Scopes /\ blklev \in 0..MaxDepth
    BY Depths DEF IInv, Table, Book
<1>4. AllGiven(scopes, autolen, regvar, isn, saved) /\ AllClear(scopes)
    BY DEF Apart
<1>5. maxauto <= autolen /\ \A k \in 1..Len(saved) : maxauto <= saved[k].autolen
    BY <1>1 DEF Apart, Frame, Inside
<1>6. Undeclared.hoffset = 0 /\ ~Undeclared.lab
    BY DEF Undeclared
<1>7. CASE blklev = 1
    <2>1. ASSUME NEW l \in 1..MaxDepth, NEW key \in Keys PROVE scopes'[l][key] = Undeclared
        <3>1. l \in 0..MaxDepth
            BY InnerLevels
        <3> DEFINE L == blklev - 1
        <3>2. scopes'[blklev][key] = Undeclared /\ (\A m \in 0..MaxDepth : m # blklev /\ m # L => scopes'[m][key] = scopes[m][key])
            BY <1>1, <1>2, <1>3, EndedScopes
        <3>3. CASE l = 1
            BY <1>7, <3>2, <3>3
        <3>4. CASE l # 1
            <4>1. l > blklev /\ l # L
                BY <1>7, <3>4
            <4>2. PICK n \in Names, mos \in BOOLEAN : key = <<n, mos>>
                BY KeyIs
            <4>3. Entry(scopes, l, n, mos) = Undeclared
                BY <1>3, <3>1, <4>1, Unopened
            <4> QED BY <3>1, <3>2, <4>1, <4>2, <4>3 DEF Entry
        <3> QED BY <3>3, <3>4
    <2>2. Placeless(scopes')
        BY <1>6, <2>1, Zenon DEF Placeless
    <2>3. AllClear(scopes') /\ AllGiven(scopes', autolen', regvar', isn', saved')
        BY <2>2, PlacelessApart
    <2>4. where' = "ext"
        BY <1>1, <1>7
    <2>5. where' \notin Inside /\ where' # "args"
        BY <2>4 DEF Inside
    <2> QED BY <2>2, <2>3, <2>5 DEF Apart, Frame
<1>8. CASE blklev # 1
    <2>1. blklev > 1
        BY <1>2, <1>3, <1>8
    <2>2. \A l \in 1..MaxDepth, key \in Keys : scopes'[l][key] = Undeclared \/ \E o \in 1..MaxDepth : Origin(l, o, key)
        BY <1>1, <1>3, <2>1, EndedFrom
    <2>3. Len(saved') = Len(saved) - 1 /\ \A k \in 1..(Len(saved) - 1) : saved'[k] = saved[k]
        <3> HIDE DEF R
        <3>1. Len(saved) - 1 \in 0..Len(saved)
            BY <1>2, <1>3
        <3> QED BY <1>1, <1>2, <3>1
    <2>4. ASSUME NEW l \in 1..MaxDepth, NEW key \in Keys PROVE Given(scopes'[l][key], l, autolen', regvar', isn, saved')
        <3>1. CASE scopes'[l][key] = Undeclared
            BY <1>6, <3>1, NoPlace
        <3>2. ASSUME NEW o \in 1..MaxDepth, Origin(l, o, key) PROVE Given(scopes'[l][key], l, autolen', regvar', isn, saved')
            <4> DEFINE e == scopes[o][key]
            <4>1. Given(e, o, autolen, regvar, isn, saved) /\ scopes'[l][key] = e
                BY <1>4, <3>2, Zenon DEF AllGiven, Origin
            <4>2. CASE o = l /\ l < blklev
                <5>1. Len(saved) \in (l + 1)..Len(saved) /\ \A k \in (l + 1)..Len(saved') : k \in (l + 1)..Len(saved) /\ saved'[k] = saved[k]
                    BY <1>2, <1>3, <2>3, <4>2
                <5> HIDE DEF e, last
                <5>2. e.hclass = "AUTO" /\ e.hoffset # 0 => e.hoffset >= autolen' /\ \A k \in (l + 1)..Len(saved') : e.hoffset >= saved'[k].autolen
                    BY <1>1, <4>1, <4>2, <5>1, Zenon DEF Given, last
                <5>3. e.hclass = "REG" /\ e.hoffset # 0 => e.hoffset >= regvar' /\ \A k \in (l + 1)..Len(saved') : e.hoffset >= saved'[k].regvar
                    BY <1>1, <4>1, <4>2, <5>1, Zenon DEF Given, last
                <5>4. Given(e, l, autolen', regvar', isn, saved')
                    BY <4>1, <5>2, <5>3, Zenon DEF Given
                <5> QED BY <4>1, <5>4
            <4>3. CASE o = blklev /\ l = blklev - 1 /\ e.lab
                <5> HIDE DEF e
                <5>1. e.hclass \in {"", "STATIC"} /\ e.hclass # "AUTO" /\ e.hclass # "REG"
                    <6>1. e.hclass \in {"", "STATIC"}
                        BY <4>1, <4>3, Zenon DEF Given
                    <6> QED BY <6>1
                <5>2. Given(e, l, autolen', regvar', isn, saved')
                    BY <4>1, <4>3, <5>1, Zenon DEF Given
                <5> QED BY <4>1, <5>2
            <4> QED BY <3>2, <4>2, <4>3 DEF Origin
        <3> QED BY <2>2, <3>1, <3>2
    <2>5. ASSUME NEW l \in 1..MaxDepth, NEW m \in 1..MaxDepth, NEW k1 \in Keys, NEW k2 \in Keys, l # m \/ k1 # k2
          PROVE  Clear(scopes'[l][k1], scopes'[m][k2])
        <3>1. CASE scopes'[l][k1] = Undeclared \/ scopes'[m][k2] = Undeclared
            BY <1>6, <3>1, NoPlace
        <3>2. ASSUME NEW o \in 1..MaxDepth, NEW p \in 1..MaxDepth, Origin(l, o, k1), Origin(m, p, k2)
              PROVE  Clear(scopes'[l][k1], scopes'[m][k2])
            <4>1. o # p \/ k1 # k2
                <5>1. /\ (o = l /\ l < blklev) \/ (o = blklev /\ l = blklev - 1)
                      /\ (p = m /\ m < blklev) \/ (p = blklev /\ m = blklev - 1)
                    BY <3>2, Zenon DEF Origin
                <5>2. o = p => l = m
                    BY <1>3, <5>1
                <5> QED BY <2>5, <5>2
            <4>2. Clear(scopes[o][k1], scopes[p][k2])
                BY <1>4, <4>1, Zenon DEF AllClear
            <4>3. scopes'[l][k1] = scopes[o][k1] /\ scopes'[m][k2] = scopes[p][k2]
                BY <3>2 DEF Origin
            <4> QED BY <4>2, <4>3
        <3> QED BY <2>2, <3>1, <3>2
    <2>6. AllGiven(scopes', autolen', regvar', isn', saved') /\ AllClear(scopes')
        BY <1>1, <2>4, <2>5, Zenon DEF AllGiven, AllClear
    <2>7. Frame'
        <3>1. where' = "body"
            BY <1>1, <1>3, <1>8
        <3>2. maxauto' <= autolen' /\ \A k \in 1..Len(saved') : maxauto' <= saved'[k].autolen
            <4>1. Len(saved) \in 1..Len(saved) /\ \A k \in 1..Len(saved') : k \in 1..Len(saved) /\ saved'[k] = saved[k]
                BY <1>2, <1>3, <2>3
            <4> QED BY <1>1, <1>5, <4>1
        <3>3. where' \notin Outside /\ where' # "args"
            BY <3>1 DEF Outside
        <3> QED BY <3>2, <3>3 DEF Frame
    <2> QED BY <2>6, <2>7 DEF Apart
<1> QED BY <1>7, <1>8

LEMMA Climbs ==
    ASSUME NEW b \in Nat, NEW f, \A k \in 0..b : f[k] \in Int, \A k \in 1..b : f[k - 1] <= f[k],
           NEW m \in 0..b
    PROVE  \A q \in 0..b : m <= q => f[m] <= f[q]
<1> DEFINE S == {q \in 0..b : m <= q => f[m] <= f[q]}
<1>1. 0 \in S
    OBVIOUS
<1>2. ASSUME NEW k \in 0..(b - 1), k \in S PROVE k + 1 \in S
    <2>1. k + 1 \in 0..b /\ f[k] \in Int /\ f[k + 1] \in Int /\ f[m] \in Int
        OBVIOUS
    <2>2. f[k] <= f[k + 1]
        <3>1. k + 1 \in 1..b /\ (k + 1) - 1 = k
            OBVIOUS
        <3> QED BY <3>1
    <2>3. CASE m = k + 1
        BY <2>1, <2>3
    <2>4. CASE m # k + 1
        <3>1. m <= k + 1 => m <= k
            BY <2>4
        <3>2. m <= k => f[m] <= f[k]
            BY <1>2
        <3> QED BY <2>1, <2>2, <3>1, <3>2
    <2> QED BY <2>3, <2>4
<1>3. \A k \in 0..b : k \in S
    <2> HIDE DEF S
    <2> QED BY <1>1, <1>2, UpTo
<1> QED BY <1>3
LEMMA Falls ==
    ASSUME NEW b \in Nat, NEW f, \A k \in 0..b : f[k] \in Int, \A k \in 1..b : f[k] <= f[k - 1]
    PROVE  \A m, q \in 0..b : m <= q => f[q] <= f[m]
<1> DEFINE g == [k \in 0..b |-> 0 - f[k]]
<1>1. \A k \in 0..b : g[k] = 0 - f[k] /\ g[k] \in Int
    OBVIOUS
<1>2. \A k \in 1..b : k \in 0..b /\ k - 1 \in 0..b
    OBVIOUS
<1> HIDE DEF g
<1>3. \A k \in 1..b : g[k - 1] <= g[k]
    BY <1>1, <1>2
<1>4. \A m, q \in 0..b : m <= q => g[m] <= g[q]
    BY <1>1, <1>3, Climbs
<1> QED BY <1>1, <1>4

\* Where the parameters are: upwards from STARG, downwards from regvar.
LEMMA PlaceAt ==
    ASSUME Len(paraml) \in Nat, regvar \in Int, NEW k \in 1..Len(paraml)
    PROVE  /\ ~Place(k).lab /\ ArgAt[k - 1] \in Int /\ ArgRegs[k] \in Int /\ ArgRegs[k - 1] \in Int /\ ArgAt[k] \in Int
           /\ \/ Place(k).hclass = "REG" /\ Place(k).hoffset = ArgRegs[k] /\ ArgRegs[k] < ArgRegs[k - 1]
              \/ Place(k).hclass = "AUTO" /\ Place(k).hoffset = ArgAt[k - 1] /\ ArgAt[k] = ArgAt[k - 1] + rlength(Place(k).htype)
<1>1. k \in 0..Len(paraml) /\ k - 1 \in 0..Len(paraml)
    OBVIOUS
<1>2. ArgAt[k - 1] \in Int /\ ArgAt[k] \in Int /\ ArgRegs[k] \in Int /\ ArgRegs[k - 1] \in Int
    BY <1>1, ArgAtIs, ArgRegsIs
<1>3. ArgAt[k] = ArgAt[k - 1] + rlength(Arg(k).htype)
    BY ArgAtIs
<1>4. CASE ArgRegs[k] < ArgRegs[k - 1]
    <2>1. Place(k) = D("REG", Arg(k).htype, ArgRegs[k])
        BY <1>4 DEF Place
    <2> QED BY <1>2, <1>4, <2>1, DAt
<1>5. CASE ~(ArgRegs[k] < ArgRegs[k - 1])
    <2>1. Place(k) = D("AUTO", Arg(k).htype, ArgAt[k - 1])
        BY <1>5 DEF Place
    <2> QED BY <1>2, <1>3, <2>1, DAt
<1> QED BY <1>4, <1>5

LEMMA ClearBoth == ASSUME NEW d \in Decls, NEW e \in Decls, Clear(d, e) PROVE Clear(e, d)
BY DEF Clear

LEMMA PlacesClear ==
    ASSUME Len(paraml) \in Nat, regvar \in Int, NEW k \in 1..Len(paraml), NEW m \in 1..Len(paraml), k < m
    PROVE  Clear(Place(k), Place(m))
<1> DEFINE d == Place(k)
           e == Place(m)
<1>1. k \in 0..Len(paraml) /\ m - 1 \in 0..Len(paraml) /\ k <= m - 1
    OBVIOUS
<1>2. ArgAt[k] <= ArgAt[m - 1]
    <2>1. \A q \in 1..Len(paraml) : ArgAt[q - 1] <= ArgAt[q]
        <3> SUFFICES ASSUME NEW q \in 1..Len(paraml) PROVE ArgAt[q - 1] <= ArgAt[q]
            OBVIOUS
        <3>1. ArgAt[q] = ArgAt[q - 1] + rlength(Arg(q).htype) /\ ArgAt[q - 1] \in Int
            BY ArgAtIs
        <3> QED BY <3>1, LengthNat
    <2> QED BY <1>1, <2>1, ArgAtIs, Climbs
<1>3. ArgRegs[m - 1] <= ArgRegs[k]
    <2>1. \A q \in 1..Len(paraml) : ArgRegs[q] <= ArgRegs[q - 1]
        <3> SUFFICES ASSUME NEW q \in 1..Len(paraml) PROVE ArgRegs[q] <= ArgRegs[q - 1]
            OBVIOUS
        <3>1. (ArgRegs[q] = ArgRegs[q - 1] - 1 \/ ArgRegs[q] = ArgRegs[q - 1]) /\ ArgRegs[q - 1] \in Int
            BY ArgRegsIs
        <3> QED BY <3>1
    <2> QED BY <1>1, <2>1, ArgRegsIs, Falls
<1>4. /\ ~d.lab /\ ArgAt[k - 1] \in Int /\ ArgRegs[k] \in Int /\ ArgAt[k] \in Int
      /\ \/ d.hclass = "REG" /\ d.hoffset = ArgRegs[k]
         \/ d.hclass = "AUTO" /\ d.hoffset = ArgAt[k - 1] /\ ArgAt[k] = ArgAt[k - 1] + rlength(d.htype)
    BY PlaceAt
<1>5. /\ ~e.lab /\ ArgAt[m - 1] \in Int /\ ArgRegs[m] \in Int /\ ArgRegs[m - 1] \in Int
      /\ \/ e.hclass = "REG" /\ e.hoffset = ArgRegs[m] /\ ArgRegs[m] < ArgRegs[m - 1]
         \/ e.hclass = "AUTO" /\ e.hoffset = ArgAt[m - 1]
    BY PlaceAt
<1> HIDE DEF d, e
<1>6. d.hclass = "AUTO" /\ e.hclass = "AUTO" => d.hoffset + rlength(d.htype) <= e.hoffset
    BY <1>2, <1>4, <1>5
<1>7. d.hclass = "REG" /\ e.hclass = "REG" => d.hoffset # e.hoffset
    BY <1>3, <1>4, <1>5
<1>8. ~Marked(d)
    BY <1>4 DEF Marked
<1>9. Clear(d, e)
    BY <1>6, <1>7, <1>8, Zenon DEF Clear
<1> QED BY <1>9 DEF d, e

LEMMA PlaceGiven ==
    ASSUME Len(paraml) \in Nat, regvar \in Int, NEW k \in 1..Len(paraml), NEW s, Len(s) = 1, NEW n
    PROVE  Given(Place(k), 1, STAUTO, ArgRegs[Len(paraml)], n, s)
<1> DEFINE d == Place(k)
           b == Len(paraml)
<1>1. /\ ~d.lab /\ ArgAt[k - 1] \in Int /\ ArgRegs[k] \in Int
      /\ \/ d.hclass = "REG" /\ d.hoffset = ArgRegs[k]
         \/ d.hclass = "AUTO" /\ d.hoffset = ArgAt[k - 1]
    BY PlaceAt
<1>2. ArgAt[0] <= ArgAt[k - 1]
    <2>1. \A q \in 1..Len(paraml) : ArgAt[q - 1] <= ArgAt[q]
        <3> SUFFICES ASSUME NEW q \in 1..Len(paraml) PROVE ArgAt[q - 1] <= ArgAt[q]
            OBVIOUS
        <3>1. ArgAt[q] = ArgAt[q - 1] + rlength(Arg(q).htype) /\ ArgAt[q - 1] \in Int
            BY ArgAtIs
        <3> QED BY <3>1, LengthNat
    <2>2. 0 \in 0..Len(paraml) /\ k - 1 \in 0..Len(paraml) /\ 0 <= k - 1
        OBVIOUS
    <2> QED BY <2>1, <2>2, ArgAtIs, Climbs
<1>3. ArgRegs[b] <= ArgRegs[k]
    <2>1. \A q \in 1..Len(paraml) : ArgRegs[q] <= ArgRegs[q - 1]
        <3> SUFFICES ASSUME NEW q \in 1..Len(paraml) PROVE ArgRegs[q] <= ArgRegs[q - 1]
            OBVIOUS
        <3>1. (ArgRegs[q] = ArgRegs[q - 1] - 1 \/ ArgRegs[q] = ArgRegs[q - 1]) /\ ArgRegs[q - 1] \in Int
            BY ArgRegsIs
        <3> QED BY <3>1
    <2>2. k \in 0..Len(paraml) /\ Len(paraml) \in 0..Len(paraml) /\ k <= Len(paraml)
        OBVIOUS
    <2> QED BY <2>1, <2>2, ArgRegsIs, Falls
<1>4. ArgAt[0] = 4 /\ STAUTO = -6 /\ ArgRegs[b] \in Int
    <2>1. b \in 0..b
        OBVIOUS
    <2> QED BY <2>1, ArgAtIs, ArgRegsIs DEF STARG, STAUTO
<1>5. \A m \in (1 + 1)..Len(s) : FALSE
    OBVIOUS
<1> HIDE DEF d, b
<1>6. (d.hclass = "AUTO" => d.hoffset >= STAUTO) /\ (d.hclass = "REG" => d.hoffset >= ArgRegs[b])
    BY <1>1, <1>2, <1>3, <1>4
<1>7. ~Marked(d) /\ d.hclass \in {"AUTO", "REG", "STATIC"}
    BY <1>1 DEF Marked
<1>8. Given(d, 1, STAUTO, ArgRegs[b], n, s)
    BY <1>1, <1>5, <1>6, <1>7, Zenon DEF Given
<1> QED BY <1>8 DEF d, b

LEMMA FuncheadApart == ASSUME IInv, Apart, funchead PROVE Apart'
<1> DEFINE b == Len(paraml)
           m == [autolen |-> autolen, regvar |-> regvar']
           A == ArgScope(b)
<1>1. /\ where = "args" /\ where' = "body" /\ saved' = <<m>> /\ regvar' = ArgRegs[b]
      /\ scopes' = [scopes EXCEPT ![1] = A] /\ UNCHANGED <<autolen, maxauto, isn>>
    BY Zenon DEF funchead
<1>2. where \in Outside /\ where' \in Inside /\ where' \notin Outside /\ where' # "args"
    BY <1>1 DEF Outside, Inside
<1>3. Placeless(scopes) /\ autolen = STAUTO /\ maxauto = STAUTO
    BY <1>1, <1>2 DEF Apart, Frame
<1>4. Parameters /\ regvar \in Int /\ scopes \in Scopes
    BY <1>1 DEF IInv, HeadRead, Storage, Table, Book
<1>5. b \in Nat /\ b \in 0..b
    BY <1>4, ParamIs
<1>6. Len(saved') = 1 /\ saved'[1].autolen = autolen
    BY <1>1
<1>7. /\ \A q \in 1..b : A[ArgKey(q)] = Place(q)
      /\ \A key \in Keys : (\A q \in 1..b : key # ArgKey(q)) => A[key] = scopes[1][key]
    BY <1>4, <1>5, ArgScopeIs
<1> HIDE DEF A
<1>8. scopes'[1] = A /\ \A l \in 1..MaxDepth : l # 1 => scopes'[l] = scopes[l]
    <2>1. 1 \in 0..MaxDepth
        BY Levels
    <2> QED BY <1>1, <1>4, <2>1, InnerLevels DEF Scopes
    \* A declaration in a block is a parameter's or has no place.
<1> DEFINE At(l, key) == \E q \in 1..b : l = 1 /\ key = ArgKey(q) /\ scopes'[l][key] = Place(q)
<1>9. ASSUME NEW l \in 1..MaxDepth, NEW key \in Keys
      PROVE  At(l, key) \/ (scopes'[l][key].hoffset = 0 /\ ~scopes'[l][key].lab)
    <2>1. scopes[l][key].hoffset = 0 /\ ~scopes[l][key].lab
        BY <1>3, Zenon DEF Placeless
    <2>2. CASE l = 1 /\ \E q \in 1..b : key = ArgKey(q)
        BY <1>7, <1>8, <2>2
    <2>3. CASE l = 1 /\ \A q \in 1..b : key # ArgKey(q)
        BY <1>7, <1>8, <2>1, <2>3
    <2>4. CASE l # 1
        BY <1>8, <2>1, <2>4
    <2> QED BY <2>2, <2>3, <2>4
<1>10. ASSUME NEW l \in 1..MaxDepth, NEW key \in Keys PROVE Given(scopes'[l][key], l, STAUTO, ArgRegs[b], isn, saved')
    <2>1. CASE scopes'[l][key].hoffset = 0 /\ ~scopes'[l][key].lab
        BY <2>1, NoPlace
    <2>2. CASE At(l, key)
        <3>1. PICK q \in 1..b : l = 1 /\ key = ArgKey(q) /\ scopes'[l][key] = Place(q)
            BY <2>2
        <3>2. Given(Place(q), 1, STAUTO, ArgRegs[b], isn, saved')
            BY <1>4, <1>5, <1>6, PlaceGiven
        <3> QED BY <3>1, <3>2
    <2> QED BY <1>9, <2>1, <2>2
<1>11. ASSUME NEW l \in 1..MaxDepth, NEW p \in 1..MaxDepth, NEW k1 \in Keys, NEW k2 \in Keys, l # p \/ k1 # k2
       PROVE  Clear(scopes'[l][k1], scopes'[p][k2])
    <2>1. CASE (scopes'[l][k1].hoffset = 0 /\ ~scopes'[l][k1].lab) \/ (scopes'[p][k2].hoffset = 0 /\ ~scopes'[p][k2].lab)
        BY <2>1, NoPlace
    <2>2. CASE At(l, k1) /\ At(p, k2)
        <3>1. PICK q \in 1..b : l = 1 /\ k1 = ArgKey(q) /\ scopes'[l][k1] = Place(q)
            BY <2>2
        <3>2. PICK r \in 1..b : p = 1 /\ k2 = ArgKey(r) /\ scopes'[p][k2] = Place(r)
            BY <2>2
        <3>3. q # r
            BY <1>11, <3>1, <3>2
        <3>4. q < r \/ r < q
            BY <1>5, <3>3
        <3>5. Place(q) \in Decls /\ Place(r) \in Decls
            <4>1. Book(hshtab, scopes, 1)
                BY <1>1 DEF IInv, ReadingAt, Table
            <4> QED BY <1>4, <4>1, PlaceIs
        <3>6. Clear(Place(q), Place(r))
            BY <1>4, <1>5, <3>4, <3>5, PlacesClear, ClearBoth
        <3> QED BY <3>1, <3>2, <3>6
    <2> QED BY <1>9, <2>1, <2>2
<1>12. AllGiven(scopes', autolen', regvar', isn', saved') /\ AllClear(scopes')
    <2> HIDE DEF At
    <2> QED BY <1>1, <1>3, <1>10, <1>11, Zenon DEF AllGiven, AllClear
<1>13. Frame'
    <2>1. STAUTO \in Int
        BY DEF STAUTO
    <2>2. maxauto' = STAUTO /\ autolen' = STAUTO /\ \A k \in 1..Len(saved') : saved'[k].autolen = STAUTO
        <3>1. \A k \in 1..Len(saved') : k = 1
            BY <1>6
        <3> QED BY <1>1, <1>3, <1>6, <3>1
    <2> QED BY <1>2, <2>1, <2>2 DEF Frame
<1> QED BY <1>12, <1>13 DEF Apart

LEMMA StepApart == ASSUME Reading, Apart, [Next]_vars PROVE Apart'
<1>1. ASSUME NEW n \in Names, NEW mos \in BOOLEAN, Overflow(n, mos) PROVE Apart'
    BY <1>1, OverflowApart
<1>2. ASSUME NEW n \in Names, Parameter(n) PROVE Apart'
    BY <1>2, ParameterApart
<1>3. ASSUME NEW class \in {"EXTERN", "TYPEDEF"}, NEW type \in {"int", "fn"}, NoBody(class, type) PROVE Apart'
    BY <1>3, NoBodyApart
<1>4. CASE cfunc
    BY <1>4, CfuncApart
<1>5. CASE UNCHANGED vars
    <2>1. UNCHANGED <<autolen, maxauto, regvar, isn, where, saved, scopes>>
        BY <1>5 DEF vars
    <2> QED BY <2>1 DEF Apart, Frame
<1>6. CASE IInv
    <2>1. ASSUME NEW n \in Names, NEW class \in {"EXTERN", "TYPEDEF"}, extdef(n, class, "int") PROVE Apart'
        BY <1>6, <2>1, ReadHeadApart
    <2>2. ASSUME NEW n \in Names, Function(n) \/ Member(n) \/ simplegoto(n) \/ Labelled(n) PROVE Apart'
        BY <1>6, <2>2, ReadHeadApart, ReadBodyApart, LabelApart
    <2>3. CASE funchead \/ blockhead \/ BlockEnds
        BY <1>6, <2>3, FuncheadApart, BlockheadApart, BlockEndsApart
    <2>4. ASSUME NEW n \in Names, NEW class \in {"ARG", "AREG"}, NEW type \in {"int", "double"}, Argument(n, class, type) PROVE Apart'
        BY <1>6, <2>4, ReadHeadApart
    <2>5. ASSUME NEW n \in Names, NEW kind \in Kinds, Declaration(n, kind[1], kind[2]) PROVE Apart'
        <3>1. kind \in {"AUTO", "REG", "STATIC", "EXTERN", "TYPEDEF"} \X {"char", "int", "double", "fn"}
            BY NamesAssumption
        <3>2. kind[1] \in {"AUTO", "REG", "STATIC", "EXTERN", "TYPEDEF"} /\ kind[2] \in {"char", "int", "double", "fn"}
            BY <3>1
        <3> QED BY <1>6, <2>5, <3>2, DeclarationApart
    <2>6. ASSUME NEW n \in Names, NEW b \in BOOLEAN, strdec(n, b) \/ Mention(n, b) PROVE Apart'
        BY <1>6, <2>6, ReadBodyApart
    <2> QED BY <1>1, <1>2, <1>3, <1>4, <1>5, <2>1, <2>2, <2>3, <2>4, <2>5, <2>6, Zenon DEF Next
<1>7. CASE Naming
    <2>1. where = "params"
        BY <1>7, Zenon DEF Naming
    <2>2. ASSUME NEW n \in Names, NEW class \in {"EXTERN", "TYPEDEF"} PROVE ~extdef(n, class, "int")
        BY <2>1, Zenon DEF extdef
    <2>3. ASSUME NEW n \in Names PROVE ~(Function(n) \/ Member(n) \/ simplegoto(n) \/ Labelled(n))
        BY <2>1, Zenon DEF Function, Member, simplegoto, Labelled
    <2>4. ~(funchead \/ blockhead \/ BlockEnds)
        BY <2>1, Zenon DEF funchead, blockhead, BlockEnds
    <2>5. ASSUME NEW n \in Names, NEW class \in {"ARG", "AREG"}, NEW type \in {"int", "double"} PROVE ~Argument(n, class, type)
        BY <2>1, Zenon DEF Argument
    <2>6. ASSUME NEW n \in Names, NEW kind \in Kinds PROVE ~Declaration(n, kind[1], kind[2])
        BY <2>1, Zenon DEF Declaration
    <2>7. ASSUME NEW n \in Names, NEW b \in BOOLEAN PROVE ~(strdec(n, b) \/ Mention(n, b))
        BY <2>1, Zenon DEF strdec, Mention
    <2> QED BY <1>1, <1>2, <1>3, <1>4, <1>5, <2>2, <2>3, <2>4, <2>5, <2>6, <2>7, Zenon DEF Next
<1> QED BY <1>6, <1>7 DEF Reading

\* A declaration in force above the file's level is one of C's scopes'.
OfScope(z, l, key) == l \in 1..MaxDepth /\ key \in Keys /\ z = <<key[1], l, scopes[l][key]>>
LEMMA InForceSlot ==
    ASSUME hshtab \in Tables, NEW z \in InForce
    PROVE  \E i \in Slots : \E k \in 0..Depth(hshtab[i]) : z = <<hshtab[i].name, Level(hshtab[i], k), Decl(hshtab[i], k)>>
<1>1. PICK i \in Slots :
         z \in {<<hshtab[i].name, hshtab[i].hblklev, hshtab[i].d>>} \cup
               {<<hshtab[i].name, hshtab[i].hpdown[k].hblklev, hshtab[i].hpdown[k].d>> : k \in DOMAIN hshtab[i].hpdown}
    BY DEF InForce
<1> DEFINE s == hshtab[i]
<1>2. s \in Slot
    BY DEF Tables
<1>3. DOMAIN s.hpdown = 1..Depth(s) /\ Depth(s) \in Nat
    <2>1. s.hpdown \in Seq(Hidden)
        BY <1>2, SlotFields
    <2> HIDE DEF s
    <2> QED BY <2>1 DEF Depth
<1>4. \E k \in 0..Depth(s) : z = <<s.name, Level(s, k), Decl(s, k)>>
    <2>1. CASE z = <<s.name, s.hblklev, s.d>>
        <3>1. z = <<s.name, Level(s, 0), Decl(s, 0)>> /\ 0 \in 0..Depth(s)
            BY <1>3, <2>1 DEF Level, Decl
        <3> QED BY <3>1
    <2>2. ASSUME NEW k \in DOMAIN s.hpdown, z = <<s.name, s.hpdown[k].hblklev, s.hpdown[k].d>>
          PROVE  \E q \in 0..Depth(s) : z = <<s.name, Level(s, q), Decl(s, q)>>
        <3>1. k \in 0..Depth(s) /\ k # 0
            BY <1>3
        <3>2. z = <<s.name, Level(s, k), Decl(s, k)>>
            BY <2>2, <3>1 DEF Level, Decl
        <3> QED BY <3>1, <3>2
    <2> QED BY <1>1, <2>1, <2>2
<1> QED BY <1>4

LEMMA ForceIs ==
    ASSUME NEW t, NEW sc, NEW lev, Book(t, sc, lev), NEW i \in Slots, NEW k \in 0..Depth(t[i]), Level(t[i], k) > 0
    PROVE  \E l \in 1..MaxDepth, key \in Keys : l = Level(t[i], k) /\ key[1] = t[i].name /\ Decl(t[i], k) = sc[l][key]
<1> DEFINE s == t[i]
<1>1. s \in Slot /\ sc \in Scopes /\ lev \in 0..MaxDepth /\ MaxDepth \in Nat
    BY Depths DEF Book, Tables
<1>2. Depth(s) \in Nat
    BY <1>1, DepthNat
<1>3. Level(s, k) > 0 /\ k \in 0..Depth(s)
    OBVIOUS
<1>4. Taken(t, i)
    <2> SUFFICES ASSUME ~Taken(t, i) PROVE FALSE
        OBVIOUS
    <2>1. s = Free
        BY DEF Taken, Book, Clean
    <2>2. Free.hpdown = <<>> /\ Free.hblklev = 0
        BY DEF Free
    <2> HIDE DEF s
    <2>3. Depth(s) = 0 /\ s.hblklev = 0
        BY <2>1, <2>2 DEF Depth
    <2>4. k = 0
        BY <1>3, <2>3
    <2> QED BY <1>3, <2>3, <2>4 DEF Level
<1>5. Denotes(s, Column(sc, s.name, s.mos), lev)
    BY <1>4 DEF Book
<1>6. s.name \in Names /\ s.mos \in BOOLEAN
    BY <1>1, <1>4, SlotFields DEF Taken
<1> DEFINE c == <<s.name, s.mos>>
<1>7. c \in Keys /\ c[1] = s.name
    BY <1>6 DEF Keys
<1> HIDE DEF s, c
<1>8. Level(s, k) \in 1..MaxDepth /\ Level(s, k) \in 0..MaxDepth
    <2>1. Level(s, k) \in 0..lev
        BY <1>3, <1>5 DEF Denotes, Within
    <2> QED BY <1>1, <1>3, <2>1
<1>9. Column(sc, s.name, s.mos)[Level(s, k)] = Decl(s, k)
    <2>1. k = 0 \/ Level(s, k - 1) > 0
        <3> SUFFICES ASSUME k # 0 PROVE Level(s, k - 1) > 0
            OBVIOUS
        <3>1. k - 1 \in 0..Depth(s) /\ k - 1 < k
            BY <1>2, <1>3
        <3>2. Level(s, k) < Level(s, k - 1) \/ (Level(s, k - 1) = 0 /\ Level(s, k) = 0)
            BY <1>3, <1>5, <3>1 DEF Denotes, Descends
        <3>3. Level(s, k - 1) \in Nat
            BY <1>1, <3>1, LevelNat
        <3> QED BY <1>3, <1>8, <3>2, <3>3
    <2> QED BY <1>3, <1>5, <2>1 DEF Denotes, Agreed
<1>10. Decl(s, k) = sc[Level(s, k)][c]
    <2>1. Column(sc, s.name, s.mos)[Level(s, k)] = sc[Level(s, k)][<<s.name, s.mos>>]
        BY <1>8 DEF Column
    <2> QED BY <1>9, <2>1 DEF c
<1> QED BY <1>7, <1>8, <1>10 DEF s

LEMMA InForceIs ==
    ASSUME Book(hshtab, scopes, blklev), NEW z \in InForce, z[2] > 0
    PROVE  \E l \in 1..MaxDepth, key \in Keys : OfScope(z, l, key)
<1>1. hshtab \in Tables
    BY DEF Book
<1>2. PICK i \in Slots : \E k \in 0..Depth(hshtab[i]) : z = <<hshtab[i].name, Level(hshtab[i], k), Decl(hshtab[i], k)>>
    BY <1>1, InForceSlot
<1>3. PICK k \in 0..Depth(hshtab[i]) : z = <<hshtab[i].name, Level(hshtab[i], k), Decl(hshtab[i], k)>>
    BY <1>2
<1>4. Level(hshtab[i], k) > 0
    BY <1>3
<1>5. PICK l \in 1..MaxDepth, key \in Keys : l = Level(hshtab[i], k) /\ key[1] = hshtab[i].name /\ Decl(hshtab[i], k) = scopes[l][key]
    BY <1>4, ForceIs
<1>6. OfScope(z, l, key)
    BY <1>3, <1>5, Zenon DEF OfScope
<1> QED BY <1>6

\* Words apart are no word in common.
LEMMA SpansApart ==
    ASSUME NEW d \in Decls, NEW e \in Decls,
           d.hoffset + rlength(d.htype) <= e.hoffset \/ e.hoffset + rlength(e.htype) <= d.hoffset
    PROVE  Span(d) \cap Span(e) = {}
<1>1. d.hoffset \in Int /\ e.hoffset \in Int /\ rlength(d.htype) \in Int /\ rlength(e.htype) \in Int
    BY LengthInt DEF Decls
<1> QED BY <1>1 DEF Span

\* With one block open: what a name means.
TwoLevels(sc, n, mos) == IF Entry(sc, 1, n, mos) # Undeclared THEN Entry(sc, 1, n, mos) ELSE Entry(sc, 0, n, mos)
LEMMA MeaningIs == ASSUME blklev = 1, NEW n, NEW mos PROVE Meaning(n, mos) = TwoLevels(scopes, n, mos)
<1> DEFINE T == {l \in 0..1 : Entry(scopes, l, n, mos) # Undeclared} \cup {-1}
<1>1. Innermost(n, mos) = Max(T) /\ Max(T) = CHOOSE x \in T : \A y \in T : x >= y
    BY DEF Innermost, Max, Entry
<1>2. CASE Entry(scopes, 1, n, mos) # Undeclared
    <2>1. 1 \in T /\ \A y \in T : y \in Int /\ 1 >= y
        BY <1>2
    <2> HIDE DEF T
    <2>2. Max(T) \in T /\ \A y \in T : Max(T) >= y
        BY <1>1, <2>1
    <2>3. Max(T) = 1
        BY <2>1, <2>2
    <2>4. Innermost(n, mos) = 1
        BY <1>1, <2>3, Zenon
    <2>5. Innermost(n, mos) = 1 /\ Innermost(n, mos) # -1
        BY <2>4
    <2>6. Meaning(n, mos) = Entry(scopes, 1, n, mos)
        BY <2>5 DEF Meaning, Entry
    <2> QED BY <1>2, <2>6 DEF TwoLevels
<1>3. CASE Entry(scopes, 1, n, mos) = Undeclared /\ Entry(scopes, 0, n, mos) # Undeclared
    <2>1. 0 \in T /\ \A y \in T : y \in Int /\ 0 >= y
        BY <1>3
    <2> HIDE DEF T
    <2>2. Max(T) \in T /\ \A y \in T : Max(T) >= y
        BY <1>1, <2>1
    <2>3. Max(T) = 0
        BY <2>1, <2>2
    <2>4. Innermost(n, mos) = 0
        BY <1>1, <2>3, Zenon
    <2>5. Innermost(n, mos) = 0 /\ Innermost(n, mos) # -1
        BY <2>4
    <2>6. Meaning(n, mos) = Entry(scopes, 0, n, mos)
        BY <2>5 DEF Meaning, Entry
    <2> QED BY <1>3, <2>6 DEF TwoLevels
<1>4. CASE Entry(scopes, 1, n, mos) = Undeclared /\ Entry(scopes, 0, n, mos) = Undeclared
    <2>1. T = {-1}
        BY <1>4
    <2> HIDE DEF T
    <2>2. Max(T) = -1
        BY <1>1, <2>1
    <2> QED BY <1>1, <1>4, <2>2 DEF Meaning, TwoLevels
<1> QED BY <1>2, <1>3, <1>4

LEMMA BookMeans ==
    ASSUME NEW t, NEW sc, Book(t, sc, 1), NEW n \in Names, NEW mos \in BOOLEAN, NEW i, i = lookup(t, n, mos)
    PROVE  t[i].d = TwoLevels(sc, n, mos)
<1>1. 0 \in 0..MaxDepth /\ 1 \in 0..MaxDepth
    BY Levels
<1>2. CASE Taken(t, i)
    <2>1. /\ t[i].hblklev \in 0..1 /\ Entry(sc, t[i].hblklev, n, mos) = t[i].d /\ Declared(t[i].d, mos)
          /\ Entry(sc, 1, n, mos) # Undeclared => 1 <= t[i].hblklev
        BY <1>1, <1>2, SlotMeans
    <2>2. t[i].hblklev = 0 \/ t[i].hblklev = 1
        BY <2>1
    <2>3. t[i].d # Undeclared
        BY <2>1 DEF Declared
    <2> QED BY <2>1, <2>2, <2>3 DEF TwoLevels
<1>3. CASE ~Taken(t, i)
    <2>1. t[i] = Free /\ Absent(sc, n, mos)
        BY <1>3, LookupAt
    <2>2. t[i].d = Undeclared
        BY <2>1, Constants
    <2> QED BY <1>1, <2>1, <2>2 DEF Absent, TwoLevels
<1> QED BY <1>2, <1>3

OnlyArg(sc, n, mos) == Entry(sc, 1, n, mos) \in {Undeclared, Arg1}
LEMMA EnteringMeans ==
    ASSUME NEW t, NEW sc, NEW n \in Names, NEW mos \in BOOLEAN, NEW lev \in {0, 1}, NEW i \in Slots, Entering(t, sc, n, mos, lev, i),
           OnlyArg(sc, n, mos), NEW d \in FileDecls, NEW m \in Names, NEW x \in BOOLEAN, NEW j, j = lookup(t, m, x)
    PROVE  t[j].d = TwoLevels(sc, m, x)
<1> DEFINE f == Filled(t[i], n, mos, d)
           u == Put(t, i, f)
           sc2 == Stores(sc, 0, n, mos, d)
<1>1. t \in Tables /\ sc \in Scopes /\ Waits(t[i], n, mos) /\ Entry(sc, 0, n, mos) = Undeclared
    BY DEF Entering
<1>2. Book(u, sc2, 1) /\ i = lookup(t, n, mos) /\ Room(t)
    BY EnteringSlot
<1>3. d \in Decls /\ d # Undeclared /\ d # Arg1 /\ Arg1 # Undeclared
    <2>1. d \in Decls /\ d # Undeclared
        BY FileDeclIs
    <2>2. d.hclass # "ARG1"
        BY DEF FileDecls, D
    <2> QED BY <2>1, <2>2, ArgIs
<1>4. /\ t[i].name = n /\ t[i].mos = mos /\ f \in Slot /\ f.name = n /\ f.mos = mos
      /\ \/ t[i].d = Undeclared /\ f = Fresh(n, mos, d)
         \/ t[i].d = Arg1 /\ f = Over(Fresh(n, mos, d), Arg1, 1)
    BY <1>1, <1>3, WaitsIs
<1>5. (t[i].d = Undeclared /\ f.d = d) \/ (t[i].d = Arg1 /\ f.d = Arg1)
    BY <1>3, <1>4, FreshIs
<1>6. 0 \in 0..MaxDepth /\ 1 \in 0..MaxDepth /\ 1 # 0
    BY Levels
<1> HIDE DEF f
<1>7. u[i] = f /\ \A q \in Slots : q # i => u[q] = t[q]
    BY <1>1, <1>4, PutAt
<1>8. lookup(u, m, x) = j
    <2>1. f.name = t[i].name /\ f.mos = t[i].mos
        BY <1>4
    <2>2. lookup(Put(t, i, f), m, x) = lookup(t, m, x)
        BY <1>1, <1>4, <2>1, SameLookup
    <2> QED BY <2>2
<1>9. Entry(sc2, 1, m, x) = Entry(sc, 1, m, x) /\ (<<m, x>> # <<n, mos>> => Entry(sc2, 0, m, x) = Entry(sc, 0, m, x)) /\ Entry(sc2, 0, n, mos) = d
    <2>1. <<m, x>> \in Keys /\ <<n, mos>> \in Keys
        BY DEF Keys
    <2>2. /\ sc2[0][<<n, mos>>] = d
          /\ \A l \in 0..MaxDepth, key \in Keys : l # 0 \/ key # <<n, mos>> => sc2[l][key] = sc[l][key]
        BY <1>1, <1>3, <1>6, StoresAt
    <2> HIDE DEF sc2
    <2>3. sc2[1][<<m, x>>] = sc[1][<<m, x>>] /\ (<<m, x>> # <<n, mos>> => sc2[0][<<m, x>>] = sc[0][<<m, x>>])
        BY <1>6, <2>1, <2>2, Zenon
    <2> QED BY <2>2, <2>3, Zenon DEF Entry
<1> HIDE DEF u, sc2
<1>10. Entry(sc, 1, n, mos) = Undeclared \/ Entry(sc, 1, n, mos) = Arg1
    BY Zenon DEF OnlyArg
<1>11. u[j].d = TwoLevels(sc2, m, x) /\ j \in Slots
    <2>1. j \in Slots
        BY <1>1, <1>2, LookupSlot
    <2> QED BY <1>2, <1>8, <2>1, BookMeans
<1>12. CASE <<m, x>> # <<n, mos>>
    <2>1. j # i
        <3> SUFFICES ASSUME j = i PROVE FALSE
            OBVIOUS
        <3>1. ~Taken(t, i) \/ Is(t, i, m, x)
            BY <1>1, <1>2, LookupSlot
        <3> QED BY <1>4, <1>12, <3>1, Constants DEF Taken, Is
    <2>2. TwoLevels(sc2, m, x) = TwoLevels(sc, m, x)
        BY <1>9, <1>12, Zenon DEF TwoLevels
    <2> QED BY <1>7, <1>11, <2>1, <2>2
<1>13. CASE <<m, x>> = <<n, mos>>
    <2>1. m = n /\ x = mos
        BY <1>13
    <2>2. j = i
        BY <1>2, <2>1
    <2>3. u[i].d = IF Entry(sc, 1, n, mos) # Undeclared THEN Entry(sc, 1, n, mos) ELSE d
        BY <1>9, <1>11, <2>1, <2>2 DEF TwoLevels
    <2>4. (t[i].d = Undeclared /\ u[i].d = d) \/ (t[i].d = Arg1 /\ u[i].d = Arg1)
        BY <1>5, <1>7
    <2>5. t[i].d = IF Entry(sc, 1, n, mos) # Undeclared THEN Entry(sc, 1, n, mos) ELSE Undeclared
        BY <1>3, <1>10, <2>3, <2>4
    <2> QED BY <1>1, <2>1, <2>2, <2>5 DEF TwoLevels
<1> QED BY <1>12, <1>13

LEMMA HasSlotMeans ==
    ASSUME NEW t, NEW sc, NEW n \in Names, NEW mos \in BOOLEAN, NEW lev \in {0, 1}, HasSlot(t, sc, n, mos, lev),
           OnlyArg(sc, n, mos), NEW m \in Names, NEW x \in BOOLEAN, NEW j, j = lookup(t, m, x)
    PROVE  t[j].d = TwoLevels(sc, m, x)
<1>1. CASE Known(t, sc, n, mos, lev)
    <2>1. Book(t, sc, 1)
        <3>1. Book(t, sc, lev)
            BY <1>1 DEF Known
        <3> QED BY <3>1, OpenedBook
    <2> QED BY <2>1, BookMeans
<1>2. ASSUME NEW i \in Slots, Entering(t, sc, n, mos, lev, i) PROVE t[j].d = TwoLevels(sc, m, x)
    <2>1. \E d \in FileDecls : TRUE
        BY DEF FileDecls
    <2>2. ASSUME NEW d \in FileDecls PROVE t[j].d = TwoLevels(sc, m, x)
        BY <1>2, EnteringMeans
    <2> QED BY <2>1, <2>2
<1> QED BY <1>1, <1>2 DEF HasSlot

LEMMA NamingResolves == ASSUME Naming PROVE Resolves
<1>1. /\ blklev = 1 /\ defsym \in Names /\ ParamLevel \in {0, 1} /\ HasSlot(hshtab, scopes, defsym, FALSE, ParamLevel)
      /\ OnlyArg(scopes, defsym, FALSE)
    BY DEF Naming, OnlyParameters, OnlyArg, ParamLevel
<1>2. ASSUME NEW m \in Names, NEW x \in BOOLEAN, NEW mos \in BOOLEAN, HasSlot(hshtab, scopes, defsym, mos, ParamLevel),
             OnlyArg(scopes, defsym, mos)
      PROVE  hshtab[lookup(hshtab, m, x)].d = Meaning(m, x)
    <2> DEFINE j == lookup(hshtab, m, x)
    <2>1. j = lookup(hshtab, m, x)
        OBVIOUS
    <2> HIDE DEF j
    <2>2. hshtab[j].d = TwoLevels(scopes, m, x)
        BY <1>1, <1>2, <2>1, HasSlotMeans
    <2>3. Meaning(m, x) = TwoLevels(scopes, m, x)
        BY <1>1, MeaningIs
    <2> QED BY <2>1, <2>2, <2>3
<1>3. ASSUME NEW m \in Names, NEW x \in BOOLEAN PROVE hshtab[lookup(hshtab, m, x)].d = Meaning(m, x)
    BY <1>1, <1>2
<1> QED BY <1>3, Zenon DEF Resolves

\* While parameters are read nothing in force above the file's level has a place.
LEMMA SlotPlaceless ==
    ASSUME NEW t, NEW sc, NEW n \in Names, NEW mos \in BOOLEAN, NEW lev \in {0, 1}, HasSlot(t, sc, n, mos, lev), Placeless(sc),
           NEW j \in Slots, NEW k \in 0..Depth(t[j]), Level(t[j], k) > 0
    PROVE  Decl(t[j], k).hoffset = 0
<1>1. CASE Known(t, sc, n, mos, lev)
    <2>1. Book(t, sc, lev)
        BY <1>1 DEF Known
    <2>2. PICK l \in 1..MaxDepth, key \in Keys : Decl(t[j], k) = sc[l][key]
        BY <2>1, ForceIs
    <2> QED BY <2>2, Zenon DEF Placeless
<1>2. ASSUME NEW i \in Slots, Entering(t, sc, n, mos, lev, i), NEW d \in FileDecls PROVE Decl(t[j], k).hoffset = 0
    <2> DEFINE f == Filled(t[i], n, mos, d)
               u == Put(t, i, f)
               sc2 == Stores(sc, 0, n, mos, d)
    <2>1. t \in Tables /\ sc \in Scopes /\ Waits(t[i], n, mos)
        BY <1>2 DEF Entering
    <2>2. Book(u, sc2, 1)
        BY <1>2, EnteringSlot
    <2>3. d \in Decls /\ d.hoffset = 0 /\ ~d.lab /\ Undeclared \in Decls /\ 0 \in 0..MaxDepth
        BY FileDeclIs, Constants, Levels
    <2>4. CASE j # i
        <3>1. f \in Slot
            BY <2>1, <2>3, WaitsIs
        <3> HIDE DEF f
        <3>2. u[j] = t[j]
            BY <2>1, <2>4, <3>1, PutAt
        <3>3. Placeless(sc2)
            BY <2>1, <2>3, PlacelessStore
        <3> HIDE DEF u, sc2
        <3>4. k \in 0..Depth(u[j]) /\ Level(u[j], k) > 0
            BY <3>2
        <3>5. PICK l \in 1..MaxDepth, key \in Keys : Decl(u[j], k) = sc2[l][key]
            BY <2>2, <3>4, ForceIs
        <3> QED BY <3>2, <3>3, <3>5, Zenon DEF Placeless
    <2>5. CASE j = i
        <3> DEFINE a == Fresh(n, mos, Undeclared)
        <3>1. a \in Slot /\ a.hblklev = 0 /\ a.d = Undeclared /\ a.hpdown = <<>>
            BY <2>3, FreshIs DEF Fresh, New
        <3>2. CASE t[i] = a
            <4>1. Depth(a) = 0
                BY <3>1 DEF Depth
            <4>2. k = 0
                BY <2>5, <3>2, <4>1
            <4>3. Level(a, 0) = 0
                BY <3>1 DEF Level
            <4> QED BY <2>5, <3>2, <4>2, <4>3
        <3>3. CASE t[i] = Over(a, Arg1, 1)
            <4> HIDE DEF a
            <4> DEFINE o == Over(a, Arg1, 1)
                       h == <<[d |-> a.d, hblklev |-> a.hblklev]>> \o a.hpdown
            <4>1. o.d = Arg1 /\ o.hpdown = h
                BY <3>1 DEF Over, Slot
            <4>2. Len(h) = 1 /\ h[1].d = Undeclared
                BY <3>1
            <4> HIDE DEF o, h
            <4>3. Depth(o) = 1
                BY <4>1, <4>2 DEF Depth
            <4>4. k = 0 \/ k = 1
                BY <2>5, <3>3, <4>3 DEF o
            <4>5. Decl(o, 0) = Arg1 /\ Decl(o, 1) = Undeclared
                BY <4>1, <4>2 DEF Decl
            <4>6. Arg1.hoffset = 0 /\ Undeclared.hoffset = 0
                BY ArgIs DEF Undeclared
            <4> QED BY <2>5, <3>3, <4>4, <4>5, <4>6 DEF o
        <3> QED BY <2>1, <3>2, <3>3, Zenon DEF Waits
    <2> QED BY <2>4, <2>5
<1>3. \E d \in FileDecls : TRUE
    BY DEF FileDecls
<1> QED BY <1>1, <1>2, <1>3 DEF HasSlot

LEMMA NamingStorage == ASSUME Naming, Apart PROVE StorageApart
<1>1. defsym \in Names /\ ParamLevel \in {0, 1} /\ HasSlot(hshtab, scopes, defsym, FALSE, ParamLevel)
    BY DEF Naming, ParamLevel
<1>2. Placeless(scopes)
    <2>1. where \in Outside
        BY DEF Naming, Outside
    <2> QED BY <2>1 DEF Apart, Frame
<1>3. ASSUME NEW z \in InForce, z[2] > 0, NEW mos \in BOOLEAN, HasSlot(hshtab, scopes, defsym, mos, ParamLevel) PROVE z[3].hoffset = 0
    <2>1. hshtab \in Tables
        BY <1>3 DEF HasSlot, Known, Entering, Book
    <2>2. PICK j \in Slots : \E k \in 0..Depth(hshtab[j]) : z = <<hshtab[j].name, Level(hshtab[j], k), Decl(hshtab[j], k)>>
        BY <2>1, InForceSlot
    <2>3. PICK k \in 0..Depth(hshtab[j]) : z = <<hshtab[j].name, Level(hshtab[j], k), Decl(hshtab[j], k)>>
        BY <2>2
    <2>4. Level(hshtab[j], k) > 0
        BY <1>3, <2>3
    <2>5. Decl(hshtab[j], k).hoffset = 0
        BY <1>1, <1>2, <1>3, <2>4, SlotPlaceless
    <2> QED BY <2>3, <2>5
<1>4. {z \in InForce : z[2] > 0 /\ z[3].hoffset # 0} = {}
    BY <1>1, <1>3
<1> QED BY <1>4 DEF StorageApart

LEMMA ApartStorage == ASSUME IInv, Apart PROVE StorageApart
<1>1. Book(hshtab, scopes, blklev) /\ scopes \in Scopes /\ autolen \in Int /\ maxauto \in Int
    BY DEF IInv, Table, Book, Storage
<1>2. AllGiven(scopes, autolen, regvar, isn, saved) /\ AllClear(scopes)
    BY DEF Apart
<1>3. ASSUME NEW x \in InForce, x[2] > 0, x[3].hoffset # 0, x[3].hclass = "AUTO", NEW w \in Span(x[3]) PROVE w >= maxauto
    <2>1. PICK l \in 1..MaxDepth, key \in Keys : OfScope(x, l, key)
        BY <1>1, <1>3, InForceIs
    <2>2. x[3] = scopes[l][key] /\ x[3] \in Decls
        BY <1>1, <2>1, InnerLevels, InScope DEF OfScope
    <2> DEFINE d == x[3]
    <2>3. Given(d, l, autolen, regvar, isn, saved)
        BY <1>2, <2>2, Zenon DEF AllGiven
    <2>4. d \in Decls /\ d.hoffset # 0 /\ d.hclass = "AUTO" /\ w \in Span(d)
        BY <1>3, <2>2
    <2>5. maxauto <= autolen
        <3>1. ~Placeless(scopes)
            BY <1>3, <2>2, Zenon DEF Placeless
        <3>2. where \notin Outside
            BY <3>1 DEF Apart, Frame
        <3>3. where \in Inside
            BY <3>2 DEF IInv, ReadingAt, Outside, Inside
        <3> QED BY <3>3 DEF Apart, Frame
    <2> HIDE DEF d
    <2>6. d.hoffset >= autolen
        BY <2>3, <2>4, Zenon DEF Given
    <2>7. d.hoffset \in Int /\ rlength(d.htype) \in Int
        BY <2>4, LengthInt DEF Decls
    <2>8. w \in Int /\ w >= d.hoffset
        BY <2>4, <2>7 DEF Span
    <2> QED BY <1>1, <2>5, <2>6, <2>7, <2>8
<1>4. ASSUME NEW x \in InForce, NEW y \in InForce, x[2] > 0, y[2] > 0, x[3].hoffset # 0, y[3].hoffset # 0, x # y,
             x[3].hclass = y[3].hclass \/ (x[3].lab /\ y[3].lab)
      PROVE  IF x[3].hclass = "AUTO" THEN Span(x[3]) \cap Span(y[3]) = {} ELSE x[3].hoffset # y[3].hoffset
    <2>1. PICK l \in 1..MaxDepth, k1 \in Keys : OfScope(x, l, k1)
        BY <1>1, <1>4, InForceIs
    <2>2. PICK m \in 1..MaxDepth, k2 \in Keys : OfScope(y, m, k2)
        BY <1>1, <1>4, InForceIs
    <2> DEFINE d == x[3]
               e == y[3]
    <2>3. x[3] = scopes[l][k1] /\ y[3] = scopes[m][k2] /\ x[3] \in Decls /\ y[3] \in Decls
        BY <1>1, <2>1, <2>2, InnerLevels, InScope DEF OfScope
    <2>4. l # m \/ k1 # k2
        BY <1>4, <2>1, <2>2, Zenon DEF OfScope
    <2>5. Clear(d, e)
        BY <1>2, <2>3, <2>4, Zenon DEF AllClear
    <2>6. Given(d, l, autolen, regvar, isn, saved) /\ Given(e, m, autolen, regvar, isn, saved)
        BY <1>2, <2>3, Zenon DEF AllGiven
    <2>7. d \in Decls /\ e \in Decls /\ d.hoffset # 0 /\ e.hoffset # 0 /\ (d.hclass = e.hclass \/ (d.lab /\ e.lab))
        BY <1>4, <2>3
    <2> HIDE DEF d, e
    <2>8. /\ d.lab => d.hclass \in {"", "STATIC"}
          /\ d.lab \/ d.hclass \in {"AUTO", "REG", "STATIC"}
          /\ e.lab => e.hclass \in {"", "STATIC"}
          /\ e.lab \/ e.hclass \in {"AUTO", "REG", "STATIC"}
        BY <2>6, <2>7, Zenon DEF Given
    <2>9. CASE d.hclass = "AUTO"
        <3>1. e.hclass = "AUTO"
            BY <2>7, <2>8, <2>9
        <3>2. Span(d) \cap Span(e) = {}
            BY <2>5, <2>7, <2>9, <3>1, SpansApart DEF Clear
        <3> QED BY <2>9, <3>2 DEF d, e
    <2>10. CASE d.hclass # "AUTO"
        <3>1. (d.hclass = "REG" /\ e.hclass = "REG") \/ (Marked(d) /\ Marked(e))
            BY <2>7, <2>8, <2>10 DEF Marked
        <3>2. d.hoffset # e.hoffset
            BY <2>5, <2>7, <3>1, Zenon DEF Clear
        <3> QED BY <2>10, <3>2 DEF d, e
    <2> QED BY <2>9, <2>10
<1> QED BY <1>3, <1>4 DEF StorageApart

---------------------------------------------------------------------------
(* The theorems.                                                           *)

(* After every declarator, mention and end of a block, whatever the names  *)
(* and wherever lookup starts for them: the table and C's scopes agree     *)
(* slot by slot, a name's pushed-down declarations being C's outer ones,   *)
(* and what a block declares with a place lies in what has been given out. *)
Inv == Reading /\ Apart

LEMMA InitInv == ASSUME Init PROVE Inv
BY InitIInv, InitApart DEF Inv, Reading

\* Every other step keeps what was left.
LEMMA OnlyOverflow == ASSUME [Next]_vars, stray, ~stray' PROVE \E n \in Names, mos \in BOOLEAN : Overflow(n, mos)
<1>1. ASSUME NEW n \in Names, NEW class \in {"EXTERN", "TYPEDEF"} PROVE ~extdef(n, class, "int")
    BY DEF extdef
<1>2. ASSUME NEW n \in Names PROVE ~Function(n) /\ ~Parameter(n) /\ ~Member(n) /\ ~simplegoto(n) /\ ~Labelled(n)
    <2>1. ~Function(n)
        BY DEF Function
    <2>2. ~Parameter(n)
        BY DEF Parameter
    <2>3. ~Member(n)
        BY DEF Member
    <2>4. ~simplegoto(n)
        BY DEF simplegoto
    <2>5. ~Labelled(n)
        BY DEF Labelled
    <2> QED BY <2>1, <2>2, <2>3, <2>4, <2>5
<1>3. ~cfunc /\ ~funchead /\ ~blockhead /\ ~BlockEnds
    <2>1. ~cfunc
        BY DEF cfunc
    <2>2. ~funchead
        BY DEF funchead
    <2>3. ~blockhead
        BY DEF blockhead
    <2>4. ~BlockEnds
        BY DEF BlockEnds
    <2> QED BY <2>1, <2>2, <2>3, <2>4
<1>4. ASSUME NEW class \in {"EXTERN", "TYPEDEF"}, NEW type \in {"int", "fn"} PROVE ~NoBody(class, type)
    BY DEF NoBody
<1>5. ASSUME NEW n \in Names, NEW class \in {"ARG", "AREG"}, NEW type \in {"int", "double"} PROVE ~Argument(n, class, type)
    BY DEF Argument
<1>6. ASSUME NEW n \in Names, NEW kind \in Kinds PROVE ~Declaration(n, kind[1], kind[2])
    BY DEF Declaration
<1>7. ASSUME NEW n \in Names, NEW b \in BOOLEAN PROVE ~strdec(n, b) /\ ~Mention(n, b)
    <2>1. ~strdec(n, b)
        BY DEF strdec
    <2>2. ~Mention(n, b)
        BY DEF Mention
    <2> QED BY <2>1, <2>2
<1>8. ~UNCHANGED vars
    BY DEF vars
<1> QED BY <1>1, <1>2, <1>3, <1>4, <1>5, <1>6, <1>7, <1>8, Zenon DEF Next

LEMMA StepInv == ASSUME ~stray => Inv, [Next]_vars PROVE ~stray' => Inv'
<1> SUFFICES ASSUME ~stray' PROVE Inv'
    OBVIOUS
<1>1. CASE ~stray
    <2>1. Reading /\ Apart
        BY <1>1 DEF Inv
    <2> QED BY <2>1, StepReading, StepApart DEF Inv
\* Only the end of the compilation forgets that parameters were left.
<1>2. CASE stray
    <2>1. PICK n \in Names, mos \in BOOLEAN : Overflow(n, mos)
        BY <1>2, OnlyOverflow
    <2>2. IInv'
        BY <2>1, OverflowStep
    <2>3. Apart'
        BY <2>1, OverflowApart
    <2> QED BY <2>2, <2>3 DEF Inv, Reading
<1> QED BY <1>1, <1>2

(* After every declarator, mention and end of a block, whatever the names  *)
(* and wherever lookup starts for them, in a file that declares no         *)
(* parameters without a body: the table and C's scopes agree slot by slot, *)
(* a name's pushed-down declarations being C's outer ones, or, while a     *)
(* declarator's parameters are read, all but its name's slot do; and what  *)
(* a block declares with a place lies in what has been given out.          *)
THEOREM Invariant == Spec => [](~stray => Inv)
<1>1. Init => (~stray => Inv)
    BY InitInv
<1>2. (~stray => Inv) /\ [Next]_vars => (~stray => Inv)'
    BY StepInv
<1> QED BY <1>1, <1>2, PTL DEF Spec

(* lookup answers what C's innermost scope says of a name, a member, a tag *)
(* or a label, however often blkend deleted, popped and rehashed entries   *)
(* that collided with it, unless parameters were left with no body.        *)
THEOREM NamesResolve == Spec => [](~stray => Resolves)
<1>1. (~stray => Inv) => (~stray => Resolves)
    BY BookResolves, NamingResolves DEF Inv, Reading, IInv, Table
<1> QED BY <1>1, Invariant, PTL

(* The same, and the declarations in force, hidden ones included, share no *)
(* word of the frame, no register and no label, within the frame that the  *)
(* function's prologue reserves (maxauto).                                 *)
THEOREM DeclarationsAlwaysHold == Spec => []DeclarationsHold
<1>1. (~stray => Inv) => DeclarationsHold
    <2>1. Inv => Resolves
        BY BookResolves, NamingResolves DEF Inv, Reading, IInv, Table
    <2>2. Inv => StorageApart
        BY ApartStorage, NamingStorage DEF Inv, Reading
    <2> QED BY <2>1, <2>2 DEF DeclarationsHold
<1> QED BY <1>1, Invariant, PTL
=============================================================================
