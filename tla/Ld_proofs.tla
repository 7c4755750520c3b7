------------------------------ MODULE Ld_proofs ------------------------------
(***************************************************************************)
(* Theorems about how ld searches archives, for any objects, any symbols   *)
(* and archives of any length.                                             *)
(***************************************************************************)
EXTENDS Ld, FiniteSetTheorems, WellFoundedInduction, TLAPS

---------------------------------------------------------------------------
(* Natural numbers and recursion.                                          *)

LEMMA LeastNat ==
    ASSUME NEW T \in SUBSET Nat, T # {}
    PROVE  \E x \in T : \A y \in T : x <= y
<1> DEFINE R == {ss \in Nat \X Nat : ss[1] < ss[2]}
<1>1. IsWellFoundedOn(R, Nat)
    BY NatLessThanWellFounded DEF OpToRel
<1>2. PICK x \in T : \A y \in T : <<y, x>> \notin R
    BY <1>1, WFMin, Zenon
<1>3. ASSUME NEW y \in T PROVE x <= y
    <2>1. x \in Nat /\ y \in Nat
        OBVIOUS
    <2>2. ~(y < x)
        BY <1>2, <2>1
    <2> QED BY <2>1, <2>2, SMT
<1> QED BY <1>3

\* What holds at 0 and of k + 1 when of k holds up to b.
LEMMA UpTo ==
    ASSUME NEW b \in Nat, NEW S, 0 \in S,
           \A k \in 0..(b - 1) : k \in S => k + 1 \in S
    PROVE  \A k \in 0..b : k \in S
<1> DEFINE T == {k \in 0..b : k \notin S}
<1> SUFFICES ASSUME T # {} PROVE FALSE
    OBVIOUS
<1>1. PICK m \in T : \A y \in T : m <= y
    <2>1. T \in SUBSET Nat
        OBVIOUS
    <2> HIDE DEF T
    <2> QED BY <2>1, LeastNat
<1>2. m \in 0..b /\ m \notin S /\ m # 0
    BY <1>1
<1>3. m - 1 \in 0..(b - 1) /\ m - 1 \in 0..b
    BY <1>2
<1>4. m - 1 \in S
    BY <1>1, <1>3
<1>5. (m - 1) + 1 \in S
    BY <1>3, <1>4
<1> QED BY <1>2, <1>5

---------------------------------------------------------------------------
(* The functions ld's loops are: each is defined, and as its equations say.  *)

\* load1 over the symbols of an object.
LEMMA TakingIs ==
    ASSUME NEW tab, NEW o, NEW cur, Len(o.syms) \in Nat
    PROVE  \E f : /\ f[0] = [tab EXCEPT !.ndef = 0]
                  /\ \A k \in 1..Len(o.syms) : f[k] = TakeSymbol(f[k - 1], symreloc(o.syms[k], Place(o, tab.size)), cur)
                  /\ TakeSymbols(tab, o, cur) = f[Len(o.syms)]
<1> DEFINE base == [tab EXCEPT !.ndef = 0]
           St(x, k) == TakeSymbol(x, symreloc(o.syms[k], Place(o, tab.size)), cur)
           P(m, f) == f = [k \in 0..m |-> IF k = 0 THEN base ELSE St(f[k - 1], k)]
           S == {m \in 0..Len(o.syms) : \E f : P(m, f)}
           h == CHOOSE f : P(Len(o.syms), f)
<1>1. 0 \in S
    <2> DEFINE f0 == [k \in 0..0 |-> base]
    <2> HIDE DEF base, St
    <2>1. P(0, f0)
        <3>1. \A k \in 0..0 : k = 0
            OBVIOUS
        <3> QED BY <3>1
    <2>2. 0 \in 0..Len(o.syms)
        OBVIOUS
    <2> QED BY <2>1, <2>2
<1>2. ASSUME NEW m \in 0..(Len(o.syms) - 1), m \in S PROVE m + 1 \in S
    <2> HIDE DEF base, St
    <2>1. PICK f : P(m, f)
        BY <1>2
    <2> DEFINE g == [k \in 0..(m + 1) |-> IF k = m + 1 THEN St(f[m], m + 1) ELSE f[k]]
               G == [k \in 0..(m + 1) |-> IF k = 0 THEN base ELSE St(g[k - 1], k)]
    <2>2. ASSUME NEW k \in 0..(m + 1) PROVE g[k] = G[k]
        <3>1. CASE k = m + 1
            <4>1. k # 0 /\ k - 1 = m /\ m \in 0..(m + 1) /\ m # m + 1
                BY <3>1
            <4>2. g[k] = St(f[m], m + 1) /\ g[m] = f[m] /\ G[k] = St(g[k - 1], k)
                BY <3>1, <4>1
            <4> HIDE DEF g, G
            <4> QED BY <3>1, <4>1, <4>2
        <3>2. CASE k # m + 1 /\ k # 0
            <4>1. k \in 0..m /\ k - 1 \in 0..(m + 1) /\ k - 1 # m + 1
                BY <3>2
            <4>2. g[k] = f[k] /\ g[k - 1] = f[k - 1] /\ G[k] = St(g[k - 1], k)
                BY <3>2, <4>1
            <4>3. f[k] = St(f[k - 1], k)
                BY <2>1, <3>2, <4>1
            <4> HIDE DEF g, G
            <4> QED BY <4>2, <4>3
        <3>3. CASE k = 0
            <4>1. 0 \in 0..m /\ 0 # m + 1
                OBVIOUS
            <4>2. f[0] = base
                BY <2>1, <4>1
            <4> QED BY <3>3, <4>1, <4>2
        <3> QED BY <3>1, <3>2, <3>3
    <2>3. g = [k \in 0..(m + 1) |-> g[k]] /\ G = [k \in 0..(m + 1) |-> G[k]]
        OBVIOUS
    <2>4. g = G
        <3> HIDE DEF g, G
        <3> QED BY <2>2, <2>3
    <2>5. P(m + 1, g)
        <3> HIDE DEF g
        <3> QED BY <2>4
    <2>6. m + 1 \in 0..Len(o.syms)
        OBVIOUS
    <2> HIDE DEF P
    <2> QED BY <2>5, <2>6
<1>3. \E f : P(Len(o.syms), f)
    <2> HIDE DEF S
    <2>1. Len(o.syms) \in S
        <3>1. \A k \in 0..Len(o.syms) : k \in S
            BY <1>1, <1>2, UpTo
        <3> QED BY <3>1
    <2> QED BY <2>1 DEF S
<1>4. P(Len(o.syms), h)
    <2> HIDE DEF P
    <2> QED BY <1>3
<1>5. TakeSymbols(tab, o, cur) = h[Len(o.syms)]
    BY Zenon DEF TakeSymbols
<1>6. h[0] = base /\ \A k \in 1..Len(o.syms) : h[k] = St(h[k - 1], k)
    <2> HIDE DEF h, base, St
    <2>1. 0 \in 0..Len(o.syms) /\ \A k \in 1..Len(o.syms) : k \in 0..Len(o.syms) /\ k # 0
        OBVIOUS
    <2> QED BY <1>4, <2>1
<1> HIDE DEF h
<1> QED BY <1>5, <1>6

\* The members of an archive without a table.
Member(t, o, cur) == load1(t, o, TRUE, cur)
LEMMA ScanningIs ==
    ASSUME NEW tab, NEW lib, NEW cur, Len(lib) \in Nat
    PROVE  \E f : /\ f[0] = tab
                  /\ \A k \in 1..Len(lib) : f[k] = Member(f[k - 1], lib[k], cur)
                  /\ scan(tab, lib, cur) = f[Len(lib)]
<1> DEFINE base == tab
           St(x, k) == Member(x, lib[k], cur)
           P(m, f) == f = [k \in 0..m |-> IF k = 0 THEN base ELSE St(f[k - 1], k)]
           S == {m \in 0..Len(lib) : \E f : P(m, f)}
           h == CHOOSE f : P(Len(lib), f)
<1>1. 0 \in S
    <2> DEFINE f0 == [k \in 0..0 |-> base]
    <2> HIDE DEF base, St
    <2>1. P(0, f0)
        <3>1. \A k \in 0..0 : k = 0
            OBVIOUS
        <3> QED BY <3>1
    <2>2. 0 \in 0..Len(lib)
        OBVIOUS
    <2> QED BY <2>1, <2>2
<1>2. ASSUME NEW m \in 0..(Len(lib) - 1), m \in S PROVE m + 1 \in S
    <2> HIDE DEF base, St
    <2>1. PICK f : P(m, f)
        BY <1>2
    <2> DEFINE g == [k \in 0..(m + 1) |-> IF k = m + 1 THEN St(f[m], m + 1) ELSE f[k]]
               G == [k \in 0..(m + 1) |-> IF k = 0 THEN base ELSE St(g[k - 1], k)]
    <2>2. ASSUME NEW k \in 0..(m + 1) PROVE g[k] = G[k]
        <3>1. CASE k = m + 1
            <4>1. k # 0 /\ k - 1 = m /\ m \in 0..(m + 1) /\ m # m + 1
                BY <3>1
            <4>2. g[k] = St(f[m], m + 1) /\ g[m] = f[m] /\ G[k] = St(g[k - 1], k)
                BY <3>1, <4>1
            <4> HIDE DEF g, G
            <4> QED BY <3>1, <4>1, <4>2
        <3>2. CASE k # m + 1 /\ k # 0
            <4>1. k \in 0..m /\ k - 1 \in 0..(m + 1) /\ k - 1 # m + 1
                BY <3>2
            <4>2. g[k] = f[k] /\ g[k - 1] = f[k - 1] /\ G[k] = St(g[k - 1], k)
                BY <3>2, <4>1
            <4>3. f[k] = St(f[k - 1], k)
                BY <2>1, <3>2, <4>1
            <4> HIDE DEF g, G
            <4> QED BY <4>2, <4>3
        <3>3. CASE k = 0
            <4>1. 0 \in 0..m /\ 0 # m + 1
                OBVIOUS
            <4>2. f[0] = base
                BY <2>1, <4>1
            <4> QED BY <3>3, <4>1, <4>2
        <3> QED BY <3>1, <3>2, <3>3
    <2>3. g = [k \in 0..(m + 1) |-> g[k]] /\ G = [k \in 0..(m + 1) |-> G[k]]
        OBVIOUS
    <2>4. g = G
        <3> HIDE DEF g, G
        <3> QED BY <2>2, <2>3
    <2>5. P(m + 1, g)
        <3> HIDE DEF g
        <3> QED BY <2>4
    <2>6. m + 1 \in 0..Len(lib)
        OBVIOUS
    <2> HIDE DEF P
    <2> QED BY <2>5, <2>6
<1>3. \E f : P(Len(lib), f)
    <2> HIDE DEF S
    <2>1. Len(lib) \in S
        <3>1. \A k \in 0..Len(lib) : k \in S
            BY <1>1, <1>2, UpTo
        <3> QED BY <3>1
    <2> QED BY <2>1 DEF S
<1>4. P(Len(lib), h)
    <2> HIDE DEF P
    <2> QED BY <1>3
<1>5. scan(tab, lib, cur) = h[Len(lib)]
    BY Zenon DEF scan, Member
<1>6. h[0] = base /\ \A k \in 1..Len(lib) : h[k] = St(h[k - 1], k)
    <2> HIDE DEF h, base, St
    <2>1. 0 \in 0..Len(lib) /\ \A k \in 1..Len(lib) : k \in 0..Len(lib) /\ k # 0
        OBVIOUS
    <2> QED BY <1>4, <2>1
<1> HIDE DEF h
<1> QED BY <1>5, <1>6

\* The entries of a member.
LEMMA TryingIs ==
    ASSUME NEW tab, NEW o, NEW cur, Len(o.syms) \in Nat
    PROVE  \E f : /\ f[0] = tab
                  /\ \A k \in 1..Len(o.syms) : f[k] = step(f[k - 1], o, k, cur)
                  /\ Try(tab, o, cur) = f[Len(o.syms)]
<1> DEFINE base == tab
           St(x, k) == step(x, o, k, cur)
           P(m, f) == f = [k \in 0..m |-> IF k = 0 THEN base ELSE St(f[k - 1], k)]
           S == {m \in 0..Len(o.syms) : \E f : P(m, f)}
           h == CHOOSE f : P(Len(o.syms), f)
<1>1. 0 \in S
    <2> DEFINE f0 == [k \in 0..0 |-> base]
    <2> HIDE DEF base, St
    <2>1. P(0, f0)
        <3>1. \A k \in 0..0 : k = 0
            OBVIOUS
        <3> QED BY <3>1
    <2>2. 0 \in 0..Len(o.syms)
        OBVIOUS
    <2> QED BY <2>1, <2>2
<1>2. ASSUME NEW m \in 0..(Len(o.syms) - 1), m \in S PROVE m + 1 \in S
    <2> HIDE DEF base, St
    <2>1. PICK f : P(m, f)
        BY <1>2
    <2> DEFINE g == [k \in 0..(m + 1) |-> IF k = m + 1 THEN St(f[m], m + 1) ELSE f[k]]
               G == [k \in 0..(m + 1) |-> IF k = 0 THEN base ELSE St(g[k - 1], k)]
    <2>2. ASSUME NEW k \in 0..(m + 1) PROVE g[k] = G[k]
        <3>1. CASE k = m + 1
            <4>1. k # 0 /\ k - 1 = m /\ m \in 0..(m + 1) /\ m # m + 1
                BY <3>1
            <4>2. g[k] = St(f[m], m + 1) /\ g[m] = f[m] /\ G[k] = St(g[k - 1], k)
                BY <3>1, <4>1
            <4> HIDE DEF g, G
            <4> QED BY <3>1, <4>1, <4>2
        <3>2. CASE k # m + 1 /\ k # 0
            <4>1. k \in 0..m /\ k - 1 \in 0..(m + 1) /\ k - 1 # m + 1
                BY <3>2
            <4>2. g[k] = f[k] /\ g[k - 1] = f[k - 1] /\ G[k] = St(g[k - 1], k)
                BY <3>2, <4>1
            <4>3. f[k] = St(f[k - 1], k)
                BY <2>1, <3>2, <4>1
            <4> HIDE DEF g, G
            <4> QED BY <4>2, <4>3
        <3>3. CASE k = 0
            <4>1. 0 \in 0..m /\ 0 # m + 1
                OBVIOUS
            <4>2. f[0] = base
                BY <2>1, <4>1
            <4> QED BY <3>3, <4>1, <4>2
        <3> QED BY <3>1, <3>2, <3>3
    <2>3. g = [k \in 0..(m + 1) |-> g[k]] /\ G = [k \in 0..(m + 1) |-> G[k]]
        OBVIOUS
    <2>4. g = G
        <3> HIDE DEF g, G
        <3> QED BY <2>2, <2>3
    <2>5. P(m + 1, g)
        <3> HIDE DEF g
        <3> QED BY <2>4
    <2>6. m + 1 \in 0..Len(o.syms)
        OBVIOUS
    <2> HIDE DEF P
    <2> QED BY <2>5, <2>6
<1>3. \E f : P(Len(o.syms), f)
    <2> HIDE DEF S
    <2>1. Len(o.syms) \in S
        <3>1. \A k \in 0..Len(o.syms) : k \in S
            BY <1>1, <1>2, UpTo
        <3> QED BY <3>1
    <2> QED BY <2>1 DEF S
<1>4. P(Len(o.syms), h)
    <2> HIDE DEF P
    <2> QED BY <1>3
<1>5. Try(tab, o, cur) = h[Len(o.syms)]
    BY Zenon DEF Try
<1>6. h[0] = base /\ \A k \in 1..Len(o.syms) : h[k] = St(h[k - 1], k)
    <2> HIDE DEF h, base, St
    <2>1. 0 \in 0..Len(o.syms) /\ \A k \in 1..Len(o.syms) : k \in 0..Len(o.syms) /\ k # 0
        OBVIOUS
    <2> QED BY <1>4, <2>1
<1> HIDE DEF h
<1> QED BY <1>5, <1>6

\* The members of an archive with a table, once.
LEMMA RoundIs ==
    ASSUME NEW tab, NEW lib, NEW cur, Len(lib) \in Nat
    PROVE  \E f : /\ f[0] = tab
                  /\ \A k \in 1..Len(lib) : f[k] = Try(f[k - 1], lib[k], cur)
                  /\ ldrand(tab, lib, cur) = f[Len(lib)]
<1> DEFINE base == tab
           St(x, k) == Try(x, lib[k], cur)
           P(m, f) == f = [k \in 0..m |-> IF k = 0 THEN base ELSE St(f[k - 1], k)]
           S == {m \in 0..Len(lib) : \E f : P(m, f)}
           h == CHOOSE f : P(Len(lib), f)
<1>1. 0 \in S
    <2> DEFINE f0 == [k \in 0..0 |-> base]
    <2> HIDE DEF base, St
    <2>1. P(0, f0)
        <3>1. \A k \in 0..0 : k = 0
            OBVIOUS
        <3> QED BY <3>1
    <2>2. 0 \in 0..Len(lib)
        OBVIOUS
    <2> QED BY <2>1, <2>2
<1>2. ASSUME NEW m \in 0..(Len(lib) - 1), m \in S PROVE m + 1 \in S
    <2> HIDE DEF base, St
    <2>1. PICK f : P(m, f)
        BY <1>2
    <2> DEFINE g == [k \in 0..(m + 1) |-> IF k = m + 1 THEN St(f[m], m + 1) ELSE f[k]]
               G == [k \in 0..(m + 1) |-> IF k = 0 THEN base ELSE St(g[k - 1], k)]
    <2>2. ASSUME NEW k \in 0..(m + 1) PROVE g[k] = G[k]
        <3>1. CASE k = m + 1
            <4>1. k # 0 /\ k - 1 = m /\ m \in 0..(m + 1) /\ m # m + 1
                BY <3>1
            <4>2. g[k] = St(f[m], m + 1) /\ g[m] = f[m] /\ G[k] = St(g[k - 1], k)
                BY <3>1, <4>1
            <4> HIDE DEF g, G
            <4> QED BY <3>1, <4>1, <4>2
        <3>2. CASE k # m + 1 /\ k # 0
            <4>1. k \in 0..m /\ k - 1 \in 0..(m + 1) /\ k - 1 # m + 1
                BY <3>2
            <4>2. g[k] = f[k] /\ g[k - 1] = f[k - 1] /\ G[k] = St(g[k - 1], k)
                BY <3>2, <4>1
            <4>3. f[k] = St(f[k - 1], k)
                BY <2>1, <3>2, <4>1
            <4> HIDE DEF g, G
            <4> QED BY <4>2, <4>3
        <3>3. CASE k = 0
            <4>1. 0 \in 0..m /\ 0 # m + 1
                OBVIOUS
            <4>2. f[0] = base
                BY <2>1, <4>1
            <4> QED BY <3>3, <4>1, <4>2
        <3> QED BY <3>1, <3>2, <3>3
    <2>3. g = [k \in 0..(m + 1) |-> g[k]] /\ G = [k \in 0..(m + 1) |-> G[k]]
        OBVIOUS
    <2>4. g = G
        <3> HIDE DEF g, G
        <3> QED BY <2>2, <2>3
    <2>5. P(m + 1, g)
        <3> HIDE DEF g
        <3> QED BY <2>4
    <2>6. m + 1 \in 0..Len(lib)
        OBVIOUS
    <2> HIDE DEF P
    <2> QED BY <2>5, <2>6
<1>3. \E f : P(Len(lib), f)
    <2> HIDE DEF S
    <2>1. Len(lib) \in S
        <3>1. \A k \in 0..Len(lib) : k \in S
            BY <1>1, <1>2, UpTo
        <3> QED BY <3>1
    <2> QED BY <2>1 DEF S
<1>4. P(Len(lib), h)
    <2> HIDE DEF P
    <2> QED BY <1>3
<1>5. ldrand(tab, lib, cur) = h[Len(lib)]
    BY Zenon DEF ldrand
<1>6. h[0] = base /\ \A k \in 1..Len(lib) : h[k] = St(h[k - 1], k)
    <2> HIDE DEF h, base, St
    <2>1. 0 \in 0..Len(lib) /\ \A k \in 1..Len(lib) : k \in 0..Len(lib) /\ k # 0
        OBVIOUS
    <2> QED BY <1>4, <2>1
<1> HIDE DEF h
<1> QED BY <1>5, <1>6

\* And as often as there are members.
LEMMA RoundsIs ==
    ASSUME NEW tab, NEW lib, NEW cur, Len(lib) \in Nat
    PROVE  \E f : /\ f[0] = tab
                  /\ \A k \in 1..Len(lib) : f[k] = ldrand(f[k - 1], lib, cur)
                  /\ rescan(tab, lib, cur) = f[Len(lib)]
<1> DEFINE base == tab
           St(x, k) == ldrand(x, lib, cur)
           P(m, f) == f = [k \in 0..m |-> IF k = 0 THEN base ELSE St(f[k - 1], k)]
           S == {m \in 0..Len(lib) : \E f : P(m, f)}
           h == CHOOSE f : P(Len(lib), f)
<1>1. 0 \in S
    <2> DEFINE f0 == [k \in 0..0 |-> base]
    <2> HIDE DEF base, St
    <2>1. P(0, f0)
        <3>1. \A k \in 0..0 : k = 0
            OBVIOUS
        <3> QED BY <3>1
    <2>2. 0 \in 0..Len(lib)
        OBVIOUS
    <2> QED BY <2>1, <2>2
<1>2. ASSUME NEW m \in 0..(Len(lib) - 1), m \in S PROVE m + 1 \in S
    <2> HIDE DEF base, St
    <2>1. PICK f : P(m, f)
        BY <1>2
    <2> DEFINE g == [k \in 0..(m + 1) |-> IF k = m + 1 THEN St(f[m], m + 1) ELSE f[k]]
               G == [k \in 0..(m + 1) |-> IF k = 0 THEN base ELSE St(g[k - 1], k)]
    <2>2. ASSUME NEW k \in 0..(m + 1) PROVE g[k] = G[k]
        <3>1. CASE k = m + 1
            <4>1. k # 0 /\ k - 1 = m /\ m \in 0..(m + 1) /\ m # m + 1
                BY <3>1
            <4>2. g[k] = St(f[m], m + 1) /\ g[m] = f[m] /\ G[k] = St(g[k - 1], k)
                BY <3>1, <4>1
            <4> HIDE DEF g, G
            <4> QED BY <3>1, <4>1, <4>2
        <3>2. CASE k # m + 1 /\ k # 0
            <4>1. k \in 0..m /\ k - 1 \in 0..(m + 1) /\ k - 1 # m + 1
                BY <3>2
            <4>2. g[k] = f[k] /\ g[k - 1] = f[k - 1] /\ G[k] = St(g[k - 1], k)
                BY <3>2, <4>1
            <4>3. f[k] = St(f[k - 1], k)
                BY <2>1, <3>2, <4>1
            <4> HIDE DEF g, G
            <4> QED BY <4>2, <4>3
        <3>3. CASE k = 0
            <4>1. 0 \in 0..m /\ 0 # m + 1
                OBVIOUS
            <4>2. f[0] = base
                BY <2>1, <4>1
            <4> QED BY <3>3, <4>1, <4>2
        <3> QED BY <3>1, <3>2, <3>3
    <2>3. g = [k \in 0..(m + 1) |-> g[k]] /\ G = [k \in 0..(m + 1) |-> G[k]]
        OBVIOUS
    <2>4. g = G
        <3> HIDE DEF g, G
        <3> QED BY <2>2, <2>3
    <2>5. P(m + 1, g)
        <3> HIDE DEF g
        <3> QED BY <2>4
    <2>6. m + 1 \in 0..Len(lib)
        OBVIOUS
    <2> HIDE DEF P
    <2> QED BY <2>5, <2>6
<1>3. \E f : P(Len(lib), f)
    <2> HIDE DEF S
    <2>1. Len(lib) \in S
        <3>1. \A k \in 0..Len(lib) : k \in S
            BY <1>1, <1>2, UpTo
        <3> QED BY <3>1
    <2> QED BY <2>1 DEF S
<1>4. P(Len(lib), h)
    <2> HIDE DEF P
    <2> QED BY <1>3
<1>5. rescan(tab, lib, cur) = h[Len(lib)]
    BY Zenon DEF rescan
<1>6. h[0] = base /\ \A k \in 1..Len(lib) : h[k] = St(h[k - 1], k)
    <2> HIDE DEF h, base, St
    <2>1. 0 \in 0..Len(lib) /\ \A k \in 1..Len(lib) : k \in 0..Len(lib) /\ k # 0
        OBVIOUS
    <2> QED BY <1>4, <2>1
<1> HIDE DEF h
<1> QED BY <1>5, <1>6

---------------------------------------------------------------------------
(* The symbol table.  Its entries are records; those in use have a name    *)
(* each, and a size or 0 if they are undefined.                            *)

IsEntry(y) == y = [n |-> y.n, k |-> y.k, v |-> y.v, ov |-> y.ov, ova |-> y.ova]
Entries(sym, index) ==
    /\ IsSequence(sym) /\ index \in Nat /\ index <= Len(sym)
    /\ \A i \in 1..Len(sym) : IsEntry(sym[i])
    /\ \A i \in 1..index : sym[i].k = "U" => sym[i].v \in Nat
    /\ \A i, j \in 1..index : sym[i].n = sym[j].n => i = j
IsTable(t) ==
    /\ t = [sym |-> t.sym, index |-> t.index, ndef |-> t.ndef, size |-> t.size, libs |-> t.libs]
    /\ Entries(t.sym, t.index) /\ t.ndef \in Nat /\ IsSequence(t.libs)

LEMMA Appended ==
    ASSUME NEW s, IsSequence(s), NEW e
    PROVE  /\ IsSequence(Append(s, e)) /\ Len(Append(s, e)) = Len(s) + 1 /\ Append(s, e)[Len(s) + 1] = e
           /\ \A i \in 1..Len(s) : Append(s, e)[i] = s[i]
<1> DEFINE X == {s[i] : i \in 1..Len(s)} \union {e}
<1>1. s \in Seq(X) /\ e \in X
    <2>1. s \in [1..Len(s) -> X] /\ Len(s) \in Nat
        BY DEF IsSequence
    <2> HIDE DEF X
    <2> QED BY <2>1, SMT DEF X
<1> HIDE DEF X
<1>2. Append(s, e) \in Seq(X) /\ Len(Append(s, e)) = Len(s) + 1
    BY <1>1
<1>3. IsSequence(Append(s, e))
    <2> DEFINE u == Append(s, e)
    <2> HIDE DEF u
    <2>1. u \in Seq(X)
        BY <1>2 DEF u
    <2>2. IsSequence(u)
        BY <2>1 DEF IsSequence
    <2> QED BY <2>2 DEF u
<1> QED BY <1>1, <1>2, <1>3

\* An entry of a sequence replaced.
Put(s, i, e) == [s EXCEPT ![i] = e]
LEMMA Replaced ==
    ASSUME NEW s, IsSequence(s), NEW i, i \in 1..Len(s), NEW e
    PROVE  /\ IsSequence(Put(s, i, e)) /\ Len(Put(s, i, e)) = Len(s) /\ Put(s, i, e)[i] = e
           /\ \A j \in 1..Len(s) : j # i => Put(s, i, e)[j] = s[j]
<1> DEFINE r == Put(s, i, e)
<1>1. r = [s EXCEPT ![i] = e]
    BY DEF Put
<1> HIDE DEF r
<1> DEFINE X == {s[j] : j \in 1..Len(s)} \union {e}
<1>2. s \in [1..Len(s) -> X] /\ e \in X /\ Len(s) \in Nat
    BY DEF IsSequence
<1>3. r \in [1..Len(s) -> X] /\ r[i] = e /\ \A j \in 1..Len(s) : j # i => r[j] = s[j]
    <2> HIDE DEF X
    <2> QED BY <1>1, <1>2
<1>4. r \in Seq(X) /\ Len(r) = Len(s)
    <2> HIDE DEF X
    <2> QED BY <1>2, <1>3
<1>5. IsSequence(r)
    <2> HIDE DEF X
    <2> QED BY <1>4 DEF IsSequence
<1> QED BY <1>3, <1>4, <1>5 DEF r

\* lookup finds the entry of a name, if it has one.
LEMMA LookupIs ==
    ASSUME NEW tab, tab.index \in Nat, \A i, j \in 1..tab.index : tab.sym[i].n = tab.sym[j].n => i = j, NEW n
    PROVE  /\ lookup(tab, n) \in 0..tab.index
           /\ lookup(tab, n) # 0 => tab.sym[lookup(tab, n)].n = n
           /\ \A i \in 1..tab.index : tab.sym[i].n = n => lookup(tab, n) = i
           /\ lookup(tab, n) = 0 <=> \A i \in 1..tab.index : tab.sym[i].n # n
<1> DEFINE hits == {i \in 1..tab.index : tab.sym[i].n = n}
<1>1. CASE hits = {}
    <2>1. lookup(tab, n) = 0
        BY <1>1 DEF lookup
    <2> QED BY <1>1, <2>1
<1>2. CASE hits # {}
    <2>1. lookup(tab, n) = CHOOSE i \in hits : TRUE
        BY <1>2 DEF lookup
    <2>2. lookup(tab, n) \in hits
        BY <1>2, <2>1
    <2>3. lookup(tab, n) \in 1..tab.index /\ tab.sym[lookup(tab, n)].n = n
        BY <2>2
    <2> QED BY <2>3
<1> QED BY <1>1, <1>2

\* An entry with new contents.
Fill(y, n, k, v, ov) == [y EXCEPT !.n = n, !.k = k, !.v = v, !.ov = ov]
LEMMA Filling ==
    ASSUME NEW y, IsEntry(y), NEW n, NEW k, NEW v, NEW ov
    PROVE  LET e == Fill(y, n, k, v, ov) IN IsEntry(e) /\ e.n = n /\ e.k = k /\ e.v = v
<1> DEFINE e == Fill(y, n, k, v, ov)
<1>1. y = [n |-> y.n, k |-> y.k, v |-> y.v, ov |-> y.ov, ova |-> y.ova] /\ e = [y EXCEPT !.n = n, !.k = k, !.v = v, !.ov = ov]
    BY DEF IsEntry, Fill
<1> HIDE DEF e
<1>2. e = [n |-> n, k |-> k, v |-> v, ov |-> ov, ova |-> y.ova]
    BY <1>1
<1>3. IsEntry(e) /\ e.n = n /\ e.k = k /\ e.v = v
    BY <1>2 DEF IsEntry
<1> QED BY <1>3 DEF e

\* A symbol entered where there was none of its name.
LEMMA EnterIs ==
    ASSUME NEW t, IsTable(t), NEW y, NEW cur, y.k = "U" => y.v \in Nat, \A i \in 1..t.index : t.sym[i].n # y.n
    PROVE  LET r == enter(t, y, cur)
           IN /\ IsTable(r) /\ r.index = t.index + 1 /\ r.ndef = t.ndef /\ r.size = t.size /\ r.libs = t.libs
              /\ r.sym[r.index].n = y.n /\ r.sym[r.index].k = y.k
              /\ \A i \in 1..t.index : r.sym[i] = t.sym[i]
<1> DEFINE slot == t.index + 1
           left == IF slot <= Len(t.sym) THEN t.sym[slot] ELSE NoSym
           new  == [left EXCEPT !.n = y.n, !.k = y.k, !.v = y.v, !.ov = IF y.k = "T" THEN cur ELSE left.ov]
           sym  == IF slot <= Len(t.sym) THEN [t.sym EXCEPT ![slot] = new] ELSE Append(t.sym, new)
           r    == enter(t, y, cur)
<1>1. /\ IsSequence(t.sym) /\ t.index \in Nat /\ t.index <= Len(t.sym) /\ Len(t.sym) \in Nat
      /\ \A i \in 1..Len(t.sym) : IsEntry(t.sym[i])
    BY DEF IsTable, Entries, IsSequence
<1>2. IsEntry(left)
    <2>1. IsEntry(NoSym)
        BY DEF IsEntry, NoSym
    <2>2. slot <= Len(t.sym) => slot \in 1..Len(t.sym)
        BY <1>1
    <2> QED BY <1>1, <2>1, <2>2
<1>3. IsEntry(new) /\ new.n = y.n /\ new.k = y.k /\ new.v = y.v
    <2> DEFINE ov == IF y.k = "T" THEN cur ELSE left.ov
    <2>1. new = Fill(left, y.n, y.k, y.v, ov)
        BY DEF Fill
    <2> HIDE DEF left, new, ov
    <2> QED BY <1>2, <2>1, Filling
<1> HIDE DEF left, new
<1>4. /\ IsSequence(sym) /\ slot <= Len(sym) /\ sym[slot] = new /\ Len(sym) \in Nat
      /\ \A i \in 1..Len(sym) : i # slot => i \in 1..Len(t.sym) /\ sym[i] = t.sym[i]
      /\ \A i \in 1..t.index : sym[i] = t.sym[i]
    <2>1. CASE slot <= Len(t.sym)
        <3>1. sym = Put(t.sym, slot, new) /\ slot \in 1..Len(t.sym)
            BY <1>1, <2>1 DEF Put
        <3> HIDE DEF sym
        <3>2. IsSequence(sym) /\ Len(sym) = Len(t.sym) /\ sym[slot] = new /\ \A j \in 1..Len(t.sym) : j # slot => sym[j] = t.sym[j]
            BY <1>1, <3>1, Replaced
        <3> HIDE DEF slot
        <3>3. slot = t.index + 1
            BY DEF slot
        <3> QED BY <1>1, <2>1, <3>2, <3>3
    <2>2. CASE ~(slot <= Len(t.sym))
        <3>1. sym = Append(t.sym, new) /\ slot = Len(t.sym) + 1
            BY <1>1, <2>2
        <3> HIDE DEF sym
        <3>2. /\ IsSequence(sym) /\ Len(sym) = Len(t.sym) + 1 /\ sym[Len(t.sym) + 1] = new
              /\ \A i \in 1..Len(t.sym) : sym[i] = t.sym[i]
            BY <1>1, <3>1, Appended
        <3> QED BY <1>1, <3>1, <3>2
    <2> QED BY <2>1, <2>2
<1>5. r = [sym |-> sym, index |-> slot, ndef |-> t.ndef, size |-> t.size, libs |-> t.libs]
    <2>1. r = [t EXCEPT !.index = slot, !.sym = sym]
        BY DEF enter, left, new
    <2> HIDE DEF r, sym, slot
    <2>2. t = [sym |-> t.sym, index |-> t.index, ndef |-> t.ndef, size |-> t.size, libs |-> t.libs]
        BY DEF IsTable
    <2> QED BY <2>1, <2>2
<1> HIDE DEF r, sym, slot
<1>6. slot = t.index + 1
    BY DEF slot
<1>7. Entries(sym, slot)
    <2>1. \A i \in 1..Len(sym) : IsEntry(sym[i])
        BY <1>1, <1>3, <1>4
    <2>2. \A i \in 1..slot : i = slot \/ (i \in 1..t.index /\ sym[i] = t.sym[i])
        BY <1>1, <1>4, <1>6
    <2>3. \A i \in 1..slot : sym[i].k = "U" => sym[i].v \in Nat
        BY <1>3, <1>4, <2>2 DEF IsTable, Entries
    <2>4. \A i, j \in 1..slot : sym[i].n = sym[j].n => i = j
        BY <1>3, <1>4, <2>2 DEF IsTable, Entries
    <2> QED BY <1>1, <1>4, <1>6, <2>1, <2>3, <2>4 DEF Entries
<1> QED BY <1>3, <1>4, <1>5, <1>7, <1>6 DEF IsTable, r

\* An entry in use given new contents.
Set(t, i, e, ndef) == [sym |-> Put(t.sym, i, e), index |-> t.index, ndef |-> ndef, size |-> t.size, libs |-> t.libs]
LEMMA SetIs ==
    ASSUME NEW t, IsTable(t), NEW i, i \in 1..t.index, NEW e, NEW ndef, ndef \in Nat,
           IsEntry(e), e.n = t.sym[i].n, e.k = "U" => e.v \in Nat
    PROVE  LET r == Set(t, i, e, ndef)
           IN /\ IsTable(r) /\ r.index = t.index /\ r.ndef = ndef /\ r.size = t.size /\ r.libs = t.libs
              /\ r.sym[i] = e /\ \A j \in 1..t.index : j # i => r.sym[j] = t.sym[j]
<1> DEFINE r == Set(t, i, e, ndef)
           sym == Put(t.sym, i, e)
<1>1. /\ IsSequence(t.sym) /\ t.index \in Nat /\ t.index <= Len(t.sym) /\ Len(t.sym) \in Nat
      /\ \A j \in 1..Len(t.sym) : IsEntry(t.sym[j])
      /\ \A j \in 1..t.index : t.sym[j].k = "U" => t.sym[j].v \in Nat
      /\ \A j, k \in 1..t.index : t.sym[j].n = t.sym[k].n => j = k
    BY DEF IsTable, Entries, IsSequence
<1>2. i \in 1..Len(t.sym)
    BY <1>1
<1>3. /\ IsSequence(sym) /\ Len(sym) = Len(t.sym) /\ sym[i] = e
      /\ \A j \in 1..Len(t.sym) : j # i => sym[j] = t.sym[j]
    BY <1>1, <1>2, Replaced
<1>4. r = [sym |-> sym, index |-> t.index, ndef |-> ndef, size |-> t.size, libs |-> t.libs]
    BY DEF Set
<1> HIDE DEF r, sym
<1>5. Entries(sym, t.index)
    <2>1. \A j \in 1..t.index : sym[j].n = t.sym[j].n
        BY <1>1, <1>3
    <2>2. \A j \in 1..t.index : sym[j].k = "U" => sym[j].v \in Nat
        BY <1>1, <1>3
    <2>3. \A j, k \in 1..t.index : sym[j].n = sym[k].n => j = k
        BY <1>1, <2>1
    <2>4. \A j \in 1..Len(sym) : IsEntry(sym[j])
        BY <1>1, <1>3
    <2> QED BY <1>1, <1>3, <2>2, <2>3, <2>4 DEF Entries
<1>6. IsTable(r) /\ r.index = t.index /\ r.ndef = ndef /\ r.size = t.size /\ r.libs = t.libs
    BY <1>4, <1>5 DEF IsTable
<1>7. r.sym[i] = e /\ \A j \in 1..t.index : j # i => r.sym[j] = t.sym[j]
    BY <1>1, <1>3, <1>4
<1> QED BY <1>6, <1>7 DEF r

\* What TakeSymbol does: nothing, or it enters the symbol, raises a common, or
\* defines what was undefined.
Enters(t, y, r) ==
    /\ \A i \in 1..t.index : t.sym[i].n # y.n
    /\ r.index = t.index + 1 /\ r.ndef = t.ndef /\ r.sym[r.index].n = y.n /\ r.sym[r.index].k = y.k
    /\ \A i \in 1..t.index : r.sym[i] = t.sym[i]
Raises(t, i, r) ==
    /\ r.index = t.index /\ r.ndef = t.ndef /\ t.sym[i].k = "U" /\ r.sym[i].k = "U" /\ r.sym[i].n = t.sym[i].n
    /\ t.sym[i].v <= r.sym[i].v /\ \A j \in 1..t.index : j # i => r.sym[j] = t.sym[j]
Defines(t, y, i, r) ==
    /\ r.index = t.index /\ r.ndef = t.ndef + 1 /\ y.k # "U" /\ t.sym[i].k = "U" /\ (t.sym[i].v = 0 \/ y.k # "T")
    /\ r.sym[i].k = y.k /\ r.sym[i].n = t.sym[i].n /\ \A j \in 1..t.index : j # i => r.sym[j] = t.sym[j]
Ignores(t, y, i, r) == r = t /\ (t.sym[i].k # "U" \/ (t.sym[i].v # 0 /\ y.k = "T"))
LEMMA TakeIs ==
    ASSUME NEW t, IsTable(t), NEW y, NEW cur, y.k = "U" => y.v \in Nat
    PROVE  LET r == TakeSymbol(t, y, cur)
           IN /\ IsTable(r) /\ r.size = t.size /\ r.libs = t.libs
              /\ \/ Enters(t, y, r)
                 \/ \E i \in 1..t.index : t.sym[i].n = y.n /\ (Ignores(t, y, i, r) \/ Defines(t, y, i, r) \/ (y.k = "U" /\ Raises(t, i, r)))
<1> DEFINE r == TakeSymbol(t, y, cur)
           hit == lookup(t, y.n)
           sp == t.sym[hit]
<1>1. /\ IsSequence(t.sym) /\ t.index \in Nat /\ t.index <= Len(t.sym) /\ Len(t.sym) \in Nat
      /\ \A j \in 1..Len(t.sym) : IsEntry(t.sym[j])
      /\ \A j \in 1..t.index : t.sym[j].k = "U" => t.sym[j].v \in Nat
      /\ \A j, k \in 1..t.index : t.sym[j].n = t.sym[k].n => j = k
      /\ t = [sym |-> t.sym, index |-> t.index, ndef |-> t.ndef, size |-> t.size, libs |-> t.libs] /\ t.ndef \in Nat
    BY DEF IsTable, Entries, IsSequence
<1>2. /\ hit \in 0..t.index /\ (hit # 0 => t.sym[hit].n = y.n)
      /\ hit = 0 <=> \A i \in 1..t.index : t.sym[i].n # y.n
    BY <1>1, LookupIs
<1>3. r = IF hit = 0 THEN enter(t, y, cur)
          ELSE IF sp.k # "U" THEN t
          ELSE IF y.k = "U" THEN [t EXCEPT !.sym[hit].v = IF y.v > @ THEN y.v ELSE @]
          ELSE IF sp.v # 0 /\ y.k = "T" THEN t
          ELSE [t EXCEPT !.ndef = @ + 1, !.sym[hit] = [sp EXCEPT !.k = y.k, !.v = y.v, !.ov = IF y.k = "T" THEN cur ELSE sp.ov]]
    BY DEF TakeSymbol
<1> HIDE DEF r, hit
<1>4. CASE hit = 0
    <2>1. r = enter(t, y, cur)
        BY <1>3, <1>4
    <2>2. \A i \in 1..t.index : t.sym[i].n # y.n
        BY <1>2, <1>4
    <2>3. /\ IsTable(r) /\ r.index = t.index + 1 /\ r.ndef = t.ndef /\ r.size = t.size /\ r.libs = t.libs
          /\ r.sym[r.index].n = y.n /\ r.sym[r.index].k = y.k
          /\ \A i \in 1..t.index : r.sym[i] = t.sym[i]
        BY <2>1, <2>2, EnterIs
    <2>4. Enters(t, y, r)
        BY <2>2, <2>3 DEF Enters
    <2> QED BY <2>3, <2>4 DEF r
<1>5. ASSUME hit # 0, r = t, sp.k # "U" \/ (sp.v # 0 /\ y.k = "T") PROVE IsTable(r) /\ r.size = t.size /\ r.libs = t.libs /\ Ignores(t, y, hit, r)
    BY <1>5 DEF Ignores
<1>6. ASSUME hit # 0, sp.k = "U", y.k = "U" PROVE IsTable(r) /\ r.size = t.size /\ r.libs = t.libs /\ Raises(t, hit, r)
    <2> DEFINE v == IF y.v > sp.v THEN y.v ELSE sp.v
               e == [sp EXCEPT !.v = v]
    <2>1. hit \in 1..t.index /\ hit \in 1..Len(t.sym)
        BY <1>1, <1>2, <1>6
    <2>2. IsEntry(sp) /\ sp.v \in Nat /\ y.v \in Nat
        BY <1>1, <1>6, <2>1
    <2>3. v \in Nat /\ sp.v <= v
        BY <2>2
    <2> HIDE DEF v, e
    <2>4. IsEntry(e) /\ e.n = sp.n /\ e.k = sp.k /\ e.v = v
        <3>1. e = [sp EXCEPT !.v = v] /\ sp = [n |-> sp.n, k |-> sp.k, v |-> sp.v, ov |-> sp.ov, ova |-> sp.ova]
            BY <2>2 DEF IsEntry, e
        <3> HIDE DEF sp
        <3>2. e = [n |-> sp.n, k |-> sp.k, v |-> v, ov |-> sp.ov, ova |-> sp.ova]
            BY <3>1
        <3> QED BY <3>2 DEF IsEntry
    <2>5. r = Set(t, hit, e, t.ndef)
        <3>1. r = [t EXCEPT !.sym[hit].v = IF y.v > @ THEN y.v ELSE @]
            BY <1>3, <1>6
        <3>2. r = [t EXCEPT !.sym = Put(t.sym, hit, e)]
            BY <3>1, Zenon DEF Put, e, v
        <3>3. t = [sym |-> t.sym, index |-> t.index, ndef |-> t.ndef, size |-> t.size, libs |-> t.libs]
            BY <1>1
        <3> QED BY <3>2, <3>3 DEF Set
    <2>6. /\ IsTable(r) /\ r.index = t.index /\ r.ndef = t.ndef /\ r.size = t.size /\ r.libs = t.libs
          /\ r.sym[hit] = e /\ \A j \in 1..t.index : j # hit => r.sym[j] = t.sym[j]
        BY <1>1, <2>1, <2>3, <2>4, <2>5, SetIs
    <2> QED BY <1>6, <2>3, <2>4, <2>6 DEF Raises
<1>7. ASSUME hit # 0, sp.k = "U", y.k # "U", ~(sp.v # 0 /\ y.k = "T")
      PROVE  IsTable(r) /\ r.size = t.size /\ r.libs = t.libs /\ Defines(t, y, hit, r)
    <2> DEFINE ov == IF y.k = "T" THEN cur ELSE sp.ov
               e == [sp EXCEPT !.k = y.k, !.v = y.v, !.ov = ov]
    <2>1. hit \in 1..t.index /\ hit \in 1..Len(t.sym)
        BY <1>1, <1>2, <1>7
    <2>2. IsEntry(sp) /\ t.ndef + 1 \in Nat
        BY <1>1, <2>1
    <2>3. r = [t EXCEPT !.ndef = t.ndef + 1, !.sym = Put(t.sym, hit, e)]
        BY <1>3, <1>7, Zenon DEF Put
    <2> HIDE DEF ov, e
    <2>4. IsEntry(e) /\ e.n = sp.n /\ e.k = y.k
        <3>1. e = [sp EXCEPT !.k = y.k, !.v = y.v, !.ov = ov] /\ sp = [n |-> sp.n, k |-> sp.k, v |-> sp.v, ov |-> sp.ov, ova |-> sp.ova]
            BY <2>2 DEF IsEntry, e
        <3> HIDE DEF sp
        <3>2. e = [n |-> sp.n, k |-> y.k, v |-> y.v, ov |-> ov, ova |-> sp.ova]
            BY <3>1
        <3> QED BY <3>2 DEF IsEntry
    <2>5. r = Set(t, hit, e, t.ndef + 1)
        <3>1. t = [sym |-> t.sym, index |-> t.index, ndef |-> t.ndef, size |-> t.size, libs |-> t.libs]
            BY <1>1
        <3> QED BY <2>3, <3>1 DEF Set
    <2>6. /\ IsTable(r) /\ r.index = t.index /\ r.ndef = t.ndef + 1 /\ r.size = t.size /\ r.libs = t.libs
          /\ r.sym[hit] = e /\ \A j \in 1..t.index : j # hit => r.sym[j] = t.sym[j]
        BY <1>7, <2>1, <2>2, <2>4, <2>5, SetIs
    <2> QED BY <1>7, <2>4, <2>6 DEF Defines
<1>8. CASE hit # 0
    <2>1. hit \in 1..t.index /\ t.sym[hit].n = y.n
        BY <1>1, <1>2, <1>8
    <2>2. IsTable(r) /\ r.size = t.size /\ r.libs = t.libs /\ (Ignores(t, y, hit, r) \/ Defines(t, y, hit, r) \/ (y.k = "U" /\ Raises(t, hit, r)))
        <3>1. CASE sp.k # "U"
            <4>1. r = t
                BY <1>3, <1>8, <3>1
            <4> QED BY <1>5, <1>8, <3>1, <4>1
        <3>2. CASE sp.k = "U" /\ y.k = "U"
            BY <1>6, <1>8, <3>2
        <3>3. CASE sp.k = "U" /\ y.k # "U" /\ sp.v # 0 /\ y.k = "T"
            <4>1. r = t
                BY <1>3, <1>8, <3>3
            <4> QED BY <1>5, <1>8, <3>3, <4>1
        <3>4. CASE sp.k = "U" /\ y.k # "U" /\ ~(sp.v # 0 /\ y.k = "T")
            BY <1>7, <1>8, <3>4
        <3> QED BY <3>1, <3>2, <3>3, <3>4
    <2> QED BY <2>1, <2>2 DEF r
<1> QED BY <1>4, <1>8

---------------------------------------------------------------------------
(* How tables change, and what a table has of a symbol or of an object.    *)

\* Entries stay, in their place, under their name; what is defined stays as it
\* is, what is common does not shrink.
Grows(t, r) ==
    /\ t.index <= r.index
    /\ \A i \in 1..t.index :
          /\ r.sym[i].n = t.sym[i].n /\ (t.sym[i].k # "U" => r.sym[i] = t.sym[i])
          /\ r.sym[i].k = "U" => t.sym[i].v <= r.sym[i].v
\* Nothing that was undefined has been defined.
Kept(t, r) == \A i \in 1..t.index : r.sym[i].k = t.sym[i].k
\* Only the size of a common may have changed.
Raised(t, r) == Grows(t, r) /\ Kept(t, r) /\ r.index = t.index /\ r.libs = t.libs

\* The table has a definition of y, or a common that a function does not define.
MetAt(t, y, i) == t.sym[i].n = y.n /\ (t.sym[i].k # "U" \/ (t.sym[i].v # 0 /\ y.k = "T"))
Met(t, y) == \E i \in 1..t.index : MetAt(t, y, i)
Unknown(t, y) == \A i \in 1..t.index : t.sym[i].n # y.n
\* If y defines a symbol, it is not one the table wants.
SettledFor(t, y) == y.k = "U" \/ Unknown(t, y) \/ Met(t, y)
Settled(t, o) == \A j \in 1..Len(o.syms) : SettledFor(t, o.syms[j])
\* Every symbol the object defines is in the table.
Filled(t, o) == \A j \in 1..Len(o.syms) : o.syms[j].k # "U" => Met(t, o.syms[j])

LEMMA GrowsRefl == ASSUME NEW t, IsTable(t) PROVE Grows(t, t)
<1>1. t.index \in Nat /\ \A i \in 1..t.index : t.sym[i].k = "U" => t.sym[i].v \in Nat
    BY DEF IsTable, Entries
<1> QED BY <1>1 DEF Grows

LEMMA GrowsTrans ==
    ASSUME NEW a, NEW b, NEW c, IsTable(a), IsTable(b), IsTable(c), Grows(a, b), Grows(b, c)
    PROVE  Grows(a, c)
<1>1. a.index \in Nat /\ b.index \in Nat /\ c.index \in Nat
    BY DEF IsTable, Entries
<1>2. a.index <= c.index
    BY <1>1 DEF Grows
<1>3. ASSUME NEW i \in 1..a.index
      PROVE  /\ c.sym[i].n = a.sym[i].n /\ (a.sym[i].k # "U" => c.sym[i] = a.sym[i])
             /\ c.sym[i].k = "U" => a.sym[i].v <= c.sym[i].v
    <2>1. i \in 1..b.index /\ i \in 1..c.index
        BY <1>1 DEF Grows
    <2>2. c.sym[i].n = a.sym[i].n /\ (a.sym[i].k # "U" => c.sym[i] = a.sym[i])
        BY <2>1 DEF Grows
    <2>3. ASSUME c.sym[i].k = "U" PROVE a.sym[i].v <= c.sym[i].v
        <3>1. b.sym[i].k = "U" /\ a.sym[i].k = "U"
            BY <2>1, <2>3 DEF Grows
        <3>2. a.sym[i].v \in Nat /\ b.sym[i].v \in Nat /\ c.sym[i].v \in Nat
            BY <2>1, <2>3, <3>1 DEF IsTable, Entries
        <3>3. a.sym[i].v <= b.sym[i].v /\ b.sym[i].v <= c.sym[i].v
            BY <2>1, <2>3, <3>1 DEF Grows
        <3> QED BY <3>2, <3>3
    <2> QED BY <2>2, <2>3
<1> QED BY <1>2, <1>3 DEF Grows

LEMMA RaisedTrans ==
    ASSUME NEW a, NEW b, NEW c, IsTable(a), IsTable(b), IsTable(c), Raised(a, b), Raised(b, c)
    PROVE  Raised(a, c)
<1>1. Grows(a, c)
    BY GrowsTrans DEF Raised
<1> QED BY <1>1 DEF Raised, Kept

\* What is met stays met, entry by entry.
LEMMA MetAtStays ==
    ASSUME NEW t, NEW r, IsTable(t), IsTable(r), Grows(t, r), NEW y, NEW i, i \in 1..t.index, MetAt(t, y, i)
    PROVE  i \in 1..r.index /\ MetAt(r, y, i)
<1>1. t.index \in Nat /\ r.index \in Nat /\ t.index <= r.index
    BY DEF IsTable, Entries, Grows
<1>2. i \in 1..r.index /\ r.sym[i].n = y.n
    BY <1>1 DEF Grows, MetAt
<1>3. CASE r.sym[i].k # "U"
    BY <1>2, <1>3 DEF MetAt
<1>4. CASE r.sym[i].k = "U"
    <2>1. t.sym[i].k = "U" /\ t.sym[i].v # 0 /\ y.k = "T"
        BY <1>4 DEF Grows, MetAt
    <2>2. t.sym[i].v \in Nat /\ r.sym[i].v \in Nat /\ t.sym[i].v <= r.sym[i].v
        BY <1>2, <1>4, <2>1 DEF IsTable, Entries, Grows
    <2>3. r.sym[i].v # 0
        BY <2>1, <2>2
    <2> QED BY <1>2, <2>1, <2>3 DEF MetAt
<1> QED BY <1>3, <1>4

LEMMA MetStays ==
    ASSUME NEW t, NEW r, IsTable(t), IsTable(r), Grows(t, r), NEW y, Met(t, y)
    PROVE  Met(r, y)
<1>1. PICK i \in 1..t.index : MetAt(t, y, i)
    BY DEF Met
<1>2. i \in 1..r.index /\ MetAt(r, y, i)
    BY <1>1, MetAtStays
<1> QED BY <1>2 DEF Met

LEMMA FilledStays ==
    ASSUME NEW t, NEW r, IsTable(t), IsTable(r), Grows(t, r), NEW o, Filled(t, o)
    PROVE  Filled(r, o)
BY MetStays DEF Filled

LEMMA SettledForStays ==
    ASSUME NEW t, NEW r, IsTable(t), IsTable(r), Raised(t, r), NEW y, SettledFor(t, y)
    PROVE  SettledFor(r, y)
<1>1. CASE Unknown(t, y)
    <2>1. Unknown(r, y)
        BY <1>1 DEF Unknown, Raised, Grows
    <2> QED BY <2>1 DEF SettledFor
<1>2. CASE Met(t, y)
    <2>1. Met(r, y)
        BY <1>2, MetStays DEF Raised
    <2> QED BY <2>1 DEF SettledFor
<1> QED BY <1>1, <1>2 DEF SettledFor

LEMMA SettledStays ==
    ASSUME NEW t, NEW r, IsTable(t), IsTable(r), Raised(t, r), NEW o, Settled(t, o)
    PROVE  Settled(r, o)
BY SettledForStays DEF Settled

---------------------------------------------------------------------------
(* One symbol, and all symbols of an object.                               *)

LEMMA TakeOne ==
    ASSUME NEW t, IsTable(t), NEW y, NEW cur, y.k = "U" => y.v \in Nat
    PROVE  LET r == TakeSymbol(t, y, cur)
           IN /\ IsTable(r) /\ r.size = t.size /\ r.libs = t.libs /\ Grows(t, r) /\ t.ndef <= r.ndef
              /\ y.k # "U" => Met(r, y)
              /\ r.ndef = t.ndef => Kept(t, r) /\ SettledFor(t, y)
              /\ SettledFor(t, y) => r.ndef = t.ndef
              /\ \A i \in (t.index + 1)..r.index : r.sym[i].n = y.n
<1> DEFINE r == TakeSymbol(t, y, cur)
           Goal == /\ Grows(t, r) /\ t.ndef <= r.ndef
                   /\ y.k # "U" => Met(r, y)
                   /\ r.ndef = t.ndef => Kept(t, r) /\ SettledFor(t, y)
                   /\ SettledFor(t, y) => r.ndef = t.ndef
                   /\ \A i \in (t.index + 1)..r.index : r.sym[i].n = y.n
<1>1. /\ IsTable(r) /\ r.size = t.size /\ r.libs = t.libs
      /\ \/ Enters(t, y, r)
         \/ \E i \in 1..t.index : t.sym[i].n = y.n /\ (Ignores(t, y, i, r) \/ Defines(t, y, i, r) \/ (y.k = "U" /\ Raises(t, i, r)))
    BY TakeIs
<1> HIDE DEF r
<1>2. /\ t.index \in Nat /\ t.ndef \in Nat /\ \A j \in 1..t.index : t.sym[j].k = "U" => t.sym[j].v \in Nat
      /\ \A j, k \in 1..t.index : t.sym[j].n = t.sym[k].n => j = k
    BY DEF IsTable, Entries
<1>3. ASSUME Enters(t, y, r) PROVE Goal
    <2>1. /\ Unknown(t, y) /\ r.index = t.index + 1 /\ r.ndef = t.ndef /\ r.sym[t.index + 1].n = y.n /\ r.sym[t.index + 1].k = y.k
          /\ \A i \in 1..t.index : r.sym[i] = t.sym[i]
        BY <1>3 DEF Enters, Unknown
    <2>2. Grows(t, r) /\ Kept(t, r) /\ SettledFor(t, y)
        BY <1>2, <2>1 DEF Grows, Kept, SettledFor
    <2>3. y.k # "U" => Met(r, y)
        <3>1. t.index + 1 \in 1..r.index
            BY <1>2, <2>1
        <3> QED BY <2>1, <3>1 DEF Met, MetAt
    <2>4. \A i \in (t.index + 1)..r.index : r.sym[i].n = y.n
        BY <1>2, <2>1
    <2> QED BY <1>2, <2>1, <2>2, <2>3, <2>4
<1>4. ASSUME NEW i \in 1..t.index, t.sym[i].n = y.n, Ignores(t, y, i, r) PROVE Goal
    <2>1. r = t /\ Met(t, y)
        BY <1>4 DEF Ignores, Met, MetAt
    <2>2. Grows(t, r) /\ Kept(t, r) /\ SettledFor(t, y)
        BY <2>1, GrowsRefl DEF Kept, SettledFor
    <2> QED BY <1>2, <2>1, <2>2
<1>5. ASSUME NEW i \in 1..t.index, t.sym[i].n = y.n, y.k = "U", Raises(t, i, r) PROVE Goal
    <2>1. Grows(t, r) /\ Kept(t, r)
        BY <1>2, <1>5 DEF Raises, Grows, Kept
    <2>2. SettledFor(t, y) /\ r.ndef = t.ndef /\ r.index = t.index
        BY <1>5 DEF SettledFor, Raises
    <2> QED BY <1>2, <1>5, <2>1, <2>2
<1>6. ASSUME NEW i \in 1..t.index, t.sym[i].n = y.n, Defines(t, y, i, r) PROVE Goal
    <2>1. /\ r.index = t.index /\ r.ndef = t.ndef + 1 /\ y.k # "U" /\ t.sym[i].k = "U" /\ (t.sym[i].v = 0 \/ y.k # "T")
          /\ r.sym[i].k = y.k /\ r.sym[i].n = t.sym[i].n /\ \A j \in 1..t.index : j # i => r.sym[j] = t.sym[j]
        BY <1>6 DEF Defines
    <2>2. Grows(t, r)
        BY <1>2, <2>1 DEF Grows
    <2>3. Met(r, y)
        BY <1>6, <2>1 DEF Met, MetAt
    <2>4. ~SettledFor(t, y)
        BY <1>2, <1>6, <2>1 DEF SettledFor, Unknown, Met, MetAt
    <2> QED BY <1>2, <2>1, <2>2, <2>3, <2>4
<1>7. Goal
    BY <1>1, <1>3, <1>4, <1>5, <1>6
<1> QED BY <1>1, <1>7 DEF r

\* Relocating a symbol changes its value only, and not if it is undefined.
LEMMA SymrelocIs ==
    ASSUME NEW y, IsSymbol(y), NEW o, NEW s
    PROVE  LET z == symreloc(y, Place(o, s)) IN z.n = y.n /\ z.k = y.k /\ (z.k = "U" => z.v \in Nat)
<1> DEFINE rel == Place(o, s)
           v == y.v + rel[y.k]
           z == symreloc(y, rel)
<1>1. z = IF y.k \in DOMAIN rel THEN [y EXCEPT !.v = v] ELSE y
    BY DEF symreloc
<1>2. DOMAIN rel = {"T", "D", "B"}
    BY DEF Place
<1> HIDE DEF rel, v, z
<1>3. CASE y.k \in DOMAIN rel
    <2>1. z = [y EXCEPT !.v = v] /\ y = [n |-> y.n, k |-> y.k, v |-> y.v] /\ y.k # "U"
        BY <1>1, <1>2, <1>3 DEF IsSymbol
    <2>2. z = [n |-> y.n, k |-> y.k, v |-> v]
        BY <2>1
    <2> QED BY <2>1, <2>2 DEF z, rel
<1>4. CASE y.k \notin DOMAIN rel
    <2>1. z = y
        BY <1>1, <1>4
    <2>2. y.k = "U" => y.v \in Nat
        BY DEF IsSymbol
    <2> QED BY <2>1, <2>2 DEF z, rel
<1> QED BY <1>3, <1>4

\* The table as it is when an object is ripped out again.
Cut(e, t) == [e EXCEPT !.index = t.index]
LEMMA CutIs ==
    ASSUME NEW t, NEW e, IsTable(t), IsTable(e), Grows(t, e), e.libs = t.libs
    PROVE  LET r == Cut(e, t)
           IN /\ IsTable(r) /\ r.libs = t.libs /\ r.index = t.index /\ r.ndef = e.ndef /\ r.sym = e.sym /\ Grows(t, r)
              /\ Kept(t, e) => Raised(t, r)
<1> DEFINE r == Cut(e, t)
<1>1. e = [sym |-> e.sym, index |-> e.index, ndef |-> e.ndef, size |-> e.size, libs |-> e.libs] /\ r = [e EXCEPT !.index = t.index]
    BY DEF IsTable, Cut
<1> HIDE DEF r
<1>2. r = [sym |-> e.sym, index |-> t.index, ndef |-> e.ndef, size |-> e.size, libs |-> e.libs]
    BY <1>1
<1>3. t.index \in Nat /\ e.index \in Nat /\ t.index <= e.index /\ Entries(e.sym, e.index) /\ Len(e.sym) \in Nat
    BY DEF IsTable, Entries, Grows, IsSequence
<1>4. Entries(e.sym, t.index)
    BY <1>3 DEF Entries
<1>5. IsTable(r) /\ r.libs = t.libs /\ r.index = t.index /\ r.ndef = e.ndef /\ r.sym = e.sym
    BY <1>2, <1>4 DEF IsTable
<1>6. Grows(t, r)
    BY <1>3, <1>5 DEF Grows
<1>7. ASSUME Kept(t, e) PROVE Raised(t, r)
    BY <1>5, <1>6, <1>7 DEF Raised, Kept
<1> QED BY <1>5, <1>6, <1>7 DEF r

LEMMA TakeAll ==
    ASSUME NEW t, IsTable(t), NEW o, IsObject(o), NEW cur
    PROVE  LET e == TakeSymbols(t, o, cur)
           IN /\ IsTable(e) /\ e.libs = t.libs /\ Grows(t, e) /\ Filled(e, o)
              /\ e.ndef = 0 => Kept(t, e) /\ Settled(Cut(e, t), o)
              /\ Settled(t, o) => e.ndef = 0
<1> DEFINE n == Len(o.syms)
           y(k) == o.syms[k]
           z(k) == symreloc(o.syms[k], Place(o, t.size))
           e == TakeSymbols(t, o, cur)
<1>1. n \in Nat /\ \A k \in 1..n : IsSymbol(y(k)) /\ \A j \in 1..n : y(j).n = y(k).n => j = k
    BY DEF IsObject, IsSequence
<1>2. PICK f : /\ f[0] = [t EXCEPT !.ndef = 0]
               /\ \A k \in 1..n : f[k] = TakeSymbol(f[k - 1], z(k), cur)
               /\ e = f[n]
    BY <1>1, TakingIs
<1> DEFINE Now0(k) == f[k]
           P(k) == /\ IsTable(f[k]) /\ f[k].libs = t.libs /\ Grows(t, f[k])
                   /\ \A j \in 1..k : y(j).k # "U" => Met(f[k], y(j))
                   /\ f[k].ndef = 0 => Kept(t, f[k]) /\ \A j \in 1..k : SettledFor(Cut(f[k], t), y(j))
                   /\ Settled(t, o) => f[k].ndef = 0 /\ \A i \in (t.index + 1)..f[k].index : \E j \in 1..k : f[k].sym[i].n = y(j).n
           S == {k \in 0..n : P(k)}
<1> HIDE DEF e, z
<1>3. \A k \in 1..n : z(k).n = y(k).n /\ z(k).k = y(k).k /\ (z(k).k = "U" => z(k).v \in Nat)
    BY <1>1, SymrelocIs DEF z
<1>4. t.index \in Nat
    BY DEF IsTable, Entries
<1>5. P(0)
    <2> DEFINE b == f[0]
    <2>1. b = [t EXCEPT !.ndef = 0] /\ t = [sym |-> t.sym, index |-> t.index, ndef |-> t.ndef, size |-> t.size, libs |-> t.libs]
        BY <1>2 DEF IsTable
    <2> HIDE DEF b
    <2>2. b = [sym |-> t.sym, index |-> t.index, ndef |-> 0, size |-> t.size, libs |-> t.libs]
        BY <2>1
    <2>3. IsTable(b) /\ b.libs = t.libs /\ b.index = t.index /\ b.sym = t.sym /\ b.ndef = 0
        BY <2>2 DEF IsTable
    <2>4. Grows(t, b) /\ Kept(t, b)
        <3>1. Grows(t, t)
            BY GrowsRefl
        <3> QED BY <2>3, <3>1 DEF Grows, Kept
    <2>5. \A i \in (t.index + 1)..b.index : FALSE
        BY <1>4, <2>3
    <2> QED BY <2>3, <2>4, <2>5 DEF b
<1>6. ASSUME NEW k \in 0..(n - 1), P(k) PROVE P(k + 1)
    <2> DEFINE a == f[k]
               r == f[k + 1]
               l == k + 1
    <2>1. r = TakeSymbol(a, z(l), cur) /\ l \in 1..n
        <3>1. k + 1 \in 1..n /\ (k + 1) - 1 = k
            BY <1>1
        <3> QED BY <1>2, <3>1
    <2>2. /\ IsTable(a) /\ a.libs = t.libs /\ Grows(t, a)
          /\ \A j \in 1..k : y(j).k # "U" => Met(a, y(j))
          /\ a.ndef = 0 => Kept(t, a) /\ \A j \in 1..k : SettledFor(Cut(a, t), y(j))
          /\ Settled(t, o) => a.ndef = 0 /\ \A i \in (t.index + 1)..a.index : \E j \in 1..k : a.sym[i].n = y(j).n
        BY <1>6
    <2>3. z(l).n = y(l).n /\ z(l).k = y(l).k /\ (z(l).k = "U" => z(l).v \in Nat)
        BY <1>3, <2>1
    <2> HIDE DEF a, r
    <2>4. \A x : (Met(x, z(l)) <=> Met(x, y(l))) /\ (SettledFor(x, z(l)) <=> SettledFor(x, y(l)))
        BY <2>3 DEF Met, MetAt, SettledFor, Unknown
    <2>5. /\ IsTable(r) /\ r.libs = a.libs /\ Grows(a, r) /\ a.ndef <= r.ndef
          /\ z(l).k # "U" => Met(r, z(l))
          /\ r.ndef = a.ndef => Kept(a, r) /\ SettledFor(a, z(l))
          /\ SettledFor(a, z(l)) => r.ndef = a.ndef
          /\ \A i \in (a.index + 1)..r.index : r.sym[i].n = z(l).n
        BY <2>1, <2>2, <2>3, TakeOne
    <2>6. Grows(t, r)
        BY <2>2, <2>5, GrowsTrans
    <2>7. ASSUME NEW j \in 1..l PROVE j = l \/ j \in 1..k
        OBVIOUS
    <2>8. ASSUME NEW j \in 1..l, y(j).k # "U" PROVE Met(r, y(j))
        <3>1. CASE j = l
            BY <2>3, <2>4, <2>5, <2>8, <3>1
        <3>2. CASE j \in 1..k
            <4>1. Met(a, y(j))
                BY <2>2, <2>8, <3>2
            <4> QED BY <2>2, <2>5, <4>1, MetStays
        <3> QED BY <2>7, <3>1, <3>2
    <2>9. a.index \in Nat /\ a.ndef \in Nat /\ r.index \in Nat /\ r.ndef \in Nat /\ t.index <= a.index /\ a.index <= r.index
        BY <2>2, <2>5 DEF IsTable, Entries, Grows
    <2>10. ASSUME r.ndef = 0 PROVE Kept(t, r) /\ \A j \in 1..l : SettledFor(Cut(r, t), y(j))
        <3>1. a.ndef = 0 /\ r.ndef = a.ndef
            BY <2>5, <2>9, <2>10
        <3>2. Kept(t, a) /\ Kept(a, r)
            BY <2>2, <2>5, <3>1
        <3>3. Kept(t, r)
            BY <1>4, <2>9, <3>2 DEF Kept
        <3>4. /\ IsTable(Cut(a, t)) /\ Cut(a, t).index = t.index /\ Cut(a, t).sym = a.sym /\ Cut(a, t).libs = t.libs
              /\ IsTable(Cut(r, t)) /\ Cut(r, t).index = t.index /\ Cut(r, t).sym = r.sym /\ Cut(r, t).libs = t.libs
            BY <2>2, <2>5, <2>6, CutIs
        <3>5. Raised(Cut(a, t), Cut(r, t))
            BY <1>4, <2>5, <2>9, <3>2, <3>4 DEF Raised, Grows, Kept
        <3>6. ASSUME NEW j \in 1..l PROVE SettledFor(Cut(r, t), y(j))
            <4>1. CASE j \in 1..k
                <5>1. SettledFor(Cut(a, t), y(j))
                    BY <2>2, <3>1, <4>1
                <5> QED BY <3>4, <3>5, <5>1, SettledForStays
            <4>2. CASE j = l
                <5>1. SettledFor(a, y(l))
                    BY <2>4, <2>5, <3>1
                <5>2. SettledFor(Cut(a, t), y(l))
                    <6>1. CASE Met(a, y(l))
                        <7>1. PICK i \in 1..a.index : MetAt(a, y(l), i)
                            BY <6>1 DEF Met
                        <7>2. CASE i \in 1..t.index
                            BY <3>4, <7>1, <7>2 DEF SettledFor, Met, MetAt
                        <7>3. CASE i \notin 1..t.index
                            <8>1. \A h \in 1..t.index : h # i /\ h \in 1..a.index
                                BY <1>4, <2>9, <7>3
                            <8>2. \A h \in 1..t.index : a.sym[h].n # y(l).n
                                BY <2>2, <7>1, <8>1 DEF MetAt, IsTable, Entries
                            <8> QED BY <3>4, <8>2 DEF SettledFor, Unknown
                        <7> QED BY <7>2, <7>3
                    <6>2. CASE Unknown(a, y(l))
                        BY <1>4, <2>9, <3>4, <6>2 DEF SettledFor, Unknown
                    <6> QED BY <5>1, <6>1, <6>2 DEF SettledFor
                <5> QED BY <3>4, <3>5, <4>2, <5>2, SettledForStays
            <4> QED BY <2>7, <4>1, <4>2
        <3> QED BY <3>3, <3>6
    <2>11. ASSUME Settled(t, o) PROVE r.ndef = 0 /\ \A i \in (t.index + 1)..r.index : \E j \in 1..l : r.sym[i].n = y(j).n
        <3>1. a.ndef = 0 /\ \A i \in (t.index + 1)..a.index : \E j \in 1..k : a.sym[i].n = y(j).n
            BY <2>2, <2>11
        <3>2. SettledFor(a, y(l))
            <4>1. SettledFor(t, y(l))
                BY <2>1, <2>11 DEF Settled
            <4>2. CASE Met(t, y(l))
                <5>1. Met(a, y(l))
                    BY <2>2, <4>2, MetStays
                <5> QED BY <5>1 DEF SettledFor
            <4>3. CASE Unknown(t, y(l))
                <5>1. ASSUME NEW i \in 1..a.index PROVE a.sym[i].n # y(l).n
                    <6>1. CASE i \in 1..t.index
                        BY <2>2, <4>3, <6>1 DEF Unknown, Grows
                    <6>2. CASE i \in (t.index + 1)..a.index
                        <7>1. PICK j \in 1..k : a.sym[i].n = y(j).n
                            BY <3>1, <6>2
                        <7>2. j \in 1..n /\ j # l
                            BY <1>1
                        <7> QED BY <1>1, <2>1, <7>1, <7>2
                    <6> QED BY <1>4, <2>9, <6>1, <6>2
                <5> QED BY <5>1 DEF SettledFor, Unknown
            <4> QED BY <4>1, <4>2, <4>3 DEF SettledFor
        <3>3. r.ndef = 0
            BY <2>4, <2>5, <3>1, <3>2
        <3>4. ASSUME NEW i \in (t.index + 1)..r.index PROVE \E j \in 1..l : r.sym[i].n = y(j).n
            <4>1. CASE i <= a.index
                <5>1. i \in (t.index + 1)..a.index /\ i \in 1..a.index
                    BY <1>4, <2>9, <4>1
                <5>2. PICK j \in 1..k : a.sym[i].n = y(j).n
                    BY <3>1, <5>1
                <5>3. r.sym[i].n = a.sym[i].n /\ j \in 1..l
                    BY <2>5, <5>1 DEF Grows
                <5> QED BY <5>2, <5>3
            <4>2. CASE ~(i <= a.index)
                <5>1. i \in (a.index + 1)..r.index /\ l \in 1..l
                    BY <1>4, <2>1, <2>9, <4>2
                <5> QED BY <2>3, <2>5, <5>1
            <4> QED BY <4>1, <4>2
        <3> QED BY <3>3, <3>4
    <2> QED BY <2>2, <2>5, <2>6, <2>8, <2>10, <2>11 DEF r
<1>7. P(n)
    <2> HIDE DEF P
    <2>1. 0 \in S /\ n \in 0..n
        BY <1>1, <1>5
    <2>2. \A k \in 0..(n - 1) : k \in S => k + 1 \in S
        BY <1>1, <1>6
    <2> HIDE DEF S
    <2>3. \A k \in 0..n : k \in S
        BY <1>1, <2>1, <2>2, UpTo
    <2>4. n \in S
        BY <2>1, <2>3
    <2> QED BY <2>4 DEF S
<1> QED
    <2>1. Filled(e, o)
        BY <1>2, <1>7 DEF Filled
    <2>2. e.ndef = 0 => Settled(Cut(e, t), o)
        BY <1>2, <1>7 DEF Settled
    <2>3. IsTable(e) /\ e.libs = t.libs /\ Grows(t, e) /\ (e.ndef = 0 => Kept(t, e)) /\ (Settled(t, o) => e.ndef = 0)
        BY <1>2, <1>7
    <2> QED BY <2>1, <2>2, <2>3 DEF e

---------------------------------------------------------------------------
(* An object, named or of an archive.                                      *)

LEMMA LoadIs ==
    ASSUME NEW t, IsTable(t), NEW o, IsObject(o), NEW lib, lib \in BOOLEAN, NEW cur
    PROVE  LET r == load1(t, o, lib, cur)
           IN /\ IsTable(r) /\ Grows(t, r)
              /\ \/ lib /\ Raised(t, r) /\ Settled(r, o)
                 \/ lib /\ ~Settled(t, o) /\ r.libs = Append(t.libs, o) /\ Filled(r, o)
                 \/ ~lib /\ r.libs = t.libs
<1> DEFINE e == TakeSymbols(t, o, cur)
           grown == [t |-> t.size.t + Len(o.text), d |-> t.size.d + Len(o.data), b |-> t.size.b + o.bss]
           r == load1(t, o, lib, cur)
           libs == IF lib THEN Append(e.libs, o) ELSE e.libs
<1>1. /\ IsTable(e) /\ e.libs = t.libs /\ Grows(t, e) /\ Filled(e, o)
      /\ e.ndef = 0 => Kept(t, e) /\ Settled(Cut(e, t), o)
      /\ Settled(t, o) => e.ndef = 0
    BY TakeAll
<1>2. r = IF lib /\ e.ndef = 0 THEN Cut(e, t) ELSE [e EXCEPT !.size = grown, !.libs = libs]
    BY Zenon DEF load1, Cut
<1> HIDE DEF e, r, grown
<1>3. CASE lib /\ e.ndef = 0
    <2>1. r = Cut(e, t)
        BY <1>2, <1>3
    <2>2. IsTable(r) /\ Grows(t, r) /\ Raised(t, r)
        BY <1>1, <1>3, <2>1, CutIs
    <2> QED BY <1>1, <1>3, <2>1, <2>2 DEF r
<1>4. CASE ~(lib /\ e.ndef = 0)
    <2>1. r = [e EXCEPT !.size = grown, !.libs = libs] /\ e = [sym |-> e.sym, index |-> e.index, ndef |-> e.ndef, size |-> e.size, libs |-> e.libs]
        BY <1>1, <1>2, <1>4 DEF IsTable
    <2>2. IsSequence(libs) /\ (lib => libs = Append(t.libs, o)) /\ (~lib => libs = t.libs)
        BY <1>1, Appended DEF IsTable
    <2> HIDE DEF libs
    <2>3. r = [sym |-> e.sym, index |-> e.index, ndef |-> e.ndef, size |-> grown, libs |-> libs]
        BY <2>1
    <2>4. IsTable(r) /\ r.libs = libs /\ r.index = e.index /\ r.sym = e.sym
        BY <1>1, <2>2, <2>3 DEF IsTable
    <2>5. Grows(t, r) /\ Filled(r, o)
        BY <1>1, <2>4 DEF Grows, Filled, Met, MetAt
    <2>6. lib => ~Settled(t, o)
        BY <1>1, <1>4
    <2> QED BY <2>2, <2>4, <2>5, <2>6 DEF r
<1> QED BY <1>3, <1>4

---------------------------------------------------------------------------
(* Searching an archive with a table.                                      *)

\* What holds at any time: the members taken are members, each taken once, and
\* the table has all that they define.
Searching(t, lib) ==
    /\ IsTable(t)
    /\ \A m, k \in 1..Len(t.libs) : t.libs[m] = t.libs[k] => m = k
    /\ \A m \in 1..Len(t.libs) : Filled(t, t.libs[m]) /\ \E i \in 1..Len(lib) : t.libs[m] = lib[i]
\* From t to r: no member is lost, and if none was taken commons have grown at most.
Moved(t, r, lib) ==
    /\ Searching(r, lib) /\ Len(t.libs) <= Len(r.libs)
    /\ Len(r.libs) = Len(t.libs) => Raised(t, r)
Quiet(t, r) == Len(r.libs) = Len(t.libs)
\* No member is wanted.
Quiescent(t, lib) == \A i \in 1..Len(lib) : Settled(t, lib[i])

LEMMA MovedRefl == ASSUME NEW t, NEW lib, Searching(t, lib) PROVE Moved(t, t, lib) /\ Quiet(t, t)
<1>1. Grows(t, t) /\ Len(t.libs) \in Nat
    BY GrowsRefl DEF Searching, IsTable, IsSequence
<1> QED BY <1>1 DEF Moved, Quiet, Raised, Kept

LEMMA MovedTrans ==
    ASSUME NEW a, NEW b, NEW c, NEW lib, Searching(a, lib), Moved(a, b, lib), Moved(b, c, lib)
    PROVE  Moved(a, c, lib) /\ (Quiet(a, c) <=> Quiet(a, b) /\ Quiet(b, c))
<1>1. IsTable(a) /\ IsTable(b) /\ IsTable(c) /\ Len(a.libs) \in Nat /\ Len(b.libs) \in Nat /\ Len(c.libs) \in Nat
    BY DEF Moved, Searching, IsTable, IsSequence
<1>2. Len(a.libs) <= Len(b.libs) /\ Len(b.libs) <= Len(c.libs)
    BY DEF Moved
<1>3. Quiet(a, c) <=> Quiet(a, b) /\ Quiet(b, c)
    BY <1>1, <1>2 DEF Quiet
<1>4. Quiet(a, c) => Raised(a, c)
    BY <1>1, <1>3, RaisedTrans DEF Moved, Quiet
<1>5. Len(a.libs) <= Len(c.libs)
    BY <1>1, <1>2
<1> QED BY <1>3, <1>4, <1>5 DEF Moved, Quiet

\* A member that is loaded is taken or has nothing to give.
LEMMA LoadMoves ==
    ASSUME NEW t, NEW lib, Searching(t, lib), IsArchive(lib), NEW i, i \in 1..Len(lib), NEW cur
    PROVE  LET r == load1(t, lib[i], TRUE, cur)
           IN Moved(t, r, lib) /\ (Quiet(t, r) => Settled(r, lib[i])) /\ (Settled(t, lib[i]) => Quiet(t, r))
<1> DEFINE o == lib[i]
           r == load1(t, o, TRUE, cur)
<1>1. IsTable(t) /\ IsObject(o) /\ IsSequence(t.libs) /\ Len(t.libs) \in Nat
    BY DEF Searching, IsArchive, IsTable, IsSequence
<1>2. /\ IsTable(r) /\ Grows(t, r)
      /\ \/ Raised(t, r) /\ Settled(r, o)
         \/ ~Settled(t, o) /\ r.libs = Append(t.libs, o) /\ Filled(r, o)
    BY <1>1, LoadIs
<1> HIDE DEF r
<1>3. CASE Raised(t, r) /\ Settled(r, o)
    <2>1. r.libs = t.libs
        BY <1>3 DEF Raised
    <2>2. Searching(r, lib)
        BY <1>1, <1>2, <2>1, FilledStays DEF Searching
    <2>3. Moved(t, r, lib) /\ Quiet(t, r)
        BY <1>1, <1>3, <2>1, <2>2 DEF Moved, Quiet
    <2> QED BY <1>3, <2>3 DEF r
<1>4. CASE ~Settled(t, o) /\ r.libs = Append(t.libs, o) /\ Filled(r, o)
    <2> DEFINE n == Len(t.libs)
    <2>1. Len(r.libs) = n + 1 /\ r.libs[n + 1] = o /\ \A m \in 1..n : r.libs[m] = t.libs[m]
        BY <1>1, <1>4, Appended
    <2>2. \A m \in 1..n : t.libs[m] # o
        <3>1. ASSUME NEW m \in 1..n, t.libs[m] = o PROVE FALSE
            <4>1. Filled(t, o)
                BY <3>1 DEF Searching
            <4>2. Settled(t, o)
                BY <4>1 DEF Filled, Settled, SettledFor
            <4> QED BY <1>4, <4>2
        <3> QED BY <3>1
    <2>3. \A m \in 1..(n + 1) : m = n + 1 \/ m \in 1..n
        BY <1>1
    <2>4. \A m, k \in 1..(n + 1) : r.libs[m] = r.libs[k] => m = k
        BY <2>1, <2>2, <2>3 DEF Searching
    <2>5. \A m \in 1..(n + 1) : Filled(r, r.libs[m]) /\ \E j \in 1..Len(lib) : r.libs[m] = lib[j]
        <3>1. ASSUME NEW m \in 1..n PROVE Filled(r, r.libs[m]) /\ \E j \in 1..Len(lib) : r.libs[m] = lib[j]
            BY <1>1, <1>2, <2>1, FilledStays DEF Searching
        <3> QED BY <1>4, <2>1, <2>3, <3>1
    <2>6. Searching(r, lib)
        BY <1>2, <2>1, <2>4, <2>5 DEF Searching
    <2>7. ~Quiet(t, r) /\ Len(t.libs) <= Len(r.libs)
        BY <1>1, <2>1 DEF Quiet
    <2> QED BY <1>4, <2>6, <2>7 DEF Moved, Quiet, r
<1> QED BY <1>2, <1>3, <1>4

\* An entry of the table of contents.
LEMMA StepMoves ==
    ASSUME NEW t, NEW lib, Searching(t, lib), IsArchive(lib), NEW i, i \in 1..Len(lib), NEW cur,
           NEW j, j \in 1..Len(lib[i].syms)
    PROVE  LET r == step(t, lib[i], j, cur)
           IN Moved(t, r, lib) /\ (Quiet(t, r) => SettledFor(r, lib[i].syms[j])) /\ (Settled(t, lib[i]) => Quiet(t, r))
<1> DEFINE o == lib[i]
           y == o.syms[j]
           r == step(t, o, j, cur)
<1>1. CASE y.k # "U" /\ Undefined(t, y.n)
    <2>1. r = load1(t, o, TRUE, cur)
        BY <1>1 DEF step
    <2>2. Moved(t, r, lib) /\ (Quiet(t, r) => Settled(r, lib[i])) /\ (Settled(t, lib[i]) => Quiet(t, r))
        BY <2>1, LoadMoves
    <2> QED BY <2>2 DEF Settled
<1>2. CASE ~(y.k # "U" /\ Undefined(t, y.n))
    <2>1. r = t
        BY <1>2 DEF step
    <2>2. SettledFor(t, y)
        <3>1. /\ lookup(t, y.n) \in 0..t.index /\ (lookup(t, y.n) # 0 => t.sym[lookup(t, y.n)].n = y.n)
              /\ lookup(t, y.n) = 0 <=> \A h \in 1..t.index : t.sym[h].n # y.n
            BY LookupIs DEF Searching, IsTable, Entries
        <3>2. CASE lookup(t, y.n) = 0
            BY <3>1, <3>2 DEF SettledFor, Unknown
        <3>3. CASE lookup(t, y.n) # 0 /\ y.k # "U"
            <4>1. lookup(t, y.n) \in 1..t.index /\ t.sym[lookup(t, y.n)].k # "U"
                BY <1>2, <3>1, <3>3 DEF Undefined, Searching, IsTable, Entries
            <4> QED BY <3>1, <3>3, <4>1 DEF SettledFor, Met, MetAt
        <3> QED BY <3>2, <3>3 DEF SettledFor
    <2>3. Moved(t, t, lib) /\ Quiet(t, t)
        BY MovedRefl
    <2> QED BY <2>1, <2>2, <2>3
<1> QED BY <1>1, <1>2

\* The entries of a member.
LEMMA TryMoves ==
    ASSUME NEW t, NEW lib, Searching(t, lib), IsArchive(lib), NEW i, i \in 1..Len(lib), NEW cur
    PROVE  LET r == Try(t, lib[i], cur)
           IN Moved(t, r, lib) /\ (Quiet(t, r) => Settled(r, lib[i])) /\ (Settled(t, lib[i]) => Quiet(t, r))
<1> DEFINE o == lib[i]
           n == Len(o.syms)
           r == Try(t, o, cur)
<1>1. n \in Nat /\ IsTable(t)
    BY DEF IsArchive, IsObject, IsSequence, Searching
<1>2. PICK f : f[0] = t /\ (\A k \in 1..n : f[k] = step(f[k - 1], o, k, cur)) /\ r = f[n]
    BY <1>1, TryingIs
<1> DEFINE P(k) == /\ Moved(t, f[k], lib)
                   /\ Quiet(t, f[k]) => \A j \in 1..k : SettledFor(f[k], o.syms[j])
                   /\ Settled(t, o) => Quiet(t, f[k])
           S == {k \in 0..n : P(k)}
<1> HIDE DEF r
<1>3. P(0)
    <2>1. \A j \in 1..0 : FALSE
        OBVIOUS
    <2> QED BY <1>2, <2>1, MovedRefl
<1>4. ASSUME NEW k \in 0..(n - 1), P(k) PROVE P(k + 1)
    <2> DEFINE a == f[k]
               b == f[k + 1]
               l == k + 1
    <2>1. b = step(a, o, l, cur) /\ l \in 1..n
        <3>1. k + 1 \in 1..n /\ (k + 1) - 1 = k
            BY <1>1
        <3> QED BY <1>2, <3>1
    <2>2. Moved(t, a, lib) /\ (Quiet(t, a) => \A j \in 1..k : SettledFor(a, o.syms[j])) /\ (Settled(t, o) => Quiet(t, a))
        BY <1>4
    <2> HIDE DEF a, b
    <2>3. Searching(a, lib)
        BY <2>2 DEF Moved
    <2>4. Moved(a, b, lib) /\ (Quiet(a, b) => SettledFor(b, o.syms[l])) /\ (Settled(a, o) => Quiet(a, b))
        BY <2>1, <2>3, StepMoves
    <2>5. Moved(t, b, lib) /\ (Quiet(t, b) <=> Quiet(t, a) /\ Quiet(a, b))
        BY <2>2, <2>4, MovedTrans
    <2>6. IsTable(a) /\ IsTable(b)
        BY <2>3, <2>5 DEF Moved, Searching
    <2>7. ASSUME Quiet(t, b), NEW j \in 1..l PROVE SettledFor(b, o.syms[j])
        <3>1. CASE j = l
            BY <2>4, <2>5, <2>7, <3>1
        <3>2. CASE j \in 1..k
            <4>1. SettledFor(a, o.syms[j]) /\ Raised(a, b)
                BY <2>2, <2>4, <2>5, <2>7, <3>2 DEF Moved, Quiet
            <4> QED BY <2>6, <4>1, SettledForStays
        <3> QED BY <3>1, <3>2
    <2>8. ASSUME Settled(t, o) PROVE Quiet(t, b)
        <3>1. Quiet(t, a) /\ Raised(t, a)
            BY <2>2, <2>8 DEF Moved, Quiet
        <3>2. Settled(a, o)
            BY <1>1, <2>6, <2>8, <3>1, SettledStays
        <3> QED BY <2>4, <2>5, <3>1, <3>2
    <2> QED BY <2>5, <2>7, <2>8 DEF b
<1>5. P(n)
    <2> HIDE DEF P
    <2>1. 0 \in S /\ n \in 0..n
        BY <1>1, <1>3
    <2>2. \A k \in 0..(n - 1) : k \in S => k + 1 \in S
        BY <1>1, <1>4
    <2> HIDE DEF S
    <2>3. \A k \in 0..n : k \in S
        BY <1>1, <2>1, <2>2, UpTo
    <2>4. n \in S
        BY <2>1, <2>3
    <2> QED BY <2>4 DEF S
<1> QED BY <1>2, <1>5 DEF Settled, r

\* The members, once: no member is wanted after a round that took none, and a
\* round takes none when none is wanted.
LEMMA RoundMoves ==
    ASSUME NEW t, NEW lib, Searching(t, lib), IsArchive(lib), NEW cur
    PROVE  LET r == ldrand(t, lib, cur)
           IN Moved(t, r, lib) /\ (Quiet(t, r) => Quiescent(r, lib)) /\ (Quiescent(t, lib) => Quiet(t, r))
<1> DEFINE n == Len(lib)
           r == ldrand(t, lib, cur)
<1>1. n \in Nat /\ IsTable(t)
    BY DEF IsArchive, IsSequence, Searching
<1>2. PICK f : f[0] = t /\ (\A k \in 1..n : f[k] = Try(f[k - 1], lib[k], cur)) /\ r = f[n]
    BY <1>1, RoundIs
<1> DEFINE P(k) == /\ Moved(t, f[k], lib)
                   /\ Quiet(t, f[k]) => \A j \in 1..k : Settled(f[k], lib[j])
                   /\ Quiescent(t, lib) => Quiet(t, f[k])
           S == {k \in 0..n : P(k)}
<1> HIDE DEF r
<1>3. P(0)
    <2>1. \A j \in 1..0 : FALSE
        OBVIOUS
    <2> QED BY <1>2, <2>1, MovedRefl
<1>4. ASSUME NEW k \in 0..(n - 1), P(k) PROVE P(k + 1)
    <2> DEFINE a == f[k]
               b == f[k + 1]
               l == k + 1
    <2>1. b = Try(a, lib[l], cur) /\ l \in 1..n
        <3>1. k + 1 \in 1..n /\ (k + 1) - 1 = k
            BY <1>1
        <3> QED BY <1>2, <3>1
    <2>2. Moved(t, a, lib) /\ (Quiet(t, a) => \A j \in 1..k : Settled(a, lib[j])) /\ (Quiescent(t, lib) => Quiet(t, a))
        BY <1>4
    <2> HIDE DEF a, b
    <2>3. Searching(a, lib)
        BY <2>2 DEF Moved
    <2>4. Moved(a, b, lib) /\ (Quiet(a, b) => Settled(b, lib[l])) /\ (Settled(a, lib[l]) => Quiet(a, b))
        BY <2>1, <2>3, TryMoves
    <2>5. Moved(t, b, lib) /\ (Quiet(t, b) <=> Quiet(t, a) /\ Quiet(a, b))
        BY <2>2, <2>4, MovedTrans
    <2>6. IsTable(a) /\ IsTable(b)
        BY <2>3, <2>5 DEF Moved, Searching
    <2>7. ASSUME Quiet(t, b), NEW j \in 1..l PROVE Settled(b, lib[j])
        <3>1. CASE j = l
            BY <2>4, <2>5, <2>7, <3>1
        <3>2. CASE j \in 1..k
            <4>1. Settled(a, lib[j]) /\ Raised(a, b)
                BY <2>2, <2>4, <2>5, <2>7, <3>2 DEF Moved, Quiet
            <4> QED BY <2>6, <4>1, SettledStays
        <3> QED BY <3>1, <3>2
    <2>8. ASSUME Quiescent(t, lib) PROVE Quiet(t, b)
        <3>1. Quiet(t, a) /\ Raised(t, a) /\ Settled(t, lib[l])
            BY <2>1, <2>2, <2>8 DEF Moved, Quiet, Quiescent
        <3>2. Settled(a, lib[l])
            BY <1>1, <2>6, <3>1, SettledStays
        <3> QED BY <2>4, <2>5, <3>1, <3>2
    <2> QED BY <2>5, <2>7, <2>8 DEF b
<1>5. P(n)
    <2> HIDE DEF P
    <2>1. 0 \in S /\ n \in 0..n
        BY <1>1, <1>3
    <2>2. \A k \in 0..(n - 1) : k \in S => k + 1 \in S
        BY <1>1, <1>4
    <2> HIDE DEF S
    <2>3. \A k \in 0..n : k \in S
        BY <1>1, <2>1, <2>2, UpTo
    <2>4. n \in S
        BY <2>1, <2>3
    <2> QED BY <2>4 DEF S
<1> QED BY <1>2, <1>5 DEF Quiescent, r

\* From a table that has taken nothing, as many rounds as there are members
\* are enough: no member is wanted, and one more round takes none.
LEMMA RescanIs ==
    ASSUME NEW t, IsTable(t), Len(t.libs) = 0, NEW lib, IsArchive(lib), NEW cur
    PROVE  Searching(rescan(t, lib, cur), lib) /\ Quiescent(rescan(t, lib, cur), lib)
<1> DEFINE n == Len(lib)
           r == rescan(t, lib, cur)
<1>1. n \in Nat /\ Searching(t, lib)
    <2>1. \A m \in 1..Len(t.libs) : FALSE
        OBVIOUS
    <2> QED BY <2>1 DEF IsArchive, IsSequence, Searching
<1>2. PICK f : f[0] = t /\ (\A k \in 1..n : f[k] = ldrand(f[k - 1], lib, cur)) /\ r = f[n]
    BY <1>1, RoundsIs
<1> DEFINE P(k) == Searching(f[k], lib) /\ (Quiescent(f[k], lib) \/ k <= Len(f[k].libs))
           S == {k \in 0..n : P(k)}
<1> HIDE DEF r
<1>3. P(0)
    BY <1>1, <1>2
<1>4. ASSUME NEW k \in 0..(n - 1), P(k) PROVE P(k + 1)
    <2> DEFINE a == f[k]
               b == f[k + 1]
    <2>1. b = ldrand(a, lib, cur)
        <3>1. k + 1 \in 1..n /\ (k + 1) - 1 = k
            BY <1>1
        <3> QED BY <1>2, <3>1
    <2>2. Searching(a, lib) /\ (Quiescent(a, lib) \/ k <= Len(a.libs))
        BY <1>4
    <2> HIDE DEF a, b
    <2>3. Moved(a, b, lib) /\ (Quiet(a, b) => Quiescent(b, lib)) /\ (Quiescent(a, lib) => Quiet(a, b))
        BY <2>1, <2>2, RoundMoves
    <2>4. Searching(b, lib) /\ Len(a.libs) <= Len(b.libs) /\ Len(a.libs) \in Nat /\ Len(b.libs) \in Nat
        BY <2>2, <2>3 DEF Moved, Searching, IsTable, IsSequence
    <2>5. CASE Quiet(a, b)
        BY <2>3, <2>4, <2>5 DEF b
    <2>6. CASE ~Quiet(a, b)
        <3>1. k <= Len(a.libs) /\ Len(a.libs) # Len(b.libs)
            BY <2>2, <2>3, <2>6 DEF Quiet
        <3>2. k + 1 <= Len(b.libs)
            BY <2>4, <3>1
        <3> QED BY <2>4, <3>2 DEF b
    <2> QED BY <2>5, <2>6
<1>5. P(n)
    <2> HIDE DEF P
    <2>1. 0 \in S /\ n \in 0..n
        BY <1>1, <1>3
    <2>2. \A k \in 0..(n - 1) : k \in S => k + 1 \in S
        BY <1>1, <1>4
    <2> HIDE DEF S
    <2>3. \A k \in 0..n : k \in S
        BY <1>1, <2>1, <2>2, UpTo
    <2>4. n \in S
        BY <2>1, <2>3
    <2> QED BY <2>4 DEF S
<1>6. Searching(r, lib) /\ (Quiescent(r, lib) \/ n <= Len(r.libs))
    BY <1>2, <1>5
<1>7. ASSUME n <= Len(r.libs) PROVE Quiescent(r, lib)
    <2> DEFINE m == Len(r.libs)
    <2>1. m \in Nat /\ n <= m
        BY <1>6, <1>7 DEF Searching, IsTable, IsSequence
    <2> SUFFICES ASSUME NEW i \in 1..n PROVE Settled(r, lib[i])
        BY DEF Quiescent
    <2>2. \E k \in 1..m : r.libs[k] = lib[i]
        <3> SUFFICES ASSUME \A k \in 1..m : r.libs[k] # lib[i] PROVE FALSE
            OBVIOUS
        <3> DEFINE place == [k \in 1..m |-> CHOOSE j \in 1..n : r.libs[k] = lib[j]]
                   T == (1..n) \ {i}
        <3> HIDE DEF m
        <3>1. \A k \in 1..m : place[k] \in 1..n /\ r.libs[k] = lib[place[k]]
            BY <1>6 DEF Searching, m
        <3>2. place \in [1..m -> T]
            BY <3>1
        <3>3. IsFiniteSet(1..m) /\ Cardinality(1..m) = m /\ IsFiniteSet(1..n) /\ Cardinality(1..n) = n
            <4>1. 1 \in Int /\ m \in Int /\ n \in Int
                BY <1>1, <2>1
            <4>2. /\ IsFiniteSet(1..m) /\ Cardinality(1..m) = (IF 1 > m THEN 0 ELSE m - 1 + 1)
                  /\ IsFiniteSet(1..n) /\ Cardinality(1..n) = (IF 1 > n THEN 0 ELSE n - 1 + 1)
                BY <4>1, FS_Interval
            <4> QED BY <1>1, <2>1, <4>2
        <3>4. IsFiniteSet(T) /\ Cardinality(T) = n - 1
            BY <3>3, FS_RemoveElement
        <3>5. Cardinality(T) < Cardinality(1..m)
            BY <1>1, <2>1, <3>3, <3>4
        <3> DEFINE D == 1..m
        <3> HIDE DEF place, T, D
        <3>6. \E x, y \in D : x # y /\ place[x] = place[y]
            <4>1. place \in [D -> T] /\ IsFiniteSet(D) /\ Cardinality(T) < Cardinality(D)
                BY <3>2, <3>3, <3>5 DEF D
            <4> QED BY <3>4, <4>1, FS_PigeonHole, Zenon
        <3>7. PICK x, y \in 1..m : x # y /\ place[x] = place[y]
            BY <3>6 DEF D
        <3>8. r.libs[x] = r.libs[y]
            BY <3>1, <3>7
        <3> QED BY <1>6, <3>7, <3>8 DEF Searching, m
    <2>3. PICK k \in 1..m : r.libs[k] = lib[i]
        BY <2>2
    <2>4. Filled(r, lib[i])
        BY <1>6, <2>3 DEF Searching
    <2> QED BY <2>4 DEF Filled, Settled, SettledFor
<1> QED BY <1>6, <1>7 DEF r

\* The loop of load1arg(), which goes on while ldrand() takes a member, has ended
\* when it has run as often as the archive has members.
THEOREM RescanEnds ==
    ASSUME NEW t, IsTable(t), Len(t.libs) = 0, NEW lib, IsArchive(lib), NEW cur
    PROVE  LET r == rescan(t, lib, cur) IN ldrand(r, lib, cur).libs = r.libs
<1> DEFINE r == rescan(t, lib, cur)
           s == ldrand(r, lib, cur)
<1>1. Searching(r, lib) /\ Quiescent(r, lib)
    BY RescanIs
<1> HIDE DEF r
<1>2. Moved(r, s, lib) /\ Quiet(r, s)
    BY <1>1, RoundMoves
<1> HIDE DEF s
<1>3. s.libs = r.libs
    BY <1>2 DEF Moved, Quiet, Raised
<1> QED BY <1>3 DEF r, s

\* An archive without a table.
LEMMA ScanIs ==
    ASSUME NEW t, IsTable(t), NEW lib, IsArchive(lib), NEW cur
    PROVE  IsTable(scan(t, lib, cur))
<1> DEFINE n == Len(lib)
           r == scan(t, lib, cur)
<1>1. n \in Nat /\ \A k \in 1..n : IsObject(lib[k])
    BY DEF IsArchive, IsSequence
<1>2. PICK f : f[0] = t /\ (\A k \in 1..n : f[k] = Member(f[k - 1], lib[k], cur)) /\ r = f[n]
    BY <1>1, ScanningIs
<1> DEFINE S == {k \in 0..n : IsTable(f[k])}
<1> HIDE DEF r
<1>3. \A k \in 0..n : k \in S
    <2>1. 0 \in S
        BY <1>1, <1>2
    <2>2. ASSUME NEW k \in 0..(n - 1), k \in S PROVE k + 1 \in S
        <3>1. k + 1 \in 1..n /\ (k + 1) - 1 = k /\ k + 1 \in 0..n /\ IsTable(f[k])
            BY <1>1, <2>2
        <3>2. f[k + 1] = load1(f[k], lib[k + 1], TRUE, cur) /\ IsObject(lib[k + 1])
            BY <1>1, <1>2, <3>1 DEF Member
        <3>3. IsTable(f[k + 1])
            BY <3>1, <3>2, LoadIs
        <3> QED BY <3>1, <3>3
    <2> HIDE DEF S
    <2> QED BY <1>1, <2>1, <2>2, UpTo
<1>4. IsTable(r)
    BY <1>1, <1>2, <1>3
<1> QED BY <1>4 DEF r

---------------------------------------------------------------------------
(* The table between the steps, and what middle() leaves of it.            *)

LEMMA EmptyIs == IsSequence(<<>>) /\ Len(<<>>) = 0
BY DEF IsSequence

LEMMA NowIs == ASSUME Entries(symtab, symindex) PROVE IsTable(Now) /\ Len(Now.libs) = 0
<1>1. Now = [sym |-> symtab, index |-> symindex, ndef |-> 0, size |-> sizes, libs |-> <<>>]
    BY DEF Now
<1> QED BY <1>1, EmptyIs DEF IsTable

LEMMA DomainIs == ASSUME NEW s, IsSequence(s) PROVE DOMAIN s = 1..Len(s)
<1> DEFINE m == Len(s)
<1>1. s = [i \in 1..m |-> s[i]]
    BY DEF IsSequence
<1> HIDE DEF m
<1>2. DOMAIN s = 1..m
    BY <1>1
<1> QED BY <1>2 DEF m

\* Entries changed one by one, none of which becomes undefined.
Changed(s, n, i, e) == IsEntry(e) /\ e.n = s[i].n /\ (i <= n /\ e.k = "U" => s[i].k = "U" /\ e.v = s[i].v)
LEMMA ChangedKeeps ==
    ASSUME NEW s, NEW n, Entries(s, n), NEW r, r = [i \in DOMAIN s |-> r[i]],
           \A i \in 1..Len(s) : Changed(s, n, i, r[i])
    PROVE  Entries(r, n)
<1> DEFINE X == {r[i] : i \in 1..Len(s)}
<1>1. /\ IsSequence(s) /\ Len(s) \in Nat /\ n \in Nat /\ n <= Len(s)
      /\ \A i \in 1..n : s[i].k = "U" => s[i].v \in Nat
      /\ \A i, j \in 1..n : s[i].n = s[j].n => i = j
    BY DEF Entries, IsSequence
<1>2. DOMAIN s = 1..Len(s)
    BY <1>1, DomainIs
<1>3. r \in [1..Len(s) -> X]
    BY <1>2
<1>4. r \in Seq(X) /\ Len(r) = Len(s)
    <2> HIDE DEF X
    <2> QED BY <1>1, <1>3
<1>5. IsSequence(r)
    <2> HIDE DEF X
    <2> QED BY <1>4 DEF IsSequence
<1>6. \A i \in 1..n : i \in 1..Len(s) /\ i <= n
    BY <1>1
<1>7. \A i \in 1..n : r[i].k = "U" => r[i].v \in Nat
    BY <1>1, <1>6 DEF Changed
<1>8. \A i, j \in 1..n : r[i].n = r[j].n => i = j
    BY <1>1, <1>6 DEF Changed
<1>9. \A i \in 1..Len(r) : IsEntry(r[i])
    BY <1>4 DEF Changed
<1> QED BY <1>1, <1>4, <1>5, <1>7, <1>8, <1>9 DEF Entries

\* The table of middle().
IsMiddle(t, n) ==
    /\ t = [sym |-> t.sym, index |-> t.index, errs |-> t.errs, csize |-> t.csize, t |-> t.t]
    /\ Entries(t.sym, t.index) /\ t.index = n

LEMMA LdrsymKeeps ==
    ASSUME NEW t, NEW n, IsMiddle(t, n), NEW y, y.k # "U"
    PROVE  IsMiddle(ldrsym(t, y), n)
<1> DEFINE r == ldrsym(t, y)
           hit == lookup(t, y.n)
           sp == t.sym[hit]
           e == [sp EXCEPT !.k = y.k, !.v = y.v]
           said == t.errs \union {<<"Multiply defined", y.n>>}
<1>1. /\ IsSequence(t.sym) /\ t.index \in Nat /\ t.index <= Len(t.sym) /\ Len(t.sym) \in Nat
      /\ \A j \in 1..Len(t.sym) : IsEntry(t.sym[j])
      /\ \A j, k \in 1..t.index : t.sym[j].n = t.sym[k].n => j = k
      /\ \A j \in 1..t.index : t.sym[j].k = "U" => t.sym[j].v \in Nat
      /\ t = [sym |-> t.sym, index |-> t.index, errs |-> t.errs, csize |-> t.csize, t |-> t.t]
    BY DEF IsMiddle, Entries, IsSequence
<1>2. hit \in 0..t.index
    BY <1>1, LookupIs
<1>3. r = IF hit = 0 THEN t
          ELSE IF sp.k # "U" \/ sp.v # 0 THEN [t EXCEPT !.errs = said]
          ELSE [t EXCEPT !.sym = Put(t.sym, hit, e)]
    BY Zenon DEF ldrsym, Put
<1> HIDE DEF r, hit, said
<1>4. CASE hit = 0
    BY <1>3, <1>4 DEF r
<1>5. CASE hit # 0 /\ (sp.k # "U" \/ sp.v # 0)
    <2>1. r = [t EXCEPT !.errs = said]
        BY <1>3, <1>5
    <2>2. r = [sym |-> t.sym, index |-> t.index, errs |-> said, csize |-> t.csize, t |-> t.t]
        BY <1>1, <2>1
    <2>3. IsMiddle(r, n)
        BY <2>2 DEF IsMiddle
    <2> QED BY <2>3 DEF r
<1>6. CASE hit # 0 /\ ~(sp.k # "U" \/ sp.v # 0)
    <2> DEFINE s == Put(t.sym, hit, e)
    <2>1. r = [t EXCEPT !.sym = s] /\ hit \in 1..Len(t.sym) /\ hit \in 1..t.index
        BY <1>1, <1>2, <1>3, <1>6
    <2>2. IsEntry(e) /\ e.n = sp.n /\ e.k = y.k
        <3>1. e = [sp EXCEPT !.k = y.k, !.v = y.v] /\ sp = [n |-> sp.n, k |-> sp.k, v |-> sp.v, ov |-> sp.ov, ova |-> sp.ova]
            BY <1>1, <2>1 DEF IsEntry
        <3> HIDE DEF e, sp
        <3>2. e = [n |-> sp.n, k |-> y.k, v |-> y.v, ov |-> sp.ov, ova |-> sp.ova]
            BY <3>1
        <3> QED BY <3>2 DEF IsEntry
    <2> HIDE DEF e
    <2>3. IsSequence(s) /\ Len(s) = Len(t.sym) /\ s[hit] = e /\ \A j \in 1..Len(t.sym) : j # hit => s[j] = t.sym[j]
        BY <1>1, <2>1, Replaced
    <2> HIDE DEF s
    <2>4. Entries(s, t.index)
        <3>1. \A j \in 1..t.index : s[j].n = t.sym[j].n
            BY <1>1, <2>2, <2>3
        <3>2. \A j \in 1..t.index : s[j].k = "U" => s[j].v \in Nat
            BY <1>1, <2>2, <2>3
        <3>3. \A j, k \in 1..t.index : s[j].n = s[k].n => j = k
            BY <1>1, <3>1
        <3>4. \A j \in 1..Len(s) : IsEntry(s[j])
            BY <1>1, <2>2, <2>3
        <3> QED BY <1>1, <2>3, <3>2, <3>3, <3>4 DEF Entries
    <2>5. r = [sym |-> s, index |-> t.index, errs |-> t.errs, csize |-> t.csize, t |-> t.t]
        BY <1>1, <2>1
    <2>6. IsMiddle(r, n)
        BY <2>4, <2>5 DEF IsMiddle
    <2> QED BY <2>6 DEF r
<1> QED BY <1>4, <1>5, <1>6

WithAllotted(t, from, csize) == [t EXCEPT !.sym = Allotted(t, from), !.csize = csize]
LEMMA AllottedKeeps ==
    ASSUME NEW t, NEW n, IsMiddle(t, n), NEW from, NEW csize
    PROVE  IsMiddle(WithAllotted(t, from, csize), n)
<1> DEFINE s == Allotted(t, from)
           r == WithAllotted(t, from, csize)
<1>1. /\ Entries(t.sym, n) /\ t.index = n
      /\ t = [sym |-> t.sym, index |-> t.index, errs |-> t.errs, csize |-> t.csize, t |-> t.t]
    BY DEF IsMiddle
<1>2. s = [i \in DOMAIN t.sym |-> IF i <= t.index /\ Common(t.sym[i]) THEN [t.sym[i] EXCEPT !.k = "C", !.v = from[i - 1]] ELSE t.sym[i]]
    BY DEF Allotted
<1>3. r = [t EXCEPT !.sym = s, !.csize = csize]
    BY DEF WithAllotted
<1> HIDE DEF s, r
<1>4. DOMAIN t.sym = 1..Len(t.sym) /\ \A i \in 1..Len(t.sym) : IsEntry(t.sym[i])
    BY <1>1, DomainIs DEF Entries
<1>5. ASSUME NEW i \in 1..Len(t.sym) PROVE Changed(t.sym, n, i, s[i])
    <2> DEFINE y == t.sym[i]
               v == from[i - 1]
               e == [y EXCEPT !.k = "C", !.v = v]
    <2>1. s[i] = IF i <= t.index /\ Common(y) THEN e ELSE y
        BY <1>2, <1>4
    <2>2. e = [y EXCEPT !.k = "C", !.v = v] /\ y = [n |-> y.n, k |-> y.k, v |-> y.v, ov |-> y.ov, ova |-> y.ova]
        BY <1>4 DEF IsEntry
    <2> HIDE DEF y, v, e
    <2>3. e = [n |-> y.n, k |-> "C", v |-> v, ov |-> y.ov, ova |-> y.ova]
        BY <2>2
    <2>4. IsEntry(e) /\ e.n = y.n /\ e.k # "U"
        BY <2>3 DEF IsEntry
    <2>5. IsEntry(y)
        BY <2>2 DEF IsEntry
    <2> QED BY <2>1, <2>4, <2>5 DEF Changed, y
<1>6. s = [i \in DOMAIN t.sym |-> s[i]]
    BY <1>2
<1>7. Entries(s, n)
    BY <1>1, <1>5, <1>6, ChangedKeeps
<1>8. r = [sym |-> s, index |-> t.index, errs |-> t.errs, csize |-> csize, t |-> t.t]
    BY <1>1, <1>3
<1>9. r.sym = s /\ r.index = t.index
    BY <1>1, <1>8
<1>10. r = [sym |-> r.sym, index |-> r.index, errs |-> r.errs, csize |-> r.csize, t |-> r.t]
    BY <1>1, <1>8
<1> QED BY <1>1, <1>7, <1>9, <1>10 DEF IsMiddle, r

LEMMA AllocateKeeps == ASSUME NEW t, NEW n, IsMiddle(t, n) PROVE IsMiddle(Allocate(t), n)
<1>1. \E from, csize : Allocate(t) = WithAllotted(t, from, csize)
    BY Zenon DEF Allocate, WithAllotted
<1> QED BY <1>1, AllottedKeeps, Zenon

WithStubbed(t, from, size) == [t EXCEPT !.sym = Stubbed(t, from), !.t = size]
LEMMA StubbedKeeps ==
    ASSUME NEW t, NEW n, IsMiddle(t, n), NEW from, NEW size
    PROVE  IsMiddle(WithStubbed(t, from, size), n)
<1> DEFINE s == Stubbed(t, from)
           r == WithStubbed(t, from, size)
<1>1. /\ Entries(t.sym, n) /\ t.index = n
      /\ t = [sym |-> t.sym, index |-> t.index, errs |-> t.errs, csize |-> t.csize, t |-> t.t]
    BY DEF IsMiddle
<1>2. s = [i \in DOMAIN t.sym |-> IF i <= t.index /\ Thunked(t.sym[i])
                                  THEN [t.sym[i] EXCEPT !.ova = t.sym[i].v, !.v = from[i - 1]] ELSE t.sym[i]]
    BY DEF Stubbed
<1>3. r = [t EXCEPT !.sym = s, !.t = size]
    BY DEF WithStubbed
<1> HIDE DEF s, r
<1>4. DOMAIN t.sym = 1..Len(t.sym) /\ \A i \in 1..Len(t.sym) : IsEntry(t.sym[i])
    BY <1>1, DomainIs DEF Entries
<1>5. ASSUME NEW i \in 1..Len(t.sym) PROVE Changed(t.sym, n, i, s[i])
    <2> DEFINE y == t.sym[i]
               v == from[i - 1]
               e == [y EXCEPT !.ova = y.v, !.v = v]
    <2>1. s[i] = IF i <= t.index /\ Thunked(y) THEN e ELSE y
        BY <1>2, <1>4
    <2>2. e = [y EXCEPT !.ova = y.v, !.v = v] /\ y = [n |-> y.n, k |-> y.k, v |-> y.v, ov |-> y.ov, ova |-> y.ova]
        BY <1>4 DEF IsEntry
    <2> HIDE DEF y, v, e
    <2>3. e = [n |-> y.n, k |-> y.k, v |-> v, ov |-> y.ov, ova |-> y.v]
        BY <2>2
    <2>4. IsEntry(e) /\ e.n = y.n /\ (Thunked(y) => e.k # "U")
        BY <2>3 DEF IsEntry, Thunked
    <2>5. IsEntry(y)
        BY <2>2 DEF IsEntry
    <2> QED BY <2>1, <2>4, <2>5 DEF Changed, y
<1>6. s = [i \in DOMAIN t.sym |-> s[i]]
    BY <1>2
<1>7. Entries(s, n)
    BY <1>1, <1>5, <1>6, ChangedKeeps
<1>8. r = [sym |-> s, index |-> t.index, errs |-> t.errs, csize |-> t.csize, t |-> size]
    BY <1>1, <1>3
<1>9. r.sym = s /\ r.index = t.index
    BY <1>1, <1>8
<1>10. r = [sym |-> r.sym, index |-> r.index, errs |-> r.errs, csize |-> r.csize, t |-> r.t]
    BY <1>1, <1>8
<1> QED BY <1>1, <1>7, <1>9, <1>10 DEF IsMiddle, r

LEMMA MakeThunksKeeps == ASSUME NEW t, NEW n, IsMiddle(t, n) PROVE IsMiddle(MakeThunks(t), n)
<1>1. \E from, size : MakeThunks(t) = WithStubbed(t, from, size)
    BY Zenon DEF MakeThunks, WithStubbed
<1> QED BY <1>1, StubbedKeeps, Zenon

\* What is added to a symbol's value.
LEMMA FinalIs ==
    ASSUME NEW s, NEW n, Entries(s, n), NEW i, i \in 1..Len(s), NEW base, NEW ovbase, "U" \notin DOMAIN base
    PROVE  Changed(s, n, i, Final(s[i], base, ovbase))
<1> DEFINE y == s[i]
           v == IF y.k \in DOMAIN base THEN y.v + base[y.k] ELSE y.v
           k == IF y.k = "C" THEN "B" ELSE y.k
           ova == IF ovl.num # 0 /\ Thunked(y) THEN y.ova + ovbase ELSE y.ova
           e == Final(y, base, ovbase)
<1>1. e = [y EXCEPT !.v = v, !.k = k, !.ova = ova]
    BY Zenon DEF Final
<1>2. y = [n |-> y.n, k |-> y.k, v |-> y.v, ov |-> y.ov, ova |-> y.ova]
    BY DEF Entries, IsEntry
<1>3. k = "U" => y.k = "U" /\ v = y.v
    OBVIOUS
<1> HIDE DEF y, v, k, ova, e
<1>4. e = [n |-> y.n, k |-> k, v |-> v, ov |-> y.ov, ova |-> ova]
    BY <1>1, <1>2
<1>5. IsEntry(e) /\ e.n = y.n /\ (e.k = "U" => y.k = "U" /\ e.v = y.v)
    BY <1>3, <1>4 DEF IsEntry
<1> QED BY <1>5 DEF Changed, e, y

LEMMA MiddleKeeps ==
    ASSUME Entries(symtab, symindex), Middle
    PROVE  Entries(symtab', symindex') /\ symindex' = symindex
<1> DEFINE thunks == WithThunks(WithCommons(WithUniv))
           s == thunks.sym
<1>1. IsMiddle(WithUniv, symindex)
    <2> DEFINE start == [sym |-> symtab, index |-> symindex, errs |-> errs, csize |-> 0, t |-> sizes.t]
    <2>1. IsMiddle(start, symindex)
        BY DEF IsMiddle
    <2>2. IsMiddle(ldrsym(start, Univ), symindex)
        <3>1. Univ.k # "U"
            BY DEF Univ
        <3> HIDE DEF start
        <3> QED BY <2>1, <3>1, LdrsymKeeps
    <2> HIDE DEF start
    <2> QED BY <2>1, <2>2, Zenon DEF WithUniv, start
<1>2. IsMiddle(WithCommons(WithUniv), symindex)
    <2> DEFINE e == EndsOf(sizes)
               tab == WithUniv
    <2>1. e[1].k # "U" /\ e[2].k # "U" /\ e[3].k # "U"
        BY DEF EndsOf
    <2> HIDE DEF tab, e
    <2>2. IsMiddle(tab, symindex)
        BY <1>1 DEF tab
    <2>3. IsMiddle(Allocate(ldrsym(ldrsym(ldrsym(tab, e[1]), e[2]), e[3])), symindex)
        BY <2>1, <2>2, LdrsymKeeps, AllocateKeeps
    <2>4. IsMiddle(WithCommons(tab), symindex)
        BY <2>2, <2>3, Zenon DEF WithCommons, e
    <2> QED BY <2>4 DEF tab
<1>3. IsMiddle(thunks, symindex)
    BY <1>2, MakeThunksKeeps DEF WithThunks
<1>4. /\ symindex' = symindex
      /\ \E base, ovbase : "U" \notin DOMAIN base
                        /\ symtab' = [i \in DOMAIN s |-> IF i <= symindex THEN Final(s[i], base, ovbase) ELSE s[i]]
    <2> DEFINE univ   == WithUniv
               common == WithCommons(univ)
               pure   == Has("n", univ) \/ Has("i", univ)
               tsize  == IF pure THEN RoundUp(thunks.t, Round) ELSE thunks.t
               osize  == [i \in DOMAIN ovl.size |-> RoundUp(ovl.size[i], Round)]
               ovbase == RoundUp(tsize, Page)
               ttsize == IF ovl.num # 0 THEN RoundUp(ovbase + Largest(osize), Page) ELSE tsize
               dorg   == IF Has("i", univ) THEN 0 ELSE IF Has("n", univ) THEN RoundUp(ttsize, Page) ELSE ttsize + FirstEdition
               corg   == dorg + sizes.d
               base   == [T |-> FirstEdition, D |-> dorg, B |-> corg + common.csize, C |-> corg]
    <2>1. symtab' = [i \in DOMAIN s |-> IF i <= symindex THEN Final(s[i], base, ovbase) ELSE s[i]] /\ symindex' = symindex
        BY Zenon DEF Middle
    <2>2. "U" \notin DOMAIN base
        <3> HIDE DEF dorg, corg, common
        <3>1. DOMAIN base = {"T", "D", "B", "C"}
            OBVIOUS
        <3> QED BY <3>1
    <2> HIDE DEF base, ovbase, thunks
    <2> QED BY <2>1, <2>2, Zenon
<1>5. PICK base, ovbase : "U" \notin DOMAIN base
                        /\ symtab' = [i \in DOMAIN s |-> IF i <= symindex THEN Final(s[i], base, ovbase) ELSE s[i]]
    BY <1>4, Zenon
<1> HIDE DEF thunks
<1> DEFINE r == symtab'
<1>6. Entries(s, symindex)
    BY <1>3 DEF IsMiddle
<1> HIDE DEF s
<1>7. r = [i \in DOMAIN s |-> IF i <= symindex THEN Final(s[i], base, ovbase) ELSE s[i]]
    BY <1>5
<1>8. r = [i \in DOMAIN s |-> r[i]]
    BY <1>7
<1>9. DOMAIN s = 1..Len(s)
    BY <1>6, DomainIs DEF Entries
<1>10. \A i \in 1..Len(s) : Changed(s, symindex, i, r[i])
    <2> SUFFICES ASSUME NEW i \in 1..Len(s) PROVE Changed(s, symindex, i, r[i])
        OBVIOUS
    <2>1. r[i] = IF i <= symindex THEN Final(s[i], base, ovbase) ELSE s[i]
        BY <1>7, <1>9
    <2>2. Changed(s, symindex, i, Final(s[i], base, ovbase))
        BY <1>5, <1>6, FinalIs
    <2>3. Changed(s, symindex, i, s[i])
        BY <1>6 DEF Changed, Entries
    <2> QED BY <2>1, <2>2, <2>3
<1> HIDE DEF r
<1>11. Entries(r, symindex)
    BY <1>6, <1>8, <1>10, ChangedKeeps
<1> QED BY <1>4, <1>11 DEF r

---------------------------------------------------------------------------
(* The invariant of the links, and the theorem.                            *)

\* The table is sound, and what is being linked, or will be, is objects.
LdInv ==
    /\ Entries(symtab, symindex)
    /\ AreArguments(args) /\ (then # <<>> => AreArguments(then[1].args))
    /\ at \in Nat \ {0} /\ IsSequence(liblist)

LEMMA NoEntries == Entries(<<>>, 0)
BY EmptyIs DEF Entries

LEMMA InitLd == LinksAreOfObjects /\ LdInit => LdInv
<1> SUFFICES ASSUME LinksAreOfObjects, LdInit PROVE LdInv
    OBVIOUS
<1>1. PICK l \in Links : args = l.args /\ opts = l.opts /\ then = l.then
    BY DEF LdInit
<1>2. AreArguments(args) /\ (then # <<>> => AreArguments(then[1].args))
    BY <1>1 DEF LinksAreOfObjects
<1>3. Entries(symtab, symindex)
    BY NoEntries DEF LdInit
<1>4. at \in Nat \ {0} /\ IsSequence(liblist)
    BY EmptyIs DEF LdInit
<1> QED BY <1>2, <1>3, <1>4 DEF LdInv

LEMMA ArgIs ==
    ASSUME LdInv, MoreArgs
    PROVE  (Arg.k = "obj" => IsObject(Arg.o)) /\ (Arg.k = "lib" => IsArchive(Arg.lib))
<1>1. at \in 1..Len(args)
    BY DEF LdInv, MoreArgs, AreArguments, IsSequence
<1> QED BY <1>1 DEF LdInv, AreArguments, Arg

\* The archive has been searched, with its table or without.
LEMMA ArchiveLoaded ==
    ASSUME LdInv, Load1Archive
    PROVE  LET tab == IF Arg.toc THEN rescan(Now, Arg.lib, ovl.cur) ELSE scan(Now, Arg.lib, ovl.cur)
           IN IsTable(tab) /\ Keep(tab) /\ liblist' = Append(liblist, tab.libs)
<1> DEFINE tab == IF Arg.toc THEN rescan(Now, Arg.lib, ovl.cur) ELSE scan(Now, Arg.lib, ovl.cur)
<1>1. IsArchive(Arg.lib)
    BY ArgIs DEF Load1Archive
<1>2. IsTable(Now) /\ Len(Now.libs) = 0
    BY NowIs DEF LdInv
<1>3. IsTable(rescan(Now, Arg.lib, ovl.cur)) /\ IsTable(scan(Now, Arg.lib, ovl.cur))
    <2>1. Searching(rescan(Now, Arg.lib, ovl.cur), Arg.lib)
        BY <1>1, <1>2, RescanIs
    <2>2. IsTable(scan(Now, Arg.lib, ovl.cur))
        BY <1>1, <1>2, ScanIs
    <2> QED BY <2>1, <2>2 DEF Searching
<1>4. Keep(tab) /\ liblist' = Append(liblist, tab.libs)
    BY DEF Load1Archive
<1> QED BY <1>3, <1>4

\* A symbol that is only wanted.
LEMMA WantedIs ==
    ASSUME Entries(symtab, symindex), NEW n, NEW cur
    PROVE  lookup(Now, n) = 0 => IsTable(enter(Now, [n |-> n, k |-> "U", v |-> 0], cur))
<1> DEFINE y == [n |-> n, k |-> "U", v |-> 0]
<1>1. IsTable(Now)
    BY NowIs
<1> SUFFICES ASSUME lookup(Now, n) = 0 PROVE IsTable(enter(Now, y, cur))
    OBVIOUS
<1>2. y.n = n /\ y.k = "U" /\ y.v \in Nat
    OBVIOUS
<1> HIDE DEF y
<1>3. \A i \in 1..Now.index : Now.sym[i].n # y.n
    BY <1>1, <1>2, LookupIs DEF IsTable, Entries
<1> QED BY <1>1, <1>2, <1>3, EnterIs

\* What -r makes is an object.
LEMMA OutputIs == ASSUME Entries(symtab, symindex) PROVE IsObject(Output)
<1> DEFINE syms == [i \in 1..symindex |-> [n |-> symtab[i].n, k |-> symtab[i].k, v |-> symtab[i].v]]
           X == {syms[i] : i \in 1..symindex}
<1>1. symindex \in Nat /\ (\A i \in 1..symindex : symtab[i].k = "U" => symtab[i].v \in Nat)
      /\ \A i, j \in 1..symindex : symtab[i].n = symtab[j].n => i = j
    BY DEF Entries
<1>2. Output.syms = syms
    BY DEF Output
<1>3. \A i \in 1..symindex : IsSymbol(syms[i]) /\ syms[i].n = symtab[i].n
    BY <1>1 DEF IsSymbol
<1>4. syms \in [1..symindex -> X]
    OBVIOUS
<1> HIDE DEF syms
<1>5. syms \in Seq(X) /\ Len(syms) = symindex
    <2> HIDE DEF X
    <2> QED BY <1>1, <1>4
<1>6. IsSequence(syms)
    <2> HIDE DEF X
    <2> QED BY <1>5 DEF IsSequence
<1>7. \A i, j \in 1..symindex : syms[i].n = syms[j].n => i = j
    BY <1>1, <1>3
<1> HIDE DEF X
<1> QED BY <1>2, <1>3, <1>5, <1>6, <1>7 DEF IsObject

\* Arguments before which an object is put.
LEMMA Prepended ==
    ASSUME NEW a, AreArguments(a), NEW e, e.k = "obj" => IsObject(e.o), e.k # "lib"
    PROVE  AreArguments(<<e>> \o a)
<1> DEFINE X == {a[i] : i \in 1..Len(a)} \union {e}
           b == <<e>> \o a
<1>1. IsSequence(a) /\ Len(a) \in Nat
    BY DEF AreArguments, IsSequence
<1>2. a \in [1..Len(a) -> X] /\ e \in X
    BY <1>1 DEF IsSequence
<1>3. a \in Seq(X) /\ <<e>> \in Seq(X) /\ Len(<<e>>) = 1 /\ <<e>>[1] = e
    <2> HIDE DEF X
    <2> QED BY <1>1, <1>2
<1>4. b \in Seq(X) /\ Len(b) = Len(a) + 1 /\ \A i \in 1..Len(b) : b[i] = IF i = 1 THEN e ELSE a[i - 1]
    <2> HIDE DEF X
    <2> QED BY <1>1, <1>3
<1>5. IsSequence(b)
    <2> HIDE DEF X, b
    <2> QED BY <1>4 DEF IsSequence
<1>6. ASSUME NEW i \in 1..Len(b)
      PROVE  (b[i].k = "obj" => IsObject(b[i].o)) /\ (b[i].k = "lib" => IsArchive(b[i].lib))
    <2>1. CASE i = 1
        BY <1>4, <2>1
    <2>2. CASE i # 1
        <3>1. i - 1 \in 1..Len(a) /\ b[i] = a[i - 1]
            BY <1>1, <1>4, <2>2
        <3> HIDE DEF b, X
        <3> QED BY <3>1 DEF AreArguments
    <2> QED BY <2>1, <2>2
<1> HIDE DEF b, X
<1>7. AreArguments(b)
    BY <1>5, <1>6 DEF AreArguments
<1> QED BY <1>7 DEF b

LEMMA NextLd == LdInv /\ [LdNext]_ldVars => LdInv'
<1> SUFFICES ASSUME LdInv, [LdNext]_ldVars PROVE LdInv'
    OBVIOUS
<1> DEFINE Same == UNCHANGED <<symtab, symindex>>
           SameArgs == UNCHANGED <<args, then>>
           AtMoves == at' \in Nat \ {0}
<1>1. /\ Entries(symtab, symindex) /\ AreArguments(args) /\ (then # <<>> => AreArguments(then[1].args))
      /\ at \in Nat \ {0} /\ IsSequence(liblist) /\ IsTable(Now)
    BY NowIs DEF LdInv
<1>2. NextArg => AtMoves
    BY <1>1 DEF NextArg
<1>3. ASSUME NEW tab, IsTable(tab), Keep(tab) PROVE Entries(symtab', symindex')
    BY <1>3 DEF Keep, IsTable
<1>4. CASE Load1Object
    <2>1. IsObject(Arg.o)
        BY <1>4, ArgIs DEF Load1Object
    <2>2. IsTable(load1(Now, Arg.o, FALSE, ovl.cur))
        <3>1. \A lib \in BOOLEAN : IsTable(load1(Now, Arg.o, lib, ovl.cur))
            BY <1>1, <2>1, LoadIs
        <3> QED BY <3>1, Zenon
    <2>3. Entries(symtab', symindex')
        BY <1>3, <1>4, <2>2 DEF Load1Object
    <2> QED BY <1>1, <1>2, <1>4, <2>3 DEF LdInv, Load1Object, fixed
<1>5. CASE Load1Archive
    <2>1. PICK tab : IsTable(tab) /\ Keep(tab) /\ liblist' = Append(liblist, tab.libs)
        BY <1>5, ArchiveLoaded, Zenon
    <2>2. Entries(symtab', symindex') /\ IsSequence(liblist')
        BY <1>1, <1>3, <2>1, Appended
    <2> QED BY <1>1, <1>2, <1>5, <2>2 DEF LdInv, Load1Archive, fixed
<1>6. CASE Use
    <2> DEFINE y == [n |-> Arg.n, k |-> "U", v |-> 0]
               tab == IF lookup(Now, Arg.n) = 0 THEN enter(Now, y, ovl.cur) ELSE Now
    <2>1. IsTable(tab)
        BY <1>1, WantedIs
    <2>2. Keep(tab)
        BY <1>6 DEF Use
    <2> HIDE DEF tab
    <2>3. Entries(symtab', symindex')
        BY <1>3, <2>1, <2>2
    <2> QED BY <1>1, <1>2, <1>6, <2>3 DEF LdInv, Use, fixed
<1>7. CASE BeginOverlay
    <2> DEFINE y   == [n |-> "ovhndlr1", k |-> "U", v |-> 0]
               tab == IF ovl.num = 0 /\ lookup(Now, y.n) = 0 THEN enter(Now, y, 0) ELSE Now
    <2>1. IsTable(tab)
        BY <1>1, WantedIs
    <2>2. Keep([tab EXCEPT !.size.t = 0])
        BY <1>7 DEF BeginOverlay
    <2> HIDE DEF tab
    <2>3. symtab' = tab.sym /\ symindex' = tab.index
        <3>1. tab = [sym |-> tab.sym, index |-> tab.index, ndef |-> tab.ndef, size |-> tab.size, libs |-> tab.libs]
            BY <2>1 DEF IsTable
        <3> QED BY <2>2, <3>1 DEF Keep
    <2>4. Entries(symtab', symindex')
        BY <2>1, <2>3 DEF IsTable
    <2> QED BY <1>1, <1>2, <1>7, <2>4 DEF LdInv, BeginOverlay, fixed
<1>8. CASE Middle
    <2>1. Entries(symtab', symindex')
        BY <1>1, <1>8, MiddleKeeps
    <2>2. at' = 1 /\ UNCHANGED <<args, then, liblist>>
        BY <1>8 DEF Middle
    <2> QED BY <1>1, <2>1, <2>2 DEF LdInv
<1>9. CASE LinkAgain
    <2>1. Entries(symtab', symindex')
        BY <1>9, NoEntries DEF LinkAgain
    <2>2. AreArguments(args')
        <3> DEFINE e == [k |-> "obj", o |-> Output]
        <3>1. AreArguments(then[1].args) /\ args' = <<e>> \o then[1].args
            BY <1>1, <1>9 DEF LinkAgain
        <3>2. e.k = "obj" /\ e.o = Output /\ IsObject(Output)
            BY <1>1, OutputIs
        <3> HIDE DEF e
        <3> QED BY <3>1, <3>2, Prepended
    <2>3. then' = <<>> /\ at' = 1 /\ liblist' = <<>>
        BY <1>9 DEF LinkAgain
    <2> QED BY <2>1, <2>2, <2>3, EmptyIs DEF LdInv
<1>10. ASSUME Same, SameArgs, UNCHANGED liblist, AtMoves PROVE LdInv'
    BY <1>1, <1>10 DEF LdInv
<1>11. CASE EndOverlay
    BY <1>2, <1>10, <1>11 DEF EndOverlay, fixed
<1>12. CASE Load2Object
    BY <1>2, <1>10, <1>12 DEF Load2Object, fixed, table
<1>13. CASE Load2Archive
    BY <1>2, <1>10, <1>13 DEF Load2Archive, fixed, table
<1>14. CASE Skip2
    BY <1>2, <1>10, <1>14 DEF Skip2, fixed, table
<1>15. CASE BeginOverlay2
    BY <1>2, <1>10, <1>15 DEF BeginOverlay2, fixed, table
<1>16. CASE EndOverlay2
    BY <1>2, <1>10, <1>16 DEF EndOverlay2, fixed, table
<1>17. CASE Finish
    <2>1. Same /\ SameArgs /\ UNCHANGED liblist /\ at' = at
        BY <1>17 DEF Finish, fixed, table
    <2> QED BY <1>1, <1>10, <2>1
<1>18. CASE UNCHANGED ldVars
    <2>1. Same /\ SameArgs /\ UNCHANGED liblist /\ at' = at
        BY <1>18 DEF ldVars
    <2> QED BY <1>1, <1>10, <2>1
<1> QED
    BY <1>4, <1>5, <1>6, <1>7, <1>8, <1>9, <1>11, <1>12, <1>13, <1>14, <1>15, <1>16, <1>17, <1>18 DEF LdNext

\* The symbol table of ld has each name once, and what -r puts out is an object
\* like those it was made of, through every link of a chain.
THEOREM LinksWellFormed == ASSUME LinksAreOfObjects PROVE LdSpec => []LdInv
<1>1. LdInit => LdInv
    BY InitLd
<1>2. LdInv /\ [LdNext]_ldVars => LdInv'
    BY NextLd
<1> QED BY <1>1, <1>2, PTL DEF LdSpec

\* The step of SearchComplete.
Searched ==
    pass = "one" /\ Load1Archive /\ Arg.toc =>
        /\ \A i \in 1..symindex' : symtab'[i].k = "U" /\ symtab'[i].v = 0
                => \A o \in Range(Arg.lib) : \A y \in Range(o.syms) : y.k # "U" => y.n # symtab'[i].n
        /\ IsInjective(Last(liblist'))
LEMMA StepSearches == LdInv /\ [LdNext]_ldVars => [Searched]_ldVars
<1> SUFFICES ASSUME LdInv, Load1Archive, Arg.toc PROVE Searched
    BY DEF Searched
<1> DEFINE lib == Arg.lib
           tab == rescan(Now, lib, ovl.cur)
<1>1. IsArchive(lib)
    BY ArgIs DEF Load1Archive
<1>2. Searching(tab, lib) /\ Quiescent(tab, lib)
    <2>1. IsTable(Now) /\ Len(Now.libs) = 0
        BY NowIs DEF LdInv
    <2> QED BY <1>1, <2>1, RescanIs
<1>3. symtab' = tab.sym /\ symindex' = tab.index /\ liblist' = Append(liblist, tab.libs)
    <2>1. /\ Keep(IF Arg.toc THEN tab ELSE scan(Now, lib, ovl.cur))
          /\ liblist' = Append(liblist, (IF Arg.toc THEN tab ELSE scan(Now, lib, ovl.cur)).libs)
        BY Zenon DEF Load1Archive
    <2> HIDE DEF tab, lib
    <2> QED BY <2>1 DEF Keep
<1> HIDE DEF tab, lib
<1>4. ASSUME NEW i \in 1..symindex', symtab'[i].k = "U", symtab'[i].v = 0, NEW o \in Range(lib), NEW y \in Range(o.syms), y.k # "U"
      PROVE  y.n # symtab'[i].n
    <2>1. PICK m \in 1..Len(lib) : o = lib[m]
        BY <1>1, DomainIs DEF Range, IsArchive
    <2>2. IsObject(o)
        BY <1>1, <2>1 DEF IsArchive
    <2>3. PICK j \in 1..Len(o.syms) : y = o.syms[j]
        BY <2>2, DomainIs DEF Range, IsObject
    <2>4. SettledFor(tab, y)
        BY <1>2, <2>1, <2>3 DEF Quiescent, Settled
    <2> SUFFICES ASSUME y.n = symtab'[i].n PROVE FALSE
        OBVIOUS
    <2>5. i \in 1..tab.index /\ tab.sym[i].n = y.n /\ tab.sym[i].k = "U" /\ tab.sym[i].v = 0
        BY <1>3, <1>4
    <2>6. Met(tab, y)
        BY <1>4, <2>4, <2>5 DEF SettledFor, Unknown
    <2>7. PICK h \in 1..tab.index : MetAt(tab, y, h)
        BY <2>6 DEF Met
    <2>8. h = i
        BY <1>2, <2>5, <2>7 DEF MetAt, Searching, IsTable, Entries
    <2> QED BY <2>5, <2>7, <2>8 DEF MetAt
<1>5. IsInjective(Last(liblist'))
    <2>1. Last(liblist') = tab.libs
        <3>1. IsSequence(liblist)
            BY DEF LdInv
        <3>2. Len(liblist') = Len(liblist) + 1 /\ liblist'[Len(liblist) + 1] = tab.libs
            BY <1>3, <3>1, Appended
        <3> QED BY <3>2 DEF Last
    <2>2. DOMAIN tab.libs = 1..Len(tab.libs)
        BY <1>2, DomainIs DEF Searching, IsTable
    <2>3. IsInjective(tab.libs)
        BY <1>2, <2>2 DEF IsInjective, Searching
    <2> QED BY <2>1, <2>3
<1> QED BY <1>4, <1>5 DEF Searched, lib

\* ldrand: when ld has searched an archive with a table no member is left that
\* defines a symbol still undefined, and none was taken twice.
THEOREM SearchIsComplete == ASSUME LinksAreOfObjects PROVE LdSpec => SearchComplete
<1>1. LdSpec => []LdInv
    BY LinksWellFormed
<1>2. LdInv /\ [LdNext]_ldVars => [Searched]_ldVars
    BY StepSearches
<1> QED BY <1>1, <1>2, PTL DEF LdSpec, SearchComplete, Searched
---------------------------------------------------------------------------
(* The room of the commons.                                                *)

\* Adding up b numbers, from the first on.
LEMMA Summed ==
    ASSUME NEW b \in Nat, NEW a \in [1..b -> Nat]
    PROVE  \E f \in [0..b -> Nat] : f[0] = 0 /\ \A k \in 1..b : f[k] = f[k - 1] + a[k]
<1> DEFINE P(m, f) == f \in [0..b -> Nat] /\ f[0] = 0 /\ \A k \in 1..m : f[k] = f[k - 1] + a[k]
           S == {m \in 0..b : \E f : P(m, f)}
<1>1. 0 \in S
    <2> DEFINE f == [k \in 0..b |-> 0]
    <2>1. P(0, f)
        OBVIOUS
    <2>2. 0 \in 0..b
        OBVIOUS
    <2> HIDE DEF f, P
    <2> QED BY <2>1, <2>2
<1>2. ASSUME NEW m \in 0..(b - 1), m \in S PROVE m + 1 \in S
    <2>1. PICK f : P(m, f)
        BY <1>2
    <2> DEFINE g == [k \in 0..b |-> IF k = m + 1 THEN f[m] + a[m + 1] ELSE f[k]]
    <2>2. m \in 0..b /\ m + 1 \in 1..b /\ m + 1 \in 0..b /\ m # m + 1 /\ 0 # m + 1
        OBVIOUS
    <2>3. g \in [0..b -> Nat] /\ g[0] = 0
        BY <2>1, <2>2
    <2>4. ASSUME NEW k \in 1..(m + 1) PROVE g[k] = g[k - 1] + a[k]
        <3>1. k \in 0..b /\ k - 1 \in 0..b /\ k - 1 # m + 1
            BY <2>2
        <3>2. CASE k = m + 1
            BY <2>2, <3>1, <3>2
        <3>3. CASE k # m + 1
            <4>1. k \in 1..m /\ g[k] = f[k] /\ g[k - 1] = f[k - 1]
                BY <3>1, <3>3
            <4> QED BY <2>1, <4>1
        <3> QED BY <3>2, <3>3
    <2>5. P(m + 1, g)
        <3> HIDE DEF g
        <3> QED BY <2>3, <2>4
    <2> QED BY <2>2, <2>5
<1>3. b \in S
    <2>1. b \in 0..b
        OBVIOUS
    <2> HIDE DEF S
    <2> QED BY <1>1, <1>2, <2>1, UpTo
<1> QED BY <1>3

\* Such sums do not fall.
LEMMA Rising ==
    ASSUME NEW b \in Nat, NEW f \in [0..b -> Nat], \A k \in 1..b : f[k - 1] <= f[k],
           NEW i \in 0..b, NEW j \in 0..b, i <= j
    PROVE  f[i] <= f[j]
<1> DEFINE S == {m \in 0..b : i <= m => f[i] <= f[m]}
<1>1. 0 \in S
    OBVIOUS
<1>2. ASSUME NEW m \in 0..(b - 1), m \in S PROVE m + 1 \in S
    <2>1. m + 1 \in 1..b /\ m + 1 \in 0..b /\ m \in 0..b /\ (m + 1) - 1 = m
        OBVIOUS
    <2>2. f[m] <= f[m + 1]
        BY <2>1
    <2>3. f[m] \in Nat /\ f[m + 1] \in Nat /\ f[i] \in Nat
        BY <2>1
    <2>4. CASE i <= m
        BY <1>2, <2>1, <2>2, <2>3, <2>4
    <2>5. CASE i = m + 1
        BY <2>1, <2>3, <2>5
    <2> QED BY <2>1, <2>4, <2>5
<1>3. j \in S
    <2>1. \A m \in 0..(b - 1) : m \in S => m + 1 \in S
        BY <1>2
    <2> HIDE DEF S
    <2> QED BY <1>1, <2>1, UpTo
<1> QED BY <1>3

\* Where Allocate puts the commons: one after the other.
LEMMA AllocateIs ==
    ASSUME NEW t, Entries(t.sym, t.index)
    PROVE  \E f \in [0..t.index -> Nat] :
              /\ \A k \in 1..t.index : f[k] = f[k - 1] + (IF Common(t.sym[k]) THEN t.sym[k].v ELSE 0)
              /\ Allocate(t) = WithAllotted(t, f, f[t.index])
<1> DEFINE b == t.index
           a == [k \in 1..b |-> IF Common(t.sym[k]) THEN t.sym[k].v ELSE 0]
           P(f) == f = [i \in 0..b |-> IF i = 0 THEN 0 ELSE f[i - 1] + (IF Common(t.sym[i]) THEN t.sym[i].v ELSE 0)]
           h == CHOOSE f : P(f)
<1>1. b \in Nat /\ a \in [1..b -> Nat]
    <2>1. b \in Nat /\ \A k \in 1..b : t.sym[k].k = "U" => t.sym[k].v \in Nat
        BY DEF Entries
    <2> QED BY <2>1 DEF Common
<1>2. PICK f \in [0..b -> Nat] : f[0] = 0 /\ \A k \in 1..b : f[k] = f[k - 1] + a[k]
    <2> HIDE DEF a, b
    <2> QED BY <1>1, Summed
<1>3. P(f)
    <2> DEFINE G == [i \in 0..b |-> IF i = 0 THEN 0 ELSE f[i - 1] + (IF Common(t.sym[i]) THEN t.sym[i].v ELSE 0)]
    <2>1. ASSUME NEW i \in 0..b PROVE f[i] = G[i]
        <3>1. CASE i = 0
            BY <1>2, <3>1
        <3>2. CASE i # 0
            <4>1. i \in 1..b
                BY <1>1, <3>2
            <4>2. f[i] = f[i - 1] + a[i] /\ a[i] = (IF Common(t.sym[i]) THEN t.sym[i].v ELSE 0)
                BY <1>2, <4>1
            <4>3. G[i] = f[i - 1] + (IF Common(t.sym[i]) THEN t.sym[i].v ELSE 0)
                BY <3>2
            <4> QED BY <4>2, <4>3
        <3> QED BY <3>1, <3>2
    <2>2. f = [i \in 0..b |-> f[i]] /\ G = [i \in 0..b |-> G[i]]
        OBVIOUS
    <2>3. f = G
        <3> HIDE DEF G
        <3> QED BY <2>1, <2>2
    <2> QED BY <2>3
<1>4. P(h)
    <2> HIDE DEF P
    <2> QED BY <1>3
<1>5. Allocate(t) = WithAllotted(t, h, h[b])
    BY Zenon DEF Allocate, WithAllotted
<1>6. \A k \in 1..b : h[k] = h[k - 1] + (IF Common(t.sym[k]) THEN t.sym[k].v ELSE 0)
    <2>1. \A k \in 1..b : k \in 0..b /\ k # 0
        OBVIOUS
    <2> HIDE DEF h
    <2> QED BY <1>4, <2>1
<1>7. h \in [0..b -> Nat]
    <2> DEFINE S == {m \in 0..b : h[m] \in Nat}
    <2>1. 0 \in S
        <3>1. 0 \in 0..b
            BY <1>1
        <3>2. h[0] = 0
            <4> HIDE DEF h
            <4> QED BY <1>4, <3>1
        <3> HIDE DEF h
        <3> QED BY <3>1, <3>2
    <2>2. ASSUME NEW m \in 0..(b - 1), m \in S PROVE m + 1 \in S
        <3>1. m + 1 \in 1..b /\ m + 1 \in 0..b /\ (m + 1) - 1 = m
            BY <1>1
        <3>2. h[m + 1] = h[m] + a[m + 1] /\ a[m + 1] \in Nat
            <4> HIDE DEF h
            <4> QED BY <1>1, <1>6, <3>1
        <3> HIDE DEF h, a
        <3> QED BY <2>2, <3>1, <3>2
    <2>3. \A m \in 0..b : m \in S
        <3>1. \A m \in 0..(b - 1) : m \in S => m + 1 \in S
            BY <2>2
        <3> HIDE DEF S
        <3> QED BY <1>1, <2>1, <3>1, UpTo
    <2>4. h = [i \in 0..b |-> h[i]]
        <3>1. \E G : h = [i \in 0..b |-> G[i]]
            <4> DEFINE G == [i \in 0..b |-> IF i = 0 THEN 0 ELSE h[i - 1] + (IF Common(t.sym[i]) THEN t.sym[i].v ELSE 0)]
            <4>1. h = G /\ G = [i \in 0..b |-> G[i]]
                <5> HIDE DEF h
                <5> QED BY <1>4
            <4> HIDE DEF h, G
            <4> QED BY <4>1
        <3> HIDE DEF h
        <3> QED BY <3>1
    <2> HIDE DEF h
    <2> QED BY <2>3, <2>4
<1> HIDE DEF h
<1> QED BY <1>5, <1>6, <1>7

\* The words a common is given in the table r, as many as t says it needs.
RoomIn(t, r, i) == r.sym[i].v .. r.sym[i].v + t.sym[i].v - 1

\* middle: any number of commons of any size get room of their own in the bss,
\* each as much as it needs, no two of them a word in common.
THEOREM CommonsAllotted ==
    ASSUME NEW t, NEW n, IsMiddle(t, n)
    PROVE  LET r == Allocate(t)
           IN \A i \in 1..n : Common(t.sym[i]) =>
                /\ r.sym[i].n = t.sym[i].n /\ r.sym[i].k = "C"
                /\ RoomIn(t, r, i) \subseteq 0..(r.csize - 1)
                /\ \A j \in 1..n : j # i /\ Common(t.sym[j]) => RoomIn(t, r, i) \intersect RoomIn(t, r, j) = {}
<1> DEFINE r == Allocate(t)
<1>1. /\ t = [sym |-> t.sym, index |-> t.index, errs |-> t.errs, csize |-> t.csize, t |-> t.t]
      /\ Entries(t.sym, t.index) /\ t.index = n
    BY DEF IsMiddle
<1>2. PICK f \in [0..n -> Nat] :
        /\ \A k \in 1..n : f[k] = f[k - 1] + (IF Common(t.sym[k]) THEN t.sym[k].v ELSE 0)
        /\ r = WithAllotted(t, f, f[n])
    <2> HIDE DEF r
    <2> QED BY <1>1, AllocateIs DEF r
<1> HIDE DEF r
<1>3. n \in Nat /\ n <= Len(t.sym) /\ DOMAIN t.sym = 1..Len(t.sym) /\ Len(t.sym) \in Nat
    BY <1>1, DomainIs DEF Entries, IsSequence
<1>4. r.csize = f[n] /\ r.sym = Allotted(t, f)
    <2> DEFINE s == Allotted(t, f)
    <2>1. r = [t EXCEPT !.sym = s, !.csize = f[n]]
        BY <1>2 DEF WithAllotted
    <2> HIDE DEF s
    <2> QED BY <1>1, <2>1 DEF s
<1>5. ASSUME NEW i \in 1..n, Common(t.sym[i])
      PROVE  /\ r.sym[i].n = t.sym[i].n /\ r.sym[i].k = "C" /\ r.sym[i].v = f[i - 1]
             /\ t.sym[i].v \in Nat /\ f[i] = f[i - 1] + t.sym[i].v
    <2> DEFINE y == t.sym[i]
               v == f[i - 1]
    <2>1. i \in DOMAIN t.sym /\ i <= t.index
        BY <1>1, <1>3
    <2>2. r.sym[i] = [y EXCEPT !.k = "C", !.v = v]
        BY <1>4, <1>5, <2>1 DEF Allotted
    <2>3. y = [n |-> y.n, k |-> y.k, v |-> y.v, ov |-> y.ov, ova |-> y.ova]
        BY <1>1, <1>3, <2>1 DEF Entries, IsEntry
    <2>4. t.sym[i].v \in Nat
        BY <1>1, <1>5 DEF Entries, Common
    <2>5. f[i] = f[i - 1] + t.sym[i].v
        BY <1>2, <1>5
    <2> HIDE DEF y, v
    <2>6. r.sym[i].n = y.n /\ r.sym[i].k = "C" /\ r.sym[i].v = v
        BY <2>2, <2>3
    <2> QED BY <2>4, <2>5, <2>6 DEF y, v
<1>6. ASSUME NEW i \in 0..n, NEW j \in 0..n, i <= j PROVE f[i] <= f[j]
    <2>1. ASSUME NEW k \in 1..n PROVE f[k - 1] <= f[k]
        <3>1. k \in 0..n /\ k - 1 \in 0..n
            BY <1>3
        <3>2. f[k] \in Nat /\ f[k - 1] \in Nat
            BY <3>1
        <3>3. CASE Common(t.sym[k])
            BY <1>5, <3>2, <3>3
        <3>4. CASE ~Common(t.sym[k])
            BY <1>2, <3>2, <3>4
        <3> QED BY <3>3, <3>4
    <2> QED BY <1>3, <1>6, <2>1, Rising
<1>7. ASSUME NEW i \in 1..n, Common(t.sym[i]) PROVE RoomIn(t, r, i) = f[i - 1]..(f[i] - 1)
    <2> DEFINE low == r.sym[i].v
               size == t.sym[i].v
    <2>1. low = f[i - 1] /\ f[i] = f[i - 1] + size /\ size \in Nat
        BY <1>5, <1>7
    <2>2. low + size - 1 = f[i] - 1
        <3> HIDE DEF low, size
        <3>1. f[i - 1] \in Nat
            BY <1>3
        <3> QED BY <2>1, <3>1
    <2>3. RoomIn(t, r, i) = low..(low + size - 1)
        BY Zenon DEF RoomIn
    <2> HIDE DEF low, size
    <2> QED BY <2>1, <2>2, <2>3
<1>8. ASSUME NEW i \in 1..n, NEW j \in 1..n, i < j, Common(t.sym[i]), Common(t.sym[j])
      PROVE  RoomIn(t, r, i) \intersect RoomIn(t, r, j) = {}
    <2>1. i \in 0..n /\ j - 1 \in 0..n /\ i - 1 \in 0..n /\ i <= j - 1
        BY <1>3, <1>8
    <2>2. f[i] <= f[j - 1]
        BY <1>6, <2>1
    <2>3. f[i] \in Nat /\ f[j - 1] \in Nat /\ f[i - 1] \in Nat
        BY <2>1
    <2>4. RoomIn(t, r, i) = f[i - 1]..(f[i] - 1)
        BY <1>8, <1>7
    <2>5. RoomIn(t, r, j) = f[j - 1]..(f[j] - 1) /\ f[j] \in Nat
        BY <1>8, <1>7
    <2> QED BY <2>2, <2>3, <2>4, <2>5
<1>9. ASSUME NEW i \in 1..n, Common(t.sym[i]) PROVE RoomIn(t, r, i) \subseteq 0..(r.csize - 1)
    <2>1. i \in 0..n /\ n \in 0..n /\ i - 1 \in 0..n /\ i <= n
        BY <1>3
    <2>2. f[i] <= f[n] /\ f[i] \in Nat /\ f[i - 1] \in Nat /\ f[n] \in Nat
        BY <1>6, <2>1
    <2>3. RoomIn(t, r, i) = f[i - 1]..(f[i] - 1)
        BY <1>9, <1>7
    <2> QED BY <1>4, <2>2, <2>3
<1>10. ASSUME NEW i \in 1..n, NEW j \in 1..n, j # i, Common(t.sym[i]), Common(t.sym[j])
      PROVE  RoomIn(t, r, i) \intersect RoomIn(t, r, j) = {}
    <2>1. i < j \/ j < i
        BY <1>3, <1>10
    <2> QED BY <1>8, <1>10, <2>1
<1> QED BY <1>5, <1>9, <1>10 DEF r
=============================================================================
