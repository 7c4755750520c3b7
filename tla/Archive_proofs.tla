--------------------------- MODULE Archive_proofs ---------------------------
(***************************************************************************)
(* Theorems about ar and ranlib, for any files, any number of members and  *)
(* of runs.                                                                *)
(***************************************************************************)
EXTENDS Archive, WellFoundedInduction, TLAPS

---------------------------------------------------------------------------
(* Recursion over 0..b.                                                    *)

LEMMA LeastNat ==
    ASSUME NEW T \in SUBSET Nat, T # {}
    PROVE  \E x \in T : \A y \in T : x <= y
<1> DEFINE R == {ss \in Nat \X Nat : ss[1] < ss[2]}
<1>1. IsWellFoundedOn(R, Nat)
    BY NatLessThanWellFounded DEF OpToRel
<1>2. PICK x \in T : \A y \in T : <<y, x>> \notin R
    BY <1>1, WFMin, Zenon
<1>3. ASSUME NEW y \in T PROVE x <= y
    <2>1. x \in Nat /\ y \in Nat
        OBVIOUS
    <2>2. ~(y < x)
        BY <1>2, <2>1
    <2> QED BY <2>1, <2>2, SMT
<1> QED BY <1>3

\* What holds at 0 and of k + 1 when of k holds up to b.
LEMMA UpTo ==
    ASSUME NEW b \in Nat, NEW S, 0 \in S,
           \A k \in 0..(b - 1) : k \in S => k + 1 \in S
    PROVE  \A k \in 0..b : k \in S
<1> DEFINE T == {k \in 0..b : k \notin S}
<1> SUFFICES ASSUME T # {} PROVE FALSE
    OBVIOUS
<1>1. PICK m \in T : \A y \in T : m <= y
    <2>1. T \in SUBSET Nat
        OBVIOUS
    <2> HIDE DEF T
    <2> QED BY <2>1, LeastNat
<1>2. m \in 0..b /\ m \notin S /\ m # 0
    BY <1>1
<1>3. m - 1 \in 0..(b - 1) /\ m - 1 \in 0..b
    BY <1>2
<1>4. m - 1 \in S
    BY <1>1, <1>3
<1>5. (m - 1) + 1 \in S
    BY <1>3, <1>4
<1> QED BY <1>2, <1>5

\* A function defined by recursion over 0..b exists.
Stepwise(X, b, base, St) == \E f \in [0..b -> X] : f[0] = base /\ \A k \in 1..b : f[k] = St[<<f[k - 1], k>>]
LEMMA Recursion ==
    ASSUME NEW X, NEW b \in Nat, NEW base \in X, NEW St, St \in [X \X (1..b) -> X]
    PROVE  Stepwise(X, b, base, St)
<1> DEFINE P(m) == \E f \in [0..m -> X] : f[0] = base /\ \A k \in 1..m : f[k] = St[<<f[k - 1], k>>]
           S == {m \in 0..b : P(m)}
<1>1. 0 \in S
    <2> DEFINE f0 == [k \in 0..0 |-> base]
    <2>1. f0 \in [0..0 -> X] /\ f0[0] = base /\ \A k \in 1..0 : f0[k] = St[<<f0[k - 1], k>>]
        OBVIOUS
    <2>2. P(0)
        <3> HIDE DEF f0
        <3> QED BY <2>1
    <2> QED BY <2>2
<1>2. ASSUME NEW m \in 0..(b - 1), m \in S PROVE m + 1 \in S
    <2>1. PICK f \in [0..m -> X] : f[0] = base /\ \A k \in 1..m : f[k] = St[<<f[k - 1], k>>]
        BY <1>2
    <2> DEFINE g == [k \in 0..(m + 1) |-> IF k = m + 1 THEN St[<<f[m], m + 1>>] ELSE f[k]]
    <2>2. m \in 0..m /\ m + 1 \in 1..b /\ f[m] \in X
        OBVIOUS
    <2>3. St[<<f[m], m + 1>>] \in X
        BY <2>2
    <2>4. g \in [0..(m + 1) -> X]
        BY <2>3
    <2>5. g[0] = base
        BY <2>1
    <2>6. ASSUME NEW k \in 1..(m + 1) PROVE g[k] = St[<<g[k - 1], k>>]
        <3>1. CASE k = m + 1
            <4>1. k \in 0..(m + 1) /\ k - 1 = m /\ m \in 0..(m + 1) /\ m # m + 1
                BY <3>1
            <4>2. g[k] = St[<<f[m], m + 1>>] /\ g[m] = f[m]
                BY <3>1, <4>1
            <4> HIDE DEF g
            <4> QED BY <3>1, <4>1, <4>2
        <3>2. CASE k # m + 1
            <4>1. k \in 1..m /\ k - 1 \in 0..m /\ k \in 0..m
                BY <3>2
            <4>2. g[k] = f[k] /\ g[k - 1] = f[k - 1]
                BY <4>1
            <4> HIDE DEF g
            <4> QED BY <2>1, <4>1, <4>2
        <3> QED BY <3>1, <3>2
    <2>7. P(m + 1)
        <3> HIDE DEF g
        <3> QED BY <2>4, <2>5, <2>6
    <2> QED BY <2>2, <2>7
<1>3. b \in S
    <2> HIDE DEF S
    <2>1. \A k \in 0..b : k \in S
        BY <1>1, <1>2, UpTo
    <2> QED BY <2>1
<1> QED BY <1>3 DEF Stepwise

Defined(X, b, base, St) == \E f \in [0..b -> X] : f = [k \in 0..b |-> IF k = 0 THEN base ELSE St[<<f[k - 1], k>>]]
LEMMA Definition ==
    ASSUME NEW X, NEW b \in Nat, NEW base \in X, NEW St, St \in [X \X (1..b) -> X]
    PROVE  Defined(X, b, base, St)
<1>1. Stepwise(X, b, base, St)
    BY Recursion
<1>2. PICK f \in [0..b -> X] : f[0] = base /\ \A k \in 1..b : f[k] = St[<<f[k - 1], k>>]
    BY <1>1 DEF Stepwise
<1>3. f = [k \in 0..b |-> IF k = 0 THEN base ELSE St[<<f[k - 1], k>>]]
    <2> DEFINE h == [k \in 0..b |-> IF k = 0 THEN base ELSE St[<<f[k - 1], k>>]]
    <2>1. ASSUME NEW k \in 0..b PROVE f[k] = h[k]
        BY <1>2
    <2>2. h = [k \in 0..b |-> h[k]] /\ f = [k \in 0..b |-> f[k]]
        OBVIOUS
    <2> HIDE DEF h
    <2>3. f = h
        BY <2>1, <2>2
    <2> QED BY <2>3 DEF h
<1> QED BY <1>3 DEF Defined

---------------------------------------------------------------------------
(* Those and Each.                                                         *)

\* The recursion of Those, as a function of how far it has come.
Collects(f, s, S) == f[0] = <<>> /\ \A k \in 1..Len(s) : f[k] = IF s[k] \in S THEN Append(f[k - 1], s[k]) ELSE f[k - 1]
LEMMA ThoseIs ==
    ASSUME NEW X, NEW s \in Seq(X), NEW S
    PROVE  \E f \in [0..Len(s) -> Seq(X)] : Collects(f, s, S) /\ Those(s, S) = f[Len(s)]
<1> DEFINE b == Len(s)
           P(f) == f = [k \in 0..Len(s) |-> IF k = 0 THEN <<>> ELSE IF s[k] \in S THEN Append(f[k - 1], s[k]) ELSE f[k - 1]]
           St == [p \in Seq(X) \X (1..b) |-> IF s[p[2]] \in S THEN Append(p[1], s[p[2]]) ELSE p[1]]
           upto == CHOOSE g : P(g)
<1>1. b \in Nat /\ \A k \in 1..b : s[k] \in X
    OBVIOUS
<1>2. St \in [Seq(X) \X (1..b) -> Seq(X)] /\ <<>> \in Seq(X)
    <2>1. ASSUME NEW p \in Seq(X) \X (1..b) PROVE (IF s[p[2]] \in S THEN Append(p[1], s[p[2]]) ELSE p[1]) \in Seq(X)
        <3>1. p[1] \in Seq(X) /\ p[2] \in 1..b /\ s[p[2]] \in X
            BY <1>1
        <3> QED BY <3>1
    <2> QED BY <2>1
<1>3. PICK f \in [0..b -> Seq(X)] : f = [k \in 0..b |-> IF k = 0 THEN <<>> ELSE St[<<f[k - 1], k>>]]
    <2> HIDE DEF St, b
    <2>1. Defined(Seq(X), b, <<>>, St)
        BY <1>1, <1>2, Definition
    <2> QED BY <2>1 DEF Defined
<1>4. P(f)
    <2>1. ASSUME NEW k \in 0..b, k # 0 PROVE St[<<f[k - 1], k>>] = IF s[k] \in S THEN Append(f[k - 1], s[k]) ELSE f[k - 1]
        <3>1. f[k - 1] \in Seq(X) /\ k \in 1..b
            BY <2>1
        <3> QED BY <3>1
    <2> HIDE DEF St
    <2>2. [k \in 0..b |-> IF k = 0 THEN <<>> ELSE St[<<f[k - 1], k>>]] =
          [k \in 0..b |-> IF k = 0 THEN <<>> ELSE IF s[k] \in S THEN Append(f[k - 1], s[k]) ELSE f[k - 1]]
        BY <2>1
    <2> QED BY <1>3, <2>2
<1>5. Those(s, S) = upto[b]
    BY Zenon DEF Those
<1>6. P(upto)
    <2> HIDE DEF P
    <2> QED BY <1>4
<1>7. Collects(upto, s, S)
    <2> HIDE DEF upto
    <2>1. Len(s) \in Nat /\ upto[0] = <<>>
        BY <1>1, <1>6
    <2>2. ASSUME NEW k \in 1..Len(s) PROVE upto[k] = IF s[k] \in S THEN Append(upto[k - 1], s[k]) ELSE upto[k - 1]
        <3>1. k \in 0..Len(s) /\ k # 0
            BY <2>1
        <3> QED BY <1>6, <3>1, Zenon
    <2> QED BY <2>1, <2>2 DEF Collects
<1> DEFINE G == {k \in 0..b : upto[k] \in Seq(X)}
<1>8. 0 \in G
    <2> HIDE DEF upto, St
    <2>1. upto[0] = <<>> /\ 0 \in 0..b /\ <<>> \in Seq(X)
        BY <1>1, <1>2, <1>7 DEF Collects
    <2> QED BY <2>1
<1>9. ASSUME NEW k \in 0..(b - 1), k \in G PROVE k + 1 \in G
    <2> HIDE DEF upto
    <2>1. k + 1 \in 1..b /\ k + 1 \in 0..b /\ (k + 1) - 1 = k /\ s[k + 1] \in X /\ upto[k] \in Seq(X)
        BY <1>1, <1>9
    <2>2. upto[k + 1] = IF s[k + 1] \in S THEN Append(upto[k], s[k + 1]) ELSE upto[k]
        BY <1>7, <2>1 DEF Collects
    <2>3. upto[k + 1] \in Seq(X)
        <3> HIDE DEF b
        <3> QED BY <2>1, <2>2
    <2> QED BY <2>1, <2>3
<1>10. \A k \in 0..b : k \in G
    <2> HIDE DEF G, b
    <2> QED BY <1>1, <1>8, <1>9, UpTo
<1>11. upto \in [0..b -> Seq(X)]
    <2>1. \A k \in 0..b : upto[k] \in Seq(X)
        BY <1>10
    <2> HIDE DEF upto
    <2> QED BY <1>6, <2>1
<1> HIDE DEF upto
<1> QED BY <1>5, <1>7, <1>11

LEMMA NoneOfNothing == ASSUME NEW S PROVE Those(<<>>, S) = <<>>
<1>1. <<>> \in Seq({}) /\ Len(<<>>) = 0
    OBVIOUS
<1>2. PICK f \in [0..Len(<<>>) -> Seq({})] : Collects(f, <<>>, S) /\ Those(<<>>, S) = f[Len(<<>>)]
    BY <1>1, ThoseIs
<1> QED BY <1>1, <1>2 DEF Collects

LEMMA ThoseType == ASSUME NEW X, NEW s \in Seq(X), NEW S PROVE Those(s, S) \in Seq(X)
<1>1. PICK f \in [0..Len(s) -> Seq(X)] : Collects(f, s, S) /\ Those(s, S) = f[Len(s)]
    BY ThoseIs
<1>2. Len(s) \in 0..Len(s)
    OBVIOUS
<1> QED BY <1>1, <1>2

LEMMA ThoseAppend ==
    ASSUME NEW X, NEW s \in Seq(X), NEW e \in X, NEW S
    PROVE  Those(Append(s, e), S) = IF e \in S THEN Append(Those(s, S), e) ELSE Those(s, S)
<1> DEFINE t == Append(s, e)
           n == Len(s)
<1>1. n \in Nat /\ t \in Seq(X) /\ Len(t) = n + 1 /\ t[n + 1] = e /\ \A k \in 1..n : t[k] = s[k]
    OBVIOUS
<1>2. PICK f \in [0..n -> Seq(X)] : Collects(f, s, S) /\ Those(s, S) = f[n]
    BY ThoseIs
<1> HIDE DEF t
<1>3. PICK g \in [0..Len(t) -> Seq(X)] : Collects(g, t, S) /\ Those(t, S) = g[Len(t)]
    BY <1>1, ThoseIs
<1> HIDE DEF n
<1> DEFINE G == {k \in 0..n : g[k] = f[k]}
<1>4. 0 \in G
    BY <1>1, <1>2, <1>3 DEF Collects, n
<1>5. ASSUME NEW k \in 0..(n - 1), k \in G PROVE k + 1 \in G
    <2>1. k + 1 \in 1..n /\ k + 1 \in 1..Len(t) /\ k + 1 \in 0..n /\ (k + 1) - 1 = k /\ t[k + 1] = s[k + 1] /\ g[k] = f[k]
        BY <1>1, <1>5
    <2>2. f[k + 1] = IF s[k + 1] \in S THEN Append(f[k], s[k + 1]) ELSE f[k]
        BY <1>2, <2>1 DEF Collects, n
    <2>3. g[k + 1] = IF t[k + 1] \in S THEN Append(g[k], t[k + 1]) ELSE g[k]
        BY <1>3, <2>1 DEF Collects
    <2>4. g[k + 1] = f[k + 1]
        BY <2>1, <2>2, <2>3
    <2> QED BY <2>1, <2>4
<1>6. n \in G
    <2> HIDE DEF G
    <2>1. \A k \in 0..n : k \in G
        BY <1>1, <1>4, <1>5, UpTo
    <2> QED BY <1>1, <2>1
<1>7. n + 1 \in 1..Len(t) /\ (n + 1) - 1 = n
    BY <1>1
<1>8. g[n + 1] = IF t[n + 1] \in S THEN Append(g[n], t[n + 1]) ELSE g[n]
    BY <1>3, <1>7 DEF Collects
<1>9. Those(t, S) = IF e \in S THEN Append(Those(s, S), e) ELSE Those(s, S)
    BY <1>1, <1>2, <1>3, <1>6, <1>8
<1> QED BY <1>9 DEF t

\* What there is at the end of s when what holds of <<>> holds of Append(t, e) when of t.
LEMMA Appending ==
    ASSUME NEW X, NEW G, NEW s \in Seq(X), <<>> \in G,
           \A t \in Seq(X), e \in X : t \in G => Append(t, e) \in G
    PROVE  s \in G
<1> DEFINE n == Len(s)
           part(k) == [j \in 1..k |-> s[j]]
           P == {k \in 0..n : part(k) \in Seq(X) /\ part(k) \in G}
<1>1. n \in Nat /\ \A j \in 1..n : s[j] \in X
    OBVIOUS
<1>2. 0 \in P
    <2>1. part(0) = <<>>
        OBVIOUS
    <2>2. part(0) \in Seq(X) /\ part(0) \in G
        <3> HIDE DEF part
        <3>1. <<>> \in Seq(X)
            OBVIOUS
        <3> QED BY <2>1, <3>1
    <2>3. 0 \in 0..n
        BY <1>1
    <2> HIDE DEF part, n
    <2> QED BY <2>2, <2>3
<1>3. ASSUME NEW k \in 0..(n - 1), k \in P PROVE k + 1 \in P
    <2>1. k + 1 \in 0..n /\ s[k + 1] \in X /\ part(k) \in Seq(X) /\ part(k) \in G
        BY <1>1, <1>3
    <2>2. Len(part(k)) = k
        BY <1>1, <2>1
    <2>3. part(k + 1) = Append(part(k), s[k + 1])
        BY <1>1, <2>1, <2>2
    <2>4. Append(part(k), s[k + 1]) \in Seq(X) /\ Append(part(k), s[k + 1]) \in G
        <3> HIDE DEF part
        <3> QED BY <2>1
    <2> HIDE DEF part
    <2> QED BY <2>1, <2>3, <2>4
<1>4. n \in P
    <2> HIDE DEF P, n
    <2>1. \A k \in 0..n : k \in P
        BY <1>1, <1>2, <1>3, UpTo
    <2> QED BY <1>1, <2>1
<1>5. part(n) = s
    BY <1>1
<1> HIDE DEF part
<1> QED BY <1>4, <1>5

LEMMA RangeAppend == ASSUME NEW X, NEW t \in Seq(X), NEW e \in X PROVE Range(Append(t, e)) = Range(t) \cup {e}
<1> DEFINE u == Append(t, e)
           n == Len(t)
<1>1. n \in Nat /\ DOMAIN t = 1..n /\ DOMAIN u = 1..(n + 1) /\ u[n + 1] = e /\ \A k \in 1..n : u[k] = t[k]
    OBVIOUS
<1> HIDE DEF u, n
<1>2. 1..(n + 1) = (1..n) \cup {n + 1}
    BY <1>1
<1>3. Range(u) = Range(t) \cup {e}
    BY <1>1, <1>2 DEF Range
<1> QED BY <1>3 DEF u

LEMMA RangeThose == ASSUME NEW X, NEW s \in Seq(X), NEW S PROVE Range(Those(s, S)) = Range(s) \cap S
<1> DEFINE G == {t \in Seq(X) : Range(Those(t, S)) = Range(t) \cap S}
<1>1. <<>> \in G
    <2>1. Range(<<>>) = {} /\ <<>> \in Seq(X)
        BY DEF Range
    <2> QED BY <2>1, NoneOfNothing
<1>2. ASSUME NEW t \in Seq(X), NEW e \in X, t \in G PROVE Append(t, e) \in G
    <2>1. Append(t, e) \in Seq(X) /\ Those(t, S) \in Seq(X)
        BY ThoseType
    <2>2. Those(Append(t, e), S) = IF e \in S THEN Append(Those(t, S), e) ELSE Those(t, S)
        BY ThoseAppend
    <2>3. Range(Append(t, e)) = Range(t) \cup {e} /\ Range(Append(Those(t, S), e)) = Range(Those(t, S)) \cup {e}
        BY <2>1, RangeAppend
    <2>4. Range(Those(t, S)) = Range(t) \cap S
        BY <1>2
    <2>5. Range(Those(Append(t, e), S)) = Range(Append(t, e)) \cap S
        <3>1. CASE e \in S
            BY <2>2, <2>3, <2>4, <3>1
        <3>2. CASE e \notin S
            BY <2>2, <2>3, <2>4, <3>2
        <3> QED BY <3>1, <3>2
    <2> QED BY <2>1, <2>5
<1>3. s \in G
    <2> HIDE DEF G
    <2> QED BY <1>1, <1>2, Appending
<1> QED BY <1>3

LEMMA ThoseOfThose == ASSUME NEW X, NEW s \in Seq(X), NEW S, NEW T PROVE Those(Those(s, S), T) = Those(s, S \cap T)
<1> DEFINE G == {t \in Seq(X) : Those(Those(t, S), T) = Those(t, S \cap T)}
<1>1. <<>> \in G
    <2>1. <<>> \in Seq(X)
        OBVIOUS
    <2> QED BY <2>1, NoneOfNothing
<1>2. ASSUME NEW t \in Seq(X), NEW e \in X, t \in G PROVE Append(t, e) \in G
    <2>1. Append(t, e) \in Seq(X) /\ Those(t, S) \in Seq(X)
        BY ThoseType
    <2>2. Those(Append(t, e), S) = IF e \in S THEN Append(Those(t, S), e) ELSE Those(t, S)
        BY ThoseAppend
    <2>3. Those(Append(t, e), S \cap T) = IF e \in S \cap T THEN Append(Those(t, S \cap T), e) ELSE Those(t, S \cap T)
        BY ThoseAppend
    <2>4. Those(Append(Those(t, S), e), T) = IF e \in T THEN Append(Those(Those(t, S), T), e) ELSE Those(Those(t, S), T)
        BY <2>1, ThoseAppend
    <2>5. Those(Those(t, S), T) = Those(t, S \cap T)
        BY <1>2
    <2>6. Those(Those(Append(t, e), S), T) = Those(Append(t, e), S \cap T)
        <3>1. CASE e \in S
            <4>1. Those(Append(t, e), S) = Append(Those(t, S), e) /\ (e \in S \cap T <=> e \in T)
                BY <2>2, <3>1
            <4> QED BY <2>3, <2>4, <2>5, <4>1, Zenon
        <3>2. CASE e \notin S
            BY <2>2, <2>3, <2>5, <3>2
        <3> QED BY <3>1, <3>2
    <2> QED BY <2>1, <2>6
<1>3. s \in G
    <2> HIDE DEF G
    <2> QED BY <1>1, <1>2, Appending
<1> QED BY <1>3

\* Only what S has in common with the elements counts.
LEMMA SameOfThose ==
    ASSUME NEW X, NEW s \in Seq(X), NEW S, NEW T, \A e \in X : e \in S <=> e \in T
    PROVE  Those(s, S) = Those(s, T)
<1> DEFINE G == {t \in Seq(X) : Those(t, S) = Those(t, T)}
<1>1. <<>> \in G
    <2>1. <<>> \in Seq(X)
        OBVIOUS
    <2> QED BY <2>1, NoneOfNothing
<1>2. ASSUME NEW t \in Seq(X), NEW e \in X, t \in G PROVE Append(t, e) \in G
    <2>1. Append(t, e) \in Seq(X)
        OBVIOUS
    <2>2. Those(Append(t, e), S) = IF e \in S THEN Append(Those(t, S), e) ELSE Those(t, S)
        BY ThoseAppend
    <2>3. Those(Append(t, e), T) = IF e \in T THEN Append(Those(t, T), e) ELSE Those(t, T)
        BY ThoseAppend
    <2>4. (e \in S <=> e \in T) /\ Those(t, S) = Those(t, T)
        BY <1>2
    <2>5. Those(Append(t, e), S) = Those(Append(t, e), T)
        BY <2>2, <2>3, <2>4, Zenon
    <2> QED BY <2>1, <2>5
<1>3. s \in G
    <2> HIDE DEF G
    <2> QED BY <1>1, <1>2, Appending
<1> QED BY <1>3

LEMMA AllOfThose ==
    ASSUME NEW X, NEW s \in Seq(X), NEW S, \A e \in X : e \in S
    PROVE  Those(s, S) = s
<1> DEFINE G == {t \in Seq(X) : Those(t, S) = t}
<1>1. <<>> \in G
    <2>1. <<>> \in Seq(X)
        OBVIOUS
    <2> QED BY <2>1, NoneOfNothing
<1>2. ASSUME NEW t \in Seq(X), NEW e \in X, t \in G PROVE Append(t, e) \in G
    <2>1. Append(t, e) \in Seq(X)
        OBVIOUS
    <2>2. Those(Append(t, e), S) = IF e \in S THEN Append(Those(t, S), e) ELSE Those(t, S)
        BY ThoseAppend
    <2> QED BY <1>2, <2>1, <2>2
<1>3. s \in G
    <2> HIDE DEF G
    <2> QED BY <1>1, <1>2, Appending
<1> QED BY <1>3

LEMMA NoneOfThose ==
    ASSUME NEW X, NEW s \in Seq(X), NEW S, \A e \in X : e \notin S
    PROVE  Those(s, S) = <<>>
<1> DEFINE G == {t \in Seq(X) : Those(t, S) = <<>>}
<1>1. <<>> \in G
    <2>1. <<>> \in Seq(X)
        OBVIOUS
    <2> QED BY <2>1, NoneOfNothing
<1>2. ASSUME NEW t \in Seq(X), NEW e \in X, t \in G PROVE Append(t, e) \in G
    <2>1. Append(t, e) \in Seq(X)
        OBVIOUS
    <2>2. Those(Append(t, e), S) = IF e \in S THEN Append(Those(t, S), e) ELSE Those(t, S)
        BY ThoseAppend
    <2> QED BY <1>2, <2>1, <2>2
<1>3. s \in G
    <2> HIDE DEF G
    <2> QED BY <1>1, <1>2, Appending
<1> QED BY <1>3

LEMMA EachAt ==
    ASSUME NEW X, NEW F, NEW s \in Seq(X)
    PROVE  Each(F, s) = [k \in 1..Len(s) |-> F[s[k]]]
BY DEF Each

LEMMA EachType ==
    ASSUME NEW X, NEW Y, NEW F \in [X -> Y], NEW s \in Seq(X)
    PROVE  Each(F, s) \in Seq(Y)
<1>1. Len(s) \in Nat /\ \A k \in 1..Len(s) : s[k] \in X
    OBVIOUS
<1>2. \A k \in 1..Len(s) : F[s[k]] \in Y
    BY <1>1
<1> QED BY <1>1, <1>2, EachAt

LEMMA EachAppend ==
    ASSUME NEW X, NEW F, NEW s \in Seq(X), NEW e \in X
    PROVE  Each(F, Append(s, e)) = Append(Each(F, s), F[e])
<1> DEFINE t == Append(s, e)
           n == Len(s)
           v == [k \in 1..n |-> F[s[k]]]
           w == [k \in 1..(n + 1) |-> F[t[k]]]
<1>1. n \in Nat /\ t \in Seq(X) /\ Len(t) = n + 1 /\ t[n + 1] = e /\ \A k \in 1..n : t[k] = s[k]
    OBVIOUS
<1>2. Each(F, s) = v /\ Each(F, t) = w
    <2> HIDE DEF t
    <2> QED BY <1>1, EachAt
<1>3. v \in Seq({F[s[k]] : k \in 1..n}) /\ Len(v) = n
    BY <1>1
<1>4. w = Append(v, F[e])
    BY <1>1, <1>3
<1> HIDE DEF v, w
<1> QED BY <1>2, <1>4

LEMMA EachNothing == ASSUME NEW F PROVE Each(F, <<>>) = <<>>
BY DEF Each

---------------------------------------------------------------------------
(* What there is while ar runs: members, a command, a position in the      *)
(* archive.                                                                *)

Entries == [n : Files, off : Int]
Stored == [n : Files, v : Nat, date : Nat] \cup [n : {SYMDEF}, v : Seq(Entries), date : Nat]
Types ==
    /\ dir \in [Files -> Nat] /\ archive \in Seq(Stored) /\ af \in Seq(Stored)
    /\ now \in Nat /\ mtime \in Nat
    /\ pc \in Working \cup {"idle", "copy"}
    /\ pc # "idle" => cmd \in Commands /\ (cmd.op = "d" => cmd.pos = "")

LEMMA AfIs ==
    ASSUME Types
    PROVE  /\ Len(af) \in Nat /\ DOMAIN af = 1..Len(af) /\ af \in Seq(Stored) /\ af \in [1..Len(af) -> Stored]
           /\ \A k \in 1..Len(af) : af[k] \in Stored
<1>1. af \in Seq(Stored)
    BY DEF Types
<1> QED BY <1>1

LEMMA CommandIs ==
    ASSUME NEW c \in Commands
    PROVE  c.op \in {"r", "d", "m"} /\ c.names \in Seq(Files) /\ (c.pos # "" => c.where \in {"a", "b"})
<1>1. PICK o \in {"r", "d", "m"}, n \in NameLists, p \in Places, u \in BOOLEAN :
          c = [op |-> o, names |-> n, pos |-> p.pos, where |-> p.where, u |-> u]
    BY DEF Commands
<1>2. n \in Seq(Files)
    <2>1. n \in UNION {[1..k -> Files] : k \in 0..2}
        BY DEF NameLists
    <2>2. PICK k \in 0..2 : n \in [1..k -> Files]
        BY <2>1
    <2> QED BY <2>2
<1>3. p.pos # "" => p.where \in {"a", "b"}
    <2>1. p = [pos |-> "", where |-> ""] \/ p \in [pos : Files, where : {"a", "b"}]
        BY DEF Places
    <2>2. CASE p = [pos |-> "", where |-> ""]
        BY <2>2
    <2>3. CASE p \in [pos : Files, where : {"a", "b"}]
        BY <2>3
    <2> QED BY <2>1, <2>2, <2>3
<1> QED BY <1>1, <1>2, <1>3

LEMMA MembersType == ASSUME Types, NEW s \in Seq(Files) PROVE Members(s) \in Seq(Stored)
<1> DEFINE F == [f \in Files |-> Member(f, dir[f])]
<1>1. F \in [Files -> Stored]
    BY DEF Types, Member, Stored
<1>2. Those(s, There) \in Seq(Files)
    BY ThoseType
<1> HIDE DEF F
<1>3. Each(F, Those(s, There)) \in Seq(Stored)
    BY <1>1, <1>2, EachType
<1> QED BY <1>3 DEF Members, F

LEMMA ResultType == ASSUME Types, NEW k \in DOMAIN af PROVE Result(k) \in Stored
<1>1. af[k] \in Stored
    BY AfIs
<1>2. Fresh(af[k], Named(k)) \in Stored
    BY <1>1 DEF Types, Fresh, Member, Stored
<1> QED BY <1>1, <1>2 DEF Result

---------------------------------------------------------------------------
(* How far a scan has come.                                                *)

Order(p) == [k \in 1..p |-> k]
Results == [k \in DOMAIN af |-> Result(k)]
Upto(p, S) == Each(Results, Those(Order(p), S))
Moving == {k \in DOMAIN af : Named(k)}
Moved(p) == Each(af, Those(Order(p), Moving))
Before == {k \in Kept : k <= Position}
After == {k \in Kept : k > Position}

LEMMA OrderIs ==
    ASSUME NEW p \in Nat
    PROVE  /\ Order(p) \in Seq(1..p) /\ Order(p + 1) = Append(Order(p), p + 1) /\ Order(0) = <<>>
           /\ \A q \in Nat : p <= q => Order(p) \in Seq(1..q)
<1>1. Order(p) \in Seq(1..p) /\ Len(Order(p)) = p
    BY DEF Order
<1>2. Order(p + 1) = Append(Order(p), p + 1)
    BY DEF Order
<1>3. Order(0) = <<>>
    BY DEF Order
<1>4. ASSUME NEW q \in Nat, p <= q PROVE Order(p) \in Seq(1..q)
    BY <1>4 DEF Order
<1> QED BY <1>1, <1>2, <1>3, <1>4

LEMMA ThoseUpto ==
    ASSUME NEW p \in Nat, NEW S
    PROVE  /\ Those(Order(p), S) \in Seq(1..p)
           /\ Those(Order(p + 1), S) = IF p + 1 \in S THEN Append(Those(Order(p), S), p + 1) ELSE Those(Order(p), S)
           /\ Those(Order(0), S) = <<>>
<1>1. Order(p) \in Seq(1..p) /\ Order(p) \in Seq(1..(p + 1)) /\ p + 1 \in 1..(p + 1)
    BY OrderIs
<1>2. Those(Order(p), S) \in Seq(1..p)
    BY <1>1, ThoseType
<1>3. Those(Append(Order(p), p + 1), S) = IF p + 1 \in S THEN Append(Those(Order(p), S), p + 1) ELSE Those(Order(p), S)
    <2> DEFINE X == 1..(p + 1)
               s == Order(p)
               e == p + 1
    <2>1. s \in Seq(X) /\ e \in X
        BY <1>1
    <2> HIDE DEF X, s, e
    <2>2. Those(Append(s, e), S) = IF e \in S THEN Append(Those(s, S), e) ELSE Those(s, S)
        BY <2>1, ThoseAppend
    <2> QED BY <2>2 DEF s, e
<1>4. Order(p + 1) = Append(Order(p), p + 1) /\ Order(0) = <<>>
    BY OrderIs
<1> QED BY <1>2, <1>3, <1>4, NoneOfNothing

OneOn(F, p, S) ==
    Each(F, Those(Order(p + 1), S)) = IF p + 1 \in S THEN Append(Each(F, Those(Order(p), S)), F[p + 1]) ELSE Each(F, Those(Order(p), S))

LEMMA StepOfEach ==
    ASSUME NEW F, NEW p \in Nat, NEW S
    PROVE  OneOn(F, p, S) /\ Each(F, Those(Order(0), S)) = <<>>
<1> DEFINE t == Those(Order(p), S)
<1>1. /\ t \in Seq(1..p)
      /\ Those(Order(p + 1), S) = IF p + 1 \in S THEN Append(t, p + 1) ELSE t
      /\ Those(Order(0), S) = <<>>
    BY ThoseUpto
<1> HIDE DEF t
<1>2. t \in Seq(1..(p + 1)) /\ p + 1 \in 1..(p + 1)
    BY <1>1
<1>3. Each(F, Append(t, p + 1)) = Append(Each(F, t), F[p + 1])
    BY <1>2, EachAppend
<1>4. Each(F, Those(Order(p + 1), S)) = IF p + 1 \in S THEN Append(Each(F, t), F[p + 1]) ELSE Each(F, t)
    BY <1>1, <1>3
<1> QED BY <1>1, <1>4, EachNothing DEF t, OneOn

LEMMA UptoStep ==
    ASSUME Types, NEW p \in 0..(Len(af) - 1), NEW S
    PROVE  Upto(p + 1, S) = IF p + 1 \in S THEN Append(Upto(p, S), Result(p + 1)) ELSE Upto(p, S)
<1>1. p \in Nat /\ p + 1 \in DOMAIN af
    BY AfIs
<1>2. Results[p + 1] = Result(p + 1)
    BY <1>1 DEF Results
<1>3. OneOn(Results, p, S)
    BY <1>1, StepOfEach
<1> QED BY <1>2, <1>3 DEF OneOn, Upto

LEMMA MovedStep ==
    ASSUME Types, NEW p \in 0..(Len(af) - 1)
    PROVE  Moved(p + 1) = IF Named(p + 1) THEN Append(Moved(p), af[p + 1]) ELSE Moved(p)
<1>1. p \in Nat /\ p + 1 \in DOMAIN af
    BY AfIs
<1>2. p + 1 \in Moving <=> Named(p + 1)
    BY <1>1 DEF Moving
<1>3. OneOn(af, p, Moving)
    BY <1>1, StepOfEach
<1> QED BY <1>2, <1>3 DEF OneOn, Moved

LEMMA AtStart == Upto(0, Before) = <<>> /\ Moved(0) = <<>>
<1>1. 0 \in Nat
    OBVIOUS
<1> QED BY <1>1, StepOfEach DEF Upto, Moved

LEMMA AtEnd ==
    ASSUME Types, NEW S
    PROVE  Upto(Len(af), S) = Contents(S) /\ Moved(Len(af)) = Each(af, InOrder(Moving))
<1>1. Order(Len(af)) = [k \in DOMAIN af |-> k]
    BY AfIs DEF Order
<1> QED BY <1>1 DEF Upto, Moved, Contents, InOrder, Results

LEMMA UptoType ==
    ASSUME Types, NEW p \in 0..Len(af), NEW S
    PROVE  Upto(p, S) \in Seq(Stored) /\ Moved(p) \in Seq(Stored)
<1>1. p \in Nat /\ DOMAIN af = 1..Len(af) /\ Len(af) \in Nat /\ af \in [1..Len(af) -> Stored]
    BY AfIs
<1>2. Results \in [1..Len(af) -> Stored]
    BY <1>1, ResultType DEF Results
<1>3. ASSUME NEW T PROVE Those(Order(p), T) \in Seq(1..Len(af))
    <2>1. Order(p) \in Seq(1..Len(af))
        BY <1>1, OrderIs
    <2> QED BY <2>1, ThoseType
<1> QED BY <1>1, <1>2, <1>3, EachType DEF Upto, Moved

\* Nothing goes behind the position before it is reached.
LEMMA NothingBack ==
    ASSUME Types, Position \in Nat, NEW p \in 0..Len(af), p <= Position
    PROVE  Upto(p, After) = <<>>
<1>1. p \in Nat /\ Order(p) \in Seq(1..p)
    BY AfIs, OrderIs
<1>2. \A k \in 1..p : k \notin After
    BY <1>1 DEF After
<1>3. Those(Order(p), After) = <<>>
    BY <1>1, <1>2, NoneOfThose
<1> QED BY <1>3, EachNothing DEF Upto

---------------------------------------------------------------------------
(* The position, and when bamatch swaps the files.                         *)

Given == cmd.pos # ""
Ahead == cmd.where = "b"
Behind == cmd.where = "a"
Meets(m) == m.n = cmd.pos
Found == Given /\ \E k \in DOMAIN af : Meets(af[k])
WhereGiven == Given => (Ahead <=> ~Behind)

LEMMA NotFound == ASSUME Types, ~Found PROVE Position = Len(af)
<1>1. {k \in DOMAIN af : cmd.pos # "" /\ af[k].n = cmd.pos} = {}
    BY DEF Found, Given, Meets
<1> QED BY <1>1 DEF Position

LEMMA WhenFound ==
    ASSUME Types, Found
    PROVE  \E k0 \in 1..Len(af) : /\ Meets(af[k0]) /\ \A k \in 1..(k0 - 1) : ~Meets(af[k])
                                  /\ Position = IF Ahead THEN k0 - 1 ELSE k0
<1> DEFINE at == {k \in DOMAIN af : cmd.pos # "" /\ af[k].n = cmd.pos}
           k0 == CHOOSE x \in at : \A y \in at : x <= y
<1>1. Len(af) \in Nat /\ DOMAIN af = 1..Len(af)
    BY AfIs
<1>2. at # {} /\ at \in SUBSET Nat
    <2>1. PICK k \in DOMAIN af : Meets(af[k])
        BY DEF Found
    <2>2. Given
        BY DEF Found
    <2>3. k \in at
        BY <2>1, <2>2 DEF Given, Meets
    <2>4. at \in SUBSET DOMAIN af
        OBVIOUS
    <2> HIDE DEF at
    <2> QED BY <1>1, <2>3, <2>4
<1>3. Position = IF Ahead THEN k0 - 1 ELSE k0
    BY <1>2 DEF Position, Ahead
<1>4. k0 \in at /\ \A y \in at : k0 <= y
    <2> HIDE DEF at
    <2>1. \E x \in at : \A y \in at : x <= y
        BY <1>2, LeastNat
    <2> QED BY <2>1
<1> HIDE DEF k0
<1>5. k0 \in DOMAIN af /\ Meets(af[k0])
    BY <1>4 DEF Meets
<1>6. k0 \in 1..Len(af) /\ k0 \in Nat
    BY <1>1, <1>5
<1>7. ASSUME NEW k \in 1..(k0 - 1) PROVE ~Meets(af[k])
    <2>1. k \in DOMAIN af /\ ~(k0 <= k)
        BY <1>1, <1>6
    <2>2. k \notin at
        <3> HIDE DEF at
        <3> QED BY <1>4, <2>1
    <2>3. Given
        BY DEF Found
    <2> QED BY <2>1, <2>2, <2>3 DEF Given, Meets
<1> HIDE DEF at
<1> QED BY <1>3, <1>5, <1>6, <1>7

LEMMA PositionIn == ASSUME Types PROVE Position \in 0..Len(af)
<1>1. Len(af) \in Nat
    BY AfIs
<1>2. CASE Found
    <2>1. PICK k0 \in 1..Len(af) : Position = IF Ahead THEN k0 - 1 ELSE k0
        BY <1>2, WhenFound
    <2> QED BY <1>1, <2>1
<1>3. CASE ~Found
    BY <1>1, <1>3, NotFound
<1> QED BY <1>2, <1>3

\* bastate by how far the scan has come.
Told(p) == IF ~Given \/ p > Position THEN 0 ELSE IF Behind /\ Found /\ p = Position THEN 2 ELSE 1
TellsNext(m) == IF bastate = 1 /\ m.n = cmd.pos /\ cmd.where = "a" THEN 2 ELSE IF Swaps(m) THEN 0 ELSE bastate

LEMMA Telling ==
    ASSUME NEW m
    PROVE  /\ Swaps(m) <=> bastate = 2 \/ (bastate = 1 /\ Meets(m) /\ Ahead)
           /\ TellsNext(m) = IF bastate = 1 /\ Meets(m) /\ Behind THEN 2 ELSE IF Swaps(m) THEN 0 ELSE bastate
BY Zenon DEF Swaps, TellsNext, Meets, Ahead, Behind

LEMMA SwapsThere ==
    ASSUME Types, WhereGiven, NEW p \in 0..(Len(af) - 1), bastate = Told(p)
    PROVE  (Swaps(af[p + 1]) <=> p = Position) /\ TellsNext(af[p + 1]) = Told(p + 1)
<1> DEFINE m == af[p + 1]
<1>1. Len(af) \in Nat /\ DOMAIN af = 1..Len(af) /\ p + 1 \in DOMAIN af /\ p \in Nat /\ p < Len(af)
    BY AfIs
<1>2. ASSUME NEW P, P = Len(af) PROVE p # P /\ ~(p > P) /\ ~(p + 1 > P)
    <2>1. P \in Nat /\ p \in Nat /\ p < P
        BY <1>1, <1>2
    <2> QED BY <2>1
<1>3. CASE ~Given
    <2>1. Position = Len(af)
        BY <1>3, NotFound DEF Found
    <2>2. bastate = 0 /\ Told(p + 1) = 0
        BY <1>3, Zenon DEF Told
    <2>3. p # Position
        BY <1>2, <2>1
    <2>4. ~Swaps(m) /\ TellsNext(m) = 0
        BY <2>2, Telling
    <2> QED BY <2>2, <2>3, <2>4
<1>4. CASE Given /\ ~Found
    <2>1. Position = Len(af)
        BY <1>4, NotFound
    <2>2. ~Meets(m)
        BY <1>1, <1>4 DEF Found
    <2>3. p # Position /\ ~(p > Position) /\ ~(p + 1 > Position)
        BY <1>2, <2>1
    <2>4. bastate = 1 /\ Told(p + 1) = 1 /\ p # Position
        BY <1>4, <2>3, Zenon DEF Told
    <2>5. ~Swaps(m) /\ TellsNext(m) = 1
        BY <2>2, <2>4, Telling
    <2> QED BY <2>4, <2>5
<1>5. CASE Given /\ Found
    <2>1. PICK k0 \in 1..Len(af) : /\ Meets(af[k0]) /\ \A k \in 1..(k0 - 1) : ~Meets(af[k])
                                   /\ Position = IF Ahead THEN k0 - 1 ELSE k0
        BY <1>5, WhenFound
    <2>2. k0 \in Nat /\ k0 > 0
        BY <1>1, <2>1
    <2>3. p + 1 < k0 => ~Meets(m)
        <3>1. p + 1 < k0 => p + 1 \in 1..(k0 - 1)
            BY <1>1, <2>2
        <3> QED BY <2>1, <3>1
    <2>4. p + 1 = k0 => Meets(m)
        BY <2>1
    <2>5. CASE Ahead
        <3>1. Position = k0 - 1
            BY <2>1, <2>5
        <3>2. CASE p < Position
            <4>1. bastate = 1 /\ Told(p + 1) = 1 /\ ~Meets(m) /\ p # Position
                BY <1>1, <1>5, <2>2, <2>3, <2>5, <3>1, <3>2 DEF Told, WhereGiven
            <4>2. ~Swaps(m) /\ TellsNext(m) = 1
                BY <4>1, Telling
            <4> QED BY <4>1, <4>2
        <3>3. CASE p = Position
            <4>1. bastate = 1 /\ Told(p + 1) = 0 /\ Meets(m)
                BY <1>1, <1>5, <2>2, <2>4, <2>5, <3>1, <3>3 DEF Told, WhereGiven
            <4>2. Swaps(m) /\ TellsNext(m) = 0
                BY <1>5, <2>5, <4>1, Telling DEF WhereGiven
            <4> QED BY <3>3, <4>1, <4>2
        <3>4. CASE p > Position
            <4>1. bastate = 0 /\ Told(p + 1) = 0 /\ p # Position
                BY <1>1, <2>2, <3>1, <3>4 DEF Told
            <4>2. ~Swaps(m) /\ TellsNext(m) = 0
                BY <4>1, Telling
            <4> QED BY <4>1, <4>2
        <3> QED BY <1>1, <2>2, <3>1, <3>2, <3>3, <3>4
    <2>6. CASE ~Ahead /\ Behind
        <3>1. Position = k0
            BY <2>1, <2>6
        <3>2. CASE p + 1 < k0
            <4>1. bastate = 1 /\ Told(p + 1) = 1 /\ ~Meets(m) /\ p # Position
                BY <1>1, <1>5, <2>2, <2>3, <3>1, <3>2 DEF Told
            <4>2. ~Swaps(m) /\ TellsNext(m) = 1
                BY <4>1, Telling
            <4> QED BY <4>1, <4>2
        <3>3. CASE p + 1 = k0
            <4>1. bastate = 1 /\ Told(p + 1) = 2 /\ Meets(m) /\ p # Position
                BY <1>1, <1>5, <2>2, <2>4, <2>6, <3>1, <3>3 DEF Told
            <4>2. ~Swaps(m) /\ TellsNext(m) = 2
                BY <2>6, <4>1, Telling
            <4> QED BY <4>1, <4>2
        <3>4. CASE p = k0
            <4>1. bastate = 2 /\ Told(p + 1) = 0 /\ p = Position
                BY <1>1, <1>5, <2>2, <2>6, <3>1, <3>4 DEF Told
            <4>2. Swaps(m) /\ TellsNext(m) = 0
                BY <4>1, Telling
            <4> QED BY <4>1, <4>2
        <3>5. CASE p > k0
            <4>1. bastate = 0 /\ Told(p + 1) = 0 /\ p # Position
                BY <1>1, <2>2, <3>1, <3>5 DEF Told
            <4>2. ~Swaps(m) /\ TellsNext(m) = 0
                BY <4>1, Telling
            <4> QED BY <4>1, <4>2
        <3> QED BY <1>1, <2>2, <3>2, <3>3, <3>4, <3>5
    <2> QED BY <1>5, <2>5, <2>6 DEF WhereGiven
<1> QED BY <1>3, <1>4, <1>5

---------------------------------------------------------------------------
(* The temporary files and the names left, by how far the scan has come.   *)

LEMMA Temporary ==
    ASSUME NEW s
    PROVE  Held(File(s)) = s /\ File(s) # Nothing /\ File(s) # Stdin /\ Held(Nothing) = <<>> /\ Held(Stdin) = <<>> /\ Stdin # Nothing
<1>1. Len(File(s)) = 1 /\ Len(Stdin) = 2 /\ Len(Nothing) = 0
    BY DEF File, Stdin, Nothing
<1>2. File(s) # Nothing /\ File(s) # Stdin /\ Stdin # Nothing
    <2>1. 1 # 2 /\ 1 # 0 /\ 2 # 0
        OBVIOUS
    <2> QED BY <1>1, <2>1, Zenon
<1>3. File(s)[1] = s /\ Stdin[1] = <<>>
    BY DEF File, Stdin
<1> QED BY <1>2, <1>3, Zenon DEF Held

Remaining(p) == Files \ {af[j].n : j \in 1..p}
Divided(p, first, second) == second = File(Upto(p, Before)) /\ first = File(Upto(p, After))
TwoFiles(p, first, second) ==
    IF p <= Position THEN second = Nothing /\ first = File(Upto(p, Before)) ELSE Divided(p, first, second)
\* At the position the files may be swapped already.
Sorted(p, first, second, state) ==
    \/ state = Told(p) /\ TwoFiles(p, first, second)
    \/ state = 0 /\ p = Position /\ Divided(p, first, second)
Third(p) == IF cmd.op = "m" THEN File(Moved(p)) ELSE Nothing
Scanned(p) ==
    /\ names = Those(cmd.names, Remaining(p))
    /\ Sorted(p, tf, tf1, bastate)
    /\ tf2 = Third(p)
\* bamatch() has made the second file, and not yet swapped them.
Splitting(p) ==
    /\ names = Those(cmd.names, Remaining(p))
    /\ bastate = 0 /\ p = Position /\ TwoFiles(p, tf, tf1)
    /\ tf2 = Third(p)

\* All of this is about the archive and the command alone, and the directory.
LEMMA SameQuestion ==
    ASSUME dir' = dir, cmd' = cmd, af' = af
    PROVE  /\ Position' = Position /\ Asked' = Asked /\ Before' = Before /\ After' = After /\ Moving' = Moving /\ Results' = Results
           /\ Found' = Found /\ Given' = Given /\ Behind' = Behind
<1>1. Position' = Position
    BY DEF Position
<1>2. Results' = Results
    BY DEF Results, Result, Fresh, Named
<1>3. Kept' = Kept /\ Moving' = Moving
    BY DEF Kept, Named, Moving
<1>4. Before' = Before /\ After' = After
    BY <1>1, <1>3 DEF Before, After
<1>5. Contents(Before)' = Contents(Before) /\ Contents(After)' = Contents(After)
    BY <1>2, <1>4 DEF Contents, InOrder, Results
<1>6. Added' = Added
    BY <1>3 DEF Added, Members, There, InOrder, Moving
<1>7. Asked = Contents(Before) \o Added \o Contents(After)
    BY DEF Asked, Before, After
<1>8. Asked' = Asked
    BY <1>5, <1>6, <1>7 DEF Asked, Before, After
<1>9. Found' = Found /\ Given' = Given /\ Behind' = Behind
    BY DEF Found, Given, Behind, Meets
<1> QED BY <1>1, <1>2, <1>3, <1>4, <1>8, <1>9

LEMMA SameTerms ==
    ASSUME dir' = dir, cmd' = cmd, af' = af, NEW q
    PROVE  /\ Remaining(q)' = Remaining(q) /\ Third(q)' = Third(q)
           /\ Sorted(q, tf, tf1, bastate)' = Sorted(q, tf', tf1', bastate')
           /\ TwoFiles(q, tf, tf1)' = TwoFiles(q, tf', tf1')
<1>1. Remaining(q)' = Remaining(q)
    BY DEF Remaining
<1>2. Told(q)' = Told(q) /\ Position' = Position
    BY SameQuestion DEF Told
<1>3. Upto(q, Before)' = Upto(q, Before) /\ Upto(q, After)' = Upto(q, After) /\ Moved(q)' = Moved(q)
    BY SameQuestion DEF Upto, Moved, Order
<1>4. TwoFiles(q, tf, tf1)' = TwoFiles(q, tf', tf1') /\ Divided(q, tf, tf1)' = Divided(q, tf', tf1')
    BY <1>2, <1>3 DEF TwoFiles, Divided
<1> QED BY <1>1, <1>2, <1>3, <1>4 DEF Third, Sorted

LEMMA ScannedThen ==
    ASSUME dir' = dir, cmd' = cmd, af' = af, NEW q,
           names' = Those(cmd.names, Remaining(q)), Sorted(q, tf', tf1', bastate'), tf2' = Third(q)
    PROVE  Scanned(q)'
BY SameTerms DEF Scanned

LEMMA MatchesNamed ==
    ASSUME Types, cmd.names \in Seq(Files), NEW p \in 0..(Len(af) - 1), names = Those(cmd.names, Remaining(p))
    PROVE  Matches(af[p + 1]) <=> Named(p + 1)
<1>1. Range(names) = Range(cmd.names) \cap Remaining(p)
    BY RangeThose
<1>2. Range(cmd.names) \subseteq Files
    BY DEF Range
<1>3. (p + 1) - 1 = p
    BY AfIs
<1>4. af[p + 1].n \in Remaining(p) <=> af[p + 1].n \in Files /\ \A j \in 1..p : af[j].n # af[p + 1].n
    BY DEF Remaining
<1> QED BY <1>1, <1>2, <1>3, <1>4, Zenon DEF Matches, Named

LEMMA StruckOff ==
    ASSUME Types, cmd.names \in Seq(Files), NEW p \in 0..(Len(af) - 1), names = Those(cmd.names, Remaining(p))
    PROVE  Those(names, Files \ {af[p + 1].n}) = Those(cmd.names, Remaining(p + 1))
<1>1. 1..(p + 1) = (1..p) \cup {p + 1}
    BY AfIs
<1>2. Remaining(p + 1) = Remaining(p) \cap (Files \ {af[p + 1].n})
    BY <1>1 DEF Remaining
<1> QED BY <1>2, ThoseOfThose

LEMMA KeptBefore ==
    ASSUME Types, NEW p \in 0..(Len(af) - 1)
    PROVE  /\ p + 1 \in Before <=> p + 1 \in Kept /\ p < Position
           /\ p + 1 \in After <=> p + 1 \in Kept /\ p >= Position
<1>1. p \in Nat /\ Position \in Nat
    BY AfIs, PositionIn
<1>2. (p + 1 <= Position <=> p < Position) /\ (p + 1 > Position <=> p >= Position)
    BY <1>1
<1> QED BY <1>2 DEF Before, After

\* A member more, kept or not, behind what is in the file it goes to.
LEMMA OneMore ==
    ASSUME Types, WhereGiven, NEW p \in 0..(Len(af) - 1), Sorted(p, tf, tf1, bastate), bamatch(af[p + 1]), tf1' = tf1,
           tf' = IF p + 1 \in Kept THEN File(Append(Held(tf), Result(p + 1))) ELSE tf
    PROVE  Sorted(p + 1, tf', tf1', bastate')
<1> DEFINE P == Position
           m == af[p + 1]
           kept == p + 1 \in Kept
           r == Result(p + 1)
           a == Upto(p, Before)
           b == Upto(p, After)
<1>1. p \in Nat /\ P \in Nat /\ p \in 0..Len(af)
    BY AfIs, PositionIn
<1>2. /\ Upto(p + 1, Before) = IF kept /\ p < P THEN Append(a, r) ELSE a
      /\ Upto(p + 1, After) = IF kept /\ p >= P THEN Append(b, r) ELSE b
    BY UptoStep, KeptBefore
<1>3. ~Swaps(m) /\ bastate' = TellsNext(m)
    BY Zenon DEF bamatch, TellsNext
<1>4. CASE bastate = Told(p) /\ p < P /\ TwoFiles(p, tf, tf1)
    <2>1. tf1 = Nothing /\ tf = File(a)
        BY <1>1, <1>4 DEF TwoFiles
    <2>2. Held(tf) = a
        BY <2>1, Temporary
    <2>3. tf' = File(Upto(p + 1, Before)) /\ tf1' = Nothing
        BY <1>2, <1>4, <2>1, <2>2
    <2>4. p + 1 <= P
        BY <1>1, <1>4
    <2>5. bastate' = Told(p + 1)
        BY <1>3, <1>4, SwapsThere
    <2> QED BY <2>3, <2>4, <2>5 DEF TwoFiles, Sorted
<1>5. CASE p >= P /\ Divided(p, tf, tf1)
    <2>1. p + 1 > P /\ ~(p < P) /\ ~(p + 1 <= P)
        BY <1>1, <1>5
    <2>2. tf1 = File(a) /\ tf = File(b)
        BY <1>5 DEF Divided
    <2>3. Held(tf) = b
        BY <2>2, Temporary
    <2>4. tf' = File(Upto(p + 1, After)) /\ tf1' = File(Upto(p + 1, Before))
        BY <1>2, <1>5, <2>1, <2>2, <2>3
    <2>5. bastate' = Told(p + 1)
        <3>1. CASE bastate = Told(p)
            BY <1>3, <3>1, SwapsThere
        <3>2. CASE bastate = 0
            <4>1. TellsNext(m) = 0
                BY <3>2, Telling
            <4> QED BY <1>3, <2>1, <4>1 DEF Told
        <3> QED BY <3>1, <3>2 DEF Sorted
    <2> QED BY <2>1, <2>4, <2>5 DEF TwoFiles, Divided, Sorted
<1>6. bastate = Told(p) => p # P
    BY <1>3, SwapsThere
<1> QED BY <1>1, <1>4, <1>5, <1>6 DEF Sorted, TwoFiles

---------------------------------------------------------------------------
(* The steps of a scan.                                                    *)

\* Replacing, ar tests what Fresh says.
LEMMA ReplacedIs ==
    ASSUME NEW m, NEW named \in BOOLEAN, Matches(m) <=> named
    PROVE  (IF Replacing(m) THEN Member(m.n, dir[m.n]) ELSE m) = Fresh(m, named)
BY DEF Replacing, Fresh, Older

LEMMA Scan ==
    ASSUME Types, pc = "scan", NEW p \in 0..(Len(af) - 1), i = p + 1, Scanned(p), ReplaceOne \/ DeleteOne \/ MoveOne
    PROVE  Scanned(p + 1)'
<1> DEFINE m == af[p + 1]
<1>1. cmd \in Commands /\ (cmd.op = "d" => cmd.pos = "")
    BY DEF Types, Working
<1>2. cmd.names \in Seq(Files) /\ WhereGiven
    BY <1>1, CommandIs DEF WhereGiven, Given, Ahead, Behind
<1>3. names = Those(cmd.names, Remaining(p)) /\ Sorted(p, tf, tf1, bastate) /\ tf2 = Third(p)
    BY DEF Scanned
<1>4. Matches(m) <=> Named(p + 1)
    BY <1>2, <1>3, MatchesNamed
<1>5. Those(names, Files \ {m.n}) = Those(cmd.names, Remaining(p + 1))
    BY <1>2, <1>3, StruckOff
<1>6. p \in Nat /\ p + 1 \in DOMAIN af
    BY AfIs
<1>7. NextMember /\ Strike(m)
    BY DEF ReplaceOne, DeleteOne, MoveOne
<1>8. dir' = dir /\ cmd' = cmd /\ af' = af /\ tf1' = tf1 /\ names' = Those(cmd.names, Remaining(p + 1))
    BY <1>5, <1>7 DEF NextMember, Strike, world
<1>9. Moved(p + 1) = IF Named(p + 1) THEN Append(Moved(p), m) ELSE Moved(p)
    BY MovedStep
<1> HIDE DEF m
<1>10. CASE ReplaceOne
    <2>1. /\ cmd.op = "r" /\ bamatch(m) /\ tf2' = tf2
          /\ tf' = File(Append(Held(tf), IF Replacing(m) THEN Member(m.n, dir[m.n]) ELSE m))
        BY <1>10 DEF ReplaceOne, m
    <2>2. p + 1 \in Kept /\ Result(p + 1) = Fresh(m, Named(p + 1))
        BY <1>6, <2>1 DEF Kept, Result, m
    <2>3. (IF Replacing(m) THEN Member(m.n, dir[m.n]) ELSE m) = Result(p + 1)
        <3>1. Named(p + 1) \in BOOLEAN
            BY DEF Named
        <3> QED BY <1>4, <2>2, <3>1, ReplacedIs
    <2>4. tf' = IF p + 1 \in Kept THEN File(Append(Held(tf), Result(p + 1))) ELSE tf
        BY <2>1, <2>2, <2>3
    <2>5. Sorted(p + 1, tf', tf1', bastate')
        BY <1>2, <1>3, <1>8, <2>1, <2>4, OneMore DEF m
    <2>6. tf2' = Third(p + 1)
        BY <1>3, <2>1 DEF Third
    <2> QED BY <1>8, <2>5, <2>6, ScannedThen
<1>11. CASE DeleteOne
    <2>1. /\ cmd.op = "d" /\ UNCHANGED <<bastate, tf2>>
          /\ tf' = IF Matches(m) THEN tf ELSE File(Append(Held(tf), m))
        BY <1>11 DEF DeleteOne, m
    <2>2. ~Given
        BY <1>1, <2>1 DEF Given
    <2>3. Position = Len(af)
        BY <2>2, NotFound DEF Found
    <2>4. p # Position
        BY <1>6, <2>3
    <2>5. bastate = Told(p) /\ bastate = 0
        BY <1>3, <2>2, <2>4, Zenon DEF Sorted, Told
    <2>6. ~Swaps(m) /\ bamatch(m)
        <3>1. ~Swaps(m)
            BY <2>5, Telling
        <3> QED BY <2>1, <2>5, <3>1 DEF bamatch
    <2>7. (p + 1 \in Kept <=> ~Matches(m)) /\ Result(p + 1) = m
        BY <1>4, <1>6, <2>1 DEF Kept, Result, m
    <2>8. tf' = IF p + 1 \in Kept THEN File(Append(Held(tf), Result(p + 1))) ELSE tf
        BY <2>1, <2>7
    <2>9. Sorted(p + 1, tf', tf1', bastate')
        BY <1>2, <1>3, <1>8, <2>6, <2>8, OneMore DEF m
    <2>10. tf2' = Third(p + 1)
        BY <1>3, <2>1 DEF Third
    <2> QED BY <1>8, <2>9, <2>10, ScannedThen
<1>12. CASE MoveOne
    <2>1. /\ cmd.op = "m" /\ bamatch(m)
          /\ tf' = IF Matches(m) THEN tf ELSE File(Append(Held(tf), m))
          /\ tf2' = IF Matches(m) THEN File(Append(Held(tf2), m)) ELSE tf2
        BY <1>12 DEF MoveOne, m
    <2>2. (p + 1 \in Kept <=> ~Matches(m)) /\ Result(p + 1) = m
        BY <1>4, <1>6, <2>1 DEF Kept, Result, m
    <2>3. tf' = IF p + 1 \in Kept THEN File(Append(Held(tf), Result(p + 1))) ELSE tf
        BY <2>1, <2>2
    <2>4. Sorted(p + 1, tf', tf1', bastate')
        BY <1>2, <1>3, <1>8, <2>1, <2>3, OneMore DEF m
    <2>5. tf2' = Third(p + 1)
        <3>1. tf2 = File(Moved(p)) /\ Held(tf2) = Moved(p)
            BY <1>3, <2>1, Temporary DEF Third
        <3> QED BY <1>4, <1>9, <2>1, <3>1 DEF Third
    <2> QED BY <1>8, <2>4, <2>5, ScannedThen
<1> QED BY <1>10, <1>11, <1>12

\* At the end, what the files hold one behind the other is what was asked for.
LEMMA Concatenation ==
    ASSUME NEW X, NEW s \in Seq(X), NEW t \in Seq(X), NEW u \in Seq(X)
    PROVE  /\ s \o <<>> = s /\ <<>> \o s = s /\ s \o t \in Seq(X)
           /\ (s \o t) \o <<>> = s \o t
OBVIOUS

LEMMA AskedType ==
    ASSUME Types, pc # "idle"
    PROVE  /\ Asked = Contents(Before) \o Added \o Contents(After)
           /\ Contents(Before) \in Seq(Stored) /\ Added \in Seq(Stored) /\ Contents(After) \in Seq(Stored) /\ Asked \in Seq(Stored)
<1>1. Asked = Contents(Before) \o Added \o Contents(After)
    BY DEF Asked, Before, After
<1>2. Len(af) \in 0..Len(af)
    BY AfIs
<1>3. ASSUME NEW S PROVE Contents(S) \in Seq(Stored) /\ Each(af, InOrder(Moving)) \in Seq(Stored)
    BY <1>2, AtEnd, UptoType
<1>4. Added \in Seq(Stored)
    <2>1. cmd.names \in Seq(Files)
        BY CommandIs DEF Types
    <2>2. CASE cmd.op = "r"
        <3>1. Those(cmd.names, {n \in Files : \A k \in DOMAIN af : af[k].n # n}) \in Seq(Files)
            BY <2>1, ThoseType
        <3> QED BY <2>2, <3>1, MembersType DEF Added
    <2>3. CASE cmd.op = "m"
        BY <1>3, <2>3 DEF Added, Moving
    <2>4. CASE cmd.op # "r" /\ cmd.op # "m"
        BY <2>4 DEF Added
    <2> QED BY <2>2, <2>3, <2>4
<1> QED BY <1>1, <1>3, <1>4, Concatenation

LEMMA Cleaned ==
    ASSUME Types, pc = "scan", i = Len(af) + 1, Scanned(Len(af)), cleanup
    PROVE  install(tf', tf2', tf1') = Asked /\ (IF tf1 = Nothing THEN tf ELSE tf1) # Stdin
<1> DEFINE A == Contents(Before)
           B == Contents(After)
           n == Len(af)
<1>1. n \in Nat /\ Position \in Nat /\ Position <= n /\ n \in 0..n
    BY AfIs, PositionIn
<1>2. Upto(n, Before) = A /\ Upto(n, After) = B /\ Moved(n) = Each(af, InOrder(Moving))
    BY AtEnd
<1>3. Asked = A \o Added \o B /\ A \in Seq(Stored) /\ Added \in Seq(Stored) /\ B \in Seq(Stored)
    BY AskedType
<1>4. names = Those(cmd.names, Remaining(n)) /\ Sorted(n, tf, tf1, bastate) /\ tf2 = Third(n)
    BY DEF Scanned
<1>5. cmd.op \in {"r", "d", "m"} /\ cmd.names \in Seq(Files)
    BY CommandIs DEF Types, Working
<1>6. cmd.op = "r" => Added = Members(names)
    <2>1. Remaining(n) = {f \in Files : \A k \in DOMAIN af : af[k].n # f}
        BY AfIs DEF Remaining
    <2> QED BY <1>4, <2>1 DEF Added
<1>7. cmd.op = "m" => Added = Moved(n)
    BY <1>2 DEF Added, Moving
<1>8. cmd.op = "d" => Added = <<>>
    BY DEF Added
<1> HIDE DEF A, B
<1>9. Held(IF tf1 = Nothing THEN tf ELSE tf1) = A /\ Held(tf1') = B /\ (IF tf1 = Nothing THEN tf ELSE tf1) # Stdin
    <2>1. tf1' = IF tf1 = Nothing THEN Nothing ELSE tf
        BY DEF cleanup
    <2>2. CASE n <= Position /\ TwoFiles(n, tf, tf1)
        <3>1. tf1 = Nothing /\ tf = File(A)
            BY <1>2, <2>2 DEF TwoFiles
        <3>2. B = <<>>
            BY <1>1, <1>2, <2>2, NothingBack
        <3> QED BY <2>1, <3>1, <3>2, Temporary
    <2>3. CASE Divided(n, tf, tf1)
        <3>1. tf1 = File(A) /\ tf = File(B)
            BY <1>2, <2>3 DEF Divided
        <3> QED BY <2>1, <3>1, Temporary
    <2> QED BY <1>4, <2>2, <2>3 DEF Sorted, TwoFiles
<1>10. tf' = File(A \o Adding) /\ tf2' = tf2
    BY <1>9 DEF cleanup
<1>11. CASE cmd.op = "r"
    <2>1. Held(tf') = A \o Added /\ Held(tf2') = <<>>
        BY <1>4, <1>6, <1>10, <1>11, Temporary DEF Adding, Third
    <2>2. (A \o Added) \o <<>> = A \o Added
        BY <1>3, Concatenation
    <2>3. install(tf', tf2', tf1') = Asked
        BY <1>3, <1>9, <2>1, <2>2 DEF install
    <2> QED BY <1>9, <2>3
<1>12. CASE cmd.op \in {"m", "d"}
    <2>1. tf' = File(A \o <<>>) /\ A \o <<>> = A
        BY <1>3, <1>10, <1>12, Concatenation DEF Adding
    <2>2. Held(tf') = A /\ Held(tf2') = Added
        BY <1>4, <1>7, <1>8, <1>10, <1>12, <2>1, Temporary DEF Third
    <2>3. install(tf', tf2', tf1') = Asked
        BY <1>3, <1>9, <2>2 DEF install
    <2> QED BY <1>9, <2>3
<1> QED BY <1>5, <1>11, <1>12

---------------------------------------------------------------------------
(* Offsets, and the table ranlib makes.                                    *)

LEMMA SizeInt == ASSUME NEW m \in Stored PROVE SizeOf(m) \in Int
<1>1. CASE m \in [n : Files, v : Nat, date : Nat]
    <2>1. m.n # SYMDEF /\ m.v \in Nat
        BY <1>1, ArchiveAssumption
    <2> QED BY <2>1 DEF SizeOf
<1>2. CASE m \in [n : {SYMDEF}, v : Seq(Entries), date : Nat]
    <2>1. m.n = SYMDEF /\ m.v \in Seq(Entries)
        BY <1>2
    <2>2. Len(m.v) \in Nat
        BY <2>1
    <2> QED BY <2>1, <2>2 DEF SizeOf
<1> QED BY <1>1, <1>2 DEF Stored

\* The recursion of Offset.
Sums(f, a) == f[0] = 0 /\ \A j \in 1..Len(a) : f[j] = f[j - 1] + SizeOf(a[j])
LEMMA OffsetIs ==
    ASSUME NEW a \in Seq(Stored)
    PROVE  \E f \in [0..Len(a) -> Int] : Sums(f, a) /\ \A k \in 1..Len(a) : Offset(a, k) = f[k - 1]
<1> DEFINE b == Len(a)
           P(f) == f = [j \in 0..Len(a) |-> IF j = 0 THEN 0 ELSE f[j - 1] + SizeOf(a[j])]
           St == [p \in Int \X (1..b) |-> p[1] + SizeOf(a[p[2]])]
           before == CHOOSE g : P(g)
<1>1. b \in Nat /\ \A k \in 1..b : SizeOf(a[k]) \in Int
    <2>1. b \in Nat /\ \A k \in 1..b : a[k] \in Stored
        OBVIOUS
    <2> QED BY <2>1, SizeInt
<1>2. St \in [Int \X (1..b) -> Int]
    <2>1. ASSUME NEW p \in Int \X (1..b) PROVE p[1] + SizeOf(a[p[2]]) \in Int
        <3>1. p[1] \in Int /\ SizeOf(a[p[2]]) \in Int
            BY <1>1
        <3> QED BY <3>1
    <2> QED BY <2>1
<1>3. PICK f \in [0..b -> Int] : f = [k \in 0..b |-> IF k = 0 THEN 0 ELSE St[<<f[k - 1], k>>]]
    <2>1. 0 \in Int
        OBVIOUS
    <2> HIDE DEF St, b
    <2>2. Defined(Int, b, 0, St)
        BY <1>1, <1>2, <2>1, Definition
    <2> QED BY <2>2 DEF Defined
<1>4. P(f)
    <2>1. ASSUME NEW k \in 0..b, k # 0 PROVE St[<<f[k - 1], k>>] = f[k - 1] + SizeOf(a[k])
        <3>1. f[k - 1] \in Int /\ k \in 1..b
            BY <2>1
        <3> QED BY <3>1
    <2> HIDE DEF St
    <2>2. [k \in 0..b |-> IF k = 0 THEN 0 ELSE St[<<f[k - 1], k>>]] =
          [k \in 0..b |-> IF k = 0 THEN 0 ELSE f[k - 1] + SizeOf(a[k])]
        BY <2>1
    <2> QED BY <1>3, <2>2
<1>5. \A k \in 1..b : Offset(a, k) = before[k - 1]
    BY Zenon DEF Offset
<1>6. P(before)
    <2> HIDE DEF P
    <2> QED BY <1>4
<1>7. Sums(before, a)
    <2> HIDE DEF before
    <2>1. Len(a) \in Nat /\ before[0] = 0
        BY <1>1, <1>6
    <2>2. ASSUME NEW k \in 1..Len(a) PROVE before[k] = before[k - 1] + SizeOf(a[k])
        <3>1. k \in 0..Len(a) /\ k # 0
            BY <2>1
        <3> QED BY <1>6, <3>1, Zenon
    <2> QED BY <2>1, <2>2 DEF Sums
<1> DEFINE G == {k \in 0..b : before[k] \in Int}
<1>8. 0 \in G
    <2> HIDE DEF before, St
    <2>1. before[0] = 0 /\ 0 \in 0..b
        BY <1>1, <1>7 DEF Sums
    <2> QED BY <2>1
<1>9. ASSUME NEW k \in 0..(b - 1), k \in G PROVE k + 1 \in G
    <2> HIDE DEF before, St
    <2>1. k + 1 \in 1..b /\ k + 1 \in 0..b /\ (k + 1) - 1 = k /\ SizeOf(a[k + 1]) \in Int /\ before[k] \in Int
        BY <1>1, <1>9
    <2>2. before[k + 1] = before[k] + SizeOf(a[k + 1])
        BY <1>7, <2>1 DEF Sums
    <2> QED BY <2>1, <2>2
<1>10. \A k \in 0..b : k \in G
    <2> HIDE DEF G, b
    <2> QED BY <1>1, <1>8, <1>9, UpTo
<1>11. before \in [0..b -> Int]
    <2>1. \A k \in 0..b : before[k] \in Int
        BY <1>10
    <2> HIDE DEF before
    <2> QED BY <1>6, <2>1
<1> HIDE DEF before
<1> QED BY <1>5, <1>7, <1>11

LEMMA ThoseIn == ASSUME NEW X, NEW s \in Seq(X), NEW S PROVE Those(s, S) \in Seq(X \cap S)
<1> DEFINE t == Those(s, S)
<1>1. t \in Seq(X) /\ Range(t) = Range(s) \cap S
    BY ThoseType, RangeThose
<1> HIDE DEF t
<1>2. Len(t) \in Nat /\ DOMAIN t = 1..Len(t) /\ \A k \in 1..Len(t) : t[k] \in X
    BY <1>1
<1>3. ASSUME NEW k \in 1..Len(t) PROVE t[k] \in X \cap S
    <2>1. t[k] \in Range(t)
        BY <1>2 DEF Range
    <2> QED BY <1>1, <1>2, <2>1
<1>4. t = [k \in 1..Len(t) |-> t[k]]
    BY <1>1, <1>2
<1>5. t \in Seq(X \cap S)
    BY <1>2, <1>3, <1>4
<1> QED BY <1>5 DEF t

\* The entry of the member k; of which there is one in stash for each but a table.
Entry(a, k) == [n |-> a[k].n, off |-> Offset(a, k) + offdelta(a, Len(Objects(a)))]
Defining(a) == {k \in DOMAIN a : a[k].n # SYMDEF}
LEMMA StashIs ==
    ASSUME NEW a \in Seq(Stored), a # <<>>
    PROVE  /\ stash(a) \in Seq(Entries) /\ Len(stash(a)) = Len(Objects(a)) /\ offdelta(a, Len(Objects(a))) \in Int
           /\ \A e \in Range(stash(a)) : \E k \in Defining(a) : e = Entry(a, k)
<1> DEFINE t == Objects(a)
           d == offdelta(a, Len(t))
           E == [k \in DOMAIN a |-> [n |-> a[k].n, off |-> Offset(a, k) + d]]
           n == Len(a)
           D == (1..n) \cap Defining(a)
<1>1. n \in Nat /\ n > 0 /\ DOMAIN a = 1..n /\ \A k \in 1..n : a[k] \in Stored
    OBVIOUS
<1>2. t \in Seq(D)
    <2>1. [k \in DOMAIN a |-> k] \in Seq(1..n)
        BY <1>1
    <2> QED BY <2>1, ThoseIn DEF Objects, Defining
<1>3. stash(a) = Each(E, t)
    BY DEF stash
<1>4. d \in Int
    <2>1. Len(t) \in Nat /\ SizeOf(a[1]) \in Int
        <3>1. a[1] \in Stored
            BY <1>1
        <3> HIDE DEF t, D
        <3> QED BY <1>2, <3>1, SizeInt
    <2> HIDE DEF t
    <2> QED BY <2>1 DEF offdelta
<1>5. \A k \in 1..n : Offset(a, k) \in Int
    <2>1. PICK f \in [0..Len(a) -> Int] : \A k \in 1..Len(a) : Offset(a, k) = f[k - 1]
        BY OffsetIs
    <2> QED BY <1>1, <2>1
<1> HIDE DEF t, d
<1>6. ASSUME NEW k \in D PROVE E[k] = Entry(a, k) /\ E[k] \in Entries
    <2>1. k \in DOMAIN a /\ a[k] \in Stored /\ a[k].n # SYMDEF /\ Offset(a, k) \in Int
        BY <1>1, <1>5, <1>6 DEF Defining
    <2>2. a[k].n \in Files
        BY <2>1 DEF Stored
    <2>3. E[k] = [n |-> a[k].n, off |-> Offset(a, k) + d] /\ Offset(a, k) + d \in Int
        BY <1>4, <2>1
    <2> QED BY <2>2, <2>3 DEF Entry, Entries, d, t
<1> HIDE DEF E, D
<1>7. stash(a) = [x \in 1..Len(t) |-> E[t[x]]]
    BY <1>2, <1>3, EachAt
<1>8. Len(t) \in Nat /\ \A x \in 1..Len(t) : t[x] \in D
    BY <1>2
<1>9. \A x \in 1..Len(t) : E[t[x]] = Entry(a, t[x]) /\ E[t[x]] \in Entries
    BY <1>6, <1>8
<1>10. stash(a) \in Seq(Entries) /\ Len(stash(a)) = Len(t)
    BY <1>7, <1>8, <1>9
<1>11. ASSUME NEW e \in Range(stash(a)) PROVE \E k \in Defining(a) : e = Entry(a, k)
    <2>1. PICK x \in 1..Len(t) : e = E[t[x]]
        BY <1>7 DEF Range
    <2>2. t[x] \in Defining(a)
        BY <1>8 DEF D
    <2> QED BY <1>9, <2>1, <2>2
<1> QED BY <1>4, <1>10, <1>11 DEF t, d

LEMMA RanlibMemberIs ==
    ASSUME Types, archive # <<>>
    PROVE  /\ RanlibMember \in Stored /\ RanlibMember.n = SYMDEF /\ RanlibMember.v = stash(archive)
           /\ \A m \in Stored : [m EXCEPT !.date = FarFuture] \in Stored
<1>1. archive \in Seq(Stored) /\ now \in Nat
    BY DEF Types
<1>2. stash(archive) \in Seq(Entries)
    BY <1>1, StashIs
<1>3. RanlibMember \in [n : {SYMDEF}, v : Seq(Entries), date : Nat]
    BY <1>1, <1>2 DEF RanlibMember
<1>4. FarFuture \in Nat
    BY DEF FarFuture
<1>5. ASSUME NEW m \in Stored PROVE [m EXCEPT !.date = FarFuture] \in Stored
    <2>1. CASE m \in [n : Files, v : Nat, date : Nat]
        BY <1>4, <2>1 DEF Stored
    <2>2. CASE m \in [n : {SYMDEF}, v : Seq(Entries), date : Nat]
        BY <1>4, <2>2 DEF Stored
    <2> QED BY <2>1, <2>2 DEF Stored
<1> QED BY <1>3, <1>5 DEF Stored, RanlibMember

\* What ranlib writes: the table, dated far, before the members or in place of
\* the table before them; or else a table among the members.
Tabled(b, a, h) ==
    /\ b \in Seq(Stored) /\ Len(b) = Len(a) + h /\ b # <<>>
    /\ b[1].n = SYMDEF /\ b[1].v = stash(a) /\ b[1].date = FarFuture
    /\ \A k \in (2 - h)..Len(a) : b[k + h] = a[k]

LEMMA Written ==
    ASSUME Types, archive # <<>>
    PROVE  LET b == fixdate(WithTable(archive))
           IN b \in Seq(Stored) /\ (HasTable(b) => IF HasTable(archive) THEN Tabled(b, archive, 0) ELSE Tabled(b, archive, 1))
<1> DEFINE a == archive
           n == Len(a)
           R == RanlibMember
           old == {k \in DOMAIN a : a[k].n = SYMDEF}
           c == WithTable(a)
           b == fixdate(c)
           D(m) == [m EXCEPT !.date = FarFuture]
<1>1. /\ a \in Seq(Stored) /\ n \in Nat /\ n > 0 /\ DOMAIN a = 1..n /\ \A k \in 1..n : a[k] \in Stored
    <2>1. a \in Seq(Stored) /\ a # <<>>
        BY DEF Types
    <2> HIDE DEF a
    <2> QED BY <2>1
<1>2. /\ R \in Stored /\ R.n = SYMDEF /\ R.v = stash(a) /\ \A m \in Stored : D(m) \in Stored
    BY RanlibMemberIs
<1>3. D(R).n = SYMDEF /\ D(R).v = stash(a) /\ D(R).date = FarFuture
    BY DEF RanlibMember
<1>4. \A m \in Stored : D(m).n = m.n
    BY DEF Stored
<1>5. c = IF old = {} THEN <<R>> \o a ELSE [a EXCEPT ![CHOOSE k \in old : \A j \in old : k <= j] = R]
    BY DEF WithTable
<1>6. \A u : fixdate(u) = [u EXCEPT ![1] = D(u[1])]
    BY DEF fixdate
<1> HIDE DEF a, R, c, D, n
<1>7. CASE old = {}
    <2>1. c = <<R>> \o a
        BY <1>5, <1>7
    <2>2. c \in Seq(Stored) /\ Len(c) = n + 1 /\ c[1] = R /\ \A k \in 1..n : c[k + 1] = a[k]
        BY <1>1, <1>2, <2>1 DEF n
    <2>3. b = [c EXCEPT ![1] = D(R)]
        BY <1>6, <2>2
    <2> HIDE DEF b
    <2>4. b \in Seq(Stored) /\ Len(b) = n + 1 /\ b[1] = D(R) /\ \A k \in 2..(n + 1) : b[k] = c[k]
        BY <1>1, <1>2, <2>2, <2>3
    <2>5. ASSUME NEW k \in 1..n PROVE b[k + 1] = a[k]
        <3>1. k + 1 \in 2..(n + 1)
            BY <1>1
        <3> QED BY <2>2, <2>4, <3>1
    <2>6. Tabled(b, a, 1)
        <3>1. b # <<>> /\ (2 - 1)..Len(a) = 1..n
            BY <1>1, <2>4 DEF n
        <3> QED BY <1>3, <2>4, <2>5, <3>1 DEF Tabled, n
    <2>7. ~HasTable(a)
        <3>1. 1 \in DOMAIN a
            BY <1>1
        <3> QED BY <1>7, <3>1 DEF HasTable
    <2> QED BY <2>4, <2>6, <2>7 DEF a, b, c
<1>8. CASE old # {}
    <2> DEFINE k0 == CHOOSE k \in old : \A j \in old : k <= j
    <2>1. k0 \in old /\ \A j \in old : k0 <= j
        <3>1. old \in SUBSET Nat
            BY <1>1
        <3> HIDE DEF old
        <3> QED BY <1>8, <3>1, LeastNat
    <2>2. c = [a EXCEPT ![k0] = R]
        BY <1>5, <1>8
    <2> HIDE DEF k0
    <2>3. k0 \in 1..n /\ a[k0].n = SYMDEF
        BY <1>1, <2>1
    <2>4. c \in Seq(Stored) /\ Len(c) = n /\ DOMAIN c = 1..n /\ c[k0] = R /\ \A k \in 1..n : k # k0 => c[k] = a[k]
        BY <1>1, <1>2, <2>2, <2>3
    <2>5. c[1] \in Stored /\ 1 \in 1..n
        BY <1>1, <2>4
    <2>6. D(c[1]) \in Stored /\ D(c[1]).n = c[1].n
        BY <1>2, <1>4, <2>5
    <2>7. b = [c EXCEPT ![1] = D(c[1])]
        BY <1>6
    <2> HIDE DEF b
    <2>8. b \in Seq(Stored) /\ Len(b) = n /\ b[1] = D(c[1]) /\ \A k \in 2..n : b[k] = c[k]
        BY <1>1, <2>4, <2>5, <2>6, <2>7
    <2>9. ASSUME HasTable(b) PROVE HasTable(a) /\ Tabled(b, a, 0)
        <3>1. c[1].n = SYMDEF
            BY <2>6, <2>8, <2>9 DEF HasTable
        <3>2. k0 = 1
            <4> SUFFICES ASSUME k0 # 1 PROVE FALSE
                OBVIOUS
            <4>1. a[1].n = SYMDEF
                BY <2>4, <2>5, <3>1
            <4>2. 1 \in old
                BY <1>1, <2>5, <4>1
            <4>3. k0 <= 1 /\ k0 \in 1..n
                BY <2>1, <2>3, <4>2
            <4> QED BY <1>1, <4>3
        <3>3. HasTable(a)
            BY <1>1, <2>3, <3>2 DEF HasTable
        <3>4. b[1] = D(R)
            BY <2>4, <2>8, <3>2
        <3>5. \A k \in (2 - 0)..Len(a) : b[k + 0] = a[k]
            <4>1. (2 - 0)..Len(a) = 2..n
                BY DEF n
            <4>2. ASSUME NEW k \in 2..n PROVE b[k + 0] = a[k]
                <5>1. k \in 1..n /\ k # k0 /\ k + 0 = k
                    BY <1>1, <3>2
                <5> QED BY <2>4, <2>8, <5>1
            <4> QED BY <4>1, <4>2
        <3>6. b # <<>> /\ Len(b) = Len(a) + 0
            BY <1>1, <2>8 DEF n
        <3> QED BY <1>3, <2>8, <3>3, <3>4, <3>5, <3>6 DEF Tabled
    <2> QED BY <2>8, <2>9 DEF a, b, c
<1> QED BY <1>7, <1>8

\* Every member that was there has moved by offdelta.
LEMMA MovedBy ==
    ASSUME NEW a \in Seq(Stored), a # <<>>, NEW b, NEW h \in {0, 1}, h = (IF HasTable(a) THEN 0 ELSE 1), Tabled(b, a, h)
    PROVE  \A k \in (2 - h)..Len(a) : Offset(b, k + h) = Offset(a, k) + offdelta(a, Len(Objects(a)))
<1> DEFINE n == Len(a)
           d == offdelta(a, Len(Objects(a)))
           z == 1 - h
<1>1. n \in Nat /\ n > 0 /\ h \in Nat /\ z \in {0, 1} /\ b \in Seq(Stored) /\ Len(b) = n + h /\ \A k \in 1..n : a[k] \in Stored
    BY DEF Tabled
<1>2. PICK f \in [0..n -> Int] : Sums(f, a) /\ \A k \in 1..n : Offset(a, k) = f[k - 1]
    BY OffsetIs
<1>3. PICK g \in [0..(n + h) -> Int] : Sums(g, b) /\ \A k \in 1..(n + h) : Offset(b, k) = g[k - 1]
    <2>1. PICK g \in [0..Len(b) -> Int] : Sums(g, b) /\ \A k \in 1..Len(b) : Offset(b, k) = g[k - 1]
        BY <1>1, OffsetIs
    <2>2. Len(b) = n + h
        BY <1>1
    <2> QED BY <2>1, <2>2
<1>4. d \in Int
    BY StashIs
<1>5. \A k \in 1..n : SizeOf(a[k]) \in Int
    BY <1>1, SizeInt
<1>6. SizeOf(b[1]) = 1 + Len(Objects(a))
    <2>1. b[1].n = SYMDEF /\ b[1].v = stash(a)
        BY DEF Tabled
    <2>2. Len(stash(a)) = Len(Objects(a))
        BY StashIs
    <2> QED BY <2>1, <2>2 DEF SizeOf
<1>7. d = SizeOf(b[1]) - (IF HasTable(a) THEN SizeOf(a[1]) ELSE 0)
    <2> DEFINE old == IF HasTable(a) THEN SizeOf(a[1]) ELSE 0
               tnum == Len(Objects(a))
               size == SizeOf(b[1])
    <2>1. d = 1 + tnum - old /\ size = 1 + tnum
        BY <1>6 DEF offdelta
    <2> HIDE DEF d, old, tnum, size
    <2>2. d = size - old
        BY <2>1
    <2> QED BY <2>2 DEF old, size
<1> HIDE DEF d, n
<1>8. g[1] = SizeOf(b[1]) /\ f[0] = 0 /\ f[1] = SizeOf(a[1])
    <2>1. 1 \in 1..n /\ 1 \in 1..(n + h) /\ 1 - 1 = 0
        BY <1>1
    <2>2. g[1] = g[0] + SizeOf(b[1]) /\ g[0] = 0 /\ f[1] = f[0] + SizeOf(a[1]) /\ f[0] = 0
        BY <1>1, <1>2, <1>3, <2>1 DEF Sums, n
    <2>3. g[1] \in Int /\ SizeOf(a[1]) \in Int /\ SizeOf(b[1]) \in Int
        <3>1. b[1] \in Stored
            BY <1>1, <2>1
        <3> QED BY <1>3, <1>5, <2>1, <3>1, SizeInt
    <2> QED BY <2>2, <2>3
<1> DEFINE G == {j \in 0..(n - z) : g[j + z + h] = f[j + z] + d}
<1>9. 0 \in G
    <2>1. 0 \in 0..(n - z)
        BY <1>1
    <2>2. g[0 + z + h] = f[0 + z] + d
        <3>1. CASE HasTable(a)
            <4>1. h = 0 /\ z = 1 /\ d = SizeOf(b[1]) - SizeOf(a[1])
                BY <1>7, <3>1
            <4>2. g[1] = f[1] + d /\ 0 + z + h = 1 /\ 0 + z = 1
                <5>1. f[1] \in Int /\ g[1] \in Int
                    BY <1>1, <1>2, <1>3
                <5> QED BY <1>4, <1>8, <4>1, <5>1
            <4> QED BY <4>2
        <3>2. CASE ~HasTable(a)
            <4>1. h = 1 /\ z = 0 /\ d = SizeOf(b[1]) - 0
                BY <1>7, <3>2
            <4>2. g[1] = f[0] + d /\ 0 + z + h = 1 /\ 0 + z = 0
                <5>1. g[1] \in Int
                    BY <1>1, <1>3, <4>1
                <5> QED BY <1>4, <1>8, <4>1, <5>1
            <4> QED BY <4>2
        <3> QED BY <3>1, <3>2
    <2> QED BY <2>1, <2>2
<1>10. ASSUME NEW j \in 0..(n - z - 1), j \in G PROVE j + 1 \in G
    <2> DEFINE k == j + z
    <2>1. k \in Nat /\ k + 1 \in 1..n /\ k \in 0..n /\ (k + 1) - 1 = k /\ k + 1 \in (2 - h)..n
        BY <1>1
    <2>2. k + 1 + h \in 1..(n + h) /\ (k + 1 + h) - 1 = k + h /\ k + h \in 0..(n + h)
        BY <1>1, <2>1
    <2>3. g[k + h] = f[k] + d
        BY <1>10
    <2>4. j + 1 \in 0..(n - z) /\ (j + 1) + z = k + 1 /\ (j + 1) + z + h = k + 1 + h
        BY <1>1
    <2> HIDE DEF k
    <2>5. f[k + 1] = f[k] + SizeOf(a[k + 1])
        BY <1>2, <2>1 DEF Sums, n
    <2>6. g[k + 1 + h] = g[k + h] + SizeOf(b[k + 1 + h])
        BY <1>1, <1>3, <2>2 DEF Sums
    <2>7. b[k + 1 + h] = a[k + 1]
        BY <2>1 DEF Tabled, n
    <2>8. f[k] \in Int /\ SizeOf(a[k + 1]) \in Int
        BY <1>2, <1>5, <2>1
    <2>9. g[k + 1 + h] = f[k + 1] + d
        BY <1>4, <2>3, <2>5, <2>6, <2>7, <2>8
    <2> QED BY <2>4, <2>9
<1>11. \A j \in 0..(n - z) : j \in G
    <2>1. n - z \in Nat
        BY <1>1
    <2> DEFINE m == n - z
    <2>2. \A j \in 0..(m - 1) : j \in G => j + 1 \in G
        BY <1>10
    <2>3. m \in Nat /\ 0 \in G
        BY <1>9, <2>1
    <2> HIDE DEF G, m
    <2>4. \A j \in 0..m : j \in G
        BY <2>2, <2>3, UpTo
    <2> QED BY <2>4 DEF m
<1>12. ASSUME NEW k \in (2 - h)..n PROVE Offset(b, k + h) = Offset(a, k) + d
    <2> DEFINE j == k - 1 - z
    <2>1. j \in 0..(n - z) /\ j + z = k - 1 /\ j + z + h = (k + h) - 1 /\ k \in 1..n /\ k + h \in 1..(n + h)
        BY <1>1
    <2>2. j \in G
        BY <1>11, <2>1
    <2>3. g[(k + h) - 1] = f[k - 1] + d
        BY <2>1, <2>2
    <2> QED BY <1>2, <1>3, <2>1, <2>3
<1> QED BY <1>12 DEF d, n

\* An entry leads to the member it was made for.
LEMMA Leads ==
    ASSUME NEW a \in Seq(Stored), a # <<>>, NEW b, NEW h \in {0, 1}, h = (IF HasTable(a) THEN 0 ELSE 1), Tabled(b, a, h)
    PROVE  \A e \in Range(b[1].v) : \E k \in MemberAt(b, e.off) : b[k].n = e.n
<1> SUFFICES ASSUME NEW e \in Range(b[1].v) PROVE \E k \in MemberAt(b, e.off) : b[k].n = e.n
    OBVIOUS
<1>1. b \in Seq(Stored) /\ Len(b) = Len(a) + h /\ b[1].v = stash(a) /\ \A k \in (2 - h)..Len(a) : b[k + h] = a[k]
    BY DEF Tabled
<1>2. PICK k \in Defining(a) : e = Entry(a, k)
    BY <1>1, StashIs
<1>3. Len(a) \in Nat /\ k \in 1..Len(a) /\ a[k].n # SYMDEF
    BY <1>2 DEF Defining
<1>4. k \in (2 - h)..Len(a)
    <2>1. CASE HasTable(a)
        <3>1. h = 0 /\ k # 1
            BY <1>3, <2>1 DEF HasTable
        <3> QED BY <1>3, <3>1
    <2>2. CASE ~HasTable(a)
        <3>1. h = 1
            BY <2>2
        <3> QED BY <1>3, <3>1
    <2> QED BY <2>1, <2>2
<1>5. Offset(b, k + h) = e.off /\ e.n = a[k].n
    BY <1>2, <1>4, MovedBy DEF Entry
<1>6. k + h \in DOMAIN b /\ b[k + h] = a[k]
    BY <1>1, <1>3, <1>4
<1>7. k + h \in MemberAt(b, e.off)
    BY <1>5, <1>6 DEF MemberAt
<1> QED BY <1>5, <1>6, <1>7

\* Members written behind the others move none of these, and bring no table.
LEMMA OffsetKept ==
    ASSUME NEW a \in Seq(Stored), NEW s \in Seq(Stored)
    PROVE  \A k \in 1..Len(a) : Offset(a \o s, k) = Offset(a, k)
<1> DEFINE b == a \o s
           n == Len(a)
<1>1. b \in Seq(Stored) /\ n \in Nat /\ Len(b) \in Nat /\ n <= Len(b) /\ \A k \in 1..n : b[k] = a[k]
    OBVIOUS
<1>2. PICK f \in [0..n -> Int] : Sums(f, a) /\ \A k \in 1..n : Offset(a, k) = f[k - 1]
    BY OffsetIs
<1> HIDE DEF b
<1>3. PICK g \in [0..Len(b) -> Int] : Sums(g, b) /\ \A k \in 1..Len(b) : Offset(b, k) = g[k - 1]
    BY <1>1, OffsetIs
<1> DEFINE G == {k \in 0..n : g[k] = f[k]}
<1>4. 0 \in G
    BY <1>1, <1>2, <1>3 DEF Sums
<1>5. ASSUME NEW k \in 0..(n - 1), k \in G PROVE k + 1 \in G
    <2>1. k + 1 \in 1..n /\ k + 1 \in 1..Len(b) /\ k + 1 \in 0..n /\ (k + 1) - 1 = k
        BY <1>1
    <2>2. f[k + 1] = f[k] + SizeOf(a[k + 1]) /\ g[k + 1] = g[k] + SizeOf(b[k + 1])
        <3>1. f[k + 1] = f[(k + 1) - 1] + SizeOf(a[k + 1])
            BY <1>2, <2>1 DEF Sums
        <3>2. g[k + 1] = g[(k + 1) - 1] + SizeOf(b[k + 1])
            BY <1>3, <2>1 DEF Sums
        <3> QED BY <2>1, <3>1, <3>2
    <2> QED BY <1>1, <1>5, <2>1, <2>2
<1>6. \A k \in 0..n : k \in G
    <2> HIDE DEF G, n
    <2> QED BY <1>1, <1>4, <1>5, UpTo
<1>7. ASSUME NEW k \in 1..n PROVE Offset(b, k) = Offset(a, k)
    <2>1. k - 1 \in 0..n /\ k \in 1..Len(b)
        BY <1>1
    <2>2. g[k - 1] = f[k - 1]
        BY <1>6, <2>1
    <2> QED BY <1>2, <1>3, <2>1, <2>2
<1> QED BY <1>7 DEF b

LEMMA NoTable ==
    ASSUME Types, NEW n \in Seq(Files)
    PROVE  ~HasTable(Members(n))
<1> DEFINE F == [f \in Files |-> Member(f, dir[f])]
           t == Those(n, There)
<1>1. t \in Seq(Files)
    BY ThoseType
<1>2. Members(n) = Each(F, t)
    BY DEF Members
<1> HIDE DEF t
<1>3. ASSUME Each(F, t) # <<>> PROVE Each(F, t)[1].n \in Files
    <2>1. t # <<>>
        BY <1>3, EachNothing
    <2>2. 1 \in DOMAIN t /\ t[1] \in Files
        BY <1>1, <2>1
    <2>3. Each(F, t)[1] = F[t[1]]
        BY <2>2 DEF Each
    <2>4. F[t[1]].n = t[1]
        BY <2>2 DEF Member
    <2> QED BY <2>2, <2>3, <2>4
<1> QED BY <1>2, <1>3, ArchiveAssumption DEF HasTable

LEMMA StillRight ==
    ASSUME NEW a \in Seq(Stored), NEW s \in Seq(Stored), ~HasTable(s), TableRight(a)
    PROVE  TableRight(a \o s)
<1> DEFINE b == a \o s
<1>1. CASE a = <<>>
    <2>1. b = s
        BY <1>1
    <2> QED BY <2>1 DEF TableRight
<1>2. CASE a # <<>>
    <2>1. /\ Len(a) \in Nat /\ 1 \in DOMAIN a /\ b # <<>> /\ b[1] = a[1] /\ DOMAIN a = 1..Len(a)
          /\ \A k \in DOMAIN a : k \in DOMAIN b /\ b[k] = a[k]
        BY <1>2
    <2>2. \A k \in DOMAIN a : Offset(b, k) = Offset(a, k)
        BY <2>1, OffsetKept
    <2> HIDE DEF b
    <2>3. SUFFICES ASSUME HasTable(b), NEW e \in Range(b[1].v)
                   PROVE  \E k \in MemberAt(b, e.off) : b[k].n = e.n
        BY DEF TableRight, b
    <2>4. HasTable(a) /\ e \in Range(a[1].v)
        BY <1>2, <2>1, <2>3 DEF HasTable
    <2>5. PICK k \in MemberAt(a, e.off) : a[k].n = e.n
        BY <2>4 DEF TableRight
    <2>6. k \in DOMAIN a /\ Offset(a, k) = e.off
        BY <2>5 DEF MemberAt
    <2>7. k \in MemberAt(b, e.off) /\ b[k].n = e.n
        BY <2>1, <2>2, <2>5, <2>6 DEF MemberAt
    <2> QED BY <2>7
<1> QED BY <1>1, <1>2

---------------------------------------------------------------------------
(* The invariant.                                                          *)

Holding == names \in Seq(Files) /\ Held(tf) \in Seq(Stored) /\ Held(tf1) \in Seq(Stored) /\ Held(tf2) \in Seq(Stored)
Starting == i = 1 /\ names = cmd.names /\ bastate = Told(0) /\ tf = File(<<>>) /\ tf1 = Nothing
\* The second file could not be created.
Lost == tf1 = Stdin /\ bastate = 0
Inv ==
    /\ Types /\ Holding
    /\ pc \in {"init", "open"} => Starting /\ tf2 = Nothing
    /\ pc = "open" => cmd.op = "m"
    /\ pc \in {"third", "scan"} => i \in 1..(Len(af) + 1) /\ (Scanned(i - 1) \/ Lost)
    /\ pc = "second" => i \in 1..Len(af) /\ Splitting(i - 1)
    /\ pc \in {"install", "copy"} => install(tf, tf2, tf1) = Asked \/ tf = Stdin

LEMMA Nobody == <<>> \in Seq(Stored) /\ <<>> \in Seq(Files)
OBVIOUS

\* Appending a member, or nothing, to a file keeps members in it.
LEMMA HeldIn ==
    ASSUME NEW s \in Seq(Stored)
    PROVE  /\ Held(File(s)) \in Seq(Stored) /\ Held(Nothing) \in Seq(Stored) /\ Held(Stdin) \in Seq(Stored)
           /\ \A m \in Stored : Held(File(Append(s, m))) \in Seq(Stored)
           /\ \A u \in Seq(Stored) : Held(File(s \o u)) \in Seq(Stored)
<1>1. \A m \in Stored : Append(s, m) \in Seq(Stored)
    OBVIOUS
<1>2. \A u \in Seq(Stored) : s \o u \in Seq(Stored)
    OBVIOUS
<1> QED BY <1>1, <1>2, Temporary, Nobody

LEMMA InitInv == Init => Inv
<1> SUFFICES ASSUME Init PROVE Inv
    OBVIOUS
<1>1. archive \in Seq(Stored) /\ af \in Seq(Stored) /\ pc = "idle" /\ <<>> \in Seq(Stored)
    BY DEF Init
<1>2. dir \in [Files -> Nat] /\ now \in Nat /\ mtime \in Nat
    BY DEF Init
<1>3. Types
    BY <1>1, <1>2 DEF Types
<1>4. Holding
    BY <1>1, HeldIn, Nobody DEF Init, Holding
<1> QED BY <1>1, <1>3, <1>4 DEF Inv

\* With pc at rest and the archive of members, only typing is asked.
LEMMA AtRest ==
    ASSUME Types, pc' = "idle", dir' \in [Files -> Nat], archive' \in Seq(Stored), af' \in Seq(Stored), now' \in Nat, mtime' \in Nat,
           Holding'
    PROVE  Inv'
BY DEF Inv, Types

LEMMA Emptied == ASSUME names' = <<>>, tf' = Nothing, tf1' = Nothing, tf2' = Nothing PROVE Holding'
BY HeldIn, Nobody DEF Holding

LEMMA SameHolding == ASSUME Holding, UNCHANGED <<names, temps>> PROVE Holding'
BY DEF Holding, temps

LEMMA SameTypes ==
    ASSUME Types, UNCHANGED <<world, cmd, af>>, pc # "idle", pc' \in Working
    PROVE  Types'
BY DEF Types, world

LEMMA Tick ==
    ASSUME Types, now' = now + 1, mtime' \in {mtime, now}
    PROVE  now' \in Nat /\ mtime' \in Nat
<1>1. now \in Nat /\ mtime \in Nat
    BY DEF Types
<1>2. now + 1 \in Nat
    BY <1>1
<1> QED BY <1>1, <1>2

LEMMA Start == Types => Position \in Nat /\ Told(0) = IF Given THEN 1 ELSE 0
<1> SUFFICES ASSUME Types PROVE Position \in Nat /\ Told(0) = IF Given THEN 1 ELSE 0
    OBVIOUS
<1>1. Position \in Nat /\ ~(0 > Position)
    BY AfIs, PositionIn
<1>2. ~(Behind /\ Found /\ 0 = Position)
    <2> SUFFICES ASSUME Behind, Found PROVE 0 # Position
        OBVIOUS
    <2>1. ~Ahead
        BY DEF Ahead, Behind
    <2>2. PICK k0 \in 1..Len(af) : Position = IF Ahead THEN k0 - 1 ELSE k0
        BY WhenFound
    <2> QED BY <2>1, <2>2
<1> QED BY <1>1, <1>2 DEF Told

LEMMA BeginInv ==
    ASSUME Inv, NEW c \in Commands, Ar(c)
    PROVE  Inv'
<1>1. /\ archive \in Seq(Stored) /\ dir \in [Files -> Nat] /\ now \in Nat /\ mtime \in Nat
    BY DEF Inv, Types
<1>2. /\ cmd' = c /\ af' = archive /\ UNCHANGED <<dir, archive, mtime>> /\ now' = now + 1 /\ pc' = "init" /\ i' = 1 /\ names' = c.names
      /\ bastate' = (IF c.pos # "" THEN 1 ELSE 0) /\ tf' = File(<<>>) /\ tf1' = Nothing /\ tf2' = Nothing
      /\ c.op = "d" => c.pos = ""
    BY DEF Ar, Begin
<1>3. Types'
    <2>1. dir' \in [Files -> Nat] /\ archive' \in Seq(Stored) /\ af' \in Seq(Stored)
        BY <1>1, <1>2
    <2>2. now' \in Nat /\ mtime' \in Nat
        BY <1>2, Tick DEF Inv
    <2>3. cmd' \in Commands /\ (cmd'.op = "d" => cmd'.pos = "")
        BY <1>2
    <2> QED BY <1>2, <2>1, <2>2, <2>3 DEF Types, Working
<1>4. Types' => (Position \in Nat /\ Told(0) = IF Given THEN 1 ELSE 0)'
    BY Start, PTL
<1>5. bastate' = Told(0)'
    <2>1. Given' <=> c.pos # ""
        BY <1>2 DEF Given
    <2> QED BY <1>2, <1>3, <1>4, <2>1
<1>6. Starting'
    BY <1>2, <1>5 DEF Starting
<1>7. Holding'
    BY <1>2, CommandIs, HeldIn, Nobody DEF Holding
<1> QED BY <1>2, <1>3, <1>6, <1>7 DEF Inv

\* Before the first member nothing is scanned.
LEMMA StartScanned ==
    ASSUME Types, pc # "idle", Starting, tf2 = Third(0)
    PROVE  i \in 1..(Len(af) + 1) /\ Scanned(i - 1)
<1>1. Remaining(0) = Files /\ Those(cmd.names, Files) = cmd.names
    <2>1. Remaining(0) = Files
        BY DEF Remaining
    <2>2. cmd.names \in Seq(Files)
        BY CommandIs DEF Types
    <2> QED BY <2>1, <2>2, AllOfThose
<1>2. 0 <= Position
    BY PositionIn, AfIs
<1>3. TwoFiles(0, tf, tf1)
    BY <1>2, AtStart DEF TwoFiles, Starting
<1>4. Scanned(0)
    BY <1>1, <1>3 DEF Scanned, Sorted, Starting
<1>5. i = 1 /\ i - 1 = 0 /\ i \in 1..(Len(af) + 1)
    BY AfIs DEF Starting
<1> QED BY <1>4, <1>5

\* The same for all that a step leaves alone.
LEMMA Unmoved ==
    ASSUME dir' = dir, cmd' = cmd, af' = af, i' = i, names' = names, bastate' = bastate, tf' = tf, tf1' = tf1, tf2' = tf2
    PROVE  /\ i \in 1..(Len(af) + 1) /\ (Scanned(i - 1) \/ Lost) => i' \in 1..(Len(af') + 1) /\ (Scanned(i - 1) \/ Lost)'
           /\ i \in 1..Len(af) /\ Splitting(i - 1) => i' \in 1..Len(af') /\ Splitting(i - 1)'
           /\ Starting => Starting' /\ Asked' = Asked /\ (Third(0))' = Third(0)
<1>1. PICK q : q = i - 1
    OBVIOUS
<1>2. i' - 1 = q
    BY <1>1
<1>3. Scanned(q) => Scanned(q)'
    BY SameTerms DEF Scanned
<1>4. Splitting(q) => Splitting(q)'
    BY SameTerms, SameQuestion DEF Splitting
<1>5. Lost => Lost'
    BY DEF Lost
<1>6. Told(0)' = Told(0)
    BY SameQuestion DEF Told
<1>7. Starting => Starting'
    BY <1>6 DEF Starting
<1> QED BY <1>1, <1>2, <1>3, <1>4, <1>5, <1>7, SameQuestion, SameTerms

LEMMA InitNamedInv ==
    ASSUME Inv, InitNamed
    PROVE  Inv'
<1>1. /\ Types /\ Holding /\ pc = "init" /\ Starting /\ tf2 = Nothing
      /\ UNCHANGED <<world, cmd, af, i, names, bastate, temps>> /\ pc' = IF cmd.op = "m" THEN "open" ELSE "scan"
    BY DEF Inv, InitNamed
<1>2. pc' \in Working
    BY <1>1 DEF Working
<1>3. Types'
    BY <1>1, <1>2, SameTypes
<1>4. Holding'
    BY <1>1, SameHolding
<1>5. dir' = dir /\ cmd' = cmd /\ af' = af /\ i' = i /\ names' = names /\ bastate' = bastate /\ tf' = tf /\ tf1' = tf1 /\ tf2' = tf2
    BY <1>1 DEF world, temps
<1>6. CASE cmd.op = "m"
    BY <1>1, <1>3, <1>4, <1>5, <1>6, Unmoved DEF Inv
<1>7. CASE cmd.op # "m"
    <2>1. tf2 = Third(0)
        BY <1>1, <1>7 DEF Third
    <2>2. i \in 1..(Len(af) + 1) /\ Scanned(i - 1)
        BY <1>1, <2>1, StartScanned
    <2> QED BY <1>1, <1>3, <1>4, <1>5, <1>7, <2>2, Unmoved DEF Inv
<1> QED BY <1>6, <1>7

LEMMA ThirdMadeInv ==
    ASSUME Inv, ThirdMade
    PROVE  Inv'
<1>1. /\ Types /\ Holding /\ pc = "open" /\ Starting /\ cmd.op = "m"
      /\ UNCHANGED <<world, cmd, af, i, names, bastate, tf, tf1>> /\ pc' = "third" /\ tf2' = File(<<>>)
    BY DEF Inv, ThirdMade
<1>2. pc' \in Working /\ pc # "idle"
    BY <1>1 DEF Working
<1>3. Types'
    BY <1>1, <1>2, SameTypes
<1>4. Holding'
    BY <1>1, HeldIn, Nobody DEF Holding
<1>5. dir' = dir /\ cmd' = cmd /\ af' = af
    BY <1>1 DEF world
<1>6. Told(0)' = Told(0)
    BY <1>5, SameQuestion DEF Told
<1>7. Starting'
    BY <1>1, <1>6 DEF Starting
<1>8. tf2' = Third(0)'
    <2>1. Third(0)' = Third(0)
        BY <1>5, SameTerms
    <2> QED BY <1>1, <2>1, AtStart DEF Third
<1>9. (Types /\ pc # "idle" /\ Starting /\ tf2 = Third(0) => i \in 1..(Len(af) + 1) /\ Scanned(i - 1))'
    BY StartScanned, PTL
<1>10. (i \in 1..(Len(af) + 1) /\ Scanned(i - 1))'
    BY <1>1, <1>3, <1>7, <1>8, <1>9
<1> QED BY <1>1, <1>3, <1>4, <1>10 DEF Inv

LEMMA ThirdNamedInv ==
    ASSUME Inv, ThirdNamed
    PROVE  Inv'
<1>1. /\ Types /\ Holding /\ pc = "third" /\ pc' = "scan" /\ i \in 1..(Len(af) + 1) /\ (Scanned(i - 1) \/ Lost)
      /\ UNCHANGED <<world, cmd, af, i, names, bastate, temps>>
    BY DEF Inv, ThirdNamed
<1>2. pc' \in Working
    BY <1>1 DEF Working
<1>3. Types'
    BY <1>1, <1>2, SameTypes
<1>4. Holding'
    BY <1>1, SameHolding
<1>5. dir' = dir /\ cmd' = cmd /\ af' = af /\ i' = i /\ names' = names /\ bastate' = bastate /\ tf' = tf /\ tf1' = tf1 /\ tf2' = tf2
    BY <1>1 DEF world, temps
<1> QED BY <1>1, <1>3, <1>4, <1>5, Unmoved DEF Inv

\* bamatch() swaps only at the position, and never once the second file is lost.
LEMMA SwapsAt ==
    ASSUME Inv, Reading, Swaps(af[i])
    PROVE  /\ i \in 1..Len(af) /\ i - 1 = Position /\ tf1 = Nothing
           /\ names = Those(cmd.names, Remaining(i - 1)) /\ TwoFiles(i - 1, tf, tf1) /\ tf2 = Third(i - 1)
<1>1. Types /\ pc = "scan" /\ i \in 1..(Len(af) + 1) /\ i <= Len(af) /\ (Scanned(i - 1) \/ Lost)
    BY DEF Inv, Reading
<1>2. PICK p : p = i - 1
    OBVIOUS
<1>3. p \in 0..(Len(af) - 1) /\ i = p + 1 /\ i \in 1..Len(af)
    BY <1>1, <1>2, AfIs
<1>4. bastate # 0
    BY Telling
<1>5. Scanned(p)
    BY <1>1, <1>2, <1>4 DEF Lost
<1>6. bastate = Told(p) /\ TwoFiles(p, tf, tf1)
    BY <1>4, <1>5 DEF Scanned, Sorted
<1>7. WhereGiven
    BY <1>1, CommandIs DEF Types, WhereGiven, Given, Ahead, Behind
<1>8. p = Position
    BY <1>1, <1>3, <1>6, <1>7, SwapsThere
<1>9. tf1 = Nothing
    <2>1. p <= Position
        BY <1>3, <1>8
    <2> QED BY <1>6, <2>1 DEF TwoFiles
<1> QED BY <1>2, <1>3, <1>5, <1>6, <1>8, <1>9 DEF Scanned

LEMMA SecondMadeInv ==
    ASSUME Inv, SecondMade
    PROVE  Inv'
<1>1. /\ Types /\ Holding /\ pc = "scan" /\ pc' = "second" /\ bastate' = 0 /\ Reading /\ Swaps(af[i])
      /\ UNCHANGED <<world, cmd, af, i, names, temps>>
    BY DEF Inv, SecondMade, Reading
<1>2. pc' \in Working
    BY <1>1 DEF Working
<1>3. Types'
    BY <1>1, <1>2, SameTypes
<1>4. Holding'
    BY <1>1, SameHolding
<1>5. PICK q : q = i - 1
    OBVIOUS
<1>6. /\ i \in 1..Len(af) /\ q = Position
      /\ names = Those(cmd.names, Remaining(q)) /\ TwoFiles(q, tf, tf1) /\ tf2 = Third(q)
    BY <1>1, <1>5, SwapsAt
<1>7. dir' = dir /\ cmd' = cmd /\ af' = af /\ i' = i /\ names' = names /\ tf' = tf /\ tf1' = tf1 /\ tf2' = tf2
    BY <1>1 DEF world, temps
<1>8. Splitting(q)'
    BY <1>1, <1>6, <1>7, SameTerms, SameQuestion DEF Splitting
<1>9. i' - 1 = q /\ i' \in 1..Len(af')
    BY <1>5, <1>6, <1>7
<1> QED BY <1>1, <1>3, <1>4, <1>8, <1>9 DEF Inv

LEMMA SecondNamedInv ==
    ASSUME Inv, SecondNamed
    PROVE  Inv'
<1>1. /\ Types /\ Holding /\ pc = "second" /\ pc' = "scan" /\ i \in 1..Len(af) /\ Splitting(i - 1)
      /\ tf1' = tf /\ tf' = File(<<>>) /\ UNCHANGED <<world, cmd, af, i, names, bastate, tf2>>
    BY DEF Inv, SecondNamed
<1>2. pc' \in Working /\ pc # "idle"
    BY <1>1 DEF Working
<1>3. Types'
    BY <1>1, <1>2, SameTypes
<1>4. Holding'
    BY <1>1, HeldIn, Nobody DEF Holding
<1>5. PICK q : q = i - 1
    OBVIOUS
<1>6. /\ q \in 0..Len(af) /\ q = Position /\ bastate = 0 /\ TwoFiles(q, tf, tf1) /\ q <= Position /\ Position \in Nat
      /\ names = Those(cmd.names, Remaining(q)) /\ tf2 = Third(q)
    BY <1>1, <1>5, AfIs DEF Splitting
<1>7. dir' = dir /\ cmd' = cmd /\ af' = af /\ i' = i /\ names' = names /\ tf2' = tf2 /\ bastate' = bastate
    BY <1>1 DEF world
<1>8. Divided(q, tf', tf1')
    <2>1. tf1' = File(Upto(q, Before))
        BY <1>1, <1>6 DEF TwoFiles
    <2>2. Upto(q, After) = <<>>
        BY <1>1, <1>6, NothingBack
    <2> QED BY <1>1, <2>1, <2>2 DEF Divided
<1>9. Sorted(q, tf', tf1', bastate')
    BY <1>6, <1>7, <1>8 DEF Sorted
<1>10. Scanned(q)'
    BY <1>6, <1>7, <1>9, SameTerms DEF Scanned
<1>11. i' - 1 = q /\ i' \in 1..(Len(af') + 1)
    BY <1>1, <1>5, <1>7, AfIs
<1> QED BY <1>1, <1>3, <1>4, <1>10, <1>11 DEF Inv

LEMMA SecondFailsInv ==
    ASSUME Inv, SecondFails
    PROVE  Inv'
<1>1. /\ Types /\ Holding /\ pc = "scan" /\ pc' = pc /\ bastate' = 0 /\ tf1' = Stdin /\ i \in 1..(Len(af) + 1)
      /\ UNCHANGED <<world, cmd, af, i, names, tf, tf2>>
    BY DEF Inv, SecondFails, Reading
<1>2. pc' \in Working /\ pc # "idle"
    BY <1>1 DEF Working
<1>3. Types'
    BY <1>1, <1>2, SameTypes
<1>4. Holding'
    BY <1>1, HeldIn, Nobody DEF Holding
<1>5. Lost' /\ i' \in 1..(Len(af') + 1)
    BY <1>1 DEF Lost
<1> QED BY <1>1, <1>3, <1>4, <1>5 DEF Inv

LEMMA ScanInv ==
    ASSUME Inv, ReplaceOne \/ DeleteOne \/ MoveOne
    PROVE  Inv'
<1>1. Types /\ Holding /\ pc = "scan" /\ i \in 1..(Len(af) + 1) /\ i <= Len(af) /\ (Scanned(i - 1) \/ Lost)
    BY DEF Inv, ReplaceOne, DeleteOne, MoveOne, NextMember, Reading
<1>2. Len(af) \in Nat
    BY <1>1, AfIs
<1>3. PICK p : p = i - 1
    OBVIOUS
<1>4. p \in 0..(Len(af) - 1) /\ i = p + 1 /\ p + 2 \in 1..(Len(af) + 1) /\ (p + 2) - 1 = p + 1
    BY <1>1, <1>2, <1>3
<1>5. NextMember
    BY DEF ReplaceOne, DeleteOne, MoveOne
<1>6. i' = i + 1 /\ pc' = pc /\ tf1' = tf1 /\ UNCHANGED <<world, cmd, af>>
    BY <1>5 DEF NextMember
<1>7. pc' \in Working /\ pc # "idle"
    BY <1>1, <1>6 DEF Working
<1>8. Types'
    BY <1>1, <1>6, <1>7, SameTypes
<1>9. Holding'
    <2>1. af[i] \in Stored
        BY <1>1, <1>4, AfIs
    <2>2. Replacing(af[i]) => Member(af[i].n, dir[af[i].n]) \in Stored
        <3> SUFFICES ASSUME Replacing(af[i]) PROVE Member(af[i].n, dir[af[i].n]) \in Stored
            OBVIOUS
        <3>1. af[i].n \in Files /\ dir[af[i].n] \in Nat
            BY <1>1 DEF Replacing, Types
        <3> QED BY <3>1 DEF Member, Stored
    <2>3. \E m \in Stored : tf' \in {tf, File(Append(Held(tf), m))}
        BY <2>1, <2>2 DEF ReplaceOne, DeleteOne, MoveOne
    <2>4. tf2' \in {tf2, File(Append(Held(tf2), af[i]))}
        BY DEF ReplaceOne, DeleteOne, MoveOne
    <2>5. Held(tf') \in Seq(Stored)
        BY <1>1, <2>3, HeldIn DEF Holding
    <2>6. Held(tf2') \in Seq(Stored)
        BY <1>1, <2>1, <2>4, HeldIn DEF Holding
    <2>7. Held(tf1') \in Seq(Stored)
        BY <1>1, <1>6 DEF Holding
    <2>8. names' \in Seq(Files)
        <3>1. names' = Those(names, Files \ {af[i].n}) /\ names \in Seq(Files)
            BY <1>1 DEF ReplaceOne, DeleteOne, MoveOne, Strike, Holding
        <3> QED BY <3>1, ThoseType
    <2> QED BY <2>5, <2>6, <2>7, <2>8 DEF Holding
<1>10. i' - 1 = p + 1 /\ i' \in 1..(Len(af') + 1)
    BY <1>4, <1>6
<1>11. CASE Scanned(i - 1)
    <2>1. Scanned(p + 1)'
        BY <1>1, <1>3, <1>4, <1>11, Scan
    <2>2. Scanned(i - 1)'
        BY <1>10, <2>1
    <2> QED BY <1>1, <1>6, <1>8, <1>9, <1>10, <2>2 DEF Inv
<1>12. CASE Lost
    <2>1. bastate' = 0
        BY <1>12 DEF ReplaceOne, DeleteOne, MoveOne, bamatch, Lost
    <2>2. Lost'
        BY <1>6, <1>12, <2>1 DEF Lost
    <2> QED BY <1>1, <1>6, <1>8, <1>9, <1>10, <2>2 DEF Inv
<1> QED BY <1>1, <1>11, <1>12

LEMMA CleanupInv ==
    ASSUME Inv, cleanup
    PROVE  Inv'
<1> DEFINE first == IF tf1 = Nothing THEN tf ELSE tf1
<1>1. Types /\ Holding /\ pc = "scan" /\ i \in 1..(Len(af) + 1) /\ i > Len(af) /\ (Scanned(i - 1) \/ Lost)
    BY DEF Inv, cleanup
<1>2. i = Len(af) + 1 /\ i - 1 = Len(af)
    BY <1>1, AfIs
<1>3. /\ UNCHANGED <<world, cmd, af>> /\ pc' = "install" /\ tf2' = tf2 /\ names' = (IF cmd.op = "r" THEN <<>> ELSE names)
      /\ tf1' = (IF tf1 = Nothing THEN Nothing ELSE tf) /\ tf' = (IF first = Stdin THEN Stdin ELSE File(Held(first) \o Adding))
    BY DEF cleanup
<1>4. install(tf', tf2', tf1') = Asked \/ tf' = Stdin
    <2>1. CASE Scanned(i - 1)
        <3>1. Scanned(Len(af))
            BY <1>2, <2>1
        <3> QED BY <1>1, <1>2, <3>1, Cleaned
    <2>2. CASE Lost
        BY <1>3, <2>2, Temporary DEF Lost
    <2> QED BY <1>1, <2>1, <2>2
<1>5. pc' \in Working /\ pc # "idle"
    BY <1>1, <1>3 DEF Working
<1>6. Types'
    BY <1>1, <1>3, <1>5, SameTypes
<1>8. Holding'
    <2>1. Adding \in Seq(Stored)
        BY <1>1, MembersType, Nobody DEF Adding, Holding
    <2>2. Held(first) \in Seq(Stored)
        BY <1>1 DEF Holding
    <2> HIDE DEF first
    <2>3. Held(tf') \in Seq(Stored)
        BY <1>3, <2>1, <2>2, HeldIn, Nobody
    <2>4. Held(tf1') \in Seq(Stored)
        BY <1>1, <1>3 DEF Holding
    <2>5. Held(tf2') \in Seq(Stored) /\ names' \in Seq(Files)
        BY <1>1, <1>3, Nobody DEF Holding
    <2> QED BY <2>3, <2>4, <2>5 DEF Holding
<1>9. Asked' = Asked
    <2>1. dir' = dir /\ cmd' = cmd /\ af' = af
        BY <1>3 DEF world
    <2> QED BY <2>1, SameQuestion
<1> QED BY <1>3, <1>4, <1>6, <1>8, <1>9 DEF Inv

LEMMA TruncateInv ==
    ASSUME Inv, Truncate
    PROVE  Inv'
<1>1. Types /\ Holding /\ (install(tf, tf2, tf1) = Asked \/ tf = Stdin) /\ pc = "install"
    BY DEF Inv, Truncate
<1>2. UNCHANGED <<dir, now, cmd, af, names, temps>> /\ archive' = <<>> /\ mtime' = now /\ pc' = "copy"
    BY DEF Truncate, Write
<1>3. Types'
    BY <1>1, <1>2, Nobody DEF Types
<1>4. Asked' = Asked
    BY <1>2, SameQuestion DEF temps
<1>5. Holding'
    BY <1>1, <1>2, SameHolding
<1> QED BY <1>1, <1>2, <1>3, <1>4, <1>5 DEF Inv, temps

LEMMA CopyBackInv ==
    ASSUME Inv, CopyBack
    PROVE  Inv' /\ (tf # Stdin => archive' = Asked)
<1>1. Types /\ Holding /\ (install(tf, tf2, tf1) = Asked \/ tf = Stdin) /\ pc = "copy"
    BY DEF Inv, CopyBack
<1>2. /\ UNCHANGED <<dir, now>> /\ archive' = install(tf, tf2, tf1) /\ mtime' = now /\ pc' = "idle" /\ af' = <<>>
      /\ names' = <<>> /\ tf' = Nothing /\ tf1' = Nothing /\ tf2' = Nothing
    BY <1>1 DEF CopyBack, Write, done
<1>3. install(tf, tf2, tf1) \in Seq(Stored)
    <2>1. Held(tf) \in Seq(Stored) /\ Held(tf2) \in Seq(Stored) /\ Held(tf1) \in Seq(Stored)
        BY <1>1 DEF Holding
    <2>2. \A s, t, u \in Seq(Stored) : s \o t \o u \in Seq(Stored)
        OBVIOUS
    <2> QED BY <2>1, <2>2 DEF install
<1>4. Holding'
    BY <1>2, Emptied
<1> QED BY <1>1, <1>2, <1>3, <1>4, AtRest, Nobody DEF Types

LEMMA InterruptInv ==
    ASSUME Inv, Interrupt
    PROVE  Inv'
<1>1. /\ Types /\ UNCHANGED <<dir, archive, mtime, now>> /\ pc' = "idle" /\ af' = <<>>
      /\ names' = <<>> /\ tf' = Nothing /\ tf1' = Nothing /\ tf2' = Nothing
    BY DEF Inv, Interrupt, done, world
<1>2. Holding'
    BY <1>1, Emptied
<1> QED BY <1>1, <1>2, AtRest, Nobody DEF Types

LEMMA QuickInv ==
    ASSUME Inv, NEW n \in NameLists, Quick(n)
    PROVE  Inv' /\ (TableRight(archive) => TableRight(archive'))
<1>1. /\ Types /\ Holding /\ pc' = "idle" /\ UNCHANGED <<dir, af, names, temps>> /\ archive' = archive \o Members(n)
      /\ mtime' = now /\ now' = now + 1
    BY DEF Inv, Quick, Write
<1>2. n \in Seq(Files)
    <2>1. n \in UNION {[1..k -> Files] : k \in 0..2}
        BY DEF NameLists
    <2>2. PICK k \in 0..2 : n \in [1..k -> Files]
        BY <2>1
    <2> QED BY <2>2
<1>3. archive \in Seq(Stored) /\ Members(n) \in Seq(Stored)
    BY <1>1, <1>2, MembersType DEF Types
<1>4. archive' \in Seq(Stored)
    BY <1>1, <1>3
<1>5. dir' \in [Files -> Nat] /\ af' \in Seq(Stored)
    BY <1>1 DEF Types
<1>6. Holding'
    BY <1>1, SameHolding
<1>7. Inv'
    BY <1>1, <1>4, <1>5, <1>6, AtRest, Tick
<1>8. TableRight(archive) => TableRight(archive')
    BY <1>1, <1>2, <1>3, NoTable, StillRight
<1> QED BY <1>7, <1>8

LEMMA RanlibInv ==
    ASSUME Inv, Ranlib
    PROVE  Inv' /\ (HasTable(archive') => LdUsesTable') /\ TableRight(archive')
<1> DEFINE b == fixdate(WithTable(archive))
<1>1. /\ Types /\ Holding /\ archive # <<>> /\ archive' = b /\ pc' = "idle" /\ UNCHANGED <<dir, af, names, temps>>
      /\ now' = now + 1 /\ mtime' = now /\ now <= MaxRuns
    BY DEF Inv, Ranlib, Write
<1>2. archive \in Seq(Stored) /\ now \in Nat
    BY <1>1 DEF Types
<1>3. b \in Seq(Stored) /\ (HasTable(b) => IF HasTable(archive) THEN Tabled(b, archive, 0) ELSE Tabled(b, archive, 1))
    BY <1>1, Written
<1> HIDE DEF b
<1>4. Inv'
    <2>1. dir' \in [Files -> Nat] /\ af' \in Seq(Stored)
        BY <1>1 DEF Types
    <2>2. Holding'
        BY <1>1, SameHolding
    <2> QED BY <1>1, <1>3, <2>1, <2>2, AtRest, Tick
<1>5. ASSUME HasTable(b) PROVE LdUsesTable' /\ \A e \in Range(b[1].v) : \E k \in MemberAt(b, e.off) : b[k].n = e.n
    <2>1. PICK h \in {0, 1} : h = (IF HasTable(archive) THEN 0 ELSE 1) /\ Tabled(b, archive, h)
        BY <1>3, <1>5
    <2>2. b[1].date = FarFuture
        BY <2>1 DEF Tabled
    <2>3. now <= FarFuture
        BY <1>1, <1>2, ArchiveAssumption DEF FarFuture
    <2>4. LdUsesTable'
        BY <1>1, <1>5, <2>2, <2>3 DEF LdUsesTable
    <2> QED BY <1>1, <1>2, <2>1, <2>4, Leads
<1> QED BY <1>1, <1>4, <1>5 DEF TableRight

LEMMA FileInv ==
    ASSUME Inv, NEW f \in Files, EditFile(f) \/ RemoveFile(f)
    PROVE  Inv'
<1>1. Types /\ Holding /\ pc' = "idle" /\ UNCHANGED <<archive, mtime, af, names, temps>> /\ now' = now + 1
    BY DEF Inv, EditFile, RemoveFile
<1>2. dir' \in [Files -> Nat]
    <2>1. dir \in [Files -> Nat]
        BY <1>1 DEF Types
    <2>2. dir[f] + 1 \in Nat /\ 0 \in Nat
        BY <2>1
    <2>3. dir' = [dir EXCEPT ![f] = dir[f] + 1] \/ dir' = [dir EXCEPT ![f] = 0]
        BY DEF EditFile, RemoveFile
    <2> QED BY <2>1, <2>2, <2>3
<1>3. archive' \in Seq(Stored) /\ af' \in Seq(Stored)
    BY <1>1 DEF Types
<1>4. Holding'
    BY <1>1, SameHolding
<1> QED BY <1>1, <1>2, <1>3, <1>4, AtRest, Tick

LEMMA StutterInv ==
    ASSUME Inv, UNCHANGED vars
    PROVE  Inv'
<1>1. /\ dir' = dir /\ archive' = archive /\ mtime' = mtime /\ now' = now /\ pc' = pc /\ cmd' = cmd /\ af' = af /\ i' = i
      /\ names' = names /\ bastate' = bastate /\ tf' = tf /\ tf1' = tf1 /\ tf2' = tf2
    BY DEF vars
<1>2. Types'
    BY <1>1 DEF Inv, Types
<1>3. Holding'
    BY <1>1, SameHolding DEF Inv, temps
<1>4. /\ pc' \in {"init", "open"} => Starting' /\ tf2' = Nothing
      /\ pc' = "open" => cmd'.op = "m"
    BY <1>1, Unmoved DEF Inv
<1>5. /\ pc' \in {"third", "scan"} => i' \in 1..(Len(af') + 1) /\ (Scanned(i - 1) \/ Lost)'
      /\ pc' = "second" => i' \in 1..Len(af') /\ Splitting(i - 1)'
    BY <1>1, Unmoved DEF Inv
<1>6. pc' \in {"install", "copy"} => install(tf', tf2', tf1') = Asked' \/ tf' = Stdin
    <2>1. Asked' = Asked
        BY <1>1, SameQuestion
    <2> QED BY <1>1, <2>1 DEF Inv
<1> QED BY <1>2, <1>3, <1>4, <1>5, <1>6 DEF Inv

\* A run that begins, and each of its steps until it writes over the archive.
RunStep ==
    \/ InitNamed \/ ThirdMade \/ ThirdNamed \/ SecondMade \/ SecondNamed \/ SecondFails
    \/ ReplaceOne \/ DeleteOne \/ MoveOne \/ cleanup
LEMMA RunStepInv == ASSUME Inv, RunStep PROVE Inv'
BY InitNamedInv, ThirdMadeInv, ThirdNamedInv, SecondMadeInv, SecondNamedInv, SecondFailsInv, ScanInv, CleanupInv DEF RunStep

LEMMA NextInv == Inv /\ [Next]_vars => Inv'
<1> SUFFICES ASSUME Inv, [Next]_vars PROVE Inv'
    OBVIOUS
<1>1. ASSUME NEW c \in Commands, Ar(c) PROVE Inv'
    BY <1>1, BeginInv
<1>2. CASE RunStep
    BY <1>2, RunStepInv
<1>3. CASE Truncate
    BY <1>3, TruncateInv
<1>4. CASE CopyBack
    BY <1>4, CopyBackInv
<1>5. CASE Interrupt
    BY <1>5, InterruptInv
<1>6. ASSUME NEW n \in NameLists, Quick(n) PROVE Inv'
    BY <1>6, QuickInv
<1>7. CASE Ranlib
    BY <1>7, RanlibInv
<1>8. ASSUME NEW f \in Files, EditFile(f) \/ RemoveFile(f) PROVE Inv'
    BY <1>8, FileInv
<1>9. CASE UNCHANGED vars
    BY <1>9, StutterInv
<1> QED BY <1>1, <1>2, <1>3, <1>4, <1>5, <1>6, <1>7, <1>8, <1>9 DEF Next, RunStep

\* Of any files, with any number of members and of runs, the archive holds
\* members, the temporary files what the scan has come to, and what is to be
\* installed is what was asked for, unless the second file could not be created.
THEOREM ArchiveInvariant == Spec => []Inv
BY InitInv, NextInv, PTL DEF Spec

\* Which steps leave the archive alone.
LEMMA ArchiveStays ==
    ASSUME Next, ~Truncate, ~CopyBack, ~Ranlib, \A n \in NameLists : ~Quick(n)
    PROVE  archive' = archive
<1>1. ASSUME NEW c \in Commands, Ar(c) PROVE archive' = archive
    BY <1>1 DEF Ar
<1>2. CASE RunStep
    <2>1. CASE ReplaceOne \/ DeleteOne \/ MoveOne
        BY <2>1 DEF ReplaceOne, DeleteOne, MoveOne, NextMember, world
    <2>2. CASE InitNamed \/ ThirdMade \/ ThirdNamed \/ SecondMade \/ SecondNamed \/ SecondFails \/ cleanup
        BY <2>2 DEF InitNamed, ThirdMade, ThirdNamed, SecondMade, SecondNamed, SecondFails, cleanup, world
    <2> QED BY <1>2, <2>1, <2>2 DEF RunStep
<1>3. CASE Interrupt
    BY <1>3 DEF Interrupt, world
<1>4. ASSUME NEW f \in Files, EditFile(f) \/ RemoveFile(f) PROVE archive' = archive
    BY <1>4 DEF EditFile, RemoveFile
<1> QED BY <1>1, <1>2, <1>3, <1>4 DEF Next, RunStep

LEMMA Lasting ==
    ASSUME Inv, [Next]_vars, pc \in Working \cup {"idle"}, TableRight(archive)
    PROVE  TableRight(archive')
<1>1. CASE archive' = archive
    BY <1>1
<1>2. CASE Truncate
    BY <1>2 DEF Truncate, Write, TableRight, HasTable
<1>3. ~CopyBack
    BY DEF CopyBack, Working
<1>4. CASE Ranlib
    BY <1>4, RanlibInv
<1>5. ASSUME NEW n \in NameLists, Quick(n) PROVE TableRight(archive')
    BY <1>5, QuickInv
<1>6. CASE UNCHANGED vars
    BY <1>1, <1>6 DEF vars
<1> QED BY <1>1, <1>2, <1>3, <1>4, <1>5, <1>6, ArchiveStays

\* ar and ranlib: whatever r, d, m and q were given, with a position and without,
\* the archive they install is the one that was asked for, every member in its
\* place; the table ranlib puts in front leads ld to the members, whatever was
\* there before it, and goes on to do so until r, d or m installs an archive.
THEOREM AsAsked == Spec => ArchiveAsAsked
<1>1. Inv /\ [Next]_vars => [CopyBack /\ tf # Stdin => archive' = Asked]_vars
    BY CopyBackInv
<1>2. Inv /\ [Next]_vars => [Ranlib /\ HasTable(archive') => LdUsesTable' /\ TableRight(archive')]_vars
    BY RanlibInv
<1>3. Inv /\ [Next]_vars => [(pc \in Working \cup {"idle"}) /\ TableRight(archive) => TableRight(archive')]_vars
    BY Lasting
<1>4. Spec => EditsAsAsked
    BY <1>1, ArchiveInvariant, PTL DEF Spec, EditsAsAsked
<1>5. Spec => TableLeads
    BY <1>2, ArchiveInvariant, PTL DEF Spec, TableLeads
<1>6. Spec => TableLasts
    BY <1>3, ArchiveInvariant, PTL DEF Spec, TableLasts
<1> QED BY <1>4, <1>5, <1>6 DEF ArchiveAsAsked

---------------------------------------------------------------------------
(* What is on the disk, and whose name is recorded.                        *)

Unrecorded == disk \ recorded
Accounted ==
    /\ pc \in Working => archive = af
    /\ pc # "idle" => Unrecorded = JustMade
    /\ pc \in {"init", "open", "third"} => "tf1" \notin recorded
    /\ pc \in {"init", "open"} => "tf2" \notin recorded
    /\ pc = "scan" /\ "tf1" \in recorded => bastate = 0
    /\ pc = "second" => bastate = 0
Leaves == pc # "idle" /\ pc' = "idle" => disk' = JustMade

LEMMA Recording ==
    ASSUME NEW f, Record(f)
    PROVE  Unrecorded' = Unrecorded \ {f} /\ recorded' = recorded \cup {f}
BY DEF Record, Unrecorded

LEMMA Creating ==
    ASSUME NEW f, Create(f), f \notin recorded
    PROVE  Unrecorded' = Unrecorded \cup {f} /\ recorded' = recorded
BY DEF Create, Unrecorded

LEMMA InitAccounted ==
    ASSUME Accounted, InitNamed \/ ThirdMade \/ ThirdNamed
    PROVE  Accounted' /\ Leaves
<1>1. CASE InitNamed
    <2>1. pc = "init" /\ pc' \in {"open", "scan"} /\ UNCHANGED <<archive, af, bastate>> /\ Record("tf")
        BY <1>1 DEF InitNamed, world
    <2>2. Unrecorded' = {} /\ archive = af /\ recorded' = recorded \cup {"tf"} /\ "tf1" \notin recorded /\ "tf2" \notin recorded
        BY <2>1, Recording DEF Accounted, JustMade, Working
    <2>3. JustMade' = {}
        BY <2>1 DEF JustMade
    <2> QED BY <2>1, <2>2, <2>3 DEF Accounted, Leaves
<1>2. CASE ThirdMade
    <2>1. pc = "open" /\ pc' = "third" /\ UNCHANGED <<archive, af>> /\ Create("tf2")
        BY <1>2 DEF ThirdMade, world
    <2>2. Unrecorded' = {"tf2"} /\ archive = af /\ recorded' = recorded /\ "tf1" \notin recorded
        BY <2>1, Creating DEF Accounted, JustMade, Working
    <2>3. JustMade' = {"tf2"}
        BY <2>1 DEF JustMade
    <2> QED BY <2>1, <2>2, <2>3 DEF Accounted, Leaves
<1>3. CASE ThirdNamed
    <2>1. pc = "third" /\ pc' = "scan" /\ UNCHANGED <<archive, af>> /\ Record("tf2")
        BY <1>3 DEF ThirdNamed, world
    <2>2. Unrecorded' = {} /\ archive = af /\ recorded' = recorded \cup {"tf2"} /\ "tf1" \notin recorded
        BY <2>1, Recording DEF Accounted, JustMade, Working
    <2>3. JustMade' = {}
        BY <2>1 DEF JustMade
    <2> QED BY <2>1, <2>2, <2>3 DEF Accounted, Leaves
<1> QED BY <1>1, <1>2, <1>3

LEMMA SecondAccounted ==
    ASSUME Accounted, SecondMade \/ SecondNamed \/ SecondFails
    PROVE  Accounted' /\ Leaves
<1>1. CASE SecondMade
    <2>1. pc = "scan" /\ pc' = "second" /\ UNCHANGED <<archive, af>> /\ bastate' = 0 /\ Create("tf1") /\ bastate # 0
        BY <1>1, Telling DEF SecondMade, Reading, world
    <2>2. Unrecorded' = {"tf1"} /\ archive = af
        BY <2>1, Creating DEF Accounted, JustMade, Working
    <2>3. JustMade' = {"tf1"}
        BY <2>1 DEF JustMade
    <2> QED BY <2>1, <2>2, <2>3 DEF Accounted, Leaves
<1>2. CASE SecondNamed
    <2>1. pc = "second" /\ pc' = "scan" /\ UNCHANGED <<archive, af, bastate>> /\ Record("tf1")
        BY <1>2 DEF SecondNamed, world
    <2>2. Unrecorded' = {} /\ archive = af /\ bastate = 0
        BY <2>1, Recording DEF Accounted, JustMade, Working
    <2>3. JustMade' = {}
        BY <2>1 DEF JustMade
    <2> QED BY <2>1, <2>2, <2>3 DEF Accounted, Leaves
<1>3. CASE SecondFails
    <2>1. pc = "scan" /\ pc' = pc /\ UNCHANGED <<archive, af>> /\ bastate' = 0 /\ Record("tf1")
        BY <1>3 DEF SecondFails, Reading, world
    <2>2. Unrecorded' = {} /\ archive = af
        BY <2>1, Recording DEF Accounted, JustMade, Working
    <2>3. JustMade' = {}
        BY <2>1 DEF JustMade
    <2> QED BY <2>1, <2>2, <2>3 DEF Accounted, Leaves
<1> QED BY <1>1, <1>2, <1>3

LEMMA ScanAccounted ==
    ASSUME Accounted, ReplaceOne \/ DeleteOne \/ MoveOne \/ cleanup
    PROVE  Accounted' /\ Leaves
<1>1. /\ pc = "scan" /\ pc' \in {"scan", "install"} /\ UNCHANGED <<archive, af, disk, recorded>>
      /\ bastate = 0 => bastate' = 0
    BY DEF ReplaceOne, DeleteOne, MoveOne, bamatch, NextMember, Reading, cleanup, world, tempnames
<1>2. Unrecorded' = {} /\ archive = af
    BY <1>1 DEF Accounted, JustMade, Working, Unrecorded
<1>3. JustMade' = {}
    BY <1>1 DEF JustMade
<1> QED BY <1>1, <1>2, <1>3 DEF Accounted, Leaves

LEMMA EndAccounted ==
    ASSUME Accounted, Truncate \/ CopyBack \/ Interrupt
    PROVE  Accounted' /\ Leaves
<1>1. CASE Truncate
    <2>1. pc = "install" /\ pc' = "copy" /\ UNCHANGED <<disk, recorded>>
        BY <1>1 DEF Truncate, tempnames
    <2>2. Unrecorded' = {}
        BY <2>1 DEF Accounted, JustMade, Unrecorded
    <2>3. JustMade' = {}
        BY <2>1 DEF JustMade
    <2> QED BY <2>1, <2>2, <2>3 DEF Accounted, Leaves, Working
<1>2. CASE CopyBack \/ Interrupt
    <2>1. pc # "idle" /\ pc' = "idle" /\ disk' = Unrecorded
        BY <1>2 DEF CopyBack, Interrupt, done, Unrecorded, Working
    <2> QED BY <2>1 DEF Accounted, Leaves, Working
<1> QED BY <1>1, <1>2

LEMMA RestAccounted ==
    ASSUME Accounted, pc = "idle", pc' = pc
    PROVE  Accounted' /\ Leaves
BY DEF Accounted, Leaves, Working

LEMMA NextAccounted == Accounted /\ [Next]_vars => Accounted' /\ [Leaves]_vars
<1> SUFFICES ASSUME Accounted, [Next]_vars PROVE Accounted' /\ [Leaves]_vars
    OBVIOUS
<1>1. ASSUME NEW c \in Commands, Ar(c) PROVE Accounted' /\ Leaves
    <2>1. pc = "idle" /\ pc' = "init" /\ archive' = archive /\ af' = archive /\ disk' = {"tf"} /\ recorded' = {}
        BY <1>1 DEF Ar, Begin
    <2>2. Unrecorded' = {"tf"} /\ JustMade' = {"tf"}
        BY <2>1 DEF Unrecorded, JustMade
    <2> QED BY <2>1, <2>2 DEF Accounted, Leaves
<1>2. CASE InitNamed \/ ThirdMade \/ ThirdNamed
    BY <1>2, InitAccounted
<1>3. CASE SecondMade \/ SecondNamed \/ SecondFails
    BY <1>3, SecondAccounted
<1>4. CASE ReplaceOne \/ DeleteOne \/ MoveOne \/ cleanup
    BY <1>4, ScanAccounted
<1>5. CASE Truncate \/ CopyBack \/ Interrupt
    BY <1>5, EndAccounted
<1>6. ASSUME NEW n \in NameLists, Quick(n) PROVE Accounted' /\ Leaves
    BY <1>6, RestAccounted DEF Quick
<1>7. CASE Ranlib
    BY <1>7, RestAccounted DEF Ranlib
<1>8. ASSUME NEW f \in Files, EditFile(f) \/ RemoveFile(f) PROVE Accounted' /\ Leaves
    BY <1>8, RestAccounted DEF EditFile, RemoveFile
<1>9. CASE UNCHANGED vars
    <2>1. pc' = pc /\ archive' = archive /\ af' = af /\ disk' = disk /\ recorded' = recorded /\ bastate' = bastate
        BY <1>9 DEF vars
    <2>2. JustMade' = JustMade /\ Unrecorded' = Unrecorded
        BY <2>1 DEF JustMade, Unrecorded
    <2> QED BY <1>9, <2>1, <2>2 DEF Accounted
<1> QED BY <1>1, <1>2, <1>3, <1>4, <1>5, <1>6, <1>7, <1>8, <1>9 DEF Next

\* sigdone, done, install: however a run of ar ends, by itself, by an error or by a
\* signal, until it empties the archive the file is the one it opened, and of its
\* temporary files only one can be left, that mkstemp() has just made: for any
\* files, any commands and any number of runs.
THEOREM ArchiveIntact == Spec => InterruptedIntact
<1>1. Init => Accounted
    BY DEF Init, Accounted, Working
<1>2. Accounted => (pc \in Working => archive = af)
    BY DEF Accounted
<1>3. [Leaves]_vars => [pc # "idle" /\ pc' = "idle" => disk' = JustMade]_vars
    BY DEF Leaves
<1> QED BY <1>1, <1>2, <1>3, NextAccounted, PTL DEF Spec, InterruptedIntact
============================================================================
