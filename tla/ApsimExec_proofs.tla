---------------------------- MODULE ApsimExec_proofs ----------------------------
(* Theorems about apsim's loader, for every set of files and every geometry  *)
(* of core.                                                                  *)
EXTENDS ApsimExec, NaturalsInduction, WellFoundedInduction, TLAPS

(* No load is ever in progress between two steps of the guest: the one level *)
(* of script interpretation has always been left, whether it succeeded or    *)
(* not.  Without it a script refused once would refuse every later one.      *)
DepthClear == sb_depth = 0

ExecInv == DepthClear /\ ExecByFileAlone

(* At depth 0 the file a load ends up with is the script's interpreter, or   *)
(* the file itself.                                                          *)
LEMMA TargetAtDepthZero ==
    ASSUME NEW f \in Files, DepthClear, Aout[f].magic # "text"
    PROVE  Loadable(Target(f)) <=>
             \/ Loadable(f)
             \/ Aout[f].magic = "script" /\ Aout[f].words >= 1 /\ Loadable(Aout[f].interp)
<1>1. CASE Script(f)
    <2>1. Target(f) = Aout[f].interp
        BY <1>1 DEF Target, Interpreted, DepthClear
    <2>2. ~Loadable(f)
        BY <1>1 DEF Script, Loadable, Binary, Magics
    <2> QED BY <1>1, <2>1, <2>2 DEF Script
<1>2. CASE ~Script(f)
    <2>1. Target(f) = f
        BY <1>2 DEF Target, Interpreted, Text
    <2> QED BY <1>2, <2>1 DEF Script
<1> QED BY <1>1, <1>2

(* An image that is entered was loadable.                                    *)
LEMMA EnteredIsLoadable ==
    ASSUME NEW f \in Files,
           ExecV1(f) \/ ExecShared(f) \/ ExecSplit(f) \/ ExecOverlay(f)
    PROVE  Loadable(Target(f)) /\ Started(f, Target(f))
<1>1. CASE ExecOverlay(f)
    BY <1>1 DEF ExecOverlay
<1>2. CASE ExecV1(f)
    BY <1>2 DEF ExecV1, Loadable, IsOverlay, V1Image
<1>3. CASE ExecShared(f)
    BY <1>3 DEF ExecShared, Loadable, IsOverlay
<1>4. CASE ExecSplit(f)
    BY <1>4 DEF ExecSplit, Loadable, IsOverlay
<1> QED BY <1>1, <1>2, <1>3, <1>4

LEMMA InitExecInv == Init => ExecInv
BY DEF Init, ExecInv, DepthClear, ExecByFileAlone, NotTried

LEMMA NextExecInv == ExecInv /\ [Next]_vars => ExecInv'
<1> SUFFICES ASSUME ExecInv, [Next]_vars PROVE ExecInv'
    OBVIOUS
<1>0. DepthClear
    BY DEF ExecInv
<1>a. ASSUME tried' \in {tried, NotTried}, sb_depth' = sb_depth PROVE ExecInv'
    <2>1. DepthClear'
        BY <1>a, <1>0 DEF DepthClear
    <2>2. ExecByFileAlone'
        BY <1>a DEF ExecInv, ExecByFileAlone, NotTried
    <2> QED BY <2>1, <2>2 DEF ExecInv
<1>1. ASSUME NEW f \in Files,
             ExecV1(f) \/ ExecShared(f) \/ ExecSplit(f) \/ ExecOverlay(f)
      PROVE  ExecInv'
    <2>1. Loadable(Target(f)) /\ Started(f, Target(f))
        BY <1>1, EnteredIsLoadable
    <2>2. tried' = [file |-> f, ok |-> TRUE] /\ sb_depth' = 0
        BY <2>1, <1>0 DEF Started, DepthAfter, DepthClear
    <2>3. ExecByFileAlone'
        <3>1. tried'.file = f /\ tried'.ok
            BY <2>2
        <3> QED BY <3>1, <2>1, <1>0, TargetAtDepthZero DEF ExecByFileAlone
    <2> QED BY <2>2, <2>3 DEF ExecInv, DepthClear
<1>2. ASSUME NEW f \in Files, ExecFails(f) PROVE ExecInv'
    <2>1. ~Loadable(Target(f)) /\ tried' = [file |-> f, ok |-> FALSE] /\ sb_depth' = 0
        BY <1>2, <1>0 DEF ExecFails, DepthAfter, DepthClear
    <2>2. ExecByFileAlone'
        <3>1. tried'.file = f /\ ~tried'.ok
            BY <2>1
        <3> QED BY <3>1, <2>1, <1>0, TargetAtDepthZero DEF ExecByFileAlone
    <2> QED BY <2>1, <2>2 DEF ExecInv, DepthClear
<1>3. ASSUME NEW n \in 1 .. MaxOvl, EmtSwitch(n) \/ EmtHalts(n) PROVE ExecInv'
    BY <1>3, <1>a DEF EmtSwitch, EmtHalts, Plain
<1>4. CASE EmtRts \/ \E a \in Breaks : Break(a)
    BY <1>4, <1>a DEF EmtRts, Break, Plain
<1>5. CASE Push \/ Pop \/ \E a \in Addr : Store(a)
    BY <1>5, <1>a DEF Push, Pop, Store, Plain
<1>6. CASE Deliver \/ SigtrampEmt \/ Sigreturn
    BY <1>6, <1>a DEF Deliver, SigtrampEmt, Sigreturn, Plain
<1>7. CASE UNCHANGED vars
    BY <1>7, <1>a DEF vars
<1> QED BY <1>1, <1>2, <1>3, <1>4, <1>5, <1>6, <1>7 DEF Next

(* Whatever was executed, interpreted or refused before, a loadable file is  *)
(* loaded, a script runs its loadable interpreter, and nothing else does.    *)
THEOREM ExecFilesOnly == Spec => []ExecByFileAlone
<1>1. ExecInv => ExecByFileAlone
    BY DEF ExecInv
<1> QED BY InitExecInv, NextExecInv, <1>1, PTL DEF Spec

-----------------------------------------------------------------------------
(* The image that runs: a file the loader accepts, and, while overlays are   *)
(* live, the header that was read for it and the overlays it came with.      *)
Entered == image # NoFile
Late == Entered /\ ~V1Image(image)
Split(f) == Aout[f].magic \in {"0411", "0431"}

Header ==
    /\ Entered => Loadable(image)
    /\ Late => Isp = IF Split(image) THEN "MI" ELSE "M"
    /\ ov_proc => /\ Late /\ IsOverlay(image)
                  /\ ov_sep = (Aout[image].magic = "0431")
                  /\ ov_base = OvBase(image) /\ ov_max = Aout[image].max
                  /\ ov_siz = HeaderSizes(image)
    /\ ~v1sys /\ ~ov_proc => cur_ovno = 0

Overlays ==
    ov_proc /\ Whole(image) =>
        \A j \in 1 .. Novl : \A x \in 0 .. Aout[image].siz[j] - 1 : ov_img[j][x] = <<image, j, x>>

(* The break never goes below the loaded data, so the stack, which the guest *)
(* keeps above its break, does not reach it.                                 *)
Room == Late /\ Fits(image) => gbrk >= DataEnd(image)

TextIn == IF Isp = "MI" THEN MI ELSE M
TextThere == Late /\ Whole(image) /\ Fits(image) =>
    \A x \in 0 .. Aout[image].text - 1 : TextIn[x] = <<image, TEXT, x>>
DataThere == Late /\ Whole(image) /\ Fits(image) =>
    \A x \in 0 .. Aout[image].data - 1 : M[DataBase(image) + x] \in {GUEST, <<image, DATA, x>>}

WindowIn == IF ov_sep THEN MI ELSE M
Mapped == ov_proc /\ cur_ovno # 0 /\ Whole(image) /\ Fits(image) =>
    /\ HasOverlay(cur_ovno)
    /\ \A x \in 0 .. Aout[image].siz[cur_ovno] - 1 : WindowIn[ov_base + x] = <<image, cur_ovno, x>>
    /\ \A x \in Aout[image].siz[cur_ovno] .. ov_max - 1 : WindowIn[ov_base + x] = ZERO

(* A frame records the overlay that was mapped.  One whose handler is back   *)
(* has it mapped again, or a later frame has recorded it in turn.            *)
Resume ==
    /\ \A k \in 1 .. Len(frames) : frames[k].sc_ovno = frames[k].was
    /\ ~halted => \A k \in 1 .. Len(frames) :
           frames[k].back /\ frames[k].was # 0 =>
               frames[k].was = IF k = Len(frames) THEN cur_ovno ELSE frames[k + 1].was

-----------------------------------------------------------------------------
(* Addresses, boundaries, and what reading a segment does to a space.        *)

LEMMA Geometry ==
    /\ Core \in Nat /\ Core >= 1 /\ Page \in Nat /\ Page >= 1 /\ Page <= Core
    /\ Slot \in Nat /\ Novl \in Nat /\ Novl >= 1 /\ MaxOvl \in Nat /\ Novl <= MaxOvl
    /\ V1Base \in Nat /\ V1Top \in Nat /\ MaxArgs \in Nat /\ MaxArgs >= 1
    /\ V1Top < Core /\ MaxArgs <= V1Top - V1Base
BY GeometryAssumption

LEMMA FileTypes ==
    ASSUME NEW f \in Files
    PROVE  /\ Aout[f].text \in 0 .. Core - 1 /\ Aout[f].data \in 0 .. Core - 1
           /\ Aout[f].bss \in 0 .. Core - 1 /\ Aout[f].max \in 0 .. Core - 1
           /\ \A j \in 1 .. MaxOvl : Aout[f].siz[j] \in 0 .. Core - 1
           /\ \A s \in Segments : Aout[f].has[s] \in 0 .. Core
           /\ Aout[f].interp \in Files /\ f # NoFile
<1>1. Aout[f] \in [magic : Magics \cup {"script", "text", "other", "absent"},
                    words : 0 .. 8, interp : Files,
                    text : 0 .. Core - 1, data : 0 .. Core - 1, bss : 0 .. Core - 1,
                    ovhdr : BOOLEAN,
                    max : 0 .. Core - 1, siz : [1 .. MaxOvl -> 0 .. Core - 1],
                    has : [Segments -> 0 .. Core]]
    BY FilesAssumption
<1> QED BY <1>1, FilesAssumption

LEMMA TargetFile ==
    ASSUME NEW f \in Files
    PROVE  Target(f) \in Files
BY FilesAssumption DEF Target

LEMMA Times ==
    ASSUME NEW a \in Int, NEW b \in Int, NEW p \in Nat, a <= b
    PROVE  a * p <= b * p
OBVIOUS

LEMMA Division ==
    ASSUME NEW m \in Nat, NEW p \in Nat, p >= 1
    PROVE  /\ m \div p \in Nat /\ (m \div p) * p \in Nat
           /\ (m \div p) * p <= m /\ m < (m \div p) * p + p
           /\ m % p = 0 => m = (m \div p) * p
           /\ m < p => m % p = m
OBVIOUS

LEMMA Rounded ==
    ASSUME NEW n \in Nat
    PROVE  /\ RoundUp(n) \in Nat /\ n <= RoundUp(n) /\ RoundUp(n) <= n + Page - 1
           /\ \E q \in Nat : RoundUp(n) = q * Page
           /\ n <= Core => RoundUp(n) <= Core
<1> DEFINE m == n + Page - 1
           q == m \div Page
<1>1. m \in Nat /\ Page \in Nat /\ Page >= 1 /\ Core \in Nat
    BY Geometry
<1>2. q \in Nat /\ q * Page \in Nat /\ q * Page <= m /\ m < q * Page + Page
    <2> HIDE DEF m
    <2> QED BY <1>1, Division
<1>4. RoundUp(n) = q * Page
    BY DEF RoundUp
<1>5. ASSUME n <= Core PROVE q * Page <= Core
    <2> DEFINE c == Core \div Page
    <2>1. c \in Nat /\ Core = c * Page
        BY <1>1, GeometryAssumption, Division
    <2>2. q <= c
        <3> SUFFICES ASSUME c + 1 <= q PROVE FALSE
            BY <1>2, <2>1
        <3> HIDE DEF q, c
        <3>1. (c + 1) * Page <= q * Page
            BY <1>1, <1>2, <2>1, Times
        <3>2. (c + 1) * Page = c * Page + Page
            BY <1>1, <2>1
        <3> QED BY <1>1, <1>2, <1>5, <2>1, <3>1, <3>2
    <2> HIDE DEF q, c
    <2> QED BY <1>1, <1>2, <2>1, <2>2, Times
<1>6. n <= q * Page /\ q * Page <= m
    <2> HIDE DEF q
    <2> QED BY <1>1, <1>2
<1> HIDE DEF q
<1> QED BY <1>1, <1>2, <1>4, <1>5, <1>6

LEMMA RoundedSum ==
    ASSUME NEW n \in Nat, NEW m \in Nat
    PROVE  RoundUp(RoundUp(n) + m) >= RoundUp(n) + RoundUp(m)
<1>1. PICK q \in Nat : RoundUp(n) = q * Page
    BY Rounded
<1>2. PICK l \in Nat : RoundUp(m) = l * Page
    BY Rounded
<1>3. RoundUp(n) + m \in Nat
    BY Rounded
<1>4. PICK k \in Nat : RoundUp(RoundUp(n) + m) = k * Page
    BY <1>3, Rounded
<1>5. /\ RoundUp(n) + m <= RoundUp(RoundUp(n) + m) /\ RoundUp(m) <= m + Page - 1
      /\ RoundUp(n) \in Nat /\ RoundUp(m) \in Nat /\ RoundUp(RoundUp(n) + m) \in Nat
    BY <1>3, Rounded
<1>6. q + l <= k
    <2> SUFFICES ASSUME k <= q + l - 1 PROVE FALSE
        OBVIOUS
    <2>1. k * Page <= (q + l - 1) * Page
        BY Times, Geometry
    <2>2. (q + l - 1) * Page = q * Page + l * Page - Page
        BY Geometry
    <2> QED BY <1>1, <1>2, <1>4, <1>5, <2>1, <2>2, Geometry
<1>7. (q + l) * Page <= k * Page
    BY <1>6, Times, Geometry
<1>8. (q + l) * Page = q * Page + l * Page
    BY Geometry
<1> QED BY <1>1, <1>2, <1>4, <1>5, <1>7, <1>8

LEMMA Residue ==
    ASSUME NEW a \in Int
    PROVE  a % Core \in Addr /\ (a \in Addr => a % Core = a)
BY Geometry, Division DEF Addr

LEMMA LoadType ==
    ASSUME NEW space \in [Addr -> Cells], NEW off \in Int, NEW count, NEW f \in Files, NEW s \in Segments
    PROVE  LoadSeg(space, off, count, f, s) \in [Addr -> Cells]
<1> DEFINE o == off % Core
           n == LowerOf(count, Aout[f].has[s])
<1>1. o \in Nat
    BY Residue, Geometry DEF Addr
<1>2. ASSUME NEW a \in Addr, a >= o PROVE <<f, s, a - o>> \in Cells
    <2>1. a - o \in Addr
        BY <1>1, <1>2, Geometry DEF Addr
    <2> QED BY <2>1 DEF Cells
<1>3. LoadSeg(space, off, count, f, s) = [a \in Addr |-> IF a >= o /\ a < o + n THEN <<f, s, a - o>> ELSE space[a]]
    BY DEF LoadSeg
<1> HIDE DEF o, n
<1> QED BY <1>2, <1>3

(* A whole segment that fits is in its place, and nothing else has changed.  *)
LEMMA LoadReads ==
    ASSUME NEW space \in [Addr -> Cells], NEW f \in Files, NEW s \in Segments,
           NEW off \in Nat, NEW count \in Nat, off + count <= Core, Aout[f].has[s] >= count
    PROVE  /\ \A x \in 0 .. count - 1 : LoadSeg(space, off, count, f, s)[off + x] = <<f, s, x>>
           /\ \A a \in Addr \ (off .. off + count - 1) : LoadSeg(space, off, count, f, s)[a] = space[a]
<1> DEFINE o == off % Core
           n == LowerOf(count, Aout[f].has[s])
<1>1. n = count
    BY FileTypes, Geometry DEF LowerOf
<1>2. LoadSeg(space, off, count, f, s) = [a \in Addr |-> IF a >= o /\ a < o + n THEN <<f, s, a - o>> ELSE space[a]]
    BY DEF LoadSeg
<1>3. CASE count = 0
    <2>1. o \in Nat
        BY Residue, Geometry DEF Addr
    <2> HIDE DEF o, n
    <2> QED BY <1>1, <1>2, <1>3, <2>1, Geometry DEF Addr
<1>4. CASE count # 0
    <2>1. o = off
        <3>1. off \in Addr
            BY <1>4, Geometry DEF Addr
        <3> QED BY <3>1, Residue
    <2>2. ASSUME NEW x \in 0 .. count - 1 PROVE off + x \in Addr /\ off + x >= off /\ off + x < off + count /\ (off + x) - off = x
        BY Geometry DEF Addr
    <2> HIDE DEF o, n
    <2>3. \A x \in 0 .. count - 1 : LoadSeg(space, off, count, f, s)[off + x] = <<f, s, x>>
        BY <1>1, <1>2, <2>1, <2>2
    <2>4. ASSUME NEW a \in Addr \ (off .. off + count - 1) PROVE ~(a >= off /\ a < off + count)
        BY Geometry DEF Addr
    <2> QED BY <1>1, <1>2, <2>1, <2>3, <2>4
<1> QED BY <1>3, <1>4

LEMMA StackType ==
    ASSUME NEW space \in [Addr -> Cells], NEW top, NEW n
    PROVE  SetupStack(space, top, n) \in [Addr -> Cells]
BY DEF SetupStack, Cells

LEMMA ZeroedType == Zeroed \in [Addr -> Cells]
BY DEF Zeroed, Cells

(* FirstBad finds an overlay that is refused if there is one.                *)
LEMMA FirstBadFound ==
    ASSUME NEW f \in Files
    PROVE  /\ FirstBad(f) \in 1 .. Novl + 1
           /\ \A k \in 1 .. FirstBad(f) - 1 : ~BadSize(f, k)
           /\ FirstBad(f) > Novl => \A j \in 1 .. Novl : ~BadSize(f, j)
<1> DEFINE T == {j \in 1 .. Novl : BadSize(f, j)} \cup {Novl + 1}
<1>1. T \in SUBSET Nat /\ Novl + 1 \in T /\ T \subseteq 1 .. Novl + 1
    BY Geometry
<1>2. \E x \in T : \A y \in T : x <= y
    <2> DEFINE R == {ss \in Nat \X Nat : ss[1] < ss[2]}
    <2>1. IsWellFoundedOn(R, Nat)
        BY NatLessThanWellFounded DEF OpToRel
    <2>2. PICK x \in T : \A y \in T : <<y, x>> \notin R
        <3> HIDE DEF T, R
        <3> QED BY <1>1, <2>1, WFMin, Zenon
    <2>3. ASSUME NEW y \in T PROVE x <= y
        <3>1. x \in Nat /\ y \in Nat
            BY <1>1
        <3>2. ~(y < x)
            BY <2>2, <3>1
        <3> QED BY <3>1, <3>2, SMT
    <2> QED BY <2>3
<1>3. \E j \in 1 .. Novl + 1 : /\ j <= Novl => BadSize(f, j)
                               /\ \A k \in 1 .. j - 1 : ~BadSize(f, k)
    <2>1. PICK x \in T : \A y \in T : x <= y
        BY <1>2
    <2>2. x \in 1 .. Novl + 1 /\ x \in Nat
        BY <1>1
    <2>3. x <= Novl => BadSize(f, x)
        BY <2>2, Geometry
    <2>4. ASSUME NEW k \in 1 .. x - 1 PROVE ~BadSize(f, k)
        <3>1. k \in 1 .. Novl /\ ~(x <= k)
            BY <2>2, Geometry
        <3> QED BY <2>1, <3>1
    <2> QED BY <2>2, <2>3, <2>4
<1>4. /\ FirstBad(f) \in 1 .. Novl + 1
      /\ \A k \in 1 .. FirstBad(f) - 1 : ~BadSize(f, k)
    BY <1>3 DEF FirstBad
<1>5. ASSUME FirstBad(f) > Novl, NEW j \in 1 .. Novl PROVE j \in 1 .. FirstBad(f) - 1
    BY <1>4, <1>5, Geometry
<1> QED BY <1>4, <1>5

(* Where the parts of a file that is accepted lie.                           *)
LEMMA Places ==
    ASSUME NEW f \in Files
    PROVE  /\ OvBase(f) \in 0 .. Core /\ Aout[f].text <= OvBase(f)
           /\ DataBase(f) \in Nat
           /\ IsOverlay(f) /\ Loadable(f) =>
                  /\ OvBase(f) + Aout[f].max <= Core /\ DataBase(f) <= Core
                  /\ \A j \in 1 .. Novl : Aout[f].siz[j] <= Slot /\ OvBase(f) + Aout[f].siz[j] <= Core
<1>1. Aout[f].text \in Nat /\ Aout[f].text <= Core /\ Aout[f].max \in Nat /\ Core \in Nat
    BY FileTypes, Geometry
<1>2. OvBase(f) \in Nat /\ Aout[f].text <= OvBase(f) /\ OvBase(f) <= Core
    BY <1>1, Rounded DEF OvBase
<1>3. OvBase(f) + Aout[f].max \in Nat
    BY <1>1, <1>2
<1>4. DataBase(f) \in Nat
    BY <1>1, <1>3, Rounded DEF DataBase
<1>5. ASSUME IsOverlay(f), Loadable(f)
      PROVE  /\ OvBase(f) + Aout[f].max <= Core /\ DataBase(f) <= Core
             /\ \A j \in 1 .. Novl : Aout[f].siz[j] <= Slot /\ OvBase(f) + Aout[f].siz[j] <= Core
    <2>1. ~Refused(f)
        BY <1>5 DEF Loadable
    <2>2. OvBase(f) + Aout[f].max <= Core
        BY <1>1, <1>3, <2>1 DEF Refused, WindowTooHigh
    <2>3. DataBase(f) <= Core
        <3>1. RoundUp(OvBase(f) + Aout[f].max) <= Core
            BY <1>3, <2>2, Rounded
        <3>2. DataBase(f) = RoundUp(OvBase(f) + Aout[f].max) \/ DataBase(f) = 0
            BY <1>5 DEF IsOverlay, DataBase
        <3> QED BY <1>1, <3>1, <3>2
    <2>4. ASSUME NEW j \in 1 .. Novl PROVE Aout[f].siz[j] <= Slot /\ OvBase(f) + Aout[f].siz[j] <= Core
        <3>1. FirstBad(f) > Novl
            BY <2>1, FirstBadFound, Geometry DEF Refused
        <3>2. ~BadSize(f, j)
            BY <3>1, FirstBadFound
        <3>3. Aout[f].siz[j] \in Nat
            <4>1. j \in 1 .. MaxOvl
                BY Geometry
            <4> QED BY <4>1, FileTypes, Geometry
        <3> QED BY <1>1, <1>2, <3>2, <3>3, Geometry DEF BadSize
    <2> QED BY <2>2, <2>3, <2>4
<1> QED BY <1>1, <1>2, <1>4, <1>5

-----------------------------------------------------------------------------
(* Types.                                                                    *)

CoreType ==
    /\ M \in [Addr -> Cells] /\ MI \in [Addr -> Cells] /\ Isp \in {"M", "MI"}
    /\ SP \in Addr /\ gbrk \in Addr /\ v1sys \in BOOLEAN
OverlayType ==
    /\ ov_proc \in BOOLEAN /\ ov_sep \in BOOLEAN
    /\ ov_base \in 0 .. Core /\ ov_max \in Addr
    /\ ov_siz \in [1 .. MaxOvl -> Addr] /\ cur_ovno \in 0 .. MaxOvl
    /\ ov_img \in [1 .. MaxOvl -> [0 .. Slot - 1 -> Cells]]
    /\ ov_proc => \A j \in 1 .. MaxOvl : ov_siz[j] <= Slot /\ ov_base + ov_siz[j] <= Core
Frame == [sc_ovno : 0 .. MaxOvl, was : 0 .. MaxOvl, back : BOOLEAN]
Verdict == [file : Files \cup {NoFile}, ok : BOOLEAN]
RestType ==
    /\ kern \in Kerns /\ image \in Files \cup {NoFile}
    /\ sb_depth \in 0 .. 1 /\ halted \in BOOLEAN
    /\ frames \in Seq(Frame) /\ tried \in Verdict

LEMMA TypeParts == TypeOK <=> CoreType /\ OverlayType /\ RestType
BY DEF TypeOK, CoreType, OverlayType, RestType, Frame, Verdict

LEMMA NextParts ==
    ASSUME CoreType', OverlayType', RestType'
    PROVE  TypeOK'
BY DEF TypeOK, CoreType, OverlayType, RestType, Frame, Verdict

LEMMA InitType == Init => TypeOK
<1> SUFFICES ASSUME Init PROVE TypeOK
    OBVIOUS
<1>1. 0 \in Addr /\ 0 \in 0 .. Core /\ 0 \in 0 .. MaxOvl /\ 0 \in 0 .. 1
    BY Geometry DEF Addr
<1>2. CoreType
    BY <1>1, ZeroedType DEF Init, CoreType
<1>3. OverlayType
    <2>1. ZERO \in Cells
        BY DEF Cells
    <2>2. ov_img \in [1 .. MaxOvl -> [0 .. Slot - 1 -> Cells]]
        BY <2>1 DEF Init
    <2> QED BY <1>1, <2>2 DEF Init, OverlayType
<1>4. RestType
    <2>1. frames \in Seq(Frame) /\ tried \in Verdict
        BY DEF Init, NotTried, Verdict
    <2> QED BY <1>1, <2>1 DEF Init, RestType
<1> QED BY <1>2, <1>3, <1>4, TypeParts

(* The sets and places of a load.                                            *)
LEMMA StackPlace ==
    ASSUME NEW n \in 1 .. MaxArgs
    PROVE  V1Top - n \in Addr /\ Core - n \in Addr /\ Core - n >= Core - MaxArgs
BY Geometry DEF Addr

LEMMA LoadedType ==
    ASSUME NEW g \in Files
    PROVE  /\ LoadSeg(Zeroed, 0, Aout[g].text, g, TEXT) \in [Addr -> Cells]
           /\ LoadSeg(Zeroed, 0, Aout[g].data, g, DATA) \in [Addr -> Cells]
           /\ \A space \in [Addr -> Cells] :
                  LoadSeg(space, DataBase(g), Aout[g].data, g, DATA) \in [Addr -> Cells]
           /\ \A count : LoadSeg(Zeroed, V1Base, count, g, FILE) \in [Addr -> Cells]
           /\ (DataBase(g) + Aout[g].data + Aout[g].bss) % Core \in Addr
           /\ (Aout[g].data + Aout[g].bss) % Core \in Addr
<1>1. TEXT \in Segments /\ DATA \in Segments /\ FILE \in Segments
    BY Geometry DEF TEXT, DATA, FILE, Segments
<1>2. DataBase(g) \in Int /\ V1Base \in Int /\ 0 \in Int /\ Aout[g].data \in Int /\ Aout[g].bss \in Int
    BY Places, FileTypes, Geometry
<1>3. DataBase(g) + Aout[g].data + Aout[g].bss \in Int /\ Aout[g].data + Aout[g].bss \in Int
    BY <1>2
<1> QED BY <1>1, <1>2, <1>3, ZeroedType, LoadType, Residue

LEMMA ExecCore ==
    ASSUME TypeOK, NEW f \in Files, ExecV1(f) \/ ExecShared(f) \/ ExecSplit(f) \/ ExecOverlay(f)
    PROVE  CoreType'
<1> DEFINE g == Target(f)
<1>0. g \in Files
    BY TargetFile
<1>1. CoreType
    BY TypeParts
<1> HIDE DEF g
<1>2. CASE ExecV1(f)
    <2>0. PICK n \in 1 .. MaxArgs : \E count :
              /\ M' = SetupStack(LoadSeg(Zeroed, V1Base, count, g, FILE), V1Top, n)
              /\ SP' = V1Top - n
        BY <1>2 DEF ExecV1, g
    <2>1. PICK count :
              /\ M' = SetupStack(LoadSeg(Zeroed, V1Base, count, g, FILE), V1Top, n)
              /\ SP' = V1Top - n
        BY <2>0
    <2>2. M' \in [Addr -> Cells] /\ SP' \in Addr
        BY <1>0, <2>1, LoadedType, StackType, StackPlace
    <2>3. v1sys' = TRUE /\ Isp' = "M" /\ UNCHANGED <<MI, gbrk>>
        BY <1>2 DEF ExecV1
    <2> QED BY <1>1, <2>2, <2>3 DEF CoreType
<1>3. CASE ExecShared(f)
    <2>1. PICK n \in 1 .. MaxArgs :
              /\ M' = SetupStack(LoadSeg(LoadSeg(Zeroed, 0, Aout[g].text, g, TEXT),
                                  DataBase(g), Aout[g].data, g, DATA), Core, n)
              /\ SP' = Core - n
        BY <1>3 DEF ExecShared, g
    <2>2. M' \in [Addr -> Cells] /\ SP' \in Addr
        BY <1>0, <2>1, LoadedType, StackType, StackPlace
    <2>3. Isp' = "M" /\ UNCHANGED <<MI, v1sys>> /\ gbrk' = (DataBase(g) + Aout[g].data + Aout[g].bss) % Core
        BY <1>3 DEF ExecShared, g
    <2> QED BY <1>0, <1>1, <2>2, <2>3, LoadedType DEF CoreType
<1>4. CASE ExecSplit(f)
    <2>1. PICK n \in 1 .. MaxArgs :
              /\ M' = SetupStack(LoadSeg(Zeroed, 0, Aout[g].data, g, DATA), Core, n)
              /\ SP' = Core - n
        BY <1>4 DEF ExecSplit, g
    <2>2. M' \in [Addr -> Cells] /\ SP' \in Addr
        BY <1>0, <2>1, LoadedType, StackType, StackPlace
    <2>3. /\ Isp' = "MI" /\ UNCHANGED v1sys /\ gbrk' = (Aout[g].data + Aout[g].bss) % Core
          /\ MI' = LoadSeg(Zeroed, 0, Aout[g].text, g, TEXT)
        BY <1>4 DEF ExecSplit, g
    <2> QED BY <1>0, <1>1, <2>2, <2>3, LoadedType DEF CoreType
<1>5. CASE ExecOverlay(f)
    <2> DEFINE text == LoadSeg(Zeroed, 0, Aout[g].text, g, TEXT)
    <2>1. PICK n \in 1 .. MaxArgs, sep \in BOOLEAN :
              /\ M' = SetupStack(LoadSeg(IF sep THEN Zeroed ELSE text,
                                     DataBase(g), Aout[g].data, g, DATA), Core, n)
              /\ SP' = Core - n
              /\ Isp' = (IF sep THEN "MI" ELSE "M")
              /\ MI' = (IF sep THEN text ELSE MI)
              /\ UNCHANGED v1sys /\ gbrk' = (DataBase(g) + Aout[g].data + Aout[g].bss) % Core
        BY <1>5 DEF ExecOverlay, g
    <2>2. text \in [Addr -> Cells]
        BY <1>0, LoadedType
    <2> HIDE DEF text
    <2>3. (IF sep THEN Zeroed ELSE text) \in [Addr -> Cells]
        BY <2>2, ZeroedType
    <2>4. M' \in [Addr -> Cells] /\ SP' \in Addr
        BY <1>0, <2>1, <2>3, LoadedType, StackType, StackPlace
    <2> QED BY <1>0, <1>1, <2>1, <2>2, <2>4, LoadedType DEF CoreType
<1> QED BY <1>2, <1>3, <1>4, <1>5

LEMMA HeaderType ==
    ASSUME NEW g \in Files
    PROVE  /\ HeaderSizes(g) \in [1 .. MaxOvl -> Addr]
           /\ \A j \in 1 .. MaxOvl : HeaderSizes(g)[j] = IF j <= Novl THEN Aout[g].siz[j] ELSE 0
           /\ Aout[g].max \in Addr /\ OvBase(g) \in 0 .. Core
<1>1. \A j \in 1 .. MaxOvl : Aout[g].siz[j] \in Addr
    BY FileTypes DEF Addr
<1>2. 0 \in Addr
    BY Geometry DEF Addr
<1> QED BY <1>1, <1>2, FileTypes, Places DEF HeaderSizes, Addr

LEMMA OverlayLoadType ==
    ASSUME NEW g \in Files, NEW j \in 1 .. MaxOvl, NEW old \in [0 .. Slot - 1 -> Cells]
    PROVE  /\ LoadOverlay(old, g, j) \in [0 .. Slot - 1 -> Cells]
           /\ Aout[g].siz[j] <= Slot /\ Aout[g].has[j] >= Aout[g].siz[j] =>
                  \A x \in 0 .. Aout[g].siz[j] - 1 : LoadOverlay(old, g, j)[x] = <<g, j, x>>
<1> DEFINE n == LowerOf(Aout[g].siz[j], Aout[g].has[j])
<1>1. /\ j \in Segments /\ Aout[g].siz[j] \in Nat /\ Aout[g].has[j] \in Nat
      /\ Aout[g].has[j] <= Core /\ Aout[g].siz[j] < Core
    <2>1. j \in Segments
        BY Geometry DEF Segments, FILE
    <2> QED BY <2>1, FileTypes, Geometry
<1>2. n \in Nat /\ n <= Aout[g].siz[j]
    BY <1>1 DEF LowerOf
<1>3. LoadOverlay(old, g, j) = [x \in 0 .. Slot - 1 |-> IF x < n THEN <<g, j, x>> ELSE old[x]]
    BY DEF LoadOverlay
<1>4. ASSUME NEW x \in 0 .. Slot - 1, x < n PROVE <<g, j, x>> \in Cells
    <2>1. x \in Addr
        BY <1>1, <1>2, <1>4, Geometry DEF Addr
    <2> QED BY <1>1, <2>1 DEF Cells
<1>5. ASSUME Aout[g].siz[j] <= Slot, Aout[g].has[j] >= Aout[g].siz[j], NEW x \in 0 .. Aout[g].siz[j] - 1
      PROVE  x \in 0 .. Slot - 1 /\ x < n
    <2>1. n = Aout[g].siz[j]
        BY <1>1, <1>5 DEF LowerOf
    <2> QED BY <1>1, <1>5, <2>1, Geometry
<1> HIDE DEF n
<1> QED BY <1>3, <1>4, <1>5

LEMMA ExecOverlays ==
    ASSUME TypeOK, NEW f \in Files,
           ExecV1(f) \/ ExecShared(f) \/ ExecSplit(f) \/ ExecOverlay(f) \/ ExecFails(f)
    PROVE  OverlayType'
<1> DEFINE g == Target(f)
<1>0. g \in Files
    BY TargetFile
<1>1. OverlayType
    BY TypeParts
<1>z. 0 \in 0 .. MaxOvl
    BY Geometry
<1> HIDE DEF g
<1>2. CASE ExecV1(f)
    BY <1>1, <1>2 DEF ExecV1, OverlayType
<1>3. CASE ExecShared(f) \/ ExecSplit(f)
    <2>1. ov_proc' = FALSE /\ ov_sep' = FALSE /\ cur_ovno' = 0 /\ UNCHANGED <<ov_base, ov_max, ov_siz, ov_img>>
        BY <1>3 DEF ExecShared, ExecSplit, NoOverlay
    <2> QED BY <1>1, <1>z, <2>1 DEF OverlayType
<1>4. CASE ExecOverlay(f)
    <2>1. /\ ov_sep' \in BOOLEAN /\ ov_base' = OvBase(g) /\ ov_max' = Aout[g].max
          /\ ov_siz' = HeaderSizes(g) /\ cur_ovno' = 0 /\ ov_proc' = TRUE
          /\ ov_img' = [j \in 1 .. MaxOvl |->
                     IF j <= Novl THEN LoadOverlay(ov_img[j], g, j) ELSE ov_img[j]]
          /\ IsOverlay(g) /\ Loadable(g)
        BY <1>4 DEF ExecOverlay, g
    <2>2. ov_img' \in [1 .. MaxOvl -> [0 .. Slot - 1 -> Cells]]
        BY <1>0, <1>1, <2>1, OverlayLoadType DEF OverlayType
    <2>3. ASSUME NEW j \in 1 .. MaxOvl PROVE ov_siz'[j] <= Slot /\ ov_base' + ov_siz'[j] <= Core
        <3>1. CASE j <= Novl
            <4>1. j \in 1 .. Novl /\ ov_siz'[j] = Aout[g].siz[j]
                BY <1>0, <2>1, <3>1, HeaderType
            <4> QED BY <1>0, <2>1, <4>1, Places
        <3>2. CASE ~(j <= Novl)
            <4>1. ov_siz'[j] = 0
                BY <1>0, <2>1, <3>2, HeaderType
            <4> QED BY <1>0, <2>1, <4>1, Places, Geometry
        <3> QED BY <3>1, <3>2
    <2> QED BY <1>0, <1>z, <2>1, <2>2, <2>3, HeaderType DEF OverlayType
<1>5. CASE ExecFails(f)
    <2>1. ov_img' = ov_img /\ (UNCHANGED overlay \/ PartlyRead(g))
        BY <1>5 DEF ExecFails, g
    <2>2. CASE UNCHANGED overlay
        BY <1>1, <2>1, <2>2 DEF overlay, OverlayType
    <2>3. CASE PartlyRead(g)
        <3>1. ov_proc' = FALSE /\ cur_ovno' = 0 /\ ov_max' \in {ov_max, Aout[g].max}
            BY <2>3 DEF PartlyRead
        <3>2. ov_sep' \in BOOLEAN /\ ov_base' \in {ov_base, OvBase(g)}
            BY <1>1, <2>3 DEF PartlyRead, OverlayType
        <3>3. ov_siz' \in [1 .. MaxOvl -> Addr]
            <4>1. \A j \in 1 .. MaxOvl : Aout[g].siz[j] \in Addr
                BY <1>0, FileTypes DEF Addr
            <4>2. ov_siz' = ov_siz \/ ov_siz' = [j \in 1 .. MaxOvl |-> IF j <= FirstBad(g) THEN Aout[g].siz[j] ELSE ov_siz[j]]
                BY <2>3 DEF PartlyRead
            <4>3. ov_siz \in [1 .. MaxOvl -> Addr]
                BY <1>1 DEF OverlayType
            <4> QED BY <4>1, <4>2, <4>3
        <3>4. ov_max' \in Addr /\ ov_base' \in 0 .. Core
            BY <1>0, <1>1, <3>1, <3>2, HeaderType DEF OverlayType
        <3>5. ov_img' \in [1 .. MaxOvl -> [0 .. Slot - 1 -> Cells]]
            BY <1>1, <2>1 DEF OverlayType
        <3> QED BY <1>z, <3>1, <3>2, <3>3, <3>4, <3>5 DEF OverlayType
    <2> QED BY <2>1, <2>2, <2>3
<1> QED BY <1>2, <1>3, <1>4, <1>5

LEMMA ExecRest ==
    ASSUME TypeOK, NEW f \in Files,
           ExecV1(f) \/ ExecShared(f) \/ ExecSplit(f) \/ ExecOverlay(f) \/ ExecFails(f)
    PROVE  RestType'
<1>0. Target(f) \in Files
    BY TargetFile
<1>1. RestType /\ DepthAfter(f) \in 0 .. 1
    <2>1. RestType /\ 0 \in 0 .. 1
        BY TypeParts
    <2> QED BY <2>1 DEF RestType, DepthAfter
<1>2. [file |-> f, ok |-> TRUE] \in Verdict /\ [file |-> f, ok |-> FALSE] \in Verdict
    BY DEF Verdict
<1>3. CASE Started(f, Target(f))
    <2>1. frames' \in Seq(Frame)
        BY <1>3 DEF Started
    <2> QED BY <1>0, <1>1, <1>2, <1>3, <2>1 DEF Started, RestType
<1>4. CASE ExecFails(f)
    BY <1>1, <1>2, <1>4 DEF ExecFails, RestType
<1> QED BY <1>3, <1>4 DEF ExecV1, ExecShared, ExecSplit, ExecOverlay

LEMMA WindowType ==
    ASSUME OverlayType, ov_proc, NEW space \in [Addr -> Cells], NEW n, HasOverlay(n)
    PROVE  /\ Window(space, n) \in [Addr -> Cells] /\ n \in 0 .. MaxOvl /\ n \in 1 .. MaxOvl
           /\ \A x \in 0 .. ov_siz[n] - 1 :
                  ov_base + x \in Addr /\ Window(space, n)[ov_base + x] = ov_img[n][x]
           /\ \A x \in ov_siz[n] .. ov_max - 1 :
                  ov_base + x \in Addr => Window(space, n)[ov_base + x] = ZERO
           /\ \A a \in Addr : a < ov_base \/ (a >= ov_base + ov_siz[n] /\ a >= ov_base + ov_max)
                  => Window(space, n)[a] = space[a]
<1>1. n \in 1 .. MaxOvl /\ n \in 0 .. MaxOvl
    BY Geometry DEF HasOverlay
<1>2. /\ ov_siz[n] \in Nat /\ ov_siz[n] <= Slot /\ ov_base \in Nat /\ ov_base + ov_siz[n] <= Core
      /\ ov_max \in Nat /\ Slot \in Nat /\ Core \in Nat
    <2>1. ov_siz[n] \in Addr /\ ov_max \in Addr
        BY <1>1 DEF OverlayType
    <2> QED BY <1>1, <2>1, Geometry DEF OverlayType, Addr
<1>3. ZERO \in Cells /\ ov_img[n] \in [0 .. Slot - 1 -> Cells]
    BY <1>1 DEF OverlayType, Cells
<1>4. ASSUME NEW a \in Addr, a >= ov_base, a < ov_base + ov_siz[n]
      PROVE  a - ov_base \in 0 .. Slot - 1
    BY <1>2, <1>4 DEF Addr
<1>5. Window(space, n) =
          [a \in Addr |-> IF a >= ov_base /\ a < ov_base + ov_siz[n] THEN ov_img[n][a - ov_base]
                  ELSE IF a >= ov_base /\ a < ov_base + ov_max THEN ZERO
                  ELSE space[a]]
    BY DEF Window
<1>6. Window(space, n) \in [Addr -> Cells]
    BY <1>3, <1>4, <1>5
<1>7. ASSUME NEW x \in 0 .. ov_siz[n] - 1
      PROVE  ov_base + x \in Addr /\ Window(space, n)[ov_base + x] = ov_img[n][x]
    <2>1. /\ ov_base + x \in Addr /\ ov_base + x >= ov_base /\ ov_base + x < ov_base + ov_siz[n]
          /\ (ov_base + x) - ov_base = x
        BY <1>2 DEF Addr
    <2> QED BY <1>5, <2>1
<1>8. ASSUME NEW x \in ov_siz[n] .. ov_max - 1, ov_base + x \in Addr
      PROVE  Window(space, n)[ov_base + x] = ZERO
    <2>1. ov_base + x >= ov_base /\ ~(ov_base + x < ov_base + ov_siz[n]) /\ ov_base + x < ov_base + ov_max
        BY <1>2
    <2> QED BY <1>5, <1>8, <2>1
<1>9. ASSUME NEW a \in Addr, a < ov_base \/ (a >= ov_base + ov_siz[n] /\ a >= ov_base + ov_max)
      PROVE  Window(space, n)[a] = space[a]
    <2>1. ~(a >= ov_base /\ a < ov_base + ov_siz[n]) /\ ~(a >= ov_base /\ a < ov_base + ov_max)
        BY <1>2, <1>9 DEF Addr
    <2> QED BY <1>5, <2>1
<1> QED BY <1>1, <1>6, <1>7, <1>8, <1>9

LEMMA Mapping ==
    ASSUME TypeOK, ov_proc, NEW n, HasOverlay(n), MapOverlay(n),
           UNCHANGED <<Isp, SP, gbrk, v1sys, ov_proc, ov_sep, ov_base, ov_max, ov_siz, ov_img>>
    PROVE  CoreType' /\ OverlayType'
<1>1. CoreType /\ OverlayType
    BY TypeParts
<1>2. n \in 0 .. MaxOvl /\ Window(MI, n) \in [Addr -> Cells] /\ Window(M, n) \in [Addr -> Cells]
    BY <1>1, WindowType DEF CoreType
<1>3. M' \in [Addr -> Cells] /\ MI' \in [Addr -> Cells] /\ cur_ovno' = n
    BY <1>1, <1>2 DEF MapOverlay, CoreType
<1> QED BY <1>1, <1>2, <1>3 DEF CoreType, OverlayType

LEMMA NextType ==
    ASSUME TypeOK, [Next]_vars
    PROVE  TypeOK'
<1>0. CoreType /\ OverlayType /\ RestType
    BY TypeParts
<1>n. NotTried \in Verdict
    BY DEF NotTried, Verdict
<1>a. ASSUME UNCHANGED <<overlay, ov_img>> PROVE OverlayType'
    BY <1>0, <1>a DEF OverlayType, overlay
<1>b. ASSUME UNCHANGED core PROVE CoreType'
    BY <1>0, <1>b DEF CoreType, core
<1>c. ASSUME Plain, frames' \in Seq(Frame), halted' \in BOOLEAN PROVE RestType'
    BY <1>0, <1>c, <1>n DEF RestType, Plain
<1>h. frames \in Seq(Frame) /\ halted \in BOOLEAN
    BY <1>0 DEF RestType
<1>1. ASSUME NEW f \in Files,
             ExecV1(f) \/ ExecShared(f) \/ ExecSplit(f) \/ ExecOverlay(f) \/ ExecFails(f)
      PROVE  TypeOK'
    <2>1. ExecFails(f) => UNCHANGED core
        BY DEF ExecFails
    <2>2. CoreType'
        BY <1>1, <1>b, <2>1, ExecCore
    <2> QED BY <1>1, <2>2, ExecOverlays, ExecRest, NextParts
<1>2. ASSUME NEW n \in 1 .. MaxOvl, EmtSwitch(n) PROVE TypeOK'
    <2>1. CoreType' /\ OverlayType'
        BY <1>2, Mapping DEF EmtSwitch
    <2>2. RestType'
        BY <1>2, <1>c, <1>h DEF EmtSwitch
    <2> QED BY <2>1, <2>2, NextParts
<1>3. ASSUME NEW n \in 1 .. MaxOvl, EmtHalts(n) PROVE TypeOK'
    BY <1>3, <1>a, <1>b, <1>c, <1>h, NextParts DEF EmtHalts
<1>4. CASE EmtRts
    BY <1>4, <1>a, <1>b, <1>c, <1>h, NextParts DEF EmtRts
<1>5. ASSUME NEW a \in Breaks, Break(a) PROVE TypeOK'
    <2>1. a \in Addr
        BY GeometryAssumption DEF Addr
    <2>2. gbrk' \in Addr /\ UNCHANGED <<M, MI, Isp, SP, v1sys>>
        BY <1>0, <1>5, <2>1 DEF Break, CoreType
    <2>3. CoreType'
        BY <1>0, <2>2 DEF CoreType
    <2> QED BY <1>5, <1>a, <1>c, <1>h, <2>3, NextParts DEF Break
<1>6. CASE Push
    <2>1. SP \in Nat /\ gbrk \in Nat /\ SP < Core /\ SP > gbrk
        BY <1>0, <1>6, Geometry DEF Push, CoreType, Addr
    <2>2. SP - 1 \in Addr
        BY <2>1, Geometry DEF Addr
    <2>3. M' = [M EXCEPT ![SP - 1] = STACK] /\ SP' = SP - 1 /\ UNCHANGED <<MI, Isp, gbrk, v1sys>>
        BY <1>6 DEF Push
    <2>4. STACK \in Cells
        BY DEF Cells
    <2>5. CoreType'
        BY <1>0, <2>2, <2>3, <2>4 DEF CoreType
    <2> QED BY <1>6, <1>a, <1>c, <1>h, <2>5, NextParts DEF Push
<1>7. CASE Pop
    <2>1. SP \in Nat /\ SP < Core - 1
        BY <1>0, <1>7, Geometry DEF Pop, CoreType, Addr
    <2>2. SP + 1 \in Addr
        BY <2>1, Geometry DEF Addr
    <2>3. CoreType'
        BY <1>0, <1>7, <2>2 DEF Pop, CoreType
    <2> QED BY <1>7, <1>a, <1>c, <1>h, <2>3, NextParts DEF Pop
<1>8. ASSUME NEW a \in Addr, Store(a) PROVE TypeOK'
    <2>1. M' = [M EXCEPT ![a] = GUEST] /\ UNCHANGED <<MI, Isp, SP, gbrk, v1sys>> /\ GUEST \in Cells
        BY <1>8 DEF Store, Cells
    <2>2. CoreType'
        BY <1>0, <2>1 DEF CoreType
    <2> QED BY <1>8, <1>a, <1>c, <1>h, <2>2, NextParts DEF Store
<1>9. CASE Deliver
    <2>1. [sc_ovno |-> ScOvno, was |-> cur_ovno, back |-> FALSE] \in Frame
        BY <1>0, Geometry DEF OverlayType, ScOvno, Frame
    <2>2. frames' \in Seq(Frame)
        BY <1>9, <1>h, <2>1 DEF Deliver
    <2> QED BY <1>9, <1>a, <1>b, <1>c, <1>h, <2>2, NextParts DEF Deliver
<1>10. CASE SigtrampEmt
    <2>1. frames' \in Seq(Frame)
        <3>1. Len(frames) \in 1 .. Len(frames) /\ frames[Len(frames)] \in Frame
            BY <1>10, <1>h DEF SigtrampEmt
        <3>2. [frames[Len(frames)] EXCEPT !.back = TRUE] \in Frame
            BY <3>1 DEF Frame
        <3>3. frames' = [frames EXCEPT ![Len(frames)] = [frames[Len(frames)] EXCEPT !.back = TRUE]]
            BY <1>10 DEF SigtrampEmt
        <3> QED BY <1>h, <3>1, <3>2, <3>3
    <2>2. halted' \in BOOLEAN
        BY <1>10, <1>h DEF SigtrampEmt
    <2>3. \/ UNCHANGED <<M, MI, cur_ovno>>
          \/ ov_proc /\ HasOverlay(frames[Len(frames)].sc_ovno) /\ MapOverlay(frames[Len(frames)].sc_ovno)
        BY <1>10 DEF SigtrampEmt
    <2>4. UNCHANGED <<Isp, SP, gbrk, v1sys, ov_proc, ov_sep, ov_base, ov_max, ov_siz, ov_img>> /\ Plain
        BY <1>10 DEF SigtrampEmt
    <2>5. CoreType' /\ OverlayType'
        <3>1. CASE UNCHANGED <<M, MI, cur_ovno>>
            BY <1>0, <2>4, <3>1 DEF CoreType, OverlayType
        <3> QED BY <2>3, <2>4, <3>1, Mapping
    <2> QED BY <1>c, <2>1, <2>2, <2>4, <2>5, NextParts
<1>11. CASE Sigreturn
    <2>1. frames' \in Seq(Frame)
        <3>1. frames' = SubSeq(frames, 1, Len(frames) - 1) /\ Len(frames) \in Nat /\ frames # <<>>
            BY <1>11, <1>h DEF Sigreturn
        <3> QED BY <1>h, <3>1
    <2> QED BY <1>11, <1>a, <1>b, <1>c, <1>h, <2>1, NextParts DEF Sigreturn
<1>12. CASE UNCHANGED vars
    <2>1. RestType'
        BY <1>0, <1>12, Zenon DEF vars, RestType
    <2> QED BY <1>12, <1>a, <1>b, <2>1, NextParts DEF vars
<1> QED BY <1>1, <1>2, <1>3, <1>4, <1>5, <1>6, <1>7, <1>8, <1>9, <1>10, <1>11, <1>12 DEF Next

(* Every variable keeps its type, and the overlays of a running overlay      *)
(* image stay inside the guest's space and their slots.                      *)
THEOREM ExecTypes == Spec => []TypeOK
BY InitType, NextType, PTL DEF Spec

-----------------------------------------------------------------------------
(* What a load leaves in core.                                               *)

LEMMA WholeParts ==
    ASSUME NEW f \in Files, Whole(f)
    PROVE  /\ Aout[f].has[TEXT] >= Aout[f].text /\ Aout[f].has[DATA] >= Aout[f].data
           /\ \A j \in 1 .. MaxOvl : Aout[f].has[j] >= Aout[f].siz[j]
<1>1. TEXT \in Segments /\ DATA \in Segments /\ DATA # TEXT
    BY Geometry DEF TEXT, DATA, FILE, Segments
<1>2. ASSUME NEW j \in 1 .. MaxOvl PROVE j \in Segments /\ j # TEXT /\ j # DATA /\ j # FILE
    BY Geometry DEF TEXT, DATA, FILE, Segments
<1>3. ASSUME NEW s \in Segments
      PROVE  /\ s = TEXT => Aout[f].has[s] >= Aout[f].text
             /\ s = DATA => Aout[f].has[s] >= Aout[f].data
             /\ s # TEXT /\ s # DATA /\ s # FILE => Aout[f].has[s] >= Aout[f].siz[s]
    <2>1. Aout[f].has[s] >= (CASE s = TEXT -> Aout[f].text [] s = DATA -> Aout[f].data
                                [] s = FILE -> 0 [] OTHER -> Aout[f].siz[s])
        BY DEF Whole
    <2>2. TEXT # DATA /\ TEXT # FILE /\ DATA # FILE
        BY DEF TEXT, DATA, FILE
    <2> QED BY <2>1, <2>2
<1> QED BY <1>1, <1>2, <1>3

(* The end of the text, and of the window, is below the data.                *)
LEMMA Layout ==
    ASSUME NEW f \in Files, Loadable(f), Fits(f), Aout[f].magic # "0405"
    PROVE  /\ DataBase(f) + Aout[f].data + Aout[f].bss <= Core - MaxArgs
           /\ DataBase(f) \in Nat /\ Aout[f].data \in Nat /\ Aout[f].bss \in Nat /\ Aout[f].text \in Nat
           /\ DataEnd(f) = DataBase(f) + Aout[f].data /\ DataEnd(f) \in Nat
           /\ (DataBase(f) + Aout[f].data + Aout[f].bss) % Core >= DataEnd(f)
           /\ Aout[f].text < Core
           /\ ~Split(f) => Aout[f].text <= DataBase(f)
           /\ Aout[f].magic = "0430" =>
                  /\ OvBase(f) + Aout[f].max <= DataBase(f)
                  /\ \A j \in 1 .. MaxOvl : OvBase(f) + Aout[f].siz[j] <= DataBase(f)
<1>1. /\ DataBase(f) \in Nat /\ Aout[f].data \in Nat /\ Aout[f].bss \in Nat /\ Aout[f].text \in Nat
      /\ Aout[f].max \in Nat /\ OvBase(f) \in Nat /\ Aout[f].text < Core /\ Aout[f].text <= OvBase(f)
    BY FileTypes, Places, Geometry
<1>2. DataEnd(f) = DataBase(f) + Aout[f].data /\ DataBase(f) + Aout[f].data + Aout[f].bss <= Core - MaxArgs
    BY DEF Fits, DataEnd
<1>3. (DataBase(f) + Aout[f].data + Aout[f].bss) % Core >= DataEnd(f)
    <2>1. DataBase(f) + Aout[f].data + Aout[f].bss \in Addr
        BY <1>1, <1>2, Geometry DEF Addr
    <2>2. (DataBase(f) + Aout[f].data + Aout[f].bss) % Core = DataBase(f) + Aout[f].data + Aout[f].bss
        BY <2>1, Residue DEF Addr
    <2> QED BY <1>1, <1>2, <2>2
<1>4. OvBase(f) = RoundUp(Aout[f].text) /\ RoundUp(Aout[f].text) \in Nat /\ Aout[f].text <= RoundUp(Aout[f].text)
    BY <1>1, Rounded DEF OvBase
<1>5. ASSUME Aout[f].magic = "0430"
      PROVE  /\ DataBase(f) = RoundUp(OvBase(f) + Aout[f].max)
             /\ OvBase(f) + Aout[f].max <= DataBase(f)
             /\ \A j \in 1 .. MaxOvl : OvBase(f) + Aout[f].siz[j] <= DataBase(f)
    <2>1. DataBase(f) = RoundUp(OvBase(f) + Aout[f].max)
        BY <1>5 DEF DataBase
    <2>2. DataBase(f) >= OvBase(f) + RoundUp(Aout[f].max)
        BY <1>1, <1>4, <2>1, RoundedSum
    <2>3. Aout[f].max <= RoundUp(Aout[f].max) /\ RoundUp(Aout[f].max) \in Nat
        BY <1>1, Rounded
    <2>4. ASSUME NEW j \in 1 .. MaxOvl PROVE OvBase(f) + Aout[f].siz[j] <= DataBase(f)
        <3>1. Aout[f].siz[j] <= RoundUp(Aout[f].max) /\ Aout[f].siz[j] \in Nat
            BY FileTypes, Geometry DEF Fits
        <3> QED BY <1>1, <2>2, <2>3, <3>1
    <2> QED BY <1>1, <2>1, <2>2, <2>3, <2>4
<1>6. ASSUME ~Split(f) PROVE Aout[f].text <= DataBase(f)
    <2>1. Aout[f].magic \in {"0407", "0410", "0430"}
        BY <1>6 DEF Loadable, Binary, Magics, Split
    <2>2. CASE Aout[f].magic = "0407"
        BY <1>1, <2>2 DEF DataBase
    <2>3. CASE Aout[f].magic = "0410"
        BY <1>4, <2>3 DEF DataBase
    <2>4. CASE Aout[f].magic = "0430"
        BY <1>1, <1>5, <2>4
    <2> QED BY <2>1, <2>2, <2>3, <2>4
<1> QED BY <1>1, <1>2, <1>3, <1>5, <1>6

LEMMA DataRead ==
    ASSUME NEW g \in Files, NEW space \in [Addr -> Cells],
           DataBase(g) \in Nat, Aout[g].data \in Nat, DataBase(g) + Aout[g].data <= Core,
           Aout[g].has[DATA] >= Aout[g].data
    PROVE  /\ \A x \in 0 .. Aout[g].data - 1 :
                  LoadSeg(space, DataBase(g), Aout[g].data, g, DATA)[DataBase(g) + x] = <<g, DATA, x>>
           /\ \A a \in Addr \ (DataBase(g) .. DataBase(g) + Aout[g].data - 1) :
                  LoadSeg(space, DataBase(g), Aout[g].data, g, DATA)[a] = space[a]
<1>1. DATA \in Segments
    BY Geometry DEF DATA, FILE, Segments
<1> QED BY <1>1, LoadReads, Zenon

(* The data as loaded, the space below it as it was, the stack above.        *)
LEMMA DataLoaded ==
    ASSUME NEW g \in Files, Loadable(g), Whole(g), Fits(g), Aout[g].magic # "0405",
           NEW space \in [Addr -> Cells], NEW n \in 1 .. MaxArgs
    PROVE  /\ \A x \in 0 .. Aout[g].data - 1 :
                  SetupStack(LoadSeg(space, DataBase(g), Aout[g].data, g, DATA), Core, n)[DataBase(g) + x] = <<g, DATA, x>>
           /\ \A a \in Addr : a < DataBase(g) =>
                  SetupStack(LoadSeg(space, DataBase(g), Aout[g].data, g, DATA), Core, n)[a] = space[a]
<1> DEFINE m == SetupStack(LoadSeg(space, DataBase(g), Aout[g].data, g, DATA), Core, n)
           l == LoadSeg(space, DataBase(g), Aout[g].data, g, DATA)
<1>1. DATA \in Segments
    BY Geometry DEF DATA, FILE, Segments
<1>2. /\ DataBase(g) \in Nat /\ Aout[g].data \in Nat /\ DataBase(g) + Aout[g].data <= Core - MaxArgs
      /\ Core - n >= Core - MaxArgs /\ n \in Nat /\ Core \in Nat
    BY Layout, Geometry
<1>3. /\ \A x \in 0 .. Aout[g].data - 1 : l[DataBase(g) + x] = <<g, DATA, x>>
      /\ \A a \in Addr \ (DataBase(g) .. DataBase(g) + Aout[g].data - 1) : l[a] = space[a]
    <2>1. DataBase(g) + Aout[g].data <= Core
        BY <1>2, Geometry
    <2>2. Aout[g].has[DATA] >= Aout[g].data
        BY WholeParts
    <2>3. DataBase(g) \in Nat /\ Aout[g].data \in Nat
        BY <1>2
    <2> QED BY <2>1, <2>2, <2>3, DataRead
<1> HIDE DEF l
<1>4. \A a \in Addr : a < Core - MaxArgs => m[a] = l[a]
    <2>1. m = [a \in Addr |-> IF a >= Core - n /\ a < Core THEN STACK ELSE l[a]]
        BY DEF SetupStack, l
    <2> HIDE DEF m
    <2>2. ASSUME NEW a \in Addr, a < Core - MaxArgs PROVE ~(a >= Core - n)
        BY <1>2, <2>2, Geometry DEF Addr
    <2> QED BY <2>1, <2>2
<1>5. ASSUME NEW x \in 0 .. Aout[g].data - 1
      PROVE  DataBase(g) + x \in Addr /\ DataBase(g) + x < Core - MaxArgs
    BY <1>2, Geometry DEF Addr
<1>6. ASSUME NEW a \in Addr, a < DataBase(g)
      PROVE  a < Core - MaxArgs /\ a \notin DataBase(g) .. DataBase(g) + Aout[g].data - 1
    BY <1>2, <1>6, Geometry DEF Addr
<1> HIDE DEF m
<1>7. /\ \A x \in 0 .. Aout[g].data - 1 : m[DataBase(g) + x] = <<g, DATA, x>>
      /\ \A a \in Addr : a < DataBase(g) => m[a] = space[a]
    BY <1>3, <1>4, <1>5, <1>6
<1> QED BY <1>7 DEF m

LEMMA TextLoaded ==
    ASSUME NEW g \in Files, Whole(g), NEW t, t = LoadSeg(Zeroed, 0, Aout[g].text, g, TEXT)
    PROVE  \A x \in 0 .. Aout[g].text - 1 : x \in Addr /\ t[x] = <<g, TEXT, x>>
<1>1. TEXT \in Segments /\ Aout[g].text \in Nat /\ Aout[g].text < Core /\ Aout[g].has[TEXT] >= Aout[g].text
    BY FileTypes, WholeParts, Geometry DEF TEXT, FILE, Segments
<1>2. \A x \in 0 .. Aout[g].text - 1 : t[0 + x] = <<g, TEXT, x>>
    <2>1. 0 + Aout[g].text <= Core
        BY <1>1, Geometry
    <2>2. 0 \in Nat /\ Aout[g].text \in Nat /\ Aout[g].has[TEXT] >= Aout[g].text
        BY <1>1
    <2>3. \A x \in 0 .. Aout[g].text - 1 : LoadSeg(Zeroed, 0, Aout[g].text, g, TEXT)[0 + x] = <<g, TEXT, x>>
        BY <1>1, <2>1, <2>2, ZeroedType, LoadReads, Zenon
    <2> QED BY <2>3
<1>3. \A x \in 0 .. Aout[g].text - 1 : 0 + x = x /\ x \in Addr
    BY <1>1, Geometry DEF Addr
<1> QED BY <1>2, <1>3

-----------------------------------------------------------------------------
(* exec.                                                                     *)

Placed == Header /\ Overlays /\ Room /\ TextThere /\ DataThere /\ Mapped

LEMMA Entering ==
    ASSUME TypeOK, NEW f \in Files, ExecV1(f) \/ ExecShared(f) \/ ExecSplit(f) \/ ExecOverlay(f)
    PROVE  /\ Target(f) \in Files /\ image' = Target(f) /\ Entered' /\ kern' = kern /\ frames' = <<>>
           /\ Loadable(Target(f)) /\ (V1Image(image))' = V1Image(Target(f))
           /\ Late' = ~V1Image(Target(f)) /\ (Late' => Aout[Target(f)].magic # "0405")
           /\ Fits(image)' = Fits(Target(f)) /\ Whole(image)' = Whole(Target(f))
<1>1. Target(f) \in Files /\ Loadable(Target(f)) /\ Started(f, Target(f))
    BY TargetFile, EnteredIsLoadable
<1>2. image' = Target(f) /\ kern' = kern /\ frames' = <<>> /\ Target(f) # NoFile
    BY <1>1, FileTypes DEF Started
<1>3. V1Image(image)' = V1Image(Target(f))
    BY <1>2 DEF V1Image
<1>4. Fits(image)' = Fits(Target(f)) /\ Whole(image)' = Whole(Target(f))
    BY <1>2, <1>3 DEF Fits, Whole
<1> QED BY <1>1, <1>2, <1>3, <1>4 DEF Entered, Late, V1Image

LEMMA V1Placed ==
    ASSUME TypeOK, NEW f \in Files, ExecV1(f)
    PROVE  Placed'
<1>1. ~Late' /\ v1sys' = TRUE /\ ov_proc' = FALSE
    BY Entering DEF ExecV1
<1>2. Loadable(image')
    BY Entering
<1> QED BY <1>1, <1>2 DEF Placed, Header, Overlays, Room, TextThere, DataThere, Mapped

LEMMA SharedPlaced ==
    ASSUME TypeOK, NEW f \in Files, ExecShared(f)
    PROVE  Placed'
<1> DEFINE g == Target(f)
           t == LoadSeg(Zeroed, 0, Aout[g].text, g, TEXT)
<1>1. g \in Files /\ Loadable(g) /\ image' = g /\ Late' /\ Fits(image)' = Fits(g) /\ Whole(image)' = Whole(g)
    BY Entering DEF ExecShared
<1>2. Aout[g].magic \in {"0407", "0410"} /\ Isp' = "M" /\ ov_proc' = FALSE /\ cur_ovno' = 0
      /\ gbrk' = (DataBase(g) + Aout[g].data + Aout[g].bss) % Core
    BY DEF ExecShared, NoOverlay
<1>3. PICK n \in 1 .. MaxArgs :
          M' = SetupStack(LoadSeg(t, DataBase(g), Aout[g].data, g, DATA), Core, n)
    BY DEF ExecShared
<1>4. t \in [Addr -> Cells] /\ (Whole(g) => \A x \in 0 .. Aout[g].text - 1 : x \in Addr /\ t[x] = <<g, TEXT, x>>)
    BY <1>1, LoadedType, TextLoaded
<1> HIDE DEF g, t
<1>5. Header' /\ Overlays' /\ Mapped'
    BY <1>1, <1>2 DEF Header, Overlays, Mapped, Split
<1>b. Aout[g].magic # "0405"
    BY <1>2
<1>6. Room'
    <2>1. Fits(g) => gbrk' >= DataEnd(g)
        BY <1>1, <1>2, <1>b, Layout
    <2> QED BY <1>1, <2>1 DEF Room
<1>7. ASSUME Whole(g), Fits(g)
      PROVE  /\ \A x \in 0 .. Aout[g].text - 1 : M'[x] = <<g, TEXT, x>>
             /\ \A x \in 0 .. Aout[g].data - 1 : M'[DataBase(g) + x] = <<g, DATA, x>>
    <2>1. /\ \A x \in 0 .. Aout[g].data - 1 : M'[DataBase(g) + x] = <<g, DATA, x>>
          /\ \A a \in Addr : a < DataBase(g) => M'[a] = t[a]
        BY <1>1, <1>3, <1>4, <1>7, <1>b, DataLoaded, Zenon
    <2>2. Aout[g].text <= DataBase(g) /\ DataBase(g) \in Nat /\ Aout[g].text \in Nat
        BY <1>1, <1>2, <1>7, Layout DEF Split
    <2>3. \A x \in 0 .. Aout[g].text - 1 : x < DataBase(g)
        BY <2>2
    <2> QED BY <1>4, <1>7, <2>1, <2>3
<1>8. TextThere' /\ DataThere'
    <2>1. TextThere'
        <3> SUFFICES ASSUME Whole(g), Fits(g), NEW x \in 0 .. Aout[g].text - 1 PROVE TextIn'[x] = <<g, TEXT, x>>
            BY <1>1 DEF TextThere
        <3> QED BY <1>2, <1>7 DEF TextIn
    <2>2. DataThere'
        <3> SUFFICES ASSUME Whole(g), Fits(g), NEW x \in 0 .. Aout[g].data - 1
                     PROVE  M'[DataBase(g) + x] \in {GUEST, <<g, DATA, x>>}
            BY <1>1 DEF DataThere
        <3> QED BY <1>7
    <2> QED BY <2>1, <2>2
<1> QED BY <1>5, <1>6, <1>8 DEF Placed

LEMMA SplitPlaced ==
    ASSUME TypeOK, NEW f \in Files, ExecSplit(f)
    PROVE  Placed'
<1> DEFINE g == Target(f)
<1>0. Aout[g].magic = "0411"
    BY DEF ExecSplit
<1>1. g \in Files /\ Loadable(g) /\ image' = g /\ Late' /\ DataBase(g) = 0
      /\ Fits(image)' = Fits(g) /\ Whole(image)' = Whole(g)
    BY <1>0, Entering DEF V1Image, DataBase
<1>2. Isp' = "MI" /\ ov_proc' = FALSE /\ cur_ovno' = 0 /\ MI' = LoadSeg(Zeroed, 0, Aout[g].text, g, TEXT)
      /\ gbrk' = (Aout[g].data + Aout[g].bss) % Core
    BY DEF ExecSplit, NoOverlay
<1>3. PICK n \in 1 .. MaxArgs :
          M' = SetupStack(LoadSeg(Zeroed, 0, Aout[g].data, g, DATA), Core, n)
    BY DEF ExecSplit
<1>4. Whole(g) => \A x \in 0 .. Aout[g].text - 1 : MI'[x] = <<g, TEXT, x>>
    BY <1>1, <1>2, TextLoaded
<1> HIDE DEF g
<1>5. Header' /\ Overlays' /\ Mapped'
    BY <1>0, <1>1, <1>2 DEF Header, Overlays, Mapped, Split
<1>b. Aout[g].magic # "0405"
    BY <1>0
<1>6. Room'
    <2>0. DataBase(g) = 0
        BY <1>1
    <2>1. Aout[g].data \in Nat /\ Aout[g].bss \in Nat
        BY <1>1, FileTypes, Geometry
    <2>2. DataBase(g) + Aout[g].data + Aout[g].bss = Aout[g].data + Aout[g].bss
        BY <2>0, <2>1
    <2>3. Fits(g) => gbrk' >= DataEnd(g)
        BY <1>1, <1>2, <1>b, <2>2, Layout
    <2> QED BY <1>1, <2>3 DEF Room
<1>7. Whole(g) /\ Fits(g) => \A x \in 0 .. Aout[g].data - 1 : M'[DataBase(g) + x] = <<g, DATA, x>>
    BY <1>1, <1>3, <1>b, ZeroedType, DataLoaded, Zenon
<1>8. TextThere' /\ DataThere'
    <2>1. TextThere'
        <3> SUFFICES ASSUME Whole(g), Fits(g), NEW x \in 0 .. Aout[g].text - 1 PROVE TextIn'[x] = <<g, TEXT, x>>
            BY <1>1 DEF TextThere
        <3> QED BY <1>2, <1>4, <1>7 DEF TextIn
    <2>2. DataThere'
        <3> SUFFICES ASSUME Whole(g), Fits(g), NEW x \in 0 .. Aout[g].data - 1
                     PROVE  M'[DataBase(g) + x] \in {GUEST, <<g, DATA, x>>}
            BY <1>1 DEF DataThere
        <3> QED BY <1>7
    <2> QED BY <2>1, <2>2
<1> QED BY <1>5, <1>6, <1>8 DEF Placed

LEMMA OverlayPlaced ==
    ASSUME TypeOK, NEW f \in Files, ExecOverlay(f)
    PROVE  Placed'
<1> DEFINE g == Target(f)
           t == LoadSeg(Zeroed, 0, Aout[g].text, g, TEXT)
           sep == Aout[g].magic = "0431"
<1>0. Aout[g].magic \in {"0430", "0431"}
    BY DEF ExecOverlay, IsOverlay
<1>1. g \in Files /\ Loadable(g) /\ image' = g /\ Late' /\ Fits(image)' = Fits(g) /\ Whole(image)' = Whole(g)
    BY <1>0, Entering DEF V1Image
<1>2. /\ ov_sep' = sep /\ ov_base' = OvBase(g) /\ ov_max' = Aout[g].max
      /\ ov_siz' = HeaderSizes(g) /\ cur_ovno' = 0 /\ ov_proc' = TRUE
      /\ ov_img' = [j \in 1 .. MaxOvl |->
                     IF j <= Novl THEN LoadOverlay(ov_img[j], g, j) ELSE ov_img[j]]
      /\ Isp' = (IF sep THEN "MI" ELSE "M")
      /\ MI' = (IF sep THEN t ELSE MI)
      /\ gbrk' = (DataBase(g) + Aout[g].data + Aout[g].bss) % Core
    BY DEF ExecOverlay
<1>3. PICK n \in 1 .. MaxArgs :
          M' = SetupStack(LoadSeg(IF sep THEN Zeroed ELSE t, DataBase(g), Aout[g].data, g, DATA), Core, n)
    BY DEF ExecOverlay
<1>4. t \in [Addr -> Cells] /\ (Whole(g) => \A x \in 0 .. Aout[g].text - 1 : x \in Addr /\ t[x] = <<g, TEXT, x>>)
    BY <1>1, LoadedType, TextLoaded
<1> HIDE DEF g, t
<1>5. Header' /\ Mapped'
    BY <1>0, <1>1, <1>2 DEF Header, Mapped, Split, IsOverlay
<1>b. Aout[g].magic # "0405"
    BY <1>0
<1>6. Room'
    <2>1. Fits(g) => gbrk' >= DataEnd(g)
        BY <1>1, <1>2, <1>b, Layout
    <2> QED BY <1>1, <2>1 DEF Room
<1>9. Overlays'
    <2> SUFFICES ASSUME Whole(g), NEW j \in 1 .. Novl, NEW x \in 0 .. Aout[g].siz[j] - 1
                 PROVE  ov_img'[j][x] = <<g, j, x>>
        BY <1>1 DEF Overlays
    <2>1. j \in 1 .. MaxOvl /\ j <= Novl
        BY Geometry
    <2>2. ov_img[j] \in [0 .. Slot - 1 -> Cells]
        BY <2>1 DEF TypeOK
    <2>3. Aout[g].siz[j] <= Slot /\ Aout[g].has[j] >= Aout[g].siz[j]
        BY <1>0, <1>1, <2>1, Places, WholeParts DEF IsOverlay
    <2> QED BY <1>1, <1>2, <2>1, <2>2, <2>3, OverlayLoadType
<1>7. ASSUME Whole(g), Fits(g)
      PROVE  /\ ~sep => \A x \in 0 .. Aout[g].text - 1 : M'[x] = <<g, TEXT, x>>
             /\ \A x \in 0 .. Aout[g].data - 1 : M'[DataBase(g) + x] = <<g, DATA, x>>
    <2>0. (IF sep THEN Zeroed ELSE t) \in [Addr -> Cells]
        BY <1>4, ZeroedType
    <2>1. /\ \A x \in 0 .. Aout[g].data - 1 : M'[DataBase(g) + x] = <<g, DATA, x>>
          /\ \A a \in Addr : a < DataBase(g) => M'[a] = (IF sep THEN Zeroed ELSE t)[a]
        BY <1>1, <1>3, <1>7, <1>b, <2>0, DataLoaded, Zenon
    <2>2. CASE ~sep
        <3>1. Aout[g].text <= DataBase(g) /\ DataBase(g) \in Nat /\ Aout[g].text \in Nat
            BY <1>0, <1>1, <1>7, <2>2, Layout DEF Split
        <3>2. \A x \in 0 .. Aout[g].text - 1 : x < DataBase(g)
            BY <3>1
        <3> QED BY <1>4, <1>7, <2>1, <2>2, <3>2
    <2> QED BY <2>1, <2>2
<1>8. TextThere' /\ DataThere'
    <2>1. TextThere'
        <3> SUFFICES ASSUME Whole(g), Fits(g), NEW x \in 0 .. Aout[g].text - 1 PROVE TextIn'[x] = <<g, TEXT, x>>
            BY <1>1 DEF TextThere
        <3> QED BY <1>2, <1>4, <1>7 DEF TextIn
    <2>2. DataThere'
        <3> SUFFICES ASSUME Whole(g), Fits(g), NEW x \in 0 .. Aout[g].data - 1
                     PROVE  M'[DataBase(g) + x] \in {GUEST, <<g, DATA, x>>}
            BY <1>1 DEF DataThere
        <3> QED BY <1>7
    <2> QED BY <2>1, <2>2
<1> QED BY <1>5, <1>6, <1>8, <1>9 DEF Placed

-----------------------------------------------------------------------------
(* The running image.                                                        *)

(* A step of the guest, or of its handler: the image and what was read for   *)
(* it are as they were.                                                      *)
Kept == UNCHANGED <<kern, image, Isp, v1sys, ov_proc, ov_sep, ov_base, ov_max, ov_siz, ov_img>>

LEMMA SameImage ==
    ASSUME Kept
    PROVE  /\ Entered' = Entered /\ Late' = Late /\ V1Image(image)' = V1Image(image)
           /\ Fits(image)' = Fits(image) /\ Whole(image)' = Whole(image)
           /\ \A n : HasOverlay(n)' = HasOverlay(n)
<1>1. V1Image(image)' = V1Image(image)
    BY DEF V1Image, Kept
<1>2. Fits(image)' = Fits(image) /\ Whole(image)' = Whole(image)
    BY <1>1 DEF Fits, Whole, Kept
<1> QED BY <1>1, <1>2 DEF Entered, Late, HasOverlay, Kept

LEMMA ImageType ==
    ASSUME TypeOK, Header, Entered
    PROVE  image \in Files /\ Loadable(image) /\ (Late => Aout[image].magic # "0405")
<1>1. image \in Files \cup {NoFile}
    BY DEF TypeOK
<1> QED BY <1>1 DEF Header, Entered, Late, V1Image

(* Nothing of the header or the break moves: what the cells hold decides.    *)
LEMMA StillPlaced ==
    ASSUME Placed, Kept, UNCHANGED <<M, MI, gbrk, cur_ovno>>
    PROVE  Placed'
<1>1. /\ Entered' = Entered /\ Late' = Late
      /\ Fits(image)' = Fits(image) /\ Whole(image)' = Whole(image)
      /\ \A n : HasOverlay(n)' = HasOverlay(n)
    BY SameImage
<1>2. Header' /\ Overlays' /\ Room'
    BY <1>1 DEF Placed, Kept, Header, Overlays, Room
<1>3. TextThere' /\ DataThere'
    BY <1>1 DEF Placed, Kept, TextThere, DataThere, TextIn
<1>4. Mapped'
    BY <1>1 DEF Placed, Kept, Mapped, WindowIn
<1> QED BY <1>2, <1>3, <1>4 DEF Placed

(* The window of an image whose text shares the space with its data ends     *)
(* below the data, and starts above the text.                                *)
LEMMA WindowPlace ==
    ASSUME TypeOK, Header, ov_proc, Fits(image)
    PROVE  /\ image \in Files /\ Late /\ Loadable(image) /\ Aout[image].magic # "0405" /\ IsOverlay(image)
           /\ ov_base = OvBase(image) /\ ov_max = Aout[image].max /\ ov_siz = HeaderSizes(image)
           /\ ov_base \in Nat /\ ov_max \in Nat /\ ov_base + ov_max <= Core
           /\ Aout[image].text \in Nat /\ Aout[image].text <= ov_base /\ DataBase(image) \in Nat
           /\ TextIn = WindowIn
           /\ ~ov_sep => /\ Isp = "M" /\ ov_base + ov_max <= DataBase(image)
                         /\ \A j \in 1 .. MaxOvl : ov_base + Aout[image].siz[j] <= DataBase(image)
           /\ \A n : HasOverlay(n) => /\ n \in 1 .. Novl /\ n \in 1 .. MaxOvl
                                      /\ ov_siz[n] = Aout[image].siz[n] /\ ov_siz[n] \in Nat
<1>1. /\ image \in Files /\ Late /\ Loadable(image) /\ Aout[image].magic # "0405" /\ IsOverlay(image)
      /\ ov_base = OvBase(image) /\ ov_max = Aout[image].max /\ ov_siz = HeaderSizes(image)
      /\ ov_sep = (Aout[image].magic = "0431") /\ Isp = IF Split(image) THEN "MI" ELSE "M"
    <2>1. Late /\ Entered
        BY DEF Header, Late
    <2> QED BY <2>1, ImageType DEF Header
<1>2. Aout[image].magic \in {"0430", "0431"} /\ (Split(image) <=> Aout[image].magic = "0431")
    BY <1>1 DEF IsOverlay, Split
<1>3. TextIn = WindowIn
    BY <1>1, <1>2 DEF TextIn, WindowIn
<1>4. /\ ov_base \in Nat /\ ov_max \in Nat /\ ov_base + ov_max <= Core
      /\ Aout[image].text \in Nat /\ Aout[image].text <= ov_base /\ DataBase(image) \in Nat
    BY <1>1, Places, FileTypes, Geometry
<1>5. ASSUME ~ov_sep
      PROVE  /\ Isp = "M" /\ ov_base + ov_max <= DataBase(image)
             /\ \A j \in 1 .. MaxOvl : ov_base + Aout[image].siz[j] <= DataBase(image)
    <2>1. Aout[image].magic = "0430" /\ ~Split(image)
        BY <1>1, <1>2, <1>5
    <2> QED BY <1>1, <2>1, Layout
<1>6. ASSUME NEW n, HasOverlay(n)
      PROVE  n \in 1 .. Novl /\ n \in 1 .. MaxOvl /\ ov_siz[n] = Aout[image].siz[n] /\ ov_siz[n] \in Nat
    <2>1. n \in 1 .. MaxOvl /\ ov_siz[n] > 0 /\ ov_siz[n] = IF n <= Novl THEN Aout[image].siz[n] ELSE 0
        BY <1>1, <1>6, HeaderType DEF HasOverlay
    <2>2. n <= Novl
        BY <2>1
    <2>3. n \in 1 .. Novl /\ Aout[image].siz[n] \in Nat
        BY <1>1, <2>1, <2>2, FileTypes, Geometry
    <2> QED BY <2>1, <2>2, <2>3
<1> QED BY <1>1, <1>3, <1>4, <1>5, <1>6

(* The EMT: the window changes, and nothing else.                            *)
LEMMA RemapPlaced ==
    ASSUME TypeOK, Placed, Kept, ov_proc, NEW n, HasOverlay(n), MapOverlay(n), gbrk' = gbrk
    PROVE  Placed'
<1>0. OverlayType /\ M \in [Addr -> Cells] /\ MI \in [Addr -> Cells]
    BY TypeParts DEF CoreType
<1>1. /\ Entered' = Entered /\ Late' = Late
      /\ Fits(image)' = Fits(image) /\ Whole(image)' = Whole(image)
      /\ HasOverlay(n)' = HasOverlay(n) /\ cur_ovno' = n /\ UNCHANGED <<kern, image, Isp, v1sys, ov_proc, ov_sep, ov_base, ov_max, ov_siz, ov_img>>
    BY SameImage DEF Kept, MapOverlay
<1>2. Header' /\ Overlays' /\ Room'
    BY <1>1 DEF Placed, Header, Overlays, Room
<1>3. ASSUME Whole(image), Fits(image) PROVE TextThere' /\ DataThere' /\ Mapped'
    <2>1. /\ image \in Files /\ Late /\ Aout[image].magic # "0405" /\ IsOverlay(image) /\ Loadable(image)
          /\ ov_base \in Nat /\ ov_max \in Nat /\ ov_base + ov_max <= Core
          /\ Aout[image].text \in Nat /\ Aout[image].text <= ov_base /\ DataBase(image) \in Nat
          /\ n \in 1 .. Novl /\ n \in 1 .. MaxOvl /\ ov_siz[n] = Aout[image].siz[n] /\ ov_siz[n] \in Nat
          /\ TextIn = WindowIn
        BY <1>3, WindowPlace DEF Placed
    <2>a. ~ov_sep => ov_base + ov_max <= DataBase(image) /\ ov_base + ov_siz[n] <= DataBase(image)
        BY <1>3, <2>1, WindowPlace DEF Placed
    <2>2. WindowIn' = Window(WindowIn, n) /\ (ov_sep => M' = M) /\ (~ov_sep => M' = WindowIn') /\ TextIn' = WindowIn'
        <3>1. WindowIn' = Window(WindowIn, n) /\ (ov_sep => M' = M) /\ (~ov_sep => M' = WindowIn')
            BY <1>1 DEF MapOverlay, WindowIn
        <3>2. ov_sep <=> Isp = "MI"
            <4>1. Isp = (IF Split(image) THEN "MI" ELSE "M") /\ ov_sep = (Aout[image].magic = "0431")
                BY <2>1 DEF Placed, Header
            <4>2. Split(image) <=> Aout[image].magic = "0431"
                BY <2>1 DEF IsOverlay, Split
            <4> QED BY <4>1, <4>2
        <3> QED BY <1>1, <3>1, <3>2 DEF TextIn, WindowIn
    <2>3. WindowIn \in [Addr -> Cells]
        BY <1>0 DEF WindowIn
    <2>4. /\ \A x \in 0 .. ov_siz[n] - 1 : WindowIn'[ov_base + x] = ov_img[n][x]
          /\ \A x \in ov_siz[n] .. ov_max - 1 : ov_base + x \in Addr => WindowIn'[ov_base + x] = ZERO
          /\ \A a \in Addr : a < ov_base \/ (a >= ov_base + ov_siz[n] /\ a >= ov_base + ov_max)
                  => WindowIn'[a] = WindowIn[a]
        BY <1>0, <2>2, <2>3, WindowType
    <2>5. Mapped'
        <3>1. \A x \in 0 .. Aout[image].siz[n] - 1 : WindowIn'[ov_base + x] = <<image, n, x>>
            BY <1>3, <2>1, <2>4 DEF Placed, Overlays
        <3>2. \A x \in ov_siz[n] .. ov_max - 1 : ov_base + x \in Addr
            BY <2>1, Geometry DEF Addr
        <3>3. \A x \in Aout[image].siz[n] .. ov_max - 1 : WindowIn'[ov_base + x] = ZERO
            BY <2>1, <2>4, <3>2
        <3> QED BY <1>1, <3>1, <3>3 DEF Mapped
    <2>6. TextThere'
        <3>1. ASSUME NEW x \in 0 .. Aout[image].text - 1 PROVE TextIn'[x] = <<image, TEXT, x>>
            <4>1. x \in Addr /\ x < ov_base
                BY <2>1, FileTypes, Geometry DEF Addr
            <4>2. TextIn[x] = <<image, TEXT, x>>
                BY <1>3, <2>1 DEF Placed, TextThere
            <4> QED BY <2>1, <2>2, <2>4, <4>1, <4>2
        <3> QED BY <1>1, <3>1 DEF TextThere
    <2>7. DataThere'
        <3>1. ASSUME NEW x \in 0 .. Aout[image].data - 1
              PROVE  M'[DataBase(image) + x] = M[DataBase(image) + x]
            <4>1. CASE ov_sep
                BY <2>2, <4>1
            <4>2. CASE ~ov_sep
                <5>1. /\ DataBase(image) + Aout[image].data <= Core - MaxArgs /\ Aout[image].data \in Nat
                      /\ DataBase(image) \in Nat /\ Aout[image].bss \in Nat
                    BY <1>3, <2>1, Layout, Geometry
                <5>2. DataBase(image) + x \in Addr
                    BY <5>1, Geometry DEF Addr
                <5>3. DataBase(image) + x >= ov_base + ov_siz[n] /\ DataBase(image) + x >= ov_base + ov_max
                    BY <2>1, <2>a, <4>2, <5>1
                <5>4. WindowIn = M
                    BY <4>2 DEF WindowIn
                <5> QED BY <2>2, <2>4, <4>2, <5>2, <5>3, <5>4
            <4> QED BY <4>1, <4>2
        <3> QED BY <1>1, <1>3, <2>1, <3>1 DEF Placed, DataThere
    <2> QED BY <2>5, <2>6, <2>7
<1>4. CASE ~(Whole(image) /\ Fits(image))
    BY <1>1, <1>2, <1>4 DEF Placed, TextThere, DataThere, Mapped
<1> QED BY <1>2, <1>3, <1>4 DEF Placed

(* A store above the break, or into the data, spoils neither the text nor    *)
(* the window.                                                               *)
LEMMA StorePlaced ==
    ASSUME TypeOK, Placed, Kept, Late, UNCHANGED <<MI, gbrk, cur_ovno>>, NEW a \in Addr, NEW v,
           M' = [M EXCEPT ![a] = v], a >= gbrk \/ (v = GUEST /\ a >= DataBase(image))
    PROVE  Placed'
<1>0. M \in [Addr -> Cells]
    BY DEF TypeOK
<1>1. /\ Entered' = Entered /\ Late' = Late
      /\ Fits(image)' = Fits(image) /\ Whole(image)' = Whole(image)
      /\ HasOverlay(cur_ovno)' = HasOverlay(cur_ovno) /\ UNCHANGED <<kern, image, Isp, v1sys, ov_proc, ov_sep, ov_base, ov_max, ov_siz, ov_img>>
    BY SameImage DEF Kept
<1>2. Header' /\ Overlays' /\ Room'
    BY <1>1 DEF Placed, Header, Overlays, Room
<1>3. ASSUME Whole(image), Fits(image) PROVE TextThere' /\ DataThere' /\ Mapped'
    <2>1. /\ image \in Files /\ Loadable(image) /\ Aout[image].magic # "0405"
        BY ImageType DEF Placed, Late
    <2>2. /\ DataBase(image) \in Nat /\ Aout[image].data \in Nat /\ DataEnd(image) = DataBase(image) + Aout[image].data
          /\ DataBase(image) + Aout[image].data + Aout[image].bss <= Core - MaxArgs /\ Aout[image].bss \in Nat
          /\ Aout[image].text \in Nat /\ Aout[image].text < Core /\ (~Split(image) => Aout[image].text <= DataBase(image))
        BY <1>3, <2>1, Layout
    <2>3. gbrk >= DataEnd(image) /\ gbrk \in Nat /\ a \in Nat
        BY <1>3, Geometry DEF Placed, Room, TypeOK, Addr
    <2>4. a >= DataBase(image) /\ (v = GUEST \/ a >= DataBase(image) + Aout[image].data)
        BY <2>2, <2>3
    <2>5. \A y \in Addr : y # a => M'[y] = M[y]
        BY <1>0
    <2>6. TextThere'
        <3>1. ASSUME NEW x \in 0 .. Aout[image].text - 1 PROVE TextIn'[x] = <<image, TEXT, x>>
            <4>1. TextIn[x] = <<image, TEXT, x>>
                BY <1>3 DEF Placed, TextThere
            <4>2. CASE Split(image)
                <5>1. Isp = "MI"
                    BY <4>2 DEF Placed, Header
                <5> QED BY <1>1, <4>1, <5>1 DEF TextIn
            <4>3. CASE ~Split(image)
                <5>1. Isp = "M"
                    BY <4>3 DEF Placed, Header
                <5>2. x \in Addr /\ x # a
                    BY <2>2, <2>3, <2>4, <4>3, Geometry DEF Addr
                <5> QED BY <1>1, <2>5, <4>1, <5>1, <5>2 DEF TextIn
            <4> QED BY <4>2, <4>3
        <3> QED BY <1>1, <3>1 DEF TextThere
    <2>7. DataThere'
        <3>1. ASSUME NEW x \in 0 .. Aout[image].data - 1
              PROVE  M'[DataBase(image) + x] \in {GUEST, <<image, DATA, x>>}
            <4>1. DataBase(image) + x \in Addr /\ (DataBase(image) + x = a => v = GUEST)
                BY <2>2, <2>3, <2>4, Geometry DEF Addr
            <4>2. M[DataBase(image) + x] \in {GUEST, <<image, DATA, x>>}
                BY <1>3 DEF Placed, DataThere
            <4>3. CASE DataBase(image) + x = a
                BY <1>0, <4>1, <4>3
            <4> QED BY <2>5, <4>1, <4>2, <4>3
        <3> QED BY <1>1, <3>1 DEF DataThere
    <2>8. Mapped'
        <3> SUFFICES ASSUME ov_proc, cur_ovno # 0 PROVE
                  /\ HasOverlay(cur_ovno)
                  /\ \A x \in 0 .. Aout[image].siz[cur_ovno] - 1 : WindowIn'[ov_base + x] = <<image, cur_ovno, x>>
                  /\ \A x \in Aout[image].siz[cur_ovno] .. ov_max - 1 : WindowIn'[ov_base + x] = ZERO
            BY <1>1 DEF Mapped
        <3>1. /\ HasOverlay(cur_ovno)
              /\ \A x \in 0 .. Aout[image].siz[cur_ovno] - 1 : WindowIn[ov_base + x] = <<image, cur_ovno, x>>
              /\ \A x \in Aout[image].siz[cur_ovno] .. ov_max - 1 : WindowIn[ov_base + x] = ZERO
            BY <1>3 DEF Placed, Mapped
        <3>2. /\ ov_base \in Nat /\ ov_max \in Nat /\ Aout[image].siz[cur_ovno] \in Nat /\ ov_base + ov_max <= Core
              /\ ~ov_sep => ov_base + ov_max <= DataBase(image) /\ ov_base + Aout[image].siz[cur_ovno] <= DataBase(image)
            BY <1>3, <3>1, WindowPlace DEF Placed
        <3>3. CASE ov_sep
            BY <1>1, <3>1, <3>3 DEF WindowIn
        <3>4. CASE ~ov_sep
            <4>1. WindowIn = M /\ WindowIn' = M'
                BY <1>1, <3>4 DEF WindowIn
            <4>2. ASSUME NEW x \in Nat, x < Aout[image].siz[cur_ovno] \/ x < ov_max
                  PROVE  ov_base + x \in Addr /\ ov_base + x # a
                BY <2>2, <2>3, <2>4, <3>2, <3>4, <4>2, Geometry DEF Addr
            <4>3. \A x \in 0 .. Aout[image].siz[cur_ovno] - 1 : x \in Nat /\ x < Aout[image].siz[cur_ovno]
                BY <3>2
            <4>4. \A x \in Aout[image].siz[cur_ovno] .. ov_max - 1 : x \in Nat /\ x < ov_max
                BY <3>2
            <4> QED BY <2>5, <3>1, <4>1, <4>2, <4>3, <4>4
        <3> QED BY <3>3, <3>4
    <2> QED BY <2>6, <2>7, <2>8
<1>4. CASE ~(Whole(image) /\ Fits(image))
    <2>1. ~(Whole(image)' /\ Fits(image)')
        BY <1>1, <1>4
    <2>2. TextThere'
        BY <2>1 DEF TextThere
    <2>3. DataThere'
        BY <2>1 DEF DataThere
    <2>4. Mapped'
        BY <2>1 DEF Mapped
    <2> QED BY <1>2, <2>2, <2>3, <2>4 DEF Placed
<1> QED BY <1>2, <1>3, <1>4 DEF Placed

(* A refused exec puts an end to the overlays, and changes no cell.          *)
LEMMA FailedPlaced ==
    ASSUME TypeOK, Placed, NEW f \in Files, ExecFails(f)
    PROVE  Placed'
<1>1. UNCHANGED <<kern, image, M, MI, Isp, SP, gbrk, v1sys, ov_img>>
    BY DEF ExecFails, core
<1>2. CASE UNCHANGED overlay
    <2>1. Kept /\ cur_ovno' = cur_ovno
        BY <1>1, <1>2 DEF Kept, overlay
    <2> QED BY <1>1, <2>1, StillPlaced
<1>3. CASE PartlyRead(Target(f))
    <2>1. ov_proc' = FALSE /\ cur_ovno' = 0
        BY <1>3 DEF PartlyRead
    <2>2. V1Image(image)' = V1Image(image)
        BY <1>1 DEF V1Image
    <2>3. /\ Entered' = Entered /\ Late' = Late /\ Fits(image)' = Fits(image) /\ Whole(image)' = Whole(image)
        BY <1>1, <2>2 DEF Entered, Late, Fits, Whole
    <2>4. Header' /\ Overlays' /\ Mapped'
        BY <1>1, <2>1, <2>3 DEF Placed, Header, Overlays, Mapped
    <2>5. Room' /\ TextThere' /\ DataThere'
        BY <1>1, <2>3 DEF Placed, Room, TextThere, DataThere, TextIn
    <2> QED BY <2>4, <2>5 DEF Placed
<1> QED BY <1>2, <1>3 DEF ExecFails

LEMMA InitPlaced == Init => Placed
<1> SUFFICES ASSUME Init PROVE Placed
    OBVIOUS
<1>1. ~Entered /\ ~ov_proc /\ cur_ovno = 0
    BY DEF Init, Entered
<1> QED BY <1>1 DEF Placed, Header, Overlays, Room, TextThere, DataThere, Mapped, Late

LEMMA NextPlaced ==
    ASSUME TypeOK, Placed, [Next]_vars
    PROVE  Placed'
<1>1. ASSUME NEW f \in Files, ExecV1(f) \/ ExecShared(f) \/ ExecSplit(f) \/ ExecOverlay(f) \/ ExecFails(f)
      PROVE  Placed'
    BY <1>1, V1Placed, SharedPlaced, SplitPlaced, OverlayPlaced, FailedPlaced
<1>2. ASSUME NEW n \in 1 .. MaxOvl, EmtSwitch(n) PROVE Placed'
    <2>1. Kept /\ ov_proc /\ HasOverlay(n) /\ MapOverlay(n) /\ gbrk' = gbrk
        BY <1>2 DEF EmtSwitch, Plain, Kept
    <2> QED BY <2>1, RemapPlaced
<1>3. ASSUME NEW n \in 1 .. MaxOvl, EmtHalts(n) PROVE Placed'
    <2>1. Kept /\ UNCHANGED <<M, MI, gbrk, cur_ovno>>
        BY <1>3 DEF EmtHalts, Plain, Kept, core, overlay
    <2> QED BY <2>1, StillPlaced
<1>4. CASE EmtRts \/ Deliver \/ Sigreturn
    <2>1. Kept /\ UNCHANGED <<M, MI, gbrk, cur_ovno>>
        BY <1>4 DEF EmtRts, Deliver, Sigreturn, Plain, Kept, core, overlay
    <2> QED BY <2>1, StillPlaced
<1>5. ASSUME NEW a \in Breaks, Break(a) PROVE Placed'
    <2>1. /\ Kept /\ UNCHANGED <<M, MI, cur_ovno>> /\ gbrk' \in {a, gbrk} /\ a >= DataEnd(image) /\ Entered
        BY <1>5 DEF Break, Plain, Kept, overlay, Modern, Running, Entered
    <2>2. /\ Entered' = Entered /\ Late' = Late /\ Fits(image)' = Fits(image) /\ Whole(image)' = Whole(image)
          /\ \A n : HasOverlay(n)' = HasOverlay(n) /\ image' = image
        BY <2>1, SameImage DEF Kept
    <2>3. Room'
        BY <2>1, <2>2 DEF Placed, Room
    <2>4. Header' /\ Overlays' /\ TextThere' /\ DataThere'
        BY <2>1, <2>2 DEF Placed, Kept, Header, Overlays, TextThere, DataThere, TextIn
    <2>5. Mapped'
        BY <2>1, <2>2 DEF Placed, Kept, Mapped, WindowIn
    <2> QED BY <2>3, <2>4, <2>5 DEF Placed
<1>6. CASE Push
    <2>1. /\ Kept /\ Late /\ UNCHANGED <<MI, gbrk, cur_ovno>> /\ M' = [M EXCEPT ![SP - 1] = STACK] /\ SP > gbrk
        BY <1>6 DEF Push, Plain, Kept, overlay, Modern, Running, Late, Entered
    <2>2. SP - 1 \in Addr /\ SP - 1 >= gbrk
        <3>1. SP \in Nat /\ gbrk \in Nat /\ SP < Core
            BY Geometry DEF TypeOK, Addr
        <3> QED BY <2>1, <3>1, Geometry DEF Addr
    <2> QED BY <2>1, <2>2, StorePlaced
<1>7. CASE Pop
    <2>1. Kept /\ UNCHANGED <<M, MI, gbrk, cur_ovno>>
        BY <1>7 DEF Pop, Plain, Kept, overlay
    <2> QED BY <2>1, StillPlaced
<1>8. ASSUME NEW a \in Addr, Store(a) PROVE Placed'
    <2>1. /\ Kept /\ Late /\ UNCHANGED <<MI, gbrk, cur_ovno>> /\ M' = [M EXCEPT ![a] = GUEST] /\ a >= DataBase(image)
        BY <1>8 DEF Store, Plain, Kept, overlay, Modern, Running, Late, Entered
    <2> QED BY <2>1, StorePlaced
<1>9. CASE SigtrampEmt
    <2> DEFINE n == frames[Len(frames)].sc_ovno
    <2>1. /\ Kept /\ gbrk' = gbrk
          /\ UNCHANGED <<M, MI, cur_ovno>> \/ (ov_proc /\ HasOverlay(n) /\ MapOverlay(n))
        BY <1>9 DEF SigtrampEmt, Plain, Kept
    <2> HIDE DEF n
    <2> QED BY <2>1, StillPlaced, RemapPlaced
<1>10. CASE UNCHANGED vars
    <2>1. Kept /\ UNCHANGED <<M, MI, gbrk, cur_ovno>>
        BY <1>10 DEF vars, Kept, core, overlay
    <2> QED BY <2>1, StillPlaced
<1> QED BY <1>1, <1>2, <1>3, <1>4, <1>5, <1>6, <1>7, <1>8, <1>9, <1>10 DEF Next

LEMMA AlwaysPlaced == Spec => [](TypeOK /\ Placed)
<1>1. Init => TypeOK /\ Placed
    BY InitType, InitPlaced
<1>2. TypeOK /\ Placed /\ [Next]_vars => TypeOK' /\ Placed'
    BY NextType, NextPlaced
<1> QED BY <1>1, <1>2, PTL DEF Spec

(* While overlay n is mapped, the window holds overlay n of the image that   *)
(* runs, and zeroes: nothing of the overlay mapped before, or of any image   *)
(* run, refused or interpreted before.                                       *)
THEOREM WindowHeld == Spec => []WindowHoldsCurrent
<1>1. TypeOK /\ Placed => WindowHoldsCurrent
    <2> SUFFICES ASSUME TypeOK, Placed, Running, ov_proc, cur_ovno # 0, Whole(image), Fits(image)
                 PROVE  /\ Aout[image].siz[cur_ovno] > 0
                        /\ \A x \in 0 .. Aout[image].siz[cur_ovno] - 1 : WindowIn[ov_base + x] = <<image, cur_ovno, x>>
                        /\ \A x \in Aout[image].siz[cur_ovno] .. ov_max - 1 : WindowIn[ov_base + x] = ZERO
        BY DEF WindowHoldsCurrent, WindowIn
    <2>1. HasOverlay(cur_ovno)
        BY DEF Placed, Mapped
    <2>2. ov_siz[cur_ovno] = Aout[image].siz[cur_ovno]
        BY <2>1, WindowPlace DEF Placed
    <2> QED BY <2>1, <2>2 DEF Placed, Mapped, HasOverlay
<1> QED BY <1>1, AlwaysPlaced, PTL

(* The base text stays as it was in the file, and the data as it was or as   *)
(* the guest stored it, whatever is mapped, pushed, stored or given to break.*)
THEOREM SegmentsKept == Spec => []SegmentsInPlace
<1>1. TypeOK /\ Placed => SegmentsInPlace
    <2> SUFFICES ASSUME Placed, Modern, Whole(image), Fits(image)
                 PROVE  /\ \A x \in 0 .. Aout[image].text - 1 : TextIn[x] = <<image, TEXT, x>>
                        /\ \A x \in 0 .. Aout[image].data - 1 :
                               M[DataBase(image) + x] \in {GUEST, <<image, DATA, x>>}
        BY DEF SegmentsInPlace, TextIn
    <2>1. Late
        BY DEF Modern, Running, Late, Entered
    <2> QED BY <2>1 DEF Placed, TextThere, DataThere
<1> QED BY <1>1, AlwaysPlaced, PTL

-----------------------------------------------------------------------------
(* The overlay number a signal frame carries. *)

FrameSet == [sc_ovno : 0 .. MaxOvl, was : 0 .. MaxOvl, back : BOOLEAN]

\* the overlay that must be mapped when frame k is given back
Awaited(k) == IF k = Len(frames) THEN cur_ovno ELSE frames[k + 1].was

Recorded == \A k \in 1 .. Len(frames) : frames[k].sc_ovno = frames[k].was
Awaiting == \A k \in 1 .. Len(frames) :
                frames[k].back /\ frames[k].was # 0 => frames[k].was = Awaited(k)

LEMMA ResumeParts == Resume <=> Recorded /\ (~halted => Awaiting)
BY DEF Resume, Recorded, Awaiting, Awaited

LEMMA ResumePartsNext == Resume' <=> Recorded' /\ (~halted' => Awaiting')
BY DEF Resume, Recorded, Awaiting, Awaited

LEMMA InitResume == Init => Resume
<1> SUFFICES ASSUME Init PROVE Resume
    OBVIOUS
<1>1. frames = <<>> /\ Len(frames) = 0
    BY DEF Init
<1>2. 1 .. Len(frames) = {}
    BY <1>1
<1> QED BY <1>2 DEF Resume

\* the new image has no frame
LEMMA NoFramesResume == ASSUME frames' = <<>> PROVE Resume'
<1>1. Len(frames') = 0
    OBVIOUS
<1>2. 1 .. Len(frames') = {}
    BY <1>1
<1> QED BY <1>2 DEF Resume

\* a step that leaves frames and overlay, or that halts
LEMMA SameResume ==
    ASSUME Resume, UNCHANGED frames, halted' \/ (~halted /\ UNCHANGED cur_ovno)
    PROVE  Resume'
<1>1. Recorded'
    BY ResumeParts DEF Recorded
<1>2. ASSUME ~halted' PROVE Awaiting'
    BY <1>2, ResumeParts DEF Awaiting, Awaited
<1> QED BY <1>1, <1>2, ResumePartsNext

\* the guest's own code maps another overlay, or a refused exec none: the top
\* frame, if there is one, is still in its handler
LEMMA FreeResume ==
    ASSUME TypeOK, Resume, Free, UNCHANGED frames
    PROVE  Resume'
<1>1. Recorded' /\ Awaiting
    BY ResumeParts DEF Recorded, Free
<1>2. Awaiting'
    <2> SUFFICES ASSUME NEW k \in 1 .. Len(frames), frames[k].back, frames[k].was # 0
                 PROVE  frames[k].was = Awaited(k)'
        BY DEF Awaiting
    <2>1. frames \in Seq(FrameSet)
        BY DEF TypeOK, FrameSet
    <2>2. frames # <<>>
        BY <2>1
    <2>3. k # Len(frames)
        BY <2>2 DEF Free
    <2>4. frames[k].was = frames[k + 1].was
        BY <1>1, <2>3 DEF Awaiting, Awaited
    <2> QED BY <2>3, <2>4 DEF Awaited
<1> QED BY <1>1, <1>2, ResumePartsNext

\* delivery records the overlay mapped: the only one sc_ovno can name
LEMMA DeliverResume ==
    ASSUME TypeOK, Header, Resume, Deliver
    PROVE  Resume'
<1>1. frames \in Seq(FrameSet) /\ cur_ovno \in 0 .. MaxOvl /\ Len(frames) \in Nat
    BY DEF TypeOK, FrameSet
<1>2. ~halted /\ ~v1sys /\ cur_ovno' = cur_ovno
    BY DEF Deliver, Modern, Running, overlay
<1>3. ScOvno = cur_ovno
    BY <1>2 DEF ScOvno, Header
<1> DEFINE f == [sc_ovno |-> cur_ovno, was |-> cur_ovno, back |-> FALSE]
<1>4. frames' = Append(frames, f)
    BY <1>3 DEF Deliver
<1>5. f \in FrameSet
    BY <1>1 DEF FrameSet
<1>6. f.sc_ovno = cur_ovno /\ f.was = cur_ovno /\ f.back = FALSE
    OBVIOUS
<1> HIDE DEF f
<1>7. /\ Len(frames') = Len(frames) + 1 /\ frames'[Len(frames) + 1] = f
      /\ \A k \in 1 .. Len(frames) : frames'[k] = frames[k]
    BY <1>1, <1>4, <1>5
<1>8. Recorded /\ Awaiting
    BY <1>2, ResumeParts
<1>9. Recorded'
    <2> SUFFICES ASSUME NEW k \in 1 .. Len(frames) + 1 PROVE frames'[k].sc_ovno = frames'[k].was
        BY <1>7 DEF Recorded
    <2>1. CASE k = Len(frames) + 1
        BY <1>6, <1>7, <2>1
    <2>2. CASE k # Len(frames) + 1
        <3>1. k \in 1 .. Len(frames)
            BY <1>1, <2>2
        <3> QED BY <1>7, <1>8, <3>1 DEF Recorded
    <2> QED BY <2>1, <2>2
<1>10. Awaiting'
    <2> SUFFICES ASSUME NEW k \in 1 .. Len(frames) + 1, frames'[k].back, frames'[k].was # 0
                 PROVE  frames'[k].was = Awaited(k)'
        BY <1>7 DEF Awaiting
    <2>1. k # Len(frames) + 1
        BY <1>6, <1>7
    <2>2. k \in 1 .. Len(frames)
        BY <1>1, <2>1
    <2>3. frames[k].was = Awaited(k)
        BY <1>7, <1>8, <2>2 DEF Awaiting
    <2>4. Awaited(k)' = frames'[k + 1].was
        BY <1>7, <2>1 DEF Awaited
    <2>5. CASE k = Len(frames)
        BY <1>6, <1>7, <2>2, <2>3, <2>4, <2>5 DEF Awaited
    <2>6. CASE k # Len(frames)
        <3>1. k + 1 \in 1 .. Len(frames)
            BY <1>1, <2>2, <2>6
        <3> QED BY <1>7, <2>2, <2>3, <2>4, <2>6, <3>1 DEF Awaited
    <2> QED BY <2>5, <2>6
<1> QED BY <1>9, <1>10, ResumePartsNext

\* the guest's sigtramp maps again what its frame records
LEMMA SigtrampResume ==
    ASSUME TypeOK, Resume, SigtrampEmt
    PROVE  Resume'
<1> DEFINE n == Len(frames)
<1>1. frames \in Seq(FrameSet) /\ n \in Nat /\ frames # <<>>
    BY DEF TypeOK, FrameSet, SigtrampEmt
<1>2. n \in 1 .. n /\ frames[n] \in FrameSet
    BY <1>1
<1>3. Recorded /\ Awaiting
    BY ResumeParts DEF SigtrampEmt, Running
<1>4. frames' = [frames EXCEPT ![n] = [@ EXCEPT !.back = TRUE]]
    BY DEF SigtrampEmt
<1>5. DOMAIN frames = 1 .. n
    BY <1>1
<1>6. /\ frames'[n] = [frames[n] EXCEPT !.back = TRUE]
      /\ \A k \in 1 .. n : k # n => frames'[k] = frames[k]
    BY <1>2, <1>4, <1>5
<1>7. frames'[n].was = frames[n].was /\ frames'[n].sc_ovno = frames[n].sc_ovno
    BY <1>2, <1>6 DEF FrameSet
<1>8. Len(frames') = n
    BY <1>1, <1>4
<1>9. \A k \in 1 .. n : frames'[k].was = frames[k].was /\ frames'[k].sc_ovno = frames[k].sc_ovno
    BY <1>6, <1>7
<1>10. Recorded'
    BY <1>3, <1>8, <1>9 DEF Recorded
<1>11. ASSUME ~halted' PROVE Awaiting'
    <2> SUFFICES ASSUME NEW k \in 1 .. n, frames'[k].back, frames'[k].was # 0
                 PROVE  frames'[k].was = Awaited(k)'
        BY <1>8 DEF Awaiting
    <2>1. CASE k = n
        <3>1. frames[n].sc_ovno # 0 /\ frames[n].sc_ovno = frames[n].was
            BY <1>2, <1>3, <1>7, <2>1 DEF Recorded
        <3>2. MapOverlay(frames[n].sc_ovno)
            BY <1>11, <3>1 DEF SigtrampEmt
        <3>3. cur_ovno' = frames[n].was
            BY <3>1, <3>2 DEF MapOverlay
        <3> QED BY <1>7, <1>8, <2>1, <3>3 DEF Awaited
    <2>2. CASE k # n
        <3>1. k + 1 \in 1 .. n
            BY <1>1, <2>2
        <3>2. frames[k].was = frames[k + 1].was
            BY <1>3, <1>6, <1>9, <2>2 DEF Awaiting, Awaited
        <3>3. Awaited(k)' = frames'[k + 1].was
            BY <1>8, <2>2 DEF Awaited
        <3> QED BY <1>9, <3>1, <3>2, <3>3
    <2> QED BY <2>1, <2>2
<1> QED BY <1>10, <1>11, ResumePartsNext

\* ... and gives the context back: what it maps is what the next frame awaits
LEMMA SigreturnResume ==
    ASSUME TypeOK, Resume, Sigreturn
    PROVE  Resume'
<1> DEFINE n == Len(frames)
<1>1. frames \in Seq(FrameSet) /\ n \in Nat /\ frames # <<>>
    BY DEF TypeOK, FrameSet, Sigreturn
<1>2. n \in 1 .. n /\ frames[n].back
    BY <1>1 DEF Sigreturn
<1>3. Recorded /\ Awaiting
    BY ResumeParts DEF Sigreturn, Running
<1>4. frames' = SubSeq(frames, 1, n - 1) /\ cur_ovno' = cur_ovno
    BY DEF Sigreturn, overlay
<1>5. /\ Len(frames') = n - 1
      /\ \A k \in 1 .. n - 1 : frames'[k] = frames[k]
    <2> HIDE DEF n
    <2>1. n >= 1 /\ n - 1 \in Nat /\ \A k \in 1 .. n - 1 : k \in 1 .. n
        BY <1>1, <1>2
    <2>2. Len(frames') = n - 1
        BY <1>1, <1>4, <2>1
    <2>3. ASSUME NEW k \in 1 .. n - 1 PROVE frames'[k] = frames[k]
        BY <1>1, <1>4, <2>1
    <2> QED BY <2>2, <2>3
<1>6. Recorded'
    BY <1>1, <1>3, <1>5 DEF Recorded
<1>7. Awaiting'
    <2> SUFFICES ASSUME NEW k \in 1 .. n - 1, frames'[k].back, frames'[k].was # 0
                 PROVE  frames'[k].was = Awaited(k)'
        BY <1>5 DEF Awaiting
    <2>1. k \in 1 .. n /\ k # n
        BY <1>1
    <2>2. frames[k].was = frames[k + 1].was /\ frames[k].was # 0
        BY <1>3, <1>5, <2>1 DEF Awaiting, Awaited
    <2>3. CASE k = n - 1
        <3>1. k + 1 = n
            BY <1>1, <2>3
        <3>2. frames[n].was = cur_ovno
            BY <1>2, <1>3, <2>2, <3>1 DEF Awaiting, Awaited
        <3> QED BY <1>4, <1>5, <2>2, <2>3, <3>1, <3>2 DEF Awaited
    <2>4. CASE k # n - 1
        <3>1. k + 1 \in 1 .. n - 1
            BY <1>1, <2>4
        <3> QED BY <1>5, <2>2, <2>4, <3>1 DEF Awaited
    <2> QED BY <2>3, <2>4
<1> QED BY <1>6, <1>7, ResumePartsNext

LEMMA NextResume == TypeOK /\ Placed /\ Resume /\ [Next]_vars => Resume'
<1> SUFFICES ASSUME TypeOK, Placed, Resume, [Next]_vars PROVE Resume'
    OBVIOUS
<1>1. ASSUME NEW f \in Files, ExecV1(f) \/ ExecShared(f) \/ ExecSplit(f) \/ ExecOverlay(f)
      PROVE  Resume'
    BY <1>1, Entering, NoFramesResume
<1>2. ASSUME NEW f \in Files, ExecFails(f) PROVE Resume'
    BY <1>2, FreeResume DEF ExecFails
<1>3. ASSUME NEW m \in 1 .. MaxOvl, EmtSwitch(m) PROVE Resume'
    BY <1>3, FreeResume DEF EmtSwitch
<1>4. ASSUME NEW m \in 1 .. MaxOvl, EmtHalts(m) PROVE Resume'
    BY <1>4, SameResume DEF EmtHalts
<1>5. CASE EmtRts
    BY <1>5, SameResume DEF EmtRts
<1>6. ASSUME NEW a \in Addr, Store(a) PROVE Resume'
    BY <1>6, FreeResume DEF Store
<1>7. ASSUME NEW a \in Breaks, Break(a) PROVE Resume'
    BY <1>7, FreeResume DEF Break
<1>8. CASE Push \/ Pop
    BY <1>8, FreeResume DEF Push, Pop
<1>9. CASE Deliver
    BY <1>9, DeliverResume DEF Placed
<1>10. CASE SigtrampEmt
    BY <1>10, SigtrampResume
<1>11. CASE Sigreturn
    BY <1>11, SigreturnResume
<1>12. CASE UNCHANGED vars
    <2>1. UNCHANGED <<frames, halted, cur_ovno>>
        BY <1>12 DEF vars, overlay
    <2> QED BY <2>1 DEF Resume
<1> QED BY <1>1, <1>2, <1>3, <1>4, <1>5, <1>6, <1>7, <1>8, <1>9, <1>10, <1>11, <1>12 DEF Next

(* What a signal interrupted finds its overlay mapped again, however deep    *)
(* the handlers nested and whatever overlays they called.                    *)
THEOREM OverlayBack == Spec => OverlayResumed
<1> DEFINE A == (tried' = NotTried /\ Len(frames') < Len(frames))
                    => frames[Len(frames)].was \in {0, cur_ovno'}
<1>1. TypeOK /\ Placed /\ Resume /\ [Next]_vars => [A]_vars
    <2> SUFFICES ASSUME TypeOK, Resume, Next, tried' = NotTried, Len(frames') < Len(frames)
                 PROVE  frames[Len(frames)].was \in {0, cur_ovno'}
        OBVIOUS
    <2>1. frames \in Seq(FrameSet) /\ Len(frames) \in Nat
        BY DEF TypeOK, FrameSet
    <2>2. frames' # frames
        BY <2>1
    <2>3. \A f \in Files : ~ExecV1(f) /\ ~ExecShared(f) /\ ~ExecSplit(f) /\ ~ExecOverlay(f)
        <3>1. \A f \in Files : [file |-> f, ok |-> TRUE] # NotTried
            BY DEF NotTried
        <3> QED BY <3>1 DEF ExecV1, ExecShared, ExecSplit, ExecOverlay, Started
    <2>4. \A f \in Files : ~ExecFails(f)
        BY <2>2 DEF ExecFails
    <2>5. \A m \in 1 .. MaxOvl : ~EmtSwitch(m) /\ ~EmtHalts(m)
        BY <2>2 DEF EmtSwitch, EmtHalts
    <2>6. ~EmtRts /\ ~Push /\ ~Pop /\ (\A a \in Breaks : ~Break(a)) /\ (\A a \in Addr : ~Store(a))
        BY <2>2 DEF EmtRts, Push, Pop, Break, Store
    <2>7. ~Deliver
        <3>1. ASSUME Deliver PROVE Len(frames') = Len(frames) + 1
            <4>1. PICK f : frames' = Append(frames, f)
                BY <3>1 DEF Deliver
            <4> QED BY <2>1, <4>1
        <3> QED BY <2>1, <3>1
    <2>8. ~SigtrampEmt
        <3>1. ASSUME SigtrampEmt PROVE Len(frames') = Len(frames)
            <4>1. PICK g : frames' = [frames EXCEPT ![Len(frames)] = g]
                BY <3>1 DEF SigtrampEmt
            <4> QED BY <2>1, <4>1
        <3> QED BY <2>1, <3>1
    <2>9. Sigreturn
        BY <2>3, <2>4, <2>5, <2>6, <2>7, <2>8 DEF Next
    <2>10. Awaiting /\ frames[Len(frames)].back /\ Len(frames) \in 1 .. Len(frames) /\ cur_ovno' = cur_ovno
        BY <2>1, <2>9, ResumeParts DEF Sigreturn, Running, overlay
    <2> QED BY <2>10 DEF Awaiting, Awaited
<1>2. [][A]_vars <=> OverlayResumed
    BY DEF OverlayResumed
<1>3. Spec => []Resume
    <2>1. Init => Resume
        BY InitResume
    <2>2. TypeOK /\ Placed /\ Resume /\ [Next]_vars => Resume'
        BY NextResume
    <2> QED BY <2>1, <2>2, AlwaysPlaced, PTL DEF Spec
<1> HIDE DEF A
<1> QED BY <1>1, <1>2, <1>3, AlwaysPlaced, PTL DEF Spec
=============================================================================
