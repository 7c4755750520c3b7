------------------------------- MODULE ApsimExec -------------------------------
(***************************************************************************)
(* The image a guest runs: apsim's loader (load_aout_env), the overlay     *)
(* switch behind EMT, break, and the overlay number that a signal frame    *)
(* carries.  Core is counted in cells: the source's 64 KB space is Core    *)
(* cells, its 8 KB boundary Page cells, its overlay slot Slot cells; what  *)
(* a cell holds is the place in a file it was read from.                   *)
(***************************************************************************)
EXTENDS Integers, Sequences

CONSTANTS
  Files,      \* names a guest may exec
  NoFile,     \* no image yet: apsim's own command line is being loaded
  BinSh,      \* the guest's /bin/sh
  Aout,       \* what each file is: its exec header and what is really in it
  Kerns,      \* "v1" and the later kernels; a run has one of them
  Core,       \* 0x10000
  Page,       \* 020000
  Slot,       \* 16384, one ov_img[]
  V1Base,     \* 040000
  V1Top,      \* 060000
  Novl,       \* overlays a header holds: 7, or 15 from 2.10 on
  MaxOvl,     \* length of ov_siz[] less its unused 0
  MaxArgs,    \* bound: cells of strings exec puts on the stack
  MaxPush,    \* bound: cells the guest pushes below them
  Breaks,     \* bound: the addresses given to break
  MaxFrames   \* bound: signals being handled at a time

Magics == {"0405", "0407", "0410", "0411", "0430", "0431"}

\* the parts of a file: overlay j is j, and besides
TEXT == 0
DATA == -1
FILE == -2     \* the whole file image, header included
Segments == FILE .. MaxOvl

\* what a cell holds that no file put there
ZERO == <<NoFile, 0, 0>>
STACK == <<NoFile, 1, 0>>
GUEST == <<NoFile, 2, 0>>

ASSUME GeometryAssumption ==
  /\ Core \in Nat \ {0} /\ Page \in 1 .. Core /\ Slot \in 1 .. Core
  /\ Core % Page = 0
  /\ V1Base \in 0 .. Core - 1 /\ V1Top \in V1Base + 1 .. Core - 1
  /\ MaxOvl \in Nat \ {0} /\ Novl \in 1 .. MaxOvl
  /\ MaxArgs \in 1 .. V1Top - V1Base /\ MaxFrames \in Nat
  /\ MaxPush \in Nat /\ Breaks \subseteq 0 .. Core - 1

ASSUME FilesAssumption ==
  /\ NoFile \notin Files /\ BinSh \in Files
  /\ Aout \in [Files -> [magic : Magics \cup {"script", "text", "other", "absent"},
                         words : 0 .. 8,
                         interp : Files,
                         text : 0 .. Core - 1, data : 0 .. Core - 1, bss : 0 .. Core - 1,
                         ovhdr : BOOLEAN,
                         max : 0 .. Core - 1, siz : [1 .. MaxOvl -> 0 .. Core - 1],
                         has : [Segments -> 0 .. Core]]]

VARIABLES
  kern,       \* Kern
  image,      \* the file whose image runs
  M, MI,      \* D-space, and I-space of a separate-I&D image
  Isp,        \* where instructions are fetched: "M" or "MI"
  SP, gbrk,   \* R6 and the program break
  v1sys,      \* the First Edition traps and KE11-A are live
  ov_proc, ov_sep, ov_base, ov_max, ov_siz, cur_ovno,
  ov_img,     \* the overlay images, kept outside the guest's spaces
  sb_depth,   \* inside one level of script interpretation
  frames,     \* sendsig frames: what sc_ovno holds, and the overlay mapped then
  halted,
  tried       \* history: the file the last step tried to exec, and the verdict

overlay == <<ov_proc, ov_sep, ov_base, ov_max, ov_siz, cur_ovno>>
core == <<M, MI, Isp, SP, gbrk, v1sys>>
vars == <<kern, image, core, overlay, ov_img, sb_depth, frames, halted, tried>>

Addr == 0 .. Core - 1
Zeroed == [a \in Addr |-> ZERO]
Cells == {ZERO, STACK, GUEST} \cup (Files \X Segments \X Addr)
NotTried == [file |-> NoFile, ok |-> FALSE]
LowerOf(a, b) == IF a < b THEN a ELSE b
RoundUp(n) == ((n + Page - 1) \div Page) * Page

Init ==
  /\ kern \in Kerns
  /\ image = NoFile
  /\ M = Zeroed /\ MI = Zeroed /\ Isp = "M"
  /\ SP = 0 /\ gbrk = 0 /\ v1sys = FALSE
  /\ ov_proc = FALSE /\ ov_sep = FALSE /\ ov_base = 0 /\ ov_max = 0
  /\ ov_siz = [j \in 1 .. MaxOvl |-> 0] /\ cur_ovno = 0
  /\ ov_img = [j \in 1 .. MaxOvl |-> [i \in 0 .. Slot - 1 |-> ZERO]]
  /\ sb_depth = 0 /\ frames = <<>> /\ halted = FALSE
  /\ tried = NotTried

-----------------------------------------------------------------------------
(* Reading a file. *)

\* count cells of segment s of file f at off, clamped to the space; a short
\* file leaves the rest as it was
LoadSeg(space, off, count, f, s) ==
  LET o == off % Core
      n == LowerOf(count, Aout[f].has[s])
  IN [a \in Addr |-> IF a >= o /\ a < o + n THEN <<f, s, a - o>> ELSE space[a]]

\* fread into the fixed slot of overlay j: a short file leaves the slot's old tail
LoadOverlay(old, f, j) ==
  LET n == LowerOf(Aout[f].siz[j], Aout[f].has[j])
  IN [i \in 0 .. Slot - 1 |-> IF i < n THEN <<f, j, i>> ELSE old[i]]

OvBase(f) == RoundUp(Aout[f].text)

\* faulty variant of DataBase: 0430 data follows the base text, under the window
DataBaseUnderWindow(f) ==
  CASE Aout[f].magic = "0407" -> Aout[f].text
    [] Aout[f].magic \in {"0410", "0430"} -> RoundUp(Aout[f].text)
    [] OTHER -> 0

\* where the data segment goes, by magic
DataBase(f) ==
  CASE Aout[f].magic = "0407" -> Aout[f].text
    [] Aout[f].magic = "0410" -> RoundUp(Aout[f].text)
    [] Aout[f].magic = "0430" -> RoundUp(OvBase(f) + Aout[f].max)
    [] OTHER -> 0

\* the strings and vectors exec leaves below top
SetupStack(space, top, n) ==
  [a \in Addr |-> IF a >= top - n /\ a < top THEN STACK ELSE space[a]]

-----------------------------------------------------------------------------
(* Which file is loaded, and whether it will be. *)

\* "#!", or a text file on apsim's own command line: one level, never two
Script(f) == Aout[f].words >= 1 /\ Aout[f].magic = "script"
Text(f) == Aout[f].words >= 1 /\ Aout[f].magic = "text" /\ image = NoFile
Interpreted(f) == (Script(f) \/ Text(f)) /\ sb_depth = 0
Target(f) == IF ~Interpreted(f) THEN f ELSE IF Script(f) THEN Aout[f].interp ELSE BinSh

\* faulty variant of DepthAfter: the depth is never cleared
DepthAfterKept(f) == IF Interpreted(f) THEN 1 ELSE sb_depth

\* sb_depth is set around the interpreter's own load and cleared after it
DepthAfter(f) == IF Interpreted(f) THEN 0 ELSE sb_depth

Binary(f) == Aout[f].magic \in Magics /\ Aout[f].words = 8
IsOverlay(f) == Aout[f].magic \in {"0430", "0431"}
V1Image(f) == Aout[f].magic = "0405" \/ (Aout[f].magic = "0407" /\ kern = "v1")

\* the first overlay whose size is refused, Novl + 1 when there is none
BadSize(f, j) == Aout[f].siz[j] > Slot \/ OvBase(f) + Aout[f].siz[j] > Core
FirstBad(f) ==
  CHOOSE j \in 1 .. Novl + 1 : /\ j <= Novl => BadSize(f, j)
                               /\ \A k \in 1 .. j - 1 : ~BadSize(f, k)

\* how far the overlay header gets
HeaderShort(f) == ~Aout[f].ovhdr
WindowTooLong(f) == Aout[f].max > Slot
WindowTooHigh(f) == OvBase(f) + Aout[f].max > Core
Refused(f) == HeaderShort(f) \/ WindowTooLong(f) \/ WindowTooHigh(f) \/ FirstBad(f) <= Novl

Loadable(f) == Binary(f) /\ (IsOverlay(f) => ~Refused(f))

-----------------------------------------------------------------------------
(* exec, exece, and the load of the command line. *)

\* the guest's own code runs: between its EMT and its sigreturn, sigtramp does
\* nothing else
Free == ~halted /\ (frames # <<>> => ~frames[Len(frames)].back)

\* the new image starts with no signal frame of the old one's stack
Started(f, g) ==
  /\ image' = g /\ frames' = <<>>
  /\ tried' = [file |-> f, ok |-> TRUE]
  /\ sb_depth' = DepthAfter(f)
  /\ UNCHANGED <<kern, halted>>

\* 0405, and 0407 under a First or Second Edition universe
ExecV1(f) ==
  LET g == Target(f)
      size == IF Aout[g].magic = "0407" THEN (Aout[g].text + Aout[g].data) % Core
              ELSE LowerOf(Aout[g].text, Core \div 2)
  IN /\ Free /\ Binary(g) /\ V1Image(g)
     /\ v1sys' = TRUE /\ ov_proc' = FALSE /\ Isp' = "M"
     /\ \E n \in 1 .. MaxArgs :
          /\ M' = SetupStack(LoadSeg(Zeroed, V1Base, size, g, FILE), V1Top, n)
          /\ SP' = V1Top - n
     /\ Started(f, g)
     /\ UNCHANGED <<MI, gbrk, ov_sep, ov_base, ov_max, ov_siz, cur_ovno, ov_img>>

NoOverlay == ov_proc' = FALSE /\ ov_sep' = FALSE /\ cur_ovno' = 0

\* 0407 and 0410: one space, data after the text or on the next boundary
ExecShared(f) ==
  LET g == Target(f) IN
  /\ Free /\ Binary(g) /\ ~V1Image(g) /\ Aout[g].magic \in {"0407", "0410"}
  /\ Isp' = "M"
  /\ \E n \in 1 .. MaxArgs :
       /\ M' = SetupStack(LoadSeg(LoadSeg(Zeroed, 0, Aout[g].text, g, TEXT),
                                  DataBase(g), Aout[g].data, g, DATA), Core, n)
       /\ SP' = Core - n
  /\ gbrk' = (DataBase(g) + Aout[g].data + Aout[g].bss) % Core
  /\ NoOverlay /\ Started(f, g)
  /\ UNCHANGED <<MI, v1sys, ov_base, ov_max, ov_siz, ov_img>>

\* 0411: text in I-space, data in D-space, both from 0
ExecSplit(f) ==
  LET g == Target(f) IN
  /\ Free /\ Binary(g) /\ Aout[g].magic = "0411"
  /\ Isp' = "MI" /\ MI' = LoadSeg(Zeroed, 0, Aout[g].text, g, TEXT)
  /\ \E n \in 1 .. MaxArgs :
       /\ M' = SetupStack(LoadSeg(Zeroed, 0, Aout[g].data, g, DATA), Core, n)
       /\ SP' = Core - n
  /\ gbrk' = (Aout[g].data + Aout[g].bss) % Core
  /\ NoOverlay /\ Started(f, g)
  /\ UNCHANGED <<v1sys, ov_base, ov_max, ov_siz, ov_img>>

HeaderSizes(f) == [j \in 1 .. MaxOvl |-> IF j <= Novl THEN Aout[f].siz[j] ELSE 0]

\* 0430 and 0431: base text and data as above, the overlays aside
ExecOverlay(f) ==
  LET g == Target(f)
      sep == Aout[g].magic = "0431"
      text == LoadSeg(Zeroed, 0, Aout[g].text, g, TEXT)
  IN /\ Free /\ IsOverlay(g) /\ Loadable(g)
     /\ ov_sep' = sep /\ ov_base' = OvBase(g) /\ ov_max' = Aout[g].max
     /\ ov_siz' = HeaderSizes(g) /\ cur_ovno' = 0 /\ ov_proc' = TRUE
     /\ ov_img' = [j \in 1 .. MaxOvl |->
                     IF j <= Novl THEN LoadOverlay(ov_img[j], g, j) ELSE ov_img[j]]
     /\ Isp' = (IF sep THEN "MI" ELSE "M")
     /\ MI' = (IF sep THEN text ELSE MI)
     /\ \E n \in 1 .. MaxArgs :
          /\ M' = SetupStack(LoadSeg(IF sep THEN Zeroed ELSE text,
                                     DataBase(g), Aout[g].data, g, DATA), Core, n)
          /\ SP' = Core - n
     /\ gbrk' = (DataBase(g) + Aout[g].data + Aout[g].bss) % Core
     /\ Started(f, g)
     /\ UNCHANGED v1sys

\* what a refused overlay header has already overwritten
PartlyRead(g) ==
  /\ ov_proc' = FALSE /\ cur_ovno' = 0
  /\ ov_max' = (IF HeaderShort(g) THEN ov_max ELSE Aout[g].max)
  /\ IF HeaderShort(g) \/ WindowTooLong(g)
       THEN ov_sep' = FALSE /\ UNCHANGED ov_base
       ELSE ov_sep' = (Aout[g].magic = "0431") /\ ov_base' = OvBase(g)
  /\ ov_siz' = IF HeaderShort(g) \/ WindowTooLong(g) \/ WindowTooHigh(g) THEN ov_siz
               ELSE [j \in 1 .. MaxOvl |-> IF j <= FirstBad(g) THEN Aout[g].siz[j] ELSE ov_siz[j]]

\* the carry is set and the caller goes on; a command line that cannot be
\* loaded ends apsim
ExecFails(f) ==
  LET g == Target(f) IN
  /\ Free /\ ~Loadable(g)
  /\ IF Binary(g) THEN PartlyRead(g) ELSE UNCHANGED overlay
  /\ halted' = (image = NoFile)
  /\ tried' = [file |-> f, ok |-> FALSE]
  /\ sb_depth' = DepthAfter(f)
  /\ UNCHANGED <<kern, image, core, ov_img, frames>>

-----------------------------------------------------------------------------
(* The running image. *)

Running == ~halted /\ image # NoFile
Modern == Running /\ ~V1Image(image)
DataEnd(f) == DataBase(f) + Aout[f].data
Plain == tried' = NotTried /\ UNCHANGED <<kern, image, sb_depth>>

\* faulty variant of Window: what was mapped before is not cleared
WindowNotCleared(space, n) ==
  [a \in Addr |-> IF a >= ov_base /\ a < ov_base + ov_siz[n] THEN ov_img[n][a - ov_base]
                  ELSE space[a]]

\* the window cleared and overlay n copied in
Window(space, n) ==
  [a \in Addr |-> IF a >= ov_base /\ a < ov_base + ov_siz[n] THEN ov_img[n][a - ov_base]
                  ELSE IF a >= ov_base /\ a < ov_base + ov_max THEN ZERO
                  ELSE space[a]]

MapOverlay(n) ==
  /\ IF ov_sep THEN MI' = Window(MI, n) /\ UNCHANGED M
               ELSE M' = Window(M, n) /\ UNCHANGED MI
  /\ cur_ovno' = n

HasOverlay(n) == n \in 1 .. MaxOvl /\ ov_siz[n] > 0

\* EMT with the overlay number in r0
EmtSwitch(n) ==
  /\ Running /\ Free /\ ~v1sys /\ ov_proc /\ HasOverlay(n)
  /\ MapOverlay(n) /\ Plain
  /\ UNCHANGED <<Isp, SP, gbrk, v1sys, ov_proc, ov_sep, ov_base, ov_max, ov_siz, ov_img,
                 frames, halted>>

\* an overlay the image does not have, or no overlay image and no SIGEMT handler
EmtHalts(n) ==
  /\ Running /\ Free /\ ~v1sys
  /\ ov_proc => ~HasOverlay(n)
  /\ halted' = TRUE /\ Plain
  /\ UNCHANGED <<core, overlay, ov_img, frames>>

\* under the First Edition traps EMT is a validated rts: it moves the pc, or
\* halts on a bad return address
EmtRts ==
  /\ Running /\ Free /\ v1sys
  /\ halted' = TRUE /\ Plain
  /\ UNCHANGED <<core, overlay, ov_img, frames>>

\* break and the 2.10 sbrk: refused at or above the stack pointer; a program
\* never gives back its loaded data (the First Edition break does nothing)
Break(a) ==
  /\ Modern /\ Free /\ ~v1sys /\ a >= DataEnd(image)
  /\ gbrk' = (IF a < SP THEN a ELSE gbrk)
  /\ Plain
  /\ UNCHANGED <<M, MI, Isp, SP, v1sys, overlay, ov_img, frames, halted>>

\* the guest itself: a program pushes above its break, and stores into its data
Push ==
  /\ Modern /\ Free /\ SP > gbrk /\ SP > Core - MaxArgs - MaxPush
  /\ SP' = SP - 1 /\ M' = [M EXCEPT ![SP - 1] = STACK]
  /\ Plain
  /\ UNCHANGED <<MI, Isp, gbrk, v1sys, overlay, ov_img, frames, halted>>

Pop ==
  /\ Modern /\ Free /\ SP < Core - 1 /\ SP' = SP + 1
  /\ Plain
  /\ UNCHANGED <<M, MI, Isp, gbrk, v1sys, overlay, ov_img, frames, halted>>

Store(a) ==
  /\ Modern /\ Free /\ a >= DataBase(image) /\ a < DataEnd(image) /\ a < gbrk
  /\ M' = [M EXCEPT ![a] = GUEST]
  /\ Plain
  /\ UNCHANGED <<MI, Isp, SP, gbrk, v1sys, overlay, ov_img, frames, halted>>

\* faulty variant of ScOvno: the frame does not record the overlay
ScOvnoOmitted == 0

\* a signal is delivered through sigtramp: the frame records the overlay
ScOvno == IF ov_proc THEN cur_ovno ELSE 0
Deliver ==
  /\ Modern /\ ~v1sys /\ Len(frames) < MaxFrames
  /\ frames' = Append(frames, [sc_ovno |-> ScOvno, was |-> cur_ovno, back |-> FALSE])
  /\ Plain
  /\ UNCHANGED <<core, overlay, ov_img, halted>>

\* the handler is back in the guest's sigtramp, which maps sc_ovno again
SigtrampEmt ==
  LET top == frames[Len(frames)] IN
  /\ Running /\ frames # <<>> /\ ~top.back
  /\ frames' = [frames EXCEPT ![Len(frames)].back = TRUE]
  /\ IF top.sc_ovno = 0
       THEN UNCHANGED <<M, MI, cur_ovno, halted>>
       ELSE IF ov_proc /\ HasOverlay(top.sc_ovno)
              THEN MapOverlay(top.sc_ovno) /\ UNCHANGED halted
              ELSE halted' = TRUE /\ UNCHANGED <<M, MI, cur_ovno>>
  /\ Plain
  /\ UNCHANGED <<Isp, SP, gbrk, v1sys, ov_proc, ov_sep, ov_base, ov_max, ov_siz, ov_img>>

\* ... and gives the context back
Sigreturn ==
  /\ Running /\ frames # <<>> /\ frames[Len(frames)].back
  /\ frames' = SubSeq(frames, 1, Len(frames) - 1)
  /\ Plain
  /\ UNCHANGED <<core, overlay, ov_img, halted>>

Next ==
  \/ \E f \in Files : \/ ExecV1(f) \/ ExecShared(f) \/ ExecSplit(f)
                      \/ ExecOverlay(f) \/ ExecFails(f)
  \/ \E n \in 1 .. MaxOvl : EmtSwitch(n) \/ EmtHalts(n)
  \/ EmtRts
  \/ \E a \in Breaks : Break(a)
  \/ \E a \in Addr : Store(a)
  \/ Push \/ Pop
  \/ Deliver \/ SigtrampEmt \/ Sigreturn

Spec == Init /\ [][Next]_vars
-----------------------------------------------------------------------------
(* Properties. *)

\* The values each variable takes; the overlays of a running overlay image lie
\* inside the space, which is what load_aout_env's checks are for.
TypeOK ==
  /\ kern \in Kerns /\ image \in Files \cup {NoFile}
  /\ M \in [Addr -> Cells] /\ MI \in [Addr -> Cells] /\ Isp \in {"M", "MI"}
  /\ SP \in Addr /\ gbrk \in Addr /\ v1sys \in BOOLEAN
  /\ ov_proc \in BOOLEAN /\ ov_sep \in BOOLEAN
  /\ ov_base \in 0 .. Core /\ ov_max \in Addr
  /\ ov_siz \in [1 .. MaxOvl -> Addr] /\ cur_ovno \in 0 .. MaxOvl
  /\ ov_img \in [1 .. MaxOvl -> [0 .. Slot - 1 -> Cells]]
  /\ sb_depth \in 0 .. 1 /\ halted \in BOOLEAN
  /\ frames \in Seq([sc_ovno : 0 .. MaxOvl, was : 0 .. MaxOvl, back : BOOLEAN])
  /\ tried \in [file : Files \cup {NoFile}, ok : BOOLEAN]
  /\ ov_proc => \A j \in 1 .. MaxOvl : ov_siz[j] <= Slot /\ ov_base + ov_siz[j] <= Core

\* every segment's cells are in the file, and none lies on another, the bss or the stack
Whole(f) ==
  \A s \in Segments : Aout[f].has[s] >= (CASE s = TEXT -> Aout[f].text [] s = DATA -> Aout[f].data
                                [] s = FILE -> 0 [] OTHER -> Aout[f].siz[s])
Fits(f) ==
  /\ Aout[f].magic # "0405" => DataEnd(f) + Aout[f].bss <= Core - MaxArgs
  /\ V1Image(f) => V1Base + Aout[f].text + Aout[f].data <= V1Top - MaxArgs
  /\ \A j \in 1 .. MaxOvl : Aout[f].siz[j] <= RoundUp(Aout[f].max)

\* While an overlay image runs with overlay n mapped, the window holds exactly
\* overlay n of that image and zeroes up to ov_max, in the space the text is in:
\* nothing is left of the overlay mapped before or of the image run before.
WindowHoldsCurrent ==
  (Running /\ ov_proc /\ cur_ovno # 0 /\ Whole(image) /\ Fits(image)) =>
    LET space == IF ov_sep THEN MI ELSE M
        size == Aout[image].siz[cur_ovno]
    IN /\ size > 0
       /\ \A i \in 0 .. size - 1 : space[ov_base + i] = <<image, cur_ovno, i>>
       /\ \A i \in size .. ov_max - 1 : space[ov_base + i] = ZERO

\* Whatever is switched, pushed, stored or given to break, the running image's
\* base text is as it was in the file, and a data cell is as in the file or as
\* the guest last stored it.
SegmentsInPlace ==
  (Modern /\ Whole(image) /\ Fits(image)) =>
    LET text == IF Isp = "MI" THEN MI ELSE M IN
    /\ \A i \in 0 .. Aout[image].text - 1 : text[i] = <<image, TEXT, i>>
    /\ \A i \in 0 .. Aout[image].data - 1 :
         M[DataBase(image) + i] \in {GUEST, <<image, DATA, i>>}

\* Code interrupted by a signal while overlay n was mapped finds n mapped when
\* sigreturn resumes it, however many handlers nested and whatever they mapped.
OverlayResumed ==
  [][(tried' = NotTried /\ Len(frames') < Len(frames)) =>
       frames[Len(frames)].was \in {0, cur_ovno'}]_vars

\* Whether an exec succeeds depends on the files alone, never on what was
\* exec'd, interpreted or refused before: a binary with a complete header loads,
\* and so does a script whose interpreter is one.
ExecByFileAlone ==
  (tried.file # NoFile /\ Aout[tried.file].magic # "text") =>
    (tried.ok <=> \/ Loadable(tried.file)
                  \/ /\ Aout[tried.file].magic = "script" /\ Aout[tried.file].words >= 1
                     /\ Loadable(Aout[tried.file].interp))

\* The header's promise that the EMT copy stays within the ov_max window: a
\* switch leaves every cell outside the window alone.
SwitchWithinWindow ==
  [][(cur_ovno' # cur_ovno /\ image' = image /\ tried' = NotTried) =>
       \A a \in Addr \ (ov_base .. ov_base + ov_max - 1) : M'[a] = M[a] /\ MI'[a] = MI[a]]_vars

=============================================================================
