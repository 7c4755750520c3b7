# TLA+ models of pdp11-xdev

pdp11-xdev is a PDP-11 cross-development toolchain for Linux: Ritchie's C compiler
(`cc`, `cpp`, `c0`, `c1`, `c2`), an assembler, a linker, archive and object tools, one C
library, and `pdp11-apsim`, which runs PDP-11 UNIX binaries of many eras ("universes")
as host processes.  The modules here model what of it can go wrong over time or over many
inputs; they are checked with TLC, and the modules of state machines are proved with TLAPS.

Source paths below are under `src/`: `apsim.c` is `src/pdp11-apsim/apsim.c`, and so on.

## 1. The system

| component | state it keeps | operations | hard behaviours | what makes it correct |
|---|---|---|---|---|
| apsim: signal delivery (`apsim.c` 291-515, 2384-2454, 2728-2907, 3401-3423, 6009-6071) | `pending_sig`, dispositions, `guest_reliable`, masks, frames on the guest stack, the host's dispositions | signal, sigvec, sigblock, sigsetmask, sigsuspend, sigwait, pause, kill, sigreturn, faults, the main loop's delivery | `hsig()` runs asynchronously between any two accesses of the one slot; masks nest; waiting calls race with it | nothing is handled that was not sent; masks are a stack; host and guest agree on who catches what; an unblocked signal is acted on |
| apsim: ptrace channel (1651-1928, 2049-2098, 2596-2635, 5987-6008) | per process: the control socket, listening socket, armed step, due trap; the bytes in the socket | fork, wait, ptrace, trace-me, stop, serve, exit | two processes on one stream with two kinds of messages; either may die at any point | the stream stays in step; a child told to be stopped stays parked; calls return; an orphan is released |
| apsim: loader, overlays, break (4916-4971, 5490-5861) | core (`M`, `MI`), `ov_*`, `cur_ovno`, `ov_img`, `gbrk`, `v1sys`, `sb_depth` | exec of every magic, scripts, EMT, break, signal frames' `sc_ovno` | a refused exec returns to the caller; images follow each other in one address space; handlers switch overlays | core holds what the files say; exec depends on the files alone |
| apsim: processes, files, directories (460-493, 1122-1285, 2019-2230, 2662-2670, 2788-2965) | `pidmap`, descriptors, `gdirs[]` | fork, wait, kill, open, read, seek, close, dup, dup2 | tables at their limit, copies at fork, snapshots keyed by a descriptor | what a descriptor reads is what was opened on it; a pid names the process it named |
| apsim: First Edition layer (3524-3861) | `v1sys` | traps with arguments in line | | |
| apsim: CPU, EIS, FIS, CIS, FP11, KE11-A (517-1000, 3900-5425) | registers, condition codes, accumulators | instructions | widths, sign, overflow, rounding, overlapping strings | results equal the reference arithmetic |
| cc driver (`cc.c`) | scratch files and who may remove them, exit and link flags, one-shot handlers | one run: every pass forked, waited for and judged, link, clean-up | signals between any two steps, failing or dying passes, scratch names shared by all sources | scratch is removed; an output comes from its own source; a failure is told and stops the link |
| ar, ranlib (`ar.c`, `ranlib.c`) | the archive and three temporary files | r, d, m, q; the table of contents | rewriting in place, signals between steps, a table that is out of date | members survive an update; the table leads to its members |
| ld (`ld.c`) | the symbol table, library members to load, sizes, overlays | pass 1, libraries with and without table of contents, layout, pass 2 | rounds over a library; common symbols; thunks | every reference meets its definition; commons do not overlap |
| as (`as.c`) | symbols, location counters, lengths of jumps | three passes over the source | the layout moves while jumps are decided | words mean what the source says; a jump reaches its label |
| cpp (`cpp.c`) | macro table, two nesting counters, side buffers | directives, macro calls, includes | calls and includes across buffer ends; skipped groups | the text is the source's with macros replaced, at the right lines |
| c0 (`c00.c` to `c05.c`) | one hash table for all scopes, operator stacks, labels | declarations, statements, expressions | deleting from an open-addressed table; statements within statements | names, layout, control and values are as written |
| c1 (`c10.c` to `c12.c`) | the tree under way | optimising trees, branches, switches | folding, commuting, unsigned and long | a tree keeps its value |
| c2 (`c20.c`, `c21.c`) | the list of a routine, what registers hold | rewriting until nothing changes | one rewrite undoing or enabling another | the routine computes what it did; it ends |
| das (`das.c`) | which words are code, label names | one object to source | words that look like instructions | `as` makes the same object of it |
| nm, size, strip, objcopy, xstr | none beyond one file | filters | | |
| libc | | the guest's library: `sigtramp`, stdio, malloc | | outside, except as environment |

The components meet at three places.  The main loop of apsim (`main`, 5986-6095) is where
traps, signals and instructions are sequenced, so signal delivery and the ptrace channel
share it.  The loader changes what an EMT and a signal frame mean.  Simulated processes
meet in the host: fork, wait, kill and the abstract sockets of the ptrace channel.  The
compiler's passes and the object tools meet in files only: `cc` decides which exist, and
the format of one's output is the next one's input (trees from `c0` to `c1`, objects from
`as` to `ld`, `ar` and `das`, the table of contents from `ranlib` to `ld`).

## 2. Plan

The behaviour that matters most came first: signal delivery, the ptrace channel, the
loader, the driver; then processes and descriptors; then the object tools and the
compiler's passes, which turn one input into one output and were modelled as functions and
short runs over enumerated inputs.  All of these are written and checked.  Proved are every
safety property of the first group, those of processes, descriptors, `c0`'s symbol table
and `ar`, and the search of archives by `ld` (section 5).

Left:

- the parts that the notes in `PROJECT.json` list for components with status `partly`;
- of proofs: `as`, and the layout and second pass of `ld` (`LinkSound`), for any input.  The
  way is the one taken for `ar` and for `ld`'s search: recursion written as functions over a
  sequence's indices, and a least index where a claim fails (section 5).

## 3. What each module models

### Signal delivery: `ApsimSignal`, `SignalMask`

One guest process under one of three kernel personalities (`v7`, `bsd210`, `bsd211`).
The variables carry the C names: `pending_sig`, `guest_sigh`, `guest_reliable`,
`guest_hmask`, `guest_sigmask`.  `hdisp` is what the host kernel would do with each signal.
`frames` abbreviates what lies on the guest stack: for each handler entered, whether its
frame is the V7 one (PC and PS only) or the 4.3 one, and the mask saved in it.  `pc`, `cur`
and `arg` are the simulator's own thread.

The grain is what makes the module worth having.  `hsig()` can run between any two
accesses of `pending_sig`, so testing the slot, copying it, clearing it and delivering are
`TestSlot`, `TakeSlot`, `ClearSlot` and `Deliver…`; `sigwait` reads the slot three times
and has three steps after its test; `pause`, `sigsuspend` and `sigwait` test the slot in
one step and sleep in another.  `HostCatch` is `hsig()` itself and may happen at each of
these points.  A guest instruction without effect on signals is `Ordinary`; every system
call that has one is an action with the call's arguments taken from small sets.

`SignalMask` is the abstract specification.  It knows a stack of masks (one for the
program, one for each handler above it) and whether a `sigsuspend` is under way, nothing
else.  The mapping makes the stack out of the masks saved in 4.3 frames followed by the
mask in force, or by the mask to be restored while `sigsuspend` waits.

A handler is assumed to return the way it was entered: a 4.3 frame by `sigreturn`, a V7
frame by RTI or RTT.  Programs that leave a handler with `longjmp` are outside.

### The ptrace channel: `ApsimPtrace`

A debugger process and the children it forks.  What one side has written and the other not
yet read is a sequence of messages per direction (`toD`, `toK`); a stop or exit
notification and a reply travel on the same stream, as in the source, so being out of step
is a state the model can reach.  The debugger's `wait()` is split at each point where it
blocks or looks again: `find` (the search for a listening child), `read`, `reap`,
`waitpid`.  A child is at the top of the main loop, about to execute, or somewhere inside
`pt_stop()`: accepting, notifying, serving.  `HostKill` ends a child at any of them, and
`DebuggerExit` ends the debugger whenever the guest program may make a call.

The constant `Disciplined` says whether the debugger keeps to the manual: it then asks only
about a child it was told has stopped, and waits only when none is stopped.  A program that
does not can read its own notification as a reply, which is its error and not the
simulator's.  Two things are left out: a third process forked while a connection is live,
and `WNOHANG` on the channel.

### Loader and overlays: `ApsimExec`

`load_aout_env()` for every magic it knows (First Edition 0405, V1 0407, 0407, 0410,
0411, 0430, 0431), scripts, and every way it refuses an image, the half-read overlay
header included.  Core is a function from cells to *where the cell came from*: which file,
which segment, which offset, or else zeroed, stack, or stored by the guest.  With contents
represented by origin, "the right bytes are in the right place" is a plain equality.
`ExecFails` leaves whatever the refusing path had already overwritten, since a failed
`exec` returns to its caller.

The guest then switches overlays by EMT, returns through the EMT thunk, moves its break,
pushes, pops, stores, takes signals (`Deliver` saves `sc_ovno`), lets the handler's
trampoline map another overlay, and returns.  `tried` is a history variable: the last file
that was given to exec and whether it was accepted.

Not represented: the strings of `argv` and `envp` beyond their size, the exact arithmetic
of R6 inside a frame, the `APSIM_DBASE` switch, and handlers that stay registered across an
exec.

### Processes and descriptors: `ApsimKernel`, `ApsimProcess`, `ApsimFiles`

`ApsimKernel` holds the personality (`V1`, `V56`, `V7`, `BSD`), which the other two share.
In `ApsimProcess` a guest process is a host process; the host's table (`proc`, `parent`) is
the environment, and each process has its own `pidmap`, inherited at fork and extended by
`pid_learn`.  Guest pids are the low 15 bits of host pids (`Low15`, with a small modulus),
so aliases, a full map and a First Edition program that learns nothing are all reached.
The two sides of a fork are separate steps: a child runs before its parent has learned it.

`ApsimFiles` models descriptors as apsim shares them with the host: `fds` maps a process's
descriptors to the host's open file descriptions, and `gdirs` is the table of directory
snapshots keyed by descriptor, copied by `ForkFiles`.  open, close, dup, dup2, read, seek
in its V1, V6, V7 and BSD argument forms, fork and exit are actions.  `carry` is the C bit
that tells the guest whether dup2 failed.  Contents are abstract: a file is its length and
the offset in it, a snapshot its slot and the offset in that.

### The processor: `ApsimCpu`, `ApsimFp`, `ApsimCis`, `MCApsimCpu`

Pure functions from machine to machine.  Widths are constants, so that a small word has
every operand and every overflow of the real one.  `ApsimCpu` has the addressing modes with
their side effects, every integer instruction with its condition codes, calls, EIS and the
KE11-A; `ApsimFp` the FP11 and FIS with numbers as sign, exponent and fraction, normalised
and rounded as the code does; `ApsimCis` character and decimal strings over a memory of
bytes.  `MCApsimCpu` chooses a machine and a short program at the start and runs it: the
idioms of the compilers and libraries (long arithmetic by ADC and SBC, comparison and
branch, balanced pushes and calls), one operation on every pair of numbers or strings.
`MCApsim` puts these with processes and descriptors into one run, each behaviour choosing
one of the three at its start.

### Compiler driver: `CcDriver`

One run of `cc`, from the options to `exit()`.  `fs` maps each path to what it holds: the
source it derives from and a form (`cpp`, `il`, `asm`, `opt`, `obj`, …), with `partial` for
an output that was created and not finished, and `broken` for the object that `as` writes
although it found errors.  `callsys()` is `Fork`, the pass's own `Open`, then `Succeed`,
`Fail` or `Die`, and last one action for each thing `main()` does with the outcome
(`Dropped`, `Preprocessed`, `Parsed`, `Generated`, `Optimised`, `Unoptimised`, `Assembled`,
`Fatal`, `Loaded`).  A pass that cannot be found is a child with status 100 (`callsys`
prints "Can't find" and returns that), and what `main()` makes of 100 is what it makes of
any other status; the history variable `unfound` remembers it.  `tmp3`, `tmp4` and
`assource` are variables because the program reassigns them.

`dexit()` is one step per `unlink`, so that a second signal can fall between them: this is
a strict C99 build, where `signal()` has System V semantics and a handler is used up by its
first call.  `Interrupt` is a terminal's SIGINT, which reaches `cc` and the pass together;
`Terminate` is a SIGTERM sent to `cc` alone, which leaves the pass running.  The passes and
the host's file system are external; of them only which files they read, create and finish,
and their exit statuses, are used.  The `-B`, `-t`, `-f`, `-v` and `-p` options change names
of programs or libraries, not the sequence of steps, and are absent, as are the sizes of
the argument arrays.

### Object tools: `Archive`, `Ld`, `As`, `Das`

`Archive` is one archive in a directory of files under `ar` and `ranlib`.  A member is its
name, the version of the file it holds, and a date.  A run of `ar` reads the archive member
by member (`ReplaceOne`, `DeleteOne`, `MoveOne`) into up to three temporary files, which
swap roles at the position asked for (`bamatch`), and then empties the archive and copies
them back (`Truncate`, `CopyBack`).  Making a temporary file and recording its name, which
is where `done()` looks for what to unlink, are two steps for each of the three (`Begin` and
`InitNamed`, `ThirdMade` and `ThirdNamed`, `SecondMade` and `SecondNamed`); `disk` is what
exists and `recorded` what is known.  `SecondFails` is the second `mkstemp()` failing inside
`bamatch`, which ends nothing: `tf1` stays 0, the standard input.  `Interrupt` is a signal
at any step at which they are caught, or an error that ends the run before the archive is
emptied.  `Ranlib` stores a table of contents and dates it; `LdUsesTable` is the condition
under which `ld` believes it.

`Ld` is a link: pass 1 argument by argument, libraries searched once without a table and
until nothing is added with one (`ldrand`, repeated by `rescan` as often as the archive has
members; that this reaches the round at which the code stops is a theorem, and the rounds
after that one find and leave the same), overlays and their thunks, `Middle` for commons
and the bases, pass 2 with the relocation of every word, and a second link of what `-r`
put out.  Sizes are in words.  A word carries an `id` that the linker never looks at: which
definition it is and which it refers to, so that "every reference arrives" is stated
without repeating the arithmetic.

`As` assembles a program of statements in the three passes of `assemble()`: `estimate`,
`decide`, where `spanrec` chooses short and long jumps while the layout moves under it, and
`emit`.  Numeric labels, segments, `.if`, symbol assignment and expressions are there.
`Das` is the disassembler as functions: which words are reached as code, how each is spelt,
which label a numeric reference gets.  `MCObjectsInputs` has the objects and command lines
for `Ld`, programs for `As` and objects for `Das`; a program that `Das` wrote goes through
the same `As`.  `MCObjects` runs these tools, one per behaviour.

### The compiler: `Cpp`, `C0…`, `C1…`, `C2…`, `CTrees`

`Cpp` scans files of tokens through buffers of fixed size, with side buffers for what does
not fit, two counters for conditionals, and macros with arguments.  `C0Names` is the symbol
table with its push-down and in-place deletion, and the storage of locals.  A function's
declarator is read in the code's order: `getype()` enters the name and declares the
parameters at level 1 (`Function`, `Parameter`); back at level 0 `decl1()` declares the
name or reports it redeclared (`Declarator`), and what was then a function has a body
(`cfunc`) or has not (`NoBody`).  Beside the table it keeps `scopes`, what C says is
declared at each block level, and `stray`, whether parameters were left of what had no
body, as history variables: what the other variables become never depends on them.
`C0Statements` has the labels and jumps of every statement form, its recursion a stack;
`C0Tree` the operator precedence parser; `C0Layout` declarators, structures and
initializers; `C0Build` the typing of expressions.  `CTrees` holds the trees `c0` gives
`c1` and what a tree means to the machine.  `C1Optim` is the tree optimizer, `C1Branch`
conditions, comparisons of longs and the three forms of a switch.  `C2List` and `C2Regs`
are the rewrites over a routine's list and its registers, `C2` the order in which `main()`
calls them until nothing changes. `MCTreeInputs` and `MCCInputs` enumerate inputs;
`MCCompilers` runs one part of one pass per behaviour.

## 4. Runs, and what they show

Seven runs must pass; five must fail, and show a disagreement between the code and what a
document or comment says of it.  Every property of a passing run has a mutant in
`PROJECT.json`: a plausible mistake in a definition, under which TLC finds the property
violated.

**signal** (599,494 states).  Two signals with opposite natures, TSTP which comes from the
host and stops by default, and ILL which the emulator raises, one handler, masks that are
empty or hold TSTP.  `NoDoubleHandling` counts: no signal is acted on, by handler, default
action or `sigwait`, more often than it was recorded, whatever the interleaving.
`HostMirror` says that host and guest agree on what is caught and what ignored, after any
mixture of `signal`, `sigvec` and the one-shot reset.  `MaskDiscipline` is the refinement of
`SignalMask`.  `UnblockedIsHandled` is liveness: a recorded and unblocked signal is acted
on unless another overwrites it, it becomes blocked, or the process sleeps.

**signal_blocked** refutes what `apsim.c:6010-6011` says of blocked signals.  One slot holds
one signal; a blocked one is lost when any other arrives.

**signal_read** refutes `apsim.c:3441-3442`.  `hsig()` is installed with restarting
semantics, so a handler due during a slow `read` waits until input comes.

**ptrace** (147,716 states).  One debugger that keeps to its manual, two children, one
signal from outside, kills everywhere.  `StoppedIsParked`: whenever the debugger believes a
child stopped, it sits in `pt_stop()` with an empty stream both ways.  `NoUnaskedStop`:
single-stepping is armed only by the debugger's last resume.  `ChannelInStep`: replies
answer the call that waits for them, notifications go to `wait()`.  `Released` and
`RequestAnswered` are the two liveness claims, that a child outlives its debugger unparked
and that `ptrace()` returns.

**ptrace_wait** refutes the comment at `apsim.c:1907-1908`: a plain child costs more than a
delay when the other child is traced, since `wait()` blocks on the tracee's channel.

**exec** (69,515 states).  Nine files: one for each format, an overlay header that must be
refused, a script, and a script whose interpreter is a script.  `WindowHoldsCurrent` and
`SegmentsInPlace` say what is in core; `OverlayResumed` that interrupted code finds its
overlay mapped again; `ExecByFileAlone` that history never decides whether a load succeeds.

**exec_window** refutes `docs/design.md:247-248` of apsim: an overlay longer than `ov_max`
is accepted and its switch writes above the window.

**cc** (497,963 states).  Two C sources under eight option sets, and further mixtures of
sources, assembler text and objects; sources may be missing and stale objects may be lying
about; every pass may be absent, fail, or die; SIGINT ignored or not.  `ScratchRemoved`,
`OwnText`, `FailureReported`, `SourcesIndependent`, `RemovedOnlyLinked` and `Ends` are
explained where they are defined.  Exceptions written into them are real limits of the
code: a second signal kills `cc` inside its clean-up, and a pass that outlives a SIGTERM
can create a file after it was removed (`ScratchRemoved`); and `cc -S a.c a.s` assembles
the `a.s` that `c1` or `c2` has just written over, finished or not, so `OwnText` and
`SourcesIndependent` speak, under `-S`, of sources no two of which have one name.
`SourcesIndependent` also excepts runs in which a pass could not be found: cc's design.md
says that such a run ends there, the code goes on with the next source (section 6), and
neither is claimed.

**cc_fallback** refutes `docs/design.md:82-83` of cc.  A failure of `c2` makes `tmp3` and
`tmp5` one file for the rest of the run.  At the next failure of `c2` there is nothing left
to fall back to; `as` then exits 1, which the driver does not count, and with `-c` it exits
0 without the object.  (With `-S` a single failure is enough to lose the output, because
the fallback is a scratch file.)

**machine** (328,714 states).  `DescriptorsSound`: no slot of `gdirs` leaks or is owned
twice, and a seek lands where it was asked to, but for the negative long below.
`SnapshotKept`: a directory keeps its snapshot while its descriptor is open, and a child
starts with its parent's.  `StaleOnlyByDup2`: only dup2 onto that very descriptor leaves a
snapshot behind for something else.  `NamedIsReached`: kill and wait4 reach the process
named, but for three named causes.  `IntegersExact`, `StackKept`, `FloatExact` and
`StringsExact`: results equal those of integers, branches go where the relation of the
operands says, pushes and calls balance, a floating result is the exact one rounded or
chopped once, decimals are those of the numbers their strings stand for.

**objects** (704,166 states).  `ObjectMeansSource` and `LabelsStay` for `as`; `RoundTrip`
for `das` through `as`; `LinkSound` and `SearchComplete` for `ld`; and for `ar` and
`ranlib` two properties.  `InterruptedIntact`: until it is emptied the archive is what it
was, and a run that ends, by whatever, leaves no temporary file but one that `mkstemp()`
has made and whose name is not recorded yet.  `ArchiveAsAsked`, of three parts: an archive
that is installed is what the command asked for, unless the second temporary file could not
be created (`EditsAsAsked`); the table that `ranlib` has written leads to the members, and
`ld` uses it (`TableLeads`); it goes on to do so through `q`, interrupted runs and changes
to the files, until `r`, `d` or `m` installs an archive (`TableLasts`).  After that the
table may be wrong and is believed all the same, so nothing is claimed (section 6).

**compilers** (591,162 states).  `OutputMeansSource` for `cpp`; `DeclarationsHold` (but for
files that leave parameters of what has no body, section 6), `JumpsArrive`,
`ExpressionsKept` for `c0` and `c1`, the meaning of a tree being that of `CTrees` in every
one of a set of memories; `Improves` for `c2`: a routine computes what it did, and the
rewriting ends.

### Bounds

| bound | value | why it is enough |
|---|---|---|
| `MaxRaise` | 2 for the host's signal, 1 for the fault | one signal in flight and another recorded over it is the whole of the race; two of one kind make "handled twice" distinguishable from "sent twice" |
| `MaxSignals` | 1 for one child | a signal stop next to a trap stop; more repeat the same path |
| `Core`, `Page`, `Slot` | 10, 2, 3 cells | overlays shorter and longer than the window, images that end on and off a boundary, a stack that meets neither |
| `MaxPush`, `MaxArgs`, `Breaks` | 1, 1, two addresses | below and above the stack pointer |
| `MaxFrames` | 2 | a handler interrupted by a handler |
| files of `exec` | nine | one for each branch of the loader |
| sources per `cc` run | 2 | state carried from one source to the next is carried over one boundary |
| `HostPids`, `PidModulus`, `PidSlots` | five pids, 4, 4 | pids that share their low bits, one that is a multiple of the modulus, a map that fills up |
| `Guests`, `Fds`, `Descs`, `NGDIR` | 2, 2, 2, 1 | two directories and one snapshot; a descriptor shared by dup and by fork |
| `Size`, `MaxPos`, `WordValues`, `Block` | 1, 2, 2, 2 | both sides of the end of the file and of a word |
| `H`; `D`, `F`, `G`, `EB` | 2; 12, 4, 14, 4 | every pair of 4-bit words; fractions long enough to align, cancel, carry and round |
| `Base` | 3 | carries between digits |
| `Round`, `Page` (of `Ld`), `Origin1` | 4, 8, 6 | sizes on and off a boundary |
| gaps in the programs of `MCObjectsInputs` | about 252 and 508 bytes | each side of a branch's reach |
| `MaxVersion`, `MaxMembers`, `MaxRuns` | 2, 3, 4 | an update, a table, an edit and another update |
| `Bufsiz`, `MaxLines`, `Symsiz` | 3, 4, 20 | calls and includes across two buffers |
| `HSHSIZ`, `MaxDepth`, `MaxEvents` | 4, 2, 4 | colliding names, wrap around, a block within a block |
| `Bits`, `WordValues` of the compilers | 6; the boundaries | sign, carry and overflow of words and longs |
| `Reach`, `Fuel` | 12, 12 | `sob` in and out of reach; loops entered more than once |

The signal module's masks and handler sets are closed under the operations that combine
them, so a larger instance adds no new kind of mask.

### Fairness

`ApsimSignal` asks weak fairness of the simulator's own steps together: the host schedules
the process.  It asks none of whoever sends signals, types input or continues a stopped
process.  `ApsimPtrace` asks it of each process separately, as these are separate host
processes, and never of the debugger's decision to make a call: a debugger may think for
ever.  `CcDriver` asks it of the driver and of the running pass; a pass that loops for ever
would keep `wait()` waiting, and that is the pass's fault.  The other modules state no
liveness.  (That `c2` ends is stated as an invariant: it never walks in a circle, and takes no more
rounds than the routine has lines.)

## 5. What is proved

All theorems hold for every value of the constants that satisfies the modules' assumptions,
which are of the kind "pids are positive", "the table has at least two entries", "handlers
are neither SIG_DFL nor SIG_IGN".  The proofs of a component are in `<module>_proofs`, those
of `ApsimFiles` and `ApsimProcess` together in `ApsimKernel_proofs`.

| module | theorems | property stated |
|---|---|---|
| `ApsimSignal_proofs` | `TypeCorrect`, `HandledAtMostOnce`, `DispositionsMirrored`, `MasksKept` | `TypeOK`, `NoDoubleHandling`, `HostMirror`, `MaskDiscipline` |
| `ApsimPtrace_proofs` | `PtraceTypes`, `ChannelAgreed`, `StoppedParked`, `StepsAsked`, `AnswersInStep` | `StoppedIsParked`, `NoUnaskedStop`, `ChannelInStep` (the last three) |
| `ApsimExec_proofs` | `ExecTypes`, `ExecFilesOnly`, `WindowHeld`, `SegmentsKept`, `OverlayBack` | `ExecByFileAlone`, `WindowHoldsCurrent`, `SegmentsInPlace`, `OverlayResumed` (the last four) |
| `CcDriver_proofs` | `CcTypes`, `FailureTold`, `ScratchGone`, `TextsOwn`, `ObjectsKept`, `SourcesApart` | `FailureReported`, `ScratchRemoved`, `OwnText`, `RemovedOnlyLinked`, `SourcesIndependent` (the last five) |
| `ApsimKernel_proofs` | `DescriptorsHold`, `SnapshotsLast`, `StaleByDup2Alone`, `NamedReached` | `DescriptorsSound`, `SnapshotKept`, `StaleOnlyByDup2`, `NamedIsReached` |
| `C0Names_proofs` | `Invariant`, `NamesResolve`, `DeclarationsAlwaysHold` | `DeclarationsHold` (the last) |
| `Archive_proofs` | `ArchiveInvariant`, `AsAsked`, `ArchiveIntact` | `ArchiveAsAsked`, `InterruptedIntact` (the last two) |
| `Ld_proofs` | `LinksWellFormed`, `RescanEnds`, `SearchIsComplete`, `CommonsAllotted` | `SearchComplete` (of the third) |

**Signals.**  `TypeOK` alone is not inductive: that `cur` is a signal when delivery reads it
follows from what the locals mean at each `pc` (`Control`), for instance that the slot is
full between the test and the copy.  `HandledAtMostOnce` bounds `handled + in flight + in
slot` by `raised`, where a signal that is both in `cur` and still in the slot counts once;
the difficult steps are `ClearSlot` and `SigwaitClear`, where the slot may by then hold
another signal than the one copied.  `MasksKept` is the refinement: initial states map to
initial states and each step of `ApsimSignal` to a step of `SignalMask` or a stutter.  What
it needs beyond typing is that the extra mask of every handler is one of `HMasks`
(`HandlerMasks`), and lemmas on the frames of a stack: entering a V7 handler leaves the
saved masks as they are (`AppendPlain`), entering a 4.3 one puts the mask in force behind
them (`AppendBsd`), leaving one takes the last away.

**Ptrace.**  `PtraceTypes` needs no assumption about the debugger.  The others take
`Disciplined` as their hypothesis: the run sets it, and without it a program can read a
notification as a reply.  The inductive invariant `PtraceInv` says, for each child, which
ends of the socket are open at each place either side may be (`Sockets`), that one request
at most is on its way and a step is armed only if it was asked for (`Steps`), and what may
be in the two directions of the stream given what each side believes (`Channel`); and what
the debugger's locals mean (`DebuggerInv`).

**Loader.**  `ExecFilesOnly` rests on `sb_depth` being 0 between steps (`DepthClear`); with a
stale depth the next script would be refused although its file is good.  `WindowHeld` and
`SegmentsKept` rest on `Placed`: the header is that of the running file, its overlays lie in
core, text, data and the mapped overlay are where the header puts them, and the stack and
the break never reach below what must not be written.  The geometry (rounding, segments
apart, what fits) is a set of lemmas of its own; that the loader finds the first bad
overlay if there is one uses that a set of naturals has a least element.  `OverlayBack`
adds what every frame on the stack has recorded (`Resume`).  All of it excepts the images
that **exec_window** is about, by `Fits` in the properties themselves.

**Driver.**  `Control` says what the locals mean at each `pc`; `Names` which path each of
`tmp1` to `tmp5`, `tmp3` after a failed `c2` included, may stand for; `ScratchKnown` that
every scratch file that exists is one that `dexit()` will remove.  `TextsOwn` rests on
`Pipe`, the invariant of the whole pipeline: which source each scratch file was made of at
each place in the loop, whole or partial, and that the running pass reads a whole one.
`SourcesApart` adds that sources already passed have their object or text, for runs in which
every pass was found; `ObjectsKept`
and `FailureTold` that a failure implies a non-zero status and the flag that skips `ld`
(`NoLink`), or a `cc` already cleaning up.

**Descriptors and pids.**  `FilesInv` is typing, that First Edition guests and guests that
are not there have no snapshots (`HasNone`), and that each used slot belongs to one open
descriptor.  `PidInv` is typing, that a child inside fork has no children yet, and that
every process a guest knows is in its map unless the map is full or the guest is a First
Edition one (`AllLearned`).

**Symbol table.**  Here the theorem is about an algorithm as much as about steps: a table
with linear probing from which `blkend()` deletes in place, in one sweep that starts at
`endcs` and rehashes what it keeps.  `Book` says what must be true between steps: a slot is
free or holds one name, the declarations pushed down in it are C's outer ones of that name
in descending order of block (`Denotes`), a name without a slot is declared nowhere, there
is a free slot, and every name is reached on its probe past names entered *no deeper* than
itself (`Path`).  The last is the point.  A name below a deeper one would be lost when that
one is deleted; since blocks nest, a name entered later is entered deeper or equally deep,
and stays behind.  During the sweep this is claimed of the names of the blocks around only
(`Paths`), and each slot is as it was or already the outer block's, by its distance from the
free slot where the sweep starts (`Sweeping`).  A name of the ending block that is kept goes
to the first free slot on its probe; the sweep meets a run of collisions from its head
(`PosBefore`), so the slots before it have been visited and no later visit frees one.  `FunctionLabels`
adds that labels live above the file's level, which `goto` relies on.  Between declarators
all this is `IInv`; while a function's parameters are read it is `Naming`: the function's
name has a slot and no declaration in it yet, and the rest of the table is as it will be
once it has one (`HasSlot`, either `Known`, declared before, or `Entering`).  A parameter of
the function's own name, `f(f)`, is pushed onto that very slot, so that the name is then
refused as redeclared.

`Apart` is the storage: every declaration of a block with an offset, register or label
number of its own is within what has been given out, in the blocks inside which it is
visible as in its own (`Given`, which compares with `autolen` and `regvar` and with their
values saved at each `{`), and any two are clear of each other (`Clear`); outside a body
nothing has a place yet (`Placeless`).  That a parameter's place is clear of the others
comes from the two sequences `funchead()` walks, upwards from `STARG` and downwards from
`regvar`.  The theorems assume nothing of the hash but that it names a slot, and nothing of
the number of names, slots, blocks or declarations; the bounds are constants.  What the
table *means* when it overflows is not claimed: the compiler exits (`Overflow`).  Nor is
anything claimed of a file after `stray`: parameters of what has no body stay at level 1
while the file goes on at level 0, against the order of levels on which `Path` rests.

**Archive.**  `ArchiveIntact` rests on `Accounted`: what exists and is not recorded is, at
each `pc`, exactly the file just made (`JustMade`), which needs that the second file is
made once in a run (after it `bastate` is 0) and the third before it.  `AsAsked` compares
two programs: `ar`, which goes through the members once and hands each to one of up to
three temporary files, and `Asked`, which says of the old archive as a whole what the new
one is. Its invariant says, for a scan that has `p` members behind it, that the names left
are the names asked for less those met (`Remaining`), so that a name stands for its first
member; that `bastate` is a function of `p` and the position (`Told`); that the first file
holds the answer's part up to `p` and, once the position is passed, is the second file
while the first collects what comes behind it (`TwoFiles`); and that the third holds the
members to be moved.  `cleanup` swaps the first two back and adds what is new, and the
three files in the order of `install` are then `Asked` (`Cleaned`).  Between the making of
the second file and the swap the two are as before (`Splitting`); when it could not be made
the scan is `Lost`, and the theorem excepts what follows.  A position that no member has is
the end; a temporary file that was never created differs from an empty one, as it does in
the code (`tf1nam` is null), and the proof needs that.

For `ranlib`, every member moves by exactly `offdelta` when the table is put in front or
replaced by one of another length (`MovedBy`), so the entries lead to the members; and `ld`
uses the table because its date is `FarFuture`.  Members added at the end move none that is
there, so `q` leaves the table right (`TableLasts`).  Assumed is that no file is called
`__.SYMDEF` and that runs end before that date.  Nothing is claimed of a table after `r`, `d`
or `m` have installed an archive, nor of one that an edit has put behind another member:
ranlib rewrites it where it is, and `ld` sees none.

**Archive search.**  A library with a table is searched in rounds, and a round tries the
member behind every entry whose symbol is undefined at that moment.  Three things could go
wrong: a member is taken twice, a definition that is wanted is left, the rounds do not end.
The table only ever grows (`Grows`: names stay where they are, what is defined stays as it
is, commons get larger), so what has been met once stays met.  A member, when it is taken,
leaves each symbol it defines met (`Filled`): defined, or common where the member has text,
which does not define a common.  From then on it defines nothing the table wants
(`Settled`), and `load1` rips it out; hence the members taken are different ones, they are
no more than the archive has, and after that many rounds one has been quiet.  A member
ripped out may have raised commons, which settles no less; so a quiet round, in which each
member was found settled when it was tried, leaves all of them settled at its end
(`Quiescent`).  That is `SearchComplete`, but for symbols that are common and may stay so.
The count of the members is a pigeonhole over the indices of the archive.

`CommonsAllotted` is the step of `LinkSound` that can be proved apart from the rest: for any
table, however many commons of whatever size, `Allocate` gives each as many words as it needs
within the `csize` words added to the bss, and no word to two of them.

The theorems on runs of `ld` take `LinksAreOfObjects` as their hypothesis: the arguments are
objects and archives of objects, and an object has a symbol once, as everything `as` writes
has.  TLC evaluates it for the inputs of **objects**, as `LinksAssumption` in `MCObjects`.
`LinksWellFormed` keeps it through `-r`: what `ld` puts out is such an object again.

These and **Archive** rest on facts about recursion over a sequence: what `Those` keeps of a sequence when one
element more is looked at, and what `Offset` adds up to.  That such a function exists
and is what its equations say is proved once (`Recursion`, `Definition`), by a least index
at which it would fail (`UpTo`), which needs no induction rule.

Proof attempts that failed for a good reason changed the model or its properties.
`OwnText` and `SourcesIndependent` were false for `cc -S a.c a.s`, which no instance had.
`SnapshotKept` said of fork less than the code does, and now says that the child starts
with its parent's snapshots.  In `ApsimPtrace` a child that is forked while the debugger
holds a dead connection inherits it (section 6).  The refinement mapping of
`ApsimSignal`, once written with `SelectSeq`, is written with the number of 4.3 frames
below a frame, about which steps can be reasoned without induction.  `Archive` had a
`SelectSeq` too, whose recursion cannot be unfolded in a proof; it has `Those` now.  It had
no difference between no temporary file and an empty one.  `Ld` searched with folds of the
library, which a proof cannot unfold either; they are functions over indices now, and that
an object has a symbol once, which the code takes for granted, is stated.

### Only model-checked

- Liveness and with it ENABLED: `UnblockedIsHandled`, `Released`, `RequestAnswered`, `Ends`.
- The processor (`IntegersExact`, `StackKept`, `FloatExact`, `StringsExact`): its modules use
  the bit operations of `Bitwise`, which are recursive operators.
- `ObjectMeansSource`, `LabelsStay`, `LinkSound`: claims about folds and recursive functions
  over whole inputs, pass by pass; an induction over each would have to be unfolded by hand,
  as it is for the search of `ld`.
- `RoundTrip` and, of **compilers**, all but `DeclarationsHold`: the disassembler and the
  compiler's other passes are recursive operators over code and trees.

## 6. What is not modelled, and what the models assume

The components of `PROJECT.json` with status `not_modelled` or `partly` say what is missing.
The `map` there lists the definitions that stand for code; a one-line helper whose lines a
listed definition already covers is not listed again.
In short: encodings, lexing, text formats and options that only rename things; the
table-driven selection of code in `c1`; floating types in the compiler; stripped and linked
images in `das`; the filters; the guest's C library, which runs inside the simulator and is
only an environment here.

Inputs are chosen where the code keeps its promise.  Where it does not, and no run is spent
on it, the input is left out and the disagreement noted here.

**apsim, processes and files.**  V7 dup2 of a closed descriptor (`apsim.c:2664`;
`docs/syscalls/parity.md:21`); a negative long offset to seek goes 2^32 too far (about
2172-2176; excepted in `DescriptorsSound`); V2 kill goes through `pidmap`, which V1 and V2
forks never fill; the First Edition layer serves no directory snapshots (`README.md:63-66`,
`design.md:191-194`); a host pid that is a multiple of 32768 makes fork return 0 to the
parent (2040); readv and getdents do not read the snapshot; fork un-shares the position in
a directory.  signal(2) compares a guest's number with the host's SIGSTOP (2402); exec keeps
`guest_sigh` (2700); `v1sys` is never reset (5714).  A child forked while the debugger still
holds a dead connection inherits it as its own `pt_cfd` (1785), so that its first stop
writes to a dead peer.

**apsim, instructions** (`README.md:25-26` promises the hardware's).  NEG of the most
negative number leaves V clear; ADC and SBC leave V and C alone where the hardware sets
them, and ASH leaves C; cvtln and cvtlp never give a negative number; the KE11-A divides an
unsigned dividend; in chop mode a sum of operands more than `G - 1` bits apart, and an
accumulator wider than F mode, round wrongly; the inline CIS forms still set R0 to R3.

**cpp.**  After `#define b x` and `#define a b a` the call `a` never ends, the guard against
recursion being reset by the call in between (`docs/user-guide.md:41`); `#define 1x` unbalances the conditionals (1018-1024); the name of
a function-like macro without a parenthesis loses the next token (380-395); newlines
inside a call are counted wrongly; division by zero in `#if` is not guarded.

**c0.**  A char field that follows an int field wider than a char shares bits with it (`int
f:9; char g:3`); an initialized union puts out every member; `char s[2] = "ab"` at top
level is refused.  Parameters named by a declarator that has no body, `int f(a);`, a
pointer to such a function, a typedef of one, or `f(f)`, which is reported as redeclared,
stay at level 1 (`c03.c` 560-566, `c02.c` 44-62), where they hide what the file declares
until the next function ends; only some of these are reported ("Inappropriate parameters"),
and `DeclarationsHold` excepts all (`stray`).  Left out of `C0Names` are a `{` behind a
declarator that was refused, and a body behind a declarator that redeclares a typedef's
name as a function.  `^` and `|` have one priority; `x ? y ? a : b : c` and `x ? a = b : c`
are rejected; a comma inside `[]` in an initializer ends it; `goto p` with a global pointer
`p` makes it a label; an `extern` inside a block keeps the hidden entry's pushed-down
state. Constants are computed at the host's width: `(unsigned)0100000*2/2` is 0100000,
`0100000 < 0` is 0, constants beyond a word are put out (c1 `docs/design.md:153` says
"16-bit integer semantics"; `porting.md:120` concedes it).

**c1.**  `0 < (a<b)` becomes the constant 0 and `0 >= (a<b)` 1 (`c12.c`, about 247-264);
`-((a<b)>=0)` negates a shared node, after which comparisons yield -1; `((char)0300)>>2`
folds to 0; `f()*0` and `(x++<3)>=0` lose their side effects; `70000L - 70000L` reads before
`llist` (`acommute`, about 665); `(long)x < (long)u` compares as unsigned ints
(`c11.c` 631-637); an int divided by an unsigned uses signed division.

**c2.**  `dest()` never clears `conloc` although `docs/design.md` (about 29) says so; a routine
that jumps to its own end forever, `main(){ x++; x++; for(;;) x++; }`, is rewritten for
ever; `clrb` is recorded as a word constant; a register that holds `*p` survives a write to
a named cell `p` points to.  The routines given to the model are without these forms
(`Plain` in `MCCInputs`).

**as.**  A jump to an external, data or absolute symbol within the first 254 bytes of text
becomes a short branch without relocation (1333-1340); a forward reference in `.if` can end
in "span branch out of range" (about 1380); `sob` out of range is silent.

**ld.**  Two pairs of `-Z` and `-L` give both overlays number 1 (`docs/design.md:149`,
`user-guide.md:87`); `enter()` keeps the overlay number of a symbol that was ripped out of
its slot (`StaleSlot`, excepted in `ReferencesArrive`).

**ar, ranlib.**  After `ar r`, `d` or `m` the table may be wrong and `ld` uses it, since
ranlib dates it in the far future; `docs/user-guide.md:78-79` of ld says that it warns and
scans the members.  A caught signal between `mkstemp()` and the recording of the name
(`ar.c` 356-357, 287-288, 705-709) leaves that file behind, where `docs/design.md:148-149`
of ar says that an interrupted run unlinks its files; `InterruptedIntact` excepts that one
file.  When the second file cannot be created `bamatch` goes on with `tf1` 0, the standard
input: `m` with members to move then loses the archive, its magic number coming behind
them, and `r` with new members ends with a write error.  The model takes the standard input
to be empty and not to be written, and `EditsAsAsked` excepts such runs.  An error in
writing while the archive is written over, which leaves it cut short, is not modelled.  q
and the end of r clear the name of a file that could not be opened, so the exit status is 0
(user-guide of ar, section 6); `fixdate` dates whatever member is first.

**das** (its documentation promises "reassembles to the identical bytes").  A pointer into
the middle of an instruction loses its pc-relative bit; unreached code whose jump leaves
the text is taken for data; data words that look like a branch before address 0, or like a
two-word instruction running into code, a pc-relative reference outside its segment, and a
pointer to a table of numbers in the text.

**cc.**  A pass that cannot be found costs the source it was for, and the run goes on with
the next (`callsys` prints "Can't find" in the child, exits 100 and returns that, 656-685);
a missing `c2` or `as` is taken for one that failed.  `docs/design.md:68-70` says that such
a run ends.  A fatal signal to a pass does end it, in the code and in the model.
`SourcesIndependent` excepts the runs in which a pass was not found.  Besides this and the
finding above: under `-P` an assembler source after a C source removes the `.i` file just
written, `tmp4` being its name (528); `av[]` has 50 entries while the lists it is filled
from may hold 100 each (561).
