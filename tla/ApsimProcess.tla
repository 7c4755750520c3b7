--------------------------- MODULE ApsimProcess ---------------------------
(***************************************************************************)
(* Guest processes under pdp11-apsim (src/pdp11-apsim/apsim.c).  A guest   *)
(* process is a host process: fork and wait are the host's, and everything *)
(* apsim keeps for the guest is copied by fork.  Guest pids are the low 15 *)
(* bits of host pids, so pids that come back from the guest go through     *)
(* pidmap, a table of the processes this one has learned of, private to it *)
(* and of fixed size.  The host's process table is the environment.        *)
(***************************************************************************)
EXTENDS ApsimKernel, Sequences, FiniteSets

CONSTANTS
    HostPids,   \* the pids the host may give, Reaper and Root among them
    Reaper,     \* the host's pid 1: the parent of orphans, and of the first guest
    Root,       \* the first guest
    PidModulus, \* 1 + 0x7fff of the code
    PidSlots    \* entries of pidmap (64)

ASSUME PidAssumption ==
    /\ {Reaper, Root} \subseteq HostPids /\ Reaper # Root /\ HostPids \subseteq Nat \ {0}
    /\ PidModulus \in Nat \ {0} /\ PidSlots \in Nat /\ PidSlots >= 2

VARIABLES
    proc,     \* host process table: "none", "born" (still inside fork), "run", "zombie"
    parent,   \* getppid() of each
    kids,     \* the children a guest has been told of and has not waited for
    pidmap    \* what each process has learned, in order

vars == <<kern, proc, parent, kids, pidmap>>

Running(p) == proc[p] = "run"

Init ==
    /\ kern \in Kernels
    /\ proc = [h \in HostPids |-> IF h = Root THEN "run" ELSE "none"]
    /\ parent = [h \in HostPids |-> Reaper]
    /\ kids = [h \in HostPids |-> {}]
    /\ pidmap = [h \in HostPids |-> IF h = Root THEN <<Root, Reaper>> ELSE <<>>]

---------------------------------------------------------------------------
(* Guest and host pids.                                                    *)

Low15(h) == h % PidModulus

pid_learnShort(map, h) ==
    IF (\E i \in DOMAIN map : map[i] = h) \/ Len(map) = PidSlots - 1 THEN map ELSE Append(map, h)
pid_learn(map, h) ==
    IF (\E i \in DOMAIN map : map[i] = h) \/ Len(map) = PidSlots THEN map ELSE Append(map, h)

\* The first entry learned with this guest pid; a pid nobody knows is passed through.
pid_g2h(map, g) ==
    LET match == {i \in DOMAIN map : Low15(map[i]) = g}
    IN IF g = 0 \/ match = {} THEN g ELSE map[Least(match)]

\* fork(2): the host copies the process, pidmap with it.  A child whose low 15
\* bits are 0 is one its parent cannot name: it takes itself for the child.
Fork(p, c) ==
    /\ Running(p) /\ proc[c] = "none" /\ c # Reaper
    /\ proc' = [proc EXCEPT ![c] = "born"]
    /\ parent' = [parent EXCEPT ![c] = p]
    /\ kids' = [kids EXCEPT ![p] = @ \union {x \in {c} : Low15(x) # 0}, ![c] = {}]
    /\ pidmap' = [pidmap EXCEPT ![c] = pidmap[p],
                                ![p] = IF kern = "V1" THEN @ ELSE pid_learn(@, c)]
    /\ UNCHANGED kern

\* The child's half: by now its parent may be gone.
ChildOfFork(c) ==
    /\ proc[c] = "born"
    /\ proc' = [proc EXCEPT ![c] = "run"]
    /\ pidmap' = [pidmap EXCEPT ![c] = IF kern = "V1" THEN @ ELSE pid_learn(pid_learn(@, c), parent[c])]
    /\ UNCHANGED <<kern, parent, kids>>

\* The host ends a process: its children go to Reaper,
\* and unless Reaper is its parent it waits to be waited for.
Gone(p) ==
    /\ proc' = [h \in HostPids |->
          IF h = p THEN (IF parent[p] = Reaper THEN "none" ELSE "zombie")
          ELSE IF parent[h] = p /\ proc[h] = "zombie" THEN "none" ELSE proc[h]]
    /\ parent' = [h \in HostPids |-> IF parent[h] = p THEN Reaper ELSE parent[h]]
    /\ kids' = [kids EXCEPT ![p] = {}]
    /\ pidmap' = [pidmap EXCEPT ![p] = <<>>]

Exit(p) == Running(p) /\ Gone(p) /\ UNCHANGED kern

\* wait(2) with a child to report, untraced; wait4 for a named one is below.
Reap(p, c) ==
    /\ proc' = [proc EXCEPT ![c] = "none"]
    /\ parent' = [parent EXCEPT ![c] = Reaper]
    /\ kids' = [kids EXCEPT ![p] = @ \ {c}]
    /\ UNCHANGED <<kern, pidmap>>

Wait(p, c) ==
    /\ Running(p) /\ parent[c] = p /\ proc[c] = "zombie"
    /\ Reap(p, c)

\* wait4 by guest pid: the host is asked for whatever the map says.
WaitTarget(p, g) == pid_g2h(pidmap[p], g)
Wait4(p, c) ==
    /\ kern = "BSD" /\ Running(p) /\ c \in kids[p]
    /\ LET who == WaitTarget(p, Low15(c))
       IN who \in HostPids /\ parent[who] = p /\ proc[who] = "zombie" /\ Reap(p, who)

\* kill(2) of a child the guest has forked, or of its parent, by guest pid.  A
\* pid with the low bits of the caller's own is the caller, but not for V2.
KillTarget(p, g) == IF kern # "V1" /\ g = Low15(p) THEN p ELSE pid_g2h(pidmap[p], g)

Known(p) == {c \in kids[p] \union {parent[p]} : c # Reaper /\ Low15(c) # 0}
Kill(p, c) ==
    /\ Running(p) /\ c \in Known(p)
    /\ LET t == KillTarget(p, Low15(c))
       IN t \in HostPids /\ proc[t] \in {"run", "born"} /\ Gone(t)
    /\ UNCHANGED kern

---------------------------------------------------------------------------
Next ==
    \/ \E p, c \in HostPids : Fork(p, c) \/ Wait(p, c) \/ Wait4(p, c) \/ Kill(p, c)
    \/ \E p \in HostPids : ChildOfFork(p) \/ Exit(p)

Spec == Init /\ [][Next]_vars

---------------------------------------------------------------------------
(* Properties.                                                             *)

AliasKnown(p, h) == \E i \in DOMAIN pidmap[p] : pidmap[p][i] # h /\ Low15(pidmap[p][i]) = Low15(h)

\* kill and wait4 of a process the guest knows reach that process and no
\* other, but for three causes: pidmap was full when it was forked, another
\* process with the same low 15 bits was learned, or the First Edition
\* layer, whose fork learns nothing, met a pid of more than 15 bits.
NamedIsReached ==
    \A p \in HostPids : Running(p) => \A c \in Known(p) :
        \/ KillTarget(p, Low15(c)) = c /\ (c \in kids[p] => WaitTarget(p, Low15(c)) = c)
        \/ Len(pidmap[p]) = PidSlots
        \/ AliasKnown(p, c)
        \/ kern = "V1" /\ c >= PidModulus
============================================================================
