---------------------------- MODULE ApsimSignal ----------------------------
(* Signal delivery in pdp11-apsim: one guest process, the host process that  *)
(* runs it, and the host kernel that raises signals at any moment.           *)
(*                                                                           *)
(* The simulator has one slot, pending_sig, written by the asynchronous host *)
(* handler hsig() and by the guest's own faults and kills, and read and      *)
(* cleared by the main loop between two instructions.  Every access of the   *)
(* volatile slot that hsig() can run before or after with effect is a step   *)
(* of its own here; what only the main thread touches moves with the access  *)
(* that follows it.  (A condition that reads the slot twice is one step: once *)
(* non-zero, the slot stays so until the main thread clears it, so only the  *)
(* second read matters.)                                                     *)
(*                                                                           *)
(* Host signals are named by their guest number: sig_g2h() and sig_h2g() are *)
(* inverse to each other on the signals HasHost() accepts.                   *)
EXTENDS Naturals, SequencesExt

CONSTANTS
    Sigs,       \* the guest signal numbers in play
    Handlers,   \* handler addresses a guest registers
    Masks,      \* masks the guest passes to sigblock, sigsetmask, sigsuspend, sigwait
    HMasks,     \* per-handler masks the guest passes to sigvec
    Kerns,      \* kernel personalities: "v7", "bsd210", "bsd211"
    MaxRaise    \* bound: how often each signal is caught or raised, a function

SIG_DFL == 0
SIG_IGN == 1

ASSUME SigsAssumption == Sigs \subseteq 1..31
ASSUME HandlersAssumption == Handlers \subseteq (Nat \ {SIG_DFL, SIG_IGN})
ASSUME MasksAssumption == Masks \subseteq SUBSET Sigs /\ HMasks \subseteq SUBSET Sigs
ASSUME KernsAssumption == Kerns \subseteq {"v7", "bsd210", "bsd211"}
ASSUME MaxRaiseAssumption == MaxRaise \in [Sigs -> Nat]

VARIABLES
    kern,           \* the universe's kernel, fixed for the run
    guest_sigh,     \* guest disposition of each signal
    guest_reliable, \* installed by sigvec: delivered with a 4.3 frame
    guest_hmask,    \* mask added while the handler runs
    guest_sigmask,  \* blocked signals
    pending_sig,    \* the slot: 0 or the one recorded signal
    hdisp,          \* the host disposition: "dfl", "ign" or "hsig"
    pc,             \* where the simulator's main thread is
    cur,            \* local: the signal read from the slot
    arg,            \* local: sigsuspend's omask, sigwait's want
    frames,         \* signal frames on the guest stack, innermost last
    status,         \* "run", "stopped", "halted" (by apsim) or "killed" (by the host)
    raised,         \* history: signals recorded in the slot
    handled         \* history: signals taken from the slot and acted on

guest == <<guest_sigh, guest_reliable, guest_hmask, hdisp>>
vars == <<kern, guest_sigh, guest_reliable, guest_hmask, guest_sigmask,
          pending_sig, hdisp, pc, cur, arg, frames, status, raised, handled>>

Dispositions == {SIG_DFL, SIG_IGN} \cup Handlers

(* sig_g2h(): guest EMT (7) and 29 have no host signal.                      *)
HasHost(s) == s \notin {7, 29}

(* The faults 4-12 are raised by the emulator, never caught from the host.   *)
Internal(s) == s \in 4..12

(* SIGSTOP in signal(2)'s test is the host's number, 19 (guest SIGCONT).     *)
HostSIGSTOP == 19

(* sig_dfl_action(): what SIG_DFL does.                                      *)
DflAction(s) == IF s \in {17, 18, 21, 22} THEN "stop"
                ELSE IF s \in {16, 19, 20, 23, 28} THEN "ignore"
                ELSE "terminate"

(* The host's signal(): KILL and STOP cannot be caught or ignored.           *)
HostSignal(s, h) ==
    LET d == IF h = SIG_DFL THEN "dfl" ELSE IF h = SIG_IGN THEN "ign" ELSE "hsig"
    IN  IF s \in {9, 17} THEN hdisp ELSE [hdisp EXCEPT ![s] = d]

Frame == [kind : {"v7", "bsd"}, sig : Sigs, mask : SUBSET Sigs]

Where == {"top", "take", "clear", "deliver", "exec", "pause", "pausing",
          "suspend", "suspending", "sigwait", "sigwaiting", "swtest",
          "swtake", "swclear", "read"}

Init ==
    /\ kern \in Kerns
    /\ guest_sigh = [s \in Sigs |-> SIG_DFL]
    /\ guest_reliable = [s \in Sigs |-> FALSE]
    /\ guest_hmask = [s \in Sigs |-> {}]
    /\ guest_sigmask = {}
    /\ pending_sig = 0
    /\ hdisp = [s \in Sigs |-> "dfl"]
    /\ pc = "top"
    /\ cur = 0
    /\ arg = {}
    /\ frames = <<>>
    /\ status = "run"
    /\ raised = [s \in Sigs |-> 0]
    /\ handled = [s \in Sigs |-> 0]

Running == status = "run"
At(p) == Running /\ pc = p

-----------------------------------------------------------------------------
(* The main loop, from the top to the next instruction.                      *)

(* Faulty variant of TestSlot: any blocked signal holds back every other.    *)
TestSlotAnyBlocked ==
    /\ At("top")
    /\ pc' = IF pending_sig # 0 /\ guest_sigmask = {} THEN "take" ELSE "exec"
    /\ UNCHANGED <<kern, guest, guest_sigmask, pending_sig, cur, arg, frames,
                   status, raised, handled>>

(* `if (pending_sig && !((guest_sigmask >> (pending_sig - 1)) & 1))'         *)
TestSlot ==
    /\ At("top")
    /\ pc' = IF pending_sig # 0 /\ pending_sig \notin guest_sigmask
             THEN "take" ELSE "exec"
    /\ UNCHANGED <<kern, guest, guest_sigmask, pending_sig, cur, arg, frames,
                   status, raised, handled>>

(* `int s = pending_sig'                                                     *)
TakeSlot ==
    /\ At("take")
    /\ cur' = pending_sig
    /\ pc' = "clear"
    /\ UNCHANGED <<kern, guest, guest_sigmask, pending_sig, arg, frames,
                   status, raised, handled>>

(* Faulty variant of ClearSlot: the slot keeps the signal it held.           *)
ClearSlotForgotten ==
    /\ At("clear")
    /\ pc' = "deliver"
    /\ UNCHANGED <<kern, guest, guest_sigmask, pending_sig, cur, arg, frames,
                   status, raised, handled>>

(* `pending_sig = 0'                                                         *)
ClearSlot ==
    /\ At("clear")
    /\ pending_sig' = 0
    /\ pc' = "deliver"
    /\ UNCHANGED <<kern, guest, guest_sigmask, cur, arg, frames, status,
                   raised, handled>>

Handled(s) == handled' = [handled EXCEPT ![s] = @ + 1]

(* Faulty variant of DeliverReliable: the mask bit is one too high.          *)
DeliverReliableShifted ==
    /\ At("deliver")
    /\ guest_sigh[cur] \in Handlers /\ guest_reliable[cur]
    /\ frames' = Append(frames, [kind |-> "bsd", sig |-> cur, mask |-> guest_sigmask])
    /\ guest_sigmask' = guest_sigmask \cup guest_hmask[cur] \cup {cur + 1}
    /\ handled' = [handled EXCEPT ![cur] = @ + 1]
    /\ cur' = 0 /\ pc' = "exec"
    /\ UNCHANGED <<kern, guest, pending_sig, arg, status, raised>>

(* The 4.3 frame: the mask is saved in the sigcontext, the signal and its    *)
(* handler mask are blocked until sigreturn.                                 *)
DeliverReliable ==
    /\ At("deliver")
    /\ guest_sigh[cur] \in Handlers /\ guest_reliable[cur]
    /\ frames' = Append(frames, [kind |-> "bsd", sig |-> cur, mask |-> guest_sigmask])
    /\ guest_sigmask' = guest_sigmask \cup guest_hmask[cur] \cup {cur}
    /\ Handled(cur)
    /\ cur' = 0 /\ pc' = "exec"
    /\ UNCHANGED <<kern, guest, pending_sig, arg, status, raised>>

(* Faulty variant of DeliverOneShot: the host keeps catching the signal.     *)
DeliverOneShotHostKept ==
    /\ At("deliver")
    /\ guest_sigh[cur] \in Handlers /\ ~guest_reliable[cur]
    /\ guest_sigh' = IF cur \in {4, 5} THEN guest_sigh
                     ELSE [guest_sigh EXCEPT ![cur] = SIG_DFL]
    /\ frames' = Append(frames, [kind |-> "v7", sig |-> cur, mask |-> {}])
    /\ Handled(cur)
    /\ cur' = 0 /\ pc' = "exec"
    /\ UNCHANGED <<kern, guest_reliable, guest_hmask, guest_sigmask, hdisp,
                   pending_sig, arg, status, raised>>

(* The V7 frame: one-shot, guest and host dispositions reset except for      *)
(* ILL and TRAP.                                                             *)
DeliverOneShot ==
    /\ At("deliver")
    /\ guest_sigh[cur] \in Handlers /\ ~guest_reliable[cur]
    /\ IF cur \in {4, 5}
       THEN UNCHANGED <<guest_sigh, hdisp>>
       ELSE /\ guest_sigh' = [guest_sigh EXCEPT ![cur] = SIG_DFL]
            /\ hdisp' = IF HasHost(cur) THEN HostSignal(cur, SIG_DFL) ELSE hdisp
    /\ frames' = Append(frames, [kind |-> "v7", sig |-> cur, mask |-> {}])
    /\ Handled(cur)
    /\ cur' = 0 /\ pc' = "exec"
    /\ UNCHANGED <<kern, guest_reliable, guest_hmask, guest_sigmask,
                   pending_sig, arg, status, raised>>

(* Default action: really stop the host process, ignore, or end the guest.   *)
DeliverDefault ==
    /\ At("deliver")
    /\ guest_sigh[cur] = SIG_DFL
    /\ status' = CASE DflAction(cur) = "stop" -> "stopped"
                   [] DflAction(cur) = "ignore" -> "run"
                   [] OTHER -> "halted"
    /\ Handled(cur)
    /\ cur' = 0 /\ pc' = "exec"
    /\ UNCHANGED <<kern, guest, guest_sigmask, pending_sig, arg, frames, raised>>

(* Ignored since it was recorded: no branch of the loop acts on it.          *)
DeliverIgnored ==
    /\ At("deliver")
    /\ guest_sigh[cur] = SIG_IGN
    /\ cur' = 0 /\ pc' = "exec"
    /\ UNCHANGED <<kern, guest, guest_sigmask, pending_sig, arg, frames,
                   status, raised, handled>>

-----------------------------------------------------------------------------
(* step(): the guest's next instruction.  The guest program is arbitrary     *)
(* among the system calls its kernel personality has.                        *)

Bsd == kern \in {"bsd210", "bsd211"}

(* An instruction without effect on signals.                                 *)
Ordinary ==
    /\ At("exec")
    /\ pc' = "top"
    /\ UNCHANGED <<kern, guest, guest_sigmask, pending_sig, cur, arg, frames,
                   status, raised, handled>>

(* signal(2), sys 48 below 2.11: records the handler and mirrors it onto     *)
(* the host, except for the faults and for the number that is host SIGSTOP.  *)
Signal(s, h) ==
    /\ At("exec") /\ kern # "bsd211"
    /\ guest_sigh' = [guest_sigh EXCEPT ![s] = h]
    /\ hdisp' = IF Internal(s) \/ s = HostSIGSTOP \/ ~HasHost(s)
                THEN hdisp ELSE HostSignal(s, h)
    /\ pc' = "top"
    /\ UNCHANGED <<kern, guest_reliable, guest_hmask, guest_sigmask, pending_sig,
                   cur, arg, frames, status, raised, handled>>

(* sigvec(2) and 2.11's sigaction(2), with a vec argument.                   *)
Sigvec(s, h, hm) ==
    /\ At("exec") /\ Bsd
    /\ guest_sigh' = [guest_sigh EXCEPT ![s] = h]
    /\ guest_hmask' = [guest_hmask EXCEPT ![s] = hm]
    /\ guest_reliable' = [guest_reliable EXCEPT ![s] = TRUE]
    /\ hdisp' = IF Internal(s) \/ ~HasHost(s) THEN hdisp ELSE HostSignal(s, h)
    /\ pc' = "top"
    /\ UNCHANGED <<kern, guest_sigmask, pending_sig, cur, arg, frames, status,
                   raised, handled>>

(* sigblock(2): adds to the mask.  sigsetmask(2): replaces it.               *)
SetMask(m) ==
    /\ At("exec") /\ Bsd
    /\ guest_sigmask' = m
    /\ pc' = "top"
    /\ UNCHANGED <<kern, guest, pending_sig, cur, arg, frames, status, raised,
                   handled>>

Sigblock(m) == SetMask(guest_sigmask \cup m)
Sigsetmask(m) == SetMask(m)

(* sigreturn(2) from the innermost frame: the saved mask is in force again.  *)
Sigreturn ==
    /\ At("exec") /\ Bsd
    /\ frames # <<>> /\ Last(frames).kind = "bsd"
    /\ guest_sigmask' = Last(frames).mask
    /\ frames' = Front(frames)
    /\ pc' = "top"
    /\ UNCHANGED <<kern, guest, pending_sig, cur, arg, status, raised, handled>>

(* RTI or RTT from a V7 frame: only PC and PS come back.                     *)
HandlerRti ==
    /\ At("exec")
    /\ frames # <<>> /\ Last(frames).kind = "v7"
    /\ frames' = Front(frames)
    /\ pc' = "top"
    /\ UNCHANGED <<kern, guest, guest_sigmask, pending_sig, cur, arg, status,
                   raised, handled>>

(* Recording a signal in the slot, as hsig(), raise_fault() and kill(self)   *)
(* do: whatever the slot held is overwritten.                                *)
Record(s) ==
    /\ raised[s] < MaxRaise[s]
    /\ raised' = [raised EXCEPT ![s] = @ + 1]
    /\ pending_sig' = s

(* kill(2) of the guest itself, with a handler.  An ignored signal is        *)
(* dropped, and one at its default acts at once, whatever the mask says.     *)
KillSelfCaught(s) ==
    /\ At("exec")
    /\ guest_sigh[s] \in Handlers
    /\ Record(s)
    /\ pc' = "top"
    /\ UNCHANGED <<kern, guest, guest_sigmask, cur, arg, frames, status, handled>>

KillSelfDefault(s) ==
    /\ At("exec")
    /\ guest_sigh[s] = SIG_DFL /\ DflAction(s) # "ignore"
    /\ status' = IF DflAction(s) = "stop" THEN "stopped" ELSE "halted"
    /\ pc' = "top"
    /\ UNCHANGED <<kern, guest, guest_sigmask, pending_sig, cur, arg, frames,
                   raised, handled>>

(* raise_fault(): an illegal instruction, BPT, IOT or EMT.  Without a        *)
(* handler the simulator reports the fault and halts.                        *)
Fault(s) ==
    /\ At("exec") /\ s \in {4, 5, 6, 7}
    /\ pc' = "top"
    /\ \/ guest_sigh[s] \in Handlers /\ Record(s) /\ UNCHANGED status
       \/ guest_sigh[s] \notin Handlers /\ status' = "halted" /\ UNCHANGED <<raised, pending_sig>>
    /\ UNCHANGED <<kern, guest, guest_sigmask, cur, arg, frames, handled>>

Exit ==
    /\ At("exec")
    /\ status' = "halted"
    /\ UNCHANGED <<kern, guest, guest_sigmask, pending_sig, pc, cur, arg,
                   frames, raised, handled>>

-----------------------------------------------------------------------------
(* The calls that wait.  The test of the slot and the host's pause() are two *)
(* steps: a signal caught between them is recorded but wakes nobody.         *)

Wait(from, to, a, m) ==
    /\ At(from)
    /\ pc' = to /\ arg' = a /\ guest_sigmask' = m
    /\ UNCHANGED <<kern, guest, pending_sig, cur, frames, status, raised, handled>>

(* pause(2); 2.10 and 2.11 send sigpause (111) here as well.                 *)
Pause == Wait("exec", "pause", {}, guest_sigmask)

PauseTest == Wait("pause", IF pending_sig # 0 THEN "top" ELSE "pausing", {}, guest_sigmask)

(* sigsuspend(2): adopt the mask, wait, and put the old mask back.           *)
Sigsuspend(m) == kern = "bsd211" /\ Wait("exec", "suspend", guest_sigmask, m)

(* Faulty variant of SuspendTest: the mask before the wait is lost.          *)
SuspendTestMaskLost ==
    IF pending_sig # 0 /\ pending_sig \notin guest_sigmask
    THEN Wait("suspend", "top", {}, guest_sigmask)
    ELSE Wait("suspend", "suspending", arg, guest_sigmask)

SuspendTest ==
    IF pending_sig # 0 /\ pending_sig \notin guest_sigmask
    THEN Wait("suspend", "top", {}, arg)
    ELSE Wait("suspend", "suspending", arg, guest_sigmask)

(* sigwait(2): any signal ends the wait; one that is wanted is consumed.     *)
Sigwait(want) == kern = "bsd211" /\ Wait("exec", "sigwait", want, guest_sigmask)

SigwaitTest ==
    Wait("sigwait", IF pending_sig # 0 THEN "swtest" ELSE "sigwaiting", arg, guest_sigmask)

(* `if ((want >> (pending_sig - 1)) & 1)'                                    *)
SigwaitWants ==
    IF pending_sig \in arg THEN Wait("swtest", "swtake", arg, guest_sigmask)
                           ELSE Wait("swtest", "top", {}, guest_sigmask)

(* `st2(sigp, pending_sig)'                                                  *)
SigwaitTake ==
    /\ At("swtake")
    /\ cur' = pending_sig
    /\ pc' = "swclear"
    /\ UNCHANGED <<kern, guest, guest_sigmask, pending_sig, arg, frames, status,
                   raised, handled>>

SigwaitClear ==
    /\ At("swclear")
    /\ pending_sig' = 0
    /\ Handled(cur)
    /\ cur' = 0 /\ arg' = {} /\ pc' = "top"
    /\ UNCHANGED <<kern, guest, guest_sigmask, frames, status, raised>>

(* read(2) of a slow descriptor: the host read.  hsig() is installed by      *)
(* signal(), so the host restarts the read after it: it never ends in EINTR  *)
(* and the code that restarts the guest's trap is not reached.               *)
Read == Wait("exec", "read", {}, guest_sigmask)

ReadDone == Wait("read", "top", {}, guest_sigmask)

-----------------------------------------------------------------------------
(* The host.                                                                 *)

(* A caught signal: hsig() runs, and pause() returns if it was entered.      *)
HostCatch(s) ==
    /\ status \in IF s = 19 THEN {"run", "stopped"} ELSE {"run"}
    /\ HasHost(s) /\ hdisp[s] = "hsig"
    /\ Record(s)
    /\ status' = "run"
    /\ pc' = CASE pc = "pausing" -> "pause"
               [] pc = "suspending" -> "suspend"
               [] pc = "sigwaiting" -> "sigwait"
               [] OTHER -> pc
    /\ UNCHANGED <<kern, guest, guest_sigmask, cur, arg, frames, handled>>

(* A signal at the host's default: the whole simulator dies, stops or goes on.*)
HostDefault(s) ==
    /\ Running
    /\ HasHost(s) /\ hdisp[s] = "dfl" /\ DflAction(s) # "ignore"
    /\ status' = IF DflAction(s) = "stop" THEN "stopped" ELSE "killed"
    /\ UNCHANGED <<kern, guest, guest_sigmask, pending_sig, pc, cur, arg,
                   frames, raised, handled>>

(* SIGCONT while it is not caught.                                           *)
HostContinue ==
    /\ status = "stopped"
    /\ status' = "run"
    /\ UNCHANGED <<kern, guest, guest_sigmask, pending_sig, pc, cur, arg,
                   frames, raised, handled>>

-----------------------------------------------------------------------------
MainLoop == TestSlot \/ TakeSlot \/ ClearSlot \/ DeliverReliable
            \/ DeliverOneShot \/ DeliverDefault \/ DeliverIgnored

Guest ==
    \/ Ordinary \/ Sigreturn \/ HandlerRti \/ Exit \/ Pause \/ Read
    \/ \E s \in Sigs, h \in Dispositions : Signal(s, h)
    \/ \E s \in Sigs, h \in Dispositions, hm \in HMasks : Sigvec(s, h, hm)
    \/ \E m \in Masks : Sigblock(m) \/ Sigsetmask(m) \/ Sigsuspend(m) \/ Sigwait(m)
    \/ \E s \in Sigs : KillSelfCaught(s) \/ KillSelfDefault(s) \/ Fault(s)

Waiting == PauseTest \/ SuspendTest \/ SigwaitTest \/ SigwaitWants \/ SigwaitTake \/ SigwaitClear

Host == \E s \in Sigs : HostCatch(s) \/ HostDefault(s)

Next == MainLoop \/ Guest \/ Waiting \/ ReadDone \/ Host \/ HostContinue

(* The host schedules the simulator's own steps.  No fairness of signals, of *)
(* a terminal's input, or of whoever continues a stopped process.            *)
Spec == Init /\ [][Next]_vars /\ WF_vars(MainLoop \/ Guest \/ Waiting)

-----------------------------------------------------------------------------
(* Every variable has its type.                                              *)
TypeOK ==
    /\ kern \in Kerns
    /\ guest_sigh \in [Sigs -> Dispositions]
    /\ guest_reliable \in [Sigs -> BOOLEAN]
    /\ guest_hmask \in [Sigs -> SUBSET Sigs]
    /\ guest_sigmask \in SUBSET Sigs
    /\ pending_sig \in Sigs \cup {0}
    /\ hdisp \in [Sigs -> {"dfl", "ign", "hsig"}]
    /\ pc \in Where
    /\ cur \in Sigs \cup {0}
    /\ arg \in SUBSET Sigs
    /\ frames \in Seq(Frame)
    /\ status \in {"run", "stopped", "halted", "killed"}
    /\ raised \in [Sigs -> Nat]
    /\ handled \in [Sigs -> Nat]

(* A signal is acted on at most once for each time it was recorded, even     *)
(* when hsig() runs between the loop's read of the slot and its clearing:    *)
(* a handler never runs, and sigwait never returns, for a signal nobody sent.*)
InFlight(s) == IF cur = s THEN 1 ELSE 0
InSlot(s) == IF pending_sig = s /\ ~(pc \in {"clear", "swclear"} /\ cur = s) THEN 1 ELSE 0
NoDoubleHandling == \A s \in Sigs : handled[s] + InFlight(s) + InSlot(s) <= raised[s]

(* The host catches a signal exactly when the guest has a handler for it,    *)
(* and ignores it exactly when the guest does.  Only CONT (19) is apart:     *)
(* signal(2) takes it for host SIGSTOP and leaves the host as it was.        *)
Mirrored(s) == ~Internal(s) /\ HasHost(s) /\ s \notin {17, HostSIGSTOP}
HostMirror ==
    \A s \in Sigs : Mirrored(s) =>
        /\ hdisp[s] = "hsig" <=> guest_sigh[s] \in Handlers
        /\ hdisp[s] = "ign" <=> guest_sigh[s] = SIG_IGN

(* What the guest's masks promise: see SignalMask.  The masks below the one  *)
(* in force are those the 4.3 frames saved, the oldest frame's first.  While *)
(* sigsuspend waits, the mask in force is the one it will put back.          *)
InSuspend == pc \in {"suspend", "suspending"}
OnlyOf(S) == CHOOSE m \in S : TRUE
BsdPlaces(q) == {i \in DOMAIN q : q[i].kind = "bsd"}
NthSaved(q, n) ==
    {q[i].mask : i \in {j \in BsdPlaces(q) : Cardinality(BsdPlaces(q) \cap (1 .. j)) = n}}
Saved(q) == [n \in 1 .. Cardinality(BsdPlaces(q)) |-> OnlyOf(NthSaved(q, n))]
MaskContract == INSTANCE SignalMask WITH
    stack <- Append(Saved(frames), IF InSuspend THEN arg ELSE guest_sigmask),
    waiting <- InSuspend
MaskDiscipline == MaskContract!Spec

(* A recorded signal that is not blocked is acted on, unless it is           *)
(* overwritten, becomes blocked, or the guest sleeps in the host.            *)
Asleep == pc \in {"read", "pausing", "suspending", "sigwaiting"}
UnblockedIsHandled ==
    \A s \in Sigs :
        (pending_sig = s /\ s \notin guest_sigmask)
            ~> (pending_sig # s \/ s \in guest_sigmask \/ Asleep \/ ~Running)

(* What the main loop's comment says of a blocked signal: it stays pending   *)
(* until the mask releases it (or sigwait consumes it).                      *)
BlockedStaysPending ==
    [][\A s \in Sigs : pending_sig = s /\ s \in guest_sigmask =>
            pending_sig' = s \/ s \notin guest_sigmask' \/ pc = "swclear"]_vars

(* What do_syscall's comment says of a slow read: the signal is delivered,   *)
(* then the read is restarted.                                               *)
ReadDelivers == (pc = "read" /\ pending_sig # 0) ~> (pc # "read" \/ ~Running)
=============================================================================
