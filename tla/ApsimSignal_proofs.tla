------------------------- MODULE ApsimSignal_proofs -------------------------
(* Theorems about signal delivery in pdp11-apsim, for any signals, handlers, *)
(* masks and kernels.                                                        *)
EXTENDS ApsimSignal, SequenceTheorems, FiniteSetTheorems, TLAPS

(* Returning from a frame leaves a sequence of frames.                       *)
LEMMA FrontFrames ==
    ASSUME NEW S, NEW q \in Seq(S), q # <<>>
    PROVE  /\ Front(q) \in Seq(S)
           /\ Last(q) \in S
<1>1. Len(q) \in Nat /\ Len(q) # 0
    BY EmptySeq, SMT
<1>2. \A i \in 1 .. Len(q) - 1 : q[i] \in S
    BY <1>1, ElementOfSeq, SMT
<1>3. Front(q) \in Seq(S)
    <2>1. Len(q) - 1 \in Int
        BY <1>1
    <2>2. SubSeq(q, 1, Len(q) - 1) \in Seq(S)
        BY <1>2, <2>1, SubSeqProperties, SMT
    <2> QED BY <2>2 DEF Front
<1>4. Last(q) \in S
    BY <1>1, ElementOfSeq, SMT DEF Last
<1> QED BY <1>3, <1>4

(* The host's signal() yields a table of dispositions.                       *)
LEMMA HostSignalType ==
    ASSUME NEW s \in Sigs, NEW h \in Dispositions,
           hdisp \in [Sigs -> {"dfl", "ign", "hsig"}]
    PROVE  HostSignal(s, h) \in [Sigs -> {"dfl", "ign", "hsig"}]
BY DEF HostSignal

-----------------------------------------------------------------------------
(* What the main thread's locals are worth at each point: cur holds a signal *)
(* exactly while it is being delivered or consumed, and the slot, which only *)
(* the main thread empties, is full from the test that found it so.          *)
Control ==
    /\ (cur # 0) <=> pc \in {"clear", "deliver", "swclear"}
    /\ pc \in {"take", "clear", "swtest", "swtake", "swclear"} => pending_sig # 0

TypeInv == TypeOK /\ Control

LEMMA InitTypeInv == Init => TypeInv
<1> SUFFICES ASSUME Init PROVE TypeInv
    OBVIOUS
<1>1. 0 \notin Sigs
    BY SigsAssumption
<1> QED BY <1>1, EmptySeq DEF Init, TypeInv, TypeOK, Control, Dispositions, Where

LEMMA NextTypeInv == TypeInv /\ [Next]_vars => TypeInv'
<1> SUFFICES ASSUME TypeInv, [Next]_vars PROVE TypeInv'
    OBVIOUS
<1>0. 0 \notin Sigs
    BY SigsAssumption
<1> USE <1>0 DEF TypeInv, TypeOK, Control, At, Running, Where
<1>1. CASE TestSlot
    BY <1>1 DEF TestSlot, guest
<1>2. CASE TakeSlot
    BY <1>2 DEF TakeSlot, guest
<1>3. CASE ClearSlot
    BY <1>3 DEF ClearSlot, guest
<1>4. CASE DeliverReliable
    <2> DEFINE f == [kind |-> "bsd", sig |-> cur, mask |-> guest_sigmask]
    <2>1. cur \in Sigs
        BY <1>4 DEF DeliverReliable
    <2>2. f \in Frame
        BY <2>1 DEF Frame
    <2>3. frames' \in Seq(Frame)
        BY <1>4, <2>2 DEF DeliverReliable
    <2> QED BY <1>4, <2>1, <2>3 DEF DeliverReliable, guest, Handled
<1>5. CASE DeliverOneShot
    <2> DEFINE f == [kind |-> "v7", sig |-> cur, mask |-> {}]
    <2>1. cur \in Sigs
        BY <1>5 DEF DeliverOneShot
    <2>2. f \in Frame
        BY <2>1 DEF Frame
    <2>3. frames' \in Seq(Frame)
        BY <1>5, <2>2 DEF DeliverOneShot
    <2>4. hdisp' \in [Sigs -> {"dfl", "ign", "hsig"}]
        BY <1>5, <2>1, HostSignalType DEF DeliverOneShot, Dispositions
    <2>5. guest_sigh' \in [Sigs -> Dispositions]
        BY <1>5 DEF DeliverOneShot, Dispositions
    <2>6. handled' \in [Sigs -> Nat]
        BY <1>5, <2>1 DEF DeliverOneShot, Handled
    <2>7. /\ cur' = 0 /\ pc' = "exec"
          /\ UNCHANGED <<kern, guest_reliable, guest_hmask, guest_sigmask,
                         pending_sig, arg, status, raised>>
        BY <1>5 DEF DeliverOneShot
    <2> QED BY <2>3, <2>4, <2>5, <2>6, <2>7
<1>6. CASE DeliverDefault
    BY <1>6 DEF DeliverDefault, guest, Handled
<1>7. CASE DeliverIgnored
    BY <1>7 DEF DeliverIgnored, guest
<1>8. CASE Ordinary
    BY <1>8 DEF Ordinary, guest
<1>9. ASSUME NEW s \in Sigs, NEW h \in Dispositions, Signal(s, h)
      PROVE  TypeInv'
    <2>1. hdisp' \in [Sigs -> {"dfl", "ign", "hsig"}]
        BY <1>9, HostSignalType DEF Signal
    <2> QED BY <1>9, <2>1 DEF Signal
<1>10. ASSUME NEW s \in Sigs, NEW h \in Dispositions, NEW hm \in HMasks, Sigvec(s, h, hm)
       PROVE  TypeInv'
    <2>1. hdisp' \in [Sigs -> {"dfl", "ign", "hsig"}]
        BY <1>10, HostSignalType DEF Sigvec
    <2>2. hm \in SUBSET Sigs
        BY MasksAssumption
    <2> QED BY <1>10, <2>1, <2>2 DEF Sigvec
<1>11. ASSUME NEW m \in Masks, Sigblock(m) \/ Sigsetmask(m) \/ Sigsuspend(m) \/ Sigwait(m)
       PROVE  TypeInv'
    <2>1. m \in SUBSET Sigs
        BY MasksAssumption
    <2> QED BY <1>11, <2>1 DEF Sigblock, Sigsetmask, SetMask, Sigsuspend, Sigwait, Wait, guest
<1>12. CASE Sigreturn
    <2>1. Front(frames) \in Seq(Frame) /\ Last(frames) \in Frame
        BY <1>12, FrontFrames DEF Sigreturn
    <2>2. Last(frames).mask \in SUBSET Sigs
        BY <2>1 DEF Frame
    <2> QED BY <1>12, <2>1, <2>2 DEF Sigreturn, guest
<1>13. CASE HandlerRti
    <2>1. Front(frames) \in Seq(Frame)
        BY <1>13, FrontFrames DEF HandlerRti
    <2> QED BY <1>13, <2>1 DEF HandlerRti, guest
<1>14. ASSUME NEW s \in Sigs, KillSelfCaught(s) \/ KillSelfDefault(s) \/ Fault(s)
       PROVE  TypeInv'
    <2>1. raised' \in [Sigs -> Nat] /\ pending_sig' \in Sigs \cup {0}
        BY <1>14 DEF KillSelfCaught, KillSelfDefault, Fault, Record
    <2>2. status' \in {"run", "stopped", "halted", "killed"}
        BY <1>14 DEF KillSelfCaught, KillSelfDefault, Fault
    <2>3. pc = "exec" /\ pc' = "top"
          /\ UNCHANGED <<kern, guest, guest_sigmask, cur, arg, frames, handled>>
        BY <1>14 DEF KillSelfCaught, KillSelfDefault, Fault
    <2> QED BY <2>1, <2>2, <2>3 DEF guest
<1>15. CASE Exit
    BY <1>15 DEF Exit, guest
<1>16. CASE Pause \/ Read \/ ReadDone
    BY <1>16 DEF Pause, Read, ReadDone, Wait, guest
<1>17. CASE PauseTest \/ SuspendTest \/ SigwaitTest \/ SigwaitWants
    BY <1>17 DEF PauseTest, SuspendTest, SigwaitTest, SigwaitWants, Wait, guest
<1>18. CASE SigwaitTake
    BY <1>18 DEF SigwaitTake, guest
<1>19. CASE SigwaitClear
    BY <1>19 DEF SigwaitClear, Handled, guest
<1>20. ASSUME NEW s \in Sigs, HostCatch(s) \/ HostDefault(s)
       PROVE  TypeInv'
    <2>1. CASE HostCatch(s)
        <3>1. raised' \in [Sigs -> Nat] /\ pending_sig' = s
            BY <2>1 DEF HostCatch, Record
        <3>2. /\ status' = "run"
              /\ pc' \in {pc, "pause", "suspend", "sigwait"}
              /\ pc' # pc => pc \in {"pausing", "suspending", "sigwaiting"}
              /\ UNCHANGED <<kern, guest, guest_sigmask, cur, arg, frames, handled>>
            BY <2>1 DEF HostCatch
        <3> QED BY <3>1, <3>2 DEF guest
    <2>2. CASE HostDefault(s)
        BY <2>2 DEF HostDefault, guest
    <2> QED BY <1>20, <2>1, <2>2
<1>21. CASE HostContinue
    BY <1>21 DEF HostContinue, guest
<1>22. CASE UNCHANGED vars
    BY <1>22 DEF vars
<1> QED
    BY <1>1, <1>2, <1>3, <1>4, <1>5, <1>6, <1>7, <1>8, <1>9, <1>10, <1>11,
       <1>12, <1>13, <1>14, <1>15, <1>16, <1>17, <1>18, <1>19, <1>20, <1>21,
       <1>22 DEF Next, MainLoop, Guest, Waiting, Host

(* Every reachable state is well typed, and the locals of the main thread    *)
(* mean what the main loop of apsim takes them to mean.                      *)
THEOREM TypeCorrect == Spec => []TypeOK
<1>1. TypeInv => TypeOK
    BY DEF TypeInv
<1> QED BY InitTypeInv, NextTypeInv, <1>1, PTL DEF Spec

-----------------------------------------------------------------------------
LEMMA InitNoDoubleHandling == Init => NoDoubleHandling
<1> SUFFICES ASSUME Init PROVE NoDoubleHandling
    OBVIOUS
<1>1. 0 \notin Sigs
    BY SigsAssumption
<1> QED BY <1>1 DEF Init, NoDoubleHandling, InFlight, InSlot

(* The two places where a signal is acted on spend the copy in flight, the   *)
(* two reads of the slot put one copy in flight and cover the slot until it  *)
(* is cleared, and each record accounts for what it puts into the slot.      *)
LEMMA NextNoDoubleHandling ==
    TypeInv /\ NoDoubleHandling /\ [Next]_vars => NoDoubleHandling'
<1> SUFFICES ASSUME TypeInv, NoDoubleHandling, [Next]_vars,
                    NEW t \in Sigs
             PROVE  (handled[t] + InFlight(t) + InSlot(t) <= raised[t])'
    BY DEF NoDoubleHandling
<1>0. /\ 0 \notin Sigs /\ t # 0
      /\ handled[t] \in Nat /\ raised[t] \in Nat
      /\ handled[t] + InFlight(t) + InSlot(t) <= raised[t]
    BY SigsAssumption DEF TypeInv, TypeOK, NoDoubleHandling
<1> USE <1>0 DEF InFlight, InSlot
<1>a. ASSUME cur' = cur, pending_sig' = pending_sig, handled' = handled, raised' = raised,
             pc' \in {"clear", "swclear"} <=> pc \in {"clear", "swclear"}
      PROVE  (handled[t] + InFlight(t) + InSlot(t) <= raised[t])'
    BY <1>a
<1>b. ASSUME NEW s \in Sigs, Record(s), cur' = cur, handled' = handled,
             pc' \in {"clear", "swclear"} <=> pc \in {"clear", "swclear"}
      PROVE  (handled[t] + InFlight(t) + InSlot(t) <= raised[t])'
    <2>1. raised'[t] = IF s = t THEN raised[t] + 1 ELSE raised[t]
        BY <1>b DEF Record, TypeInv, TypeOK
    <2>2. InSlot(t)' = IF s = t /\ ~(pc \in {"clear", "swclear"} /\ cur = t) THEN 1 ELSE 0
        BY <1>b DEF Record
    <2>3. InFlight(t)' = InFlight(t) /\ InSlot(t) \in {0, 1} /\ InFlight(t) \in {0, 1}
        BY <1>b
    <2> QED BY <1>b, <2>1, <2>2, <2>3
<1>c. ASSUME Handled(cur), cur' = 0, cur # 0, raised' = raised,
             pending_sig' \in {0, pending_sig}, pc = "deliver" \/ pc = "swclear",
             pc' \notin {"clear", "swclear"},
             pc = "swclear" => pending_sig' = 0
      PROVE  (handled[t] + InFlight(t) + InSlot(t) <= raised[t])'
    <2>1. handled'[t] = IF cur = t THEN handled[t] + 1 ELSE handled[t]
        BY <1>c DEF Handled, TypeInv, TypeOK
    <2>2. InFlight(t)' = 0 /\ InFlight(t) = IF cur = t THEN 1 ELSE 0
        BY <1>c
    <2>3. InSlot(t)' <= InSlot(t) /\ InSlot(t)' \in {0, 1} /\ InSlot(t) \in {0, 1}
        BY <1>c
    <2> QED BY <1>c, <2>1, <2>2, <2>3
<1> HIDE DEF InFlight, InSlot
<1> USE DEF At
<1>1. CASE TestSlot
    BY <1>1, <1>a DEF TestSlot
<1>2. CASE TakeSlot
    <2>1. /\ pc = "take" /\ pc' = "clear" /\ cur = 0 /\ cur' = pending_sig
          /\ pending_sig' = pending_sig /\ handled' = handled /\ raised' = raised
        BY <1>2 DEF TakeSlot, TypeInv, Control
    <2> QED BY <2>1 DEF InFlight, InSlot
<1>3. CASE ClearSlot
    <2>1. /\ pc = "clear" /\ pc' = "deliver" /\ cur' = cur /\ pending_sig' = 0
          /\ handled' = handled /\ raised' = raised
        BY <1>3 DEF ClearSlot
    <2>2. InSlot(t)' = 0 /\ InSlot(t) \in {0, 1} /\ InFlight(t)' = InFlight(t)
          /\ InFlight(t) \in {0, 1}
        BY <2>1 DEF InFlight, InSlot
    <2> QED BY <2>1, <2>2
<1>4. CASE DeliverReliable \/ DeliverOneShot \/ DeliverDefault
    BY <1>4, <1>c DEF DeliverReliable, DeliverOneShot, DeliverDefault, TypeInv, Control
<1>5. CASE DeliverIgnored
    <2>1. /\ pc = "deliver" /\ pc' = "exec" /\ cur' = 0 /\ pending_sig' = pending_sig
          /\ handled' = handled /\ raised' = raised
        BY <1>5 DEF DeliverIgnored
    <2> QED BY <2>1 DEF InFlight, InSlot
<1>6. CASE Ordinary \/ Sigreturn \/ HandlerRti \/ Exit
    BY <1>6, <1>a DEF Ordinary, Sigreturn, HandlerRti, Exit
<1>7. ASSUME NEW s \in Sigs, NEW h \in Dispositions,
             Signal(s, h) \/ \E hm \in HMasks : Sigvec(s, h, hm)
      PROVE  (handled[t] + InFlight(t) + InSlot(t) <= raised[t])'
    BY <1>7, <1>a DEF Signal, Sigvec
<1>8. ASSUME NEW m \in Masks, Sigblock(m) \/ Sigsetmask(m) \/ Sigsuspend(m) \/ Sigwait(m)
      PROVE  (handled[t] + InFlight(t) + InSlot(t) <= raised[t])'
    BY <1>8, <1>a DEF Sigblock, Sigsetmask, SetMask, Sigsuspend, Sigwait, Wait
<1>9. ASSUME NEW s \in Sigs, KillSelfCaught(s)
      PROVE  (handled[t] + InFlight(t) + InSlot(t) <= raised[t])'
    BY <1>9, <1>b DEF KillSelfCaught
<1>10. ASSUME NEW s \in Sigs, KillSelfDefault(s)
       PROVE  (handled[t] + InFlight(t) + InSlot(t) <= raised[t])'
    BY <1>10, <1>a DEF KillSelfDefault
<1>11. ASSUME NEW s \in Sigs, Fault(s)
       PROVE  (handled[t] + InFlight(t) + InSlot(t) <= raised[t])'
    BY <1>11, <1>a, <1>b DEF Fault
<1>12. CASE Pause \/ Read \/ ReadDone
    BY <1>12, <1>a DEF Pause, Read, ReadDone, Wait
<1>13. CASE PauseTest \/ SuspendTest \/ SigwaitTest \/ SigwaitWants
    BY <1>13, <1>a DEF PauseTest, SuspendTest, SigwaitTest, SigwaitWants, Wait
<1>14. CASE SigwaitTake
    <2>1. /\ pc = "swtake" /\ pc' = "swclear" /\ cur = 0 /\ cur' = pending_sig
          /\ pending_sig' = pending_sig /\ handled' = handled /\ raised' = raised
        BY <1>14 DEF SigwaitTake, TypeInv, Control
    <2> QED BY <2>1 DEF InFlight, InSlot
<1>15. CASE SigwaitClear
    BY <1>15, <1>c DEF SigwaitClear, TypeInv, Control
<1>16. ASSUME NEW s \in Sigs, HostCatch(s)
       PROVE  (handled[t] + InFlight(t) + InSlot(t) <= raised[t])'
    BY <1>16, <1>b DEF HostCatch
<1>17. ASSUME NEW s \in Sigs, HostDefault(s)
       PROVE  (handled[t] + InFlight(t) + InSlot(t) <= raised[t])'
    BY <1>17, <1>a DEF HostDefault
<1>18. CASE HostContinue \/ UNCHANGED vars
    BY <1>18, <1>a DEF HostContinue, vars
<1> QED
    BY <1>1, <1>2, <1>3, <1>4, <1>5, <1>6, <1>7, <1>8, <1>9, <1>10, <1>11,
       <1>12, <1>13, <1>14, <1>15, <1>16, <1>17, <1>18
    DEF Next, MainLoop, Guest, Waiting, Host

(* No handler runs, and no sigwait returns, more often than its signal was   *)
(* recorded, however hsig() interleaves with the main loop.                  *)
THEOREM HandledAtMostOnce == Spec => []NoDoubleHandling
BY InitTypeInv, NextTypeInv, InitNoDoubleHandling, NextNoDoubleHandling, PTL DEF Spec

-----------------------------------------------------------------------------
LEMMA InitHostMirror == Init => HostMirror
<1> SUFFICES ASSUME Init PROVE HostMirror
    OBVIOUS
<1>1. SIG_DFL \notin Handlers /\ SIG_DFL # SIG_IGN
    BY HandlersAssumption DEF SIG_DFL, SIG_IGN
<1> QED BY <1>1 DEF Init, HostMirror

(* Every action that changes a disposition changes its mirror with it.       *)
LEMMA SetDisposition ==
    ASSUME TypeInv, HostMirror, NEW s \in Sigs, NEW h \in Dispositions,
           guest_sigh' = [guest_sigh EXCEPT ![s] = h],
           hdisp' = HostSignal(s, h) \/ (hdisp' = hdisp /\ ~Mirrored(s))
    PROVE  HostMirror'
<1>1. /\ SIG_DFL \notin Handlers /\ SIG_IGN \notin Handlers /\ SIG_DFL # SIG_IGN
    BY HandlersAssumption DEF SIG_DFL, SIG_IGN
<1> SUFFICES ASSUME NEW t \in Sigs, Mirrored(t)
             PROVE  /\ hdisp'[t] = "hsig" <=> guest_sigh'[t] \in Handlers
                    /\ hdisp'[t] = "ign" <=> guest_sigh'[t] = SIG_IGN
    BY DEF HostMirror, Mirrored
<1>2. CASE t = s
    <2>1. s \notin {9, 17}
        BY <1>2 DEF Mirrored, Internal
    <2>2. hdisp'[s] = IF h = SIG_DFL THEN "dfl" ELSE IF h = SIG_IGN THEN "ign" ELSE "hsig"
        BY <1>2, <2>1 DEF HostSignal, TypeInv, TypeOK
    <2>3. guest_sigh'[s] = h
        BY DEF TypeInv, TypeOK
    <2> QED BY <1>1, <1>2, <2>2, <2>3 DEF Dispositions
<1>3. CASE t # s
    <2>1. hdisp'[t] = hdisp[t]
        BY <1>3 DEF HostSignal, TypeInv, TypeOK
    <2>2. guest_sigh'[t] = guest_sigh[t]
        BY <1>3 DEF TypeInv, TypeOK
    <2> QED BY <2>1, <2>2 DEF HostMirror
<1> QED BY <1>2, <1>3

LEMMA NextHostMirror == TypeInv /\ HostMirror /\ [Next]_vars => HostMirror'
<1> SUFFICES ASSUME TypeInv, HostMirror, [Next]_vars PROVE HostMirror'
    OBVIOUS
<1>a. ASSUME UNCHANGED <<guest_sigh, hdisp>> PROVE HostMirror'
    BY <1>a DEF HostMirror, Mirrored
<1>1. CASE MainLoop
    <2>1. CASE DeliverOneShot
        <3>1. cur \in Sigs /\ SIG_DFL \in Dispositions
            BY <2>1 DEF DeliverOneShot, At, TypeInv, TypeOK, Control, Dispositions
        <3>2. CASE cur \in {4, 5}
            BY <2>1, <3>2, <1>a DEF DeliverOneShot
        <3>3. CASE cur \notin {4, 5}
            <4>1. guest_sigh' = [guest_sigh EXCEPT ![cur] = SIG_DFL]
                BY <2>1, <3>3 DEF DeliverOneShot
            <4>2. hdisp' = HostSignal(cur, SIG_DFL) \/ (hdisp' = hdisp /\ ~Mirrored(cur))
                BY <2>1, <3>3 DEF DeliverOneShot, Mirrored
            <4> QED BY <3>1, <4>1, <4>2, SetDisposition
        <3> QED BY <3>2, <3>3
    <2>2. CASE TestSlot \/ TakeSlot \/ ClearSlot \/ DeliverReliable \/ DeliverDefault
               \/ DeliverIgnored
        BY <2>2, <1>a DEF TestSlot, TakeSlot, ClearSlot, DeliverReliable, DeliverDefault,
                          DeliverIgnored, guest
    <2> QED BY <1>1, <2>1, <2>2 DEF MainLoop
<1>2. ASSUME NEW s \in Sigs, NEW h \in Dispositions, Signal(s, h)
      PROVE  HostMirror'
    <2>1. guest_sigh' = [guest_sigh EXCEPT ![s] = h]
        BY <1>2 DEF Signal
    <2>2. hdisp' = HostSignal(s, h) \/ (hdisp' = hdisp /\ ~Mirrored(s))
        BY <1>2 DEF Signal, Mirrored
    <2> QED BY <2>1, <2>2, SetDisposition
<1>3. ASSUME NEW s \in Sigs, NEW h \in Dispositions, NEW hm \in HMasks, Sigvec(s, h, hm)
      PROVE  HostMirror'
    <2>1. guest_sigh' = [guest_sigh EXCEPT ![s] = h]
        BY <1>3 DEF Sigvec
    <2>2. hdisp' = HostSignal(s, h) \/ (hdisp' = hdisp /\ ~Mirrored(s))
        BY <1>3 DEF Sigvec, Mirrored
    <2> QED BY <2>1, <2>2, SetDisposition
<1>4. CASE Ordinary \/ Sigreturn \/ HandlerRti \/ Exit \/ Pause \/ Read \/ ReadDone
    BY <1>4, <1>a DEF Ordinary, Sigreturn, HandlerRti, Exit, Pause, Read, ReadDone, Wait, guest
<1>5. ASSUME NEW m \in Masks, Sigblock(m) \/ Sigsetmask(m) \/ Sigsuspend(m) \/ Sigwait(m)
      PROVE  HostMirror'
    BY <1>5, <1>a DEF Sigblock, Sigsetmask, SetMask, Sigsuspend, Sigwait, Wait, guest
<1>6. ASSUME NEW s \in Sigs, KillSelfCaught(s) \/ KillSelfDefault(s) \/ Fault(s)
      PROVE  HostMirror'
    BY <1>6, <1>a DEF KillSelfCaught, KillSelfDefault, Fault, guest
<1>7. CASE Waiting
    BY <1>7, <1>a DEF Waiting, PauseTest, SuspendTest, SigwaitTest, SigwaitWants,
                      Wait, SigwaitTake,
                      SigwaitClear, guest
<1>8. ASSUME NEW s \in Sigs, HostCatch(s) \/ HostDefault(s)
      PROVE  HostMirror'
    BY <1>8, <1>a DEF HostCatch, HostDefault, guest
<1>9. CASE HostContinue \/ UNCHANGED vars
    BY <1>9, <1>a DEF HostContinue, vars, guest
<1> QED
    BY <1>1, <1>2, <1>3, <1>4, <1>5, <1>6, <1>7, <1>8, <1>9
    DEF Next, Guest, Host

(* In every reachable state the host catches, ignores or defaults a signal   *)
(* as the guest has it, whichever of signal, sigvec and a one-shot delivery  *)
(* changed it last.                                                          *)
THEOREM DispositionsMirrored == Spec => []HostMirror
BY InitTypeInv, NextTypeInv, InitHostMirror, NextHostMirror, PTL DEF Spec

-----------------------------------------------------------------------------
(* The masks saved by the 4.3 frames among the frames of a stack.            *)

(* Where the 4.3 frames of a stack are, and how many of them.                *)
LEMMA PlacesType ==
    ASSUME NEW q \in Seq(Frame)
    PROVE  /\ BsdPlaces(q) \subseteq 1 .. Len(q) /\ IsFiniteSet(BsdPlaces(q))
           /\ Cardinality(BsdPlaces(q)) \in Nat
           /\ \A j : /\ Cardinality(BsdPlaces(q) \cap (1 .. j)) \in Nat
                     /\ Cardinality(BsdPlaces(q) \cap (1 .. j)) <= Cardinality(BsdPlaces(q))
<1>1. BsdPlaces(q) \subseteq 1 .. Len(q)
    BY DEF BsdPlaces
<1>2. Len(q) \in Nat
    OBVIOUS
<1>3. IsFiniteSet(1 .. Len(q))
    BY <1>2, FS_Interval
<1>4. IsFiniteSet(BsdPlaces(q))
    BY <1>1, <1>3, FS_Subset
<1>5. Cardinality(BsdPlaces(q)) \in Nat
    BY <1>4, FS_CardinalityType
<1>6. ASSUME NEW j
      PROVE  /\ Cardinality(BsdPlaces(q) \cap (1 .. j)) \in Nat
             /\ Cardinality(BsdPlaces(q) \cap (1 .. j)) <= Cardinality(BsdPlaces(q))
    <2>1. (BsdPlaces(q) \cap (1 .. j)) \in SUBSET BsdPlaces(q)
        OBVIOUS
    <2>2. /\ IsFiniteSet(BsdPlaces(q) \cap (1 .. j))
          /\ Cardinality(BsdPlaces(q) \cap (1 .. j)) <= Cardinality(BsdPlaces(q))
        BY <1>4, <2>1, FS_Subset
    <2> QED BY <2>2, FS_CardinalityType
<1> QED BY <1>1, <1>4, <1>5, <1>6

(* A V7 frame saves no mask.                                                 *)
LEMMA AppendPlain ==
    ASSUME NEW q \in Seq(Frame), NEW f \in Frame, f.kind # "bsd"
    PROVE  Saved(Append(q, f)) = Saved(q)
<1> DEFINE r == Append(q, f)
<1>1. Len(r) = Len(q) + 1 /\ r[Len(q) + 1] = f /\ DOMAIN r = 1 .. Len(q) + 1
      /\ DOMAIN q = 1 .. Len(q) /\ Len(q) \in Nat
      /\ \A i \in 1 .. Len(q) : r[i] = q[i]
    OBVIOUS
<1> HIDE DEF r
<1>2. BsdPlaces(r) = BsdPlaces(q)
    BY <1>1 DEF BsdPlaces
<1>3. \A i \in BsdPlaces(q) : r[i] = q[i]
    BY <1>1 DEF BsdPlaces
<1>4. ASSUME NEW n PROVE NthSaved(r, n) = NthSaved(q, n)
    BY <1>2, <1>3 DEF NthSaved
<1>5. Saved(r) = Saved(q)
    BY <1>2, <1>4 DEF Saved
<1> QED BY <1>5 DEF r

(* A 4.3 frame saves its mask on top of those saved before it.               *)
LEMMA AppendBsd ==
    ASSUME NEW q \in Seq(Frame), NEW f \in Frame, f.kind = "bsd"
    PROVE  Saved(Append(q, f)) = Append(Saved(q), f.mask)
<1> DEFINE r == Append(q, f)
           L == Len(q)
           B == BsdPlaces(q)
           c == Cardinality(B)
<1>1. L \in Nat /\ DOMAIN r = 1 .. L + 1 /\ r[L + 1] = f /\ DOMAIN q = 1 .. L
      /\ \A i \in 1 .. L : r[i] = q[i]
    OBVIOUS
<1>2. B \subseteq 1 .. L /\ IsFiniteSet(B) /\ c \in Nat
      /\ \A j : Cardinality(B \cap (1 .. j)) \in Nat /\ Cardinality(B \cap (1 .. j)) <= c
    BY PlacesType
<1>3. BsdPlaces(r) = B \cup {L + 1}
    BY <1>1 DEF BsdPlaces
<1> HIDE DEF r, L, B, c
<1>4. L + 1 \notin B
    BY <1>1, <1>2
<1>5. Cardinality(BsdPlaces(r)) = c + 1
    BY <1>2, <1>3, <1>4, FS_AddElement DEF c
<1>6. \A j \in B : (B \cup {L + 1}) \cap (1 .. j) = B \cap (1 .. j)
    BY <1>1, <1>2
<1>7. (B \cup {L + 1}) \cap (1 .. L + 1) = B \cup {L + 1}
    <2>1. \A x \in 1 .. L : x \in 1 .. L + 1
        BY <1>1
    <2>2. L + 1 \in 1 .. L + 1
        BY <1>1
    <2> QED BY <1>2, <2>1, <2>2, Zenon
<1>8. \A i \in B : r[i] = q[i]
    BY <1>1, <1>2
<1>9. ASSUME NEW n \in 1 .. c PROVE NthSaved(r, n) = NthSaved(q, n)
    <2>1. {j \in BsdPlaces(r) : Cardinality(BsdPlaces(r) \cap (1 .. j)) = n}
            = {j \in B : Cardinality(B \cap (1 .. j)) = n}
        <3>1. Cardinality(BsdPlaces(r) \cap (1 .. L + 1)) # n
            <4>1. BsdPlaces(r) \cap (1 .. L + 1) = BsdPlaces(r)
                BY <1>3, <1>7, Zenon
            <4>2. n # c + 1
                BY <1>2
            <4> QED BY <1>5, <4>1, <4>2
        <3> QED BY <1>3, <1>6, <3>1
    <2> QED BY <1>8, <2>1 DEF NthSaved, B
<1>10. NthSaved(r, c + 1) = {f.mask}
    <2>1. {j \in BsdPlaces(r) : Cardinality(BsdPlaces(r) \cap (1 .. j)) = c + 1} = {L + 1}
        <3>1. ASSUME NEW j \in B PROVE Cardinality(BsdPlaces(r) \cap (1 .. j)) # c + 1
            <4>1. BsdPlaces(r) \cap (1 .. j) = B \cap (1 .. j)
                BY <1>3, <1>6, Zenon
            <4>2. \A m \in Nat : m <= c => m # c + 1
                BY <1>2
            <4> QED BY <1>2, <4>1, <4>2
        <3>2. Cardinality(BsdPlaces(r) \cap (1 .. L + 1)) = c + 1
            BY <1>3, <1>5, <1>7
        <3> QED BY <1>3, <3>1, <3>2
    <2> QED BY <1>1, <2>1 DEF NthSaved
<1>11. OnlyOf({f.mask}) = f.mask
    BY DEF OnlyOf
<1>12. Saved(r) = [n \in 1 .. c + 1 |-> IF n = c + 1 THEN f.mask ELSE OnlyOf(NthSaved(q, n))]
    <2>1. ASSUME NEW n \in 1 .. c + 1
          PROVE  OnlyOf(NthSaved(r, n)) = IF n = c + 1 THEN f.mask ELSE OnlyOf(NthSaved(q, n))
        <3>1. n = c + 1 \/ n \in 1 .. c
            BY <1>2
        <3> QED BY <1>9, <1>10, <1>11, <3>1, Zenon
    <2> QED BY <1>5, <2>1 DEF Saved
<1>13. Saved(q) = [n \in 1 .. c |-> OnlyOf(NthSaved(q, n))]
    BY DEF Saved, c, B
<1>14. Append(Saved(q), f.mask)
         = [n \in 1 .. c + 1 |-> IF n = c + 1 THEN f.mask ELSE OnlyOf(NthSaved(q, n))]
    <2> DEFINE S == {OnlyOf(NthSaved(q, n)) : n \in 1 .. c}
    <2>1. Saved(q) \in [1 .. c -> S]
        BY <1>13
    <2> HIDE DEF S
    <2>2. Saved(q) \in Seq(S) /\ Len(Saved(q)) = c
        BY <1>2, <2>1
    <2> QED BY <1>2, <1>13, <2>1, <2>2
<1> QED BY <1>12, <1>14 DEF r

-----------------------------------------------------------------------------
(* The handlers' masks come from sigvec, or were never set.                  *)
HandlerMasks == \A s \in Sigs : guest_hmask[s] \in HMasks \cup {{}}

(* What SignalMask's stack is here: the saved masks, and the one in force.   *)
InForce == IF InSuspend THEN arg ELSE guest_sigmask
Stack == Append(Saved(frames), InForce)

LEMMA InitHandlerMasks == Init => HandlerMasks
BY DEF Init, HandlerMasks

LEMMA NextHandlerMasks == TypeInv /\ HandlerMasks /\ [Next]_vars => HandlerMasks'
<1> SUFFICES ASSUME TypeInv, HandlerMasks, [Next]_vars PROVE HandlerMasks'
    OBVIOUS
<1>1. ASSUME UNCHANGED guest_hmask PROVE HandlerMasks'
    BY <1>1 DEF HandlerMasks
<1>2. ASSUME NEW s \in Sigs, NEW h \in Dispositions, NEW hm \in HMasks, Sigvec(s, h, hm)
      PROVE  HandlerMasks'
    BY <1>2 DEF Sigvec, HandlerMasks, TypeInv, TypeOK
<1>3. CASE MainLoop
    BY <1>1, <1>3 DEF MainLoop, TestSlot, TakeSlot, ClearSlot, DeliverReliable,
                      DeliverOneShot, DeliverDefault, DeliverIgnored, guest
<1>4. CASE Ordinary \/ Sigreturn \/ HandlerRti \/ Exit \/ Pause \/ Read \/ ReadDone
    BY <1>1, <1>4 DEF Ordinary, Sigreturn, HandlerRti, Exit, Pause, Read, ReadDone, Wait, guest
<1>5. ASSUME NEW s \in Sigs, NEW h \in Dispositions, Signal(s, h) PROVE HandlerMasks'
    BY <1>1, <1>5 DEF Signal
<1>6. ASSUME NEW m \in Masks, Sigblock(m) \/ Sigsetmask(m) \/ Sigsuspend(m) \/ Sigwait(m)
      PROVE  HandlerMasks'
    BY <1>1, <1>6 DEF Sigblock, Sigsetmask, SetMask, Sigsuspend, Sigwait, Wait, guest
<1>7. ASSUME NEW s \in Sigs,
             KillSelfCaught(s) \/ KillSelfDefault(s) \/ Fault(s) \/ HostCatch(s) \/ HostDefault(s)
      PROVE  HandlerMasks'
    BY <1>1, <1>7 DEF KillSelfCaught, KillSelfDefault, Fault, HostCatch, HostDefault, guest
<1>8. CASE Waiting
    BY <1>1, <1>8 DEF Waiting, PauseTest, SuspendTest, SigwaitTest, SigwaitWants, Wait,
                      SigwaitTake, SigwaitClear, guest
<1>9. CASE HostContinue \/ UNCHANGED vars
    BY <1>1, <1>9 DEF HostContinue, vars, guest
<1> QED BY <1>2, <1>3, <1>4, <1>5, <1>6, <1>7, <1>8, <1>9 DEF Next, Guest, Host

(* Pushing on a stack of masks, and taking the top off again.                *)
LEMMA PushPop ==
    ASSUME NEW S, NEW s \in Seq(S), NEW m
    PROVE  /\ Append(s, m) \in Seq(S \cup {m}) /\ Len(Append(s, m)) = Len(s) + 1
           /\ Last(Append(s, m)) = m /\ Front(Append(s, m)) = s
<1> DEFINE T == S \cup {m}
           r == Append(s, m)
<1>1. s \in Seq(T) /\ m \in T /\ Len(s) \in Nat
    <2>1. S \subseteq T
        OBVIOUS
    <2>2. s \in Seq(T)
        BY <2>1, SeqMonotonic
    <2> QED BY <2>2
<1> HIDE DEF T
<1>2. /\ r \in Seq(T) /\ Len(r) = Len(s) + 1 /\ r[Len(s) + 1] = m
      /\ \A i \in 1 .. Len(s) : r[i] = s[i]
    BY <1>1, AppendProperties
<1> HIDE DEF r
<1>3. Last(r) = m
    BY <1>2 DEF Last
<1>4. Front(r) = s
    <2>1. Front(r) = SubSeq(r, 1, Len(s))
        BY <1>1, <1>2 DEF Front
    <2>2. Front(r) = [i \in 1 .. Len(s) |-> r[i]]
        BY <1>1, <1>2, <2>1
    <2>3. s = [i \in 1 .. Len(s) |-> s[i]]
        OBVIOUS
    <2> QED BY <1>2, <2>2, <2>3
<1> QED BY <1>2, <1>3, <1>4 DEF r, T

(* A stack with a frame is what is below the top one, and that frame.        *)
LEMMA TopFrame ==
    ASSUME NEW q \in Seq(Frame), q # <<>>
    PROVE  Front(q) \in Seq(Frame) /\ Last(q) \in Frame /\ q = Append(Front(q), Last(q))
<1>1. Front(q) \in Seq(Frame) /\ Last(q) \in Frame
    BY FrontFrames
<1>2. PICK s \in Seq(Frame), f \in Frame : q = Append(s, f)
    BY SequenceEmptyOrAppend
<1>3. Front(q) = s /\ Last(q) = f
    BY <1>2, PushPop
<1> QED BY <1>1, <1>2, <1>3

(* The saved masks are a sequence.                                           *)
LEMMA SavedSeq ==
    ASSUME NEW q \in Seq(Frame)
    PROVE  \E S : Saved(q) \in Seq(S)
<1> DEFINE c == Cardinality(BsdPlaces(q))
           S == {OnlyOf(NthSaved(q, n)) : n \in 1 .. c}
<1>1. Saved(q) \in [1 .. c -> S]
    BY DEF Saved
<1>2. c \in Nat
    BY PlacesType
<1> HIDE DEF c, S
<1>3. Saved(q) \in Seq(S)
    BY <1>1, <1>2
<1> QED BY <1>3, Zenon

(* The top of the stack is the mask in force.                                *)
LEMMA StackTop ==
    ASSUME NEW q \in Seq(Frame), NEW m
    PROVE  /\ Last(Append(Saved(q), m)) = m /\ Front(Append(Saved(q), m)) = Saved(q)
           /\ Len(Append(Saved(q), m)) >= 1
<1>1. PICK S : Saved(q) \in Seq(S)
    BY SavedSeq
<1>2. Len(Saved(q)) \in Nat
    BY <1>1
<1>3. /\ Last(Append(Saved(q), m)) = m /\ Front(Append(Saved(q), m)) = Saved(q)
      /\ Len(Append(Saved(q), m)) = Len(Saved(q)) + 1
    BY <1>1, PushPop, Zenon
<1> QED BY <1>2, <1>3

-----------------------------------------------------------------------------
(* Every step of the simulator does to the stack of masks what SignalMask    *)
(* allows.                                                                   *)

(* SignalMask's operators on sequences are the library's.                    *)
LEMMA SameOperators ==
    ASSUME NEW s
    PROVE  MaskContract!Front(s) = Front(s) /\ MaskContract!Last(s) = Last(s)
BY DEF MaskContract!Front, MaskContract!Last, Front, Last

(* Between instructions, while no mask and no 4.3 frame changes.             *)
LEMMA QuietMasks ==
    ASSUME Saved(frames') = Saved(frames), UNCHANGED guest_sigmask, ~InSuspend, ~InSuspend'
    PROVE  Stack' = Stack /\ InSuspend' = InSuspend
BY DEF Stack, InForce, InSuspend

LEMMA MaskInit == Init => MaskContract!Init
<1> SUFFICES ASSUME Init PROVE MaskContract!Init
    OBVIOUS
<1>1. frames = <<>> /\ guest_sigmask = {} /\ ~InSuspend
    BY DEF Init, InSuspend
<1>2. BsdPlaces(<<>>) = {}
    BY DEF BsdPlaces
<1>3. Cardinality(BsdPlaces(<<>>)) = 0
    BY <1>2, FS_EmptySet
<1>4. Saved(<<>>) = <<>>
    <2>1. 1 .. 0 = {}
        OBVIOUS
    <2> QED BY <1>3, <2>1 DEF Saved
<1>5. Append(<<>>, {}) = <<{}>>
    OBVIOUS
<1>6. InSuspend = FALSE
    BY <1>1 DEF InSuspend
<1>7. Append(Saved(frames), IF InSuspend THEN arg ELSE guest_sigmask) = <<{}>>
    BY <1>1, <1>4, <1>5, <1>6
<1> QED BY <1>6, <1>7 DEF MaskContract!Init

LEMMA MaskMain ==
    ASSUME TypeInv, HandlerMasks, MainLoop
    PROVE  MaskContract!Next \/ (Stack' = Stack /\ InSuspend' = InSuspend)
<1>1. frames \in Seq(Frame)
    BY DEF TypeInv, TypeOK
<1>2. CASE TestSlot \/ TakeSlot \/ ClearSlot \/ DeliverDefault \/ DeliverIgnored
    <2>1. UNCHANGED <<frames, guest_sigmask>> /\ ~InSuspend /\ ~InSuspend'
        BY <1>2 DEF TestSlot, TakeSlot, ClearSlot, DeliverDefault, DeliverIgnored, At, InSuspend
    <2> QED BY <2>1, QuietMasks
<1>3. CASE DeliverOneShot
    <2> DEFINE f == [kind |-> "v7", sig |-> cur, mask |-> {}]
    <2>1. f \in Frame /\ f.kind # "bsd"
        BY <1>3 DEF DeliverOneShot, At, TypeInv, TypeOK, Control, Frame
    <2>2. frames' = Append(frames, f) /\ UNCHANGED guest_sigmask /\ ~InSuspend /\ ~InSuspend'
        BY <1>3 DEF DeliverOneShot, At, InSuspend
    <2> HIDE DEF f
    <2>3. Saved(frames') = Saved(frames)
        BY <1>1, <2>1, <2>2, AppendPlain
    <2> QED BY <2>2, <2>3, QuietMasks
<1>4. CASE DeliverReliable
    <2> DEFINE f == [kind |-> "bsd", sig |-> cur, mask |-> guest_sigmask]
    <2>1. cur \in Sigs
        BY <1>4 DEF DeliverReliable, At, TypeInv, TypeOK, Control
    <2>2. f \in Frame /\ f.kind = "bsd" /\ f.mask = guest_sigmask
        BY <2>1 DEF TypeInv, TypeOK, Frame
    <2>3. frames' = Append(frames, f) /\ ~InSuspend /\ ~InSuspend'
          /\ guest_sigmask' = guest_sigmask \cup guest_hmask[cur] \cup {cur}
        BY <1>4 DEF DeliverReliable, At, InSuspend
    <2> HIDE DEF f
    <2>4. Saved(frames') = Append(Saved(frames), guest_sigmask)
        BY <1>1, <2>2, <2>3, AppendBsd
    <2>5. Stack = Append(Saved(frames), guest_sigmask)
        BY <2>3 DEF Stack, InForce
    <2>6. Last(Stack) = guest_sigmask
        BY <1>1, <2>5, StackTop
    <2>7. Stack' = Append(Stack, Last(Stack) \cup guest_hmask[cur] \cup {cur})
        BY <2>3, <2>4, <2>5, <2>6 DEF Stack, InForce
    <2>8. guest_hmask[cur] \in HMasks \cup {{}}
        BY <2>1 DEF HandlerMasks
    <2>9. Stack' = Append(Stack, MaskContract!Last(Stack) \cup guest_hmask[cur] \cup {cur})
        BY <2>7, SameOperators
    <2>10. InSuspend' = InSuspend
        BY <2>3 DEF InSuspend
    <2>11. MaskContract!Enter
        BY <2>1, <2>3, <2>8, <2>9, <2>10 DEF MaskContract!Enter, Stack, InForce
    <2> QED BY <2>11 DEF MaskContract!Next
<1> QED BY <1>2, <1>3, <1>4 DEF MainLoop

LEMMA MaskReturn ==
    ASSUME TypeInv, Sigreturn
    PROVE  MaskContract!Next
<1>1. frames \in Seq(Frame) /\ frames # <<>> /\ Last(frames).kind = "bsd"
    BY DEF TypeInv, TypeOK, Sigreturn
<1>2. guest_sigmask' = Last(frames).mask /\ frames' = Front(frames) /\ ~InSuspend /\ ~InSuspend'
    BY DEF Sigreturn, At, InSuspend
<1>3. Front(frames) \in Seq(Frame) /\ Last(frames) \in Frame
      /\ frames = Append(Front(frames), Last(frames))
    BY <1>1, TopFrame
<1>4. Saved(frames) = Append(Saved(Front(frames)), Last(frames).mask)
    BY <1>1, <1>3, AppendBsd
<1>5. Stack' = Saved(frames)
    BY <1>2, <1>4 DEF Stack, InForce
<1>6. Front(Stack) = Saved(frames)
    BY <1>1, StackTop DEF Stack
<1>7. Len(Stack) > 1
    <2>1. PICK S : Saved(frames) \in Seq(S)
        BY <1>1, SavedSeq
    <2>2. Len(Stack) = Len(Saved(frames)) + 1 /\ Len(Saved(frames)) \in Nat
        BY <2>1, PushPop DEF Stack
    <2>3. Len(Saved(frames)) >= 1
        BY <1>3, <1>4, StackTop
    <2> QED BY <2>2, <2>3
<1>8. MaskContract!Return
    <2>1. Stack' = MaskContract!Front(Stack)
        BY <1>5, <1>6, SameOperators
    <2>2. InSuspend' = InSuspend
        BY <1>2 DEF InSuspend
    <2> QED BY <1>2, <1>7, <2>1, <2>2 DEF MaskContract!Return, Stack, InForce
<1> QED BY <1>8 DEF MaskContract!Next

LEMMA MaskSet ==
    ASSUME TypeInv, NEW m \in Masks, Sigblock(m) \/ Sigsetmask(m)
    PROVE  MaskContract!Next
<1>1. frames \in Seq(Frame)
    BY DEF TypeInv, TypeOK
<1>2. ~InSuspend /\ ~InSuspend' /\ frames' = frames
    BY DEF Sigblock, Sigsetmask, SetMask, At, InSuspend
<1>3. Stack = Append(Saved(frames), guest_sigmask) /\ Stack' = Append(Saved(frames), guest_sigmask')
    BY <1>2 DEF Stack, InForce
<1>4. Front(Stack) = Saved(frames) /\ Last(Stack) = guest_sigmask
    BY <1>1, <1>3, StackTop
<1>5. guest_sigmask' = m \/ guest_sigmask' = guest_sigmask \cup m
    BY DEF Sigblock, Sigsetmask, SetMask
<1>6. Stack' = Append(Front(Stack), m) \/ Stack' = Append(Front(Stack), Last(Stack) \cup m)
    BY <1>3, <1>4, <1>5
<1>7. MaskContract!SetMask
    <2>1. \/ Stack' = Append(MaskContract!Front(Stack), m)
          \/ Stack' = Append(MaskContract!Front(Stack), MaskContract!Last(Stack) \cup m)
        BY <1>6, SameOperators
    <2>2. InSuspend' = InSuspend
        BY <1>2 DEF InSuspend
    <2> QED BY <1>2, <2>1, <2>2 DEF MaskContract!SetMask, MaskContract!Replace, Stack, InForce
<1> QED BY <1>7 DEF MaskContract!Next

LEMMA MaskWait ==
    ASSUME NEW m, Sigsuspend(m) \/ SuspendTest
    PROVE  MaskContract!Next \/ (Stack' = Stack /\ InSuspend' = InSuspend)
<1>1. Stack' = Stack
    BY DEF Sigsuspend, SuspendTest, Wait, At, Stack, InForce, InSuspend
<1>2. InSuspend' \in BOOLEAN /\ InSuspend \in BOOLEAN
    BY DEF InSuspend
<1>3. InSuspend' = ~InSuspend => MaskContract!Suspend
    BY <1>1 DEF MaskContract!Suspend, Stack, InForce
<1> QED BY <1>1, <1>2, <1>3 DEF MaskContract!Next

LEMMA NextMasks ==
    TypeInv /\ HandlerMasks /\ [Next]_vars
        => MaskContract!Next \/ (Stack' = Stack /\ InSuspend' = InSuspend)
<1> DEFINE Goal == MaskContract!Next \/ (Stack' = Stack /\ InSuspend' = InSuspend)
<1> SUFFICES ASSUME TypeInv, HandlerMasks, [Next]_vars PROVE Goal
    OBVIOUS
<1>1. CASE MainLoop
    BY <1>1, MaskMain
<1>2. CASE Sigreturn
    BY <1>2, MaskReturn
<1>3. CASE HandlerRti
    <2>1. frames \in Seq(Frame) /\ frames # <<>> /\ Last(frames).kind # "bsd"
          /\ frames' = Front(frames) /\ UNCHANGED guest_sigmask /\ ~InSuspend /\ ~InSuspend'
        BY <1>3 DEF HandlerRti, At, InSuspend, TypeInv, TypeOK
    <2>2. Front(frames) \in Seq(Frame) /\ Last(frames) \in Frame
          /\ frames = Append(Front(frames), Last(frames))
        BY <2>1, TopFrame
    <2>3. Saved(frames) = Saved(Front(frames))
        BY <2>1, <2>2, AppendPlain
    <2> QED BY <2>1, <2>3, QuietMasks
<1>4. CASE Ordinary \/ Exit \/ Pause \/ Read \/ ReadDone
    <2>1. UNCHANGED <<frames, guest_sigmask>> /\ ~InSuspend /\ ~InSuspend'
        BY <1>4 DEF Ordinary, Exit, Pause, Read, ReadDone, Wait, At, InSuspend
    <2> QED BY <2>1, QuietMasks
<1>5. ASSUME NEW s \in Sigs, NEW h \in Dispositions, NEW hm,
             Signal(s, h) \/ Sigvec(s, h, hm)
      PROVE  Goal
    <2>1. UNCHANGED <<frames, guest_sigmask>> /\ ~InSuspend /\ ~InSuspend'
        BY <1>5 DEF Signal, Sigvec, At, InSuspend
    <2> QED BY <2>1, QuietMasks
<1>6. ASSUME NEW s \in Sigs, KillSelfCaught(s) \/ KillSelfDefault(s) \/ Fault(s) PROVE Goal
    <2>1. UNCHANGED <<frames, guest_sigmask>> /\ ~InSuspend /\ ~InSuspend'
        BY <1>6 DEF KillSelfCaught, KillSelfDefault, Fault, At, InSuspend
    <2> QED BY <2>1, QuietMasks
<1>7. ASSUME NEW m \in Masks, Sigblock(m) \/ Sigsetmask(m) PROVE Goal
    BY <1>7, MaskSet
<1>8. ASSUME NEW m \in Masks, Sigwait(m) PROVE Goal
    <2>1. UNCHANGED <<frames, guest_sigmask>> /\ ~InSuspend /\ ~InSuspend'
        BY <1>8 DEF Sigwait, Wait, At, InSuspend
    <2> QED BY <2>1, QuietMasks
<1>9. ASSUME NEW m \in Masks, Sigsuspend(m) PROVE Goal
    BY <1>9, MaskWait
<1>10. CASE SuspendTest
    BY <1>10, MaskWait
<1>11. CASE PauseTest \/ SigwaitTest \/ SigwaitWants \/ SigwaitTake \/ SigwaitClear
    <2>1. UNCHANGED <<frames, guest_sigmask>> /\ ~InSuspend /\ ~InSuspend'
        BY <1>11 DEF PauseTest, SigwaitTest, SigwaitWants, SigwaitTake, SigwaitClear,
                     Wait, At, InSuspend
    <2> QED BY <2>1, QuietMasks
<1>12. ASSUME NEW s \in Sigs, HostCatch(s) \/ HostDefault(s) PROVE Goal
    BY <1>12 DEF HostCatch, HostDefault, InSuspend, Stack, InForce
<1>13. CASE HostContinue \/ UNCHANGED vars
    BY <1>13 DEF HostContinue, vars, InSuspend, Stack, InForce
<1> QED
    BY <1>1, <1>2, <1>3, <1>4, <1>5, <1>6, <1>7, <1>8, <1>9, <1>10, <1>11, <1>12, <1>13
    DEF Next, Guest, Waiting, Host

(* Whatever nests, in whatever order handlers of both kinds are entered and  *)
(* left, the simulator's frames keep the contract of 4.3BSD masks: it        *)
(* implements SignalMask.                                                    *)
THEOREM MasksKept == Spec => MaskDiscipline
<1>1. Init => MaskContract!Init
    BY MaskInit
<1>2. TypeInv /\ HandlerMasks /\ [Next]_vars
        => [MaskContract!Next]_<<Append(Saved(frames), IF InSuspend THEN arg ELSE guest_sigmask), InSuspend>>
    BY NextMasks DEF Stack, InForce
<1>3. Spec => [](TypeInv /\ HandlerMasks)
    <2>1. Init => TypeInv /\ HandlerMasks
        BY InitTypeInv, InitHandlerMasks
    <2>2. TypeInv /\ HandlerMasks /\ [Next]_vars => TypeInv' /\ HandlerMasks'
        BY NextTypeInv, NextHandlerMasks
    <2> QED BY <2>1, <2>2, PTL DEF Spec
<1> QED BY <1>1, <1>2, <1>3, PTL DEF Spec, MaskDiscipline, MaskContract!Spec
=============================================================================
