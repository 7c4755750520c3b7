------------------------ MODULE ApsimPtrace_proofs ------------------------
(***************************************************************************)
(* Theorems about the cooperative ptrace channel, for any number of        *)
(* children and of signals, and a debugger that keeps to its manual.       *)
(***************************************************************************)
EXTENDS ApsimPtrace, SequenceTheorems, TLAPS

(* What is open.  A child that serves has accepted; the debugger has one   *)
(* connection, and keeps it until its child is reaped.                     *)
Sockets(k) ==
    /\ kpc[k] = "serve" => kcfd[k] = "accepted"
    /\ kcfd[k] = "accepted" => conn[k] /\ Alive(k)
    /\ conn[k] => kpc[k] # "unborn" /\ (pt_cfd = k \/ kpc[k] = "reaped")
    /\ pt_cfd = k => conn[k]

(* One request is on its way at most, and is what the debugger asked for   *)
(* last; single-step is armed by a step or about to be disarmed.           *)
Steps(k) ==
    /\ toK[k] = <<>> \/ /\ kpc[k] = "serve"
                        /\ \E r \in Requests : /\ toK[k] = <<r>>
                                               /\ r \in Resumes => asked[k] = (r.req = "step")
    /\ pt_step[k] => asked[k] \/ \E r \in Resumes : toK[k] = <<r>>

(* What a child has told a debugger that believes it runs.                 *)
Tells(k, s) ==
    \/ s = <<>> /\ kpc[k] # "serve"
    \/ kpc[k] \in {"serve", "zombie"} /\ \E n \in {SIGTRAP, SIGINT} : s = <<Stop(n)>>
    \/ kpc[k] = "zombie" /\ s = <<ExitNote>>

(* A request is on its way, answered, or lost with the child; behind the   *)
(* answer to a resume or a kill comes what the child tells next.           *)
Answering(k) ==
    \/ toK[k] = <<dreq>> /\ toD[k] = <<>>
    \/ toK[k] = <<>> /\ toD[k] = <<>> /\ kpc[k] = "zombie"
    \/ /\ toK[k] = <<>> /\ toD[k] # <<>> /\ Head(toD[k]) = Reply(dreq)
       /\ IF dreq.req = "data" THEN Tail(toD[k]) = <<>> /\ kpc[k] \in {"serve", "zombie"}
          ELSE Tells(k, Tail(toD[k]))

Channel(k) ==
    \/ pt_cfd # k /\ dview[k] = "running" /\ toD[k] = <<>> /\ toK[k] = <<>>
    \/ pt_cfd = k /\ dpc = "reply" /\ dview[k] = "stopped" /\ Answering(k)
    \/ /\ pt_cfd = k /\ dpc = "run" /\ dview[k] = "stopped"
       /\ toK[k] = <<>> /\ toD[k] = <<>> /\ kpc[k] \in {"serve", "zombie"}
    \/ /\ pt_cfd = k /\ dpc # "reply" /\ dview[k] = "running"
       /\ toK[k] = <<>> /\ Tells(k, toD[k])
       /\ dpc \in {"reap", "waitpid"} => toD[k] = <<>> /\ ~Alive(k)

KidInv(k) == Sockets(k) /\ Steps(k) /\ (dpc # "gone" => Channel(k))

DebuggerInv ==
    /\ dpc \in {"read", "reap", "reply"} => pt_cfd # None
    /\ dpc = "find" => pt_cfd = None
    /\ dpc = "reply" => dreq \in Requests

PtraceInv == TypeOK /\ DebuggerInv /\ \A k \in Kids : KidInv(k)

---------------------------------------------------------------------------
(* Queues, and types.                                                      *)

LEMMA Queued ==
    ASSUME NEW S, NEW s \in Seq(S), NEW m \in S
    PROVE  /\ Append(s, m) \in Seq(S)
           /\ Append(s, m) # <<>>
           /\ s = <<>> => Append(s, m) = <<m>>
           /\ s # <<>> => Head(Append(s, m)) = Head(s) /\ Tail(Append(s, m)) = Append(Tail(s), m)
<1>1. Append(s, m) \in Seq(S) /\ Append(s, m) # <<>>
    BY AppendProperties
<1>2. s = <<>> => Append(s, m) = <<m>>
    OBVIOUS
<1>3. s # <<>> => Head(Append(s, m)) = Head(s) /\ Tail(Append(s, m)) = Append(Tail(s), m)
    BY HeadTailAppend
<1> QED BY <1>1, <1>2, <1>3

LEMMA Taken ==
    ASSUME NEW S, NEW s \in Seq(S), s # <<>>
    PROVE  Tail(s) \in Seq(S) /\ Head(s) \in S
OBVIOUS

LEMMA Messages ==
    /\ ExitNote \in Message
    /\ \A n \in {SIGTRAP, SIGINT} : Stop(n) \in Message
    /\ \A r \in Requests : Reply(r) \in Message
    /\ Resumes \subseteq Requests
    /\ \A r \in Requests : r.req \in {"data", "kill", "cont", "step"}
    /\ \A r \in Requests : r \in Resumes <=> r.req \in {"cont", "step"}
    /\ \A r \in Requests : r.req \in {"data", "kill"} => r.sig = 0
BY DEF Message, Resumes, Requests, Request

LEMMA ResumeTypes ==
    ASSUME TypeOK, NEW k \in Kids, NEW s, Resume(k, s)
    PROVE  /\ kpc' \in [Kids -> {"unborn", "top", "exec", "accept", "notify", "serve", "zombie", "reaped"}]
           /\ pending' \in [Kids -> BOOLEAN]
<1>1. (IF why[k] = "trap" THEN pending[k] \/ s # 0 ELSE s # 0) \in BOOLEAN
    OBVIOUS
<1> QED BY <1>1 DEF Resume, Goto, Set, TypeOK

LEMMA GiveUpTypes ==
    ASSUME TypeOK, NEW k \in Kids, NEW s, GiveUpTracing(k, s), toK' = toK
    PROVE  TypeOK'
BY ResumeTypes DEF GiveUpTracing, Set, TypeOK, debugger

LEMMA DieTypes ==
    ASSUME TypeOK, NEW k \in Kids, Die(k), toD' \in [Kids -> Seq(Message)]
    PROVE  TypeOK'
<1>1. toK' \in [Kids -> Seq(Requests)]
    BY DEF Die, Set, TypeOK
<1>2. /\ kpc' \in [Kids -> {"unborn", "top", "exec", "accept", "notify", "serve", "zombie", "reaped"}]
      /\ pt_lfd' \in [Kids -> BOOLEAN] /\ kcfd' \in [Kids -> {"closed", "accepted", "inherited"}]
    BY DEF Die, Goto, Set, TypeOK
<1>3. /\ pt_pending' \in [Kids -> {0, SIGTRAP}] /\ pt_step' \in [Kids -> BOOLEAN]
      /\ pending' \in [Kids -> BOOLEAN] /\ why' \in [Kids -> {"trap", "signal"}]
    BY DEF Die, Set, TypeOK
<1>4. UNCHANGED <<debugger, pt_traced, sent, asked, conn>>
    BY DEF Die
<1> QED BY <1>1, <1>2, <1>3, <1>4 DEF TypeOK, debugger

LEMMA SayTypes ==
    ASSUME TypeOK, NEW k \in Kids, NEW m \in Message
    PROVE  [toD EXCEPT ![k] = Append(@, m)] \in [Kids -> Seq(Message)]
BY DEF TypeOK

LEMMA AnswerTypes ==
    ASSUME TypeOK, NEW k \in Kids, NEW s \in Seq(Message), Answer(k, s)
    PROVE  toD' \in [Kids -> Seq(Message)]
<1>1. toD[k] \o s \in Seq(Message)
    BY DEF TypeOK
<1> QED BY <1>1 DEF Answer, TypeOK

LEMMA InstructionTypes ==
    ASSUME TypeOK, NEW k \in Kids, NEW traced \in BOOLEAN, NEW listen \in BOOLEAN, NEW trap \in BOOLEAN,
           Instruction(k, traced, listen, trap)
    PROVE  TypeOK'
<1>1. PICK held \in BOOLEAN : pending' = Set(pending, k, pending[k] /\ held)
    BY DEF Instruction
<1>2. pending' \in [Kids -> BOOLEAN]
    <2>1. (pending[k] /\ held) \in BOOLEAN
        OBVIOUS
    <2> QED BY <1>1, <2>1 DEF TypeOK, Set
<1>3. pt_pending' \in [Kids -> {0, SIGTRAP}]
    BY DEF Instruction, Set, TypeOK
<1> QED BY <1>2, <1>3 DEF Instruction, Set, Goto, TypeOK, debugger

LEMMA ServeTypes ==
    ASSUME TypeOK, NEW k \in Kids, Serve(k)
    PROVE  TypeOK'
<1> DEFINE r == Head(toK[k])
<1>1. r \in Requests /\ Tail(toK[k]) \in Seq(Requests)
    BY Taken DEF Serve, TypeOK
<1>2. toD' \in [Kids -> Seq(Message)]
    <2>1. <<Reply(r)>> \in Seq(Message)
        BY <1>1, Messages
    <2> QED BY <2>1, AnswerTypes DEF Serve
<1>3. toK' \in [Kids -> Seq(Requests)]
    BY <1>1 DEF Serve, TypeOK
<1>4. CASE r \in Resumes
    <2>1. (r.req = "step") \in BOOLEAN
        OBVIOUS
    <2>2. Resume(k, r.sig) /\ pt_step' = Set(pt_step, k, r.req = "step")
        BY <1>4 DEF Serve
    <2>3. pt_step' \in [Kids -> BOOLEAN]
        <3>1. (r.req = "step") = TRUE \/ (r.req = "step") = FALSE
            BY <2>1
        <3>2. pt_step' = Set(pt_step, k, TRUE) \/ pt_step' = Set(pt_step, k, FALSE)
            BY <2>2, <3>1
        <3> QED BY <3>2 DEF Set, TypeOK
    <2>4. UNCHANGED <<debugger, pt_traced, pt_lfd, kcfd, pt_pending, why, sent, asked, conn>>
        BY DEF Serve
    <2>5. /\ kpc' \in [Kids -> {"unborn", "top", "exec", "accept", "notify", "serve", "zombie", "reaped"}]
          /\ pending' \in [Kids -> BOOLEAN]
        BY <2>2, ResumeTypes
    <2> QED BY <1>2, <1>3, <2>3, <2>4, <2>5 DEF TypeOK, debugger
<1>5. CASE r \notin Resumes
    BY <1>2, <1>3, <1>5 DEF Serve, TypeOK, debugger
<1> QED BY <1>4, <1>5

LEMMA KidTypes ==
    ASSUME TypeOK, NEW k \in Kids, KidStep(k) \/ Host(k)
    PROVE  TypeOK'
<1> USE DEF TypeOK, debugger, Goto, Set, EnterStop
<1>1. CASE StopForTrap(k)
    BY <1>1 DEF StopForTrap
<1>2. CASE StopForSignal(k)
    BY <1>2 DEF StopForSignal
<1>3. CASE Accept(k)
    BY <1>3 DEF Accept
<1>4. CASE Proceed(k)
    <2>1. kpc' \in [Kids -> {"unborn", "top", "exec", "accept", "notify", "serve", "zombie", "reaped"}]
        BY <1>4 DEF Proceed
    <2>2. /\ UNCHANGED <<dpc, pt_cfd, pt_kids, dreq, dview, pt_traced, pt_lfd, kcfd, pt_pending, pt_step>>
          /\ UNCHANGED <<pending, why, sent, asked, conn, toD, toK>>
        BY <1>4 DEF Proceed
    <2> QED BY <2>1, <2>2
<1>5. CASE HostSignal(k)
    <2>1. sent' \in [Kids -> Nat] /\ \A j \in Kids : sent'[j] <= MaxSignals[j]
        <3>1. MaxSignals[k] \in Nat /\ sent[k] \in Nat /\ sent[k] < MaxSignals[k]
            BY <1>5, MaxSignalsAssumption DEF HostSignal
        <3>2. sent[k] + 1 \in Nat /\ sent[k] + 1 <= MaxSignals[k]
            BY <3>1
        <3> QED BY <1>5, <3>2 DEF HostSignal
    <2>2. pending' \in [Kids -> BOOLEAN]
        BY <1>5 DEF HostSignal
    <2> QED BY <1>5, <2>1, <2>2 DEF HostSignal
<1> HIDE DEF TypeOK
<1>6. CASE AcceptFails(k) \/ ServeEnds(k)
    BY <1>6, GiveUpTypes DEF AcceptFails, ServeEnds
<1>7. CASE Notify(k)
    <2>1. Stop(Reported(k)) \in Message
        BY Messages DEF Reported
    <2> QED BY <1>7, <2>1, SayTypes DEF Notify, TypeOK
<1>8. CASE NotifyFails(k)
    BY <1>8, GiveUpTypes, DieTypes DEF NotifyFails, TypeOK
<1>9. CASE Serve(k)
    BY <1>9, ServeTypes
<1>10. CASE ServeKill(k)
    <2>1. Head(toK[k]) \in Requests
        BY <1>10, Taken DEF ServeKill, TypeOK
    <2>2. <<Reply(Head(toK[k])), ExitNote>> \in Seq(Message)
        BY <2>1, Messages
    <2> QED BY <1>10, <2>2, AnswerTypes, DieTypes DEF ServeKill
<1>11. CASE ServeDies(k) \/ HostKill(k)
    BY <1>11, DieTypes DEF ServeDies, HostKill, TypeOK
<1>12. CASE Exit(k)
    BY <1>12, DieTypes, SayTypes, Messages DEF Exit, TypeOK
<1>13. CASE Ordinary(k) \/ TraceMe(k) \/ Bpt(k) \/ Exece(k)
    <2>1. pt_traced[k] \in BOOLEAN /\ pt_lfd[k] \in BOOLEAN /\ \A ok \in BOOLEAN : (pt_lfd[k] \/ ok) \in BOOLEAN
        BY DEF TypeOK
    <2> QED BY <1>13, <2>1, InstructionTypes DEF Ordinary, TraceMe, Bpt, Exece
<1> QED BY <1>1, <1>2, <1>3, <1>4, <1>5, <1>6, <1>7, <1>8, <1>9, <1>10, <1>11, <1>12, <1>13 DEF KidStep, Host

LEMMA DebuggerTypes ==
    ASSUME TypeOK, DebuggerInv, DebuggerStep \/ DebuggerCalls
    PROVE  TypeOK'
<1> USE DEF TypeOK, kids
<1>1. CASE WaitRead
    <2>1. pt_cfd \in Kids
        BY <1>1 DEF WaitRead, DebuggerInv
    <2>2. Tail(toD[pt_cfd]) \in Seq(Message)
        BY <1>1, <2>1, Taken DEF WaitRead
    <2> QED BY <1>1, <2>1, <2>2 DEF WaitRead
<1>2. CASE WaitReadFails
    BY <1>2 DEF WaitReadFails
<1>3. ASSUME NEW k \in Kids, Reaped(k), pt_cfd' \in {pt_cfd, None} PROVE TypeOK'
    BY <1>3 DEF Reaped
<1>4. CASE WaitReap
    BY <1>3, <1>4 DEF WaitReap, DebuggerInv
<1>5. CASE WaitPid
    BY <1>3, <1>5 DEF WaitPid
<1>6. CASE PtraceReply
    <2>1. pt_cfd \in Kids
        BY <1>6 DEF PtraceReply, DebuggerInv
    <2>2. Tail(toD[pt_cfd]) \in Seq(Message)
        BY <1>6, <2>1, Taken DEF PtraceReply
    <2> QED BY <1>6, <2>1, <2>2 DEF PtraceReply
<1>7. CASE PtraceFails
    BY <1>7 DEF PtraceFails
<1>8. CASE FindGivesUp
    BY <1>8 DEF FindGivesUp
<1>9. ASSUME NEW k \in Kids, FindTracee(k) PROVE TypeOK'
    BY <1>9 DEF FindTracee, Connect
<1>10. CASE WaitCall \/ DebuggerExit
    BY <1>10 DEF WaitCall, DebuggerExit
<1>11. ASSUME NEW k \in Kids, Fork(k) PROVE TypeOK'
    BY <1>11 DEF Fork
<1>12. ASSUME NEW k \in Kids, NEW r \in Requests, PtraceCall(k, r) PROVE TypeOK'
    <2>1. pt_cfd' \in Kids /\ conn' \in [Kids -> BOOLEAN]
        BY <1>12 DEF PtraceCall, Connect
    <2>2. /\ toK' \in [Kids -> Seq(Requests)] /\ dreq' \in Requests \cup {NoRequest}
          /\ dpc' \in {"run", "reply", "gone"} /\ asked' \in [Kids -> BOOLEAN]
          /\ dview' \in [Kids -> {"running", "stopped"}]
        <3> DEFINE c == pt_cfd'
        <3>1. CASE KidEnd(c)
            <4>1. Append(toK[c], r) \in Seq(Requests)
                BY <2>1
            <4>2. (r.req = "step") \in BOOLEAN
                OBVIOUS
            <4> QED BY <1>12, <2>1, <3>1, <4>1, <4>2 DEF PtraceCall
        <3>2. CASE ~KidEnd(c)
            BY <1>12, <2>1, <3>2 DEF PtraceCall
        <3> QED BY <3>1, <3>2
    <2> QED BY <1>12, <2>1, <2>2 DEF PtraceCall
<1> QED BY <1>1, <1>2, <1>4, <1>5, <1>6, <1>7, <1>8, <1>9, <1>10, <1>11, <1>12 DEF DebuggerStep, DebuggerCalls

---------------------------------------------------------------------------
(* The steps of a child leave the others, and the debugger, as they are.   *)

Same(k) ==
    /\ UNCHANGED <<dpc, pt_cfd, dreq>>
    /\ dview'[k] = dview[k] /\ kpc'[k] = kpc[k] /\ kcfd'[k] = kcfd[k] /\ conn'[k] = conn[k]
    /\ asked'[k] = asked[k] /\ pt_step'[k] = pt_step[k] /\ toD'[k] = toD[k] /\ toK'[k] = toK[k]

LEMMA SameKeeps ==
    ASSUME NEW k \in Kids, KidInv(k), Same(k)
    PROVE  KidInv(k)'
BY DEF Same, KidInv, Sockets, Steps, Channel, Answering, Tells, Alive

LEMMA OthersSame ==
    ASSUME TypeOK, NEW k \in Kids, KidStep(k) \/ Host(k), NEW j \in Kids, j # k
    PROVE  Same(j)
<1> USE DEF TypeOK, Same, debugger, Goto, Set, EnterStop
<1>1. CASE StopForTrap(k) \/ StopForSignal(k) \/ Accept(k) \/ Proceed(k) \/ HostSignal(k)
    BY <1>1 DEF StopForTrap, StopForSignal, Accept, Proceed, HostSignal
<1>2. CASE AcceptFails(k) \/ ServeEnds(k)
    BY <1>2 DEF AcceptFails, ServeEnds, GiveUpTracing, Resume
<1>3. CASE Notify(k) \/ NotifyFails(k)
    BY <1>3 DEF Notify, NotifyFails, GiveUpTracing, Resume, Die
<1>4. CASE Serve(k)
    BY <1>4 DEF Serve, Answer, Resume
<1>5. CASE ServeKill(k)
    BY <1>5 DEF ServeKill, Answer, Die
<1>6. CASE ServeDies(k) \/ HostKill(k) \/ Exit(k)
    BY <1>6 DEF ServeDies, HostKill, Exit, Die
<1>7. CASE Ordinary(k) \/ TraceMe(k) \/ Bpt(k) \/ Exece(k)
    BY <1>7 DEF Ordinary, TraceMe, Bpt, Exece, Instruction
<1> QED BY <1>1, <1>2, <1>3, <1>4, <1>5, <1>6, <1>7 DEF KidStep, Host

---------------------------------------------------------------------------
(* The steps of a child, on itself.                                        *)

(* Nobody but the child that has it hears the debugger.                    *)
LEMMA Hears ==
    ASSUME TypeOK, NEW k \in Kids, KidInv(k), kpc[k] = "serve"
    PROVE  pt_cfd = k
BY DEF KidInv, Sockets, Alive

(* A child that goes from one place to another outside pt_stop's loop.     *)
LEMMA MovesOn ==
    ASSUME TypeOK, NEW k \in Kids, KidInv(k), Alive(k), kpc[k] # "serve",
           UNCHANGED <<dpc, pt_cfd, dreq>>,
           dview'[k] = dview[k], conn'[k] = conn[k], asked'[k] = asked[k],
           toD'[k] = toD[k], toK'[k] = toK[k], pt_step'[k] = pt_step[k],
           kpc'[k] \in {"top", "exec", "accept", "notify"},
           kcfd'[k] = kcfd[k] \/ (kcfd'[k] = "accepted" /\ conn[k])
    PROVE  KidInv(k)'
<1>1. Sockets(k)'
    BY DEF KidInv, Sockets, Alive
<1>2. Steps(k)'
    BY DEF KidInv, Steps
<1>3. ASSUME dpc # "gone" PROVE Channel(k)'
    BY <1>3 DEF KidInv, Channel, Answering, Tells, Alive
<1> QED BY <1>1, <1>2, <1>3 DEF KidInv

(* A child that dies without a word.                                       *)
LEMMA Dies ==
    ASSUME TypeOK, NEW k \in Kids, KidInv(k), Alive(k), Die(k), toD'[k] = toD[k]
    PROVE  KidInv(k)'
<1>0. /\ kpc'[k] = "zombie" /\ kcfd'[k] = "closed" /\ pt_step'[k] = FALSE /\ toK'[k] = <<>>
      /\ UNCHANGED <<debugger, asked, conn>>
    BY DEF Die, Goto, Set, TypeOK
<1>1. Sockets(k)'
    BY <1>0 DEF KidInv, Sockets, Alive, debugger
<1>2. Steps(k)'
    BY <1>0 DEF Steps
<1>3. ASSUME dpc # "gone" PROVE Channel(k)'
    BY <1>0, <1>3 DEF KidInv, Channel, Answering, Tells, Alive, debugger
<1> QED BY <1>0, <1>1, <1>2, <1>3 DEF KidInv, debugger

(* What it tells goes behind what it has told.                             *)
LEMMA Adds ==
    ASSUME TypeOK, NEW k \in Kids, KidInv(k), Alive(k), kpc[k] # "serve", dpc # "gone", pt_cfd = k,
           NEW m \in Message, toD'[k] = Append(toD[k], m)
    PROVE  /\ toK[k] = <<>>
           /\ \/ /\ dpc = "reply" /\ dview[k] = "stopped" /\ dreq.req # "data"
                 /\ toD'[k] # <<>> /\ Head(toD'[k]) = Reply(dreq) /\ Tail(toD'[k]) = <<m>>
              \/ /\ dpc \notin {"reply", "reap", "waitpid"} /\ dview[k] = "running" /\ toD'[k] = <<m>>
<1>1. toD[k] \in Seq(Message)
    BY DEF TypeOK
<1>2. /\ toD'[k] # <<>>
      /\ toD[k] = <<>> => toD'[k] = <<m>>
      /\ toD[k] # <<>> => Head(toD'[k]) = Head(toD[k]) /\ Tail(toD'[k]) = Append(Tail(toD[k]), m)
    BY <1>1, Queued
<1>3. Append(<<>>, m) = <<m>>
    OBVIOUS
<1>4. Channel(k) /\ kpc[k] \notin {"serve", "zombie"} /\ Steps(k)
    BY DEF KidInv, Alive
<1>5. CASE dpc = "reply"
    <2>1. dview[k] = "stopped" /\ Answering(k)
        BY <1>4, <1>5 DEF Channel
    <2>2. toK[k] = <<>>
        BY <1>4 DEF Steps
    <2>3. toD[k] # <<>> /\ Head(toD[k]) = Reply(dreq) /\ dreq.req # "data" /\ Tail(toD[k]) = <<>>
        BY <1>4, <2>1, <2>2 DEF Answering, Tells
    <2> QED BY <1>2, <1>3, <1>5, <2>1, <2>2, <2>3
<1>6. CASE dpc # "reply"
    <2>1. dview[k] = "running" /\ toK[k] = <<>> /\ Tells(k, toD[k]) /\ dpc \notin {"reap", "waitpid"}
        BY <1>4, <1>6 DEF Channel
    <2>2. toD[k] = <<>>
        BY <1>4, <2>1 DEF Tells
    <2> QED BY <1>2, <1>6, <2>1, <2>2
<1> QED BY <1>5, <1>6

LEMMA NotifyKeeps ==
    ASSUME TypeOK, NEW k \in Kids, KidInv(k), Notify(k)
    PROVE  KidInv(k)'
<1>0. /\ kpc[k] = "notify" /\ kpc'[k] = "serve" /\ pt_cfd = k /\ dpc # "gone" /\ kcfd[k] = "accepted"
      /\ toD'[k] = Append(toD[k], Stop(Reported(k)))
      /\ UNCHANGED <<debugger, kcfd, pt_step, asked, conn, toK>>
    BY DEF Notify, Peer, DebuggerEnd, Goto, TypeOK
<1>1. PICK n \in {SIGTRAP, SIGINT} : n = Reported(k) /\ Stop(n) \in Message
    BY Messages DEF Reported
<1>2. Sockets(k)'
    BY <1>0 DEF KidInv, Sockets, Alive, debugger
<1>3. Steps(k)'
    BY <1>0 DEF KidInv, Steps
<1>4. Channel(k)'
    <2>1. Alive(k)
        BY <1>0 DEF Alive
    <2>2. /\ toK[k] = <<>>
          /\ \/ /\ dpc = "reply" /\ dview[k] = "stopped" /\ dreq.req # "data"
                /\ toD'[k] # <<>> /\ Head(toD'[k]) = Reply(dreq) /\ Tail(toD'[k]) = <<Stop(n)>>
             \/ /\ dpc \notin {"reply", "reap", "waitpid"} /\ dview[k] = "running" /\ toD'[k] = <<Stop(n)>>
        BY <1>0, <1>1, <2>1, Adds
    <2>3. Tells(k, <<Stop(n)>>)'
        BY <1>0, <1>1 DEF Tells
    <2> QED BY <1>0, <2>2, <2>3 DEF Channel, Answering, debugger
<1> QED BY <1>0, <1>2, <1>3, <1>4 DEF KidInv, debugger

(* A request on its way is the one ptrace() waits for.                     *)
LEMMA Requested ==
    ASSUME TypeOK, DebuggerInv, NEW k \in Kids, KidInv(k), kpc[k] = "serve", toK[k] # <<>>
    PROVE  /\ Head(toK[k]) \in Requests /\ Tail(toK[k]) = <<>>
           /\ Head(toK[k]) \in Resumes => asked[k] = (Head(toK[k]).req = "step")
           /\ Head(toK[k]) \notin Resumes /\ pt_step[k] => asked[k]
           /\ pt_cfd = k
           /\ dpc # "gone" => dpc = "reply" /\ dview[k] = "stopped" /\ Head(toK[k]) = dreq /\ toD[k] = <<>>
<1>1. PICK r \in Requests : toK[k] = <<r>> /\ (r \in Resumes => asked[k] = (r.req = "step"))
    BY DEF KidInv, Steps
<1>2. Head(toK[k]) = r /\ Tail(toK[k]) = <<>>
    BY <1>1
<1>3. r \notin Resumes /\ pt_step[k] => asked[k]
    <2>1. \A s \in Resumes : toK[k] = <<s>> => s = r
        BY <1>1
    <2> QED BY <2>1 DEF KidInv, Steps
<1>4. pt_cfd = k
    BY Hears
<1>5. ASSUME dpc # "gone" PROVE dpc = "reply" /\ dview[k] = "stopped" /\ toK[k] = <<dreq>> /\ toD[k] = <<>>
    BY <1>1, <1>4, <1>5 DEF KidInv, Channel, Answering
<1>6. toK[k] = <<dreq>> => r = dreq
    BY <1>1
<1> QED BY <1>1, <1>2, <1>3, <1>4, <1>5, <1>6

LEMMA ServeKeeps ==
    ASSUME TypeOK, DebuggerInv, NEW k \in Kids, KidInv(k), Serve(k)
    PROVE  KidInv(k)'
<1> DEFINE r == Head(toK[k])
<1>0. /\ kpc[k] = "serve" /\ toK[k] # <<>> /\ r.req # "kill" /\ toK'[k] = Tail(toK[k])
      /\ Answer(k, <<Reply(r)>>)
      /\ UNCHANGED <<debugger, kcfd, asked, conn>>
    BY DEF Serve, TypeOK
<1>1. /\ r \in Requests /\ toK'[k] = <<>> /\ pt_cfd = k /\ r.req \in {"data", "cont", "step"}
      /\ r \in Resumes => asked[k] = (r.req = "step")
      /\ r \notin Resumes /\ pt_step[k] => asked[k]
      /\ r \in Resumes <=> r.req # "data"
    BY <1>0, Requested, Messages
<1>2. /\ pt_step'[k] => asked[k]
      /\ kpc'[k] = "serve" \/ (r \in Resumes /\ kpc'[k] \in {"top", "exec"})
    <2>1. CASE r \in Resumes
        <3>1. kpc'[k] \in {"top", "exec"} /\ pt_step'[k] = (r.req = "step")
            BY <2>1 DEF Serve, Resume, Goto, Set, TypeOK
        <3> QED BY <1>1, <2>1, <3>1
    <2>2. CASE r \notin Resumes
        <3>1. kpc' = kpc /\ pt_step' = pt_step
            BY <2>2 DEF Serve
        <3> QED BY <1>0, <1>1, <2>2, <3>1
    <2> QED BY <2>1, <2>2
<1>3. Sockets(k)'
    BY <1>0, <1>2 DEF KidInv, Sockets, Alive, debugger
<1>4. Steps(k)'
    BY <1>0, <1>1, <1>2 DEF Steps
<1>5. ASSUME dpc # "gone" PROVE Channel(k)'
    <2>1. dpc = "reply" /\ dview[k] = "stopped" /\ r = dreq /\ toD[k] = <<>>
        BY <1>0, <1>5, Requested
    <2>2. toD'[k] = <<Reply(r)>>
        BY <1>0, <1>1, <1>5, <2>1 DEF Answer, DebuggerEnd, TypeOK
    <2>3. toD'[k] # <<>> /\ Head(toD'[k]) = Reply(r) /\ Tail(toD'[k]) = <<>>
        BY <2>2
    <2>4. Answering(k)'
        <3>1. dreq' = r /\ toK'[k] = <<>>
            BY <1>0, <1>1, <2>1 DEF debugger
        <3>2. CASE r.req = "data"
            <4>1. kpc'[k] = "serve"
                BY <1>1, <1>2, <3>2
            <4> QED BY <2>3, <3>1, <3>2, <4>1 DEF Answering
        <3>3. CASE r.req # "data"
            <4>1. kpc'[k] # "serve"
                BY <1>1, <1>2, <3>3 DEF Serve, Resume, Goto, Set, TypeOK
            <4>2. Tells(k, <<>>)'
                BY <4>1 DEF Tells
            <4> QED BY <2>3, <3>1, <3>3, <4>2 DEF Answering
        <3> QED BY <3>2, <3>3
    <2> QED BY <1>0, <1>1, <2>1, <2>4 DEF Channel, debugger
<1> QED BY <1>0, <1>3, <1>4, <1>5 DEF KidInv, debugger

LEMMA ServeKillKeeps ==
    ASSUME TypeOK, DebuggerInv, NEW k \in Kids, KidInv(k), ServeKill(k)
    PROVE  KidInv(k)'
<1> DEFINE r == Head(toK[k])
<1>0. /\ kpc[k] = "serve" /\ toK[k] # <<>> /\ r.req = "kill" /\ Answer(k, <<Reply(r), ExitNote>>)
      /\ kpc'[k] = "zombie" /\ kcfd'[k] = "closed" /\ pt_step'[k] = FALSE /\ toK'[k] = <<>>
      /\ UNCHANGED <<debugger, asked, conn>>
    BY DEF ServeKill, Die, Goto, Set, TypeOK
<1>1. pt_cfd = k
    BY <1>0, Requested
<1>2. Sockets(k)'
    BY <1>0 DEF KidInv, Sockets, Alive, debugger
<1>3. Steps(k)'
    BY <1>0 DEF Steps
<1>4. ASSUME dpc # "gone" PROVE Channel(k)'
    <2>1. dpc = "reply" /\ dview[k] = "stopped" /\ r = dreq /\ toD[k] = <<>>
        BY <1>0, <1>4, Requested
    <2>2. toD'[k] = <<Reply(r), ExitNote>>
        BY <1>0, <1>1, <1>4, <2>1 DEF Answer, DebuggerEnd, TypeOK
    <2>3. toD'[k] # <<>> /\ Head(toD'[k]) = Reply(r) /\ Tail(toD'[k]) = <<ExitNote>>
        BY <2>2
    <2>4. Tells(k, <<ExitNote>>)'
        BY <1>0 DEF Tells
    <2>5. dreq' = r /\ r.req # "data"
        BY <1>0, <2>1 DEF debugger
    <2>6. Answering(k)'
        BY <1>0, <2>3, <2>4, <2>5 DEF Answering
    <2> QED BY <1>0, <1>1, <2>1, <2>6 DEF Channel, debugger
<1> QED BY <1>0, <1>2, <1>3, <1>4 DEF KidInv, debugger

LEMMA ExitKeeps ==
    ASSUME TypeOK, NEW k \in Kids, KidInv(k), Exit(k)
    PROVE  KidInv(k)'
<1>0. /\ kpc[k] = "exec" /\ Die(k) /\ Alive(k)
      /\ kpc'[k] = "zombie" /\ kcfd'[k] = "closed" /\ pt_step'[k] = FALSE /\ toK'[k] = <<>>
      /\ UNCHANGED <<debugger, asked, conn>>
    BY DEF Exit, Die, Goto, Set, TypeOK, Alive
<1>1. CASE ~(pt_traced[k] /\ Peer(k))
    BY <1>0, <1>1, Dies DEF Exit
<1>2. CASE pt_traced[k] /\ Peer(k)
    <2>1. pt_cfd = k /\ dpc # "gone" /\ toD'[k] = Append(toD[k], ExitNote)
        BY <1>2 DEF Exit, Peer, DebuggerEnd, TypeOK
    <2>2. Sockets(k)'
        BY <1>0, <2>1 DEF KidInv, Sockets, Alive, debugger
    <2>3. Steps(k)'
        BY <1>0 DEF Steps
    <2>4. \/ /\ dview[k] = "stopped" /\ dpc = "reply" /\ dreq.req # "data"
             /\ toD'[k] # <<>> /\ Head(toD'[k]) = Reply(dreq) /\ Tail(toD'[k]) = <<ExitNote>>
          \/ dpc \notin {"reply", "reap", "waitpid"} /\ dview[k] = "running" /\ toD'[k] = <<ExitNote>>
        BY <1>0, <2>1, Messages, Adds
    <2>5. Tells(k, <<ExitNote>>)'
        BY <1>0 DEF Tells
    <2>6. Channel(k)'
        BY <1>0, <2>1, <2>4, <2>5 DEF Channel, Answering, debugger
    <2> QED BY <2>2, <2>3, <2>6 DEF KidInv
<1> QED BY <1>1, <1>2

(* The debugger is gone, or never listened: on without it.                 *)
LEMMA GiveUpKeeps ==
    ASSUME TypeOK, NEW k \in Kids, KidInv(k), NEW s, GiveUpTracing(k, s), toK' = toK,
           \/ kpc[k] \in {"accept", "notify"}
           \/ kpc[k] = "serve" /\ toK[k] = <<>> /\ ~DebuggerEnd(k)
    PROVE  KidInv(k)'
<1>0. /\ kpc'[k] \in {"top", "exec"}
      /\ UNCHANGED <<debugger, kcfd, pt_step, asked, conn, toD, toK>>
    BY DEF GiveUpTracing, Resume, Goto, TypeOK
<1>1. CASE kpc[k] \in {"accept", "notify"}
    BY <1>0, <1>1, MovesOn DEF Alive, debugger
<1>2. CASE kpc[k] = "serve" /\ toK[k] = <<>> /\ ~DebuggerEnd(k)
    <2>1. dpc = "gone"
        BY <1>2, Hears DEF DebuggerEnd
    <2>2. Sockets(k)'
        BY <1>0, <1>2 DEF KidInv, Sockets, Alive, debugger
    <2>3. Steps(k)'
        BY <1>0, <1>2 DEF KidInv, Steps
    <2> QED BY <1>0, <2>1, <2>2, <2>3 DEF KidInv, debugger
<1> QED BY <1>1, <1>2

LEMMA KidKeeps ==
    ASSUME TypeOK, DebuggerInv, NEW k \in Kids, KidInv(k), KidStep(k) \/ Host(k)
    PROVE  KidInv(k)'
<1> USE DEF Goto, Set
<1>1. CASE StopForTrap(k) \/ StopForSignal(k)
    BY <1>1, MovesOn DEF StopForTrap, StopForSignal, EnterStop, Alive, TypeOK, debugger
<1>2. CASE Accept(k) \/ Proceed(k)
    BY <1>2, MovesOn DEF Accept, Proceed, Alive, TypeOK, debugger
<1>3. CASE Ordinary(k) \/ TraceMe(k) \/ Bpt(k) \/ Exece(k)
    BY <1>3, MovesOn DEF Ordinary, TraceMe, Bpt, Exece, Instruction, Alive, TypeOK, debugger
<1>4. CASE HostSignal(k)
    BY <1>4, SameKeeps DEF HostSignal, Same, debugger
<1>5. CASE AcceptFails(k) \/ ServeEnds(k)
    BY <1>5, GiveUpKeeps DEF AcceptFails, ServeEnds
<1>6. CASE NotifyFails(k)
    BY <1>6, GiveUpKeeps, Dies DEF NotifyFails, Alive
<1>7. CASE ServeDies(k) \/ HostKill(k)
    BY <1>7, Dies DEF ServeDies, HostKill, Alive
<1> QED BY <1>1, <1>2, <1>3, <1>4, <1>5, <1>6, <1>7, NotifyKeeps, ServeKeeps, ServeKillKeeps, ExitKeeps DEF KidStep, Host

---------------------------------------------------------------------------
(* The steps of the debugger, on each child.                               *)

(* The debugger goes from one place to another.                            *)
LEMMA WaitCallKeeps ==
    ASSUME Disciplined, TypeOK, DebuggerInv, NEW j \in Kids, KidInv(j),
           WaitCall \/ FindGivesUp \/ WaitReadFails \/ DebuggerExit
    PROVE  KidInv(j)' /\ DebuggerInv'
<1>0. UNCHANGED <<pt_cfd, dreq, dview, kids, conn, toD, toK>>
    BY DEF WaitCall, FindGivesUp, WaitReadFails, DebuggerExit
<1>1. Sockets(j)' /\ Steps(j)'
    BY <1>0 DEF KidInv, Sockets, Steps, Alive, kids
<1>2. CASE WaitCall
    <2>1. dview[j] = "running" /\ dpc = "run" /\ dpc' \in {"read", "find", "waitpid"}
          /\ (dpc' # "read" => pt_cfd = None) /\ (dpc' = "read" => pt_cfd # None)
        BY <1>2 DEF WaitCall, MayWait
    <2>2. Channel(j)'
        BY <1>0, <2>1, KidsAssumption DEF KidInv, Channel, Tells, Alive, kids
    <2> QED BY <1>0, <1>1, <2>1, <2>2 DEF KidInv, DebuggerInv
<1>3. CASE FindGivesUp
    <2>1. dpc = "find" /\ dpc' = "waitpid" /\ pt_cfd = None
        BY <1>3 DEF FindGivesUp, DebuggerInv
    <2>2. Channel(j)'
        BY <1>0, <2>1, KidsAssumption DEF KidInv, Channel, Tells, Alive, kids
    <2> QED BY <1>0, <1>1, <2>1, <2>2 DEF KidInv, DebuggerInv
<1>4. CASE WaitReadFails
    <2>1. dpc = "read" /\ dpc' = "waitpid" /\ toD[pt_cfd] = <<>> /\ ~Alive(pt_cfd)
        BY <1>4 DEF WaitReadFails, KidEnd
    <2>2. Channel(j)'
        BY <1>0, <2>1 DEF KidInv, Channel, Tells, Alive, kids
    <2> QED BY <1>0, <1>1, <2>1, <2>2 DEF KidInv, DebuggerInv
<1>5. CASE DebuggerExit
    BY <1>0, <1>1, <1>5 DEF DebuggerExit, KidInv, DebuggerInv
<1> QED BY <1>2, <1>3, <1>4, <1>5

LEMMA FindTraceeKeeps ==
    ASSUME TypeOK, DebuggerInv, NEW j \in Kids, KidInv(j), NEW k \in Kids, FindTracee(k)
    PROVE  KidInv(j)' /\ DebuggerInv'
<1>0. /\ dpc = "find" /\ dpc' = "read" /\ pt_cfd = None /\ pt_cfd' = k /\ pt_cfd # j /\ k # None
      /\ conn'[k] = TRUE /\ (j # k => conn'[j] = conn[j]) /\ Alive(k) /\ ~conn[k]
      /\ UNCHANGED <<dreq, dview, kids, toD, toK>>
    BY KidsAssumption DEF FindTracee, Connect, Listening, DebuggerInv, TypeOK
<1>1. Sockets(j)'
    <2>1. j = k => kpc[j] # "unborn"
        BY <1>0 DEF Alive
    <2>2. j # k /\ conn[j] => kpc[j] = "reaped"
        BY <1>0 DEF KidInv, Sockets
    <2> QED BY <1>0, <2>1, <2>2 DEF KidInv, Sockets, Alive, kids
<1>2. Steps(j)'
    BY <1>0 DEF KidInv, Steps, kids
<1>3. Channel(j)'
    <2>1. dview[j] = "running" /\ toD[j] = <<>> /\ toK[j] = <<>>
        BY <1>0 DEF KidInv, Channel
    <2>2. j = k => kpc[j] # "serve"
        BY <1>0 DEF KidInv, Sockets
    <2> QED BY <1>0, <2>1, <2>2 DEF Channel, Tells, kids
<1> QED BY <1>0, <1>1, <1>2, <1>3 DEF KidInv, DebuggerInv

LEMMA WaitReadKeeps ==
    ASSUME TypeOK, DebuggerInv, NEW j \in Kids, KidInv(j), WaitRead
    PROVE  KidInv(j)' /\ DebuggerInv'
<1>0. /\ dpc = "read" /\ pt_cfd \in Kids /\ toD[pt_cfd] # <<>> /\ dpc' \in {"run", "reap"}
      /\ UNCHANGED <<pt_cfd, dreq, kids, conn, toK>>
    BY DEF WaitRead, DebuggerInv, TypeOK
<1>1. Sockets(j)' /\ Steps(j)'
    BY <1>0 DEF KidInv, Sockets, Steps, Alive, kids
<1>2. CASE j # pt_cfd
    <2>1. toD'[j] = toD[j] /\ dview'[j] = dview[j]
        BY <1>0, <1>2 DEF WaitRead, TypeOK
    <2> QED BY <1>0, <1>1, <1>2, <2>1 DEF KidInv, Channel, DebuggerInv
<1>3. CASE j = pt_cfd
    <2>1. dview[j] = "running" /\ toK[j] = <<>> /\ Tells(j, toD[j])
        BY <1>0, <1>3 DEF KidInv, Channel
    <2>2. toD'[j] = Tail(toD[j])
        BY <1>3 DEF WaitRead, TypeOK
    <2>3. ASSUME NEW n, toD[j] = <<Stop(n)>>, kpc[j] \in {"serve", "zombie"} PROVE Channel(j)'
        <3>1. toD'[j] = <<>> /\ Head(toD[j]).type = "stop"
            BY <2>2, <2>3 DEF Stop
        <3>2. dpc' = "run" /\ dview'[j] = "stopped"
            BY <1>3, <3>1 DEF WaitRead, TypeOK
        <3> QED BY <1>0, <1>3, <2>1, <2>3, <3>1, <3>2 DEF Channel, kids
    <2>4. ASSUME toD[j] = <<ExitNote>>, kpc[j] = "zombie" PROVE Channel(j)'
        <3>1. toD'[j] = <<>> /\ Head(toD[j]).type # "stop"
            BY <2>2, <2>4 DEF ExitNote
        <3>2. dpc' = "reap" /\ dview' = dview
            BY <1>3, <3>1 DEF WaitRead
        <3> QED BY <1>0, <1>3, <2>1, <2>4, <3>1, <3>2 DEF Channel, Tells, Alive, kids
    <2>5. Channel(j)'
        BY <1>0, <1>3, <2>1, <2>3, <2>4 DEF Tells
    <2> QED BY <1>0, <1>1, <2>5 DEF KidInv, DebuggerInv
<1> QED BY <1>2, <1>3

LEMMA ReapedKeeps ==
    ASSUME TypeOK, DebuggerInv, NEW j \in Kids, KidInv(j), NEW k \in Kids, Reaped(k),
           \/ dpc = "reap" /\ k = pt_cfd /\ pt_cfd' = None
           \/ dpc = "waitpid" /\ pt_cfd' = pt_cfd
    PROVE  KidInv(j)' /\ DebuggerInv'
<1>0. /\ kpc[k] = "zombie" /\ kpc'[k] = "reaped" /\ dview'[k] = "running" /\ dpc' = "run"
      /\ j # k => kpc'[j] = kpc[j] /\ dview'[j] = dview[j]
      /\ UNCHANGED <<dreq, kcfd, pt_step, asked, conn, toD, toK>>
    BY DEF Reaped, TypeOK
<1>1. Sockets(j)'
    BY <1>0, KidsAssumption DEF KidInv, Sockets, Alive
<1>2. Steps(j)'
    BY <1>0 DEF KidInv, Steps
<1>3. Channel(j)'
    <2>1. dview[j] = "running" /\ toD[j] = <<>> /\ toK[j] = <<>> /\ (pt_cfd' = j => ~Alive(j))
        BY <1>0, KidsAssumption DEF KidInv, Channel, Tells, Alive
    <2> QED BY <1>0, <2>1 DEF Channel, Tells, Alive
<1> QED BY <1>0, <1>1, <1>2, <1>3 DEF KidInv, DebuggerInv

LEMMA WaitPidKeeps ==
    ASSUME TypeOK, DebuggerInv, NEW j \in Kids, KidInv(j), WaitPid \/ WaitReap
    PROVE  KidInv(j)' /\ DebuggerInv'
<1>1. CASE WaitReap
    BY <1>1, ReapedKeeps DEF WaitReap, DebuggerInv, TypeOK
<1>2. CASE \E k \in pt_kids : dpc = "waitpid" /\ Reaped(k) /\ UNCHANGED pt_cfd
    BY <1>2, ReapedKeeps DEF TypeOK
<1>3. CASE dpc = "waitpid" /\ dpc' = "run" /\ UNCHANGED <<pt_cfd, pt_kids, dreq, dview, kids, conn, toD, toK>>
    BY <1>3 DEF KidInv, Sockets, Steps, Channel, Tells, Alive, kids, DebuggerInv
<1> QED BY <1>1, <1>2, <1>3 DEF WaitPid

LEMMA PtraceReplyKeeps ==
    ASSUME TypeOK, DebuggerInv, NEW j \in Kids, KidInv(j), PtraceReply \/ PtraceFails
    PROVE  KidInv(j)' /\ DebuggerInv'
<1>0. /\ dpc = "reply" /\ dpc' = "run" /\ pt_cfd \in Kids
      /\ UNCHANGED <<pt_cfd, kids, conn, toK>>
    BY DEF PtraceReply, PtraceFails, DebuggerInv, TypeOK
<1>1. Sockets(j)' /\ Steps(j)'
    BY <1>0 DEF KidInv, Sockets, Steps, Alive, kids
<1>2. CASE j # pt_cfd
    <2>1. toD'[j] = toD[j] /\ dview'[j] = dview[j]
        BY <1>0, <1>2 DEF PtraceReply, PtraceFails, TypeOK
    <2> QED BY <1>0, <1>1, <1>2, <2>1 DEF KidInv, Channel, DebuggerInv
<1>3. CASE j = pt_cfd /\ PtraceFails
    <2>1. toD[j] = <<>> /\ ~Alive(j) /\ toD'[j] = <<>> /\ dview'[j] = "running"
        BY <1>3 DEF PtraceFails, KidEnd, TypeOK
    <2>2. toK[j] = <<>>
        BY <2>1 DEF KidInv, Steps, Alive
    <2>3. Channel(j)'
        BY <1>0, <1>3, <2>1, <2>2 DEF Channel, Tells, Alive, kids
    <2> QED BY <1>0, <1>1, <2>3 DEF KidInv, DebuggerInv
<1>4. CASE j = pt_cfd /\ PtraceReply
    <2>1. Answering(j) /\ dview[j] = "stopped" /\ toD[j] # <<>>
        BY <1>0, <1>4 DEF KidInv, Channel, PtraceReply
    <2>2. toD'[j] = Tail(toD[j]) /\ dview'[j] = IF dreq.req # "data" THEN "running" ELSE "stopped"
        BY <1>4, <2>1 DEF PtraceReply, TypeOK
    <2>3. toK[j] = <<>> /\ IF dreq.req = "data" THEN Tail(toD[j]) = <<>> /\ kpc[j] \in {"serve", "zombie"}
                           ELSE Tells(j, Tail(toD[j]))
        BY <2>1 DEF Answering
    <2>4. CASE dreq.req = "data"
        BY <1>0, <1>1, <1>4, <2>2, <2>3, <2>4 DEF KidInv, Channel, DebuggerInv, kids
    <2>5. CASE dreq.req # "data"
        <3>1. Tells(j, toD[j])'
            BY <1>0, <2>2, <2>3, <2>5 DEF Tells, kids
        <3> QED BY <1>0, <1>1, <1>4, <2>2, <2>3, <2>5, <3>1 DEF KidInv, Channel, DebuggerInv
    <2> QED BY <2>4, <2>5
<1> QED BY <1>2, <1>3, <1>4

LEMMA ForkKeeps ==
    ASSUME TypeOK, DebuggerInv, NEW j \in Kids, KidInv(j), NEW k \in Kids, Fork(k)
    PROVE  KidInv(j)' /\ DebuggerInv'
<1>0. /\ UNCHANGED <<dpc, pt_cfd, dreq, dview, pt_step, asked, conn, toD, toK>>
      /\ j # k => kpc'[j] = kpc[j] /\ kcfd'[j] = kcfd[j]
      /\ kpc[k] = "unborn" /\ kpc'[k] = "top" /\ kcfd'[k] \in {"inherited", "closed"}
    BY DEF Fork, TypeOK
<1>1. CASE j # k
    BY <1>0, <1>1, SameKeeps DEF Same, DebuggerInv
<1>2. CASE j = k
    <2>1. ~conn[j] /\ pt_cfd # j
        BY <1>0, <1>2 DEF KidInv, Sockets
    <2>2. Sockets(j)' /\ Steps(j)'
        BY <1>0, <1>2, <2>1 DEF KidInv, Sockets, Steps, Alive
    <2>3. dpc # "gone" => Channel(j)'
        BY <1>0, <1>2, <2>1 DEF KidInv, Channel
    <2> QED BY <1>0, <2>2, <2>3 DEF KidInv, DebuggerInv
<1> QED BY <1>1, <1>2

(* A debugger that keeps the rules calls ptrace on the child it knows to   *)
(* be stopped: it serves, or it is dead.                                   *)
LEMMA PtraceCallKeeps ==
    ASSUME Disciplined, TypeOK, DebuggerInv, NEW j \in Kids, KidInv(j),
           NEW k \in Kids, NEW r \in Requests, PtraceCall(k, r)
    PROVE  KidInv(j)' /\ DebuggerInv'
<1>0. /\ dpc = "run" /\ pt_cfd = k /\ pt_cfd' = k /\ dview[k] = "stopped" /\ k # None
      /\ UNCHANGED <<kpc, kcfd, pt_step, toD, conn>>
    BY KidsAssumption DEF PtraceCall, MayPtrace
<1>1. CASE KidEnd(k)
    <2>1. /\ toK' = [toK EXCEPT ![k] = Append(@, r)] /\ dreq' = r /\ dpc' = "reply"
          /\ asked' = IF r \in Resumes THEN [asked EXCEPT ![k] = r.req = "step"] ELSE asked
          /\ dview' = dview
        BY <1>0, <1>1 DEF PtraceCall
    <2>2. CASE j # k
        <3>1. toK'[j] = toK[j] /\ asked'[j] = asked[j]
            BY <2>1, <2>2 DEF TypeOK
        <3>2. Sockets(j)' /\ Steps(j)'
            BY <1>0, <2>2, <3>1 DEF KidInv, Sockets, Steps, Alive
        <3>3. Channel(j)'
            BY <1>0, <2>1, <2>2, <3>1 DEF KidInv, Channel
        <3> QED BY <1>0, <2>1, <3>2, <3>3 DEF KidInv, DebuggerInv
    <2>3. CASE j = k
        <3>1. toK[j] = <<>> /\ toD[j] = <<>> /\ kpc[j] = "serve"
            BY <1>0, <1>1, <2>3 DEF KidInv, Channel, KidEnd, Alive
        <3>2. toK'[j] = <<r>>
            <4>1. Append(<<>>, r) = <<r>>
                OBVIOUS
            <4> QED BY <2>1, <2>3, <3>1, <4>1 DEF TypeOK
        <3>3. r \in Resumes => asked'[j] = (r.req = "step")
            BY <2>1, <2>3 DEF TypeOK
        <3>4. r \notin Resumes => asked'[j] = asked[j]
            BY <2>1
        <3>5. pt_step[j] => asked[j]
            <4>1. \A s \in Resumes : <<>> # <<s>>
                OBVIOUS
            <4> QED BY <3>1, <4>1 DEF KidInv, Steps
        <3>6. Sockets(j)'
            BY <1>0, <2>3 DEF KidInv, Sockets, Alive
        <3>7. Steps(j)'
            BY <1>0, <3>1, <3>2, <3>3, <3>4, <3>5 DEF Steps
        <3>8. Channel(j)'
            BY <1>0, <2>1, <2>3, <3>1, <3>2 DEF Channel, Answering
        <3> QED BY <1>0, <2>1, <3>6, <3>7, <3>8 DEF KidInv, DebuggerInv
    <2> QED BY <2>2, <2>3
<1>2. CASE ~KidEnd(k)
    <2>1. /\ dpc' \in {"run", "gone"} /\ dview' = [dview EXCEPT ![k] = "running"]
          /\ UNCHANGED <<toK, dreq, asked>>
        BY <1>0, <1>2 DEF PtraceCall
    <2>2. Sockets(j)' /\ Steps(j)'
        BY <1>0, <2>1 DEF KidInv, Sockets, Steps, Alive
    <2>3. Channel(j)'
        BY <1>0, <1>2, <2>1 DEF KidInv, Channel, Tells, KidEnd, Alive, TypeOK
    <2> QED BY <1>0, <2>1, <2>2, <2>3 DEF KidInv, DebuggerInv
<1> QED BY <1>1, <1>2

---------------------------------------------------------------------------
LEMMA InitPtrace == Init => PtraceInv
<1> SUFFICES ASSUME Init PROVE PtraceInv
    OBVIOUS
<1>1. TypeOK
    BY MaxSignalsAssumption DEF Init, TypeOK
<1>2. DebuggerInv
    BY DEF Init, DebuggerInv
<1>3. ASSUME NEW k \in Kids PROVE KidInv(k)
    BY KidsAssumption DEF Init, KidInv, Sockets, Steps, Channel, Alive
<1> QED BY <1>1, <1>2, <1>3 DEF PtraceInv

LEMMA DebuggerKeeps ==
    ASSUME TypeOK, DebuggerInv, DebuggerStep \/ DebuggerCalls
    PROVE  DebuggerInv'
<1> USE DEF DebuggerInv
<1>1. CASE WaitCall \/ DebuggerExit \/ FindGivesUp \/ WaitReadFails
    BY <1>1 DEF WaitCall, DebuggerExit, FindGivesUp, WaitReadFails
<1>2. CASE WaitRead
    BY <1>2 DEF WaitRead
<1>3. CASE WaitReap \/ WaitPid
    BY <1>3 DEF WaitReap, WaitPid, Reaped
<1>4. CASE PtraceReply \/ PtraceFails
    BY <1>4 DEF PtraceReply, PtraceFails
<1>5. ASSUME NEW k \in Kids, FindTracee(k) \/ Fork(k) PROVE DebuggerInv'
    BY <1>5, KidsAssumption DEF FindTracee, Connect, Fork
<1>6. ASSUME NEW k \in Kids, NEW r \in Requests, PtraceCall(k, r) PROVE DebuggerInv'
    <2>1. dpc' \in {"run", "gone"} \/ (dpc' = "reply" /\ dreq' = r)
        BY <1>6 DEF PtraceCall
    <2>2. pt_cfd' # None
        BY <1>6, KidsAssumption DEF PtraceCall, Connect
    <2> QED BY <2>1, <2>2
<1> QED BY <1>1, <1>2, <1>3, <1>4, <1>5, <1>6 DEF DebuggerStep, DebuggerCalls

LEMMA KidsLeaveDebugger ==
    ASSUME NEW k \in Kids, KidStep(k) \/ Host(k)
    PROVE  UNCHANGED debugger
BY DEF KidStep, Host, StopForTrap, StopForSignal, Accept, AcceptFails, Notify, NotifyFails, Serve,
   ServeKill, ServeDies, ServeEnds, Proceed, Ordinary, TraceMe, Bpt, Exece, Instruction, Exit, Die,
   GiveUpTracing, HostSignal, HostKill

LEMMA NextTypes == TypeOK /\ DebuggerInv /\ [Next]_vars => TypeOK' /\ DebuggerInv'
<1> SUFFICES ASSUME TypeOK, DebuggerInv, [Next]_vars PROVE TypeOK' /\ DebuggerInv'
    OBVIOUS
<1>1. CASE UNCHANGED vars
    BY <1>1 DEF vars, debugger, kids, TypeOK, DebuggerInv
<1>2. ASSUME NEW k \in Kids, KidStep(k) \/ Host(k) PROVE TypeOK' /\ DebuggerInv'
    <2>1. DebuggerInv'
        BY <1>2, KidsLeaveDebugger DEF DebuggerInv, debugger
    <2> QED BY <1>2, <2>1, KidTypes
<1>3. CASE DebuggerStep \/ DebuggerCalls
    BY <1>3, DebuggerTypes, DebuggerKeeps
<1> QED BY <1>1, <1>2, <1>3 DEF Next

LEMMA NextPtrace == Disciplined /\ PtraceInv /\ [Next]_vars => PtraceInv'
<1> SUFFICES ASSUME Disciplined, PtraceInv, [Next]_vars PROVE PtraceInv'
    OBVIOUS
<1> USE DEF PtraceInv
<1>0. TypeOK' /\ DebuggerInv'
    BY NextTypes
<1>1. CASE UNCHANGED vars
    <2>1. ASSUME NEW k \in Kids PROVE Same(k)
        BY <1>1 DEF vars, debugger, kids, Same
    <2> QED BY <1>0, <2>1, SameKeeps
<1>2. ASSUME NEW k \in Kids, KidStep(k) \/ Host(k) PROVE PtraceInv'
    <2>1. ASSUME NEW j \in Kids PROVE KidInv(j)'
        BY <1>2, KidKeeps, OthersSame, SameKeeps
    <2> QED BY <1>0, <2>1
<1>3. CASE DebuggerStep \/ DebuggerCalls
    <2>1. ASSUME NEW j \in Kids PROVE KidInv(j)'
        <3>1. CASE WaitCall \/ FindGivesUp \/ WaitReadFails \/ DebuggerExit
            BY <3>1, WaitCallKeeps
        <3>2. ASSUME NEW k \in Kids, FindTracee(k) PROVE KidInv(j)'
            BY <3>2, FindTraceeKeeps
        <3>3. CASE WaitRead
            BY <3>3, WaitReadKeeps
        <3>4. CASE WaitPid \/ WaitReap
            BY <3>4, WaitPidKeeps
        <3>5. CASE PtraceReply \/ PtraceFails
            BY <3>5, PtraceReplyKeeps
        <3>6. ASSUME NEW k \in Kids, Fork(k) PROVE KidInv(j)'
            BY <3>6, ForkKeeps
        <3>7. ASSUME NEW k \in Kids, NEW r \in Requests, PtraceCall(k, r) PROVE KidInv(j)'
            BY <3>7, PtraceCallKeeps
        <3> QED BY <1>3, <3>1, <3>2, <3>3, <3>4, <3>5, <3>6, <3>7 DEF DebuggerStep, DebuggerCalls
    <2> QED BY <1>0, <2>1
<1> QED BY <1>1, <1>2, <1>3 DEF Next

---------------------------------------------------------------------------
(* Whatever the debugger does, one that breaks its manual's rules          *)
(* included, the sockets carry protocol messages only, and pt_pending      *)
(* holds no signal but the trap that pt_stop() reports.                    *)
THEOREM PtraceTypes == Spec => []TypeOK
<1>1. Init => TypeOK /\ DebuggerInv
    BY InitPtrace DEF PtraceInv
<1> QED BY <1>1, NextTypes, PTL DEF Spec

(* The inductive invariant, for a debugger that waits and calls ptrace()   *)
(* where its manual says so.                                               *)
THEOREM ChannelAgreed == Disciplined => (Spec => []PtraceInv)
<1> SUFFICES ASSUME Disciplined PROVE Spec => []PtraceInv
    OBVIOUS
<1>1. PtraceInv /\ [Next]_vars => PtraceInv'
    BY NextPtrace
<1> QED BY <1>1, InitPtrace, PTL DEF Spec

(* A child of which wait() said that it stopped, and which the debugger    *)
(* did not resume, is parked in pt_stop() with nothing under way to it or  *)
(* from it, or someone killed it.                                          *)
THEOREM StoppedParked == Disciplined => (Spec => []StoppedIsParked)
<1> SUFFICES ASSUME Disciplined PROVE Spec => []StoppedIsParked
    OBVIOUS
<1>1. PtraceInv => StoppedIsParked
    BY DEF PtraceInv, KidInv, Channel, StoppedIsParked
<1> QED BY <1>1, ChannelAgreed, PTL

(* A child that runs with single-step armed was told to by the debugger's  *)
(* last resume: pt_stop() disarms it on every other.                       *)
THEOREM StepsAsked == Disciplined => (Spec => []NoUnaskedStop)
<1> SUFFICES ASSUME Disciplined PROVE Spec => []NoUnaskedStop
    OBVIOUS
<1>1. PtraceInv => NoUnaskedStop
    <2> SUFFICES ASSUME PtraceInv, NEW k \in Kids, kpc[k] # "serve", pt_step[k] PROVE asked[k]
        BY DEF NoUnaskedStop
    <2>1. \A r \in Resumes : <<>> # <<r>>
        OBVIOUS
    <2> QED BY <2>1 DEF PtraceInv, KidInv, Steps
<1> QED BY <1>1, ChannelAgreed, PTL

(* What ptrace() reads back is the answer to the request it wrote, and     *)
(* wait() takes no answer for a notification, though both share a socket.  *)
THEOREM AnswersInStep == Disciplined => (Spec => ChannelInStep)
<1> SUFFICES ASSUME Disciplined PROVE Spec => ChannelInStep
    OBVIOUS
<1>1. PtraceInv /\ PtraceInv' => TakesItsOwn
    <2> SUFFICES ASSUME PtraceInv, PtraceInv', dpc \in {"reply", "read"},
                        Len(toD'[pt_cfd]) < Len(toD[pt_cfd])
                 PROVE  /\ dpc = "reply" => Head(toD[pt_cfd]) = Reply(dreq)
                        /\ dpc = "read" => Head(toD[pt_cfd]).type # "reply"
        BY DEF TakesItsOwn
    <2>1. pt_cfd \in Kids
        BY DEF PtraceInv, DebuggerInv, TypeOK
    <2>2. toD[pt_cfd] # <<>>
        <3>1. toD'[pt_cfd] \in Seq(Message) /\ toD[pt_cfd] \in Seq(Message)
            BY <2>1 DEF PtraceInv, TypeOK
        <3>2. Len(toD'[pt_cfd]) >= 0
            BY <3>1
        <3> QED BY <3>1, <3>2
    <2>3. Channel(pt_cfd)
        BY <2>1 DEF PtraceInv, KidInv
    <2>4. CASE dpc = "reply"
        BY <2>2, <2>3, <2>4 DEF Channel, Answering
    <2>5. CASE dpc = "read"
        <3>1. Tells(pt_cfd, toD[pt_cfd])
            BY <2>3, <2>5 DEF Channel
        <3> QED BY <2>2, <2>5, <3>1 DEF Tells, Stop, ExitNote
    <2> QED BY <2>4, <2>5
<1> QED BY <1>1, ChannelAgreed, PTL DEF Spec, ChannelInStep
=============================================================================
