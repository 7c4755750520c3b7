---------------------------- MODULE ApsimPtrace ----------------------------
(* The cooperative ptrace channel of pdp11-apsim ($APSIM_PTRACE): a debugger *)
(* process, the children it forks, and for each child that asks to be traced *)
(* the stream socket between the two simulators.                             *)
(*                                                                           *)
(* A traced child does not host-stop.  At a trap, or when a signal was       *)
(* caught, it parks inside pt_stop(): it accepts the debugger's connection   *)
(* the first time, writes a notification and serves requests until it is     *)
(* told to go on.  The debugger's wait() reads the notifications, its        *)
(* ptrace() writes a request and reads the reply, on the same socket.        *)
(*                                                                           *)
(* A fork while the debugger is connected to a live child, which puts a      *)
(* third process on the connection, is not modelled.                         *)
EXTENDS Naturals, SequencesExt

CONSTANTS
    Kids,           \* the processes the debugger may fork
    MaxSignals,     \* bound: signals the host sends to each child, a function
    Disciplined     \* the debugger calls wait() and ptrace() only where its
                    \* manual says so (see MayWait, MayPtrace)

ASSUME MaxSignalsAssumption == MaxSignals \in [Kids -> Nat]
ASSUME DisciplinedAssumption == Disciplined \in BOOLEAN

None == "none"
ASSUME KidsAssumption == None \notin Kids

VARIABLES
    (* the debugger *)
    dpc,        \* "run", "find", "read", "reap", "waitpid", "reply", "gone"
    pt_cfd,     \* the child it is connected to, or None
    pt_kids,    \* children forked so far
    dreq,       \* the request ptrace() waits to see answered, or NoRequest
    dview,      \* what the debugger believes of each child: running, stopped
    (* the children *)
    kpc,        \* "unborn", "top", "exec", "accept", "notify", "serve",
                \* "zombie", "reaped"
    pt_traced,  \* did PT_TRACE_ME and tracing is on
    pt_lfd,     \* the listening socket is open
    kcfd,       \* the child's own pt_cfd: "closed", "accepted", or "inherited",
                \* the debugger's connection to a child that is dead
    pt_pending, \* a trap-stop is due: its signal, or 0
    pt_step,    \* single-step armed
    pending,    \* pending_sig holds a signal
    why,        \* local of the main loop: pt_stop was called for a "trap" or
                \* a "signal"
    sent,       \* signals the host has sent so far
    asked,      \* history: the debugger's last resume of the child was PT_STEP
    (* the sockets: one connection per child *)
    conn,       \* connected by the debugger
    toD, toK    \* bytes in flight, as messages

debugger == <<dpc, pt_cfd, pt_kids, dreq, dview>>
kids == <<kpc, pt_traced, pt_lfd, kcfd, pt_pending, pt_step, pending, why, sent, asked>>
vars == <<debugger, kids, conn, toD, toK>>

SIGTRAP == 5
SIGINT == 2

(* PT_READ_x, PT_WRITE_x and an unknown request are one kind, "data": they   *)
(* are answered and leave the child parked.  A resume carries the signal to  *)
(* deliver, or 0.                                                            *)
Request(r, s) == [req |-> r, sig |-> s]
Resumes == {Request(r, s) : r \in {"cont", "step"}, s \in {0, SIGINT}}
Requests == {Request("data", 0), Request("kill", 0)} \cup Resumes
NoRequest == Request(None, 0)

(* Messages: notifications {1, sig} and {2, code}, and replies.              *)
Stop(s) == [type |-> "stop", sig |-> s]
ExitNote == [type |-> "exit", sig |-> 0]
Reply(r) == [type |-> "reply", req |-> r]

Alive(k) == kpc[k] \notin {"unborn", "zombie", "reaped"}
DebuggerEnd(k) == pt_cfd = k /\ dpc # "gone"
KidEnd(k) == Alive(k)
Peer(k) == DebuggerEnd(k) /\ kcfd[k] = "accepted"

Init ==
    /\ dpc = "run" /\ pt_cfd = None /\ pt_kids = {} /\ dreq = NoRequest
    /\ dview = [k \in Kids |-> "running"]
    /\ kpc = [k \in Kids |-> "unborn"]
    /\ pt_traced = [k \in Kids |-> FALSE]
    /\ pt_lfd = [k \in Kids |-> FALSE]
    /\ kcfd = [k \in Kids |-> "closed"]
    /\ pt_pending = [k \in Kids |-> 0]
    /\ pt_step = [k \in Kids |-> FALSE]
    /\ pending = [k \in Kids |-> FALSE]
    /\ why = [k \in Kids |-> "trap"]
    /\ sent = [k \in Kids |-> 0]
    /\ asked = [k \in Kids |-> FALSE]
    /\ conn = [k \in Kids |-> FALSE]
    /\ toD = [k \in Kids |-> <<>>]
    /\ toK = [k \in Kids |-> <<>>]

-----------------------------------------------------------------------------
(* The debugger: a guest program that forks, waits and calls ptrace.         *)

(* The child gets a copy of the parent's pt_cfd.                             *)
Fork(k) ==
    /\ dpc = "run" /\ (pt_cfd # None => ~KidEnd(pt_cfd))
    /\ kpc[k] = "unborn"
    /\ kpc' = [kpc EXCEPT ![k] = "top"]
    /\ kcfd' = [kcfd EXCEPT ![k] = IF pt_cfd # None THEN "inherited" ELSE "closed"]
    /\ pt_kids' = pt_kids \cup {k}
    /\ UNCHANGED <<dpc, pt_cfd, dreq, dview, pt_traced, pt_lfd, pt_pending,
                   pt_step, pending, why, sent, asked, conn, toD, toK>>

(* A debugger that keeps the rules waits only while no child is stopped, and *)
(* calls ptrace only on the child that is.                                   *)
MayWait == Disciplined => \A k \in Kids : dview[k] = "running"
MayPtrace(k) == Disciplined => pt_cfd = k /\ dview[k] = "stopped"

(* wait(): pt_find_tracee() answers at once when a connection is open.       *)
WaitCall ==
    /\ dpc = "run" /\ MayWait
    /\ dpc' = IF pt_cfd # None THEN "read"
              ELSE IF pt_kids # {} THEN "find" ELSE "waitpid"
    /\ UNCHANGED <<pt_cfd, pt_kids, dreq, dview, kids, conn, toD, toK>>

(* Children that listen and whose backlog of one connection is free.         *)
Listening(k) == Alive(k) /\ pt_lfd[k] /\ ~conn[k]

Connect(k) ==
    /\ Listening(k)
    /\ pt_cfd' = k
    /\ conn' = [conn EXCEPT ![k] = TRUE]

FindTracee(k) ==
    /\ dpc = "find" /\ k \in pt_kids
    /\ Connect(k)
    /\ dpc' = "read"
    /\ UNCHANGED <<pt_kids, dreq, dview, kids, toD, toK>>

(* After some 100 ms without a child that listens.                           *)
FindGivesUp ==
    /\ dpc = "find"
    /\ \A k \in pt_kids : ~Listening(k)
    /\ dpc' = "waitpid"
    /\ UNCHANGED <<pt_cfd, pt_kids, dreq, dview, kids, conn, toD, toK>>

(* A notification, a stop or anything else, which is taken for an exit.      *)
WaitRead ==
    /\ dpc = "read" /\ toD[pt_cfd] # <<>>
    /\ toD' = [toD EXCEPT ![pt_cfd] = Tail(@)]
    /\ IF Head(toD[pt_cfd]).type = "stop"
       THEN dpc' = "run" /\ dview' = [dview EXCEPT ![pt_cfd] = "stopped"]
       ELSE dpc' = "reap" /\ UNCHANGED dview
    /\ UNCHANGED <<pt_cfd, pt_kids, dreq, kids, conn, toK>>

(* The child is gone without a word: fall through to the host's waitpid().   *)
(* The connection stays open.                                                *)
WaitReadFails ==
    /\ dpc = "read" /\ toD[pt_cfd] = <<>> /\ ~KidEnd(pt_cfd)
    /\ dpc' = "waitpid"
    /\ UNCHANGED <<pt_cfd, pt_kids, dreq, dview, kids, conn, toD, toK>>

Reaped(k) ==
    /\ kpc[k] = "zombie"
    /\ kpc' = [kpc EXCEPT ![k] = "reaped"]
    /\ dview' = [dview EXCEPT ![k] = "running"]
    /\ dpc' = "run"
    /\ UNCHANGED <<pt_kids, dreq, pt_traced, pt_lfd, kcfd, pt_pending, pt_step,
                   pending, why, sent, asked, conn, toD, toK>>

(* After an exit note: reap the host process, close the connection.          *)
WaitReap == dpc = "reap" /\ Reaped(pt_cfd) /\ pt_cfd' = None

(* The host's waitpid(-1), with its ECHILD.                                  *)
WaitPid ==
    /\ dpc = "waitpid"
    /\ \/ \E k \in pt_kids : Reaped(k) /\ UNCHANGED pt_cfd
       \/ /\ \A k \in pt_kids : kpc[k] = "reaped"
          /\ dpc' = "run"
          /\ UNCHANGED <<pt_cfd, pt_kids, dreq, dview, kids, conn, toD, toK>>

(* ptrace() on a child: attach if there is no connection, write the request. *)
(* A write to a closed socket raises SIGPIPE: the debugger dies of it, or,   *)
(* where the guest ignores it, gets ESRCH.                                   *)
PtraceCall(k, r) ==
    /\ dpc = "run" /\ MayPtrace(k)
    /\ \/ pt_cfd # None /\ UNCHANGED <<pt_cfd, conn>>
       \/ pt_cfd = None /\ k \in pt_kids /\ Connect(k)
    /\ LET c == pt_cfd'
       IN  \/ /\ KidEnd(c)
              /\ toK' = [toK EXCEPT ![c] = Append(@, r)]
              /\ dreq' = r /\ dpc' = "reply"
              /\ asked' = IF r \in Resumes THEN [asked EXCEPT ![c] = r.req = "step"]
                          ELSE asked
              /\ UNCHANGED dview
           \/ /\ ~KidEnd(c)
              /\ dpc' \in {"run", "gone"}
              /\ dview' = [dview EXCEPT ![c] = "running"]
              /\ UNCHANGED <<toK, dreq, asked>>
    /\ UNCHANGED <<pt_kids, kpc, pt_traced, pt_lfd, kcfd, pt_pending, pt_step, pending,
                   why, sent, toD>>

PtraceReply ==
    /\ dpc = "reply" /\ toD[pt_cfd] # <<>>
    /\ toD' = [toD EXCEPT ![pt_cfd] = Tail(@)]
    /\ dview' = IF dreq.req # "data"
                THEN [dview EXCEPT ![pt_cfd] = "running"] ELSE dview
    /\ dpc' = "run" /\ dreq' = NoRequest
    /\ UNCHANGED <<pt_cfd, pt_kids, kids, conn, toK>>

PtraceFails ==
    /\ dpc = "reply" /\ toD[pt_cfd] = <<>> /\ ~KidEnd(pt_cfd)
    /\ dpc' = "run" /\ dreq' = NoRequest
    /\ dview' = [dview EXCEPT ![pt_cfd] = "running"]
    /\ UNCHANGED <<pt_cfd, pt_kids, kids, conn, toD, toK>>

(* It exits, or is killed at any point.                                      *)
DebuggerExit ==
    /\ dpc # "gone"
    /\ dpc' = "gone"
    /\ UNCHANGED <<pt_cfd, pt_kids, dreq, dview, kids, conn, toD, toK>>

-----------------------------------------------------------------------------
(* A child's main loop.                                                      *)

Goto(k, p) == kpc' = [kpc EXCEPT ![k] = p]
Set(f, k, v) == [f EXCEPT ![k] = v]

(* The top: a due trap first, then a caught signal, parks a traced child.    *)
(* pt_stop() takes the connection it has, or accepts one.                    *)
EnterStop(k) == Goto(k, IF kcfd[k] = "closed" THEN "accept" ELSE "notify")

StopForTrap(k) ==
    /\ kpc[k] = "top" /\ pt_traced[k] /\ pt_pending[k] # 0
    /\ pt_pending' = Set(pt_pending, k, 0)
    /\ why' = Set(why, k, "trap")
    /\ EnterStop(k)
    /\ UNCHANGED <<debugger, pt_traced, pt_lfd, kcfd, pt_step, pending, sent, asked, conn, toD, toK>>

StopForSignal(k) ==
    /\ kpc[k] = "top" /\ pt_traced[k] /\ pt_pending[k] = 0 /\ pending[k]
    /\ pending' = Set(pending, k, FALSE)
    /\ why' = Set(why, k, "signal")
    /\ EnterStop(k)
    /\ UNCHANGED <<debugger, pt_traced, pt_lfd, kcfd, pt_pending, pt_step, sent, asked, conn, toD, toK>>

Reported(k) == IF why[k] = "trap" THEN SIGTRAP ELSE SIGINT

(* Back from pt_stop() with signal s: re-injected, or suppressed.  After a   *)
(* trap the loop goes on to look at pending_sig, and so may park again;      *)
(* after a signal it goes on to the delivery.                                *)
Resume(k, s) ==
    /\ Goto(k, IF why[k] = "trap" THEN "top" ELSE "exec")
    /\ pending' = Set(pending, k, IF why[k] = "trap" THEN pending[k] \/ s # 0 ELSE s # 0)

(* No socket to accept on, or the write of the notification fails: tracing   *)
(* is given up.                                                              *)
GiveUpTracing(k, s) ==
    /\ pt_traced' = Set(pt_traced, k, FALSE)
    /\ Resume(k, s)
    /\ UNCHANGED <<debugger, pt_lfd, kcfd, pt_pending, pt_step, why, sent,
                   asked, conn, toD>>

Accept(k) ==
    /\ kpc[k] = "accept" /\ pt_lfd[k] /\ conn[k]
    /\ kcfd' = Set(kcfd, k, "accepted")
    /\ Goto(k, "notify")
    /\ UNCHANGED <<debugger, pt_traced, pt_lfd, pt_pending, pt_step, pending, why, sent, asked, conn, toD, toK>>

AcceptFails(k) ==
    /\ kpc[k] = "accept" /\ ~pt_lfd[k]
    /\ GiveUpTracing(k, Reported(k))
    /\ UNCHANGED toK

Notify(k) ==
    /\ kpc[k] = "notify" /\ Peer(k)
    /\ toD' = [toD EXCEPT ![k] = Append(@, Stop(Reported(k)))]
    /\ Goto(k, "serve")
    /\ UNCHANGED <<debugger, pt_traced, pt_lfd, kcfd, pt_pending, pt_step, pending,
                   why, sent, asked, conn, toK>>

(* The process ends: its memory is gone, its sockets close.                  *)
Die(k) ==
    /\ Goto(k, "zombie")
    /\ pt_lfd' = Set(pt_lfd, k, FALSE) /\ kcfd' = Set(kcfd, k, "closed")
    /\ pt_pending' = Set(pt_pending, k, 0) /\ pt_step' = Set(pt_step, k, FALSE)
    /\ pending' = Set(pending, k, FALSE)
    /\ why' = Set(why, k, "trap")
    /\ toK' = Set(toK, k, <<>>)
    /\ UNCHANGED <<debugger, pt_traced, sent, asked, conn>>

(* Nobody reads at the other end: SIGPIPE kills the child, or is ignored.     *)
NotifyFails(k) ==
    /\ kpc[k] = "notify" /\ ~Peer(k)
    /\ \/ GiveUpTracing(k, Reported(k)) /\ UNCHANGED toK
       \/ Die(k) /\ UNCHANGED toD

(* One request.  Anything but a resume or a kill leaves the child parked.    *)
Answer(k, msgs) == toD' = IF DebuggerEnd(k) THEN [toD EXCEPT ![k] = @ \o msgs] ELSE toD

(* Faulty variants of Serve: every request resumes the child; a single-step  *)
(* stays armed across a continue; a request for data is not answered.        *)
ServeResumesAlways(k) ==
    /\ kpc[k] = "serve" /\ toK[k] # <<>> /\ Head(toK[k]).req # "kill"
    /\ toK' = [toK EXCEPT ![k] = Tail(@)]
    /\ Answer(k, <<Reply(Head(toK[k]))>>)
    /\ Resume(k, Head(toK[k]).sig)
    /\ pt_step' = Set(pt_step, k, Head(toK[k]).req = "step")
    /\ UNCHANGED <<debugger, pt_traced, pt_lfd, kcfd, pt_pending, why, sent,
                   asked, conn>>

ServeStepSticks(k) ==
    /\ kpc[k] = "serve" /\ toK[k] # <<>> /\ Head(toK[k]).req # "kill"
    /\ toK' = [toK EXCEPT ![k] = Tail(@)]
    /\ Answer(k, <<Reply(Head(toK[k]))>>)
    /\ IF Head(toK[k]) \in Resumes
       THEN /\ Resume(k, Head(toK[k]).sig)
            /\ pt_step' = Set(pt_step, k, pt_step[k] \/ Head(toK[k]).req = "step")
       ELSE UNCHANGED <<kpc, pending, pt_step>>
    /\ UNCHANGED <<debugger, pt_traced, pt_lfd, kcfd, pt_pending, why, sent,
                   asked, conn>>

ServeSilent(k) ==
    /\ kpc[k] = "serve" /\ toK[k] # <<>> /\ Head(toK[k]).req # "kill"
    /\ toK' = [toK EXCEPT ![k] = Tail(@)]
    /\ LET r == Head(toK[k])
       IN  IF r \in Resumes
           THEN /\ Answer(k, <<Reply(r)>>)
                /\ Resume(k, r.sig) /\ pt_step' = Set(pt_step, k, r.req = "step")
           ELSE UNCHANGED <<kpc, pending, pt_step, toD>>
    /\ UNCHANGED <<debugger, pt_traced, pt_lfd, kcfd, pt_pending, why, sent,
                   asked, conn>>

Serve(k) ==
    /\ kpc[k] = "serve" /\ toK[k] # <<>> /\ Head(toK[k]).req # "kill"
    /\ toK' = [toK EXCEPT ![k] = Tail(@)]
    /\ LET r == Head(toK[k])
       IN  /\ Answer(k, <<Reply(r)>>)
           /\ IF r \in Resumes
              THEN Resume(k, r.sig) /\ pt_step' = Set(pt_step, k, r.req = "step")
              ELSE UNCHANGED <<kpc, pending, pt_step>>
    /\ UNCHANGED <<debugger, pt_traced, pt_lfd, kcfd, pt_pending, why, sent,
                   asked, conn>>

(* Faulty variant of ServeKill: the exit note goes out before the reply.     *)
ServeKillSwapped(k) ==
    /\ kpc[k] = "serve" /\ toK[k] # <<>> /\ Head(toK[k]).req = "kill"
    /\ Answer(k, <<ExitNote, Reply(Head(toK[k]))>>)
    /\ Die(k)

(* PT_KILL: the reply, then the exit note of a process that was traced.      *)
ServeKill(k) ==
    /\ kpc[k] = "serve" /\ toK[k] # <<>> /\ Head(toK[k]).req = "kill"
    /\ Answer(k, <<Reply(Head(toK[k])), ExitNote>>)
    /\ Die(k)

(* The reply to a debugger that is gone raises SIGPIPE.                      *)
ServeDies(k) ==
    /\ kpc[k] = "serve" /\ toK[k] # <<>> /\ ~DebuggerEnd(k)
    /\ Die(k) /\ UNCHANGED toD

(* Faulty variant of ServeEnds: the end of the channel is read again.        *)
ServeEndsRetried(k) ==
    /\ kpc[k] = "serve" /\ toK[k] = <<>> /\ ~DebuggerEnd(k)
    /\ UNCHANGED vars

(* The debugger is gone: go on untraced.                                     *)
ServeEnds(k) ==
    /\ kpc[k] = "serve" /\ toK[k] = <<>> /\ ~DebuggerEnd(k)
    /\ GiveUpTracing(k, 0)
    /\ UNCHANGED toK

(* Neither a due trap nor a caught signal: on to the instruction.            *)
Proceed(k) ==
    /\ kpc[k] = "top"
    /\ ~pt_traced[k] \/ (pt_pending[k] = 0 /\ ~pending[k])
    /\ Goto(k, "exec")
    /\ UNCHANGED <<debugger, pt_traced, pt_lfd, kcfd, pt_pending, pt_step, pending,
                   why, sent, asked, conn, toD, toK>>

(* The delivery of a recorded signal, which the mask may hold back, one      *)
(* instruction, and the trap that a single-step leaves behind.               *)
Instruction(k, traced, listen, trap) ==
    /\ kpc[k] = "exec"
    /\ \E held \in BOOLEAN : pending' = Set(pending, k, pending[k] /\ held)
    /\ pt_traced' = Set(pt_traced, k, traced)
    /\ pt_lfd' = Set(pt_lfd, k, listen)
    /\ pt_pending' = Set(pt_pending, k,
                         IF trap \/ (traced /\ pt_step[k]) THEN SIGTRAP ELSE pt_pending[k])
    /\ Goto(k, "top")
    /\ UNCHANGED <<debugger, kcfd, pt_step, why, sent, asked, conn, toD, toK>>

Ordinary(k) == Instruction(k, pt_traced[k], pt_lfd[k], FALSE)

(* ptrace(PT_TRACE_ME): pt_listen() may find the address taken, another pid  *)
(* with the same low 15 bits.                                                *)
TraceMe(k) ==
    \E ok \in BOOLEAN : Instruction(k, TRUE, pt_lfd[k] \/ ok, FALSE)

(* BPT in a traced child.                                                    *)
Bpt(k) == pt_traced[k] /\ Instruction(k, TRUE, pt_lfd[k], TRUE)

(* exece(2) of a traced child listens again if it has to, then traps.        *)
Exece(k) ==
    /\ pt_traced[k]
    /\ \E ok \in BOOLEAN : Instruction(k, TRUE, pt_lfd[k] \/ ok, TRUE)

(* exit(2), and the note a traced and connected child leaves.                *)
Exit(k) ==
    /\ kpc[k] = "exec"
    /\ Die(k)
    /\ toD' = IF pt_traced[k] /\ Peer(k)
              THEN [toD EXCEPT ![k] = Append(@, ExitNote)] ELSE toD

(* The host: a signal that apsim catches, of interest here once the child is *)
(* traced, and one that kills it.                                            *)
HostSignal(k) ==
    /\ Alive(k) /\ pt_traced[k] /\ sent[k] < MaxSignals[k]
    /\ sent' = Set(sent, k, sent[k] + 1)
    /\ pending' = Set(pending, k, TRUE)
    /\ UNCHANGED <<debugger, kpc, pt_traced, pt_lfd, kcfd, pt_pending, pt_step, why, asked, conn, toD, toK>>

HostKill(k) == Alive(k) /\ Die(k) /\ UNCHANGED toD

-----------------------------------------------------------------------------
DebuggerStep ==
    \/ WaitRead \/ WaitReadFails \/ WaitReap \/ WaitPid
    \/ PtraceReply \/ PtraceFails \/ FindGivesUp
    \/ \E k \in Kids : FindTracee(k)

DebuggerCalls ==
    \/ WaitCall \/ DebuggerExit
    \/ \E k \in Kids : Fork(k) \/ \E r \in Requests : PtraceCall(k, r)

KidStep(k) ==
    \/ StopForTrap(k) \/ StopForSignal(k) \/ Accept(k) \/ AcceptFails(k)
    \/ Notify(k) \/ NotifyFails(k) \/ Serve(k) \/ ServeKill(k) \/ ServeDies(k) \/ ServeEnds(k) \/ Proceed(k)
    \/ Ordinary(k) \/ TraceMe(k) \/ Bpt(k) \/ Exece(k) \/ Exit(k)

Host(k) == HostSignal(k) \/ HostKill(k)

Next == DebuggerStep \/ DebuggerCalls \/ \E k \in Kids : KidStep(k) \/ Host(k)

(* The host runs both simulators.  Which system call the debugger makes      *)
(* next, and whether, is its own affair.                                     *)
Spec ==
    /\ Init /\ [][Next]_vars
    /\ WF_vars(DebuggerStep)
    /\ \A k \in Kids : WF_vars(KidStep(k))

-----------------------------------------------------------------------------
Message == {ExitNote} \cup {Stop(s) : s \in {SIGTRAP, SIGINT}} \cup {Reply(r) : r \in Requests}

(* Every variable has its type, and the sockets carry protocol messages.     *)
TypeOK ==
    /\ dpc \in {"run", "find", "read", "reap", "waitpid", "reply", "gone"}
    /\ pt_cfd \in Kids \cup {None}
    /\ pt_kids \subseteq Kids
    /\ dreq \in Requests \cup {NoRequest}
    /\ dview \in [Kids -> {"running", "stopped"}]
    /\ kpc \in [Kids -> {"unborn", "top", "exec", "accept", "notify", "serve",
                         "zombie", "reaped"}]
    /\ kcfd \in [Kids -> {"closed", "accepted", "inherited"}]
    /\ {pt_traced, pt_lfd, pt_step, pending, asked, conn}
            \subseteq [Kids -> BOOLEAN]
    /\ pt_pending \in [Kids -> {0, SIGTRAP}]
    /\ why \in [Kids -> {"trap", "signal"}]
    /\ sent \in [Kids -> Nat] /\ \A k \in Kids : sent[k] <= MaxSignals[k]
    /\ toD \in [Kids -> Seq(Message)]
    /\ toK \in [Kids -> Seq(Requests)]

(* A child that the debugger was told is stopped, and did not resume, is not *)
(* executing: it sits in pt_stop()'s loop, or someone killed it.             *)
StoppedIsParked ==
    \A k \in Kids : dview[k] = "stopped" /\ dpc = "run"
        => \/ kpc[k] = "serve" /\ toK[k] = <<>> /\ toD[k] = <<>>
           \/ kpc[k] = "zombie"

TakesItsOwn ==
    /\ (dpc = "reply" /\ Len(toD'[pt_cfd]) < Len(toD[pt_cfd])) => Head(toD[pt_cfd]) = Reply(dreq)
    /\ (dpc = "read" /\ Len(toD'[pt_cfd]) < Len(toD[pt_cfd])) => Head(toD[pt_cfd]).type # "reply"

(* The reply that a ptrace() call returns answers that call, and wait()      *)
(* never takes a reply for a notification.                                   *)
ChannelInStep == [][TakesItsOwn]_vars

(* A running child single-steps only when the debugger's last resume was a   *)
(* step: no trap-stop comes that neither a BPT, an exec nor it asked for.    *)
NoUnaskedStop ==
    \A k \in Kids :
        Alive(k) /\ pt_traced[k] /\ pt_step[k] /\ kpc[k] # "serve" => asked[k]

(* A debugger that goes away releases the child it had stopped.              *)
Released ==
    \A k \in Kids : (dpc = "gone" /\ kpc[k] = "serve") ~> kpc[k] # "serve"

(* ptrace() on a stopped child returns.                                      *)
RequestAnswered == dpc = "reply" ~> dpc # "reply"

(* What pt_find_tracee's comment says: a child that is not traced costs      *)
(* wait() no more than a delay, so wait() returns once such a child exits.   *)
WaitSeesPlainChild ==
    \A k \in Kids :
        (dpc \in {"find", "read", "waitpid"} /\ kpc[k] = "zombie" /\ ~pt_traced[k])
            ~> dpc \in {"run", "gone"}
=============================================================================
