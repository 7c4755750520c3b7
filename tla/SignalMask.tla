----------------------------- MODULE SignalMask -----------------------------
(* What 4.3BSD signal masks promise a program, as the frames that            *)
(* pdp11-apsim builds for sigvec handlers are to keep it: the masks form a   *)
(* stack, one for the program and one for each handler on top of it.  Only   *)
(* sigblock and sigsetmask change the mask in force; a handler blocks at     *)
(* least its own signal; its return brings the interrupted mask back, and a  *)
(* sigsuspend leaves no trace.                                               *)
EXTENDS Naturals, SequencesExt

CONSTANTS Sigs, Masks, HMasks

VARIABLES
    stack,      \* masks of the program and of its running handlers
    waiting     \* a sigsuspend is in progress

Init == stack = <<{}>> /\ waiting = FALSE

Replace(m) == stack' = Append(Front(stack), m)

(* sigblock or sigsetmask by whoever runs.                                   *)
SetMask ==
    /\ ~waiting
    /\ \E m \in Masks : Replace(m) \/ Replace(Last(stack) \cup m)
    /\ UNCHANGED waiting

(* A handler for s is entered.                                               *)
Enter ==
    /\ ~waiting
    /\ \E s \in Sigs, hm \in HMasks \cup {{}} :
        stack' = Append(stack, Last(stack) \cup hm \cup {s})
    /\ UNCHANGED waiting

(* sigreturn.                                                                *)
Return ==
    /\ ~waiting
    /\ Len(stack) > 1
    /\ stack' = Front(stack)
    /\ UNCHANGED waiting

(* sigsuspend begins and ends.                                               *)
Suspend == waiting' = ~waiting /\ UNCHANGED stack

Next == SetMask \/ Enter \/ Return \/ Suspend

Spec == Init /\ [][Next]_<<stack, waiting>>
=============================================================================
