---------------------------- MODULE PairSession ----------------------------
(***************************************************************************)
(* One pairing flow of internal/wa: the goroutine StartPairing spawns, its *)
(* pairSession (observation state under obsMu and obsCond), the buffered   *)
(* channel `out` with the drainer pairing_start attaches to it, and the    *)
(* PairWaitNext calls of the pairing tools, each with its watchdog         *)
(* goroutine.  A step is what runs between two points where the goroutine  *)
(* can lose the processor to another one: a critical section of obsMu, a   *)
(* channel operation, the entry of Cond.Wait, a Broadcast.                 *)
(*                                                                         *)
(* WhatsApp's side is external: whatsmeow's QR channel offers at most      *)
(* MaxCodes rotating codes and then one of the terminal items; it may      *)
(* offer a terminal item at any time.                                      *)
(***************************************************************************)
EXTENDS Naturals

CONSTANTS
    Waiters,      \* concurrent PairWaitNext calls
    Terminal,     \* event types for which PairEvent.IsTerminal is true
    MaxCodes,     \* bound: how many codes the QR channel rotates through
    OutCap,       \* capacity of `out` (8 in the code)
    Nobody        \* obsMu is free

ASSUME SessionAssumption ==
    /\ MaxCodes \in Nat
    /\ OutCap \in Nat \ {0}
    /\ Nobody \notin Waiters
    /\ "none" \notin Terminal
    /\ "code" \notin Terminal

VARIABLES
    fpc,          \* where the flow goroutine is
    cancelled,    \* Unpair has called session.cancel
    out,          \* number of events buffered in `out`
    obsMu,        \* holder of obsMu across steps, or Nobody
    obsLatest,    \* newest published event ("none" is the zero PairEvent)
    obsSeq,
    obsDone,
    wpc,          \* where each PairWaitNext call is
    startSeq,     \* its local startSeq
    expired,      \* its ctx is done
    dog           \* its watchdog goroutine

flowVars == <<fpc, cancelled, out, obsLatest, obsSeq, obsDone>>
waitVars == <<wpc, startSeq, expired, dog>>
vars == <<flowVars, obsMu, waitVars>>

Items == Terminal \cup {"code"}

TypeOK ==
    /\ fpc \in {"select", "forward", "exiting", "marked", "closed"}
    /\ cancelled \in BOOLEAN
    /\ out \in 0..OutCap
    /\ obsMu \in Waiters \cup {Nobody}
    /\ obsLatest \in Items \cup {"none"}
    /\ obsSeq \in 0..(MaxCodes + 1)
    /\ obsDone \in BOOLEAN
    /\ wpc \in [Waiters -> {"idle", "watch", "locked", "asleep", "awake"}]
    /\ startSeq \in [Waiters -> 0..(MaxCodes + 1)]
    /\ expired \in [Waiters -> BOOLEAN]
    /\ dog \in [Waiters -> {"off", "armed", "fired"}]

Init ==
    /\ fpc = "select" /\ cancelled = FALSE /\ out = 0
    /\ obsMu = Nobody
    /\ obsLatest = "none" /\ obsSeq = 0 /\ obsDone = FALSE
    /\ wpc = [w \in Waiters |-> "idle"]
    /\ startSeq = [w \in Waiters |-> 0]
    /\ expired = [w \in Waiters |-> FALSE]
    /\ dog = [w \in Waiters |-> "off"]

(* Mutant of Broadcast: obsCond.Signal, which wakes one call only.         *)
BroadcastAsSignal ==
    IF \E w \in Waiters : wpc[w] = "asleep"
    THEN \E w \in Waiters : /\ wpc[w] = "asleep"
                            /\ wpc' = [wpc EXCEPT ![w] = "awake"]
    ELSE UNCHANGED wpc

(* obsCond.Broadcast: every call on the notify list becomes runnable.      *)
Broadcast ==
    wpc' = [w \in Waiters |-> IF wpc[w] = "asleep" THEN "awake" ELSE wpc[w]]

-----------------------------------------------------------------------------
(* The flow goroutine.                                                     *)

(* The select picks an item of whatsmeow's channel (it may do so although  *)
(* the context is done as well) and publish records it.                    *)
FlowPublish ==
    /\ fpc = "select"
    /\ obsMu = Nobody
    /\ \E item \in Items :
          /\ item = "code" => obsSeq < MaxCodes
          /\ obsLatest' = item
    /\ obsSeq' = obsSeq + 1
    /\ Broadcast
    /\ fpc' = "forward"
    /\ UNCHANGED <<cancelled, out, obsMu, obsDone, startSeq, expired, dog>>

(* Mutant of FlowObservesCancel: a default branch in the select.           *)
FlowObservesCancelDefault ==
    /\ fpc = "select"
    /\ fpc' = "exiting"
    /\ UNCHANGED <<cancelled, out, obsMu, obsLatest, obsSeq, obsDone, waitVars>>

(* The select picks pairCtx.Done, or finds the channel closed by whatsmeow,*)
(* which watches the same context.                                         *)
FlowObservesCancel ==
    /\ fpc = "select"
    /\ cancelled
    /\ fpc' = "exiting"
    /\ UNCHANGED <<cancelled, out, obsMu, obsLatest, obsSeq, obsDone, waitVars>>

(* Mutant of FlowForward: an unbounded `out`.                              *)
FlowForwardUnbounded ==
    /\ fpc = "forward"
    /\ out' = out + 1
    /\ fpc' = IF obsLatest \in Terminal THEN "exiting" ELSE "select"
    /\ UNCHANGED <<cancelled, obsMu, obsLatest, obsSeq, obsDone, waitVars>>

(* Mutant of FlowForward: the return after a terminal event is missing.    *)
FlowForwardGoesOn ==
    /\ fpc = "forward"
    /\ out < OutCap
    /\ out' = out + 1
    /\ fpc' = "select"
    /\ UNCHANGED <<cancelled, obsMu, obsLatest, obsSeq, obsDone, waitVars>>

FlowForward ==
    /\ fpc = "forward"
    /\ out < OutCap
    /\ out' = out + 1
    /\ fpc' = IF obsLatest \in Terminal THEN "exiting" ELSE "select"
    /\ UNCHANGED <<cancelled, obsMu, obsLatest, obsSeq, obsDone, waitVars>>

FlowForwardCancelled ==
    /\ fpc = "forward"
    /\ cancelled
    /\ fpc' = "exiting"
    /\ UNCHANGED <<cancelled, out, obsMu, obsLatest, obsSeq, obsDone, waitVars>>

(* The deferred cancel (nobody reads the context after it) and markDone.   *)
FlowMarkDone ==
    /\ fpc = "exiting"
    /\ obsMu = Nobody
    /\ obsDone' = TRUE
    /\ Broadcast
    /\ fpc' = "marked"
    /\ UNCHANGED <<cancelled, out, obsMu, obsLatest, obsSeq, startSeq, expired, dog>>

(* close(session.done), on which Unpair waits, and close(out).             *)
FlowClose ==
    /\ fpc = "marked"
    /\ fpc' = "closed"
    /\ UNCHANGED <<cancelled, out, obsMu, obsLatest, obsSeq, obsDone, waitVars>>

(* Mutant of Drain: pairing_start forgets the drainer.                     *)
DrainMissing == FALSE /\ UNCHANGED vars

(* pairing_start's no-op drainer takes an event off `out`.                 *)
Drain ==
    /\ out > 0
    /\ out' = out - 1
    /\ UNCHANGED <<fpc, cancelled, obsMu, obsLatest, obsSeq, obsDone, waitVars>>

(* Unpair cancels the flow.                                                *)
Cancel ==
    /\ ~cancelled
    /\ cancelled' = TRUE
    /\ UNCHANGED <<fpc, out, obsMu, obsLatest, obsSeq, obsDone, waitVars>>

-----------------------------------------------------------------------------
(* PairWaitNext.                                                           *)

(* First critical section: capture startSeq, or answer at once when the    *)
(* flow has ended.  Then the watchdog is spawned.                          *)
WaitBegin(w) ==
    /\ wpc[w] = "idle"
    /\ dog[w] = "off"
    /\ obsMu = Nobody
    /\ ~obsDone
    /\ startSeq' = [startSeq EXCEPT ![w] = obsSeq]
    /\ wpc' = [wpc EXCEPT ![w] = "watch"]
    /\ dog' = [dog EXCEPT ![w] = "armed"]
    /\ expired' = [expired EXCEPT ![w] = FALSE]
    /\ UNCHANGED <<flowVars, obsMu>>

(* Mutant of KeepsWaiting: the loop does not look at obsDone.              *)
KeepsWaitingWhenDone(w) == obsSeq = startSeq[w] /\ ~expired[w]

KeepsWaiting(w) == obsSeq = startSeq[w] /\ ~obsDone /\ ~expired[w]

(* The loop condition holds: the call now owns obsMu and is about to call  *)
(* obsCond.Wait.                                                           *)
WaitCheck(w) ==
    /\ wpc[w] \in {"watch", "awake"}
    /\ obsMu = Nobody
    /\ KeepsWaiting(w)
    /\ wpc' = [wpc EXCEPT ![w] = "locked"]
    /\ obsMu' = w
    /\ UNCHANGED <<flowVars, startSeq, expired, dog>>

(* obsCond.Wait: join the notify list and release obsMu.                   *)
WaitSleep(w) ==
    /\ wpc[w] = "locked"
    /\ wpc' = [wpc EXCEPT ![w] = "asleep"]
    /\ obsMu' = Nobody
    /\ UNCHANGED <<flowVars, startSeq, expired, dog>>

(* The loop ends and the call answers with obsLatest; its deferred close   *)
(* lets the watchdog go.                                                   *)
WaitAnswer(w) ==
    /\ wpc[w] \in {"watch", "awake"}
    /\ obsMu = Nobody
    /\ ~KeepsWaiting(w)
    /\ wpc' = [wpc EXCEPT ![w] = "idle"]
    /\ UNCHANGED <<flowVars, obsMu, startSeq, expired, dog>>

(* The deadline of the call's context, or the tool's deferred cancel.      *)
Expire(w) ==
    /\ dog[w] = "armed"
    /\ ~expired[w]
    /\ expired' = [expired EXCEPT ![w] = TRUE]
    /\ UNCHANGED <<flowVars, obsMu, wpc, startSeq, dog>>

(* The watchdog sees its ctx done: it broadcasts, without holding obsMu.   *)
DogFire(w) ==
    /\ dog[w] = "armed"
    /\ expired[w]
    /\ Broadcast
    /\ dog' = [dog EXCEPT ![w] = "fired"]
    /\ UNCHANGED <<flowVars, obsMu, startSeq, expired>>

(* The call has returned: the watchdog goroutine is gone.                  *)
DogExit(w) ==
    /\ wpc[w] = "idle"
    /\ dog[w] # "off"
    /\ dog' = [dog EXCEPT ![w] = "off"]
    /\ UNCHANGED <<flowVars, obsMu, wpc, startSeq, expired>>

-----------------------------------------------------------------------------
FlowNext ==
    FlowPublish \/ FlowObservesCancel \/ FlowForward \/ FlowForwardCancelled
    \/ FlowMarkDone \/ FlowClose \/ Drain \/ Cancel

WaitNext(w) ==
    WaitBegin(w) \/ WaitCheck(w) \/ WaitSleep(w) \/ WaitAnswer(w)
    \/ Expire(w) \/ DogFire(w) \/ DogExit(w)

Next == FlowNext \/ \E w \in Waiters : WaitNext(w)

(* Every goroutine that can run does: Go's scheduler is fair, sync.Mutex   *)
(* starves nobody (it switches to FIFO handoff after a millisecond, hence  *)
(* the strong fairness of the steps that take obsMu), deadlines pass, and  *)
(* whatsmeow's QR channel always ends up offering its next item.  Nothing  *)
(* makes Unpair or a new call happen.                                      *)
Fairness ==
    /\ SF_vars(FlowPublish \/ FlowObservesCancel)
    /\ WF_vars(FlowForward \/ FlowForwardCancelled)
    /\ SF_vars(FlowMarkDone)
    /\ WF_vars(FlowClose)
    /\ WF_vars(Drain)
    /\ \A w \in Waiters :
          /\ SF_vars(WaitCheck(w) \/ WaitAnswer(w))
          /\ WF_vars(WaitSleep(w))
          /\ WF_vars(Expire(w))
          /\ WF_vars(DogFire(w))
          /\ WF_vars(DogExit(w))

Spec == Init /\ [][Next]_vars
FairSpec == Spec /\ Fairness

-----------------------------------------------------------------------------
(* No call sleeps through an event: while PairWaitNext is on the notify    *)
(* list, or about to join it, nothing has been published since it captured *)
(* startSeq and the flow is still running.  It is what the order of the    *)
(* two critical sections of PairWaitNext, the loop around Wait and the     *)
(* broadcasts of publish and markDone are for.                             *)
NoSleepThroughEvent ==
    \A w \in Waiters :
        wpc[w] \in {"locked", "asleep"} => obsSeq = startSeq[w] /\ ~obsDone

(* A flow that is over, and that Unpair did not cancel, shows its outcome: *)
(* pairing_complete called after the end finds a terminal event.           *)
OutcomeVisible ==
    obsDone /\ ~cancelled => obsLatest \in Terminal

(* PairWaitNext's promise about its context: once the deadline has passed  *)
(* and the watchdog has broadcast it, the call is not left on the notify   *)
(* list, so it returns with the latest event instead of waiting for the    *)
(* next rotation of the QR code.                                           *)
AwakeAfterDeadline ==
    \A w \in Waiters : dog[w] = "fired" => wpc[w] # "asleep"

(* Every PairWaitNext call is answered, at the latest when the flow        *)
(* publishes again or ends.                                                *)
WaitReturns ==
    \A w \in Waiters : (wpc[w] = "watch") ~> (wpc[w] = "idle")

(* The flow goroutine always ends: its send on `out` never wedges it, and  *)
(* Unpair's wait for session.done is always served.                        *)
FlowEnds == <>(fpc = "closed")

(* The session implements the cell its observers were promised.            *)
Cell == INSTANCE PairCell WITH
    written <- obsSeq, event <- obsLatest, over <- obsDone,
    waiting <- [w \in Waiters |-> wpc[w] # "idle"],
    since <- startSeq, late <- expired

ImplementsCell == Cell!CellSpec
=============================================================================
