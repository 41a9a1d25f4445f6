-------------------------- MODULE PairSessionProofs --------------------------
(* Proofs about PairSession, for any number of waiters, codes and slots.    *)
EXTENDS PairSession, TLAPS

(* obsMu is held across steps by exactly the call about to enter Cond.Wait. *)
LockInv ==
    \A w \in Waiters : wpc[w] = "locked" <=> obsMu = w

(* How far the goroutine is tells what it has published.                    *)
FlowInv ==
    /\ obsDone <=> fpc \in {"marked", "closed"}
    /\ fpc = "select" => obsLatest \notin Terminal
    /\ obsLatest \notin Terminal => obsSeq <= MaxCodes
    /\ fpc \in {"exiting", "marked", "closed"} /\ ~cancelled
          => obsLatest \in Terminal

(* A call never captured more events than were published.                   *)
WaitOrder == \A w \in Waiters : startSeq[w] <= obsSeq

IInv == TypeOK /\ LockInv /\ FlowInv /\ WaitOrder /\ NoSleepThroughEvent

(* The invariant holds when StartPairing has just spawned the goroutine.    *)
LEMMA InitIInv == Init => IInv
<1> SUFFICES ASSUME Init PROVE IInv
  OBVIOUS
<1>1. TypeOK
  <2>1. 0 \in 0..OutCap /\ 0 \in 0..(MaxCodes + 1)
    BY SessionAssumption
  <2>2. wpc \in [Waiters -> {"idle", "watch", "locked", "asleep", "awake"}]
    BY DEF Init
  <2>3. startSeq \in [Waiters -> 0..(MaxCodes + 1)]
    BY <2>1 DEF Init
  <2>4. expired \in [Waiters -> BOOLEAN] /\ dog \in [Waiters -> {"off", "armed", "fired"}]
    BY DEF Init
  <2> QED
    BY <2>1, <2>2, <2>3, <2>4 DEF Init, TypeOK
<1>2. LockInv
  BY SessionAssumption DEF Init, LockInv
<1>3. FlowInv
  BY SessionAssumption DEF Init, FlowInv
<1>4. WaitOrder /\ NoSleepThroughEvent
  BY DEF Init, WaitOrder, NoSleepThroughEvent
<1> QED
  BY <1>1, <1>2, <1>3, <1>4 DEF IInv

(* Every step of the flow goroutine, the drainer and Unpair keeps it.       *)
LEMMA FlowKeepsIInv == IInv /\ FlowNext => IInv'
<1> SUFFICES ASSUME IInv, FlowNext PROVE IInv'
  OBVIOUS
<1> USE SessionAssumption
    DEF IInv, TypeOK, LockInv, FlowInv, WaitOrder, NoSleepThroughEvent, Items,
        flowVars, waitVars
<1>1. CASE FlowPublish
  <2>1. TypeOK' /\ FlowInv'
    BY <1>1 DEF FlowPublish, Broadcast
  <2>2. LockInv' /\ WaitOrder' /\ NoSleepThroughEvent'
    BY <1>1 DEF FlowPublish, Broadcast
  <2> QED BY <2>1, <2>2
<1>2. CASE FlowObservesCancel
  BY <1>2 DEF FlowObservesCancel
<1>3. CASE FlowForward
  BY <1>3 DEF FlowForward
<1>4. CASE FlowForwardCancelled
  BY <1>4 DEF FlowForwardCancelled
<1>5. CASE FlowMarkDone
  <2>1. TypeOK' /\ FlowInv'
    BY <1>5 DEF FlowMarkDone, Broadcast
  <2>2. LockInv' /\ WaitOrder' /\ NoSleepThroughEvent'
    BY <1>5 DEF FlowMarkDone, Broadcast
  <2> QED BY <2>1, <2>2
<1>6. CASE FlowClose
  BY <1>6 DEF FlowClose
<1>7. CASE Drain
  BY <1>7 DEF Drain
<1>8. CASE Cancel
  BY <1>8 DEF Cancel
<1> QED
  BY <1>1, <1>2, <1>3, <1>4, <1>5, <1>6, <1>7, <1>8 DEF FlowNext

(* Every step of a PairWaitNext call and of its watchdog keeps it.          *)
LEMMA WaitKeepsIInv ==
  ASSUME IInv, NEW w \in Waiters, WaitNext(w)
  PROVE  IInv'
<1> USE SessionAssumption
    DEF IInv, TypeOK, LockInv, FlowInv, WaitOrder, NoSleepThroughEvent, Items,
        flowVars, waitVars
<1>1. CASE WaitBegin(w)
  BY <1>1 DEF WaitBegin
<1>2. CASE WaitCheck(w)
  BY <1>2 DEF WaitCheck, KeepsWaiting
<1>3. CASE WaitSleep(w)
  BY <1>3 DEF WaitSleep
<1>4. CASE WaitAnswer(w)
  BY <1>4 DEF WaitAnswer
<1>5. CASE Expire(w)
  BY <1>5 DEF Expire
<1>6. CASE DogFire(w)
  BY <1>6 DEF DogFire, Broadcast
<1>7. CASE DogExit(w)
  BY <1>7 DEF DogExit
<1> QED
  BY <1>1, <1>2, <1>3, <1>4, <1>5, <1>6, <1>7 DEF WaitNext

LEMMA NextKeepsIInv == IInv /\ [Next]_vars => IInv'
<1> SUFFICES ASSUME IInv, [Next]_vars PROVE IInv'
  OBVIOUS
<1>1. CASE FlowNext
  BY <1>1, FlowKeepsIInv
<1>2. ASSUME NEW w \in Waiters, WaitNext(w) PROVE IInv'
  BY <1>2, WaitKeepsIInv
<1>3. CASE UNCHANGED vars
  BY <1>3
  DEF vars, flowVars, waitVars, IInv, TypeOK, LockInv, FlowInv,
      WaitOrder, NoSleepThroughEvent
<1> QED
  BY <1>1, <1>2, <1>3 DEF Next

THEOREM SpecIInv == Spec => []IInv
  BY InitIInv, NextKeepsIInv, PTL DEF Spec

(* Type correctness of the session and its observers.                       *)
THEOREM SpecTypeOK == Spec => []TypeOK
<1>1. IInv => TypeOK
  BY DEF IInv
<1> QED BY <1>1, SpecIInv, PTL

(* However many PairWaitNext calls poll the flow, none of them is put to    *)
(* sleep across an event or across the end of the flow.                     *)
THEOREM SpecNoSleepThroughEvent == Spec => []NoSleepThroughEvent
<1>1. IInv => NoSleepThroughEvent
  BY DEF IInv
<1> QED BY <1>1, SpecIInv, PTL

(* A flow that ended without being cancelled shows a terminal event.        *)
THEOREM SpecOutcomeVisible == Spec => []OutcomeVisible
<1>1. IInv => OutcomeVisible
  BY DEF IInv, FlowInv, OutcomeVisible
<1> QED BY <1>1, SpecIInv, PTL

-----------------------------------------------------------------------------
(* The refinement of PairCell: the flow goroutine writes and ends the cell, *)
(* PairWaitNext begins and answers, everything else stutters.               *)
LEMMA FlowRefines ==
  IInv /\ FlowNext => [Cell!CellNext]_(Cell!cellVars)
<1> SUFFICES ASSUME IInv, FlowNext PROVE [Cell!CellNext]_(Cell!cellVars)
  OBVIOUS
<1>1. CASE FlowPublish
  <2>1. PICK item \in Items : obsLatest' = item
    BY <1>1 DEF FlowPublish
  <2>2. [w \in Waiters |-> wpc'[w] # "idle"] = [w \in Waiters |-> wpc[w] # "idle"]
    BY <1>1 DEF FlowPublish, Broadcast, IInv, TypeOK
  <2>3. Cell!Write(item)
    BY <1>1, <2>1, <2>2
    DEF FlowPublish, Cell!Write, IInv, TypeOK, FlowInv
  <2> QED BY <2>1, <2>3 DEF Cell!CellNext, Items
<1>2. CASE FlowMarkDone
  <2>1. [w \in Waiters |-> wpc'[w] # "idle"] = [w \in Waiters |-> wpc[w] # "idle"]
    BY <1>2 DEF FlowMarkDone, Broadcast, IInv, TypeOK
  <2>2. Cell!End
    BY <1>2, <2>1 DEF FlowMarkDone, Cell!End, IInv, TypeOK, FlowInv
  <2> QED BY <2>2 DEF Cell!CellNext
<1>3. CASE FlowObservesCancel
  BY <1>3 DEF FlowObservesCancel, waitVars, Cell!cellVars
<1>4. CASE FlowForward
  BY <1>4 DEF FlowForward, waitVars, Cell!cellVars
<1>5. CASE FlowForwardCancelled
  BY <1>5 DEF FlowForwardCancelled, waitVars, Cell!cellVars
<1>6. CASE FlowClose
  BY <1>6 DEF FlowClose, waitVars, Cell!cellVars
<1>7. CASE Drain
  BY <1>7 DEF Drain, waitVars, Cell!cellVars
<1>8. CASE Cancel
  BY <1>8 DEF Cancel, waitVars, Cell!cellVars
<1> QED
  BY <1>1, <1>2, <1>3, <1>4, <1>5, <1>6, <1>7, <1>8 DEF FlowNext

LEMMA WaitRefines ==
  ASSUME IInv, NEW w \in Waiters, WaitNext(w)
  PROVE  [Cell!CellNext]_(Cell!cellVars)
<1> DEFINE waiting == [v \in Waiters |-> wpc[v] # "idle"]
<1>1. CASE WaitBegin(w)
  <2>1. waiting' = [waiting EXCEPT ![w] = TRUE]
    BY <1>1 DEF WaitBegin, IInv, TypeOK
  <2>2. ~waiting[w]
    BY <1>1 DEF WaitBegin
  <2>3. Cell!Begin(w)
    BY <1>1, <2>1, <2>2 DEF WaitBegin, flowVars, Cell!Begin
  <2> QED BY <2>3 DEF Cell!CellNext
<1>2. CASE WaitAnswer(w)
  <2>1. waiting' = [waiting EXCEPT ![w] = FALSE]
    BY <1>2 DEF WaitAnswer, IInv, TypeOK
  <2>2. waiting[w]
    BY <1>2 DEF WaitAnswer
  <2>3. obsSeq > startSeq[w] \/ obsDone \/ expired[w]
    BY <1>2 DEF WaitAnswer, KeepsWaiting, IInv, TypeOK, WaitOrder
  <2>4. Cell!Answer(w)
    BY <1>2, <2>1, <2>2, <2>3 DEF WaitAnswer, flowVars, Cell!Answer
  <2> QED BY <2>4 DEF Cell!CellNext
<1>3. CASE WaitCheck(w)
  <2>1. waiting' = waiting
    BY <1>3 DEF WaitCheck, IInv, TypeOK
  <2> QED BY <1>3, <2>1 DEF WaitCheck, flowVars, Cell!cellVars
<1>4. CASE WaitSleep(w)
  <2>1. waiting' = waiting
    BY <1>4 DEF WaitSleep, IInv, TypeOK
  <2> QED BY <1>4, <2>1 DEF WaitSleep, flowVars, Cell!cellVars
<1>5. CASE Expire(w)
  <2>1. Cell!Deadline(w)
    BY <1>5 DEF Expire, flowVars, Cell!Deadline
  <2> QED BY <2>1 DEF Cell!CellNext
<1>6. CASE DogFire(w)
  <2>1. waiting' = waiting
    BY <1>6 DEF DogFire, Broadcast, IInv, TypeOK
  <2> QED BY <1>6, <2>1 DEF DogFire, flowVars, Cell!cellVars
<1>7. CASE DogExit(w)
  BY <1>7 DEF DogExit, flowVars, Cell!cellVars
<1> QED
  BY <1>1, <1>2, <1>3, <1>4, <1>5, <1>6, <1>7 DEF WaitNext

(* pairSession and its observers implement the cell: an answer is given     *)
(* only on a new event, the end of the flow or the deadline, and nothing is *)
(* published after a terminal event.                                        *)
THEOREM SpecImplementsCell == Spec => ImplementsCell
<1>1. Init => Cell!CellInit
  BY DEF Init, Cell!CellInit
<1>2. IInv /\ [Next]_vars => [Cell!CellNext]_(Cell!cellVars)
  <2> SUFFICES ASSUME IInv, [Next]_vars PROVE [Cell!CellNext]_(Cell!cellVars)
    OBVIOUS
  <2>1. CASE FlowNext
    BY <2>1, FlowRefines
  <2>2. ASSUME NEW w \in Waiters, WaitNext(w)
        PROVE  [Cell!CellNext]_(Cell!cellVars)
    BY <2>2, WaitRefines
  <2>3. CASE UNCHANGED vars
    BY <2>3 DEF vars, flowVars, waitVars, Cell!cellVars
  <2> QED BY <2>1, <2>2, <2>3 DEF Next
<1> QED
  BY <1>1, <1>2, SpecIInv, PTL DEF Spec, ImplementsCell, Cell!CellSpec
=============================================================================
