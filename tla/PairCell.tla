------------------------------ MODULE PairCell ------------------------------
(***************************************************************************)
(* What a pair flow promises to the tools that poll it (pairing_start and  *)
(* pairing_complete), with every lock, condition variable and goroutine    *)
(* forgotten: a cell that holds the newest pair event.  The flow overwrites*)
(* it until it ends; a poller that began when the cell had been written    *)
(* since[w] times is answered only once there is something to say, i.e.    *)
(* the cell was written again, the flow is over, or its deadline passed.   *)
(***************************************************************************)
EXTENDS Naturals

CONSTANTS Waiters,     \* concurrent PairWaitNext calls
          Terminal     \* the event types PairEvent.IsTerminal accepts

VARIABLES written,     \* how many events the cell has held
          event,       \* the newest one
          over,        \* the flow has ended, nothing more is written
          waiting,     \* waiting[w]: w's call has begun and is unanswered
          since,       \* since[w]: value of written when w's call began
          late         \* late[w]: the deadline of w's call has passed

cellVars == <<written, event, over, waiting, since, late>>

CellInit ==
    /\ written = 0 /\ event = "none" /\ over = FALSE
    /\ waiting = [w \in Waiters |-> FALSE]
    /\ since = [w \in Waiters |-> 0]
    /\ late = [w \in Waiters |-> FALSE]

(* Nothing follows a terminal event, and nothing is written once over.     *)
Write(e) ==
    /\ ~over
    /\ event \notin Terminal
    /\ event' = e
    /\ written' = written + 1
    /\ UNCHANGED <<over, waiting, since, late>>

End ==
    /\ ~over
    /\ over' = TRUE
    /\ UNCHANGED <<written, event, waiting, since, late>>

Begin(w) ==
    /\ ~waiting[w]
    /\ ~over
    /\ waiting' = [waiting EXCEPT ![w] = TRUE]
    /\ since' = [since EXCEPT ![w] = written]
    /\ late' = [late EXCEPT ![w] = FALSE]
    /\ UNCHANGED <<written, event, over>>

Deadline(w) ==
    /\ late' = [late EXCEPT ![w] = TRUE]
    /\ UNCHANGED <<written, event, over, waiting, since>>

Answer(w) ==
    /\ waiting[w]
    /\ written > since[w] \/ over \/ late[w]
    /\ waiting' = [waiting EXCEPT ![w] = FALSE]
    /\ UNCHANGED <<written, event, over, since, late>>

CellNext ==
    \/ \E e \in Terminal \cup {"code"} : Write(e)
    \/ End
    \/ \E w \in Waiters : Begin(w) \/ Deadline(w) \/ Answer(w)

CellSpec == CellInit /\ [][CellNext]_cellVars
=============================================================================
