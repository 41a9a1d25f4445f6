---------------------------- MODULE WaClientProofs ----------------------------
(* Proofs about WaClient: for any number of tool calls, whatsmeow clients, *)
(* flows and events, at most one flow is live, a linked device is never    *)
(* paired over, and a logout or replacement is final until somebody asks.  *)
EXTENDS WaClient, TLAPS

(* A call that is under way holds adminMu, and main has started.           *)
LockInv ==
    \A c \in Callers :
        pc[c] # "idle" => adminMu = c /\ mpc \notin {"boot", "dial"}

(* A client that is not built yet has neither socket, nor credentials, nor *)
(* a loop.                                                                 *)
Touched == up \cup linked \cup retrying \cup asking
GenInv == \A g \in Gens : g > cur => g \notin Touched

(* Flows belong to clients that were installed; StartPairing runs only     *)
(* beside a flow that is over, Unpair waits only for a flow it cancelled.  *)
FlowInv ==
    /\ pairing # 0 => flow[pairing] # "new"
    /\ \A f \in Flows : flow[f] # "new" => on[f] <= cur
    /\ \A c \in Callers :
          /\ pc[c] \in StartPcs => NoFlow
          /\ pc[c] = "wait" =>
                pairing # 0 /\ flow[pairing] \in {"cancelled", "done"}

(* When Unpair clears the flag, the client it installed is untouched.      *)
ResetInv ==
    \A c \in Callers :
        pc[c] = "reset" =>
            /\ cur \notin Touched
            /\ \A f \in Flows : flow[f] # "new" => on[f] < cur

(* StaysDown, and why: nobody is past the flag, and the flag is up, or     *)
(* there is nothing to reconnect.                                          *)
QuietInv ==
    quiet /\ ~late =>
        /\ dpc # "drop" => cur \notin up
        /\ ~Dialling
        /\ stopReconnect \/ cur \notin Touched

(* The inductive invariant.                                                *)
IInv ==
    /\ TypeOK /\ LockInv /\ GenInv /\ FlowInv
    /\ PairsUnlinked /\ OneLiveFlow /\ ResetInv /\ QuietInv

Safe ==
    /\ LockInv /\ GenInv /\ FlowInv
    /\ PairsUnlinked /\ OneLiveFlow /\ ResetInv /\ QuietInv

-----------------------------------------------------------------------------
LEMMA InitIInv == Init => IInv
<1> SUFFICES ASSUME Init PROVE IInv
  OBVIOUS
<1>1. up = {} /\ cur = 1 /\ 1 \in Gens /\ linked \subseteq {1}
  BY ClientAssumption DEF Init
<1>2. rawCh \in Seq(Events) /\ Len(rawCh) <= QueueCap
  BY ClientAssumption DEF Init
<1>3. TypeOK
  <2>1. /\ loggedIn = {} /\ retrying = {} /\ asking = {} /\ wired = {1}
        /\ stopReconnect \in BOOLEAN /\ quiet \in BOOLEAN /\ late \in BOOLEAN
    BY DEF Init
  <2>4. ends \in 0..MaxEnds
    BY ClientAssumption DEF Init
  <2>2. state \in States /\ verdict \in States
    BY DEF Init, States
  <2>3. /\ flow \in [Flows -> {"new", "live", "cancelled", "done"}]
        /\ on \in [Flows -> Gens]
        /\ pc \in [Callers -> {"idle"} \cup StartPcs \cup UnpairPcs]
    BY <1>1 DEF Init
  <2> QED
    BY <1>1, <1>2, <2>1, <2>2, <2>3, <2>4 DEF Init, TypeOK
<1>4. Safe
  BY <1>1, ClientAssumption
  DEF Init, Safe, LockInv, GenInv, FlowInv, PairsUnlinked, OneLiveFlow, ResetInv,
      QuietInv, Touched, Dialling, StartPcs, NoFlow
<1> QED BY <1>3, <1>4 DEF IInv, Safe

-----------------------------------------------------------------------------
(* Type correctness.                                                       *)
(* What reaches rawCh is an event, and fits.                               *)
LEMMA EmitTypes ==
  ASSUME TypeOK, NEW g \in Gens, NEW e \in Events, Emit(g, e)
  PROVE  rawCh' \in Seq(Events) /\ Len(rawCh') <= QueueCap
<1>1. CASE g \in wired
  BY <1>1, ClientAssumption DEF TypeOK, Emit, Events, Ended
<1>2. CASE g \notin wired
  BY <1>2 DEF TypeOK, Emit
<1> QED BY <1>1, <1>2

(* whatsmeow's steps.                                                      *)
LEMMA WhatsmeowTypes ==
  ASSUME TypeOK, Whatsmeow
  PROVE  TypeOK'
<1> USE ClientAssumption
    DEF TypeOK, States, Events, Ended, StartPcs, UnpairPcs,
        waVars, flowVars, dispVars, history
<1>1. ASSUME NEW g \in Gens, Login(g)
      PROVE  TypeOK'
  <2>1. rawCh' \in Seq(Events) /\ Len(rawCh') <= QueueCap
    BY <1>1, EmitTypes DEF Login
  <2> QED BY <1>1, <2>1 DEF Login
<1>2. ASSUME NEW g \in Gens, NEW e \in {"disconnected"} \cup Ended, Ends(g, e)
      PROVE  TypeOK'
  <2>1. rawCh' \in Seq(Events) /\ Len(rawCh') <= QueueCap
    BY <1>2, EmitTypes DEF Ends
  <2>2. ends' \in 0..MaxEnds
    BY <1>2 DEF Ends
  <2>3. /\ up' \subseteq Gens /\ loggedIn' \subseteq Gens
        /\ linked' \subseteq Gens /\ retrying' \subseteq Gens
    BY <1>2 DEF Ends, HangUp
  <2> QED BY <1>2, <2>1, <2>2, <2>3 DEF Ends
<1>3. ASSUME NEW g \in Gens, AutoReconnect(g)
      PROVE  TypeOK'
  <2>1. up' \subseteq Gens /\ retrying' \subseteq Gens /\ asking' \subseteq Gens
    BY <1>3 DEF AutoReconnect
  <2> QED BY <1>3, <2>1 DEF AutoReconnect
<1>4. ASSUME NEW f \in Flows, Scan(f)
      PROVE  TypeOK'
  <2>1. on[f] \in Gens
    BY <1>4
  <2>2. linked' \subseteq Gens
    BY <1>4, <2>1 DEF Scan
  <2> QED BY <1>4, <2>2 DEF Scan
<1>5. ASSUME NEW f \in Flows, FlowEnds(f)
      PROVE  TypeOK'
  <2>1. up' \subseteq Gens /\ loggedIn' \subseteq Gens
    BY <1>5 DEF FlowEnds, HangUp
  <2>2. flow' \in [Flows -> {"new", "live", "cancelled", "done"}]
    BY <1>5 DEF FlowEnds
  <2> QED BY <1>5, <2>1, <2>2 DEF FlowEnds
<1>6. ASSUME NEW g \in Gens, AutoReconnectHook(g)
      PROVE  TypeOK'
  BY <1>6 DEF AutoReconnectHook
<1> QED
  BY <1>1, <1>2, <1>3, <1>4, <1>5, <1>6 DEF Whatsmeow

(* The steps of StartPairing.                                              *)
LEMMA StartTypes ==
  ASSUME TypeOK, NEW c \in Callers, Start(c)
  PROVE  TypeOK'
<1> USE ClientAssumption
    DEF TypeOK, States, Events, Ended, StartPcs, UnpairPcs,
        waVars, flowVars, dispVars, history
<1>1. CASE StartPairing(c)
  BY <1>1 DEF StartPairing, NoFlow, Pairable, Goto
<1>2. CASE StartClear(c)
  <2>1. pc' \in [Callers -> {"idle"} \cup StartPcs \cup UnpairPcs]
    BY <1>2 DEF StartClear, Goto
  <2>2. stopReconnect' \in BOOLEAN /\ quiet' \in BOOLEAN /\ late' \in BOOLEAN
    BY <1>2 DEF StartClear
  <2>3. up' \subseteq Gens
    BY <1>2 DEF StartClear
  <2> QED BY <1>2, <2>1, <2>2, <2>3 DEF StartClear
<1>3. CASE StartConnecting(c)
  BY <1>3 DEF StartConnecting, Goto
<1>4. CASE StartDial(c)
  <2>1. pc' \in [Callers -> {"idle"} \cup StartPcs \cup UnpairPcs]
    BY <1>4 DEF StartDial, Goto
  <2>2. stopReconnect' \in BOOLEAN /\ quiet' \in BOOLEAN
    BY <1>4 DEF StartDial
  <2>3. up' \subseteq Gens
    BY <1>4 DEF StartDial
  <2> QED BY <1>4, <2>1, <2>2, <2>3 DEF StartDial
<1>5. CASE StartDialFails(c)
  BY <1>5 DEF StartDialFails, Return, Goto
<1>6. CASE StartInstall(c)
  BY <1>6 DEF StartInstall, Return, Goto
<1> QED
  BY <1>1, <1>2, <1>3, <1>4, <1>5, <1>6 DEF Start

(* The steps of Unpair.                                                    *)
LEMMA UnpairTypes ==
  ASSUME TypeOK, NEW c \in Callers, Unpairs(c)
  PROVE  TypeOK'
<1> USE ClientAssumption
    DEF TypeOK, States, Events, Ended, StartPcs, UnpairPcs,
        waVars, flowVars, dispVars, history
<1>1. CASE Unpair(c)
  BY <1>1 DEF Unpair, Cancelled, Goto
<1>2. CASE UnpairWaited(c)
  BY <1>2 DEF UnpairWaited, Goto
<1>3. CASE UnpairGivesUp(c)
  BY <1>3 DEF UnpairGivesUp, Return, Goto
<1>4. CASE UnpairLogout(c)
  <2>1. pc' \in [Callers -> {"idle"} \cup StartPcs \cup UnpairPcs]
    BY <1>4 DEF UnpairLogout, Goto
  <2>2. up' \subseteq Gens /\ loggedIn' \subseteq Gens /\ linked' \subseteq Gens
    BY <1>4 DEF UnpairLogout, HangUp
  <2> QED BY <1>4, <2>1, <2>2 DEF UnpairLogout
<1>5. CASE UnpairStop(c)
  BY <1>5 DEF UnpairStop, Goto
<1>6. CASE UnpairUnwire(c)
  BY <1>6 DEF UnpairUnwire, HangUp, Goto
<1>7. CASE UnpairReopen(c)
  <2>1. pc' \in [Callers -> {"idle"} \cup StartPcs \cup UnpairPcs]
    BY <1>7 DEF UnpairReopen, Goto
  <2>2. late' \in BOOLEAN /\ cur' \in Gens /\ wired' \subseteq Gens
    BY <1>7 DEF UnpairReopen
  <2> QED BY <1>7, <2>1, <2>2 DEF UnpairReopen
<1>8. CASE UnpairFails(c)
  BY <1>8 DEF UnpairFails, Return, Goto
<1>9. CASE UnpairReset(c)
  <2>1. pc' \in [Callers -> {"idle"} \cup StartPcs \cup UnpairPcs]
    BY <1>9 DEF UnpairReset, Goto
  <2>2. stopReconnect' \in BOOLEAN /\ quiet' \in BOOLEAN
    BY <1>9 DEF UnpairReset
  <2>3. up' \subseteq Gens
    BY <1>9 DEF UnpairReset
  <2> QED BY <1>9, <2>1, <2>2, <2>3 DEF UnpairReset
<1>10. CASE UnpairSettle(c)
  BY <1>10 DEF UnpairSettle, Return, Goto
<1> QED
  BY <1>1, <1>2, <1>3, <1>4, <1>5, <1>6, <1>7, <1>8, <1>9, <1>10 DEF Unpairs

(* The steps of main.                                                      *)
LEMMA MainTypes ==
  ASSUME TypeOK, Main
  PROVE  TypeOK'
<1> USE ClientAssumption
    DEF TypeOK, States, Events, Ended, StartPcs, UnpairPcs,
        waVars, flowVars, dispVars, history
<1>1. CASE Connect
  <2>1. /\ stopReconnect' \in BOOLEAN /\ quiet' \in BOOLEAN /\ late' \in BOOLEAN
        /\ state' \in States /\ mpc' \in {"dial", "run"}
    BY <1>1 DEF Connect
  <2> QED BY <1>1, <2>1 DEF Connect
<1>2. CASE ConnectDial
  <2>1. up' \subseteq Gens /\ retrying' \subseteq Gens /\ mpc' = "run"
    BY <1>2 DEF ConnectDial
  <2> QED BY <1>2, <2>1 DEF ConnectDial
<1>3. CASE CloseBegin
  BY <1>3 DEF CloseBegin
<1>4. CASE CloseDisconnect
  BY <1>4 DEF CloseDisconnect, HangUp
<1>5. CASE CloseEnd
  BY <1>5 DEF CloseEnd
<1> QED
  BY <1>1, <1>2, <1>3, <1>4, <1>5 DEF Main

(* The steps of the dispatcher.                                            *)
LEMMA DispatcherTypes ==
  ASSUME TypeOK, Dispatcher
  PROVE  TypeOK'
<1> USE ClientAssumption
    DEF TypeOK, States, Events, Ended, StartPcs, UnpairPcs,
        waVars, flowVars, dispVars, history
<1>1. CASE HandleTransport
  BY <1>1 DEF HandleTransport, Ended
<1>2. CASE HandleEnd
  <2>1. /\ stopReconnect' \in BOOLEAN /\ quiet' \in BOOLEAN
        /\ verdict' \in States /\ dpc' = "drop"
    BY <1>2 DEF HandleEnd
  <2>2. late' \in BOOLEAN
    BY <1>2 DEF HandleEnd, Dialling
  <2>3. rawCh' \in Seq(Events) /\ Len(rawCh') <= QueueCap
    BY <1>2 DEF HandleEnd
  <2> QED BY <1>2, <2>1, <2>2, <2>3 DEF HandleEnd
<1>3. CASE HandleDrop
  BY <1>3 DEF HandleDrop, HangUp
<1>4. CASE HandleSettle
  BY <1>4 DEF HandleSettle
<1>5. CASE DispatchQuit
  BY <1>5 DEF DispatchQuit
<1> QED
  BY <1>1, <1>2, <1>3, <1>4, <1>5 DEF Dispatcher

-----------------------------------------------------------------------------
(* The rest of the invariant.                                              *)
(* whatsmeow's steps.                                                      *)
LEMMA WhatsmeowSafe ==
  ASSUME IInv, Whatsmeow
  PROVE  Safe'
<1> USE ClientAssumption
    DEF IInv, TypeOK, LockInv, GenInv, FlowInv, PairsUnlinked, OneLiveFlow,
        ResetInv, QuietInv, Touched, Dialling, NoFlow, StartPcs, UnpairPcs,
        waVars, flowVars, dispVars, history, Safe
<1>1. ASSUME NEW g \in Gens, Login(g)
      PROVE  Safe'
  BY <1>1 DEF Login, Emit
<1>2. ASSUME NEW g \in Gens, NEW e \in {"disconnected"} \cup Ended, Ends(g, e)
      PROVE  Safe'
  BY <1>2 DEF Ends, Emit, HangUp, Ended, Events, States
<1>3. ASSUME NEW g \in Gens, AutoReconnect(g)
      PROVE  Safe'
  BY <1>3 DEF AutoReconnect
<1>4. ASSUME NEW f \in Flows, Scan(f)
      PROVE  Safe'
  BY <1>4 DEF Scan
<1>5. ASSUME NEW f \in Flows, FlowEnds(f)
      PROVE  Safe'
  BY <1>5 DEF FlowEnds, HangUp
<1>6. ASSUME NEW g \in Gens, AutoReconnectHook(g)
      PROVE  Safe'
  BY <1>6 DEF AutoReconnectHook
<1> QED
  BY <1>1, <1>2, <1>3, <1>4, <1>5, <1>6 DEF Whatsmeow

(* The steps of StartPairing.                                              *)
LEMMA StartSafe ==
  ASSUME IInv, NEW c \in Callers, Start(c)
  PROVE  Safe'
<1> USE ClientAssumption
    DEF IInv, TypeOK, LockInv, GenInv, FlowInv, PairsUnlinked, OneLiveFlow,
        ResetInv, QuietInv, Touched, Dialling, NoFlow, StartPcs, UnpairPcs,
        waVars, flowVars, dispVars, history, Safe
<1>1. CASE StartPairing(c)
  BY <1>1 DEF StartPairing, NoFlow, Pairable, Goto
<1>2. CASE StartClear(c)
  BY <1>2 DEF StartClear, Goto
<1>3. CASE StartConnecting(c)
  BY <1>3 DEF StartConnecting, Goto
<1>4. CASE StartDial(c)
  BY <1>4 DEF StartDial, Goto
<1>5. CASE StartDialFails(c)
  BY <1>5 DEF StartDialFails, Return, Goto
<1>6. CASE StartInstall(c)
  BY <1>6 DEF StartInstall, Return, Goto
<1> QED
  BY <1>1, <1>2, <1>3, <1>4, <1>5, <1>6 DEF Start

(* The steps of Unpair.                                                    *)
LEMMA UnpairSafe ==
  ASSUME IInv, NEW c \in Callers, Unpairs(c)
  PROVE  Safe'
<1> USE ClientAssumption
    DEF IInv, TypeOK, LockInv, GenInv, FlowInv, PairsUnlinked, OneLiveFlow,
        ResetInv, QuietInv, Touched, Dialling, NoFlow, StartPcs, UnpairPcs,
        waVars, flowVars, dispVars, history, Safe
<1>1. CASE Unpair(c)
  <2>1. LockInv' /\ GenInv' /\ ResetInv' /\ PairsUnlinked' /\ QuietInv'
    <3>1. \A f \in Flows : flow'[f] # "new" <=> flow[f] # "new"
      BY <1>1 DEF Unpair, Cancelled
    <3>2. \A d \in Callers : pc[d] = "idle"
      BY <1>1 DEF Unpair
    <3>3. \A d \in Callers : pc'[d] # "idle" => d = c /\ pc'[d] \in {"logout", "wait"}
      BY <1>1, <3>2 DEF Unpair, Goto
    <3> QED BY <1>1, <3>1, <3>3 DEF Unpair
  <2>2. FlowInv' /\ OneLiveFlow'
    <3>1. \A d \in Callers : pc[d] = "idle"
      BY <1>1 DEF Unpair
    <3>2. \A d \in Callers : pc'[d] # "idle" =>
             /\ d = c
             /\ pc'[d] = IF pairing = 0 THEN "logout" ELSE "wait"
      BY <1>1, <3>1 DEF Unpair, Goto
    <3>3. pairing # 0 => flow'[pairing] \in {"cancelled", "done"}
      BY <1>1 DEF Unpair, Cancelled
    <3> QED BY <1>1, <3>1, <3>2, <3>3 DEF Unpair, Cancelled
  <2> QED BY <2>1, <2>2
<1>2. CASE UnpairWaited(c)
  BY <1>2 DEF UnpairWaited, Goto
<1>3. CASE UnpairGivesUp(c)
  BY <1>3 DEF UnpairGivesUp, Return, Goto
<1>4. CASE UnpairLogout(c)
  BY <1>4 DEF UnpairLogout, HangUp, Goto
<1>5. CASE UnpairStop(c)
  BY <1>5 DEF UnpairStop, Goto
<1>6. CASE UnpairUnwire(c)
  BY <1>6 DEF UnpairUnwire, HangUp, Goto
<1>7. CASE UnpairReopen(c)
  <2>1. cur' \in Gens /\ cur' = cur + 1 /\ cur \in Nat
    BY <1>7 DEF UnpairReopen
  <2>2. cur' \notin up \cup linked
    BY <2>1
  <2>3. \A d \in Callers : d # c => pc'[d] = "idle"
    BY <1>7 DEF UnpairReopen, Goto
  <2>4. pc'[c] = "reset"
    BY <1>7 DEF UnpairReopen, Goto
  <2>5. \A f \in Flows : on[f] \in Nat
    OBVIOUS
  <2>6. GenInv' /\ FlowInv' /\ ResetInv'
    BY <1>7, <2>1, <2>2, <2>3, <2>4, <2>5 DEF UnpairReopen
  <2>7. LockInv' /\ PairsUnlinked' /\ OneLiveFlow' /\ QuietInv'
    BY <1>7, <2>1, <2>2, <2>3, <2>4 DEF UnpairReopen, Goto
  <2> QED BY <2>6, <2>7
<1>8. CASE UnpairFails(c)
  BY <1>8 DEF UnpairFails, Return, Goto
<1>9. CASE UnpairReset(c)
  BY <1>9 DEF UnpairReset, Goto
<1>10. CASE UnpairSettle(c)
  BY <1>10 DEF UnpairSettle, Return, Goto
<1> QED
  BY <1>1, <1>2, <1>3, <1>4, <1>5, <1>6, <1>7, <1>8, <1>9, <1>10 DEF Unpairs

(* The steps of main.                                                      *)
LEMMA MainSafe ==
  ASSUME IInv, Main
  PROVE  Safe'
<1> USE ClientAssumption
    DEF IInv, TypeOK, LockInv, GenInv, FlowInv, PairsUnlinked, OneLiveFlow,
        ResetInv, QuietInv, Touched, Dialling, NoFlow, StartPcs, UnpairPcs,
        waVars, flowVars, dispVars, history, Safe
<1>1. CASE Connect
  BY <1>1 DEF Connect
<1>2. CASE ConnectDial
  BY <1>2 DEF ConnectDial
<1>3. CASE CloseBegin
  BY <1>3 DEF CloseBegin
<1>4. CASE CloseDisconnect
  BY <1>4 DEF CloseDisconnect, HangUp
<1>5. CASE CloseEnd
  BY <1>5 DEF CloseEnd
<1> QED
  BY <1>1, <1>2, <1>3, <1>4, <1>5 DEF Main

(* The steps of the dispatcher.                                            *)
LEMMA DispatcherSafe ==
  ASSUME IInv, Dispatcher
  PROVE  Safe'
<1> USE ClientAssumption
    DEF IInv, TypeOK, LockInv, GenInv, FlowInv, PairsUnlinked, OneLiveFlow,
        ResetInv, QuietInv, Touched, Dialling, NoFlow, StartPcs, UnpairPcs,
        waVars, flowVars, dispVars, history, Safe
<1>1. CASE HandleTransport
  BY <1>1 DEF HandleTransport, Ended
<1>2. CASE HandleEnd
  BY <1>2 DEF HandleEnd, Ended
<1>3. CASE HandleDrop
  BY <1>3 DEF HandleDrop, HangUp
<1>4. CASE HandleSettle
  BY <1>4 DEF HandleSettle
<1>5. CASE DispatchQuit
  BY <1>5 DEF DispatchQuit
<1> QED
  BY <1>1, <1>2, <1>3, <1>4, <1>5 DEF Dispatcher

-----------------------------------------------------------------------------
LEMMA NextKeepsIInv == IInv /\ [Next]_vars => IInv'
<1> SUFFICES ASSUME IInv, [Next]_vars PROVE IInv'
  OBVIOUS
<1>0. TypeOK
  BY DEF IInv
<1>1. CASE Whatsmeow
  BY <1>0, <1>1, WhatsmeowTypes, WhatsmeowSafe DEF IInv, Safe
<1>2. ASSUME NEW c \in Callers, Start(c) PROVE IInv'
  BY <1>0, <1>2, StartTypes, StartSafe DEF IInv, Safe
<1>3. ASSUME NEW c \in Callers, Unpairs(c) PROVE IInv'
  BY <1>0, <1>3, UnpairTypes, UnpairSafe DEF IInv, Safe
<1>4. CASE Main
  BY <1>0, <1>4, MainTypes, MainSafe DEF IInv, Safe
<1>5. CASE Dispatcher
  BY <1>0, <1>5, DispatcherTypes, DispatcherSafe DEF IInv, Safe
<1>6. CASE UNCHANGED vars
  BY <1>6
  DEF vars, IInv, TypeOK, LockInv, GenInv, FlowInv, PairsUnlinked, OneLiveFlow,
        ResetInv, QuietInv, Touched, Dialling, NoFlow, StartPcs, UnpairPcs,
        waVars, flowVars, dispVars, history
<1> QED
  BY <1>1, <1>2, <1>3, <1>4, <1>5, <1>6 DEF Next

(* The inductive invariant holds for any constants the assumption admits.  *)
THEOREM SpecIInv == Spec => []IInv
  BY InitIInv, NextKeepsIInv, PTL DEF Spec

(* Type correctness of the client, its flows and its goroutines.           *)
THEOREM SpecTypeOK == Spec => []TypeOK
<1>1. IInv => TypeOK
  BY DEF IInv
<1> QED BY <1>1, SpecIInv, PTL

(* However StartPairing and Unpair interleave, time out, fail or abandon a *)
(* flow, at most one flow is live and c.pairing names it.                  *)
THEOREM SpecOneLiveFlow == Spec => []OneLiveFlow
<1>1. IInv => OneLiveFlow
  BY DEF IInv
<1> QED BY <1>1, SpecIInv, PTL

(* A logout or replacement the dispatcher has dealt with is final until    *)
(* somebody asks for a connection, whatever retries are under way.         *)
THEOREM SpecStaysDown == Spec => []StaysDown
<1>1. IInv => StaysDown
  BY DEF IInv, QuietInv, StaysDown
<1> QED BY <1>1, SpecIInv, PTL

(* StartPairing never dials for a device that has become linked.           *)
THEOREM SpecPairsUnlinked == Spec => []PairsUnlinked
<1>1. IInv => PairsUnlinked
  BY DEF IInv
<1> QED BY <1>1, SpecIInv, PTL
===============================================================================
