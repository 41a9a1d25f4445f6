------------------------------- MODULE WaClient -------------------------------
(***************************************************************************)
(* internal/wa, the lifecycle of the WhatsApp client: main connects and    *)
(* closes it, tool calls start pairing flows and unpair, whatsmeow clients *)
(* come and go with their sockets and credentials, and the dispatcher      *)
(* handles their events one at a time from rawCh, some time after they     *)
(* happened.  A flow is here what PairSession promises of it: live, then   *)
(* possibly cancelled, then done.                                          *)
(*                                                                         *)
(* A step is what runs under c.mu, one atomic store to stopReconnect, or   *)
(* one call to whatsmeow.  adminMu is held across the steps of a call, so  *)
(* the whatsmeow client a call has read is the installed one throughout.   *)
(*                                                                         *)
(* whatsmeow is external.  It is taken at its weakest: a connection that   *)
(* ends for any reason may be retried for as long as the credentials       *)
(* exist, and AutoReconnectHook is only asked about an attempt that failed: *)
(* the next one comes some time after its answer, the first without it.    *)
(***************************************************************************)
EXTENDS Naturals, Sequences

CONSTANTS
    Callers,      \* tool calls: StartPairing and Unpair
    Nobody,       \* adminMu is free
    Gens,         \* bound: whatsmeow clients, one more per Unpair
    Flows,        \* bound: pairing flows
    QueueCap,     \* capacity of rawCh (64 in the code)
    MaxEnds       \* bound: connections that end at the server's side

ASSUME ClientAssumption ==
    /\ Nobody \notin Callers
    /\ Gens \subseteq Nat /\ 1 \in Gens
    /\ Flows \subseteq Nat \ {0}
    /\ QueueCap \in Nat \ {0}
    /\ MaxEnds \in Nat

VARIABLES
    \* whatsmeow clients
    up,            \* those with a socket
    loggedIn,      \* those the server has authenticated
    linked,        \* those whose device has an ID
    retrying,      \* those with an auto-reconnect loop that is going to dial
    asking,        \* those whose loop has failed to dial and will ask the hook
    wired,         \* those whose events reach rawCh
    ends,          \* number of connections ended so far
    \* Client
    cur,           \* c.wm, with c.device and c.container
    state,
    stopReconnect,
    rawCh,
    adminMu,
    pairing,       \* c.pairing, 0 when nil
    flow,          \* where each flow's goroutine is
    on,            \* the whatsmeow client of each flow
    \* goroutines
    pc,            \* the tool calls
    mpc,           \* main
    dpc,           \* the dispatcher
    verdict,       \* the state it is about to set
    quiet,         \* history: the dispatcher has met a logout or replacement,
                   \* and nobody has asked for a connection since
    late           \* history: the flag it raised for that came too late for
                   \* somebody who was already going to dial

waVars == <<up, loggedIn, linked, retrying, asking, wired, ends>>
flowVars == <<pairing, flow, on>>
dispVars == <<dpc, verdict>>
history == <<quiet, late>>
vars == <<waVars, cur, state, stopReconnect, rawCh, adminMu, flowVars, pc, mpc,
          dispVars, history>>

Ended == {"logged_out", "stream_replaced"}
States == {"not_paired", "connecting", "connected", "disconnected"} \cup Ended
Events == {"connected", "disconnected"} \cup Ended

StartPcs == {"clear", "connecting", "dial", "install"}
UnpairPcs == {"wait", "logout", "stop", "unwire", "reopen", "reset", "settle"}

TypeOK ==
    /\ up \subseteq Gens /\ loggedIn \subseteq Gens /\ linked \subseteq Gens
    /\ retrying \subseteq Gens /\ asking \subseteq Gens /\ wired \subseteq Gens
    /\ ends \in 0..MaxEnds
    /\ cur \in Gens
    /\ state \in States
    /\ stopReconnect \in BOOLEAN
    /\ rawCh \in Seq(Events) /\ Len(rawCh) <= QueueCap
    /\ adminMu \in Callers \cup {Nobody}
    /\ pairing \in Flows \cup {0}
    /\ flow \in [Flows -> {"new", "live", "cancelled", "done"}]
    /\ on \in [Flows -> Gens]
    /\ pc \in [Callers -> {"idle"} \cup StartPcs \cup UnpairPcs]
    /\ mpc \in {"boot", "dial", "run", "closing", "quit", "closed"}
    /\ dpc \in {"idle", "drop", "settle", "gone"}
    /\ verdict \in States
    /\ quiet \in BOOLEAN /\ late \in BOOLEAN

(* Open with DeferConnect, as the server calls it.                         *)
Init ==
    /\ up = {} /\ loggedIn = {} /\ wired = {1} /\ ends = 0
    /\ retrying = {} /\ asking = {}
    /\ linked \in {{}, {1}}
    /\ cur = 1
    /\ state = IF linked = {} THEN "not_paired" ELSE "disconnected"
    /\ stopReconnect = FALSE
    /\ rawCh = <<>>
    /\ adminMu = Nobody
    /\ pairing = 0
    /\ flow = [f \in Flows |-> "new"]
    /\ on = [f \in Flows |-> 1]
    /\ pc = [c \in Callers |-> "idle"]
    /\ mpc = "boot"
    /\ dpc = "idle" /\ verdict = "not_paired"
    /\ quiet = FALSE /\ late = FALSE

-----------------------------------------------------------------------------
(* whatsmeow.                                                              *)

(* Mutant of Emit: the handler does not wait for room in rawCh.            *)
EmitUnbounded(g, e) ==
    IF g \in wired THEN rawCh' = Append(rawCh, e) ELSE UNCHANGED rawCh

(* The event handler openWhatsmeow registers.  A full rawCh holds          *)
(* whatsmeow's goroutine back, until Close closes c.quit.                  *)
Emit(g, e) ==
    \/ g \in wired /\ Len(rawCh) < QueueCap /\ rawCh' = Append(rawCh, e)
    \/ (g \in wired => mpc \in {"quit", "closed"}) /\ UNCHANGED rawCh

HangUp(g) == up' = up \ {g} /\ loggedIn' = loggedIn \ {g}

Login(g) ==
    /\ g \in (up \cap linked) \ loggedIn
    /\ loggedIn' = loggedIn \cup {g}
    /\ Emit(g, "connected")
    /\ UNCHANGED <<up, linked, retrying, asking, wired, ends, cur, state,
                   stopReconnect, adminMu, flowVars, pc, mpc, dispVars,
                   history>>

(* A connection ends: it is lost, the device is unlinked on the phone      *)
(* (whatsmeow deletes the credentials), or another process takes it over.  *)
(* A loop may start, and makes its first attempt without asking.           *)
Ends(g, e) ==
    /\ ends < MaxEnds
    /\ ends' = ends + 1
    /\ g \in up
    /\ e # "disconnected" => g \in linked
    /\ HangUp(g)
    /\ \/ g \in linked /\ retrying' = retrying \cup {g}
       \/ (g \in linked => e # "disconnected") /\ UNCHANGED retrying
    /\ linked' = IF e = "logged_out" THEN linked \ {g} ELSE linked
    /\ Emit(g, e)
    /\ late' = (late \/ (quiet /\ g = cur))
    /\ UNCHANGED <<asking, wired, cur, state, stopReconnect, adminMu, flowVars,
                   pc, mpc, dispVars, quiet>>

(* The delay is over and the loop dials: it succeeds, or fails.            *)
AutoReconnect(g) ==
    /\ g \in retrying
    /\ retrying' = retrying \ {g}
    /\ \/ g \in linked /\ up' = up \cup {g} /\ UNCHANGED asking
       \/ asking' = asking \cup {g} /\ UNCHANGED up
    /\ UNCHANGED <<loggedIn, linked, wired, ends, cur, state, stopReconnect,
                   rawCh, adminMu, flowVars, pc, mpc, dispVars, history>>

(* AutoReconnectHook, given the error of a failed attempt: the loop waits  *)
(* and dials again, or ends.                                               *)
AutoReconnectHook(g) ==
    /\ g \in asking
    /\ asking' = asking \ {g}
    /\ retrying' = IF stopReconnect THEN retrying ELSE retrying \cup {g}
    /\ UNCHANGED <<up, loggedIn, linked, wired, ends, cur, state,
                   stopReconnect, rawCh, adminMu, flowVars, pc, mpc, dispVars,
                   history>>

(* The user scans a code of a flow: the device gets its ID.                *)
Scan(f) ==
    /\ flow[f] \in {"live", "cancelled"}
    /\ on[f] \in up
    /\ linked' = linked \cup {on[f]}
    /\ UNCHANGED <<up, loggedIn, retrying, asking, wired, ends, cur, state,
                   stopReconnect, rawCh, adminMu, flowVars, pc, mpc, dispVars,
                   history>>

(* A flow's goroutine exits: on a terminal event, or because it was        *)
(* cancelled.  When nothing was scanned whatsmeow may hang up, as it does  *)
(* when the codes run out or the context ends.                             *)
FlowEnds(f) ==
    /\ flow[f] \in {"live", "cancelled"}
    /\ flow' = [flow EXCEPT ![f] = "done"]
    /\ \/ UNCHANGED <<up, loggedIn>>
       \/ on[f] \notin linked /\ HangUp(on[f])
    /\ UNCHANGED <<linked, retrying, asking, wired, ends, cur, state,
                   stopReconnect, rawCh, adminMu, pairing, on, pc, mpc,
                   dispVars, history>>

-----------------------------------------------------------------------------
(* main: Connect once everything is wired, Close at the end.               *)

Connect ==
    /\ mpc = "boot"
    /\ IF cur \in linked
       THEN /\ stopReconnect' = FALSE
            /\ state' = "connecting"
            /\ quiet' = FALSE /\ late' = FALSE
            /\ mpc' = "dial"
       ELSE /\ mpc' = "run"
            /\ UNCHANGED <<state, stopReconnect, history>>
    /\ UNCHANGED <<waVars, cur, rawCh, adminMu, flowVars, pc, dispVars>>

(* wm.Connect; after a failure auto-reconnect goes on.                     *)
ConnectDial ==
    /\ mpc = "dial"
    /\ mpc' = "run"
    /\ \/ up' = up \cup {cur} /\ UNCHANGED retrying
       \/ retrying' = retrying \cup {cur} /\ UNCHANGED up
    /\ UNCHANGED <<loggedIn, linked, asking, wired, ends, cur, state,
                   stopReconnect, rawCh, adminMu, flowVars, pc, dispVars,
                   history>>

(* Close.  A tool call that outlived the server's drain may still run.     *)
CloseBegin ==
    /\ mpc = "run"
    /\ mpc' = "closing"
    /\ stopReconnect' = TRUE
    /\ UNCHANGED <<waVars, cur, state, rawCh, adminMu, flowVars, pc, dispVars,
                   history>>

(* wm.Disconnect and close(c.quit).                                        *)
CloseDisconnect ==
    /\ mpc = "closing"
    /\ mpc' = "quit"
    /\ HangUp(cur)
    /\ UNCHANGED <<linked, retrying, asking, wired, ends, cur, state,
                   stopReconnect, rawCh, adminMu, flowVars, pc, dispVars,
                   history>>

(* <-c.done, then the sqlstore and the data-dir lock go.                   *)
CloseEnd ==
    /\ mpc = "quit"
    /\ dpc = "gone"
    /\ mpc' = "closed"
    /\ UNCHANGED <<waVars, cur, state, stopReconnect, rawCh, adminMu, flowVars,
                   pc, dispVars, history>>

-----------------------------------------------------------------------------
(* StartPairing.                                                           *)

Goto(c, l) == pc' = [pc EXCEPT ![c] = l]

(* The deferred adminMu.Unlock.                                            *)
Return(c) == Goto(c, "idle") /\ adminMu' = Nobody

NoFlow == pairing # 0 => flow[pairing] = "done"

(* Mutant of Pairable: the ErrAlreadyPaired check is missing and           *)
(* GetQRChannel looks at the socket alone.                                 *)
PairableLinked == cur \notin up

(* Neither ErrAlreadyPaired nor an error of GetQRChannel.                  *)
Pairable == cur \notin linked /\ cur \notin up

(* A call that is refused changes nothing.                                 *)
StartPairing(c) ==
    /\ mpc = "run"
    /\ pc[c] = "idle" /\ adminMu = Nobody
    /\ NoFlow
    /\ Pairable
    /\ \E f \in Flows : flow[f] = "new"
    /\ adminMu' = c
    /\ Goto(c, "clear")
    /\ UNCHANGED <<waVars, cur, state, stopReconnect, rawCh, flowVars, mpc,
                   dispVars, history>>

StartClear(c) ==
    /\ pc[c] = "clear"
    /\ stopReconnect' = FALSE
    /\ quiet' = FALSE /\ late' = FALSE
    /\ Goto(c, "connecting")
    /\ UNCHANGED <<waVars, cur, state, rawCh, adminMu, flowVars, mpc,
                   dispVars>>

StartConnecting(c) ==
    /\ pc[c] = "connecting"
    /\ state' = "connecting"
    /\ Goto(c, "dial")
    /\ UNCHANGED <<waVars, cur, stopReconnect, rawCh, adminMu, flowVars, mpc,
                   dispVars, history>>

StartDial(c) ==
    /\ pc[c] = "dial"
    /\ up' = up \cup {cur}
    /\ Goto(c, "install")
    /\ UNCHANGED <<loggedIn, linked, retrying, asking, wired, ends, cur, state,
                   stopReconnect, rawCh, adminMu, flowVars, mpc, dispVars,
                   history>>

StartDialFails(c) ==
    /\ pc[c] = "dial"
    /\ Return(c)
    /\ UNCHANGED <<waVars, cur, state, stopReconnect, rawCh, flowVars, mpc,
                   dispVars, history>>

(* The session is installed and its goroutine starts.                      *)
StartInstall(c) ==
    /\ pc[c] = "install"
    /\ \E f \in Flows :
          /\ flow[f] = "new" /\ \A h \in Flows : flow[h] = "new" => f <= h
          /\ flow' = [flow EXCEPT ![f] = "live"]
          /\ on' = [on EXCEPT ![f] = cur]
          /\ pairing' = f
    /\ Return(c)
    /\ UNCHANGED <<waVars, cur, state, stopReconnect, rawCh, mpc, dispVars,
                   history>>

-----------------------------------------------------------------------------
(* Unpair.                                                                 *)

(* Mutant of Cancelled: c.pairing.cancel is not called.                    *)
CancelledNot == flow

Cancelled ==
    [f \in Flows |-> IF f = pairing /\ flow[f] = "live" THEN "cancelled" ELSE flow[f]]

Unpair(c) ==
    /\ mpc = "run"
    /\ pc[c] = "idle" /\ adminMu = Nobody
    /\ adminMu' = c
    /\ flow' = Cancelled
    /\ Goto(c, IF pairing = 0 THEN "logout" ELSE "wait")
    /\ UNCHANGED <<waVars, cur, state, stopReconnect, rawCh, pairing, on, mpc,
                   dispVars, history>>

(* The flow is done, or two seconds are over.                              *)
UnpairWaited(c) ==
    /\ pc[c] = "wait"
    /\ pairing' = 0
    /\ Goto(c, "logout")
    /\ UNCHANGED <<waVars, cur, state, stopReconnect, rawCh, adminMu, flow, on,
                   mpc, dispVars, history>>

(* The caller's context ends first.                                        *)
UnpairGivesUp(c) ==
    /\ pc[c] = "wait"
    /\ Return(c)
    /\ UNCHANGED <<waVars, cur, state, stopReconnect, rawCh, flowVars, mpc,
                   dispVars, history>>

(* A logout at the server deletes the device; it may fail.                 *)
UnpairLogout(c) ==
    /\ pc[c] = "logout"
    /\ Goto(c, "stop")
    /\ \/ /\ cur \in loggedIn \cap linked
          /\ linked' = linked \ {cur}
          /\ HangUp(cur)
       \/ UNCHANGED <<up, loggedIn, linked>>
    /\ UNCHANGED <<retrying, asking, wired, ends, cur, state, stopReconnect,
                   rawCh, adminMu, flowVars, mpc, dispVars, history>>

UnpairStop(c) ==
    /\ pc[c] = "stop"
    /\ stopReconnect' = TRUE
    /\ Goto(c, "unwire")
    /\ UNCHANGED <<waVars, cur, state, rawCh, adminMu, flowVars, mpc, dispVars,
                   history>>

(* RemoveEventHandler, Disconnect, container.Close.                        *)
UnpairUnwire(c) ==
    /\ pc[c] = "unwire"
    /\ wired' = wired \ {cur}
    /\ HangUp(cur)
    /\ Goto(c, "reopen")
    /\ UNCHANGED <<linked, retrying, asking, ends, cur, state, stopReconnect,
                   rawCh, adminMu, flowVars, mpc, dispVars, history>>

(* session.db is removed and a client on an empty device takes its place.  *)
UnpairReopen(c) ==
    /\ pc[c] = "reopen"
    /\ cur + 1 \in Gens
    /\ cur' = cur + 1
    /\ wired' = wired \cup {cur + 1}
    /\ late' = FALSE
    /\ Goto(c, "reset")
    /\ UNCHANGED <<up, loggedIn, linked, retrying, asking, ends, state,
                   stopReconnect, rawCh, adminMu, flowVars, mpc, dispVars,
                   quiet>>

(* Removing or reopening fails: the old client stays installed.            *)
UnpairFails(c) ==
    /\ pc[c] = "reopen"
    /\ Return(c)
    /\ UNCHANGED <<waVars, cur, state, stopReconnect, rawCh, flowVars, mpc,
                   dispVars, history>>

UnpairReset(c) ==
    /\ pc[c] = "reset"
    /\ stopReconnect' = FALSE
    /\ Goto(c, "settle")
    /\ UNCHANGED <<waVars, cur, state, rawCh, adminMu, flowVars, mpc, dispVars,
                   history>>

UnpairSettle(c) ==
    /\ pc[c] = "settle"
    /\ state' = "not_paired"
    /\ Return(c)
    /\ UNCHANGED <<waVars, cur, stopReconnect, rawCh, flowVars, mpc, dispVars,
                   history>>

-----------------------------------------------------------------------------
(* The dispatcher.                                                         *)

(* Connected and Disconnected; a lost connection does not hide the verdict *)
(* of a logout or a replacement.                                           *)
HandleTransport ==
    /\ dpc = "idle"
    /\ rawCh # <<>>
    /\ Head(rawCh) \notin Ended
    /\ rawCh' = Tail(rawCh)
    /\ state' = IF Head(rawCh) = "disconnected" /\ state \in Ended
                THEN state ELSE Head(rawCh)
    /\ UNCHANGED <<waVars, cur, stopReconnect, adminMu, flowVars, pc, mpc,
                   dispVars, history>>

(* Somebody is past the last look at stopReconnect before a dial.          *)
Dialling ==
    \/ cur \in retrying
    \/ mpc = "dial"
    \/ \E c \in Callers : pc[c] \in {"connecting", "dial"}

(* Mutant of HandleEnd: the flag is not raised, Disconnect alone is to do. *)
HandleEndNoFlag ==
    /\ dpc = "idle"
    /\ rawCh # <<>>
    /\ Head(rawCh) \in Ended
    /\ rawCh' = Tail(rawCh)
    /\ verdict' = Head(rawCh)
    /\ quiet' = TRUE /\ late' = Dialling
    /\ dpc' = "drop"
    /\ UNCHANGED <<waVars, cur, state, stopReconnect, adminMu, flowVars, pc,
                   mpc>>

(* LoggedOut and StreamReplaced: raise the flag ...                        *)
HandleEnd ==
    /\ dpc = "idle"
    /\ rawCh # <<>>
    /\ Head(rawCh) \in Ended
    /\ rawCh' = Tail(rawCh)
    /\ stopReconnect' = TRUE
    /\ verdict' = Head(rawCh)
    /\ quiet' = TRUE /\ late' = Dialling
    /\ dpc' = "drop"
    /\ UNCHANGED <<waVars, cur, state, adminMu, flowVars, pc, mpc>>

(* ... then disconnect whatever client is installed ...                    *)
HandleDrop ==
    /\ dpc = "drop"
    /\ HangUp(cur)
    /\ dpc' = "settle"
    /\ UNCHANGED <<linked, retrying, asking, wired, ends, cur, state,
                   stopReconnect, rawCh, adminMu, flowVars, pc, mpc, verdict,
                   history>>

(* ... then set the state.                                                 *)
HandleSettle ==
    /\ dpc = "settle"
    /\ state' = verdict
    /\ verdict' = "not_paired"
    /\ dpc' = "idle"
    /\ UNCHANGED <<waVars, cur, stopReconnect, rawCh, adminMu, flowVars, pc,
                   mpc, history>>

(* The select picks quit; events still queued are dropped.                 *)
DispatchQuit ==
    /\ dpc = "idle"
    /\ mpc = "quit"
    /\ dpc' = "gone"
    /\ UNCHANGED <<waVars, cur, state, stopReconnect, rawCh, adminMu, flowVars,
                   pc, mpc, verdict, history>>

-----------------------------------------------------------------------------
Whatsmeow ==
    \/ \E g \in Gens : Login(g) \/ AutoReconnect(g) \/ AutoReconnectHook(g)
    \/ \E g \in Gens, e \in {"disconnected"} \cup Ended : Ends(g, e)
    \/ \E f \in Flows : Scan(f) \/ FlowEnds(f)

Start(c) ==
    \/ StartPairing(c) \/ StartClear(c) \/ StartConnecting(c)
    \/ StartDial(c) \/ StartDialFails(c) \/ StartInstall(c)

Unpairs(c) ==
    \/ Unpair(c) \/ UnpairWaited(c) \/ UnpairGivesUp(c) \/ UnpairLogout(c)
    \/ UnpairStop(c) \/ UnpairUnwire(c) \/ UnpairReopen(c) \/ UnpairFails(c)
    \/ UnpairReset(c) \/ UnpairSettle(c)

Main == Connect \/ ConnectDial \/ CloseBegin \/ CloseDisconnect \/ CloseEnd

Dispatcher == HandleTransport \/ HandleEnd \/ HandleDrop \/ HandleSettle \/ DispatchQuit

Next ==
    \/ Whatsmeow
    \/ \E c \in Callers : Start(c) \/ Unpairs(c)
    \/ Main
    \/ Dispatcher

Spec == Init /\ [][Next]_vars

-----------------------------------------------------------------------------
(* At most one flow is live, and it is the one c.pairing names, whatever   *)
(* Unpair abandons and however calls interleave: pairing_complete never    *)
(* polls a flow while another one shows codes.                             *)
OneLiveFlow == \A f \in Flows : flow[f] = "live" => f = pairing

(* Once the dispatcher has raised the flag for a logout or a replacement   *)
(* and closed the socket, the installed client comes up again only when    *)
(* somebody asks for a connection, or by a dial for which the flag came    *)
(* too late: that of a loop or a call that had looked at it before, or the *)
(* retry of a connection lost before Disconnect closed it.  No loop that   *)
(* asks the hook later dials, although Unpair lowers the flag meanwhile.   *)
StaysDown == quiet /\ ~late /\ dpc # "drop" => cur \notin up

(* "the process MUST NOT silently try to recover" (REQUIREMENTS.md):       *)
(* whatever was under way, the client stays down until somebody asks.      *)
NeverRecovers == quiet /\ dpc # "drop" => cur \notin up

(* From the checks of StartPairing to its dial the device stays unlinked   *)
(* and the socket down, although c.mu is released in between and           *)
(* auto-reconnect runs: a linked device is never paired over.              *)
PairsUnlinked ==
    \A c \in Callers :
        pc[c] \in {"clear", "connecting", "dial"} => cur \notin linked \cup up

(* "teardown is owned by wa.Client (terminal event or Unpair)": handling a *)
(* logout or replacement does not hang up on a flow that is waiting for    *)
(* its code to be scanned.                                                 *)
FlowKeepsSocket ==
    dpc = "drop" /\ cur \in up \ linked
        => \A f \in Flows : flow[f] = "live" => on[f] # cur
===============================================================================
