----------------------------- MODULE CacheSync -----------------------------
(***************************************************************************)
(* cache_sync: the orchestrator of internal/cache/sync.go, which           *)
(* reconciles the chats table with WhatsApp's own lists in a goroutine     *)
(* while the dispatcher goes on ingesting events into the same table, and  *)
(* the clients that start it, poll cache_sync_status and then read.        *)
(*                                                                         *)
(* WhatsApp is external: it holds each chat's title (a number that grows   *)
(* with each renaming), the chats marked unread on the phone and, per      *)
(* app-state patch, the changes this device has not fetched.  A title is   *)
(* sent as an event; a mark becomes one once its patch is fetched.         *)
(***************************************************************************)
EXTENDS Naturals, Sequences, FiniteSets

CONSTANTS
    Groups, Newsletters, \* chats the account is in, or may join
    Memberships,  \* what it may be in at the start
    Clients,      \* MCP clients that call cache_sync
    Patches,      \* app-state patches a run fetches, in order: 1..Patches
    UnreadPatch,  \* the one that tells which chats are marked unread
    Capacity,     \* room of rawCh
    MaxTitle,     \* bound: titles of a chat
    MaxChanges,   \* bound: changes on WhatsApp's side
    MaxSyncs,     \* bound: runs started
    MaxTrouble    \* bound: lost links, failed calls and statements, crashes

ASSUME CacheSyncAssumption ==
    /\ Groups \cap Newsletters = {} /\ IsFiniteSet(Groups) /\ IsFiniteSet(Newsletters)
    /\ Memberships \subseteq SUBSET (Groups \cup Newsletters)
    /\ Patches \in Nat /\ UnreadPatch \in 1..Patches
    /\ Capacity \in Nat \ {0} /\ MaxTitle \in Nat \ {0} /\ MaxChanges \in Nat
    /\ MaxSyncs \in Nat /\ MaxTrouble \in Nat

Chats == Groups \cup Newsletters
Syncs == 1..MaxSyncs
Stages == 1..3                       \* groups, newsletters, app_state

VARIABLES
    link,         \* IsLoggedIn
    joined,       \* WhatsApp: the chats the account is in
    title,        \* WhatsApp: the title of each chat
    unread,       \* WhatsApp: the chats marked unread
    changes,      \* how many it made so far
    pending,      \* WhatsApp: what each patch holds and was not fetched
    raw,          \* events the dispatcher has not taken, the first Capacity in rawCh
    rows,         \* the chats table; title 0 is the empty name
    counted,      \* AppStateCounts
    current,      \* o.current, with o.running
    run,          \* the goroutine of each run
    call,         \* what each client knows of the run it was given
    trouble       \* what went wrong so far

server == <<joined, title, unread, changes, pending>>
vars == <<link, server, raw, rows, counted, current, run, call, trouble>>

NoRow == [known |-> FALSE, title |-> 0, unread |-> FALSE]
Pending == [status |-> "pending", items |-> 0]
NoReport == [id |-> 0, status |-> "idle", running |-> FALSE,
             stages |-> [k \in Stages |-> Pending]]
NoCall == [at |-> "idle", id |-> 0, started |-> FALSE, quiet |-> FALSE,
           asked |-> [chats |-> {}, title |-> [c \in Chats |-> 0], unread |-> {}],
           report |-> NoReport]
NoRun == [at |-> "none", stage |-> 1, todo |-> {}, items |-> 0, err |-> FALSE,
          patch |-> 1, got |-> <<>>, failed |-> 0, before |-> 0]

Of(k) == IF k = 1 THEN Groups ELSE Newsletters
Changed == changes < MaxChanges /\ changes' = changes + 1
Troubled == trouble < MaxTrouble /\ trouble' = trouble + 1

-----------------------------------------------------------------------------
(* The chats table.                                                        *)

(* Mutant of Upserted: INSERT OR IGNORE.                                   *)
UpsertedOnce(row, name) == IF row.known THEN row ELSE [NoRow EXCEPT !.known = TRUE, !.title = name]

(* UpsertChat: an empty name keeps the stored one; unread_count (archived  *)
(* and pinned likewise) is overwritten, and no caller here sets it.        *)
Upserted(row, name) ==
    [known |-> TRUE, title |-> IF name = 0 THEN row.title ELSE name, unread |-> FALSE]

(* SetChatUnread                                                           *)
MarkedUnread(row) == [row EXCEPT !.known = TRUE, !.unread = TRUE]

(* The dispatcher takes one event: handleGroupInfo, handleJoinedGroup and  *)
(* handleNewsletterJoin upsert the chat, handleMarkChatAsRead marks it.    *)
Ingest ==
    /\ raw # <<>>
    /\ raw' = Tail(raw)
    /\ LET e == Head(raw) IN
       IF e.kind = "unread"
       THEN /\ rows' = [rows EXCEPT ![e.chat] = MarkedUnread(@)]
            /\ counted' = counted + 1
       ELSE /\ rows' = [rows EXCEPT ![e.chat] = Upserted(@, e.title)]
            /\ UNCHANGED counted
    /\ UNCHANGED <<link, server, current, run, call, trouble>>

-----------------------------------------------------------------------------
(* Start and the run.                                                      *)

(* Mutant of Running: a run whose last stage is done is over.              *)
RunningStages == current.running /\ current.stages[3].status \notin {"done", "failed"}

(* o.running                                                               *)
Running == current.running

Fresh(id) == [NoReport EXCEPT !.id = id, !.status = "running", !.running = TRUE]

(* cacheSyncHandler, with Start: a client that is not logged in, a linked  *)
(* one whose socket is down included, is answered not_paired; while a run  *)
(* is under way the caller is given that one.  Its answer does not say     *)
(* which; `started` is history, as are what WhatsApp held when asked and   *)
(* whether it has been quiet.                                              *)
Start(c) ==
    /\ IF ~link
       THEN /\ call' = [call EXCEPT ![c] = [NoCall EXCEPT !.at = "not_paired"]]
            /\ UNCHANGED <<current, run>>
       ELSE /\ IF Running
               THEN UNCHANGED <<current, run>>
               ELSE \E s \in {n \in Syncs : run[n].at = "none" /\ \A m \in 1..(n - 1) : run[m].at # "none"} :
                        /\ current' = Fresh(s)
                        /\ run' = [run EXCEPT ![s] = [NoRun EXCEPT !.at = "begin"]]
            /\ call' = [call EXCEPT ![c] =
                   [at |-> "polling", id |-> current'.id, started |-> ~Running,
                    quiet |-> raw = <<>>, report |-> NoReport,
                    asked |-> [chats |-> joined, title |-> title, unread |-> unread]]]
    /\ UNCHANGED <<link, server, raw, rows, counted, trouble>>

(* cacheSyncStatus: the client sees its own run finished, or that another  *)
(* run or a restarted process took its place.                              *)
Poll(c) ==
    /\ call[c].at = "polling"
    /\ \/ current.id = call[c].id /\ current.status \in {"done", "failed"}
          /\ call' = [call EXCEPT ![c].at = "finished", ![c].report = current]
       \/ current.id # call[c].id
          /\ call' = [call EXCEPT ![c] = [NoCall EXCEPT !.at = "lost"]]
    /\ UNCHANGED <<link, server, raw, rows, counted, current, run, trouble>>

Env == UNCHANGED <<link, server, call>>

(* runStage, before the worker; runAppState reads the counters first.      *)
BeginStage(s) ==
    /\ run[s].at = "begin"
    /\ current' = [current EXCEPT !.stages[run[s].stage].status = "running"]
    /\ run' = IF run[s].stage = 3
              THEN [run EXCEPT ![s].at = "fetch", ![s].before = counted]
              ELSE [run EXCEPT ![s].at = "list"]
    /\ Env /\ UNCHANGED <<raw, rows, counted, trouble>>

(* GetJoinedGroups, GetSubscribedNewsletters                               *)
List(s) ==
    /\ run[s].at = "list"
    /\ \/ /\ link
          /\ run' = [run EXCEPT ![s].at = "upsert",
                     ![s].todo = {[chat |-> c, title |-> title[c]] : c \in joined \cap Of(run[s].stage)}]
          /\ UNCHANGED trouble
       \/ /\ IF link THEN Troubled ELSE UNCHANGED trouble
          /\ run' = [run EXCEPT ![s].at = "end", ![s].err = TRUE]
    /\ Env /\ UNCHANGED <<raw, rows, counted, current>>

(* The loop of runGroups and of runNewsletters: a statement that fails is  *)
(* logged and its chat skipped.                                            *)
UpsertListed(s) ==
    /\ run[s].at = "upsert"
    /\ \/ \E g \in run[s].todo :
            \/ /\ rows' = [rows EXCEPT ![g.chat] = Upserted(@, g.title)]
               /\ run' = [run EXCEPT ![s].todo = @ \ {g}, ![s].items = @ + 1]
               /\ UNCHANGED trouble
            \/ /\ run' = [run EXCEPT ![s].todo = @ \ {g}]
               /\ Troubled /\ UNCHANGED rows
       \/ /\ run[s].todo = {}
          /\ run' = [run EXCEPT ![s].at = "end"]
          /\ UNCHANGED <<rows, trouble>>
    /\ Env /\ UNCHANGED <<raw, counted, current>>

(* The next patch, or the end of the stage: it failed if every patch did.  *)
NextPatch(s, items, failed) ==
    IF run[s].patch = Patches
    THEN run' = [run EXCEPT ![s].at = "end", ![s].items = items, ![s].failed = failed,
                            ![s].err = failed = Patches]
    ELSE run' = [run EXCEPT ![s].at = "fetch", ![s].patch = @ + 1, ![s].items = items, ![s].failed = failed,
                            ![s].before = counted]

(* FetchAppState takes the changes of a patch, all at once ...             *)
FetchPatch(s) ==
    /\ run[s].at = "fetch"
    /\ LET p == run[s].patch IN
       \/ /\ link
          /\ pending' = [pending EXCEPT ![p] = <<>>]
          /\ run' = [run EXCEPT ![s].at = "hand", ![s].got = pending[p]]
          /\ UNCHANGED trouble
       \/ /\ IF link THEN Troubled ELSE UNCHANGED trouble
          /\ NextPatch(s, run[s].items, run[s].failed + 1)
          /\ UNCHANGED pending
    /\ UNCHANGED <<link, joined, title, unread, changes, call, raw, rows, counted, current>>

(* ... and hands them to the event handler, which waits for room in rawCh; *)
(* then the counters are read again: what the dispatcher has not taken yet *)
(* is not counted.                                                         *)
HandOver(s) ==
    /\ run[s].at = "hand"
    /\ \/ /\ run[s].got # <<>> /\ Len(raw) < Capacity
          /\ raw' = Append(raw, Head(run[s].got))
          /\ run' = [run EXCEPT ![s].got = Tail(@)]
       \/ /\ run[s].got = <<>>
          /\ NextPatch(s, run[s].items + (counted - run[s].before), run[s].failed)
          /\ UNCHANGED raw
    /\ Env /\ UNCHANGED <<rows, counted, current, trouble>>

(* runStage, after the worker, and then run's last section.                *)
EndStage(s) ==
    /\ run[s].at = "end"
    /\ current' = [current EXCEPT !.stages[run[s].stage] =
           [status |-> IF run[s].err THEN "failed" ELSE "done", items |-> run[s].items]]
    /\ run' = IF run[s].stage = 3
              THEN [run EXCEPT ![s] = [NoRun EXCEPT !.at = "finish", !.stage = 3]]
              ELSE [run EXCEPT ![s] = [NoRun EXCEPT !.at = "begin", !.stage = run[s].stage + 1]]
    /\ Env /\ UNCHANGED <<raw, rows, counted, trouble>>

(* Mutant of Finish: a run with a failed stage returns early.              *)
FinishDoneOnly(s) ==
    /\ run[s].at = "finish"
    /\ IF \E k \in Stages : current.stages[k].status = "failed"
       THEN current' = [current EXCEPT !.status = "failed"]
       ELSE current' = [current EXCEPT !.running = FALSE, !.status = "done"]
    /\ run' = [run EXCEPT ![s] = [NoRun EXCEPT !.at = "ended"]]
    /\ Env /\ UNCHANGED <<raw, rows, counted, trouble>>

Finish(s) ==
    /\ run[s].at = "finish"
    /\ current' = [current EXCEPT !.running = FALSE,
           !.status = IF \E k \in Stages : current.stages[k].status = "failed"
                      THEN "failed" ELSE "done"]
    /\ run' = [run EXCEPT ![s] = [NoRun EXCEPT !.at = "ended"]]
    /\ Env /\ UNCHANGED <<raw, rows, counted, trouble>>

RunStep(s) ==
    \/ BeginStage(s) \/ List(s) \/ UpsertListed(s) \/ FetchPatch(s) \/ HandOver(s)
    \/ EndStage(s) \/ Finish(s)

-----------------------------------------------------------------------------
(* WhatsApp, the phone and the process: external.                          *)

Noisy(calls) == [c \in Clients |-> [calls[c] EXCEPT !.quiet = FALSE]]

(* A chat joined, or a group renamed: an event, which waits its turn on    *)
(* the way if rawCh is full.  No event tells of a newsletter renamed.      *)
Rename(c) ==
    /\ Changed /\ title[c] < MaxTitle
    /\ title' = [title EXCEPT ![c] = @ + 1]
    /\ joined' = joined \cup {c}
    /\ raw' = IF c \in joined \cap Newsletters THEN raw
              ELSE Append(raw, [kind |-> "title", chat |-> c, title |-> title'[c]])
    /\ call' = Noisy(call)
    /\ UNCHANGED <<link, unread, pending, rows, counted, current, run, trouble>>

(* A chat marked unread on the phone.                                      *)
MarkUnread(c) ==
    /\ Changed /\ c \in joined \ unread
    /\ unread' = unread \cup {c}
    /\ pending' = [pending EXCEPT ![UnreadPatch] = Append(@, [kind |-> "unread", chat |-> c])]
    /\ call' = Noisy(call)
    /\ UNCHANGED <<link, joined, title, raw, rows, counted, current, run, trouble>>

(* whatsmeow fetches a patch by itself when told of a change.              *)
Notified(p) ==
    /\ link /\ pending[p] # <<>> /\ Len(raw) < Capacity
    /\ pending' = [pending EXCEPT ![p] = Tail(@)]
    /\ raw' = Append(raw, Head(pending[p]))
    /\ UNCHANGED <<link, joined, title, unread, changes, rows, counted, current, run, call, trouble>>

Disconnect == link /\ link' = FALSE /\ Troubled
              /\ UNCHANGED <<server, raw, rows, counted, current, run, call>>
Reconnect == ~link /\ link' = TRUE
             /\ UNCHANGED <<server, raw, rows, counted, current, run, call, trouble>>

(* The process dies and is started again: only the table is left.          *)
Crash ==
    /\ Troubled
    /\ link' = TRUE /\ raw' = <<>> /\ counted' = 0 /\ current' = NoReport
    /\ run' = [s \in Syncs |-> IF run[s].at = "none" THEN NoRun ELSE [NoRun EXCEPT !.at = "ended"]]
    /\ UNCHANGED <<server, rows, call>>

Init ==
    /\ link = TRUE
    /\ joined \in Memberships
    /\ title = [c \in Chats |-> IF c \in joined THEN 1 ELSE 0]
    /\ unread = {} /\ changes = 0 /\ pending = [p \in 1..Patches |-> <<>>]
    /\ raw = <<>> /\ rows = [c \in Chats |-> NoRow] /\ counted = 0
    /\ current = NoReport /\ run = [s \in Syncs |-> NoRun]
    /\ call = [c \in Clients |-> NoCall] /\ trouble = 0

Next ==
    \/ \E c \in Clients : Start(c) \/ Poll(c)
    \/ \E s \in Syncs : RunStep(s)
    \/ Ingest \/ Disconnect \/ Reconnect \/ Crash
    \/ \E c \in Chats : Rename(c) \/ MarkUnread(c)
    \/ \E p \in 1..Patches : Notified(p)

(* Each goroutine is scheduled, and each call to WhatsApp and each         *)
(* statement returns, with an answer or an error.  A client need not poll. *)
Fairness == WF_vars(Ingest) /\ \A s \in Syncs : WF_vars(RunStep(s))

Spec == Init /\ [][Next]_vars /\ Fairness

-----------------------------------------------------------------------------
(* Properties.                                                             *)

Statuses == {"pending", "running", "done", "failed"}

StageReports == [status : Statuses, items : Nat]

RowType == [known : BOOLEAN, title : 0..MaxTitle, unread : BOOLEAN]

(* Types; the running flag and the status agree, a run that has not ended  *)
(* is the one o.current reports, at most one has not ended, and the status *)
(* of each stage is where that goroutine is (sync.go:81-84, "one-at-a-time *)
(* reconciliation ... a single mutex").                                    *)
TypeOK ==
    /\ link \in BOOLEAN /\ joined \subseteq Chats /\ unread \subseteq joined
    /\ title \in [Chats -> 0..MaxTitle] /\ rows \in [Chats -> RowType]
    /\ counted \in Nat /\ changes \in 0..MaxChanges /\ trouble \in 0..MaxTrouble
    /\ current.running <=> current.status = "running"
    /\ \A k \in Stages : current.stages[k] \in StageReports
    /\ \A s \in Syncs : run[s].at \notin {"none", "ended"} =>
          /\ current.running /\ current.id = s
          /\ \A k \in Stages :
                /\ k < run[s].stage => current.stages[k].status \in {"done", "failed"}
                /\ k > run[s].stage => current.stages[k].status = "pending"

(* What a finished run is worth, when the answer is right: the caller's    *)
(* own call started it, WhatsApp changed nothing since, no event was       *)
(* waiting, and the stage counts as many items as there are chats.  Then   *)
(* every such chat is in the table under WhatsApp's title                  *)
(* (runGroups, runNewsletters, UpsertChat).                                *)
QuietSyncIsFresh ==
    \A c \in Clients : \A k \in 1..2 :
        LET mine == call[c].asked.chats \cap Of(k) IN
        /\ call[c].at = "finished" /\ call[c].started /\ call[c].quiet
        /\ call[c].report.stages[k].status = "done"
        /\ call[c].report.stages[k].items = Cardinality(mine)
        => \A g \in mine : rows[g].known /\ rows[g].title = title[g]

(* Violated.  mcptools/list_conversations.go:82-83 (and eight other tools):*)
(* "For a guaranteed-fresh read: cache_sync -> poll cache_sync_status      *)
(* until finished -> read."  Even for the client whose call started the    *)
(* run, with nothing changed since and no event waiting, a chat marked     *)
(* unread before reads as read: runGroups overwrote unread_count, and      *)
(* FetchAppState only brings what is new.                                  *)
FreshWhenDone ==
    \A c \in Clients :
        /\ call[c].at = "finished" /\ call[c].started /\ call[c].quiet
        /\ call[c].report.status = "done" /\ raw = <<>>
        => \A g \in call[c].asked.chats :
            /\ rows[g].known /\ rows[g].title >= call[c].asked.title[g]
            /\ g \in call[c].asked.unread => rows[g].unread

Order(status) == CASE status = "pending" -> 0 [] status = "running" -> 1 [] OTHER -> 2

(* A report only moves forward: within one run no stage goes back, a       *)
(* finished stage's status and count stay, a stage starts only after the   *)
(* one before it ended, and a finished report is final (run, runStage      *)
(* against Start, Snapshot).                                               *)
ReportOnlyMovesForward ==
    [][ current'.id = current.id =>
        /\ current.status \in {"done", "failed"} => current' = current
        /\ \A k \in Stages :
              LET old == current.stages[k]  new == current'.stages[k] IN
              /\ Order(old.status) <= Order(new.status)
              /\ Order(old.status) = 2 => new = old
              /\ new.status # "pending" /\ k > 1 => Order(current'.stages[k - 1].status) = 2
      ]_current

(* Whatever fails, a run that was started ends, and its report with it: a  *)
(* client that polls is not kept waiting for ever, and a later cache_sync  *)
(* is not answered with a dead run (run, Start's running flag).            *)
EverySyncFinishes ==
    \A s \in Syncs : current.id = s /\ current.running ~> ~(current.id = s /\ current.running)

=============================================================================
