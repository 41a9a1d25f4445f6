------------------------------- MODULE Ingest -------------------------------
(***************************************************************************)
(* How the tables of internal/cache are written: the ingestor that turns   *)
(* WhatsApp events into SQL statements, on the dispatcher goroutine, and   *)
(* the tools (send_message, send_reaction, mark_read, the sync stages)     *)
(* that mirror their own effects into the same tables concurrently.        *)
(*                                                                         *)
(* WhatsApp is external: it may deliver the events of `Events` in any      *)
(* order and any number of times, live or in a history batch.  A handler   *)
(* is a script of statements; each statement is one SQLite transaction and *)
(* the unit of interleaving, it may fail (busy, disk full), and a crash    *)
(* may fall between two of them.  The tables are those of one chat.        *)
(***************************************************************************)
EXTENDS Naturals, Sequences, FiniteSets, FiniteSetsExt, Functions

CONSTANTS
    Events,       \* what can be delivered or done, records by kind (below)
    Ids,          \* message ids of the chat
    Tools,        \* goroutines serving tool calls
    PerSecond     \* ticks of an event's clock in one second

(* text, poll: id, at, text; edit: the same and wrapped; revoke: id;       *)
(* silent, group: at; reaction: id, at, by, me, emoji ("" removes); vote:  *)
(* id, at, by, sel; flag: flag, on; history: items, unread and silent, the *)
(* times of the silent messages.  `via` is the goroutine that handles it.  *)
Kinds == {"text", "poll", "silent", "edit", "revoke", "reaction", "vote",
          "flag", "group", "history"}
Goroutines == {"dispatcher", "sync"} \cup Tools

(* Events whose effect later ones should only build upon.                  *)
Lasting(e) ==
    \/ e.kind \in {"text", "poll", "silent", "group", "history", "vote"}
    \/ e.kind = "reaction" /\ e.emoji # ""

(* What the handlers read of an event, or of a message in a history batch. *)
WellFormed(e) ==
    /\ e.kind \in {"text", "poll", "silent", "edit", "reaction", "vote", "group"} => e.at \in Nat
    /\ e.kind \in {"text", "poll", "edit", "revoke", "reaction", "vote"} => e.id \in Ids
    /\ e.kind = "edit" => e.wrapped \in BOOLEAN
    /\ e.kind = "reaction" => e.me \in BOOLEAN
    /\ e.kind = "flag" => e.flag \in {"pinned", "archived", "unread"} /\ e.on \in BOOLEAN

ASSUME IngestAssumption ==
    /\ PerSecond \in Nat \ {0}
    /\ \A e \in Events : e.kind \in Kinds /\ e.via \in Goroutines /\ WellFormed(e)
    /\ \A e \in Events : e.kind = "history" =>
           /\ e.items \in Seq(Range(e.items))
           /\ \A m \in Range(e.items) : m.kind \in {"text", "poll", "reaction"} /\ WellFormed(m)
           /\ e.silent \subseteq Nat /\ IsFiniteSet(e.silent)

VARIABLES
    messages,     \* messages, by id
    chat,         \* the chats row
    reactions,    \* reactions, keyed by (id, key)
    ballots,      \* polls and poll_options: the polls whose ballot is known
    votes,        \* poll_votes, keyed by (id, by)
    job,          \* what each goroutine still has to run: scripts, one per message
    current,      \* the event it runs them for, as long as none has failed
    called,       \* tool calls already made: they are not repeated
    applied       \* history: lasting events handled with every statement done

tables == <<messages, chat, reactions, ballots, votes>>
vars == <<tables, job, current, called, applied>>

(* unixSeconds: the columns keep whole seconds.                            *)
Sec(at) == at \div PerSecond

NoRow == [stored |-> FALSE, text |-> "", sec |-> 0, edited |-> FALSE, deleted |-> FALSE]
Row(text, sec, edited, deleted) ==
    [stored |-> TRUE, text |-> text, sec |-> sec, edited |-> edited, deleted |-> deleted]
NoChat == [known |-> FALSE, sec |-> 0, unread |-> 0, archived |-> FALSE, pinned |-> FALSE]

-----------------------------------------------------------------------------
(* The scripts.                                                            *)

ChatStatement(at, unread) == [op |-> "chat", sec |-> Sec(at), unread |-> unread]
InsertStatement(e) == [op |-> "insert", id |-> e.id, text |-> e.text, sec |-> Sec(e.at)]
EditStatement(e) == [op |-> "edit", id |-> e.id, text |-> e.text, orElse |-> e]

VoteStatement(e) == [op |-> "vote", id |-> e.id, by |-> e.by, sel |-> e.sel, sec |-> Sec(e.at)]
FlagStatement(e) == [op |-> "flag", flag |-> e.flag, on |-> e.on]

(* Mutant of ReactionSenderKey: the sender as each path spells it.         *)
SenderAsSpelled(e) == e.by

(* Our own reactions are keyed by the empty sender.                        *)
ReactionSenderKey(e) == IF e.me THEN "" ELSE e.by

(* persistReaction, mirrorReaction                                         *)
ReactionStatement(e) ==
    IF e.emoji = ""
    THEN [op |-> "unreact", id |-> e.id, key |-> ReactionSenderKey(e)]
    ELSE [op |-> "react", id |-> e.id, key |-> ReactionSenderKey(e),
          emoji |-> e.emoji, sec |-> Sec(e.at), me |-> e.me]

(* The rows of a message: its own, and for a poll its ballot.              *)
MessageRows(e) ==
    IF e.kind = "poll" THEN <<InsertStatement(e), [op |-> "ballot", id |-> e.id]>>
    ELSE <<InsertStatement(e)>>

(* A message, live or mirrored by a send tool: the chat row comes first.   *)
StoreMessage(e) == <<ChatStatement(e.at, 0)>> \o MessageRows(e)

(* handleHistorySync: rows, ballots and reactions first, the chat last,    *)
(* stamped with its newest message.                                        *)
HistoryItem(e) ==
    IF e.kind = "reaction" THEN <<ReactionStatement(e)>> ELSE MessageRows(e)
ItemTimes(e) == {m.at : m \in {n \in Range(e.items) : n.kind # "reaction"}} \cup e.silent
HistoryScripts(e) ==
    Append([i \in 1..Len(e.items) |-> HistoryItem(e.items[i])],
           <<ChatStatement(Max(ItemTimes(e) \cup {0}), e.unread)>>)

(* Mutant of Script: a reaction also marks the chat as active.             *)
ScriptBumping(e) ==
    CASE e.kind \in {"text", "poll"} -> <<StoreMessage(e)>>
      [] e.kind \in {"silent", "group"} -> << <<ChatStatement(e.at, 0)>> >>
      [] e.kind = "edit" -> << <<EditStatement(e)>> >>
      [] e.kind = "revoke" -> << <<[op |-> "delete", id |-> e.id]>> >>
      [] e.kind = "reaction" -> << <<ChatStatement(e.at, 0), ReactionStatement(e)>> >>
      [] e.kind = "vote" -> << <<VoteStatement(e)>> >>
      [] e.kind = "flag" -> << <<FlagStatement(e)>> >>
      [] e.kind = "history" -> HistoryScripts(e)

(* HandleEvent's dispatch: the scripts of an event.                        *)
Script(e) ==
    CASE e.kind \in {"text", "poll"} -> <<StoreMessage(e)>>
      [] e.kind \in {"silent", "group"} -> << <<ChatStatement(e.at, 0)>> >>
      [] e.kind = "edit" -> << <<EditStatement(e)>> >>
      [] e.kind = "revoke" -> << <<[op |-> "delete", id |-> e.id]>> >>
      [] e.kind = "reaction" -> << <<ReactionStatement(e)>> >>
      [] e.kind = "vote" -> << <<VoteStatement(e)>> >>
      [] e.kind = "flag" -> << <<FlagStatement(e)>> >>
      [] e.kind = "history" -> HistoryScripts(e)

-----------------------------------------------------------------------------
Init ==
    /\ messages = [id \in Ids |-> NoRow]
    /\ chat = NoChat
    /\ reactions = {} /\ votes = {} /\ ballots = {}
    /\ job = [a \in Goroutines |-> <<>>]
    /\ current = [a \in Goroutines |-> {}]
    /\ called = {} /\ applied = {}

(* The dispatcher takes an event from WhatsApp, a tool call or a sync      *)
(* stage starts.                                                           *)
Begin(a, e) ==
    /\ job[a] = <<>> /\ e.via = a /\ e \notin called
    /\ called' = IF a \in Tools THEN called \cup {e} ELSE called
    /\ job' = [job EXCEPT ![a] = Script(e)]
    /\ current' = [current EXCEPT ![a] = {e}]
    /\ UNCHANGED <<tables, applied>>

(* Goroutine a is left with `rest`; `ok` is whether the statement took.    *)
Continue(a, rest, ok) ==
    LET kept == IF ok THEN current[a] ELSE {}
    IN  /\ job' = [job EXCEPT ![a] = rest]
        /\ current' = [current EXCEPT ![a] = IF rest = <<>> THEN {} ELSE kept]
        /\ applied' = IF rest = <<>> THEN applied \cup {e \in kept : Lasting(e)} ELSE applied
        /\ UNCHANGED called

(* The statement that is due, and what is left after it.                   *)
Due(a) == Head(Head(job[a]))
Rest(a) == IF Len(Head(job[a])) = 1 THEN Tail(job[a])
           ELSE <<Tail(Head(job[a]))>> \o Tail(job[a])

At(a, op) == job[a] # <<>> /\ Due(a).op = op
Done(a) == Continue(a, Rest(a), TRUE)

(* Mutant of Freshest: the timestamp of the last statement.                *)
FreshestLast(s) == s.sec

(* MAX(chats.last_message_ts, excluded.last_message_ts)                    *)
Freshest(s) == IF s.sec > chat.sec THEN s.sec ELSE chat.sec

(* UpsertChat: archived, pinned and unread_count are overwritten too, with *)
(* the zero values of callers that do not know them.                       *)
UpsertChat(a) ==
    LET s == Due(a)
    IN  /\ At(a, "chat")
        /\ chat' = [known |-> TRUE, sec |-> Freshest(s), unread |-> s.unread,
                    archived |-> FALSE, pinned |-> FALSE]
        /\ Done(a)
        /\ UNCHANGED <<messages, reactions, ballots, votes>>

(* Mutant of Inserted: ON CONFLICT DO UPDATE, which restores the original. *)
InsertedAlways(row, s) == Row(s.text, s.sec, row.edited, row.deleted)

(* INSERT ... ON CONFLICT DO NOTHING                                       *)
Inserted(row, s) == IF row.stored THEN row ELSE Row(s.text, s.sec, FALSE, FALSE)

InsertMessage(a) ==
    LET s == Due(a)
    IN  /\ At(a, "insert")
        /\ messages' = [messages EXCEPT ![s.id] = Inserted(@, s)]
        /\ Done(a)
        /\ UNCHANGED <<chat, reactions, ballots, votes>>

(* An edit of a message that is not stored, or whose statement failed: a   *)
(* legacy envelope is dropped, a wrapped one goes on as a new message.     *)
EditMisses(a) ==
    LET s == Due(a)
    IN  IF s.orElse.wrapped
        THEN Continue(a, <<StoreMessage(s.orElse)>> \o Tail(job[a]), TRUE)
        ELSE Continue(a, Rest(a), FALSE)

MarkMessageEdited(a) ==
    LET s == Due(a)
    IN  /\ At(a, "edit")
        /\ IF messages[s.id].stored
           THEN /\ messages' = [messages EXCEPT ![s.id] = Row(s.text, @.sec, TRUE, @.deleted)]
                /\ Done(a)
           ELSE UNCHANGED messages /\ EditMisses(a)
        /\ UNCHANGED <<chat, reactions, ballots, votes>>

MarkMessageDeleted(a) ==
    LET s == Due(a)
    IN  /\ At(a, "delete")
        /\ messages' = IF messages[s.id].stored
                       THEN [messages EXCEPT ![s.id] = Row("", @.sec, @.edited, TRUE)]
                       ELSE messages
        /\ Continue(a, Rest(a), messages[s.id].stored)
        /\ UNCHANGED <<chat, reactions, ballots, votes>>

(* Mutant of Upserted: without the timestamp guard.                        *)
UpsertedAlways(table, old, new) == (table \ old) \cup {new}

(* ON CONFLICT DO UPDATE ... WHERE excluded.ts >= ts; `old` holds the row  *)
(* with the same primary key, if there is one.  Within one second the row  *)
(* of the statement that ran last stays, whichever was sent last.          *)
Upserted(table, old, new) ==
    IF \A r \in old : new.sec >= r.sec THEN (table \ old) \cup {new} ELSE table

(* Mutant of SameReaction: the timestamp is part of the key, too.          *)
SameReactionApart(s) == {r \in reactions : r.id = s.id /\ r.key = s.key /\ r.sec = s.sec}

(* The row of the statement's primary key.                                 *)
SameReaction(s) == {r \in reactions : r.id = s.id /\ r.key = s.key}

UpsertReaction(a) ==
    LET s == Due(a)
    IN  /\ At(a, "react")
        /\ reactions' = Upserted(reactions, SameReaction(s),
                           [id |-> s.id, key |-> s.key, emoji |-> s.emoji,
                            sec |-> s.sec, me |-> s.me])
        /\ Done(a)
        /\ UNCHANGED <<messages, chat, ballots, votes>>

DeleteReaction(a) ==
    /\ At(a, "unreact")
    /\ reactions' = reactions \ SameReaction(Due(a))
    /\ Done(a)
    /\ UNCHANGED <<messages, chat, ballots, votes>>

UpsertPoll(a) ==
    /\ At(a, "ballot")
    /\ ballots' = ballots \cup {Due(a).id}
    /\ Done(a)
    /\ UNCHANGED <<messages, chat, reactions, votes>>

(* An empty selection is stored, too: it is a vote that was cleared.       *)
UpsertPollVote(a) ==
    LET s == Due(a)
        old == {v \in votes : v.id = s.id /\ v.by = s.by}
    IN  /\ At(a, "vote")
        /\ votes' = Upserted(votes, old, [id |-> s.id, by |-> s.by, sel |-> s.sel, sec |-> s.sec])
        /\ Done(a)
        /\ UNCHANGED <<messages, chat, reactions, ballots>>

(* SetChatPinned, SetChatArchived, SetChatUnread: one column, and the row  *)
(* when it is missing.                                                     *)
SetChatFlag(a) ==
    LET s == Due(a)
    IN  /\ At(a, "flag")
        /\ chat' = [known |-> TRUE, sec |-> chat.sec,
                    unread |-> IF s.flag # "unread" THEN chat.unread ELSE IF s.on THEN 1 ELSE 0,
                    archived |-> IF s.flag = "archived" THEN s.on ELSE chat.archived,
                    pinned |-> IF s.flag = "pinned" THEN s.on ELSE chat.pinned]
        /\ Done(a)
        /\ UNCHANGED <<messages, reactions, ballots, votes>>

(* The statement fails. The ingestor and the sync stages log it and go on  *)
(* with the next one; a tool returns the error and leaves the rest.        *)
StatementFails(a) ==
    /\ job[a] # <<>>
    /\ IF a \in Tools THEN Continue(a, <<>>, FALSE)
       ELSE IF At(a, "edit") THEN EditMisses(a)
       ELSE Continue(a, Rest(a), FALSE)
    /\ UNCHANGED tables

(* The process dies: what the goroutines had not written is lost.          *)
Crash ==
    /\ \E a \in Goroutines : job[a] # <<>>
    /\ job' = [a \in Goroutines |-> <<>>]
    /\ current' = [a \in Goroutines |-> {}]
    /\ UNCHANGED <<tables, called, applied>>

Statement(a) ==
    \/ UpsertChat(a)
    \/ InsertMessage(a)
    \/ MarkMessageEdited(a)
    \/ MarkMessageDeleted(a)
    \/ UpsertReaction(a)
    \/ DeleteReaction(a)
    \/ UpsertPoll(a)
    \/ UpsertPollVote(a)
    \/ SetChatFlag(a)
    \/ StatementFails(a)

Next ==
    \/ \E a \in Goroutines, e \in Events : Begin(a, e)
    \/ \E a \in Goroutines : Statement(a)
    \/ Crash

Spec == Init /\ [][Next]_vars

-----------------------------------------------------------------------------
(* Properties.                                                             *)

Items == UNION {IF e.kind = "history" THEN Range(e.items) ELSE {e} : e \in Events}
Corrections(id) == {""} \cup {e.text : e \in {f \in Events : f.kind = "edit" /\ f.id = id}}
Removals(id, key) == {e \in Items : /\ e.kind = "reaction" /\ e.emoji = ""
                                    /\ e.id = id /\ ReactionSenderKey(e) = key}

(* What applying the event implies of last_message_ts.                     *)
Activity(e) ==
    CASE e.kind \in {"text", "poll", "silent", "group"} -> {e.at}
      [] e.kind = "edit" /\ e.wrapped -> {e.at}
      [] e.kind = "history" -> ItemTimes(e)
      [] OTHER -> {}

(* The tables keep their primary keys, an unstored message has no marks,   *)
(* and a goroutine holds an event only while it has statements to run.     *)
TypeOK ==
    /\ \A id \in Ids : ~messages[id].stored => messages[id] = NoRow
    /\ \A r, s \in reactions : r.id = s.id /\ r.key = s.key => r = s
    /\ \A v, w \in votes : v.id = w.id /\ v.by = w.by => v = w
    /\ ballots \subseteq Ids
    /\ ~chat.known => chat = NoChat
    /\ \A a \in Goroutines : current[a] \subseteq Events /\ (job[a] = <<>> => current[a] = {})
    /\ called \subseteq Events /\ applied \subseteq Events

(* A message that was edited or deleted shows what one of its edits said,  *)
(* or nothing: the original does not come back, however often it is        *)
(* delivered, live or in a history batch (InsertMessage's conflict clause).*)
OriginalStaysGone ==
    \A id \in Ids :
        messages[id].edited \/ messages[id].deleted => messages[id].text \in Corrections(id)

(* Once an event that counts as activity was handled without a failed      *)
(* statement, the chat is listed and its last_message_ts is no older, in   *)
(* whatever order live events, history batches and tools came (UpsertChat).*)
FreshestCovered ==
    \A e \in applied : e.kind \in {"text", "poll", "silent", "group", "history"} =>
        chat.known /\ \A t \in Activity(e) : chat.sec >= Sec(t)

(* last_message_ts is always the second of some activity of the chat: a    *)
(* reaction, a vote, a revoke or a flag never reorders the chat list, nor  *)
(* does a legacy edit (handleMessage returns before UpsertChat).  A wrapped *)
(* edit counts as activity, because one that misses its target is stored   *)
(* as a new message.                                                       *)
OnlyActivityReorders ==
    chat.sec \in {0} \cup {Sec(t) : t \in UNION {Activity(e) : e \in Events}}

(* Where nobody removes a reaction, each sender's row on a message shows   *)
(* an emoji that was sent in the row's second, and that second is no       *)
(* earlier than the one of any reaction that was handled: a stale one      *)
(* arriving late changes nothing, if it is from an earlier second          *)
(* (UpsertReaction's ts guard).                                            *)
ReactionsNeverRegress ==
    \A e \in applied :
        e.kind = "reaction" /\ e.emoji # "" /\ Removals(e.id, ReactionSenderKey(e)) = {}
        => \E r \in reactions :
             /\ r.id = e.id /\ r.key = ReactionSenderKey(e) /\ r.sec >= Sec(e.at)
             /\ \E f \in Items : /\ f.kind = "reaction" /\ f.id = r.id
                                 /\ ReactionSenderKey(f) = r.key
                                 /\ Sec(f.at) = r.sec /\ f.emoji = r.emoji

(* The live event, the history batch and the send_reaction mirror agree on *)
(* how our own reaction is keyed, so a message never carries two of them.  *)
OneOwnReaction ==
    \A r, s \in reactions : r.me /\ s.me /\ r.id = s.id => r = s

(* A voter's row holds a selection that was cast in the row's second, and  *)
(* no vote that was handled is from a later second: a replayed vote does   *)
(* not come back over one that was cast, or cleared, in a later second     *)
(* (UpsertPollVote's ts guard).                                            *)
NewestVoteStands ==
    \A e \in applied : e.kind = "vote" =>
        \E v \in votes :
            /\ v.id = e.id /\ v.by = e.by /\ v.sec >= Sec(e.at)
            /\ \E f \in Events : /\ f.kind = "vote" /\ f.id = v.id /\ f.by = v.by
                                 /\ Sec(f.at) = v.sec /\ f.sel = v.sel

(* What upsert.go says of a stale reaction, and polls.go of an older vote: *)
(* it leaves the newer row alone. A handled reaction, or vote, is never    *)
(* replaced by one that was sent before it.                                *)
NewerRowLeftAlone ==
    \A e \in applied :
        /\ e.kind = "reaction" /\ e.emoji # "" /\ Removals(e.id, ReactionSenderKey(e)) = {}
           => \E r \in reactions, f \in Items :
                /\ r.id = e.id /\ r.key = ReactionSenderKey(e)
                /\ f.kind = "reaction" /\ f.id = r.id /\ ReactionSenderKey(f) = r.key
                /\ f.emoji = r.emoji /\ f.at >= e.at
        /\ e.kind = "vote"
           => \E v \in votes, f \in Events :
                /\ v.id = e.id /\ v.by = e.by
                /\ f.kind = "vote" /\ f.id = v.id /\ f.by = v.by
                /\ f.sel = v.sel /\ f.at >= e.at

(* What upsert.go says of reactions: out of order delivery is never a      *)
(* regression. A reaction that was handled, and that is newer than every   *)
(* removal its sender ever sent, is there.                                 *)
NewestReactionStands ==
    \A e \in applied :
        e.kind = "reaction" /\ e.emoji # ""
        /\ (\A r \in Removals(e.id, ReactionSenderKey(e)) : Sec(r.at) < Sec(e.at))
        => \E r \in reactions : /\ r.id = e.id /\ r.key = ReactionSenderKey(e)
                                /\ r.sec >= Sec(e.at)

(* What upsert.go says of deletions: the searchable body is cleared and    *)
(* only the row is kept.                                                   *)
DeletedHasNoBody == \A id \in Ids : messages[id].deleted => messages[id].text = ""

(* What SUPPORTED.md says of the pinned and archived flags: they mirror    *)
(* Pin and Archive, so no other statement drops them.                      *)
FlagsOnlyByTheirEvents ==
    [][ \/ ~chat.pinned /\ ~chat.archived
        \/ chat'.pinned = chat.pinned /\ chat'.archived = chat.archived
        \/ \E a \in Goroutines : At(a, "flag") ]_vars
=============================================================================
