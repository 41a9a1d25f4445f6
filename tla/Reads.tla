-------------------------------- MODULE Reads --------------------------------
(***************************************************************************)
(* The read side: the query tools of internal/mcptools and the queries of  *)
(* internal/cache/reader.go, run by one tool call while the ingestor, the  *)
(* sync and other tools write the same tables.  Reads change nothing, so   *)
(* two calls do not disturb each other and one is enough.                  *)
(*                                                                         *)
(* Every SELECT sees one state of the tables.  What takes several SELECTs  *)
(* sees several: a client that turns the pages of a listing, and the tools *)
(* list_conversations, get_conversation and get_message_context.           *)
(*                                                                         *)
(* JIDs and message ids are numbers, in the order in which SQLite sorts    *)
(* them.  Of a body the model keeps whether it matches the one query;      *)
(* names are numbers, 0 for none.  The other filters of the listings       *)
(* (sender, time, chat type) do not change while a row exists: `Mail` and  *)
(* the JIDs stand for what passes them.                                    *)
(***************************************************************************)
EXTENDS Naturals, FiniteSetsExt

CONSTANTS
    Phones, Lids, Groups,  \* the JIDs of chats: phone, privacy LID, group
    Mail,         \* message rows that may be stored: [chat, id, ts, sender]
    Hits,         \* those whose first body matches the query
    Edits,        \* those that are edited or revoked
    Named,        \* the JIDs whose chats events without a message may touch
    AliasPairs,   \* <<lid, phone>> pairs that may be learned
    Horizon,      \* upper bound of the times
    Stamps,       \* times of events without a message; 0 is none
    Names,        \* upper bound of the names
    Titles,       \* titles in those events; 0 is none
    Unread,       \* unread counts the phone may report
    Limit,        \* rows of a page
    Window,       \* messages on each side of a context
    Who,          \* the contact that is asked about
    Lists,        \* the listings a client pages through
    MaxDuring,    \* writes during one call
    MaxRows       \* rows of messages and contacts together

Jids == Phones \cup Lids \cup Groups
Direct == Phones \cup Lids

ASSUME ReadsAssumption ==
    /\ Jids \subseteq Nat /\ IsFiniteSet(Mail) /\ IsFiniteSet(Jids)
    /\ Phones \cap Lids = {}
    /\ Horizon \in Nat /\ Names \in Nat /\ Limit \in Nat \ {0} /\ Window \in Nat
    /\ MaxDuring \in Nat /\ MaxRows \in Nat
    /\ \A m \in Mail : /\ m.chat \in Jids /\ m.id \in Nat /\ m.sender \in Nat
                       /\ m.ts \in 1..Horizon
    /\ \A m, n \in Mail : m.chat = n.chat /\ m.id = n.id => m = n
    /\ Unread \subseteq Nat /\ Stamps \subseteq 0..Horizon /\ Titles \subseteq 0..Names
    /\ AliasPairs \subseteq Lids \X Phones /\ Hits \subseteq Mail /\ Edits \subseteq Mail /\ Named \subseteq Jids
    /\ Lists \subseteq {"messages", "search", "chats", "names", "contactchats", "contacts"}

VARIABLES
    messages,     \* messages: the rows
    matching,     \* those whose body matches the query
    chats,        \* chats, by JID: known, title, last_message_ts, unread
    contacts,     \* contacts, by JID: known, and the best name
    aliases,      \* jid_aliases
    writer,       \* the statement the ingestor still owes
    call,         \* the tool call, or the paging client, in progress
    during        \* writes since it began

tables == <<messages, matching, chats, contacts, aliases>>
vars == <<tables, writer, call, during>>

NoMail == [chat |-> 0, id |-> 0, ts |-> 0, sender |-> 0]
NoWork == [owes |-> "nothing"]
NoCall == [op |-> "none"]

-----------------------------------------------------------------------------
(* Rows and their order.                                                   *)

(* ORDER BY: keys are compared column by column.                           *)
Before(a, b) ==
    \E i \in DOMAIN a : a[i] < b[i] /\ \A h \in 1..(i - 1) : a[h] = b[h]

Rank(rows, r) == Cardinality({s \in rows : Before(s.key, r.key)})

(* Mutant of Slice: OFFSET counts from one.                                *)
SliceFromOne(rows, offset, limit) ==
    {r \in rows : offset < Rank(rows, r) /\ Rank(rows, r) <= offset + limit}

(* LIMIT and OFFSET.                                                       *)
Slice(rows, offset, limit) ==
    {r \in rows : Rank(rows, r) \in offset..(offset + limit - 1)}

(* The slice has fewer than `limit` rows: there is nothing after it.       *)
Short(rows, offset, limit) == Cardinality(rows) < offset + limit

Of(rows) == {r.of : r \in rows}

(* list_messages: newest first, then by id.  Messages of two chats with    *)
(* one id and one second are tied; the order SQLite leaves them in stays   *)
(* the same from page to page, and the chat stands for it.                 *)
MessageRow(m) == [key |-> <<Horizon - m.ts, m.id, m.chat>>, of |-> <<m.chat, m.id>>]

(* get_conversation and get_last_interaction: ids descend too.             *)
ThreadRow(m) == [key |-> <<Horizon - m.ts, 1000 - m.id, m.chat>>, of |-> <<m.chat, m.id>>]

(* chats LEFT JOIN messages ON m.ts = c.last_message_ts: a row for every   *)
(* message of the chat's last second, and one when there is none.          *)
(* get_chat and get_direct_chat_by_contact answer with one of them.        *)
Previews(j) ==
    LET last == {m \in messages : m.chat = j /\ m.ts = chats[j].ts}
    IN IF last = {} THEN {NoMail} ELSE last
Known == {j \in Jids : chats[j].known}

(* sort_by last_active; rows of one chat in the order of the message ids.  *)
ByActivity(j, m) == <<Horizon - chats[j].ts, j, m.id>>

(* sort_by name: untitled last.                                            *)
ByName(j, m) == <<IF chats[j].title = 0 THEN 1 ELSE 0, chats[j].title, j, m.id>>

JoinRows(J, sort_by) ==
    UNION {{[key |-> IF sort_by = "name" THEN ByName(j, m) ELSE ByActivity(j, m), of |-> <<j>>]
            : m \in Previews(j)} : j \in J}

(* get_contact_chats: keyed on the contact, or the contact wrote there.    *)
ChatsOf(who) ==
    {j \in Known : j = who \/ \E m \in messages : m.chat = j /\ m.sender = who}

(* ListAllContacts: by name, those without one by JID, ahead of letters.   *)
ContactRow(j) == [key |-> <<contacts[j].name, j>>, of |-> <<j>>]

Listed(list) ==
    CASE list = "messages" -> {MessageRow(m) : m \in messages}
      [] list = "search" -> {MessageRow(m) : m \in matching}
      [] list = "chats" -> JoinRows(Known, "last_active")
      [] list = "names" -> JoinRows(Known, "name")
      [] list = "contactchats" -> JoinRows(ChatsOf(Who), "last_active")
      [] list = "contacts" -> {ContactRow(j) : j \in {i \in Direct : contacts[i].known}}

-----------------------------------------------------------------------------
(* Writers.  Each statement is one transaction (see Ingest).               *)

Paging == call.op = "pages" /\ ~call.done

(* What a write does to the listing being paged: the rows that moved ahead *)
(* and whether rows left it or moved back.                                 *)
Watch ==
  /\ during' = IF call = NoCall THEN 0 ELSE during + 1
  /\ during < MaxDuring
  /\ \/ ~Paging /\ UNCHANGED call
     \/ /\ Paging
        /\ \E list \in {call.list} :
            LET old == Listed(list)
                new == Listed(list)'
                ahead == {q \in old : \E r \in new \ old : r.of = q.of /\ Before(r.key, q.key)}
                back == {q \in old : \A r \in new : r.of = q.of => Before(q.key, r.key)}
            IN call' = [call EXCEPT
                           !.moved = @ \cup Of(ahead),
                           !.disturbed = @ \/ back # {} \/ Cardinality(new) < Cardinality(old)]

(* Mutant of Touched: the last message written counts, not the newest.     *)
TouchedLast(j, ts, unread) ==
    [chats EXCEPT ![j] = [known |-> TRUE, title |-> @.title, ts |-> ts, unread |-> unread]]

(* UpsertChat with a message's time.                                       *)
Touched(j, ts, unread) ==
    [chats EXCEPT ![j] = [known |-> TRUE, title |-> @.title,
                          ts |-> IF ts > @.ts THEN ts ELSE @.ts, unread |-> unread]]

(* The bound on the rows that are stored.                                  *)
Room == Cardinality(messages) + Cardinality({j \in Direct : contacts[j].known}) < MaxRows

(* A live message: its chat's row first (UpsertChat) ...                   *)
StoreChat(m) ==
    /\ writer = NoWork /\ m \in Mail \ messages /\ Room
    /\ chats' = Touched(m.chat, m.ts, 0)
    /\ writer' = [owes |-> "row", mail |-> m]
    /\ UNCHANGED <<messages, matching, contacts, aliases>>
    /\ Watch

(* ... then its own (InsertMessage).                                       *)
StoreRow ==
    /\ writer.owes = "row"
    /\ messages' = messages \cup {writer.mail}
    /\ matching' = matching \cup ({writer.mail} \cap Hits)
    /\ writer' = NoWork
    /\ UNCHANGED <<chats, contacts, aliases>>
    /\ Watch

(* A history batch of one chat: the rows first ...                         *)
HistoryRow(m) ==
    /\ m \in Mail \ messages /\ Room
    /\ \/ writer = NoWork
       \/ writer.owes = "chat" /\ writer.chat = m.chat
    /\ messages' = messages \cup {m}
    /\ writer' = [owes |-> "chat", chat |-> m.chat,
                  ts |-> IF writer = NoWork \/ writer.ts < m.ts THEN m.ts ELSE writer.ts]
    /\ matching' = matching \cup ({m} \cap Hits)
    /\ UNCHANGED <<chats, contacts, aliases>>
    /\ Watch

(* ... and its chat last, with the unread count the phone reports.         *)
HistoryChat(unread) ==
    /\ writer.owes = "chat"
    /\ chats' = Touched(writer.chat, writer.ts, unread)
    /\ writer' = NoWork
    /\ UNCHANGED <<messages, matching, contacts, aliases>>
    /\ Watch

(* An edit or a revoke changes what the full-text index finds.             *)
Reword(m) ==
    /\ m \in messages \cap Edits
    /\ matching' = IF m \in matching THEN matching \ {m} ELSE matching \cup {m}
    /\ UNCHANGED <<messages, chats, contacts, aliases, writer>>
    /\ Watch

(* UpsertChat without a message: a group is renamed or joined, or a        *)
(* message came of a kind that is not shown, or whose row was not written. *)
(* With the time of the event, or none, and no unread count.               *)
Title(j, name, ts) ==
    /\ chats' = [Touched(j, ts, 0) EXCEPT ![j].title = IF name = 0 THEN @ ELSE name]
    /\ UNCHANGED <<messages, matching, contacts, aliases, writer>>
    /\ Watch

(* A direct chat is pinned or archived on the phone: its row at least.     *)
Flag(j) ==
    /\ chats' = [chats EXCEPT ![j].known = TRUE]
    /\ UNCHANGED <<messages, matching, contacts, aliases, writer>>
    /\ Watch

(* A contact row or its name.  An empty name keeps the old one.            *)
Contact(j, name) ==
    /\ contacts[j].known \/ Room
    /\ contacts' = [contacts EXCEPT ![j] = [known |-> TRUE,
                                            name |-> IF name = 0 THEN @.name ELSE name]]
    /\ UNCHANGED <<messages, matching, chats, aliases, writer>>
    /\ Watch

(* UpsertJIDAlias.                                                         *)
Learn(pair) ==
    /\ aliases' = aliases \cup {pair}
    /\ UNCHANGED <<messages, matching, chats, contacts, writer>>
    /\ Watch

-----------------------------------------------------------------------------
(* Paging: a client asks for page 0, 1, ... until one comes back short.    *)

OpenPages(list) ==
    /\ call = NoCall
    /\ call' = [op |-> "pages", list |-> list, offset |-> 0, done |-> FALSE,
                start |-> Of(Listed(list)), seen |-> {}, moved |-> {}, disturbed |-> FALSE]
    /\ UNCHANGED <<tables, writer, during>>

(* Mutant of ReadPage: the offset counts pages of the limit that was asked *)
(* for, twice the one the query is given.                                  *)
ReadPageUncapped ==
    /\ Paging
    /\ LET rows == Listed(call.list) IN
       call' = [call EXCEPT !.seen = @ \cup Of(Slice(rows, call.offset, Limit)),
                            !.offset = @ + 2 * Limit,
                            !.done = Short(rows, call.offset, Limit)]
    /\ UNCHANGED <<tables, writer, during>>

ReadPage ==
    /\ Paging
    /\ LET rows == Listed(call.list) IN
       call' = [call EXCEPT !.seen = @ \cup Of(Slice(rows, call.offset, Limit)),
                            !.offset = @ + Limit,
                            !.done = Short(rows, call.offset, Limit)]
    /\ UNCHANGED <<tables, writer, during>>

(* list_conversations: the aliases first.  canonicalOf maps each LID to a  *)
(* phone; of a LID with two phones the pair scanned last decides.          *)
CanonicalMaps(pairs) ==
    {f \in [Jids -> Jids] :
        \A j \in Jids : LET phones == {p \in Phones : <<j, p>> \in pairs}
                        IN f[j] \in IF phones = {} THEN {j} ELSE phones}

ReadAliases ==
    /\ call = NoCall
    /\ \E f \in CanonicalMaps(aliases) :
          call' = [op |-> "conversations", canon |-> f, pairs |-> aliases, done |-> FALSE]
    /\ UNCHANGED <<tables, writer, during>>

(* identitiesOf and mergedIdentities: every LID linked to a phone, or the   *)
(* members when no alias names the conversation.                           *)
Identities(k, members, pairs) ==
    LET lids == {l \in Lids : <<l, k>> \in pairs}
    IN IF lids = {} THEN members ELSE {k} \cup lids

Conversation(k, rows, pairs) ==
    LET members == {r.jid : r \in rows}
    IN [of |-> k, members |-> members, jids |-> Identities(k, members, pairs),
        unread |-> MapThenSumSet(LAMBDA r : r.unread, rows),
        winner |-> Max({r.ts : r \in rows})]

(* Mutant of Merged: rows are grouped by their own JID.                    *)
MergedByChat(f, rows, pairs) ==
    {Conversation(j, {q \in rows : q.jid = j}, pairs) : j \in {r.jid : r \in rows}}

(* One conversation for every canonical identity of a row.                 *)
Merged(f, rows, pairs) ==
    {Conversation(k, {q \in rows : f[q.jid] = k}, pairs) : k \in {f[r.jid] : r \in rows}}

(* loadConversationChats, with or without the last message.                *)
ConversationRows(include) ==
    UNION {{[jid |-> j, unread |-> chats[j].unread, ts |-> chats[j].ts, last |-> m]
               : m \in IF include THEN Previews(j) ELSE {NoMail}} : j \in Known}

(* ... then the chats, merged in memory.                                   *)
ReadConversations(include) ==
    /\ call.op = "conversations" /\ ~call.done
    /\ call' = [op |-> "conversations", canon |-> call.canon, pairs |-> call.pairs,
                done |-> TRUE, chats |-> [j \in Known |-> chats[j]],
                answer |-> Merged(call.canon, ConversationRows(include), call.pairs)]
    /\ UNCHANGED <<tables, writer, during>>

(* get_message_context: the target, the smallest chat that has the id ...  *)
ReadTarget(id) ==
    /\ call = NoCall
    /\ LET found == {m \in messages : m.id = id} IN
       /\ found # {}
       /\ call' = [op |-> "context", step |-> "before", start |-> messages,
                   target |-> CHOOSE m \in found : \A n \in found : m.chat <= n.chat,
                   before |-> {}, after |-> {}]
    /\ UNCHANGED <<tables, writer, during>>

Older(m, t) == m.chat = t.chat /\ (m.ts < t.ts \/ (m.ts = t.ts /\ m.id < t.id))

(* Mutant of Nearest: the window ignores the ids of one second.            *)
NearestByTime(rows) ==
    {r.of : r \in {q \in rows : Cardinality({s \in rows : s.key[1] < q.key[1]}) < Window}}

(* ORDER BY ... LIMIT window.                                              *)
Nearest(rows) == {r.of : r \in {q \in rows : Rank(rows, q) < Window}}

(* ... its older neighbours, then its newer ones.                          *)
ReadBefore ==
    /\ call.op = "context" /\ call.step = "before"
    /\ LET rows == {[key |-> <<Horizon - m.ts, 1000 - m.id>>, of |-> m] :
                      m \in {n \in messages : Older(n, call.target)}} IN
       call' = [call EXCEPT !.step = "after", !.before = Nearest(rows)]
    /\ UNCHANGED <<tables, writer, during>>

ReadAfter ==
    /\ call.op = "context" /\ call.step = "after"
    /\ LET rows == {[key |-> <<m.ts, m.id>>, of |-> m] :
                      m \in {n \in messages : Older(call.target, n)}} IN
       call' = [call EXCEPT !.step = "done", !.after = Nearest(rows)]
    /\ UNCHANGED <<tables, writer, during>>

(* Mutant of Linked: only from a LID to its phone.                         *)
LinkedOneWay(j, pairs) == {j} \cup {p \in Phones : <<j, p>> \in pairs}

(* get_conversation: the identities of the contact, one query per seed ... *)
Linked(j, pairs) ==
    {j} \cup {p \in Phones : <<j, p>> \in pairs} \cup {l \in Lids : <<l, j>> \in pairs}

(* A full JID names itself; a fragment, every JID seen that it matches,    *)
(* here all of them, or a phone not seen yet.                              *)
Matches(asked) ==
    LET seen == {j \in Direct : chats[j].known \/ \E m \in messages : m.sender = j}
    IN IF seen = {} THEN {asked} ELSE seen

ResolveSeeds(asked) ==
    /\ call = NoCall
    /\ \E exact \in BOOLEAN :
          LET seeds == IF exact THEN {asked}
                       ELSE Matches(asked)
          IN call' = [op |-> "thread", step |-> "links", pairs |-> aliases, start |-> messages,
                      asked |-> seeds, seeds |-> seeds, jids |-> {}, answer |-> {}]
    /\ UNCHANGED <<tables, writer, during>>

ReadLinks ==
    /\ call.op = "thread" /\ call.step = "links"
    /\ \E j \in call.seeds :
          call' = [call EXCEPT !.jids = @ \cup Linked(j, aliases), !.seeds = @ \ {j},
                               !.step = IF call.seeds = {j} THEN "rows" ELSE "links"]
    /\ UNCHANGED <<tables, writer, during>>

Concerns(m, jids) == m.chat \in jids \/ m.sender \in jids

(* ... then the newest messages in, or from, any of them.                  *)
ReadThread ==
    /\ call.op = "thread" /\ call.step = "rows"
    /\ LET rows == {ThreadRow(m) : m \in {n \in messages : Concerns(n, call.jids)}} IN
       call' = [call EXCEPT !.step = "done", !.answer = Of(Slice(rows, 0, Limit))]
    /\ UNCHANGED <<tables, writer, during>>

(* The answer is used and the next call may start.                         *)
Finish ==
    /\ \/ call.op \in {"pages", "conversations"} /\ call.done
       \/ call.op \in {"context", "thread"} /\ call.step = "done"
    /\ call' = NoCall /\ during' = 0
    /\ UNCHANGED <<tables, writer>>

-----------------------------------------------------------------------------
Init ==
    /\ messages = {} /\ matching = {} /\ aliases = {}
    /\ chats = [j \in Jids |-> [known |-> FALSE, title |-> 0, ts |-> 0, unread |-> 0]]
    /\ contacts = [j \in Direct |-> [known |-> FALSE, name |-> 0]]
    /\ writer = NoWork
    /\ call = NoCall /\ during = 0

Next ==
    \/ \E m \in Mail : StoreChat(m) \/ HistoryRow(m) \/ Reword(m)
    \/ StoreRow
    \/ \E unread \in Unread : HistoryChat(unread)
    \/ \E j \in Groups \cap Named, name \in Titles, ts \in Stamps : Title(j, name, ts)
    \/ \E j \in Direct \cap Named : Flag(j)
    \/ \E j \in Direct \cap Named, name \in 0..Names : Contact(j, name)
    \/ \E pair \in AliasPairs : Learn(pair)
    \/ \E list \in Lists : OpenPages(list)
    \/ ReadPage
    \/ ReadAliases
    \/ \E include \in BOOLEAN : ReadConversations(include)
    \/ \E m \in Mail : ReadTarget(m.id)
    \/ ReadBefore
    \/ ReadAfter
    \/ ResolveSeeds(Who)
    \/ ReadLinks
    \/ ReadThread
    \/ Finish

Spec == Init /\ [][Next]_vars

-----------------------------------------------------------------------------
(* Properties.                                                             *)

(* Types; the full-text index has only stored messages, and a message is   *)
(* covered by its chat's row, by which the listings join and sort it,      *)
(* except while the history batch that stored it owes that row.            *)
TypeOK ==
    /\ messages \subseteq Mail /\ matching \subseteq messages
    /\ chats \in [Jids -> [known : BOOLEAN, title : 0..Names, ts : 0..Horizon,
                          unread : {0} \cup Unread]]
    /\ \A m \in messages :
          \/ chats[m.chat].known /\ chats[m.chat].ts >= m.ts
          \/ writer.owes = "chat" /\ writer.chat = m.chat /\ writer.ts >= m.ts
    /\ contacts \in [Direct -> [known : BOOLEAN, name : 0..Names]]
    /\ aliases \subseteq AliasPairs
    /\ writer.owes \in {"nothing", "row", "chat"}
    /\ call.op \in {"none", "pages", "conversations", "context", "thread"}

(* list_messages is paged with OFFSET while messages arrive, in order or   *)
(* from history: a client that reads until a short page has been given     *)
(* every message that was there when it began (some perhaps twice).        *)
MessagePagesMissNothing ==
    call.op = "pages" /\ call.list = "messages" /\ call.done => call.start \subseteq call.seen

(* Any listing: what such a client misses has moved ahead meanwhile (a     *)
(* chat that became active, a row renamed), unless some row left the       *)
(* listing or moved back (an edit that no longer matches, a rename, a chat *)
(* that loses one of two previews of the same second).                     *)
PagesMissOnlyWhatMoved ==
    call.op = "pages" /\ call.done /\ ~call.disturbed =>
        call.start \ call.moved \subseteq call.seen

SameContact(i, j, pairs) == i = j \/ <<i, j>> \in pairs \/ <<j, i>> \in pairs

(* list_conversations reads the aliases, then the chats: every chat is in  *)
(* exactly one conversation; two chats of one contact, linked when the     *)
(* aliases were read, are in the same, under the newest one's time; and it *)
(* lists the identities get_conversation would resolve from its JID.       *)
OneConversationPerContact ==
    call.op = "conversations" /\ call.done =>
        /\ \A j \in DOMAIN call.chats : Cardinality({c \in call.answer : j \in c.members}) = 1
        /\ \A pair \in call.pairs, c \in call.answer :
              /\ pair[1] \in c.members /\ pair[2] \in DOMAIN call.chats
              /\ \A other \in call.pairs : other[1] = pair[1] => other = pair
              => pair[2] \in c.members
        /\ \A c \in call.answer :
              /\ c.members \subseteq c.jids
              /\ c.jids = {j \in Jids : SameContact(j, c.of, call.pairs)}
              /\ \A j \in c.members : call.chats[j].ts <= c.winner

(* get_message_context reads its window in three queries while messages    *)
(* arrive: each side is in order, at most Window long, and skips no        *)
(* message that was there when the call began.                             *)
ContextHasNoGap ==
    call.op = "context" /\ call.step = "done" =>
        /\ Cardinality(call.before) <= Window /\ Cardinality(call.after) <= Window
        /\ \A m \in call.before : Older(m, call.target)
        /\ \A m \in call.after : Older(call.target, m)
        /\ \A m \in call.start :
              /\ Older(m, call.target) /\ (\E n \in call.before : Older(n, m)) => m \in call.before
              /\ Older(call.target, m) /\ (\E n \in call.after : Older(m, n)) => m \in call.after
        /\ \A m \in call.start :
              /\ Older(m, call.target) /\ Cardinality(call.before) < Window => m \in call.before
              /\ Older(call.target, m) /\ Cardinality(call.after) < Window => m \in call.after

(* get_conversation merges the identities of a contact: whatever was there *)
(* when the call began, in a chat of or from an identity linked by then,   *)
(* is in the page, unless the page is full of what is at least as new.     *)
ThreadIsMerged ==
    call.op = "thread" /\ call.step = "done" =>
        \A m \in call.start :
            (\E j \in call.asked, i \in {m.chat, m.sender} : SameContact(i, j, call.pairs)) =>
                \/ <<m.chat, m.id>> \in call.answer
                \/ /\ Cardinality(call.answer) >= Limit
                   /\ \A n \in messages : <<n.chat, n.id>> \in call.answer => n.ts >= m.ts

(* models.go: the unread count of a conversation is summed over the merged *)
(* identities, so that a chat counts once.                                 *)
UnreadCountedOnce ==
    call.op = "conversations" /\ call.done =>
        \A c \in call.answer : c.unread = MapThenSumSet(LAMBDA j : call.chats[j].unread, c.members)

=============================================================================
