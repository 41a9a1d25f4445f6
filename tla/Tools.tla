-------------------------------- MODULE Tools --------------------------------
(***************************************************************************)
(* The tools of internal/tools that talk to WhatsApp, behind the gate of   *)
(* internal/mcp: sends, polls, receipts, downloads and requests, called    *)
(* concurrently by agents.  A call is a sequence of steps, each one read   *)
(* of the link, one round trip, one statement on the cache or one access   *)
(* to the media store; between two steps anything else may happen: other   *)
(* calls, votes that arrive, an outage, an unpairing, a crash.             *)
(*                                                                         *)
(* WhatsApp is the set of messages it accepted.  A message's id is the     *)
(* number of the call that sends it; id 0 is what others sent: a poll and  *)
(* a message with an attachment.  Digest 1 is an upload, digest 2 what     *)
(* ffmpeg makes of it.                                                     *)
(***************************************************************************)
EXTENDS Naturals, Sequences, FiniteSets

CONSTANTS
    Agents,       \* concurrent callers
    Menus,        \* the tools called in one behaviour
    Options,      \* the ballot of every poll
    Requests,     \* selections asked for; some are not on the ballot
    Selectable,   \* options a voter may select
    Voters,       \* the other members of the chat
    Targets,      \* the messages that calls refer to
    MaxCalls,     \* calls, and no more than there are tools on the menu
    MaxTime,      \* seconds
    MaxTrouble    \* changes of the link, crashes, and votes not written

ASSUME ToolsAssumption ==
    /\ MaxCalls \in Nat /\ MaxTime \in Nat /\ MaxTrouble \in Nat
    /\ IsFiniteSet(Options) /\ Selectable \in Nat \ {0}
    /\ {} \in Requests /\ "me" \notin Voters /\ Targets \subseteq 0..MaxCalls

VARIABLES
    link,         \* IsPaired and IsLoggedIn: "unpaired", "offline", "online"
    trouble,      \* what has gone wrong so far
    menu,         \* the tools in use
    call,         \* the calls, in progress or answered
    calls,        \* calls so far
    accepted,     \* what WhatsApp accepted
    secrets,      \* whatsmeow's store: the polls whose votes it can decrypt
    rows,         \* messages: the rows
    polls,        \* polls: the message ids
    ballots,      \* poll_options: <<poll, option>>
    votes,        \* poll_votes: [poll, voter, as, choice, ts]
    reaction,     \* reactions: this device's rows, at most one per target
    unread,       \* chats.unread_count: {} is 0, {t} a flag set in second t
    blobs,        \* the digests in the media store
    inbox,        \* votes on their way to the ingestor
    dropped,      \* sent polls of votes that could not be decrypted
    readable,     \* polls that send_poll reported sent to this pairing
    voted,        \* votes that vote_poll reported cast
    now

cache == <<rows, polls, ballots, votes, reaction, unread>>
ghosts == <<dropped, readable, voted>>
vars == <<link, trouble, menu, call, calls, accepted, secrets, cache, blobs,
          inbox, ghosts, now>>

Ids == 0..MaxCalls
Links == {"unpaired", "offline", "online"}
Me == "me"
Idle == [op |-> "none", answer |-> "none"]

(* The steps of a tool, in the order of its handler.                       *)
Gate == <<"paired", "connected", "args">>
Healthz == <<"paired", "connected">>
CacheOnly == <<"paired", "args">>
AccountOp == Gate \o <<"send">>
SetDisappearingTimer == Gate \o <<"send">>
GetContactDetails == Gate \o <<"read", "details">>
GetGroupInfo == Gate \o <<"ask">>
ResolveJID == Gate \o <<"read">>
SearchContacts == Gate \o <<"read">>
SendMessage == Gate \o <<"send", "chat", "row">>

(* Mutant of SendFile: reported before it is mirrored.                     *)
SendFileUnmirrored == Gate \o <<"open", "prepare", "upload", "send">>
SendFile == Gate \o <<"open", "prepare", "upload", "send", "chat", "row">>

(* Mutant of SendAudioMessage: mirrored before it is sent.                 *)
SendAudioMirroredFirst == Gate \o <<"open", "prepare", "chat", "row", "upload", "send">>
SendAudioMessage == Gate \o <<"open", "prepare", "upload", "send", "chat", "row">>
SendReaction == Gate \o <<"target", "send", "reaction">>
MarkRead == Gate \o <<"send", "unread">>
DownloadMedia == Gate \o <<"mediarow", "lookup", "fetch", "put">>
SendPoll == Gate \o <<"send", "secret", "chat", "row", "ballot">>

(* Mutant of VotePoll: the ballot is checked after the vote is sent.       *)
VotePollMatchesLate == Gate \o <<"poll", "build", "send", "options", "match", "vote">>
VotePoll == Gate \o <<"poll", "options", "match", "build", "send", "vote">>
GetPollResults == Gate \o <<"poll", "options", "votes">>
CacheSyncTool == <<"paired", "connected", "loggedin", "start">>

Program ==
    [ping |-> <<>>, healthz |-> Healthz, list_messages |-> CacheOnly,
     account_op |-> AccountOp, set_disappearing_timer |-> SetDisappearingTimer,
     get_contact_details |-> GetContactDetails, get_group_info |-> GetGroupInfo,
     resolve_jid |-> ResolveJID, search_contacts |-> SearchContacts,
     send_message |-> SendMessage, send_file |-> SendFile,
     send_audio_message |-> SendAudioMessage, send_reaction |-> SendReaction,
     mark_read |-> MarkRead, download_media |-> DownloadMedia,
     send_poll |-> SendPoll, vote_poll |-> VotePoll, get_poll_results |-> GetPollResults,
     cache_sync |-> CacheSyncTool]

ASSUME MenusAssumption == \A m \in Menus : m \subseteq DOMAIN Program

Busy(c) == call[c].answer = "none" /\ call[c].op # "none"
At(c, step) == /\ Busy(c)
               /\ call[c].at <= Len(Program[call[c].op])
               /\ Program[call[c].op][call[c].at] = step

-----------------------------------------------------------------------------
(* The cache.                                                              *)

(* Mutant of UpsertPoll: the ballot is deleted and not written.            *)
UpsertPollHeader(p) ==
    /\ polls' = polls \cup {p}
    /\ ballots' = {b \in ballots : b[1] # p}

(* Header and ballot are replaced in one transaction.                      *)
UpsertPoll(p) ==
    /\ polls' = polls \cup {p}
    /\ ballots' = {b \in ballots : b[1] # p} \cup ({p} \X Options)

(* Mutant of UpsertPollVote: no conflict target.                           *)
AppendVote(v) == votes' = votes \cup {v}

(* A voter is one row for each address WhatsApp knows it by: its phone     *)
(* number or its LID.                                                      *)
SameVoter(v, w) == w.poll = v.poll /\ w.voter = v.voter /\ w.as = v.as

(* One row per voter JID, and a vote of an earlier second does not replace *)
(* it.                                                                     *)
UpsertPollVote(v) ==
    votes' = IF \E w \in votes : SameVoter(v, w) /\ w.ts > v.ts THEN votes
             ELSE {w \in votes : ~SameVoter(v, w)} \cup {v}

(* DeleteReaction, unconditional, for the empty emoji; otherwise the       *)
(* newest stands.                                                          *)
MirrorReaction(m) ==
    reaction' = IF m.choice = {} THEN {r \in reaction : r.on # m.on}
                ELSE IF \E r \in reaction : r.on = m.on /\ r.ts > m.ts THEN reaction
                ELSE {r \in reaction : r.on # m.on} \cup {m}

-----------------------------------------------------------------------------
(* Calls.                                                                  *)

Message(id, kind, on, choice, digest) ==
    [id |-> id, kind |-> kind, on |-> on, choice |-> choice, digest |-> digest, ts |-> now]
NoMessage == [id |-> 0, kind |-> "none", on |-> 0, choice |-> {}, digest |-> 0, ts |-> 0]
Received == [id |-> 0, kind |-> "media", on |-> 0, choice |-> {}, digest |-> 1, ts |-> 0]

KindOf(op) == CASE op \in {"send_file", "send_audio_message"} -> "media"
                [] op = "send_poll" -> "poll"
                [] op = "vote_poll" -> "vote"
                [] op = "send_reaction" -> "reaction"
                [] op = "mark_read" -> "receipt"
                [] op = "send_message" -> "text"
                [] OTHER -> "request"

(* Bound: calls refer to what others sent, or to what a tool on the menu   *)
(* may send.                                                               *)
Referable ==
    IF menu \cap {"send_message", "send_file", "send_audio_message", "send_poll"} = {}
    THEN Targets \cap {0} ELSE Targets

Asked(op) ==
    CASE op = "vote_poll" -> Referable \X Requests
      [] op = "send_reaction" -> Referable \X {{}, {1}}
      [] op \in {"get_poll_results", "download_media"} -> Referable \X {{}}
      [] OTHER -> {<<0, {}>>}

Begin(c, op) ==
    /\ ~Busy(c) /\ calls < MaxCalls /\ calls < Cardinality(menu)
    /\ calls' = calls + 1
    /\ \E a \in Asked(op) :
          call' = [call EXCEPT ![c] =
              [op |-> op, id |-> calls + 1, at |-> 1, answer |-> "none", seen |-> {link},
               on |-> a[1], choice |-> a[2], digest |-> 0, ballot |-> {}, tally |-> {},
               expect |-> {v \in voted : op = "get_poll_results" /\ v.on = a[1]},
               msg |-> NoMessage, warned |-> FALSE]]
    /\ UNCHANGED <<link, trouble, menu, accepted, secrets, cache, blobs, inbox, ghosts, now>>

(* The call goes on to its next step, with what it has learnt.             *)
GoWith(c, k) == call' = [call EXCEPT ![c] = [k EXCEPT !.at = call[c].at + 1]]
Go(c) == GoWith(c, call[c])

(* What is kept of a call that ended is what its answer promises.          *)
Ended(k, answer) ==
    IF answer \in {"internal", "lost"} THEN Idle
    ELSE [op |-> k.op, id |-> k.id, at |-> 0, answer |-> answer,
          seen |-> IF answer \in {"not_paired", "not_connected"} THEN k.seen ELSE {},
          on |-> 0, choice |-> {}, digest |-> 0,
          ballot |-> IF k.op = "get_poll_results" THEN k.ballot ELSE {},
          tally |-> k.tally, expect |-> k.expect, msg |-> k.msg, warned |-> k.warned]
Reply(c, answer) == call' = [call EXCEPT ![c] = Ended(@, answer)]

(* A step that only decides whether the call goes on.                      *)
Check(c, step, passes, answers) ==
    /\ At(c, step)
    /\ \/ passes /\ Go(c)
       \/ \E a \in answers : Reply(c, a)
    /\ UNCHANGED <<link, trouble, menu, calls, accepted, secrets, cache, blobs, inbox, ghosts, now>>

(* pairingMiddleware and handleHealthz read the two predicates in turn.    *)
CheckPaired(c) ==
    Check(c, "paired", link # "unpaired", IF link = "unpaired" THEN {"not_paired"} ELSE {})
CheckConnected(c) ==
    Check(c, "connected", link = "online", IF link = "online" THEN {} ELSE {"not_connected"})

(* cache_sync's own look at the link, which takes an outage for an         *)
(* unpairing, and the start of a run, which is CacheSync's.                *)
CheckLoggedIn(c) ==
    Check(c, "loggedin", link = "online", IF link = "online" THEN {} ELSE {"not_paired"})
StartSync(c) == Check(c, "start", TRUE, {"internal"})

(* Arguments decode and parse, or not.                                     *)
CheckArgs(c) == Check(c, "args", TRUE, {"invalid_argument"})

(* SELECTs on contacts, nicknames, aliases, presence and chats.            *)
ReadContact(c) == Check(c, "read", TRUE, {"internal"})

(* The USync queries of get_contact_details: only a dead socket fails      *)
(* them, and a JID that is not a user's needs none.                        *)
AskDetails(c) ==
    Check(c, "details", TRUE,
          IF link = "online" THEN {"not_found"} ELSE {"not_found", "not_connected"})

(* GroupInfo.                                                              *)
Ask(c) ==
    Check(c, "ask", link = "online",
          IF link = "online" THEN {"not_found", "internal"} ELSE {"not_connected"})

(* resolveReactionTarget: the author the caller names, or the cached       *)
(* message's.                                                              *)
FindTarget(c) ==
    Check(c, "target", TRUE,
          {"invalid_argument", "internal"}
          \cup IF \E m \in rows : m.id = call[c].on THEN {} ELSE {"not_found"})

(* openMediaArg: the open file outlives an eviction.                       *)
OpenMedia(c) ==
    /\ At(c, "open")
    /\ \/ 1 \in blobs /\ GoWith(c, [call[c] EXCEPT !.digest = 1])
       \/ Reply(c, IF 1 \in blobs THEN "internal" ELSE "not_found")
    /\ UNCHANGED <<link, trouble, menu, calls, accepted, secrets, cache, blobs, inbox, ghosts, now>>

(* Playable audio, and what is not audio, goes as it is; the rest is       *)
(* transcoded and stored, or refused without ffmpeg.                       *)
PrepareAudio(c) ==
    /\ At(c, "prepare")
    /\ \/ Go(c) /\ UNCHANGED blobs
       \/ blobs' = blobs \cup {2} /\ GoWith(c, [call[c] EXCEPT !.digest = 2])
       \/ \E a \in {"invalid_argument", "internal"} : Reply(c, a) /\ UNCHANGED blobs
    /\ UNCHANGED <<link, trouble, menu, calls, accepted, secrets, cache, inbox, ghosts, now>>

Upload(c) == Check(c, "upload", link # "unpaired", {"media_unavailable"})

(* What the server may reject as the caller's mistake.                     *)
Rejections(op) == IF op \in {"account_op", "set_disappearing_timer"} THEN {"invalid_argument"} ELSE {}

(* wa.Client's own check, then the round trip: WhatsApp takes the message  *)
(* or not, and the caller may not learn which.                             *)
Send(c) ==
    /\ At(c, "send")
    /\ LET m == Message(call[c].id, KindOf(call[c].op), call[c].on, call[c].choice, call[c].digest)
       IN IF link # "online"
          THEN Reply(c, "not_connected") /\ UNCHANGED accepted
          ELSE \/ /\ accepted' = accepted \cup {m}
                  /\ \/ GoWith(c, [call[c] EXCEPT !.msg = m])
                     \/ Reply(c, "internal")
               \/ /\ \E a \in {"internal"} \cup Rejections(call[c].op) : Reply(c, a)
                  /\ UNCHANGED accepted
    /\ UNCHANGED <<link, trouble, menu, calls, secrets, cache, blobs, inbox, ghosts, now>>

(* Mutant of StoreSecret: a failure is a warning.                          *)
StoreSecretOrNot(c) ==
    /\ At(c, "secret")
    /\ Go(c)
    /\ \/ link # "unpaired" /\ secrets' = secrets \cup {call[c].id}
       \/ UNCHANGED secrets
    /\ UNCHANGED <<link, trouble, menu, calls, accepted, cache, blobs, inbox, ghosts, now>>

(* StoreMessageSecret: without a device there is no store.                 *)
StoreSecret(c) ==
    /\ At(c, "secret")
    /\ \/ link # "unpaired" /\ secrets' = secrets \cup {call[c].id} /\ Go(c)
       \/ Reply(c, "internal") /\ UNCHANGED secrets
    /\ UNCHANGED <<link, trouble, menu, calls, accepted, cache, blobs, inbox, ghosts, now>>

(* The mirrors: one statement on the cache each, for a message two.        *)
Mirrors(c, step) ==
    /\ At(c, step) /\ Go(c)
    /\ UNCHANGED <<link, trouble, menu, calls, accepted, secrets, blobs, inbox, ghosts, now>>

(* UpsertChat writes every column it is not told to keep, the unread count *)
(* among them.                                                             *)
MirrorChat(c) ==
    /\ Mirrors(c, "chat")
    /\ unread' = {}
    /\ UNCHANGED <<rows, polls, ballots, votes, reaction>>

MirrorRow(c) ==
    /\ Mirrors(c, "row")
    /\ rows' = rows \cup {call[c].msg}
    /\ UNCHANGED <<polls, ballots, votes, reaction, unread>>

MirrorBallot(c) ==
    /\ Mirrors(c, "ballot")
    /\ UpsertPoll(call[c].id)
    /\ UNCHANGED <<rows, votes, reaction, unread>>

(* OwnJID is a phone number; without a device there is none to key the     *)
(* vote by.                                                                *)
MirrorOwnVote(c) ==
    /\ Mirrors(c, "vote") /\ link # "unpaired"
    /\ UpsertPollVote([poll |-> call[c].on, voter |-> Me, as |-> "phone",
                       choice |-> call[c].choice, ts |-> call[c].msg.ts])
    /\ UNCHANGED <<rows, polls, ballots, reaction, unread>>

MirrorOwnReaction(c) ==
    /\ Mirrors(c, "reaction")
    /\ MirrorReaction(call[c].msg)
    /\ UNCHANGED <<rows, polls, ballots, votes, unread>>

ClearUnread(c) ==
    /\ Mirrors(c, "unread")
    /\ unread' = {}
    /\ UNCHANGED <<rows, polls, ballots, votes, reaction>>

(* A mirror that fails fails the call, though the message is out, but for  *)
(* mark_read, which answers with a warning.                                *)
MirrorFails(c) ==
    /\ \/ At(c, "unread") /\ GoWith(c, [call[c] EXCEPT !.warned = TRUE])
       \/ (\E s \in {"chat", "row", "ballot", "vote", "reaction"} : At(c, s)) /\ Reply(c, "internal")
    /\ UNCHANGED <<link, trouble, menu, calls, accepted, secrets, cache, blobs, inbox, ghosts, now>>

(* GetPoll: the header, then the ballot, in two SELECTs.                   *)
ReadPoll(c) ==
    Check(c, "poll", call[c].on \in polls,
          IF call[c].on \in polls THEN {"internal"} ELSE {"not_found"})
ReadOptions(c) ==
    /\ At(c, "options")
    /\ \/ GoWith(c, [call[c] EXCEPT !.ballot = {o \in Options : <<call[c].on, o>> \in ballots}])
       \/ Reply(c, "internal")
    /\ UNCHANGED <<link, trouble, menu, calls, accepted, secrets, cache, blobs, inbox, ghosts, now>>

(* matchPollOptions, and the selectable count.                             *)
Match(c) ==
    LET valid == call[c].choice \subseteq call[c].ballot /\ Cardinality(call[c].choice) <= Selectable
    IN Check(c, "match", valid, IF valid THEN {} ELSE {"invalid_argument"})

(* BuildPollVote encrypts with the poll's secret.                          *)
BuildVote(c) ==
    Check(c, "build", link = "online" /\ call[c].on \in secrets,
          IF link # "online" THEN {"not_connected"}
          ELSE IF call[c].on \notin secrets THEN {"not_found"} ELSE {"internal"})

(* ListPollVotes.                                                          *)
ReadVotes(c) ==
    /\ At(c, "votes")
    /\ \/ GoWith(c, [call[c] EXCEPT !.tally = {v \in votes : v.poll = call[c].on}])
       \/ Reply(c, "internal")
    /\ UNCHANGED <<link, trouble, menu, calls, accepted, secrets, cache, blobs, inbox, ghosts, now>>

(* download_media: the row, the store, the CDN, the store.                 *)
FindMedia(c) ==
    /\ At(c, "mediarow")
    /\ \/ \E m \in rows : /\ m.id = call[c].on
                          /\ IF m.digest = 0 THEN Reply(c, "no_media")
                             ELSE GoWith(c, [call[c] EXCEPT !.digest = m.digest])
       \/ (\A m \in rows : m.id # call[c].on) /\ Reply(c, "not_found")
    /\ UNCHANGED <<link, trouble, menu, calls, accepted, secrets, cache, blobs, inbox, ghosts, now>>
LookupMedia(c) ==
    /\ At(c, "lookup")
    /\ \/ IF call[c].digest \in blobs THEN Reply(c, "ok") ELSE Go(c)
       \/ Reply(c, "internal")
    /\ UNCHANGED <<link, trouble, menu, calls, accepted, secrets, cache, blobs, inbox, ghosts, now>>
FetchMedia(c) == Check(c, "fetch", link # "unpaired", {"media_unavailable"})
PutMedia(c) ==
    /\ At(c, "put")
    /\ \/ Go(c) /\ blobs' = blobs \cup {call[c].digest}
       \/ Reply(c, "internal") /\ UNCHANGED blobs
    /\ UNCHANGED <<link, trouble, menu, calls, accepted, secrets, cache, inbox, ghosts, now>>

(* The handler returns its result.                                         *)
Answer(c) ==
    /\ Busy(c) /\ call[c].at > Len(Program[call[c].op])
    /\ Reply(c, "ok")
    /\ readable' = IF call[c].op = "send_poll" /\ "unpaired" \notin call[c].seen
                   THEN readable \cup {call[c].id} ELSE readable
    /\ voted' = IF call[c].op = "vote_poll" THEN voted \cup {call[c].msg} ELSE voted
    /\ UNCHANGED <<link, trouble, menu, calls, accepted, secrets, cache, blobs, inbox, dropped, now>>

Step(c) ==
    \/ CheckPaired(c) \/ CheckConnected(c) \/ CheckArgs(c)
    \/ CheckLoggedIn(c) \/ StartSync(c)
    \/ ReadContact(c) \/ AskDetails(c) \/ Ask(c)
    \/ FindTarget(c) \/ OpenMedia(c) \/ PrepareAudio(c) \/ Upload(c)
    \/ Send(c) \/ StoreSecret(c)
    \/ MirrorChat(c) \/ MirrorRow(c) \/ MirrorBallot(c) \/ MirrorOwnVote(c) \/ MirrorOwnReaction(c)
    \/ ClearUnread(c) \/ MirrorFails(c)
    \/ ReadPoll(c) \/ ReadOptions(c) \/ Match(c) \/ BuildVote(c) \/ ReadVotes(c)
    \/ FindMedia(c) \/ LookupMedia(c) \/ FetchMedia(c) \/ PutMedia(c)
    \/ Answer(c)

-----------------------------------------------------------------------------
(* Everything else that happens.                                           *)

(* A poll of another member arrives, now or again in a history sync;       *)
(* whatsmeow stores the secret it came with, if any, and                   *)
(* persistPollCreation the ballot.                                         *)
PollArrives ==
    /\ "vote_poll" \in menu /\ "send_poll" \notin menu
    /\ link = "online"
    /\ UpsertPoll(0)
    /\ secrets' \in {secrets, secrets \cup {0}}
    /\ UNCHANGED <<link, trouble, menu, call, calls, accepted, rows, votes, reaction, unread,
                   blobs, inbox, ghosts, now>>

(* A member votes, or this account on its phone, under its phone number or *)
(* its LID; this account's only matters beside vote_poll.  Bound: a chat   *)
(* goes over to LIDs and not back.                                         *)
CastVote ==
    /\ menu \cap {"send_poll", "vote_poll"} # {}
    /\ \E p \in Targets \cap ({m.id : m \in {n \in accepted : n.kind = "poll"}} \cup polls) :
         \E u \in (IF "vote_poll" \in menu THEN {Me} ELSE Voters), o \in Options,
            a \in (IF \E v \in inbox \cup votes : v.as = "lid" THEN {"lid"} ELSE {"phone", "lid"}) :
               inbox' = inbox \cup {[poll |-> p, voter |-> u, as |-> a, choice |-> {o}, ts |-> now]}
    /\ Cardinality(inbox') <= 1
    /\ UNCHANGED <<link, trouble, menu, call, calls, accepted, secrets, cache, blobs, ghosts, now>>

(* handlePollVote: decrypt with the poll's secret, or drop.  Deliveries    *)
(* are in any order and may repeat.  Bound: on a poll of another member    *)
(* this account's phone votes once, and that vote repeats for ever.        *)
HandlePollVote ==
    \E v \in inbox :
       /\ \/ inbox' = inbox
          \/ "send_poll" \in menu /\ inbox' = inbox \ {v}
       /\ IF link # "unpaired" /\ v.poll \in secrets
          THEN UpsertPollVote(v) /\ UNCHANGED dropped
          ELSE dropped' = dropped \cup ({v.poll} \ {0}) /\ UNCHANGED votes
       /\ UNCHANGED <<link, trouble, menu, call, calls, accepted, secrets, rows, polls, ballots,
                      reaction, unread, blobs, readable, voted, now>>

(* The write of a decrypted vote fails, with a warning in the log.         *)
VoteNotWritten ==
    /\ trouble < MaxTrouble /\ trouble' = trouble + 1
    /\ \E v \in inbox : v.poll \in secrets /\ inbox' \in {inbox, inbox \ {v}}
    /\ UNCHANGED <<link, menu, call, calls, accepted, secrets, cache, blobs, ghosts, now>>

(* This account removes its reaction to a message on its phone.            *)
PhoneRemoves ==
    /\ "send_reaction" \in menu
    /\ \E on \in Referable : accepted' = accepted \cup {Message(0, "reaction", on, {}, 0)}
    /\ Cardinality({m \in accepted' : m.id = 0 /\ m.kind = "reaction"}) <= 1
    /\ UNCHANGED <<link, trouble, menu, call, calls, secrets, cache, blobs, inbox, ghosts, now>>

(* handleReaction stores it as a tool would, late or again.                *)
HandleReaction ==
    /\ \E m \in accepted : m.id = 0 /\ m.kind = "reaction" /\ MirrorReaction(m)
    /\ UNCHANGED <<link, trouble, menu, call, calls, accepted, secrets, rows, polls, ballots,
                   votes, unread, blobs, inbox, ghosts, now>>

(* handleMarkChatAsRead: the chat is marked read or unread on the phone.   *)
MarkedOnPhone ==
    /\ "mark_read" \in menu
    /\ unread' \in {{}, {now}}
    /\ UNCHANGED <<link, trouble, menu, call, calls, accepted, secrets, rows, polls, ballots,
                   votes, reaction, blobs, inbox, ghosts, now>>

(* The retention sweep.                                                    *)
Sweep ==
    /\ "send_file" \in menu
    /\ \E d \in blobs : blobs' = blobs \ {d}
    /\ UNCHANGED <<link, trouble, menu, call, calls, accepted, secrets, cache, inbox, ghosts, now>>

Relinked(new) ==
    [c \in Agents |-> IF Busy(c) THEN [call[c] EXCEPT !.seen = @ \cup {new}] ELSE call[c]]

(* The socket drops and comes back.                                        *)
Outage ==
    /\ trouble < MaxTrouble /\ trouble' = trouble + 1
    /\ \/ link = "online" /\ link' = "offline"
       \/ link = "offline" /\ link' = "online"
    /\ call' = Relinked(link')
    /\ UNCHANGED <<menu, calls, accepted, secrets, cache, blobs, inbox, ghosts, now>>

(* Unpairing deletes the device, and its secrets with it.                  *)
Unpair ==
    /\ trouble < MaxTrouble /\ trouble' = trouble + 1
    /\ link # "unpaired" /\ link' = "unpaired"
    /\ secrets' = {} /\ readable' = {}
    /\ call' = Relinked(link')
    /\ UNCHANGED <<menu, calls, accepted, cache, blobs, inbox, dropped, voted, now>>

(* The same account links again.                                           *)
Pair ==
    /\ trouble < MaxTrouble /\ trouble' = trouble + 1
    /\ link = "unpaired" /\ link' = "online"
    /\ call' = Relinked(link')
    /\ UNCHANGED <<menu, calls, accepted, secrets, cache, blobs, inbox, ghosts, now>>

(* A crash ends the calls and loses the votes in memory; the files stay.   *)
Crash ==
    /\ trouble < MaxTrouble /\ trouble' = trouble + 1
    /\ link' = IF link = "unpaired" THEN link ELSE "offline"
    /\ call' = [c \in Agents |-> IF Busy(c) THEN Ended(call[c], "lost") ELSE call[c]]
    /\ inbox' = {}
    /\ UNCHANGED <<menu, calls, accepted, secrets, cache, blobs, ghosts, now>>

Tick ==
    /\ menu \cap {"send_poll", "vote_poll", "mark_read", "send_reaction"} # {}
    /\ now < MaxTime /\ now' = now + 1
    /\ UNCHANGED <<link, trouble, menu, call, calls, accepted, secrets, cache, blobs, inbox, ghosts>>

Init ==
    /\ link \in Links /\ trouble = 0
    /\ menu \in Menus
    /\ call = [c \in Agents |-> Idle] /\ calls = 0
    /\ accepted = {Received} /\ secrets = {}
    /\ rows = {Received} /\ polls = {} /\ ballots = {} /\ votes = {}
    /\ reaction = {} /\ unread = {0}
    /\ blobs = {1}
    /\ inbox = {} /\ dropped = {} /\ readable = {} /\ voted = {}
    /\ now = 0

Next ==
    \/ \E c \in Agents : Step(c) \/ \E op \in menu : Begin(c, op)
    \/ PollArrives \/ CastVote \/ HandlePollVote \/ VoteNotWritten
    \/ PhoneRemoves \/ HandleReaction \/ MarkedOnPhone \/ Sweep
    \/ Outage \/ Unpair \/ Pair \/ Crash \/ Tick

Spec == Init /\ [][Next]_vars

-----------------------------------------------------------------------------
(* Properties.                                                             *)

(* Every variable has its type.                                            *)
TypeOK ==
    /\ link \in Links /\ trouble \in 0..MaxTrouble /\ calls \in Ids /\ now \in 0..MaxTime
    /\ secrets \subseteq Ids /\ polls \subseteq Ids /\ ballots \subseteq Ids \X Options
    /\ unread \subseteq 0..now /\ (\A s, t \in unread : s = t) /\ blobs \subseteq {1, 2}
    /\ \A v, w \in votes : SameVoter(v, w) => v = w
    /\ \A r, s \in reaction : r.on = s.on => r = s

(* The cache shows no message and no reaction of this account that         *)
(* WhatsApp did not accept, and each with the digest it was sent with.     *)
(* (The read flag is not among them: a send clears it without a receipt.)  *)
MirroredWasSent == rows \subseteq accepted /\ reaction \subseteq accepted

Refusals == {"not_paired", "not_connected", "invalid_argument", "not_found", "no_media",
             "media_unavailable"}

(* A refusal is true and leaves nothing behind: the device was unpaired at *)
(* some moment of a call that answers not_paired (of cache_sync: not       *)
(* connected), linked and down at some moments of one that answers         *)
(* not_connected, and WhatsApp accepted nothing from a call that was       *)
(* refused.                                                                *)
RefusalIsTrue ==
    \A c \in Agents : call[c].answer \in Refusals =>
        /\ \A m \in accepted : m.id # call[c].id
        /\ call[c].answer = "not_paired" =>
              IF call[c].op = "cache_sync" THEN call[c].seen # {"online"}
                                           ELSE "unpaired" \in call[c].seen
        /\ call[c].answer = "not_connected" => /\ call[c].seen \cap {"offline", "online"} # {}
                                               /\ call[c].seen # {"online"}

Removed(on) == \E m \in accepted : m.kind = "reaction" /\ m.on = on /\ m.choice = {}

(* What a tool reports done is done.  WhatsApp accepted the message, and   *)
(* the cache has it, or what no earlier second put in its place: the row   *)
(* of a message, the ballot of a poll to be voted on, a vote, a reaction   *)
(* unless this account also removed one from that message, a read chat     *)
(* unless it was marked unread again.                                      *)
DoneIsDone ==
    \A c \in Agents : call[c].answer = "ok" =>
        LET m == call[c].msg IN
        /\ KindOf(call[c].op) # "request" => m \in accepted
        /\ m.kind \in {"text", "media", "poll"} => m \in rows
        /\ m.kind = "poll" => m.id \in polls /\ {m.id} \X Options \subseteq ballots
        /\ m.kind = "vote" => \E v \in votes : /\ v.poll = m.on /\ v.voter = Me
                                               /\ v.as = "phone" /\ v.ts >= m.ts
        /\ m.kind = "reaction" =>
              Removed(m.on) \/ \E r \in reaction : r.on = m.on /\ r.ts >= m.ts
        /\ m.kind = "receipt" => call[c].warned \/ \A t \in unread : t >= m.ts

(* The results of a poll: no voter JID is counted twice, nor for an option *)
(* that is not on the ballot, and a vote reported cast before the question *)
(* is counted, unless another of that second or a later one replaced it.   *)
ResultsAreRight ==
    \A c \in Agents : call[c].op = "get_poll_results" /\ call[c].answer = "ok" =>
        /\ \A v, w \in call[c].tally : SameVoter(v, w) => v = w
        /\ \A v \in call[c].tally : v.choice \subseteq call[c].ballot
        /\ \A m \in call[c].expect : \E v \in call[c].tally :
              v.voter = Me /\ v.as = "phone" /\ (v.ts > m.ts \/ v.ts = m.ts)

(* A vote on a poll that send_poll reported sent is counted when it is     *)
(* handled, for as long as the device stays linked: its secret is in       *)
(* whatsmeow's store.  Only a later vote of the same voter JID stands in   *)
(* its place.                                                              *)
VotesCounted ==
    [][trouble' = trouble => \A v \in inbox \ inbox' : v.poll \in readable =>
          \E w \in votes' : SameVoter(v, w) /\ w.ts >= v.ts]_vars

(* "The poll's secret is either in whatsmeow's store or it never will be". *)
SecretNowOrNever == dropped \cap secrets = {}

(* not_paired "indicates no device credentials exist on disk" (mcp.go).    *)
NotPairedMeansUnlinked ==
    \A c \in Agents : call[c].answer = "not_paired" => "unpaired" \in call[c].seen

(* The tally has "one row per voter" (cache/polls.go), whatever the voter  *)
(* is called.                                                              *)
NobodyTwice ==
    \A c \in Agents : call[c].op = "get_poll_results" =>
        \A v, w \in call[c].tally :
            v.voter = w.voter /\ v.choice # {} /\ w.choice # {} => v = w

=============================================================================
