----------------------------- MODULE ToolsProofs -----------------------------
(***************************************************************************)
(* Proofs about Tools, for any agents, menus, ballots, calls and troubles: *)
(* what the cache shows was sent, refusals are true, what is reported done *)
(* is done, the results of a poll are right, and a vote on a poll that was *)
(* reported sent is counted.                                               *)
(*                                                                         *)
(* The invariant says of a call in progress what the steps it has taken    *)
(* have established, and the lemmas that those facts survive whatever      *)
(* else happens between two steps.                                         *)
(***************************************************************************)
EXTENDS Tools, TLAPS

Ops == DOMAIN Program

-----------------------------------------------------------------------------
(* The programs.  A tool asks the gate first; what comes after its send    *)
(* can only mirror, and what mirrors comes after it.                       *)

After == {"secret", "chat", "row", "ballot", "vote", "reaction", "unread"}

Well(op, p) ==
    /\ Len(p) \in Nat
    /\ Len(p) > 0 => p[1] = "paired"
    /\ \A i, j \in 1..Len(p) : p[i] = "send" /\ j > i => p[j] \in After
    /\ \A j \in 1..Len(p) :
          /\ p[j] \in After => \E i \in 1..Len(p) : i < j /\ p[i] = "send"
          /\ p[j] = "put" => \E i \in 1..Len(p) : i < j /\ p[i] = "mediarow"
          /\ p[j] = "options" => \E i \in 1..Len(p) : i < j /\ p[i] = "poll"
          /\ p[j] = "vote" => \E i \in 1..Len(p) : i < j /\ p[i] = "match"
          /\ p[j] = "unread" => op = "mark_read"
          /\ p[j] = "reaction" => op = "send_reaction"
          /\ p[j] = "loggedin" => op = "cache_sync"
          /\ p[j] = "lookup" => op = "download_media"
    /\ KindOf(op) # "request" => \E i \in 1..Len(p) : p[i] = "send"
    /\ KindOf(op) \in {"text", "media", "poll"} => \E i \in 1..Len(p) : p[i] = "row"
    /\ KindOf(op) = "poll" => \E i \in 1..Len(p) : p[i] = "ballot"
    /\ KindOf(op) = "receipt" => \E i \in 1..Len(p) : p[i] = "unread"
    /\ KindOf(op) = "reaction" => \E i \in 1..Len(p) : p[i] = "reaction"
    /\ KindOf(op) = "vote" => \E i \in 1..Len(p) : p[i] = "vote"
    /\ op = "send_poll" => \E i \in 1..Len(p) : p[i] = "secret"
    /\ op = "vote_poll" => \E i \in 1..Len(p) : p[i] = "vote"
    /\ op = "get_poll_results" => \E i, j \in 1..Len(p) : p[i] = "options" /\ p[j] = "votes"

LEMMA SendMessageWell == Well("send_message", SendMessage)
<1>1. /\ Len(SendMessage) = 6 /\ SendMessage[1] = "paired" /\ SendMessage[2] = "connected"
      /\ SendMessage[3] = "args" /\ SendMessage[4] = "send" /\ SendMessage[5] = "chat"
      /\ SendMessage[6] = "row"
  BY DEF SendMessage, Gate
<1>2. KindOf("send_message") = "text"
  BY DEF KindOf
<1> QED
  BY <1>1, <1>2 DEF Well, After

LEMMA SendFileWell == Well("send_file", SendFile)
<1>1. /\ Len(SendFile) = 9 /\ SendFile[1] = "paired" /\ SendFile[2] = "connected"
      /\ SendFile[3] = "args" /\ SendFile[4] = "open" /\ SendFile[5] = "prepare"
      /\ SendFile[6] = "upload" /\ SendFile[7] = "send" /\ SendFile[8] = "chat"
      /\ SendFile[9] = "row"
  BY DEF SendFile, Gate
<1>2. KindOf("send_file") = "media"
  BY DEF KindOf
<1> QED
  BY <1>1, <1>2 DEF Well, After

LEMMA SendAudioMessageWell == Well("send_audio_message", SendAudioMessage)
<1>1. /\ Len(SendAudioMessage) = 9 /\ SendAudioMessage[1] = "paired"
      /\ SendAudioMessage[2] = "connected" /\ SendAudioMessage[3] = "args"
      /\ SendAudioMessage[4] = "open" /\ SendAudioMessage[5] = "prepare"
      /\ SendAudioMessage[6] = "upload" /\ SendAudioMessage[7] = "send"
      /\ SendAudioMessage[8] = "chat" /\ SendAudioMessage[9] = "row"
  BY DEF SendAudioMessage, Gate
<1>2. KindOf("send_audio_message") = "media"
  BY DEF KindOf
<1> QED
  BY <1>1, <1>2 DEF Well, After

LEMMA SendReactionWell == Well("send_reaction", SendReaction)
<1>1. /\ Len(SendReaction) = 6 /\ SendReaction[1] = "paired" /\ SendReaction[2] = "connected"
      /\ SendReaction[3] = "args" /\ SendReaction[4] = "target" /\ SendReaction[5] = "send"
      /\ SendReaction[6] = "reaction"
  BY DEF SendReaction, Gate
<1>2. KindOf("send_reaction") = "reaction"
  BY DEF KindOf
<1> QED
  BY <1>1, <1>2 DEF Well, After

LEMMA MarkReadWell == Well("mark_read", MarkRead)
<1>1. /\ Len(MarkRead) = 5 /\ MarkRead[1] = "paired" /\ MarkRead[2] = "connected"
      /\ MarkRead[3] = "args" /\ MarkRead[4] = "send" /\ MarkRead[5] = "unread"
  BY DEF MarkRead, Gate
<1>2. KindOf("mark_read") = "receipt"
  BY DEF KindOf
<1> QED
  BY <1>1, <1>2 DEF Well, After

LEMMA DownloadMediaWell == Well("download_media", DownloadMedia)
<1>1. /\ Len(DownloadMedia) = 7 /\ DownloadMedia[1] = "paired" /\ DownloadMedia[2] = "connected"
      /\ DownloadMedia[3] = "args" /\ DownloadMedia[4] = "mediarow"
      /\ DownloadMedia[5] = "lookup" /\ DownloadMedia[6] = "fetch" /\ DownloadMedia[7] = "put"
  BY DEF DownloadMedia, Gate
<1>2. KindOf("download_media") = "request"
  BY DEF KindOf
<1> QED
  BY <1>1, <1>2 DEF Well, After

LEMMA SendPollWell == Well("send_poll", SendPoll)
<1>1. /\ Len(SendPoll) = 8 /\ SendPoll[1] = "paired" /\ SendPoll[2] = "connected"
      /\ SendPoll[3] = "args" /\ SendPoll[4] = "send" /\ SendPoll[5] = "secret"
      /\ SendPoll[6] = "chat" /\ SendPoll[7] = "row" /\ SendPoll[8] = "ballot"
  BY DEF SendPoll, Gate
<1>2. KindOf("send_poll") = "poll"
  BY DEF KindOf
<1> QED
  BY <1>1, <1>2 DEF Well, After

LEMMA VotePollWell == Well("vote_poll", VotePoll)
<1>1. /\ Len(VotePoll) = 9 /\ VotePoll[1] = "paired" /\ VotePoll[2] = "connected"
      /\ VotePoll[3] = "args" /\ VotePoll[4] = "poll" /\ VotePoll[5] = "options"
      /\ VotePoll[6] = "match" /\ VotePoll[7] = "build" /\ VotePoll[8] = "send"
      /\ VotePoll[9] = "vote"
  BY DEF VotePoll, Gate
<1>2. KindOf("vote_poll") = "vote"
  BY DEF KindOf
<1> QED
  BY <1>1, <1>2 DEF Well, After

LEMMA GetPollResultsWell == Well("get_poll_results", GetPollResults)
<1>1. /\ Len(GetPollResults) = 6 /\ GetPollResults[1] = "paired"
      /\ GetPollResults[2] = "connected" /\ GetPollResults[3] = "args"
      /\ GetPollResults[4] = "poll" /\ GetPollResults[5] = "options"
      /\ GetPollResults[6] = "votes"
  BY DEF GetPollResults, Gate
<1>2. KindOf("get_poll_results") = "request"
  BY DEF KindOf
<1> QED
  BY <1>1, <1>2 DEF Well, After

LEMMA CacheSyncWell == Well("cache_sync", CacheSyncTool)
<1>1. /\ Len(CacheSyncTool) = 4 /\ CacheSyncTool[1] = "paired"
      /\ CacheSyncTool[2] = "connected" /\ CacheSyncTool[3] = "loggedin"
      /\ CacheSyncTool[4] = "start"
  BY DEF CacheSyncTool
<1>2. KindOf("cache_sync") = "request"
  BY DEF KindOf
<1> QED
  BY <1>1, <1>2 DEF Well, After

LEMMA ProgramWell ==
    ASSUME NEW op \in Ops PROVE Well(op, Program[op])
<1>1. CASE op = "ping"
  BY <1>1 DEF Program, Well, KindOf, After, Gate
<1>2. CASE op = "healthz"
  BY <1>2 DEF Program, Well, KindOf, After, Gate, Healthz
<1>3. CASE op = "list_messages"
  BY <1>3 DEF Program, Well, KindOf, After, Gate, CacheOnly
<1>4. CASE op = "account_op"
  BY <1>4 DEF Program, Well, KindOf, After, Gate, AccountOp
<1>5. CASE op = "set_disappearing_timer"
  BY <1>5 DEF Program, Well, KindOf, After, Gate, SetDisappearingTimer
<1>6. CASE op = "get_contact_details"
  BY <1>6 DEF Program, Well, KindOf, After, Gate, GetContactDetails
<1>7. CASE op = "get_group_info"
  BY <1>7 DEF Program, Well, KindOf, After, Gate, GetGroupInfo
<1>8. CASE op = "resolve_jid"
  BY <1>8 DEF Program, Well, KindOf, After, Gate, ResolveJID
<1>9. CASE op = "search_contacts"
  BY <1>9 DEF Program, Well, KindOf, After, Gate, SearchContacts
<1>10. CASE op = "send_message"
  BY <1>10, SendMessageWell DEF Program
<1>11. CASE op = "send_file"
  BY <1>11, SendFileWell DEF Program
<1>12. CASE op = "send_audio_message"
  BY <1>12, SendAudioMessageWell DEF Program
<1>13. CASE op = "send_reaction"
  BY <1>13, SendReactionWell DEF Program
<1>14. CASE op = "mark_read"
  BY <1>14, MarkReadWell DEF Program
<1>15. CASE op = "download_media"
  BY <1>15, DownloadMediaWell DEF Program
<1>16. CASE op = "send_poll"
  BY <1>16, SendPollWell DEF Program
<1>17. CASE op = "vote_poll"
  BY <1>17, VotePollWell DEF Program
<1>18. CASE op = "get_poll_results"
  BY <1>18, GetPollResultsWell DEF Program
<1>19. CASE op = "cache_sync"
  BY <1>19, CacheSyncWell DEF Program
<1> QED
  BY <1>1, <1>2, <1>3, <1>4, <1>5, <1>6, <1>7, <1>8, <1>9, <1>10, <1>11, <1>12, <1>13, <1>14,
     <1>15, <1>16, <1>17, <1>18, <1>19 DEF Ops, Program

-----------------------------------------------------------------------------
(* Types.                                                                  *)

Choices == Requests \cup {{}, {1}}
Kinds == {"text", "media", "poll", "vote", "reaction", "receipt", "request", "none"}
Answers == Refusals \cup {"none", "ok"}
MessageType == [id : Ids, kind : Kinds, on : Ids, choice : Choices, digest : {0, 1, 2}, ts : Nat]
VoteType == [poll : Ids, voter : Voters \cup {Me}, as : {"phone", "lid"},
             choice : SUBSET Options, ts : Nat]
CallType == [op : Ops, id : Ids \ {0}, at : Nat, answer : Answers, seen : SUBSET Links,
             on : Ids, choice : Choices, digest : {0, 1, 2}, ballot : SUBSET Options,
             tally : SUBSET VoteType, expect : SUBSET MessageType, msg : MessageType,
             warned : BOOLEAN]

-----------------------------------------------------------------------------
(* The invariant.                                                          *)

Code(c) == Program[call[c].op]

(* A vote of this account at t, or one no older, is in the cache.          *)
Counted(p, t) ==
    \E v \in votes : v.poll = p /\ v.voter = Me /\ v.as = "phone" /\ (v.ts > t \/ v.ts = t)

(* So is its reaction at t, unless it also removed one.                    *)
Reacted(p, t) == Removed(p) \/ \E r \in reaction : r.on = p /\ (r.ts > t \/ r.ts = t)

(* The chat was not marked unread before t.                                *)
ReadSince(t) == \A u \in unread : u > t \/ u = t
Read(m) == m \in accepted /\ ReadSince(m.ts)

Unsent(c) == \A m \in accepted : m.id # call[c].id

TallyRight(c) ==
    /\ \A v, w \in call[c].tally : SameVoter(v, w) => v = w
    /\ \A v \in call[c].tally : v.choice \subseteq Options
    /\ \A m \in call[c].expect : \E v \in call[c].tally :
          v.voter = Me /\ v.as = "phone" /\ (v.ts > m.ts \/ v.ts = m.ts)

(* What a step that was taken has established.                             *)
Fact(c, s) ==
    /\ s = "paired" => call[c].seen \cap {"offline", "online"} # {}
    /\ s = "send" => /\ call[c].msg \in accepted
                     /\ call[c].msg.kind = KindOf(call[c].op)
                     /\ call[c].msg.id = call[c].id /\ call[c].msg.on = call[c].on
    /\ s = "secret" => "unpaired" \in call[c].seen \/ call[c].id \in secrets
    /\ s = "row" => call[c].msg \in rows
    /\ s = "ballot" => call[c].id \in polls
    /\ s = "vote" => Counted(call[c].on, call[c].msg.ts) /\ call[c].msg.on = call[c].on
    /\ s = "reaction" => Reacted(call[c].msg.on, call[c].msg.ts)
    /\ s = "unread" => call[c].warned \/ Read(call[c].msg)
    /\ s = "mediarow" => call[c].digest # 0
    /\ s = "poll" => call[c].on \in polls
    /\ s = "options" => call[c].ballot = Options
    /\ s = "match" => call[c].choice \subseteq Options
    /\ s = "votes" => TallyRight(c)

Running(c) ==
    /\ call[c].at \in 1..(Len(Code(c)) + 1)
    /\ link \in call[c].seen
    /\ \A i \in 1..Len(Code(c)) : i < call[c].at => Fact(c, Code(c)[i])
    /\ (\A i \in 1..Len(Code(c)) : i < call[c].at => Code(c)[i] # "send") =>
          call[c].msg = NoMessage /\ Unsent(c)
    /\ \A v \in call[c].expect : v \in voted /\ v.on = call[c].on

Refused(c) ==
    /\ Unsent(c)
    /\ call[c].answer = "not_paired" =>
          IF call[c].op = "cache_sync" THEN call[c].seen # {"online"}
                                       ELSE "unpaired" \in call[c].seen
    /\ call[c].answer = "not_connected" => /\ call[c].seen \cap {"offline", "online"} # {}
                                           /\ call[c].seen # {"online"}

Done(c) ==
    /\ KindOf(call[c].op) # "request" => call[c].msg \in accepted
    /\ call[c].msg.kind \in {"text", "media", "poll"} => call[c].msg \in rows
    /\ call[c].msg.kind = "poll" => call[c].msg.id \in polls
    /\ call[c].msg.kind = "vote" => Counted(call[c].msg.on, call[c].msg.ts)
    /\ call[c].msg.kind = "reaction" => Reacted(call[c].msg.on, call[c].msg.ts)
    /\ call[c].msg.kind = "receipt" => call[c].warned \/ Read(call[c].msg)
    /\ call[c].op = "get_poll_results" => TallyRight(c) /\ call[c].ballot = Options

CallOK(c) ==
    /\ call[c].answer = "none" => Running(c)
    /\ call[c].answer \in Refusals => Refused(c)
    /\ call[c].answer = "ok" => Done(c)

(* A call has an id of its own.                                            *)
OwnId(c) ==
    /\ call[c].id <= calls
    /\ \A d \in Agents \ {c} : call[d].op # "none" => call[d].id # call[c].id

CallsOK ==
    /\ call \in [Agents -> CallType \cup {Idle}]
    /\ \A c \in Agents : call[c].op # "none" => OwnId(c) /\ CallOK(c)

WorldOK ==
    /\ menu \in Menus
    /\ now \in Nat /\ calls \in Nat
    /\ accepted \subseteq MessageType /\ \A m \in accepted : m.id <= calls /\ m.ts <= now
    /\ votes \subseteq VoteType /\ inbox \subseteq VoteType
    /\ voted \subseteq MessageType /\ \A m \in voted : Counted(m.on, m.ts)
    /\ \A p \in polls : {p} \X Options \subseteq ballots
    /\ readable \subseteq secrets /\ (link = "unpaired" => readable = {})

IInv == TypeOK /\ MirroredWasSent /\ WorldOK /\ CallsOK

-----------------------------------------------------------------------------
(* What every step of another call leaves as it is, or only adds to.       *)

Grows ==
    /\ accepted \subseteq accepted' /\ rows \subseteq rows' /\ polls \subseteq polls'
    /\ voted \subseteq voted'
    /\ \A p \in Ids, t \in Nat : Counted(p, t) => Counted(p, t)'
    /\ \A p \in Ids, t \in Nat : Reacted(p, t) => Reacted(p, t)'
    /\ \A t \in 0..now : ReadSince(t) => ReadSince(t)'

LEMMA Growing ==
    ASSUME accepted \subseteq accepted', rows \subseteq rows', polls \subseteq polls',
           voted \subseteq voted', reaction' = reaction, unread' \subseteq unread,
           \/ votes' = votes
           \/ \A p \in Ids, t \in Nat : Counted(p, t) => Counted(p, t)'
    PROVE  Grows
<1>1. \A p \in Ids, t \in Nat : Counted(p, t) => Counted(p, t)'
  BY DEF Counted
<1>2. \A p : Removed(p) => Removed(p)'
  BY DEF Removed
<1>3. \A p \in Ids, t \in Nat : Reacted(p, t) => Reacted(p, t)'
  BY <1>2 DEF Reacted
<1>4. \A t \in 0..now : ReadSince(t) => ReadSince(t)'
  BY DEF ReadSince
<1> QED
  BY <1>1, <1>3, <1>4 DEF Grows

(* One step of a call leaves who it is and only adds to what it holds.     *)
Along(c) ==
    /\ call'[c] \in CallType
    /\ call'[c].op = call[c].op /\ call'[c].id = call[c].id
    /\ call'[c].on = call[c].on /\ call'[c].choice = call[c].choice
    /\ call'[c].expect = call[c].expect /\ call'[c].answer = call[c].answer
    /\ call[c].seen \subseteq call'[c].seen
    /\ call[c].warned => call'[c].warned
    /\ call'[c].digest = call[c].digest \/ call'[c].digest # 0
    /\ call'[c].ballot = call[c].ballot \/ call'[c].ballot = Options

(* Only call c moves, and only it can have sent something.                 *)
OnlyMoves(c) ==
    /\ call' \in [Agents -> CallType \cup {Idle}]
    /\ \A d \in Agents \ {c} : call'[d] = call[d]
    /\ call'[c].op # "none" => call'[c].id = call[c].id
    /\ link' = link /\ secrets \subseteq secrets' /\ calls' = calls
    /\ \A m \in accepted' : m \in accepted \/ m.id = call[c].id
    /\ Grows

(* The step of call c that is due is done, and what it establishes holds.  *)
Steps(c, step) ==
    /\ At(c, step)
    /\ Along(c) /\ call'[c].at = call[c].at + 1 /\ call'[c].seen = call[c].seen
    /\ step # "send" => call'[c].msg = call[c].msg /\ accepted' = accepted
    /\ step # "votes" => call'[c].tally = call[c].tally
    /\ Fact(c, step)'

LEMMA NotAnOp == "none" \notin Ops
  BY DEF Ops, Program

LEMMA BusyType ==
    ASSUME IInv, NEW c \in Agents, Busy(c)
    PROVE  /\ call[c] \in CallType /\ call[c].op # "none" /\ Well(call[c].op, Code(c))
           /\ Running(c) /\ OwnId(c)
<1>1. call[c] \in CallType
  BY DEF IInv, CallsOK, Busy, Idle
<1>2. Well(call[c].op, Code(c))
  BY <1>1, ProgramWell DEF CallType, Code
<1> QED
  BY <1>1, <1>2 DEF IInv, CallsOK, Busy, CallOK

LEMMA Ending ==
    ASSUME NEW k \in CallType, NEW a \in Refusals \cup {"ok", "internal", "lost"}
    PROVE  /\ a \in {"internal", "lost"} => Ended(k, a) = Idle
           /\ a \notin {"internal", "lost"} =>
                /\ Ended(k, a) \in CallType
                /\ Ended(k, a).op = k.op /\ Ended(k, a).id = k.id /\ Ended(k, a).answer = a
                /\ Ended(k, a).msg = k.msg /\ Ended(k, a).warned = k.warned
                /\ Ended(k, a).expect = k.expect /\ Ended(k, a).tally = k.tally
                /\ a \in {"not_paired", "not_connected"} => Ended(k, a).seen = k.seen
                /\ k.op = "get_poll_results" => Ended(k, a).ballot = k.ballot
  BY ToolsAssumption DEF Ended, Idle, CallType, Choices, Ids, Answers, Refusals

LEMMA ReadStays ==
    ASSUME IInv, NEW m, Read(m), Grows
    PROVE  m \in accepted' /\ ReadSince(m.ts)'
<1> DEFINE t == m.ts
<1>1. m \in accepted /\ ReadSince(t)
  BY DEF Read
<1>2. t \in 0..now
  BY <1>1 DEF IInv, WorldOK, MessageType
<1> HIDE DEF t
<1>3. \A u \in unread' : u > t \/ u = t
  BY <1>1, <1>2 DEF Grows, ReadSince
<1> QED
  BY <1>1, <1>3 DEF Grows, ReadSince, t

LEMMA FactStays ==
    ASSUME IInv, NEW c \in Agents, NEW s, Fact(c, s), call[c] \in CallType, Along(c), Grows,
           secrets \subseteq secrets' \/ "unpaired" \in call'[c].seen,
           s \in {"send", "row", "vote", "reaction", "unread"} => call'[c].msg = call[c].msg,
           s = "votes" => call'[c].tally = call[c].tally
    PROVE  Fact(c, s)'
<1>1. s = "vote" => Counted(call[c].on, call[c].msg.ts)'
  <2> SUFFICES ASSUME s = "vote" PROVE Counted(call[c].on, call[c].msg.ts)'
    OBVIOUS
  <2>1. PICK v \in votes : v.poll = call[c].on /\ v.voter = Me /\ v.as = "phone"
                           /\ (v.ts > call[c].msg.ts \/ v.ts = call[c].msg.ts)
    BY DEF Fact, Counted
  <2>2. \A p \in Ids, t \in Nat :
           (\E w \in votes : w.poll = p /\ w.voter = Me /\ w.as = "phone" /\ (w.ts > t \/ w.ts = t))
            => \E w \in votes' : w.poll = p /\ w.voter = Me /\ w.as = "phone" /\ (w.ts > t \/ w.ts = t)
    BY DEF Grows, Counted
  <2>3. \E w \in votes' : w.poll = call[c].on /\ w.voter = Me /\ w.as = "phone"
                          /\ (w.ts > call[c].msg.ts \/ w.ts = call[c].msg.ts)
    BY <2>1, <2>2 DEF CallType, MessageType
  <2> QED
    BY <2>3 DEF Counted, Along
<1>2. s = "votes" => TallyRight(c)'
  BY DEF Fact, TallyRight, Along
<1>3. s \in {"paired", "secret"} => Fact(c, s)'
  BY DEF Fact, Along
<1>4. s \in {"send", "row", "ballot", "poll"} => Fact(c, s)'
  BY DEF Fact, Along, Grows
<1>5. s \in {"mediarow", "options", "match"} => Fact(c, s)'
  BY DEF Fact, Along
<1>6. s = "vote" => (call[c].msg.on = call[c].on)'
  BY DEF Fact, Along
<1>7. s = "reaction" => Reacted(call[c].msg.on, call[c].msg.ts)'
  <2> SUFFICES ASSUME s = "reaction" PROVE Reacted(call[c].msg.on, call[c].msg.ts)'
    OBVIOUS
  <2> DEFINE p == call[c].msg.on
             t == call[c].msg.ts
  <2>1. p \in Ids /\ t \in Nat /\ Reacted(p, t)
    BY DEF Fact, CallType, MessageType
  <2>2. (\E m \in accepted' : m.kind = "reaction" /\ m.on = p /\ m.choice = {})
        \/ \E r \in reaction' : r.on = p /\ (r.ts > t \/ r.ts = t)
    <3> HIDE DEF p, t
    <3> QED
      BY <2>1 DEF Grows, Reacted, Removed
  <2> QED
    BY <2>2 DEF Reacted, Removed
<1>8. s = "unread" => (call[c].warned \/ Read(call[c].msg))'
  <2> SUFFICES ASSUME s = "unread" PROVE call'[c].warned \/ Read(call[c].msg)'
    OBVIOUS
  <2>1. CASE call[c].warned
    BY <2>1 DEF Along
  <2>2. CASE ~call[c].warned
    <3>1. Read(call[c].msg) /\ call'[c].msg = call[c].msg
      BY <2>2 DEF Fact
    <3> QED
      BY <3>1, ReadStays DEF Read
  <2> QED
    BY <2>1, <2>2
<1> QED
  BY <1>1, <1>2, <1>3, <1>4, <1>5, <1>6, <1>7, <1>8 DEF Fact

LEMMA Advance ==
    ASSUME IInv, NEW c \in Agents, NEW step, Steps(c, step), OnlyMoves(c)
    PROVE  CallOK(c)'
<1> USE DEF Steps
<1>1. /\ call[c] \in CallType /\ Well(call[c].op, Code(c)) /\ Running(c)
      /\ call[c].answer = "none" /\ call[c].at \in 1..Len(Code(c)) /\ Code(c)[call[c].at] = step
  <2>1. Busy(c) /\ call[c].at <= Len(Code(c)) /\ Code(c)[call[c].at] = step
    BY DEF At, Code
  <2>2. call[c] \in CallType /\ Well(call[c].op, Code(c)) /\ Running(c)
    BY <2>1, BusyType
  <2>3. call[c].at \in 1..(Len(Code(c)) + 1) /\ Len(Code(c)) \in Nat
    BY <2>2 DEF Running, Well
  <2> QED
    BY <2>1, <2>2, <2>3 DEF Busy
<1>2. Code(c)' = Code(c)
  BY DEF Code, Along
<1>3. ASSUME NEW i \in 1..Len(Code(c)), i < call[c].at + 1, NEW s, s = Code(c)[i]
      PROVE  Fact(c, s)'
  <2>1. CASE s = step
    BY <2>1
  <2>2. CASE s # step
    <3>1. i < call[c].at
      BY <1>1, <1>3, <2>2 DEF Well
    <3>2. Fact(c, s)
      BY <1>1, <1>3, <3>1 DEF Running
    <3>3. step = "send" => s \notin {"send", "row", "vote", "reaction", "unread"}
      <4> SUFFICES ASSUME step = "send", s \in {"send", "row", "vote", "reaction", "unread"} PROVE FALSE
        OBVIOUS
      <4>1. PICK j \in 1..Len(Code(c)) : j < call[c].at /\ Code(c)[j] = "send"
        <5>1. CASE s = "send"
          BY <1>3, <3>1, <5>1
        <5>2. CASE s # "send"
          BY <1>3, <3>1, <5>2, <1>1 DEF Well, After
        <5> QED
          BY <5>1, <5>2
      <4>2. Code(c)[call[c].at] \in After
        BY <4>1, <1>1 DEF Well
      <4> QED
        BY <4>2, <1>1 DEF After
    <3> QED
      BY <3>2, <3>3, <2>2, <1>1, FactStays DEF OnlyMoves
  <2> QED
    BY <2>1, <2>2
<1>4. \A i \in 1..Len(Code(c)) : i < call[c].at + 1 => Fact(c, Code(c)[i])'
  BY <1>2, <1>3 DEF Fact
<1>5. ASSUME \A i \in 1..Len(Code(c)) : i < call[c].at + 1 => Code(c)[i] # "send"
      PROVE  call'[c].msg = NoMessage /\ Unsent(c)'
  <2>1. step # "send"
    BY <1>1, <1>5 DEF Well
  <2>2. call[c].msg = NoMessage /\ Unsent(c)
    BY <1>1, <1>5 DEF Running, Well
  <2> QED
    BY <2>1, <2>2 DEF Unsent, Along
<1>6. /\ (call[c].at \in 1..(Len(Code(c)) + 1))' /\ (link \in call[c].seen)'
      /\ (\A v \in call[c].expect : v \in voted /\ v.on = call[c].on)'
  BY <1>1, <1>2 DEF Running, Well, OnlyMoves, Along, Grows
<1>7. Running(c)'
  BY <1>2, <1>4, <1>5, <1>6 DEF Running
<1> QED
  BY <1>1, <1>7 DEF CallOK, Along, Refusals

(* What was reported stays true while others go on.                        *)
LEMMA DoneStays ==
    ASSUME IInv, NEW d \in Agents, call[d] \in CallType, Done(d), call'[d] = call[d], Grows
    PROVE  Done(d)'
<1> DEFINE p == call[d].msg.on
           t == call[d].msg.ts
<1>1. p \in Ids /\ t \in Nat
  BY DEF CallType, MessageType
<1>2. call[d].msg.kind = "vote" => Counted(call[d].msg.on, call[d].msg.ts)'
  <2> SUFFICES ASSUME Counted(p, t) PROVE \E v \in votes' : v.poll = p /\ v.voter = Me
                                            /\ v.as = "phone" /\ (v.ts > t \/ v.ts = t)
    BY DEF Done, Counted
  <2> HIDE DEF p, t
  <2> QED
    BY <1>1 DEF Grows, Counted
<1>3. call[d].msg.kind = "reaction" => Reacted(call[d].msg.on, call[d].msg.ts)'
  <2> SUFFICES ASSUME Reacted(p, t)
               PROVE  (\E m \in accepted' : m.kind = "reaction" /\ m.on = p /\ m.choice = {})
                      \/ \E r \in reaction' : r.on = p /\ (r.ts > t \/ r.ts = t)
    BY DEF Done, Reacted, Removed
  <2> HIDE DEF p, t
  <2> QED
    BY <1>1 DEF Grows, Reacted, Removed
<1>4. Read(call[d].msg) => Read(call[d].msg)'
  BY ReadStays DEF Read
<1>5. call[d].msg.kind = "receipt" => (call[d].warned \/ Read(call[d].msg))'
  <2>1. CASE call[d].warned
    BY <2>1
  <2>2. CASE Read(call[d].msg)
    BY <1>4, <2>2
  <2> QED
    BY <2>1, <2>2 DEF Done
<1>6. call[d].op = "get_poll_results" => TallyRight(d)' /\ (call[d].ballot = Options)'
  BY DEF Done, TallyRight
<1>7. /\ KindOf(call[d].op) # "request" => (call[d].msg \in accepted)'
      /\ call[d].msg.kind \in {"text", "media", "poll"} => (call[d].msg \in rows)'
      /\ call[d].msg.kind = "poll" => (call[d].msg.id \in polls)'
  BY DEF Done, Grows
<1> QED
  BY <1>2, <1>3, <1>5, <1>6, <1>7 DEF Done

(* A call in progress keeps its facts.                                     *)
LEMMA RunningStays ==
    ASSUME IInv, NEW d \in Agents, call[d] \in CallType, Running(d), Along(d), Grows,
           call'[d].at = call[d].at, call'[d].msg = call[d].msg, call'[d].tally = call[d].tally,
           link' \in call'[d].seen, secrets \subseteq secrets' \/ "unpaired" \in call'[d].seen,
           Unsent(d) => Unsent(d)'
    PROVE  Running(d)'
<1>1. \A s : Fact(d, s) => Fact(d, s)'
  BY FactStays
<1>2. Code(d)' = Code(d)
  BY DEF Code, Along
<1>3. \A i \in 1..Len(Code(d)) : i < call[d].at => Fact(d, Code(d)[i])'
  <2> SUFFICES ASSUME NEW i \in 1..Len(Code(d)), i < call[d].at, NEW s, s = Code(d)[i]
               PROVE  Fact(d, s)'
    BY <1>2 DEF Fact
  <2> QED
    BY <1>1 DEF Running
<1>4. /\ (call[d].at \in 1..(Len(Code(d)) + 1))' /\ (link \in call[d].seen)'
      /\ (\A v \in call[d].expect : v \in voted /\ v.on = call[d].on)'
  BY <1>2 DEF Running, Grows, Along
<1> QED
  BY <1>2, <1>3, <1>4 DEF Running

LEMMA CallStays ==
    ASSUME IInv, NEW d \in Agents, call[d].op # "none", call'[d] = call[d], link' = link,
           secrets \subseteq secrets', Grows, Unsent(d) => Unsent(d)'
    PROVE  CallOK(d)'
<1>1. call[d] \in CallType /\ CallOK(d) /\ Along(d)
  BY DEF IInv, CallsOK, Idle, Along
<1>2. Running(d) => Running(d)'
  BY <1>1, RunningStays DEF Running
<1>3. Refused(d) => Refused(d)'
  BY DEF Refused
<1>4. Done(d) => Done(d)'
  BY <1>1, DoneStays
<1> QED
  BY <1>1, <1>2, <1>3, <1>4 DEF CallOK

LEMMA OthersStay ==
    ASSUME IInv, NEW c \in Agents, OnlyMoves(c), call[c].op # "none",
           NEW d \in Agents \ {c}, call[d].op # "none"
    PROVE  OwnId(d)' /\ CallOK(d)'
<1>1. OwnId(d) /\ call'[d] = call[d] /\ call[d].id # call[c].id
  BY DEF IInv, CallsOK, OnlyMoves, OwnId
<1>2. Unsent(d) => Unsent(d)'
  BY <1>1 DEF Unsent, OnlyMoves
<1>3. CallOK(d)'
  BY <1>1, <1>2, CallStays DEF OnlyMoves
<1>4. OwnId(d)'
  BY <1>1 DEF OwnId, OnlyMoves
<1> QED
  BY <1>3, <1>4

LEMMA CallsStay ==
    ASSUME IInv, NEW c \in Agents, OnlyMoves(c), Busy(c), call'[c].op # "none" => CallOK(c)'
    PROVE  CallsOK'
<1>1. ASSUME NEW d \in Agents, call'[d].op # "none" PROVE OwnId(d)' /\ CallOK(d)'
  <2>1. call[c].op # "none" /\ OwnId(c)
    BY BusyType DEF Busy
  <2>2. CASE d = c
    BY <1>1, <2>1, <2>2 DEF OwnId, OnlyMoves
  <2>3. CASE d # c
    BY <1>1, <2>1, <2>3, OthersStay DEF OnlyMoves
  <2> QED
    BY <2>2, <2>3
<1> QED
  BY <1>1 DEF CallsOK, OnlyMoves

(* The world but for the calls.                                            *)
Quiet == UNCHANGED <<link, trouble, menu, calls, accepted, secrets, cache, blobs, inbox, ghosts, now>>

LEMMA QuietGrows ==
    ASSUME Quiet PROVE Grows
  BY Growing DEF Quiet, cache, ghosts

LEMMA QuietStays ==
    ASSUME IInv, Quiet PROVE TypeOK' /\ MirroredWasSent' /\ WorldOK'
<1>1. /\ link' = link /\ trouble' = trouble /\ menu' = menu /\ calls' = calls
      /\ accepted' = accepted /\ secrets' = secrets /\ rows' = rows /\ polls' = polls
      /\ ballots' = ballots /\ votes' = votes /\ reaction' = reaction /\ unread' = unread
      /\ blobs' = blobs /\ inbox' = inbox /\ readable' = readable /\ voted' = voted
      /\ now' = now
  BY DEF Quiet, cache, ghosts
<1>2. TypeOK'
  BY <1>1 DEF IInv, TypeOK
<1>3. MirroredWasSent'
  BY <1>1 DEF IInv, MirroredWasSent
<1>4. WorldOK'
  BY <1>1 DEF IInv, WorldOK, Counted
<1> QED
  BY <1>2, <1>3, <1>4

(* A call goes on to its next step.                                        *)
LEMMA Moving ==
    ASSUME IInv, NEW c \in Agents, Busy(c), NEW k \in CallType, GoWith(c, k)
    PROVE  /\ call' \in [Agents -> CallType \cup {Idle}]
           /\ \A d \in Agents \ {c} : call'[d] = call[d]
           /\ call'[c] \in CallType /\ call'[c] = [k EXCEPT !.at = call[c].at + 1]
<1>1. call[c].at \in Nat /\ call \in [Agents -> CallType \cup {Idle}]
  BY BusyType DEF IInv, CallsOK, CallType
<1>2. call' = [call EXCEPT ![c] = [k EXCEPT !.at = call[c].at + 1]]
  BY DEF GoWith
<1>3. [k EXCEPT !.at = call[c].at + 1] \in CallType
  BY <1>1 DEF CallType
<1> QED
  BY <1>1, <1>2, <1>3

LEMMA Going ==
    ASSUME IInv, NEW c \in Agents, Busy(c), Go(c)
    PROVE  /\ call' \in [Agents -> CallType \cup {Idle}]
           /\ \A d \in Agents \ {c} : call'[d] = call[d]
           /\ Along(c) /\ call'[c].at = call[c].at + 1 /\ call'[c].seen = call[c].seen
           /\ call'[c].msg = call[c].msg /\ call'[c].tally = call[c].tally
           /\ call'[c].ballot = call[c].ballot /\ call'[c].digest = call[c].digest
<1>1. call[c] \in CallType /\ GoWith(c, call[c])
  BY BusyType DEF Go
<1>2. /\ call' \in [Agents -> CallType \cup {Idle}]
      /\ \A d \in Agents \ {c} : call'[d] = call[d]
      /\ call'[c] \in CallType /\ call'[c] = [call[c] EXCEPT !.at = call[c].at + 1]
  BY <1>1, Moving
<1> QED
  BY <1>1, <1>2 DEF Along, CallType

(* The same, with something it has learnt.                                 *)
LEMMA GoingAs ==
    ASSUME IInv, NEW c \in Agents, Busy(c), NEW k \in CallType, GoWith(c, k),
           k.op = call[c].op, k.id = call[c].id, k.on = call[c].on, k.choice = call[c].choice,
           k.expect = call[c].expect, k.answer = call[c].answer, k.seen = call[c].seen,
           call[c].warned => k.warned, k.digest = call[c].digest \/ k.digest # 0,
           k.ballot = call[c].ballot \/ k.ballot = Options
    PROVE  /\ call' \in [Agents -> CallType \cup {Idle}]
           /\ \A d \in Agents \ {c} : call'[d] = call[d]
           /\ Along(c) /\ call'[c].at = call[c].at + 1 /\ call'[c].seen = call[c].seen
           /\ call'[c].msg = k.msg /\ call'[c].tally = k.tally
           /\ call'[c].ballot = k.ballot /\ call'[c].digest = k.digest
           /\ call'[c].warned = k.warned
<1>1. /\ call' \in [Agents -> CallType \cup {Idle}]
      /\ \A d \in Agents \ {c} : call'[d] = call[d]
      /\ call'[c] \in CallType /\ call'[c] = [k EXCEPT !.at = call[c].at + 1]
  BY Moving
<1> QED
  BY <1>1 DEF Along, CallType

(* A call that is refused, or fails, has sent nothing, or is forgotten.    *)
LEMMA Replying ==
    ASSUME IInv, NEW c \in Agents, Busy(c), NEW a \in Refusals \cup {"ok", "internal", "lost"}, Reply(c, a)
    PROVE  /\ call' \in [Agents -> CallType \cup {Idle}]
           /\ \A d \in Agents \ {c} : call'[d] = call[d]
           /\ call'[c] = Ended(call[c], a)
           /\ call'[c].op # "none" => call'[c].id = call[c].id
<1>1. call[c] \in CallType /\ call \in [Agents -> CallType \cup {Idle}]
  BY BusyType DEF IInv, CallsOK
<1>2. /\ call'[c] = Ended(call[c], a) /\ \A d \in Agents \ {c} : call'[d] = call[d]
      /\ call' = [call EXCEPT ![c] = Ended(call[c], a)]
  BY <1>1 DEF Reply
<1>3. /\ Ended(call[c], a) \in CallType \cup {Idle}
      /\ Ended(call[c], a) # Idle => Ended(call[c], a).id = call[c].id
  BY <1>1, Ending
<1>4. Ended(call[c], a).op # "none" => Ended(call[c], a) # Idle
  BY DEF Idle
<1> QED
  BY <1>1, <1>2, <1>3, <1>4

-----------------------------------------------------------------------------
(* The steps that only read.                                               *)

LEMMA QuietStep ==
    ASSUME IInv, NEW c \in Agents, NEW step, Steps(c, step), Quiet,
           call' \in [Agents -> CallType \cup {Idle}], \A d \in Agents \ {c} : call'[d] = call[d]
    PROVE  IInv'
<1>1. OnlyMoves(c)
  BY QuietGrows DEF OnlyMoves, Quiet, Steps, Along
<1>2. Busy(c)
  BY DEF Steps, At
<1> QED
  BY <1>1, <1>2, Advance, CallsStay, QuietStays DEF IInv

LEMMA GoStep ==
    ASSUME IInv, NEW c \in Agents, NEW step, At(c, step), Quiet, Go(c),
           step \notin {"send", "votes"}, Fact(c, step)'
    PROVE  IInv'
<1>1. Busy(c)
  BY DEF At
<1>2. Steps(c, step)
  BY <1>1, Going DEF Steps, Quiet
<1> QED
  BY <1>1, <1>2, Going, QuietStep

(* A step before the send has sent nothing.                                *)
LEMMA NotSent ==
    ASSUME IInv, NEW c \in Agents, NEW step, At(c, step), step \notin After
    PROVE  call[c].msg = NoMessage /\ Unsent(c)
<1>1. Busy(c) /\ call[c].at <= Len(Code(c)) /\ Code(c)[call[c].at] = step
  BY DEF At, Code
<1>2. call[c] \in CallType /\ Well(call[c].op, Code(c)) /\ Running(c)
  BY <1>1, BusyType
<1>3. call[c].at \in 1..Len(Code(c))
  BY <1>1, <1>2 DEF Running, Well
<1>4. \A i \in 1..Len(Code(c)) : i < call[c].at => Code(c)[i] # "send"
  BY <1>1, <1>2, <1>3 DEF Well
<1> QED
  BY <1>2, <1>4 DEF Running

(* Whatever else a refused call did to the world, it sent nothing.         *)
LEMMA RefusedCall ==
    ASSUME IInv, NEW c \in Agents, NEW step, At(c, step), step \notin After,
           NEW a \in Refusals \cup {"internal"}, Reply(c, a), accepted' = accepted,
           a = "not_paired" => link = "unpaired" \/ (step = "loggedin" /\ link # "online"),
           a = "not_connected" => link # "online" /\ step # "paired"
    PROVE  call'[c].op # "none" => CallOK(c)'
<1>1. Busy(c) /\ call[c].at <= Len(Code(c)) /\ Code(c)[call[c].at] = step
  BY DEF At, Code
<1>2. call[c] \in CallType /\ Well(call[c].op, Code(c)) /\ Running(c)
  BY <1>1, BusyType
<1>3. a # "none" /\ a # "ok" /\ a # "lost"
  BY DEF Refusals
<1>4. call'[c] = Ended(call[c], a)
  BY <1>1, <1>3, Replying
<1>5. CASE a = "internal"
  BY <1>2, <1>3, <1>4, <1>5, Ending DEF Idle
<1>6. CASE a # "internal"
  <2>1. /\ call'[c].id = call[c].id /\ call'[c].answer = a /\ call'[c].op = call[c].op
        /\ a \in {"not_paired", "not_connected"} => call'[c].seen = call[c].seen
    BY <1>2, <1>3, <1>4, <1>6, Ending
  <2>2. Unsent(c)'
    BY <2>1, NotSent DEF Unsent
  <2>3. a = "not_connected" => call[c].seen \cap {"offline", "online"} # {}
    <3> SUFFICES ASSUME a = "not_connected" PROVE call[c].seen \cap {"offline", "online"} # {}
      OBVIOUS
    <3>1. Len(Code(c)) \in Nat /\ call[c].at \in 1..Len(Code(c))
      BY <1>1, <1>2 DEF Running, Well
    <3>2. Code(c)[1] = "paired" /\ 1 < call[c].at
      BY <1>1, <1>2, <3>1 DEF Well
    <3>3. Fact(c, Code(c)[1])
      BY <1>2, <3>1, <3>2 DEF Running
    <3> QED
      BY <3>2, <3>3 DEF Fact
  <2>4. link \in call[c].seen
    BY <1>2 DEF Running
  <2>5. step = "loggedin" => call[c].op = "cache_sync"
    BY <1>1, <1>2 DEF Well, Running
  <2>6. Refused(c)'
    BY <2>1, <2>2, <2>3, <2>4, <2>5 DEF Refused
  <2> QED
    BY <1>3, <2>1, <2>6 DEF CallOK
<1> QED
  BY <1>5, <1>6

LEMMA RefuseStep ==
    ASSUME IInv, NEW c \in Agents, NEW step, At(c, step), step \notin After, Quiet,
           NEW a \in Refusals \cup {"internal"}, Reply(c, a),
           a = "not_paired" => link = "unpaired" \/ (step = "loggedin" /\ link # "online"),
           a = "not_connected" => link # "online" /\ step # "paired"
    PROVE  IInv'
<1>1. Busy(c)
  BY DEF At
<1>2. OnlyMoves(c)
  BY <1>1, Replying, QuietGrows DEF OnlyMoves, Quiet
<1>3. call'[c].op # "none" => CallOK(c)'
  BY RefusedCall DEF Quiet
<1> QED
  BY <1>1, <1>2, <1>3, CallsStay, QuietStays DEF IInv

LEMMA CheckPairedKeeps == ASSUME IInv, NEW c \in Agents, CheckPaired(c) PROVE IInv'
<1>1. At(c, "paired") /\ Quiet
  BY DEF CheckPaired, Check, Quiet
<1>2. CASE link # "unpaired" /\ Go(c)
  <2>1. Busy(c) /\ link \in Links /\ link \in call[c].seen
    BY <1>1, BusyType DEF At, IInv, TypeOK, Running
  <2>2. Fact(c, "paired")'
    BY <1>2, <2>1, Going DEF Fact, Links
  <2> QED
    BY <1>1, <1>2, <2>2, GoStep
<1>3. CASE link = "unpaired" /\ Reply(c, "not_paired")
  BY <1>1, <1>3, RefuseStep DEF Refusals, After
<1> QED
  BY <1>2, <1>3 DEF CheckPaired, Check

LEMMA CheckLoggedInKeeps == ASSUME IInv, NEW c \in Agents, CheckLoggedIn(c) PROVE IInv'
<1>1. At(c, "loggedin") /\ Quiet
  BY DEF CheckLoggedIn, Check, Quiet
<1>2. CASE Go(c)
  BY <1>1, <1>2, GoStep DEF Fact
<1>3. CASE link # "online" /\ Reply(c, "not_paired")
  BY <1>1, <1>3, RefuseStep DEF Refusals, After
<1> QED
  BY <1>2, <1>3 DEF CheckLoggedIn, Check

(* The steps that establish nothing later steps rely on.                   *)
LEMMA PlainStep ==
    ASSUME IInv, NEW c \in Agents, Quiet,
           NEW step \in {"connected", "args", "read", "details", "ask", "target", "upload",
                         "build", "fetch", "poll", "match", "start"},
           At(c, step),
           \/ Go(c) /\ Fact(c, step)'
           \/ \E a \in (Refusals \cup {"internal"}) \ {"not_paired"} :
                 Reply(c, a) /\ (a = "not_connected" => link # "online")
    PROVE  IInv'
<1>1. CASE Go(c) /\ Fact(c, step)'
  BY <1>1, GoStep
<1>2. ASSUME NEW a \in (Refusals \cup {"internal"}) \ {"not_paired"}, Reply(c, a),
             a = "not_connected" => link # "online"
      PROVE  IInv'
  BY <1>2, RefuseStep DEF After
<1> QED
  BY <1>1, <1>2

LEMMA PlainStepsKeep ==
    ASSUME IInv, NEW c \in Agents,
           \/ CheckConnected(c) \/ CheckArgs(c) \/ ReadContact(c) \/ AskDetails(c) \/ Ask(c)
           \/ FindTarget(c) \/ Upload(c) \/ FetchMedia(c) \/ BuildVote(c) \/ StartSync(c)
    PROVE  IInv'
<1> USE DEF Check, Quiet, Refusals
<1>0. /\ Fact(c, "connected")' /\ Fact(c, "args")' /\ Fact(c, "read")' /\ Fact(c, "details")'
      /\ Fact(c, "ask")' /\ Fact(c, "target")' /\ Fact(c, "upload")' /\ Fact(c, "fetch")'
      /\ Fact(c, "build")' /\ Fact(c, "start")'
  BY DEF Fact
<1>1. CASE CheckConnected(c)
  BY <1>0, <1>1, PlainStep DEF CheckConnected
<1>2. CASE CheckArgs(c)
  BY <1>0, <1>2, PlainStep DEF CheckArgs
<1>3. CASE ReadContact(c)
  BY <1>0, <1>3, PlainStep DEF ReadContact
<1>4. CASE AskDetails(c)
  BY <1>0, <1>4, PlainStep DEF AskDetails
<1>5. CASE Ask(c)
  BY <1>0, <1>5, PlainStep DEF Ask
<1>6. CASE FindTarget(c)
  BY <1>0, <1>6, PlainStep DEF FindTarget
<1>7. CASE Upload(c)
  BY <1>0, <1>7, PlainStep DEF Upload
<1>8. CASE FetchMedia(c)
  BY <1>0, <1>8, PlainStep DEF FetchMedia
<1>9. CASE BuildVote(c)
  BY <1>0, <1>9, PlainStep DEF BuildVote
<1>10. CASE StartSync(c)
  BY <1>0, <1>10, PlainStep DEF StartSync
<1> QED
  BY <1>1, <1>2, <1>3, <1>4, <1>5, <1>6, <1>7, <1>8, <1>9, <1>10

LEMMA ReadPollKeeps == ASSUME IInv, NEW c \in Agents, ReadPoll(c) PROVE IInv'
<1>1. At(c, "poll") /\ Quiet /\ Busy(c)
  BY DEF ReadPoll, Check, Quiet, At
<1>2. CASE call[c].on \in polls /\ Go(c)
  <2>1. Fact(c, "poll")'
    BY <1>1, <1>2, Going DEF Fact, Along, Quiet, cache
  <2> QED
    BY <1>1, <1>2, <2>1, PlainStep
<1>3. CASE \E a \in {"internal", "not_found"} : Reply(c, a)
  BY <1>1, <1>3, PlainStep DEF Refusals
<1> QED
  BY <1>2, <1>3 DEF ReadPoll, Check

LEMMA MatchKeeps == ASSUME IInv, NEW c \in Agents, Match(c) PROVE IInv'
<1>1. At(c, "match") /\ Quiet /\ Busy(c)
  BY DEF Match, Check, Quiet, At
<1>2. CASE call[c].choice \subseteq call[c].ballot /\ Go(c)
  <2>1. Fact(c, "match")'
    BY <1>1, <1>2, Going, BusyType DEF Fact, Along, CallType
  <2> QED
    BY <1>1, <1>2, <2>1, PlainStep
<1>3. CASE Reply(c, "invalid_argument")
  BY <1>1, <1>3, PlainStep DEF Refusals
<1> QED
  BY <1>2, <1>3 DEF Match, Check

(* A call goes on with the attachment it will send or fetch.               *)
Attach(c, d) == GoWith(c, [call[c] EXCEPT !.digest = d])

LEMMA GoingWithDigest ==
    ASSUME IInv, NEW c \in Agents, Busy(c), NEW d \in {1, 2},
           Attach(c, d)
    PROVE  /\ call' \in [Agents -> CallType \cup {Idle}]
           /\ \A a \in Agents \ {c} : call'[a] = call[a]
           /\ Along(c) /\ call'[c].at = call[c].at + 1 /\ call'[c].seen = call[c].seen
           /\ call'[c].msg = call[c].msg /\ call'[c].tally = call[c].tally
           /\ call'[c].digest = d
<1> DEFINE k == [call[c] EXCEPT !.digest = d]
<1>1. call[c] \in CallType
  BY BusyType
<1>2. /\ k \in CallType /\ k.op = call[c].op /\ k.id = call[c].id /\ k.at = call[c].at
      /\ k.on = call[c].on /\ k.choice = call[c].choice /\ k.expect = call[c].expect
      /\ k.answer = call[c].answer /\ k.seen = call[c].seen /\ k.warned = call[c].warned
      /\ k.ballot = call[c].ballot /\ k.msg = call[c].msg /\ k.tally = call[c].tally
      /\ k.digest = d
  BY <1>1 DEF CallType
<1>3. GoWith(c, k)
  BY DEF Attach
<1> HIDE DEF k
<1> QED
  BY <1>2, <1>3, GoingAs

LEMMA DigestStep ==
    ASSUME IInv, NEW c \in Agents, NEW step \in {"open", "mediarow"}, At(c, step), Quiet,
           NEW d \in {1, 2}, Attach(c, d)
    PROVE  IInv'
<1>1. Busy(c)
  BY DEF At
<1>2. Fact(c, step)'
  <2>1. call'[c].digest # 0
    BY <1>1, GoingWithDigest
  <2>2. Fact(c, "open")' /\ Fact(c, "mediarow")'
    BY <2>1 DEF Fact
  <2> QED
    BY <2>2
<1>3. Steps(c, step)
  BY <1>1, <1>2, GoingWithDigest DEF Steps, Quiet
<1> QED
  BY <1>1, <1>3, GoingWithDigest, QuietStep

LEMMA OpenMediaKeeps == ASSUME IInv, NEW c \in Agents, OpenMedia(c) PROVE IInv'
<1>1. At(c, "open") /\ Quiet
  BY DEF OpenMedia, Quiet
<1>2. CASE Attach(c, 1)
  BY <1>1, <1>2, DigestStep
<1>3. ASSUME NEW a \in {"internal", "not_found"}, Reply(c, a) PROVE IInv'
  BY <1>1, <1>3, RefuseStep DEF Refusals, After
<1> QED
  BY <1>2, <1>3 DEF OpenMedia, Attach

LEMMA FindMediaKeeps == ASSUME IInv, NEW c \in Agents, FindMedia(c) PROVE IInv'
<1>1. At(c, "mediarow") /\ Quiet
  BY DEF FindMedia, Quiet
<1>2. ASSUME NEW m \in rows, m.digest # 0,
             Attach(c, m.digest)
      PROVE  IInv'
  <2>1. m.digest \in {1, 2}
    BY <1>2 DEF IInv, MirroredWasSent, WorldOK, MessageType
  <2> QED
    BY <1>1, <1>2, <2>1, DigestStep
<1>3. ASSUME NEW a \in {"no_media", "not_found"}, Reply(c, a) PROVE IInv'
  BY <1>1, <1>3, RefuseStep DEF Refusals, After
<1> QED
  BY <1>2, <1>3 DEF FindMedia, Attach

(* The store changes under no property but its own.                        *)
LEMMA BlobsStay ==
    ASSUME IInv, blobs' \subseteq {1, 2},
           UNCHANGED <<link, trouble, menu, calls, accepted, secrets, cache, inbox, ghosts, now>>
    PROVE  TypeOK' /\ MirroredWasSent' /\ WorldOK' /\ Grows
<1>1. /\ link' = link /\ trouble' = trouble /\ menu' = menu /\ calls' = calls
      /\ accepted' = accepted /\ secrets' = secrets /\ rows' = rows /\ polls' = polls
      /\ ballots' = ballots /\ votes' = votes /\ reaction' = reaction /\ unread' = unread
      /\ inbox' = inbox /\ readable' = readable /\ voted' = voted /\ now' = now
  BY DEF cache, ghosts
<1>2. TypeOK' /\ MirroredWasSent'
  BY <1>1 DEF IInv, TypeOK, MirroredWasSent
<1>3. WorldOK'
  BY <1>1 DEF IInv, WorldOK, Counted
<1>4. Grows
  BY <1>1, Growing
<1> QED
  BY <1>2, <1>3, <1>4

(* A step that goes on, whatever it changes.                               *)
LEMMA WorldStep ==
    ASSUME IInv, NEW c \in Agents, NEW step, Steps(c, step), OnlyMoves(c),
           TypeOK', MirroredWasSent', WorldOK'
    PROVE  IInv'
  BY Advance, CallsStay DEF IInv, Steps, At

LEMMA PrepareAudioKeeps == ASSUME IInv, NEW c \in Agents, PrepareAudio(c) PROVE IInv'
<1>1. /\ At(c, "prepare") /\ Busy(c)
      /\ UNCHANGED <<link, trouble, menu, calls, accepted, secrets, cache, inbox, ghosts, now>>
  BY DEF PrepareAudio, At
<1>2. CASE Go(c) /\ UNCHANGED blobs
  BY <1>1, <1>2, GoStep DEF Fact, Quiet
<1>3. CASE blobs' = blobs \cup {2} /\ Attach(c, 2)
  <2>1. TypeOK' /\ MirroredWasSent' /\ WorldOK' /\ Grows
    BY <1>1, <1>3, BlobsStay DEF IInv, TypeOK
  <2>2. Steps(c, "prepare")
    BY <1>1, <1>3, GoingWithDigest DEF Steps, Fact
  <2>3. OnlyMoves(c)
    BY <1>1, <1>3, <2>1, GoingWithDigest DEF OnlyMoves, Along
  <2> QED
    BY <2>1, <2>2, <2>3, WorldStep
<1>4. ASSUME NEW a \in {"invalid_argument", "internal"}, Reply(c, a), UNCHANGED blobs PROVE IInv'
  BY <1>1, <1>4, RefuseStep DEF Refusals, After, Quiet
<1> QED
  BY <1>2, <1>3, <1>4 DEF PrepareAudio, Attach

LEMMA PutMediaKeeps == ASSUME IInv, NEW c \in Agents, PutMedia(c) PROVE IInv'
<1>0. CASE Reply(c, "internal") /\ UNCHANGED blobs
  BY <1>0, RefuseStep DEF PutMedia, Refusals, After, Quiet
<1> SUFFICES ASSUME Go(c), blobs' = blobs \cup {call[c].digest} PROVE IInv'
  BY <1>0 DEF PutMedia
<1>1. /\ At(c, "put") /\ Busy(c) /\ Go(c) /\ blobs' = blobs \cup {call[c].digest}
      /\ UNCHANGED <<link, trouble, menu, calls, accepted, secrets, cache, inbox, ghosts, now>>
  BY DEF PutMedia, At
<1>2. call[c] \in CallType /\ Well(call[c].op, Code(c)) /\ Running(c)
      /\ call[c].at \in 1..Len(Code(c)) /\ Code(c)[call[c].at] = "put"
  BY <1>1, BusyType DEF At, Code, Running, Well
<1>3. PICK i \in 1..Len(Code(c)) : i < call[c].at /\ Code(c)[i] = "mediarow"
  BY <1>2 DEF Well
<1>4. call[c].digest # 0
  BY <1>2, <1>3 DEF Running, Fact
<1>5. TypeOK' /\ MirroredWasSent' /\ WorldOK' /\ Grows
  <2>1. blobs' \subseteq {1, 2}
    BY <1>1, <1>2, <1>4 DEF CallType, IInv, TypeOK
  <2> QED
    BY <1>1, <2>1, BlobsStay
<1>6. Steps(c, "put") /\ OnlyMoves(c)
  BY <1>1, <1>5, Going DEF Steps, OnlyMoves, Fact, Along
<1> QED
  BY <1>5, <1>6, WorldStep

(* Where a call is, among the steps it has taken.                          *)
LEMMA Place ==
    ASSUME IInv, NEW c \in Agents, NEW step, At(c, step)
    PROVE  /\ Busy(c) /\ call[c] \in CallType /\ Well(call[c].op, Code(c)) /\ Running(c)
           /\ call[c].at \in 1..Len(Code(c)) /\ Code(c)[call[c].at] = step
<1>1. Busy(c) /\ call[c].at <= Len(Code(c)) /\ Code(c)[call[c].at] = step
  BY DEF At, Code
<1>2. call[c] \in CallType /\ Well(call[c].op, Code(c)) /\ Running(c)
  BY <1>1, BusyType
<1> QED
  BY <1>1, <1>2 DEF Running, Well

(* The ballot read is the whole ballot.                                    *)
LEMMA ReadOptionsKeeps == ASSUME IInv, NEW c \in Agents, ReadOptions(c) PROVE IInv'
<1> DEFINE k == [call[c] EXCEPT !.ballot = {o \in Options : <<call[c].on, o>> \in ballots}]
<1>0. CASE Reply(c, "internal")
  BY <1>0, RefuseStep DEF ReadOptions, Refusals, After, Quiet
<1> SUFFICES ASSUME GoWith(c, k) PROVE IInv'
  BY <1>0 DEF ReadOptions
<1>1. At(c, "options") /\ Quiet /\ GoWith(c, k)
  BY DEF ReadOptions, Quiet
<1>2. /\ Busy(c) /\ call[c] \in CallType /\ Well(call[c].op, Code(c)) /\ Running(c)
      /\ call[c].at \in 1..Len(Code(c)) /\ Code(c)[call[c].at] = "options"
  BY <1>1, Place
<1>3. PICK i \in 1..Len(Code(c)) : i < call[c].at /\ Code(c)[i] = "poll"
  BY <1>2 DEF Well
<1>4. call[c].on \in polls
  BY <1>2, <1>3 DEF Running, Fact
<1>5. {o \in Options : <<call[c].on, o>> \in ballots} = Options
  BY <1>4 DEF IInv, WorldOK
<1>6. /\ k \in CallType /\ k.op = call[c].op /\ k.id = call[c].id
      /\ k.on = call[c].on /\ k.choice = call[c].choice /\ k.expect = call[c].expect
      /\ k.answer = call[c].answer /\ k.seen = call[c].seen /\ k.warned = call[c].warned
      /\ k.ballot = Options /\ k.msg = call[c].msg /\ k.tally = call[c].tally
      /\ k.digest = call[c].digest
  BY <1>2, <1>5 DEF CallType
<1> HIDE DEF k
<1>7. Steps(c, "options")
  BY <1>1, <1>2, <1>6, GoingAs DEF Steps, Quiet, Fact
<1> QED
  BY <1>1, <1>2, <1>6, <1>7, GoingAs, QuietStep

(* The votes read are one per voter JID, on the ballot, and all that was       *)
(* reported cast.                                                          *)
LEMMA ReadVotesKeeps == ASSUME IInv, NEW c \in Agents, ReadVotes(c) PROVE IInv'
<1> DEFINE found == {v \in votes : v.poll = call[c].on}
           k == [call[c] EXCEPT !.tally = found]
<1>0. CASE Reply(c, "internal")
  BY <1>0, RefuseStep DEF ReadVotes, Refusals, After, Quiet
<1> SUFFICES ASSUME GoWith(c, k) PROVE IInv'
  BY <1>0 DEF ReadVotes
<1>1. At(c, "votes") /\ Quiet /\ GoWith(c, k)
  BY DEF ReadVotes, Quiet
<1>2. Busy(c) /\ call[c] \in CallType /\ Running(c)
  BY <1>1, Place
<1>3. found \in SUBSET VoteType
  BY DEF IInv, WorldOK
<1>4. /\ \A v, w \in found : SameVoter(v, w) => v = w
      /\ \A v \in found : v.choice \subseteq Options
  BY <1>3 DEF IInv, TypeOK, VoteType
<1>5. \A m \in call[c].expect : \E v \in found :
         v.voter = Me /\ v.as = "phone" /\ (v.ts > m.ts \/ v.ts = m.ts)
  BY <1>2 DEF IInv, WorldOK, Counted, Running
<1> HIDE DEF found
<1>6. /\ k \in CallType /\ k.op = call[c].op /\ k.id = call[c].id
      /\ k.on = call[c].on /\ k.choice = call[c].choice /\ k.expect = call[c].expect
      /\ k.answer = call[c].answer /\ k.seen = call[c].seen /\ k.warned = call[c].warned
      /\ k.ballot = call[c].ballot /\ k.msg = call[c].msg /\ k.tally = found
      /\ k.digest = call[c].digest
  BY <1>2, <1>3 DEF CallType
<1> HIDE DEF k
<1>7. /\ Along(c) /\ call'[c].tally = found /\ call'[c].msg = call[c].msg
      /\ call'[c].at = call[c].at + 1 /\ call'[c].seen = call[c].seen
      /\ call' \in [Agents -> CallType \cup {Idle}] /\ \A d \in Agents \ {c} : call'[d] = call[d]
  BY <1>1, <1>2, <1>6, GoingAs
<1>8. Fact(c, "votes")'
  <2>1. TallyRight(c)'
    BY <1>4, <1>5, <1>7 DEF TallyRight, Along
  <2> QED
    BY <2>1 DEF Fact
<1>9. Steps(c, "votes")
  BY <1>1, <1>7, <1>8 DEF Steps, Quiet
<1> QED
  BY <1>1, <1>7, <1>9, QuietStep

(* A download that is already stored is done.                              *)
LEMMA LookupMediaKeeps == ASSUME IInv, NEW c \in Agents, LookupMedia(c) PROVE IInv'
<1>1. At(c, "lookup") /\ Quiet
  BY DEF LookupMedia, Quiet
<1>2. CASE Go(c)
  BY <1>1, <1>2, GoStep DEF Fact
<1>3. CASE Reply(c, "ok")
  <2>1. /\ Busy(c) /\ call[c] \in CallType /\ Well(call[c].op, Code(c))
        /\ call[c].at \in 1..Len(Code(c)) /\ Code(c)[call[c].at] = "lookup"
    BY <1>1, Place
  <2>2. call[c].op = "download_media"
    BY <2>1 DEF Well
  <2>3. call[c].msg = NoMessage
    BY <1>1, NotSent DEF After
  <2>4. /\ call'[c].op = "download_media" /\ call'[c].msg = NoMessage /\ call'[c].answer = "ok"
        /\ OnlyMoves(c)
    BY <1>1, <1>3, <2>1, <2>2, <2>3, Replying, Ending, QuietGrows DEF OnlyMoves, Quiet
  <2>5. Done(c)'
    BY <2>4 DEF Done, KindOf, NoMessage
  <2>6. CallOK(c)'
    BY <2>4, <2>5 DEF CallOK, Refusals
  <2> QED
    BY <1>1, <2>1, <2>4, <2>6, CallsStay, QuietStays DEF IInv
<1>4. CASE Reply(c, "internal")
  BY <1>1, <1>4, RefuseStep DEF Refusals, After
<1> QED
  BY <1>2, <1>3, <1>4 DEF LookupMedia

-----------------------------------------------------------------------------
(* The send, and the mirrors.                                              *)

LEMMA AcceptedStay ==
    ASSUME IInv, NEW m \in MessageType, m.id <= calls, m.ts <= now,
           accepted' = accepted \cup {m},
           UNCHANGED <<link, trouble, menu, calls, secrets, cache, blobs, inbox, ghosts, now>>
    PROVE  TypeOK' /\ MirroredWasSent' /\ WorldOK' /\ Grows
<1>1. /\ link' = link /\ trouble' = trouble /\ menu' = menu /\ calls' = calls
      /\ blobs' = blobs /\ secrets' = secrets /\ rows' = rows /\ polls' = polls
      /\ ballots' = ballots /\ votes' = votes /\ reaction' = reaction /\ unread' = unread
      /\ inbox' = inbox /\ readable' = readable /\ voted' = voted /\ now' = now
  BY DEF cache, ghosts
<1>2. TypeOK'
  BY <1>1 DEF IInv, TypeOK
<1>3. MirroredWasSent'
  BY <1>1 DEF IInv, MirroredWasSent
<1>4. WorldOK'
  <2>1. accepted' \subseteq MessageType /\ \A n \in accepted' : n.id <= calls /\ n.ts <= now
    BY DEF IInv, WorldOK
  <2> QED
    BY <1>1, <2>1 DEF IInv, WorldOK, Counted
<1>5. Grows
  BY <1>1, Growing
<1> QED
  BY <1>2, <1>3, <1>4, <1>5

LEMMA SendKeeps == ASSUME IInv, NEW c \in Agents, Send(c) PROVE IInv'
<1> DEFINE m == Message(call[c].id, KindOf(call[c].op), call[c].on, call[c].choice, call[c].digest)
           k == [call[c] EXCEPT !.msg = m]
<1>1. /\ At(c, "send")
      /\ UNCHANGED <<link, trouble, menu, calls, secrets, cache, blobs, inbox, ghosts, now>>
  BY DEF Send
<1>2. Busy(c) /\ call[c] \in CallType /\ OwnId(c)
  BY <1>1, Place, BusyType
<1>3. /\ m \in MessageType /\ m.id = call[c].id /\ m.kind = KindOf(call[c].op)
      /\ m.on = call[c].on /\ m.id <= calls /\ m.ts <= now
  BY <1>2 DEF Message, CallType, MessageType, KindOf, Kinds, IInv, WorldOK, OwnId
<1> HIDE DEF m
<1>4. CASE accepted' = accepted \cup {m} /\ GoWith(c, k)
  <2>1. /\ k \in CallType /\ k.op = call[c].op /\ k.id = call[c].id
        /\ k.on = call[c].on /\ k.choice = call[c].choice /\ k.expect = call[c].expect
        /\ k.answer = call[c].answer /\ k.seen = call[c].seen /\ k.warned = call[c].warned
        /\ k.ballot = call[c].ballot /\ k.msg = m /\ k.tally = call[c].tally
        /\ k.digest = call[c].digest
    BY <1>2, <1>3 DEF CallType
  <2> HIDE DEF k
  <2>2. /\ Along(c) /\ call'[c].tally = call[c].tally /\ call'[c].msg = m
        /\ call'[c].at = call[c].at + 1 /\ call'[c].seen = call[c].seen
        /\ call' \in [Agents -> CallType \cup {Idle}] /\ \A d \in Agents \ {c} : call'[d] = call[d]
    BY <1>2, <1>4, <2>1, GoingAs
  <2>3. Fact(c, "send")'
    BY <1>3, <1>4, <2>2 DEF Fact, Along
  <2>4. Steps(c, "send")
    BY <1>1, <2>2, <2>3 DEF Steps
  <2>5. TypeOK' /\ MirroredWasSent' /\ WorldOK' /\ Grows
    BY <1>1, <1>3, <1>4, AcceptedStay
  <2>6. OnlyMoves(c)
    BY <1>1, <1>3, <1>4, <2>2, <2>5 DEF OnlyMoves, Along
  <2> QED
    BY <2>4, <2>5, <2>6, WorldStep
<1>5. CASE accepted' = accepted \cup {m} /\ Reply(c, "internal")
  <2>1. /\ call' \in [Agents -> CallType \cup {Idle}]
        /\ (\A d \in Agents \ {c} : call'[d] = call[d]) /\ call'[c] = Idle
    BY <1>2, <1>5, Replying, Ending
  <2>2. TypeOK' /\ MirroredWasSent' /\ WorldOK' /\ Grows
    BY <1>1, <1>3, <1>5, AcceptedStay
  <2>3. OnlyMoves(c)
    BY <1>1, <1>3, <1>5, <2>1, <2>2 DEF OnlyMoves, Idle
  <2> QED
    BY <1>2, <2>1, <2>2, <2>3, CallsStay DEF IInv, Idle
<1>6. ASSUME NEW a \in {"internal", "invalid_argument"}, Reply(c, a), UNCHANGED accepted PROVE IInv'
  BY <1>1, <1>6, RefuseStep DEF Refusals, After, Quiet
<1>7. CASE link # "online" /\ Reply(c, "not_connected") /\ UNCHANGED accepted
  BY <1>1, <1>7, RefuseStep DEF Refusals, After, Quiet
<1> QED
  BY <1>4, <1>5, <1>6, <1>7 DEF Send, Rejections, m

(* What mirrors comes after the send.                                      *)
LEMMA SentBefore ==
    ASSUME IInv, NEW c \in Agents, NEW step \in After, At(c, step)
    PROVE  /\ Busy(c) /\ call[c] \in CallType /\ Running(c) /\ Fact(c, "send")
           /\ call[c].msg \in accepted
<1>1. /\ Busy(c) /\ call[c] \in CallType /\ Well(call[c].op, Code(c)) /\ Running(c)
      /\ call[c].at \in 1..Len(Code(c)) /\ Code(c)[call[c].at] = step
  BY Place
<1>2. PICK i \in 1..Len(Code(c)) : i < call[c].at /\ Code(c)[i] = "send"
  BY <1>1 DEF Well
<1>3. Fact(c, Code(c)[i])
  BY <1>1, <1>2 DEF Running
<1>4. Fact(c, "send")
  BY <1>2, <1>3
<1> QED
  BY <1>1, <1>4 DEF Fact

(* A call that fails is forgotten.                                         *)
LEMMA ForgetStep ==
    ASSUME IInv, NEW c \in Agents, Busy(c), Quiet, Reply(c, "internal") PROVE IInv'
<1>1. call'[c] = Idle /\ OnlyMoves(c)
  BY BusyType, Replying, Ending, QuietGrows DEF OnlyMoves, Quiet, Idle
<1> QED
  BY <1>1, CallsStay, QuietStays DEF IInv, Idle

LEMMA StoreSecretKeeps == ASSUME IInv, NEW c \in Agents, StoreSecret(c) PROVE IInv'
<1>1. /\ At(c, "secret") /\ Busy(c)
      /\ UNCHANGED <<link, trouble, menu, calls, accepted, cache, blobs, inbox, ghosts, now>>
  BY DEF StoreSecret, At
<1>2. CASE secrets' = secrets \cup {call[c].id} /\ Go(c)
  <2>1. /\ link' = link /\ trouble' = trouble /\ menu' = menu /\ calls' = calls
        /\ blobs' = blobs /\ accepted' = accepted /\ rows' = rows /\ polls' = polls
        /\ ballots' = ballots /\ votes' = votes /\ reaction' = reaction /\ unread' = unread
        /\ inbox' = inbox /\ readable' = readable /\ voted' = voted /\ now' = now
    BY <1>1 DEF cache, ghosts
  <2>2. call[c] \in CallType
    BY <1>1, BusyType
  <2>3. TypeOK' /\ MirroredWasSent'
    BY <1>2, <2>1, <2>2 DEF IInv, TypeOK, MirroredWasSent, CallType
  <2>4. WorldOK' /\ Grows
    <3>1. WorldOK'
      BY <1>2, <2>1 DEF IInv, WorldOK, Counted
    <3> QED
      BY <2>1, <3>1, Growing
  <2>5. Fact(c, "secret")'
    BY <1>1, <1>2, Going DEF Fact, Along
  <2>6. Steps(c, "secret") /\ OnlyMoves(c)
    BY <1>1, <1>2, <2>1, <2>4, <2>5, Going DEF Steps, OnlyMoves, Along
  <2> QED
    BY <2>3, <2>4, <2>6, WorldStep
<1>3. CASE Reply(c, "internal") /\ UNCHANGED secrets
  BY <1>1, <1>3, ForgetStep DEF Quiet
<1> QED
  BY <1>2, <1>3 DEF StoreSecret

(* A mirror: only the cache changes, and it grows.                         *)
LEMMA MirrorStep ==
    ASSUME IInv, NEW c \in Agents, NEW step \in After, Mirrors(c, step), Fact(c, step)', Grows,
           TypeOK', MirroredWasSent', WorldOK'
    PROVE  IInv'
<1>1. /\ At(c, step) /\ Go(c) /\ Busy(c)
      /\ link' = link /\ secrets' = secrets /\ calls' = calls /\ accepted' = accepted
  BY DEF Mirrors, At
<1>2. Steps(c, step)
  BY <1>1, Going DEF Steps, After
<1>3. OnlyMoves(c)
  BY <1>1, Going DEF OnlyMoves, Along
<1> QED
  BY <1>2, <1>3, WorldStep

LEMMA MirrorRowKeeps == ASSUME IInv, NEW c \in Agents, MirrorRow(c) PROVE IInv'
<1>1. /\ Mirrors(c, "row") /\ rows' = rows \cup {call[c].msg} /\ At(c, "row") /\ Go(c)
      /\ link' = link /\ trouble' = trouble /\ menu' = menu /\ calls' = calls
      /\ blobs' = blobs /\ accepted' = accepted /\ secrets' = secrets /\ polls' = polls
      /\ ballots' = ballots /\ votes' = votes /\ reaction' = reaction /\ unread' = unread
      /\ inbox' = inbox /\ readable' = readable /\ voted' = voted /\ now' = now
  BY DEF MirrorRow, Mirrors, ghosts
<1>2. Busy(c) /\ call[c].msg \in accepted
  BY <1>1, SentBefore DEF After
<1>3. TypeOK' /\ MirroredWasSent'
  BY <1>1, <1>2 DEF IInv, TypeOK, MirroredWasSent
<1>4. WorldOK' /\ Grows
  <2>1. WorldOK'
    BY <1>1 DEF IInv, WorldOK, Counted
  <2> QED
    BY <1>1, <2>1, Growing
<1>5. Fact(c, "row")'
  BY <1>1, <1>2, Going DEF Fact
<1> QED
  BY <1>1, <1>3, <1>4, <1>5, MirrorStep DEF After

LEMMA MirrorChatKeeps == ASSUME IInv, NEW c \in Agents, MirrorChat(c) PROVE IInv'
<1>1. /\ Mirrors(c, "chat") /\ unread' = {} /\ At(c, "chat")
      /\ link' = link /\ trouble' = trouble /\ menu' = menu /\ calls' = calls
      /\ blobs' = blobs /\ accepted' = accepted /\ secrets' = secrets /\ rows' = rows
      /\ polls' = polls /\ ballots' = ballots /\ votes' = votes /\ reaction' = reaction
      /\ inbox' = inbox /\ readable' = readable /\ voted' = voted /\ now' = now
  BY DEF MirrorChat, Mirrors, ghosts
<1>2. TypeOK' /\ MirroredWasSent'
  BY <1>1 DEF IInv, TypeOK, MirroredWasSent
<1>3. WorldOK' /\ Grows
  <2>1. WorldOK'
    BY <1>1 DEF IInv, WorldOK, Counted
  <2> QED
    BY <1>1, <2>1, Growing
<1>4. Fact(c, "chat")'
  BY DEF Fact
<1> QED
  BY <1>1, <1>2, <1>3, <1>4, MirrorStep DEF After

(* A poll is written whole.                                                *)
LEMMA BallotWritten ==
    ASSUME IInv, NEW p \in Ids, UpsertPoll(p)
    PROVE  /\ polls \subseteq polls' /\ p \in polls' /\ polls' \subseteq Ids
           /\ ballots' \subseteq Ids \X Options
           /\ \A q \in polls' : {q} \X Options \subseteq ballots'
<1>1. polls' = polls \cup {p} /\ ballots' = {b \in ballots : b[1] # p} \cup ({p} \X Options)
  BY DEF UpsertPoll
<1>2. polls \subseteq Ids /\ ballots \subseteq Ids \X Options
  BY DEF IInv, TypeOK
<1>3. ASSUME NEW q \in polls', NEW o \in Options PROVE <<q, o>> \in ballots'
  BY <1>1, <1>3 DEF IInv, WorldOK
<1> QED
  BY <1>1, <1>2, <1>3

LEMMA MirrorBallotKeeps == ASSUME IInv, NEW c \in Agents, MirrorBallot(c) PROVE IInv'
<1>1. /\ Mirrors(c, "ballot") /\ UpsertPoll(call[c].id) /\ At(c, "ballot") /\ Go(c)
      /\ link' = link /\ trouble' = trouble /\ menu' = menu /\ calls' = calls
      /\ blobs' = blobs /\ accepted' = accepted /\ secrets' = secrets /\ rows' = rows
      /\ votes' = votes /\ reaction' = reaction /\ unread' = unread
      /\ inbox' = inbox /\ readable' = readable /\ voted' = voted /\ now' = now
  BY DEF MirrorBallot, Mirrors, ghosts
<1>2. Busy(c) /\ call[c].id \in Ids
  BY <1>1, SentBefore DEF After, CallType
<1>3. /\ polls \subseteq polls' /\ call[c].id \in polls' /\ polls' \subseteq Ids
      /\ ballots' \subseteq Ids \X Options
      /\ \A q \in polls' : {q} \X Options \subseteq ballots'
  BY <1>1, <1>2, BallotWritten
<1>4. TypeOK' /\ MirroredWasSent'
  BY <1>1, <1>3 DEF IInv, TypeOK, MirroredWasSent
<1>5. WorldOK' /\ Grows
  <2>1. WorldOK'
    BY <1>1, <1>3 DEF IInv, WorldOK, Counted
  <2> QED
    BY <1>1, <1>3, <2>1, Growing
<1>6. Fact(c, "ballot")'
  BY <1>1, <1>2, <1>3, Going DEF Fact, Along
<1> QED
  BY <1>1, <1>4, <1>5, <1>6, MirrorStep DEF After

(* An upserted vote, or a newer one of the same voter, is in the cache,    *)
(* and no other vote is lost.                                              *)
LEMMA VoteUpserted ==
    ASSUME IInv, NEW v \in VoteType, UpsertPollVote(v)
    PROVE  /\ votes' \subseteq VoteType
           /\ \A x, y \in votes' : SameVoter(x, y) => x = y
           /\ \A p \in Ids, t \in Nat : Counted(p, t) => Counted(p, t)'
           /\ \E w \in votes' : SameVoter(v, w) /\ (w.ts > v.ts \/ w.ts = v.ts)
<1>1. votes \subseteq VoteType /\ \A x, y \in votes : SameVoter(x, y) => x = y
  BY DEF IInv, TypeOK, WorldOK
<1>2. CASE \E w \in votes : SameVoter(v, w) /\ w.ts > v.ts
  <2>1. votes' = votes
    BY <1>2 DEF UpsertPollVote
  <2> QED
    BY <1>1, <1>2, <2>1 DEF Counted
<1>3. CASE ~ \E w \in votes : SameVoter(v, w) /\ w.ts > v.ts
  <2>1. votes' = {w \in votes : ~SameVoter(v, w)} \cup {v}
    BY <1>3 DEF UpsertPollVote
  <2>2. votes' \subseteq VoteType
    BY <1>1, <2>1
  <2>3. \A x, y \in votes' : SameVoter(x, y) => x = y
    BY <1>1, <2>1 DEF SameVoter
  <2>4. ASSUME NEW p \in Ids, NEW t \in Nat, NEW w \in votes, w.poll = p, w.voter = Me,
               w.as = "phone", w.ts > t \/ w.ts = t
        PROVE  \E x \in votes' : x.poll = p /\ x.voter = Me /\ x.as = "phone" /\ (x.ts > t \/ x.ts = t)
    <3>1. CASE ~SameVoter(v, w)
      BY <2>1, <2>4, <3>1
    <3>2. CASE SameVoter(v, w)
      <4>1. w.ts \in Nat /\ v.ts \in Nat
        BY <1>1 DEF VoteType
      <4>2. ~ (w.ts > v.ts)
        BY <1>3, <3>2
      <4>3. v.ts > t \/ v.ts = t
        BY <2>4, <4>1, <4>2
      <4> QED
        BY <2>1, <2>4, <3>2, <4>3 DEF SameVoter
    <3> QED
      BY <3>1, <3>2
  <2>5. \A p \in Ids, t \in Nat : Counted(p, t) => Counted(p, t)'
    BY <2>4 DEF Counted
  <2>6. SameVoter(v, v)
    BY DEF SameVoter
  <2> QED
    BY <2>1, <2>2, <2>3, <2>5, <2>6
<1> QED
  BY <1>2, <1>3

LEMMA MirrorOwnVoteKeeps == ASSUME IInv, NEW c \in Agents, MirrorOwnVote(c) PROVE IInv'
<1> DEFINE v == [poll |-> call[c].on, voter |-> Me, as |-> "phone",
                choice |-> call[c].choice, ts |-> call[c].msg.ts]
<1>1. /\ Mirrors(c, "vote") /\ UpsertPollVote(v) /\ At(c, "vote") /\ Go(c)
      /\ link' = link /\ trouble' = trouble /\ menu' = menu /\ calls' = calls
      /\ blobs' = blobs /\ accepted' = accepted /\ secrets' = secrets /\ rows' = rows
      /\ polls' = polls /\ ballots' = ballots /\ reaction' = reaction /\ unread' = unread
      /\ inbox' = inbox /\ readable' = readable /\ voted' = voted /\ now' = now
  BY DEF MirrorOwnVote, Mirrors, ghosts
<1>2. Busy(c) /\ call[c] \in CallType /\ Fact(c, "send")
  BY <1>1, SentBefore DEF After
<1>3. call[c].choice \subseteq Options
  <2>1. /\ Well(call[c].op, Code(c)) /\ Running(c)
        /\ call[c].at \in 1..Len(Code(c)) /\ Code(c)[call[c].at] = "vote"
    BY <1>1, Place
  <2>2. PICK i \in 1..Len(Code(c)) : i < call[c].at /\ Code(c)[i] = "match"
    BY <2>1 DEF Well
  <2> QED
    BY <2>1, <2>2 DEF Running, Fact
<1>4. /\ v \in VoteType /\ v.poll = call[c].on /\ v.voter = Me /\ v.as = "phone"
      /\ v.ts = call[c].msg.ts
  BY <1>2, <1>3 DEF VoteType, CallType, MessageType
<1> HIDE DEF v
<1>5. /\ votes' \subseteq VoteType
      /\ \A x, y \in votes' : SameVoter(x, y) => x = y
      /\ \A p \in Ids, t \in Nat : Counted(p, t) => Counted(p, t)'
      /\ \E w \in votes' : SameVoter(v, w) /\ (w.ts > v.ts \/ w.ts = v.ts)
  BY <1>1, <1>4, VoteUpserted
<1>6. TypeOK' /\ MirroredWasSent'
  BY <1>1, <1>5 DEF IInv, TypeOK, MirroredWasSent
<1>7. Grows
  BY <1>1, <1>5, Growing
<1>8. WorldOK'
  <2>1. \A m \in voted : Counted(m.on, m.ts)'
    BY <1>5 DEF IInv, WorldOK, MessageType
  <2> QED
    BY <1>1, <1>5, <2>1 DEF IInv, WorldOK, Counted
<1>9. Fact(c, "vote")'
  BY <1>1, <1>2, <1>4, <1>5, Going DEF Fact, Along, Counted, SameVoter
<1> QED
  BY <1>1, <1>6, <1>7, <1>8, <1>9, MirrorStep DEF After

(* A mirrored reaction stands, or one no older; a removal is remembered.   *)
LEMMA ReactionMirrored ==
    ASSUME IInv, NEW m \in accepted, m.kind = "reaction", MirrorReaction(m), accepted \subseteq accepted'
    PROVE  /\ reaction' \subseteq reaction \cup {m}
           /\ \A r, s \in reaction' : r.on = s.on => r = s
           /\ \A p \in Ids, t \in Nat : Reacted(p, t) => Reacted(p, t)'
           /\ Reacted(m.on, m.ts)'
<1>1. /\ reaction \subseteq MessageType /\ \A r, s \in reaction : r.on = s.on => r = s
      /\ m \in MessageType
  BY DEF IInv, TypeOK, MirroredWasSent, WorldOK
<1>2. /\ m.ts \in Nat /\ \A r \in reaction : r.ts \in Nat
  BY <1>1 DEF MessageType
<1>3. \A p : Removed(p) => Removed(p)'
  BY DEF Removed
<1>4. CASE m.choice = {}
  <2>1. reaction' = {r \in reaction : r.on # m.on}
    BY <1>4 DEF MirrorReaction
  <2>2. Removed(m.on)'
    BY <1>4 DEF Removed
  <2> QED
    BY <1>1, <1>3, <2>1, <2>2 DEF Reacted
<1>5. CASE m.choice # {} /\ \E r \in reaction : r.on = m.on /\ r.ts > m.ts
  <2>1. reaction' = reaction
    BY <1>5 DEF MirrorReaction
  <2> QED
    BY <1>1, <1>3, <1>5, <2>1 DEF Reacted
<1>6. CASE m.choice # {} /\ ~ \E r \in reaction : r.on = m.on /\ r.ts > m.ts
  <2>1. reaction' = {r \in reaction : r.on # m.on} \cup {m}
    BY <1>6 DEF MirrorReaction
  <2>2. ASSUME NEW p \in Ids, NEW t \in Nat, NEW r \in reaction, r.on = p, r.ts > t \/ r.ts = t
        PROVE  \E x \in reaction' : x.on = p /\ (x.ts > t \/ x.ts = t)
    <3>1. CASE r.on # m.on
      BY <2>1, <2>2, <3>1
    <3>2. CASE r.on = m.on
      <4>1. ~ (r.ts > m.ts)
        BY <1>6, <3>2
      <4>2. m.ts > t \/ m.ts = t
        BY <1>2, <2>2, <4>1
      <4> QED
        BY <2>1, <2>2, <3>2, <4>2
    <3> QED
      BY <3>1, <3>2
  <2>3. \A p \in Ids, t \in Nat : Reacted(p, t) => Reacted(p, t)'
    BY <1>3, <2>2 DEF Reacted
  <2> QED
    BY <1>1, <2>1, <2>3 DEF Reacted
<1> QED
  BY <1>4, <1>5, <1>6

LEMMA ReactionGrows ==
    ASSUME IInv, NEW m \in accepted, m.kind = "reaction", MirrorReaction(m),
           link' = link, trouble' = trouble, menu' = menu, calls' = calls, blobs' = blobs,
           accepted' = accepted, secrets' = secrets, rows' = rows, polls' = polls,
           ballots' = ballots, votes' = votes, unread' = unread, inbox' = inbox,
           readable' = readable, voted' = voted, now' = now
    PROVE  TypeOK' /\ MirroredWasSent' /\ WorldOK' /\ Grows
<1>1. /\ reaction' \subseteq reaction \cup {m}
      /\ \A r, s \in reaction' : r.on = s.on => r = s
      /\ \A p \in Ids, t \in Nat : Reacted(p, t) => Reacted(p, t)'
  BY ReactionMirrored
<1>2. TypeOK' /\ MirroredWasSent'
  BY <1>1 DEF IInv, TypeOK, MirroredWasSent
<1>3. WorldOK'
  BY DEF IInv, WorldOK, Counted
<1>4. \A p \in Ids, t \in Nat : Counted(p, t) => Counted(p, t)'
  BY DEF Counted
<1>5. \A t \in 0..now : ReadSince(t) => ReadSince(t)'
  BY DEF ReadSince
<1> QED
  BY <1>1, <1>2, <1>3, <1>4, <1>5 DEF Grows

LEMMA MirrorOwnReactionKeeps == ASSUME IInv, NEW c \in Agents, MirrorOwnReaction(c) PROVE IInv'
<1>1. /\ Mirrors(c, "reaction") /\ MirrorReaction(call[c].msg) /\ At(c, "reaction") /\ Go(c)
      /\ link' = link /\ trouble' = trouble /\ menu' = menu /\ calls' = calls
      /\ blobs' = blobs /\ accepted' = accepted /\ secrets' = secrets /\ rows' = rows
      /\ polls' = polls /\ ballots' = ballots /\ votes' = votes /\ unread' = unread
      /\ inbox' = inbox /\ readable' = readable /\ voted' = voted /\ now' = now
  BY DEF MirrorOwnReaction, Mirrors, ghosts
<1>2. call[c].msg \in accepted /\ call[c].msg.kind = KindOf(call[c].op) /\ Busy(c)
  BY <1>1, SentBefore DEF After, Fact
<1>3. call[c].op = "send_reaction"
  BY <1>1, Place DEF Well
<1>4. call[c].msg.kind = "reaction"
  BY <1>2, <1>3 DEF KindOf
<1>5. TypeOK' /\ MirroredWasSent' /\ WorldOK' /\ Grows
  BY <1>1, <1>2, <1>4, ReactionGrows
<1>6. Fact(c, "reaction")'
  <2>1. Reacted(call[c].msg.on, call[c].msg.ts)'
    <3>1. PICK m \in accepted : m = call[c].msg /\ m.kind = "reaction" /\ MirrorReaction(m)
      BY <1>1, <1>2, <1>4
    <3>2. call'[c].msg = m
      BY <1>1, <1>2, <3>1, Going
    <3>3. Removed(m.on)' \/ \E r \in reaction' : r.on = m.on /\ (r.ts > m.ts \/ r.ts = m.ts)
      BY <1>1, <3>1, ReactionMirrored DEF Reacted, Removed
    <3> QED
      BY <3>2, <3>3 DEF Reacted, Removed
  <2> QED
    BY <2>1 DEF Fact
<1> QED
  BY <1>1, <1>5, <1>6, MirrorStep DEF After

LEMMA ClearUnreadKeeps == ASSUME IInv, NEW c \in Agents, ClearUnread(c) PROVE IInv'
<1>1. /\ Mirrors(c, "unread") /\ unread' = {} /\ At(c, "unread") /\ Go(c)
      /\ link' = link /\ trouble' = trouble /\ menu' = menu /\ calls' = calls
      /\ blobs' = blobs /\ accepted' = accepted /\ secrets' = secrets /\ rows' = rows
      /\ polls' = polls /\ ballots' = ballots /\ votes' = votes /\ reaction' = reaction
      /\ inbox' = inbox /\ readable' = readable /\ voted' = voted /\ now' = now
  BY DEF ClearUnread, Mirrors, ghosts
<1>2. call[c].msg \in accepted /\ Busy(c)
  BY <1>1, SentBefore DEF After
<1>3. TypeOK' /\ MirroredWasSent'
  BY <1>1 DEF IInv, TypeOK, MirroredWasSent
<1>4. WorldOK' /\ Grows
  <2>1. WorldOK'
    BY <1>1 DEF IInv, WorldOK, Counted
  <2> QED
    BY <1>1, <2>1, Growing
<1>5. Fact(c, "unread")'
  BY <1>1, <1>2, Going DEF Fact, ReadSince, Read
<1> QED
  BY <1>1, <1>3, <1>4, <1>5, MirrorStep DEF After

LEMMA MirrorFailsKeeps == ASSUME IInv, NEW c \in Agents, MirrorFails(c) PROVE IInv'
<1> DEFINE k == [call[c] EXCEPT !.warned = TRUE]
<1>1. Quiet
  BY DEF MirrorFails, Quiet
<1>2. CASE At(c, "unread") /\ GoWith(c, k)
  <2>1. Busy(c) /\ call[c] \in CallType
    BY <1>2, Place
  <2>2. /\ k \in CallType /\ k.op = call[c].op /\ k.id = call[c].id
        /\ k.on = call[c].on /\ k.choice = call[c].choice /\ k.expect = call[c].expect
        /\ k.answer = call[c].answer /\ k.seen = call[c].seen /\ k.warned
        /\ k.ballot = call[c].ballot /\ k.msg = call[c].msg /\ k.tally = call[c].tally
        /\ k.digest = call[c].digest
    BY <2>1 DEF CallType
  <2> HIDE DEF k
  <2>3. call'[c].warned
    BY <1>2, <2>1, <2>2, GoingAs
  <2>4. Fact(c, "unread")'
    BY <2>3 DEF Fact
  <2>5. Steps(c, "unread")
    BY <1>1, <1>2, <2>1, <2>2, <2>4, GoingAs DEF Steps, Quiet
  <2> QED
    BY <1>1, <1>2, <2>1, <2>2, <2>5, GoingAs, QuietStep
<1>3. ASSUME NEW s \in {"chat", "row", "ballot", "vote", "reaction"}, At(c, s), Reply(c, "internal")
      PROVE  IInv'
  BY <1>1, <1>3, ForgetStep DEF At
<1> QED
  BY <1>2, <1>3 DEF MirrorFails

(* A call that has taken all its steps has what they establish.            *)
LEMMA AllDone ==
    ASSUME IInv, NEW c \in Agents, Busy(c), call[c].at > Len(Code(c))
    PROVE  /\ Done(c) /\ link \in call[c].seen /\ call[c] \in CallType
           /\ call[c].op = "send_poll" => Fact(c, "secret")
           /\ call[c].op = "vote_poll" => Fact(c, "vote")
<1>1. call[c] \in CallType /\ Well(call[c].op, Code(c)) /\ Running(c) /\ Len(Code(c)) \in Nat
  BY BusyType DEF Well
<1>2. call[c].at \in Nat
  BY <1>1 DEF CallType
<1>3. \A i \in 1..Len(Code(c)) : Fact(c, Code(c)[i])
  BY <1>1, <1>2 DEF Running
<1>4. ASSUME NEW s, \E i \in 1..Len(Code(c)) : Code(c)[i] = s PROVE Fact(c, s)
  <2>1. PICK i \in 1..Len(Code(c)) : Code(c)[i] = s
    BY <1>4
  <2>2. Fact(c, Code(c)[i])
    BY <1>3
  <2> QED
    BY <2>1, <2>2
<1>5. KindOf(call[c].op) # "request" => call[c].msg \in accepted
  <2>1. KindOf(call[c].op) # "request" => Fact(c, "send")
    BY <1>1, <1>4 DEF Well
  <2> QED
    BY <2>1 DEF Fact
<1>6. call[c].msg.kind = "none" \/ call[c].msg.kind = KindOf(call[c].op)
  <2>1. CASE \E i \in 1..Len(Code(c)) : Code(c)[i] = "send"
    <3>1. Fact(c, "send")
      BY <1>4, <2>1
    <3> QED
      BY <3>1 DEF Fact
  <2>2. CASE ~ \E i \in 1..Len(Code(c)) : Code(c)[i] = "send"
    BY <1>1, <2>2 DEF Running, NoMessage
  <2> QED
    BY <2>1, <2>2
<1>7. call[c].msg.kind \in {"text", "media", "poll"} => call[c].msg \in rows
  <2>1. call[c].msg.kind \in {"text", "media", "poll"} => Fact(c, "row")
    BY <1>1, <1>4, <1>6 DEF Well
  <2> QED
    BY <2>1 DEF Fact
<1>8. call[c].msg.kind = "poll" => call[c].msg.id \in polls
  <2>1. call[c].msg.kind = "poll" => Fact(c, "ballot") /\ Fact(c, "send")
    BY <1>1, <1>4, <1>6 DEF Well
  <2> QED
    BY <2>1 DEF Fact
<1>9. /\ call[c].msg.kind = "receipt" =>
            call[c].warned \/ Read(call[c].msg)
      /\ call[c].msg.kind = "reaction" => Reacted(call[c].msg.on, call[c].msg.ts)
      /\ call[c].msg.kind = "vote" => Counted(call[c].msg.on, call[c].msg.ts)
  <2>1. call[c].msg.kind = "receipt" => Fact(c, "unread")
    BY <1>1, <1>4, <1>6 DEF Well
  <2>2. call[c].msg.kind = "reaction" => Fact(c, "reaction")
    BY <1>1, <1>4, <1>6 DEF Well
  <2>3. call[c].msg.kind = "vote" => Fact(c, "vote")
    BY <1>1, <1>4, <1>6 DEF Well
  <2> QED
    BY <2>1, <2>2, <2>3 DEF Fact
<1>10. call[c].op = "get_poll_results" => TallyRight(c) /\ call[c].ballot = Options
  <2>1. call[c].op = "get_poll_results" => Fact(c, "votes") /\ Fact(c, "options")
    BY <1>1, <1>4 DEF Well
  <2> QED
    BY <2>1 DEF Fact
<1>11. Done(c)
  BY <1>5, <1>7, <1>8, <1>9, <1>10 DEF Done
<1>12. /\ call[c].op = "send_poll" => Fact(c, "secret")
       /\ call[c].op = "vote_poll" => Fact(c, "vote")
  BY <1>1, <1>4 DEF Well
<1> QED
  BY <1>1, <1>11, <1>12 DEF Running

LEMMA AnswerKeeps == ASSUME IInv, NEW c \in Agents, Answer(c) PROVE IInv'
<1>1. /\ Busy(c) /\ call[c].at > Len(Code(c)) /\ Reply(c, "ok")
      /\ link' = link /\ trouble' = trouble /\ menu' = menu /\ calls' = calls
      /\ blobs' = blobs /\ accepted' = accepted /\ secrets' = secrets /\ rows' = rows
      /\ polls' = polls /\ ballots' = ballots /\ votes' = votes /\ reaction' = reaction
      /\ unread' = unread /\ inbox' = inbox /\ now' = now
      /\ readable' = (IF call[c].op = "send_poll" /\ "unpaired" \notin call[c].seen
                      THEN readable \cup {call[c].id} ELSE readable)
      /\ voted' = (IF call[c].op = "vote_poll" THEN voted \cup {call[c].msg} ELSE voted)
  BY DEF Answer, cache, Code
<1>2. /\ Done(c) /\ link \in call[c].seen /\ call[c] \in CallType
      /\ call[c].op = "send_poll" => Fact(c, "secret")
      /\ call[c].op = "vote_poll" => Fact(c, "vote")
  BY <1>1, AllDone
<1>3. /\ call'[c].op = call[c].op /\ call'[c].msg = call[c].msg /\ call'[c].answer = "ok"
      /\ call'[c].warned = call[c].warned /\ call'[c].expect = call[c].expect
      /\ call'[c].tally = call[c].tally
      /\ call[c].op = "get_poll_results" => call'[c].ballot = call[c].ballot
  BY <1>1, <1>2, Replying, Ending
<1>4. CallOK(c)'
  <2>1. Done(c)'
    BY <1>1, <1>2, <1>3 DEF Done, TallyRight, Counted, Reacted, Removed, ReadSince, Read
  <2> QED
    BY <1>3, <2>1 DEF CallOK, Refusals
<1>5. TypeOK' /\ MirroredWasSent'
  BY <1>1 DEF IInv, TypeOK, MirroredWasSent
<1>6. Grows
  BY <1>1, Growing
<1>7. /\ readable' \subseteq secrets /\ (link = "unpaired" => readable' = {})
  BY <1>1, <1>2 DEF IInv, WorldOK, Fact
<1>8. voted' \subseteq MessageType /\ \A m \in voted' : Counted(m.on, m.ts)
  BY <1>1, <1>2 DEF IInv, WorldOK, Fact, CallType
<1>9. WorldOK'
  BY <1>1, <1>7, <1>8 DEF IInv, WorldOK, Counted
<1>10. OnlyMoves(c)
  BY <1>1, <1>6, Replying DEF OnlyMoves
<1> QED
  BY <1>1, <1>4, <1>5, <1>9, <1>10, CallsStay DEF IInv

LEMMA StepKeeps == ASSUME IInv, NEW c \in Agents, Step(c) PROVE IInv'
  BY CheckPairedKeeps, CheckLoggedInKeeps, PlainStepsKeep, OpenMediaKeeps, PrepareAudioKeeps, SendKeeps,
     StoreSecretKeeps, MirrorChatKeeps, MirrorRowKeeps, MirrorBallotKeeps, MirrorOwnVoteKeeps,
     MirrorOwnReactionKeeps, ClearUnreadKeeps, MirrorFailsKeeps, ReadPollKeeps,
     ReadOptionsKeeps, MatchKeeps, ReadVotesKeeps, FindMediaKeeps, LookupMediaKeeps,
     PutMediaKeeps, AnswerKeeps DEF Step

-----------------------------------------------------------------------------
(* A call begins.                                                          *)

LEMMA BeginKeeps == ASSUME IInv, NEW c \in Agents, NEW op \in menu, Begin(c, op) PROVE IInv'
<1>1. /\ ~Busy(c) /\ calls < MaxCalls /\ calls' = calls + 1
      /\ link' = link /\ trouble' = trouble /\ menu' = menu
      /\ blobs' = blobs /\ accepted' = accepted /\ secrets' = secrets /\ rows' = rows
      /\ polls' = polls /\ ballots' = ballots /\ votes' = votes /\ reaction' = reaction
      /\ unread' = unread /\ inbox' = inbox /\ readable' = readable /\ voted' = voted
      /\ now' = now
  BY DEF Begin, cache, ghosts
<1>2. op \in Ops
  BY MenusAssumption DEF IInv, WorldOK, Ops
<1>3. calls \in Nat /\ calls + 1 \in Ids \ {0}
  BY <1>1, ToolsAssumption DEF IInv, WorldOK, Ids
<1>4. PICK a \in Asked(op) : call' = [call EXCEPT ![c] =
              [op |-> op, id |-> calls + 1, at |-> 1, answer |-> "none", seen |-> {link},
               on |-> a[1], choice |-> a[2], digest |-> 0, ballot |-> {}, tally |-> {},
               expect |-> {v \in voted : op = "get_poll_results" /\ v.on = a[1]},
               msg |-> NoMessage, warned |-> FALSE]]
  BY DEF Begin
<1>5. a[1] \in Ids /\ a[2] \in Choices
  <2>1. Targets \subseteq Ids /\ 0 \in Ids /\ {} \in Choices
    BY ToolsAssumption DEF Ids, Choices
  <2>2. Referable \subseteq Ids
    BY <2>1 DEF Referable
  <2>3. a \in (Referable \X Requests) \cup (Referable \X {{}, {1}}) \cup (Referable \X {{}}) \cup {<<0, {}>>}
    BY DEF Asked
  <2> QED
    BY <2>1, <2>2, <2>3 DEF Choices
<1> DEFINE expected == {v \in voted : op = "get_poll_results" /\ v.on = a[1]}
           k == [op |-> op, id |-> calls + 1, at |-> 1, answer |-> "none", seen |-> {link},
                 on |-> a[1], choice |-> a[2], digest |-> 0, ballot |-> {}, tally |-> {},
                 expect |-> expected, msg |-> NoMessage, warned |-> FALSE]
<1>6. expected \in SUBSET MessageType /\ \A v \in expected : v \in voted /\ v.on = a[1]
  BY DEF IInv, WorldOK
<1>7. NoMessage \in MessageType
  BY ToolsAssumption DEF NoMessage, MessageType, Kinds, Choices, Ids
<1> HIDE DEF expected
<1>8. k \in CallType
  BY <1>2, <1>3, <1>5, <1>6, <1>7 DEF CallType, Answers, IInv, TypeOK
<1>9. /\ call' = [call EXCEPT ![c] = k] /\ call \in [Agents -> CallType \cup {Idle}]
  BY <1>4 DEF expected, IInv, CallsOK
<1>10. /\ k.op = op /\ k.id = calls + 1 /\ k.at = 1 /\ k.answer = "none" /\ k.seen = {link}
       /\ k.on = a[1] /\ k.msg = NoMessage /\ k.expect = expected
  OBVIOUS
<1> HIDE DEF k
<1>11. /\ call' \in [Agents -> CallType \cup {Idle}] /\ call'[c] = k
       /\ \A d \in Agents \ {c} : call'[d] = call[d]
  BY <1>8, <1>9
<1>12. Running(c)'
  <2>1. Len(Code(c)') \in Nat
    BY <1>2, <1>10, <1>11, ProgramWell DEF Code, Well
  <2>2. Unsent(c)'
    BY <1>1, <1>3, <1>10, <1>11 DEF Unsent, IInv, WorldOK, MessageType, Ids
  <2> QED
    BY <1>1, <1>6, <1>10, <1>11, <2>1, <2>2 DEF Running
<1>13. TypeOK' /\ MirroredWasSent'
  BY <1>1, <1>3 DEF IInv, TypeOK, MirroredWasSent
<1>14. WorldOK' /\ Grows
  <2>1. \A m \in accepted : m.id <= calls + 1
    BY <1>3 DEF IInv, WorldOK, MessageType, Ids
  <2> QED
    <3>1. WorldOK'
      BY <1>1, <1>3, <2>1 DEF IInv, WorldOK, Counted
    <3> QED
      BY <1>1, <3>1, Growing
<1>15. ASSUME NEW d \in Agents, call'[d].op # "none" PROVE OwnId(d)' /\ CallOK(d)'
  <2>1. \A e \in Agents : call[e].op # "none" => call[e].id \in Nat /\ call[e].id <= calls
    BY DEF IInv, CallsOK, OwnId, CallType, Ids, Idle
  <2>2. CASE d = c
    BY <1>1, <1>3, <1>10, <1>11, <1>12, <2>1, <2>2 DEF OwnId, CallOK, Refusals
  <2>3. CASE d # c
    <3>1. call[d].op # "none" /\ OwnId(d) /\ call'[d] = call[d]
      BY <1>11, <1>15, <2>3 DEF IInv, CallsOK
    <3>2. CallOK(d)'
      BY <1>1, <1>14, <3>1, CallStays DEF Unsent
    <3>3. OwnId(d)'
      BY <1>1, <1>3, <1>10, <1>11, <2>1, <3>1 DEF OwnId
    <3> QED
      BY <3>2, <3>3
  <2> QED
    BY <2>2, <2>3
<1> QED
  BY <1>11, <1>13, <1>14, <1>15 DEF IInv, CallsOK

-----------------------------------------------------------------------------
(* What happens besides the calls.                                         *)

LEMMA CallsUntouched ==
    ASSUME IInv, call' = call, calls' = calls, link' = link, secrets \subseteq secrets', Grows,
           \A m \in accepted' : m \in accepted \/ m.id = 0
    PROVE  CallsOK'
<1>1. ASSUME NEW d \in Agents, call[d].op # "none" PROVE OwnId(d)' /\ CallOK(d)'
  <2>1. OwnId(d)'
    BY <1>1 DEF IInv, CallsOK, OwnId
  <2>2. call[d].id # 0
    BY <1>1 DEF IInv, CallsOK, CallType, Idle
  <2>3. CallOK(d)'
    BY <1>1, <2>2, CallStays DEF Unsent
  <2> QED
    BY <2>1, <2>3
<1> QED
  BY <1>1 DEF IInv, CallsOK

LEMMA PollArrivesKeeps == ASSUME IInv, PollArrives PROVE IInv'
<1>1. /\ UpsertPoll(0) /\ link' = link /\ trouble' = trouble /\ menu' = menu /\ calls' = calls
      /\ call' = call /\ blobs' = blobs /\ accepted' = accepted /\ rows' = rows
      /\ secrets' \in {secrets, secrets \cup {0}} /\ votes' = votes /\ reaction' = reaction
      /\ unread' = unread /\ inbox' = inbox /\ readable' = readable /\ voted' = voted
      /\ now' = now /\ 0 \in Ids
  BY ToolsAssumption DEF PollArrives, ghosts, Ids
<1>2. /\ polls \subseteq polls' /\ polls' \subseteq Ids /\ ballots' \subseteq Ids \X Options
      /\ \A q \in polls' : {q} \X Options \subseteq ballots'
  BY <1>1, BallotWritten
<1>3. TypeOK' /\ MirroredWasSent'
  BY <1>1, <1>2 DEF IInv, TypeOK, MirroredWasSent
<1>4. WorldOK' /\ Grows
  <2>1. WorldOK'
    BY <1>1, <1>2 DEF IInv, WorldOK, Counted
  <2> QED
    BY <1>1, <1>2, <2>1, Growing
<1> QED
  BY <1>1, <1>3, <1>4, CallsUntouched DEF IInv

LEMMA CastVoteKeeps == ASSUME IInv, CastVote PROVE IInv'
<1>1. /\ link' = link /\ trouble' = trouble /\ menu' = menu /\ calls' = calls
      /\ call' = call /\ blobs' = blobs /\ accepted' = accepted /\ rows' = rows
      /\ secrets' = secrets /\ polls' = polls /\ ballots' = ballots /\ votes' = votes
      /\ reaction' = reaction /\ unread' = unread /\ readable' = readable /\ voted' = voted
      /\ now' = now
  BY DEF CastVote, cache, ghosts
<1>2. PICK p \in Targets, u \in {Me} \cup Voters, o \in Options, a \in {"phone", "lid"} :
        inbox' = inbox \cup {[poll |-> p, voter |-> u, as |-> a, choice |-> {o}, ts |-> now]}
  BY DEF CastVote
<1>3. inbox' \subseteq VoteType
  BY <1>2, ToolsAssumption DEF IInv, WorldOK, VoteType, Ids
<1>4. TypeOK' /\ MirroredWasSent'
  BY <1>1 DEF IInv, TypeOK, MirroredWasSent
<1>5. WorldOK' /\ Grows
  <2>1. WorldOK'
    BY <1>1, <1>3 DEF IInv, WorldOK, Counted
  <2> QED
    BY <1>1, <1>3, <2>1, Growing
<1> QED
  BY <1>1, <1>4, <1>5, CallsUntouched DEF IInv

LEMMA HandlePollVoteKeeps == ASSUME IInv, HandlePollVote PROVE IInv'
<1>1. PICK v \in inbox :
        /\ inbox' \in {inbox, inbox \ {v}}
        /\ UpsertPollVote(v) \/ UNCHANGED votes
        /\ UNCHANGED <<link, trouble, menu, call, calls, accepted, secrets, rows, polls, ballots,
                       reaction, unread, blobs, readable, voted, now>>
  BY DEF HandlePollVote
<1>2. v \in VoteType
  BY DEF IInv, WorldOK
<1>3. /\ votes' \subseteq VoteType
      /\ \A x, y \in votes' : SameVoter(x, y) => x = y
      /\ \A p \in Ids, t \in Nat : Counted(p, t) => Counted(p, t)'
  <2>1. CASE UpsertPollVote(v)
    BY <1>2, <2>1, VoteUpserted
  <2>2. CASE UNCHANGED votes
    BY <2>2 DEF IInv, TypeOK, WorldOK, Counted
  <2> QED
    BY <1>1, <2>1, <2>2
<1>4. TypeOK' /\ MirroredWasSent'
  BY <1>1, <1>3 DEF IInv, TypeOK, MirroredWasSent
<1>5. Grows
  BY <1>1, <1>3, Growing
<1>6. WorldOK'
  <2>1. \A m \in voted : Counted(m.on, m.ts)'
    BY <1>3 DEF IInv, WorldOK, MessageType
  <2> QED
    BY <1>1, <1>3, <2>1 DEF IInv, WorldOK, Counted
<1> QED
  BY <1>1, <1>4, <1>5, <1>6, CallsUntouched DEF IInv

LEMMA VoteNotWrittenKeeps == ASSUME IInv, VoteNotWritten PROVE IInv'
<1>1. /\ link' = link /\ trouble' = trouble + 1 /\ trouble < MaxTrouble /\ menu' = menu
      /\ calls' = calls /\ call' = call /\ blobs' = blobs /\ accepted' = accepted
      /\ rows' = rows /\ secrets' = secrets /\ polls' = polls /\ ballots' = ballots
      /\ votes' = votes /\ reaction' = reaction /\ unread' = unread /\ readable' = readable
      /\ voted' = voted /\ inbox' \subseteq inbox /\ now' = now
  BY DEF VoteNotWritten, cache, ghosts
<1>2. TypeOK' /\ MirroredWasSent'
  BY <1>1, ToolsAssumption DEF IInv, TypeOK, MirroredWasSent
<1>3. WorldOK' /\ Grows
  <2>1. WorldOK'
    BY <1>1 DEF IInv, WorldOK, Counted
  <2> QED
    BY <1>1, <2>1, Growing
<1> QED
  BY <1>1, <1>2, <1>3, CallsUntouched DEF IInv

LEMMA PhoneRemovesKeeps == ASSUME IInv, PhoneRemoves PROVE IInv'
<1>1. PICK on \in Referable : accepted' = accepted \cup {Message(0, "reaction", on, {}, 0)}
  BY DEF PhoneRemoves
<1>2. UNCHANGED <<link, trouble, menu, call, calls, secrets, cache, blobs, inbox, ghosts, now>>
  BY DEF PhoneRemoves
<1> DEFINE m == Message(0, "reaction", on, {}, 0)
<1>3. m \in MessageType /\ m.id = 0 /\ m.id <= calls /\ m.ts <= now
  <2>1. on \in Ids /\ 0 \in Ids
    BY ToolsAssumption DEF Referable, Ids
  <2> QED
    BY <2>1, ToolsAssumption DEF Message, MessageType, Kinds, Choices, IInv, WorldOK
<1> HIDE DEF m
<1>4. TypeOK' /\ MirroredWasSent' /\ WorldOK' /\ Grows
  BY <1>1, <1>2, <1>3, AcceptedStay DEF m
<1>5. CallsOK'
  BY <1>1, <1>2, <1>3, <1>4, CallsUntouched DEF m
<1> QED
  BY <1>4, <1>5 DEF IInv

LEMMA HandleReactionKeeps == ASSUME IInv, HandleReaction PROVE IInv'
<1>1. PICK m \in accepted : m.id = 0 /\ m.kind = "reaction" /\ MirrorReaction(m)
  BY DEF HandleReaction
<1>2. /\ link' = link /\ trouble' = trouble /\ menu' = menu /\ calls' = calls
      /\ call' = call /\ blobs' = blobs /\ accepted' = accepted /\ rows' = rows
      /\ secrets' = secrets /\ polls' = polls /\ ballots' = ballots /\ votes' = votes
      /\ unread' = unread /\ readable' = readable /\ voted' = voted
      /\ inbox' = inbox /\ now' = now
  BY DEF HandleReaction, ghosts
<1>3. TypeOK' /\ MirroredWasSent' /\ WorldOK' /\ Grows
  BY <1>1, <1>2, ReactionGrows
<1> QED
  BY <1>2, <1>3, CallsUntouched DEF IInv

LEMMA MarkedOnPhoneKeeps == ASSUME IInv, MarkedOnPhone PROVE IInv'
<1>1. /\ unread' \in {{}, {now}}
      /\ link' = link /\ trouble' = trouble /\ menu' = menu /\ calls' = calls
      /\ call' = call /\ blobs' = blobs /\ accepted' = accepted /\ rows' = rows
      /\ secrets' = secrets /\ polls' = polls /\ ballots' = ballots /\ votes' = votes
      /\ reaction' = reaction /\ readable' = readable /\ voted' = voted
      /\ inbox' = inbox /\ now' = now
  BY DEF MarkedOnPhone, ghosts
<1>2. now \in Nat
  BY DEF IInv, WorldOK
<1>3. TypeOK' /\ MirroredWasSent'
  BY <1>1, <1>2 DEF IInv, TypeOK, MirroredWasSent
<1>4. WorldOK'
  BY <1>1 DEF IInv, WorldOK, Counted
<1>5. \A t \in 0..now : ReadSince(t)'
  BY <1>1, <1>2 DEF ReadSince
<1>6. /\ \A p \in Ids, t \in Nat : Counted(p, t) => Counted(p, t)'
      /\ \A p \in Ids, t \in Nat : Reacted(p, t) => Reacted(p, t)'
  BY <1>1 DEF Counted, Reacted, Removed
<1>7. Grows
  BY <1>1, <1>5, <1>6 DEF Grows
<1> QED
  BY <1>1, <1>3, <1>4, <1>7, CallsUntouched DEF IInv

LEMMA SweepKeeps == ASSUME IInv, Sweep PROVE IInv'
<1>1. /\ blobs' \subseteq {1, 2}
      /\ UNCHANGED <<link, trouble, menu, call, calls, accepted, secrets, cache, inbox, ghosts, now>>
  BY DEF Sweep, IInv, TypeOK
<1>2. TypeOK' /\ MirroredWasSent' /\ WorldOK' /\ Grows
  BY <1>1, BlobsStay
<1> QED
  BY <1>1, <1>2, CallsUntouched DEF IInv

LEMMA TickKeeps == ASSUME IInv, Tick PROVE IInv'
<1>1. /\ link' = link /\ trouble' = trouble /\ menu' = menu /\ calls' = calls
      /\ call' = call /\ blobs' = blobs /\ accepted' = accepted /\ rows' = rows
      /\ secrets' = secrets /\ polls' = polls /\ ballots' = ballots /\ votes' = votes
      /\ reaction' = reaction /\ unread' = unread /\ readable' = readable /\ voted' = voted
      /\ inbox' = inbox /\ now < MaxTime /\ now' = now + 1
  BY DEF Tick, cache, ghosts
<1>0. now \in Nat /\ \A m \in accepted : m.ts <= now + 1
  BY DEF IInv, WorldOK, MessageType
<1>2. TypeOK' /\ MirroredWasSent'
  BY <1>0, <1>1, ToolsAssumption DEF IInv, TypeOK, MirroredWasSent
<1>3. WorldOK' /\ Grows
  <2>1. WorldOK'
    BY <1>0, <1>1 DEF IInv, WorldOK, Counted
  <2> QED
    BY <1>1, <2>1, Growing
<1> QED
  BY <1>1, <1>2, <1>3, CallsUntouched DEF IInv

(* The link changes under the calls in progress, which see it.             *)
LEMMA CallsRelinked ==
    ASSUME IInv, link' \in Links, call' = Relinked(link'), calls' = calls, accepted' = accepted,
           secrets \subseteq secrets' \/ link' = "unpaired", Grows
    PROVE  CallsOK'
<1>1. call \in [Agents -> CallType \cup {Idle}]
  BY DEF IInv, CallsOK
<1>2. ASSUME NEW d \in Agents, Busy(d)
      PROVE  /\ call'[d] \in CallType /\ call'[d].op # "none" /\ call'[d].id = call[d].id
             /\ CallOK(d)'
  <2>1. call[d] \in CallType /\ Running(d) /\ call[d].answer = "none" /\ call[d].op # "none"
    BY <1>2, BusyType DEF Busy
  <2>2. call'[d] = [call[d] EXCEPT !.seen = @ \cup {link'}]
    BY <1>2 DEF Relinked
  <2>3. /\ call'[d] \in CallType /\ Along(d) /\ call'[d].at = call[d].at
        /\ call'[d].msg = call[d].msg /\ call'[d].tally = call[d].tally /\ link' \in call'[d].seen
    BY <2>1, <2>2 DEF Along, CallType
  <2>4. Unsent(d) => Unsent(d)'
    BY <2>3 DEF Unsent, Along
  <2>5. Running(d)'
    BY <2>1, <2>3, <2>4, RunningStays
  <2> QED
    BY <2>1, <2>3, <2>5 DEF Along, CallOK, Refusals
<1>3. ASSUME NEW d \in Agents, ~Busy(d) PROVE call'[d] = call[d]
  BY <1>3 DEF Relinked
<1>4. call' \in [Agents -> CallType \cup {Idle}]
  BY <1>1, <1>2, <1>3 DEF Relinked
<1>5. ASSUME NEW d \in Agents, call'[d].op # "none" PROVE OwnId(d)' /\ CallOK(d)'
  <2>1. \A e \in Agents : call'[e].op # "none" => call[e].op # "none" /\ call'[e].id = call[e].id
    BY <1>2, <1>3 DEF Busy
  <2>2. OwnId(d)'
    BY <1>5, <2>1 DEF IInv, CallsOK, OwnId
  <2>3. CASE ~Busy(d)
    <3>1. call'[d] = call[d] /\ call[d].answer # "none" /\ CallOK(d)
      BY <1>3, <1>5, <2>3 DEF Busy, IInv, CallsOK
    <3>2. Refused(d) => Refused(d)'
      BY <3>1 DEF Refused, Unsent
    <3>3. Done(d) => Done(d)'
      BY <1>1, <1>5, <3>1, DoneStays DEF Idle
    <3> QED
      BY <2>2, <3>1, <3>2, <3>3 DEF CallOK
  <2> QED
    BY <1>2, <2>2, <2>3
<1> QED
  BY <1>4, <1>5 DEF CallsOK

LEMMA LinkChangeKeeps == ASSUME IInv, Outage \/ Unpair \/ Pair PROVE IInv'
<1>1. /\ link' \in Links /\ trouble' = trouble + 1 /\ trouble < MaxTrouble /\ menu' = menu
      /\ calls' = calls /\ call' = Relinked(link') /\ blobs' = blobs /\ accepted' = accepted
      /\ rows' = rows /\ polls' = polls /\ ballots' = ballots /\ votes' = votes
      /\ reaction' = reaction /\ unread' = unread /\ inbox' = inbox /\ voted' = voted
      /\ now' = now
  BY DEF Outage, Unpair, Pair, cache, ghosts, Links
<1>2. \/ secrets' = secrets /\ readable' = readable /\ (link = "unpaired" \/ link' # "unpaired")
      \/ secrets' = {} /\ readable' = {} /\ link' = "unpaired"
  BY DEF Outage, Unpair, Pair, ghosts
<1>3. TypeOK' /\ MirroredWasSent'
  BY <1>1, <1>2, ToolsAssumption DEF IInv, TypeOK, MirroredWasSent
<1>4. WorldOK' /\ Grows
  <2>1. WorldOK'
    BY <1>1, <1>2 DEF IInv, WorldOK, Counted
  <2> QED
    BY <1>1, <1>2, <2>1, Growing
<1>5. CallsOK'
  BY <1>1, <1>2, <1>4, CallsRelinked
<1> QED
  BY <1>3, <1>4, <1>5 DEF IInv

LEMMA CrashKeeps == ASSUME IInv, Crash PROVE IInv'
<1>1. /\ link' \in Links /\ trouble' = trouble + 1 /\ trouble < MaxTrouble /\ menu' = menu
      /\ calls' = calls /\ blobs' = blobs /\ accepted' = accepted /\ secrets' = secrets
      /\ rows' = rows /\ polls' = polls /\ ballots' = ballots /\ votes' = votes
      /\ reaction' = reaction /\ unread' = unread /\ inbox' = {} /\ voted' = voted
      /\ readable' = readable /\ now' = now /\ (link' = "unpaired" => link = "unpaired")
  BY DEF Crash, cache, ghosts, Links
<1>2. TypeOK' /\ MirroredWasSent'
  BY <1>1, ToolsAssumption DEF IInv, TypeOK, MirroredWasSent
<1>3. WorldOK' /\ Grows
  <2>1. WorldOK'
    BY <1>1 DEF IInv, WorldOK, Counted
  <2> QED
    BY <1>1, <2>1, Growing
<1>4. ASSUME NEW d \in Agents PROVE call'[d] = IF Busy(d) THEN Idle ELSE call[d]
  BY DEF Crash, Ended
<1>5. call' \in [Agents -> CallType \cup {Idle}]
  BY DEF Crash, Ended, IInv, CallsOK
<1>6. ASSUME NEW d \in Agents, call'[d].op # "none" PROVE OwnId(d)' /\ CallOK(d)'
  <2>1. call'[d] = call[d] /\ ~Busy(d)
    BY <1>4, <1>6 DEF Idle
  <2>2. call[d].op # "none" /\ call[d].answer # "none" /\ OwnId(d) /\ CallOK(d)
    BY <1>6, <2>1 DEF Busy, IInv, CallsOK
  <2>3. OwnId(d)'
    BY <1>1, <1>4, <2>1, <2>2 DEF OwnId, Idle
  <2>4. Refused(d) => Refused(d)'
    BY <1>1, <2>1 DEF Refused, Unsent
  <2>5. Done(d) => Done(d)'
    BY <1>3, <2>1, <2>2, DoneStays DEF Idle, IInv, CallsOK
  <2> QED
    BY <2>1, <2>2, <2>3, <2>4, <2>5 DEF CallOK
<1> QED
  BY <1>2, <1>3, <1>5, <1>6 DEF IInv, CallsOK

-----------------------------------------------------------------------------
(* The theorems.                                                           *)

LEMMA InitIInv == Init => IInv
<1> SUFFICES ASSUME Init PROVE IInv
  OBVIOUS
<1>1. Received \in MessageType /\ Received.id = 0 /\ Received.ts = 0
  BY ToolsAssumption DEF Received, MessageType, Kinds, Choices, Ids
<1>2. TypeOK /\ MirroredWasSent
  BY ToolsAssumption DEF Init, TypeOK, MirroredWasSent, Ids
<1>3. WorldOK
  BY <1>1, ToolsAssumption DEF Init, WorldOK, Ids
<1>4. CallsOK
  BY DEF Init, CallsOK, Idle
<1> QED
  BY <1>2, <1>3, <1>4 DEF IInv

LEMMA NextIInv == IInv /\ [Next]_vars => IInv'
<1> SUFFICES ASSUME IInv, [Next]_vars PROVE IInv'
  OBVIOUS
<1>1. ASSUME NEW c \in Agents, Step(c) PROVE IInv'
  BY <1>1, StepKeeps
<1>2. ASSUME NEW c \in Agents, NEW op \in menu, Begin(c, op) PROVE IInv'
  BY <1>2, BeginKeeps
<1>3. CASE \/ PollArrives \/ CastVote \/ HandlePollVote \/ VoteNotWritten
          \/ PhoneRemoves \/ HandleReaction \/ MarkedOnPhone \/ Sweep \/ Tick
  BY <1>3, PollArrivesKeeps, CastVoteKeeps, HandlePollVoteKeeps, VoteNotWrittenKeeps,
     PhoneRemovesKeeps, HandleReactionKeeps, MarkedOnPhoneKeeps, SweepKeeps, TickKeeps
<1>4. CASE Outage \/ Unpair \/ Pair \/ Crash
  BY <1>4, LinkChangeKeeps, CrashKeeps
<1>5. CASE UNCHANGED vars
  <2>1. Quiet /\ call' = call
    BY <1>5 DEF vars, Quiet
  <2>2. CallsOK'
    BY <2>1, QuietGrows, CallsUntouched DEF Quiet
  <2> QED
    BY <2>1, <2>2, QuietStays DEF IInv
<1> QED
  BY <1>1, <1>2, <1>3, <1>4, <1>5 DEF Next

LEMMA SpecIInv == Spec => []IInv
<1> QED
  BY InitIInv, NextIInv, PTL DEF Spec

(* Every variable keeps its type; the cache has one vote per voter JID and *)
(* one reaction per message.                                               *)
THEOREM SpecTypeOK == Spec => []TypeOK
<1>1. IInv => TypeOK
  BY DEF IInv
<1> QED
  BY <1>1, SpecIInv, PTL

(* The cache shows no message and no reaction of this account that         *)
(* WhatsApp did not accept.                                                *)
THEOREM SpecMirroredWasSent == Spec => []MirroredWasSent
<1>1. IInv => MirroredWasSent
  BY DEF IInv
<1> QED
  BY <1>1, SpecIInv, PTL

(* A refusal is true, and a call that was refused has sent nothing: of     *)
(* not_paired from cache_sync, that the socket was down at some moment.    *)
THEOREM SpecRefusalIsTrue == Spec => []RefusalIsTrue
<1>1. IInv => RefusalIsTrue
  <2> SUFFICES ASSUME IInv, NEW c \in Agents, call[c].answer \in Refusals PROVE Refused(c)
    BY DEF RefusalIsTrue, Refused, Unsent
  <2>1. call[c] # Idle
    BY DEF Refusals, Idle
  <2>2. call[c].op # "none"
    BY <2>1, NotAnOp DEF IInv, CallsOK, CallType
  <2> QED
    BY <2>2 DEF IInv, CallsOK, CallOK
<1> QED
  BY <1>1, SpecIInv, PTL

LEMMA OkIsDone ==
    ASSUME IInv, NEW c \in Agents, call[c].answer = "ok" PROVE Done(c)
<1>1. call[c] # Idle
  BY DEF Idle
<1>2. call[c].op # "none"
  BY <1>1, NotAnOp DEF IInv, CallsOK, CallType
<1> QED
  BY <1>2 DEF IInv, CallsOK, CallOK

(* What a tool reports done is done: WhatsApp accepted it, and the cache   *)
(* has the row, the ballot, the vote, the reaction or the read flag, or    *)
(* what no earlier second put in its place.                                *)
THEOREM SpecDoneIsDone == Spec => []DoneIsDone
<1>1. IInv => DoneIsDone
  <2> SUFFICES ASSUME IInv, NEW c \in Agents, call[c].answer = "ok", NEW m, m = call[c].msg
               PROVE  /\ KindOf(call[c].op) # "request" => m \in accepted
                      /\ m.kind \in {"text", "media", "poll"} => m \in rows
                      /\ m.kind = "poll" => m.id \in polls /\ {m.id} \X Options \subseteq ballots
                      /\ m.kind = "vote" => \E v \in votes : /\ v.poll = m.on /\ v.voter = Me
                                                             /\ v.as = "phone" /\ v.ts >= m.ts
                      /\ m.kind = "reaction" =>
                            Removed(m.on) \/ \E r \in reaction : r.on = m.on /\ r.ts >= m.ts
                      /\ m.kind = "receipt" => call[c].warned \/ \A t \in unread : t >= m.ts
    BY DEF DoneIsDone
  <2>1. Done(c)
    BY OkIsDone
  <2>2. m.ts \in Nat
    <3>1. call[c] # Idle
      BY DEF Idle
    <3> QED
      BY <3>1 DEF IInv, CallsOK, CallType, MessageType
  <2>3. m.kind = "vote" => \E v \in votes : /\ v.poll = m.on /\ v.voter = Me
                                            /\ v.as = "phone" /\ v.ts >= m.ts
    <3>1. \A v \in votes : v.ts \in Nat
      BY DEF IInv, WorldOK, VoteType
    <3> QED
      BY <2>1, <2>2, <3>1 DEF Done, Counted
  <2>4. m.kind = "reaction" => Removed(m.on) \/ \E r \in reaction : r.on = m.on /\ r.ts >= m.ts
    <3>1. \A r \in reaction : r.ts \in Nat
      BY DEF IInv, MirroredWasSent, WorldOK, MessageType
    <3> QED
      BY <2>1, <2>2, <3>1 DEF Done, Reacted
  <2>5. m.kind = "receipt" => call[c].warned \/ \A t \in unread : t >= m.ts
    <3>1. \A t \in unread : t \in Nat
      <4>1. unread \subseteq 0..now /\ now \in Nat
        BY DEF IInv, TypeOK, WorldOK
      <4> QED
        BY <4>1
    <3>2. m.kind = "receipt" => call[c].warned \/ ReadSince(m.ts)
      BY <2>1 DEF Done, Read
    <3>3. ReadSince(m.ts) => \A t \in unread : t >= m.ts
      BY <2>2, <3>1 DEF ReadSince
    <3> QED
      BY <3>2, <3>3
  <2> QED
    BY <2>1, <2>3, <2>4, <2>5 DEF Done, IInv, WorldOK
<1> QED
  BY <1>1, SpecIInv, PTL

(* The results of a poll count no voter JID twice, no option off the       *)
(* ballot, and every vote that was reported cast before, or one of this    *)
(* account that is no older.                                               *)
THEOREM SpecResultsAreRight == Spec => []ResultsAreRight
<1>1. IInv => ResultsAreRight
  <2> SUFFICES ASSUME IInv, NEW c \in Agents, call[c].op = "get_poll_results", call[c].answer = "ok"
               PROVE  /\ \A v, w \in call[c].tally : SameVoter(v, w) => v = w
                      /\ \A v \in call[c].tally : v.choice \subseteq call[c].ballot
                      /\ \A m \in call[c].expect : \E v \in call[c].tally :
                            v.voter = Me /\ v.as = "phone" /\ (v.ts > m.ts \/ v.ts = m.ts)
    BY DEF ResultsAreRight
  <2>1. TallyRight(c) /\ call[c].ballot = Options
    BY OkIsDone DEF Done
  <2> QED
    BY <2>1 DEF TallyRight
<1> QED
  BY <1>1, SpecIInv, PTL

(* A vote on a poll that was reported sent is counted when it is handled.  *)
THEOREM SpecVotesCounted == Spec => VotesCounted
<1>1. ASSUME IInv, [Next]_vars, trouble' = trouble, NEW v \in inbox \ inbox', v.poll \in readable
      PROVE  \E w \in votes' : SameVoter(v, w) /\ w.ts >= v.ts
  <2>1. v \in VoteType /\ v.poll \in secrets /\ link # "unpaired" /\ trouble \in Nat
    <3>1. v \in inbox /\ v.poll \in readable
      BY <1>1
    <3>2. inbox \subseteq VoteType /\ readable \subseteq secrets /\ (link = "unpaired" => readable = {})
      BY <1>1 DEF IInv, WorldOK
    <3>3. trouble \in Nat
      BY <1>1, ToolsAssumption DEF IInv, TypeOK
    <3> QED
      BY <3>1, <3>2, <3>3
  <2>2. HandlePollVote
    <3>1. inbox' # inbox /\ ~ (inbox \subseteq inbox')
      BY <1>1
    <3>2. ASSUME NEW c \in Agents, Step(c) PROVE inbox' = inbox
      BY <3>2 DEF Step, CheckPaired, CheckConnected, CheckArgs, CheckLoggedIn, StartSync, ReadContact, AskDetails, Ask,
         FindTarget, OpenMedia, PrepareAudio, Upload, Send, StoreSecret, MirrorChat, MirrorRow, MirrorBallot,
         MirrorOwnVote, MirrorOwnReaction, ClearUnread, MirrorFails, ReadPoll, ReadOptions, Match,
         BuildVote, ReadVotes, FindMedia, LookupMedia, FetchMedia, PutMedia, Answer, Check, Mirrors
    <3>3. ASSUME NEW c \in Agents, NEW op \in menu, Begin(c, op) PROVE inbox' = inbox
      BY <3>3 DEF Begin
    <3>4. PollArrives \/ CastVote \/ PhoneRemoves \/ HandleReaction \/ MarkedOnPhone \/ Sweep \/ Tick
            => inbox \subseteq inbox'
      BY DEF PollArrives, CastVote, PhoneRemoves, HandleReaction, MarkedOnPhone, Sweep, Tick
    <3>5. VoteNotWritten \/ Outage \/ Unpair \/ Pair \/ Crash => trouble' = trouble + 1
      BY DEF VoteNotWritten, Outage, Unpair, Pair, Crash
    <3>6. UNCHANGED vars => inbox' = inbox
      BY DEF vars
    <3> QED
      BY <1>1, <2>1, <3>1, <3>2, <3>3, <3>4, <3>5, <3>6 DEF Next
  <2>3. PICK u \in inbox :
          /\ inbox' \in {inbox, inbox \ {u}}
          /\ link # "unpaired" /\ u.poll \in secrets => UpsertPollVote(u)
    BY <2>2 DEF HandlePollVote
  <2>4. u = v
    BY <1>1, <2>3
  <2>5. \E w \in votes' : SameVoter(v, w) /\ (w.ts > v.ts \/ w.ts = v.ts)
    BY <1>1, <2>1, <2>3, <2>4, VoteUpserted
  <2>6. votes' \subseteq VoteType
    BY <1>1, <2>1, <2>3, <2>4, VoteUpserted
  <2> QED
    BY <2>1, <2>5, <2>6 DEF VoteType
<1>2. IInv /\ [Next]_vars =>
        [trouble' = trouble => \A v \in inbox \ inbox' : v.poll \in readable =>
          \E w \in votes' : SameVoter(v, w) /\ w.ts >= v.ts]_vars
  BY <1>1
<1> QED
  BY <1>2, SpecIInv, PTL DEF Spec, VotesCounted

=============================================================================
