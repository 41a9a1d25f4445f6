------------------------------ MODULE MCIngest ------------------------------
(***************************************************************************)
(* Sets of events of one chat for TLC. Times are in half seconds, so 2 and *)
(* 3 fall in the same second; m is a text message and p a poll.            *)
(***************************************************************************)
EXTENDS Ingest

Text(via, at) == [kind |-> "text", via |-> via, id |-> "m", at |-> at, text |-> "original"]
Poll(via, at) == [kind |-> "poll", via |-> via, id |-> "p", at |-> at, text |-> "question"]
Silent(at) == [kind |-> "silent", via |-> "dispatcher", at |-> at]
Edit(at, wrapped) == [kind |-> "edit", via |-> "dispatcher", id |-> "m", at |-> at,
                      text |-> "corrected", wrapped |-> wrapped]
Revoke == [kind |-> "revoke", via |-> "dispatcher", id |-> "m"]
Reaction(via, id, at, by, me, emoji) ==
    [kind |-> "reaction", via |-> via, id |-> id, at |-> at, by |-> by, me |-> me, emoji |-> emoji]
Vote(via, at, by, sel) ==
    [kind |-> "vote", via |-> via, id |-> "p", at |-> at, by |-> by, sel |-> sel]
Flag(via, flag, on) == [kind |-> "flag", via |-> via, flag |-> flag, on |-> on]
Group(via, at) == [kind |-> "group", via |-> via, at |-> at]
History(items, silent, unread) ==
    [kind |-> "history", via |-> "dispatcher", items |-> items, silent |-> silent,
     unread |-> unread]

MCTools == {"tool"}
MCIds == {"m", "p"}

(* A message and its fate: live, edited, revoked, again in a history batch *)
(* with a poll; our own reaction twice in one second of the batch, and     *)
(* from a tool; a vote, its clearing and a third in the second of that; a  *)
(* reaction removed; a read mark.                                          *)
ChatEvents ==
    {Text("dispatcher", 2), Edit(3, TRUE), Revoke,
     Reaction("tool", "m", 8, "us", TRUE, "like"),
     Reaction("dispatcher", "m", 5, "ann", FALSE, ""),
     Vote("dispatcher", 2, "ann", {"yes"}), Vote("dispatcher", 4, "ann", {}),
     Vote("dispatcher", 5, "ann", {"no"}),
     Flag("dispatcher", "unread", FALSE),
     History(<<Text("dispatcher", 2), Reaction("dispatcher", "m", 7, "", TRUE, "laugh"),
               Reaction("dispatcher", "m", 6, "", TRUE, "love"),
               Reaction("dispatcher", "m", 3, "ann", FALSE, "like"), Poll("dispatcher", 4)>>, {5}, 0)}

(* One sender reacts, changes the reaction in the next second, removes the *)
(* first one; a late edit of a revoked message; a pin and what follows it. *)
ReactionEvents ==
    {Reaction("dispatcher", "m", 2, "ann", FALSE, "like"),
     Reaction("dispatcher", "m", 4, "ann", FALSE, ""),
     Reaction("dispatcher", "m", 6, "ann", FALSE, "love")}
(* Two reactions of one sender, and two votes of one voter, in one second.  *)
SecondEvents ==
    {Reaction("dispatcher", "m", 2, "ann", FALSE, "like"),
     Reaction("dispatcher", "m", 3, "ann", FALSE, "love"),
     Vote("dispatcher", 4, "ann", {"yes"}), Vote("dispatcher", 5, "ann", {})}
RevokeEvents ==
    {Text("dispatcher", 2), Edit(4, TRUE), Edit(3, FALSE), Revoke}
FlagEvents ==
    {Flag("dispatcher", "pinned", TRUE), Flag("dispatcher", "pinned", FALSE),
     Flag("tool", "unread", FALSE), Flag("dispatcher", "archived", TRUE),
     Text("dispatcher", 2), Silent(3), Group("sync", 1)}
=============================================================================
