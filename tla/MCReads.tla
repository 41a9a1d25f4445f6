------------------------------- MODULE MCReads -------------------------------
(* A contact with phone 2 and LID 1, and a group 3.                        *)
EXTENDS Reads

Row(chat, id, ts, sender) == [chat |-> chat, id |-> id, ts |-> ts, sender |-> sender]

MCMail == {Row(3, 1, 1, 2), Row(3, 2, 1, 1), Row(3, 3, 2, 2), Row(1, 2, 2, 1)}

MCHits == {m \in MCMail : m.id = 2}

MCEdits == {Row(3, 2, 1, 1)}

MCPairs == {<<1, 2>>}
=============================================================================
