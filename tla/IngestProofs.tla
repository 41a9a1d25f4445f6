---------------------------- MODULE IngestProofs ----------------------------
(***************************************************************************)
(* Proofs about Ingest, for every set of events, ids and tools: the tables *)
(* keep their keys, an original text stays gone, the chat list follows     *)
(* activity, reactions and votes do not regress.                           *)
(***************************************************************************)
EXTENDS Ingest, DataLemmas, SequenceTheorems

(* What can be due: every statement of every script.                       *)
Of(kind) == {e \in Events : e.kind = kind}
Written == {e \in Items : e.kind \in {"text", "poll"}} \cup {e \in Of("edit") : e.wrapped}
Moments == {0} \cup UNION {Activity(e) : e \in Events}
ChatStatements == {[op |-> "chat", sec |-> Sec(t), unread |-> n] :
                      t \in Moments, n \in {0} \cup {e.unread : e \in Of("history")}}
InsertStatements == {InsertStatement(e) : e \in Written}
EditStatements == {EditStatement(e) : e \in Of("edit")}
DeleteStatements == {[op |-> "delete", id |-> e.id] : e \in Of("revoke")}
ReactionStatements == {ReactionStatement(e) : e \in {f \in Items : f.kind = "reaction"}}
BallotStatements == {[op |-> "ballot", id |-> e.id] : e \in Written}
VoteStatements == {VoteStatement(e) : e \in Of("vote")}
FlagStatements == {FlagStatement(e) : e \in Of("flag")}
Statements == ChatStatements \cup InsertStatements \cup EditStatements \cup DeleteStatements
              \cup ReactionStatements \cup BallotStatements \cup VoteStatements
              \cup FlagStatements

Scripts == Seq(Statements) \ {<<>>}

-----------------------------------------------------------------------------
(* Time.                                                                   *)

(* Whole seconds are numbers, and later times have no earlier second.      *)
LEMMA SecMonotone ==
    /\ Sec(0) = 0
    /\ \A t \in Nat : Sec(t) \in Nat
    /\ \A s, t \in Nat : s <= t => Sec(s) <= Sec(t)
<1> DEFINE P == PerSecond
<1>1. P \in Nat /\ P > 0
  BY IngestAssumption
<1> HIDE DEF P
<1>2. \A t \in Nat : t \div P \in Nat /\ t % P \in 0..(P - 1) /\ t = P * (t \div P) + (t % P)
  BY <1>1
<1>3. ASSUME NEW s \in Nat, NEW t \in Nat, s <= t PROVE s \div P <= t \div P
  <2> DEFINE m == s \div P
             n == t \div P
  <2>1. m \in Nat /\ n \in Nat
    BY <1>2
  <2>2. s >= P * m /\ t < P * n + P
    BY <1>1, <1>2
  <2> HIDE DEF m, n
  <2>3. SUFFICES ASSUME n + 1 <= m PROVE FALSE
    BY <2>1 DEF m, n
  <2>4. P * (n + 1) <= P * m
    <3>1. PICK k \in Nat : m = n + 1 + k
      <4>1. m - (n + 1) \in Nat BY <2>1, <2>3
      <4>2. m = n + 1 + (m - (n + 1)) BY <2>1
      <4>3. QED BY <4>1, <4>2
    <3>2. P * m = P * (n + 1) + P * k
      BY <1>1, <2>1, <3>1
    <3>3. P * k \in Nat /\ P * (n + 1) \in Nat
      BY <1>1, <2>1, <3>1
    <3>4. QED BY <3>2, <3>3
  <2>5. P * (n + 1) = P * n + P
    BY <1>1, <2>1
  <2>6. P * n \in Nat /\ P * m \in Nat
    BY <1>1, <2>1
  <2>7. QED BY <1>1, <1>3, <2>2, <2>4, <2>5, <2>6
<1>4. 0 \div P = 0
  <2> DEFINE n == 0 \div P
  <2>1. n \in Nat /\ P * n <= 0
    BY <1>1, <1>2
  <2> HIDE DEF n
  <2>2. SUFFICES ASSUME n >= 1 PROVE FALSE
    BY <2>1 DEF n
  <2>3. PICK k \in Nat : n = k + 1
    <3>1. n - 1 \in Nat /\ n = (n - 1) + 1 BY <2>1, <2>2
    <3>2. QED BY <3>1
  <2>4. P * n = P * k + P /\ P * k \in Nat
    BY <1>1, <2>3
  <2>5. QED BY <1>1, <2>1, <2>4
<1>5. QED
  BY <1>2, <1>3, <1>4 DEF Sec, P

(* The messages of a history batch are as well-formed as the events.       *)
LEMMA ItemFacts ==
    /\ \A e \in Items : e.kind \in Kinds /\ WellFormed(e)
    /\ \A e \in Of("history") : Range(e.items) \subseteq Items
    /\ \A e \in Events : e.kind # "history" => e \in Items
<1>1. \A e \in Of("history") : \A m \in Range(e.items) : m.kind \in Kinds /\ WellFormed(m)
  BY IngestAssumption DEF Of, Kinds
<1>2. QED
  BY <1>1, IngestAssumption DEF Items, Of

(* The times of a history batch are numbers, and its chat statement takes  *)
(* one that no other exceeds.                                              *)
LEMMA HistoryMoments ==
    ASSUME NEW e \in Of("history")
    PROVE  LET S == ItemTimes(e) \cup {0}
           IN  S \subseteq Nat /\ Max(S) \in S /\ \A t \in S : Max(S) >= t
<1> DEFINE M == {m \in Range(e.items) : m.kind # "reaction"}
           I == {i \in 1..Len(e.items) : e.items[i] \in M}
           f == [i \in I |-> e.items[i].at]
           A == {m.at : m \in M}
<1>1. e \in Events /\ e.kind = "history"
  BY DEF Of
<1>2. /\ e.items \in Seq(Range(e.items))
      /\ \A m \in Range(e.items) : m.kind \in {"text", "poll", "reaction"} /\ WellFormed(m)
      /\ e.silent \subseteq Nat /\ IsFiniteSet(e.silent)
  BY <1>1, IngestAssumption
<1>3. Len(e.items) \in Nat /\ DOMAIN e.items = 1..Len(e.items)
  BY <1>2
<1>4. A \subseteq Nat
  BY <1>2 DEF WellFormed
<1>5. IsFiniteSet(I)
  <2>1. IsFiniteSet(1..Len(e.items))
    BY <1>3, FS_Interval
  <2>2. I \in SUBSET (1..Len(e.items))
    OBVIOUS
  <2> HIDE DEF I
  <2>3. QED BY <2>1, <2>2, FS_Subset
<1>6. f \in Surjection(I, A)
  <2>1. f \in [I -> A]
    OBVIOUS
  <2>2. ASSUME NEW t \in A PROVE \E i \in I : f[i] = t
    <3>1. PICK m \in M : m.at = t
      OBVIOUS
    <3>2. PICK i \in DOMAIN e.items : e.items[i] = m
      BY DEF Range
    <3>3. QED BY <1>3, <3>1, <3>2
  <2>3. QED BY <2>1, <2>2 DEF Surjection
<1>7. IsFiniteSet(A)
  BY <1>5, <1>6, FS_Surjection
<1>8. IsFiniteSet(A \cup e.silent \cup {0})
  BY <1>2, <1>7, FS_Union, FS_Singleton
<1>9. ItemTimes(e) \cup {0} = A \cup e.silent \cup {0}
  BY DEF ItemTimes
<1> HIDE DEF A
<1> DEFINE S == ItemTimes(e) \cup {0}
<1>10. S \subseteq Nat /\ S # {} /\ IsFiniteSet(S)
  <2>1. S = A \cup e.silent \cup {0}
    BY <1>9
  <2> HIDE DEF S
  <2>2. IsFiniteSet(S)
    BY <1>8, <2>1
  <2>3. S \subseteq Nat /\ S # {}
    <3>1. e.silent \subseteq Nat
      BY <1>2
    <3>2. 0 \in Nat /\ 0 \in S
      BY <2>1
    <3>3. QED BY <1>4, <2>1, <3>1, <3>2, Zenon
  <2>4. QED BY <2>2, <2>3
<1> HIDE DEF S
<1>11. Max(S) \in S /\ \A t \in S : Max(S) >= t
  BY <1>10, MaxOfFinite
<1>12. QED
  BY <1>10, <1>11 DEF S

-----------------------------------------------------------------------------
(* The scripts.                                                            *)

LEMMA MomentFacts ==
    /\ Moments \subseteq Nat
    /\ \A e \in Events : Activity(e) \subseteq Moments
    /\ \A e \in Of("history") : Max(ItemTimes(e) \cup {0}) \in Moments
<1>1. \A e \in Events : Activity(e) \subseteq Nat
  <2> SUFFICES ASSUME NEW e \in Events PROVE Activity(e) \subseteq Nat
    OBVIOUS
  <2>1. CASE e.kind = "history"
    BY <2>1, HistoryMoments DEF Activity, Of
  <2>2. CASE e.kind # "history"
    BY <2>2, IngestAssumption DEF Activity, WellFormed
  <2>3. QED BY <2>1, <2>2
<1>2. \A e \in Events : Activity(e) \subseteq Moments
  BY DEF Moments
<1>3. ASSUME NEW e \in Of("history") PROVE Max(ItemTimes(e) \cup {0}) \in Moments
  <2>1. e \in Events /\ Activity(e) = ItemTimes(e)
    BY DEF Activity, Of
  <2>2. Max(ItemTimes(e) \cup {0}) \in ItemTimes(e) \cup {0}
    BY HistoryMoments
  <2>3. QED BY <1>2, <2>1, <2>2 DEF Moments
<1>4. QED BY <1>1, <1>2, <1>3 DEF Moments

(* What each statement can carry.                                          *)
LEMMA StatementFacts ==
    ASSUME NEW s \in Statements
    PROVE  /\ s.op = "chat" => \E t \in Moments : s.sec = Sec(t)
           /\ s.op = "insert" => \E e \in Written : s = InsertStatement(e)
           /\ s.op = "edit" => \E e \in Of("edit") : s = EditStatement(e)
           /\ s.op = "delete" => s.id \in Ids
           /\ s.op = "react" => \E e \in Items : /\ e.kind = "reaction" /\ e.emoji # ""
                                                /\ s = ReactionStatement(e)
           /\ s.op = "unreact" => \E e \in Items : /\ e.kind = "reaction" /\ e.emoji = ""
                                                  /\ s = ReactionStatement(e)
           /\ s.op = "ballot" => s.id \in Ids
           /\ s.op = "vote" => \E e \in Of("vote") : s = VoteStatement(e)
           /\ s.op = "flag" => \E e \in Of("flag") : s = FlagStatement(e)
<1>0. \A e \in Written : e.id \in Ids
  BY ItemFacts, IngestAssumption DEF Written, Of, WellFormed
<1>1. CASE s \in ChatStatements
  <2>1. s.op = "chat" /\ \E t \in Moments : s.sec = Sec(t)
    BY <1>1 DEF ChatStatements
  <2>2. QED BY <2>1
<1>2. CASE s \in InsertStatements
  <2>1. PICK e \in Written : s = InsertStatement(e)
    BY <1>2 DEF InsertStatements
  <2>2. s.op = "insert"
    BY <2>1 DEF InsertStatement
  <2>3. QED BY <2>1, <2>2
<1>3. CASE s \in EditStatements
  <2>1. PICK e \in Of("edit") : s = EditStatement(e)
    BY <1>3 DEF EditStatements
  <2>2. s.op = "edit"
    BY <2>1 DEF EditStatement
  <2>3. QED BY <2>1, <2>2
<1>4. CASE s \in DeleteStatements
  <2>1. s.op = "delete" /\ s.id \in Ids
    BY <1>4, IngestAssumption DEF DeleteStatements, Of, WellFormed
  <2>2. QED BY <2>1
<1>5. CASE s \in ReactionStatements
  <2>1. PICK e \in Items : e.kind = "reaction" /\ s = ReactionStatement(e)
    BY <1>5 DEF ReactionStatements
  <2>2. s.op = IF e.emoji = "" THEN "unreact" ELSE "react"
    BY <2>1 DEF ReactionStatement
  <2>3. QED BY <2>1, <2>2
<1>6. CASE s \in BallotStatements
  <2>1. s.op = "ballot" /\ s.id \in Ids
    BY <1>0, <1>6 DEF BallotStatements
  <2>2. QED BY <2>1
<1>7. CASE s \in VoteStatements
  <2>1. PICK e \in Of("vote") : s = VoteStatement(e)
    BY <1>7 DEF VoteStatements
  <2>2. s.op = "vote"
    BY <2>1 DEF VoteStatement
  <2>3. QED BY <2>1, <2>2
<1>8. CASE s \in FlagStatements
  <2>1. PICK e \in Of("flag") : s = FlagStatement(e)
    BY <1>8 DEF FlagStatements
  <2>2. s.op = "flag"
    BY <2>1 DEF FlagStatement
  <2>3. QED BY <2>1, <2>2
<1>9. QED
  BY <1>1, <1>2, <1>3, <1>4, <1>5, <1>6, <1>7, <1>8 DEF Statements

(* The statements of each kind of event are among those.                   *)
LEMMA MessageScripts ==
    ASSUME NEW e \in Written
    PROVE  /\ InsertStatement(e) \in Statements
           /\ [op |-> "ballot", id |-> e.id] \in Statements
           /\ e \in Events => ChatStatement(e.at, 0) \in Statements
<1>1. ASSUME e \in Events PROVE ChatStatement(e.at, 0) \in ChatStatements
  <2>1. e.at \in Activity(e)
    BY <1>1, ItemFacts, IngestAssumption DEF Written, Of, Activity
  <2>2. e.at \in Moments
    BY <1>1, <2>1, MomentFacts
  <2>3. QED BY <2>2 DEF ChatStatements, ChatStatement
<1>2. QED
  BY <1>1 DEF Statements, InsertStatements, BallotStatements

LEMMA MessageRowsFacts ==
    ASSUME NEW e \in Written
    PROVE  MessageRows(e) \in Scripts
<1> DEFINE i == InsertStatement(e)
           b == [op |-> "ballot", id |-> e.id]
<1>1. i \in Statements /\ b \in Statements
  BY MessageScripts
<1>2. MessageRows(e) = IF e.kind = "poll" THEN <<i, b>> ELSE <<i>>
  BY DEF MessageRows
<1> HIDE DEF i, b
<1>3. <<i, b>> \in Scripts /\ <<i>> \in Scripts
  BY <1>1 DEF Scripts
<1>4. QED BY <1>2, <1>3

LEMMA StoreMessageFacts ==
    ASSUME NEW e \in Written, e \in Events
    PROVE  /\ StoreMessage(e) \in Scripts
           /\ Head(StoreMessage(e)) = ChatStatement(e.at, 0)
           /\ Len(StoreMessage(e)) # 1
<1> DEFINE c == ChatStatement(e.at, 0)
           rows == MessageRows(e)
<1>1. c \in Statements
  BY MessageScripts
<1>2. StoreMessage(e) = <<c>> \o rows
  BY DEF StoreMessage
<1>3. rows \in Scripts
  BY MessageRowsFacts
<1> HIDE DEF c, rows
<1>4. <<c>> \in Seq(Statements) /\ rows \in Seq(Statements) /\ Len(rows) \in Nat \ {0}
  BY <1>1, <1>3, EmptySeq DEF Scripts
<1>5. /\ StoreMessage(e) \in Seq(Statements) /\ Len(StoreMessage(e)) = 1 + Len(rows)
      /\ StoreMessage(e)[1] = c
  BY <1>2, <1>4, ConcatProperties
<1>6. StoreMessage(e) # <<>> /\ Head(StoreMessage(e)) = c /\ Len(StoreMessage(e)) # 1
  BY <1>4, <1>5, EmptySeq
<1>7. QED BY <1>5, <1>6 DEF Scripts, c

LEMMA HistoryItemFacts ==
    ASSUME NEW e \in Items, e.kind \in {"text", "poll", "reaction"}
    PROVE  HistoryItem(e) \in Scripts
<1>1. CASE e.kind = "reaction"
  <2>1. ReactionStatement(e) \in Statements
    BY <1>1 DEF Statements, ReactionStatements
  <2>2. HistoryItem(e) = <<ReactionStatement(e)>>
    BY <1>1 DEF HistoryItem
  <2>3. QED BY <2>1, <2>2 DEF Scripts
<1>2. CASE e.kind # "reaction"
  <2>1. e \in Written
    BY <1>2 DEF Written
  <2>2. QED BY <1>2, <2>1, MessageRowsFacts DEF HistoryItem
<1>3. QED BY <1>1, <1>2

(* A history batch ends with the statement of the chat row.                *)
LastOf(e) == <<ChatStatement(Max(ItemTimes(e) \cup {0}), e.unread)>>

LEMMA HistoryScriptsFacts ==
    ASSUME NEW e \in Of("history")
    PROVE  /\ HistoryScripts(e) \in Seq(Scripts) \ {<<>>}
           /\ HistoryScripts(e)[Len(HistoryScripts(e))] = LastOf(e)
           /\ LastOf(e) \in Scripts
<1> DEFINE rows == [i \in 1..Len(e.items) |-> HistoryItem(e.items[i])]
<1>1. e \in Events /\ e.kind = "history"
  BY DEF Of
<1>2. e.items \in Seq(Range(e.items)) /\ Len(e.items) \in Nat
  BY <1>1, IngestAssumption
<1>3. \A i \in 1..Len(e.items) : HistoryItem(e.items[i]) \in Scripts
  <2> SUFFICES ASSUME NEW i \in 1..Len(e.items) PROVE HistoryItem(e.items[i]) \in Scripts
    OBVIOUS
  <2>1. e.items[i] \in Range(e.items)
    BY <1>2
  <2>2. QED BY <1>1, <2>1, ItemFacts, IngestAssumption, HistoryItemFacts
<1>4. rows \in Seq(Scripts) /\ Len(rows) = Len(e.items)
  BY <1>2, <1>3
<1>5. LastOf(e) \in Scripts
  <2> DEFINE m == Max(ItemTimes(e) \cup {0})
             s == ChatStatement(m, e.unread)
  <2>1. m \in Moments
    BY MomentFacts
  <2> HIDE DEF m
  <2>2. s \in ChatStatements
    <3> DEFINE n == e.unread
    <3>1. n \in {0} \cup {f.unread : f \in Of("history")}
      OBVIOUS
    <3> HIDE DEF n
    <3>2. ChatStatement(m, n) \in ChatStatements
      BY <2>1, <3>1 DEF ChatStatement, ChatStatements
    <3>3. QED BY <3>2 DEF n
  <2> HIDE DEF s
  <2>3. <<s>> \in Scripts
    BY <2>2 DEF Scripts, Statements
  <2>4. QED BY <2>3 DEF LastOf, s, m
<1> HIDE DEF rows
<1>6. HistoryScripts(e) = Append(rows, LastOf(e))
  BY DEF HistoryScripts, LastOf, rows
<1>7. QED BY <1>4, <1>5, <1>6

LEMMA ScriptFacts ==
    ASSUME NEW e \in Events
    PROVE  Script(e) \in Seq(Scripts) \ {<<>>}
<1>1. CASE e.kind \in {"text", "poll"}
  <2>1. e \in Written
    BY <1>1, ItemFacts DEF Written
  <2>2. QED BY <1>1, <2>1, StoreMessageFacts DEF Script
<1>2. CASE e.kind \in {"silent", "group"}
  <2>1. e.at \in Moments
    BY <1>2, MomentFacts DEF Activity
  <2>2. ChatStatement(e.at, 0) \in Statements
    BY <2>1 DEF Statements, ChatStatement, ChatStatements
  <2>3. <<ChatStatement(e.at, 0)>> \in Scripts
    BY <2>2 DEF Scripts
  <2>4. QED BY <1>2, <2>3 DEF Script
<1>3. CASE e.kind = "edit"
  <2>1. EditStatement(e) \in Statements
    BY <1>3 DEF Of, Statements, EditStatements
  <2>2. <<EditStatement(e)>> \in Scripts
    BY <2>1 DEF Scripts
  <2>3. QED BY <1>3, <2>2 DEF Script
<1>4. CASE e.kind = "revoke"
  <2>1. [op |-> "delete", id |-> e.id] \in Statements
    BY <1>4 DEF Of, Statements, DeleteStatements
  <2>2. <<[op |-> "delete", id |-> e.id]>> \in Scripts
    BY <2>1 DEF Scripts
  <2>3. QED BY <1>4, <2>2 DEF Script
<1>5. CASE e.kind = "reaction"
  <2>1. ReactionStatement(e) \in Statements
    BY <1>5, ItemFacts DEF Statements, ReactionStatements
  <2>2. <<ReactionStatement(e)>> \in Scripts
    BY <2>1 DEF Scripts
  <2>3. QED BY <1>5, <2>2 DEF Script
<1>6. CASE e.kind = "vote"
  <2>1. VoteStatement(e) \in Statements
    BY <1>6 DEF Of, Statements, VoteStatements
  <2>2. <<VoteStatement(e)>> \in Scripts
    BY <2>1 DEF Scripts
  <2>3. QED BY <1>6, <2>2 DEF Script
<1>7. CASE e.kind = "flag"
  <2>1. FlagStatement(e) \in Statements
    BY <1>7 DEF Of, Statements, FlagStatements
  <2>2. <<FlagStatement(e)>> \in Scripts
    BY <2>1 DEF Scripts
  <2>3. QED BY <1>7, <2>2 DEF Script
<1>8. CASE e.kind = "history"
  BY <1>8, HistoryScriptsFacts DEF Of, Script
<1>9. QED
  BY <1>1, <1>2, <1>3, <1>4, <1>5, <1>6, <1>7, <1>8, IngestAssumption DEF Kinds

(* What is due is a statement, and what is left is a sequence of scripts   *)
(* with the same end.                                                      *)
LEMMA RestFacts ==
    ASSUME NEW j \in Seq(Scripts), j # <<>>
    PROVE  LET rest == IF Len(Head(j)) = 1 THEN Tail(j) ELSE <<Tail(Head(j))>> \o Tail(j)
           IN  /\ Head(Head(j)) \in Statements
               /\ rest \in Seq(Scripts)
               /\ Len(j[Len(j)]) = 1 =>
                      IF rest = <<>> THEN Head(j) = j[Len(j)]
                      ELSE rest[Len(rest)] = j[Len(j)]
               /\ rest = <<>> <=> Len(j) = 1 /\ Len(Head(j)) = 1
<1>1. Head(j) \in Scripts /\ Tail(j) \in Seq(Scripts) /\ Len(j) \in Nat \ {0}
  BY HeadTailProperties, EmptySeq
<1>2. Head(j) \in Seq(Statements) /\ Head(j) # <<>> /\ Len(Head(j)) \in Nat \ {0}
  BY <1>1 DEF Scripts
<1>3. Head(Head(j)) \in Statements
  BY <1>2
<1>4. CASE Len(Head(j)) = 1
  <2> DEFINE t == Tail(j)
  <2>1. t \in Seq(Scripts) /\ Len(t) = Len(j) - 1 /\ \A i \in 1..Len(t) : t[i] = j[i + 1]
    BY <1>1, HeadTailProperties
  <2>2. Head(j) = j[1]
    BY <1>1
  <2> HIDE DEF t
  <2>3. CASE t = <<>>
    <3>1. Len(j) = 1
      BY <1>1, <2>1, <2>3, EmptySeq
    <3>2. QED BY <1>3, <1>4, <2>1, <2>2, <2>3, <3>1 DEF t
  <2>4. CASE t # <<>>
    <3>1. Len(t) \in Nat \ {0}
      BY <2>1, <2>4, EmptySeq
    <3>2. Len(j) # 1 /\ t[Len(t)] = j[Len(j)]
      BY <1>1, <2>1, <3>1
    <3>3. QED BY <1>3, <1>4, <2>1, <2>4, <3>2 DEF t
  <2>5. QED BY <2>3, <2>4
<1>5. CASE Len(Head(j)) # 1
  <2> DEFINE s == Tail(Head(j))
             t == Tail(j)
  <2>1. s \in Seq(Statements) /\ Len(s) = Len(Head(j)) - 1
    BY <1>2
  <2>2. s \in Scripts
    <3>1. Len(s) # 0 BY <1>2, <1>5, <2>1
    <3>2. s # <<>> BY <3>1, EmptySeq
    <3>3. QED BY <2>1, <3>2 DEF Scripts
  <2>3. t \in Seq(Scripts) /\ Len(t) = Len(j) - 1 /\ \A i \in 1..Len(t) : t[i] = j[i + 1]
    BY <1>1, HeadTailProperties
  <2>4. Head(j) = j[1]
    BY <1>1
  <2> HIDE DEF s, t
  <2> DEFINE rest == <<s>> \o t
  <2>5. /\ rest \in Seq(Scripts) /\ Len(rest) = Len(t) + 1
        /\ \A i \in 1..Len(rest) : rest[i] = IF i = 1 THEN s ELSE t[i - 1]
    BY <2>2, <2>3
  <2>6. rest # <<>>
    BY <2>3, <2>5
  <2>7. ASSUME Len(j[Len(j)]) = 1 PROVE rest[Len(rest)] = j[Len(j)]
    <3>1. Len(j) # 1
      BY <1>5, <2>4, <2>7
    <3>2. Len(rest) = Len(j) /\ Len(j) > 1
      BY <1>1, <2>3, <2>5, <3>1
    <3>3. QED BY <2>3, <2>5, <3>2
  <2> HIDE DEF rest
  <2>8. QED BY <1>3, <1>5, <2>5, <2>6, <2>7 DEF rest, s, t
<1>6. QED BY <1>4, <1>5

-----------------------------------------------------------------------------
(* The inductive invariant.                                                *)

Texts == {""} \cup {e.text : e \in Written \cup Of("edit")}
Rows == [stored : BOOLEAN, text : Texts, sec : Nat, edited : BOOLEAN, deleted : BOOLEAN]

(* A marked row shows the text of an edit of its message, or none.         *)
MessagesInv ==
    /\ messages \in [Ids -> Rows]
    /\ \A id \in Ids : ~messages[id].stored => messages[id] = NoRow
    /\ \A id \in Ids : messages[id].edited \/ messages[id].deleted => messages[id].text \in Corrections(id)

(* The chat row's second is that of a moment of activity.                  *)
ChatInv ==
    /\ chat.known \in BOOLEAN
    /\ ~chat.known => chat = NoChat
    /\ \E t \in Moments : chat.sec = Sec(t)

(* A row is some reaction that was sent; our own have the empty key, and a *)
(* key has one row.                                                        *)
Sent(r) == \E f \in Items : /\ f.kind = "reaction" /\ f.id = r.id
                             /\ ReactionSenderKey(f) = r.key
                             /\ Sec(f.at) = r.sec /\ f.emoji = r.emoji
ReactionsInv ==
    /\ \A r \in reactions : /\ r.sec \in Nat /\ r.me \in BOOLEAN /\ (r.me => r.key = "")
                             /\ Sent(r)
    /\ \A r, s \in reactions : r.id = s.id /\ r.key = s.key => r = s

(* A voter's row is some vote that was cast, and a key has one row.        *)
Cast(v) == \E f \in Of("vote") : /\ f.id = v.id /\ f.by = v.by
                                 /\ Sec(f.at) = v.sec /\ f.sel = v.sel
VotesInv ==
    /\ \A v \in votes : v.sec \in Nat /\ Cast(v)
    /\ \A v, w \in votes : v.id = w.id /\ v.by = w.by => v = w

TablesInv == MessagesInv /\ ChatInv /\ ReactionsInv /\ VotesInv /\ ballots \subseteq Ids

ControlInv ==
    /\ job \in [Goroutines -> Seq(Scripts)]
    /\ current \in [Goroutines -> SUBSET Events]
    /\ \A a \in Goroutines : job[a] = <<>> => current[a] = {}
    /\ called \subseteq Events /\ applied \subseteq Events

(* What an event that was handled leaves behind.                           *)
Dating == {"text", "poll", "silent", "group", "history"}
Reacts(e) == /\ e.kind = "reaction" /\ e.emoji # ""
             /\ Removals(e.id, ReactionSenderKey(e)) = {}
Covered(e) == chat.known /\ \A t \in Activity(e) : chat.sec >= Sec(t)
ReactionStands(e) == \E r \in reactions : /\ r.id = e.id /\ r.key = ReactionSenderKey(e)
                                          /\ r.sec >= Sec(e.at)
VoteStands(e) == \E v \in votes : v.id = e.id /\ v.by = e.by /\ v.sec >= Sec(e.at)
Landed(e) ==
    /\ e.kind \in Dating => Covered(e)
    /\ Reacts(e) => ReactionStands(e)
    /\ e.kind = "vote" => VoteStands(e)
LandedInv == \A e \in applied : Landed(e)

(* What a goroutine still has to run for an event that nothing has failed  *)
(* for: all of it, or the chat row is up to date, or it comes last.        *)
Pending(a, e) ==
    \/ job[a] = Script(e)
    \/ e.kind \in {"text", "poll"} /\ Covered(e)
    \/ e.kind = "history" /\ job[a][Len(job[a])] = LastOf(e)
    \/ e.kind \in {"edit", "revoke", "flag"}
PendingInv == \A a \in Goroutines : \A e \in current[a] : Pending(a, e)

IInv == TablesInv /\ ControlInv /\ LandedInv /\ PendingInv

(* What a step of the tables must not undo, and what a statement does.     *)
Keeps ==
    /\ chat.known => chat'.known
    /\ chat'.sec >= chat.sec
    /\ \A e \in Events : Reacts(e) /\ ReactionStands(e) => ReactionStands(e)'
    /\ \A e \in Events : e.kind = "vote" /\ VoteStands(e) => VoteStands(e)'
Effect(s) ==
    /\ s.op = "chat" => chat.known /\ chat.sec >= s.sec
    /\ s.op = "react" => \E r \in reactions : r.id = s.id /\ r.key = s.key /\ r.sec >= s.sec
    /\ s.op = "vote" => \E v \in votes : v.id = s.id /\ v.by = s.by /\ v.sec >= s.sec

LEMMA SecsAreNat == \A t \in Moments : Sec(t) \in Nat
BY MomentFacts, SecMonotone

LEMMA ActivitySecs ==
    ASSUME NEW e \in Events, NEW t \in Activity(e)
    PROVE  Sec(t) \in Nat
BY MomentFacts, SecMonotone

(* What has landed stays, whatever a step does that keeps the tables.      *)
LEMMA LandedStays ==
    ASSUME ChatInv, ChatInv', Keeps, NEW e \in Events
    PROVE  /\ Covered(e) => Covered(e)'
           /\ Landed(e) => Landed(e)'
<1>1. chat.sec \in Nat /\ chat'.sec \in Nat
  BY SecsAreNat DEF ChatInv
<1>2. ASSUME Covered(e) PROVE Covered(e)'
  <2>1. chat'.known
    BY <1>2 DEF Covered, Keeps
  <2>2. ASSUME NEW t \in Activity(e) PROVE chat'.sec >= Sec(t)
    <3>1. chat.sec >= Sec(t) /\ Sec(t) \in Nat /\ chat'.sec >= chat.sec
      BY <1>2, ActivitySecs DEF Covered, Keeps
    <3>2. QED BY <1>1, <3>1
  <2>3. QED BY <2>1, <2>2 DEF Covered
<1>3. ASSUME Landed(e) PROVE Landed(e)'
  <2>1. e.kind \in Dating => Covered(e)'
    BY <1>2, <1>3 DEF Landed
  <2>2. Reacts(e) => ReactionStands(e)'
    BY <1>3 DEF Landed, Keeps
  <2>3. e.kind = "vote" => VoteStands(e)'
    BY <1>3 DEF Landed, Keeps
  <2>4. QED BY <2>1, <2>2, <2>3 DEF Landed
<1>4. QED BY <1>2, <1>3

(* A script of one statement is finished when the statement is.            *)
Single(e) == e.kind \in {"silent", "group", "reaction", "vote", "edit", "revoke", "flag"}

LEMMA SingleScripts ==
    ASSUME NEW e \in Events, Single(e)
    PROVE  \E s : /\ Script(e) = << <<s>> >>
                  /\ e.kind \in {"silent", "group"} => s = ChatStatement(e.at, 0)
                  /\ e.kind = "reaction" => s = ReactionStatement(e)
                  /\ e.kind = "vote" => s = VoteStatement(e)
                  /\ e.kind = "edit" => s = EditStatement(e)
                  /\ e.kind = "revoke" => s.op = "delete"
                  /\ e.kind = "flag" => s = FlagStatement(e)
<1>1. CASE e.kind \in {"silent", "group"}
  <2>1. Script(e) = << <<ChatStatement(e.at, 0)>> >> BY <1>1 DEF Script
  <2>2. QED BY <1>1, <2>1
<1>2. CASE e.kind = "reaction"
  <2>1. Script(e) = << <<ReactionStatement(e)>> >> BY <1>2 DEF Script
  <2>2. QED BY <1>2, <2>1
<1>3. CASE e.kind = "vote"
  <2>1. Script(e) = << <<VoteStatement(e)>> >> BY <1>3 DEF Script
  <2>2. QED BY <1>3, <2>1
<1>4. CASE e.kind = "edit"
  <2>1. Script(e) = << <<EditStatement(e)>> >> BY <1>4 DEF Script
  <2>2. QED BY <1>4, <2>1
<1>5. CASE e.kind = "revoke"
  <2> DEFINE s == [op |-> "delete", id |-> e.id]
  <2>1. Script(e) = << <<s>> >> BY <1>5 DEF Script
  <2>2. s.op = "delete" OBVIOUS
  <2> HIDE DEF s
  <2>3. QED BY <1>5, <2>1, <2>2
<1>6. CASE e.kind = "flag"
  <2>1. Script(e) = << <<FlagStatement(e)>> >> BY <1>6 DEF Script
  <2>2. QED BY <1>6, <2>1
<1>7. QED BY <1>1, <1>2, <1>3, <1>4, <1>5, <1>6 DEF Single

(* The statement a script starts with is enough for its event to land once *)
(* it is all there was, and dates the chat when more is to come.           *)
LEMMA HistoryDates ==
    ASSUME NEW e \in Of("history"), NEW n \in Nat,
           n >= Sec(Max(ItemTimes(e) \cup {0})), NEW t \in Activity(e)
    PROVE  n >= Sec(t)
<1> DEFINE m == Max(ItemTimes(e) \cup {0})
<1>1. Activity(e) = ItemTimes(e)
  BY DEF Of, Activity
<1>2. m \in Nat /\ t \in Nat /\ t <= m
  BY <1>1, HistoryMoments
<1> HIDE DEF m
<1>3. Sec(m) \in Nat /\ Sec(t) \in Nat /\ Sec(t) <= Sec(m)
  BY <1>2, SecMonotone
<1>4. n >= Sec(m)
  BY DEF m
<1>5. QED BY <1>3, <1>4

(* The kinds of the events.                                                *)
LEMMA EventKinds ==
    ASSUME NEW e \in Events
    PROVE  e.kind \in {"text", "poll"} \/ e.kind = "history" \/ Single(e)
BY IngestAssumption DEF Kinds, Single

LEMMA LandsAlone ==
    ASSUME NEW e \in Events, Single(e), NEW s, Script(e) = << <<s>> >>, Effect(s)'
    PROVE  Landed(e)'
<1>1. PICK u : /\ Script(e) = << <<u>> >>
               /\ e.kind \in {"silent", "group"} => u = ChatStatement(e.at, 0)
               /\ e.kind = "reaction" => u = ReactionStatement(e)
               /\ e.kind = "vote" => u = VoteStatement(e)
  BY SingleScripts
<1>2. u = s
  <2>1. << <<u>> >>[1][1] = << <<s>> >>[1][1]
    BY <1>1
  <2>2. QED BY <2>1
<1>3. CASE e.kind \in {"silent", "group"}
  <2>1. s = [op |-> "chat", sec |-> Sec(e.at), unread |-> 0]
    BY <1>1, <1>2, <1>3 DEF ChatStatement
  <2>2. chat'.known /\ chat'.sec >= Sec(e.at)
    BY <2>1 DEF Effect
  <2>3. Activity(e) = {e.at}
    BY <1>3 DEF Activity
  <2>4. QED BY <1>3, <2>2, <2>3 DEF Landed, Covered, Reacts
<1>4. CASE e.kind = "reaction"
  <2>1. ASSUME e.emoji # "" PROVE ReactionStands(e)'
    <3>1. s.op = "react" /\ s.id = e.id /\ s.key = ReactionSenderKey(e) /\ s.sec = Sec(e.at)
      <4>1. s = ReactionStatement(e)
        BY <1>1, <1>2, <1>4
      <4>2. s = [op |-> "react", id |-> e.id, key |-> ReactionSenderKey(e),
                 emoji |-> e.emoji, sec |-> Sec(e.at), me |-> e.me]
        BY <2>1, <4>1 DEF ReactionStatement
      <4>3. QED BY <4>2
    <3>2. QED BY <3>1 DEF Effect, ReactionStands
  <2>2. QED BY <1>4, <2>1 DEF Landed, Reacts, Dating
<1>5. CASE e.kind = "vote"
  <2>1. s.op = "vote" /\ s.id = e.id /\ s.by = e.by /\ s.sec = Sec(e.at)
    BY <1>1, <1>2, <1>5 DEF VoteStatement
  <2>2. VoteStands(e)'
    BY <2>1 DEF Effect, VoteStands
  <2>3. QED BY <1>5, <2>2 DEF Landed, Reacts, Dating
<1>6. CASE e.kind \in {"edit", "revoke", "flag"}
  BY <1>6 DEF Landed, Reacts, Dating
<1>7. QED BY <1>3, <1>4, <1>5, <1>6 DEF Single

(* A message dates the chat first, and a history batch last.               *)
LEMMA MessageDates ==
    ASSUME NEW e \in Events, e.kind \in {"text", "poll"}, NEW s,
           s = Head(Head(Script(e))), Effect(s)'
    PROVE  Covered(e)' /\ Len(Script(e)) = 1 /\ Len(Head(Script(e))) # 1
<1>1. e \in Written
  BY ItemFacts DEF Written
<1>2. Script(e) = <<StoreMessage(e)>>
  BY DEF Script
<1>3. Head(Script(e)) = StoreMessage(e) /\ Len(Script(e)) = 1
  BY <1>2
<1>4. s = [op |-> "chat", sec |-> Sec(e.at), unread |-> 0]
  BY <1>1, <1>3, StoreMessageFacts DEF ChatStatement
<1>5. chat'.known /\ chat'.sec >= Sec(e.at)
  BY <1>4 DEF Effect
<1>6. Activity(e) = {e.at}
  BY DEF Activity
<1>7. QED BY <1>1, <1>3, <1>5, <1>6, StoreMessageFacts DEF Covered

LEMMA HistoryDatesLast ==
    ASSUME NEW e \in Of("history"), ChatInv', NEW s, s = Head(LastOf(e)), Effect(s)'
    PROVE  Landed(e)'
<1>1. s.op = "chat" /\ s.sec = Sec(Max(ItemTimes(e) \cup {0}))
  BY DEF LastOf, ChatStatement
<1>2. chat'.known /\ chat'.sec >= Sec(Max(ItemTimes(e) \cup {0})) /\ chat'.sec \in Nat
  BY <1>1, SecsAreNat DEF Effect, ChatInv
<1>3. \A t \in Activity(e) : chat'.sec >= Sec(t)
  BY <1>2, HistoryDates
<1>4. Covered(e)'
  BY <1>2, <1>3 DEF Covered
<1>5. e.kind = "history"
  BY DEF Of
<1>6. QED BY <1>4, <1>5 DEF Landed, Reacts

(* The events of other goroutines are as pending as before.                *)
LEMMA OthersPend ==
    ASSUME IInv, ChatInv', Keeps, NEW b \in Goroutines, job'[b] = job[b],
           NEW e \in current[b]
    PROVE  Pending(b, e)'
<1>1. e \in Events
  BY DEF IInv, ControlInv
<1>2. Pending(b, e)
  BY DEF IInv, PendingInv
<1>3. Covered(e) => Covered(e)'
  BY <1>1, LandedStays DEF IInv, TablesInv
<1>4. QED BY <1>2, <1>3 DEF Pending

(* What goroutine a holds after a statement that did not finish its job:   *)
(* its events are still pending when the chat row was dated meanwhile.     *)
LEMMA StillPending ==
    ASSUME IInv, ChatInv', Keeps, NEW a \in Goroutines, job[a] # <<>>,
           NEW s, s = Due(a), Effect(s)',
           NEW e \in current[a], Rest(a) # <<>>, job'[a] = Rest(a)
    PROVE  Pending(a, e)'
<1>1. e \in Events /\ job[a] \in Seq(Scripts)
  BY DEF IInv, ControlInv
<1>2. Pending(a, e)
  BY DEF IInv, PendingInv
<1>3. /\ Rest(a) # <<>> => (Len(job[a][Len(job[a])]) = 1 =>
                               Rest(a)[Len(Rest(a))] = job[a][Len(job[a])])
      /\ ~(Len(job[a]) = 1 /\ Len(Head(job[a])) = 1)
  BY <1>1, RestFacts DEF Rest
<1>4. CASE e.kind \in {"text", "poll"}
  <2>1. CASE job[a] = Script(e)
    BY <1>1, <1>4, <2>1, MessageDates DEF Due, Pending
  <2>2. CASE Covered(e)
    BY <1>1, <1>4, <2>2, LandedStays DEF IInv, TablesInv, Pending
  <2>3. QED BY <1>2, <1>4, <2>1, <2>2 DEF Pending
<1>5. CASE e.kind = "history"
  <2>1. e \in Of("history")
    BY <1>1, <1>5 DEF Of
  <2>2. job[a][Len(job[a])] = LastOf(e)
    <3>1. CASE job[a] = Script(e)
      BY <1>5, <2>1, <3>1, HistoryScriptsFacts DEF Script
    <3>2. QED BY <1>2, <1>5, <3>1 DEF Pending
  <2>3. Len(LastOf(e)) = 1
    BY DEF LastOf
  <2>4. QED BY <1>3, <1>5, <2>2, <2>3 DEF Pending
<1>6. CASE Single(e)
  <2>1. CASE job[a] = Script(e)
    <3>1. PICK u : Script(e) = << <<u>> >>
      BY <1>1, <1>6, SingleScripts
    <3>2. QED BY <1>3, <2>1, <3>1
  <2>2. QED BY <1>2, <1>6, <2>1 DEF Pending, Single
<1>7. QED BY <1>1, <1>4, <1>5, <1>6, EventKinds

(* An event whose last statement took has landed.                          *)
LEMMA LandsAtLast ==
    ASSUME IInv, ChatInv', Keeps, NEW a \in Goroutines, job[a] # <<>>,
           NEW s, s = Due(a), Effect(s)',
           NEW e \in current[a], Rest(a) = <<>>
    PROVE  Landed(e)'
<1>1. e \in Events /\ job[a] \in Seq(Scripts)
  BY DEF IInv, ControlInv
<1>2. Pending(a, e)
  BY DEF IInv, PendingInv
<1>3. /\ Len(job[a]) = 1 /\ Len(Head(job[a])) = 1
      /\ Len(job[a][Len(job[a])]) = 1 => Head(job[a]) = job[a][Len(job[a])]
  BY <1>1, RestFacts DEF Rest
<1>4. CASE e.kind \in {"text", "poll"}
  <2>1. job[a] # Script(e)
    BY <1>1, <1>3, <1>4, MessageDates DEF Due
  <2>2. Covered(e)'
    BY <1>1, <1>2, <1>4, <2>1, LandedStays DEF IInv, TablesInv, Pending
  <2>3. QED BY <1>4, <2>2 DEF Landed, Reacts
<1>5. CASE e.kind = "history"
  <2>1. e \in Of("history")
    BY <1>1, <1>5 DEF Of
  <2>2. job[a][Len(job[a])] = LastOf(e)
    <3>1. CASE job[a] = Script(e)
      BY <1>5, <2>1, <3>1, HistoryScriptsFacts DEF Script
    <3>2. QED BY <1>2, <1>5, <3>1 DEF Pending
  <2>3. Len(LastOf(e)) = 1
    BY DEF LastOf
  <2>4. s = Head(LastOf(e))
    BY <1>3, <2>2, <2>3 DEF Due
  <2>5. QED BY <2>1, <2>4, HistoryDatesLast
<1>6. CASE Single(e)
  <2>1. CASE job[a] = Script(e)
    <3>1. PICK u : Script(e) = << <<u>> >>
      BY <1>1, <1>6, SingleScripts
    <3>2. s = u
      BY <2>1, <3>1 DEF Due
    <3>3. QED BY <1>1, <1>6, <3>1, <3>2, LandsAlone
  <2>2. CASE e.kind \in {"edit", "revoke", "flag"}
    BY <2>2 DEF Landed, Reacts, Dating
  <2>3. QED BY <1>2, <1>6, <2>1, <2>2 DEF Pending, Single
<1>7. QED BY <1>1, <1>4, <1>5, <1>6, EventKinds

-----------------------------------------------------------------------------
(* What a goroutine does after a statement.                                *)

LEMMA ContinueFacts ==
    ASSUME ControlInv, NEW a \in Goroutines, NEW rest \in Seq(Scripts), NEW ok \in BOOLEAN,
           Continue(a, rest, ok)
    PROVE  /\ ControlInv'
           /\ job'[a] = rest
           /\ current'[a] = IF rest # <<>> /\ ok THEN current[a] ELSE {}
           /\ \A b \in Goroutines \ {a} : job'[b] = job[b] /\ current'[b] = current[b]
           /\ applied' \subseteq applied \cup (IF rest = <<>> /\ ok THEN current[a] ELSE {})
<1> DEFINE kept == IF ok THEN current[a] ELSE {}
<1>1. /\ job' = [job EXCEPT ![a] = rest]
      /\ current' = [current EXCEPT ![a] = IF rest = <<>> THEN {} ELSE kept]
      /\ applied' = IF rest = <<>> THEN applied \cup {e \in kept : Lasting(e)} ELSE applied
      /\ called' = called
  BY DEF Continue
<1>2. /\ job \in [Goroutines -> Seq(Scripts)]
      /\ current \in [Goroutines -> SUBSET Events]
      /\ called \subseteq Events /\ applied \subseteq Events
      /\ \A b \in Goroutines : job[b] = <<>> => current[b] = {}
  BY DEF ControlInv
<1>3. kept \subseteq Events /\ kept \subseteq current[a]
  BY <1>2
<1>4. job' \in [Goroutines -> Seq(Scripts)] /\ job'[a] = rest
      /\ \A b \in Goroutines \ {a} : job'[b] = job[b]
  BY <1>1, <1>2
<1>5. /\ current'[a] = IF rest # <<>> /\ ok THEN current[a] ELSE {}
      /\ current' \in [Goroutines -> SUBSET Events]
      /\ \A b \in Goroutines \ {a} : current'[b] = current[b]
  <2> DEFINE now == IF rest = <<>> THEN {} ELSE kept
  <2>1. now \subseteq Events /\ current' = [current EXCEPT ![a] = now]
    BY <1>1, <1>3
  <2>2. now = IF rest # <<>> /\ ok THEN current[a] ELSE {}
    OBVIOUS
  <2> HIDE DEF now, kept
  <2>3. QED BY <1>2, <2>1, <2>2
<1>6. applied' \subseteq applied \cup (IF rest = <<>> /\ ok THEN current[a] ELSE {})
  <2>1. CASE rest = <<>> /\ ok
    BY <1>1, <1>3, <2>1
  <2>2. CASE ~(rest = <<>> /\ ok)
    <3>1. rest # <<>> \/ kept = {}
      BY <2>2
    <3>2. applied' = applied
      BY <1>1, <3>1
    <3>3. QED BY <3>2
  <2>3. QED BY <2>1, <2>2
<1>7. applied' \subseteq Events
  BY <1>2, <1>6
<1>8. ASSUME NEW b \in Goroutines, job'[b] = <<>> PROVE current'[b] = {}
  <2>1. CASE b = a
    BY <1>4, <1>5, <1>8, <2>1
  <2>2. CASE b # a
    BY <1>2, <1>4, <1>5, <1>8, <2>2
  <2>3. QED BY <2>1, <2>2
<1> HIDE DEF kept
<1>9. ControlInv'
  BY <1>1, <1>2, <1>4, <1>5, <1>7, <1>8 DEF ControlInv
<1>10. QED BY <1>4, <1>5, <1>6, <1>9

(* The statement took: goroutine a goes on with the next one.              *)
LEMMA DoneKeepsInv ==
    ASSUME IInv, NEW a \in Goroutines, job[a] # <<>>, Done(a), NEW s, s = Due(a),
           TablesInv', Keeps, Effect(s)'
    PROVE  IInv'
<1>1. ControlInv /\ ChatInv /\ ChatInv'
  BY DEF IInv, TablesInv
<1>2. job[a] \in Seq(Scripts)
  BY <1>1 DEF ControlInv
<1>3. Rest(a) \in Seq(Scripts)
  BY <1>2, RestFacts DEF Rest
<1>4. Continue(a, Rest(a), TRUE)
  BY DEF Done
<1>5. /\ ControlInv'
      /\ job'[a] = Rest(a)
      /\ current'[a] = IF Rest(a) # <<>> THEN current[a] ELSE {}
      /\ \A b \in Goroutines \ {a} : job'[b] = job[b] /\ current'[b] = current[b]
      /\ applied' \subseteq applied \cup (IF Rest(a) = <<>> THEN current[a] ELSE {})
  BY <1>1, <1>3, <1>4, ContinueFacts
<1>6. ASSUME NEW e \in applied' PROVE Landed(e)'
  <2>1. CASE e \in applied
    <3>1. e \in Events /\ Landed(e)
      BY <2>1 DEF IInv, ControlInv, LandedInv
    <3>2. QED BY <1>1, <3>1, LandedStays
  <2>2. CASE e \notin applied
    <3>1. e \in current[a] /\ Rest(a) = <<>>
      BY <1>5, <2>2
    <3>2. QED BY <1>1, <3>1, LandsAtLast
  <2>3. QED BY <2>1, <2>2
<1>7. ASSUME NEW b \in Goroutines, NEW e \in current'[b] PROVE Pending(b, e)'
  <2>1. CASE b = a
    <3>1. e \in current[a] /\ Rest(a) # <<>>
      BY <1>5, <2>1
    <3>2. Pending(a, e)'
      BY <1>1, <1>5, <3>1, StillPending
    <3>3. QED BY <2>1, <3>2
  <2>2. CASE b # a
    BY <1>1, <1>5, <2>2, OthersPend
  <2>3. QED BY <2>1, <2>2
<1>8. LandedInv' /\ PendingInv'
  BY <1>6, <1>7 DEF LandedInv, PendingInv
<1>9. QED BY <1>5, <1>8 DEF IInv

(* The statement failed, or found nothing: the event counts no more.       *)
LEMMA FailureKeepsInv ==
    ASSUME IInv, NEW a \in Goroutines, NEW rest \in Seq(Scripts), Continue(a, rest, FALSE),
           TablesInv', Keeps
    PROVE  IInv'
<1>1. ControlInv /\ ChatInv /\ ChatInv'
  BY DEF IInv, TablesInv
<1>2. /\ ControlInv'
      /\ current'[a] = {}
      /\ \A b \in Goroutines \ {a} : job'[b] = job[b] /\ current'[b] = current[b]
      /\ applied' \subseteq applied
  BY <1>1, ContinueFacts
<1>3. ASSUME NEW e \in applied' PROVE Landed(e)'
  <2>1. e \in applied /\ e \in Events /\ Landed(e)
    BY <1>2 DEF IInv, ControlInv, LandedInv
  <2>2. QED BY <1>1, <2>1, LandedStays
<1>4. ASSUME NEW b \in Goroutines, NEW e \in current'[b] PROVE Pending(b, e)'
  <2>1. b # a
    BY <1>2
  <2>2. QED BY <1>1, <1>2, <2>1, OthersPend
<1>5. LandedInv' /\ PendingInv'
  BY <1>3, <1>4 DEF LandedInv, PendingInv
<1>6. QED BY <1>2, <1>5 DEF IInv

(* An edit that found no row goes on as a message, or is dropped.          *)
LEMMA EditMissKeepsInv ==
    ASSUME IInv, NEW a \in Goroutines, At(a, "edit"), EditMisses(a), TablesInv', Keeps
    PROVE  IInv'
<1>1. ControlInv /\ ChatInv /\ ChatInv'
  BY DEF IInv, TablesInv
<1>2. job[a] \in Seq(Scripts) /\ job[a] # <<>>
  BY <1>1 DEF ControlInv, At
<1>3. Due(a) \in Statements /\ Due(a).op = "edit" /\ Rest(a) \in Seq(Scripts)
  BY <1>2, RestFacts DEF Due, Rest, At
<1>4. PICK f \in Of("edit") : Due(a) = EditStatement(f)
  BY <1>3, StatementFacts
<1>5. Due(a).orElse = f
  BY <1>4 DEF EditStatement
<1>6. CASE ~f.wrapped
  <2>1. Continue(a, Rest(a), FALSE)
    BY <1>5, <1>6 DEF EditMisses
  <2>2. QED BY <1>3, <2>1, FailureKeepsInv
<1>7. CASE f.wrapped
  <2> DEFINE rest == <<StoreMessage(f)>> \o Tail(job[a])
  <2>1. Continue(a, rest, TRUE)
    BY <1>5, <1>7 DEF EditMisses
  <2>2. f \in Written /\ f \in Events
    BY <1>7 DEF Written, Of
  <2>3. StoreMessage(f) \in Scripts
    BY <2>2, StoreMessageFacts
  <2>4. /\ rest \in Seq(Scripts) /\ Len(rest) = Len(job[a])
        /\ Len(job[a]) # 1 => rest[Len(rest)] = job[a][Len(job[a])]
    <3> DEFINE t == Tail(job[a])
               u == StoreMessage(f)
               j == job[a]
    <3>1. t \in Seq(Scripts) /\ Len(t) = Len(j) - 1 /\ \A i \in 1..Len(t) : t[i] = j[i + 1]
      BY <1>2, HeadTailProperties
    <3>2. u \in Scripts /\ Len(j) \in Nat \ {0}
      BY <1>2, <2>3, EmptySeq
    <3> HIDE DEF t, u, j
    <3>3. /\ <<u>> \o t \in Seq(Scripts) /\ Len(<<u>> \o t) = Len(t) + 1
          /\ \A i \in 1..Len(<<u>> \o t) : (<<u>> \o t)[i] = IF i = 1 THEN u ELSE t[i - 1]
      BY <3>1, <3>2
    <3>4. Len(j) # 1 => (<<u>> \o t)[Len(<<u>> \o t)] = j[Len(j)]
      BY <3>1, <3>2, <3>3
    <3>5. QED BY <3>1, <3>3, <3>4 DEF t, u, j
  <2> HIDE DEF rest
  <2>5. rest # <<>>
    BY <1>2, <2>4, EmptySeq
  <2>6. /\ ControlInv'
        /\ job'[a] = rest
        /\ current'[a] = current[a]
        /\ \A b \in Goroutines \ {a} : job'[b] = job[b] /\ current'[b] = current[b]
        /\ applied' \subseteq applied
    BY <1>1, <2>1, <2>4, <2>5, ContinueFacts
  <2>7. ASSUME NEW e \in current[a] PROVE Pending(a, e)'
    <3>1. e \in Events /\ Pending(a, e)
      BY DEF IInv, ControlInv, PendingInv
    <3>2. CASE e.kind \in {"text", "poll"}
      <4>1. ASSUME job[a] = Script(e) PROVE FALSE
        <5>1. e \in Written
          BY <3>1, <3>2, ItemFacts DEF Written
        <5>2. Head(job[a]) = StoreMessage(e)
          BY <3>2, <4>1 DEF Script
        <5>3. Due(a) = ChatStatement(e.at, 0)
          BY <3>1, <5>1, <5>2, StoreMessageFacts DEF Due
        <5>4. QED BY <1>3, <5>3 DEF ChatStatement
      <4>2. Covered(e)'
        BY <1>1, <3>1, <3>2, <4>1, LandedStays DEF Pending
      <4>3. QED BY <3>2, <4>2 DEF Pending
    <3>3. CASE e.kind = "history"
      <4>1. e \in Of("history")
        BY <3>1, <3>3 DEF Of
      <4>2. job[a][Len(job[a])] = LastOf(e)
        <5>1. CASE job[a] = Script(e)
          BY <3>3, <4>1, <5>1, HistoryScriptsFacts DEF Script
        <5>2. QED BY <3>1, <3>3, <5>1 DEF Pending
      <4>3. ASSUME Len(job[a]) = 1 PROVE FALSE
        <5>1. Due(a) = ChatStatement(Max(ItemTimes(e) \cup {0}), e.unread)
          BY <1>2, <4>2, <4>3 DEF Due, LastOf
        <5>2. QED BY <1>3, <5>1 DEF ChatStatement
      <4>4. QED BY <2>4, <2>6, <3>3, <4>2, <4>3 DEF Pending
    <3>4. CASE Single(e)
      <4>1. ASSUME job[a] = Script(e), e.kind \notin {"edit", "revoke", "flag"} PROVE FALSE
        <5>1. PICK u : /\ Script(e) = << <<u>> >>
                       /\ e.kind \in {"silent", "group"} => u = ChatStatement(e.at, 0)
                       /\ e.kind = "reaction" => u = ReactionStatement(e)
                       /\ e.kind = "vote" => u = VoteStatement(e)
          BY <3>1, <3>4, SingleScripts
        <5>2. Due(a) = u
          BY <4>1, <5>1 DEF Due
        <5>3. e.kind \in {"silent", "group", "reaction", "vote"}
          BY <3>4, <4>1 DEF Single
        <5>4. u.op # "edit"
          <6>1. ChatStatement(e.at, 0).op = "chat" /\ VoteStatement(e).op = "vote"
            BY DEF ChatStatement, VoteStatement
          <6>2. ReactionStatement(e).op \in {"react", "unreact"}
            BY DEF ReactionStatement
          <6>3. QED BY <5>1, <5>3, <6>1, <6>2
        <5>5. QED BY <1>3, <5>2, <5>4
      <4>2. QED BY <3>1, <3>4, <4>1 DEF Pending, Single
    <3>5. QED BY <3>1, <3>2, <3>3, <3>4, EventKinds
  <2>8. ASSUME NEW e \in applied' PROVE Landed(e)'
    <3>1. e \in applied /\ e \in Events /\ Landed(e)
      BY <2>6 DEF IInv, ControlInv, LandedInv
    <3>2. QED BY <1>1, <3>1, LandedStays
  <2>9. ASSUME NEW b \in Goroutines, NEW e \in current'[b] PROVE Pending(b, e)'
    <3>1. CASE b = a
      BY <2>6, <2>7, <3>1
    <3>2. CASE b # a
      BY <1>1, <2>6, <3>2, OthersPend
    <3>3. QED BY <3>1, <3>2
  <2>10. LandedInv' /\ PendingInv'
    BY <2>8, <2>9 DEF LandedInv, PendingInv
  <2>11. QED BY <2>6, <2>10 DEF IInv
<1>8. QED BY <1>6, <1>7

-----------------------------------------------------------------------------
(* The statements, one by one.                                             *)

(* The statement that is due is one of those of the scripts.               *)
LEMMA DueFacts ==
    ASSUME IInv, NEW a \in Goroutines, job[a] # <<>>
    PROVE  Due(a) \in Statements /\ Rest(a) \in Seq(Scripts)
<1>1. job[a] \in Seq(Scripts)
  BY DEF IInv, ControlInv
<1>2. QED BY <1>1, RestFacts DEF Due, Rest

(* Tables that a step leaves alone stay as they are.                       *)
LEMMA RowsKept ==
    ASSUME reactions' = reactions
    PROVE  /\ ReactionsInv => ReactionsInv'
           /\ \A e \in Events : ReactionStands(e) => ReactionStands(e)'
BY DEF ReactionsInv, ReactionStands, Sent
LEMMA VotesKept ==
    ASSUME votes' = votes
    PROVE  /\ VotesInv => VotesInv'
           /\ \A e \in Events : VoteStands(e) => VoteStands(e)'
BY DEF VotesInv, Cast, VoteStands
LEMMA MessagesKept ==
    ASSUME messages' = messages, MessagesInv
    PROVE  MessagesInv'
BY DEF MessagesInv
LEMMA ChatKept ==
    ASSUME chat' = chat, ChatInv
    PROVE  ChatInv' /\ (chat.known => chat'.known) /\ chat'.sec >= chat.sec
BY SecsAreNat DEF ChatInv

(* A step that leaves all four alone keeps the tables.                     *)
LEMMA TablesKept ==
    ASSUME IInv, messages' = messages, chat' = chat, reactions' = reactions, votes' = votes,
           ballots' \subseteq Ids
    PROVE  TablesInv' /\ Keeps
<1>1. MessagesInv /\ ChatInv /\ ReactionsInv /\ VotesInv
  BY DEF IInv, TablesInv
<1>2. QED BY <1>1, MessagesKept, ChatKept, RowsKept, VotesKept DEF TablesInv, Keeps

LEMMA UpsertChatKeepsInv ==
    ASSUME IInv, NEW a \in Goroutines, UpsertChat(a)
    PROVE  IInv'
<1> SUFFICES ASSUME NEW s, s = Due(a) PROVE IInv'
  OBVIOUS
<1>1. /\ job[a] # <<>> /\ s.op = "chat" /\ Done(a)
      /\ messages' = messages /\ reactions' = reactions /\ votes' = votes /\ ballots' = ballots
      /\ chat' = [known |-> TRUE, sec |-> Freshest(s), unread |-> s.unread,
                  archived |-> FALSE, pinned |-> FALSE]
  BY DEF UpsertChat, At
<1>2. PICK t \in Moments : s.sec = Sec(t)
  BY <1>1, DueFacts, StatementFacts
<1>3. /\ MessagesInv /\ ChatInv /\ ReactionsInv /\ VotesInv /\ ballots \subseteq Ids
  BY DEF IInv, TablesInv
<1>4. PICK u \in Moments : chat.sec = Sec(u)
  BY <1>3 DEF ChatInv
<1>5. s.sec \in Nat /\ chat.sec \in Nat
  BY <1>2, <1>4, SecsAreNat
<1>6. chat'.known = TRUE /\ chat'.sec = Freshest(s)
  BY <1>1
<1>7. chat'.sec >= s.sec /\ chat'.sec >= chat.sec /\ chat'.sec \in {s.sec, chat.sec}
  BY <1>5, <1>6 DEF Freshest
<1>8. ChatInv'
  BY <1>2, <1>4, <1>6, <1>7 DEF ChatInv
<1>9. TablesInv' /\ Keeps
  BY <1>1, <1>3, <1>6, <1>7, <1>8, MessagesKept, RowsKept, VotesKept DEF TablesInv, Keeps
<1>10. Effect(s)'
  BY <1>1, <1>6, <1>7 DEF Effect
<1>11. QED BY <1>1, <1>9, <1>10, DoneKeepsInv

(* A step that changes one message into a good row keeps the tables.       *)
LEMMA MessageChanges ==
    ASSUME IInv, NEW id \in Ids, NEW row \in Rows, row.stored,
           row.edited \/ row.deleted => row.text \in Corrections(id),
           messages' = [messages EXCEPT ![id] = row],
           chat' = chat, reactions' = reactions, votes' = votes, ballots' = ballots
    PROVE  TablesInv' /\ Keeps
<1>1. MessagesInv /\ ChatInv /\ ReactionsInv /\ VotesInv /\ ballots \subseteq Ids
  BY DEF IInv, TablesInv
<1>2. MessagesInv'
  <2>1. \A i \in Ids : messages'[i] = IF i = id THEN row ELSE messages[i]
    BY <1>1 DEF MessagesInv
  <2>2. messages' \in [Ids -> Rows]
    BY <1>1 DEF MessagesInv
  <2>3. QED BY <1>1, <2>1, <2>2 DEF MessagesInv
<1>3. QED BY <1>1, <1>2, ChatKept, RowsKept, VotesKept DEF TablesInv, Keeps

LEMMA RowFacts ==
    ASSUME NEW text \in Texts, NEW sec \in Nat, NEW edited \in BOOLEAN, NEW deleted \in BOOLEAN
    PROVE  LET row == Row(text, sec, edited, deleted)
           IN  /\ row \in Rows /\ row.stored /\ row.text = text
               /\ row.edited = edited /\ row.deleted = deleted
BY DEF Row, Rows

LEMMA InsertMessageKeepsInv ==
    ASSUME IInv, NEW a \in Goroutines, InsertMessage(a)
    PROVE  IInv'
<1> SUFFICES ASSUME NEW s, s = Due(a) PROVE IInv'
  OBVIOUS
<1>1. /\ job[a] # <<>> /\ s.op = "insert" /\ Done(a)
      /\ chat' = chat /\ reactions' = reactions /\ votes' = votes /\ ballots' = ballots
      /\ messages' = [messages EXCEPT ![s.id] = Inserted(messages[s.id], s)]
  BY DEF InsertMessage, At
<1>2. PICK e \in Written : s = InsertStatement(e)
  BY <1>1, DueFacts, StatementFacts
<1>3. s.id = e.id /\ s.text = e.text /\ s.sec = Sec(e.at)
  BY <1>2 DEF InsertStatement
<1>4. e.id \in Ids /\ e.at \in Nat
  BY ItemFacts, IngestAssumption DEF Written, Of, WellFormed
<1>5. s.id \in Ids /\ s.text \in Texts /\ s.sec \in Nat
  BY <1>3, <1>4, SecMonotone DEF Texts
<1>6. /\ messages \in [Ids -> Rows]
      /\ messages[s.id].edited \/ messages[s.id].deleted => messages[s.id].text \in Corrections(s.id)
  BY <1>5 DEF IInv, TablesInv, MessagesInv
<1>7. Effect(s)'
  BY <1>1 DEF Effect
<1>8. CASE messages[s.id].stored
  <2>1. Inserted(messages[s.id], s) = messages[s.id]
    BY <1>8 DEF Inserted
  <2> DEFINE row == messages[s.id]
  <2>2. row \in Rows /\ row.stored /\ (row.edited \/ row.deleted => row.text \in Corrections(s.id))
    BY <1>5, <1>6, <1>8
  <2>3. messages' = [messages EXCEPT ![s.id] = row]
    BY <1>1, <2>1
  <2> HIDE DEF row
  <2>4. TablesInv' /\ Keeps
    BY <1>1, <1>5, <2>2, <2>3, MessageChanges
  <2>5. QED BY <1>1, <1>7, <2>4, DoneKeepsInv
<1>9. CASE ~messages[s.id].stored
  <2> DEFINE row == Row(s.text, s.sec, FALSE, FALSE)
  <2>1. messages' = [messages EXCEPT ![s.id] = row]
    BY <1>1, <1>9 DEF Inserted
  <2>2. row \in Rows /\ row.stored /\ (row.edited \/ row.deleted => row.text \in Corrections(s.id))
    BY <1>5, RowFacts
  <2> HIDE DEF row
  <2>3. TablesInv' /\ Keeps
    BY <1>1, <1>5, <2>1, <2>2, MessageChanges
  <2>4. QED BY <1>1, <1>7, <2>3, DoneKeepsInv
<1>10. QED BY <1>8, <1>9

LEMMA MarkMessageEditedKeepsInv ==
    ASSUME IInv, NEW a \in Goroutines, MarkMessageEdited(a)
    PROVE  IInv'
<1> SUFFICES ASSUME NEW s, s = Due(a) PROVE IInv'
  OBVIOUS
<1>1. /\ At(a, "edit") /\ job[a] # <<>> /\ s.op = "edit"
      /\ chat' = chat /\ reactions' = reactions /\ votes' = votes /\ ballots' = ballots
  BY DEF MarkMessageEdited, At
<1>2. PICK e \in Of("edit") : s = EditStatement(e)
  BY <1>1, DueFacts, StatementFacts
<1>3. s.id = e.id /\ s.text = e.text
  BY <1>2 DEF EditStatement
<1>4. s.id \in Ids /\ s.text \in Corrections(s.id) /\ s.text \in Texts
  BY <1>3, IngestAssumption DEF Of, WellFormed, Corrections, Texts
<1>5. messages \in [Ids -> Rows] /\ ballots \subseteq Ids
  BY DEF IInv, TablesInv, MessagesInv
<1>6. CASE messages[s.id].stored
  <2> DEFINE row == Row(s.text, messages[s.id].sec, TRUE, messages[s.id].deleted)
  <2>1. messages' = [messages EXCEPT ![s.id] = row] /\ Done(a)
    BY <1>6 DEF MarkMessageEdited
  <2>2. messages[s.id].sec \in Nat /\ messages[s.id].deleted \in BOOLEAN
    BY <1>4, <1>5 DEF Rows
  <2>3. row \in Rows /\ row.stored /\ (row.edited \/ row.deleted => row.text \in Corrections(s.id))
    <3> DEFINE sec == messages[s.id].sec
               deleted == messages[s.id].deleted
               text == s.text
    <3>1. sec \in Nat /\ deleted \in BOOLEAN /\ text \in Texts /\ text \in Corrections(s.id)
      BY <1>4, <2>2
    <3> HIDE DEF sec, deleted, text, row
    <3>2. row = Row(text, sec, TRUE, deleted)
      BY DEF row, sec, deleted, text
    <3>3. row \in Rows /\ row.stored /\ row.text = text
      BY <3>1, <3>2, RowFacts
    <3>4. QED BY <3>1, <3>3
  <2> HIDE DEF row
  <2>4. TablesInv' /\ Keeps
    BY <1>1, <1>4, <2>1, <2>3, MessageChanges
  <2>5. Effect(s)'
    BY <1>1 DEF Effect
  <2>6. QED BY <1>1, <2>1, <2>4, <2>5, DoneKeepsInv
<1>7. CASE ~messages[s.id].stored
  <2>1. messages' = messages /\ EditMisses(a)
    BY <1>7 DEF MarkMessageEdited
  <2>2. TablesInv' /\ Keeps
    BY <1>1, <1>5, <2>1, TablesKept
  <2>3. QED BY <1>1, <2>1, <2>2, EditMissKeepsInv
<1>8. QED BY <1>6, <1>7

LEMMA MarkMessageDeletedKeepsInv ==
    ASSUME IInv, NEW a \in Goroutines, MarkMessageDeleted(a)
    PROVE  IInv'
<1> SUFFICES ASSUME NEW s, s = Due(a) PROVE IInv'
  OBVIOUS
<1>1. /\ job[a] # <<>> /\ s.op = "delete"
      /\ chat' = chat /\ reactions' = reactions /\ votes' = votes /\ ballots' = ballots
      /\ Continue(a, Rest(a), messages[s.id].stored)
  BY DEF MarkMessageDeleted, At
<1>2. s.id \in Ids
  BY <1>1, DueFacts, StatementFacts
<1>3. messages \in [Ids -> Rows] /\ ballots \subseteq Ids
  BY DEF IInv, TablesInv, MessagesInv
<1>4. messages[s.id].stored \in BOOLEAN
  BY <1>2, <1>3 DEF Rows
<1>5. CASE messages[s.id].stored
  <2> DEFINE row == Row("", messages[s.id].sec, messages[s.id].edited, TRUE)
  <2>1. messages' = [messages EXCEPT ![s.id] = row]
    BY <1>5 DEF MarkMessageDeleted
  <2>2. messages[s.id].sec \in Nat /\ messages[s.id].edited \in BOOLEAN
    BY <1>2, <1>3 DEF Rows
  <2>3. "" \in Corrections(s.id) /\ "" \in Texts
    BY DEF Corrections, Texts
  <2>4. row \in Rows /\ row.stored /\ (row.edited \/ row.deleted => row.text \in Corrections(s.id))
    <3> DEFINE sec == messages[s.id].sec
               edited == messages[s.id].edited
    <3>1. sec \in Nat /\ edited \in BOOLEAN
      BY <2>2
    <3> HIDE DEF sec, edited, row
    <3>2. row = Row("", sec, edited, TRUE)
      BY DEF row, sec, edited
    <3>3. row \in Rows /\ row.stored /\ row.text = ""
      BY <2>3, <3>1, <3>2, RowFacts
    <3>4. QED BY <2>3, <3>3
  <2> HIDE DEF row
  <2>5. TablesInv' /\ Keeps
    BY <1>1, <1>2, <2>1, <2>4, MessageChanges
  <2>6. Effect(s)'
    BY <1>1 DEF Effect
  <2>7. Done(a)
    <3>1. messages[s.id].stored = TRUE
      BY <1>4, <1>5
    <3>2. QED BY <1>1, <3>1 DEF Done
  <2>8. QED BY <1>1, <2>5, <2>6, <2>7, DoneKeepsInv
<1>6. CASE ~messages[s.id].stored
  <2>1. messages' = messages
    BY <1>6 DEF MarkMessageDeleted
  <2>2. TablesInv' /\ Keeps
    BY <1>1, <1>3, <2>1, TablesKept
  <2>3. Continue(a, Rest(a), FALSE)
    <3>1. messages[s.id].stored = FALSE
      BY <1>4, <1>6
    <3>2. QED BY <1>1, <3>1
  <2>4. QED BY <1>1, <2>2, <2>3, DueFacts, FailureKeepsInv
<1>7. QED BY <1>5, <1>6

(* A row that replaces the older ones of its key is there, and so is no    *)
(* older one than there was.                                               *)
LEMMA UpsertedFacts ==
    ASSUME NEW table, NEW old, old \subseteq table, NEW new, new.sec \in Nat,
           \A r \in table : r.sec \in Nat
    PROVE  LET now == Upserted(table, old, new)
           IN  /\ now \subseteq table \cup {new}
               /\ \A r \in table : r \notin old => r \in now
               /\ \/ new \in now /\ \A r \in old : new.sec >= r.sec
                  \/ now = table /\ \E r \in old : r.sec >= new.sec
               /\ \/ new \in now /\ now \cap old \subseteq {new}
                  \/ now = table
<1>1. CASE \A r \in old : new.sec >= r.sec
  <2>1. Upserted(table, old, new) = (table \ old) \cup {new}
    BY <1>1 DEF Upserted
  <2>2. QED BY <1>1, <2>1
<1>2. CASE \E r \in old : ~(new.sec >= r.sec)
  <2>1. Upserted(table, old, new) = table
    BY <1>2 DEF Upserted
  <2>2. \E r \in old : r.sec >= new.sec
    BY <1>2
  <2>3. QED BY <2>1, <2>2
<1>3. QED BY <1>1, <1>2

LEMMA UpsertReactionKeepsInv ==
    ASSUME IInv, NEW a \in Goroutines, UpsertReaction(a)
    PROVE  IInv'
<1> SUFFICES ASSUME NEW s, s = Due(a) PROVE IInv'
  OBVIOUS
<1> DEFINE row == [id |-> s.id, key |-> s.key, emoji |-> s.emoji, sec |-> s.sec, me |-> s.me]
           old == SameReaction(s)
<1>1. /\ job[a] # <<>> /\ s.op = "react" /\ Done(a)
      /\ messages' = messages /\ chat' = chat /\ votes' = votes /\ ballots' = ballots
      /\ reactions' = Upserted(reactions, old, row)
  BY DEF UpsertReaction, At
<1>2. PICK e \in Items : e.kind = "reaction" /\ e.emoji # "" /\ s = ReactionStatement(e)
  BY <1>1, DueFacts, StatementFacts
<1>3. /\ s.id = e.id /\ s.key = ReactionSenderKey(e) /\ s.sec = Sec(e.at) /\ s.me = e.me
      /\ s.emoji = e.emoji
  <2>1. s = [op |-> "react", id |-> e.id, key |-> ReactionSenderKey(e),
             emoji |-> e.emoji, sec |-> Sec(e.at), me |-> e.me]
    BY <1>2 DEF ReactionStatement
  <2>2. QED BY <2>1
<1>4. e.at \in Nat /\ e.me \in BOOLEAN
  BY <1>2, ItemFacts DEF WellFormed
<1>5. row.me \in BOOLEAN /\ (row.me => row.key = "")
  BY <1>3, <1>4 DEF ReactionSenderKey
<1>6. /\ row.id = s.id /\ row.key = s.key /\ row.sec = s.sec /\ row.sec \in Nat
      /\ Sent(row)
  BY <1>2, <1>3, <1>4, SecMonotone DEF Sent
<1>7. /\ MessagesInv /\ ChatInv /\ ReactionsInv /\ VotesInv /\ ballots \subseteq Ids
  BY DEF IInv, TablesInv
<1>8. old = {r \in reactions : r.id = s.id /\ r.key = s.key}
  BY DEF SameReaction
<1> HIDE DEF row, old
<1>9. /\ reactions' \subseteq reactions \cup {row}
      /\ \A r \in reactions : r \notin old => r \in reactions'
      /\ \/ row \in reactions' /\ \A r \in old : row.sec >= r.sec
         \/ reactions' = reactions /\ \E r \in old : r.sec >= row.sec
      /\ \/ row \in reactions' /\ reactions' \cap old \subseteq {row}
         \/ reactions' = reactions
  <2>1. old \subseteq reactions /\ \A r \in reactions : r.sec \in Nat
    BY <1>7, <1>8 DEF ReactionsInv
  <2>2. QED BY <1>1, <1>5, <1>6, <2>1, UpsertedFacts
<1>10. ReactionsInv'
  <2>1. \A r \in reactions' : /\ r.sec \in Nat /\ r.me \in BOOLEAN /\ (r.me => r.key = "")
                              /\ Sent(r)
    BY <1>5, <1>6, <1>7, <1>9 DEF ReactionsInv
  <2>2. ASSUME NEW r \in reactions', NEW q \in reactions', r.id = q.id, r.key = q.key
        PROVE  r = q
    <3>1. CASE reactions' = reactions
      BY <1>7, <2>2, <3>1 DEF ReactionsInv
    <3>2. CASE row \in reactions' /\ reactions' \cap old \subseteq {row}
      <4>1. r \in reactions \/ r = row
        BY <1>9
      <4>2. q \in reactions \/ q = row
        BY <1>9
      <4>3. CASE r = row
        BY <1>6, <1>8, <2>2, <3>2, <4>2, <4>3
      <4>4. CASE q = row
        BY <1>6, <1>8, <2>2, <3>2, <4>1, <4>4
      <4>5. CASE r \in reactions /\ q \in reactions
        BY <1>7, <2>2, <4>5 DEF ReactionsInv
      <4>6. QED BY <4>1, <4>2, <4>3, <4>4, <4>5
    <3>3. QED BY <1>9, <3>1, <3>2
  <2>3. QED BY <2>1, <2>2 DEF ReactionsInv, Sent
<1>11. ASSUME NEW f \in Events, Reacts(f), ReactionStands(f) PROVE ReactionStands(f)'
  <2>1. PICK r \in reactions : r.id = f.id /\ r.key = ReactionSenderKey(f) /\ r.sec >= Sec(f.at)
    BY <1>11 DEF ReactionStands
  <2>2. CASE r \in reactions'
    BY <2>1, <2>2 DEF ReactionStands
  <2>3. CASE r \notin reactions'
    <3>1. r \in old /\ row \in reactions' /\ row.sec >= r.sec
      BY <1>9, <2>3
    <3>2. row.id = f.id /\ row.key = ReactionSenderKey(f)
      BY <1>6, <1>8, <2>1, <3>1
    <3>3. Sec(f.at) \in Nat /\ r.sec \in Nat
      BY <1>7, <1>11, IngestAssumption, SecMonotone DEF ReactionsInv, Reacts, WellFormed
    <3>4. row.sec >= Sec(f.at)
      BY <1>6, <2>1, <3>1, <3>3
    <3>5. QED BY <3>1, <3>2, <3>4 DEF ReactionStands
  <2>4. QED BY <2>2, <2>3
<1>12. TablesInv' /\ Keeps
  BY <1>1, <1>7, <1>10, <1>11, MessagesKept, ChatKept, VotesKept DEF TablesInv, Keeps
<1>13. Effect(s)'
  <2>1. \E r \in reactions' : r.id = s.id /\ r.key = s.key /\ r.sec >= s.sec
    <3>1. CASE row \in reactions'
      BY <1>6, <3>1
    <3>2. CASE reactions' = reactions /\ \E r \in old : r.sec >= row.sec
      <4>1. PICK r \in old : r.sec >= row.sec
        BY <3>2
      <4>2. r \in reactions' /\ r.id = s.id /\ r.key = s.key /\ r.sec >= s.sec
        BY <1>6, <1>8, <3>2, <4>1
      <4>3. QED BY <4>2
    <3>3. QED BY <1>9, <3>1, <3>2
  <2>2. QED BY <1>1, <2>1 DEF Effect
<1>14. QED BY <1>1, <1>12, <1>13, DoneKeepsInv

LEMMA DeleteReactionKeepsInv ==
    ASSUME IInv, NEW a \in Goroutines, DeleteReaction(a)
    PROVE  IInv'
<1> SUFFICES ASSUME NEW s, s = Due(a) PROVE IInv'
  OBVIOUS
<1>1. /\ job[a] # <<>> /\ s.op = "unreact" /\ Done(a)
      /\ messages' = messages /\ chat' = chat /\ votes' = votes /\ ballots' = ballots
      /\ reactions' = reactions \ SameReaction(s)
  BY DEF DeleteReaction, At
<1>2. PICK e \in Items : e.kind = "reaction" /\ e.emoji = "" /\ s = ReactionStatement(e)
  BY <1>1, DueFacts, StatementFacts
<1>3. s.id = e.id /\ s.key = ReactionSenderKey(e)
  <2>1. s = [op |-> "unreact", id |-> e.id, key |-> ReactionSenderKey(e)]
    BY <1>2 DEF ReactionStatement
  <2>2. QED BY <2>1
<1>4. e \in Removals(s.id, s.key)
  BY <1>2, <1>3 DEF Removals
<1>5. /\ MessagesInv /\ ChatInv /\ ReactionsInv /\ VotesInv /\ ballots \subseteq Ids
  BY DEF IInv, TablesInv
<1>6. ReactionsInv'
  BY <1>1, <1>5 DEF ReactionsInv, Sent
<1>7. ASSUME NEW f \in Events, Reacts(f), ReactionStands(f) PROVE ReactionStands(f)'
  <2>1. PICK r \in reactions : r.id = f.id /\ r.key = ReactionSenderKey(f) /\ r.sec >= Sec(f.at)
    BY <1>7 DEF ReactionStands
  <2>2. Removals(f.id, ReactionSenderKey(f)) = {}
    BY <1>7 DEF Reacts
  <2>3. r \notin SameReaction(s)
    BY <1>4, <2>1, <2>2 DEF SameReaction
  <2>4. r \in reactions'
    BY <1>1, <2>3
  <2>5. QED BY <2>1, <2>4 DEF ReactionStands
<1>8. TablesInv' /\ Keeps
  BY <1>1, <1>5, <1>6, <1>7, MessagesKept, ChatKept, VotesKept DEF TablesInv, Keeps
<1>9. Effect(s)'
  BY <1>1 DEF Effect
<1>10. QED BY <1>1, <1>8, <1>9, DoneKeepsInv

LEMMA UpsertPollKeepsInv ==
    ASSUME IInv, NEW a \in Goroutines, UpsertPoll(a)
    PROVE  IInv'
<1> SUFFICES ASSUME NEW s, s = Due(a) PROVE IInv'
  OBVIOUS
<1>1. /\ job[a] # <<>> /\ s.op = "ballot" /\ Done(a)
      /\ messages' = messages /\ chat' = chat /\ reactions' = reactions /\ votes' = votes
      /\ ballots' = ballots \cup {s.id}
  BY DEF UpsertPoll, At
<1>2. s.id \in Ids
  BY <1>1, DueFacts, StatementFacts
<1>3. ballots' \subseteq Ids
  BY <1>1, <1>2 DEF IInv, TablesInv
<1>4. TablesInv' /\ Keeps
  BY <1>1, <1>3, TablesKept
<1>5. Effect(s)'
  BY <1>1 DEF Effect
<1>6. QED BY <1>1, <1>4, <1>5, DoneKeepsInv

LEMMA UpsertPollVoteKeepsInv ==
    ASSUME IInv, NEW a \in Goroutines, UpsertPollVote(a)
    PROVE  IInv'
<1> SUFFICES ASSUME NEW s, s = Due(a) PROVE IInv'
  OBVIOUS
<1> DEFINE row == [id |-> s.id, by |-> s.by, sel |-> s.sel, sec |-> s.sec]
           old == {v \in votes : v.id = s.id /\ v.by = s.by}
<1>1. /\ job[a] # <<>> /\ s.op = "vote" /\ Done(a)
      /\ messages' = messages /\ chat' = chat /\ reactions' = reactions /\ ballots' = ballots
      /\ votes' = Upserted(votes, old, row)
  BY DEF UpsertPollVote, At
<1>2. PICK e \in Of("vote") : s = VoteStatement(e)
  BY <1>1, DueFacts, StatementFacts
<1>3. s.id = e.id /\ s.by = e.by /\ s.sel = e.sel /\ s.sec = Sec(e.at)
  BY <1>2 DEF VoteStatement
<1>4. e.at \in Nat
  BY IngestAssumption DEF Of, WellFormed
<1>5. row.id = s.id /\ row.by = s.by /\ row.sec = s.sec /\ row.sel = s.sel /\ row.sec \in Nat
  BY <1>3, <1>4, SecMonotone
<1> HIDE DEF row
<1>6. Cast(row)
  BY <1>3, <1>5 DEF Cast
<1>7. /\ MessagesInv /\ ChatInv /\ ReactionsInv /\ VotesInv /\ ballots \subseteq Ids
  BY DEF IInv, TablesInv
<1>8. old = {v \in votes : v.id = s.id /\ v.by = s.by}
  OBVIOUS
<1> HIDE DEF old
<1>9. /\ votes' \subseteq votes \cup {row}
      /\ \A v \in votes : v \notin old => v \in votes'
      /\ \/ row \in votes' /\ \A v \in old : row.sec >= v.sec
         \/ votes' = votes /\ \E v \in old : v.sec >= row.sec
      /\ \/ row \in votes' /\ votes' \cap old \subseteq {row}
         \/ votes' = votes
  <2>1. old \subseteq votes /\ \A v \in votes : v.sec \in Nat
    BY <1>7, <1>8 DEF VotesInv
  <2>2. QED BY <1>1, <1>5, <1>6, <2>1, UpsertedFacts
<1>10. VotesInv'
  <2>1. \A v \in votes' : v.sec \in Nat /\ Cast(v)
    BY <1>5, <1>6, <1>7, <1>9 DEF VotesInv
  <2>2. ASSUME NEW v \in votes', NEW w \in votes', v.id = w.id, v.by = w.by
        PROVE  v = w
    <3>1. CASE votes' = votes
      BY <1>7, <2>2, <3>1 DEF VotesInv
    <3>2. CASE row \in votes' /\ votes' \cap old \subseteq {row}
      <4>1. v \in votes \/ v = row
        BY <1>9
      <4>2. w \in votes \/ w = row
        BY <1>9
      <4>3. CASE v = row
        BY <1>5, <1>8, <2>2, <3>2, <4>2, <4>3
      <4>4. CASE w = row
        BY <1>5, <1>8, <2>2, <3>2, <4>1, <4>4
      <4>5. CASE v \in votes /\ w \in votes
        BY <1>7, <2>2, <4>5 DEF VotesInv
      <4>6. QED BY <4>1, <4>2, <4>3, <4>4, <4>5
    <3>3. QED BY <1>9, <3>1, <3>2
  <2>3. QED BY <2>1, <2>2 DEF VotesInv, Cast
<1>11. ASSUME NEW f \in Events, f.kind = "vote", VoteStands(f) PROVE VoteStands(f)'
  <2>1. PICK v \in votes : v.id = f.id /\ v.by = f.by /\ v.sec >= Sec(f.at)
    BY <1>11 DEF VoteStands
  <2>2. CASE v \in votes'
    BY <2>1, <2>2 DEF VoteStands
  <2>3. CASE v \notin votes'
    <3>1. v \in old /\ row \in votes' /\ row.sec >= v.sec
      BY <1>9, <2>3
    <3>2. row.id = f.id /\ row.by = f.by
      BY <1>5, <1>8, <2>1, <3>1
    <3>3. Sec(f.at) \in Nat /\ v.sec \in Nat
      BY <1>7, <1>11, IngestAssumption, SecMonotone DEF VotesInv, WellFormed
    <3>4. row.sec >= Sec(f.at)
      BY <1>5, <2>1, <3>1, <3>3
    <3>5. QED BY <3>1, <3>2, <3>4 DEF VoteStands
  <2>4. QED BY <2>2, <2>3
<1>12. TablesInv' /\ Keeps
  BY <1>1, <1>7, <1>10, <1>11, MessagesKept, ChatKept, RowsKept DEF TablesInv, Keeps
<1>13. Effect(s)'
  <2>1. \E v \in votes' : v.id = s.id /\ v.by = s.by /\ v.sec >= s.sec
    <3>1. CASE row \in votes'
      BY <1>5, <3>1
    <3>2. CASE votes' = votes /\ \E v \in old : v.sec >= row.sec
      BY <1>5, <1>8, <3>2
    <3>3. QED BY <1>9, <3>1, <3>2
  <2>2. QED BY <1>1, <2>1 DEF Effect
<1>14. QED BY <1>1, <1>12, <1>13, DoneKeepsInv

LEMMA SetChatFlagKeepsInv ==
    ASSUME IInv, NEW a \in Goroutines, SetChatFlag(a)
    PROVE  IInv'
<1> SUFFICES ASSUME NEW s, s = Due(a) PROVE IInv'
  OBVIOUS
<1>1. /\ job[a] # <<>> /\ s.op = "flag" /\ Done(a)
      /\ messages' = messages /\ reactions' = reactions /\ votes' = votes /\ ballots' = ballots
      /\ chat'.known = TRUE /\ chat'.sec = chat.sec
  BY DEF SetChatFlag, At
<1>2. /\ MessagesInv /\ ChatInv /\ ReactionsInv /\ VotesInv /\ ballots \subseteq Ids
  BY DEF IInv, TablesInv
<1>3. ChatInv' /\ chat'.sec >= chat.sec
  <2>1. PICK t \in Moments : chat.sec = Sec(t)
    BY <1>2 DEF ChatInv
  <2>2. chat.sec \in Nat
    BY <2>1, SecsAreNat
  <2>3. chat'.sec = Sec(t)
    BY <1>1, <2>1
  <2>4. ChatInv'
    BY <1>1, <2>3 DEF ChatInv
  <2>5. QED BY <1>1, <2>2, <2>4
<1>4. TablesInv' /\ Keeps
  BY <1>1, <1>2, <1>3, MessagesKept, RowsKept, VotesKept DEF TablesInv, Keeps
<1>5. Effect(s)'
  BY <1>1 DEF Effect
<1>6. QED BY <1>1, <1>4, <1>5, DoneKeepsInv

LEMMA StatementFailsKeepsInv ==
    ASSUME IInv, NEW a \in Goroutines, StatementFails(a)
    PROVE  IInv'
<1>1. job[a] # <<>> /\ UNCHANGED tables
  BY DEF StatementFails
<1>2. TablesInv' /\ Keeps
  BY <1>1, TablesKept DEF IInv, TablesInv, tables
<1>3. CASE a \in Tools
  <2>1. Continue(a, <<>>, FALSE)
    BY <1>3 DEF StatementFails
  <2>2. <<>> \in Seq(Scripts)
    BY EmptySeq
  <2>3. QED BY <1>2, <2>1, <2>2, FailureKeepsInv
<1>4. CASE a \notin Tools /\ At(a, "edit")
  <2>1. EditMisses(a)
    BY <1>4 DEF StatementFails
  <2>2. QED BY <1>2, <1>4, <2>1, EditMissKeepsInv
<1>5. CASE a \notin Tools /\ ~At(a, "edit")
  <2>1. Continue(a, Rest(a), FALSE)
    BY <1>5 DEF StatementFails
  <2>2. QED BY <1>1, <1>2, <2>1, DueFacts, FailureKeepsInv
<1>6. QED BY <1>3, <1>4, <1>5

-----------------------------------------------------------------------------
(* The invariant is inductive.                                             *)

LEMMA BeginKeepsInv ==
    ASSUME IInv, NEW a \in Goroutines, NEW e \in Events, Begin(a, e)
    PROVE  IInv'
<1>1. /\ UNCHANGED tables /\ applied' = applied
      /\ job' = [job EXCEPT ![a] = Script(e)]
      /\ current' = [current EXCEPT ![a] = {e}]
      /\ called' \subseteq called \cup {e}
  BY DEF Begin
<1>2. TablesInv' /\ Keeps
  BY <1>1, TablesKept DEF IInv, TablesInv, tables
<1>3. ControlInv /\ ChatInv /\ ChatInv'
  BY <1>2 DEF IInv, TablesInv
<1>4. Script(e) \in Seq(Scripts) /\ Script(e) # <<>>
  BY ScriptFacts
<1>5. /\ job'[a] = Script(e) /\ current'[a] = {e}
      /\ \A b \in Goroutines \ {a} : job'[b] = job[b] /\ current'[b] = current[b]
  BY <1>1, <1>3 DEF ControlInv
<1>6. ControlInv'
  <2>1. job' \in [Goroutines -> Seq(Scripts)] /\ current' \in [Goroutines -> SUBSET Events]
    BY <1>1, <1>3, <1>4 DEF ControlInv
  <2>2. called' \subseteq Events /\ applied' \subseteq Events
    BY <1>1, <1>3 DEF ControlInv
  <2>3. \A b \in Goroutines : job'[b] = <<>> => current'[b] = {}
    BY <1>3, <1>4, <1>5 DEF ControlInv
  <2>4. QED BY <2>1, <2>2, <2>3 DEF ControlInv
<1>7. ASSUME NEW f \in applied' PROVE Landed(f)'
  <2>1. f \in Events /\ Landed(f)
    BY <1>1 DEF IInv, ControlInv, LandedInv
  <2>2. QED BY <1>2, <1>3, <2>1, LandedStays
<1>8. ASSUME NEW b \in Goroutines, NEW f \in current'[b] PROVE Pending(b, f)'
  <2>1. CASE b = a
    BY <1>5, <1>8, <2>1 DEF Pending
  <2>2. CASE b # a
    BY <1>2, <1>3, <1>5, <2>2, OthersPend
  <2>3. QED BY <2>1, <2>2
<1>9. LandedInv' /\ PendingInv'
  BY <1>7, <1>8 DEF LandedInv, PendingInv
<1>10. QED BY <1>2, <1>6, <1>9 DEF IInv

LEMMA CrashKeepsInv ==
    ASSUME IInv, Crash
    PROVE  IInv'
<1>1. /\ UNCHANGED tables /\ applied' = applied /\ called' = called
      /\ job' = [a \in Goroutines |-> <<>>]
      /\ current' = [a \in Goroutines |-> {}]
  BY DEF Crash
<1>2. TablesInv' /\ Keeps
  BY <1>1, TablesKept DEF IInv, TablesInv, tables
<1>3. ControlInv /\ ChatInv /\ ChatInv'
  BY <1>2 DEF IInv, TablesInv
<1>4. ControlInv'
  <2>1. <<>> \in Seq(Scripts)
    BY EmptySeq
  <2>2. QED BY <1>1, <1>3, <2>1 DEF ControlInv
<1>5. ASSUME NEW f \in applied' PROVE Landed(f)'
  <2>1. f \in Events /\ Landed(f)
    BY <1>1 DEF IInv, ControlInv, LandedInv
  <2>2. QED BY <1>2, <1>3, <2>1, LandedStays
<1>6. PendingInv'
  BY <1>1 DEF PendingInv
<1>7. LandedInv'
  BY <1>5 DEF LandedInv
<1>8. QED BY <1>2, <1>4, <1>6, <1>7 DEF IInv

LEMMA InitHasInv ==
    ASSUME Init
    PROVE  IInv
<1>1. MessagesInv
  <2>1. NoRow \in Rows /\ NoRow.edited = FALSE /\ NoRow.deleted = FALSE
    BY DEF NoRow, Rows, Texts
  <2> DEFINE none == NoRow
  <2> HIDE DEF none
  <2>2. messages = [id \in Ids |-> none]
    BY DEF Init, none
  <2>3. \A id \in Ids : messages[id] = none
    BY <2>2
  <2>4. messages \in [Ids -> Rows]
    BY <2>1, <2>2 DEF none
  <2>5. QED BY <2>1, <2>3, <2>4 DEF MessagesInv, none
<1>2. ChatInv
  <2>1. chat.known = FALSE /\ chat.sec = 0 /\ chat = NoChat
    BY DEF Init, NoChat
  <2>2. 0 \in Moments /\ Sec(0) = 0
    BY SecMonotone DEF Moments
  <2>3. QED BY <2>1, <2>2 DEF ChatInv
<1>3. ReactionsInv /\ VotesInv /\ ballots \subseteq Ids
  BY DEF Init, ReactionsInv, VotesInv
<1>4. ControlInv
  <2>1. <<>> \in Seq(Scripts)
    BY EmptySeq
  <2>2. QED BY <2>1 DEF Init, ControlInv
<1>5. LandedInv /\ PendingInv
  BY DEF Init, LandedInv, PendingInv
<1>6. QED BY <1>1, <1>2, <1>3, <1>4, <1>5 DEF IInv, TablesInv

LEMMA StutterKeepsInv ==
    ASSUME IInv, UNCHANGED vars
    PROVE  IInv'
<1>1. /\ messages' = messages /\ chat' = chat /\ reactions' = reactions /\ votes' = votes
      /\ ballots' = ballots /\ job' = job /\ current' = current /\ called' = called
      /\ applied' = applied
  BY DEF vars, tables
<1>2. TablesInv' /\ Keeps
  BY <1>1, TablesKept DEF IInv, TablesInv
<1>3. ChatInv' /\ ControlInv /\ ChatInv
  BY <1>2 DEF IInv, TablesInv
<1>4. ControlInv'
  BY <1>1, <1>3 DEF ControlInv
<1>5. ASSUME NEW f \in applied' PROVE Landed(f)'
  <2>1. f \in Events /\ Landed(f)
    BY <1>1 DEF IInv, ControlInv, LandedInv
  <2>2. QED BY <1>2, <1>3, <2>1, LandedStays
<1>6. ASSUME NEW b \in Goroutines, NEW f \in current'[b] PROVE Pending(b, f)'
  BY <1>1, <1>2, <1>3, OthersPend
<1>7. LandedInv' /\ PendingInv'
  BY <1>5, <1>6 DEF LandedInv, PendingInv
<1>8. QED BY <1>2, <1>4, <1>7 DEF IInv

LEMMA NextKeepsInv ==
    ASSUME IInv, [Next]_vars
    PROVE  IInv'
<1>1. ASSUME NEW a \in Goroutines, NEW e \in Events, Begin(a, e) PROVE IInv'
  BY <1>1, BeginKeepsInv
<1>2. ASSUME NEW a \in Goroutines, Statement(a) PROVE IInv'
  <2>1. CASE UpsertChat(a)
    BY <2>1, UpsertChatKeepsInv
  <2>2. CASE InsertMessage(a)
    BY <2>2, InsertMessageKeepsInv
  <2>3. CASE MarkMessageEdited(a)
    BY <2>3, MarkMessageEditedKeepsInv
  <2>4. CASE MarkMessageDeleted(a)
    BY <2>4, MarkMessageDeletedKeepsInv
  <2>5. CASE UpsertReaction(a)
    BY <2>5, UpsertReactionKeepsInv
  <2>6. CASE DeleteReaction(a)
    BY <2>6, DeleteReactionKeepsInv
  <2>7. CASE UpsertPoll(a)
    BY <2>7, UpsertPollKeepsInv
  <2>8. CASE UpsertPollVote(a)
    BY <2>8, UpsertPollVoteKeepsInv
  <2>9. CASE SetChatFlag(a)
    BY <2>9, SetChatFlagKeepsInv
  <2>10. CASE StatementFails(a)
    BY <2>10, StatementFailsKeepsInv
  <2>11. QED
    BY <1>2, <2>1, <2>2, <2>3, <2>4, <2>5, <2>6, <2>7, <2>8, <2>9, <2>10 DEF Statement
<1>3. CASE Crash
  BY <1>3, CrashKeepsInv
<1>4. CASE UNCHANGED vars
  BY <1>4, StutterKeepsInv
<1>5. QED BY <1>1, <1>2, <1>3, <1>4 DEF Next

LEMMA SpecInv == Spec => []IInv
<1>1. Init => IInv
  BY InitHasInv
<1>2. IInv /\ [Next]_vars => IInv'
  BY NextKeepsInv
<1>3. QED BY <1>1, <1>2, PTL DEF Spec

-----------------------------------------------------------------------------
(* The properties.                                                         *)

(* The tables keep their primary keys, and a goroutine holds an event only *)
(* while it has statements to run.                                         *)
THEOREM SpecTypeOK == Spec => []TypeOK
<1>1. IInv => TypeOK
  BY DEF IInv, TypeOK, TablesInv, MessagesInv, ChatInv, ReactionsInv, VotesInv, ControlInv
<1>2. QED BY <1>1, SpecInv, PTL

(* An edited or deleted message shows what one of its edits said, or       *)
(* nothing.                                                                *)
THEOREM SpecOriginalStaysGone == Spec => []OriginalStaysGone
<1>1. IInv => OriginalStaysGone
  BY DEF IInv, TablesInv, MessagesInv, OriginalStaysGone
<1>2. QED BY <1>1, SpecInv, PTL

(* Every activity that was handled is covered by last_message_ts.          *)
THEOREM SpecFreshestCovered == Spec => []FreshestCovered
<1>1. IInv => FreshestCovered
  BY DEF IInv, LandedInv, Landed, Dating, Covered, FreshestCovered
<1>2. QED BY <1>1, SpecInv, PTL

(* last_message_ts is the second of some activity.                         *)
THEOREM SpecOnlyActivityReorders == Spec => []OnlyActivityReorders
<1>1. IInv => OnlyActivityReorders
  <2> SUFFICES ASSUME IInv PROVE OnlyActivityReorders
    OBVIOUS
  <2>1. PICK t \in Moments : chat.sec = Sec(t)
    BY DEF IInv, TablesInv, ChatInv
  <2>2. QED BY <2>1, SecMonotone DEF Moments, OnlyActivityReorders
<1>2. QED BY <1>1, SpecInv, PTL

(* Where nobody removes reactions, a sender's row is a reaction that was   *)
(* sent, and none that was handled is from a later second.                 *)
THEOREM SpecReactionsNeverRegress == Spec => []ReactionsNeverRegress
<1>1. IInv => ReactionsNeverRegress
  <2> SUFFICES ASSUME IInv, NEW e \in applied, e.kind = "reaction", e.emoji # "",
                      Removals(e.id, ReactionSenderKey(e)) = {}
               PROVE  \E r \in reactions :
                        /\ r.id = e.id /\ r.key = ReactionSenderKey(e) /\ r.sec >= Sec(e.at)
                        /\ \E f \in Items : /\ f.kind = "reaction" /\ f.id = r.id
                                            /\ ReactionSenderKey(f) = r.key
                                            /\ Sec(f.at) = r.sec /\ f.emoji = r.emoji
    BY DEF ReactionsNeverRegress
  <2>1. PICK r \in reactions : r.id = e.id /\ r.key = ReactionSenderKey(e) /\ r.sec >= Sec(e.at)
    BY DEF IInv, LandedInv, Landed, Reacts, ReactionStands
  <2>2. Sent(r)
    BY DEF IInv, TablesInv, ReactionsInv
  <2>3. QED BY <2>1, <2>2 DEF Sent
<1>2. QED BY <1>1, SpecInv, PTL

(* A message carries one reaction of ours at most.                         *)
THEOREM SpecOneOwnReaction == Spec => []OneOwnReaction
<1>1. IInv => OneOwnReaction
  BY DEF IInv, TablesInv, ReactionsInv, OneOwnReaction
<1>2. QED BY <1>1, SpecInv, PTL

(* A voter's row is a vote that was cast, and none that was handled is     *)
(* from a later second.                                                    *)
THEOREM SpecNewestVoteStands == Spec => []NewestVoteStands
<1>1. IInv => NewestVoteStands
  <2> SUFFICES ASSUME IInv, NEW e \in applied, e.kind = "vote"
               PROVE  \E v \in votes :
                        /\ v.id = e.id /\ v.by = e.by /\ v.sec >= Sec(e.at)
                        /\ \E f \in Events : /\ f.kind = "vote" /\ f.id = v.id /\ f.by = v.by
                                             /\ Sec(f.at) = v.sec /\ f.sel = v.sel
    BY DEF NewestVoteStands
  <2>1. PICK v \in votes : v.id = e.id /\ v.by = e.by /\ v.sec >= Sec(e.at)
    BY DEF IInv, LandedInv, Landed, VoteStands
  <2>2. Cast(v)
    BY DEF IInv, TablesInv, VotesInv
  <2>3. QED BY <2>1, <2>2 DEF Cast, Of
<1>2. QED BY <1>1, SpecInv, PTL
=============================================================================
