----------------------------- MODULE ReadsProofs -----------------------------
(***************************************************************************)
(* Proofs about Reads: for any messages, chats, contacts and aliases, any  *)
(* page size and any number of writes during a call.                       *)
(***************************************************************************)
EXTENDS Reads, Integers, DataLemmas, TLAPS

-----------------------------------------------------------------------------
(* The order of the rows.                                                  *)

(* Any two keys of a listing compare, as SQLite's ORDER BY needs.          *)
Ordered(K) ==
    /\ \A a, b \in K : Before(a, b) \/ Before(b, a) \/ a = b
    /\ \A a \in K : ~ Before(a, a)
    /\ \A a, b, c \in K : Before(a, b) /\ Before(b, c) => Before(a, c)

LEMMA Lex2 ==
    ASSUME NEW a \in Int \X Int, NEW b \in Int \X Int
    PROVE  Before(a, b) <=> \/ a[1] < b[1]
                            \/ a[1] = b[1] /\ a[2] < b[2]
<1>1. DOMAIN a = {1, 2}
  OBVIOUS
<1>2. 1..(1 - 1) = {} /\ 1..(2 - 1) = {1}
  OBVIOUS
<1>3. QED BY <1>1, <1>2 DEF Before

LEMMA Lex3 ==
    ASSUME NEW a \in Int \X Int \X Int, NEW b \in Int \X Int \X Int
    PROVE  Before(a, b) <=> \/ a[1] < b[1]
                            \/ a[1] = b[1] /\ a[2] < b[2]
                            \/ a[1] = b[1] /\ a[2] = b[2] /\ a[3] < b[3]
<1>1. DOMAIN a = {1, 2, 3}
  OBVIOUS
<1>2. 1..(1 - 1) = {} /\ 1..(2 - 1) = {1} /\ 1..(3 - 1) = {1, 2}
  OBVIOUS
<1>3. QED BY <1>1, <1>2 DEF Before

LEMMA Lex4 ==
    ASSUME NEW a \in Int \X Int \X Int \X Int, NEW b \in Int \X Int \X Int \X Int
    PROVE  Before(a, b) <=>
              \/ a[1] < b[1]
              \/ a[1] = b[1] /\ a[2] < b[2]
              \/ a[1] = b[1] /\ a[2] = b[2] /\ a[3] < b[3]
              \/ a[1] = b[1] /\ a[2] = b[2] /\ a[3] = b[3] /\ a[4] < b[4]
<1>1. DOMAIN a = {1, 2, 3, 4}
  OBVIOUS
<1>2. /\ 1..(1 - 1) = {} /\ 1..(2 - 1) = {1}
      /\ 1..(3 - 1) = {1, 2} /\ 1..(4 - 1) = {1, 2, 3}
  OBVIOUS
<1>3. QED BY <1>1, <1>2 DEF Before

LEMMA KeysOrdered ==
    /\ Ordered(Int \X Int)
    /\ Ordered(Int \X Int \X Int)
    /\ Ordered(Int \X Int \X Int \X Int)
<1>1. Ordered(Int \X Int)
  <2> DEFINE K == Int \X Int
  <2>1. \A a, b \in K : Before(a, b) \/ Before(b, a) \/ a = b
    BY Lex2
  <2>2. \A a \in K : ~ Before(a, a)
    BY Lex2
  <2>3. ASSUME NEW a \in K, NEW b \in K, NEW c \in K, Before(a, b), Before(b, c)
        PROVE  Before(a, c)
    <3>1. \A x \in K : x[1] \in Int /\ x[2] \in Int
      OBVIOUS
    <3>2. QED BY <2>3, <3>1, Lex2
  <2>4. QED BY <2>1, <2>2, <2>3 DEF Ordered
<1>2. Ordered(Int \X Int \X Int)
  <2> DEFINE K == Int \X Int \X Int
  <2>1. \A a, b \in K : Before(a, b) \/ Before(b, a) \/ a = b
    BY Lex3
  <2>2. \A a \in K : ~ Before(a, a)
    BY Lex3
  <2>3. ASSUME NEW a \in K, NEW b \in K, NEW c \in K, Before(a, b), Before(b, c)
        PROVE  Before(a, c)
    <3>1. \A x \in K : x[1] \in Int /\ x[2] \in Int /\ x[3] \in Int
      OBVIOUS
    <3>2. QED BY <2>3, <3>1, Lex3
  <2>4. QED BY <2>1, <2>2, <2>3 DEF Ordered
<1>3. Ordered(Int \X Int \X Int \X Int)
  <2> DEFINE K == Int \X Int \X Int \X Int
  <2>1. \A a, b \in K : Before(a, b) \/ Before(b, a) \/ a = b
    BY Lex4
  <2>2. \A a \in K : ~ Before(a, a)
    BY Lex4
  <2>3. ASSUME NEW a \in K, NEW b \in K, NEW c \in K, Before(a, b), Before(b, c)
        PROVE  Before(a, c)
    <3>1. \A x \in K : x[1] \in Int /\ x[2] \in Int /\ x[3] \in Int /\ x[4] \in Int
      OBVIOUS
    <3>2. QED BY <2>3, <3>1, Lex4
  <2>4. QED BY <2>1, <2>2, <2>3 DEF Ordered
<1>4. QED BY <1>1, <1>2, <1>3

(* The rows of a listing at one moment.                                    *)
Sorted(rows) ==
    /\ IsFiniteSet(rows)
    /\ \E K : Ordered(K) /\ \A r \in rows : r.key \in K

LEMMA RankFacts ==
    ASSUME NEW rows, Sorted(rows)
    PROVE  /\ \A r \in rows : Rank(rows, r) \in 0..(Cardinality(rows) - 1)
           /\ Cardinality(rows) \in Nat
           /\ \A r, s \in rows : Before(s.key, r.key) => Rank(rows, s) < Rank(rows, r)
<1> DEFINE Lower(r) == {s \in rows : Before(s.key, r.key)}
<1>1. PICK K : Ordered(K) /\ \A r \in rows : r.key \in K
  BY DEF Sorted
<1>2. IsFiniteSet(rows) /\ Cardinality(rows) \in Nat
  BY FS_CardinalityType DEF Sorted
<1>3. \A r \in rows : IsFiniteSet(Lower(r)) /\ Cardinality(Lower(r)) \in Nat
  BY <1>2, SubsetCard
<1>4. ASSUME NEW r \in rows PROVE Cardinality(Lower(r)) <= Cardinality(rows) - 1
  <2>1. Lower(r) \subseteq rows \ {r}
    BY <1>1 DEF Ordered
  <2>2. Cardinality(rows \ {r}) = Cardinality(rows) - 1 /\ IsFiniteSet(rows \ {r})
    BY <1>2, FS_RemoveElement
  <2>3. QED BY <2>1, <2>2, FS_Subset
<1>5. ASSUME NEW r \in rows, NEW s \in rows, Before(s.key, r.key)
      PROVE  Cardinality(Lower(s)) < Cardinality(Lower(r))
  <2>1. Lower(s) \subseteq Lower(r) \ {s}
    BY <1>1, <1>5 DEF Ordered
  <2>2. s \in Lower(r)
    BY <1>5
  <2>3. Cardinality(Lower(r) \ {s}) = Cardinality(Lower(r)) - 1 /\ IsFiniteSet(Lower(r) \ {s})
    BY <1>3, <2>2, FS_RemoveElement
  <2>4. Cardinality(Lower(s)) <= Cardinality(Lower(r) \ {s})
    BY <2>1, <2>3, FS_Subset
  <2>5. Cardinality(Lower(r)) \in Nat /\ Cardinality(Lower(s)) \in Nat
    BY <1>3
  <2> HIDE DEF Lower
  <2>6. QED BY <2>3, <2>4, <2>5
<1>6. \A r \in rows : Rank(rows, r) = Cardinality(Lower(r))
  BY DEF Rank
<1> HIDE DEF Lower
<1>7. QED BY <1>2, <1>3, <1>4, <1>5, <1>6

(* A row of least rank among some of the rows.                             *)
LEMMA LeastRank ==
    ASSUME NEW rows, Sorted(rows), NEW some \in SUBSET rows, some # {}
    PROVE  \E r \in some : \A s \in some : Rank(rows, r) <= Rank(rows, s)
<1> DEFINE R == {Rank(rows, s) : s \in some}
<1>1. R \in SUBSET Nat /\ R # {}
  BY RankFacts
<1>2. PICK n \in R : \A m \in R : n <= m
  BY <1>1, LeastNumber
<1>3. QED BY <1>2

(* LIMIT w: no more than w rows, and fewer only when there are no others.  *)
LEMMA TopRows ==
    ASSUME NEW rows, Sorted(rows), NEW w \in Nat,
           \A r, s \in rows : r.key = s.key => r = s,
           NEW top, top = {r \in rows : Rank(rows, r) < w}
    PROVE  /\ IsFiniteSet(top) /\ Cardinality(top) \in Nat /\ Cardinality(top) <= w
           /\ \A r \in rows \ top : Cardinality(top) >= w
<1>1. PICK K : Ordered(K) /\ \A r \in rows : r.key \in K
  BY DEF Sorted
<1>2. IsFiniteSet(rows)
  BY DEF Sorted
<1>3. IsFiniteSet(top) /\ Cardinality(top) \in Nat
  BY <1>2, SubsetCard
<1>4. \A r \in rows : Rank(rows, r) \in Nat
  BY RankFacts
<1>5. \A r, s \in rows : Before(s.key, r.key) => Rank(rows, s) < Rank(rows, r)
  BY RankFacts
<1>6. Cardinality(top) <= w
  <2> DEFINE f == [r \in top |-> Rank(rows, r)]
  <2>1. f \in [top -> 0..(w - 1)]
    BY <1>4
  <2>2. ASSUME NEW r \in top, NEW s \in top, f[r] = f[s] PROVE r = s
    <3>1. Rank(rows, r) = Rank(rows, s) /\ Rank(rows, r) \in Nat
      BY <1>4, <2>2
    <3>2. ~ Before(r.key, s.key) /\ ~ Before(s.key, r.key)
      BY <1>5, <3>1
    <3>3. r.key = s.key
      BY <1>1, <3>2 DEF Ordered
    <3>4. QED BY <3>3
  <2> HIDE DEF f
  <2>3. IsFiniteSet(0..(w - 1)) /\ Cardinality(0..(w - 1)) = w
    BY FS_Interval
  <2>4. QED BY <2>1, <2>2, <2>3, OneToOne
<1>7. ASSUME NEW r \in rows \ top PROVE Cardinality(top) >= w
  <2>1. PICK t \in rows \ top : \A s \in rows \ top : Rank(rows, t) <= Rank(rows, s)
    BY LeastRank
  <2> DEFINE lower == {s \in rows : Before(s.key, t.key)}
  <2>2. lower \subseteq top
    <3> SUFFICES ASSUME NEW s \in rows, Before(s.key, t.key), s \notin top PROVE FALSE
      OBVIOUS
    <3>1. Rank(rows, s) < Rank(rows, t) /\ Rank(rows, t) <= Rank(rows, s)
      BY <1>5, <2>1
    <3>2. QED BY <1>4, <3>1
  <2>3. Cardinality(lower) = Rank(rows, t)
    BY DEF Rank
  <2>4. Rank(rows, t) >= w /\ Rank(rows, t) \in Nat
    BY <1>4
  <2>5. Cardinality(lower) <= Cardinality(top)
    BY <1>3, <2>2, FS_Subset
  <2>6. QED BY <1>3, <2>3, <2>4, <2>5
<1>8. QED BY <1>3, <1>6, <1>7

-----------------------------------------------------------------------------
(* The tables and what the writer still owes.                              *)

(* A chat's row covers what is or will be stored in the chat.              *)
Covered(chat, ts) == chats[chat].known /\ chats[chat].ts >= ts

WriterInv ==
    \/ writer = NoWork
    \/ \E m \in Mail : /\ writer = [owes |-> "row", mail |-> m]
                       /\ Covered(m.chat, m.ts)
    \/ \E j \in Jids, ts \in 0..Horizon : writer = [owes |-> "chat", chat |-> j, ts |-> ts]

(* What a paging client holds.                                             *)
PagesShape ==
    /\ call = [op |-> "pages", list |-> call.list, offset |-> call.offset,
               done |-> call.done, start |-> call.start, seen |-> call.seen,
               moved |-> call.moved, disturbed |-> call.disturbed]
    /\ call.list \in Lists /\ call.offset \in Nat
    /\ call.done \in BOOLEAN /\ call.disturbed \in BOOLEAN

ContextShape ==
    call = [op |-> "context", step |-> call.step, start |-> call.start,
            target |-> call.target, before |-> call.before, after |-> call.after]

ThreadShape ==
    call = [op |-> "thread", step |-> call.step, pairs |-> call.pairs,
            start |-> call.start, asked |-> call.asked, seeds |-> call.seeds,
            jids |-> call.jids, answer |-> call.answer]

Base ==
    /\ TypeOK /\ WriterInv
    /\ call.op = "pages" => PagesShape
    /\ call.op = "context" => ContextShape
    /\ call.op = "thread" => ThreadShape

Written ==
    \/ \E m \in Mail : StoreChat(m) \/ HistoryRow(m) \/ Reword(m)
    \/ StoreRow
    \/ \E unread \in Unread : HistoryChat(unread)
    \/ \E j \in Groups \cap Named, name \in Titles, ts \in Stamps : Title(j, name, ts)
    \/ \E j \in Direct \cap Named : Flag(j)
    \/ \E j \in Direct \cap Named, name \in 0..Names : Contact(j, name)
    \/ \E pair \in AliasPairs : Learn(pair)

Asked ==
    \/ \E list \in Lists : OpenPages(list)
    \/ ReadPage
    \/ ReadAliases
    \/ \E include \in BOOLEAN : ReadConversations(include)
    \/ \E m \in Mail : ReadTarget(m.id)
    \/ ReadBefore
    \/ ReadAfter
    \/ ResolveSeeds(Who)
    \/ ReadLinks
    \/ ReadThread
    \/ Finish

LEMMA NextSteps == Next <=> Written \/ Asked
  BY Zenon DEF Next, Written, Asked

LEMMA MailFacts ==
    ASSUME NEW m \in Mail
    PROVE  /\ m.chat \in Jids /\ m.chat \in Nat /\ m.id \in Nat /\ m.sender \in Nat
           /\ m.ts \in 0..Horizon /\ m.ts \in Nat /\ Horizon \in Nat
<1>1. /\ m.chat \in Jids /\ Jids \subseteq Nat /\ m.id \in Nat /\ m.sender \in Nat
      /\ m.ts \in 1..Horizon /\ Horizon \in Nat
  BY ReadsAssumption DEF ReadsAssumption
<1>2. m.ts \in 0..Horizon /\ m.ts \in Nat
  BY <1>1
<1>3. QED BY <1>1, <1>2

(* UpsertChat never moves a chat's time back.                              *)
LEMMA TouchedFacts ==
    ASSUME TypeOK, NEW j \in Jids, NEW ts \in 0..Horizon, NEW unread \in {0} \cup Unread
    PROVE  /\ Touched(j, ts, unread) \in
                [Jids -> [known : BOOLEAN, title : 0..Names, ts : 0..Horizon,
                          unread : {0} \cup Unread]]
           /\ Touched(j, ts, unread)[j].known /\ Touched(j, ts, unread)[j].ts >= ts
           /\ \A i \in Jids : /\ chats[i].known => Touched(j, ts, unread)[i].known
                              /\ Touched(j, ts, unread)[i].ts >= chats[i].ts
                              /\ i # j => Touched(j, ts, unread)[i] = chats[i]
<1> DEFINE C == [known : BOOLEAN, title : 0..Names, ts : 0..Horizon, unread : {0} \cup Unread]
           row == [known |-> TRUE, title |-> chats[j].title,
                   ts |-> IF ts > chats[j].ts THEN ts ELSE chats[j].ts, unread |-> unread]
<1>1. chats \in [Jids -> C] /\ Horizon \in Nat
  BY ReadsAssumption DEF TypeOK, ReadsAssumption
<1>2. \A i \in Jids : chats[i] \in C /\ chats[i].ts \in Nat
  BY <1>1
<1>3. Touched(j, ts, unread) = [chats EXCEPT ![j] = row]
  BY <1>1 DEF Touched
<1>4. row \in C
  BY <1>1, <1>2
<1>5. row.known /\ row.ts >= ts /\ row.ts >= chats[j].ts
  BY <1>1, <1>2
<1> HIDE DEF row, C
<1>6. Touched(j, ts, unread) \in [Jids -> C]
  BY <1>1, <1>3, <1>4
<1>7. Touched(j, ts, unread)[j] = row /\ \A i \in Jids \ {j} : Touched(j, ts, unread)[i] = chats[i]
  BY <1>1, <1>3
<1>8. \A i \in Jids : chats[i].ts >= chats[i].ts
  BY <1>2
<1>9. QED BY <1>5, <1>6, <1>7, <1>8 DEF C

(* What every write does to the call.                                      *)
LEMMA WatchCall ==
    ASSUME Base, Watch
    PROVE  /\ call.op # "pages" => call' = call
           /\ call.op = "pages" => /\ PagesShape' /\ call'.op = "pages"
                                   /\ call'.list = call.list /\ call'.offset = call.offset
                                   /\ call'.done = call.done /\ call'.start = call.start
                                   /\ call'.seen = call.seen
           /\ call'.op = call.op
<1>1. CASE call' = call
  BY <1>1 DEF Base, PagesShape
<1>2. CASE Paging /\ call' # call
  <2>1. PICK ahead, back, lost :
           call' = [call EXCEPT !.moved = @ \cup Of(ahead),
                                !.disturbed = @ \/ back # {} \/ lost]
    <3>1. PICK list \in {call.list} :
            LET old == Listed(list)
                new == Listed(list)'
                ahead == {q \in old : \E r \in new \ old : r.of = q.of /\ Before(r.key, q.key)}
                back == {q \in old : \A r \in new : r.of = q.of => Before(q.key, r.key)}
            IN call' = [call EXCEPT
                           !.moved = @ \cup Of(ahead),
                           !.disturbed = @ \/ back # {} \/ Cardinality(new) < Cardinality(old)]
      BY <1>2 DEF Watch
    <3>2. QED BY <3>1
  <2>2. PagesShape /\ call.op = "pages"
    BY <1>2 DEF Base, Paging
  <2> DEFINE d == call.disturbed \/ back # {} \/ lost
             c == [op |-> "pages", list |-> call.list, offset |-> call.offset,
                   done |-> call.done, start |-> call.start, seen |-> call.seen,
                   moved |-> call.moved \cup Of(ahead), disturbed |-> d]
  <2>3. call' = c
    BY <2>1, <2>2 DEF PagesShape
  <2>4. d \in BOOLEAN
    OBVIOUS
  <2> HIDE DEF d
  <2>5. QED BY <2>2, <2>3, <2>4 DEF PagesShape
<1>3. QED BY <1>1, <1>2 DEF Watch

LEMMA InitBase ==
    ASSUME Init
    PROVE  Base
<1>1. Horizon \in Nat /\ Names \in Nat
  BY ReadsAssumption DEF ReadsAssumption
<1>2. QED BY <1>1 DEF Init, Base, TypeOK, WriterInv, NoWork, NoCall, Direct, Jids

(* TypeOK without the chats that cover the messages.                       *)
Tabled ==
    /\ messages \subseteq Mail /\ matching \subseteq messages
    /\ chats \in [Jids -> [known : BOOLEAN, title : 0..Names, ts : 0..Horizon,
                          unread : {0} \cup Unread]]
    /\ contacts \in [Direct -> [known : BOOLEAN, name : 0..Names]]
    /\ aliases \subseteq AliasPairs

MailCovered ==
    \A m \in messages :
       \/ Covered(m.chat, m.ts)
       \/ writer.owes = "chat" /\ writer.chat = m.chat /\ writer.ts >= m.ts

Growing ==
    /\ messages \subseteq messages' /\ aliases \subseteq aliases'
    /\ Watch

LEMMA WrittenTables ==
    ASSUME Base, Written
    PROVE  Tabled' /\ MailCovered' /\ WriterInv' /\ Growing
<1> DEFINE C == [known : BOOLEAN, title : 0..Names, ts : 0..Horizon, unread : {0} \cup Unread]
<1>1. /\ Tabled /\ MailCovered /\ WriterInv /\ TypeOK
      /\ chats \in [Jids -> C]
      /\ \A i \in Jids : chats[i].ts \in Nat
      /\ Horizon \in Nat /\ Names \in Nat
  BY ReadsAssumption DEF Base, TypeOK, Tabled, MailCovered, Covered, ReadsAssumption
<1>a. \A m \in messages : m.chat \in Jids /\ m.ts \in Nat /\ m.ts \in 0..Horizon
  BY <1>1, MailFacts DEF Tabled
\* what covers a message covers it still when chats only advance
<1>2. ASSUME \A i \in Jids : /\ chats[i].known => chats'[i].known
                             /\ chats'[i].ts >= chats[i].ts /\ chats'[i].ts \in Nat
      PROVE  \A i \in Jids, ts \in Nat : Covered(i, ts) => Covered(i, ts)'
  BY <1>1, <1>2 DEF Covered
<1>3. ASSUME NEW m \in Mail, StoreChat(m)
      PROVE  Tabled' /\ MailCovered' /\ WriterInv' /\ Growing
  <2>1. /\ writer = NoWork /\ chats' = Touched(m.chat, m.ts, 0)
        /\ writer' = [owes |-> "row", mail |-> m]
        /\ UNCHANGED <<messages, matching, contacts, aliases>> /\ Watch
    BY <1>3 DEF StoreChat
  <2>2. /\ chats' \in [Jids -> C] /\ chats'[m.chat].known /\ chats'[m.chat].ts >= m.ts
        /\ \A i \in Jids : /\ chats[i].known => chats'[i].known
                           /\ chats'[i].ts >= chats[i].ts
    BY <1>1, <2>1, TouchedFacts, MailFacts
  <2>3. Tabled' /\ Growing
    BY <1>1, <2>1, <2>2 DEF Tabled, Growing
  <2>4. \A i \in Jids, ts \in Nat : Covered(i, ts) => Covered(i, ts)'
    BY <1>2, <2>2
  <2>5. MailCovered'
    BY <1>1, <1>a, <2>1, <2>4 DEF MailCovered, NoWork
  <2>6. WriterInv'
    BY <2>1, <2>2 DEF WriterInv, Covered
  <2>7. QED BY <2>3, <2>5, <2>6
<1>4. CASE StoreRow
  <2>1. PICK m \in Mail : writer = [owes |-> "row", mail |-> m] /\ Covered(m.chat, m.ts)
    BY <1>1, <1>4 DEF StoreRow, WriterInv, NoWork
  <2>2. /\ messages' = messages \cup {m} /\ matching' = matching \cup ({m} \cap Hits)
        /\ writer' = NoWork /\ UNCHANGED <<chats, contacts, aliases>> /\ Watch
    BY <1>4, <2>1 DEF StoreRow
  <2>3. Tabled' /\ Growing
    BY <1>1, <2>2 DEF Tabled, Growing
  <2>4. MailCovered' /\ WriterInv'
    BY <1>1, <2>1, <2>2 DEF MailCovered, WriterInv, Covered
  <2>5. QED BY <2>3, <2>4
<1>5. ASSUME NEW m \in Mail, HistoryRow(m)
      PROVE  Tabled' /\ MailCovered' /\ WriterInv' /\ Growing
  <2> DEFINE ts == IF writer = NoWork \/ writer.ts < m.ts THEN m.ts ELSE writer.ts
  <2>1. /\ \/ writer = NoWork
           \/ writer.owes = "chat" /\ writer.chat = m.chat
        /\ messages' = messages \cup {m} /\ matching' = matching \cup ({m} \cap Hits)
        /\ writer' = [owes |-> "chat", chat |-> m.chat, ts |-> ts]
        /\ UNCHANGED <<chats, contacts, aliases>> /\ Watch
    BY <1>5 DEF HistoryRow
  <2>2. writer # NoWork => writer.ts \in 0..Horizon
    BY <1>1, <2>1 DEF WriterInv, NoWork
  <2>3. m.chat \in Jids /\ m.ts \in 0..Horizon /\ m.ts \in Nat
    BY MailFacts
  <2>4. /\ ts \in 0..Horizon /\ ts >= m.ts
        /\ writer # NoWork => ts >= writer.ts /\ writer.ts \in Nat
    BY <1>1, <2>2, <2>3
  <2> HIDE DEF ts
  <2>5. Tabled' /\ Growing
    BY <1>1, <2>1 DEF Tabled, Growing
  <2>6. WriterInv'
    BY <2>1, <2>3, <2>4 DEF WriterInv
  <2>7. MailCovered'
    <3> SUFFICES ASSUME NEW n \in messages', ~ Covered(n.chat, n.ts)'
                 PROVE  writer'.owes = "chat" /\ writer'.chat = n.chat /\ writer'.ts >= n.ts
      BY DEF MailCovered
    <3>1. CASE n = m
      BY <2>1, <2>4, <3>1
    <3>2. CASE n # m
      <4>1. n \in messages /\ ~ Covered(n.chat, n.ts)
        BY <2>1, <3>2 DEF Covered
      <4>2. writer.owes = "chat" /\ writer.chat = n.chat /\ writer.ts >= n.ts /\ writer # NoWork
        BY <1>1, <4>1 DEF MailCovered, NoWork
      <4>3. n.ts \in Nat /\ ts \in Nat
        BY <1>a, <1>1, <2>4, <4>1
      <4>4. QED BY <2>1, <2>4, <4>2, <4>3
    <3>3. QED BY <3>1, <3>2
  <2>8. QED BY <2>5, <2>6, <2>7
<1>6. ASSUME NEW unread \in Unread, HistoryChat(unread)
      PROVE  Tabled' /\ MailCovered' /\ WriterInv' /\ Growing
  <2>1. PICK j \in Jids, ts \in 0..Horizon :
           /\ writer = [owes |-> "chat", chat |-> j, ts |-> ts]
           /\ chats' = Touched(j, ts, unread)
    BY <1>1, <1>6 DEF HistoryChat, WriterInv, NoWork
  <2>2. /\ writer' = NoWork /\ UNCHANGED <<messages, matching, contacts, aliases>> /\ Watch
    BY <1>6 DEF HistoryChat
  <2>3. /\ chats' \in [Jids -> C] /\ chats'[j].known /\ chats'[j].ts >= ts
        /\ \A i \in Jids : /\ chats[i].known => chats'[i].known
                           /\ chats'[i].ts >= chats[i].ts
    BY <1>1, <2>1, TouchedFacts
  <2>4. Tabled' /\ Growing /\ WriterInv'
    BY <1>1, <2>2, <2>3 DEF Tabled, Growing, WriterInv
  <2>5. \A i \in Jids, t \in Nat : Covered(i, t) => Covered(i, t)'
    BY <1>2, <2>3
  <2>6. MailCovered'
    <3> SUFFICES ASSUME NEW n \in messages PROVE Covered(n.chat, n.ts)'
      BY <2>2 DEF MailCovered
    <3>1. CASE Covered(n.chat, n.ts)
      BY <1>a, <2>5, <3>1
    <3>2. CASE ~ Covered(n.chat, n.ts)
      <4>1. n.chat = j /\ ts >= n.ts
        BY <1>1, <2>1, <3>2 DEF MailCovered
      <4>2. n.ts \in Nat /\ ts \in Nat /\ chats'[j].ts \in Nat
        BY <1>a, <1>1, <2>3
      <4>3. QED BY <2>3, <4>1, <4>2 DEF Covered
    <3>3. QED BY <3>1, <3>2
  <2>7. QED BY <2>4, <2>6
<1>7. ASSUME NEW j \in Groups \cap Named, NEW name \in Titles, NEW ts \in Stamps,
             Title(j, name, ts)
      PROVE  Tabled' /\ MailCovered' /\ WriterInv' /\ Growing
  <2>1. /\ chats' = [Touched(j, ts, 0) EXCEPT ![j].title = IF name = 0 THEN @ ELSE name]
        /\ UNCHANGED <<messages, matching, contacts, aliases, writer>> /\ Watch
    BY <1>7 DEF Title
  <2>2. j \in Jids /\ ts \in 0..Horizon /\ name \in 0..Names
    BY ReadsAssumption DEF ReadsAssumption, Jids
  <2> DEFINE new == Touched(j, ts, 0)
  <2>3. /\ new \in [Jids -> C]
        /\ \A i \in Jids : /\ chats[i].known => new[i].known
                           /\ new[i].ts >= chats[i].ts
    BY <1>1, <2>2, TouchedFacts
  <2> HIDE DEF new
  <2>4. chats' = [new EXCEPT ![j].title = IF name = 0 THEN @ ELSE name]
    BY <2>1 DEF new
  <2>5. /\ chats' \in [Jids -> C]
        /\ \A i \in Jids : chats'[i].known = new[i].known /\ chats'[i].ts = new[i].ts
    BY <2>2, <2>3, <2>4
  <2>6. Tabled' /\ Growing
    BY <1>1, <2>1, <2>5 DEF Tabled, Growing
  <2>7. \A i \in Jids, t \in Nat : Covered(i, t) => Covered(i, t)'
    BY <1>2, <2>3, <2>5
  <2>8. MailCovered' /\ WriterInv'
    <3>1. MailCovered'
      BY <1>1, <1>a, <2>1, <2>7 DEF MailCovered
    <3>2. WriterInv'
      BY <1>1, <2>1, <2>7, MailFacts DEF WriterInv
    <3>3. QED BY <3>1, <3>2
  <2>9. QED BY <2>6, <2>8
<1>8. ASSUME NEW j \in Direct \cap Named, Flag(j)
      PROVE  Tabled' /\ MailCovered' /\ WriterInv' /\ Growing
  <2>1. /\ chats' = [chats EXCEPT ![j].known = TRUE]
        /\ UNCHANGED <<messages, matching, contacts, aliases, writer>> /\ Watch
    BY <1>8 DEF Flag
  <2>2. /\ chats' \in [Jids -> C]
        /\ \A i \in Jids : (chats[i].known => chats'[i].known) /\ chats'[i].ts = chats[i].ts
    BY <1>1, <2>1
  <2>3. Tabled' /\ Growing
    BY <1>1, <2>1, <2>2 DEF Tabled, Growing
  <2>4. \A i \in Jids, t \in Nat : Covered(i, t) => Covered(i, t)'
    BY <2>2 DEF Covered
  <2>5. MailCovered'
    BY <1>1, <1>a, <2>1, <2>4 DEF MailCovered
  <2>6. WriterInv'
    BY <1>1, <2>1, <2>4, MailFacts DEF WriterInv
  <2>7. QED BY <2>3, <2>5, <2>6
<1>9. ASSUME NEW j \in Direct \cap Named, NEW name \in 0..Names, Contact(j, name)
      PROVE  Tabled' /\ MailCovered' /\ WriterInv' /\ Growing
  <2> DEFINE row == [known |-> TRUE, name |-> IF name = 0 THEN contacts[j].name ELSE name]
  <2>1. /\ contacts' = [contacts EXCEPT ![j] = row]
        /\ UNCHANGED <<messages, matching, chats, aliases, writer>> /\ Watch
    BY <1>9 DEF Contact
  <2>2. row \in [known : BOOLEAN, name : 0..Names]
    BY <1>1 DEF Tabled
  <2> HIDE DEF row
  <2>3. Tabled' /\ Growing
    BY <1>1, <2>1, <2>2 DEF Tabled, Growing
  <2>4. MailCovered' /\ WriterInv'
    BY <1>1, <2>1 DEF MailCovered, WriterInv, Covered
  <2>5. QED BY <2>3, <2>4
<1>10. ASSUME NEW m \in Mail, Reword(m)
       PROVE  Tabled' /\ MailCovered' /\ WriterInv' /\ Growing
  <2>1. /\ m \in messages
        /\ matching' = IF m \in matching THEN matching \ {m} ELSE matching \cup {m}
        /\ UNCHANGED <<messages, chats, contacts, aliases, writer>> /\ Watch
    BY <1>10 DEF Reword
  <2>2. matching' \subseteq messages'
    BY <1>1, <2>1 DEF Tabled
  <2>3. Tabled' /\ Growing /\ MailCovered' /\ WriterInv'
    BY <1>1, <2>1, <2>2 DEF Tabled, Growing, MailCovered, WriterInv, Covered
  <2>4. QED BY <2>3
<1>11. ASSUME NEW pair \in AliasPairs, Learn(pair)
       PROVE  Tabled' /\ MailCovered' /\ WriterInv' /\ Growing
  <2>1. /\ aliases' = aliases \cup {pair}
        /\ UNCHANGED <<messages, matching, chats, contacts, writer>> /\ Watch
    BY <1>11 DEF Learn
  <2>2. QED BY <1>1, <2>1 DEF Tabled, Growing, MailCovered, WriterInv, Covered
<1>12. QED BY <1>3, <1>4, <1>5, <1>6, <1>7, <1>8, <1>9, <1>10, <1>11 DEF Written

LEMMA AskedTables ==
    ASSUME Asked \/ UNCHANGED vars
    PROVE  UNCHANGED <<messages, matching, chats, contacts, aliases, writer>>
  BY DEF Asked, vars, tables, OpenPages, ReadPage, ReadAliases, ReadConversations,
         ReadTarget, ReadBefore, ReadAfter, ResolveSeeds, ReadLinks, ReadThread, Finish

PageRecord(list, offset, done, start, seen, moved, disturbed) ==
    [op |-> "pages", list |-> list, offset |-> offset, done |-> done, start |-> start,
     seen |-> seen, moved |-> moved, disturbed |-> disturbed]

(* The steps that keep a call and change some of what it holds.            *)
LEMMA PageCall ==
    ASSUME Base, ReadPage
    PROVE  /\ PagesShape /\ ~ call.done /\ UNCHANGED <<tables, writer, during>>
           /\ call' = [op |-> "pages", list |-> call.list, offset |-> call.offset + Limit,
                       done |-> Short(Listed(call.list), call.offset, Limit),
                       start |-> call.start,
                       seen |-> call.seen \cup
                                   Of(Slice(Listed(call.list), call.offset, Limit)),
                       moved |-> call.moved, disturbed |-> call.disturbed]
<1>1. PagesShape /\ ~ call.done /\ UNCHANGED <<tables, writer, during>>
  BY DEF ReadPage, Paging, Base
<1> DEFINE rows == Listed(call.list)
           d == Short(rows, call.offset, Limit)
           more == Of(Slice(rows, call.offset, Limit))
<1>2. call' = [call EXCEPT !.seen = @ \cup more, !.offset = @ + Limit, !.done = d]
  BY DEF ReadPage
<1> HIDE DEF rows, d, more
<1>3. call' = [op |-> "pages", list |-> call.list, offset |-> call.offset + Limit,
               done |-> d, start |-> call.start, seen |-> call.seen \cup more,
               moved |-> call.moved, disturbed |-> call.disturbed]
  <2>1. call = PageRecord(call.list, call.offset, call.done, call.start, call.seen,
                          call.moved, call.disturbed)
    BY <1>1 DEF PagesShape, PageRecord
  <2> DEFINE all == call.seen \cup more
             next == call.offset + Limit
  <2>2. call' = [call EXCEPT !.seen = all, !.offset = next, !.done = d]
    BY <1>2
  <2> HIDE DEF all, next
  <2> DEFINE c1 == PageRecord(call.list, call.offset, call.done, call.start, all,
                              call.moved, call.disturbed)
             c2 == PageRecord(call.list, next, call.done, call.start, all,
                              call.moved, call.disturbed)
  <2>3. [call EXCEPT !.seen = all] = c1
    BY <2>1 DEF PageRecord
  <2>4. [c1 EXCEPT !.offset = next] = c2
    BY DEF PageRecord
  <2>5. [c2 EXCEPT !.done = d]
        = PageRecord(call.list, next, d, call.start, all, call.moved, call.disturbed)
    BY DEF PageRecord
  <2>6. [call EXCEPT !.seen = all, !.offset = next, !.done = d]
        = [[[call EXCEPT !.seen = all] EXCEPT !.offset = next] EXCEPT !.done = d]
    OBVIOUS
  <2> HIDE DEF c1, c2
  <2>7. call' = PageRecord(call.list, next, d, call.start, all, call.moved, call.disturbed)
    BY <2>2, <2>3, <2>4, <2>5, <2>6
  <2>8. QED BY <2>7 DEF PageRecord, all, next
<1>4. QED BY <1>1, <1>3 DEF rows, d, more

LEMMA BeforeCall ==
    ASSUME Base, ReadBefore
    PROVE  LET rows == {[key |-> <<Horizon - m.ts, 1000 - m.id>>, of |-> m] :
                          m \in {n \in messages : Older(n, call.target)}} IN
           /\ UNCHANGED <<tables, writer, during>>
           /\ call.op = "context" /\ call.step = "before"
           /\ call' = [op |-> "context", step |-> "after", start |-> call.start,
                       target |-> call.target, before |-> Nearest(rows),
                       after |-> call.after]
<1> DEFINE rows == {[key |-> <<Horizon - m.ts, 1000 - m.id>>, of |-> m] :
                          m \in {n \in messages : Older(n, call.target)}}
           found == Nearest(rows)
<1>1. /\ call' = [call EXCEPT !.step = "after", !.before = found]
      /\ UNCHANGED <<tables, writer, during>>
      /\ call.op = "context" /\ call.step = "before"
  BY DEF ReadBefore
<1> HIDE DEF rows, found
<1>2. call' = [op |-> "context", step |-> "after", start |-> call.start,
               target |-> call.target, before |-> found, after |-> call.after]
  BY <1>1 DEF Base, ContextShape
<1>3. QED BY <1>1, <1>2 DEF found, rows

LEMMA AfterCall ==
    ASSUME Base, ReadAfter
    PROVE  LET rows == {[key |-> <<m.ts, m.id>>, of |-> m] :
                          m \in {n \in messages : Older(call.target, n)}} IN
           /\ UNCHANGED <<tables, writer, during>>
           /\ call.op = "context" /\ call.step = "after"
           /\ call' = [op |-> "context", step |-> "done", start |-> call.start,
                       target |-> call.target, before |-> call.before,
                       after |-> Nearest(rows)]
<1> DEFINE rows == {[key |-> <<m.ts, m.id>>, of |-> m] :
                          m \in {n \in messages : Older(call.target, n)}}
           found == Nearest(rows)
<1>1. /\ call' = [call EXCEPT !.step = "done", !.after = found]
      /\ UNCHANGED <<tables, writer, during>>
      /\ call.op = "context" /\ call.step = "after"
  BY DEF ReadAfter
<1> HIDE DEF rows, found
<1>2. call' = [op |-> "context", step |-> "done", start |-> call.start,
               target |-> call.target, before |-> call.before, after |-> found]
  BY <1>1 DEF Base, ContextShape
<1>3. QED BY <1>1, <1>2 DEF found, rows

(* Which call each step of the reader leaves.                              *)
LEMMA AskedOps ==
    ASSUME Base, Asked
    PROVE  /\ call'.op = "pages" =>
                 ReadPage \/ \E list \in Lists : OpenPages(list)
           /\ call'.op = "conversations" =>
                 ReadAliases \/ \E include \in BOOLEAN : ReadConversations(include)
           /\ call'.op = "context" =>
                 ReadBefore \/ ReadAfter \/ \E m \in Mail : ReadTarget(m.id)
           /\ call'.op = "thread" => ResolveSeeds(Who) \/ ReadLinks \/ ReadThread
           /\ call'.op \in {"none", "pages", "conversations", "context", "thread"}
<1>1. ASSUME NEW list \in Lists, OpenPages(list) PROVE call'.op = "pages"
  BY <1>1 DEF OpenPages
<1>2. CASE ReadPage
  BY <1>2, PageCall
<1>3. ASSUME ReadAliases PROVE call'.op = "conversations"
  BY <1>3 DEF ReadAliases
<1>4. ASSUME NEW include \in BOOLEAN, ReadConversations(include)
      PROVE  call'.op = "conversations"
  BY <1>4 DEF ReadConversations
<1>5. ASSUME NEW m \in Mail, ReadTarget(m.id) PROVE call'.op = "context"
  BY <1>5 DEF ReadTarget
<1>6. CASE ReadBefore
  BY <1>6, BeforeCall
<1>7. CASE ReadAfter
  BY <1>7, AfterCall
<1>8. ASSUME ResolveSeeds(Who) PROVE call'.op = "thread"
  BY <1>8 DEF ResolveSeeds
<1>9. CASE Finish
  BY <1>9 DEF Finish, NoCall
<1>10. CASE ReadLinks \/ ReadThread
  <2>1. call.op = "thread"
    BY <1>10 DEF ReadLinks, ReadThread
  <2>2. ThreadShape
    BY <2>1 DEF Base
  <2>3. CASE ReadLinks
    <3>1. PICK j \in call.seeds :
            call' = [call EXCEPT !.jids = @ \cup Linked(j, aliases), !.seeds = @ \ {j},
                                 !.step = IF call.seeds = {j} THEN "rows" ELSE "links"]
      BY <2>3 DEF ReadLinks
    <3>2. call'.op = "thread"
      BY <2>1, <2>2, <3>1 DEF ThreadShape
    <3>3. QED BY <2>3, <3>2
  <2>4. CASE ReadThread
    <3>1. \E answer : call' = [call EXCEPT !.step = "done", !.answer = answer]
      BY <2>4 DEF ReadThread
    <3>2. call'.op = "thread"
      BY <2>1, <2>2, <3>1 DEF ThreadShape
    <3>3. QED BY <2>4, <3>2
  <2>5. QED BY <1>10, <2>3, <2>4
<1>11. QED
  BY <1>1, <1>2, <1>3, <1>4, <1>5, <1>6, <1>7, <1>8, <1>9, <1>10 DEF Asked

-----------------------------------------------------------------------------
(* get_conversation.                                                       *)

Concerned(m, asked, pairs) ==
    \E j \in asked, i \in {m.chat, m.sender} : SameContact(i, j, pairs)

(* The page: `Mail` for `messages`, which grow after it was read.          *)
PageOfThread(start, asked, pairs, answer) ==
    \A m \in start : Concerned(m, asked, pairs) =>
        \/ <<m.chat, m.id>> \in answer
        \/ /\ Cardinality(answer) >= Limit
           /\ \A n \in Mail : <<n.chat, n.id>> \in answer => n.ts >= m.ts

(* A seed that was taken has its identities among the JIDs.                *)
ThreadInv ==
    call.op = "thread" =>
        /\ ThreadShape
        /\ call.pairs \subseteq aliases /\ call.start \subseteq messages
        /\ \A j \in call.asked \ call.seeds : Linked(j, call.pairs) \subseteq call.jids
        /\ call.step \in {"links", "rows", "done"}
        /\ call.step = "rows" => call.seeds = {}
        /\ call.step = "done" =>
              PageOfThread(call.start, call.asked, call.pairs, call.answer)

LEMMA MailRows ==
    ASSUME NEW S \in SUBSET Mail
    PROVE  /\ Sorted({ThreadRow(m) : m \in S}) /\ Sorted({MessageRow(m) : m \in S})
           /\ \A m, n \in Mail : ThreadRow(m).key = ThreadRow(n).key => m = n
           /\ \A m, n \in Mail : <<m.chat, m.id>> = <<n.chat, n.id>> => m = n
           /\ \A m \in Mail : ThreadRow(m).of = <<m.chat, m.id>>
           /\ \A m \in Mail : MessageRow(m).of = <<m.chat, m.id>>
           /\ \A m, n \in Mail : Before(ThreadRow(m).key, ThreadRow(n).key) => m.ts >= n.ts
<1>1. \A m \in Mail : /\ m.chat \in Int /\ m.id \in Int /\ m.ts \in Int
                      /\ Horizon - m.ts \in Int /\ 1000 - m.id \in Int
  BY MailFacts
<1>2. \A m \in Mail : /\ ThreadRow(m).key \in Int \X Int \X Int
                      /\ ThreadRow(m).key[1] = Horizon - m.ts
                      /\ ThreadRow(m).key[2] = 1000 - m.id
                      /\ ThreadRow(m).key[3] = m.chat
                      /\ MessageRow(m).key \in Int \X Int \X Int
                      /\ ThreadRow(m).of = <<m.chat, m.id>>
                      /\ MessageRow(m).of = <<m.chat, m.id>>
  BY <1>1 DEF ThreadRow, MessageRow
<1>3. IsFiniteSet(S)
  BY ReadsAssumption, FS_Subset DEF ReadsAssumption
<1>4. Sorted({ThreadRow(m) : m \in S})
  <2> DEFINE T == {ThreadRow(m) : m \in S}
             f == [m \in S |-> ThreadRow(m)]
  <2>1. f \in [S -> T] /\ \A t \in T : \E m \in S : f[m] = t
    OBVIOUS
  <2>2. IsFiniteSet(T)
    BY <1>3, <2>1, ImageFinite
  <2>3. \A r \in T : r.key \in Int \X Int \X Int
    BY <1>2
  <2>4. QED BY <2>2, <2>3, KeysOrdered DEF Sorted
<1>5. Sorted({MessageRow(m) : m \in S})
  <2> DEFINE T == {MessageRow(m) : m \in S}
             f == [m \in S |-> MessageRow(m)]
  <2>1. f \in [S -> T] /\ \A t \in T : \E m \in S : f[m] = t
    OBVIOUS
  <2>2. IsFiniteSet(T)
    BY <1>3, <2>1, ImageFinite
  <2>3. \A r \in T : r.key \in Int \X Int \X Int
    BY <1>2
  <2>4. QED BY <2>2, <2>3, KeysOrdered DEF Sorted
<1>6. ASSUME NEW m \in Mail, NEW n \in Mail, m.chat = n.chat, m.id = n.id PROVE m = n
  BY <1>6, ReadsAssumption DEF ReadsAssumption
<1>7. ASSUME NEW m \in Mail, NEW n \in Mail, ThreadRow(m).key = ThreadRow(n).key
      PROVE  m = n
  <2>1. m.chat = n.chat /\ 1000 - m.id = 1000 - n.id
    BY <1>2, <1>7
  <2>2. m.id = n.id
    BY <1>1, <2>1
  <2>3. QED BY <1>6, <2>1, <2>2
<1>8. ASSUME NEW m \in Mail, NEW n \in Mail,
             Before(ThreadRow(m).key, ThreadRow(n).key)
      PROVE  m.ts >= n.ts
  <2> DEFINE a == ThreadRow(m).key
             b == ThreadRow(n).key
  <2>1. a \in Int \X Int \X Int /\ b \in Int \X Int \X Int
    BY <1>2
  <2> HIDE DEF a, b
  <2>2. a[1] < b[1] \/ a[1] = b[1]
    BY <1>8, <2>1, Lex3 DEF a, b
  <2>3. a[1] = Horizon - m.ts /\ b[1] = Horizon - n.ts
    BY <1>2 DEF a, b
  <2>4. m.ts \in Nat /\ n.ts \in Nat /\ Horizon \in Nat
    BY MailFacts
  <2>5. QED BY <2>2, <2>3, <2>4
<1>9. QED BY <1>2, <1>4, <1>5, <1>6, <1>7, <1>8

(* What one query for the newest rows returns.                             *)
LEMMA NewestPage ==
    ASSUME NEW S \in SUBSET Mail, NEW m \in S,
           NEW answer, answer = Of(Slice({ThreadRow(n) : n \in S}, 0, Limit)),
           <<m.chat, m.id>> \notin answer
    PROVE  /\ Cardinality(answer) >= Limit
           /\ \A n \in Mail : <<n.chat, n.id>> \in answer => n.ts >= m.ts
<1> DEFINE rows == {ThreadRow(n) : n \in S}
           top == {r \in rows : Rank(rows, r) < Limit}
<1>1. Limit \in Nat
  BY ReadsAssumption DEF ReadsAssumption
<1>2. Sorted(rows)
  BY MailRows
<1>a. \A n, k \in Mail : ThreadRow(n).key = ThreadRow(k).key => n = k
  BY MailRows
<1>b. \A n, k \in Mail : <<n.chat, n.id>> = <<k.chat, k.id>> => n = k
  BY MailRows
<1>3. \A r, s \in rows : r.key = s.key => r = s
  BY <1>a
<1>4. \A r \in rows : Rank(rows, r) \in Nat
  BY <1>2, RankFacts
<1>5. Slice(rows, 0, Limit) = top
  <2>1. \A k \in Nat : k \in 0..(0 + Limit - 1) <=> k < Limit
    BY <1>1
  <2>2. QED BY <1>4, <2>1 DEF Slice
<1>6. answer = Of(top)
  BY <1>5
<1>7. ThreadRow(m) \in rows \ top
  <2>1. ThreadRow(m) \in rows /\ ThreadRow(m).of = <<m.chat, m.id>>
    BY MailRows
  <2>2. ThreadRow(m) \notin top
    BY <1>6, <2>1 DEF Of
  <2>3. QED BY <2>1, <2>2
<1>8. top \subseteq rows
  OBVIOUS
<1>9. ASSUME NEW n \in Mail, <<n.chat, n.id>> \in answer PROVE n.ts >= m.ts
  <2>1. PICK r \in top : r.of = <<n.chat, n.id>>
    BY <1>6, <1>9 DEF Of
  <2>2. PICK k \in S : r = ThreadRow(k)
    BY <1>8, <2>1
  <2>3. k = n
    <3>1. ThreadRow(k).of = <<k.chat, k.id>>
      BY MailRows
    <3>2. <<k.chat, k.id>> = <<n.chat, n.id>>
      BY <2>1, <2>2, <3>1
    <3>3. QED BY <1>b, <3>2
  <2>4. Rank(rows, r) < Limit /\ ~ (Rank(rows, ThreadRow(m)) < Limit)
    BY <1>7, <2>1
  <2>5. r \in rows /\ ThreadRow(m) \in rows
    BY <1>7, <1>8, <2>1
  <2>6. ~ Before(ThreadRow(m).key, r.key)
    <3>1. SUFFICES ASSUME Before(ThreadRow(m).key, r.key) PROVE FALSE
      OBVIOUS
    <3>2. Rank(rows, ThreadRow(m)) < Rank(rows, r)
      BY <1>2, <2>5, <3>1, RankFacts
    <3>3. Rank(rows, ThreadRow(m)) \in Nat /\ Rank(rows, r) \in Nat
      BY <1>4, <2>5
    <3> HIDE DEF rows, top
    <3>4. QED BY <1>1, <2>4, <3>2, <3>3
  <2>7. Before(r.key, ThreadRow(m).key) \/ r.key = ThreadRow(m).key
    BY <1>2, <2>5, <2>6 DEF Sorted, Ordered
  <2>8. CASE r.key = ThreadRow(m).key
    <3>1. n = m
      BY <1>a, <2>2, <2>3, <2>8
    <3>2. QED BY <3>1, MailFacts
  <2>9. CASE Before(r.key, ThreadRow(m).key)
    BY <2>2, <2>3, <2>9, MailRows
  <2>10. QED BY <2>7, <2>8, <2>9
<1> HIDE DEF top
<1>10. IsFiniteSet(top) /\ Cardinality(top) >= Limit /\ Cardinality(top) \in Nat
  BY <1>1, <1>2, <1>3, <1>7, TopRows DEF top
<1>11. Cardinality(top) <= Cardinality(answer) /\ Cardinality(answer) \in Nat
  <2> DEFINE f == [r \in top |-> r.of]
  <2>1. f \in [top -> answer] /\ \A a \in answer : \E r \in top : f[r] = a
    BY <1>6 DEF Of
  <2>2. ASSUME NEW r \in top, NEW s \in top, f[r] = f[s] PROVE r = s
    <3>1. PICK k \in S, l \in S : r = ThreadRow(k) /\ s = ThreadRow(l)
      BY <1>8
    <3>2. r.of = <<k.chat, k.id>> /\ s.of = <<l.chat, l.id>>
      BY <3>1, MailRows
    <3>3. k = l
      BY <1>b, <2>2, <3>2
    <3>4. QED BY <3>1, <3>3
  <2> HIDE DEF f
  <2>3. IsFiniteSet(answer)
    BY <1>10, <2>1, ImageFinite
  <2>4. QED BY <2>1, <2>2, <2>3, OneToOne, FS_CardinalityType
<1> HIDE DEF rows
<1>12. Cardinality(answer) >= Limit
  BY <1>1, <1>10, <1>11
<1>13. QED BY <1>9, <1>12

LEMMA ThreadSteps ==
    ASSUME Base, ThreadInv, [Next]_vars
    PROVE  ThreadInv'
<1>1. CASE Written
  <2>1. messages \subseteq messages' /\ aliases \subseteq aliases' /\ Watch
    BY <1>1, WrittenTables DEF Growing
  <2>2. call'.op = "thread" => call' = call /\ call.op = "thread"
    BY <2>1, WatchCall
  <2>3. QED BY <2>1, <2>2 DEF ThreadInv, ThreadShape
<1>2. CASE UNCHANGED vars
  BY <1>2 DEF ThreadInv, ThreadShape, vars, tables
<1>3. CASE ResolveSeeds(Who)
  <2>1. PICK seeds : call' = [op |-> "thread", step |-> "links", pairs |-> aliases,
                              start |-> messages, asked |-> seeds, seeds |-> seeds,
                              jids |-> {}, answer |-> {}]
    BY <1>3 DEF ResolveSeeds
  <2>2. UNCHANGED tables
    BY <1>3 DEF ResolveSeeds
  <2>3. QED BY <2>1, <2>2 DEF ThreadInv, ThreadShape, tables
<1>4. CASE ReadLinks
  <2>1. PICK j \in call.seeds :
          call' = [call EXCEPT !.jids = @ \cup Linked(j, aliases), !.seeds = @ \ {j},
                               !.step = IF call.seeds = {j} THEN "rows" ELSE "links"]
    BY <1>4 DEF ReadLinks
  <2>2. call.op = "thread" /\ call.step = "links" /\ UNCHANGED tables
    BY <1>4 DEF ReadLinks
  <2> DEFINE step == IF call.seeds = {j} THEN "rows" ELSE "links"
  <2>3. call' = [op |-> "thread", step |-> step, pairs |-> call.pairs,
                 start |-> call.start, asked |-> call.asked, seeds |-> call.seeds \ {j},
                 jids |-> call.jids \cup Linked(j, aliases), answer |-> call.answer]
    BY <2>1, <2>2 DEF ThreadInv, ThreadShape
  <2>4. Linked(j, call.pairs) \subseteq Linked(j, aliases)
    BY <2>2 DEF Linked, ThreadInv
  <2>5. step \in {"links", "rows"} /\ (step = "rows" => call.seeds \ {j} = {})
    OBVIOUS
  <2> HIDE DEF step
  <2>6. QED BY <2>2, <2>3, <2>4, <2>5 DEF ThreadInv, ThreadShape, tables
<1>5. CASE ReadThread
  <2>1. call.op = "thread" /\ call.step = "rows" /\ UNCHANGED tables
    BY <1>5 DEF ReadThread
  <2> DEFINE S == {n \in messages : Concerns(n, call.jids)}
             answer == Of(Slice({ThreadRow(m) : m \in S}, 0, Limit))
  <2>2. call' = [call EXCEPT !.step = "done", !.answer = answer]
    BY <1>5 DEF ReadThread
  <2>3. call' = [op |-> "thread", step |-> "done", pairs |-> call.pairs,
                 start |-> call.start, asked |-> call.asked, seeds |-> call.seeds,
                 jids |-> call.jids, answer |-> answer]
    BY <2>1, <2>2 DEF ThreadInv, ThreadShape
  <2>4. PageOfThread(call.start, call.asked, call.pairs, answer)
    <3> SUFFICES ASSUME NEW m \in call.start, Concerned(m, call.asked, call.pairs),
                        <<m.chat, m.id>> \notin answer
                 PROVE  /\ Cardinality(answer) >= Limit
                        /\ \A n \in Mail : <<n.chat, n.id>> \in answer => n.ts >= m.ts
      BY DEF PageOfThread
    <3>1. PICK j \in call.asked, i \in {m.chat, m.sender} : SameContact(i, j, call.pairs)
      BY DEF Concerned
    <3>2. call.pairs \subseteq Lids \X Phones
      BY <2>1, ReadsAssumption DEF ThreadInv, Base, TypeOK, ReadsAssumption
    <3>3. i \in Linked(j, call.pairs)
      BY <3>1, <3>2 DEF SameContact, Linked
    <3>4. i \in call.jids
      BY <2>1, <3>3 DEF ThreadInv
    <3>5. m \in S
      BY <2>1, <3>4 DEF ThreadInv, Concerns
    <3>6. S \in SUBSET Mail
      BY DEF Base, TypeOK
    <3> HIDE DEF S
    <3>7. QED BY <3>5, <3>6, NewestPage
  <2> HIDE DEF answer
  <2>5. QED BY <2>1, <2>3, <2>4 DEF ThreadInv, ThreadShape, tables
<1>6. CASE Asked /\ ~ ResolveSeeds(Who) /\ ~ ReadLinks /\ ~ ReadThread
  <2>1. call'.op # "thread"
    BY <1>6, AskedOps
  <2>2. QED BY <2>1 DEF ThreadInv
<1>7. QED BY <1>1, <1>2, <1>3, <1>4, <1>5, <1>6, NextSteps DEF Asked

-----------------------------------------------------------------------------
(* get_message_context.                                                    *)

OlderSide(start, t, found) ==
    /\ Cardinality(found) <= Window
    /\ \A m \in found : Older(m, t)
    /\ \A m \in start :
          Older(m, t) /\ (Cardinality(found) < Window \/ \E n \in found : Older(n, m))
              => m \in found

NewerSide(start, t, found) ==
    /\ Cardinality(found) <= Window
    /\ \A m \in found : Older(t, m)
    /\ \A m \in start :
          Older(t, m) /\ (Cardinality(found) < Window \/ \E n \in found : Older(m, n))
              => m \in found

(* A side is right as of the query that read it, and messages only arrive. *)
ContextInv ==
    call.op = "context" =>
        /\ call.start \subseteq messages /\ call.target \in Mail
        /\ call.step \in {"before", "after", "done"}
        /\ call.step # "before" => OlderSide(call.start, call.target, call.before)
        /\ call.step = "done" => NewerSide(call.start, call.target, call.after)

(* ORDER BY distinct keys, LIMIT window.                                   *)
LEMMA NearestTop ==
    ASSUME NEW rows, Sorted(rows),
           \A r, s \in rows : r.key = s.key => r = s,
           \A r, s \in rows : r.of = s.of => r = s,
           NEW found, found = Nearest(rows)
    PROVE  /\ Cardinality(found) <= Window /\ found \subseteq Of(rows)
           /\ \A r \in rows : Cardinality(found) < Window => r.of \in found
           /\ \A r, s \in rows : s.of \in found /\ Before(r.key, s.key) => r.of \in found
<1> DEFINE top == {r \in rows : Rank(rows, r) < Window}
<1>1. Window \in Nat
  BY ReadsAssumption DEF ReadsAssumption
<1>2. IsFiniteSet(top) /\ Cardinality(top) \in Nat /\ Cardinality(top) <= Window
      /\ \A r \in rows \ top : Cardinality(top) >= Window
  BY <1>1, TopRows
<1>3. found = {r.of : r \in top}
  BY DEF Nearest
<1>4. top \subseteq rows
  OBVIOUS
<1>5. ASSUME NEW r \in rows PROVE r.of \in found <=> r \in top
  BY <1>3, <1>4
<1>6. /\ IsFiniteSet(found) /\ Cardinality(found) \in Nat
      /\ Cardinality(found) <= Cardinality(top) /\ Cardinality(top) <= Cardinality(found)
  <2> DEFINE f == [r \in top |-> r.of]
  <2>1. f \in [top -> found] /\ \A m \in found : \E r \in top : f[r] = m
    BY <1>3
  <2>2. \A r, s \in top : f[r] = f[s] => r = s
    BY <1>4
  <2> HIDE DEF f, top
  <2>3. IsFiniteSet(found) /\ Cardinality(found) <= Cardinality(top)
    BY <1>2, <2>1, ImageFinite
  <2>4. Cardinality(top) <= Cardinality(found)
    BY <2>1, <2>2, <2>3, OneToOne
  <2>5. QED BY <2>3, <2>4, FS_CardinalityType
<1>7. ASSUME NEW r \in rows, Cardinality(found) < Window PROVE r.of \in found
  <2> HIDE DEF top
  <2>1. r \in top
    BY <1>1, <1>2, <1>6, <1>7
  <2>2. QED BY <1>5, <2>1
<1>8. ASSUME NEW r \in rows, NEW s \in rows, s.of \in found, Before(r.key, s.key)
      PROVE  r.of \in found
  <2>1. Rank(rows, s) < Window
    BY <1>5, <1>8
  <2>2. Rank(rows, r) < Rank(rows, s) /\ Rank(rows, r) \in Nat /\ Rank(rows, s) \in Nat
    BY <1>8, RankFacts
  <2>3. r \in top
    BY <1>1, <2>1, <2>2
  <2>4. QED BY <1>5, <2>3
<1>9. Cardinality(found) <= Window
  <2> HIDE DEF top
  <2>1. QED BY <1>1, <1>2, <1>6
<1>10. found \subseteq Of(rows)
  BY <1>3, <1>4 DEF Of
<1>11. QED BY <1>7, <1>8, <1>9, <1>10

(* The same, by the keys of what the rows are of.                          *)
LEMMA NearestRows ==
    ASSUME NEW S, IsFiniteSet(S), NEW k \in [S -> Int \X Int],
           \A m, n \in S : k[m] = k[n] => m = n,
           NEW rows, rows = {[key |-> k[m], of |-> m] : m \in S},
           NEW found, found = Nearest(rows)
    PROVE  /\ Cardinality(found) <= Window /\ found \subseteq S
           /\ \A m \in S : (\/ Cardinality(found) < Window
                            \/ \E n \in found : Before(k[m], k[n])) => m \in found
<1> DEFINE row(m) == [key |-> k[m], of |-> m]
<1>1. \A m \in S : row(m) \in rows /\ row(m).key = k[m] /\ row(m).of = m
  OBVIOUS
<1>2. \A r \in rows : r.of \in S /\ r.key = k[r.of] /\ r = row(r.of)
  OBVIOUS
<1>3. Sorted(rows)
  <2> DEFINE f == [m \in S |-> row(m)]
  <2>1. f \in [S -> rows] /\ \A r \in rows : \E m \in S : f[m] = r
    OBVIOUS
  <2> HIDE DEF f
  <2>2. IsFiniteSet(rows)
    BY <2>1, ImageFinite
  <2>3. \A r \in rows : r.key \in Int \X Int
    BY <1>2
  <2>4. QED BY <2>2, <2>3, KeysOrdered DEF Sorted
<1>4. /\ \A r, s \in rows : r.key = s.key => r = s
      /\ \A r, s \in rows : r.of = s.of => r = s
  BY <1>2
<1>5. /\ Cardinality(found) <= Window /\ found \subseteq Of(rows)
      /\ \A r \in rows : Cardinality(found) < Window => r.of \in found
      /\ \A r, s \in rows : s.of \in found /\ Before(r.key, s.key) => r.of \in found
  BY <1>3, <1>4, NearestTop
<1>6. found \subseteq S
  BY <1>2, <1>5 DEF Of
<1> HIDE DEF row
<1>7. ASSUME NEW m \in S, Cardinality(found) < Window PROVE m \in found
  BY <1>1, <1>5, <1>7
<1>8. ASSUME NEW m \in S, NEW n \in found, Before(k[m], k[n]) PROVE m \in found
  BY <1>1, <1>5, <1>6, <1>8
<1>9. QED BY <1>5, <1>6, <1>7, <1>8

LEMMA ContextSteps ==
    ASSUME Base, ContextInv, [Next]_vars
    PROVE  ContextInv'
<1>0. /\ messages \subseteq Mail /\ IsFiniteSet(Mail)
      /\ \A m, n \in Mail : m.chat = n.chat /\ m.id = n.id => m = n
  BY ReadsAssumption DEF Base, TypeOK, ReadsAssumption
<1>a. \A m \in Mail : m.id \in Nat /\ m.ts \in Nat /\ Horizon \in Nat
  BY MailFacts
<1>1. CASE Written
  <2>1. messages \subseteq messages' /\ Watch
    BY <1>1, WrittenTables DEF Growing
  <2>2. call'.op = "context" => call' = call /\ call.op = "context"
    BY <2>1, WatchCall
  <2>3. QED BY <2>1, <2>2 DEF ContextInv
<1>2. CASE UNCHANGED vars
  BY <1>2 DEF ContextInv, vars, tables
<1>3. ASSUME NEW a \in Mail, ReadTarget(a.id)
      PROVE  ContextInv'
  <2> DEFINE found == {m \in messages : m.id = a.id}
             t == CHOOSE m \in found : \A n \in found : m.chat <= n.chat
  <2>1. /\ found # {} /\ UNCHANGED tables
        /\ call' = [op |-> "context", step |-> "before", start |-> messages,
                    target |-> t, before |-> {}, after |-> {}]
    BY <1>3 DEF ReadTarget
  <2>2. t \in found
    <3> DEFINE C == {m.chat : m \in found}
    <3>1. C \in SUBSET Nat /\ C # {}
      BY <1>0, <2>1, MailFacts
    <3>2. PICK c \in C : \A d \in C : c <= d
      BY <3>1, LeastNumber
    <3>3. PICK m \in found : m.chat = c
      OBVIOUS
    <3>4. \A n \in found : m.chat <= n.chat
      BY <3>2, <3>3
    <3> HIDE DEF found
    <3>5. QED BY <3>4
  <2>3. t \in Mail
    BY <1>0, <2>2
  <2> HIDE DEF t
  <2>4. QED BY <2>1, <2>3 DEF ContextInv, tables
<1>4. CASE ReadBefore
  <2> DEFINE S == {n \in messages : Older(n, call.target)}
             k == [m \in S |-> <<Horizon - m.ts, 1000 - m.id>>]
             rows == {[key |-> <<Horizon - m.ts, 1000 - m.id>>, of |-> m] : m \in S}
             found == Nearest(rows)
  <2>1. /\ UNCHANGED <<tables, writer, during>>
        /\ call.op = "context" /\ call.step = "before"
        /\ call' = [op |-> "context", step |-> "after", start |-> call.start,
                    target |-> call.target, before |-> found, after |-> call.after]
    BY <1>4, BeforeCall
  <2>2. IsFiniteSet(S) /\ S \subseteq Mail
    BY <1>0, FS_Subset
  <2>3. k \in [S -> Int \X Int]
    BY <1>a, <2>2
  <2>4. ASSUME NEW m \in S, NEW n \in S, k[m] = k[n] PROVE m = n
    <3>1. m.chat = n.chat
      BY DEF Older
    <3>2. 1000 - m.id = 1000 - n.id
      BY <2>4
    <3>3. m.id = n.id
      BY <1>a, <2>2, <3>2
    <3>4. QED BY <1>0, <2>2, <3>1, <3>3
  <2>5. rows = {[key |-> k[m], of |-> m] : m \in S}
    OBVIOUS
  <2>6. ASSUME NEW m \in S, NEW n \in S, Older(n, m) PROVE Before(k[m], k[n])
    <3>1. k[m] = <<Horizon - m.ts, 1000 - m.id>> /\ k[n] = <<Horizon - n.ts, 1000 - n.id>>
      OBVIOUS
    <3>2. k[m] \in Int \X Int /\ k[n] \in Int \X Int
      BY <2>3
    <3>3. \/ n.ts < m.ts
          \/ n.ts = m.ts /\ n.id < m.id
      BY <2>6 DEF Older
    <3>4. \/ Horizon - m.ts < Horizon - n.ts
          \/ Horizon - m.ts = Horizon - n.ts /\ 1000 - m.id < 1000 - n.id
      BY <1>a, <2>2, <3>3
    <3> HIDE DEF k, S
    <3>5. QED BY <3>1, <3>2, <3>4, Lex2
  <2> HIDE DEF k
  <2>7. /\ Cardinality(found) <= Window /\ found \subseteq S
        /\ \A m \in S : (\/ Cardinality(found) < Window
                         \/ \E n \in found : Before(k[m], k[n])) => m \in found
    <3> HIDE DEF S, rows, found
    <3>1. found = Nearest(rows)
      BY DEF found
    <3>2. QED BY <2>2, <2>3, <2>4, <2>5, <3>1, NearestRows
  <2> HIDE DEF rows, found
  <2>8. OlderSide(call.start, call.target, found)
    <3>1. \A m \in found : Older(m, call.target)
      BY <2>7
    <3>2. \A m \in call.start : Older(m, call.target) => m \in S
      BY <2>1 DEF ContextInv
    <3>3. QED BY <2>6, <2>7, <3>1, <3>2 DEF OlderSide
  <2>9. QED BY <2>1, <2>8 DEF ContextInv, tables
<1>5. CASE ReadAfter
  <2> DEFINE S == {n \in messages : Older(call.target, n)}
             k == [m \in S |-> <<m.ts, m.id>>]
             rows == {[key |-> <<m.ts, m.id>>, of |-> m] : m \in S}
             found == Nearest(rows)
  <2>1. /\ UNCHANGED <<tables, writer, during>>
        /\ call.op = "context" /\ call.step = "after"
        /\ call' = [op |-> "context", step |-> "done", start |-> call.start,
                    target |-> call.target, before |-> call.before, after |-> found]
    BY <1>5, AfterCall
  <2>2. IsFiniteSet(S) /\ S \subseteq Mail
    BY <1>0, FS_Subset
  <2>3. k \in [S -> Int \X Int]
    BY <1>a, <2>2
  <2>4. ASSUME NEW m \in S, NEW n \in S, k[m] = k[n] PROVE m = n
    <3>1. m.chat = n.chat
      BY DEF Older
    <3>2. m.id = n.id
      BY <2>4
    <3>3. QED BY <1>0, <2>2, <3>1, <3>2
  <2>5. rows = {[key |-> k[m], of |-> m] : m \in S}
    OBVIOUS
  <2>6. ASSUME NEW m \in S, NEW n \in S, Older(m, n) PROVE Before(k[m], k[n])
    <3>1. k[m] = <<m.ts, m.id>> /\ k[n] = <<n.ts, n.id>>
      OBVIOUS
    <3>2. k[m] \in Int \X Int /\ k[n] \in Int \X Int
      BY <2>3
    <3>3. \/ m.ts < n.ts
          \/ m.ts = n.ts /\ m.id < n.id
      BY <2>6 DEF Older
    <3> HIDE DEF k, S
    <3>4. QED BY <3>1, <3>2, <3>3, Lex2
  <2> HIDE DEF k
  <2>7. /\ Cardinality(found) <= Window /\ found \subseteq S
        /\ \A m \in S : (\/ Cardinality(found) < Window
                         \/ \E n \in found : Before(k[m], k[n])) => m \in found
    <3> HIDE DEF S, rows, found
    <3>1. found = Nearest(rows)
      BY DEF found
    <3>2. QED BY <2>2, <2>3, <2>4, <2>5, <3>1, NearestRows
  <2> HIDE DEF rows, found
  <2>8. NewerSide(call.start, call.target, found)
    <3>1. \A m \in found : Older(call.target, m)
      BY <2>7
    <3>2. \A m \in call.start : Older(call.target, m) => m \in S
      BY <2>1 DEF ContextInv
    <3>3. QED BY <2>6, <2>7, <3>1, <3>2 DEF NewerSide
  <2>9. QED BY <2>1, <2>8 DEF ContextInv, tables
<1>6. CASE Asked /\ ~ ReadBefore /\ ~ ReadAfter /\ ~ \E m \in Mail : ReadTarget(m.id)
  <2>1. call'.op # "context"
    BY <1>6, AskedOps
  <2>2. QED BY <2>1 DEF ContextInv
<1>7. QED BY <1>1, <1>2, <1>3, <1>4, <1>5, <1>6, NextSteps DEF Asked

LEMMA ContextDone ==
    ASSUME Base, ContextInv
    PROVE  ContextHasNoGap
<1> SUFFICES ASSUME call.op = "context", call.step = "done"
             PROVE  ContextHasNoGap
  BY DEF ContextHasNoGap
<1>1. /\ OlderSide(call.start, call.target, call.before)
      /\ NewerSide(call.start, call.target, call.after)
  BY DEF ContextInv
<1>2. QED BY <1>1 DEF ContextHasNoGap, OlderSide, NewerSide

LEMMA ThreadDone ==
    ASSUME Base, ThreadInv
    PROVE  ThreadIsMerged
<1>1. messages \subseteq Mail
  BY DEF Base, TypeOK
<1>2. QED BY <1>1 DEF ThreadIsMerged, ThreadInv, PageOfThread, Concerned

-----------------------------------------------------------------------------
(* list_conversations.                                                     *)

(* What list_conversations holds between its two queries.                  *)
Canonical(f, pairs) == pairs \in SUBSET (Lids \X Phones) /\ f \in CanonicalMaps(pairs)

ConversationInv ==
    /\ OneConversationPerContact
    /\ call.op = "conversations" /\ ~ call.done => Canonical(call.canon, call.pairs)

Holding(answer, j) == {c \in answer : j \in c.members}
SameAs(k, pairs) == {j \in Jids : SameContact(j, k, pairs)}

(* The JIDs of D that meet in k, and rows of every JID of D.               *)
Meet(members, f, k, D) ==
    /\ D \subseteq Jids /\ members = {j \in D : f[j] = k}
    /\ members # {}
RowsOf(rows, D) ==
    /\ D \subseteq Jids
    /\ \A r \in rows : r.jid \in D /\ r.ts \in 0..Horizon
    /\ \A j \in D : \E r \in rows : r.jid = j

(* canonicalOf: a JID stands for itself or a LID for one of its phones,    *)
(* and identitiesOf turns that around.                                     *)
LEMMA CanonicalFacts ==
    ASSUME NEW pairs, NEW f, Canonical(f, pairs), NEW D, NEW k, NEW members,
           Meet(members, f, k, D)
    PROVE  /\ members \subseteq Identities(k, members, pairs)
           /\ Identities(k, members, pairs) = SameAs(k, pairs)
<1> DEFINE phones(j) == {p \in Phones : <<j, p>> \in pairs}
           lids == {l \in Lids : <<l, k>> \in pairs}
<1>1. \A j \in Jids : IF phones(j) = {} THEN f[j] = j ELSE f[j] \in phones(j)
  BY DEF CanonicalMaps, Canonical
<1>2. Phones \cap Lids = {} /\ pairs \subseteq Lids \X Phones
  BY ReadsAssumption DEF ReadsAssumption, Canonical
<1>a. \A i, j : <<i, j>> \in pairs => i \in Lids /\ j \in Phones
  BY <1>2
<1>3. \A j \in members : j = k \/ <<j, k>> \in pairs
  BY <1>1 DEF Meet
<1>4. members # {} /\ members \subseteq Jids
  BY DEF Meet
<1>5. k \in Jids
  BY <1>a, <1>3, <1>4 DEF Jids
<1>6. CASE lids = {}
  <2>1. members = {k}
    <3>1. \A j \in members : <<j, k>> \notin pairs
      BY <1>a, <1>6
    <3>2. QED BY <1>3, <1>4, <3>1
  <2>2. f[k] = k
    BY <2>1 DEF Meet
  <2>3. phones(k) = {}
    BY <1>1, <1>2, <1>5, <2>2
  <2>4. \A j \in Jids : <<k, j>> \notin pairs /\ <<j, k>> \notin pairs
    BY <1>a, <1>6, <2>3
  <2>5. SameAs(k, pairs) = {k}
    BY <1>5, <2>4 DEF SameContact, SameAs
  <2>6. Identities(k, members, pairs) = members
    BY <1>6 DEF Identities
  <2>7. QED BY <1>3, <2>1, <2>5, <2>6
<1>7. CASE lids # {}
  <2>1. k \in Phones
    BY <1>a, <1>7
  <2>2. Identities(k, members, pairs) = {k} \cup lids
    BY <1>7 DEF Identities
  <2>3. \A j \in Jids : <<k, j>> \notin pairs
    BY <1>a, <1>2, <2>1
  <2>4. \A j \in Jids : SameContact(j, k, pairs) <=> j = k \/ j \in lids
    BY <1>a, <2>3 DEF SameContact
  <2>5. lids \subseteq Jids
    BY DEF Jids
  <2>6. \A j \in members : j = k \/ j \in lids
    BY <1>a, <1>3
  <2> HIDE DEF lids
  <2>7. QED BY <1>3, <1>5, <2>2, <2>4, <2>5, <2>6 DEF SameAs
<1>8. QED BY <1>6, <1>7

(* A LID of one phone is where that phone is.                              *)
LEMMA CanonicalPair ==
    ASSUME NEW pairs, NEW f, Canonical(f, pairs),
           NEW pair \in pairs, \A other \in pairs : other[1] = pair[1] => other = pair
    PROVE  f[pair[1]] = pair[2] /\ f[pair[2]] = pair[2]
<1> DEFINE phones(j) == {p \in Phones : <<j, p>> \in pairs}
<1>1. \A j \in Jids : IF phones(j) = {} THEN f[j] = j ELSE f[j] \in phones(j)
  BY DEF CanonicalMaps, Canonical
<1>2. Phones \cap Lids = {} /\ pairs \subseteq Lids \X Phones
  BY ReadsAssumption DEF ReadsAssumption, Canonical
<1>3. PICK l \in Lids, p \in Phones : pair = <<l, p>>
  BY <1>2
<1>4. l \in Jids /\ p \in Jids
  BY DEF Jids
<1>5. phones(l) = {p} /\ phones(p) = {}
  BY <1>2, <1>3
<1>6. f[l] = p /\ f[p] = p
  BY <1>1, <1>4, <1>5
<1>7. QED BY <1>3, <1>6

LEMMA MergedFacts ==
    ASSUME NEW pairs, NEW f, Canonical(f, pairs),
           NEW D, NEW rows, RowsOf(rows, D),
           NEW answer, answer = Merged(f, rows, pairs)
    PROVE  /\ \A j \in D : Cardinality(Holding(answer, j)) = 1
           /\ \A pair \in pairs, c \in answer :
                 /\ pair[1] \in c.members /\ pair[2] \in D
                 /\ \A other \in pairs : other[1] = pair[1] => other = pair
                 => pair[2] \in c.members
           /\ \A c \in answer :
                 /\ c.members \subseteq D
                 /\ c.members \subseteq c.jids
                 /\ c.jids = SameAs(c.of, pairs)
                 /\ \A r \in rows : r.jid \in c.members => r.ts <= c.winner
<1> DEFINE K == {f[r.jid] : r \in rows}
           group(k) == {q \in rows : f[q.jid] = k}
           conv(k) == Conversation(k, group(k), pairs)
           inside(k) == {j \in D : f[j] = k}
<1>1. answer = {conv(k) : k \in K}
  BY DEF Merged
<1>2. K = {f[j] : j \in D}
  BY DEF RowsOf
<1>3. \A k \in K : {r.jid : r \in group(k)} = inside(k)
  BY DEF RowsOf
<1>4. ASSUME NEW k \in K
      PROVE  /\ conv(k).of = k /\ conv(k).members = inside(k)
             /\ conv(k).jids = Identities(k, inside(k), pairs)
             /\ conv(k).winner = Max({r.ts : r \in group(k)})
  BY <1>3 DEF Conversation
<1> HIDE DEF conv
<1>5. ASSUME NEW j \in D PROVE Cardinality(Holding(answer, j)) = 1
  <2>1. f[j] \in K
    BY <1>2
  <2>2. \A k \in K : j \in conv(k).members <=> k = f[j]
    BY <1>4
  <2>3. Holding(answer, j) = {conv(f[j])}
    BY <1>1, <2>1, <2>2 DEF Holding
  <2>4. QED BY <2>3, FS_Singleton
<1>6. ASSUME NEW pair \in pairs, NEW c \in answer,
             pair[1] \in c.members, pair[2] \in D,
             \A other \in pairs : other[1] = pair[1] => other = pair
      PROVE  pair[2] \in c.members
  <2>1. PICK k \in K : c = conv(k)
    BY <1>1
  <2>2. f[pair[1]] = pair[2] /\ f[pair[2]] = pair[2]
    BY <1>6, CanonicalPair
  <2>3. c.members = inside(k)
    BY <1>4, <2>1
  <2>4. f[pair[1]] = k
    BY <1>6, <2>3
  <2>5. QED BY <1>6, <2>2, <2>3, <2>4
<1>7. ASSUME NEW c \in answer
      PROVE  /\ c.members \subseteq D
             /\ c.members \subseteq c.jids
             /\ c.jids = SameAs(c.of, pairs)
  <2>1. PICK k \in K : c = conv(k)
    BY <1>1
  <2> DEFINE M == inside(k)
  <2>2. Meet(M, f, k, D)
    BY <1>2 DEF Meet, RowsOf
  <2>3. M \subseteq Identities(k, M, pairs) /\ Identities(k, M, pairs) = SameAs(k, pairs)
    <3> HIDE DEF M, inside, K
    <3>1. QED BY <2>2, CanonicalFacts
  <2>4. M \subseteq D
    OBVIOUS
  <2>5. c.of = k /\ c.members = M /\ c.jids = Identities(k, M, pairs)
    BY <1>4, <2>1
  <2> HIDE DEF M, inside, K
  <2>6. QED BY <2>3, <2>4, <2>5
<1>8. ASSUME NEW c \in answer, NEW r \in rows, r.jid \in c.members
      PROVE  r.ts <= c.winner
  <2>1. PICK k \in K : c = conv(k)
    BY <1>1
  <2> DEFINE T == {q.ts : q \in group(k)}
  <2>a. c.members = inside(k)
    BY <1>4, <2>1
  <2>2. r \in group(k)
    BY <1>8, <2>a
  <2>3. T \subseteq 0..Horizon /\ r.ts \in T
    BY <2>2 DEF RowsOf
  <2>4. Horizon \in Nat
    BY ReadsAssumption DEF ReadsAssumption
  <2>5. IsFiniteSet(T)
    <3>1. 0 \in Int /\ Horizon \in Int
      BY <2>4
    <3>2. IsFiniteSet(0..Horizon)
      BY <3>1, FS_Interval
    <3> HIDE DEF T
    <3>3. QED BY <2>3, <3>2, FS_Subset
  <2>6. c.winner = Max(T)
    BY <1>4, <2>1
  <2> HIDE DEF T
  <2>7. T \in SUBSET Nat /\ T # {}
    BY <2>3
  <2>8. Max(T) \in T /\ \A n \in T : Max(T) >= n
    BY <2>5, <2>7, MaxOfFinite
  <2>9. Max(T) \in Nat /\ r.ts \in Nat /\ Max(T) >= r.ts
    BY <2>3, <2>7, <2>8
  <2>10. QED BY <2>6, <2>9
<1>9. QED BY <1>5, <1>6, <1>7, <1>8

(* A chat has a row with or without its last message.                      *)
LEMMA RowsOfChats ==
    ASSUME Base, NEW include \in BOOLEAN
    PROVE  /\ Known \subseteq Jids
           /\ \A r \in ConversationRows(include) :
                 r.jid \in Known /\ r.ts = chats[r.jid].ts /\ r.ts \in 0..Horizon
           /\ \A j \in Known : \E r \in ConversationRows(include) :
                 r.jid = j /\ r.ts = chats[j].ts
<1> DEFINE last(j) == IF include THEN Previews(j) ELSE {NoMail}
           row(j, m) == [jid |-> j, unread |-> chats[j].unread, ts |-> chats[j].ts, last |-> m]
<1>1. Known \subseteq Jids
  BY DEF Known
<1>2. \A j \in Known : last(j) # {}
  BY DEF Previews
<1>3. \A j \in Known : chats[j].ts \in 0..Horizon
  BY <1>1 DEF Base, TypeOK
<1>4. ConversationRows(include) = UNION {{row(j, m) : m \in last(j)} : j \in Known}
  BY DEF ConversationRows
<1> HIDE DEF last
<1>5. ASSUME NEW j \in Known
      PROVE  \E r \in ConversationRows(include) : r.jid = j /\ r.ts = chats[j].ts
  <2>1. PICK m \in last(j) : TRUE
    BY <1>2
  <2>2. row(j, m) \in ConversationRows(include)
    BY <1>4
  <2>3. row(j, m).jid = j /\ row(j, m).ts = chats[j].ts
    OBVIOUS
  <2> HIDE DEF row
  <2>4. QED BY <2>2, <2>3
<1>6. ASSUME NEW r \in ConversationRows(include)
      PROVE  r.jid \in Known /\ r.ts = chats[r.jid].ts /\ r.ts \in 0..Horizon
  <2>1. PICK j \in Known : \E m \in last(j) : r = row(j, m)
    BY <1>4
  <2>2. QED BY <1>3, <2>1
<1>7. QED BY <1>1, <1>5, <1>6

LEMMA ConversationSteps ==
    ASSUME Base, ConversationInv, [Next]_vars
    PROVE  ConversationInv'
<1>1. CASE Written
  <2>1. call'.op = "conversations" => call' = call /\ call.op = "conversations"
    BY <1>1, WrittenTables, WatchCall DEF Growing
  <2>2. OneConversationPerContact'
    BY <2>1 DEF ConversationInv, OneConversationPerContact
  <2>3. QED BY <2>1, <2>2 DEF ConversationInv
<1>2. CASE UNCHANGED vars
  <2>1. call' = call
    BY <1>2 DEF vars
  <2>2. OneConversationPerContact'
    BY <2>1 DEF ConversationInv, OneConversationPerContact
  <2>3. QED BY <2>1, <2>2 DEF ConversationInv
<1>3. CASE ReadAliases
  <2>1. PICK f \in CanonicalMaps(aliases) :
           call' = [op |-> "conversations", canon |-> f, pairs |-> aliases, done |-> FALSE]
    BY <1>3 DEF ReadAliases
  <2>2. Canonical(f, aliases)
    BY ReadsAssumption DEF Base, TypeOK, ReadsAssumption, Canonical
  <2>3. QED BY <2>1, <2>2 DEF ConversationInv, OneConversationPerContact
<1>4. ASSUME NEW include \in BOOLEAN, ReadConversations(include)
      PROVE  ConversationInv'
  <2> DEFINE pairs == call.pairs
             answer == Merged(call.canon, ConversationRows(include), pairs)
             was == [j \in Known |-> chats[j]]
  <2>1. call' = [op |-> "conversations", canon |-> call.canon, pairs |-> pairs,
                 done |-> TRUE, chats |-> was, answer |-> answer]
    BY <1>4 DEF ReadConversations
  <2>2. Canonical(call.canon, pairs)
    BY <1>4 DEF ReadConversations, ConversationInv
  <2>3. /\ \A j \in Known : Cardinality(Holding(answer, j)) = 1
        /\ \A pair \in pairs, c \in answer :
              /\ pair[1] \in c.members /\ pair[2] \in Known
              /\ \A other \in pairs : other[1] = pair[1] => other = pair
              => pair[2] \in c.members
        /\ \A c \in answer :
              /\ c.members \subseteq Known
              /\ c.members \subseteq c.jids
              /\ c.jids = SameAs(c.of, pairs)
              /\ \A r \in ConversationRows(include) : r.jid \in c.members => r.ts <= c.winner
    <3>1. RowsOf(ConversationRows(include), Known)
      BY RowsOfChats DEF RowsOf
    <3> HIDE DEF pairs
    <3>2. QED BY <2>2, <3>1, MergedFacts
  <2>4. DOMAIN was = Known /\ \A j \in Known : was[j].ts = chats[j].ts
    OBVIOUS
  <2>5. ASSUME NEW c \in answer, NEW j \in c.members PROVE was[j].ts <= c.winner
    <3>1. j \in Known
      BY <2>3
    <3>2. PICK r \in ConversationRows(include) : r.jid = j /\ r.ts = chats[j].ts
      BY <3>1, RowsOfChats
    <3>3. r.ts <= c.winner
      BY <2>3, <3>2
    <3>4. QED BY <2>4, <3>1, <3>2, <3>3
  <2> HIDE DEF answer, was, pairs
  <2>6. /\ call'.op = "conversations" /\ call'.done /\ call'.pairs = pairs
        /\ call'.answer = answer /\ call'.chats = was
    BY <2>1
  <2>7. OneConversationPerContact'
    BY <2>3, <2>4, <2>5, <2>6 DEF OneConversationPerContact, Holding, SameAs
  <2>8. QED BY <2>6, <2>7 DEF ConversationInv
<1>5. CASE Asked /\ ~ ReadAliases /\ ~ \E include \in BOOLEAN : ReadConversations(include)
  <2>1. call'.op # "conversations"
    BY <1>5, AskedOps
  <2>2. QED BY <2>1 DEF ConversationInv, OneConversationPerContact
<1>6. QED BY <1>1, <1>2, <1>3, <1>4, <1>5, NextSteps DEF Asked

-----------------------------------------------------------------------------
(* Together.                                                               *)

LEMMA BaseSteps ==
    ASSUME Base, ThreadInv, [Next]_vars
    PROVE  Base'
<1>1. ThreadInv'
  BY ThreadSteps
<1>2. CASE Written
  <2>1. Tabled' /\ MailCovered' /\ WriterInv' /\ Watch
    BY <1>2, WrittenTables DEF Growing
  <2>2. call'.op = call.op /\ (call.op # "pages" => call' = call)
        /\ (call.op = "pages" => PagesShape')
    BY <2>1, WatchCall
  <2>3. writer'.owes \in {"nothing", "row", "chat"}
    BY <2>1 DEF WriterInv, NoWork
  <2>4. call'.op \in {"none", "pages", "conversations", "context", "thread"}
    BY <2>2 DEF Base, TypeOK
  <2>5. TypeOK'
    BY <2>1, <2>3, <2>4 DEF TypeOK, Tabled, MailCovered, Covered
  <2>6. (call.op = "context" => ContextShape)' /\ (call.op = "thread" => ThreadShape)'
    BY <2>2 DEF Base, ContextShape, ThreadShape
  <2>7. QED BY <2>1, <2>2, <2>5, <2>6 DEF Base
<1>3. CASE UNCHANGED vars
  BY <1>3 DEF Base, TypeOK, WriterInv, Covered, PagesShape, ContextShape, ThreadShape,
              vars, tables
<1>4. CASE Asked
  <2>1. UNCHANGED <<messages, matching, chats, contacts, aliases, writer>>
    BY <1>4, AskedTables
  <2>2. call'.op \in {"none", "pages", "conversations", "context", "thread"}
    BY <1>4, AskedOps
  <2>3. TypeOK' /\ WriterInv'
    BY <2>1, <2>2 DEF Base, TypeOK, WriterInv, Covered
  <2>4. call'.op = "pages" => PagesShape'
    <3>1. ASSUME NEW list \in Lists, OpenPages(list) PROVE PagesShape'
      BY <3>1 DEF OpenPages, PagesShape
    <3>2. ASSUME ReadPage PROVE PagesShape'
      <4>1. Limit \in Nat
        BY ReadsAssumption DEF ReadsAssumption
      <4> DEFINE seen == call.seen \cup Of(Slice(Listed(call.list), call.offset, Limit))
                 short == Short(Listed(call.list), call.offset, Limit)
      <4>2. /\ PagesShape
            /\ call' = [op |-> "pages", list |-> call.list, offset |-> call.offset + Limit,
                        done |-> short, start |-> call.start, seen |-> seen,
                        moved |-> call.moved, disturbed |-> call.disturbed]
        BY <3>2, PageCall
      <4>3. short \in BOOLEAN
        BY DEF Short
      <4> HIDE DEF short, seen
      <4>4. QED BY <4>1, <4>2, <4>3 DEF PagesShape
    <3>3. QED BY <1>4, <3>1, <3>2, AskedOps
  <2>5. call'.op = "context" => ContextShape'
    <3>1. ASSUME NEW m \in Mail, ReadTarget(m.id) PROVE ContextShape'
      BY <3>1 DEF ReadTarget, ContextShape
    <3>2. ASSUME ReadBefore PROVE ContextShape'
      BY <3>2, BeforeCall DEF ContextShape
    <3>3. ASSUME ReadAfter PROVE ContextShape'
      BY <3>3, AfterCall DEF ContextShape
    <3>4. QED BY <1>4, <3>1, <3>2, <3>3, AskedOps
  <2>6. call'.op = "thread" => ThreadShape'
    BY <1>1 DEF ThreadInv
  <2>7. QED BY <2>3, <2>4, <2>5, <2>6 DEF Base
<1>5. QED BY <1>2, <1>3, <1>4, NextSteps

-----------------------------------------------------------------------------
(* Paging: what a write does to the rows and to their ranks.               *)

Others(rows, o) == {r \in rows : r.of # o}
Mine(rows, o) == {r \in rows : r.of = o}

(* A listing: its keys are distinct, and no row stands between two rows of *)
(* another object.                                                         *)
Tidy(rows, K) ==
    /\ IsFiniteSet(rows) /\ \A r \in rows : r.key \in K
    /\ \A r, s \in rows : r.key = s.key => r = s
    /\ \A r, s, q \in rows : r.of = s.of /\ q.of # r.of =>
          /\ Before(r.key, q.key) => Before(s.key, q.key)
          /\ Before(q.key, r.key) => Before(q.key, s.key)

LEMMA TidySorted ==
    ASSUME NEW rows, NEW K, Ordered(K), Tidy(rows, K), NEW some \in SUBSET rows
    PROVE  Sorted(some)
<1>1. IsFiniteSet(some)
  BY FS_Subset DEF Tidy
<1>2. QED BY <1>1 DEF Tidy, Sorted

LEMMA RankSplit ==
    ASSUME NEW rows, IsFiniteSet(rows), NEW o, NEW x
    PROVE  /\ Rank(rows, x) = Rank(Others(rows, o), x) + Rank(Mine(rows, o), x)
           /\ Rank(Others(rows, o), x) \in Nat /\ Rank(Mine(rows, o), x) \in Nat
           /\ Cardinality(rows) = Cardinality(Others(rows, o)) + Cardinality(Mine(rows, o))
           /\ Cardinality(Others(rows, o)) \in Nat /\ Cardinality(Mine(rows, o)) \in Nat
<1> DEFINE A == {s \in Others(rows, o) : Before(s.key, x.key)}
           B == {s \in Mine(rows, o) : Before(s.key, x.key)}
           C == {s \in rows : Before(s.key, x.key)}
           D == Others(rows, o)
           E == Mine(rows, o)
<1>1. Rank(rows, x) = Cardinality(C) /\ Rank(D, x) = Cardinality(A) /\ Rank(E, x) = Cardinality(B)
  BY DEF Rank
<1>2. C = A \cup B /\ A \cap B = {} /\ rows = D \cup E /\ D \cap E = {}
  BY DEF Others, Mine
<1>3. D \subseteq rows /\ E \subseteq rows /\ A \subseteq rows /\ B \subseteq rows
  BY DEF Others, Mine
<1> HIDE DEF A, B, C, D, E
<1>4. /\ IsFiniteSet(A) /\ IsFiniteSet(B) /\ IsFiniteSet(D) /\ IsFiniteSet(E)
  BY <1>3, FS_Subset
<1>5. Cardinality(C) = Cardinality(A) + Cardinality(B)
  BY <1>2, <1>4, DisjointCard
<1>6. Cardinality(rows) = Cardinality(D) + Cardinality(E)
  BY <1>2, <1>4, DisjointCard
<1>7. /\ Cardinality(A) \in Nat /\ Cardinality(B) \in Nat
      /\ Cardinality(D) \in Nat /\ Cardinality(E) \in Nat
  BY <1>4, FS_CardinalityType
<1>8. QED BY <1>1, <1>5, <1>6, <1>7 DEF D, E

(* More of the rows, more of them ahead.                                   *)
LEMMA RankMore ==
    ASSUME NEW rows, IsFiniteSet(rows), NEW x, NEW y,
           \A s \in rows : Before(s.key, x.key) => Before(s.key, y.key)
    PROVE  Rank(rows, x) <= Rank(rows, y)
<1> DEFINE A == {s \in rows : Before(s.key, x.key)}
           B == {s \in rows : Before(s.key, y.key)}
<1>1. A \subseteq B /\ B \subseteq rows
  OBVIOUS
<1> HIDE DEF A, B
<1>2. Cardinality(A) <= Cardinality(B)
  BY <1>1, FS_Subset
<1>3. QED BY <1>2 DEF Rank, A, B

(* The last of some of the rows.                                           *)
LEMMA LastRow ==
    ASSUME NEW rows, NEW K, Ordered(K), Tidy(rows, K),
           NEW some \in SUBSET rows, some # {}
    PROVE  \E l \in some : \A t \in some \ {l} : Before(t.key, l.key)
<1> DEFINE R == {Rank(rows, t) : t \in some}
<1>1. Sorted(rows) /\ IsFiniteSet(some)
  BY TidySorted, FS_Subset DEF Tidy
<1>2. \A t \in rows : Rank(rows, t) \in Nat
  BY <1>1, RankFacts
<1>3. IsFiniteSet(R)
  <2> DEFINE f == [t \in some |-> Rank(rows, t)]
  <2>1. f \in [some -> R] /\ \A n \in R : \E t \in some : f[t] = n
    OBVIOUS
  <2> HIDE DEF f, R
  <2>2. QED BY <1>1, <2>1, ImageFinite
<1>4. R \in SUBSET Nat /\ R # {}
  BY <1>2
<1>5. PICK l \in some : Rank(rows, l) = Max(R) /\ \A n \in R : Max(R) >= n
  <2>1. Max(R) \in R /\ \A n \in R : Max(R) >= n
    <3> HIDE DEF R
    <3>1. QED BY <1>3, <1>4, MaxOfFinite
  <2>2. QED BY <2>1
<1>6. ASSUME NEW t \in some \ {l} PROVE Before(t.key, l.key)
  <2>1. t.key # l.key /\ t.key \in K /\ l.key \in K
    BY DEF Tidy
  <2>2. Before(t.key, l.key) \/ Before(l.key, t.key)
    BY <2>1 DEF Ordered
  <2>3. ASSUME Before(l.key, t.key) PROVE FALSE
    <3>1. Rank(rows, l) < Rank(rows, t)
      BY <1>1, <2>3, RankFacts
    <3>2. Rank(rows, l) >= Rank(rows, t)
      BY <1>5
    <3>3. QED BY <1>2, <3>1, <3>2
  <2>4. QED BY <2>2, <2>3
<1>7. QED BY <1>6

(* One write changed the rows of one object, no row was lost and none of   *)
(* the old rows moved back.                                                *)
Moved(old, new, K, o) ==
    /\ Tidy(old, K) /\ Tidy(new, K)
    /\ Others(old, o) = Others(new, o)
    /\ \A q \in old : \E r \in new : r.of = q.of /\ ~ Before(q.key, r.key)
    /\ Cardinality(old) <= Cardinality(new)

(* Then an object that did not move ahead has a row no nearer to the start. *)
LEMMA RanksKept ==
    ASSUME NEW K, Ordered(K), NEW old, NEW new, NEW one, Moved(old, new, K, one),
           NEW q \in old,
           \A r \in new \ old : r.of = q.of => ~ Before(r.key, q.key)
    PROVE  \E r \in new : r.of = q.of /\ Rank(old, q) <= Rank(new, r)
<1> DEFINE O == Others(old, one)
           M == Mine(old, one)
           N == Mine(new, one)
<1>1. /\ Tidy(old, K) /\ Tidy(new, K) /\ O = Others(new, one)
      /\ \A p \in old : \E r \in new : r.of = p.of /\ ~ Before(p.key, r.key)
      /\ Cardinality(old) <= Cardinality(new)
  BY DEF Moved
<1>2. /\ O \subseteq old /\ O \subseteq new /\ M \subseteq old /\ N \subseteq new
      /\ \A r \in O : r.of # one
      /\ \A r \in M : r.of = one
      /\ \A r \in N : r.of = one
  BY <1>1 DEF Others, Mine
<1>3. IsFiniteSet(old) /\ IsFiniteSet(new) /\ IsFiniteSet(O) /\ IsFiniteSet(M) /\ IsFiniteSet(N)
  <2>1. IsFiniteSet(old) /\ IsFiniteSet(new)
    BY <1>1 DEF Tidy
  <2> HIDE DEF O, M, N
  <2>2. QED BY <1>2, <2>1, FS_Subset
<1>4. /\ Rank(old, q) = Rank(O, q) + Rank(M, q)
      /\ Rank(O, q) \in Nat /\ Rank(M, q) \in Nat
      /\ Cardinality(old) = Cardinality(O) + Cardinality(M)
      /\ Cardinality(O) \in Nat /\ Cardinality(M) \in Nat
  BY <1>3, RankSplit
<1>5. /\ \A x : /\ Rank(new, x) = Rank(O, x) + Rank(N, x)
                /\ Rank(O, x) \in Nat /\ Rank(N, x) \in Nat
      /\ Cardinality(new) = Cardinality(O) + Cardinality(N)
      /\ Cardinality(N) \in Nat
  BY <1>1, <1>3, RankSplit
<1>6. Cardinality(M) <= Cardinality(N)
  BY <1>1, <1>4, <1>5
<1>7. \A r \in old \cup new : r.key \in K
  BY <1>1 DEF Tidy
<1>a. q \in O \/ q \in M
  BY DEF Others, Mine
<1> HIDE DEF O, M, N
<1>8. CASE q \in O
  <2>1. q \in new
    BY <1>2, <1>8
  <2>2. Rank(M, q) <= Rank(N, q)
    <3>1. CASE \E s \in M : Before(s.key, q.key)
      <4>1. PICK s \in M : Before(s.key, q.key)
        BY <3>1
      <4>2. PICK r \in new : r.of = one /\ ~ Before(s.key, r.key)
        BY <1>1, <1>2
      <4>3. Before(r.key, q.key)
        <5>1. r.key \in K /\ s.key \in K /\ q.key \in K
          BY <1>2, <1>7
        <5>2. Before(r.key, s.key) \/ r.key = s.key
          BY <4>2, <5>1 DEF Ordered
        <5>3. QED BY <4>1, <5>1, <5>2 DEF Ordered
      <4>4. \A t \in N : Before(t.key, q.key)
        BY <1>1, <1>2, <1>8, <2>1, <4>2, <4>3 DEF Tidy
      <4>5. {t \in N : Before(t.key, q.key)} = N
        BY <4>4
      <4>6. Rank(N, q) = Cardinality(N)
        BY <4>5 DEF Rank
      <4>7. Rank(M, q) <= Cardinality(M)
        <5> DEFINE A == {t \in M : Before(t.key, q.key)}
        <5>1. A \subseteq M
          OBVIOUS
        <5> HIDE DEF A
        <5>2. Cardinality(A) <= Cardinality(M)
          BY <1>3, <5>1, FS_Subset
        <5>3. QED BY <5>2 DEF A, Rank
      <4>8. QED BY <1>4, <1>5, <1>6, <4>6, <4>7
    <3>2. CASE ~ \E s \in M : Before(s.key, q.key)
      <4>1. {t \in M : Before(t.key, q.key)} = {}
        BY <3>2
      <4>2. Rank(M, q) = 0
        BY <4>1, FS_EmptySet DEF Rank
      <4>3. QED BY <1>5, <4>2
    <3>3. QED BY <3>1, <3>2
  <2>3. Rank(old, q) <= Rank(new, q)
    BY <1>4, <1>5, <2>2
  <2>4. QED BY <2>1, <2>3
<1>9. CASE q \in M
  <2>1. PICK r \in new : r.of = one /\ ~ Before(q.key, r.key)
    BY <1>1, <1>2, <1>9
  <2>2. r \in N
    BY <2>1 DEF N, Mine
  <2>3. \A s \in O : Before(s.key, q.key) => Before(s.key, r.key)
    <3>1. CASE r \in old
      BY <1>1, <1>2, <1>9, <2>1, <3>1 DEF Tidy
    <3>2. CASE r \notin old
      <4>1. ~ Before(r.key, q.key)
        BY <1>2, <1>9, <2>1, <3>2
      <4>2. r.key = q.key
        BY <1>7, <2>1, <4>1 DEF Ordered
      <4>3. QED BY <4>2
    <3>3. QED BY <3>1, <3>2
  <2>4. PICK l \in N : \A t \in N \ {l} : Before(t.key, l.key)
    BY <1>1, <1>2, <2>2, LastRow
  <2>5. \A s \in O : Before(s.key, r.key) => Before(s.key, l.key)
    BY <1>1, <1>2, <2>2 DEF Tidy
  <2>6. Rank(O, q) <= Rank(O, r)
    BY <1>3, <2>3, RankMore
  <2>7. Rank(O, r) <= Rank(O, l)
    BY <1>3, <2>5, RankMore
  <2>8. Rank(N, l) = Cardinality(N) - 1
    <3>1. l.key \in K /\ ~ Before(l.key, l.key)
      BY <1>2, <1>7 DEF Ordered
    <3>2. {t \in N : Before(t.key, l.key)} = N \ {l}
      BY <2>4, <3>1
    <3>3. QED BY <1>3, <3>2, FS_RemoveElement DEF Rank
  <2>9. Rank(M, q) <= Cardinality(M) - 1
    <3>1. Sorted(M)
      BY <1>1, <1>2, TidySorted
    <3>2. Rank(M, q) \in 0..(Cardinality(M) - 1)
      BY <1>9, <3>1, RankFacts
    <3>3. QED BY <1>4, <3>2
  <2>10. Rank(old, q) <= Rank(new, l)
    BY <1>4, <1>5, <1>6, <2>6, <2>7, <2>8, <2>9
  <2>11. l \in new /\ l.of = q.of
    BY <1>2, <1>9
  <2>12. QED BY <2>10, <2>11
<1>10. QED BY <1>a, <1>8, <1>9

-----------------------------------------------------------------------------
(* The listings, as functions of the tables they are read from.            *)

ChatTables == [Jids -> [known : BOOLEAN, title : 0..Names, ts : 0..Horizon,
                        unread : {0} \cup Unread]]
ContactTables == [Direct -> [known : BOOLEAN, name : 0..Names]]

PreviewsAt(M, C, j) ==
    LET last == {m \in M : m.chat = j /\ m.ts = C[j].ts}
    IN IF last = {} THEN {NoMail} ELSE last

JoinRow(C, sort_by, j, m) ==
    [key |-> IF sort_by = "name" THEN <<IF C[j].title = 0 THEN 1 ELSE 0, C[j].title, j, m.id>>
             ELSE <<Horizon - C[j].ts, j, m.id>>,
     of |-> <<j>>]

JoinAt(M, C, J, sort_by) ==
    UNION {{JoinRow(C, sort_by, j, m) : m \in PreviewsAt(M, C, j)} : j \in J}

KnownAt(C) == {j \in Jids : C[j].known}
ChatsAt(M, C) == {j \in KnownAt(C) : j = Who \/ \E m \in M : m.chat = j /\ m.sender = Who}
ContactsAt(T) == {[key |-> <<T[j].name, j>>, of |-> <<j>>] : j \in {i \in Direct : T[i].known}}

RowsAt(list, M, X, C, T) ==
    CASE list = "messages" -> {MessageRow(m) : m \in M}
      [] list = "search" -> {MessageRow(m) : m \in X}
      [] list = "chats" -> JoinAt(M, C, KnownAt(C), "last_active")
      [] list = "names" -> JoinAt(M, C, KnownAt(C), "name")
      [] list = "contactchats" -> JoinAt(M, C, ChatsAt(M, C), "last_active")
      [] list = "contacts" -> ContactsAt(T)

KeysOf(list) ==
    IF list = "names" THEN Int \X Int \X Int \X Int
    ELSE IF list = "contacts" THEN Int \X Int
    ELSE Int \X Int \X Int

LEMMA ListedRows ==
    \A list : /\ Listed(list) = RowsAt(list, messages, matching, chats, contacts)
              /\ Listed(list)' = RowsAt(list, messages', matching', chats', contacts')
  BY DEF Listed, RowsAt, JoinRows, JoinAt, JoinRow, Known, KnownAt, ChatsOf, ChatsAt,
         Previews, PreviewsAt, ByName, ByActivity, ContactRow, ContactsAt

LEMMA MessagesTidy ==
    ASSUME NEW M \in SUBSET Mail
    PROVE  Tidy({MessageRow(m) : m \in M}, Int \X Int \X Int)
<1> DEFINE rows == {MessageRow(m) : m \in M}
<1>1. \A m \in Mail : /\ m.chat \in Int /\ m.id \in Int /\ m.ts \in Int
                      /\ Horizon - m.ts \in Int
  BY MailFacts
<1>2. \A m \in Mail : /\ MessageRow(m).key \in Int \X Int \X Int
                      /\ MessageRow(m).key = <<Horizon - m.ts, m.id, m.chat>>
                      /\ MessageRow(m).of = <<m.chat, m.id>>
  BY <1>1 DEF MessageRow
<1>3. IsFiniteSet(rows)
  BY MailRows DEF Sorted
<1>4. \A m, n \in Mail : m.chat = n.chat /\ m.id = n.id => m = n
  BY ReadsAssumption DEF ReadsAssumption
<1>5. \A m, n \in Mail : MessageRow(m).key = MessageRow(n).key => m = n
  BY <1>2, <1>4
<1>6. \A m, n \in Mail : MessageRow(m).of = MessageRow(n).of => m = n
  BY <1>2, <1>4
<1>7. \A r \in rows : \E m \in Mail : r = MessageRow(m)
  OBVIOUS
<1> HIDE DEF rows
<1>8. \A r, s \in rows : (r.key = s.key => r = s) /\ (r.of = s.of => r = s)
  BY <1>5, <1>6, <1>7
<1>9. \A r \in rows : r.key \in Int \X Int \X Int
  BY <1>2, <1>7
<1>10. Tidy(rows, Int \X Int \X Int)
  BY <1>3, <1>8, <1>9 DEF Tidy
<1>11. QED BY <1>10 DEF rows

LEMMA ContactsTidy ==
    ASSUME NEW T \in ContactTables
    PROVE  Tidy(ContactsAt(T), Int \X Int)
<1> DEFINE J == {i \in Direct : T[i].known}
           row(j) == [key |-> <<T[j].name, j>>, of |-> <<j>>]
           rows == {row(j) : j \in J}
<1>1. ContactsAt(T) = rows
  BY DEF ContactsAt
<1>2. IsFiniteSet(J) /\ J \subseteq Nat
  <2>1. J \subseteq Jids /\ Jids \subseteq Nat /\ IsFiniteSet(Jids)
    BY ReadsAssumption DEF ReadsAssumption, Direct, Jids
  <2> HIDE DEF J
  <2>2. QED BY <2>1, FS_Subset
<1>3. \A j \in J : T[j].name \in Nat
  <2>1. Names \in Nat
    BY ReadsAssumption DEF ReadsAssumption
  <2>2. \A j \in J : T[j].name \in 0..Names
    BY DEF ContactTables
  <2>3. QED BY <2>1, <2>2
<1>4. IsFiniteSet(rows)
  <2> DEFINE f == [j \in J |-> row(j)]
  <2>1. f \in [J -> rows] /\ \A r \in rows : \E j \in J : f[j] = r
    OBVIOUS
  <2> HIDE DEF f, J, rows
  <2>2. QED BY <1>2, <2>1, ImageFinite
<1>5. \A j \in J : row(j).key \in Int \X Int /\ row(j).key[2] = j /\ row(j).of = <<j>>
  BY <1>2, <1>3
<1>6. \A r \in rows : \E j \in J : r = row(j)
  OBVIOUS
<1> HIDE DEF row, rows, J
<1>7. \A r, s \in rows : (r.key = s.key => r = s) /\ (r.of = s.of => r = s)
  BY <1>5, <1>6
<1>8. \A r \in rows : r.key \in Int \X Int
  BY <1>5, <1>6
<1>9. Tidy(rows, Int \X Int)
  BY <1>4, <1>7, <1>8 DEF Tidy
<1>10. QED BY <1>1, <1>9

(* The rows of one chat stand together, whatever their messages are.       *)
JoinKeySet(sort_by) ==
    IF sort_by = "name" THEN Int \X Int \X Int \X Int ELSE Int \X Int \X Int

ChatBefore(C, sort_by, i, j) ==
    IF sort_by = "name"
    THEN Before(<<IF C[i].title = 0 THEN 1 ELSE 0, C[i].title, i>>,
                <<IF C[j].title = 0 THEN 1 ELSE 0, C[j].title, j>>)
    ELSE Before(<<Horizon - C[i].ts, i>>, <<Horizon - C[j].ts, j>>)

LEMMA JoinKeyOnce ==
    ASSUME NEW C, NEW sort_by, NEW i, NEW j, NEW m, NEW n,
           JoinRow(C, sort_by, i, m).key = JoinRow(C, sort_by, j, n).key
    PROVE  i = j /\ m.id = n.id
<1>1. CASE sort_by = "name"
  <2>1. <<IF C[i].title = 0 THEN 1 ELSE 0, C[i].title, i, m.id>>
        = <<IF C[j].title = 0 THEN 1 ELSE 0, C[j].title, j, n.id>>
    BY <1>1 DEF JoinRow
  <2>2. QED BY <2>1
<1>2. CASE sort_by # "name"
  <2>1. <<Horizon - C[i].ts, i, m.id>> = <<Horizon - C[j].ts, j, n.id>>
    BY <1>2 DEF JoinRow
  <2>2. QED BY <2>1
<1>3. QED BY <1>1, <1>2

LEMMA JoinKeys ==
    ASSUME NEW C \in ChatTables, NEW i \in Jids, NEW j \in Jids,
           NEW sort_by \in {"name", "last_active"},
           NEW m, NEW n, m.id \in Nat, n.id \in Nat
    PROVE  /\ JoinRow(C, sort_by, i, m).key \in JoinKeySet(sort_by)
           /\ JoinRow(C, sort_by, i, m).of = <<i>>
           /\ i # j => (Before(JoinRow(C, sort_by, i, m).key, JoinRow(C, sort_by, j, n).key)
                        <=> ChatBefore(C, sort_by, i, j))
<1> DEFINE a == JoinRow(C, sort_by, i, m).key
           b == JoinRow(C, sort_by, j, n).key
           t == IF C[i].title = 0 THEN 1 ELSE 0
           u == IF C[j].title = 0 THEN 1 ELSE 0
<1>1. i \in Int /\ j \in Int /\ m.id \in Int /\ n.id \in Int /\ Horizon \in Int
  BY ReadsAssumption DEF ReadsAssumption
<1>2. /\ C[i].title \in 0..Names /\ C[j].title \in 0..Names
      /\ C[i].ts \in 0..Horizon /\ C[j].ts \in 0..Horizon
  BY DEF ChatTables
<1>3. /\ C[i].title \in Int /\ C[j].title \in Int
      /\ Horizon - C[i].ts \in Int /\ Horizon - C[j].ts \in Int
      /\ t \in Int /\ u \in Int
  BY <1>1, <1>2, ReadsAssumption DEF ReadsAssumption
<1>4. JoinRow(C, sort_by, i, m).of = <<i>>
  BY DEF JoinRow
<1> HIDE DEF t, u
<1>5. CASE sort_by = "name"
  <2>1. a = <<t, C[i].title, i, m.id>> /\ b = <<u, C[j].title, j, n.id>>
    BY <1>5 DEF JoinRow, t, u
  <2> HIDE DEF a, b
  <2>2. a \in Int \X Int \X Int \X Int /\ b \in Int \X Int \X Int \X Int
    BY <1>1, <1>3, <2>1
  <2>4. ASSUME i # j
        PROVE  Before(a, b) <=> Before(<<t, C[i].title, i>>, <<u, C[j].title, j>>)
    <3> DEFINE c == <<t, C[i].title, i>>
               d == <<u, C[j].title, j>>
    <3>1. c \in Int \X Int \X Int /\ d \in Int \X Int \X Int
      BY <1>1, <1>3
    <3>2. /\ a[1] = t /\ a[2] = C[i].title /\ a[3] = i
          /\ b[1] = u /\ b[2] = C[j].title /\ b[3] = j
          /\ c[1] = t /\ c[2] = C[i].title /\ c[3] = i
          /\ d[1] = u /\ d[2] = C[j].title /\ d[3] = j
      BY <2>1
    <3> HIDE DEF c, d
    <3>3. Before(a, b) <=> \/ a[1] < b[1]
                           \/ a[1] = b[1] /\ a[2] < b[2]
                           \/ a[1] = b[1] /\ a[2] = b[2] /\ a[3] < b[3]
                           \/ a[1] = b[1] /\ a[2] = b[2] /\ a[3] = b[3] /\ a[4] < b[4]
      BY <2>2, Lex4
    <3>4. Before(c, d) <=> \/ c[1] < d[1]
                           \/ c[1] = d[1] /\ c[2] < d[2]
                           \/ c[1] = d[1] /\ c[2] = d[2] /\ c[3] < d[3]
      BY <3>1, Lex3
    <3>5. Before(a, b) <=> Before(c, d)
      BY <2>4, <3>2, <3>3, <3>4
    <3>6. QED BY <3>5 DEF c, d
  <2>5. QED BY <1>4, <1>5, <2>2, <2>4 DEF a, b, t, u, JoinKeySet, ChatBefore
<1>6. CASE sort_by = "last_active"
  <2>1. a = <<Horizon - C[i].ts, i, m.id>> /\ b = <<Horizon - C[j].ts, j, n.id>>
    BY <1>6 DEF JoinRow
  <2> HIDE DEF a, b
  <2>2. a \in Int \X Int \X Int /\ b \in Int \X Int \X Int
    BY <1>1, <1>3, <2>1
  <2>4. ASSUME i # j
        PROVE  Before(a, b) <=> Before(<<Horizon - C[i].ts, i>>, <<Horizon - C[j].ts, j>>)
    <3> DEFINE c == <<Horizon - C[i].ts, i>>
               d == <<Horizon - C[j].ts, j>>
    <3>1. c \in Int \X Int /\ d \in Int \X Int
      BY <1>1, <1>3
    <3>2. /\ a[1] = c[1] /\ a[2] = i /\ b[1] = d[1] /\ b[2] = j /\ c[2] = i /\ d[2] = j
      BY <2>1
    <3> HIDE DEF c, d
    <3>3. Before(a, b) <=> \/ a[1] < b[1]
                           \/ a[1] = b[1] /\ a[2] < b[2]
                           \/ a[1] = b[1] /\ a[2] = b[2] /\ a[3] < b[3]
      BY <2>2, Lex3
    <3>4. Before(c, d) <=> \/ c[1] < d[1]
                           \/ c[1] = d[1] /\ c[2] < d[2]
      BY <3>1, Lex2
    <3>5. Before(a, b) <=> Before(c, d)
      BY <2>4, <3>2, <3>3, <3>4
    <3>6. QED BY <3>5 DEF c, d
  <2>5. QED BY <1>4, <1>6, <2>2, <2>4 DEF a, b, JoinKeySet, ChatBefore
<1>7. QED BY <1>5, <1>6

LEMMA PreviewFacts ==
    ASSUME NEW M \in SUBSET Mail, NEW C, NEW j
    PROVE  /\ PreviewsAt(M, C, j) \subseteq Mail \cup {NoMail}
           /\ \A m \in PreviewsAt(M, C, j) : m.id \in Nat
           /\ \A m, n \in PreviewsAt(M, C, j) : m.id = n.id => m = n
<1> DEFINE last == {m \in M : m.chat = j /\ m.ts = C[j].ts}
<1>1. PreviewsAt(M, C, j) = IF last = {} THEN {NoMail} ELSE last
  BY DEF PreviewsAt
<1>2. NoMail.id \in Nat /\ \A m \in Mail : m.id \in Nat
  BY MailFacts DEF NoMail
<1>3. \A m, n \in Mail : m.chat = n.chat /\ m.id = n.id => m = n
  BY ReadsAssumption DEF ReadsAssumption
<1>4. CASE last = {}
  <2>1. PreviewsAt(M, C, j) = {NoMail}
    BY <1>1, <1>4
  <2>2. QED BY <1>2, <2>1
<1>5. CASE last # {}
  <2>1. PreviewsAt(M, C, j) = last
    BY <1>1, <1>5
  <2>2. last \subseteq Mail /\ \A m \in last : m.chat = j
    OBVIOUS
  <2> HIDE DEF last
  <2>3. QED BY <1>2, <1>3, <2>1, <2>2
<1>6. QED BY <1>4, <1>5

LEMMA JoinTidy ==
    ASSUME NEW M \in SUBSET Mail, NEW C \in ChatTables, NEW J \in SUBSET Jids,
           NEW sort_by \in {"name", "last_active"}
    PROVE  Tidy(JoinAt(M, C, J, sort_by), JoinKeySet(sort_by))
<1> DEFINE K == JoinKeySet(sort_by)
           row(j, m) == JoinRow(C, sort_by, j, m)
           P(j) == PreviewsAt(M, C, j)
           rows == JoinAt(M, C, J, sort_by)
           all == Jids \X (Mail \cup {NoMail})
           used == {p \in all : p[1] \in J /\ p[2] \in P(p[1])}
<1>1. \A j : /\ P(j) \subseteq Mail \cup {NoMail}
             /\ \A m \in P(j) : m.id \in Nat
             /\ \A m, n \in P(j) : m.id = n.id => m = n
  BY PreviewFacts
<1>2. rows = UNION {{row(j, m) : m \in P(j)} : j \in J}
  BY DEF JoinAt
<1>3. /\ \A j \in J : \A m \in P(j) : row(j, m) \in rows
      /\ \A r \in rows : \E j \in J : \E m \in P(j) : r = row(j, m)
  BY <1>2
<1>4. \A i, j \in J : \A m \in P(i), n \in P(j) :
         /\ row(i, m).key \in K
         /\ row(i, m).of = <<i>>
         /\ row(i, m).key = row(j, n).key => i = j /\ m.id = n.id
         /\ i # j => (Before(row(i, m).key, row(j, n).key) <=> ChatBefore(C, sort_by, i, j))
  <2> SUFFICES ASSUME NEW i \in J, NEW j \in J, NEW m \in P(i), NEW n \in P(j)
               PROVE  /\ row(i, m).key \in K
                      /\ row(i, m).of = <<i>>
                      /\ row(i, m).key = row(j, n).key => i = j /\ m.id = n.id
                      /\ i # j => (Before(row(i, m).key, row(j, n).key) <=> ChatBefore(C, sort_by, i, j))
    OBVIOUS
  <2>1. m.id \in Nat /\ n.id \in Nat
    BY <1>1
  <2>2. i \in Jids /\ j \in Jids
    OBVIOUS
  <2> HIDE DEF P
  <2>3. row(i, m).key \in K /\ row(i, m).of = <<i>>
    BY <2>1, <2>2, JoinKeys
  <2>4. ASSUME row(i, m).key = row(j, n).key PROVE i = j /\ m.id = n.id
    BY <2>4, JoinKeyOnce
  <2>5. i # j => (Before(row(i, m).key, row(j, n).key) <=> ChatBefore(C, sort_by, i, j))
    BY <2>1, <2>2, JoinKeys
  <2>6. QED BY <2>3, <2>4, <2>5
<1>5. IsFiniteSet(rows)
  <2>1. IsFiniteSet(all)
    <3>1. IsFiniteSet(Jids) /\ IsFiniteSet(Mail)
      BY ReadsAssumption DEF ReadsAssumption
    <3>2. IsFiniteSet(Mail \cup {NoMail})
      BY <3>1, FS_AddElement
    <3>3. QED BY <3>1, <3>2, FS_Product
  <2>2. IsFiniteSet(used)
    <3>1. used \subseteq all
      OBVIOUS
    <3> HIDE DEF used, all
    <3>2. QED BY <2>1, <3>1, FS_Subset
  <2> DEFINE f == [p \in used |-> row(p[1], p[2])]
  <2>3. f \in [used -> rows]
    <3> HIDE DEF rows, row, P
    <3>1. QED BY <1>3
  <2>4. ASSUME NEW r \in rows PROVE \E p \in used : f[p] = r
    <3>a. PICK j \in J : \E m \in P(j) : r = row(j, m)
      BY <1>3
    <3>1. PICK m \in P(j) : r = row(j, m)
      BY <3>a
    <3>2. <<j, m>> \in used
      BY <1>1
    <3>3. f[<<j, m>>] = r
      BY <3>1, <3>2
    <3> HIDE DEF f, used
    <3>4. QED BY <3>2, <3>3
  <2> HIDE DEF f, used, rows
  <2>5. QED BY <2>2, <2>3, <2>4, ImageFinite
<1> HIDE DEF rows, row, P
<1>6. \A r \in rows : r.key \in K
  BY <1>3, <1>4
<1>7. \A r, s \in rows : r.key = s.key => r = s
  <2> SUFFICES ASSUME NEW r \in rows, NEW s \in rows, r.key = s.key PROVE r = s
    OBVIOUS
  <2>a. PICK i \in J : \E m \in P(i) : r = row(i, m)
    BY <1>3
  <2>1. PICK m \in P(i) : r = row(i, m)
    BY <2>a
  <2>b. PICK j \in J : \E n \in P(j) : s = row(j, n)
    BY <1>3
  <2>2. PICK n \in P(j) : s = row(j, n)
    BY <2>b
  <2>3. i = j /\ m.id = n.id
    BY <1>4, <2>1, <2>2
  <2>4. m = n
    BY <1>1, <2>3
  <2>5. QED BY <2>1, <2>2, <2>3, <2>4
<1>8. ASSUME NEW r \in rows, NEW s \in rows, NEW q \in rows, r.of = s.of, q.of # r.of
      PROVE  /\ Before(r.key, q.key) => Before(s.key, q.key)
             /\ Before(q.key, r.key) => Before(q.key, s.key)
  <2>a. PICK i \in J : \E m \in P(i) : r = row(i, m)
    BY <1>3
  <2>1. PICK m \in P(i) : r = row(i, m)
    BY <2>a
  <2>b. PICK j \in J : \E n \in P(j) : s = row(j, n)
    BY <1>3
  <2>2. PICK n \in P(j) : s = row(j, n)
    BY <2>b
  <2>c. PICK h \in J : \E k \in P(h) : q = row(h, k)
    BY <1>3
  <2>3. PICK k \in P(h) : q = row(h, k)
    BY <2>c
  <2>4. r.of = <<i>> /\ s.of = <<j>> /\ q.of = <<h>>
    BY <1>4, <2>1, <2>2, <2>3
  <2>5. i = j /\ h # i
    <3>1. <<i>> = <<j>> /\ <<h>> # <<i>>
      BY <1>8, <2>4
    <3>2. <<i>>[1] = i /\ <<j>>[1] = j
      OBVIOUS
    <3>3. QED BY <3>1, <3>2
  <2>6. /\ Before(r.key, q.key) <=> ChatBefore(C, sort_by, i, h)
        /\ Before(s.key, q.key) <=> ChatBefore(C, sort_by, i, h)
        /\ Before(q.key, r.key) <=> ChatBefore(C, sort_by, h, i)
        /\ Before(q.key, s.key) <=> ChatBefore(C, sort_by, h, i)
    BY <1>4, <2>1, <2>2, <2>3, <2>5
  <2>7. QED BY <2>6
<1>9. Tidy(rows, K)
  BY <1>5, <1>6, <1>7, <1>8 DEF Tidy
<1>10. QED BY <1>9 DEF rows

LEMMA RowsTidy ==
    ASSUME NEW M \in SUBSET Mail, NEW X \in SUBSET Mail, NEW C \in ChatTables,
           NEW T \in ContactTables, NEW list \in Lists
    PROVE  Ordered(KeysOf(list)) /\ Tidy(RowsAt(list, M, X, C, T), KeysOf(list))
<1>1. list \in {"messages", "search", "chats", "names", "contactchats", "contacts"}
  BY ReadsAssumption DEF ReadsAssumption
<1>2. Ordered(KeysOf(list))
  BY KeysOrdered DEF KeysOf
<1>3. KnownAt(C) \subseteq Jids /\ ChatsAt(M, C) \subseteq Jids
  BY DEF KnownAt, ChatsAt
<1>4. CASE list = "messages"
  <2>1. RowsAt(list, M, X, C, T) = {MessageRow(m) : m \in M}
    BY <1>4 DEF RowsAt
  <2>2. KeysOf(list) = Int \X Int \X Int
    BY <1>4 DEF KeysOf
  <2>3. Tidy({MessageRow(m) : m \in M}, Int \X Int \X Int)
    BY MessagesTidy
  <2>4. QED BY <1>2, <2>1, <2>2, <2>3
<1>5. CASE list = "search"
  <2>1. RowsAt(list, M, X, C, T) = {MessageRow(m) : m \in X}
    BY <1>5 DEF RowsAt
  <2>2. KeysOf(list) = Int \X Int \X Int
    BY <1>5 DEF KeysOf
  <2>3. Tidy({MessageRow(m) : m \in X}, Int \X Int \X Int)
    BY MessagesTidy
  <2>4. QED BY <1>2, <2>1, <2>2, <2>3
<1>6. CASE list = "chats"
  <2>1. RowsAt(list, M, X, C, T) = JoinAt(M, C, KnownAt(C), "last_active")
    BY <1>6 DEF RowsAt
  <2>2. KeysOf(list) = JoinKeySet("last_active")
    BY <1>6 DEF KeysOf, JoinKeySet
  <2>3. Tidy(JoinAt(M, C, KnownAt(C), "last_active"), JoinKeySet("last_active"))
    BY <1>3, JoinTidy
  <2>4. QED BY <1>2, <2>1, <2>2, <2>3
<1>7. CASE list = "names"
  <2>1. RowsAt(list, M, X, C, T) = JoinAt(M, C, KnownAt(C), "name")
    BY <1>7 DEF RowsAt
  <2>2. KeysOf(list) = JoinKeySet("name")
    BY <1>7 DEF KeysOf, JoinKeySet
  <2>3. Tidy(JoinAt(M, C, KnownAt(C), "name"), JoinKeySet("name"))
    BY <1>3, JoinTidy
  <2>4. QED BY <1>2, <2>1, <2>2, <2>3
<1>8. CASE list = "contactchats"
  <2>1. RowsAt(list, M, X, C, T) = JoinAt(M, C, ChatsAt(M, C), "last_active")
    BY <1>8 DEF RowsAt
  <2>2. KeysOf(list) = JoinKeySet("last_active")
    BY <1>8 DEF KeysOf, JoinKeySet
  <2>3. Tidy(JoinAt(M, C, ChatsAt(M, C), "last_active"), JoinKeySet("last_active"))
    BY <1>3, JoinTidy
  <2>4. QED BY <1>2, <2>1, <2>2, <2>3
<1>9. CASE list = "contacts"
  <2>1. RowsAt(list, M, X, C, T) = ContactsAt(T)
    BY <1>9 DEF RowsAt
  <2>2. KeysOf(list) = Int \X Int
    BY <1>9 DEF KeysOf
  <2>3. Tidy(ContactsAt(T), Int \X Int)
    BY ContactsTidy
  <2>4. QED BY <1>2, <2>1, <2>2, <2>3
<1>10. QED BY <1>1, <1>2, <1>4, <1>5, <1>6, <1>7, <1>8, <1>9

-----------------------------------------------------------------------------
(* A write changes the rows of one object.                                 *)

(* The tables agree but for the message m and the chat and contact j.      *)
Agree(j, m, M, X, C, T, M1, X1, C1, T1) ==
    /\ \A n \in Mail : n # m => (n \in M <=> n \in M1) /\ (n \in X <=> n \in X1)
    /\ \A n \in Mail : n.chat # j => (n \in M <=> n \in M1)
    /\ \A i \in Jids \ {j} : C[i] = C1[i]
    /\ \A i \in Direct \ {j} : T[i] = T1[i]

LEMMA AgreePreviews ==
    ASSUME NEW M \in SUBSET Mail, NEW M1 \in SUBSET Mail, NEW C, NEW C1, NEW i, NEW j,
           i # j, C[i] = C1[i],
           \A n \in Mail : n.chat # j => (n \in M <=> n \in M1)
    PROVE  PreviewsAt(M, C, i) = PreviewsAt(M1, C1, i)
<1>1. {m \in M : m.chat = i /\ m.ts = C[i].ts} = {m \in M1 : m.chat = i /\ m.ts = C1[i].ts}
  OBVIOUS
<1>2. QED BY <1>1 DEF PreviewsAt

LEMMA AgreeJoin ==
    ASSUME NEW M \in SUBSET Mail, NEW M1 \in SUBSET Mail, NEW C, NEW C1, NEW j,
           NEW J \in SUBSET Jids, NEW J1 \in SUBSET Jids, NEW sort_by,
           \A n \in Mail : n.chat # j => (n \in M <=> n \in M1),
           \A i \in Jids \ {j} : C[i] = C1[i],
           \A i \in Jids \ {j} : i \in J <=> i \in J1
    PROVE  Others(JoinAt(M, C, J, sort_by), <<j>>)
              \subseteq Others(JoinAt(M1, C1, J1, sort_by), <<j>>)
<1> SUFFICES ASSUME NEW r \in JoinAt(M, C, J, sort_by), r.of # <<j>>
             PROVE  r \in JoinAt(M1, C1, J1, sort_by)
  BY DEF Others
<1>a. PICK i \in J : \E m \in PreviewsAt(M, C, i) : r = JoinRow(C, sort_by, i, m)
  BY DEF JoinAt
<1>1. PICK m \in PreviewsAt(M, C, i) : r = JoinRow(C, sort_by, i, m)
  BY <1>a
<1>2. r.of = <<i>>
  BY <1>1 DEF JoinRow
<1>3. i \in J1 /\ i # j /\ C[i] = C1[i]
  BY <1>2
<1>4. m \in PreviewsAt(M1, C1, i)
  BY <1>1, <1>3, AgreePreviews
<1>5. r = JoinRow(C1, sort_by, i, m)
  BY <1>1, <1>3 DEF JoinRow
<1>6. QED BY <1>3, <1>4, <1>5 DEF JoinAt

LEMMA AgreeHalf ==
    ASSUME NEW M \in SUBSET Mail, NEW X \in SUBSET Mail, NEW C, NEW T,
           NEW M1 \in SUBSET Mail, NEW X1 \in SUBSET Mail, NEW C1, NEW T1,
           NEW j, NEW m, Agree(j, m, M, X, C, T, M1, X1, C1, T1), NEW list \in Lists,
           NEW o, o = IF list \in {"messages", "search"} THEN <<m.chat, m.id>> ELSE <<j>>
    PROVE  Others(RowsAt(list, M, X, C, T), o) \subseteq Others(RowsAt(list, M1, X1, C1, T1), o)
<1>1. list \in {"messages", "search", "chats", "names", "contactchats", "contacts"}
  BY ReadsAssumption DEF ReadsAssumption
<1>2. /\ \A n \in Mail : n # m => (n \in M <=> n \in M1) /\ (n \in X <=> n \in X1)
      /\ \A n \in Mail : n.chat # j => (n \in M <=> n \in M1)
      /\ \A i \in Jids \ {j} : C[i] = C1[i]
      /\ \A i \in Direct \ {j} : T[i] = T1[i]
  BY DEF Agree
<1>3. \A n \in Mail : MessageRow(n).of # <<m.chat, m.id>> => n # m
  BY DEF MessageRow
<1>4. /\ KnownAt(C) \subseteq Jids /\ ChatsAt(M, C) \subseteq Jids
      /\ KnownAt(C1) \subseteq Jids /\ ChatsAt(M1, C1) \subseteq Jids
      /\ \A i \in Jids \ {j} : i \in KnownAt(C) <=> i \in KnownAt(C1)
      /\ \A i \in Jids \ {j} : i \in ChatsAt(M, C) <=> i \in ChatsAt(M1, C1)
  BY <1>2 DEF KnownAt, ChatsAt
<1>5. CASE list = "messages"
  <2>1. o = <<m.chat, m.id>>
    BY <1>5
  <2>2. /\ RowsAt(list, M, X, C, T) = {MessageRow(n) : n \in M}
        /\ RowsAt(list, M1, X1, C1, T1) = {MessageRow(n) : n \in M1}
    BY <1>5 DEF RowsAt
  <2>3. QED BY <1>2, <1>3, <2>1, <2>2 DEF Others
<1>6. CASE list = "search"
  <2>1. o = <<m.chat, m.id>>
    BY <1>6
  <2>2. /\ RowsAt(list, M, X, C, T) = {MessageRow(n) : n \in X}
        /\ RowsAt(list, M1, X1, C1, T1) = {MessageRow(n) : n \in X1}
    BY <1>6 DEF RowsAt
  <2>3. QED BY <1>2, <1>3, <2>1, <2>2 DEF Others
<1>7. CASE list = "chats"
  BY <1>2, <1>4, <1>7, AgreeJoin DEF RowsAt
<1>8. CASE list = "names"
  BY <1>2, <1>4, <1>8, AgreeJoin DEF RowsAt
<1>9. CASE list = "contactchats"
  BY <1>2, <1>4, <1>9, AgreeJoin DEF RowsAt
<1>10. CASE list = "contacts"
  <2>1. o = <<j>>
    BY <1>10
  <2>2. Others(ContactsAt(T), <<j>>) \subseteq Others(ContactsAt(T1), <<j>>)
    <3> SUFFICES ASSUME NEW r \in ContactsAt(T), r.of # <<j>> PROVE r \in ContactsAt(T1)
      BY DEF Others
    <3>1. PICK i \in Direct : T[i].known /\ r = [key |-> <<T[i].name, i>>, of |-> <<i>>]
      BY DEF ContactsAt
    <3>2. i # j
      BY <3>1
    <3>3. T[i] = T1[i]
      BY <1>2, <3>2
    <3>4. QED BY <3>1, <3>3 DEF ContactsAt
  <2>3. QED BY <1>10, <2>1, <2>2 DEF RowsAt
<1>11. QED BY <1>1, <1>5, <1>6, <1>7, <1>8, <1>9, <1>10

LEMMA AgreeRows ==
    ASSUME NEW M \in SUBSET Mail, NEW X \in SUBSET Mail, NEW C, NEW T,
           NEW M1 \in SUBSET Mail, NEW X1 \in SUBSET Mail, NEW C1, NEW T1,
           NEW j, NEW m, Agree(j, m, M, X, C, T, M1, X1, C1, T1), NEW list \in Lists
    PROVE  \E o : Others(RowsAt(list, M, X, C, T), o) = Others(RowsAt(list, M1, X1, C1, T1), o)
<1>1. PICK o : o = IF list \in {"messages", "search"} THEN <<m.chat, m.id>> ELSE <<j>>
  OBVIOUS
<1>2. Agree(j, m, M1, X1, C1, T1, M, X, C, T)
  BY DEF Agree
<1>3. Others(RowsAt(list, M, X, C, T), o) \subseteq Others(RowsAt(list, M1, X1, C1, T1), o)
  BY <1>1, AgreeHalf
<1>4. Others(RowsAt(list, M1, X1, C1, T1), o) \subseteq Others(RowsAt(list, M, X, C, T), o)
  BY <1>1, <1>2, AgreeHalf
<1>5. QED BY <1>3, <1>4

LEMMA OneChange ==
    ASSUME Base, Written
    PROVE  \E j, m : Agree(j, m, messages, matching, chats, contacts,
                           messages', matching', chats', contacts')
<1> DEFINE C == [known : BOOLEAN, title : 0..Names, ts : 0..Horizon, unread : {0} \cup Unread]
           Goal == \E j, m : Agree(j, m, messages, matching, chats, contacts,
                                   messages', matching', chats', contacts')
<1>1. /\ chats \in [Jids -> C] /\ contacts \in [Direct -> [known : BOOLEAN, name : 0..Names]]
      /\ messages \subseteq Mail /\ WriterInv
  BY DEF Base, TypeOK
<1>2. \A j, ts, unread : \A i \in Jids \ {j} : Touched(j, ts, unread)[i] = chats[i]
  BY <1>1 DEF Touched
<1> HIDE DEF C
<1>3. ASSUME NEW m \in Mail, StoreChat(m) PROVE Goal
  <2>1. chats' = Touched(m.chat, m.ts, 0) /\ UNCHANGED <<messages, matching, contacts>>
    BY <1>3 DEF StoreChat
  <2>2. Agree(m.chat, m, messages, matching, chats, contacts,
              messages', matching', chats', contacts')
    BY <1>2, <2>1 DEF Agree
  <2>3. QED BY <2>2
<1>4. ASSUME StoreRow PROVE Goal
  <2>1. PICK m \in Mail : writer = [owes |-> "row", mail |-> m]
    BY <1>1, <1>4 DEF StoreRow, WriterInv, NoWork
  <2>2. /\ messages' = messages \cup {m} /\ matching' = matching \cup ({m} \cap Hits)
        /\ UNCHANGED <<chats, contacts>>
    BY <1>4, <2>1 DEF StoreRow
  <2>3. Agree(m.chat, m, messages, matching, chats, contacts,
              messages', matching', chats', contacts')
    BY <2>2 DEF Agree
  <2>4. QED BY <2>3
<1>5. ASSUME NEW m \in Mail, HistoryRow(m) PROVE Goal
  <2>1. /\ messages' = messages \cup {m} /\ matching' = matching \cup ({m} \cap Hits)
        /\ UNCHANGED <<chats, contacts>>
    BY <1>5 DEF HistoryRow
  <2>2. Agree(m.chat, m, messages, matching, chats, contacts,
              messages', matching', chats', contacts')
    BY <2>1 DEF Agree
  <2>3. QED BY <2>2
<1>6. ASSUME NEW unread \in Unread, HistoryChat(unread) PROVE Goal
  <2>1. PICK j : chats' = Touched(j, writer.ts, unread) /\ UNCHANGED <<messages, matching, contacts>>
    BY <1>6 DEF HistoryChat
  <2>2. Agree(j, NoMail, messages, matching, chats, contacts,
              messages', matching', chats', contacts')
    BY <1>2, <2>1 DEF Agree
  <2>3. QED BY <2>2
<1>7. ASSUME NEW j, NEW name, NEW ts, Title(j, name, ts) PROVE Goal
  <2> DEFINE new == Touched(j, ts, 0)
  <2>1. /\ chats' = [new EXCEPT ![j].title = IF name = 0 THEN @ ELSE name]
        /\ UNCHANGED <<messages, matching, contacts>>
    BY <1>7 DEF Title
  <2>2. DOMAIN new = Jids /\ \A i \in Jids \ {j} : new[i] = chats[i]
    BY <1>1, <1>2 DEF Touched
  <2> HIDE DEF new
  <2>3. \A i \in Jids \ {j} : chats'[i] = chats[i]
    BY <2>1, <2>2
  <2>4. Agree(j, NoMail, messages, matching, chats, contacts,
              messages', matching', chats', contacts')
    BY <2>1, <2>3 DEF Agree
  <2>5. QED BY <2>4
<1>8. ASSUME NEW j, Flag(j) PROVE Goal
  <2>1. /\ chats' = [chats EXCEPT ![j].known = TRUE]
        /\ UNCHANGED <<messages, matching, contacts>>
    BY <1>8 DEF Flag
  <2>2. Agree(j, NoMail, messages, matching, chats, contacts,
              messages', matching', chats', contacts')
    BY <1>1, <2>1 DEF Agree
  <2>3. QED BY <2>2
<1>9. ASSUME NEW j, NEW name, Contact(j, name) PROVE Goal
  <2>1. PICK row : /\ contacts' = [contacts EXCEPT ![j] = row]
                   /\ UNCHANGED <<messages, matching, chats>>
    BY <1>9 DEF Contact
  <2>2. Agree(j, NoMail, messages, matching, chats, contacts,
              messages', matching', chats', contacts')
    BY <1>1, <2>1 DEF Agree
  <2>3. QED BY <2>2
<1>10. ASSUME NEW m \in Mail, Reword(m) PROVE Goal
  <2>1. /\ matching' = IF m \in matching THEN matching \ {m} ELSE matching \cup {m}
        /\ UNCHANGED <<messages, chats, contacts>>
    BY <1>10 DEF Reword
  <2>2. Agree(m.chat, m, messages, matching, chats, contacts,
              messages', matching', chats', contacts')
    BY <2>1 DEF Agree
  <2>3. QED BY <2>2
<1>11. ASSUME NEW pair, Learn(pair) PROVE Goal
  <2>1. UNCHANGED <<messages, matching, chats, contacts>>
    BY <1>11 DEF Learn
  <2>2. Agree(0, NoMail, messages, matching, chats, contacts,
              messages', matching', chats', contacts')
    BY <2>1 DEF Agree
  <2>3. QED BY <2>2
<1> HIDE DEF Goal
<1>12. Goal
  BY <1>3, <1>4, <1>5, <1>6, <1>7, <1>8, <1>9, <1>10, <1>11 DEF Written
<1>13. QED BY <1>12 DEF Goal

-----------------------------------------------------------------------------
(* A client that turns the pages.                                          *)

(* What it will still be given.                                            *)
Ahead(rows, o, offset) == \E q \in rows : q.of = o /\ Rank(rows, q) >= offset

PagesInv ==
    call.op = "pages" =>
        /\ call.done /\ ~ call.disturbed => call.start \ call.moved \subseteq call.seen
        /\ ~ call.done /\ ~ call.disturbed =>
              \A o \in call.start \ call.moved :
                  \/ o \in call.seen
                  \/ Ahead(RowsAt(call.list, messages, matching, chats, contacts),
                           o, call.offset)
        /\ call.list = "messages" => call.moved = {} /\ ~ call.disturbed

LEMMA WatchPages ==
    ASSUME Base, Watch, Paging, NEW list, list = call.list,
           NEW old, old = Listed(list), NEW new, new = Listed(list)'
    PROVE  \E ahead, back :
              /\ ahead = {q \in old : \E r \in new \ old : r.of = q.of /\ Before(r.key, q.key)}
              /\ back = {q \in old : \A r \in new : r.of = q.of => Before(q.key, r.key)}
              /\ call'.moved = call.moved \cup Of(ahead)
              /\ call'.disturbed <=>
                    call.disturbed \/ back # {} \/ Cardinality(new) < Cardinality(old)
<1>1. PICK l \in {call.list} :
         LET o == Listed(l)
             n == Listed(l)'
             ahead == {q \in o : \E r \in n \ o : r.of = q.of /\ Before(r.key, q.key)}
             back == {q \in o : \A r \in n : r.of = q.of => Before(q.key, r.key)}
         IN call' = [call EXCEPT
                        !.moved = @ \cup Of(ahead),
                        !.disturbed = @ \/ back # {} \/ Cardinality(n) < Cardinality(o)]
  BY DEF Watch
<1> DEFINE ahead == {q \in old : \E r \in new \ old : r.of = q.of /\ Before(r.key, q.key)}
           back == {q \in old : \A r \in new : r.of = q.of => Before(q.key, r.key)}
           moved == call.moved \cup Of(ahead)
           d == call.disturbed \/ back # {} \/ Cardinality(new) < Cardinality(old)
<1>2. l = list
  OBVIOUS
<1>3. call' = [call EXCEPT !.moved = @ \cup Of(ahead),
                           !.disturbed = @ \/ back # {} \/ Cardinality(new) < Cardinality(old)]
  BY <1>1, <1>2
<1>4. PagesShape
  BY DEF Base, Paging
<1>5. d \in BOOLEAN
  OBVIOUS
<1>6. call' = [call EXCEPT !.moved = moved, !.disturbed = d]
  BY <1>3
<1> HIDE DEF moved, d
<1>7. call'.moved = moved /\ call'.disturbed = d
  <2>1. call = PageRecord(call.list, call.offset, call.done, call.start, call.seen,
                          call.moved, call.disturbed)
    BY <1>4 DEF PagesShape, PageRecord
  <2>2. [call EXCEPT !.moved = moved] =
           PageRecord(call.list, call.offset, call.done, call.start, call.seen,
                      moved, call.disturbed)
    BY <2>1 DEF PageRecord
  <2>3. call' = PageRecord(call.list, call.offset, call.done, call.start, call.seen, moved, d)
    BY <1>6, <2>2 DEF PageRecord
  <2>4. QED BY <2>3 DEF PageRecord
<1>8. call'.disturbed <=> d
  BY <1>5, <1>7
<1>9. QED BY <1>7, <1>8 DEF moved, d

LEMMA TablesTyped ==
    ASSUME Base
    PROVE  /\ messages \in SUBSET Mail /\ matching \in SUBSET Mail
           /\ chats \in ChatTables /\ contacts \in ContactTables
  BY DEF Base, TypeOK, ChatTables, ContactTables

LEMMA RowsSorted ==
    ASSUME NEW rows, NEW K, Ordered(K), Tidy(rows, K)
    PROVE  /\ Cardinality(rows) \in Nat
           /\ \A r \in rows : Rank(rows, r) \in Nat /\ Rank(rows, r) < Cardinality(rows)
<1>1. Sorted(rows)
  BY TidySorted
<1>2. Cardinality(rows) \in Nat /\ \A r \in rows : Rank(rows, r) \in 0..(Cardinality(rows) - 1)
  BY <1>1, RankFacts
<1>3. QED BY <1>2

AllOf(M) == {MessageRow(m) : m \in M}

(* A message never leaves the listing of all of them, nor moves in it.     *)
LEMMA MessagesStay ==
    ASSUME NEW M \in SUBSET Mail, NEW M1 \in SUBSET Mail, M \subseteq M1,
           NEW old, old = AllOf(M), NEW new, new = AllOf(M1)
    PROVE  /\ \A q \in old, r \in new \ old : r.of # q.of
           /\ \A q \in old : q \in new /\ ~ Before(q.key, q.key)
           /\ ~ (Cardinality(new) < Cardinality(old))
<1>a. /\ \A m \in Mail : MessageRow(m).of = <<m.chat, m.id>>
      /\ \A m, n \in Mail : <<m.chat, m.id>> = <<n.chat, n.id>> => m = n
  BY MailRows
<1>1. \A m, n \in Mail : MessageRow(m).of = MessageRow(n).of => m = n
  BY <1>a
<1>2. old \subseteq new
  BY DEF AllOf
<1>3. ASSUME NEW q \in old, NEW r \in new \ old, r.of = q.of PROVE FALSE
  <2>1. PICK m \in M : q = MessageRow(m)
    BY DEF AllOf
  <2>2. PICK n \in M1 : r = MessageRow(n)
    BY DEF AllOf
  <2>3. m = n
    BY <1>1, <1>3, <2>1, <2>2
  <2>4. QED BY <1>3, <2>1, <2>2, <2>3
<1>4. Tidy(new, Int \X Int \X Int)
  BY MessagesTidy DEF AllOf
<1>5. \A q \in new : ~ Before(q.key, q.key)
  BY <1>4, KeysOrdered DEF Tidy, Ordered
<1>6. IsFiniteSet(new)
  BY <1>4 DEF Tidy
<1>7. Cardinality(old) <= Cardinality(new)
  BY <1>2, <1>6, FS_Subset
<1>8. IsFiniteSet(old) /\ Cardinality(old) \in Nat /\ Cardinality(new) \in Nat
  BY <1>2, <1>6, FS_Subset, FS_CardinalityType
<1>9. ~ (Cardinality(new) < Cardinality(old))
  BY <1>7, <1>8
<1>10. QED BY <1>2, <1>3, <1>5, <1>9

LEMMA PagesWritten ==
    ASSUME Base, Base', PagesInv, Written
    PROVE  PagesInv'
<1> SUFFICES ASSUME call'.op = "pages" PROVE PagesInv'
  BY DEF PagesInv
<1>1. Watch /\ messages \subseteq messages'
  BY WrittenTables DEF Growing
<1>2. /\ call.op = "pages" /\ PagesShape
      /\ call'.list = call.list /\ call'.offset = call.offset
      /\ call'.done = call.done /\ call'.start = call.start
      /\ call'.seen = call.seen
  BY <1>1, WatchCall DEF Base
<1>3. CASE ~ Paging
  <2>1. call' = call /\ call.done
    BY <1>1, <1>2, <1>3 DEF Watch, Paging
  <2>2. QED BY <2>1 DEF PagesInv
<1>4. CASE Paging
  <2>1. ~ call.done
    BY <1>4 DEF Paging
  <2>2. PICK list : list = call.list
    OBVIOUS
  <2>3. PICK old, new : /\ old = Listed(list) /\ new = Listed(list)'
    OBVIOUS
  <2>4. /\ old = RowsAt(list, messages, matching, chats, contacts)
        /\ new = RowsAt(list, messages', matching', chats', contacts')
    BY <2>3, ListedRows
  <2>5. PICK ahead, back :
           /\ ahead = {q \in old : \E r \in new \ old : r.of = q.of /\ Before(r.key, q.key)}
           /\ back = {q \in old : \A r \in new : r.of = q.of => Before(q.key, r.key)}
           /\ call'.moved = call.moved \cup Of(ahead)
           /\ call'.disturbed <=>
                 call.disturbed \/ back # {} \/ Cardinality(new) < Cardinality(old)
    BY <1>1, <1>4, <2>2, <2>3, WatchPages
  <2>6. /\ messages \in SUBSET Mail /\ matching \in SUBSET Mail
        /\ chats \in ChatTables /\ contacts \in ContactTables
    BY TablesTyped
  <2>7. /\ messages' \in SUBSET Mail /\ matching' \in SUBSET Mail
        /\ chats' \in ChatTables /\ contacts' \in ContactTables
    BY DEF Base, TypeOK, ChatTables, ContactTables
  <2>8. list \in Lists
    BY <1>2, <2>2 DEF PagesShape
  <2> DEFINE K == KeysOf(list)
  <2>9. Ordered(K) /\ Tidy(old, K) /\ Tidy(new, K)
    BY <2>4, <2>6, <2>7, <2>8, RowsTidy
  <2>10. ASSUME NEW o \in call.start \ call'.moved, ~ call'.disturbed, o \notin call.seen
         PROVE  Ahead(new, o, call.offset)
    <3>1. o \notin call.moved /\ o \notin Of(ahead)
      BY <2>5, <2>10
    <3>2. ~ call.disturbed /\ back = {} /\ ~ (Cardinality(new) < Cardinality(old))
      BY <2>5, <2>10
    <3>3. Ahead(old, o, call.offset)
      BY <1>2, <2>1, <2>2, <2>4, <2>10, <3>1, <3>2 DEF PagesInv
    <3>4. PICK q \in old : q.of = o /\ Rank(old, q) >= call.offset
      BY <3>3 DEF Ahead
    <3>5. \E one : Others(old, one) = Others(new, one)
      <4>1. PICK j, m : Agree(j, m, messages, matching, chats, contacts,
                              messages', matching', chats', contacts')
        BY OneChange
      <4>2. QED BY <2>4, <2>6, <2>7, <2>8, <4>1, AgreeRows
    <3>6. PICK one : Others(old, one) = Others(new, one)
      BY <3>5
    <3>7. Cardinality(old) <= Cardinality(new)
      <4>1. Cardinality(old) \in Nat /\ Cardinality(new) \in Nat
        BY <2>9, RowsSorted
      <4>2. QED BY <3>2, <4>1
    <3>8. \A p \in old : \E r \in new : r.of = p.of /\ ~ Before(p.key, r.key)
      BY <2>5, <3>2
    <3>9. Moved(old, new, K, one)
      BY <2>9, <3>6, <3>7, <3>8 DEF Moved
    <3>10. \A r \in new \ old : r.of = q.of => ~ Before(r.key, q.key)
      BY <2>5, <3>1, <3>4 DEF Of
    <3> HIDE DEF K
    <3>11. PICK r \in new : r.of = q.of /\ Rank(old, q) <= Rank(new, r)
      BY <2>9, <3>9, <3>10, RanksKept
    <3>12. Rank(old, q) \in Nat /\ Rank(new, r) \in Nat /\ call.offset \in Nat
      BY <1>2, <2>9, RowsSorted DEF PagesShape
    <3>13. Rank(new, r) >= call.offset
      BY <3>4, <3>11, <3>12
    <3>14. QED BY <3>4, <3>11, <3>13 DEF Ahead
  <2>11. ASSUME list = "messages" PROVE call'.moved = {} /\ ~ call'.disturbed
    <3>1. call.moved = {} /\ ~ call.disturbed
      BY <1>2, <2>2, <2>11 DEF PagesInv
    <3>2. old = AllOf(messages) /\ new = AllOf(messages')
      BY <2>4, <2>11 DEF RowsAt, AllOf
    <3>3. /\ \A q \in old, r \in new \ old : r.of # q.of
          /\ \A q \in old : q \in new /\ ~ Before(q.key, q.key)
          /\ ~ (Cardinality(new) < Cardinality(old))
      BY <1>1, <2>6, <2>7, <3>2, MessagesStay
    <3>4. ahead = {} /\ back = {}
      BY <2>5, <3>3
    <3>5. Of(ahead) = {}
      BY <3>4 DEF Of
    <3>6. QED BY <2>5, <3>1, <3>3, <3>4, <3>5
  <2>12. QED BY <1>2, <2>1, <2>2, <2>4, <2>10, <2>11 DEF PagesInv
<1>5. QED BY <1>3, <1>4

LEMMA PagesRead ==
    ASSUME Base, PagesInv, ReadPage
    PROVE  PagesInv'
<1>1. PICK rows : rows = Listed(call.list)
  OBVIOUS
<1>2. rows = RowsAt(call.list, messages, matching, chats, contacts)
  BY <1>1, ListedRows
<1> DEFINE next == call.offset + Limit
           short == Short(rows, call.offset, Limit)
           seen == call.seen \cup Of(Slice(rows, call.offset, Limit))
<1>3. /\ PagesShape /\ ~ call.done /\ UNCHANGED <<tables, writer, during>>
      /\ call' = [op |-> "pages", list |-> call.list, offset |-> next, done |-> short,
                  start |-> call.start, seen |-> seen,
                  moved |-> call.moved, disturbed |-> call.disturbed]
  BY <1>1, PageCall
<1>4. Ordered(KeysOf(call.list)) /\ Tidy(rows, KeysOf(call.list))
  <2>1. call.list \in Lists
    BY <1>3 DEF PagesShape
  <2>2. QED BY <1>2, <2>1, TablesTyped, RowsTidy
<1>5. /\ Cardinality(rows) \in Nat
      /\ \A r \in rows : Rank(rows, r) \in Nat /\ Rank(rows, r) < Cardinality(rows)
  BY <1>4, RowsSorted
<1>6. call.offset \in Nat /\ Limit \in Nat /\ call.op = "pages"
  BY <1>3, ReadsAssumption DEF PagesShape, ReadsAssumption, Paging, ReadPage
<1>7. ASSUME NEW q \in rows, Rank(rows, q) >= call.offset
      PROVE  q.of \in seen \/ (~ short /\ Rank(rows, q) >= next)
  <2>1. CASE Rank(rows, q) < next
    <3>1. Rank(rows, q) \in call.offset..(call.offset + Limit - 1)
      BY <1>5, <1>6, <1>7, <2>1
    <3>2. q \in Slice(rows, call.offset, Limit)
      BY <3>1 DEF Slice
    <3>3. QED BY <3>2 DEF Of
  <2>2. CASE ~ (Rank(rows, q) < next)
    <3>1. ~ short
      BY <1>5, <1>6, <2>2 DEF Short
    <3>2. Rank(rows, q) >= next
      BY <1>5, <1>6, <2>2
    <3>3. QED BY <3>1, <3>2
  <2>3. QED BY <2>1, <2>2
<1>8. call.seen \subseteq seen
  OBVIOUS
<1> HIDE DEF next, short, seen
<1>9. /\ call'.op = "pages" /\ call'.list = call.list /\ call'.offset = next
      /\ call'.done = short /\ call'.start = call.start /\ call'.seen = seen
      /\ call'.moved = call.moved /\ call'.disturbed = call.disturbed
      /\ rows = RowsAt(call'.list, messages', matching', chats', contacts')
  BY <1>2, <1>3 DEF tables
<1>10. ASSUME NEW o \in call.start \ call.moved, ~ call.disturbed
       PROVE  o \in seen \/ (~ short /\ Ahead(rows, o, next))
  <2>1. o \in call.seen \/ Ahead(rows, o, call.offset)
    BY <1>2, <1>3, <1>6, <1>10 DEF PagesInv
  <2>2. CASE o \in call.seen
    BY <1>8, <2>2
  <2>3. CASE Ahead(rows, o, call.offset)
    <3>1. PICK q \in rows : q.of = o /\ Rank(rows, q) >= call.offset
      BY <2>3 DEF Ahead
    <3>2. QED BY <1>7, <3>1 DEF Ahead
  <2>4. QED BY <2>1, <2>2, <2>3
<1>11. call.list = "messages" => call.moved = {} /\ ~ call.disturbed
  BY <1>6 DEF PagesInv
<1>12. QED BY <1>9, <1>10, <1>11 DEF PagesInv

LEMMA PagesOpened ==
    ASSUME Base, NEW list \in Lists, OpenPages(list)
    PROVE  PagesInv'
<1>1. PICK rows : rows = Listed(list)
  OBVIOUS
<1>2. rows = RowsAt(list, messages, matching, chats, contacts)
  BY <1>1, ListedRows
<1>3. /\ UNCHANGED tables
      /\ call' = [op |-> "pages", list |-> list, offset |-> 0, done |-> FALSE,
                  start |-> Of(rows), seen |-> {}, moved |-> {}, disturbed |-> FALSE]
  BY <1>1 DEF OpenPages
<1>4. \A r \in rows : Rank(rows, r) \in Nat
  BY <1>2, TablesTyped, RowsTidy, RowsSorted
<1>5. \A o \in Of(rows) : Ahead(rows, o, 0)
  BY <1>4 DEF Of, Ahead
<1>6. rows = RowsAt(list, messages', matching', chats', contacts')
  BY <1>2, <1>3 DEF tables
<1>7. QED BY <1>3, <1>5, <1>6 DEF PagesInv

LEMMA PagesSteps ==
    ASSUME Base, ThreadInv, PagesInv, [Next]_vars
    PROVE  PagesInv'
<1>1. CASE Written
  <2>1. Base'
    BY BaseSteps
  <2>2. QED BY <1>1, <2>1, PagesWritten
<1>2. CASE UNCHANGED vars
  BY <1>2 DEF PagesInv, vars, tables
<1>3. CASE ReadPage
  BY <1>3, PagesRead
<1>4. ASSUME NEW list \in Lists, OpenPages(list) PROVE PagesInv'
  BY <1>4, PagesOpened
<1>5. CASE Asked /\ ~ ReadPage /\ ~ \E list \in Lists : OpenPages(list)
  <2>1. call'.op # "pages"
    BY <1>5, AskedOps
  <2>2. QED BY <2>1 DEF PagesInv
<1>6. QED BY <1>1, <1>2, <1>3, <1>4, <1>5, NextSteps DEF Asked

-----------------------------------------------------------------------------
(* The inductive invariant.                                                *)

IInv ==
    /\ Base /\ ThreadInv /\ ContextInv /\ ConversationInv /\ PagesInv

LEMMA InitInv ==
    ASSUME Init
    PROVE  IInv
<1>1. call = NoCall
  BY DEF Init
<1>2. QED
  BY <1>1, InitBase DEF IInv, ThreadInv, ContextInv, ConversationInv, PagesInv,
                        OneConversationPerContact, NoCall

LEMMA StepInv ==
    ASSUME IInv, [Next]_vars
    PROVE  IInv'
  BY BaseSteps, ThreadSteps, ContextSteps, ConversationSteps, PagesSteps DEF IInv

LEMMA SpecInv == Spec => []IInv
<1>1. Init => IInv
  BY InitInv
<1>2. IInv /\ [Next]_vars => IInv'
  BY StepInv
<1>3. QED BY <1>1, <1>2, PTL DEF Spec

LEMMA PagesDone ==
    ASSUME Base, PagesInv
    PROVE  MessagePagesMissNothing /\ PagesMissOnlyWhatMoved
<1>1. PagesMissOnlyWhatMoved
  BY DEF PagesInv, PagesMissOnlyWhatMoved
<1>2. MessagePagesMissNothing
  <2> SUFFICES ASSUME call.op = "pages", call.list = "messages", call.done
               PROVE  call.start \subseteq call.seen
    BY DEF MessagePagesMissNothing
  <2>1. call.moved = {} /\ ~ call.disturbed
    BY DEF PagesInv
  <2>2. QED BY <2>1 DEF PagesInv
<1>3. QED BY <1>1, <1>2

(* Types; the full-text index has only stored messages, and the row of a   *)
(* chat covers its messages (InsertMessage and UpsertChat), except while a *)
(* history batch owes it.                                                  *)
THEOREM SpecTypeOK == Spec => []TypeOK
<1>1. IInv => TypeOK
  BY DEF IInv, Base
<1>2. QED BY <1>1, SpecInv, PTL

(* list_messages turned with OFFSET while messages arrive: the client is   *)
(* given every message that was there when it began.                       *)
THEOREM SpecMessagePagesMissNothing == Spec => []MessagePagesMissNothing
<1>1. IInv => MessagePagesMissNothing
  BY PagesDone DEF IInv
<1>2. QED BY <1>1, SpecInv, PTL

(* Every listing, turned with OFFSET while any statement writes the tables *)
(* it joins: what a client misses has moved ahead, unless a row left the   *)
(* listing or moved back.                                                  *)
THEOREM SpecPagesMissOnlyWhatMoved == Spec => []PagesMissOnlyWhatMoved
<1>1. IInv => PagesMissOnlyWhatMoved
  BY PagesDone DEF IInv
<1>2. QED BY <1>1, SpecInv, PTL

(* list_conversations, for any aliases and any choice of canonicalOf among *)
(* the phones of a LID: every chat in one conversation, linked chats       *)
(* together, and the identities that get_conversation resolves.            *)
THEOREM SpecOneConversationPerContact == Spec => []OneConversationPerContact
<1>1. IInv => OneConversationPerContact
  BY DEF IInv, ConversationInv
<1>2. QED BY <1>1, SpecInv, PTL

(* get_message_context: its three queries leave no gap beside the target   *)
(* among the messages that were there when it began.                       *)
THEOREM SpecContextHasNoGap == Spec => []ContextHasNoGap
<1>1. IInv => ContextHasNoGap
  BY ContextDone DEF IInv
<1>2. QED BY <1>1, SpecInv, PTL

(* get_conversation: what concerns a linked identity is on the page, or    *)
(* the page is full of what is at least as new.                            *)
THEOREM SpecThreadIsMerged == Spec => []ThreadIsMerged
<1>1. IInv => ThreadIsMerged
  BY ThreadDone DEF IInv
<1>2. QED BY <1>1, SpecInv, PTL
=============================================================================
