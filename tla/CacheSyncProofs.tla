-------------------------- MODULE CacheSyncProofs --------------------------
(* Proofs about CacheSync: one run at a time, a report that only moves     *)
(* forward and a finished run that is worth what it counts, for any chats, *)
(* clients, patches, runs and failures.                                    *)
EXTENDS CacheSync, FiniteSetTheorems, TLAPS

Titles == [kind : {"title"}, chat : Chats, title : 1..MaxTitle]
Marks == [kind : {"unread"}, chat : Chats]

ReportType == [id : 0..MaxSyncs, status : {"idle", "running", "done", "failed"},
               running : BOOLEAN, stages : [Stages -> StageReports]]

Working == {"list", "upsert", "fetch", "hand", "end"}

RunType == [at : {"none", "begin", "finish", "ended"} \cup Working,
            stage : Stages, todo : SUBSET [chat : Chats, title : 0..MaxTitle],
            items : Nat, err : BOOLEAN, patch : 1..Patches, got : Seq(Marks),
            failed : Nat, before : Nat]

Types ==
    /\ link \in BOOLEAN /\ joined \in SUBSET Chats /\ unread \in SUBSET joined
    /\ title \in [Chats -> 0..MaxTitle] /\ rows \in [Chats -> RowType]
    /\ counted \in Nat /\ changes \in 0..MaxChanges /\ trouble \in 0..MaxTrouble
    /\ pending \in [1..Patches -> Seq(Marks)] /\ raw \in Seq(Titles \cup Marks)
    /\ current \in ReportType /\ run \in [Syncs -> RunType]

Over == {"done", "failed"}

(* Where a goroutine is, its stage's entry tells; the entries before it    *)
(* are final and those after it untouched.                                 *)
Tells(r, report) ==
    /\ \A k \in Stages :
          /\ k < r.stage => report.stages[k].status \in Over
          /\ k > r.stage => report.stages[k].status = "pending"
    /\ r.at = "begin" => report.stages[r.stage].status = "pending"
    /\ r.at \in Working => report.stages[r.stage].status = "running"
    /\ r.at = "finish" => r.stage = 3 /\ report.stages[r.stage].status \in Over

RunInv ==
    \A s \in Syncs :
        /\ run[s].at \notin {"none", "ended"} =>
              current.running /\ current.id = s /\ Tells(run[s], current)
        /\ run[s].at \in {"list", "upsert"} => run[s].stage \in 1..2
        /\ run[s].at \in {"fetch", "hand"} => run[s].before <= counted

ReportInv ==
    /\ current.running <=> current.status = "running"
    /\ current.id = 0 => current = NoReport
    /\ current.id # 0 => run[current.id].at # "none"

IInv == Types /\ RunInv /\ ReportInv

-----------------------------------------------------------------------------
LEMMA IInvTypeOK == IInv => TypeOK
  BY SMT DEF IInv, Types, RunInv, ReportInv, Tells, TypeOK, ReportType, Over, Syncs, Stages

LEMMA InitIInv == Init => IInv
<1> SUFFICES ASSUME Init PROVE IInv
  OBVIOUS
<1> USE CacheSyncAssumption
<1>1. Types
  BY SMT DEF Init, Types, NoRow, RowType, NoReport, Pending, ReportType, StageReports, Statuses,
             NoRun, RunType, Working, Chats, Stages
<1>2. RunInv /\ ReportInv
  BY SMT DEF Init, RunInv, ReportInv, NoRun, NoReport, Working
<1> QED
  BY <1>1, <1>2 DEF IInv

-----------------------------------------------------------------------------
(* The steps of a run change its own goroutine and, at a stage's borders,  *)
(* that stage's entry.                                                     *)

LEMMA Alone ==
    ASSUME IInv, NEW s \in Syncs, run[s].at \notin {"none", "ended"}
    PROVE  /\ run[s] \in RunType /\ run[s].stage \in Stages
           /\ current.running /\ current.id = s /\ Tells(run[s], current)
           /\ \A r \in Syncs : r # s => run[r].at \in {"none", "ended"}
  BY DEF IInv, Types, RunType, RunInv

LEMMA NoRunType == NoRun \in RunType
  <1>1. 1 \in 1..Patches /\ <<>> \in Seq(Marks)
    BY CacheSyncAssumption
  <1> QED
    BY <1>1 DEF NoRun, RunType, Stages

LEMMA TroubleType ==
    ASSUME IInv, Troubled \/ UNCHANGED trouble PROVE trouble' \in 0..MaxTrouble
  BY CacheSyncAssumption DEF IInv, Types, Troubled

(* A step inside a stage.                                                  *)
LEMMA StaysInStage ==
    ASSUME IInv, NEW s \in Syncs, run[s].at \in Working,
           NEW r \in RunType, r.at \in Working, r.stage = run[s].stage,
           r.at \in {"list", "upsert"} => r.stage \in 1..2,
           r.at \in {"fetch", "hand"} => r.before <= counted,
           run' = [run EXCEPT ![s] = r], UNCHANGED <<current, counted>>
    PROVE  run' \in [Syncs -> RunType] /\ RunInv' /\ ReportInv'
<1>1. run[s].at \notin {"none", "ended"}
  BY DEF Working
<1>2. /\ current.running /\ current.id = s /\ Tells(run[s], current)
      /\ \A q \in Syncs : q # s => run[q].at \in {"none", "ended"}
  BY <1>1, Alone
<1>3. run' \in [Syncs -> RunType] /\ run'[s] = r /\ \A q \in Syncs : q # s => run'[q] = run[q]
  BY DEF IInv, Types
<1>4. Tells(run[s], current)' 
  BY <1>2, <1>3 DEF Tells, Working
<1>5. RunInv'
  BY <1>1, <1>2, <1>3, <1>4 DEF RunInv
<1>6. ReportInv'
  BY <1>1, <1>2, <1>3 DEF IInv, ReportInv, Syncs, Working
<1> QED
  BY <1>3, <1>5, <1>6

LEMMA BeginStageStep ==
    ASSUME IInv, NEW s \in Syncs, BeginStage(s) PROVE IInv'
<1> USE CacheSyncAssumption DEF IInv
<1>1. run[s] \in RunType /\ run[s].stage \in Stages /\ run[s].at = "begin"
  BY DEF Types, RunType, BeginStage
<1>2. current.running /\ current.id = s /\ Tells(run[s], current)
  BY <1>1, Alone
<1>3. \A r \in Syncs : r # s => run[r].at \in {"none", "ended"}
  BY <1>1, Alone
<1>4. Types'
  <2>1. run' \in [Syncs -> RunType]
    BY <1>1 DEF Types, RunType, BeginStage, Working
  <2>2. current' \in ReportType
    <3> DEFINE stages == [current.stages EXCEPT ![run[s].stage].status = "running"]
    <3>1. stages \in [Stages -> StageReports]
      BY <1>1 DEF Types, ReportType, StageReports, Statuses
    <3>2. current' = [current EXCEPT !.stages = stages]
      BY DEF BeginStage
    <3> QED
      BY <3>1, <3>2 DEF Types, ReportType
  <2> QED
    BY <2>1, <2>2 DEF Types, BeginStage, Env, server
<1>5. RunInv'
  <2>1. /\ run'[s].at \in {"list", "fetch"} /\ run'[s].stage = run[s].stage
        /\ run'[s].at = "list" => run[s].stage \in 1..2
        /\ run'[s].at = "fetch" => run'[s].before = counted
    BY <1>1 DEF Types, RunType, BeginStage, Stages
  <2>2. \A k \in Stages : current'.stages[k].status =
              IF k = run[s].stage THEN "running" ELSE current.stages[k].status
    BY <1>1 DEF Types, ReportType, StageReports, BeginStage
  <2>3. current'.running /\ current'.id = s
    BY <1>2 DEF Types, ReportType, BeginStage
  <2>4. counted' = counted /\ counted \in Nat
    BY DEF Types, BeginStage
  <2>5. \A k \in Stages :
           /\ k < run[s].stage => current.stages[k].status \in Over
           /\ k > run[s].stage => current.stages[k].status = "pending"
    BY <1>2 DEF Tells
  <2>6. Tells(run[s], current)'
    BY <1>1, <2>1, <2>2, <2>5 DEF Tells, Working, Stages
  <2>7. \A r \in Syncs : r # s => run'[r].at \in {"none", "ended"}
    BY <1>3 DEF Types, BeginStage
  <2> QED
    BY <2>1, <2>3, <2>4, <2>6, <2>7 DEF RunInv
<1>6. ReportInv'
  <2>1. run'[s].at # "none"
    BY <1>1 DEF Types, RunType, BeginStage
  <2>2. current'.running = current.running /\ current'.status = current.status /\ current'.id = s
    BY <1>2 DEF Types, ReportType, BeginStage
  <2>3. s # 0
    BY DEF Syncs
  <2> QED
    BY <2>1, <2>2, <2>3 DEF ReportInv
<1> QED
  BY <1>4, <1>5, <1>6

LEMMA ListStep ==
    ASSUME IInv, NEW s \in Syncs, List(s) PROVE IInv'
<1> USE CacheSyncAssumption
<1>1. run[s] \in RunType /\ run[s].at = "list" /\ run[s].stage \in 1..2
  BY DEF IInv, Types, RunInv, List
<1>2. PICK r \in RunType : /\ run' = [run EXCEPT ![s] = r] /\ r.stage = run[s].stage
                           /\ r.at \in {"upsert", "end"}
  <2> DEFINE listed == {[chat |-> c, title |-> title[c]] : c \in joined \cap Of(run[s].stage)}
  <2>1. CASE run' = [run EXCEPT ![s].at = "upsert", ![s].todo = listed]
    <3>1. listed \in SUBSET [chat : Chats, title : 0..MaxTitle]
      BY DEF IInv, Types
    <3> HIDE DEF listed
    <3>2. run' = [run EXCEPT ![s] = [run[s] EXCEPT !.at = "upsert", !.todo = listed]]
      BY <1>1, <2>1 DEF IInv, Types, RunType
    <3>3. [run[s] EXCEPT !.at = "upsert", !.todo = listed] \in RunType
      BY <1>1, <3>1 DEF RunType, Working
    <3> QED
      BY <1>1, <3>2, <3>3 DEF RunType
  <2>2. CASE run' = [run EXCEPT ![s].at = "end", ![s].err = TRUE]
    <3>1. run' = [run EXCEPT ![s] = [run[s] EXCEPT !.at = "end", !.err = TRUE]]
      BY <1>1, <2>2 DEF IInv, Types, RunType
    <3>2. [run[s] EXCEPT !.at = "end", !.err = TRUE] \in RunType
      BY <1>1 DEF RunType, Working
    <3> QED
      BY <1>1, <3>1, <3>2 DEF RunType
  <2> QED
    BY <2>1, <2>2 DEF List
<1>3. run' \in [Syncs -> RunType] /\ RunInv' /\ ReportInv'
  BY <1>1, <1>2, StaysInStage DEF Working, List
<1>4. trouble' \in 0..MaxTrouble
  BY TroubleType DEF List
<1> QED
  BY <1>3, <1>4 DEF IInv, Types, List, Env, server

LEMMA UpsertListedStep ==
    ASSUME IInv, NEW s \in Syncs, UpsertListed(s) PROVE IInv'
<1> USE CacheSyncAssumption
<1>1. run[s] \in RunType /\ run[s].at = "upsert" /\ run[s].stage \in 1..2
  BY DEF IInv, Types, RunInv, UpsertListed
<1>2. PICK r \in RunType : /\ run' = [run EXCEPT ![s] = r] /\ r.stage = run[s].stage
                           /\ r.at \in {"upsert", "end"}
  <2>1. ASSUME NEW g \in run[s].todo,
               run' = [run EXCEPT ![s].todo = @ \ {g}, ![s].items = @ + 1]
        PROVE  \E r \in RunType : /\ run' = [run EXCEPT ![s] = r] /\ r.stage = run[s].stage
                                  /\ r.at = "upsert"
    <3> DEFINE r == [run[s] EXCEPT !.todo = run[s].todo \ {g}, !.items = run[s].items + 1]
    <3> DEFINE rest == run[s].todo \ {g}
    <3>0. rest \in SUBSET [chat : Chats, title : 0..MaxTitle] /\ run[s].items + 1 \in Nat
      BY <1>1 DEF RunType
    <3> HIDE DEF rest
    <3>1. /\ [run[s] EXCEPT !.todo = rest, !.items = run[s].items + 1] \in RunType
          /\ [run[s] EXCEPT !.todo = rest, !.items = run[s].items + 1].stage = run[s].stage
          /\ [run[s] EXCEPT !.todo = rest, !.items = run[s].items + 1].at = "upsert"
      BY <1>1, <3>0 DEF RunType
    <3> USE DEF rest
    <3>2. run' = [run EXCEPT ![s] = r]
      BY <1>1, <2>1 DEF RunType, IInv, Types
    <3> QED
      BY <3>1, <3>2
  <2>2. ASSUME NEW g \in run[s].todo, run' = [run EXCEPT ![s].todo = @ \ {g}]
        PROVE  \E r \in RunType : /\ run' = [run EXCEPT ![s] = r] /\ r.stage = run[s].stage
                                  /\ r.at = "upsert"
    <3> DEFINE r == [run[s] EXCEPT !.todo = run[s].todo \ {g}]
    <3>1. r \in RunType /\ r.stage = run[s].stage /\ r.at = "upsert"
      BY <1>1 DEF RunType
    <3>2. run' = [run EXCEPT ![s] = r]
      BY <1>1, <2>2 DEF RunType, IInv, Types
    <3> QED
      BY <3>1, <3>2
  <2>3. ASSUME run' = [run EXCEPT ![s].at = "end"]
        PROVE  /\ [run[s] EXCEPT !.at = "end"] \in RunType
               /\ run' = [run EXCEPT ![s] = [run[s] EXCEPT !.at = "end"]]
    BY <1>1, <2>3 DEF RunType, Working, IInv, Types
  <2>4. \/ \E g \in run[s].todo : run' = [run EXCEPT ![s].todo = @ \ {g}, ![s].items = @ + 1]
        \/ \E g \in run[s].todo : run' = [run EXCEPT ![s].todo = @ \ {g}]
        \/ run' = [run EXCEPT ![s].at = "end"]
    BY DEF UpsertListed
  <2> QED
    BY <1>1, <2>1, <2>2, <2>3, <2>4 DEF RunType
<1>3. run' \in [Syncs -> RunType] /\ RunInv' /\ ReportInv'
  BY <1>1, <1>2, StaysInStage DEF Working, UpsertListed
<1>4. rows' \in [Chats -> RowType] /\ trouble' \in 0..MaxTrouble
  <2>1. \A g \in run[s].todo : g.chat \in Chats /\ g.title \in 0..MaxTitle
    BY <1>1 DEF RunType
  <2>2. ASSUME NEW row \in RowType, NEW name \in 0..MaxTitle PROVE Upserted(row, name) \in RowType
    BY DEF Upserted, RowType
  <2>3. ASSUME NEW g \in run[s].todo, rows' = [rows EXCEPT ![g.chat] = Upserted(@, g.title)]
        PROVE  rows' \in [Chats -> RowType]
    BY <2>1, <2>2, <2>3 DEF IInv, Types
  <2>4. rows' \in [Chats -> RowType]
    BY <2>3 DEF UpsertListed, IInv, Types
  <2>5. Troubled \/ UNCHANGED trouble
    BY DEF UpsertListed
  <2> QED
    BY <2>4, <2>5, TroubleType
<1> QED
  BY <1>3, <1>4 DEF IInv, Types, UpsertListed, Env, server

(* NextPatch stays inside the stage, or leaves it for its end.             *)
LEMMA NextPatchStep ==
    ASSUME IInv, NEW s \in Syncs, run[s].at \in {"fetch", "hand"},
           NEW items \in Nat, NEW failed \in Nat, NextPatch(s, items, failed),
           UNCHANGED <<current, counted>>
    PROVE  run' \in [Syncs -> RunType] /\ RunInv' /\ ReportInv'
<1> USE CacheSyncAssumption
<1>1. run[s] \in RunType /\ run[s].at \in Working /\ counted \in Nat
  BY DEF IInv, Types, Working
<1>2. CASE run[s].patch = Patches
  <2> DEFINE r == [run[s] EXCEPT !.at = "end", !.items = items, !.failed = failed,
                                 !.err = failed = Patches]
  <2>1. r \in RunType /\ r.stage = run[s].stage /\ r.at = "end"
    BY <1>1 DEF RunType, Working
  <2>2. run' = [run EXCEPT ![s] = r]
    BY <1>1, <1>2 DEF NextPatch, IInv, Types, RunType
  <2> QED
    BY <1>1, <2>1, <2>2, StaysInStage DEF Working
<1>3. CASE run[s].patch # Patches
  <2> DEFINE r == [run[s] EXCEPT !.at = "fetch", !.patch = run[s].patch + 1, !.items = items,
                                 !.failed = failed, !.before = counted]
  <2>1. run[s].patch + 1 \in 1..Patches
    BY <1>1, <1>3 DEF RunType
  <2>2. r \in RunType /\ r.stage = run[s].stage /\ r.at = "fetch" /\ r.before = counted
    BY <1>1, <2>1 DEF RunType, Working
  <2>3. run' = [run EXCEPT ![s] = r]
    BY <1>1, <1>3 DEF NextPatch, IInv, Types, RunType
  <2> HIDE DEF r
  <2>4. r.at \in Working /\ r.at \notin {"list", "upsert"} /\ r.before <= counted
    BY <1>1, <2>2 DEF Working
  <2> QED
    BY <1>1, <2>2, <2>3, <2>4, StaysInStage
<1> QED
  BY <1>2, <1>3

LEMMA FetchPatchStep ==
    ASSUME IInv, NEW s \in Syncs, FetchPatch(s) PROVE IInv'
<1> USE CacheSyncAssumption
<1>1. /\ run[s] \in RunType /\ run[s].at = "fetch" /\ run[s].before <= counted
      /\ run[s].patch \in 1..Patches /\ pending[run[s].patch] \in Seq(Marks)
  BY DEF IInv, Types, RunType, RunInv, FetchPatch
<1>2. run' \in [Syncs -> RunType] /\ RunInv' /\ ReportInv'
  <2>1. CASE run' = [run EXCEPT ![s].at = "hand", ![s].got = pending[run[s].patch]]
    <3> DEFINE r == [run[s] EXCEPT !.at = "hand", !.got = pending[run[s].patch]]
    <3>1. r \in RunType /\ r.stage = run[s].stage /\ r.at = "hand" /\ r.before = run[s].before
      BY <1>1 DEF RunType, Working
    <3>2. run' = [run EXCEPT ![s] = r]
      BY <1>1, <2>1 DEF IInv, Types, RunType
    <3> QED
      BY <1>1, <3>1, <3>2, StaysInStage DEF Working, FetchPatch
  <2>2. CASE NextPatch(s, run[s].items, run[s].failed + 1)
    <3>1. run[s].items \in Nat /\ run[s].failed + 1 \in Nat
      BY <1>1 DEF RunType
    <3> QED
      BY <1>1, <2>2, <3>1, NextPatchStep DEF FetchPatch
  <2> QED
    BY <2>1, <2>2 DEF FetchPatch
<1>3. pending' \in [1..Patches -> Seq(Marks)]
  <2>1. pending' = [pending EXCEPT ![run[s].patch] = <<>>] \/ pending' = pending
    BY DEF FetchPatch
  <2>2. <<>> \in Seq(Marks) /\ pending \in [1..Patches -> Seq(Marks)]
    BY DEF IInv, Types
  <2> QED
    BY <1>1, <2>1, <2>2
<1>4. trouble' \in 0..MaxTrouble
  BY TroubleType DEF FetchPatch
<1> QED
  BY <1>2, <1>3, <1>4 DEF IInv, Types, FetchPatch

LEMMA HandOverStep ==
    ASSUME IInv, NEW s \in Syncs, HandOver(s) PROVE IInv'
<1> USE CacheSyncAssumption
<1>1. /\ run[s] \in RunType /\ run[s].at = "hand" /\ run[s].before <= counted
      /\ run[s].got \in Seq(Marks)
  BY DEF IInv, Types, RunType, RunInv, HandOver
<1>2. CASE /\ run[s].got # <<>>
           /\ raw' = Append(raw, Head(run[s].got))
           /\ run' = [run EXCEPT ![s].got = Tail(@)]
  <2> DEFINE r == [run[s] EXCEPT !.got = Tail(run[s].got)]
  <2>1. Head(run[s].got) \in Marks /\ Tail(run[s].got) \in Seq(Marks)
    BY <1>1, <1>2
  <2>2. r \in RunType /\ r.stage = run[s].stage /\ r.at = "hand" /\ r.before = run[s].before
    BY <1>1, <2>1 DEF RunType, Working
  <2>3. run' = [run EXCEPT ![s] = r]
    BY <1>1, <1>2 DEF IInv, Types, RunType
  <2>4. run' \in [Syncs -> RunType] /\ RunInv' /\ ReportInv'
    BY <1>1, <2>2, <2>3, StaysInStage DEF Working, HandOver
  <2>5. raw' \in Seq(Titles \cup Marks)
    BY <1>2, <2>1 DEF IInv, Types
  <2> QED
    BY <2>4, <2>5 DEF IInv, Types, HandOver, Env, server
<1>3. CASE /\ NextPatch(s, run[s].items + (counted - run[s].before), run[s].failed)
           /\ UNCHANGED raw
  <2>1. run[s].items + (counted - run[s].before) \in Nat /\ run[s].failed \in Nat
    BY <1>1 DEF RunType, IInv, Types
  <2>2. run' \in [Syncs -> RunType] /\ RunInv' /\ ReportInv'
    BY <1>1, <1>3, <2>1, NextPatchStep DEF HandOver
  <2> QED
    BY <1>3, <2>2 DEF IInv, Types, HandOver, Env, server
<1> QED
  BY <1>2, <1>3 DEF HandOver

LEMMA EndStageStep ==
    ASSUME IInv, NEW s \in Syncs, EndStage(s) PROVE IInv'
<1> USE CacheSyncAssumption
<1>1. run[s] \in RunType /\ run[s].stage \in Stages /\ run[s].at = "end"
  BY DEF IInv, Types, RunType, EndStage
<1>2. /\ current.running /\ current.id = s /\ Tells(run[s], current)
      /\ \A r \in Syncs : r # s => run[r].at \in {"none", "ended"}
  BY <1>1, Alone
<1> DEFINE entry == [status |-> IF run[s].err THEN "failed" ELSE "done", items |-> run[s].items]
           stages == [current.stages EXCEPT ![run[s].stage] = entry]
           r == IF run[s].stage = 3 THEN [NoRun EXCEPT !.at = "finish", !.stage = 3]
                ELSE [NoRun EXCEPT !.at = "begin", !.stage = run[s].stage + 1]
<1>3. entry \in StageReports /\ entry.status \in Over
  BY <1>1 DEF RunType, StageReports, Statuses, Over
<1>4. stages \in [Stages -> StageReports]
  BY <1>1, <1>3 DEF IInv, Types, ReportType
<1>5. current' = [current EXCEPT !.stages = stages]
  BY DEF EndStage
<1>6. current' \in ReportType /\ current'.running /\ current'.id = s /\ current'.status = current.status
  BY <1>2, <1>4, <1>5 DEF IInv, Types, ReportType
<1>7. \A k \in Stages : current'.stages[k] = IF k = run[s].stage THEN entry ELSE current.stages[k]
  BY <1>1, <1>4, <1>5 DEF IInv, Types, ReportType
<1>8. run' = [run EXCEPT ![s] = r]
  BY <1>1 DEF EndStage, IInv, Types, RunType
<1>9. r \in RunType /\ r.at \in {"begin", "finish"} /\ (r.at = "finish" <=> run[s].stage = 3)
      /\ r.stage = IF run[s].stage = 3 THEN 3 ELSE run[s].stage + 1
  <2>1. CASE run[s].stage = 3
    <3>1. r = [NoRun EXCEPT !.at = "finish", !.stage = 3]
      BY <2>1
    <3> HIDE DEF r
    <3>2. r \in RunType
      BY <2>1, <3>1, <1>1, NoRunType DEF RunType
    <3>3. r.at = "finish" /\ r.stage = 3
      BY <3>1, NoRunType DEF RunType
    <3> QED
      BY <2>1, <3>2, <3>3
  <2>2. CASE run[s].stage # 3
    <3>1. r = [NoRun EXCEPT !.at = "begin", !.stage = run[s].stage + 1] /\ run[s].stage + 1 \in Stages
      BY <1>1, <2>2 DEF Stages
    <3> HIDE DEF r
    <3> DEFINE next == run[s].stage + 1
    <3>2. r = [NoRun EXCEPT !.at = "begin", !.stage = next] /\ next \in Stages
      BY <3>1
    <3> HIDE DEF next
    <3>3. r \in RunType /\ r.at = "begin" /\ r.stage = next
      BY <3>2, NoRunType DEF RunType
    <3> QED
      BY <2>2, <3>3 DEF next
  <2> QED
    BY <2>1, <2>2
<1>10. run' \in [Syncs -> RunType] /\ run'[s] = r /\ \A q \in Syncs : q # s => run'[q] = run[q]
  BY <1>8, <1>9 DEF IInv, Types
<1>11. Tells(run[s], current)'
  <2> HIDE DEF r, entry, stages
  <2>1. \A k \in Stages : k < run[s].stage => current.stages[k].status \in Over
    BY <1>2 DEF Tells
  <2>2. \A k \in Stages : k > run[s].stage => current.stages[k].status = "pending"
    BY <1>2 DEF Tells
  <2>3. \A k \in Stages : k < r.stage => current'.stages[k].status \in Over
    BY <1>1, <1>3, <1>7, <1>9, <2>1 DEF Stages
  <2>4. \A k \in Stages : k > r.stage => current'.stages[k].status = "pending"
    BY <1>1, <1>7, <1>9, <2>2 DEF Stages
  <2>5. r.at = "begin" => current'.stages[r.stage].status = "pending"
    BY <1>1, <1>7, <1>9, <2>2 DEF Stages
  <2>6. r.at = "finish" => r.stage = 3 /\ current'.stages[r.stage].status \in Over
    BY <1>1, <1>3, <1>7, <1>9 DEF Stages
  <2> QED
    BY <1>9, <1>10, <2>3, <2>4, <2>5, <2>6 DEF Tells, Working
<1> HIDE DEF r, entry, stages
<1>12. RunInv'
  BY <1>2, <1>6, <1>9, <1>10, <1>11 DEF RunInv
<1>13. ReportInv'
  BY <1>2, <1>6, <1>9, <1>10 DEF IInv, ReportInv, Syncs
<1> QED
  BY <1>6, <1>10, <1>12, <1>13 DEF IInv, Types, EndStage, Env, server

LEMMA FinishStep ==
    ASSUME IInv, NEW s \in Syncs, Finish(s) PROVE IInv'
<1> USE CacheSyncAssumption
<1>1. run[s].at = "finish" /\ current.running /\ current.id = s
      /\ \A r \in Syncs : r # s => run[r].at \in {"none", "ended"}
  BY Alone DEF Finish
<1> DEFINE r == [NoRun EXCEPT !.at = "ended"]
<1>2. r \in RunType /\ r.at = "ended"
  BY NoRunType DEF RunType
<1>3. run' \in [Syncs -> RunType] /\ run'[s] = r /\ \A q \in Syncs : q # s => run'[q] = run[q]
  BY <1>2 DEF Finish, IInv, Types
<1> HIDE DEF r
<1>4. /\ current' \in ReportType /\ ~current'.running /\ current'.id = s
      /\ current'.status \in {"failed", "done"}
  BY <1>1 DEF Finish, IInv, Types, ReportType
<1>5. RunInv'
  BY <1>1, <1>2, <1>3 DEF RunInv
<1>6. ReportInv'
  BY <1>2, <1>3, <1>4 DEF ReportInv, Syncs
<1> QED
  BY <1>3, <1>4, <1>5, <1>6 DEF IInv, Types, Finish, Env, server

LEMMA StartStep ==
    ASSUME IInv, NEW c \in Clients, Start(c) PROVE IInv'
<1> USE CacheSyncAssumption
<1>1. CASE UNCHANGED <<current, run>>
  BY <1>1 DEF Start, IInv, Types, RunInv, ReportInv, Tells, server
<1>2. ASSUME ~current.running, NEW s \in Syncs, run[s].at = "none", current' = Fresh(s),
             run' = [run EXCEPT ![s] = [NoRun EXCEPT !.at = "begin"]]
      PROVE  IInv'
  <2> DEFINE r == [NoRun EXCEPT !.at = "begin"]
  <2>1. r \in RunType /\ r.at = "begin" /\ r.stage = 1
    BY NoRunType DEF RunType, NoRun
  <2>2. run' \in [Syncs -> RunType] /\ run'[s] = r /\ \A q \in Syncs : q # s => run'[q] = run[q]
    BY <1>2, <2>1 DEF IInv, Types
  <2> HIDE DEF r
  <2>3. /\ current' \in ReportType /\ current'.running /\ current'.id = s
        /\ current'.status = "running"
        /\ \A k \in Stages : current'.stages[k].status = "pending"
    <3>1. NoReport \in ReportType /\ \A k \in Stages : NoReport.stages[k].status = "pending"
      BY DEF NoReport, Pending, ReportType, StageReports, Statuses
    <3>2. current' = [NoReport EXCEPT !.id = s, !.status = "running", !.running = TRUE]
      BY <1>2 DEF Fresh
    <3>3. s \in 0..MaxSyncs
      BY DEF Syncs
    <3> QED
      BY <3>1, <3>2, <3>3 DEF ReportType
  <2>4. \A q \in Syncs : run[q].at \in {"none", "ended"}
    BY <1>2 DEF IInv, RunInv
  <2>5. RunInv'
    BY <2>1, <2>2, <2>3, <2>4 DEF RunInv, Tells, Stages, Working
  <2>6. ReportInv'
    BY <2>1, <2>2, <2>3 DEF ReportInv, Syncs
  <2> QED
    BY <2>2, <2>3, <2>5, <2>6 DEF IInv, Types, Start, server
<1> QED
  BY <1>1, <1>2 DEF Start, Running

-----------------------------------------------------------------------------
(* What the dispatcher, WhatsApp and the phone do leaves every run and the *)
(* report alone; a crash ends them all.                                    *)

LEMMA LeavesRuns ==
    ASSUME IInv, UNCHANGED <<run, current>>, counted' \in Nat, counted' >= counted
    PROVE  RunInv' /\ ReportInv'
<1>1. \A s \in Syncs : run[s].at \in {"fetch", "hand"} => run[s].before <= counted'
  <2> SUFFICES ASSUME NEW s \in Syncs, run[s].at \in {"fetch", "hand"}
               PROVE  run[s].before <= counted'
    OBVIOUS
  <2>1. run[s].before \in Nat /\ counted \in Nat /\ run[s].before <= counted
    BY DEF IInv, Types, RunType, RunInv
  <2> QED
    BY <2>1
<1> QED
  BY <1>1 DEF IInv, RunInv, ReportInv, Tells

LEMMA IngestStep ==
    ASSUME IInv, Ingest PROVE IInv'
<1> USE CacheSyncAssumption
<1> DEFINE e == Head(raw)
<1>1. e \in Titles \cup Marks /\ raw' \in Seq(Titles \cup Marks)
  BY DEF Ingest, IInv, Types
<1>2. e.chat \in Chats /\ (e.kind # "unread" => e.title \in 0..MaxTitle)
  BY <1>1 DEF Titles, Marks
<1>3. \/ rows' = [rows EXCEPT ![e.chat] = MarkedUnread(@)] /\ counted' = counted + 1
      \/ /\ rows' = [rows EXCEPT ![e.chat] = Upserted(@, e.title)] /\ UNCHANGED counted
         /\ e.kind # "unread"
  BY DEF Ingest
<1> HIDE DEF e
<1>4. rows' \in [Chats -> RowType] /\ counted' \in Nat /\ counted' >= counted
  <2>1. rows \in [Chats -> RowType] /\ counted \in Nat
    BY DEF IInv, Types
  <2>2. MarkedUnread(rows[e.chat]) \in RowType
    BY <1>2, <2>1 DEF MarkedUnread, RowType
  <2>3. e.title \in 0..MaxTitle => Upserted(rows[e.chat], e.title) \in RowType
    BY <1>2, <2>1 DEF Upserted, RowType
  <2> QED
    BY <1>2, <1>3, <2>1, <2>2, <2>3
<1>5. RunInv' /\ ReportInv'
  BY <1>4, LeavesRuns DEF Ingest
<1> QED
  BY <1>1, <1>4, <1>5 DEF IInv, Types, Ingest, server

LEMMA EnvironmentStep ==
    ASSUME IInv,
           \/ \E c \in Clients : Poll(c)
           \/ Disconnect \/ Reconnect
           \/ \E c \in Chats : Rename(c) \/ MarkUnread(c)
           \/ \E p \in 1..Patches : Notified(p)
    PROVE  IInv'
<1> USE CacheSyncAssumption
<1>1. UNCHANGED <<run, current, counted, rows>>
  BY DEF Poll, Disconnect, Reconnect, Rename, MarkUnread, Notified, server
<1>2. RunInv' /\ ReportInv'
  <2>1. counted' \in Nat /\ counted' >= counted
    BY <1>1 DEF IInv, Types
  <2> QED
    BY <1>1, <2>1, LeavesRuns
<1>3. /\ link' \in BOOLEAN /\ joined' \in SUBSET Chats /\ unread' \in SUBSET joined'
      /\ title' \in [Chats -> 0..MaxTitle] /\ changes' \in 0..MaxChanges
      /\ trouble' \in 0..MaxTrouble
      /\ pending' \in [1..Patches -> Seq(Marks)] /\ raw' \in Seq(Titles \cup Marks)
  <2>1. CASE \E c \in Clients : Poll(c)
    BY <2>1 DEF Poll, IInv, Types, server
  <2>2. CASE Disconnect \/ Reconnect
    BY <2>2, TroubleType DEF Disconnect, Reconnect, IInv, Types, server
  <2>3. ASSUME NEW c \in Chats, Rename(c)
        PROVE  /\ title' \in [Chats -> 0..MaxTitle] /\ changes' \in 0..MaxChanges
               /\ joined' \in SUBSET Chats /\ unread' \in SUBSET joined'
               /\ raw' \in Seq(Titles \cup Marks)
    <3>1. title[c] + 1 \in 1..MaxTitle /\ changes + 1 \in 0..MaxChanges
      BY <2>3 DEF Rename, Changed, IInv, Types
    <3>2. title' \in [Chats -> 0..MaxTitle] /\ title'[c] = title[c] + 1
      BY <2>3, <3>1 DEF Rename, IInv, Types
    <3>3. [kind |-> "title", chat |-> c, title |-> title'[c]] \in Titles
      BY <3>1, <3>2 DEF Titles
    <3>4. raw' \in Seq(Titles \cup Marks)
      BY <2>3, <3>3 DEF Rename, IInv, Types
    <3> QED
      BY <2>3, <3>1, <3>2, <3>4 DEF Rename, Changed, IInv, Types
  <2>4. ASSUME NEW c \in Chats, MarkUnread(c)
        PROVE  /\ changes' \in 0..MaxChanges /\ unread' \in SUBSET joined
               /\ pending' \in [1..Patches -> Seq(Marks)]
    <3>1. changes' \in 0..MaxChanges /\ unread' \in SUBSET joined
      BY <2>4 DEF MarkUnread, Changed, IInv, Types
    <3>2. [kind |-> "unread", chat |-> c] \in Marks
      BY DEF Marks
    <3>3. pending' \in [1..Patches -> Seq(Marks)]
      BY <2>4, <3>2 DEF MarkUnread, IInv, Types
    <3> QED
      BY <3>1, <3>3
  <2>5. ASSUME NEW p \in 1..Patches, Notified(p)
        PROVE  pending' \in [1..Patches -> Seq(Marks)] /\ raw' \in Seq(Titles \cup Marks)
    <3>1. Head(pending[p]) \in Marks /\ Tail(pending[p]) \in Seq(Marks)
      BY <2>5 DEF Notified, IInv, Types
    <3> QED
      BY <2>5, <3>1 DEF Notified, IInv, Types
  <2>6. CASE \E c \in Chats : Rename(c)
    BY <2>3, <2>6 DEF Rename, IInv, Types
  <2>7. CASE \E c \in Chats : MarkUnread(c)
    BY <2>4, <2>7 DEF MarkUnread, IInv, Types
  <2>8. CASE \E p \in 1..Patches : Notified(p)
    BY <2>5, <2>8 DEF Notified, IInv, Types
  <2> QED
    BY <2>1, <2>2, <2>6, <2>7, <2>8
<1> QED
  BY <1>1, <1>2, <1>3 DEF IInv, Types

LEMMA CrashStep ==
    ASSUME IInv, Crash PROVE IInv'
<1> USE CacheSyncAssumption
<1>1. run' \in [Syncs -> RunType] /\ \A s \in Syncs : run'[s].at \in {"none", "ended"}
  <2>1. NoRun.at = "none" /\ [NoRun EXCEPT !.at = "ended"].at = "ended"
    BY NoRunType DEF RunType, NoRun
  <2>2. [NoRun EXCEPT !.at = "ended"] \in RunType
    BY NoRunType DEF RunType
  <2> QED
    BY <2>1, <2>2, NoRunType DEF Crash
<1>2. current' \in ReportType /\ current' = NoReport /\ ~current'.running /\ current'.status = "idle"
      /\ current'.id = 0
  BY DEF Crash, NoReport, Pending, ReportType, StageReports, Statuses
<1>3. RunInv' /\ ReportInv'
  BY <1>1, <1>2 DEF RunInv, ReportInv
<1>4. trouble' \in 0..MaxTrouble
  BY TroubleType DEF Crash
<1>5. raw' \in Seq(Titles \cup Marks) /\ counted' \in Nat /\ link' \in BOOLEAN
  BY DEF Crash
<1> QED
  BY <1>1, <1>2, <1>3, <1>4, <1>5 DEF IInv, Types, Crash, server

LEMMA NextIInv == IInv /\ [Next]_vars => IInv'
<1> SUFFICES ASSUME IInv, [Next]_vars PROVE IInv'
  OBVIOUS
<1>1. CASE UNCHANGED vars
  BY <1>1 DEF vars, server, IInv, Types, RunInv, ReportInv, Tells
<1>2. ASSUME NEW s \in Syncs, RunStep(s) PROVE IInv'
  BY <1>2, BeginStageStep, ListStep, UpsertListedStep, FetchPatchStep, HandOverStep,
     EndStageStep, FinishStep DEF RunStep
<1>3. CASE Next
  BY <1>2, <1>3, StartStep, IngestStep, CrashStep, EnvironmentStep DEF Next
<1> QED
  BY <1>1, <1>3

(* At most one run is under way, the report is its report, and each        *)
(* stage's entry tells where it is, however clients start runs and         *)
(* whatever fails.                                                         *)
THEOREM SpecTypeOK == Spec => []TypeOK
<1>1. Spec => []IInv
  BY InitIInv, NextIInv, PTL DEF Spec
<1> QED
  BY <1>1, IInvTypeOK, PTL

-----------------------------------------------------------------------------
(* The report.                                                             *)

Forward ==
    current'.id = current.id =>
        /\ current.status \in {"done", "failed"} => current' = current
        /\ \A k \in Stages :
              LET old == current.stages[k]  new == current'.stages[k] IN
              /\ Order(old.status) <= Order(new.status)
              /\ Order(old.status) = 2 => new = old
              /\ new.status # "pending" /\ k > 1 => Order(current'.stages[k - 1].status) = 2

LEMMA NextForward == IInv /\ [Next]_vars => [Forward]_current
<1> SUFFICES ASSUME IInv, Next, current' # current PROVE Forward
  BY DEF vars
<1> USE CacheSyncAssumption
<1>1. ASSUME NEW c \in Clients, Start(c) PROVE current'.id # current.id
  <2>1. PICK s \in Syncs : run[s].at = "none" /\ current' = Fresh(s)
    BY <1>1 DEF Start
  <2>2. current'.id = s /\ s # 0
    BY <2>1 DEF Fresh, NoReport, Syncs
  <2> QED
    BY <2>1, <2>2 DEF IInv, ReportInv
<1>2. ASSUME Crash, current'.id = current.id PROVE FALSE
  BY <1>2 DEF Crash, NoReport, IInv, ReportInv
<1>3. ASSUME NEW s \in Syncs, RunStep(s) PROVE Forward
  <2>1. BeginStage(s) \/ EndStage(s) \/ Finish(s)
    BY <1>3 DEF RunStep, List, UpsertListed, FetchPatch, HandOver
  <2>2. /\ run[s] \in RunType /\ run[s].stage \in Stages /\ Tells(run[s], current)
        /\ current.running /\ current.status = "running" /\ current \in ReportType
    BY <2>1, Alone DEF BeginStage, EndStage, Finish, IInv, ReportInv, Types
  <2>3. CASE BeginStage(s)
    <3>1. \A k \in Stages : current'.stages[k] =
             IF k = run[s].stage THEN [current.stages[k] EXCEPT !.status = "running"]
             ELSE current.stages[k]
      BY <2>2, <2>3 DEF BeginStage, ReportType
    <3>2. current.stages[run[s].stage].status = "pending"
      BY <2>2, <2>3 DEF BeginStage, Tells
    <3> QED
      BY <2>2, <3>1, <3>2 DEF Forward, Order, Tells, Stages, Over, ReportType, StageReports, Statuses
  <2>4. CASE EndStage(s)
    <3> DEFINE entry == [status |-> IF run[s].err THEN "failed" ELSE "done",
                         items |-> run[s].items]
               stages == [current.stages EXCEPT ![run[s].stage] = entry]
    <3>1. entry.status \in Over
      BY DEF Over
    <3>3. current' = [current EXCEPT !.stages = stages]
      BY <2>4 DEF EndStage
    <3>4. \A k \in Stages : current'.stages[k] =
             IF k = run[s].stage THEN entry ELSE current.stages[k]
      BY <2>2, <3>3 DEF ReportType
    <3> HIDE DEF entry, stages
    <3>2. current.stages[run[s].stage].status = "running"
      BY <2>2, <2>4 DEF EndStage, Tells, Working
    <3> QED
      BY <2>2, <3>1, <3>2, <3>4
      DEF Forward, Order, Tells, Stages, Over, ReportType, StageReports, Statuses
  <2>5. CASE Finish(s)
    <3>1. current'.stages = current.stages
      BY <2>2, <2>5 DEF Finish, ReportType
    <3>2. \A k \in Stages : current.stages[k].status \in Over
      BY <2>2, <2>5 DEF Finish, Tells, Stages
    <3> QED
      BY <2>2, <3>1, <3>2 DEF Forward, Order, Stages, Over, ReportType, StageReports, Statuses
  <2> QED
    BY <2>1, <2>3, <2>4, <2>5
<1> QED
  BY <1>1, <1>2, <1>3 DEF Next, Forward, Ingest, Poll, Disconnect, Reconnect, Rename, MarkUnread,
                          Notified

(* A report only moves forward, for any number of runs, clients and        *)
(* failures: no stage goes back, a finished stage and a finished report    *)
(* are final.                                                              *)
THEOREM SpecReportOnlyMovesForward == Spec => ReportOnlyMovesForward
<1>1. IInv /\ [Next]_vars => [Forward]_current
  BY NextForward
<1>2. Spec => []IInv
  BY InitIInv, NextIInv, PTL DEF Spec
<1>3. Spec => [][Forward]_current
  BY <1>1, <1>2, PTL DEF Spec
<1> QED
  BY <1>3 DEF ReportOnlyMovesForward, Forward

-----------------------------------------------------------------------------
(* What a finished run is worth.  While the call of a client that started  *)
(* a run is still quiet, WhatsApp's lists are the ones it asked about, and *)
(* every run under way began after the call: so each of them lists these   *)
(* chats under these titles, and no event overwrites them.                 *)

CallType == [at : {"idle", "not_paired", "polling", "finished", "lost"}, id : 0..MaxSyncs,
             started : BOOLEAN, quiet : BOOLEAN,
             asked : [chats : SUBSET Chats, title : [Chats -> 0..MaxTitle], unread : SUBSET Chats],
             report : ReportType]

(* J, T and R stand for joined, title and rows.                            *)
InTable(g, T, R) == R[g].known /\ R[g].title = T[g]

Entry(g, T) == [chat |-> g, title |-> T[g]]

(* What the loop of a run's stage has left behind it.                      *)
Handled(r, J, T) == {g \in J \cap Of(r.stage) : Entry(g, T) \notin r.todo}

(* A stage that counts as many items as there are chats missed none.       *)
Complete(k, items, J, T, R) ==
    items = Cardinality(J \cap Of(k)) => \A g \in J \cap Of(k) : InTable(g, T, R)

(* The loop: every item counted is a chat handled, and as many items as    *)
(* chats handled means that all of them are in the table.                  *)
InLoop(r, J, T, R) ==
    /\ \A e \in r.todo : \E g \in J \cap Of(r.stage) : e = Entry(g, T)
    /\ r.items <= Cardinality(Handled(r, J, T))
    /\ r.items = Cardinality(Handled(r, J, T)) => \A g \in Handled(r, J, T) : InTable(g, T, R)

OnCourse(r, J, T, R) ==
    /\ r.at \in {"begin", "list"} => r.items = 0
    /\ r.at \in {"fetch", "hand"} => r.stage = 3
    /\ r.at = "upsert" => InLoop(r, J, T, R)
    /\ r.at = "end" /\ r.stage # 3 /\ ~r.err => Complete(r.stage, r.items, J, T, R)

Worth(report, J, T, R) ==
    \A k \in 1..2 : report.stages[k].status = "done" =>
        Complete(k, report.stages[k].items, J, T, R)

Watched(calls, c) == calls[c].started /\ calls[c].quiet

Settled ==
    /\ raw \in Seq(Marks)
    /\ \A s \in Syncs : OnCourse(run[s], joined, title, rows)
    /\ Worth(current, joined, title, rows)

QuietInv ==
    /\ call \in [Clients -> CallType]
    /\ \A g \in joined : title[g] # 0
    /\ \A c \in Clients : Watched(call, c) =>
          /\ Settled /\ call[c].asked.chats = joined
          /\ call[c].at = "finished" => Worth(call[c].report, joined, title, rows)

-----------------------------------------------------------------------------
(* The loop of a stage.                                                    *)

LEMMA ListedFinite ==
    ASSUME NEW J \in SUBSET Chats, NEW k PROVE IsFiniteSet(J \cap Of(k))
<1>1. IsFiniteSet(Of(k)) /\ J \cap Of(k) \in SUBSET Of(k)
  BY CacheSyncAssumption DEF Of
<1> QED
  BY <1>1, FS_Subset

LEMMA HandledFinite ==
    ASSUME NEW J \in SUBSET Chats, NEW T, NEW r
    PROVE  IsFiniteSet(Handled(r, J, T)) /\ Cardinality(Handled(r, J, T)) \in Nat
<1>1. Handled(r, J, T) \in SUBSET (J \cap Of(r.stage))
  BY DEF Handled
<1> QED
  BY <1>1, ListedFinite, FS_Subset, FS_CardinalityType

(* What changes in the table leaves the chats in it that are.              *)
Keeps(J, T, R, R2) == \A g \in J : InTable(g, T, R) => InTable(g, T, R2)

LEMMA LoopStep ==
    ASSUME NEW J \in SUBSET Chats, NEW T, NEW R, NEW R2, Keeps(J, T, R, R2),
           NEW r, r.items \in Nat, InLoop(r, J, T, R),
           NEW g \in J \cap Of(r.stage), Entry(g, T) \in r.todo,
           NEW q, q.stage = r.stage, q.todo = r.todo \ {Entry(g, T)},
           \/ q.items = r.items + 1 /\ InTable(g, T, R2)
           \/ q.items = r.items
    PROVE  InLoop(q, J, T, R2)
<1>1. Handled(q, J, T) = Handled(r, J, T) \cup {g} /\ g \notin Handled(r, J, T)
  <2>1. \A x : Entry(x, T) = Entry(g, T) => x = g
    BY DEF Entry
  <2> QED
    BY <2>1 DEF Handled
<1>2. /\ Cardinality(Handled(q, J, T)) = Cardinality(Handled(r, J, T)) + 1
      /\ Cardinality(Handled(r, J, T)) \in Nat
  BY <1>1, HandledFinite, FS_AddElement
<1>3. \A e \in q.todo : \E x \in J \cap Of(q.stage) : e = Entry(x, T)
  BY DEF InLoop
<1>4. r.items <= Cardinality(Handled(r, J, T))
  BY DEF InLoop
<1>5. q.items <= Cardinality(Handled(q, J, T))
  BY <1>2, <1>4
<1>6. ASSUME q.items = Cardinality(Handled(q, J, T)), NEW x \in Handled(q, J, T)
      PROVE  InTable(x, T, R2)
  <2>1. q.items = r.items + 1 /\ InTable(g, T, R2) /\ r.items = Cardinality(Handled(r, J, T))
    BY <1>2, <1>4, <1>6
  <2>2. CASE x = g
    BY <2>1, <2>2
  <2>3. CASE x \in Handled(r, J, T)
    <3>1. x \in J
      BY <2>3 DEF Handled
    <3> QED
      BY <2>1, <2>3, <3>1 DEF InLoop, Keeps
  <2> QED
    BY <1>1, <1>6, <2>2, <2>3
<1> QED
  BY <1>3, <1>5, <1>6 DEF InLoop

LEMMA LoopBegins ==
    ASSUME NEW J \in SUBSET Chats, NEW T, NEW R, NEW r, r.items = 0,
           r.todo = {[chat |-> c, title |-> T[c]] : c \in J \cap Of(r.stage)}
    PROVE  InLoop(r, J, T, R)
<1>1. Handled(r, J, T) = {}
  BY DEF Handled, Entry
<1> QED
  BY <1>1, FS_EmptySet DEF InLoop, Entry

LEMMA LoopEnds ==
    ASSUME NEW J \in SUBSET Chats, NEW T, NEW R, NEW r, InLoop(r, J, T, R), r.todo = {}
    PROVE  Complete(r.stage, r.items, J, T, R)
<1>1. Handled(r, J, T) = J \cap Of(r.stage)
  BY DEF Handled
<1> QED
  BY <1>1 DEF InLoop, Complete

LEMMA Persists ==
    ASSUME NEW J \in SUBSET Chats, NEW T, NEW R, NEW R2, Keeps(J, T, R, R2)
    PROVE  /\ \A r : OnCourse(r, J, T, R) => OnCourse(r, J, T, R2)
           /\ \A report : Worth(report, J, T, R) => Worth(report, J, T, R2)
<1>1. \A k, n : Complete(k, n, J, T, R) => Complete(k, n, J, T, R2)
  BY DEF Complete, Keeps
<1>2. \A r : Handled(r, J, T) \subseteq J
  BY DEF Handled
<1>3. \A r : InLoop(r, J, T, R) => InLoop(r, J, T, R2)
  BY <1>2 DEF InLoop, Keeps
<1>4. \A r : OnCourse(r, J, T, R) => OnCourse(r, J, T, R2)
  BY <1>1, <1>3 DEF OnCourse
<1>5. \A report : Worth(report, J, T, R) => Worth(report, J, T, R2)
  BY <1>1 DEF Worth
<1> QED
  BY <1>4, <1>5

-----------------------------------------------------------------------------
(* The steps of a run.                                                     *)

Persistent == Keeps(joined, title, rows, rows')

(* A run's step that keeps it on course keeps the others there.            *)
LEMMA KeepsCourse ==
    ASSUME IInv, Settled, NEW s \in Syncs, NEW r, run' = [run EXCEPT ![s] = r],
           Persistent, OnCourse(r, joined, title, rows'), Worth(current', joined, title, rows'),
           raw' \in Seq(Marks), UNCHANGED <<joined, title>>
    PROVE  Settled'
<1>1. joined \in SUBSET Chats
  BY DEF IInv, Types
<1>2. \A q \in Syncs : run'[q] = IF q = s THEN r ELSE run[q]
  BY DEF IInv, Types
<1>3. \A q \in Syncs : OnCourse(run[q], joined, title, rows')
  BY <1>1, Persists DEF Settled, Persistent
<1>4. \A q \in Syncs : OnCourse(run'[q], joined, title, rows')
  BY <1>2, <1>3
<1> QED
  BY <1>4 DEF Settled

LEMMA UnchangedPersist == ASSUME UNCHANGED rows PROVE Persistent
  BY DEF Persistent, Keeps

LEMMA BeginStageSettled ==
    ASSUME IInv, NEW s \in Syncs, BeginStage(s) PROVE Persistent /\ (Settled => Settled')
<1>1. Persistent
  BY UnchangedPersist DEF BeginStage
<1> SUFFICES ASSUME Settled PROVE Settled'
  BY <1>1
<1>2. run[s] \in RunType /\ run[s].items = 0 /\ run[s].at = "begin"
  BY DEF IInv, Types, Settled, OnCourse, BeginStage
<1>3. PICK r : /\ run' = [run EXCEPT ![s] = r]
               /\ \/ r.at = "fetch" /\ r.stage = 3
                  \/ r.at = "list" /\ r.items = 0
  <2>1. CASE run[s].stage = 3
    <3> DEFINE r == [run[s] EXCEPT !.at = "fetch", !.before = counted]
    <3>1. run' = [run EXCEPT ![s] = r]
      BY <1>2, <2>1 DEF BeginStage, IInv, Types, RunType
    <3>2. r.at = "fetch" /\ r.stage = 3
      BY <1>2, <2>1 DEF RunType
    <3> QED
      BY <3>1, <3>2
  <2>2. CASE run[s].stage # 3
    <3> DEFINE r == [run[s] EXCEPT !.at = "list"]
    <3>1. run' = [run EXCEPT ![s] = r]
      BY <1>2, <2>2 DEF BeginStage, IInv, Types, RunType
    <3>2. r.at = "list" /\ r.items = 0
      BY <1>2, <2>2 DEF RunType
    <3> QED
      BY <3>1, <3>2
  <2> QED
    BY <2>1, <2>2
<1>4. OnCourse(r, joined, title, rows')
  BY <1>3 DEF OnCourse
<1>5. Worth(current', joined, title, rows')
  <2>1. \A k \in Stages : current'.stages[k] =
            IF k = run[s].stage THEN [current.stages[k] EXCEPT !.status = "running"]
            ELSE current.stages[k]
    BY <1>2 DEF BeginStage, IInv, Types, RunType, ReportType
  <2>2. \A k \in Stages : current'.stages[k].status = "done" =>
            current'.stages[k] = current.stages[k]
    BY <2>1 DEF IInv, Types, ReportType, StageReports
  <2>3. UNCHANGED rows
    BY DEF BeginStage
  <2> QED
    BY <2>2, <2>3 DEF Settled, Worth, Stages
<1>6. raw' \in Seq(Marks) /\ UNCHANGED <<joined, title>>
  BY DEF BeginStage, Env, server, Settled
<1> QED
  BY <1>1, <1>3, <1>4, <1>5, <1>6, KeepsCourse

LEMMA ListSettled ==
    ASSUME IInv, NEW s \in Syncs, List(s) PROVE Persistent /\ (Settled => Settled')
<1>1. Persistent
  BY UnchangedPersist DEF List
<1> SUFFICES ASSUME Settled PROVE Settled'
  BY <1>1
<1>2. /\ run[s] \in RunType /\ run[s].items = 0 /\ run[s].at = "list"
      /\ joined \in SUBSET Chats
  BY DEF IInv, Types, Settled, OnCourse, List
<1>3. PICK r : run' = [run EXCEPT ![s] = r] /\ OnCourse(r, joined, title, rows)
  <2> DEFINE listed == {[chat |-> c, title |-> title[c]] : c \in joined \cap Of(run[s].stage)}
  <2>1. CASE run' = [run EXCEPT ![s].at = "upsert", ![s].todo = listed]
    <3> DEFINE r == [run[s] EXCEPT !.at = "upsert", !.todo = listed]
    <3>1. run' = [run EXCEPT ![s] = r]
      <4> HIDE DEF listed
      <4> QED
        BY <1>2, <2>1 DEF IInv, Types, RunType
    <3>2. r.at = "upsert" /\ r.items = 0 /\ r.todo = listed /\ r.stage = run[s].stage
      <4> HIDE DEF listed
      <4> QED
        BY <1>2, <2>1 DEF RunType
    <3> HIDE DEF r
    <3>3. InLoop(r, joined, title, rows)
      BY <1>2, <3>2, LoopBegins
    <3> QED
      BY <3>1, <3>2, <3>3 DEF OnCourse
  <2>2. CASE run' = [run EXCEPT ![s].at = "end", ![s].err = TRUE]
    <3> DEFINE r == [run[s] EXCEPT !.at = "end", !.err = TRUE]
    <3>1. run' = [run EXCEPT ![s] = r]
      BY <1>2, <2>2 DEF IInv, Types, RunType
    <3>2. r.at = "end" /\ r.err
      BY <1>2, <2>2 DEF RunType
    <3> QED
      BY <3>1, <3>2 DEF OnCourse
  <2> QED
    BY <2>1, <2>2 DEF List
<1>4. UNCHANGED <<raw, rows, current, joined, title>>
  BY DEF List, Env, server
<1> QED
  BY <1>1, <1>3, <1>4, KeepsCourse DEF Settled

LEMMA UpsertListedSettled ==
    ASSUME IInv, QuietInv, NEW s \in Syncs, UpsertListed(s), Settled
    PROVE  Persistent /\ Settled'
<1>1. /\ run[s] \in RunType /\ run[s].at = "upsert" /\ run[s].stage \in 1..2 /\ run[s].items \in Nat
      /\ joined \in SUBSET Chats /\ rows \in [Chats -> RowType]
      /\ InLoop(run[s], joined, title, rows)
  BY DEF IInv, Types, RunInv, Settled, OnCourse, UpsertListed, RunType
<1>2. UNCHANGED <<raw, current, joined, title>>
  BY DEF UpsertListed, Env, server
<1>3. ASSUME NEW e \in run[s].todo, rows' = [rows EXCEPT ![e.chat] = Upserted(@, e.title)],
             run' = [run EXCEPT ![s].todo = @ \ {e}, ![s].items = @ + 1]
      PROVE  Persistent /\ Settled'
  <2>1. PICK g \in joined \cap Of(run[s].stage) : e = Entry(g, title)
    BY <1>1 DEF InLoop
  <2>2. e.chat = g /\ e.title = title[g] /\ title[g] # 0
    BY <2>1 DEF Entry, QuietInv
  <2>3. /\ InTable(g, title, rows')
        /\ \A x \in joined : x # g => rows'[x] = rows[x]
    BY <1>1, <1>3, <2>1, <2>2 DEF InTable, Upserted
  <2>4. Persistent
    BY <2>3 DEF Persistent, Keeps, InTable
  <2> DEFINE r == [run[s] EXCEPT !.todo = run[s].todo \ {e}, !.items = run[s].items + 1]
  <2>5. run' = [run EXCEPT ![s] = r]
    BY <1>1, <1>3 DEF IInv, Types, RunType
  <2>6. r.at = "upsert" /\ r.stage = run[s].stage /\ r.todo = run[s].todo \ {e}
        /\ r.items = run[s].items + 1
    BY <1>1 DEF RunType
  <2> HIDE DEF r
  <2>7. InLoop(r, joined, title, rows')
    BY <1>1, <1>3, <2>1, <2>3, <2>4, <2>6, LoopStep DEF Persistent
  <2>8. OnCourse(r, joined, title, rows')
    BY <2>6, <2>7 DEF OnCourse
  <2>9. Worth(current', joined, title, rows')
    BY <1>1, <1>2, <2>4, Persists DEF Persistent, Settled
  <2> QED
    BY <1>2, <2>4, <2>5, <2>8, <2>9, KeepsCourse DEF Settled
<1>4. ASSUME NEW e \in run[s].todo, UNCHANGED rows, run' = [run EXCEPT ![s].todo = @ \ {e}]
      PROVE  Persistent /\ Settled'
  <2>1. PICK g \in joined \cap Of(run[s].stage) : e = Entry(g, title)
    BY <1>1 DEF InLoop
  <2>2. Persistent
    BY <1>4, UnchangedPersist
  <2> DEFINE r == [run[s] EXCEPT !.todo = run[s].todo \ {e}]
  <2>3. run' = [run EXCEPT ![s] = r]
    BY <1>1, <1>4 DEF IInv, Types, RunType
  <2>4. r.at = "upsert" /\ r.stage = run[s].stage /\ r.todo = run[s].todo \ {e}
        /\ r.items = run[s].items
    BY <1>1 DEF RunType
  <2> HIDE DEF r
  <2>5. InLoop(r, joined, title, rows')
    BY <1>1, <1>4, <2>1, <2>2, <2>4, LoopStep DEF Persistent
  <2>6. OnCourse(r, joined, title, rows')
    BY <2>4, <2>5 DEF OnCourse
  <2> QED
    BY <1>2, <1>4, <2>2, <2>3, <2>6, KeepsCourse DEF Settled
<1>5. ASSUME run[s].todo = {}, UNCHANGED rows, run' = [run EXCEPT ![s].at = "end"]
      PROVE  Persistent /\ Settled'
  <2>1. Persistent
    BY <1>5, UnchangedPersist
  <2> DEFINE r == [run[s] EXCEPT !.at = "end"]
  <2>2. run' = [run EXCEPT ![s] = r]
    BY <1>1, <1>5 DEF IInv, Types, RunType
  <2>3. r.at = "end" /\ r.stage = run[s].stage /\ r.items = run[s].items
    BY <1>1 DEF RunType
  <2> HIDE DEF r
  <2>4. Complete(run[s].stage, run[s].items, joined, title, rows)
    BY <1>1, <1>5, LoopEnds
  <2>5. OnCourse(r, joined, title, rows')
    BY <1>5, <2>3, <2>4 DEF OnCourse
  <2> QED
    BY <1>2, <1>5, <2>1, <2>2, <2>5, KeepsCourse DEF Settled
<1> QED
  BY <1>3, <1>4, <1>5 DEF UpsertListed

LEMMA NextPatchOnCourse ==
    ASSUME IInv, NEW s \in Syncs, run[s].stage = 3, NEW items, NEW failed,
           NextPatch(s, items, failed)
    PROVE  \E r : run' = [run EXCEPT ![s] = r] /\ OnCourse(r, joined, title, rows)
<1>1. run[s] \in RunType
  BY DEF IInv, Types
<1>2. CASE run[s].patch = Patches
  <2> DEFINE r == [run[s] EXCEPT !.at = "end", !.items = items, !.failed = failed,
                                 !.err = failed = Patches]
  <2>1. run' = [run EXCEPT ![s] = r]
    BY <1>1, <1>2 DEF NextPatch, IInv, Types, RunType
  <2>2. r.at = "end" /\ r.stage = 3
    BY <1>1 DEF RunType
  <2> QED
    BY <2>1, <2>2 DEF OnCourse
<1>3. CASE run[s].patch # Patches
  <2> DEFINE r == [run[s] EXCEPT !.at = "fetch", !.patch = run[s].patch + 1, !.items = items,
                                 !.failed = failed, !.before = counted]
  <2>1. run' = [run EXCEPT ![s] = r]
    BY <1>1, <1>3 DEF NextPatch, IInv, Types, RunType
  <2>2. r.at = "fetch" /\ r.stage = 3
    BY <1>1 DEF RunType
  <2> QED
    BY <2>1, <2>2 DEF OnCourse
<1> QED
  BY <1>2, <1>3

LEMMA FetchPatchSettled ==
    ASSUME IInv, NEW s \in Syncs, FetchPatch(s) PROVE Persistent /\ (Settled => Settled')
<1>1. Persistent
  BY UnchangedPersist DEF FetchPatch
<1> SUFFICES ASSUME Settled PROVE Settled'
  BY <1>1
<1>2. run[s] \in RunType /\ run[s].stage = 3
  BY DEF IInv, Types, Settled, OnCourse, FetchPatch
<1>3. PICK r : run' = [run EXCEPT ![s] = r] /\ OnCourse(r, joined, title, rows)
  <2>1. CASE run' = [run EXCEPT ![s].at = "hand", ![s].got = pending[run[s].patch]]
    <3> DEFINE r == [run[s] EXCEPT !.at = "hand", !.got = pending[run[s].patch]]
    <3>1. run' = [run EXCEPT ![s] = r]
      BY <1>2, <2>1 DEF IInv, Types, RunType
    <3>2. r.at = "hand" /\ r.stage = 3
      BY <1>2 DEF RunType
    <3> QED
      BY <3>1, <3>2 DEF OnCourse
  <2>2. CASE NextPatch(s, run[s].items, run[s].failed + 1)
    BY <1>2, <2>2, NextPatchOnCourse
  <2> QED
    BY <2>1, <2>2 DEF FetchPatch
<1>4. UNCHANGED <<raw, rows, current, joined, title>>
  BY DEF FetchPatch
<1> QED
  BY <1>1, <1>3, <1>4, KeepsCourse DEF Settled

LEMMA HandOverSettled ==
    ASSUME IInv, NEW s \in Syncs, HandOver(s) PROVE Persistent /\ (Settled => Settled')
<1>1. Persistent
  BY UnchangedPersist DEF HandOver
<1> SUFFICES ASSUME Settled PROVE Settled'
  BY <1>1
<1>2. /\ run[s] \in RunType /\ run[s].stage = 3 /\ run[s].at = "hand"
      /\ run[s].got \in Seq(Marks) /\ raw \in Seq(Marks)
  BY DEF IInv, Types, RunType, Settled, OnCourse, HandOver
<1>3. PICK r : run' = [run EXCEPT ![s] = r] /\ OnCourse(r, joined, title, rows)
  <2>1. CASE run' = [run EXCEPT ![s].got = Tail(@)]
    <3> DEFINE r == [run[s] EXCEPT !.got = Tail(run[s].got)]
    <3>1. run' = [run EXCEPT ![s] = r]
      BY <1>2, <2>1 DEF IInv, Types, RunType
    <3>2. r.at = "hand" /\ r.stage = 3
      BY <1>2 DEF RunType
    <3> QED
      BY <3>1, <3>2 DEF OnCourse
  <2>2. CASE NextPatch(s, run[s].items + (counted - run[s].before), run[s].failed)
    BY <1>2, <2>2, NextPatchOnCourse
  <2> QED
    BY <2>1, <2>2 DEF HandOver
<1>4. raw' \in Seq(Marks)
  <2>1. run[s].got # <<>> => Head(run[s].got) \in Marks
    BY <1>2
  <2> QED
    BY <1>2, <2>1 DEF HandOver
<1>5. UNCHANGED <<rows, current, joined, title>>
  BY DEF HandOver, Env, server
<1> QED
  BY <1>1, <1>3, <1>4, <1>5, KeepsCourse DEF Settled

LEMMA EndStageSettled ==
    ASSUME IInv, NEW s \in Syncs, EndStage(s) PROVE Persistent /\ (Settled => Settled')
<1>1. Persistent
  BY UnchangedPersist DEF EndStage
<1> SUFFICES ASSUME Settled PROVE Settled'
  BY <1>1
<1>2. /\ run[s] \in RunType /\ run[s].stage \in Stages /\ run[s].at = "end"
      /\ OnCourse(run[s], joined, title, rows)
  BY DEF IInv, Types, RunType, Settled, EndStage
<1>3. PICK r : run' = [run EXCEPT ![s] = r] /\ OnCourse(r, joined, title, rows)
  <2> DEFINE first == [NoRun EXCEPT !.at = "finish", !.stage = 3]
             next == [NoRun EXCEPT !.at = "begin", !.stage = run[s].stage + 1]
             r == IF run[s].stage = 3 THEN first ELSE next
  <2>1. run' = [run EXCEPT ![s] = r]
    BY <1>2 DEF EndStage, IInv, Types
  <2>2. first.at = "finish" /\ next.at = "begin" /\ next.items = 0
    BY DEF NoRun
  <2>3. OnCourse(r, joined, title, rows)
    BY <2>2 DEF OnCourse
  <2> QED
    BY <2>1, <2>3
<1>4. Worth(current', joined, title, rows)
  <2> DEFINE entry == [status |-> IF run[s].err THEN "failed" ELSE "done",
                       items |-> run[s].items]
  <2>1. \A k \in Stages : current'.stages[k] =
            IF k = run[s].stage THEN entry ELSE current.stages[k]
    BY <1>2 DEF EndStage, IInv, Types, ReportType
  <2>2. ASSUME run[s].stage \in 1..2, entry.status = "done"
        PROVE  Complete(run[s].stage, entry.items, joined, title, rows)
    BY <1>2, <2>2 DEF OnCourse
  <2> HIDE DEF entry
  <2>3. ASSUME NEW k \in 1..2, current'.stages[k].status = "done"
        PROVE  Complete(k, current'.stages[k].items, joined, title, rows)
    <3>1. CASE k = run[s].stage
      BY <1>2, <2>1, <2>2, <2>3, <3>1
    <3>2. CASE k # run[s].stage
      BY <2>1, <2>3, <3>2 DEF Settled, Worth, Stages
    <3> QED
      BY <3>1, <3>2
  <2> QED
    BY <2>3 DEF Worth
<1>5. UNCHANGED <<raw, rows, joined, title>>
  BY DEF EndStage, Env, server
<1> QED
  BY <1>1, <1>3, <1>4, <1>5, KeepsCourse DEF Settled

LEMMA FinishSettled ==
    ASSUME IInv, NEW s \in Syncs, Finish(s) PROVE Persistent /\ (Settled => Settled')
<1>1. Persistent
  BY UnchangedPersist DEF Finish
<1> SUFFICES ASSUME Settled PROVE Settled'
  BY <1>1
<1>2. OnCourse([NoRun EXCEPT !.at = "ended"], joined, title, rows)
  BY DEF OnCourse, NoRun
<1>3. current'.stages = current.stages
  BY DEF Finish, IInv, Types, ReportType
<1>4. Worth(current', joined, title, rows)
  BY <1>3 DEF Settled, Worth
<1>5. UNCHANGED <<raw, rows, joined, title>>
  BY DEF Finish, Env, server
<1> QED
  BY <1>1, <1>2, <1>4, <1>5, KeepsCourse DEF Settled, Finish

-----------------------------------------------------------------------------
(* The calls.                                                              *)

LEMMA QuietKept ==
    ASSUME IInv, QuietInv, UNCHANGED <<call, joined, title>>,
           Settled => Settled' /\ Persistent
    PROVE  QuietInv'
<1>1. joined \in SUBSET Chats
  BY DEF IInv, Types
<1>2. ASSUME NEW c \in Clients, Watched(call, c)
      PROVE  /\ Settled' /\ call[c].asked.chats = joined
             /\ call[c].at = "finished" => Worth(call[c].report, joined, title, rows')
  <2>1. Settled' /\ Persistent /\ call[c].asked.chats = joined
    BY <1>2 DEF QuietInv
  <2>2. call[c].at = "finished" => Worth(call[c].report, joined, title, rows)
    BY <1>2 DEF QuietInv
  <2> QED
    BY <1>1, <2>1, <2>2, Persists DEF Persistent
<1> QED
  BY <1>2 DEF QuietInv

LEMMA RunStepQuiet ==
    ASSUME IInv, QuietInv, NEW s \in Syncs, RunStep(s) PROVE QuietInv'
<1>1. UNCHANGED <<call, joined, title>>
  BY DEF RunStep, BeginStage, List, UpsertListed, FetchPatch, HandOver, EndStage, Finish, Env, server
<1>2. Settled => Settled' /\ Persistent
  BY BeginStageSettled, ListSettled, UpsertListedSettled, FetchPatchSettled, HandOverSettled,
     EndStageSettled, FinishSettled DEF RunStep
<1> QED
  BY <1>1, <1>2, QuietKept

LEMMA IngestQuiet == ASSUME IInv, QuietInv, Ingest PROVE QuietInv'
<1> SUFFICES ASSUME Settled PROVE Settled' /\ Persistent
  BY QuietKept DEF Ingest, server
<1> DEFINE e == Head(raw)
<1>1. e \in Marks /\ raw' \in Seq(Marks)
  BY DEF Ingest, Settled
<1>2. rows' = [rows EXCEPT ![e.chat] = MarkedUnread(@)]
  BY <1>1 DEF Ingest, Marks
<1>3. joined \in SUBSET Chats /\ rows \in [Chats -> RowType] /\ UNCHANGED <<current, run, joined, title>>
  BY DEF Ingest, server, IInv, Types
<1> HIDE DEF e
<1>4. Persistent
  BY <1>2, <1>3 DEF Persistent, Keeps, InTable, MarkedUnread, RowType
<1> QED
  BY <1>1, <1>3, <1>4, Persists DEF Settled, Persistent

LEMMA NoCallType == NoCall \in CallType
<1>1. NoReport \in ReportType
  BY CacheSyncAssumption DEF NoReport, Pending, ReportType, StageReports, Statuses
<1>2. [c \in Chats |-> 0] \in [Chats -> 0..MaxTitle] /\ 0 \in 0..MaxSyncs
  BY CacheSyncAssumption
<1> QED
  BY <1>1, <1>2 DEF NoCall, CallType

(* A run that has just begun has nothing to answer for.                    *)
LEMMA NewRunSettled ==
    ASSUME IInv, ~current.running, raw \in Seq(Marks),
           UNCHANGED <<raw, rows, joined, title>>, NEW s \in Syncs, current' = Fresh(s),
           run' = [run EXCEPT ![s] = [NoRun EXCEPT !.at = "begin"]]
    PROVE  Settled'
<1>1. \A q \in Syncs : run[q].at \in {"none", "ended"}
  BY DEF IInv, RunInv
<1>2. [NoRun EXCEPT !.at = "begin"].at = "begin" /\ [NoRun EXCEPT !.at = "begin"].items = 0
  BY DEF NoRun
<1>3. \A q \in Syncs : run'[q].at \in {"none", "ended"} \/ (run'[q].at = "begin" /\ run'[q].items = 0)
  BY <1>1, <1>2 DEF IInv, Types
<1>4. \A q \in Syncs : OnCourse(run'[q], joined, title, rows)
  BY <1>3 DEF OnCourse
<1>5. \A k \in Stages : current'.stages[k].status = "pending"
  BY DEF Fresh, NoReport, Pending
<1>6. Worth(current', joined, title, rows)
  BY <1>5 DEF Worth, Stages
<1> QED
  BY <1>4, <1>6 DEF Settled

LEMMA StartQuiet ==
    ASSUME IInv, QuietInv, NEW c \in Clients, Start(c) PROVE QuietInv'
<1>1. /\ UNCHANGED <<raw, rows, joined, title>>
      /\ joined \in SUBSET Chats /\ unread \in SUBSET Chats /\ title \in [Chats -> 0..MaxTitle]
      /\ current \in ReportType /\ call \in [Clients -> CallType]
  BY DEF Start, server, IInv, Types, QuietInv
<1>2. PICK new \in CallType :
         /\ call' = [call EXCEPT ![c] = new] /\ new.at # "finished"
         /\ new.started /\ new.quiet =>
              /\ new.asked.chats = joined /\ raw = <<>> /\ ~current.running
              /\ \E s \in Syncs : /\ current' = Fresh(s)
                                  /\ run' = [run EXCEPT ![s] = [NoRun EXCEPT !.at = "begin"]]
  <2>1. CASE ~link
    <3> DEFINE new == [NoCall EXCEPT !.at = "not_paired"]
    <3>1. call' = [call EXCEPT ![c] = new]
      BY <2>1 DEF Start
    <3>2. new \in CallType /\ new.at = "not_paired" /\ ~new.started
      <4>1. NoCall.started = FALSE
        BY DEF NoCall
      <4> QED
        BY <4>1, NoCallType DEF CallType
    <3> QED
      BY <3>1, <3>2
  <2>2. CASE link
    <3> DEFINE asked == [chats |-> joined, title |-> title, unread |-> unread]
               new == [at |-> "polling", id |-> current'.id, started |-> ~current.running,
                       quiet |-> raw = <<>>, report |-> NoReport, asked |-> asked]
    <3>1. call' = [call EXCEPT ![c] = new]
      BY <2>2 DEF Start, Running
    <3>2. current'.id \in 0..MaxSyncs
      <4>1. CASE UNCHANGED current
        BY <1>1, <4>1 DEF ReportType
      <4>2. ASSUME NEW s \in Syncs, current' = Fresh(s) PROVE current'.id \in 0..MaxSyncs
        BY <4>2 DEF Fresh, NoReport, Syncs
      <4> QED
        BY <2>2, <4>1, <4>2 DEF Start
    <3>3. asked \in [chats : SUBSET Chats, title : [Chats -> 0..MaxTitle], unread : SUBSET Chats]
      BY <1>1
    <3>4. NoReport \in ReportType
      BY NoCallType DEF NoCall, CallType
    <3>5. current.running \in BOOLEAN /\ (raw = <<>>) \in BOOLEAN
      BY <1>1 DEF ReportType
    <3>6. new \in CallType
      <4> HIDE DEF asked
      <4> QED
        BY <3>2, <3>3, <3>4, <3>5 DEF CallType
    <3>7. ~current.running => \E s \in Syncs :
              current' = Fresh(s) /\ run' = [run EXCEPT ![s] = [NoRun EXCEPT !.at = "begin"]]
      BY <2>2 DEF Start, Running
    <3> QED
      BY <3>1, <3>6, <3>7
  <2> QED
    BY <2>1, <2>2
<1>3. call' \in [Clients -> CallType] /\ call'[c] = new /\ \A d \in Clients : d # c => call'[d] = call[d]
  BY <1>1, <1>2
<1>4. Settled => Settled'
  <2>1. CASE UNCHANGED <<current, run>>
    BY <1>1, <2>1 DEF Settled
  <2>2. ASSUME ~current.running, NEW s \in Syncs, current' = Fresh(s),
               run' = [run EXCEPT ![s] = [NoRun EXCEPT !.at = "begin"]]
        PROVE  Settled => Settled'
    BY <1>1, <2>2, NewRunSettled DEF Settled
  <2> QED
    BY <2>1, <2>2 DEF Start, Running
<1>5. ASSUME NEW d \in Clients, Watched(call', d)
      PROVE  /\ Settled' /\ call'[d].asked.chats = joined
             /\ call'[d].at = "finished" => Worth(call'[d].report, joined, title, rows)
  <2>1. CASE d = c
    <3>1. new.started /\ new.quiet
      BY <1>3, <1>5, <2>1 DEF Watched
    <3>2. raw \in Seq(Marks)
      BY <1>2, <3>1
    <3>3. Settled'
      BY <1>1, <1>2, <3>1, <3>2, NewRunSettled
    <3> QED
      BY <1>2, <1>3, <2>1, <3>1, <3>3
  <2>2. CASE d # c
    <3>1. Watched(call, d) /\ call'[d] = call[d]
      BY <1>3, <1>5, <2>2 DEF Watched
    <3> QED
      BY <1>4, <3>1 DEF QuietInv
  <2> QED
    BY <2>1, <2>2
<1>6. \A g \in joined' : title'[g] # 0
  BY <1>1 DEF QuietInv
<1> QED
  BY <1>1, <1>3, <1>5, <1>6 DEF QuietInv

LEMMA PollQuiet ==
    ASSUME IInv, QuietInv, NEW c \in Clients, Poll(c) PROVE QuietInv'
<1>1. /\ UNCHANGED <<raw, rows, joined, title, run, current>>
      /\ current \in ReportType /\ call \in [Clients -> CallType]
  BY DEF Poll, server, IInv, Types, QuietInv
<1>2. Settled => Settled'
  BY <1>1 DEF Settled
<1>3. PICK new \in CallType :
         /\ call' = [call EXCEPT ![c] = new]
         /\ new.started /\ new.quiet =>
              Watched(call, c) /\ new.asked = call[c].asked /\ new.report = current
  <2>1. CASE call' = [call EXCEPT ![c].at = "finished", ![c].report = current]
    <3> DEFINE new == [call[c] EXCEPT !.at = "finished", !.report = current]
    <3>1. call' = [call EXCEPT ![c] = new]
      BY <1>1, <2>1 DEF CallType
    <3>2. new \in CallType /\ new.started = call[c].started /\ new.quiet = call[c].quiet
          /\ new.asked = call[c].asked /\ new.report = current
      BY <1>1 DEF CallType
    <3> QED
      BY <3>1, <3>2 DEF Watched
  <2>2. CASE call' = [call EXCEPT ![c] = [NoCall EXCEPT !.at = "lost"]]
    <3>1. NoCall.started = FALSE
      BY DEF NoCall
    <3>2. [NoCall EXCEPT !.at = "lost"] \in CallType /\ ~[NoCall EXCEPT !.at = "lost"].started
      BY <3>1, NoCallType DEF CallType
    <3> QED
      BY <2>2, <3>2
  <2> QED
    BY <2>1, <2>2 DEF Poll
<1>4. call' \in [Clients -> CallType] /\ call'[c] = new /\ \A d \in Clients : d # c => call'[d] = call[d]
  BY <1>1, <1>3
<1>5. ASSUME NEW d \in Clients, Watched(call', d)
      PROVE  /\ Settled' /\ call'[d].asked.chats = joined
             /\ call'[d].at = "finished" => Worth(call'[d].report, joined, title, rows)
  <2>1. CASE d = c
    <3>1. Watched(call, c) /\ new.asked = call[c].asked /\ new.report = current
      BY <1>3, <1>4, <1>5, <2>1 DEF Watched
    <3> QED
      BY <1>2, <1>4, <2>1, <3>1 DEF QuietInv, Settled
  <2>2. CASE d # c
    <3>1. Watched(call, d) /\ call'[d] = call[d]
      BY <1>4, <1>5, <2>2 DEF Watched
    <3> QED
      BY <1>2, <3>1 DEF QuietInv
  <2> QED
    BY <2>1, <2>2
<1> QED
  BY <1>1, <1>4, <1>5 DEF QuietInv

-----------------------------------------------------------------------------
(* WhatsApp, the phone and the process.                                    *)

LEMMA CrashQuiet == ASSUME IInv, QuietInv, Crash PROVE QuietInv'
<1>1. UNCHANGED <<call, joined, title, rows>> /\ raw' \in Seq(Marks)
  BY DEF Crash, server
<1>2. \A s \in Syncs : run'[s].at \in {"none", "ended"}
  BY DEF Crash, NoRun
<1>3. \A s \in Syncs : OnCourse(run'[s], joined, title, rows)
  BY <1>2 DEF OnCourse
<1>4. \A k \in Stages : current'.stages[k].status = "pending"
  BY DEF Crash, NoReport, Pending
<1>5. Worth(current', joined, title, rows)
  BY <1>4 DEF Worth, Stages
<1>6. Settled' /\ Persistent
  BY <1>1, <1>3, <1>5, UnchangedPersist DEF Settled
<1> QED
  BY <1>1, <1>6, QuietKept

(* A change on WhatsApp's side: no call is quiet any more.                 *)
LEMMA NoisyQuiet ==
    ASSUME QuietInv, call' = Noisy(call), \A g \in joined' : title'[g] # 0
    PROVE  QuietInv'
<1>1. call \in [Clients -> CallType]
  BY DEF QuietInv
<1>2. \A c \in Clients : [call[c] EXCEPT !.quiet = FALSE] \in CallType
                         /\ ~[call[c] EXCEPT !.quiet = FALSE].quiet
  BY <1>1 DEF CallType
<1>3. call' \in [Clients -> CallType] /\ \A c \in Clients : ~Watched(call', c)
  BY <1>2 DEF Noisy, Watched
<1> QED
  BY <1>3 DEF QuietInv

LEMMA RenameQuiet == ASSUME IInv, QuietInv, NEW c \in Chats, Rename(c) PROVE QuietInv'
<1>1. title \in [Chats -> 0..MaxTitle] /\ joined \in SUBSET Chats
  BY DEF IInv, Types
<1>2. /\ title' = [title EXCEPT ![c] = @ + 1] /\ joined' = joined \cup {c}
      /\ call' = Noisy(call)
  BY DEF Rename
<1>3. title[c] + 1 # 0
  BY <1>1, CacheSyncAssumption
<1>4. \A g \in joined' : title'[g] # 0
  BY <1>1, <1>2, <1>3 DEF QuietInv
<1> QED
  BY <1>2, <1>4, NoisyQuiet

LEMMA MarkUnreadQuiet == ASSUME IInv, QuietInv, NEW c \in Chats, MarkUnread(c) PROVE QuietInv'
  BY NoisyQuiet DEF MarkUnread, QuietInv

LEMMA WireQuiet ==
    ASSUME IInv, QuietInv,
           Disconnect \/ Reconnect \/ (\E p \in 1..Patches : Notified(p)) \/ UNCHANGED vars
    PROVE  QuietInv'
<1>1. UNCHANGED <<call, joined, title, rows, run, current>>
  BY DEF Disconnect, Reconnect, Notified, server, vars
<1>2. raw \in Seq(Marks) => raw' \in Seq(Marks)
  <2>1. CASE UNCHANGED raw
    BY <2>1
  <2>2. ASSUME NEW p \in 1..Patches, Notified(p), raw \in Seq(Marks) PROVE raw' \in Seq(Marks)
    <3>1. pending[p] \in Seq(Marks) /\ pending[p] # <<>>
      BY <2>2 DEF Notified, IInv, Types
    <3>2. Head(pending[p]) \in Marks
      BY <3>1
    <3> QED
      BY <2>2, <3>2 DEF Notified
  <2> QED
    BY <2>1, <2>2 DEF Disconnect, Reconnect, server, vars
<1>3. Settled => Settled' /\ Persistent
  BY <1>1, <1>2, UnchangedPersist DEF Settled
<1> QED
  BY <1>1, <1>3, QuietKept

LEMMA InitQuiet == Init => QuietInv
<1> SUFFICES ASSUME Init PROVE QuietInv
  OBVIOUS
<1>1. call \in [Clients -> CallType]
  BY NoCallType DEF Init
<1>2. \A c \in Clients : ~Watched(call, c)
  BY DEF Init, NoCall, Watched
<1>3. \A g \in joined : title[g] # 0
  BY CacheSyncAssumption DEF Init, Chats
<1> QED
  BY <1>1, <1>2, <1>3 DEF QuietInv

LEMMA NextQuiet == IInv /\ QuietInv /\ [Next]_vars => QuietInv'
<1> SUFFICES ASSUME IInv, QuietInv, [Next]_vars PROVE QuietInv'
  OBVIOUS
<1> QED
  BY StartQuiet, PollQuiet, RunStepQuiet, IngestQuiet, CrashQuiet, RenameQuiet, MarkUnreadQuiet,
     WireQuiet DEF Next

LEMMA QuietInvFresh == IInv /\ QuietInv => QuietSyncIsFresh
<1> SUFFICES ASSUME IInv, QuietInv, NEW c \in Clients, NEW k \in 1..2,
                    call[c].at = "finished", call[c].started, call[c].quiet,
                    call[c].report.stages[k].status = "done",
                    call[c].report.stages[k].items = Cardinality(call[c].asked.chats \cap Of(k)),
                    NEW g \in call[c].asked.chats \cap Of(k)
             PROVE  rows[g].known /\ rows[g].title = title[g]
  BY DEF QuietSyncIsFresh
<1>1. call[c].asked.chats = joined /\ Worth(call[c].report, joined, title, rows)
  BY DEF QuietInv, Watched
<1> QED
  BY <1>1 DEF Worth, Complete, InTable

(* A finished run is worth what it counts: when nothing changed since the  *)
(* call that started it and no event was waiting, a stage that is done and *)
(* counts as many items as there are chats has put every one of them in    *)
(* the table, for any lists, later runs, lost links and crashes.           *)
THEOREM SpecQuietSyncIsFresh == Spec => []QuietSyncIsFresh
<1>1. Init => IInv /\ QuietInv
  BY InitIInv, InitQuiet
<1>2. IInv /\ QuietInv /\ [Next]_vars => (IInv /\ QuietInv)'
  BY NextIInv, NextQuiet
<1>3. Spec => [](IInv /\ QuietInv)
  BY <1>1, <1>2, PTL DEF Spec
<1> QED
  BY <1>3, QuietInvFresh, PTL

=============================================================================
