----------------------------- MODULE MediaStore -----------------------------
(***************************************************************************)
(* The content-addressed blob store of internal/media: Put and PutReader,  *)
(* Lookup and Open, and Sweep, running concurrently on one directory with  *)
(* no lock between them, in a process that may crash and restart.          *)
(*                                                                         *)
(* A blob is stored in two files, named after the digest d of its bytes:   *)
(* <<d, ext>> with the bytes and <<d, "json">>, the sidecar, which records *)
(* ext.  A file system call is atomic; a step runs from one call whose     *)
(* outcome another goroutine can change to the next one.  Payloads are     *)
(* identified with their digest, so d is what the caller sent; time is a   *)
(* bounded clock in units that TTL and TempAge are expressed in.           *)
(***************************************************************************)
EXTENDS Naturals, FiniteSets, Functions

CONSTANTS
    Digests,      \* payloads callers store
    Exts,         \* extensions ExtensionForMime returns for their mime types
    SizeOf,       \* SizeOf[d]: length of payload d
    Writers,      \* concurrent Put / PutReader calls
    Readers,      \* concurrent Lookup / Open calls
    UploadLimit,  \* Store.maxUpload()
    MaxBytes,     \* Options.MaxBytes, 0 = unlimited
    TTL,          \* Options.TTL, 0 = off
    TempAge,      \* age after which a temp file is taken for abandoned (1h)
    MaxTime,      \* bound: the clock stops there
    MaxPuts,      \* bound: Put calls per run
    MaxFaults     \* bound: crashes and failing removals per run

ASSUME StoreAssumption ==
    /\ IsFiniteSet(Digests) /\ IsFiniteSet(Exts)
    /\ SizeOf \in [Digests -> Nat]
    /\ UploadLimit \in Nat \ {0}
    /\ MaxBytes \in Nat /\ TTL \in Nat /\ TempAge \in Nat
    /\ MaxTime \in Nat /\ MaxPuts \in Nat /\ MaxFaults \in Nat
    /\ "none" \notin Exts

VARIABLES
    disk,         \* the directory: what each name holds
    litter,       \* mtimes of the temp files that crashed calls left behind
    put,          \* the Put calls
    get,          \* the Lookup / Open calls
    sweep,        \* the sweeper
    clock, puts, faults

vars == <<disk, litter, put, get, sweep, clock, puts, faults>>

Names == Digests \X (Exts \cup {"json"})
Meta(d) == <<d, "json">>
Time == 0..MaxTime

(* kind "blob" is payload bytes, `len` of them; "meta" is a sidecar that   *)
(* names extension ext; `at` is the file's mtime.                          *)
Files == [kind : {"none", "blob", "meta"}, len : Nat,
          ext : Exts \cup {"none"}, at : Time]
Absent == [kind |-> "none", len |-> 0, ext |-> "none", at |-> 0]
Blob(n, t) == [kind |-> "blob", len |-> n, ext |-> "none", at |-> t]
Sidecar(e, t) == [kind |-> "meta", len |-> 0, ext |-> e, at |-> t]
Exists(n) == disk[n].kind # "none"

(* A Put call: the payload, its extension, whether it is an upload, the    *)
(* bytes spooled, whether its temp file (the blob's, then the sidecar's)   *)
(* still exists and that file's mtime, the extension found in an existing  *)
(* sidecar, the time its touch has read.                                   *)
PutCalls ==
    [pc : {"idle", "spool", "check", "stat", "now", "touch", "rename", "meta", "place"},
     d : Digests \cup {"none"}, ext : Exts \cup {"none"}, bounded : BOOLEAN,
     len : Nat, tmp : BOOLEAN, at : Time, found : Exts \cup {"none"}, now : Time]
NoPut == [pc |-> "idle", d |-> "none", ext |-> "none", bounded |-> FALSE,
          len |-> 0, tmp |-> FALSE, at |-> 0, found |-> "none", now |-> 0]

(* A Lookup or Open call: what its handle reads and the time its touch has *)
(* read.  `since` is a history variable: the earliest of the times that    *)
(* calls had read for this object and not yet written when it was served.  *)
GetCalls ==
    [pc : {"idle", "open", "now", "touch", "served"}, d : Digests \cup {"none"},
     ext : Exts \cup {"none"}, kind : {"none", "blob", "meta"}, len : Nat,
     now : Time, since : Time]
NoGet == [pc |-> "idle", d |-> "none", ext |-> "none", kind |-> "none",
          len |-> 0, now |-> 0, since |-> 0]

(* A pass: its wall-clock time, the names listed, the names left to remove. *)
(* `clean` is a history variable: no Put overlapped this pass and none of  *)
(* its removals failed.                                                    *)
Sweeps ==
    [pc : {"idle", "listed", "removing", "off"}, now : Time, seen : SUBSET Names,
     todo : SUBSET Names, clean : BOOLEAN]
NoSweep == [pc |-> "idle", now |-> 0, seen |-> {}, todo |-> {}, clean |-> FALSE]

TypeOK ==
    /\ disk \in [Names -> Files]
    /\ litter \subseteq Time
    /\ put \in [Writers -> PutCalls]
    /\ get \in [Readers -> GetCalls]
    /\ sweep \in Sweeps
    /\ clock \in Time
    /\ puts \in 0..MaxPuts
    /\ faults \in 0..MaxFaults

Init ==
    /\ disk = [n \in Names |-> Absent]
    /\ litter = {}
    /\ put = [w \in Writers |-> NoPut]
    /\ get = [r \in Readers |-> NoGet]
    /\ sweep = NoSweep
    /\ clock = 0 /\ puts = 0 /\ faults = 0

(* Mutant of Touched: the touch goes to the blob, like a plain atime.      *)
TouchedBlob(d, now) ==
    LET n == <<d, disk[Meta(d)].ext>>
    IN  IF Exists(Meta(d)) /\ Exists(n) THEN [disk EXCEPT ![n].at = now] ELSE disk

(* os.Chtimes in touch: the sidecar's mtime, and nothing else, says when   *)
(* the object was last used.  A file that is gone is not recreated.        *)
Touched(d, now) ==
    IF Exists(Meta(d)) THEN [disk EXCEPT ![Meta(d)].at = now] ELSE disk

(* The sidecar times of d that calls have fixed and not yet written: a     *)
(* finished temp sidecar carries its mtime into the rename, and a touch    *)
(* reads the time before it writes it.                                     *)
Stamps(d) ==
    {put[w].at : w \in {v \in Writers : put[v].pc = "place" /\ put[v].d = d}}
    \cup {put[w].now : w \in {v \in Writers : put[v].pc = "touch" /\ put[v].d = d}}
    \cup {get[r].now : r \in {q \in Readers : get[q].pc = "touch" /\ get[q].d = d}}

(* A sweep is clean as long as no Put overlaps it.                         *)
Disturbed == [sweep EXCEPT !.clean = FALSE]

-----------------------------------------------------------------------------
(* Put (bounded = FALSE, download_media) and PutReader (bounded = TRUE,    *)
(* POST /media).                                                           *)

PutBegin(w) ==
    /\ put[w].pc = "idle"
    /\ puts < MaxPuts
    /\ puts' = puts + 1
    /\ \E d \in Digests, e \in Exts, b \in BOOLEAN :
          put' = [put EXCEPT ![w] =
                    [pc |-> "spool", d |-> d, ext |-> e, bounded |-> b,
                     len |-> 0, tmp |-> TRUE, at |-> clock, found |-> "none", now |-> 0]]
    /\ sweep' = Disturbed
    /\ UNCHANGED <<disk, litter, get, clock, faults>>

(* Mutant of Spooled: the reader stops at the limit itself.                *)
SpooledToLimit(w) ==
    IF put[w].bounded /\ SizeOf[put[w].d] > UploadLimit
    THEN UploadLimit
    ELSE SizeOf[put[w].d]

(* How many bytes reach the temp file: an untrusted payload is read one    *)
(* byte past the limit.                                                    *)
Spooled(w) ==
    IF put[w].bounded /\ SizeOf[put[w].d] > UploadLimit
    THEN UploadLimit + 1
    ELSE SizeOf[put[w].d]

Refused(w) == put[w].bounded /\ (Spooled(w) > UploadLimit \/ Spooled(w) = 0)

(* io.Copy ends.  ErrTooLarge and ErrEmptyUpload drop the temp file.  The  *)
(* write stamps it, if the sweeper has not unlinked it meanwhile.          *)
PutSpool(w) ==
    /\ put[w].pc = "spool"
    /\ put' = [put EXCEPT ![w] =
                 IF Refused(w) THEN NoPut
                 ELSE [@ EXCEPT !.pc = "check", !.bounded = FALSE,
                                !.len = Spooled(w), !.at = clock]]
    /\ UNCHANGED <<disk, litter, get, sweep, clock, puts, faults>>

(* Any error before the blob is in place (the body breaks off, the disk is *)
(* full, close fails): the deferred Remove drops the temp file.            *)
PutFails(w) ==
    /\ put[w].pc \in {"spool", "check", "rename"}
    /\ put' = [put EXCEPT ![w] = NoPut]
    /\ UNCHANGED <<disk, litter, get, sweep, clock, puts, faults>>

(* readSidecar(digest).  Bytes under the sidecar's name do not parse.      *)
PutCheck(w) ==
    LET meta == disk[Meta(put[w].d)] IN
    /\ put[w].pc = "check"
    /\ put' = [put EXCEPT ![w] =
                 CASE meta.kind = "none" -> [@ EXCEPT !.pc = "rename"]
                   [] meta.kind = "meta" -> [@ EXCEPT !.pc = "stat", !.found = meta.ext]
                   [] meta.kind = "blob" -> NoPut]
    /\ UNCHANGED <<disk, litter, get, sweep, clock, puts, faults>>

(* Stat of the blob the sidecar names: a hit is touched and answered; a    *)
(* sidecar without bytes falls through and both are written again.         *)
PutStat(w) ==
    /\ put[w].pc = "stat"
    /\ put' = [put EXCEPT ![w] = [@ EXCEPT
                 !.pc = IF Exists(<<put[w].d, put[w].found>>) THEN "now" ELSE "rename",
                 !.found = "none"]]
    /\ UNCHANGED <<disk, litter, get, sweep, clock, puts, faults>>

(* touch: time.Now, then os.Chtimes.  The descriptor is answered whether   *)
(* or not the files are still there.                                       *)
PutNow(w) ==
    /\ put[w].pc = "now"
    /\ put' = [put EXCEPT ![w] = [@ EXCEPT !.pc = "touch", !.now = clock]]
    /\ UNCHANGED <<disk, litter, get, sweep, clock, puts, faults>>

PutTouch(w) ==
    /\ put[w].pc = "touch"
    /\ disk' = Touched(put[w].d, put[w].now)
    /\ put' = [put EXCEPT ![w] = NoPut]
    /\ UNCHANGED <<litter, get, sweep, clock, puts, faults>>

(* os.Rename of the temp file to its final name; it fails when the sweeper *)
(* took the temp file for an abandoned one.                                *)
PutRename(w) ==
    /\ put[w].pc = "rename"
    /\ IF put[w].tmp
       THEN /\ disk' = [disk EXCEPT ![<<put[w].d, put[w].ext>>] =
                                        Blob(put[w].len, put[w].at)]
            /\ put' = [put EXCEPT ![w] = [@ EXCEPT
                          !.pc = "meta", !.len = 0, !.tmp = FALSE, !.at = 0]]
       ELSE /\ put' = [put EXCEPT ![w] = NoPut]
            /\ UNCHANGED disk
    /\ UNCHANGED <<litter, get, sweep, clock, puts, faults>>

(* writeFile, first half: the sidecar is written to a temp file, which     *)
(* fixes its mtime.                                                        *)
PutSidecar(w) ==
    /\ put[w].pc = "meta"
    /\ put' = [put EXCEPT ![w] = [@ EXCEPT !.pc = "place", !.tmp = TRUE, !.at = clock]]
    /\ UNCHANGED <<disk, litter, get, sweep, clock, puts, faults>>

(* writeFile, second half: the rename into place; Put answers.             *)
PutMeta(w) ==
    /\ put[w].pc = "place" /\ put[w].tmp
    /\ disk' = [disk EXCEPT ![Meta(put[w].d)] = Sidecar(put[w].ext, put[w].at)]
    /\ put' = [put EXCEPT ![w] = NoPut]
    /\ UNCHANGED <<litter, get, sweep, clock, puts, faults>>

(* writeFile fails, always when the sweeper took its temp file for an      *)
(* abandoned one: leave no blob without its sidecar.                       *)
PutMetaFails(w) ==
    /\ put[w].pc \in {"meta", "place"}
    /\ disk' = [disk EXCEPT ![<<put[w].d, put[w].ext>>] = Absent]
    /\ put' = [put EXCEPT ![w] = NoPut]
    /\ UNCHANGED <<litter, get, sweep, clock, puts, faults>>

-----------------------------------------------------------------------------
(* Lookup and Open (GET /media/{sha256}, the send tools, download_media's  *)
(* short-circuit).                                                         *)

GetBegin(r) ==
    /\ get[r].pc \in {"idle", "served"}
    /\ \E d \in Digests :
          get' = [get EXCEPT ![r] =
                    IF disk[Meta(d)].kind = "meta"
                    THEN [NoGet EXCEPT !.pc = "open", !.d = d, !.ext = disk[Meta(d)].ext]
                    ELSE NoGet]
    /\ UNCHANGED <<disk, litter, put, sweep, clock, puts, faults>>

(* os.Open (os.Stat in Lookup) of the blob the sidecar named.              *)
GetOpen(r) ==
    LET n == <<get[r].d, get[r].ext>> IN
    /\ get[r].pc = "open"
    /\ get' = [get EXCEPT ![r] =
                 IF Exists(n)
                 THEN [@ EXCEPT !.pc = "now", !.kind = disk[n].kind, !.len = disk[n].len]
                 ELSE NoGet]
    /\ UNCHANGED <<disk, litter, put, sweep, clock, puts, faults>>

(* touch: time.Now, then os.Chtimes; the handle is returned.               *)
GetNow(r) ==
    /\ get[r].pc = "now"
    /\ get' = [get EXCEPT ![r] = [@ EXCEPT !.pc = "touch", !.now = clock]]
    /\ UNCHANGED <<disk, litter, put, sweep, clock, puts, faults>>

GetTouch(r) ==
    /\ get[r].pc = "touch"
    /\ disk' = Touched(get[r].d, get[r].now)
    /\ \E earliest \in Stamps(get[r].d) :
          /\ \A t \in Stamps(get[r].d) : earliest <= t
          /\ get' = [get EXCEPT ![r] = [@ EXCEPT !.pc = "served", !.since = earliest]]
    /\ UNCHANGED <<litter, put, sweep, clock, puts, faults>>

-----------------------------------------------------------------------------
(* Sweep.                                                                  *)

(* os.ReadDir, at the wall-clock time the pass works with.                 *)
SweepList ==
    /\ sweep.pc = "idle"
    /\ sweep' = [pc |-> "listed", now |-> clock, seen |-> {n \in Names : Exists(n)},
                 todo |-> {}, clean |-> \A w \in Writers : put[w].pc = "idle"]
    /\ UNCHANGED <<disk, litter, put, get, clock, puts, faults>>

(* The listing as the pass reads it: a blob whose Info fails is skipped, a *)
(* sidecar whose Info fails counts with a zero mtime.                      *)
SeenMetas == {d \in Digests : Meta(d) \in sweep.seen}
SeenBlobs == {n \in sweep.seen : n[2] # "json" /\ Exists(n)}
SeenDigests == {n[1] : n \in SeenBlobs}
(* One entry per digest: when a digest was seen under two extensions the   *)
(* map keeps the later in the listing, whichever that is.                  *)
Entries == {f \in [SeenDigests -> SeenBlobs] : \A d \in SeenDigests : f[d][1] = d}
UsedAt(entry, d) == IF Exists(Meta(d)) THEN disk[Meta(d)].at ELSE disk[entry[d]].at
(* Mutant of ExpiredIn: the age of the last use.                           *)
ExpiredByUse(entry) ==
    {d \in SeenDigests \cap SeenMetas :
        TTL > 0 /\ sweep.now > UsedAt(entry, d) + TTL}
ExpiredIn(entry) ==
    {d \in SeenDigests \cap SeenMetas :
        TTL > 0 /\ sweep.now > disk[entry[d]].at + TTL}
Bytes(entry, S) == SumFunction([d \in S |-> disk[entry[d]].len])

(* Mutant of Evictions: one object per pass.                               *)
EvictsOnce(entry, live) ==
    {S \in SUBSET live :
        /\ \A d \in S, k \in live \ S : UsedAt(entry, d) <= UsedAt(entry, k)
        /\ IF MaxBytes > 0 /\ Bytes(entry, live) > MaxBytes
           THEN Cardinality(S) = 1 ELSE S = {}}

(* The evicted sets the size pass can choose among the live entries: a     *)
(* least-recently-used prefix (equal times are ordered by digest: either   *)
(* way), no longer than it takes to get under MaxBytes.                    *)
Evictions(entry, live) ==
    {S \in SUBSET live :
        /\ \A d \in S, k \in live \ S : UsedAt(entry, d) <= UsedAt(entry, k)
        /\ MaxBytes > 0 => Bytes(entry, live \ S) <= MaxBytes
        /\ S # {} => /\ MaxBytes > 0
                     /\ \E d \in S :
                           /\ \A k \in S : UsedAt(entry, k) <= UsedAt(entry, d)
                           /\ Bytes(entry, (live \ S) \cup {d}) > MaxBytes}

(* Mutant of Removable: blobs without a sidecar are left clean.            *)
RemovableMetas(entry, S) ==
    {Meta(d) : d \in SeenMetas \ SeenDigests}
    \cup UNION {{entry[d], Meta(d)} : d \in S}

(* Mutant of Removable: the path of a sidecar without its suffix.          *)
RemovableBare(entry, S) ==
    {<<d, "">> : d \in SeenMetas \ SeenDigests}
    \cup {entry[d] : d \in SeenDigests \ SeenMetas}
    \cup UNION {{entry[d], <<d, "">>} : d \in S}

(* Orphaned sidecars, orphaned blobs, and both files of the entries in S.  *)
Removable(entry, S) ==
    {Meta(d) : d \in SeenMetas \ SeenDigests}
    \cup {entry[d] : d \in SeenDigests \ SeenMetas}
    \cup UNION {{entry[d], Meta(d)} : d \in S}

(* The pass decides, from the listing clean, what it will remove, and      *)
(* drops temp files older than TempAge on the way.                         *)
SweepDecide ==
    /\ sweep.pc = "listed"
    /\ \E entry \in Entries :
       LET live == (SeenDigests \cap SeenMetas) \ ExpiredIn(entry) IN
       \E S \in Evictions(entry, live) :
          sweep' = [sweep EXCEPT
             !.pc = "removing",
             !.todo = Removable(entry, ExpiredIn(entry) \cup S)]
    /\ litter' = {t \in litter : sweep.now <= t + TempAge}
    /\ put' = [w \in Writers |->
                 IF put[w].tmp /\ sweep.now > put[w].at + TempAge
                 THEN [put[w] EXCEPT !.tmp = FALSE] ELSE put[w]]
    /\ UNCHANGED <<disk, get, clock, puts, faults>>

(* One os.Remove; evict removes the blob before its sidecar.               *)
SweepRemove ==
    /\ sweep.pc = "removing"
    /\ \E n \in sweep.todo :
          /\ n[2] = "json" => \A m \in sweep.todo : m[1] = n[1] => m = n
          /\ disk' = [disk EXCEPT ![n] = Absent]
          /\ sweep' = [sweep EXCEPT !.todo = @ \ {n}]
    /\ UNCHANGED <<litter, put, get, clock, puts, faults>>

(* os.Remove fails: remove logs it and the pass goes on.                   *)
SweepSkips ==
    /\ faults < MaxFaults
    /\ faults' = faults + 1
    /\ sweep.pc = "removing"
    /\ \E n \in sweep.todo :
          /\ n[2] = "json" => \A m \in sweep.todo : m[1] = n[1] => m = n
          /\ sweep' = [sweep EXCEPT !.todo = @ \ {n}, !.clean = FALSE]
    /\ UNCHANGED <<disk, litter, put, get, clock, puts>>

(* Without a retention limit RunSweeper sweeps once, at startup.            *)
SweepDone ==
    /\ sweep.pc = "removing" /\ sweep.todo = {}
    /\ sweep' = IF MaxBytes = 0 /\ TTL = 0 THEN [NoSweep EXCEPT !.pc = "off"] ELSE NoSweep
    /\ UNCHANGED <<disk, litter, put, get, clock, puts, faults>>

-----------------------------------------------------------------------------
Tick ==
    /\ clock < MaxTime
    /\ clock' = clock + 1
    /\ UNCHANGED <<disk, litter, put, get, sweep, puts, faults>>

(* The process dies and restarts: files stay, temp files of the calls in   *)
(* progress become litter.                                                 *)
Crash ==
    /\ faults < MaxFaults
    /\ clock + TempAge < MaxTime      \* bound: the clock can outlive the litter
    /\ faults' = faults + 1
    /\ litter' = litter \cup {put[w].at : w \in {v \in Writers : put[v].tmp}}
    /\ put' = [w \in Writers |-> NoPut]
    /\ get' = [r \in Readers |-> NoGet]
    /\ sweep' = NoSweep
    /\ UNCHANGED <<disk, clock, puts>>

(* The steps after the payload has arrived.                                *)
PutStores(w) ==
    \/ PutCheck(w) \/ PutStat(w) \/ PutNow(w) \/ PutTouch(w)
    \/ PutRename(w) \/ PutSidecar(w) \/ PutMeta(w) \/ PutMetaFails(w)

SweepStep == SweepList \/ SweepDecide \/ SweepRemove \/ SweepDone

Next ==
    \/ \E w \in Writers : PutBegin(w) \/ PutSpool(w) \/ PutFails(w) \/ PutStores(w)
    \/ \E r \in Readers : GetBegin(r) \/ GetOpen(r) \/ GetNow(r) \/ GetTouch(r)
    \/ SweepStep \/ SweepSkips
    \/ Tick
    \/ Crash

Spec == Init /\ [][Next]_vars

(* RunSweeper's ticker keeps firing, file system calls return and time     *)
(* passes.  Nothing bounds how long a request body takes to arrive, so     *)
(* PutSpool is not fair.                                                   *)
Fairness ==
    /\ WF_vars(SweepStep)
    /\ \A w \in Writers : WF_vars(PutStores(w))
    /\ WF_vars(Tick)

FairSpec == Spec /\ Fairness

-----------------------------------------------------------------------------
(* A handle Open returned for digest d reads the whole payload d was       *)
(* stored from (http.go: "the bytes behind a digest can never change"),    *)
(* whatever Puts, sweeps and crashes came between.                         *)
ServedBytes ==
    \A r \in Readers : get[r].pc = "served" =>
        /\ get[r].kind = "blob"
        /\ get[r].len = SizeOf[get[r].d]

(* What an upload left on disk respects the limit, and was never cut to    *)
(* it: every file under a blob name is a whole payload.                    *)
StoredWhole ==
    \A d \in Digests, e \in Exts : Exists(<<d, e>>) =>
        disk[<<d, e>>].kind = "blob" /\ disk[<<d, e>>].len = SizeOf[d]

(* A use is lost only to calls it overlaps.  No lock orders the writers of *)
(* a sidecar, so a touch can be overwritten by an older time: that of a    *)
(* Put of the same bytes whose temp sidecar was already written, or of a   *)
(* touch that had already read the clock.  But whatever follows the use,   *)
(* the time the sweeper orders a surviving object by never falls behind    *)
(* the earliest such time that was pending when the object was served.     *)
UseCounts ==
    \A r \in Readers :
        get[r].pc = "served" /\ disk[Meta(get[r].d)].kind = "meta" =>
            disk[Meta(get[r].d)].at >= get[r].since

(* The stronger claim of sweep.go ("Lookup and Open bump [it] on every     *)
(* hit"): an object that was served and still has its sidecar counts as    *)
(* used at the time its touch read, or later.                              *)
UseSticks ==
    \A r \in Readers :
        get[r].pc = "served" /\ disk[Meta(get[r].d)].kind = "meta" =>
            disk[Meta(get[r].d)].at >= get[r].now

BlobBytes == SumFunction([n \in Digests \X Exts |-> disk[n].len])
SweepEnds == sweep.pc = "removing" /\ sweep.todo = {} /\ sweep.clean

(* "RemainingBytes is the store size after eviction": a pass no Put        *)
(* overlapped leaves at most MaxBytes of blobs, whatever orphans and       *)
(* sidecars earlier crashes, failed writes and failed removals left.       *)
SweepCaps == SweepEnds /\ MaxBytes > 0 => BlobBytes <= MaxBytes

(* "Re-reading a file does not keep it alive past its expiry": such a pass *)
(* leaves no blob stored longer than TTL ago, however recently it was used. *)
SweepExpires ==
    SweepEnds /\ TTL > 0 =>
        \A d \in Digests, e \in Exts :
            Exists(<<d, e>>) => sweep.now <= disk[<<d, e>>].at + TTL

(* A Put that stored the object leaves bytes to serve: the blob it renamed *)
(* into place is still there when Put returns the descriptor.              *)
PutLeavesBytes ==
    [][\A w \in Writers : PutMeta(w) => Exists(<<put[w].d, put[w].ext>>)]_vars

(* After the last Put and crash the directory comes to hold complete       *)
(* objects only: no temp files, no blob without a sidecar, no sidecar      *)
(* without bytes, whichever step the crash or the failure fell on.         *)
EventuallyTidy ==
    <>[](/\ litter = {}
         /\ \A d \in Digests :
               Exists(Meta(d)) <=> \E e \in Exts : Exists(<<d, e>>))
=============================================================================
