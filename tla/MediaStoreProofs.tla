--------------------------- MODULE MediaStoreProofs ---------------------------
(* Proofs about MediaStore: for any number of payloads, writers, readers,  *)
(* crashes and any limits, what a reader is served is what was stored.     *)
EXTENDS MediaStore, DataLemmas, TLAPS

(* A call past its start knows its payload and extension; one that may     *)
(* still store them carries the whole payload.                             *)
Sound(p) ==
    /\ p \in PutCalls
    /\ p.pc # "idle" => p.d \in Digests /\ p.ext \in Exts
    /\ p.pc \in {"check", "stat", "rename"} => p.len = SizeOf[p.d]
PutInv == \A w \in Writers : Sound(put[w])

(* A file under a sidecar's name is a sidecar that names an extension.     *)
MetaInv ==
    \A d \in Digests :
        /\ disk[Meta(d)].kind \in {"none", "meta"}
        /\ disk[Meta(d)].kind = "meta" => disk[Meta(d)].ext \in Exts

GetInv ==
    \A r \in Readers :
        /\ get[r].pc # "idle" => get[r].d \in Digests /\ get[r].ext \in Exts
        /\ get[r].pc \in {"now", "touch", "served"} =>
              get[r].kind = "blob" /\ get[r].len = SizeOf[get[r].d]
        /\ get[r].now <= clock /\ get[r].since <= clock

(* The inductive invariant.                                                *)
IInv ==
    /\ TypeOK /\ PutInv /\ MetaInv /\ GetInv
    /\ StoredWhole /\ ServedBytes

(* No extension is taken for the sidecar's.                                *)
JsonFree == "json" \notin Exts

-----------------------------------------------------------------------------
LEMMA NamesApart ==
    ASSUME JsonFree
    PROVE  /\ \A d \in Digests : Meta(d) \in Names
           /\ \A d \in Digests, e \in Exts : <<d, e>> \in Names
           /\ \A d, c \in Digests, e \in Exts : <<d, e>> # Meta(c)
           /\ \A d, c \in Digests : Meta(d) = Meta(c) => d = c
  BY DEF JsonFree, Meta, Names

LEMMA MetaKinds ==
    ASSUME IInv, NEW w \in Writers, put[w].pc = "check"
    PROVE  disk[Meta(put[w].d)].kind \in {"none", "meta"}
  BY DEF IInv, PutInv, Sound, MetaInv

(* touch changes at most the time of one sidecar.                          *)
LEMMA TouchedFile ==
    ASSUME TypeOK, NEW d \in Digests, NEW t \in Time
    PROVE  /\ Touched(d, t) \in [Names -> Files]
           /\ \A n \in Names : /\ Touched(d, t)[n].kind = disk[n].kind
                               /\ Touched(d, t)[n].len = disk[n].len
                               /\ Touched(d, t)[n].ext = disk[n].ext
                               /\ n # Meta(d) => Touched(d, t)[n] = disk[n]
           /\ Exists(Meta(d)) => Touched(d, t)[Meta(d)].at = t
  <1>1. Meta(d) \in Names
    BY DEF Meta, Names
  <1>2. \A n \in Names : disk[n] \in Files
    BY DEF TypeOK
  <1>3. [disk[Meta(d)] EXCEPT !.at = t] \in Files
    BY <1>1, <1>2 DEF TypeOK, Files
  <1> QED
    BY <1>1, <1>2, <1>3 DEF Touched, TypeOK, Files

LEMMA NoPutSound == Sound(NoPut)
  BY StoreAssumption DEF Sound, NoPut, PutCalls, Time, StoreAssumption

LEMMA InitIInv ==
    ASSUME JsonFree, Init
    PROVE  IInv
  <1>1. TypeOK
    BY StoreAssumption
    DEF Init, TypeOK, StoreAssumption, Absent, Files, Time, NoPut, PutCalls,
        NoGet, GetCalls, NoSweep, Sweeps
  <1>2. PutInv /\ GetInv
    BY NoPutSound, StoreAssumption DEF Init, PutInv, GetInv, NoGet, StoreAssumption
  <1>3. MetaInv /\ StoredWhole
    BY NamesApart DEF Init, MetaInv, StoredWhole, Exists, Absent
  <1>4. ServedBytes
    BY DEF Init, ServedBytes, NoGet
  <1> QED
    BY <1>1, <1>2, <1>3, <1>4 DEF IInv

(* The spooled length of an accepted payload is its whole length.          *)
LEMMA SpooledWhole ==
    ASSUME IInv, NEW w \in Writers, put[w].pc = "spool"
    PROVE  /\ Spooled(w) \in Nat
           /\ ~ Refused(w) => Spooled(w) = SizeOf[put[w].d]
  <1>1. put[w].d \in Digests
    BY DEF IInv, PutInv, Sound
  <1> QED
    BY <1>1, StoreAssumption DEF StoreAssumption, Spooled, Refused

(* A step of one call leaves the others sound.                             *)
LEMMA OnePut ==
    ASSUME TypeOK, PutInv, NEW w \in Writers, NEW p, Sound(p),
           put' = [put EXCEPT ![w] = p]
    PROVE  put' \in [Writers -> PutCalls] /\ PutInv'
  BY DEF TypeOK, PutInv, Sound

(* Steps that leave the files alone.                                       *)
LEMMA CallKeepsIInv ==
    ASSUME JsonFree, IInv, NEW w \in Writers,
           \/ PutBegin(w) \/ PutSpool(w) \/ PutFails(w) \/ PutCheck(w)
           \/ PutStat(w) \/ PutNow(w) \/ PutSidecar(w)
    PROVE  IInv'
  <1> USE DEF IInv
  <1>1. UNCHANGED <<disk, litter, get, clock, faults>>
    BY DEF PutBegin, PutSpool, PutFails, PutCheck, PutStat, PutNow, PutSidecar
  <1>2. (MetaInv /\ GetInv /\ StoredWhole /\ ServedBytes)'
    BY <1>1 DEF MetaInv, GetInv, StoredWhole, ServedBytes, Exists, Meta
  <1>a. Sound(put[w]) /\ clock \in Time
    BY DEF PutInv, TypeOK
  <1>3. put' \in [Writers -> PutCalls] /\ PutInv'
    <2>1. CASE PutBegin(w)
      <3>1. PICK d \in Digests, e \in Exts, b \in BOOLEAN :
               put' = [put EXCEPT ![w] =
                    [pc |-> "spool", d |-> d, ext |-> e, bounded |-> b,
                     len |-> 0, tmp |-> TRUE, at |-> clock, found |-> "none", now |-> 0]]
        BY <2>1 DEF PutBegin
      <3> DEFINE p == [pc |-> "spool", d |-> d, ext |-> e, bounded |-> b,
                       len |-> 0, tmp |-> TRUE, at |-> clock, found |-> "none", now |-> 0]
      <3>2. Sound(p)
        BY <1>a, StoreAssumption DEF Sound, PutCalls, Time, StoreAssumption
      <3> HIDE DEF p
      <3> QED
        BY <3>1, <3>2, OnePut DEF p
    <2>2. CASE PutSpool(w)
      <3>1. CASE Refused(w)
        BY <2>2, <3>1, OnePut, NoPutSound DEF PutSpool
      <3>2. CASE ~ Refused(w)
        <4> DEFINE p == [put[w] EXCEPT !.pc = "check", !.bounded = FALSE,
                                     !.len = Spooled(w), !.at = clock]
        <4>1. Spooled(w) \in Nat /\ Spooled(w) = SizeOf[put[w].d]
          BY <2>2, <3>2, SpooledWhole DEF PutSpool
        <4>2. Sound(p)
          BY <2>2, <4>1, <1>a DEF Sound, PutCalls, PutSpool
        <4>3. put' = [put EXCEPT ![w] = p]
          BY <2>2, <3>2 DEF PutSpool
        <4> QED
          BY <4>2, <4>3, OnePut
      <3> QED
        BY <3>1, <3>2
    <2>3. CASE PutFails(w)
      BY <2>3, OnePut, NoPutSound DEF PutFails
    <2>4. CASE PutCheck(w)
      <3> DEFINE meta == disk[Meta(put[w].d)]
      <3>1. put[w].pc = "check" /\ put[w].d \in Digests
        BY <2>4, <1>a DEF PutCheck, Sound
      <3>2. meta.kind \in {"none", "meta"}
        BY <3>1 DEF MetaInv
      <3>3. CASE meta.kind = "none"
        <4>1. put' = [put EXCEPT ![w] = [put[w] EXCEPT !.pc = "rename"]]
          BY <2>4, <3>3 DEF PutCheck
        <4>2. Sound([put[w] EXCEPT !.pc = "rename"])
          BY <1>a, <3>1 DEF Sound, PutCalls
        <4> QED
          BY <4>1, <4>2, OnePut
      <3>4. CASE meta.kind = "meta"
        <4> DEFINE p == [put[w] EXCEPT !.pc = "stat", !.found = meta.ext]
        <4>1. put' = [put EXCEPT ![w] = p]
          BY <2>4, <3>4 DEF PutCheck
        <4>2. meta.ext \in Exts
          BY <3>1, <3>4 DEF MetaInv
        <4>3. Sound(p)
          BY <1>a, <3>1, <4>2 DEF Sound, PutCalls
        <4> QED
          BY <4>1, <4>3, OnePut
      <3> QED
        BY <3>2, <3>3, <3>4
    <2>5. CASE PutStat(w)
      <3> DEFINE p(x) == [put[w] EXCEPT !.pc = x, !.found = "none"]
      <3>1. Sound(p("now")) /\ Sound(p("rename"))
        BY <2>5, <1>a DEF Sound, PutCalls, PutStat
      <3>2. put' = [put EXCEPT ![w] = p("now")] \/ put' = [put EXCEPT ![w] = p("rename")]
        BY <2>5 DEF PutStat
      <3> HIDE DEF p
      <3> QED
        BY <3>1, <3>2, OnePut
    <2>6. CASE PutNow(w)
      <3> DEFINE p == [put[w] EXCEPT !.pc = "touch", !.now = clock]
      <3>1. Sound(p)
        BY <2>6, <1>a DEF Sound, PutCalls, PutNow
      <3> QED
        BY <2>6, <3>1, OnePut DEF PutNow
    <2>7. CASE PutSidecar(w)
      <3> DEFINE p == [put[w] EXCEPT !.pc = "place", !.tmp = TRUE, !.at = clock]
      <3>1. Sound(p)
        BY <2>7, <1>a DEF Sound, PutCalls, PutSidecar
      <3> QED
        BY <2>7, <3>1, OnePut DEF PutSidecar
    <2> QED
      BY <2>1, <2>2, <2>3, <2>4, <2>5, <2>6, <2>7
  <1>4. sweep' \in {sweep, Disturbed} /\ puts' \in {puts, puts + 1}
    BY DEF PutBegin, PutSpool, PutFails, PutCheck, PutStat, PutNow, PutSidecar
  <1>5. puts' \in 0..MaxPuts
    BY StoreAssumption
    DEF PutBegin, PutSpool, PutFails, PutCheck, PutStat, PutNow, PutSidecar, TypeOK,
        StoreAssumption
  <1>6. sweep' \in Sweeps
    BY <1>4 DEF Disturbed, TypeOK, Sweeps
  <1> QED
    BY <1>1, <1>2, <1>3, <1>5, <1>6 DEF TypeOK

(* The steps of Put that change a file, each to the state its caller or    *)
(* the next reader relies on.                                              *)
LEMMA StoreKeepsIInv ==
    ASSUME JsonFree, IInv, NEW w \in Writers,
           PutTouch(w) \/ PutRename(w) \/ PutMeta(w) \/ PutMetaFails(w)
    PROVE  IInv'
  <1> USE DEF IInv
  <1> DEFINE d == put[w].d
             e == put[w].ext
  <1>1. UNCHANGED <<litter, get, sweep, clock, puts, faults>>
    BY DEF PutTouch, PutRename, PutMeta, PutMetaFails
  <1>2. /\ Sound(put[w]) /\ d \in Digests /\ e \in Exts
        /\ put[w].len \in Nat /\ put[w].at \in Time /\ put[w].now \in Time
    BY DEF PutInv, Sound, PutTouch, PutRename, PutMeta, PutMetaFails, PutCalls
  <1>3. clock \in Time /\ disk \in [Names -> Files]
    BY DEF TypeOK
  <1>4. Meta(d) \in Names /\ <<d, e>> \in Names
    BY <1>2, NamesApart
  <1>5. put' \in [Writers -> PutCalls] /\ PutInv'
    <2> DEFINE p == [put[w] EXCEPT !.pc = "meta", !.len = 0, !.tmp = FALSE, !.at = 0]
    <2>1. 0 \in Time
      BY StoreAssumption DEF Time, StoreAssumption
    <2>2. Sound(p)
      BY <1>2, <2>1 DEF Sound, PutCalls
    <2>3. put' = [put EXCEPT ![w] = NoPut] \/ put' = [put EXCEPT ![w] = p]
      <3>1. CASE PutTouch(w)
        BY <3>1 DEF PutTouch
      <3>2. CASE PutRename(w)
        BY <3>2 DEF PutRename
      <3>3. CASE PutMeta(w) \/ PutMetaFails(w)
        BY <3>3 DEF PutMeta, PutMetaFails
      <3> QED
        BY <3>1, <3>2, <3>3
    <2> HIDE DEF p
    <2> QED
      BY <2>2, <2>3, OnePut, NoPutSound
  <1>6. CASE disk' = disk
    BY <1>1, <1>5, <1>6
    DEF TypeOK, MetaInv, GetInv, StoredWhole, ServedBytes, Exists, Meta
  <1>7. CASE disk' = Touched(d, put[w].now)
    <2>1. /\ disk' \in [Names -> Files]
          /\ \A n \in Names : /\ disk'[n].kind = disk[n].kind
                              /\ disk'[n].len = disk[n].len
                              /\ disk'[n].ext = disk[n].ext
      BY <1>2, <1>7, TouchedFile
    <2>2. (MetaInv /\ StoredWhole)'
      BY <2>1, NamesApart DEF MetaInv, StoredWhole, Exists
    <2> QED
      BY <1>1, <1>5, <2>1, <2>2 DEF TypeOK, GetInv, ServedBytes
  <1>8. CASE PutRename(w) /\ disk' = [disk EXCEPT ![<<d, e>>] = Blob(put[w].len, put[w].at)]
    <2>1. Blob(put[w].len, put[w].at) \in Files
      BY <1>2 DEF Blob, Files
    <2>2. disk' \in [Names -> Files]
      BY <1>3, <1>8, <2>1
    <2>3. MetaInv'
      BY <1>2, <1>3, <1>4, <1>8, NamesApart DEF MetaInv
    <2>4. put[w].len = SizeOf[d]
      BY <1>2, <1>8 DEF PutRename, Sound
    <2>5. StoredWhole'
      BY <1>2, <1>3, <1>4, <1>8, <2>4, NamesApart DEF StoredWhole, Exists, Blob
    <2> QED
      BY <1>1, <1>5, <2>2, <2>3, <2>5 DEF TypeOK, GetInv, ServedBytes
  <1>9. CASE disk' = [disk EXCEPT ![Meta(d)] = Sidecar(e, put[w].at)]
    <2>1. Sidecar(e, put[w].at) \in Files
      BY <1>2 DEF Sidecar, Files
    <2>2. disk' \in [Names -> Files]
      BY <1>3, <1>9, <2>1
    <2>3. MetaInv' /\ StoredWhole'
      BY <1>2, <1>3, <1>4, <1>9, NamesApart DEF MetaInv, StoredWhole, Exists, Sidecar
    <2> QED
      BY <1>1, <1>5, <2>2, <2>3 DEF TypeOK, GetInv, ServedBytes
  <1>10. CASE disk' = [disk EXCEPT ![<<d, e>>] = Absent]
    <2>1. Absent \in Files
      BY StoreAssumption DEF Absent, Files, Time, StoreAssumption
    <2>2. disk' \in [Names -> Files]
      BY <1>3, <1>10, <2>1
    <2>3. MetaInv'
      BY <1>2, <1>3, <1>4, <1>10, NamesApart DEF MetaInv
    <2>4. StoredWhole'
      BY <1>2, <1>3, <1>4, <1>10, NamesApart DEF StoredWhole, Exists, Absent
    <2> QED
      BY <1>1, <1>5, <2>2, <2>3, <2>4 DEF TypeOK, GetInv, ServedBytes
  <1> QED
    BY <1>6, <1>7, <1>8, <1>9, <1>10 DEF PutTouch, PutRename, PutMeta, PutMetaFails

(* A step of one reader, which may touch the object it is served.          *)
LEMMA GetKeepsIInv ==
    ASSUME JsonFree, IInv, NEW r \in Readers,
           GetBegin(r) \/ GetOpen(r) \/ GetNow(r) \/ GetTouch(r)
    PROVE  IInv'
  <1> USE DEF IInv
  <1>1. UNCHANGED <<litter, put, sweep, clock, puts, faults>>
    BY DEF GetBegin, GetOpen, GetNow, GetTouch
  <1>2. /\ clock \in Time /\ disk \in [Names -> Files]
        /\ get \in [Readers -> GetCalls]
    BY DEF TypeOK
  <1>3. PutInv'
    BY <1>1 DEF PutInv
  <1> DEFINE Fits(g) == /\ g \in GetCalls
                        /\ g.pc # "idle" => g.d \in Digests /\ g.ext \in Exts
                        /\ g.pc \in {"now", "touch", "served"} =>
                              g.kind = "blob" /\ g.len = SizeOf[g.d]
                        /\ g.now <= clock /\ g.since <= clock
  <1>4. \A q \in Readers : Fits(get[q])
    BY <1>2 DEF GetInv
  <1>5. Fits(NoGet)
    BY StoreAssumption, <1>2 DEF NoGet, GetCalls, Time, StoreAssumption
  <1>6. ASSUME NEW g, Fits(g), get' = [get EXCEPT ![r] = g]
        PROVE  GetInv' /\ get' \in [Readers -> GetCalls] /\ ServedBytes'
    <2>1. \A q \in Readers : Fits(get'[q])
      BY <1>2, <1>4, <1>6
    <2> QED
      BY <1>1, <1>2, <1>6, <2>1 DEF GetInv, ServedBytes
  <1>7. \E g : Fits(g) /\ get' = [get EXCEPT ![r] = g]
    <2>1. CASE GetBegin(r)
      <3>1. PICK d \in Digests : get' = [get EXCEPT ![r] =
                    IF disk[Meta(d)].kind = "meta"
                    THEN [NoGet EXCEPT !.pc = "open", !.d = d, !.ext = disk[Meta(d)].ext]
                    ELSE NoGet]
        BY <2>1 DEF GetBegin
      <3>2. CASE disk[Meta(d)].kind = "meta"
        <4> DEFINE g == [NoGet EXCEPT !.pc = "open", !.d = d, !.ext = disk[Meta(d)].ext]
        <4>1. disk[Meta(d)].ext \in Exts
          BY <3>2 DEF MetaInv
        <4>2. Fits(g)
          BY <1>5, <4>1 DEF NoGet, GetCalls
        <4>3. get' = [get EXCEPT ![r] = g]
          BY <3>1, <3>2
        <4> HIDE DEF g, Fits
        <4> QED
          BY <4>2, <4>3
      <3>3. CASE disk[Meta(d)].kind # "meta"
        <4>1. get' = [get EXCEPT ![r] = NoGet]
          BY <3>1, <3>3
        <4> HIDE DEF Fits
        <4> QED
          BY <1>5, <4>1
      <3> QED
        BY <3>2, <3>3
    <2>2. CASE GetOpen(r)
      <3> DEFINE n == <<get[r].d, get[r].ext>>
                 g == [get[r] EXCEPT !.pc = "now", !.kind = disk[n].kind, !.len = disk[n].len]
      <3>1. Fits(get[r]) /\ get[r].pc = "open"
        BY <1>4, <2>2 DEF GetOpen
      <3>2. CASE Exists(n)
        <4>1. n \in Names /\ disk[n].kind = "blob" /\ disk[n].len = SizeOf[get[r].d]
              /\ disk[n].len \in Nat
          BY <1>2, <3>1, <3>2, NamesApart DEF StoredWhole, Files
        <4>2. Fits(g)
          BY <3>1, <4>1 DEF GetCalls
        <4>3. get' = [get EXCEPT ![r] = g]
          BY <2>2, <3>2 DEF GetOpen
        <4> HIDE DEF g, Fits
        <4> QED
          BY <4>2, <4>3
      <3>3. CASE ~ Exists(n)
        <4>1. get' = [get EXCEPT ![r] = NoGet]
          BY <2>2, <3>3 DEF GetOpen
        <4> HIDE DEF Fits
        <4> QED
          BY <1>5, <4>1
      <3> QED
        BY <3>2, <3>3
    <2>3. CASE GetNow(r)
      <3> DEFINE g == [get[r] EXCEPT !.pc = "touch", !.now = clock]
      <3>1. Fits(get[r]) /\ get[r].pc = "now"
        BY <1>4, <2>3 DEF GetNow
      <3>2. g \in GetCalls
        BY <1>2, <3>1 DEF GetCalls
      <3>a. /\ g.pc = "touch" /\ g.now = clock /\ g.since = get[r].since /\ g.d = get[r].d
            /\ g.ext = get[r].ext /\ g.kind = get[r].kind /\ g.len = get[r].len
        BY <1>2, <3>1 DEF GetCalls
      <3>b. clock <= clock
        BY <1>2 DEF Time
      <3>c. Fits(g)
        <4> HIDE DEF g
        <4> QED BY <3>1, <3>2, <3>a, <3>b
      <3>3. get' = [get EXCEPT ![r] = g]
        BY <2>3 DEF GetNow
      <3> HIDE DEF g, Fits
      <3> QED
        BY <3>c, <3>3
    <2>4. CASE GetTouch(r)
      <3>1. Fits(get[r]) /\ get[r].pc = "touch"
        BY <1>4, <2>4 DEF GetTouch
      <3>2. PICK t \in Stamps(get[r].d) :
               /\ \A u \in Stamps(get[r].d) : t <= u
               /\ get' = [get EXCEPT ![r] = [get[r] EXCEPT !.pc = "served", !.since = t]]
        BY <2>4 DEF GetTouch
      <3> DEFINE g == [get[r] EXCEPT !.pc = "served", !.since = t]
      <3>3. get[r].now \in Stamps(get[r].d)
        BY <3>1 DEF Stamps
      <3>4. t \in Time
        BY <3>2 DEF Stamps, TypeOK, PutCalls, GetCalls
      <3>5. t <= clock
        BY <1>2, <3>1, <3>2, <3>3, <3>4 DEF GetCalls, Time
      <3>6. Fits(g)
        BY <3>1, <3>4, <3>5 DEF GetCalls
      <3>7. get' = [get EXCEPT ![r] = g]
        BY <3>2
      <3> HIDE DEF g, Fits
      <3> QED
        BY <3>6, <3>7
    <2> QED
      BY <2>1, <2>2, <2>3, <2>4
  <1>8. GetInv' /\ get' \in [Readers -> GetCalls] /\ ServedBytes'
    <2> HIDE DEF Fits
    <2> QED
      BY <1>6, <1>7
  <1>9. CASE disk' = disk
    BY <1>1, <1>2, <1>3, <1>8, <1>9 DEF TypeOK, MetaInv, StoredWhole, Exists
  <1>10. CASE GetTouch(r)
    <2>1. disk' = Touched(get[r].d, get[r].now) /\ get[r].d \in Digests /\ get[r].now \in Time
      BY <1>2, <1>4, <1>10 DEF GetTouch, GetCalls
    <2>2. /\ disk' \in [Names -> Files]
          /\ \A m \in Names : /\ disk'[m].kind = disk[m].kind
                              /\ disk'[m].len = disk[m].len
                              /\ disk'[m].ext = disk[m].ext
      BY <2>1, TouchedFile
    <2>3. MetaInv' /\ StoredWhole'
      BY <2>2, NamesApart DEF MetaInv, StoredWhole, Exists
    <2> QED
      BY <1>1, <1>3, <1>8, <2>2, <2>3 DEF TypeOK
  <1> QED
    BY <1>9, <1>10 DEF GetBegin, GetOpen, GetNow

(* The sweeper removes whole files, names from its own listing only, and   *)
(* temp files.                                                             *)
LEMMA SweepKeepsIInv ==
    ASSUME JsonFree, IInv, SweepStep
    PROVE  IInv'
  <1> USE DEF IInv
  <1>1. UNCHANGED <<get, clock, puts, faults>>
    BY DEF SweepStep, SweepList, SweepDecide, SweepRemove, SweepDone
  <1>2. /\ clock \in Time /\ disk \in [Names -> Files] /\ sweep \in Sweeps
        /\ litter \subseteq Time /\ put \in [Writers -> PutCalls]
    BY DEF TypeOK
  <1>3. put' \in [Writers -> PutCalls] /\ PutInv'
    <2>1. CASE SweepDecide
      <3>1. \A w \in Writers : put'[w] \in {put[w], [put[w] EXCEPT !.tmp = FALSE]}
        BY <2>1 DEF SweepDecide
      <3>2. ASSUME NEW w \in Writers
            PROVE  Sound(put[w]) /\ Sound([put[w] EXCEPT !.tmp = FALSE])
        <4>1. Sound(put[w])
          BY DEF PutInv
        <4>2. Sound([put[w] EXCEPT !.tmp = FALSE])
          BY <4>1 DEF Sound, PutCalls
        <4>3. QED BY <4>1, <4>2
      <3>3. \A w \in Writers : Sound(put'[w])
        BY <3>1, <3>2
      <3>4. put' = [w \in Writers |-> put'[w]]
        BY <2>1 DEF SweepDecide
      <3> QED
        BY <3>3, <3>4 DEF PutInv, Sound
    <2>2. CASE put' = put
      BY <2>2, <1>2 DEF PutInv
    <2> QED
      BY <2>1, <2>2 DEF SweepStep, SweepList, SweepRemove, SweepDone
  <1>4. sweep' \in Sweeps
    <2>1. CASE SweepList
      BY <1>2, <2>1 DEF SweepList, Sweeps
    <2>2. CASE SweepDecide
      <3>1. PICK entry \in Entries, S \in SUBSET (SeenDigests \cap SeenMetas) :
               sweep' = [sweep EXCEPT !.pc = "removing",
                            !.todo = Removable(entry, ExpiredIn(entry) \cup S)]
        BY <2>2 DEF SweepDecide, Evictions
      <3>2. SeenDigests \subseteq Digests /\ SeenMetas \subseteq Digests
            /\ ExpiredIn(entry) \subseteq SeenDigests
        BY <1>2 DEF SeenDigests, SeenBlobs, SeenMetas, ExpiredIn, Sweeps, Names
      <3>3. \A d \in SeenDigests : entry[d] \in Names
        BY <1>2, <3>1 DEF Entries, SeenBlobs, Sweeps
      <3>4. Removable(entry, ExpiredIn(entry) \cup S) \subseteq Names
        BY <3>1, <3>2, <3>3, NamesApart DEF Removable
      <3> QED
        BY <1>2, <3>1, <3>4 DEF Sweeps
    <2>3. CASE SweepRemove
      BY <1>2, <2>3 DEF SweepRemove, Sweeps
    <2>4. CASE SweepDone
      <3>1. NoSweep \in Sweeps
        BY StoreAssumption DEF NoSweep, Sweeps, Time, StoreAssumption
      <3>2. [NoSweep EXCEPT !.pc = "off"] \in Sweeps
        BY <3>1 DEF Sweeps
      <3> QED
        BY <2>4, <3>1, <3>2 DEF SweepDone
    <2> QED
      BY <2>1, <2>2, <2>3, <2>4 DEF SweepStep
  <1>5. litter' \subseteq Time
    BY <1>2 DEF SweepStep, SweepList, SweepDecide, SweepRemove, SweepDone
  <1>6. CASE disk' = disk
    BY <1>1, <1>2, <1>3, <1>4, <1>5, <1>6
    DEF TypeOK, MetaInv, GetInv, StoredWhole, ServedBytes, Exists, Meta
  <1>7. CASE SweepRemove
    <2>1. PICK n \in Names : disk' = [disk EXCEPT ![n] = Absent]
      BY <1>2, <1>7 DEF SweepRemove, Sweeps
    <2>2. Absent \in Files
      BY StoreAssumption DEF Absent, Files, Time, StoreAssumption
    <2>3. disk' \in [Names -> Files]
      BY <1>2, <2>1, <2>2
    <2>4. (MetaInv /\ StoredWhole)'
      BY <1>1, <1>2, <2>1, NamesApart
      DEF MetaInv, StoredWhole, GetInv, Exists, Absent, Meta
    <2> QED
      BY <1>1, <1>3, <1>4, <1>5, <2>3, <2>4 DEF TypeOK, GetInv, ServedBytes
  <1> QED
    BY <1>6, <1>7 DEF SweepStep, SweepList, SweepDecide, SweepDone

(* Time passes; a removal fails; a crash forgets every call and keeps every *)
(* file.                                                                   *)
LEMMA WorldKeepsIInv ==
    ASSUME JsonFree, IInv, Tick \/ SweepSkips \/ Crash
    PROVE  IInv'
  <1> USE DEF IInv
  <1>1. UNCHANGED <<disk, puts>>
    BY DEF Tick, SweepSkips, Crash
  <1>2. (MetaInv /\ StoredWhole)'
    BY <1>1 DEF MetaInv, StoredWhole, Exists, Meta
  <1>3. CASE Tick
    <2>1. clock' \in Time /\ clock' = clock + 1 /\ clock \in Time
      BY <1>3, StoreAssumption DEF Tick, TypeOK, Time, StoreAssumption
    <2>2. GetInv'
      BY <1>3, <2>1 DEF Tick, GetInv, TypeOK, GetCalls, Time
    <2> QED
      BY <1>1, <1>2, <1>3, <2>1, <2>2
      DEF Tick, TypeOK, PutInv, ServedBytes, Meta
  <1>4. CASE Crash
    <2>1. NoGet \in GetCalls /\ NoGet.now <= clock /\ NoGet.since <= clock /\ NoGet.pc = "idle"
      BY StoreAssumption DEF NoGet, GetCalls, TypeOK, Time, StoreAssumption
    <2>2. get' = [r \in Readers |-> NoGet] /\ put' = [w \in Writers |-> NoPut]
          /\ sweep' = NoSweep /\ clock' = clock
      BY <1>4 DEF Crash
    <2>3. (GetInv /\ ServedBytes)' /\ get' \in [Readers -> GetCalls]
      BY <2>1, <2>2 DEF GetInv, ServedBytes
    <2>4. PutInv' /\ put' \in [Writers -> PutCalls]
      BY <2>2, NoPutSound DEF PutInv, Sound
    <2>5. litter' \subseteq Time
      BY <1>4 DEF Crash, TypeOK, PutCalls
    <2>6. sweep' \in Sweeps /\ faults' \in 0..MaxFaults
      BY <1>4, <2>2, StoreAssumption
      DEF Crash, NoSweep, Sweeps, Time, TypeOK, StoreAssumption
    <2> QED
      BY <1>1, <1>2, <2>2, <2>3, <2>4, <2>5, <2>6 DEF TypeOK
  <1>5. CASE SweepSkips
    <2>1. UNCHANGED <<litter, put, get, clock>>
      BY <1>5 DEF SweepSkips
    <2>2. sweep' \in Sweeps
      BY <1>5 DEF SweepSkips, Sweeps, TypeOK
    <2>3. faults' \in 0..MaxFaults
      <3>1. MaxFaults \in Nat /\ faults \in 0..MaxFaults
        BY StoreAssumption DEF StoreAssumption, TypeOK
      <3>2. faults < MaxFaults /\ faults' = faults + 1
        BY <1>5 DEF SweepSkips
      <3> QED
        BY <3>1, <3>2
    <2>4. (PutInv /\ GetInv /\ ServedBytes)'
      BY <1>1, <2>1 DEF PutInv, GetInv, ServedBytes, Meta
    <2> QED
      BY <1>1, <1>2, <2>1, <2>2, <2>3, <2>4 DEF TypeOK
  <1> QED
    BY <1>3, <1>4, <1>5

LEMMA NextKeepsIInv ==
    ASSUME JsonFree, IInv, [Next]_vars
    PROVE  IInv'
  <1>1. CASE UNCHANGED vars
    BY <1>1
    DEF vars, IInv, TypeOK, PutInv, MetaInv, GetInv, StoredWhole, ServedBytes,
        Exists, Meta
  <1>2. CASE Next
    BY <1>2, CallKeepsIInv, StoreKeepsIInv, GetKeepsIInv, SweepKeepsIInv, WorldKeepsIInv
    DEF Next, PutStores
  <1> QED
    BY <1>1, <1>2

-----------------------------------------------------------------------------
LEMMA SpecIInv == ASSUME JsonFree PROVE Spec => []IInv
  <1>1. Init => IInv
    BY InitIInv
  <1>2. IInv /\ [Next]_vars => IInv'
    BY NextKeepsIInv
  <1> QED
    BY <1>1, <1>2, PTL DEF Spec

(* Every reachable state is of the declared shape.                         *)
THEOREM SpecTypeOK == ASSUME JsonFree PROVE Spec => []TypeOK
  BY SpecIInv, PTL DEF IInv

(* As long as no mime type maps to the sidecar's extension, a handle Open  *)
(* returned for a digest reads the payload stored under it, whatever Puts, *)
(* sweeps and crashes overlap: no lock is needed for it.                   *)
THEOREM SpecServedBytes == ASSUME JsonFree PROVE Spec => []ServedBytes
  BY SpecIInv, PTL DEF IInv

(* Under the same assumption no blob file ever holds part of a payload.    *)
THEOREM SpecStoredWhole == ASSUME JsonFree PROVE Spec => []StoredWhole
  BY SpecIInv, PTL DEF IInv

-----------------------------------------------------------------------------
(* What has been read of the clock for a served object, and not yet        *)
(* written, is no earlier than `since`: later reads are later, and `since` *)
(* is the earliest of those pending when the object was served.            *)
UseInv ==
    \A r \in Readers, d \in Digests : get[r].pc = "served" /\ get[r].d = d =>
        /\ \A t \in Stamps(d) : get[r].since <= t
        /\ disk[Meta(d)].kind = "meta" => get[r].since <= disk[Meta(d)].at

(* The times w holds for d's sidecar, in a state of the calls.             *)
PutStamps(calls, w, d) ==
    {t \in Time : /\ calls[w].d = d
                  /\ \/ calls[w].pc = "place" /\ t = calls[w].at
                     \/ calls[w].pc = "touch" /\ t = calls[w].now}

(* One step of a Put adds no time but the present.                         *)
LEMMA PutStampsFromClock ==
    ASSUME IInv, [Next]_vars, NEW w \in Writers, NEW d
    PROVE  PutStamps(put', w, d) \subseteq PutStamps(put, w, d) \cup {clock}
  <1>1. put \in [Writers -> PutCalls]
    BY DEF IInv, TypeOK
  <1>2. CASE put' = put
    BY <1>2
  <1>3. ASSUME NEW v \in Writers, NEW p, put' = [put EXCEPT ![v] = p],
               /\ p.pc = "place" => p.at = clock
               /\ p.pc = "touch" => p.now = clock
        PROVE  PutStamps(put', w, d) \subseteq PutStamps(put, w, d) \cup {clock}
    BY <1>1, <1>3 DEF PutStamps
  <1>4. NoPut.pc = "idle"
    BY DEF NoPut
  <1>5. ASSUME NEW v \in Writers, PutBegin(v)
        PROVE  PutStamps(put', w, d) \subseteq PutStamps(put, w, d) \cup {clock}
    BY <1>1, <1>5 DEF PutBegin, PutStamps
  <1>6. ASSUME NEW v \in Writers, PutSpool(v)
        PROVE  PutStamps(put', w, d) \subseteq PutStamps(put, w, d) \cup {clock}
    <2> DEFINE p == IF Refused(v) THEN NoPut
                    ELSE [put[v] EXCEPT !.pc = "check", !.bounded = FALSE,
                                        !.len = Spooled(v), !.at = clock]
    <2>1. p.pc \in {"idle", "check"} /\ put' = [put EXCEPT ![v] = p]
      BY <1>1, <1>4, <1>6 DEF PutSpool, PutCalls
    <2> HIDE DEF p
    <2> QED
      BY <1>3, <2>1
  <1>7. ASSUME NEW v \in Writers, PutFails(v) \/ PutTouch(v) \/ PutMeta(v) \/ PutMetaFails(v)
        PROVE  PutStamps(put', w, d) \subseteq PutStamps(put, w, d) \cup {clock}
    <2>1. put' = [put EXCEPT ![v] = NoPut]
      BY <1>7 DEF PutFails, PutTouch, PutMeta, PutMetaFails
    <2> QED
      BY <1>3, <1>4, <2>1
  <1>8. ASSUME NEW v \in Writers, PutCheck(v) \/ PutStat(v) \/ PutRename(v)
        PROVE  PutStamps(put', w, d) \subseteq PutStamps(put, w, d) \cup {clock}
    <2>1. put'[v].pc \in {"idle", "rename", "stat", "now", "meta"}
      <3>1. CASE PutCheck(v)
        <4> DEFINE meta == disk[Meta(put[v].d)]
        <4>1. meta.kind = "none" \/ meta.kind = "meta"
          BY <3>1, MetaKinds DEF PutCheck
        <4>2. CASE meta.kind = "none"
          <5>1. put' = [put EXCEPT ![v] = [put[v] EXCEPT !.pc = "rename"]]
            BY <3>1, <4>2 DEF PutCheck
          <5> QED
            BY <1>1, <5>1 DEF PutCalls
        <4>3. CASE meta.kind = "meta"
          <5>1. put' = [put EXCEPT ![v] = [put[v] EXCEPT !.pc = "stat", !.found = meta.ext]]
            BY <3>1, <4>3 DEF PutCheck
          <5> QED
            BY <1>1, <5>1 DEF PutCalls
        <4> QED
          BY <4>1, <4>2, <4>3
      <3>2. CASE PutStat(v)
        BY <1>1, <3>2 DEF PutStat, PutCalls
      <3>3. CASE PutRename(v)
        BY <1>1, <1>4, <3>3 DEF PutRename, PutCalls
      <3> QED
        BY <1>8, <3>1, <3>2, <3>3
    <2>2. put' = [put EXCEPT ![v] = put'[v]]
      <3>1. CASE PutCheck(v)
        <4>1. PICK p : put' = [put EXCEPT ![v] = p]
          BY <3>1 DEF PutCheck
        <4> QED
          BY <1>1, <4>1
      <3>2. CASE PutStat(v)
        BY <1>1, <3>2 DEF PutStat
      <3>3. CASE PutRename(v)
        BY <1>1, <3>3 DEF PutRename
      <3> QED
        BY <1>8, <3>1, <3>2, <3>3
    <2> QED
      BY <1>3, <2>1, <2>2
  <1>9. ASSUME NEW v \in Writers, PutNow(v) \/ PutSidecar(v)
        PROVE  PutStamps(put', w, d) \subseteq PutStamps(put, w, d) \cup {clock}
    <2> DEFINE p == [put[v] EXCEPT !.pc = "touch", !.now = clock]
               q == [put[v] EXCEPT !.pc = "place", !.tmp = TRUE, !.at = clock]
    <2>1. p.pc = "touch" /\ p.now = clock /\ q.pc = "place" /\ q.at = clock
      BY <1>1 DEF PutCalls
    <2>2. put' = [put EXCEPT ![v] = p] \/ put' = [put EXCEPT ![v] = q]
      BY <1>9 DEF PutNow, PutSidecar
    <2> HIDE DEF p, q
    <2> QED
      BY <1>3, <2>1, <2>2
  <1>10. CASE SweepDecide
    <2>1. /\ put'[w].pc = put[w].pc /\ put'[w].d = put[w].d
          /\ put'[w].at = put[w].at /\ put'[w].now = put[w].now
      BY <1>1, <1>10 DEF SweepDecide, PutCalls
    <2> QED
      BY <2>1 DEF PutStamps
  <1>11. CASE Crash
    BY <1>4, <1>11 DEF Crash, PutStamps
  <1> QED
    BY <1>2, <1>5, <1>6, <1>7, <1>8, <1>9, <1>10, <1>11
    DEF Next, vars, PutStores, SweepStep, GetBegin, GetOpen, GetNow, GetTouch,
        SweepList, SweepRemove, SweepDone, SweepSkips, Tick

GetStamps(calls, r, d) ==
    {t \in Time : calls[r].d = d /\ calls[r].pc = "touch" /\ t = calls[r].now}

(* Nor does one of a reader; and a served reader stays as it is.           *)
LEMMA GetStampsFromClock ==
    ASSUME IInv, [Next]_vars, NEW r \in Readers, NEW d
    PROVE  /\ GetStamps(get', r, d) \subseteq GetStamps(get, r, d) \cup {clock}
           /\ get'[r].pc = "served" => get'[r] = get[r] \/ GetTouch(r)
  <1> DEFINE Goal == /\ GetStamps(get', r, d) \subseteq GetStamps(get, r, d) \cup {clock}
                     /\ get'[r].pc = "served" => get'[r] = get[r] \/ GetTouch(r)
  <1>1. get \in [Readers -> GetCalls]
    BY DEF IInv, TypeOK
  <1>2. NoGet.pc = "idle"
    BY DEF NoGet
  <1>3. ASSUME get' = get
        PROVE  Goal
    BY <1>3
  <1>4. ASSUME NEW q \in Readers, q # r, NEW g, get' = [get EXCEPT ![q] = g]
        PROVE  Goal
    <2>1. get'[r] = get[r]
      BY <1>1, <1>4
    <2> QED
      BY <2>1 DEF GetStamps
  <1>5. ASSUME NEW g, get' = [get EXCEPT ![r] = g], g.pc # "served",
               g.pc = "touch" => g.now = clock
        PROVE  Goal
    <2>1. get'[r] = g
      BY <1>1, <1>5
    <2> QED
      BY <1>5, <2>1 DEF GetStamps
  <1>6. ASSUME NEW q \in Readers, GetBegin(q)
        PROVE  Goal
    <2>1. PICK e \in Digests : get' = [get EXCEPT ![q] =
                    IF disk[Meta(e)].kind = "meta"
                    THEN [NoGet EXCEPT !.pc = "open", !.d = e, !.ext = disk[Meta(e)].ext]
                    ELSE NoGet]
      BY <1>6 DEF GetBegin
    <2> DEFINE g == IF disk[Meta(e)].kind = "meta"
                    THEN [NoGet EXCEPT !.pc = "open", !.d = e, !.ext = disk[Meta(e)].ext]
                    ELSE NoGet
    <2>2. g.pc \in {"idle", "open"}
      BY DEF NoGet
    <2>3. get' = [get EXCEPT ![q] = g]
      BY <2>1
    <2> HIDE DEF g, Goal
    <2> QED
      BY <1>4, <1>5, <2>2, <2>3
  <1>7. ASSUME NEW q \in Readers, GetOpen(q) \/ GetNow(q)
        PROVE  Goal
    <2> DEFINE n == <<get[q].d, get[q].ext>>
               g == [get[q] EXCEPT !.pc = "now", !.kind = disk[n].kind, !.len = disk[n].len]
               h == [get[q] EXCEPT !.pc = "touch", !.now = clock]
    <2>1. g.pc = "now" /\ h.pc = "touch" /\ h.now = clock
      BY <1>1 DEF GetCalls
    <2>2. \/ get' = [get EXCEPT ![q] = g]
          \/ get' = [get EXCEPT ![q] = h]
          \/ get' = [get EXCEPT ![q] = NoGet]
      BY <1>7 DEF GetOpen, GetNow
    <2> HIDE DEF g, h, Goal
    <2> QED
      BY <1>2, <1>4, <1>5, <2>1, <2>2
  <1>8. ASSUME NEW q \in Readers, GetTouch(q)
        PROVE  Goal
    <2>1. PICK t : get' = [get EXCEPT ![q] = [get[q] EXCEPT !.pc = "served", !.since = t]]
      BY <1>8 DEF GetTouch
    <2>2. CASE q = r
      BY <1>1, <1>8, <2>1, <2>2 DEF GetStamps, GetCalls
    <2>3. CASE q # r
      <3> HIDE DEF Goal
      <3> QED
        BY <1>4, <2>1, <2>3
    <2> QED
      BY <2>2, <2>3
  <1>9. ASSUME Crash
        PROVE  Goal
    BY <1>2, <1>9 DEF Crash, GetStamps
  <1> HIDE DEF Goal
  <1>a. ASSUME NEW w \in Writers, PutBegin(w) \/ PutSpool(w) \/ PutFails(w) \/ PutStores(w)
        PROVE  get' = get
    BY <1>a DEF PutStores, PutBegin, PutSpool, PutFails, PutCheck, PutStat, PutNow,
                PutTouch, PutRename, PutSidecar, PutMeta, PutMetaFails
  <1>b. ASSUME SweepStep \/ SweepSkips \/ Tick \/ UNCHANGED vars
        PROVE  Goal
    BY <1>3, <1>b DEF vars, SweepStep, SweepList, SweepDecide, SweepRemove, SweepDone,
                      SweepSkips, Tick
  <1>c. ASSUME NEW q \in Readers, GetBegin(q) \/ GetOpen(q) \/ GetNow(q) \/ GetTouch(q)
        PROVE  Goal
    BY <1>6, <1>7, <1>8, <1>c
  <1>d. ASSUME NEW w \in Writers, PutBegin(w) \/ PutSpool(w) \/ PutFails(w) \/ PutStores(w)
        PROVE  Goal
    BY <1>3, <1>a, <1>d
  <1>10. Goal
    BY <1>9, <1>b, <1>c, <1>d DEF Next
  <1> QED
    BY <1>10 DEF Goal

LEMMA StampsFromClock ==
    ASSUME IInv, [Next]_vars, IInv', NEW d
    PROVE  Stamps(d)' \subseteq Stamps(d) \cup {clock}
  <1>1. /\ put \in [Writers -> PutCalls] /\ get \in [Readers -> GetCalls]
        /\ put' \in [Writers -> PutCalls] /\ get' \in [Readers -> GetCalls]
    BY DEF IInv, TypeOK
  <1>2. SUFFICES ASSUME NEW t \in Stamps(d)'
                 PROVE  t \in Stamps(d) \cup {clock}
    OBVIOUS
  <1>3. CASE \E w \in Writers : t \in PutStamps(put', w, d)
    <2>1. PICK w \in Writers : t \in PutStamps(put', w, d)
      BY <1>3
    <2>2. t \in PutStamps(put, w, d) \/ t = clock
      BY <2>1, PutStampsFromClock
    <2>3. CASE t \in PutStamps(put, w, d)
      <3>1. CASE put[w].pc = "place" /\ put[w].d = d /\ t = put[w].at
        BY <3>1 DEF Stamps
      <3>2. CASE put[w].pc = "touch" /\ put[w].d = d /\ t = put[w].now
        BY <3>2 DEF Stamps
      <3> QED
        BY <2>3, <3>1, <3>2 DEF PutStamps
    <2> QED
      BY <2>2, <2>3
  <1>4. CASE \E r \in Readers : t \in GetStamps(get', r, d)
    <2>1. PICK r \in Readers : t \in GetStamps(get', r, d)
      BY <1>4
    <2>2. t \in GetStamps(get, r, d) \/ t = clock
      BY <2>1, GetStampsFromClock
    <2> QED
      BY <2>2 DEF GetStamps, Stamps
  <1>5. \/ \E w \in Writers : t \in PutStamps(put', w, d)
        \/ \E r \in Readers : t \in GetStamps(get', r, d)
    <2>1. \/ \E w \in Writers : put'[w].pc = "place" /\ put'[w].d = d /\ t = put'[w].at
          \/ \E w \in Writers : put'[w].pc = "touch" /\ put'[w].d = d /\ t = put'[w].now
          \/ \E r \in Readers : get'[r].pc = "touch" /\ get'[r].d = d /\ t = get'[r].now
      BY <1>2 DEF Stamps
    <2>2. /\ \A w \in Writers : put'[w].at \in Time /\ put'[w].now \in Time
          /\ \A r \in Readers : get'[r].now \in Time
      BY <1>1 DEF PutCalls, GetCalls
    <2>3. ASSUME NEW w \in Writers, put'[w].d = d,
                 \/ put'[w].pc = "place" /\ t = put'[w].at
                 \/ put'[w].pc = "touch" /\ t = put'[w].now
          PROVE  t \in PutStamps(put', w, d)
      BY <2>2, <2>3 DEF PutStamps
    <2>4. ASSUME NEW r \in Readers, get'[r].d = d, get'[r].pc = "touch", t = get'[r].now
          PROVE  t \in GetStamps(get', r, d)
      BY <2>2, <2>4 DEF GetStamps
    <2> HIDE DEF PutStamps, GetStamps
    <2> QED
      BY <2>1, <2>3, <2>4
  <1> QED
    BY <1>3, <1>4, <1>5

(* A sidecar keeps its time, or is given one that was pending for it.      *)
LEMMA SidecarsFromStamps ==
    ASSUME JsonFree, IInv, [Next]_vars, NEW d \in Digests, (disk[Meta(d)].kind = "meta")'
    PROVE  \/ disk[Meta(d)].kind = "meta" /\ disk'[Meta(d)].at = disk[Meta(d)].at
           \/ disk'[Meta(d)].at \in Stamps(d)
  <1> DEFINE Goal == \/ disk[Meta(d)].kind = "meta" /\ disk'[Meta(d)].at = disk[Meta(d)].at
                     \/ disk'[Meta(d)].at \in Stamps(d)
  <1>1. /\ disk \in [Names -> Files] /\ put \in [Writers -> PutCalls]
        /\ get \in [Readers -> GetCalls] /\ Meta(d) \in Names
        /\ disk'[Meta(d)].kind = "meta"
    BY NamesApart DEF IInv, TypeOK, Meta
  <1>2. ASSUME disk'[Meta(d)] = disk[Meta(d)]
        PROVE  Goal
    BY <1>1, <1>2
  <1>3. ASSUME NEW c \in Digests, NEW t \in Time, disk' = Touched(c, t), t \in Stamps(c)
        PROVE  Goal
    <2>1. CASE c # d
      <3>1. Meta(c) # Meta(d)
        BY <2>1, NamesApart
      <3> QED
        BY <1>1, <1>2, <1>3, <3>1, TouchedFile DEF IInv
    <2>2. CASE c = d
      <3>1. disk[Meta(d)].kind = "meta"
        BY <1>1, <1>3, <2>2, TouchedFile DEF IInv
      <3>2. disk'[Meta(d)].at = t
        BY <1>3, <2>2, <3>1, TouchedFile DEF IInv, Exists
      <3> QED
        BY <1>3, <2>2, <3>2
    <2> QED
      BY <2>1, <2>2
  <1>4. ASSUME NEW w \in Writers, PutTouch(w)
        PROVE  Goal
    <2>1. put[w].d \in Digests /\ put[w].now \in Time
      BY <1>1, <1>4 DEF IInv, PutInv, Sound, PutTouch, PutCalls
    <2>2. put[w].now \in Stamps(put[w].d) /\ disk' = Touched(put[w].d, put[w].now)
      BY <1>4 DEF PutTouch, Stamps
    <2> HIDE DEF Goal
    <2> QED
      BY <1>3, <2>1, <2>2
  <1>5. ASSUME NEW r \in Readers, GetTouch(r)
        PROVE  Goal
    <2>1. get[r].d \in Digests /\ get[r].now \in Time
      BY <1>1, <1>5 DEF IInv, GetInv, GetTouch, GetCalls
    <2>2. get[r].now \in Stamps(get[r].d) /\ disk' = Touched(get[r].d, get[r].now)
      BY <1>5 DEF GetTouch, Stamps
    <2> HIDE DEF Goal
    <2> QED
      BY <1>3, <2>1, <2>2
  <1>6. ASSUME NEW w \in Writers, PutMeta(w)
        PROVE  Goal
    <2>1. put[w].d \in Digests /\ put[w].at \in Stamps(put[w].d)
      BY <1>6 DEF IInv, PutInv, Sound, PutMeta, Stamps
    <2>2. disk' = [disk EXCEPT ![Meta(put[w].d)] = Sidecar(put[w].ext, put[w].at)]
      BY <1>6 DEF PutMeta
    <2>3. CASE put[w].d = d
      BY <1>1, <2>1, <2>2, <2>3 DEF Sidecar
    <2>4. CASE put[w].d # d
      <3>1. Meta(put[w].d) # Meta(d)
        BY <2>1, <2>4, NamesApart
      <3> QED
        BY <1>1, <1>2, <2>2, <3>1
    <2> QED
      BY <2>3, <2>4
  <1>7. ASSUME NEW w \in Writers, PutRename(w) \/ PutMetaFails(w)
        PROVE  Goal
    <2>1. put[w].d \in Digests /\ put[w].ext \in Exts
      BY <1>7 DEF IInv, PutInv, Sound, PutRename, PutMetaFails
    <2>2. <<put[w].d, put[w].ext>> # Meta(d)
      BY <2>1, NamesApart
    <2>3. disk'[Meta(d)] = disk[Meta(d)]
      BY <1>1, <1>7, <2>2 DEF PutRename, PutMetaFails
    <2> QED
      BY <1>2, <2>3
  <1>8. ASSUME SweepRemove
        PROVE  Goal
    <2>1. PICK n \in Names : disk' = [disk EXCEPT ![n] = Absent]
      BY <1>8 DEF SweepRemove, IInv, TypeOK, Sweeps
    <2>2. n # Meta(d)
      BY <1>1, <2>1 DEF Absent
    <2> QED
      BY <1>1, <1>2, <2>1, <2>2
  <1>9. ASSUME disk' = disk
        PROVE  Goal
    BY <1>2, <1>9
  <1> HIDE DEF Goal
  <1>a. ASSUME NEW w \in Writers,
               \/ PutBegin(w) \/ PutSpool(w) \/ PutFails(w) \/ PutCheck(w)
               \/ PutStat(w) \/ PutNow(w) \/ PutSidecar(w)
        PROVE  disk' = disk
    BY <1>a DEF PutBegin, PutSpool, PutFails, PutCheck, PutStat, PutNow, PutSidecar
  <1>b. ASSUME NEW r \in Readers, GetBegin(r) \/ GetOpen(r) \/ GetNow(r)
        PROVE  disk' = disk
    BY <1>b DEF GetBegin, GetOpen, GetNow
  <1>c. ASSUME SweepList \/ SweepDecide \/ SweepDone \/ SweepSkips \/ Tick \/ Crash \/ UNCHANGED vars
        PROVE  Goal
    BY <1>9, <1>c DEF vars, SweepList, SweepDecide, SweepDone, SweepSkips, Tick, Crash
  <1>d. ASSUME NEW w \in Writers, PutBegin(w) \/ PutSpool(w) \/ PutFails(w) \/ PutStores(w)
        PROVE  Goal
    <2>1. CASE PutTouch(w) \/ PutMeta(w) \/ PutRename(w) \/ PutMetaFails(w)
      BY <1>4, <1>6, <1>7, <2>1
    <2>2. CASE \/ PutBegin(w) \/ PutSpool(w) \/ PutFails(w) \/ PutCheck(w)
               \/ PutStat(w) \/ PutNow(w) \/ PutSidecar(w)
      BY <1>9, <1>a, <2>2
    <2> QED
      BY <1>d, <2>1, <2>2 DEF PutStores
  <1>e. ASSUME NEW r \in Readers, GetBegin(r) \/ GetOpen(r) \/ GetNow(r) \/ GetTouch(r)
        PROVE  Goal
    <2>1. CASE GetTouch(r)
      BY <1>5, <2>1
    <2>2. CASE GetBegin(r) \/ GetOpen(r) \/ GetNow(r)
      BY <1>9, <1>b, <2>2
    <2> QED
      BY <1>e, <2>1, <2>2
  <1>10. Goal
    BY <1>8, <1>c, <1>d, <1>e DEF Next, SweepStep
  <1> QED
    BY <1>10 DEF Goal

LEMMA NextKeepsUse ==
    ASSUME JsonFree, IInv, UseInv, [Next]_vars, IInv'
    PROVE  UseInv'
  <1> SUFFICES ASSUME NEW r \in Readers, NEW d \in Digests,
                      get'[r].pc = "served", get'[r].d = d
               PROVE  /\ \A t \in Stamps(d)' : get'[r].since <= t
                      /\ (disk[Meta(d)].kind = "meta")' => get'[r].since <= disk'[Meta(d)].at
    BY DEF UseInv, Meta
  <1> DEFINE since == get'[r].since
  <1>1. /\ get \in [Readers -> GetCalls] /\ put \in [Writers -> PutCalls]
        /\ clock \in Nat /\ since \in Nat
    <2>1. get' \in [Readers -> GetCalls]
      BY DEF IInv, TypeOK
    <2> QED
      BY <2>1 DEF IInv, TypeOK, GetCalls, Time
  <1>2. Stamps(d)' \subseteq Stamps(d) \cup {clock}
    BY StampsFromClock
  <1>3. get'[r] = get[r] \/ GetTouch(r)
    BY GetStampsFromClock
  <1>4. CASE get'[r] = get[r]
    <2>1. since <= clock /\ \A t \in Stamps(d) : since <= t
      BY <1>4 DEF IInv, GetInv, UseInv
    <2>2. disk[Meta(d)].kind = "meta" => since <= disk[Meta(d)].at
      BY <1>4 DEF UseInv
    <2>3. ASSUME (disk[Meta(d)].kind = "meta")'
          PROVE  since <= disk'[Meta(d)].at
      <3>1. \/ disk[Meta(d)].kind = "meta" /\ disk'[Meta(d)].at = disk[Meta(d)].at
            \/ disk'[Meta(d)].at \in Stamps(d)
        BY <2>3, SidecarsFromStamps
      <3> QED
        BY <2>1, <2>2, <3>1
    <2> QED
      BY <1>2, <2>1, <2>3
  <1>5. CASE GetTouch(r)
    <2>1. /\ get[r].pc = "touch" /\ disk' = Touched(get[r].d, get[r].now) /\ UNCHANGED clock
      BY <1>5 DEF GetTouch
    <2>2. PICK t \in Stamps(get[r].d) :
             /\ \A u \in Stamps(get[r].d) : t <= u
             /\ get' = [get EXCEPT ![r] = [get[r] EXCEPT !.pc = "served", !.since = t]]
      BY <1>5 DEF GetTouch
    <2>3. get[r].d = d /\ since = t /\ get[r].now \in Stamps(d) /\ get[r].now \in Time
      BY <1>1, <2>1, <2>2 DEF Stamps, GetCalls
    <2>4. since <= clock
      <3>1. get'[r].since <= clock'
        BY DEF IInv, GetInv
      <3> QED
        BY <2>1, <3>1
    <2>5. (disk[Meta(d)].kind = "meta")' => disk'[Meta(d)].at = get[r].now
      <3> SUFFICES ASSUME disk'[Meta(d)].kind = "meta" PROVE disk'[Meta(d)].at = get[r].now
        BY DEF Meta
      <3>1. Meta(d) \in Names
        BY <1>1, NamesApart
      <3>2. disk[Meta(d)].kind = "meta"
        BY <1>1, <2>1, <2>3, <3>1, TouchedFile DEF IInv
      <3> QED
        BY <1>1, <2>1, <2>3, <3>2, TouchedFile DEF IInv, Exists
    <2>6. \A u \in Stamps(d) : since <= u
      BY <2>2, <2>3
    <2> QED
      BY <1>2, <2>1, <2>3, <2>4, <2>5, <2>6
  <1> QED
    BY <1>3, <1>4, <1>5

(* Under the same assumption a use is lost only to calls it overlaps: the  *)
(* time the sweeper orders a surviving object by stays at or after every   *)
(* time read before, and pending when, the object was served, for any      *)
(* number of concurrent Puts of the same bytes, readers and sweeps.        *)
THEOREM SpecUseCounts == ASSUME JsonFree PROVE Spec => []UseCounts
  <1>1. Init => UseInv
    BY DEF Init, UseInv, NoGet
  <1>2. IInv /\ IInv' /\ UseInv /\ [Next]_vars => UseInv'
    BY NextKeepsUse
  <1>3. IInv /\ UseInv => UseCounts
    <2> SUFFICES ASSUME IInv, UseInv, NEW r \in Readers, get[r].pc = "served",
                        disk[Meta(get[r].d)].kind = "meta"
                 PROVE  disk[Meta(get[r].d)].at >= get[r].since
      BY DEF UseCounts
    <2>1. get[r].d \in Digests /\ Meta(get[r].d) \in Names
      BY NamesApart DEF IInv, GetInv
    <2>2. disk[Meta(get[r].d)].at \in Nat /\ get[r].since \in Nat
      BY <2>1 DEF IInv, TypeOK, Files, GetCalls, Time
    <2> QED
      BY <2>1, <2>2 DEF UseInv
  <1> QED
    BY <1>1, <1>2, <1>3, SpecIInv, PTL DEF Spec

-----------------------------------------------------------------------------
(* What a pass no Put overlaps leaves behind.  Nothing prevents two Puts   *)
(* from storing the same bytes under two extensions, and the pass's map    *)
(* then holds only one of the two blobs: what is proved is about the       *)
(* passes whose listing names one blob per digest.                         *)
SeenOnce ==
    \A d \in Digests : \A e, f \in Exts :
        <<d, e>> \in sweep.seen /\ <<d, f>> \in sweep.seen => e = f

(* The bytes of the blobs the pass does not mean to remove.                *)
Kept == [n \in Digests \X Exts |-> IF n \in sweep.todo THEN 0 ELSE disk[n].len]

(* From the decision to the end of the pass, what is left to remove covers *)
(* the expired blobs, and what is not fits the store.                      *)
Planned ==
    /\ TTL > 0 =>
         \A d \in Digests, e \in Exts :
            Exists(<<d, e>>) /\ sweep.now > disk[<<d, e>>].at + TTL
                => <<d, e>> \in sweep.todo
    /\ MaxBytes > 0 => SumFunction(Kept) <= MaxBytes

(* An undisturbed pass works on the directory it has listed.               *)
CleanPass ==
    /\ sweep.pc \in {"listed", "removing"}
    /\ \A w \in Writers : put[w].pc = "idle"
    /\ \A n \in Names : Exists(n) => n \in sweep.seen
    /\ sweep.pc = "listed" => \A n \in sweep.seen : Exists(n)
    /\ sweep.pc = "removing" /\ SeenOnce => Planned

SweepInv ==
    /\ \A n \in Names : ~ Exists(n) => disk[n].len = 0
    /\ sweep.clean => CleanPass

LEMMA InitSweepInv ==
    ASSUME Init
    PROVE  SweepInv
  BY DEF Init, SweepInv, Exists, Absent, NoSweep

(* A name that holds no file counts no bytes.                              *)
LEMMA EmptyNames ==
    ASSUME JsonFree, IInv, SweepInv, [Next]_vars
    PROVE  (\A n \in Names : ~ Exists(n) => disk[n].len = 0)'
  <1>1. disk \in [Names -> Files]
    BY DEF IInv, TypeOK
  <1>2. \A n \in Names : ~ Exists(n) => disk[n].len = 0
    BY DEF SweepInv
  <1> DEFINE Written == \E m \in Names : \E x : /\ disk' = [disk EXCEPT ![m] = x]
                                                /\ x.kind = "none" => x.len = 0
             Stamped == \A n \in Names : disk'[n].kind = disk[n].kind /\ disk'[n].len = disk[n].len
  <1>3. CASE Written
    <2>1. PICK m \in Names : \E x : /\ disk' = [disk EXCEPT ![m] = x]
                                    /\ x.kind = "none" => x.len = 0
      BY <1>3
    <2>2. PICK x : /\ disk' = [disk EXCEPT ![m] = x]
                   /\ x.kind = "none" => x.len = 0
      BY <2>1
    <2> QED
      BY <1>1, <1>2, <2>2 DEF Exists
  <1>4. CASE Stamped
    BY <1>2, <1>4 DEF Exists
  <1>a. Absent.kind = "none" => Absent.len = 0
    BY DEF Absent
  <1>5. ASSUME NEW w \in Writers, PutTouch(w) \/ PutRename(w) \/ PutMeta(w) \/ PutMetaFails(w)
        PROVE  Written \/ Stamped
    <2>1. put[w].d \in Digests /\ put[w].ext \in Exts /\ put[w].now \in Time
      BY <1>5 DEF IInv, PutInv, Sound, PutTouch, PutRename, PutMeta, PutMetaFails, PutCalls
    <2>2. Meta(put[w].d) \in Names /\ <<put[w].d, put[w].ext>> \in Names
      BY <2>1, NamesApart
    <2>3. CASE disk' = disk
      BY <2>3
    <2>4. CASE disk' = Touched(put[w].d, put[w].now)
      BY <2>1, <2>4, TouchedFile DEF IInv
    <2>5. CASE disk' = [disk EXCEPT ![<<put[w].d, put[w].ext>>] = Blob(put[w].len, put[w].at)]
      <3>1. Blob(put[w].len, put[w].at).kind # "none"
        BY DEF Blob
      <3> QED
        BY <2>2, <2>5, <3>1
    <2>6. CASE disk' = [disk EXCEPT ![Meta(put[w].d)] = Sidecar(put[w].ext, put[w].at)]
      <3>1. Sidecar(put[w].ext, put[w].at).kind # "none"
        BY DEF Sidecar
      <3> QED
        BY <2>2, <2>6, <3>1
    <2>7. CASE disk' = [disk EXCEPT ![<<put[w].d, put[w].ext>>] = Absent]
      BY <1>a, <2>2, <2>7
    <2> QED
      BY <1>5, <2>3, <2>4, <2>5, <2>6, <2>7 DEF PutTouch, PutRename, PutMeta, PutMetaFails
  <1>6. ASSUME NEW r \in Readers, GetTouch(r)
        PROVE  Stamped
    <2>1. get[r].d \in Digests /\ get[r].now \in Time
      BY <1>6 DEF IInv, TypeOK, GetInv, GetTouch, GetCalls
    <2> QED
      BY <1>6, <2>1, TouchedFile DEF GetTouch, IInv
  <1>7. ASSUME SweepRemove
        PROVE  Written
    <2>1. PICK n \in Names : disk' = [disk EXCEPT ![n] = Absent]
      BY <1>7 DEF SweepRemove, IInv, TypeOK, Sweeps
    <2> QED
      BY <1>a, <2>1
  <1>8. CASE disk' = disk
    BY <1>4, <1>8
  <1> HIDE DEF Written, Stamped
  <1> QED
    BY <1>3, <1>4, <1>5, <1>6, <1>7, <1>8
    DEF Next, vars, PutStores, SweepStep, PutBegin, PutSpool, PutFails, PutCheck,
        PutStat, PutNow, PutSidecar, GetBegin, GetOpen, GetNow, SweepList, SweepDecide,
        SweepDone, SweepSkips, Tick, Crash

(* The pass decides: every blob it keeps is an entry that is neither       *)
(* expired nor evicted.                                                    *)
LEMMA DecidePlans ==
    ASSUME JsonFree, IInv, SweepInv, SweepDecide, sweep.clean, SeenOnce
    PROVE  Planned'
  <1> DEFINE Live(f) == (SeenDigests \cap SeenMetas) \ ExpiredIn(f)
  <1>1. PICK entry \in Entries : \E S \in Evictions(entry, Live(entry)) :
           sweep' = [sweep EXCEPT
             !.pc = "removing",
             !.todo = Removable(entry, ExpiredIn(entry) \cup S)]
    BY DEF SweepDecide
  <1>2. PICK S \in Evictions(entry, Live(entry)) :
           sweep' = [sweep EXCEPT
             !.pc = "removing",
             !.todo = Removable(entry, ExpiredIn(entry) \cup S)]
    BY <1>1
  <1> DEFINE live == Live(entry)
             kept == live \ S
             todo == Removable(entry, ExpiredIn(entry) \cup S)
  <1>3. /\ disk' = disk /\ sweep'.now = sweep.now /\ sweep'.todo = todo
        /\ disk \in [Names -> Files] /\ sweep \in Sweeps
    BY <1>2 DEF SweepDecide, IInv, TypeOK, Sweeps
  <1>4. \A n \in Names : Exists(n) <=> n \in sweep.seen
    BY DEF SweepInv, CleanPass, SweepDecide, IInv, TypeOK, Sweeps
  <1>5. /\ S \subseteq live /\ SeenDigests \subseteq Digests /\ live \subseteq SeenDigests
        /\ entry \in [SeenDigests -> SeenBlobs] /\ SeenBlobs \subseteq Digests \X Exts
        /\ MaxBytes > 0 => Bytes(entry, kept) <= MaxBytes
    <2>1. SeenBlobs \subseteq Digests \X Exts
      BY <1>3 DEF SeenBlobs, Sweeps, Names
    <2>2. SeenDigests \subseteq Digests
      BY <2>1 DEF SeenDigests
    <2> QED
      BY <1>2, <2>1, <2>2 DEF Evictions, Entries
  \* the entry of a blob's digest is that blob
  <1>6. ASSUME NEW d \in Digests, NEW e \in Exts, Exists(<<d, e>>)
        PROVE  d \in SeenDigests /\ entry[d] = <<d, e>>
    <2>1. <<d, e>> \in Names /\ <<d, e>>[2] # "json"
      BY NamesApart DEF JsonFree
    <2>2. <<d, e>> \in SeenBlobs
      BY <1>4, <1>6, <2>1 DEF SeenBlobs
    <2>3. d \in SeenDigests
      BY <2>2 DEF SeenDigests
    <2>4. PICK c \in Digests, f \in Exts : entry[d] = <<c, f>>
      BY <1>5, <2>3
    <2>5. c = d /\ entry[d] \in sweep.seen
      BY <1>5, <2>3, <2>4 DEF Entries, SeenBlobs
    <2>6. f = e
      BY <1>4, <1>6, <2>1, <2>4, <2>5 DEF SeenOnce
    <2> QED
      BY <2>3, <2>4, <2>5, <2>6
  \* a blob that stays is the entry of a kept digest
  <1>7. ASSUME NEW d \in Digests, NEW e \in Exts, Exists(<<d, e>>), <<d, e>> \notin todo
        PROVE  d \in kept
    <2>1. d \in SeenDigests /\ entry[d] = <<d, e>>
      BY <1>6, <1>7
    <2>2. d \in SeenMetas
      BY <1>7, <2>1 DEF Removable
    <2>3. d \notin ExpiredIn(entry) \cup S
      BY <1>7, <2>1 DEF Removable
    <2> QED
      BY <2>1, <2>2, <2>3
  <1>8. ASSUME TTL > 0, NEW d \in Digests, NEW e \in Exts, Exists(<<d, e>>),
               sweep.now > disk[<<d, e>>].at + TTL
        PROVE  <<d, e>> \in todo
    <2>1. SUFFICES ASSUME <<d, e>> \notin todo PROVE FALSE
      OBVIOUS
    <2>2. d \in SeenDigests /\ entry[d] = <<d, e>> /\ d \in SeenMetas /\ d \notin ExpiredIn(entry)
      BY <1>6, <1>7, <1>8, <2>1
    <2> QED
      BY <1>8, <2>2 DEF ExpiredIn
  <1> HIDE DEF todo, kept, live
  <1>9. MaxBytes > 0 => SumFunction(Kept') <= MaxBytes
    <2> SUFFICES ASSUME MaxBytes > 0 PROVE SumFunction(Kept') <= MaxBytes
      OBVIOUS
    <2> DEFINE T == Digests \X Exts
               f == [n \in T |-> IF n \in todo THEN 0 ELSE disk[n].len]
               h == [d \in kept |-> disk[entry[d]].len]
               g == [d \in kept |-> entry[d]]
    <2>1. Kept' = f
      BY <1>3 DEF Kept
    <2>2. \A n \in T : disk[n].len \in Nat
      BY <1>3, NamesApart DEF Files
    <2>3. f \in [T -> Nat]
      BY <2>2
    <2>4. kept \subseteq SeenDigests /\ kept \subseteq Digests /\ g \in [kept -> T]
      BY <1>5 DEF kept
    <2>5. h \in [kept -> Nat]
      BY <2>2, <2>4
    <2>6. IsFiniteSet(T) /\ IsFiniteSet(kept)
      BY <2>4, StoreAssumption, FS_Product, FS_Subset DEF StoreAssumption
    <2>7. \A u \in kept : f[g[u]] <= h[u]
      <3> SUFFICES ASSUME NEW u \in kept PROVE f[g[u]] <= h[u]
        OBVIOUS
      <3>1. g[u] = entry[u] /\ entry[u] \in T
        BY <2>4
      <3>2. f[entry[u]] \in {0, disk[entry[u]].len} /\ disk[entry[u]].len \in Nat
        BY <2>2, <3>1
      <3> QED
        BY <3>1, <3>2
    <2>8. \A n \in T : f[n] # 0 => \E u \in kept : g[u] = n
      <3>a. SUFFICES ASSUME NEW n \in T, f[n] # 0 PROVE \E u \in kept : g[u] = n
        OBVIOUS
      <3>b. PICK d \in Digests, e \in Exts : n = <<d, e>>
        OBVIOUS
      <3>1. <<d, e>> \notin todo /\ disk[<<d, e>>].len # 0
        BY <3>a, <3>b
      <3>2. Exists(<<d, e>>)
        BY <3>1, NamesApart DEF SweepInv
      <3>3. d \in kept /\ entry[d] = <<d, e>>
        BY <1>6, <1>7, <3>1, <3>2
      <3> QED
        BY <3>b, <3>3
    <2> HIDE DEF f, g, T
    <2>9. SumFunction(h) = Bytes(entry, kept)
      BY DEF Bytes
    <2> HIDE DEF h
    <2>10. SumFunction(f) <= SumFunction(h)
      BY <2>3, <2>4, <2>5, <2>6, <2>7, <2>8, SumDominated
    <2>11. SumFunction(f) \in Nat /\ SumFunction(h) \in Nat /\ MaxBytes \in Nat
      BY <2>3, <2>5, <2>6, SumIsNat, StoreAssumption DEF StoreAssumption
    <2>12. Bytes(entry, kept) <= MaxBytes
      BY <1>5
    <2> QED
      BY <2>1, <2>9, <2>10, <2>11, <2>12
  <1>10. TTL > 0 =>
         \A d \in Digests, e \in Exts :
            Exists(<<d, e>>)' /\ sweep'.now > disk'[<<d, e>>].at + TTL
                => <<d, e>> \in sweep'.todo
    BY <1>3, <1>8 DEF Exists
  <1> QED
    BY <1>9, <1>10 DEF Planned

(* The steps of a pass.                                                    *)
LEMMA SweepKeepsClean ==
    ASSUME JsonFree, IInv, SweepInv, SweepStep, sweep'.clean
    PROVE  CleanPass'
  <1>1. UNCHANGED <<get, clock, puts, faults>> /\ sweep \in Sweeps /\ disk \in [Names -> Files]
    BY DEF SweepStep, SweepList, SweepDecide, SweepRemove, SweepDone, IInv, TypeOK
  <1>2. CASE SweepList
    BY <1>2 DEF SweepList, CleanPass, Exists
  <1>3. CASE SweepDecide
    <2>1. /\ sweep.clean /\ sweep'.pc = "removing" /\ sweep'.seen = sweep.seen /\ disk' = disk
      BY <1>1, <1>3 DEF SweepDecide, Sweeps
    <2>2. CleanPass
      BY <2>1 DEF SweepInv
    <2>3. \A w \in Writers : put'[w].pc = "idle"
      <3> SUFFICES ASSUME NEW w \in Writers PROVE put'[w].pc = "idle"
        OBVIOUS
      <3>1. put[w].pc = "idle"
        BY <2>2 DEF CleanPass
      <3>2. put'[w].pc = put[w].pc
        BY <1>3 DEF SweepDecide, IInv, TypeOK, PutCalls
      <3> QED
        BY <3>1, <3>2
    <2>4. SeenOnce' => Planned'
      BY <1>3, <2>1, DecidePlans DEF SeenOnce
    <2> QED
      BY <2>1, <2>2, <2>3, <2>4 DEF CleanPass, Exists
  <1>4. CASE SweepRemove
    <2>1. PICK n \in Names : /\ n \in sweep.todo
                             /\ disk' = [disk EXCEPT ![n] = Absent]
                             /\ sweep' = [sweep EXCEPT !.todo = @ \ {n}]
      BY <1>1, <1>4 DEF SweepRemove, Sweeps
    <2>2. /\ sweep.clean /\ sweep.pc = "removing" /\ sweep'.pc = "removing"
          /\ sweep'.seen = sweep.seen /\ sweep'.now = sweep.now
          /\ sweep'.todo = sweep.todo \ {n} /\ put' = put
      BY <1>1, <1>4, <2>1 DEF SweepRemove, Sweeps
    <2>3. CleanPass
      BY <2>2 DEF SweepInv
    <2>4. \A m \in Names : m # n => disk'[m] = disk[m]
      BY <1>1, <2>1
    <2>5. disk'[n].kind = "none" /\ disk'[n].len = 0
      BY <1>1, <2>1 DEF Absent
    <2>6. \A d \in Digests, e \in Exts : <<d, e>> \in Names
      BY NamesApart
    <2>7. SeenOnce' => Planned'
      <3> SUFFICES ASSUME SeenOnce' PROVE Planned'
        OBVIOUS
      <3>1. Planned
        BY <2>2, <2>3 DEF SeenOnce, CleanPass
      <3>2. Kept' = Kept
        <4> SUFFICES ASSUME NEW m \in Digests \X Exts
                     PROVE  (IF m \in sweep'.todo THEN 0 ELSE disk'[m].len)
                            = (IF m \in sweep.todo THEN 0 ELSE disk[m].len)
          BY DEF Kept
        <4>1. m \in Names
          BY DEF Names
        <4>2. CASE m = n
          BY <2>1, <2>2, <2>5, <4>2
        <4>3. CASE m # n
          BY <2>2, <2>4, <4>1, <4>3
        <4> QED
          BY <4>2, <4>3
      <3>3. ASSUME TTL > 0, NEW d \in Digests, NEW e \in Exts, Exists(<<d, e>>)',
                   sweep'.now > disk'[<<d, e>>].at + TTL
            PROVE  <<d, e>> \in sweep'.todo
        <4>1. <<d, e>> # n
          BY <2>5, <3>3 DEF Exists
        <4>2. disk'[<<d, e>>] = disk[<<d, e>>]
          BY <2>4, <2>6, <4>1
        <4> QED
          BY <2>2, <3>1, <3>3, <4>1, <4>2 DEF Planned, Exists
      <3> QED
        BY <3>1, <3>2, <3>3 DEF Planned
    <2>8. \A m \in Names : Exists(m)' => m \in sweep'.seen
      BY <2>2, <2>3, <2>4, <2>5 DEF Exists, CleanPass
    <2> QED
      BY <2>2, <2>3, <2>7, <2>8 DEF CleanPass
  <1>5. CASE SweepDone
    BY <1>5 DEF SweepDone, NoSweep
  <1> QED
    BY <1>2, <1>3, <1>4, <1>5 DEF SweepStep

(* A reader may touch a sidecar while a pass runs; no blob's time or size  *)
(* changes by it.                                                          *)
LEMMA TouchKeepsClean ==
    ASSUME JsonFree, IInv, SweepInv, sweep' = sweep, put' = put, sweep.clean,
           NEW d \in Digests, NEW t \in Time, disk' = disk \/ disk' = Touched(d, t)
    PROVE  CleanPass'
  <1>1. CleanPass
    BY DEF SweepInv
  <1>2. \A n \in Names : disk'[n].kind = disk[n].kind /\ disk'[n].len = disk[n].len
    BY TouchedFile DEF IInv
  <1>3. \A c \in Digests, e \in Exts :
           <<c, e>> \in Names /\ disk'[<<c, e>>].at = disk[<<c, e>>].at
    <2> SUFFICES ASSUME NEW c \in Digests, NEW e \in Exts
                 PROVE  <<c, e>> \in Names /\ disk'[<<c, e>>].at = disk[<<c, e>>].at
      OBVIOUS
    <2>1. <<c, e>> \in Names /\ <<c, e>> # Meta(d)
      BY NamesApart
    <2> QED
      BY <2>1 DEF Touched, IInv, TypeOK
  <1>4. Kept' = Kept
    <2> SUFFICES ASSUME NEW m \in Digests \X Exts
                 PROVE  (IF m \in sweep'.todo THEN 0 ELSE disk'[m].len)
                        = (IF m \in sweep.todo THEN 0 ELSE disk[m].len)
      BY DEF Kept
    <2>1. m \in Names
      BY DEF Names
    <2> QED
      BY <1>2, <2>1
  <1>5. Planned => Planned'
    BY <1>2, <1>3, <1>4 DEF Planned, Exists
  <1>6. (SeenOnce <=> SeenOnce') /\ \A n \in Names : Exists(n) <=> Exists(n)'
    BY <1>2 DEF SeenOnce, Exists
  <1>7. sweep.seen \subseteq Names
    BY DEF IInv, TypeOK, Sweeps
  <1> QED
    BY <1>1, <1>5, <1>6, <1>7 DEF CleanPass

LEMMA NextKeepsClean ==
    ASSUME JsonFree, IInv, SweepInv, [Next]_vars, sweep'.clean
    PROVE  CleanPass'
  <1>0. sweep \in Sweeps
    BY DEF IInv, TypeOK
  <1>1. CASE UNCHANGED vars
    BY <1>1 DEF vars, SweepInv, CleanPass, Planned, SeenOnce, Kept, Exists
  <1>2. ASSUME NEW w \in Writers, PutBegin(w) \/ PutSpool(w) \/ PutFails(w) \/ PutStores(w)
        PROVE  FALSE
    <2>1. CASE PutBegin(w)
      BY <1>0, <2>1 DEF PutBegin, Disturbed, Sweeps
    <2>2. CASE ~ PutBegin(w)
      <3>1. put[w].pc # "idle" /\ sweep' = sweep
        BY <1>2, <2>2 DEF PutSpool, PutFails, PutStores, PutCheck, PutStat, PutNow,
                          PutTouch, PutRename, PutSidecar, PutMeta, PutMetaFails
      <3> QED
        BY <3>1 DEF SweepInv, CleanPass
    <2> QED
      BY <2>1, <2>2
  <1>3. ASSUME NEW r \in Readers, GetBegin(r) \/ GetOpen(r) \/ GetNow(r) \/ GetTouch(r)
        PROVE  CleanPass'
    <2>1. sweep' = sweep /\ put' = put
      BY <1>3 DEF GetBegin, GetOpen, GetNow, GetTouch
    <2>2. clock \in Time
      BY DEF IInv, TypeOK
    <2>3. CASE GetTouch(r)
      <3>1. get[r].d \in Digests /\ get[r].now \in Time
        BY <2>3 DEF GetTouch, IInv, TypeOK, GetInv, GetCalls
      <3> QED
        BY <2>1, <2>3, <3>1, TouchKeepsClean DEF GetTouch
    <2>4. CASE GetOpen(r) \/ GetNow(r)
      <3>1. get[r].d \in Digests
        BY <2>4 DEF GetOpen, GetNow, IInv, GetInv
      <3> QED
        BY <2>1, <2>2, <2>4, <3>1, TouchKeepsClean DEF GetOpen, GetNow
    <2>5. CASE GetBegin(r)
      BY <2>1, <2>2, <2>5, TouchKeepsClean DEF GetBegin
    <2> QED
      BY <1>3, <2>3, <2>4, <2>5
  <1>4. CASE SweepStep
    BY <1>4, SweepKeepsClean
  <1>5. CASE SweepSkips
    BY <1>0, <1>5 DEF SweepSkips, Sweeps
  <1>6. CASE Crash
    BY <1>6 DEF Crash, NoSweep
  <1>7. CASE Tick
    BY <1>7 DEF Tick, SweepInv, CleanPass, Planned, SeenOnce, Kept, Exists
  <1> QED
    BY <1>1, <1>2, <1>3, <1>4, <1>5, <1>6, <1>7 DEF Next

LEMMA SpecSweepInv == ASSUME JsonFree PROVE Spec => [](IInv /\ SweepInv)
  <1>1. Init => IInv /\ SweepInv
    BY InitIInv, InitSweepInv
  <1>2. IInv /\ SweepInv /\ [Next]_vars => (IInv /\ SweepInv)'
    BY NextKeepsIInv, NextKeepsClean, EmptyNames DEF SweepInv
  <1> QED
    BY <1>1, <1>2, PTL DEF Spec

-----------------------------------------------------------------------------
(* An undisturbed pass that listed each object once leaves no expired blob, *)
(* whatever orphans and half-written objects it started from.              *)
THEOREM SpecSweepExpires ==
    ASSUME JsonFree PROVE Spec => [](SeenOnce => SweepExpires)
  <1>1. IInv /\ SweepInv => (SeenOnce => SweepExpires)
    <2> SUFFICES ASSUME IInv, SweepInv, SeenOnce, SweepEnds, TTL > 0,
                        NEW d \in Digests, NEW e \in Exts, Exists(<<d, e>>)
                 PROVE  sweep.now <= disk[<<d, e>>].at + TTL
      BY DEF SweepExpires
    <2>1. Planned
      BY DEF SweepEnds, SweepInv, CleanPass
    <2>2. ~ (sweep.now > disk[<<d, e>>].at + TTL)
      BY <2>1 DEF Planned, SweepEnds
    <2>3. sweep.now \in Nat /\ disk[<<d, e>>].at \in Nat /\ TTL \in Nat
      BY NamesApart, StoreAssumption
      DEF IInv, TypeOK, Sweeps, Files, Time, StoreAssumption
    <2> QED
      BY <2>2, <2>3
  <1> QED
    BY <1>1, SpecSweepInv, PTL

(* Such a pass leaves at most MaxBytes of blobs.                           *)
THEOREM SpecSweepCaps ==
    ASSUME JsonFree PROVE Spec => [](SeenOnce => SweepCaps)
  <1>1. IInv /\ SweepInv => (SeenOnce => SweepCaps)
    <2> SUFFICES ASSUME IInv, SweepInv, SeenOnce, SweepEnds, MaxBytes > 0
                 PROVE  BlobBytes <= MaxBytes
      BY DEF SweepCaps
    <2>1. SumFunction(Kept) <= MaxBytes
      BY DEF SweepEnds, SweepInv, CleanPass, Planned
    <2>2. Kept = [n \in Digests \X Exts |-> disk[n].len]
      BY DEF Kept, SweepEnds
    <2> QED
      BY <2>1, <2>2 DEF BlobBytes
  <1> QED
    BY <1>1, SpecSweepInv, PTL
=============================================================================
