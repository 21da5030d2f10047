------------------------ MODULE MailboxWatcherProofs ------------------------
(***************************************************************************)
(* Theorems about MailboxWatcher, for every number of UIDs, every flag set *)
(* and every value of the watcher's bounds.                                *)
(***************************************************************************)
EXTENDS MailboxWatcher, FiniteSetTheorems, TLAPS

-----------------------------------------------------------------------------
(* Lemmas about the operators the model is built from.                     *)

\* Lowest(S, n) is a part of S, and S has no member below it that it leaves out.
LEMMA LowestIsPrefix ==
    ASSUME NEW S \in SUBSET Uid, NEW n \in Nat
    PROVE  /\ Lowest(S, n) \subseteq S
           /\ \A u \in Lowest(S, n), w \in S : w < u => w \in Lowest(S, n)
<1>1. ASSUME NEW u \in Lowest(S, n), NEW w \in S, w < u
      PROVE  w \in Lowest(S, n)
  <2> DEFINE below(x) == {y \in S : y < x}
  <2>1. MaxUid \in Nat
    BY WatcherAssumption
  <2>2. IsFiniteSet(1..MaxUid)
    BY <2>1, FS_Interval
  <2>3. IsFiniteSet(S)
    BY <2>2, FS_Subset DEF Uid
  <2>4. IsFiniteSet(below(u)) /\ IsFiniteSet(below(w))
    BY <2>3, FS_Subset
  <2>5. u \in S /\ u \in Int /\ w \in Int
    BY DEF Lowest, Uid
  <2>6. below(w) \subseteq below(u)
    <3>1. ASSUME NEW y \in S, y < w PROVE y < u
      BY <1>1, <2>1, <2>5, <3>1 DEF Uid
    <3> QED
      BY <3>1
  <2>7. Cardinality(below(w)) <= Cardinality(below(u))
    BY <2>4, <2>6, FS_Subset
  <2>8. Cardinality(below(u)) \in Nat /\ Cardinality(below(w)) \in Nat
    BY <2>4, FS_CardinalityType
  <2>9. Cardinality(below(u)) < n
    BY DEF Lowest
  <2>10. Cardinality(below(w)) < n
    BY <2>7, <2>8, <2>9
  <2> QED
    BY <2>10 DEF Lowest
<1> QED
  BY <1>1 DEF Lowest

-----------------------------------------------------------------------------
(* Whatever fails: types, and the high-water mark covers what is known.    *)

FaultInv == TypeOK /\ HighWaterCoversKnown

\* The arrivals of a pass that are still to be fetched or reported.
Pending == found \cup ToReport

\* The lists a pass works off, and where it stands while it does: what TypeOK
\* says of them.
PassOK ==
    /\ found \subseteq Uid /\ fetched \in [Uid -> FlagSets \cup {NoMsg}]
    /\ (found # {} <=> pc = "fetch") /\ (pc = "emit" => ToReport # {})
    /\ (ToReport # {} => pc \in {"fetch", "emit"})

\* Before the first call nothing is known and the mark is 0.
LEMMA FaultInvInit == Init => FaultInv
<1> SUFFICES ASSUME Init PROVE FaultInv
  OBVIOUS
<1>1. /\ box \in [Uid -> FlagSets \cup {NoMsg}]
      /\ uidNext \in [Validity -> 1..(MaxUid + 1)]
  BY WatcherAssumption DEF Init, Uid, Validity
<1>2. known \in [Uid -> FlagSets \cup {NoMsg}] /\ Known = {}
  BY DEF Init, Nothing, Known
<1>3. TypeOK
  <2>1. listed \in BOOLEAN /\ folderKnown \in BOOLEAN /\ hasCp \in BOOLEAN
    BY DEF Init
  <2>2. /\ validity \in Validity /\ edits \in 0..MaxEdits /\ faults \in 0..MaxFaults
        /\ cpValidity \in 0..MaxValidity /\ highWater \in 0..MaxUid
        /\ pc = "new"
    BY WatcherAssumption DEF Init, Validity
  <2>3. /\ baseline \subseteq Message /\ created \subseteq (0..MaxValidity) \X Uid
        /\ twice \subseteq created /\ moved \subseteq (0..MaxValidity) \X Uid
    BY DEF Init
  <2>4. found = {} /\ fetched \in [Uid -> FlagSets \cup {NoMsg}] /\ ToReport = {}
    BY DEF Init, Nothing, ToReport
  <2> QED
    BY <1>1, <1>2, <2>1, <2>2, <2>3, <2>4 DEF TypeOK
<1> QED
  BY <1>2, <1>3 DEF FaultInv, HighWaterCoversKnown

\* The server and the other clients do not touch the checkpoint.
LEMMA FaultInvServer ==
    FaultInv /\ (QuietServer \/ Reset \/ Rename) => FaultInv'
<1> SUFFICES ASSUME FaultInv, QuietServer \/ Reset \/ Rename PROVE FaultInv'
  OBVIOUS
<1> USE WatcherAssumption
<1>1. Untouched
  BY DEF QuietServer, Reset, Arrive, SetFlags, Expunge, ResetUidvalidity, Rename
<1>2. HighWaterCoversKnown'
  BY <1>1 DEF Untouched, checkpoint, FaultInv, HighWaterCoversKnown, Known
<1>3. /\ listed' \in BOOLEAN /\ validity' \in Validity
      /\ box' \in [Uid -> FlagSets \cup {NoMsg}]
      /\ uidNext' \in [Validity -> 1..(MaxUid + 1)]
      /\ edits' \in 0..MaxEdits
  <2>1. CASE \E f \in FlagSets : Arrive(f)
    BY <2>1 DEF Arrive, FaultInv, TypeOK, Validity, Uid
  <2>2. CASE \E u \in Uid, f \in FlagSets : SetFlags(u, f)
    BY <2>2 DEF SetFlags, FaultInv, TypeOK
  <2>3. CASE \E u \in Uid : Expunge(u)
    BY <2>3 DEF Expunge, FaultInv, TypeOK
  <2>4. CASE Reset
    BY <2>4 DEF Reset, ResetUidvalidity, FaultInv, TypeOK, Validity
  <2>5. CASE Rename
    BY <2>5 DEF Rename, FaultInv, TypeOK
  <2> QED
    BY <2>1, <2>2, <2>3, <2>4, <2>5 DEF QuietServer
<1>4. TypeOK'
  <2>1. PassOK'
    BY <1>1 DEF Untouched, pass, FaultInv, TypeOK, PassOK, ToReport
  <2> QED
    BY <1>1, <1>3, <2>1 DEF Untouched, checkpoint, feed, FaultInv, TypeOK, PassOK, Message
<1> QED
  BY <1>2, <1>4 DEF FaultInv

\* What every step of the watcher has to establish, once the server is idle.
WatcherPart ==
    /\ pc' \in PrimePcs \cup ScanPcs \cup {"emit", "new", "idle"}
    /\ folderKnown' \in BOOLEAN /\ hasCp' \in BOOLEAN
    /\ cpValidity' \in 0..MaxValidity /\ highWater' \in 0..MaxUid
    /\ known' \in [Uid -> FlagSets \cup {NoMsg}]
    /\ baseline' \subseteq Message
    /\ created' \subseteq (0..MaxValidity) \X Uid /\ twice' \subseteq created'
    /\ moved' \subseteq (0..MaxValidity) \X Uid
    /\ HighWaterCoversKnown'
    /\ UNCHANGED server

\* A step that keeps what the watcher owns in type keeps the invariant.
LEMMA FaultInvAssembled ==
    ASSUME FaultInv, WatcherPart, PassOK', faults' \in 0..MaxFaults
    PROVE  FaultInv'
BY DEF FaultInv, WatcherPart, PassOK, TypeOK, server, Message, Validity, Uid

\* checkpoint(): a new record knows nothing, so its mark covers it.
LEMMA NewCheckpointPart ==
    ASSUME FaultInv, NEW v \in 0..MaxValidity, NewCheckpoint(v)
    PROVE  /\ hasCp' \in BOOLEAN /\ cpValidity' \in 0..MaxValidity
           /\ highWater' \in 0..MaxUid /\ known' \in [Uid -> FlagSets \cup {NoMsg}]
           /\ HighWaterCoversKnown'
BY WatcherAssumption DEF NewCheckpoint, Nothing, Uid, HighWaterCoversKnown, Known

\* Events and records are about UIDs: what reporting them keeps.
LEMMA ReportCreatedPart ==
    ASSUME FaultInv, NEW u \in Uid, ReportCreated(u)
    PROVE  /\ created' \subseteq (0..MaxValidity) \X Uid /\ twice' \subseteq created'
           /\ moved' \subseteq (0..MaxValidity) \X Uid
BY DEF FaultInv, TypeOK, ReportCreated

\* The mark rises with the arrival recorded.
LEMMA RecordArrivalPart ==
    ASSUME FaultInv, NEW u \in Uid, u \in ToReport, RecordArrival(u)
    PROVE  /\ highWater' \in 0..MaxUid /\ known' \in [Uid -> FlagSets \cup {NoMsg}]
           /\ highWater' \in {u, highWater} /\ u <= highWater' /\ highWater <= highWater'
           /\ Known' = Known \cup {u}
           /\ HighWaterCoversKnown'
<1>1. known' = [known EXCEPT ![u] = fetched[u]] /\ fetched[u] # NoMsg
  BY DEF RecordArrival, ToReport
<1>2. PICK m \in 0..MaxUid : IsMax(m, {u, highWater}) /\ highWater' = m
  BY DEF RecordArrival
<1>3. known' \in [Uid -> FlagSets \cup {NoMsg}] /\ Known' = Known \cup {u}
  BY <1>1 DEF FaultInv, TypeOK, Known
<1>4. highWater' \in {u, highWater} /\ u <= highWater' /\ highWater <= highWater'
  BY <1>2 DEF IsMax
<1>5. ASSUME NEW w \in Known PROVE w <= highWater'
  <2>1. w <= highWater /\ w \in Int /\ highWater \in Int /\ highWater' \in Int
    BY <1>2 DEF FaultInv, TypeOK, HighWaterCoversKnown, Known, Uid
  <2> QED
    BY <1>4, <2>1
<1> QED
  BY <1>2, <1>3, <1>4, <1>5 DEF HighWaterCoversKnown

\* A flag snapshot of known UIDs adds no UID to known.
LEMMA FlagsPart ==
    ASSUME FaultInv, NEW S, S \subseteq Known, UNCHANGED highWater,
           known' = [u \in Uid |-> IF u \in S THEN box[u] ELSE known[u]]
    PROVE  known' \in [Uid -> FlagSets \cup {NoMsg}] /\ HighWaterCoversKnown'
<1>1. known' \in [Uid -> FlagSets \cup {NoMsg}]
  BY DEF FaultInv, TypeOK
<1>2. Known' \subseteq Known
  BY DEF Known
<1> QED
  BY <1>1, <1>2 DEF FaultInv, HighWaterCoversKnown

\* Reporting expunges only shrinks known.
LEMMA ReportMovedPart ==
    ASSUME FaultInv, NEW S \in SUBSET Uid, NEW gone, ReportMoved(S, gone),
           UNCHANGED highWater
    PROVE  /\ known' \in [Uid -> FlagSets \cup {NoMsg}] /\ HighWaterCoversKnown'
           /\ created' \subseteq (0..MaxValidity) \X Uid /\ twice' \subseteq created'
           /\ moved' \subseteq (0..MaxValidity) \X Uid
<1>1. known' \in [Uid -> FlagSets \cup {NoMsg}] /\ Known' \subseteq Known
  BY DEF FaultInv, TypeOK, ReportMoved, Known
<1>2. HighWaterCoversKnown'
  BY <1>1 DEF FaultInv, HighWaterCoversKnown
<1> QED
  BY <1>1, <1>2 DEF FaultInv, TypeOK, ReportMoved

\* The handlers, whatever the source answers within the range of each question.
LEMMA PrimePart ==
    ASSUME FaultInv, NEW v \in 0..MaxValidity, NEW here \in BOOLEAN,
           NEW live \in SUBSET Uid, NEW answered \in SUBSET Known,
           \/ PrimeStart(v) \/ PrimeValidity(v) \/ PrimeLive(live)
           \/ PrimeFlags(answered) \/ PrimeFolders(here)
    PROVE  WatcherPart
<1> USE DEF server, checkpoint, feed
<1>1. CASE PrimeStart(v)
  <2>1. CASE hasCp
    BY <1>1, <2>1 DEF PrimeStart, FaultInv, TypeOK, HighWaterCoversKnown, Known, WatcherPart, PrimePcs
  <2>2. CASE ~hasCp
    <3>1. NewCheckpoint(v)
      BY <1>1, <2>2 DEF PrimeStart
    <3> QED
      BY <1>1, <3>1, NewCheckpointPart DEF PrimeStart, FaultInv, TypeOK, WatcherPart, PrimePcs
  <2> QED
    BY <2>1, <2>2
<1>2. CASE PrimeValidity(v)
  BY <1>2 DEF PrimeValidity, FaultInv, TypeOK, HighWaterCoversKnown, Known, WatcherPart, PrimePcs
<1>3. CASE PrimeLive(live)
  <2>1. known' = [u \in Uid |-> IF u \in live THEN NoFlags ELSE known[u]]
    BY <1>3 DEF PrimeLive
  <2>2. PICK m \in 0..MaxUid : IsMax(m, live \cup {highWater}) /\ highWater' = m
    BY <1>3 DEF PrimeLive
  <2>3. known' \in [Uid -> FlagSets \cup {NoMsg}]
    BY <2>1, WatcherAssumption DEF FaultInv, TypeOK
  <2>4. HighWaterCoversKnown'
    <3>1. ASSUME NEW u \in Known' PROVE u <= highWater'
      <4>1. CASE u \in live
        BY <2>2, <4>1 DEF IsMax
      <4>2. CASE u \notin live
        <5>1. u \in Known /\ u \in Int
          BY <2>1, <4>2 DEF Known, Uid
        <5>2. u <= highWater /\ highWater <= m /\ highWater \in Int /\ m \in Int
          BY <2>2, <5>1 DEF FaultInv, TypeOK, HighWaterCoversKnown, IsMax
        <5> QED
          BY <2>2, <5>1, <5>2
      <4> QED
        BY <4>1, <4>2
    <3> QED
      BY <3>1 DEF HighWaterCoversKnown
  <2>5. baseline' \subseteq Message
    BY <1>3 DEF PrimeLive, FaultInv, TypeOK, Message, Present
  <2> QED
    BY <1>3, <2>2, <2>3, <2>4, <2>5 DEF PrimeLive, FaultInv, TypeOK, WatcherPart, PrimePcs
<1>4. CASE PrimeFlags(answered)
  BY <1>4, FlagsPart DEF PrimeFlags, FaultInv, TypeOK, WatcherPart, PrimePcs
<1>5. CASE PrimeFolders(here)
  BY <1>5 DEF PrimeFolders, FaultInv, TypeOK, HighWaterCoversKnown, Known, WatcherPart, PrimePcs
<1> QED
  BY <1>1, <1>2, <1>3, <1>4, <1>5

\* Each question of scan_once(), with any answer in range.
LEMMA ScanPart ==
    ASSUME FaultInv, NEW v \in 0..MaxValidity, NEW here \in BOOLEAN, NEW n,
           NEW live \in SUBSET Uid, NEW answered \in SUBSET Known,
           \/ ListFolders(here) \/ MessageCount(n) \/ Checkpoint(v) \/ CheckValidity(v)
           \/ FlagSnapshot(answered) \/ LiveUids(live)
    PROVE  WatcherPart
<1> USE DEF server, checkpoint, feed
<1>1. CASE ListFolders(here)
  <2>1. CASE UNCHANGED checkpoint
    BY <1>1, <2>1 DEF ListFolders, FaultInv, TypeOK, HighWaterCoversKnown, Known, WatcherPart, ScanPcs
  <2>2. CASE ~UNCHANGED checkpoint
    <3>1. hasCp' = FALSE /\ cpValidity' = 0 /\ highWater' = 0 /\ known' = Nothing
      BY <1>1, <2>2 DEF ListFolders
    <3>2. known' \in [Uid -> FlagSets \cup {NoMsg}] /\ Known' = {}
      BY <3>1 DEF Nothing, Known
    <3>3. cpValidity' \in 0..MaxValidity /\ highWater' \in 0..MaxUid
      BY <3>1, WatcherAssumption
    <3>4. hasCp' \in BOOLEAN /\ HighWaterCoversKnown'
      BY <3>1, <3>2 DEF HighWaterCoversKnown
    <3>5. pc' \in PrimePcs \cup ScanPcs \cup {"emit", "new", "idle"} /\ folderKnown' \in BOOLEAN
      BY <1>1 DEF ListFolders, FaultInv, TypeOK, ScanPcs
    <3> QED
      BY <1>1, <3>2, <3>3, <3>4, <3>5 DEF ListFolders, FaultInv, TypeOK, WatcherPart
  <2> QED
    BY <2>1, <2>2
<1>2. CASE MessageCount(n)
  BY <1>2 DEF MessageCount, FaultInv, TypeOK, HighWaterCoversKnown, Known, WatcherPart, ScanPcs
<1>3. CASE Checkpoint(v)
  BY <1>3, NewCheckpointPart DEF Checkpoint, FaultInv, TypeOK, WatcherPart, ScanPcs
<1>4. CASE CheckValidity(v)
  <2>1. CASE cpValidity # 0 /\ v # 0 /\ v # cpValidity
    <3>1. /\ highWater' \in 0..MaxUid /\ known' \in [Uid -> FlagSets \cup {NoMsg}]
          /\ HighWaterCoversKnown'
      BY <1>4, <2>1, WatcherAssumption DEF CheckValidity, Nothing, Uid, HighWaterCoversKnown, Known
    <3> QED
      BY <1>4, <2>1, <3>1 DEF CheckValidity, FaultInv, TypeOK, WatcherPart, PrimePcs
  <2>2. CASE ~(cpValidity # 0 /\ v # 0 /\ v # cpValidity)
    BY <1>4, <2>2
       DEF CheckValidity, FaultInv, TypeOK, HighWaterCoversKnown, Known, WatcherPart, ScanPcs
  <2> QED
    BY <2>1, <2>2
<1>5. CASE FlagSnapshot(answered)
  BY <1>5, FlagsPart DEF FlagSnapshot, FaultInv, TypeOK, WatcherPart, ScanPcs
<1>6. CASE LiveUids(live)
  <2>1. ReportMoved(Known \ live, Known \ live) /\ Known \ live \in SUBSET Uid
    BY <1>6 DEF LiveUids, Known
  <2> QED
    BY <1>6, <2>1, ReportMovedPart DEF LiveUids, FaultInv, TypeOK, WatcherPart
<1> QED
  BY <1>1, <1>2, <1>3, <1>4, <1>5, <1>6

\* The arrivals: what the search answers, what each FETCH does, one report.
LEMMA ArrivalPart ==
    ASSUME FaultInv, NEW batch, NEW answer, SearchNew(batch) \/ Fetch(answer) \/ EmitNew
    PROVE  WatcherPart
<1> USE DEF server, checkpoint, feed
<1>1. CASE SearchNew(batch)
  BY <1>1 DEF SearchNew, FaultInv, TypeOK, HighWaterCoversKnown, Known, WatcherPart, ScanPcs
<1>2. CASE Fetch(answer)
  BY <1>2 DEF Fetch, FaultInv, TypeOK, HighWaterCoversKnown, Known, WatcherPart, ScanPcs
<1>3. CASE EmitNew
  <2>1. PICK u \in Uid :
          /\ IsNext(u)
          /\ IF u \in Known THEN UNCHANGED <<known, highWater, feed>>
             ELSE ReportCreated(u) /\ RecordArrival(u)
    BY <1>3 DEF EmitNew
  <2>2. /\ UNCHANGED server /\ UNCHANGED <<folderKnown, hasCp, cpValidity, baseline>>
        /\ pc' \in ScanPcs \cup {"emit"}
    BY <1>3 DEF EmitNew, ScanPcs
  <2>3. u \in ToReport
    BY <2>1 DEF IsNext, IsMin
  <2>4. CASE u \in Known
    BY <2>1, <2>2, <2>4 DEF FaultInv, TypeOK, HighWaterCoversKnown, Known, WatcherPart
  <2>5. CASE u \notin Known
    <3>1. ReportCreated(u) /\ RecordArrival(u)
      BY <2>1, <2>5
    <3>2. /\ created' \subseteq (0..MaxValidity) \X Uid /\ twice' \subseteq created'
          /\ moved' \subseteq (0..MaxValidity) \X Uid
      BY <3>1, ReportCreatedPart
    <3>3. /\ highWater' \in 0..MaxUid /\ known' \in [Uid -> FlagSets \cup {NoMsg}]
          /\ HighWaterCoversKnown'
      BY <2>3, <3>1, RecordArrivalPart
    <3> QED
      BY <2>2, <3>2, <3>3 DEF FaultInv, TypeOK, WatcherPart
  <2> QED
    BY <2>4, <2>5
<1> QED
  BY <1>1, <1>2, <1>3

\* SEARCH: the UIDs it answers are what the pass has before it.
LEMMA SearchPass ==
    ASSUME FaultInv, NEW batch \in SUBSET Uid, SearchNew(batch)
    PROVE  PassOK' /\ Pending' = batch
<1>1. pc = "scan" /\ found' = batch /\ fetched' = fetched
  BY DEF SearchNew
<1>2. ToReport = {} /\ ToReport' = {}
  BY <1>1 DEF FaultInv, TypeOK, ToReport
<1>3. pc' = IF batch = {} THEN "flags" ELSE "fetch"
  BY DEF SearchNew
<1> QED
  BY <1>1, <1>2, <1>3 DEF FaultInv, TypeOK, PassOK, Pending

\* FETCH: one UID goes over to the arrivals to report, whatever its answer.
LEMMA FetchPass ==
    ASSUME FaultInv, NEW answer \in [Uid -> FlagSets], Fetch(answer)
    PROVE  PassOK' /\ Pending' = Pending
<1>1. PICK u \in found :
        /\ found' = found \ {u}
        /\ fetched' = [fetched EXCEPT ![u] = answer[u]]
  BY DEF Fetch
<1>2. u \in Uid /\ answer[u] \in FlagSets /\ answer[u] # NoMsg /\ found \subseteq Uid
  BY <1>1, WatcherAssumption DEF FaultInv, TypeOK
<1>3. fetched' \in [Uid -> FlagSets \cup {NoMsg}] /\ ToReport' = ToReport \cup {u}
  BY <1>1, <1>2 DEF FaultInv, TypeOK, ToReport
<1>4. pc' = IF found' = {} THEN "emit" ELSE "fetch"
  BY DEF Fetch
<1> QED
  BY <1>1, <1>2, <1>3, <1>4 DEF PassOK, Pending

\* One turn of the loop over the arrivals takes the lowest of them off.
LEMMA EmitPass ==
    ASSUME FaultInv, EmitNew
    PROVE  /\ PassOK' /\ found = {}
           /\ \E u \in Uid :
                 /\ IsMin(u, Pending) /\ u \in ToReport /\ Pending' = Pending \ {u}
                 /\ IF u \in Known THEN UNCHANGED <<known, highWater, feed>>
                    ELSE ReportCreated(u) /\ RecordArrival(u)
<1>1. PICK u \in Uid :
        /\ IsNext(u)
        /\ IF u \in Known THEN UNCHANGED <<known, highWater, feed>>
           ELSE ReportCreated(u) /\ RecordArrival(u)
        /\ fetched' = [fetched EXCEPT ![u] = NoMsg]
  BY DEF EmitNew
<1>2. pc = "emit" /\ IsMin(u, ToReport) /\ u \in ToReport
  BY <1>1 DEF IsNext, IsMin
<1>3. found = {} /\ found' = {}
  BY <1>2 DEF EmitNew, FaultInv, TypeOK
<1>4. fetched' \in [Uid -> FlagSets \cup {NoMsg}] /\ ToReport' = ToReport \ {u}
  BY <1>1 DEF FaultInv, TypeOK, ToReport
<1>5. pc' = IF fetched' = Nothing THEN "flags" ELSE "emit"
  BY DEF EmitNew
<1>6. fetched' = Nothing <=> ToReport' = {}
  BY <1>4 DEF Nothing, ToReport
<1>7. PassOK'
  BY <1>3, <1>4, <1>5, <1>6 DEF PassOK
<1> QED
  BY <1>1, <1>2, <1>3, <1>4, <1>7 DEF Pending

\* Elsewhere the lists of the pass are empty, and an exception drops them.
LEMMA PassIdle ==
    ASSUME FaultInv, NEW v, NEW here \in BOOLEAN, NEW n, NEW live, NEW answered,
           \/ PrimeStart(v) \/ PrimeValidity(v) \/ PrimeLive(live)
           \/ PrimeFlags(answered) \/ PrimeFolders(here)
           \/ ListFolders(here) \/ MessageCount(n) \/ Checkpoint(v) \/ CheckValidity(v)
           \/ FlagSnapshot(answered) \/ LiveUids(live)
           \/ Abandon \/ ArrivalRaises \/ FlagChangeRaises \/ MoveRaises
    PROVE  PassOK' /\ Pending' = {}
<1>1. pc' \notin {"fetch", "emit"}
  BY DEF PrimeStart, PrimeValidity, PrimeLive, PrimeFlags, PrimeFolders, ListFolders,
     MessageCount, Checkpoint, CheckValidity, FlagSnapshot, LiveUids, Abandon, ArrivalRaises,
     FlagChangeRaises, MoveRaises, PrimePcs
<1>2. CASE Abandon \/ ArrivalRaises
  <2>1. found' = {} /\ fetched' = Nothing
    BY <1>2 DEF Abandon, ArrivalRaises, DropPass
  <2> QED
    BY <1>1, <2>1 DEF PassOK, Pending, ToReport, Nothing
<1>3. CASE ~(Abandon \/ ArrivalRaises)
  <2>1. UNCHANGED <<found, fetched>> /\ pc \notin {"fetch", "emit"}
    BY <1>3 DEF PrimeStart, PrimeValidity, PrimeLive, PrimeFlags, PrimeFolders, ListFolders,
       MessageCount, Checkpoint, CheckValidity, FlagSnapshot, LiveUids,
       FlagChangeRaises, MoveRaises, pass
  <2>2. found = {} /\ ToReport = {} /\ ToReport' = {}
    BY <2>1 DEF FaultInv, TypeOK, ToReport
  <2> QED
    BY <1>1, <2>1, <2>2 DEF FaultInv, TypeOK, PassOK, Pending
<1> QED
  BY <1>2, <1>3

\* The watcher stops somewhere in a pass: at a question, or in a loop.
LEMMA AbandonPart ==
    ASSUME FaultInv, Abandon \/ ArrivalRaises \/ FlagChangeRaises \/ MoveRaises
    PROVE  WatcherPart
<1> USE DEF server, checkpoint, feed
<1>1. CASE Abandon
  BY <1>1 DEF Abandon, FaultInv, TypeOK, HighWaterCoversKnown, Known, WatcherPart, PrimePcs, ScanPcs
<1>2. CASE ArrivalRaises
  <2>1. PICK u \in Uid : ReportCreated(u) \/ UNCHANGED feed
    BY <1>2 DEF ArrivalRaises
  <2>2. /\ created' \subseteq (0..MaxValidity) \X Uid /\ twice' \subseteq created'
        /\ moved' \subseteq (0..MaxValidity) \X Uid
    BY <2>1, ReportCreatedPart DEF FaultInv, TypeOK
  <2> QED
    BY <1>2, <2>2 DEF ArrivalRaises, FaultInv, TypeOK, HighWaterCoversKnown, Known, WatcherPart
<1>3. CASE FlagChangeRaises
  <2>1. PICK done \in SUBSET AnswerFlags :
          known' = [u \in Uid |-> IF u \in done THEN box[u] ELSE known[u]]
    BY <1>3 DEF FlagChangeRaises
  <2>2. done \subseteq Known
    BY DEF AnswerFlags, Highest
  <2> QED
    BY <1>3, <2>1, <2>2, FlagsPart DEF FlagChangeRaises, FaultInv, TypeOK, WatcherPart
<1>4. CASE MoveRaises
  <2>0. PICK u \in Known \ Present : \E done \in SUBSET ((Known \ Present) \ {u}) :
          ReportMoved(done, done) \/ ReportMoved(done \cup {u}, done)
    BY <1>4 DEF MoveRaises
  <2>1. PICK done \in SUBSET ((Known \ Present) \ {u}) :
          ReportMoved(done, done) \/ ReportMoved(done \cup {u}, done)
    BY <2>0
  <2>2. done \in SUBSET Uid /\ done \cup {u} \in SUBSET Uid
    BY DEF Known
  <2>3. UNCHANGED highWater
    BY <1>4 DEF MoveRaises
  <2> QED
    BY <1>4, <2>1, <2>2, <2>3, ReportMovedPart DEF MoveRaises, FaultInv, TypeOK, WatcherPart
<1> QED
  BY <1>1, <1>2, <1>3, <1>4

\* The answers of a source, truthful or empty, are in range.
LEMMA AnswersInRange ==
    ASSUME FaultInv
    PROVE  /\ AnswerValidity \in 0..MaxValidity /\ 0 \in 0..MaxValidity
           /\ AnswerFlags \in SUBSET Known /\ {} \in SUBSET Known
           /\ Present \in SUBSET Uid /\ Batch \in SUBSET Uid /\ {} \in SUBSET Uid
           /\ listed \in BOOLEAN /\ FALSE \in BOOLEAN
           /\ AnswerFetch \in [Uid -> FlagSets] /\ NoAnswer \in [Uid -> FlagSets]
BY WatcherAssumption
   DEF FaultInv, TypeOK, Validity, AnswerValidity, AnswerFlags, Highest, Batch, Lowest, Present,
       AnswerFetch, NoAnswer

\* Every step of the watcher, answered, refused or cut short by an exception.
LEMMA FaultInvWatcher ==
    FaultInv /\ (Watcher \/ SelectFails \/ Fault) => FaultInv'
<1> SUFFICES ASSUME FaultInv, Watcher \/ SelectFails \/ Fault PROVE FaultInv'
  OBVIOUS
<1>1. faults' \in 0..MaxFaults
  BY WatcherAssumption DEF FaultInv, TypeOK, Watcher, SelectFails, Fault
<1>2. CASE Watcher
  <2>1. WatcherPart
    BY <1>2, AnswersInRange, PrimePart, ScanPart, ArrivalPart, Zenon DEF Watcher
  <2>2. PassOK'
    BY <1>2, AnswersInRange, PassIdle, SearchPass, FetchPass, EmitPass, Zenon DEF Watcher
  <2> QED
    BY <1>1, <2>1, <2>2, FaultInvAssembled
<1>3. CASE SelectFails
  BY <1>1, <1>3, AbandonPart, PassIdle, FaultInvAssembled DEF SelectFails
<1>4. CASE Fault
  <2>1. CASE EmptyAnswer
    <3>1. WatcherPart
      BY <2>1, AnswersInRange, PrimePart, ScanPart, ArrivalPart, Zenon DEF EmptyAnswer
    <3>2. PassOK'
      BY <2>1, AnswersInRange, PassIdle, SearchPass, FetchPass, Zenon DEF EmptyAnswer
    <3> QED
      BY <1>1, <3>1, <3>2, FaultInvAssembled
  <2>2. CASE ~EmptyAnswer
    BY <1>1, <1>4, <2>2, AbandonPart, PassIdle, FaultInvAssembled DEF Fault, SourceRaises
  <2> QED
    BY <2>1, <2>2
<1> QED
  BY <1>2, <1>3, <1>4

LEMMA FaultInvStep == FaultInv /\ [Next]_vars => FaultInv'
<1>1. FaultInv /\ Next => FaultInv'
  BY FaultInvServer, FaultInvWatcher DEF Next, RacingNext
<1>2. FaultInv /\ UNCHANGED vars => FaultInv'
  BY DEF vars, server, checkpoint, pass, feed, FaultInv, TypeOK, HighWaterCoversKnown, Known,
     Message, ToReport
<1> QED
  BY <1>1, <1>2

\* Types, and no UID of known above the high-water mark, in every behaviour:
\* with failing commands, abandoned passes, resets and renames at any point.
THEOREM WatcherFaultSafety == Spec => [](TypeOK /\ HighWaterCoversKnown)
<1>1. Init => FaultInv
  BY FaultInvInit
<1>2. FaultInv /\ [Next]_vars => FaultInv'
  BY FaultInvStep
<1>3. FaultInv => TypeOK /\ HighWaterCoversKnown
  BY DEF FaultInv
<1> QED
  BY <1>1, <1>2, <1>3, PTL DEF Spec

\* The types alone: no fault leaves a pass or a checkpoint half written.
COROLLARY WatcherTyped == Spec => []TypeOK
BY WatcherFaultSafety, PTL

-----------------------------------------------------------------------------
(* A source that answers, resets only between passes: the safety of the    *)
(* feed.  The high-water mark is what carries it: under the checkpoint's   *)
(* UIDVALIDITY it is at or above every message announced or in a baseline, *)
(* so that an arrival above it is a message the feed has never spoken of.  *)

Accounted == created \cup baseline

\* Where a pass may stand, and what the checkpoint is then.
PassInv ==
    /\ listed = TRUE /\ pc # "checkpoint"
    /\ hasCp <=> pc # "new"
    /\ pc = "new" => known = Nothing /\ highWater = 0
    /\ hasCp => cpValidity \in 1..validity
    /\ pc \in PrimePcs \cup {"scan", "fetch", "emit", "flags", "live"} => cpValidity = validity
    /\ pc \in {"primeValidity", "primeLive"} => known = Nothing /\ highWater = 0

PresentInv == \A u \in Present : u < uidNext[validity]

\* A generation that has not come yet has given no UID.
FutureInv == \A v \in Validity : v > validity => uidNext[v] = 1

AccountedInv ==
    \A v \in 0..MaxValidity, u \in Uid : <<v, u>> \in Accounted =>
        /\ hasCp /\ v \in 1..cpValidity /\ u < uidNext[v]
        /\ v = cpValidity => u <= highWater /\ pc \notin {"primeValidity", "primeLive"}

\* The mark itself is a UID of the checkpoint's generation.
MarkInv == hasCp => highWater < uidNext[cpValidity]

KnownInv ==
    \A u \in Known : u <= highWater /\ <<cpValidity, u>> \in Accounted

MovedInv ==
    \A v \in 0..MaxValidity, u \in Uid : <<v, u>> \in moved =>
        /\ <<v, u>> \in Accounted
        /\ v = validity => u \notin Present
        /\ v = cpValidity => u \notin Known

FeedInv ==
    /\ PassInv /\ PresentInv /\ AccountedInv /\ MarkInv /\ KnownInv /\ MovedInv
    /\ Tracked /\ NoReplay /\ AtMostOnce

\* What a pass has before it lies above the mark, and is all that the folder
\* holds from there up to any of it: the mark may rise over it one by one.
PendingInv ==
    /\ \A p \in Pending : highWater < p /\ p < uidNext[validity]
    /\ \A p \in Pending, u \in Present : highWater < u /\ u < p => u \in Pending

StableInv == TypeOK /\ FeedInv /\ PendingInv /\ FutureInv

\* The server's steps touch the generation that is, or comes next.
LEMMA FutureStep == StableInv /\ [StableNext]_vars => FutureInv'
<1> SUFFICES ASSUME StableInv, [StableNext]_vars PROVE FutureInv'
  OBVIOUS
<1>1. validity \in Validity /\ uidNext \in [Validity -> 1..(MaxUid + 1)] /\ FutureInv
  BY DEF StableInv, TypeOK
<1>2. CASE UNCHANGED <<validity, uidNext>>
  BY <1>1, <1>2 DEF FutureInv
<1>3. CASE \E f \in FlagSets : Arrive(f)
  BY <1>1, <1>3 DEF Arrive, FutureInv, Validity
<1>4. CASE Reset
  BY <1>1, <1>4 DEF Reset, ResetUidvalidity, FutureInv, Validity
<1>5. \/ UNCHANGED <<validity, uidNext>>
      \/ \E f \in FlagSets : Arrive(f)
      \/ Reset
  BY DEF StableNext, QuietServer, SetFlags, Expunge, vars, server, Watcher, PrimeStart,
     PrimeValidity, PrimeLive, PrimeFlags, PrimeFolders, ListFolders, MessageCount, Checkpoint,
     CheckValidity, SearchNew, Fetch, EmitNew, FlagSnapshot, LiveUids
<1> QED
  BY <1>2, <1>3, <1>4, <1>5

LEMMA StableFault == StableInv => FaultInv
BY DEF StableInv, FeedInv, KnownInv, FaultInv, HighWaterCoversKnown

\* Nothing is announced before the folder is primed.
LEMMA StableInvInit == Init => StableInv
<1> SUFFICES ASSUME Init PROVE StableInv
  OBVIOUS
<1>1. TypeOK
  BY FaultInvInit DEF FaultInv
<1>2. Known = {} /\ Accounted = {} /\ moved = {}
  BY DEF Init, Known, Nothing, Accounted
<1>3. PassInv
  BY DEF Init, PassInv, PrimePcs
<1>4. PresentInv
  BY WatcherAssumption DEF Init, PresentInv, Present, Uid, Validity
<1>5. AccountedInv /\ MarkInv /\ KnownInv /\ MovedInv
  BY <1>2 DEF Init, AccountedInv, MarkInv, KnownInv, MovedInv
<1>6. Tracked /\ NoReplay /\ AtMostOnce
  BY DEF Init, Tracked, NoReplay, AtMostOnce
<1>7. PendingInv /\ FutureInv
  BY DEF Init, PendingInv, Pending, ToReport, Nothing, FutureInv
<1> QED
  BY <1>1, <1>3, <1>4, <1>5, <1>6, <1>7 DEF StableInv, FeedInv

\* Other clients at any moment: a UID they add is UIDNEXT, above everything.
LEMMA StableQuietServer == StableInv /\ QuietServer => FeedInv'
<1> SUFFICES ASSUME StableInv, QuietServer PROVE FeedInv'
  OBVIOUS
<1> USE WatcherAssumption DEF StableInv, FeedInv
<1>1. Untouched /\ listed' = listed /\ validity' = validity
  BY DEF QuietServer, Arrive, SetFlags, Expunge
<1>2. Known' = Known /\ Accounted' = Accounted
  BY <1>1 DEF Untouched, checkpoint, feed, Known, Accounted
<1>3. PassInv' /\ NoReplay' /\ AtMostOnce'
  BY <1>1 DEF Untouched, checkpoint, feed, PassInv, NoReplay, AtMostOnce
<1>4. CASE \E f \in FlagSets : Arrive(f)
  <2> DEFINE new == uidNext[validity]
  <2>1. PICK f \in FlagSets : Arrive(f)
    BY <1>4
  <2>2. /\ new \in Uid /\ validity \in Validity
        /\ Present' = Present \cup {new}
        /\ uidNext'[validity] = new + 1
        /\ \A v \in Validity : uidNext'[v] >= uidNext[v] /\ uidNext[v] \in Int
    BY <2>1 DEF Arrive, TypeOK, Present, Uid, Validity
  <2>3. PresentInv'
    BY <1>1, <2>2 DEF PresentInv, Uid, Present
  <2>3a. UNCHANGED <<pc, hasCp, cpValidity, highWater, known, baseline, created, moved>>
    BY <1>1 DEF Untouched, checkpoint, feed
  <2>3b. ASSUME hasCp PROVE cpValidity \in Validity /\ 1..cpValidity \subseteq Validity
    BY <2>2, <2>3b DEF PassInv, TypeOK, Validity
  <2>4. AccountedInv'
    <3>1. SUFFICES ASSUME NEW v \in 0..MaxValidity, NEW u \in Uid, <<v, u>> \in Accounted
                   PROVE  /\ hasCp /\ v \in 1..cpValidity /\ u < uidNext'[v]
                          /\ v = cpValidity => u <= highWater /\ pc \notin {"primeValidity", "primeLive"}
      BY <1>2, <2>3a DEF AccountedInv
    <3>2. /\ hasCp /\ v \in 1..cpValidity /\ u < uidNext[v]
          /\ v = cpValidity => u <= highWater /\ pc \notin {"primeValidity", "primeLive"}
      BY <3>1 DEF AccountedInv
    <3>3. uidNext'[v] >= uidNext[v] /\ uidNext[v] \in Int /\ uidNext'[v] \in Int
      BY <2>1, <2>2, <2>3b, <3>2 DEF Arrive, TypeOK
    <3> QED
      BY <3>2, <3>3 DEF Uid
  <2>5. KnownInv' /\ MarkInv'
    <3>1. KnownInv'
      BY <1>2, <2>3a DEF KnownInv
    <3>2. MarkInv'
      <4>1. SUFFICES ASSUME hasCp PROVE highWater < uidNext'[cpValidity]
        BY <2>3a DEF MarkInv
      <4>2. uidNext'[cpValidity] >= uidNext[cpValidity] /\ uidNext[cpValidity] \in Int
            /\ uidNext'[cpValidity] \in Int
        BY <2>1, <2>2, <2>3b, <4>1 DEF Arrive, TypeOK
      <4> QED
        BY <4>1, <4>2 DEF MarkInv, TypeOK
    <3> QED
      BY <3>1, <3>2
  <2>6. \A v \in 0..MaxValidity : <<v, new>> \in Accounted => v # validity
    BY <2>2 DEF AccountedInv, Uid
  <2>7. MovedInv'
    BY <1>1, <1>2, <2>2, <2>6 DEF MovedInv, Untouched, checkpoint, feed
  <2>8. Tracked'
    <3>1. SUFFICES ASSUME hasCp, cpValidity = validity, NEW u \in Present', u <= highWater
                   PROVE  u \in Known
      BY <1>1, <1>2 DEF Tracked, Untouched, checkpoint
    <3>2. CASE u \in Present
      BY <3>1, <3>2 DEF Tracked
    <3>3. CASE u = new
      BY <2>2, <3>1, <3>3 DEF MarkInv, TypeOK, Uid
    <3> QED
      BY <2>2, <3>2, <3>3
  <2> QED
    BY <1>3, <2>3, <2>4, <2>5, <2>7, <2>8
<1>5. CASE (\E u \in Uid, f \in FlagSets : SetFlags(u, f)) \/ (\E u \in Uid : Expunge(u))
  <2>1. Present' \subseteq Present /\ uidNext' = uidNext
    <3>1. CASE \E u \in Uid, f \in FlagSets : SetFlags(u, f)
      BY <3>1 DEF SetFlags, Present, TypeOK
    <3>2. CASE \E u \in Uid : Expunge(u)
      BY <3>2 DEF Expunge, Present, TypeOK
    <3> QED
      BY <1>5, <3>1, <3>2
  <2>2. PresentInv'
    BY <1>1, <2>1 DEF PresentInv
  <2>3. AccountedInv'
    BY <1>1, <1>2, <2>1 DEF AccountedInv, Untouched, checkpoint
  <2>4. MarkInv' /\ KnownInv' /\ MovedInv' /\ Tracked'
    BY <1>1, <1>2, <2>1 DEF MarkInv, KnownInv, MovedInv, Tracked, Untouched, checkpoint, feed
  <2> QED
    BY <1>3, <2>2, <2>3, <2>4
<1> QED
  BY <1>4, <1>5 DEF QuietServer

\* Nor do they disturb what a pass has before it: what comes lies above it.
LEMMA PendingServer == StableInv /\ QuietServer => PendingInv'
<1> SUFFICES ASSUME StableInv, QuietServer PROVE PendingInv'
  OBVIOUS
<1>1. validity' = validity /\ highWater' = highWater /\ Pending' = Pending
  BY DEF QuietServer, Arrive, SetFlags, Expunge, Untouched, checkpoint, pass, Pending, ToReport
<1>2. /\ \A p \in Pending : p \in Int /\ highWater < p /\ p < uidNext[validity]
      /\ highWater \in Int /\ uidNext[validity] \in Int
  BY WatcherAssumption DEF StableInv, TypeOK, PendingInv, Pending, ToReport, Uid, Validity
<1>3. /\ uidNext'[validity] \in Int /\ uidNext[validity] <= uidNext'[validity]
      /\ \A u \in Present' \ Present : u = uidNext[validity]
  <2>1. CASE \E f \in FlagSets : Arrive(f)
    BY <1>2, <2>1 DEF Arrive, StableInv, TypeOK, Present, Validity
  <2>2. CASE (\E u \in Uid, f \in FlagSets : SetFlags(u, f)) \/ (\E u \in Uid : Expunge(u))
    BY <1>2, <2>2 DEF SetFlags, Expunge, StableInv, TypeOK, Present
  <2> QED
    BY <2>1, <2>2 DEF QuietServer
<1>4. ASSUME NEW p \in Pending', NEW u \in Present', highWater' < u, u < p
      PROVE  u \in Pending'
  <2>1. u \in Present
    BY <1>1, <1>2, <1>3, <1>4
  <2> QED
    BY <1>1, <1>4, <2>1 DEF StableInv, PendingInv
<1> QED
  BY <1>1, <1>2, <1>3, <1>4 DEF PendingInv

\* Between two passes: every message spoken of belongs to an older generation.
LEMMA StableReset == StableInv /\ pc \in {"new", "idle"} /\ Reset => FeedInv'
<1> SUFFICES ASSUME StableInv, pc \in {"new", "idle"}, NEW n \in 0..MaxUid, ResetUidvalidity(n)
             PROVE  FeedInv'
  BY DEF Reset
<1> USE WatcherAssumption DEF StableInv, FeedInv
<1>1. /\ UNCHANGED <<listed, pc, folderKnown, hasCp, cpValidity, highWater, known>>
      /\ UNCHANGED <<baseline, created, twice, moved>>
  BY DEF ResetUidvalidity, Untouched, checkpoint, feed
<1>2. /\ validity' = validity + 1 /\ validity \in Validity /\ validity' \in Validity
      /\ uidNext'[validity'] = n + 1
      /\ \A v \in Validity : v # validity' => uidNext'[v] = uidNext[v]
      /\ \A u \in Present' : u <= n
  BY DEF ResetUidvalidity, TypeOK, Validity, Present
<1>3. Known' = Known /\ Accounted' = Accounted
  BY <1>1 DEF Known, Accounted
<1>4. ASSUME hasCp PROVE cpValidity \in Validity /\ cpValidity < validity' /\ 1..cpValidity \subseteq Validity
  BY <1>2, <1>4 DEF PassInv, Validity
<1>5. PassInv'
  BY <1>1, <1>2 DEF PassInv, PrimePcs, Validity
<1>6. PresentInv'
  BY <1>2 DEF PresentInv, Present, Uid
<1>7. AccountedInv'
  <2>1. SUFFICES ASSUME NEW v \in 0..MaxValidity, NEW u \in Uid, <<v, u>> \in Accounted
                 PROVE  /\ hasCp /\ v \in 1..cpValidity /\ u < uidNext'[v]
                        /\ v = cpValidity => u <= highWater /\ pc \notin {"primeValidity", "primeLive"}
    BY <1>1, <1>3 DEF AccountedInv
  <2>2. /\ hasCp /\ v \in 1..cpValidity /\ u < uidNext[v]
        /\ v = cpValidity => u <= highWater /\ pc \notin {"primeValidity", "primeLive"}
    BY <2>1 DEF AccountedInv
  <2>3. v \in Validity /\ v # validity'
    BY <1>2, <1>4, <2>2 DEF Validity
  <2> QED
    BY <1>2, <2>2, <2>3
<1>8. MarkInv' /\ KnownInv'
  BY <1>1, <1>2, <1>3, <1>4 DEF MarkInv, KnownInv, Validity
<1>9. MovedInv'
  <2>1. ASSUME NEW u \in Uid PROVE <<validity', u>> \notin Accounted
    BY <1>2, <1>4 DEF AccountedInv, Validity
  <2> QED
    BY <1>1, <1>3, <2>1 DEF MovedInv
<1>10. Tracked' /\ NoReplay' /\ AtMostOnce'
  <2>1. ~(hasCp /\ cpValidity = validity')
    BY <1>2, <1>4 DEF Validity
  <2> QED
    BY <1>1, <2>1 DEF Tracked, NoReplay, AtMostOnce
<1> QED
  BY <1>5, <1>6, <1>7, <1>8, <1>9, <1>10

\* prime(), against a source that answers.
LEMMA StablePrime ==
    ASSUME StableInv,
           \/ PrimeStart(validity) \/ PrimeValidity(validity) \/ PrimeLive(Present)
           \/ PrimeFlags(AnswerFlags) \/ PrimeFolders(TRUE)
    PROVE  FeedInv'
<1> USE WatcherAssumption DEF StableInv, FeedInv, server, checkpoint, feed
<1>0. validity \in Validity /\ UNCHANGED server
  BY DEF TypeOK, PrimeStart, PrimeValidity, PrimeLive, PrimeFlags, PrimeFolders
<1>1. CASE PrimeStart(validity)
  <2>1. Known = {} /\ ~hasCp /\ Accounted = {} /\ moved = {}
    <3>1. ~hasCp /\ Known = {}
      BY <1>1 DEF PrimeStart, PassInv, Known, Nothing
    <3>2. Accounted = {}
      BY <3>1 DEF AccountedInv, Accounted, TypeOK, Message, Validity, Uid
    <3>3. moved = {}
      BY <3>2 DEF MovedInv, TypeOK
    <3> QED
      BY <3>1, <3>2, <3>3
  <2>2. /\ pc' = "primeValidity" /\ hasCp' = TRUE /\ cpValidity' = validity
        /\ highWater' = 0 /\ known' = Nothing /\ UNCHANGED <<baseline, created, twice, moved>>
    BY <1>1, <2>1 DEF PrimeStart, NewCheckpoint
  <2>3. PassInv'
    BY <1>0, <2>2 DEF PassInv, PrimePcs, Validity
  <2>4. Known' = {} /\ Accounted' = {} /\ moved' = {}
    BY <2>1, <2>2 DEF Known, Nothing, Accounted
  <2>5. uidNext'[cpValidity'] >= 1 /\ PresentInv' /\ UNCHANGED <<validity, box>>
    BY <1>0, <2>2 DEF TypeOK, PresentInv, Present
  <2>6. MarkInv' /\ Tracked'
    BY <2>2, <2>5, <1>0 DEF MarkInv, Tracked, Present, TypeOK, Uid
  <2> QED
    BY <2>2, <2>3, <2>4, <2>5, <2>6 DEF AccountedInv, KnownInv, MovedInv, NoReplay, AtMostOnce
<1>2. CASE PrimeValidity(validity)
  <2>1. /\ pc = "primeValidity" /\ pc' = "primeLive" /\ cpValidity = validity /\ cpValidity' = validity
        /\ UNCHANGED <<listed, validity, box, uidNext, hasCp, highWater, known>>
        /\ UNCHANGED <<baseline, created, twice, moved>>
    BY <1>2 DEF PrimeValidity, PassInv, PrimePcs
  <2>2. Known' = Known /\ Accounted' = Accounted /\ Present' = Present
    BY <2>1 DEF Known, Accounted, Present
  <2>3. PassInv' /\ PresentInv'
    BY <2>1, <2>2 DEF PassInv, PresentInv, PrimePcs
  <2> QED
    BY <2>1, <2>2, <2>3 DEF AccountedInv, MarkInv, KnownInv, MovedInv, Tracked, NoReplay, AtMostOnce
<1>3. CASE PrimeLive(Present)
  <2>1. /\ pc = "primeLive" /\ pc' = "primeFlags" /\ cpValidity = validity /\ hasCp
        /\ known = Nothing /\ highWater = 0
        /\ UNCHANGED <<listed, validity, box, uidNext, hasCp, cpValidity>>
        /\ UNCHANGED <<created, twice, moved>>
        /\ known' = [u \in Uid |-> IF u \in Present THEN NoFlags ELSE known[u]]
        /\ baseline' = baseline \cup ({validity} \X Present)
    BY <1>3 DEF PrimeLive, PassInv, PrimePcs
  <2>2. PICK m \in 0..MaxUid : IsMax(m, Present \cup {0}) /\ highWater' = m
    BY <1>3, <2>1 DEF PrimeLive
  <2>3. Present' = Present /\ Known' = Present
    BY <2>1 DEF Present, Known, Nothing
  <2>4. \A u \in Uid : <<validity, u>> \notin Accounted
    BY <1>0, <2>1 DEF AccountedInv, Validity
  <2>5. Accounted' = Accounted \cup ({validity} \X Present)
    BY <2>1 DEF Accounted
  <2>6. \A u \in Present : u <= m /\ u < uidNext[validity]
    BY <2>2 DEF IsMax, PresentInv
  <2>7. m < uidNext[validity]
    BY <1>0, <2>2, <2>6 DEF IsMax, TypeOK
  <2>8. PassInv' /\ PresentInv'
    BY <2>1, <2>3 DEF PassInv, PresentInv, PrimePcs
  <2>9. AccountedInv'
    <3>1. SUFFICES ASSUME NEW v \in 0..MaxValidity, NEW u \in Uid, <<v, u>> \in Accounted'
                   PROVE  /\ hasCp /\ v \in 1..cpValidity /\ u < uidNext[v]
                          /\ v = cpValidity => u <= m
      BY <2>1, <2>2 DEF AccountedInv
    <3>2. CASE <<v, u>> \in Accounted
      BY <2>1, <2>4, <3>2 DEF AccountedInv
    <3>3. CASE v = validity /\ u \in Present
      BY <1>0, <2>1, <2>6, <3>3 DEF Validity
    <3> QED
      BY <2>5, <3>1, <3>2, <3>3
  <2>10. MarkInv' /\ KnownInv' /\ Tracked'
    BY <2>1, <2>2, <2>3, <2>5, <2>6, <2>7 DEF MarkInv, KnownInv, Tracked
  <2>11. MovedInv'
    BY <2>1, <2>3, <2>4, <2>5 DEF MovedInv
  <2>12. NoReplay' /\ AtMostOnce'
    BY <2>1, <2>4, <2>5 DEF NoReplay, AtMostOnce, Accounted, Present
  <2> QED
    BY <2>8, <2>9, <2>10, <2>11, <2>12
<1>4. CASE PrimeFlags(AnswerFlags)
  <2>1. /\ pc = "primeFlags" /\ pc' = "primeFolders"
        /\ UNCHANGED <<listed, validity, box, uidNext, hasCp, cpValidity, highWater>>
        /\ UNCHANGED <<baseline, created, twice, moved>>
    BY <1>4 DEF PrimeFlags
  <2>2. Known' = Known /\ Accounted' = Accounted /\ Present' = Present
    BY <1>4, <2>1 DEF PrimeFlags, AnswerFlags, Highest, Known, Accounted, Present
  <2>3. PassInv' /\ PresentInv'
    BY <2>1, <2>2 DEF PassInv, PresentInv, PrimePcs
  <2> QED
    BY <2>1, <2>2, <2>3 DEF AccountedInv, MarkInv, KnownInv, MovedInv, Tracked, NoReplay, AtMostOnce
<1>5. CASE PrimeFolders(TRUE)
  <2>1. /\ pc = "primeFolders" /\ pc' = "idle"
        /\ UNCHANGED <<listed, validity, box, uidNext, hasCp, cpValidity, highWater, known>>
        /\ UNCHANGED <<baseline, created, twice, moved>>
    BY <1>5 DEF PrimeFolders
  <2>2. Known' = Known /\ Accounted' = Accounted /\ Present' = Present
    BY <2>1 DEF Known, Accounted, Present
  <2>3. PassInv' /\ PresentInv'
    BY <2>1, <2>2 DEF PassInv, PresentInv, PrimePcs
  <2> QED
    BY <2>1, <2>2, <2>3 DEF AccountedInv, MarkInv, KnownInv, MovedInv, Tracked, NoReplay, AtMostOnce
<1> QED
  BY <1>1, <1>2, <1>3, <1>4, <1>5

\* The steps of a pass that change no checkpoint: the folder is there.
LEMMA StableLook ==
    ASSUME StableInv, ListFolders(TRUE) \/ (\E n \in Nat : MessageCount(n))
    PROVE  FeedInv'
<1> USE DEF StableInv, FeedInv, server, checkpoint, feed
<1>1. /\ pc \in {"idle", "count"} /\ pc' \in {"count", "idle", "validity", "checkpoint"}
      /\ pc' = "checkpoint" => ~hasCp
      /\ UNCHANGED <<listed, validity, box, uidNext, hasCp, cpValidity, highWater, known>>
      /\ UNCHANGED <<baseline, created, twice, moved>>
  BY DEF ListFolders, MessageCount
<1>2. Known' = Known /\ Accounted' = Accounted /\ Present' = Present
  BY <1>1 DEF Known, Accounted, Present
<1>3. PassInv' /\ PresentInv'
  BY <1>1, <1>2 DEF PassInv, PresentInv, PrimePcs
<1> QED
  BY <1>1, <1>2, <1>3 DEF AccountedInv, MarkInv, KnownInv, MovedInv, Tracked, NoReplay, AtMostOnce

\* A new UIDVALIDITY empties the checkpoint; the same one leaves it alone.
LEMMA StableCheckValidity ==
    ASSUME StableInv, CheckValidity(validity)
    PROVE  FeedInv'
<1> USE WatcherAssumption DEF StableInv, FeedInv, server, checkpoint, feed
<1>1. /\ pc = "validity" /\ hasCp /\ cpValidity \in 1..validity /\ validity \in Validity
      /\ cpValidity # 0 /\ validity # 0
      /\ UNCHANGED <<listed, validity, box, uidNext, hasCp, baseline, created, twice, moved>>
  BY DEF CheckValidity, PassInv, TypeOK, Validity
<1>2. Present' = Present /\ Accounted' = Accounted
  BY <1>1 DEF Present, Accounted
<1>3. CASE validity = cpValidity
  <2>1. pc' = "scan" /\ UNCHANGED <<cpValidity, highWater, known>>
    BY <1>1, <1>3 DEF CheckValidity
  <2>2. Known' = Known
    BY <2>1 DEF Known
  <2>3. PassInv' /\ PresentInv'
    BY <1>1, <1>2, <1>3, <2>1 DEF PassInv, PresentInv, PrimePcs
  <2> QED
    BY <1>1, <1>2, <2>1, <2>2, <2>3
       DEF AccountedInv, MarkInv, KnownInv, MovedInv, Tracked, NoReplay, AtMostOnce
<1>4. CASE validity # cpValidity
  <2>1. pc' = "primeValidity" /\ cpValidity' = validity /\ highWater' = 0 /\ known' = Nothing
    BY <1>1, <1>4 DEF CheckValidity
  <2>2. Known' = {}
    BY <2>1 DEF Known, Nothing
  <2>3. cpValidity < validity
    BY <1>1, <1>4 DEF Validity
  <2>4. PassInv' /\ PresentInv'
    BY <1>1, <1>2, <2>1 DEF PassInv, PresentInv, PrimePcs, Validity
  <2>5. AccountedInv'
    BY <1>1, <1>2, <2>1, <2>3 DEF AccountedInv, Validity
  <2>6. uidNext[validity] >= 1
    BY <1>1 DEF TypeOK
  <2>7. MarkInv' /\ KnownInv'
    BY <1>1, <2>1, <2>2, <2>6 DEF MarkInv, KnownInv, TypeOK
  <2>8. MovedInv' /\ Tracked' /\ NoReplay' /\ AtMostOnce'
    BY <1>1, <1>2, <2>1, <2>2 DEF MovedInv, Tracked, Present, Uid, NoReplay, AtMostOnce
  <2> QED
    BY <2>4, <2>5, <2>7, <2>8
<1> QED
  BY <1>3, <1>4

\* What scan() answers, to a checkpoint of this generation: messages of the
\* folder above the mark, none of them spoken of, and all those below one.
LEMMA BatchIsFresh ==
    ASSUME StableInv, pc = "scan"
    PROVE  /\ hasCp /\ cpValidity = validity /\ validity \in Validity
           /\ Batch \ Known = Batch /\ Batch \subseteq Present
           /\ \A u \in Batch : /\ highWater < u /\ u < uidNext[validity]
                               /\ <<validity, u>> \notin Accounted
           /\ \A u \in Batch, w \in Present : highWater < w /\ w < u => w \in Batch
<1> USE DEF StableInv, FeedInv
<1> DEFINE Above == {u \in Present : u > highWater}
<1>1. hasCp /\ cpValidity = validity /\ validity \in Validity
  BY DEF PassInv, TypeOK
<1>2. Above \in SUBSET Uid /\ MaxNew \in Nat
  BY WatcherAssumption DEF Present
<1>3. /\ Batch \subseteq Above
      /\ \A u \in Batch, w \in Above : w < u => w \in Batch
  BY <1>2, LowestIsPrefix DEF Batch
<1>4. \A u \in Batch : u \in Present /\ u \in Int /\ highWater < u
  BY <1>3 DEF Present, Uid, TypeOK
<1>5. \A u \in Batch : u \notin Known
  <2>1. ASSUME NEW u \in Batch, u \in Known PROVE FALSE
    <3>1. u <= highWater /\ highWater < u /\ u \in Int
      BY <1>4, <2>1 DEF KnownInv
    <3>2. highWater \in Int
      BY DEF TypeOK
    <3> QED
      BY <3>1, <3>2
  <2> QED
    BY <2>1
<1>6. \A u \in Batch : <<validity, u>> \notin Accounted
  <2>1. ASSUME NEW u \in Batch, <<validity, u>> \in Accounted PROVE FALSE
    <3>1. u \in Uid /\ validity \in 0..MaxValidity
      BY <1>1, <1>4 DEF Present, Validity
    <3>2. u <= highWater
      BY <1>1, <2>1, <3>1 DEF AccountedInv
    <3> QED
      BY <1>4, <3>2 DEF TypeOK
  <2> QED
    BY <2>1
<1>7. \A u \in Batch : u < uidNext[validity]
  BY <1>4 DEF PresentInv
<1> QED
  BY <1>1, <1>3, <1>4, <1>5, <1>6, <1>7

\* The search and the fetches change nothing the feed can see.
LEMMA StableFetch ==
    ASSUME StableInv, SearchNew(Batch) \/ Fetch(AnswerFetch)
    PROVE  FeedInv' /\ PendingInv'
<1> USE DEF StableInv, FeedInv, server, checkpoint, feed
<1>1. /\ pc \in {"scan", "fetch"} /\ pc' \in {"fetch", "emit", "flags"}
      /\ UNCHANGED <<listed, validity, box, uidNext, hasCp, cpValidity, highWater, known>>
      /\ UNCHANGED <<baseline, created, twice, moved>>
  BY DEF SearchNew, Fetch
<1>2. Known' = Known /\ Accounted' = Accounted /\ Present' = Present
  BY <1>1 DEF Known, Accounted, Present
<1>3. PassInv' /\ PresentInv'
  BY <1>1, <1>2 DEF PassInv, PresentInv, PrimePcs
<1>4. PendingInv'
  <2>1. CASE SearchNew(Batch)
    <3>1. Pending' = Batch
      BY <2>1, StableFault, AnswersInRange, SearchPass
    <3>2. pc = "scan"
      BY <2>1 DEF SearchNew
    <3> QED
      BY <1>1, <1>2, <3>1, <3>2, BatchIsFresh DEF PendingInv
  <2>2. CASE Fetch(AnswerFetch)
    <3>1. Pending' = Pending
      BY <2>2, StableFault, AnswersInRange, FetchPass
    <3> QED
      BY <1>1, <1>2, <3>1 DEF PendingInv
  <2> QED
    BY <2>1, <2>2
<1> QED
  BY <1>1, <1>2, <1>3, <1>4
     DEF AccountedInv, MarkInv, KnownInv, MovedInv, Tracked, NoReplay, AtMostOnce

\* What one report does, on a stable source: the arrival is the lowest of those
\* before the pass, new to the feed, and the mark comes to lie on it.
LEMMA EmitIsFresh ==
    ASSUME StableInv, EmitNew
    PROVE  /\ hasCp /\ cpValidity = validity /\ validity \in Validity
           /\ pc = "emit" /\ pc' \in {"emit", "flags"}
           /\ UNCHANGED <<listed, validity, box, uidNext, hasCp, cpValidity, baseline, moved>>
           /\ \E u \in Uid :
                 /\ IsMin(u, Pending) /\ Pending' = Pending \ {u}
                 /\ highWater < u /\ u < uidNext[validity] /\ <<validity, u>> \notin Accounted
                 /\ u \notin Known
                 /\ highWater' = u /\ Known' = Known \cup {u}
                 /\ created' = created \cup {<<validity, u>>} /\ twice' = twice
<1> USE DEF StableInv, FeedInv
<1>1. FaultInv /\ pc = "emit" /\ pc' \in {"emit", "flags"}
  BY StableFault DEF EmitNew, IsNext
<1>2. hasCp /\ cpValidity = validity /\ validity \in Validity
  BY <1>1 DEF PassInv, TypeOK
<1>3. PICK u \in Uid :
        /\ IsMin(u, Pending) /\ u \in ToReport /\ Pending' = Pending \ {u}
        /\ IF u \in Known THEN UNCHANGED <<known, highWater, feed>>
           ELSE ReportCreated(u) /\ RecordArrival(u)
  BY <1>1, EmitPass
<1>4. highWater < u /\ u < uidNext[validity] /\ u \in Int /\ highWater \in Int
  BY <1>3 DEF PendingInv, Pending, Uid, TypeOK
<1>5. u \notin Known
  <2>1. ASSUME u \in Known PROVE FALSE
    <3>1. u <= highWater
      BY <2>1 DEF KnownInv
    <3> QED
      BY <1>4, <3>1
  <2> QED
    BY <2>1
<1>6. <<validity, u>> \notin Accounted
  <2>1. validity \in 0..MaxValidity
    BY <1>2 DEF Validity
  <2> QED
    BY <1>2, <1>4, <2>1 DEF AccountedInv
<1>7. ReportCreated(u) /\ RecordArrival(u)
  BY <1>3, <1>5
<1>8. highWater' = u /\ Known' = Known \cup {u}
  <2>1. /\ highWater' \in {u, highWater} /\ u <= highWater' /\ Known' = Known \cup {u}
    BY <1>1, <1>3, <1>7, RecordArrivalPart
  <2> QED
    BY <1>4, <2>1
<1>9. created' = created \cup {<<validity, u>>} /\ twice' = twice /\ UNCHANGED moved
  BY <1>2, <1>6, <1>7 DEF ReportCreated, Accounted
<1>10. UNCHANGED <<listed, validity, box, uidNext, hasCp, cpValidity, baseline>>
  BY DEF EmitNew, server
<1> QED
  BY <1>1, <1>2, <1>3, <1>4, <1>5, <1>6, <1>8, <1>9, <1>10

\* The mark passes one arrival, and nothing of the folder below it is left out.
LEMMA StableEmitNew ==
    ASSUME StableInv, EmitNew
    PROVE  FeedInv' /\ PendingInv'
<1> USE WatcherAssumption DEF StableInv, FeedInv
<1>1. /\ hasCp /\ cpValidity = validity /\ validity \in Validity
      /\ pc = "emit" /\ pc' \in {"emit", "flags"}
      /\ UNCHANGED <<listed, validity, box, uidNext, hasCp, cpValidity, baseline, moved>>
  BY EmitIsFresh
<1>2. PICK u \in Uid :
        /\ IsMin(u, Pending) /\ Pending' = Pending \ {u}
        /\ highWater < u /\ u < uidNext[validity] /\ <<validity, u>> \notin Accounted
        /\ u \notin Known
        /\ highWater' = u /\ Known' = Known \cup {u}
        /\ created' = created \cup {<<validity, u>>} /\ twice' = twice
  BY EmitIsFresh
<1>3. u \in Int /\ highWater \in Int /\ uidNext[validity] \in Int
  BY <1>1 DEF TypeOK, Uid
<1>4. /\ Present' = Present /\ \A w \in Present : w \in Int
      /\ Accounted' = Accounted \cup {<<validity, u>>}
  BY <1>1, <1>2 DEF Present, Accounted, Uid
<1>5. PassInv' /\ PresentInv'
  BY <1>1, <1>4 DEF PassInv, PresentInv, PrimePcs
<1>6. AccountedInv'
  <2>1. SUFFICES ASSUME NEW v \in 0..MaxValidity, NEW w \in Uid, <<v, w>> \in Accounted'
                 PROVE  /\ v \in 1..cpValidity /\ w < uidNext[v]
                        /\ v = cpValidity => w <= u
    BY <1>1, <1>2 DEF AccountedInv
  <2>2. CASE <<v, w>> \in Accounted
    <3>1. v \in 1..cpValidity /\ w < uidNext[v] /\ (v = cpValidity => w <= highWater)
      BY <2>2 DEF AccountedInv
    <3> QED
      BY <1>2, <1>3, <3>1 DEF Uid
  <2>3. CASE v = validity /\ w = u
    BY <1>1, <1>2, <1>3, <2>3 DEF Validity
  <2> QED
    BY <1>4, <2>1, <2>2, <2>3
<1>7. MarkInv'
  BY <1>1, <1>2 DEF MarkInv
<1>8. KnownInv'
  <2>1. SUFFICES ASSUME NEW w \in Known \cup {u}
                 PROVE  w <= u /\ <<cpValidity, w>> \in Accounted'
    BY <1>1, <1>2 DEF KnownInv
  <2>2. CASE w = u
    BY <1>1, <1>3, <1>4, <2>2
  <2>3. CASE w \in Known
    <3>1. w <= highWater /\ <<cpValidity, w>> \in Accounted /\ w \in Int
      BY <2>3 DEF KnownInv, Known, Uid
    <3> QED
      BY <1>2, <1>3, <1>4, <3>1
  <2> QED
    BY <2>1, <2>2, <2>3
<1>9. MovedInv'
  <2>1. <<validity, u>> \notin moved
    BY <1>1, <1>2 DEF MovedInv, Validity
  <2> QED
    BY <1>1, <1>2, <1>4, <2>1 DEF MovedInv
<1>10. Tracked'
  <2>1. SUFFICES ASSUME NEW w \in Present, w <= u PROVE w \in Known \cup {u}
    BY <1>2, <1>4 DEF Tracked
  <2>2. CASE w <= highWater
    BY <1>1, <2>2 DEF Tracked
  <2>3. CASE highWater < w /\ w < u
    <3>1. w \in Pending /\ u \in Pending
      BY <1>2, <2>3 DEF PendingInv, IsMin
    <3> QED
      BY <1>2, <1>3, <1>4, <2>3, <3>1 DEF IsMin
  <2> QED
    BY <1>3, <1>4, <2>1, <2>2, <2>3
<1>11. NoReplay' /\ AtMostOnce'
  BY <1>1, <1>2 DEF NoReplay, AtMostOnce, Accounted
<1>12. PendingInv'
  <2>0. \A p \in Pending : p \in Int
    BY DEF Pending, ToReport, TypeOK, Uid
  <2>1. \A p \in Pending' : p \in Int /\ u < p /\ p < uidNext[validity]
    BY <1>2, <1>3, <2>0 DEF IsMin, PendingInv
  <2>2. ASSUME NEW p \in Pending', NEW w \in Present, u < w, w < p PROVE w \in Pending'
    <3>1. w \in Int /\ highWater < w /\ w # u
      BY <1>2, <1>3, <1>4, <2>2
    <3> QED
      BY <1>2, <2>2, <3>1 DEF PendingInv
  <2> QED
    BY <1>1, <1>2, <1>4, <2>1, <2>2 DEF PendingInv
<1> QED
  BY <1>5, <1>6, <1>7, <1>8, <1>9, <1>10, <1>11, <1>12

\* known shrinks, or its flags change; the UIDs that left it are withdrawn.
LEMMA StableFlagsAndLive ==
    ASSUME StableInv, FlagSnapshot(AnswerFlags) \/ LiveUids(Present)
    PROVE  FeedInv'
<1> USE DEF StableInv, FeedInv, server, checkpoint, feed
<1>1. CASE FlagSnapshot(AnswerFlags)
  <2>1. /\ pc = "flags" /\ pc' = "live"
        /\ UNCHANGED <<listed, validity, box, uidNext, hasCp, cpValidity, highWater>>
        /\ UNCHANGED <<baseline, created, twice, moved>>
    BY <1>1 DEF FlagSnapshot
  <2>2. Known' = Known /\ Accounted' = Accounted /\ Present' = Present
    BY <1>1, <2>1 DEF FlagSnapshot, AnswerFlags, Highest, Known, Accounted, Present
  <2>3. PassInv' /\ PresentInv'
    BY <2>1, <2>2 DEF PassInv, PresentInv, PrimePcs
  <2> QED
    BY <2>1, <2>2, <2>3 DEF AccountedInv, MarkInv, KnownInv, MovedInv, Tracked, NoReplay, AtMostOnce
<1>2. CASE LiveUids(Present)
  <2> DEFINE gone == Known \ Present
  <2>1. /\ pc = "live" /\ pc' = "idle" /\ hasCp /\ cpValidity = validity
        /\ UNCHANGED <<listed, validity, box, uidNext, hasCp, cpValidity, highWater>>
        /\ UNCHANGED <<baseline, created, twice>>
        /\ moved' = moved \cup ({cpValidity} \X gone)
    BY <1>2 DEF LiveUids, ReportMoved, PassInv
  <2>2. Known' = Known \cap Present /\ Accounted' = Accounted /\ Present' = Present
    BY <1>2, <2>1 DEF LiveUids, ReportMoved, Known, Accounted, Present
  <2>3. PassInv' /\ PresentInv'
    BY <2>1, <2>2 DEF PassInv, PresentInv, PrimePcs
  <2>4. \A u \in gone : <<validity, u>> \in Accounted /\ u \notin Present /\ u \notin Known'
    BY <2>1, <2>2 DEF KnownInv
  <2>5. MovedInv'
    BY <2>1, <2>2, <2>4 DEF MovedInv
  <2> QED
    BY <2>1, <2>2, <2>3, <2>5 DEF AccountedInv, MarkInv, KnownInv, Tracked, NoReplay, AtMostOnce
<1> QED
  BY <1>1, <1>2

\* Every step of the watcher on a stable source keeps the feed truthful.
LEMMA StableWatcher == StableInv /\ Watcher => FeedInv' /\ PendingInv'
<1> SUFFICES ASSUME StableInv, Watcher PROVE FeedInv' /\ PendingInv'
  OBVIOUS
<1>1. listed = TRUE /\ pc # "checkpoint" /\ AnswerValidity = validity
  BY DEF StableInv, FeedInv, PassInv, AnswerValidity
<1>2. AnswerCount \in Nat
  <2>1. IsFiniteSet(1..MaxUid)
    BY WatcherAssumption, FS_Interval
  <2>2. IsFiniteSet(Present)
    BY <2>1, FS_Subset DEF Present, Uid
  <2> QED
    BY <2>2, FS_CardinalityType DEF AnswerCount
<1>3. ~Checkpoint(AnswerValidity)
  BY <1>1 DEF Checkpoint
<1>4. CASE SearchNew(Batch) \/ Fetch(AnswerFetch) \/ EmitNew
  BY <1>4, StableFetch, StableEmitNew
<1>5. CASE ~(SearchNew(Batch) \/ Fetch(AnswerFetch) \/ EmitNew)
  <2>1. FeedInv'
    BY <1>1, <1>2, <1>3, <1>5, StablePrime, StableLook, StableCheckValidity,
       StableFlagsAndLive DEF Watcher
  <2>2. Pending' = {}
    BY <1>5, StableFault, AnswersInRange, PassIdle, Zenon DEF Watcher
  <2> QED
    BY <2>1, <2>2 DEF PendingInv
<1> QED
  BY <1>4, <1>5

\* And so does every step of the stable system.
LEMMA StableInvInductive == StableInv /\ [StableNext]_vars => StableInv'
<1> SUFFICES ASSUME StableInv, [StableNext]_vars PROVE StableInv'
  OBVIOUS
<1>1. FaultInv
  BY StableFault
<1>2. CASE StableNext
  <2>1. TypeOK'
    BY <1>1, <1>2, FaultInvServer, FaultInvWatcher DEF StableNext, FaultInv
  <2>2. FeedInv' /\ PendingInv'
    <3>1. CASE pc \in {"new", "idle"} /\ Reset
      <4>1. Pending' = {}
        BY <1>1, <3>1 DEF Reset, ResetUidvalidity, Untouched, pass, FaultInv, TypeOK, Pending, ToReport
      <4> QED
        BY <3>1, <4>1, StableReset DEF PendingInv
    <3> QED
      BY <1>2, <3>1, StableQuietServer, PendingServer, StableWatcher DEF StableNext
  <2> QED
    BY <2>1, <2>2, FutureStep DEF StableInv
<1>3. CASE UNCHANGED vars
  <2>1. /\ UNCHANGED <<listed, validity, box, uidNext, edits, pc, folderKnown, faults>>
        /\ UNCHANGED <<hasCp, cpValidity, highWater, known, baseline, created, twice, moved>>
    BY <1>3 DEF vars, server, checkpoint, feed
  <2>2. Known' = Known /\ Accounted' = Accounted /\ Present' = Present /\ Pending' = Pending
    BY <1>3, <2>1 DEF vars, pass, Known, Accounted, Present, Pending, ToReport
  <2>3. TypeOK'
    BY <1>3, <2>1 DEF vars, pass, StableInv, TypeOK, ToReport
  <2> QED
    BY <2>1, <2>2, <2>3, FutureStep
       DEF StableInv, FeedInv, PassInv, PresentInv, AccountedInv, MarkInv, KnownInv, MovedInv,
           PendingInv, Tracked, NoReplay, AtMostOnce
<1> QED
  BY <1>2, <1>3

\* The invariant holds in every stable behaviour.
LEMMA StableInvAlways == StableSpec => []StableInv
  BY StableInvInit, StableInvInductive, PTL DEF StableSpec

\* A message that was there when the folder was primed is never announced,
\* and no message is announced twice.
THEOREM WatcherNoReplay == StableSpec => [](NoReplay /\ AtMostOnce)
<1>1. StableInv => NoReplay /\ AtMostOnce
  BY DEF StableInv, FeedInv
<1> QED
  BY <1>1, StableInvAlways, PTL

\* A pass that forgets what it has recorded would announce a message again.
COROLLARY WatcherAnnouncesOnce == StableSpec => []AtMostOnce
BY WatcherNoReplay, PTL

\* The mark of a folder that answers is a UID of the generation that the
\* checkpoint names, whatever was reset between passes.
COROLLARY WatcherMarkOfGeneration == StableSpec => []HighWaterOfGeneration
<1>1. StableInv => HighWaterOfGeneration
  BY DEF StableInv, FeedInv, MarkInv, HighWaterOfGeneration
<1> QED
  BY <1>1, StableInvAlways, PTL

\* No message below the high-water mark escapes the watcher.
THEOREM WatcherTracks == StableSpec => []Tracked
<1>1. StableInv => Tracked
  BY DEF StableInv, FeedInv
<1> QED
  BY <1>1, StableInvAlways, PTL

\* What is announced exists under the UIDVALIDITY it is announced with, and
\* what is reported gone is gone.
THEOREM WatcherReportsTruly == StableSpec => [](NamesRealMessage /\ NoFalseMove)
<1>1. StableInv => NamesRealMessage
  <2>1. SUFFICES ASSUME StableInv, NEW v \in 0..MaxValidity, NEW u \in Uid, <<v, u>> \in created
                 PROVE  v \in Validity /\ u < uidNext[v]
    BY DEF NamesRealMessage
  <2>2. hasCp /\ v \in 1..cpValidity /\ u < uidNext[v]
    BY <2>1 DEF StableInv, FeedInv, AccountedInv, Accounted
  <2> QED
    BY <2>2 DEF StableInv, TypeOK, Validity
<1>2. StableInv => NoFalseMove
  <2>1. SUFFICES ASSUME StableInv, NEW u \in Present, <<validity, u>> \in moved PROVE FALSE
    BY DEF NoFalseMove
  <2>2. u \in Uid /\ validity \in 0..MaxValidity
    BY <2>1 DEF StableInv, TypeOK, Validity, Present
  <2> QED
    BY <2>1, <2>2 DEF StableInv, FeedInv, MovedInv
<1> QED
  BY <1>1, <1>2, StableInvAlways, PTL

\* The pair of UIDVALIDITY and UID an arrival is announced under is one that
\* the server has given to a message.
COROLLARY WatcherNamesMessages == StableSpec => []NamesRealMessage
BY WatcherReportsTruly, PTL

-----------------------------------------------------------------------------
(* The watcher on a stable source implements the folder feed.              *)

\* The server's steps change the folder: what they add has never been in it.
LEMMA ServerChangesFolder ==
    ASSUME StableInv, StableInv', QuietServer \/ (pc \in {"new", "idle"} /\ Reset)
    PROVE  Feed!FolderChanges
<1> USE DEF StableInv, FeedInv
<1>1. UNCHANGED <<baseline, created, moved>>
  BY DEF QuietServer, Reset, Arrive, SetFlags, Expunge, ResetUidvalidity, Untouched, feed
<1>2. /\ validity \in Validity /\ validity' \in Validity /\ Present' \in SUBSET Uid
      /\ uidNext \in [Validity -> 1..(MaxUid + 1)] /\ MaxUid \in Int /\ MaxValidity \in Int
  BY WatcherAssumption DEF TypeOK, Present
<1>3. CASE \E f \in FlagSets : Arrive(f)
  <2> DEFINE new == uidNext[validity]
  <2>0. PICK f \in FlagSets : Arrive(f)
    BY <1>3
  <2>1. /\ validity' = validity /\ new \in Uid /\ Present' = Present \cup {new}
        /\ uidNext' = [uidNext EXCEPT ![validity] = new + 1]
    <3>1. new \in Uid /\ f # NoMsg /\ box \in [Uid -> FlagSets \cup {NoMsg}]
      BY <1>2, <2>0, WatcherAssumption DEF Arrive, TypeOK, Uid
    <3> QED
      BY <2>0, <3>1 DEF Arrive, Present
  <2>2. Been' = Been \cup {<<validity, new>>}
    <3>1. ASSUME NEW v \in Validity, NEW u \in Uid
          PROVE  u < uidNext'[v] <=> u < uidNext[v] \/ (v = validity /\ u = new)
      BY <1>2, <2>1 DEF Uid
    <3> QED
      BY <1>2, <2>1, <3>1 DEF Been, Message
  <2>3. \A u \in Present : <<validity, u>> \in Been
    BY <1>2 DEF PresentInv, Been, Message, Present
  <2>4. <<validity, new>> \notin Been
    BY <1>2, <2>1 DEF Been, Message, Uid
  <2>5. Been' = Been \cup ({validity'} \X Present')
    BY <2>1, <2>2, <2>3
  <2> QED
    BY <1>1, <1>2, <2>1, <2>4, <2>5 DEF Feed!FolderChanges, Validity
<1>4. CASE (\E u \in Uid, f \in FlagSets : SetFlags(u, f)) \/ (\E u \in Uid : Expunge(u))
  <2>1. validity' = validity /\ uidNext' = uidNext /\ Present' \subseteq Present
    BY <1>4 DEF SetFlags, Expunge, TypeOK, Present
  <2>2. Been' = Been /\ \A u \in Present : <<validity, u>> \in Been
    BY <1>2, <2>1 DEF PresentInv, Been, Message, Present
  <2>3. Been' = Been \cup ({validity'} \X Present')
    BY <2>1, <2>2
  <2> QED
    BY <1>1, <1>2, <2>1, <2>3 DEF Feed!FolderChanges, Validity
<1>5. CASE pc \in {"new", "idle"} /\ Reset
  <2>1. PICK n \in 0..MaxUid : ResetUidvalidity(n)
    BY <1>5 DEF Reset
  <2>2. /\ validity' = validity + 1 /\ Present' = 1..n /\ NoFlags # NoMsg
        /\ uidNext' = [uidNext EXCEPT ![validity'] = n + 1]
    BY <1>2, <2>1, WatcherAssumption DEF ResetUidvalidity, Present, Uid
  <2>3. uidNext[validity'] = 1
    BY <1>2, <2>2 DEF FutureInv, Validity
  <2>4. \A u \in Uid : <<validity', u>> \notin Been
    BY <2>3 DEF Been, Uid
  <2>5. Been' = Been \cup ({validity'} \X Present')
    <3>1. ASSUME NEW v \in Validity, NEW u \in Uid
          PROVE  u < uidNext'[v] <=> u < uidNext[v] \/ (v = validity' /\ u \in Present')
      BY <1>2, <2>2, <2>3 DEF Uid
    <3> QED
      BY <1>2, <3>1 DEF Been, Message
  <2> QED
    BY <1>1, <1>2, <2>2, <2>4, <2>5 DEF Feed!FolderChanges, Validity
<1> QED
  BY <1>3, <1>4, <1>5 DEF QuietServer

\* A step of the watcher is a step of the feed: a prime, an announcement, a
\* withdrawal, or nothing the feed can see.
LEMMA WatcherSpeaksTruly ==
    ASSUME StableInv, Watcher
    PROVE  [Feed!Next]_Feed!feedVars
<1> USE DEF StableInv, FeedInv, server, checkpoint, feed
<1> USE DEF Feed!feedVars, Feed!Current, Feed!Accounted, Accounted
<1>1. listed = TRUE /\ pc # "checkpoint"
  BY DEF PassInv
<1>2. UNCHANGED <<validity, box>> /\ Present' = Present /\ Been' = Been
  BY DEF Watcher, PrimeStart, PrimeValidity, PrimeLive, PrimeFlags, PrimeFolders, ListFolders,
     MessageCount, Checkpoint, CheckValidity, SearchNew, Fetch, EmitNew, FlagSnapshot, LiveUids,
     Present, Been
<1>3. CASE PrimeLive(Present)
  <2>1. /\ cpValidity = validity /\ validity \in Validity /\ pc = "primeLive"
        /\ baseline' = baseline \cup ({validity} \X Present) /\ UNCHANGED <<created, moved>>
    BY <1>3 DEF PrimeLive, PassInv, PrimePcs, TypeOK
  <2>2. \A u \in Uid : <<validity, u>> \notin created
    BY <2>1 DEF AccountedInv, Validity
  <2>3. Feed!Prime
    BY <1>2, <2>1, <2>2 DEF Feed!Prime
  <2> QED
    BY <2>3 DEF Feed!Next
<1>4. CASE EmitNew
  <2>1. PICK u \in Uid :
          /\ u < uidNext[validity] /\ <<validity, u>> \notin Accounted
          /\ created' = created \cup {<<validity, u>>}
    BY <1>4, EmitIsFresh
  <2>2. UNCHANGED <<baseline, moved>> /\ validity \in Validity
    BY <1>4, EmitIsFresh
  <2>3. <<validity, u>> \in Been
    BY <2>1, <2>2 DEF Been, Message
  <2>4. Feed!Announce(u)
    BY <1>2, <2>1, <2>2, <2>3 DEF Feed!Announce
  <2> QED
    BY <2>4 DEF Feed!Next
<1>5. CASE LiveUids(Present)
  <2> DEFINE gone == Known \ Present
  <2>1. cpValidity = validity /\ moved' = moved \cup ({validity} \X gone) /\ UNCHANGED <<baseline, created>>
    BY <1>5 DEF LiveUids, ReportMoved, PassInv
  <2>2. \A u \in gone : <<validity, u>> \in Accounted /\ u \notin Present
    BY <2>1 DEF KnownInv
  <2>3. \A u \in gone : <<validity, u>> \notin moved
    <3>1. ASSUME NEW u \in gone PROVE <<validity, u>> \notin moved
      <4>1. u \in Uid /\ validity \in 0..MaxValidity
        BY DEF TypeOK, Validity, Known
      <4> QED
        BY <2>1, <4>1 DEF MovedInv
    <3> QED
      BY <3>1
  <2>4. gone \in SUBSET Uid
    BY DEF Known
  <2>5. Feed!Withdraw(gone)
    BY <1>2, <2>1, <2>2, <2>3 DEF Feed!Withdraw
  <2> QED
    BY <2>4, <2>5 DEF Feed!Next
<1>6. CASE ~(PrimeLive(Present) \/ EmitNew \/ LiveUids(Present))
  <2>1. UNCHANGED <<baseline, created, moved>>
    BY <1>6 DEF Watcher, PrimeStart, PrimeValidity, PrimeFlags, PrimeFolders, ListFolders,
       MessageCount, Checkpoint, CheckValidity, SearchNew, Fetch, FlagSnapshot
  <2> QED
    BY <1>2, <2>1
<1> QED
  BY <1>3, <1>4, <1>5, <1>6

\* Every behaviour of the watcher on a stable source is one of the feed.
THEOREM WatcherImplementsFeed == StableSpec => FeedSpec
<1>1. Init => Feed!Init
  <2> SUFFICES ASSUME Init PROVE Feed!Init
    OBVIOUS
  <2>1. PICK n \in 0..MaxUid : \E f \in FlagSets :
           /\ box = [u \in Uid |-> IF u <= n THEN f ELSE NoMsg]
           /\ uidNext = [v \in Validity |-> IF v = 1 THEN n + 1 ELSE 1]
    BY DEF Init
  <2>2. validity = 1 /\ 1 \in Validity /\ Present \in SUBSET Uid /\ \A u \in Uid : u \in Int /\ 1 <= u
    BY WatcherAssumption DEF Init, Validity, Present, Uid
  <2>3. \A u \in Uid : u \in Present <=> u < n + 1
    BY <2>1, <2>2, WatcherAssumption DEF Present
  <2>4. Been = {1} \X Present
    <3>1. \A v \in Validity, u \in Uid : u < uidNext[v] <=> v = 1 /\ u \in Present
      BY <2>1, <2>2, <2>3
    <3> QED
      BY <2>2, <3>1 DEF Been, Message
  <2> QED
    BY <2>2, <2>4 DEF Init, Feed!Init, Feed!Current
<1>2. StableInv /\ StableInv' /\ [StableNext]_vars => [Feed!Next]_Feed!feedVars
  <2>1. SUFFICES ASSUME StableInv, StableInv', [StableNext]_vars
                 PROVE  [Feed!Next]_Feed!feedVars
    OBVIOUS
  <2>2. CASE Watcher
    BY <2>1, <2>2, WatcherSpeaksTruly
  <2>3. CASE QuietServer \/ (pc \in {"new", "idle"} /\ Reset)
    BY <2>1, <2>3, ServerChangesFolder DEF Feed!Next
  <2>4. CASE UNCHANGED vars
    BY <2>4 DEF vars, server, feed, Feed!feedVars, Present, Been
  <2> QED
    BY <2>1, <2>2, <2>3, <2>4 DEF StableNext
<1> QED
  BY <1>1, <1>2, StableInvAlways, PTL DEF StableSpec, FeedSpec, Feed!Spec
-----------------------------------------------------------------------------
(* The mark and the generation, with resets, renames and faults anywhere.  *)
(* There are two ways only for a mark to be taken for one of a generation  *)
(* it does not belong to: the checkpoint has lost its UIDVALIDITY, or      *)
(* prime() is called again on the checkpoint it left behind when it raised.*)

\* Neither of the two has happened.
Identified == hasCp => cpValidity # 0 /\ pc # "new"

MarkOfGeneration == hasCp /\ cpValidity = validity => highWater < uidNext[validity]

\* What one step of the watcher does to the checkpoint's UIDVALIDITY and mark;
\* v is the UIDVALIDITY it was told.
Fresh(v) == highWater' = 0 /\ cpValidity' = v
Again == pc = "new" /\ hasCp /\ UNCHANGED <<hasCp, cpValidity, highWater>>
Named(v) ==
    /\ pc = "primeValidity" /\ pc' = "primeLive" /\ cpValidity' = v
    /\ UNCHANGED <<hasCp, highWater>>
Rises ==
    /\ pc' # "primeValidity" /\ UNCHANGED <<hasCp, cpValidity>>
    /\ highWater' = highWater \/ highWater' \in Present \cup Pending
Dropped == pc' = "idle" /\ ~hasCp' /\ highWater' = 0 /\ cpValidity' = 0
Rebased(v) == v # 0 /\ highWater' = 0 /\ cpValidity' = v /\ UNCHANGED hasCp
Adopted(v) ==
    /\ pc' = "scan" /\ cpValidity = 0 /\ cpValidity' = v
    /\ UNCHANGED <<hasCp, highWater>>

Moves(v) ==
    \/ Fresh(v) \/ Again \/ Named(v) \/ Rises \/ Dropped \/ Rebased(v) \/ Adopted(v)

\* What a pass has before it comes from a search, under the UIDVALIDITY that the
\* checkpoint keeps until the pass is through with it.
Carries == Pending' = {} \/ (UNCHANGED cpValidity /\ Pending' \subseteq Pending \cup Present)

\* Only an exception leads back to prime().
LEMMA AnswersMove ==
    ASSUME FaultInv, NEW v \in {0, validity}, NEW here \in BOOLEAN, NEW n,
           NEW live \in SUBSET Present, NEW batch \in SUBSET Present,
           NEW answered, NEW answer \in [Uid -> FlagSets],
           \/ PrimeStart(v) \/ PrimeValidity(v) \/ PrimeLive(live)
           \/ PrimeFlags(answered) \/ PrimeFolders(here)
           \/ ListFolders(here) \/ MessageCount(n) \/ Checkpoint(v) \/ CheckValidity(v)
           \/ SearchNew(batch) \/ Fetch(answer) \/ EmitNew
           \/ FlagSnapshot(answered) \/ LiveUids(live)
    PROVE  UNCHANGED server /\ pc' # "new" /\ Moves(v) /\ Carries
<1>0. Carries
  <2>1. CASE SearchNew(batch)
    <3>1. Pending' = batch
      BY <2>1, SearchPass DEF Present
    <3> QED
      BY <2>1, <3>1 DEF SearchNew, checkpoint, Carries
  <2>2. CASE Fetch(answer)
    BY <2>2, FetchPass DEF Fetch, checkpoint, Carries
  <2>3. CASE EmitNew
    BY <2>3, EmitPass DEF EmitNew, Carries
  <2>4. CASE ~(SearchNew(batch) \/ Fetch(answer) \/ EmitNew)
    <3>1. Pending' = {}
      BY <2>4, PassIdle, Zenon
    <3> QED
      BY <3>1 DEF Carries
  <2> QED
    BY <2>1, <2>2, <2>3, <2>4
<1> SUFFICES UNCHANGED server /\ pc' # "new" /\ Moves(v)
  BY <1>0
<1> USE DEF Moves, checkpoint
<1>1. CASE PrimeStart(v)
  BY <1>1 DEF PrimeStart, NewCheckpoint, Fresh, Again
<1>2. CASE PrimeValidity(v)
  BY <1>2 DEF PrimeValidity, Named
<1>3. CASE PrimeLive(live)
  <2>1. highWater' \in live \cup {highWater}
    BY <1>3 DEF PrimeLive, IsMax
  <2> QED
    BY <1>3, <2>1 DEF PrimeLive, Rises
<1>4. CASE PrimeFlags(answered) \/ PrimeFolders(here) \/ MessageCount(n)
  BY <1>4 DEF PrimeFlags, PrimeFolders, MessageCount, Rises
<1>5. CASE ListFolders(here)
  BY <1>5 DEF ListFolders, Dropped, Rises
<1>6. CASE Checkpoint(v)
  BY <1>6 DEF Checkpoint, NewCheckpoint, Fresh
<1>7. CASE CheckValidity(v)
  BY <1>7 DEF CheckValidity, Rebased, Adopted, Rises
<1>8. CASE SearchNew(batch) \/ Fetch(answer)
  BY <1>8 DEF SearchNew, Fetch, Rises
<1>9. CASE EmitNew
  <2>1. PICK u \in Uid :
          /\ u \in ToReport
          /\ IF u \in Known THEN UNCHANGED <<known, highWater, feed>>
             ELSE ReportCreated(u) /\ RecordArrival(u)
    BY <1>9, EmitPass
  <2>2. highWater' = highWater \/ highWater' = u
    BY <2>1, RecordArrivalPart
  <2>3. u \in Pending
    BY <2>1 DEF Pending
  <2> QED
    BY <1>9, <2>2, <2>3 DEF EmitNew, Rises
<1>10. CASE FlagSnapshot(answered) \/ LiveUids(live)
  BY <1>10 DEF FlagSnapshot, LiveUids, Rises
<1> QED
  BY <1>1, <1>2, <1>3, <1>4, <1>5, <1>6, <1>7, <1>8, <1>9, <1>10

\* Exceptions leave the checkpoint alone, and drop what the pass had before it.
LEMMA ExceptionsMove ==
    ASSUME FaultInv, Abandon \/ ArrivalRaises \/ FlagChangeRaises \/ MoveRaises
    PROVE  UNCHANGED server /\ Rises /\ Carries
<1>1. Pending' = {}
  BY PassIdle
<1> QED
  BY <1>1 DEF Abandon, ArrivalRaises, FlagChangeRaises, MoveRaises, Rises, Carries, checkpoint

\* With the folder there and no fault, the watcher is told its UIDVALIDITY and
\* does not go back to prime(); with the folder away it is told none.
LEMMA WatcherMoves ==
    ASSUME FaultInv, Watcher \/ SelectFails \/ Fault
    PROVE  /\ UNCHANGED server
           /\ \E v \in {0, validity} :
                 /\ Moves(v) /\ (~listed => v = 0)
                 /\ listed /\ UNCHANGED faults => v = validity /\ pc' # "new"
           /\ Carries
<1>1. CASE Watcher
  <2>1. AnswerValidity \in {0, validity} /\ AnswerValidity = IF listed THEN validity ELSE 0
    BY DEF AnswerValidity
  <2>2. Batch \in SUBSET Present /\ Present \in SUBSET Present /\ listed \in BOOLEAN
    BY DEF Batch, Lowest, FaultInv, TypeOK
  <2>3. UNCHANGED server /\ pc' # "new" /\ Moves(AnswerValidity) /\ Carries
    BY <1>1, <2>1, <2>2, AnswersInRange, AnswersMove, Zenon DEF Watcher
  <2> QED
    BY <2>1, <2>3
<1>2. CASE SelectFails
  <2>1. ~listed
    BY <1>2 DEF SelectFails, SelectOK
  <2> QED
    BY <1>2, <2>1, ExceptionsMove DEF SelectFails, Moves
<1>3. CASE Fault
  <2>1. faults' # faults
    BY <1>3 DEF Fault, FaultInv, TypeOK
  <2>2. CASE EmptyAnswer
    <3>1. UNCHANGED server /\ Moves(0) /\ Carries
      BY <2>2, AnswersInRange, AnswersMove DEF EmptyAnswer
    <3> QED
      BY <2>1, <3>1
  <2>3. CASE ~EmptyAnswer
    <3>1. UNCHANGED server /\ Moves(0) /\ Carries
      BY <1>3, <2>3, ExceptionsMove DEF Fault, SourceRaises, Moves
    <3> QED
      BY <2>1, <3>1
  <2> QED
    BY <2>2, <2>3
<1> QED
  BY <1>1, <1>2, <1>3

\* A UID in the folder is below UIDNEXT, and a checkpoint never names a
\* generation that has not come yet, whatever happens; nor is a UID that a pass
\* has before it above UIDNEXT, unless there was a reset since the search.
PendingBehind ==
    validity \in {1, cpValidity} => \A p \in Pending : p < uidNext[validity]

InFolder == PresentInv /\ cpValidity <= validity
Behind == InFolder /\ PendingBehind

LEMMA BehindServer ==
    ASSUME FaultInv, Behind, QuietServer \/ Reset \/ Rename
    PROVE  /\ Behind'
           /\ UNCHANGED <<pc, hasCp, cpValidity, highWater, faults>>
           /\ validity' \in Validity /\ validity' >= validity
           /\ validity' = validity => uidNext[validity] <= uidNext'[validity]
<1> USE WatcherAssumption DEF Untouched, checkpoint
<1>0. /\ validity \in Validity /\ uidNext \in [Validity -> 1..(MaxUid + 1)]
      /\ box \in [Uid -> FlagSets \cup {NoMsg}] /\ cpValidity \in 0..MaxValidity
  BY DEF FaultInv, TypeOK
<1> USE DEF InFolder, Behind, PresentInv
<1>1. ASSUME NEW f \in FlagSets, Arrive(f)
      PROVE  /\ InFolder' /\ UNCHANGED <<pc, hasCp, cpValidity, highWater, faults, validity, listed>>
             /\ uidNext[validity] <= uidNext'[validity]
  <2>1. /\ uidNext' = [uidNext EXCEPT ![validity] = @ + 1] /\ validity' = validity
        /\ box' = [box EXCEPT ![uidNext[validity]] = f]
        /\ UNCHANGED <<pc, hasCp, cpValidity, highWater, faults, listed>>
    BY <1>1 DEF Arrive
  <2>2. uidNext'[validity] = uidNext[validity] + 1 /\ uidNext[validity] \in Int
    BY <1>0, <2>1
  <2>3. Present' \subseteq Present \cup {uidNext[validity]}
    BY <1>0, <2>1 DEF Present
  <2>4. \A u \in Present : u \in Int
    BY DEF Present, Uid
  <2> QED
    BY <2>1, <2>2, <2>3, <2>4
<1>2. ASSUME NEW u \in Uid, Expunge(u) \/ \E f \in FlagSets : SetFlags(u, f)
      PROVE  /\ InFolder'
             /\ UNCHANGED <<pc, hasCp, cpValidity, highWater, faults, validity, listed, uidNext>>
  <2>1. Present' \subseteq Present
    BY <1>0, <1>2 DEF Expunge, SetFlags, Present
  <2> QED
    BY <1>2, <2>1 DEF Expunge, SetFlags
<1>3. ASSUME NEW n \in 0..MaxUid, ResetUidvalidity(n)
      PROVE  /\ InFolder' /\ UNCHANGED <<pc, hasCp, cpValidity, highWater, faults, listed>>
             /\ validity' \in Validity /\ validity' = validity + 1
  <2>1. /\ validity' = validity + 1 /\ validity < MaxValidity
        /\ uidNext' = [uidNext EXCEPT ![validity + 1] = n + 1]
        /\ box' = [u \in Uid |-> IF u <= n THEN NoFlags ELSE NoMsg]
        /\ UNCHANGED <<pc, hasCp, cpValidity, highWater, faults, listed>>
    BY <1>3 DEF ResetUidvalidity
  <2>2. validity' \in Validity /\ uidNext'[validity'] = n + 1
    BY <1>0, <2>1 DEF Validity
  <2>3. \A u \in Present' : u \in Int /\ u <= n
    BY <2>1 DEF Present, Uid
  <2> QED
    BY <1>0, <2>1, <2>2, <2>3 DEF Validity
<1>4. ASSUME Rename
      PROVE  /\ InFolder' /\ UNCHANGED <<pc, hasCp, cpValidity, highWater, faults, validity, uidNext>>
  BY <1>4 DEF Rename, Present
<1>5. /\ InFolder' /\ UNCHANGED <<pc, hasCp, cpValidity, highWater, faults>>
      /\ validity' \in Validity /\ validity' >= validity
      /\ validity' = validity => uidNext[validity] <= uidNext'[validity]
  BY <1>0, <1>1, <1>2, <1>3, <1>4 DEF QuietServer, Reset, Validity
<1>6. Pending' = Pending
  BY DEF QuietServer, Reset, Rename, Arrive, SetFlags, Expunge, ResetUidvalidity, pass, Pending,
     ToReport
<1>7. PendingBehind'
  <2>1. ASSUME validity' \in {1, cpValidity'}, NEW p \in Pending PROVE p < uidNext'[validity']
    <3>1. validity' = validity
      BY <1>0, <1>5, <2>1 DEF Validity
    <3>2. p < uidNext[validity] /\ p \in Int
      BY <1>5, <2>1, <3>1 DEF PendingBehind, Pending, ToReport, FaultInv, TypeOK, Uid
    <3>3. uidNext[validity] \in Int /\ uidNext'[validity] \in Int
      BY <1>0, <3>1, FaultInvServer DEF FaultInv, TypeOK
    <3> QED
      BY <1>5, <3>1, <3>2, <3>3
  <2> QED
    BY <1>6, <2>1 DEF PendingBehind
<1> QED
  BY <1>5, <1>7

LEMMA BehindWatcher ==
    ASSUME FaultInv, Behind, UNCHANGED server, NEW v \in {0, validity}, Moves(v), Carries
    PROVE  Behind'
<1>1. cpValidity' \in {cpValidity, 0, validity} /\ 0 <= validity /\ validity <= validity
  BY DEF Moves, Fresh, Again, Named, Rises, Dropped, Rebased, Adopted, FaultInv, TypeOK, Validity
<1>2. PresentInv'
  BY DEF server, Behind, InFolder, PresentInv, Present
<1>3. PendingBehind'
  BY DEF server, Carries, Behind, InFolder, PresentInv, PendingBehind
<1> QED
  BY <1>1, <1>2, <1>3 DEF Behind, InFolder, server

LEMMA BehindStep == FaultInv /\ Behind /\ [Next]_vars => Behind'
<1>1. FaultInv /\ Behind /\ (QuietServer \/ Reset \/ Rename) => Behind'
  BY BehindServer
<1>2. FaultInv /\ Behind /\ (Watcher \/ SelectFails \/ Fault) => Behind'
  BY WatcherMoves, BehindWatcher
<1>3. Behind /\ UNCHANGED vars => Behind'
  BY DEF vars, server, checkpoint, pass, Behind, InFolder, PresentInv, Present, PendingBehind,
     Pending, ToReport
<1> QED
  BY <1>1, <1>2, <1>3 DEF Next, RacingNext

\* The mark is of the generation the checkpoint names, and about to be told a
\* UIDVALIDITY by prime() it is 0.
MarkTrue == MarkOfGeneration /\ (pc = "primeValidity" => highWater = 0)

LEMMA MarkServer ==
    ASSUME FaultInv, Behind, MarkOfGeneration, QuietServer \/ Reset \/ Rename
    PROVE  MarkOfGeneration'
<1>1. /\ UNCHANGED <<pc, hasCp, cpValidity, highWater>>
      /\ validity' \in Validity /\ validity' >= validity /\ cpValidity <= validity
      /\ validity' = validity => uidNext[validity] <= uidNext'[validity]
  BY BehindServer DEF Behind, InFolder
<1>2. cpValidity \in Int /\ validity \in Int /\ validity' \in Int /\ highWater \in Int
  BY <1>1 DEF FaultInv, TypeOK, Validity
<1>3. uidNext[validity] \in Int /\ uidNext'[validity] \in Int
  <2>1. uidNext \in [Validity -> 1..(MaxUid + 1)] /\ validity \in Validity
    BY DEF FaultInv, TypeOK
  <2>2. uidNext' \in [Validity -> 1..(MaxUid + 1)]
    BY FaultInvServer DEF FaultInv, TypeOK
  <2> QED
    BY <2>1, <2>2, WatcherAssumption
<1>4. CASE validity' = validity
  BY <1>1, <1>2, <1>3, <1>4 DEF MarkOfGeneration
<1>5. CASE validity' # validity
  BY <1>1, <1>2, <1>5 DEF MarkOfGeneration
<1> QED
  BY <1>4, <1>5

\* A step of the watcher, unless it names or adopts for an old mark.
LEMMA MarkWatcher ==
    ASSUME FaultInv, Behind, Identified, MarkTrue,
           UNCHANGED server, NEW v \in {0, validity}, Moves(v)
    PROVE  MarkTrue'
<1>1. /\ validity' = validity /\ uidNext' = uidNext /\ validity \in 1..MaxValidity
      /\ uidNext[validity] \in Int /\ 0 < uidNext[validity] /\ cpValidity \in Int
      /\ \A u \in Present : u < uidNext[validity]
      /\ validity \in {1, cpValidity} => \A u \in Pending : u < uidNext[validity]
  BY WatcherAssumption
     DEF server, FaultInv, TypeOK, Validity, Behind, InFolder, PresentInv, PendingBehind
<1> USE DEF MarkTrue, MarkOfGeneration
<1>2. CASE Fresh(v) \/ Dropped \/ Rebased(v)
  BY <1>1, <1>2 DEF Fresh, Dropped, Rebased
<1>3. CASE Again \/ Adopted(v)
  BY <1>3 DEF Again, Adopted, Identified
<1>4. CASE Named(v)
  BY <1>1, <1>4 DEF Named
<1>5. CASE Rises
  BY <1>1, <1>5 DEF Rises
<1> QED
  BY <1>2, <1>3, <1>4, <1>5 DEF Moves

LEMMA MarkStep ==
    FaultInv /\ Behind /\ MarkTrue /\ Identified /\ [Next]_vars => MarkTrue'
<1>1. FaultInv /\ Behind /\ MarkTrue /\ (QuietServer \/ Reset \/ Rename) => MarkTrue'
  BY MarkServer, BehindServer DEF MarkTrue
<1>2. FaultInv /\ Behind /\ MarkTrue /\ Identified /\ (Watcher \/ SelectFails \/ Fault) => MarkTrue'
  BY WatcherMoves, MarkWatcher
<1>3. MarkTrue /\ UNCHANGED vars => MarkTrue'
  BY DEF vars, server, checkpoint, MarkTrue, MarkOfGeneration
<1> QED
  BY <1>1, <1>2, <1>3 DEF Next, RacingNext

LEMMA MarkInit == Init => Behind /\ MarkTrue
<1> SUFFICES ASSUME Init PROVE Behind /\ MarkTrue
  OBVIOUS
<1>1. PICK n \in 0..MaxUid : \E f \in FlagSets :
         /\ box = [u \in Uid |-> IF u <= n THEN f ELSE NoMsg]
         /\ uidNext = [v \in Validity |-> IF v = 1 THEN n + 1 ELSE 1]
  BY DEF Init
<1>2. validity = 1 /\ validity \in Validity /\ uidNext[1] = n + 1 /\ n \in Int
  BY <1>1, WatcherAssumption DEF Init, Validity
<1>3. \A u \in Present : u \in Int /\ u <= n
  BY <1>1, WatcherAssumption DEF Present, Uid
<1>4. Pending = {}
  BY DEF Init, Pending, ToReport, Nothing
<1> QED
  BY <1>2, <1>3, <1>4
     DEF Init, Behind, InFolder, PresentInv, PendingBehind, MarkTrue, MarkOfGeneration

\* As long as no checkpoint has lost its UIDVALIDITY and prime() is not called
\* again on one it left behind, the mark a checkpoint holds under the folder's
\* UIDVALIDITY is one of that generation: resets and renames at any point of a
\* pass, failing commands and exceptions cannot break that.  WatcherMissedReset
\* is the second of the two ways.
THEOREM WatcherStaleMarkCauses ==
    Spec /\ []Identified => []MarkOfGeneration
<1>1. Init => FaultInv /\ Behind /\ MarkTrue
  BY FaultInvInit, MarkInit
<1>2. FaultInv /\ Behind /\ MarkTrue /\ Identified /\ [Next]_vars => (FaultInv /\ Behind /\ MarkTrue)'
  BY FaultInvStep, BehindStep, MarkStep
<1>3. MarkTrue => MarkOfGeneration
  BY DEF MarkTrue
<1> QED
  BY <1>1, <1>2, <1>3, PTL DEF Spec

\* The folder may go at any moment, and then stays away.
NeverBack == [][listed' => listed]_listed

\* While there was one generation only, the mark is of it; without a fault it
\* always is, because as long as the folder is there neither of the two ways
\* opens.
HomeInv ==
    /\ validity = 1 => highWater < uidNext[validity]
    /\ faults = 0 => MarkOfGeneration
    /\ faults = 0 /\ listed => Identified /\ MarkTrue

LEMMA HomeServer ==
    ASSUME FaultInv, Behind, HomeInv, listed' => listed, QuietServer \/ Reset \/ Rename
    PROVE  HomeInv'
<1>1. /\ UNCHANGED <<pc, hasCp, cpValidity, highWater, faults>>
      /\ validity' \in Validity /\ validity' >= validity
      /\ validity' = validity => uidNext[validity] <= uidNext'[validity]
  BY BehindServer
<1>2. validity' = 1 => highWater' < uidNext'[validity']
  <2>1. /\ uidNext \in [Validity -> 1..(MaxUid + 1)] /\ validity \in Validity
        /\ uidNext' \in [Validity -> 1..(MaxUid + 1)] /\ highWater \in Int
    BY FaultInvServer DEF FaultInv, TypeOK
  <2>2. SUFFICES ASSUME validity' = 1 PROVE highWater < uidNext'[1]
    BY <1>1
  <2>3. validity = 1
    BY <1>1, <2>1, <2>2 DEF Validity
  <2>4. uidNext[1] \in Int /\ uidNext'[1] \in Int
    BY <2>1, <2>3, WatcherAssumption
  <2> QED
    BY <1>1, <2>1, <2>2, <2>3, <2>4 DEF HomeInv
<1>3. faults' = 0 => MarkOfGeneration'
  BY <1>1, MarkServer DEF HomeInv
<1>4. faults' = 0 /\ listed' => Identified' /\ MarkTrue'
  BY <1>1, <1>3 DEF HomeInv, Identified, MarkTrue
<1> QED
  BY <1>2, <1>3, <1>4 DEF HomeInv

LEMMA HomeWatcher ==
    ASSUME FaultInv, Behind, HomeInv, Watcher \/ SelectFails \/ Fault
    PROVE  HomeInv'
<1>1. PICK v \in {0, validity} :
         /\ Moves(v) /\ (~listed => v = 0)
         /\ listed /\ UNCHANGED faults => v = validity /\ pc' # "new"
  BY WatcherMoves
<1>2. /\ UNCHANGED server /\ validity' = validity /\ uidNext' = uidNext /\ listed' = listed
      /\ validity # 0 /\ uidNext[validity] \in Int /\ 0 < uidNext[validity]
      /\ \A u \in Present : u < uidNext[validity]
      /\ validity \in {1, cpValidity} => \A u \in Pending : u < uidNext[validity]
  BY WatcherMoves, WatcherAssumption
     DEF server, FaultInv, TypeOK, Validity, Behind, InFolder, PresentInv, PendingBehind
<1>3. faults' = 0 => faults = 0 /\ UNCHANGED faults
  BY DEF Watcher, SelectFails, Fault, FaultInv, TypeOK
<1>4. validity' = 1 => highWater' < uidNext'[validity']
  BY <1>1, <1>2
     DEF HomeInv, Moves, Fresh, Again, Named, Rises, Dropped, Rebased, Adopted
<1>5. CASE listed
  <2>1. ASSUME faults' = 0 PROVE MarkTrue' /\ Identified'
    <3>1. Identified /\ MarkTrue /\ v = validity /\ pc' # "new"
      BY <1>1, <1>3, <1>5, <2>1 DEF HomeInv
    <3>2. MarkTrue'
      BY <1>1, <1>2, <3>1, MarkWatcher
    <3>3. Identified'
      BY <1>1, <1>2, <3>1
         DEF Identified, Moves, Fresh, Again, Named, Rises, Dropped, Rebased, Adopted
    <3> QED
      BY <3>2, <3>3
  <2> QED
    BY <1>4, <2>1 DEF HomeInv, MarkTrue
<1>6. CASE ~listed
  <2>1. ASSUME faults' = 0 PROVE MarkOfGeneration'
    BY <1>1, <1>2, <1>3, <1>6, <2>1
       DEF HomeInv, MarkOfGeneration, Moves, Fresh, Again, Named, Rises, Dropped, Rebased, Adopted
  <2> QED
    BY <1>2, <1>4, <1>6, <2>1 DEF HomeInv
<1> QED
  BY <1>5, <1>6

\* A folder that never comes back after it was renamed away or deleted: its mark
\* is of the generation its checkpoint names, with resets at any point of a
\* pass, any number of messages and flag changes, and with failing commands
\* until the first reset.
THEOREM WatcherMarkFaults ==
    Spec /\ NeverBack => []HighWaterOfGeneration
<1>1. Init => FaultInv /\ Behind /\ HomeInv
  <2>1. Init => FaultInv /\ Behind /\ MarkTrue
    BY FaultInvInit, MarkInit
  <2>2. ASSUME Init PROVE HomeInv
    <3>1. validity = 1 /\ highWater = 0 /\ ~hasCp /\ 0 < uidNext[1]
      BY <2>2, WatcherAssumption DEF Init, Validity
    <3> QED
      BY <2>1, <2>2, <3>1 DEF HomeInv, Identified, MarkOfGeneration
  <2> QED
    BY <2>1, <2>2
<1>2. FaultInv /\ Behind /\ HomeInv /\ [Next]_vars /\ [listed' => listed]_listed
        => (FaultInv /\ Behind /\ HomeInv)'
  <2>1. FaultInv /\ Behind /\ HomeInv /\ Next /\ (listed' => listed) => HomeInv'
    BY HomeServer, HomeWatcher DEF Next, RacingNext
  <2>2. HomeInv /\ UNCHANGED vars => HomeInv'
    BY DEF vars, server, checkpoint, HomeInv, Identified, MarkTrue, MarkOfGeneration
  <2> QED
    BY <2>1, <2>2, FaultInvStep, BehindStep
<1>3. HomeInv => HighWaterOfGeneration
  BY DEF HomeInv, MarkOfGeneration, HighWaterOfGeneration, ValidityKnown
<1> QED
  BY <1>1, <1>2, <1>3, PTL DEF Spec, NeverBack
=============================================================================
