--------------------------- MODULE MailboxWatcher ---------------------------
(***************************************************************************)
(* The mailbox watcher of imap_hub_core/change_stream/mailbox_watcher.py:  *)
(* prime() and scan_once() of one MailboxWatcher on one folder, against an *)
(* IMAP server that other clients keep changing.  A pass is not atomic: it *)
(* asks its MailboxSource questions, each one a command to the server, and *)
(* the mailbox may change between any two of them.  A step of the watcher  *)
(* is one command with the local work that follows its answer, up to the   *)
(* next command; but each arrival is reported in a step of its own.        *)
(***************************************************************************)
EXTENDS Integers, FiniteSets

CONSTANTS
    MaxUid,         \* bound: UIDs are assigned from 1 to MaxUid
    MaxValidity,    \* bound: UIDVALIDITY takes the values 1 to MaxValidity
    FlagSets,       \* the flag sets a message may carry
    NoFlags,        \* the empty flag set, ()
    NoMsg,          \* no message with this UID, or a UID the watcher does not track
    MaxNew,         \* max_new_per_scan
    SizeGuard,      \* mailbox_size_guard
    SnapshotLimit,  \* _flag_snapshot_limit()
    MaxEdits,       \* bound: flag changes and folder renames by other clients
    MaxFaults       \* bound: source calls that fail

ASSUME WatcherAssumption ==
    /\ MaxUid \in Nat /\ MaxValidity \in Nat \ {0}
    /\ MaxNew \in Nat \ {0} /\ SizeGuard \in Nat \ {0} /\ SnapshotLimit \in Nat \ {0}
    /\ MaxEdits \in Nat /\ MaxFaults \in Nat
    /\ NoFlags \in FlagSets /\ NoMsg \notin FlagSets

VARIABLES
    listed,         \* server: the folder is in the LIST response
    validity,       \* server: the folder's UIDVALIDITY
    box,            \* server: the flags of each message in the folder
    uidNext,        \* server: UIDNEXT of each UIDVALIDITY generation
    edits,          \* bookkeeping of the bound MaxEdits
    pc,             \* watcher: the question it asks next
    folderKnown,    \* watcher: folder \in self._known_folders
    hasCp,          \* watcher: folder \in self._checkpoints
    cpValidity,     \* checkpoint: uidvalidity, 0 for ""
    highWater,      \* checkpoint: uid_high_water
    known,          \* checkpoint: known, NoMsg for a UID without an entry
    found,          \* scan(): the UIDs of the answer that are still to be fetched
    fetched,        \* the flags of the arrivals still to be reported, or NoMsg
    baseline,       \* history: messages present when the folder was primed
    created,        \* history: (uidvalidity, uid) reported "created"
    twice,          \* history: (uidvalidity, uid) reported "created" again
    moved,          \* history: (uidvalidity, uid) reported "moved"
    faults          \* bookkeeping of the bound MaxFaults

server == <<listed, validity, box, uidNext, edits>>
checkpoint == <<hasCp, cpValidity, highWater, known>>
pass == <<found, fetched>>
feed == <<created, twice, moved>>
vars == <<server, pc, folderKnown, checkpoint, pass, baseline, feed, faults>>

Uid == 1..MaxUid
Validity == 1..MaxValidity
Message == Validity \X Uid

Present == {u \in Uid : box[u] # NoMsg}
Known == {u \in Uid : known[u] # NoMsg}
Nothing == [u \in Uid |-> NoMsg]

\* The n lowest, and the n highest, members of a set of UIDs.
Lowest(S, n) == {u \in S : Cardinality({w \in S : w < u}) < n}
Highest(S, n) == {u \in S : Cardinality({w \in S : w > u}) < n}
IsMax(m, S) == m \in S /\ \A x \in S : x <= m
IsMin(m, S) == m \in S /\ \A x \in S : m <= x

PrimePcs == {"primeValidity", "primeLive", "primeFlags", "primeFolders"}
ScanPcs == {"count", "checkpoint", "validity", "scan", "fetch", "flags", "live"}

Init ==
    /\ listed = TRUE /\ validity = 1 /\ edits = 0
    /\ \E n \in 0..MaxUid, f \in FlagSets :
          /\ box = [u \in Uid |-> IF u <= n THEN f ELSE NoMsg]
          /\ uidNext = [v \in Validity |-> IF v = 1 THEN n + 1 ELSE 1]
    /\ pc = "new" /\ folderKnown = FALSE
    /\ hasCp = FALSE /\ cpValidity = 0 /\ highWater = 0 /\ known = Nothing
    /\ found = {} /\ fetched = Nothing
    /\ baseline = {} /\ created = {} /\ twice = {} /\ moved = {}
    /\ faults = 0

-----------------------------------------------------------------------------
(* The server, and the other clients of the mailbox.                       *)

Untouched == UNCHANGED <<pc, folderKnown, checkpoint, pass, baseline, feed, faults>>

Arrive(f) ==
    /\ listed /\ uidNext[validity] <= MaxUid
    /\ box' = [box EXCEPT ![uidNext[validity]] = f]
    /\ uidNext' = [uidNext EXCEPT ![validity] = @ + 1]
    /\ UNCHANGED <<listed, validity, edits>> /\ Untouched

SetFlags(u, f) ==
    /\ listed /\ u \in Present /\ f # box[u] /\ edits < MaxEdits
    /\ box' = [box EXCEPT ![u] = f]
    /\ edits' = edits + 1
    /\ UNCHANGED <<listed, validity, uidNext>> /\ Untouched

Expunge(u) ==
    /\ listed /\ u \in Present
    /\ box' = [box EXCEPT ![u] = NoMsg]
    /\ UNCHANGED <<listed, validity, uidNext, edits>> /\ Untouched

\* A new UIDVALIDITY: the n messages the server keeps are renumbered.  With
\* n = 0 it is also a folder deleted and created again.
ResetUidvalidity(n) ==
    /\ listed /\ validity < MaxValidity /\ n <= Cardinality(Present)
    /\ validity' = validity + 1
    /\ box' = [u \in Uid |-> IF u <= n THEN NoFlags ELSE NoMsg]
    /\ uidNext' = [uidNext EXCEPT ![validity + 1] = n + 1]
    /\ UNCHANGED <<listed, edits>> /\ Untouched

\* The folder is renamed away, or renamed back with its messages.
Rename ==
    /\ edits < MaxEdits
    /\ listed' = ~listed
    /\ edits' = edits + 1
    /\ UNCHANGED <<validity, box, uidNext>> /\ Untouched

-----------------------------------------------------------------------------
(* prime(): the handler of each question, as a function of its answer.     *)

\* Slip: the search for the baseline is bounded like the scan.
PrimeLive_Bounded(live) ==
    /\ listed /\ pc = "primeLive" /\ pc' = "primeFlags"
    /\ LET first == Lowest(live, MaxNew)
       IN  /\ known' = [u \in Uid |-> IF u \in first THEN NoFlags ELSE known[u]]
           /\ \E m \in 0..MaxUid : IsMax(m, first \cup {highWater}) /\ highWater' = m
    /\ baseline' = baseline \cup ({validity} \X Present)
    /\ UNCHANGED <<server, folderKnown, hasCp, cpValidity, pass, feed>>

\* checkpoint(): creates the record when there is none, with UIDVALIDITY v.
NewCheckpoint(v) ==
    /\ hasCp' = TRUE /\ cpValidity' = v
    /\ highWater' = 0 /\ known' = Nothing

PrimeStart(v) ==
    /\ pc = "new" /\ pc' = "primeValidity"
    /\ IF hasCp THEN UNCHANGED checkpoint ELSE NewCheckpoint(v)
    /\ UNCHANGED <<server, folderKnown, pass, baseline, feed>>

PrimeValidity(v) ==
    /\ pc = "primeValidity" /\ pc' = "primeLive"
    /\ cpValidity' = v
    /\ UNCHANGED <<server, folderKnown, hasCp, highWater, known, pass, baseline, feed>>

PrimeLive(live) ==
    /\ listed /\ pc = "primeLive" /\ pc' = "primeFlags"
    /\ known' = [u \in Uid |-> IF u \in live THEN NoFlags ELSE known[u]]
    /\ \E m \in 0..MaxUid : IsMax(m, live \cup {highWater}) /\ highWater' = m
    /\ baseline' = baseline \cup ({validity} \X Present)
    /\ UNCHANGED <<server, folderKnown, hasCp, cpValidity, pass, feed>>

\* flag_snapshot() selects the folder unless it is asked about no UID.
SelectOK == listed \/ Known = {}

PrimeFlags(answered) ==
    /\ SelectOK /\ pc = "primeFlags" /\ pc' = "primeFolders"
    /\ known' = [u \in Uid |-> IF u \in answered THEN box[u] ELSE known[u]]
    /\ UNCHANGED <<server, folderKnown, hasCp, cpValidity, highWater, pass, baseline, feed>>

PrimeFolders(here) ==
    /\ pc = "primeFolders" /\ pc' = "idle"
    /\ folderKnown' = here
    /\ UNCHANGED <<server, checkpoint, pass, baseline, feed>>

-----------------------------------------------------------------------------
(* scan_once(), likewise.                                                  *)

ListFolders(here) ==
    /\ pc = "idle"
    /\ folderKnown' = here
    /\ IF here THEN pc' = "count" /\ UNCHANGED checkpoint
       ELSE /\ UNCHANGED pc
            /\ IF folderKnown  \* reports "deleted" and drops the checkpoint
               THEN /\ hasCp' = FALSE /\ cpValidity' = 0
                    /\ highWater' = 0 /\ known' = Nothing
               ELSE UNCHANGED checkpoint
    /\ UNCHANGED <<server, pass, baseline, feed>>

MessageCount(n) ==
    /\ pc = "count"
    /\ pc' = IF n > SizeGuard THEN "idle" ELSE IF hasCp THEN "validity" ELSE "checkpoint"
    /\ UNCHANGED <<server, folderKnown, checkpoint, pass, baseline, feed>>

Checkpoint(v) ==
    /\ pc = "checkpoint" /\ pc' = "validity"
    /\ NewCheckpoint(v)
    /\ UNCHANGED <<server, folderKnown, pass, baseline, feed>>

\* Slip: a reset is not looked for, or it is and the mark is not lowered.
CheckValidity_NoReset(v) ==
    /\ pc = "validity" /\ pc' = "scan"
    /\ cpValidity' = IF cpValidity = 0 THEN v ELSE cpValidity
    /\ UNCHANGED <<server, folderKnown, hasCp, highWater, known, pass, baseline, feed>>

CheckValidity_KeepsMark(v) ==
    /\ pc = "validity"
    /\ IF cpValidity # 0 /\ v # 0 /\ v # cpValidity
       THEN pc' = "primeValidity" /\ cpValidity' = v /\ known' = Nothing
       ELSE /\ pc' = "scan"
            /\ cpValidity' = IF cpValidity = 0 THEN v ELSE cpValidity
            /\ UNCHANGED known
    /\ UNCHANGED <<server, folderKnown, hasCp, highWater, pass, baseline, feed>>

CheckValidity(v) ==
    /\ pc = "validity"
    /\ IF cpValidity # 0 /\ v # 0 /\ v # cpValidity
       THEN /\ pc' = "primeValidity"  \* reports "metadata_changed", then prime()
            /\ cpValidity' = v /\ highWater' = 0 /\ known' = Nothing
       ELSE /\ pc' = "scan"
            /\ cpValidity' = IF cpValidity = 0 THEN v ELSE cpValidity
            /\ UNCHANGED <<highWater, known>>
    /\ UNCHANGED <<server, folderKnown, hasCp, pass, baseline, feed>>

\* Slips: the newest arrivals are taken first; UID high-water + 1 is skipped.
Batch_NewestFirst == Highest({u \in Present : u > highWater}, MaxNew)
Batch_SkipsOne == Lowest({u \in Present : u > highWater + 1}, MaxNew)

\* scan(folder, uid_high_water, max_new): what the server answers.
Batch == Lowest({u \in Present : u > highWater}, MaxNew)

\* The answer to the SEARCH of scan(): the UIDs it will fetch, one by one.
SearchNew(batch) ==
    /\ listed /\ pc = "scan"
    /\ pc' = IF batch = {} THEN "flags" ELSE "fetch"
    /\ found' = batch
    /\ UNCHANGED <<server, folderKnown, checkpoint, fetched, baseline, feed>>

\* _fetch() of the lowest UID found.  It makes a message of any answer: without
\* flags and headers when the UID is gone, or the FETCH is refused.
Fetch(answer) ==
    /\ pc = "fetch"
    /\ \E u \in found :
          /\ IsMin(u, found)
          /\ found' = found \ {u}
          /\ fetched' = [fetched EXCEPT ![u] = answer[u]]
    /\ pc' = IF found' = {} THEN "emit" ELSE "fetch"
    /\ UNCHANGED <<server, folderKnown, checkpoint, baseline, feed>>

\* The arrivals still to be reported, and the one that is next.
ToReport == {u \in Uid : fetched[u] # NoMsg}
IsNext(u) == pc = "emit" /\ IsMin(u, ToReport)

\* A "created" event.
ReportCreated(u) ==
    /\ created' = created \cup {<<cpValidity, u>>}
    /\ twice' = twice \cup (created \cap {<<cpValidity, u>>})
    /\ UNCHANGED moved

\* Slips: the mark is UIDNEXT, is not advanced, or nothing is recorded.
RecordArrival_UidNext(u) ==
    /\ known' = [known EXCEPT ![u] = fetched[u]]
    /\ \E m \in 0..MaxUid : IsMax(m, {u, highWater}) /\ highWater' = m + 1
RecordArrival_NoMark(u) ==
    /\ known' = [known EXCEPT ![u] = fetched[u]]
    /\ UNCHANGED highWater
RecordArrival_Forgets(u) == UNCHANGED <<known, highWater>>

RecordArrival(u) ==
    /\ known' = [known EXCEPT ![u] = fetched[u]]
    /\ \E m \in 0..MaxUid : IsMax(m, {u, highWater}) /\ highWater' = m

\* One turn of the loop over the arrivals, which skips a UID that is known.
EmitNew ==
    /\ \E u \in Uid :
          /\ IsNext(u)
          /\ IF u \in Known THEN UNCHANGED <<known, highWater, feed>>
             ELSE ReportCreated(u) /\ RecordArrival(u)
          /\ fetched' = [fetched EXCEPT ![u] = NoMsg]
    /\ pc' = IF fetched' = Nothing THEN "flags" ELSE "emit"
    /\ UNCHANGED <<server, folderKnown, hasCp, cpValidity, found, baseline>>


FlagSnapshot(answered) ==
    /\ SelectOK /\ pc = "flags" /\ pc' = "live"
    /\ known' = [u \in Uid |-> IF u \in answered THEN box[u] ELSE known[u]]
    /\ UNCHANGED <<server, folderKnown, hasCp, cpValidity, highWater, pass, baseline, feed>>

\* A "moved" event for each member of S; the UIDs in gone leave the checkpoint.
ReportMoved(S, gone) ==
    /\ moved' = moved \cup ({cpValidity} \X S)
    /\ known' = [u \in Uid |-> IF u \in gone THEN NoMsg ELSE known[u]]
    /\ UNCHANGED <<created, twice>>

\* Slip: the search for live UIDs is bounded like the scan.
LiveUids_Bounded(live) ==
    /\ listed /\ pc = "live" /\ pc' = "idle"
    /\ LET gone == Known \ Lowest(live, MaxNew) IN ReportMoved(gone, gone)
    /\ UNCHANGED <<server, folderKnown, hasCp, cpValidity, highWater, pass, baseline>>

LiveUids(live) ==
    /\ listed /\ pc = "live" /\ pc' = "idle"
    /\ ReportMoved(Known \ live, Known \ live)
    /\ UNCHANGED <<server, folderKnown, hasCp, cpValidity, highWater, pass, baseline>>

-----------------------------------------------------------------------------
(* The watcher on a source that answers truthfully.                        *)

AnswerValidity == IF listed THEN validity ELSE 0
AnswerCount == IF listed THEN Cardinality(Present) ELSE 0
AnswerFlags == Highest(Known, SnapshotLimit) \cap Present
AnswerFetch == [u \in Uid |-> IF u \in Present THEN box[u] ELSE NoFlags]
NoAnswer == [u \in Uid |-> NoFlags]

Watcher ==
    /\ \/ PrimeStart(AnswerValidity) \/ PrimeValidity(AnswerValidity)
       \/ PrimeLive(Present) \/ PrimeFlags(AnswerFlags) \/ PrimeFolders(listed)
       \/ ListFolders(listed) \/ MessageCount(AnswerCount)
       \/ Checkpoint(AnswerValidity) \/ CheckValidity(AnswerValidity)
       \/ SearchNew(Batch) \/ Fetch(AnswerFetch) \/ EmitNew
       \/ FlagSnapshot(AnswerFlags) \/ LiveUids(Present)
    /\ UNCHANGED faults

\* An exception leaves the pass where it is, and its local lists.  The caller
\* polls again; when prime() raised, it may also call prime() again.
DropPass == found' = {} /\ fetched' = Nothing
Abandon ==
    /\ pc' \in IF pc \in PrimePcs THEN {"idle", "new"} ELSE {"idle"}
    /\ DropPass
    /\ UNCHANGED <<server, folderKnown, checkpoint, baseline, feed>>

\* _select() of a folder that is not there raises.
SelectFails ==
    /\ \/ ~listed /\ pc \in {"primeLive", "scan", "live"}
       \/ ~SelectOK /\ pc \in {"primeFlags", "flags"}
    /\ Abandon /\ UNCHANGED faults

-----------------------------------------------------------------------------
(* The watcher on a source that fails, or a WatchService that raises.      *)

\* A command answered other than OK is read as the empty answer.
EmptyAnswer ==
    \/ PrimeStart(0) \/ PrimeValidity(0) \/ PrimeLive({}) \/ PrimeFlags({})
    \/ PrimeFolders(FALSE) \/ ListFolders(FALSE) \/ MessageCount(0)
    \/ Checkpoint(0) \/ CheckValidity(0)
    \/ SearchNew({}) \/ Fetch(NoAnswer) \/ FlagSnapshot({}) \/ LiveUids({})

\* The client raises before the answer is used.
SourceRaises == pc \in PrimePcs \cup ScanPcs /\ Abandon

\* observe_change() raises on an arrival, after or before a watch got it; the
\* arrivals below it have been recorded.
ArrivalRaises ==
    /\ \E u \in Uid \ Known : IsNext(u) /\ (ReportCreated(u) \/ UNCHANGED feed)
    /\ pc' = "idle" /\ DropPass
    /\ UNCHANGED <<server, folderKnown, checkpoint, baseline>>

FlagChangeRaises ==
    /\ SelectOK /\ pc = "flags" /\ pc' = "idle"
    /\ \E done \in SUBSET AnswerFlags :
          known' = [u \in Uid |-> IF u \in done THEN box[u] ELSE known[u]]
    /\ UNCHANGED <<server, folderKnown, hasCp, cpValidity, highWater, pass, baseline, feed>>

MoveRaises ==
    /\ listed /\ pc = "live" /\ pc' = "idle"
    /\ \E u \in Known \ Present : \E done \in SUBSET ((Known \ Present) \ {u}) :
          ReportMoved(done, done) \/ ReportMoved(done \cup {u}, done)
    /\ UNCHANGED <<server, folderKnown, hasCp, cpValidity, highWater, pass, baseline>>

Fault ==
    /\ faults < MaxFaults /\ faults' = faults + 1
    /\ EmptyAnswer \/ SourceRaises \/ ArrivalRaises \/ FlagChangeRaises \/ MoveRaises

-----------------------------------------------------------------------------
QuietServer ==
    \/ \E f \in FlagSets : Arrive(f)
    \/ \E u \in Uid, f \in FlagSets : SetFlags(u, f)
    \/ \E u \in Uid : Expunge(u)
Reset == \E n \in 0..MaxUid : ResetUidvalidity(n)

\* A source that answers, and UIDVALIDITY resets only between two passes.
StableNext == QuietServer \/ Watcher \/ (pc \in {"new", "idle"} /\ Reset)
StableSpec == Init /\ [][StableNext]_vars

\* A source that answers; resets and renames at any point of a pass.
RacingNext == QuietServer \/ Reset \/ Rename \/ Watcher \/ SelectFails
RacingSpec == Init /\ [][RacingNext]_vars
\* Everything that can happen.
Next == RacingNext \/ Fault
Spec == Init /\ [][Next]_vars

\* Fairness: the caller polls for ever, and a pass that began goes on or fails.
FairSpec == Spec /\ WF_vars(Watcher \/ SelectFails)

-----------------------------------------------------------------------------
(* Properties.                                                             *)

TypeOK ==
    /\ listed \in BOOLEAN /\ validity \in Validity
    /\ box \in [Uid -> FlagSets \cup {NoMsg}]
    /\ uidNext \in [Validity -> 1..(MaxUid + 1)]
    /\ edits \in 0..MaxEdits /\ faults \in 0..MaxFaults
    /\ pc \in PrimePcs \cup ScanPcs \cup {"emit", "new", "idle"}
    /\ folderKnown \in BOOLEAN /\ hasCp \in BOOLEAN
    /\ cpValidity \in 0..MaxValidity /\ highWater \in 0..MaxUid
    /\ known \in [Uid -> FlagSets \cup {NoMsg}]
    /\ found \subseteq Uid /\ fetched \in [Uid -> FlagSets \cup {NoMsg}]
    /\ (found # {} <=> pc = "fetch") /\ (pc = "emit" => ToReport # {})
    /\ (ToReport # {} => pc \in {"fetch", "emit"})
    /\ baseline \subseteq Message
    /\ created \subseteq (0..MaxValidity) \X Uid /\ twice \subseteq created
    /\ moved \subseteq (0..MaxValidity) \X Uid

\* prime(): "pre-existing messages are the baseline and are NOT replayed as
\* created arrivals", and a UIDVALIDITY reset rebases without replaying: a
\* message that was there when the folder was primed is never announced.
NoReplay == created \cap baseline = {}

\* scan_once(): "a change already reflected in the checkpoint is not
\* re-emitted": no (uidvalidity, uid) is announced twice.
AtMostOnce == twice = {}

\* The module docstring: changes are keyed by UID and UIDVALIDITY.  The pair
\* an arrival is announced under is one the server has given to a message.
NamesRealMessage ==
    \A v \in 0..MaxValidity, u \in Uid :
        <<v, u>> \in created => v \in Validity /\ u < uidNext[v]

\* "moved" is "a UID that disappeared from the folder": no message that is in
\* the folder has been reported gone.
NoFalseMove == \A u \in Present : <<validity, u>> \notin moved

\* "known maps UID -> observed flag set so a flag delta or an expunge can be
\* detected": scan() never returns to a UID at or below the high-water mark,
\* so a message there that is not in known would never be looked at again.
Tracked ==
    hasCp /\ cpValidity = validity => \A u \in Present : u <= highWater => u \in Known

\* The high-water mark is never behind a UID of known, whatever fails: a
\* known UID above it would be scanned, and could be announced, again.
HighWaterCoversKnown == \A u \in Known : u <= highWater

\* A fault can leave a checkpoint without the UIDVALIDITY it was primed under.
\* That matters only once there has been a reset.
ValidityKnown == faults = 0 \/ validity = 1

\* "uid_high_water is the largest UID seen so far", "keyed by UIDVALIDITY": the
\* mark a checkpoint holds under the folder's current UIDVALIDITY is a UID of
\* that generation, not one left over from before a reset.
HighWaterOfGeneration ==
    ValidityKnown /\ hasCp /\ cpValidity = validity => highWater < uidNext[validity]

\* What the watcher is for: with the server quiet long enough, the checkpoint
\* of a folder that may be scanned comes to mirror it, flags included, and
\* stays so.  A fault may leave a message at or below the mark out of known for
\* good: an empty answer to the search for live UIDs does.
Synced == hasCp /\ cpValidity = validity /\ known = box

\* A message that stays in a folder that may be scanned is announced, unless
\* it belongs to a baseline: also when passes before or after its arrival fail.
ArrivalsReported ==
    \A v \in Validity, u \in Uid :
        (validity = v /\ u \in Present) ~>
            \/ <<v, u>> \in created \cup baseline
            \/ validity # v \/ u \notin Present
            \/ ~listed \/ Cardinality(Present) > SizeGuard \/ ~ValidityKnown

\* The watcher on a stable source keeps the promise of the folder feed, also
\* when other clients act between any two commands of a pass.
Been == {m \in Message : m[2] < uidNext[m[1]]}
Feed == INSTANCE FolderFeed WITH present <- Present, been <- Been
FeedSpec == Feed!Spec
=============================================================================
