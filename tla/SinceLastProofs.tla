--------------------------- MODULE SinceLastProofs ---------------------------
(***************************************************************************)
(* Theorems about SinceLast, for every value of its constants: the types,  *)
(* what the ledger records has been answered, and what is called new is    *)
(* new while a question is asked by one call at a time.                    *)
(***************************************************************************)
EXTENDS SinceLast, SequenceTheorems, TLAPS

LedgerEntry == [question : Question, ids : SUBSET Uid]

-----------------------------------------------------------------------------
(* What a step does to the call that takes it.                             *)

\* Only the call of c changes, and it becomes r.
Becomes(c, r) == call'[c] = r /\ \A d \in Caller \ {c} : call'[d] = call[d]

\* What a search picks is part of what it found.
LEMMA NewestPart == ASSUME NEW S, NEW k PROVE Newest(S, k) \subseteq S
BY DEF Newest

\* The baseline of a question was recorded for it.
LEMMA BaselineRecorded ==
    ASSUME TypeOK, NEW q \in Question, NEW u \in Baseline(q)
    PROVE  /\ u \in Uid
           /\ \E i \in DOMAIN ledger : ledger[i].question = q /\ u \in ledger[i].ids
BY DEF Baseline

\* An assignment to the call of c.
LEMMA CallAssigned ==
    ASSUME TypeOK, NEW c \in Caller, NEW r \in Call, call' = [call EXCEPT ![c] = r]
    PROVE  Becomes(c, r) /\ call' \in [Caller -> Call]
BY DEF TypeOK, Becomes

LEMMA IdleCall == Idle \in Call
BY DEF Idle, Call

LEMMA CallTyped ==
    ASSUME TypeOK, NEW c \in Caller
    PROVE  /\ call[c] \in Call /\ Shown(c) \in SUBSET Uid
           /\ call[c].pc # "idle" => /\ call[c].question \in Question
                                     /\ call[c].messages \cup call[c].todo \subseteq call[c].found
                                     /\ call[c].pc = "search" => call[c].messages = {}
BY DEF TypeOK, Shown, Call, Idle

\* Begin: the call of c as it starts.
Begun(tool, q, k) ==
    [pc |-> "search", tool |-> tool, question |-> q, limit |-> k,
     baseline |-> IF tool = "mail_search" THEN {} ELSE Baseline(q),
     found |-> {}, todo |-> {}, messages |-> {}]

LEMMA BeginCall ==
    ASSUME SearchAssumption, TypeOK, NEW c \in Caller, NEW tool \in Tools,
           NEW q \in Question, NEW k \in Limit, Begin(c, tool, q, k)
    PROVE  Begun(tool, q, k) \in Call /\ Becomes(c, Begun(tool, q, k)) /\ call' \in [Caller -> Call]
<1>1. Baseline(q) \in SUBSET Uid
  BY DEF Baseline
<1>2. Begun(tool, q, k) \in Call
  BY <1>1 DEF Begun, Call
<1> QED BY <1>2, CallAssigned DEF Begin, Begun

\* Search, SearchAll: the call of c with what it found.
Selected(c, all) ==
    [call[c] EXCEPT !.pc = "fetch", !.found = Record(all, call[c].limit),
                    !.todo = Newest(all, call[c].limit)]

LEMMA SelectCall ==
    ASSUME TypeOK, NEW c \in Caller, NEW all \in SUBSET Uid, NEW strict \in BOOLEAN,
           Serving(c, "search"), Select(c, all, strict)
    PROVE  /\ Selected(c, all) \in Call /\ Becomes(c, Selected(c, all))
           /\ call' \in [Caller -> Call]
<1>1. call[c] \in Call
  BY DEF TypeOK
<1>2. Newest(all, call[c].limit) \in SUBSET Uid
  BY NewestPart
<1>3. Selected(c, all) \in Call
  BY <1>1, <1>2 DEF Selected, Call, Record
<1>4. call' = [call EXCEPT ![c] = Selected(c, all)]
  BY DEF Select, Selected
<1> QED BY <1>3, <1>4, CallAssigned

\* What is searched is the folder, or the part of it that matches.
LEMMA SearchSelects ==
    ASSUME SearchAssumption, TypeOK, NEW c \in Caller, Search(c) \/ SearchAll(c)
    PROVE  \E all \in SUBSET inbox, strict \in BOOLEAN :
              /\ Select(c, all, strict) /\ Serving(c, "search") /\ faults' \in 0..MaxFaults
              /\ strict => all = inbox \cap Match[call[c].question]
<1>1. CASE Search(c)
  <2> DEFINE all == inbox \cap Match[call[c].question]
  <2>1. Select(c, all, TRUE) /\ Serving(c, "search") /\ faults' \in 0..MaxFaults
    BY <1>1 DEF Search, TypeOK
  <2>2. all \in SUBSET inbox
    OBVIOUS
  <2> HIDE DEF all
  <2> QED BY <2>1, <2>2 DEF all
<1>2. CASE SearchAll(c)
  <2>1. Select(c, inbox, FALSE) /\ Serving(c, "search")
    BY <1>2 DEF SearchAll
  <2>2. faults' \in 0..MaxFaults
    BY <1>2 DEF SearchAll, TypeOK, Fault, SearchAssumption
  <2> QED BY <2>1, <2>2
<1> QED BY <1>1, <1>2

\* Fetch: the call of c with the headers of u, or without.
Fetched(c, u) == [call[c] EXCEPT !.todo = @ \ {u}, !.messages = @ \cup {u}]
Skipped(c, u) == [call[c] EXCEPT !.todo = @ \ {u}]

LEMMA FetchCall ==
    ASSUME TypeOK, NEW c \in Caller, NEW u \in Uid, Fetch(c, u)
    PROVE  /\ Fetched(c, u) \in Call /\ Skipped(c, u) \in Call
           /\ call' \in [Caller -> Call]
           /\ \/ Becomes(c, Fetched(c, u)) /\ UNCHANGED missed
              \/ Becomes(c, Skipped(c, u)) /\ u \notin inbox /\ UNCHANGED missed
              \/ /\ Becomes(c, Skipped(c, u))
                 /\ missed' = [missed EXCEPT ![call[c].question] = @ \cup {u}]
<1>1. call[c] \in Call
  BY DEF TypeOK
<1>2. Fetched(c, u) \in Call /\ Skipped(c, u) \in Call
  BY <1>1 DEF Fetched, Skipped, Call
<1>3. CASE call' = [call EXCEPT ![c] = Fetched(c, u)] /\ UNCHANGED missed
  BY <1>2, <1>3, CallAssigned
<1>4. CASE /\ call' = [call EXCEPT ![c] = Skipped(c, u)]
           /\ \/ u \notin inbox /\ UNCHANGED missed
              \/ missed' = [missed EXCEPT ![call[c].question] = @ \cup {u}]
  BY <1>2, <1>4, CallAssigned
<1> QED BY <1>3, <1>4 DEF Fetch, Fetched, Skipped, Fault

\* AppendEntry: the call of c goes on to its answer.
Appended(c) == [call[c] EXCEPT !.pc = "answer"]

LEMMA AppendCall ==
    ASSUME TypeOK, NEW c \in Caller, AppendEntry(c)
    PROVE  Appended(c) \in Call /\ Becomes(c, Appended(c)) /\ call' \in [Caller -> Call]
<1>1. call[c] \in Call
  BY DEF TypeOK
<1>2. Appended(c) \in Call
  BY <1>1 DEF Appended, Call
<1>3. call' = [call EXCEPT ![c] = Appended(c)]
  BY DEF AppendEntry, Appended
<1> QED BY <1>2, <1>3, CallAssigned

\* Answer, LoseAnswer, Fail: the caller is free again.
LEMMA EndCall ==
    ASSUME TypeOK, NEW c \in Caller, Answer(c) \/ LoseAnswer(c) \/ Fail(c)
    PROVE  Becomes(c, Idle) /\ call' \in [Caller -> Call]
BY IdleCall, CallAssigned DEF Answer, LoseAnswer, Fail

\* AppendEntry: the entry is the last one of the ledger.
LEMMA LedgerGrows ==
    ASSUME TypeOK, NEW c \in Caller, AppendEntry(c)
    PROVE  /\ Entry(c) \in LedgerEntry /\ ledger' \in Seq(LedgerEntry)
           /\ DOMAIN ledger = 1..Len(ledger) /\ Len(ledger) \in Nat
           /\ DOMAIN ledger' = 1..(Len(ledger) + 1)
           /\ \A i \in DOMAIN ledger : ledger'[i] = ledger[i]
           /\ ledger'[Len(ledger) + 1] = Entry(c)
<1>1. call[c] \in Call /\ call[c].question \in Question
  BY CallTyped DEF AppendEntry, Serving
<1>2. Entry(c) \in LedgerEntry
  BY <1>1 DEF Entry, LedgerEntry, Call
<1>3. ledger \in Seq(LedgerEntry) /\ ledger' = Append(ledger, Entry(c))
  BY DEF TypeOK, LedgerEntry, AppendEntry
<1> QED BY <1>2, <1>3, AppendProperties, LenProperties

-----------------------------------------------------------------------------
(* Types.                                                                  *)

\* What TypeOK says of one call.
CallSound(r) == r = Idle \/ /\ r.pc # "idle" /\ r.question \in Question
                            /\ r.messages \cup r.todo \subseteq r.found
                            /\ r.pc = "search" => r.messages = {}

LEMMA CallsStaySound ==
    ASSUME TypeOK, NEW c \in Caller, NEW r \in Call, Becomes(c, r),
           call' \in [Caller -> Call], CallSound(r)
    PROVE  \A d \in Caller : CallSound(call'[d])
BY DEF TypeOK, Becomes, CallSound

LEMMA TypeParts ==
    TypeOK <=> /\ inbox \in SUBSET Uid /\ uidNext \in 1..(MaxUid + 1)
               /\ ledger \in Seq(LedgerEntry) /\ call \in [Caller -> Call]
               /\ \A d \in Caller : CallSound(call[d])
               /\ answered \in [Question -> SUBSET Uid] /\ missed \in [Question -> SUBSET Uid]
               /\ loose \in SUBSET Question /\ calls \in 0..MaxCalls /\ faults \in 0..MaxFaults
BY DEF TypeOK, CallSound, LedgerEntry

LEMMA TypeStep == ASSUME SearchAssumption, TypeOK, [Next]_vars PROVE TypeOK'
<1> USE DEF Uid, server, history
<1>1. CASE Arrive
  BY <1>1 DEF TypeOK, Arrive, SearchAssumption
<1>2. CASE \E u \in Uid : Expunge(u)
  BY <1>2 DEF TypeOK, Expunge
<1>3. ASSUME NEW c \in Caller, NEW tool \in Tools, NEW q \in Question, NEW k \in Limit,
             Begin(c, tool, q, k)
      PROVE  TypeOK'
  <2>1. Becomes(c, Begun(tool, q, k)) /\ call' \in [Caller -> Call] /\ Begun(tool, q, k) \in Call
    BY <1>3, BeginCall
  <2>2. CallSound(Begun(tool, q, k))
    BY DEF CallSound, Begun
  <2>3. \A d \in Caller : CallSound(call'[d])
    BY <2>1, <2>2, CallsStaySound
  <2>4. loose' \in SUBSET Question /\ calls' \in 0..MaxCalls
    BY <1>3 DEF TypeOK, Begin, SearchAssumption
  <2> QED BY <1>3, <2>1, <2>3, <2>4 DEF TypeOK, CallSound, Begin
<1>4. ASSUME NEW c \in Caller, Search(c) \/ SearchAll(c)
      PROVE  TypeOK'
  <2>0. PICK all \in SUBSET inbox, strict \in BOOLEAN :
              Select(c, all, strict) /\ Serving(c, "search") /\ faults' \in 0..MaxFaults
    BY <1>4, SearchSelects
  <2>1. Becomes(c, Selected(c, all)) /\ call' \in [Caller -> Call] /\ Selected(c, all) \in Call
    <3>1. all \in SUBSET Uid
      BY DEF TypeOK
    <3> QED BY <2>0, <3>1, SelectCall
  <2>2. CallSound(Selected(c, all))
    <3>1. call[c] \in Call /\ call[c].question \in Question /\ call[c].messages = {}
      BY <2>0, CallTyped DEF Serving
    <3> QED BY <3>1 DEF CallSound, Selected, Record, Call
  <2>3. \A d \in Caller : CallSound(call'[d])
    BY <2>1, <2>2, CallsStaySound
  <2>4. loose' \in SUBSET Question
    BY <2>0, CallTyped DEF TypeOK, Select, Serving
  <2> QED BY <2>0, <2>1, <2>3, <2>4 DEF TypeOK, CallSound, Select
<1>5. ASSUME NEW c \in Caller, NEW u \in Uid, Fetch(c, u)
      PROVE  TypeOK'
  <2>1. /\ Fetched(c, u) \in Call /\ Skipped(c, u) \in Call /\ call' \in [Caller -> Call]
        /\ Becomes(c, Fetched(c, u)) \/ Becomes(c, Skipped(c, u))
    BY <1>5, FetchCall
  <2>2. CallSound(Fetched(c, u)) /\ CallSound(Skipped(c, u))
    <3>1. /\ call[c] \in Call /\ call[c].question \in Question /\ call[c].pc = "fetch"
          /\ call[c].messages \cup call[c].todo \subseteq call[c].found /\ u \in call[c].todo
      BY <1>5, CallTyped DEF Fetch, Serving
    <3> QED BY <3>1 DEF CallSound, Fetched, Skipped, Call
  <2>3. \A d \in Caller : CallSound(call'[d])
    BY <2>1, <2>2, CallsStaySound
  <2>4. missed' \in [Question -> SUBSET Uid] /\ faults' \in 0..MaxFaults
    BY <1>5 DEF TypeOK, Fetch, Fault, SearchAssumption
  <2> QED BY <1>5, <2>1, <2>3, <2>4 DEF TypeOK, CallSound, Fetch
<1>6. ASSUME NEW c \in Caller, AppendEntry(c)
      PROVE  TypeOK'
  <2>1. Becomes(c, Appended(c)) /\ call' \in [Caller -> Call] /\ Appended(c) \in Call
    BY <1>6, AppendCall
  <2>2. CallSound(Appended(c))
    <3>1. /\ call[c] \in Call /\ call[c].question \in Question
          /\ call[c].messages \cup call[c].todo \subseteq call[c].found
      BY <1>6, CallTyped DEF AppendEntry, Serving
    <3> QED BY <3>1 DEF CallSound, Appended, Call
  <2>3. \A d \in Caller : CallSound(call'[d])
    BY <2>1, <2>2, CallsStaySound
  <2>4. ledger' \in Seq(LedgerEntry)
    BY <1>6, LedgerGrows
  <2> QED BY <1>6, <2>1, <2>3, <2>4 DEF TypeOK, CallSound, AppendEntry, LedgerEntry
<1>7. ASSUME NEW c \in Caller, Answer(c) \/ LoseAnswer(c) \/ Fail(c)
      PROVE  TypeOK'
  <2>1. Becomes(c, Idle) /\ call' \in [Caller -> Call] /\ Idle \in Call
    BY <1>7, EndCall, IdleCall
  <2>2. CallSound(Idle)
    BY DEF CallSound
  <2>3. \A d \in Caller : CallSound(call'[d])
    BY <2>1, <2>2, CallsStaySound
  <2>4. answered' \in [Question -> SUBSET Uid] /\ missed' \in [Question -> SUBSET Uid]
    BY <1>7, CallTyped DEF TypeOK, Answer, LoseAnswer, Fail
  <2>5. faults' \in 0..MaxFaults
    BY <1>7 DEF TypeOK, Answer, LoseAnswer, Fail, Fault, SearchAssumption
  <2>6. UNCHANGED <<inbox, uidNext, ledger, loose, calls>>
    BY <1>7 DEF Answer, LoseAnswer, Fail
  <2> QED BY <2>1, <2>3, <2>4, <2>5, <2>6 DEF TypeOK, CallSound
<1>8. CASE UNCHANGED vars
  BY <1>8 DEF TypeOK, vars
<1> QED BY <1>1, <1>2, <1>3, <1>4, <1>5, <1>6, <1>7, <1>8 DEF Next, OtherClients, Serve

LEMMA TypeInit == ASSUME SearchAssumption, Init PROVE TypeOK
<1>1. inbox \in SUBSET Uid /\ uidNext \in 1..(MaxUid + 1)
  BY DEF Init, Uid, SearchAssumption
<1>2. ledger \in Seq([question : Question, ids : SUBSET Uid])
  BY DEF Init
<1>3. call \in [Caller -> Call] /\ \A c \in Caller : call[c] = Idle
  BY IdleCall DEF Init
<1> QED BY <1>1, <1>2, <1>3 DEF Init, TypeOK, SearchAssumption

\* The state of the tools keeps its types.
THEOREM SearchTyped == Spec => []TypeOK
<1>1. SearchAssumption
  BY SearchAssumption
<1>2. Init => TypeOK
  BY <1>1, TypeInit
<1>3. TypeOK /\ [Next]_vars => TypeOK'
  BY <1>1, TypeStep
<1> QED BY <1>2, <1>3, PTL DEF Spec

-----------------------------------------------------------------------------
(* What is recorded, found or looked up has been given a UID.              *)

Given == 1..(uidNext - 1)

KnownInv ==
    /\ inbox \subseteq Given
    /\ \A q \in Question : answered[q] \subseteq Given
    /\ \A i \in DOMAIN ledger : ledger[i].ids \subseteq Given
    /\ \A c \in Caller : call[c].found \subseteq Given /\ call[c].baseline \subseteq Given

\* What KnownInv says of one call.
CallKnown(r) == r.found \subseteq Given /\ r.baseline \subseteq Given

LEMMA KnownStays ==
    ASSUME TypeOK, KnownInv, NEW c \in Caller, NEW r, Becomes(c, r), CallKnown(r),
           UNCHANGED <<inbox, uidNext, ledger, answered>>
    PROVE  KnownInv'
BY DEF TypeOK, KnownInv, CallKnown, Becomes, Given

LEMMA KnownStep ==
    ASSUME SearchAssumption, TypeOK, KnownInv, [Next]_vars
    PROVE  KnownInv'
<1> USE DEF server, history
<1>1. CASE Arrive
  BY <1>1 DEF TypeOK, KnownInv, Arrive, Given
<1>2. CASE \E u \in Uid : Expunge(u)
  BY <1>2 DEF KnownInv, Expunge, Given
<1>3. ASSUME NEW c \in Caller, NEW tool \in Tools, NEW q \in Question, NEW k \in Limit,
             Begin(c, tool, q, k)
      PROVE  KnownInv'
  <2>1. Becomes(c, Begun(tool, q, k))
    BY <1>3, BeginCall
  <2>2. Baseline(q) \subseteq Given
    BY BaselineRecorded DEF KnownInv
  <2>3. CallKnown(Begun(tool, q, k))
    BY <2>2 DEF CallKnown, Begun
  <2> QED BY <1>3, <2>1, <2>3, KnownStays DEF Begin
<1>4. ASSUME NEW c \in Caller, Search(c) \/ SearchAll(c)
      PROVE  KnownInv'
  <2>1. PICK all \in SUBSET inbox, strict \in BOOLEAN :
              Select(c, all, strict) /\ Serving(c, "search")
    BY <1>4, SearchSelects
  <2>2. all \in SUBSET Uid
    BY DEF TypeOK
  <2>3. Becomes(c, Selected(c, all)) /\ call[c] \in Call
    BY <2>1, <2>2, SelectCall, CallTyped
  <2>4. Newest(all, call[c].limit) \subseteq Given
    BY NewestPart DEF KnownInv
  <2>5. CallKnown(Selected(c, all))
    BY <2>3, <2>4 DEF CallKnown, Selected, KnownInv, Record, Call
  <2> QED BY <2>1, <2>3, <2>5, KnownStays DEF Select
<1>5. ASSUME NEW c \in Caller, NEW u \in Uid, Fetch(c, u)
      PROVE  KnownInv'
  <2>1. Becomes(c, Fetched(c, u)) \/ Becomes(c, Skipped(c, u))
    BY <1>5, FetchCall
  <2>2. CallKnown(Fetched(c, u)) /\ CallKnown(Skipped(c, u))
    BY CallTyped DEF CallKnown, Fetched, Skipped, KnownInv, Call
  <2> QED BY <1>5, <2>1, <2>2, KnownStays DEF Fetch
<1>6. ASSUME NEW c \in Caller, AppendEntry(c)
      PROVE  KnownInv'
  <2>1. Becomes(c, Appended(c))
    BY <1>6, AppendCall
  <2>2. \A d \in Caller : CallKnown(call'[d])
    BY <2>1, CallTyped DEF CallKnown, Appended, KnownInv, Call, Becomes
  <2>3. \A i \in DOMAIN ledger' : ledger'[i].ids \subseteq Given
    <3>1. call[c].found \subseteq Given /\ \A i \in DOMAIN ledger : ledger[i].ids \subseteq Given
      BY DEF KnownInv
    <3>2. Entry(c).ids = call[c].found
      BY DEF Entry
    <3>3. ledger'[Len(ledger) + 1].ids \subseteq Given
      BY <1>6, <3>1, <3>2, LedgerGrows
    <3> QED BY <1>6, <3>1, <3>3, LedgerGrows
  <2> QED BY <1>6, <2>2, <2>3 DEF AppendEntry, KnownInv, CallKnown, Given
<1>7. ASSUME NEW c \in Caller, Answer(c) \/ LoseAnswer(c) \/ Fail(c)
      PROVE  KnownInv'
  <2>1. Becomes(c, Idle)
    BY <1>7, EndCall
  <2>2. \A d \in Caller : CallKnown(call'[d])
    BY <2>1 DEF CallKnown, KnownInv, Becomes, Idle
  <2>3. UNCHANGED <<inbox, uidNext, ledger>>
    BY <1>7 DEF Answer, LoseAnswer, Fail
  <2>4. \A q \in Question : answered'[q] \subseteq Given
    <3>1. call[c].pc # "idle"
      BY <1>7 DEF Answer, LoseAnswer, Fail, Serving
    <3>2. Shown(c) \subseteq Given /\ call[c].question \in Question
      BY <3>1, CallTyped DEF Shown, KnownInv
    <3> QED BY <1>7, <3>2 DEF Answer, LoseAnswer, Fail, KnownInv, TypeOK
  <2> QED BY <2>2, <2>3, <2>4 DEF KnownInv, CallKnown, Given
<1>8. CASE UNCHANGED vars
  BY <1>8 DEF KnownInv, vars, Given
<1> QED BY <1>1, <1>2, <1>3, <1>4, <1>5, <1>6, <1>7, <1>8 DEF Next, OtherClients, Serve

LEMMA KnownInit == ASSUME SearchAssumption, Init PROVE KnownInv
BY DEF Init, KnownInv, Given, SearchAssumption, Idle

-----------------------------------------------------------------------------
(* What is recorded has been answered.                                     *)

Covered(q, u) == u \in answered[q] \/ u \in missed[q] \/ InAnswer(q, u)

\* What is in a baseline was recorded for its question, what a call has found
\* and not to fetch any more it has fetched or could not fetch.
CoverInv ==
    /\ RecordedIsAnswered
    /\ \A c \in Caller : \A u \in call[c].baseline \cap inbox : Covered(call[c].question, u)
    /\ \A c \in Caller : call[c].pc = "fetch" =>
          \A u \in call[c].found \cap inbox :
              u \in call[c].todo \cup call[c].messages \cup missed[call[c].question]

LEMMA RecordedCovered ==
    RecordedIsAnswered <=> \A i \in DOMAIN ledger : \A u \in ledger[i].ids \cap inbox :
                               Covered(ledger[i].question, u)
BY DEF RecordedIsAnswered, Covered

\* A call whose messages and question stay covers what it covered.
LEMMA AnswerKept ==
    ASSUME TypeOK, NEW c \in Caller, NEW r \in Call, Becomes(c, r),
           r.question = call[c].question /\ r.baseline = call[c].baseline
               /\ call[c].messages \subseteq r.messages,
           NEW q, NEW u, InAnswer(q, u)
    PROVE  InAnswer(q, u)'
BY DEF InAnswer, Shown, Becomes

\* A step takes nothing out of the answers given and on their way.
LEMMA CoverKept ==
    ASSUME SearchAssumption, TypeOK, [Next]_vars, NEW q \in Question, NEW u, Covered(q, u)
    PROVE  Covered(q, u)'
<1> USE DEF server, history
<1>1. CASE OtherClients \/ UNCHANGED vars
  BY <1>1 DEF OtherClients, Arrive, Expunge, vars, Covered, InAnswer, Shown
<1>3. ASSUME NEW c \in Caller, NEW tool \in Tools, NEW p \in Question, NEW k \in Limit,
             Begin(c, tool, p, k)
      PROVE  Covered(q, u)'
  <2>1. Becomes(c, Begun(tool, p, k)) /\ UNCHANGED <<answered, missed>>
    BY <1>3, BeginCall DEF Begin
  <2>2. Shown(c) = {}
    BY <1>3 DEF Begin, Idle, Shown
  <2>3. InAnswer(q, u) => InAnswer(q, u)'
    BY <2>1, <2>2 DEF InAnswer, Shown, Becomes
  <2> QED BY <2>1, <2>3 DEF Covered
<1>4. ASSUME NEW c \in Caller, Search(c) \/ SearchAll(c)
      PROVE  Covered(q, u)'
  <2>1. PICK all \in SUBSET inbox, strict \in BOOLEAN :
              Select(c, all, strict) /\ Serving(c, "search")
    BY <1>4, SearchSelects
  <2>2. all \in SUBSET Uid
    BY DEF TypeOK
  <2>3. /\ Becomes(c, Selected(c, all)) /\ call[c] \in Call /\ Selected(c, all) \in Call
        /\ UNCHANGED <<answered, missed>>
    BY <2>1, <2>2, SelectCall, CallTyped DEF Select
  <2>4. InAnswer(q, u) => InAnswer(q, u)'
    BY <2>3, AnswerKept DEF Selected, Call
  <2> QED BY <2>3, <2>4 DEF Covered
<1>5. ASSUME NEW c \in Caller, NEW v \in Uid, Fetch(c, v)
      PROVE  Covered(q, u)'
  <2>1. /\ Becomes(c, Fetched(c, v)) \/ Becomes(c, Skipped(c, v))
        /\ call[c] \in Call /\ Fetched(c, v) \in Call /\ Skipped(c, v) \in Call
    BY <1>5, FetchCall, CallTyped
  <2>2. InAnswer(q, u) => InAnswer(q, u)'
    BY <2>1, AnswerKept DEF Fetched, Skipped, Call
  <2>3. UNCHANGED answered /\ missed[q] \subseteq missed'[q]
    BY <1>5 DEF Fetch, TypeOK, Fault
  <2> QED BY <2>2, <2>3 DEF Covered
<1>6. ASSUME NEW c \in Caller, AppendEntry(c)
      PROVE  Covered(q, u)'
  <2>1. Becomes(c, Appended(c)) /\ call[c] \in Call /\ Appended(c) \in Call
    BY <1>6, AppendCall, CallTyped
  <2>2. InAnswer(q, u) => InAnswer(q, u)'
    BY <2>1, AnswerKept DEF Appended, Call
  <2> QED BY <1>6, <2>2 DEF Covered, AppendEntry
<1>7. ASSUME NEW c \in Caller, Answer(c) \/ LoseAnswer(c)
      PROVE  Covered(q, u)'
  <2>1. Becomes(c, Idle)
    BY <1>7, EndCall
  <2>2. InAnswer(q, u) => InAnswer(q, u)' \/ (call[c].question = q /\ u \in Shown(c))
    BY <2>1 DEF InAnswer, Shown, Becomes
  <2>3. answered[q] \subseteq answered'[q] /\ missed[q] \subseteq missed'[q]
    BY <1>7 DEF Answer, LoseAnswer, TypeOK
  <2>4. call[c].question = q => Shown(c) \subseteq answered'[q] \cup missed'[q]
    BY <1>7 DEF Answer, LoseAnswer, TypeOK
  <2> QED BY <2>2, <2>3, <2>4 DEF Covered
<1>8. ASSUME NEW c \in Caller, Fail(c)
      PROVE  Covered(q, u)'
  <2>1. Becomes(c, Idle) /\ UNCHANGED <<answered, missed>>
    BY <1>8, EndCall DEF Fail
  <2>2. Shown(c) = {}
    BY <1>8, CallTyped DEF Fail, Serving, Shown
  <2>3. InAnswer(q, u) => InAnswer(q, u)'
    BY <2>1, <2>2 DEF InAnswer, Shown, Becomes
  <2> QED BY <2>1, <2>3 DEF Covered
<1> QED BY <1>1, <1>3, <1>4, <1>5, <1>6, <1>7, <1>8 DEF Next, Serve

\* A message that has been given a UID does not come back.
LEMMA NoReturn ==
    ASSUME SearchAssumption, TypeOK, [Next]_vars, NEW u \in Given, u \in inbox'
    PROVE  u \in inbox
<1>1. CASE Arrive
  BY <1>1 DEF Arrive, Given, TypeOK
<1>2. CASE \E v \in Uid : Expunge(v)
  BY <1>2 DEF Expunge
<1>3. ASSUME NEW c \in Caller, Serve(c)
      PROVE  UNCHANGED inbox
  BY <1>3 DEF Serve, server, Begin, Search, SearchAll, Select, Fetch, AppendEntry, Answer,
              LoseAnswer, Fail
<1> QED BY <1>1, <1>2, <1>3 DEF Next, OtherClients, vars, server

LEMMA MissedGrows ==
    ASSUME SearchAssumption, TypeOK, [Next]_vars, NEW q \in Question
    PROVE  missed[q] \subseteq missed'[q]
<1> USE DEF server, history
<1>1. CASE OtherClients \/ UNCHANGED vars
  BY <1>1 DEF OtherClients, Arrive, Expunge, vars
<1>2. ASSUME NEW c \in Caller, NEW u \in Uid, Fetch(c, u)
      PROVE  missed[q] \subseteq missed'[q]
  BY <1>2 DEF Fetch, Fault, TypeOK
<1>3. ASSUME NEW c \in Caller, LoseAnswer(c)
      PROVE  missed[q] \subseteq missed'[q]
  BY <1>3 DEF LoseAnswer, TypeOK
<1>4. ASSUME NEW c \in Caller, NEW tool \in Tools, NEW p \in Question, NEW k \in Limit,
             Begin(c, tool, p, k)
      PROVE  missed[q] \subseteq missed'[q]
  BY <1>4 DEF Begin
<1>5. ASSUME NEW c \in Caller, Search(c) \/ SearchAll(c) \/ AppendEntry(c) \/ Answer(c) \/ Fail(c)
      PROVE  missed[q] \subseteq missed'[q]
  BY <1>5 DEF Search, SearchAll, Select, AppendEntry, Answer, Fail
<1> QED BY <1>1, <1>2, <1>3, <1>4, <1>5 DEF Next, Serve

\* What CoverInv says of one call.
CallCovered(r) ==
    /\ \A u \in r.baseline \cap inbox : Covered(r.question, u)
    /\ r.pc = "fetch" => \A u \in r.found \cap inbox :
                             u \in r.todo \cup r.messages \cup missed[r.question]

LEMMA CoverParts ==
    CoverInv <=> RecordedIsAnswered /\ \A c \in Caller : CallCovered(call[c])
BY DEF CoverInv, CallCovered

\* A call that does not change stays covered.
LEMMA CallStaysCovered ==
    ASSUME SearchAssumption, TypeOK, KnownInv, CoverInv, [Next]_vars,
           NEW d \in Caller, call'[d] = call[d]
    PROVE  CallCovered(call[d])'
<1>1. call[d].found \subseteq Given /\ call[d].baseline \subseteq Given /\ CallCovered(call[d])
  BY CoverParts DEF KnownInv
<1>2. CASE call[d].pc = "idle"
  BY <1>2, CallTyped DEF TypeOK, CallCovered, Idle
<1>3. CASE call[d].pc # "idle"
  <2>1. call[d].question \in Question
    BY <1>3, CallTyped
  <2>2. missed[call[d].question] \subseteq missed'[call[d].question]
    BY <2>1, MissedGrows
  <2>3. \A u \in call[d].baseline \cap inbox' : Covered(call[d].question, u)'
    BY <1>1, <2>1, NoReturn, CoverKept DEF CallCovered
  <2>4. call[d].pc = "fetch" => \A u \in call[d].found \cap inbox' :
            u \in call[d].todo \cup call[d].messages \cup missed'[call[d].question]
    BY <1>1, <2>2, NoReturn DEF CallCovered
  <2> QED BY <2>3, <2>4 DEF CallCovered, Covered, InAnswer, Shown
<1> QED BY <1>2, <1>3

LEMMA EntryTyped == ASSUME TypeOK, NEW i \in DOMAIN ledger PROVE ledger[i] \in LedgerEntry
<1>1. ledger \in Seq(LedgerEntry)
  BY TypeParts
<1>2. i \in 1..Len(ledger)
  BY <1>1, LenProperties
<1> QED BY <1>1, <1>2, ElementOfSeq

\* What a step leaves in the ledger stays covered.
LEMMA EntryStaysCovered ==
    ASSUME SearchAssumption, TypeOK, KnownInv, RecordedIsAnswered, [Next]_vars,
           NEW i \in DOMAIN ledger, NEW u \in ledger[i].ids, u \in inbox',
           NEW q, q = ledger[i].question
    PROVE  Covered(q, u)'
<1>1. q \in Question
  BY EntryTyped DEF LedgerEntry
<1>2. u \in inbox
  BY NoReturn DEF KnownInv
<1>3. Covered(q, u)
  BY <1>2, RecordedCovered
<1> QED BY <1>1, <1>3, CoverKept

LEMMA RecordedStays ==
    ASSUME SearchAssumption, TypeOK, KnownInv, RecordedIsAnswered, [Next]_vars, UNCHANGED ledger
    PROVE  RecordedIsAnswered'
<1> SUFFICES ASSUME NEW i \in DOMAIN ledger, NEW u \in ledger[i].ids, u \in inbox'
             PROVE  \/ u \in answered'[ledger[i].question] \cup missed'[ledger[i].question]
                    \/ InAnswer(ledger[i].question, u)'
  BY DEF RecordedIsAnswered, InAnswer, Shown
<1> DEFINE q == ledger[i].question
<1>1. PICK p : p = q
  OBVIOUS
<1>2. Covered(p, u)'
  BY <1>1, EntryStaysCovered
<1> QED BY <1>1, <1>2 DEF Covered, InAnswer, Shown

LEMMA CoverStep ==
    ASSUME SearchAssumption, TypeOK, KnownInv, CoverInv, [Next]_vars
    PROVE  CoverInv'
<1> USE DEF server, history
<1> DEFINE Kept(c) == \A d \in Caller \ {c} : CallCovered(call[d])'
<1>0. ASSUME NEW c \in Caller, NEW r, Becomes(c, r) PROVE Kept(c)
  BY <1>0, CallStaysCovered DEF Becomes
<1>a. RecordedIsAnswered /\ \A c \in Caller : CallCovered(call[c])
  BY CoverParts
<1>b. ASSUME NEW c \in Caller, Kept(c), CallCovered(call[c])', RecordedIsAnswered'
      PROVE  CoverInv'
  BY <1>b DEF CoverInv, CallCovered
<1>c. UNCHANGED ledger => RecordedIsAnswered'
  BY <1>a, RecordedStays
<1> HIDE DEF Kept
<1>1. CASE OtherClients \/ UNCHANGED vars
  <2>1. UNCHANGED <<call, ledger>>
    BY <1>1 DEF OtherClients, Arrive, Expunge, vars
  <2>2. \A d \in Caller : CallCovered(call[d])'
    BY <2>1, CallStaysCovered
  <2> QED BY <1>c, <2>1, <2>2 DEF CoverInv, CallCovered
<1>2. ASSUME NEW c \in Caller, NEW tool \in Tools, NEW q \in Question, NEW k \in Limit,
             Begin(c, tool, q, k)
      PROVE  CoverInv'
  <2>1. Becomes(c, Begun(tool, q, k)) /\ UNCHANGED <<inbox, ledger>>
    BY <1>2, BeginCall DEF Begin
  <2>2. ASSUME NEW u \in Baseline(q) \cap inbox PROVE Covered(q, u)'
    <3>1. PICK i \in DOMAIN ledger : ledger[i].question = q /\ u \in ledger[i].ids
      BY BaselineRecorded
    <3> QED BY <1>a, <2>1, <3>1, EntryStaysCovered
  <2>3. CallCovered(call[c])'
    <3>1. \A u \in Begun(tool, q, k).baseline \cap inbox : Covered(q, u)'
      BY <2>2 DEF Begun
    <3>2. Begun(tool, q, k).question = q /\ Begun(tool, q, k).pc = "search"
      BY DEF Begun
    <3> QED BY <2>1, <3>1, <3>2 DEF CallCovered, Becomes, Covered, InAnswer, Shown
  <2> QED BY <1>0, <1>b, <1>c, <2>1, <2>3
<1>3. ASSUME NEW c \in Caller, Search(c) \/ SearchAll(c)
      PROVE  CoverInv'
  <2>1. PICK all \in SUBSET inbox, strict \in BOOLEAN :
              Select(c, all, strict) /\ Serving(c, "search")
    BY <1>3, SearchSelects
  <2>2. all \in SUBSET Uid
    BY DEF TypeOK
  <2>3. /\ Becomes(c, Selected(c, all)) /\ call[c] \in Call /\ Selected(c, all) \in Call
        /\ call[c].question \in Question /\ UNCHANGED <<inbox, ledger, answered, missed>>
    BY <2>1, <2>2, SelectCall, CallTyped DEF Select, Serving
  <2>4. /\ Selected(c, all).baseline = call[c].baseline
        /\ Selected(c, all).question = call[c].question
        /\ Selected(c, all).found = Selected(c, all).todo
    BY <2>3 DEF Selected, Record, Call
  <2>5. \A u \in call[c].baseline \cap inbox : Covered(call[c].question, u)
    BY <1>a DEF CallCovered
  <2>6. PICK q \in Question : q = call[c].question
    BY <2>3
  <2>7. \A u \in call[c].baseline \cap inbox : Covered(q, u)'
    BY <2>5, <2>6, CoverKept
  <2>8. CallCovered(call[c])'
    BY <2>3, <2>4, <2>6, <2>7 DEF CallCovered, Becomes, Covered, InAnswer, Shown
  <2>9. UNCHANGED ledger
    BY <2>3
  <2> QED BY <1>0, <1>b, <1>c, <2>3, <2>8, <2>9
<1>4. ASSUME NEW c \in Caller, NEW v \in Uid, Fetch(c, v)
      PROVE  CoverInv'
  <2>1. /\ UNCHANGED <<inbox, ledger, answered>> /\ call[c] \in Call
        /\ call[c].question \in Question /\ call[c].pc = "fetch"
    BY <1>4, CallTyped DEF Fetch, Serving
  <2>2. PICK q \in Question : q = call[c].question
    BY <2>1
  <2>3. \A u \in call[c].baseline \cap inbox : Covered(q, u)'
    BY <1>a, <2>2, CoverKept DEF CallCovered
  <2>4. \A u \in call[c].found \cap inbox : u \in call[c].todo \cup call[c].messages \cup missed[q]
    BY <1>a, <2>1, <2>2 DEF CallCovered
  <2>5. missed[q] \subseteq missed'[q]
    BY MissedGrows
  <2>6. CASE Becomes(c, Fetched(c, v))
    <3>1. /\ Fetched(c, v).baseline = call[c].baseline /\ Fetched(c, v).question = q
          /\ Fetched(c, v).found = call[c].found /\ Fetched(c, v).todo = call[c].todo \ {v}
          /\ Fetched(c, v).messages = call[c].messages \cup {v}
      BY <2>1, <2>2 DEF Fetched, Call
    <3>2. CallCovered(call[c])'
      BY <2>1, <2>3, <2>4, <2>5, <2>6, <3>1 DEF CallCovered, Becomes, Covered, InAnswer, Shown
    <3> QED BY <1>0, <1>b, <1>c, <2>1, <2>6, <3>2
  <2>7. CASE Becomes(c, Skipped(c, v)) /\ (v \notin inbox \/ v \in missed'[q])
    <3>1. /\ Skipped(c, v).baseline = call[c].baseline /\ Skipped(c, v).question = q
          /\ Skipped(c, v).found = call[c].found /\ Skipped(c, v).todo = call[c].todo \ {v}
          /\ Skipped(c, v).messages = call[c].messages
      BY <2>1, <2>2 DEF Skipped, Call
    <3>2. CallCovered(call[c])'
      BY <2>1, <2>3, <2>4, <2>5, <2>7, <3>1 DEF CallCovered, Becomes, Covered, InAnswer, Shown
    <3> QED BY <1>0, <1>b, <1>c, <2>1, <2>7, <3>2
  <2>8. missed' = [missed EXCEPT ![call[c].question] = @ \cup {v}] => v \in missed'[q]
    BY <2>2 DEF TypeOK
  <2> QED BY <1>4, <2>6, <2>7, <2>8, FetchCall
<1>5. ASSUME NEW c \in Caller, AppendEntry(c)
      PROVE  CoverInv'
  <2>1. /\ Becomes(c, Appended(c)) /\ call[c] \in Call /\ call[c].question \in Question
        /\ UNCHANGED <<inbox, answered, missed>> /\ call[c].pc = "fetch" /\ call[c].todo = {}
    BY <1>5, AppendCall, CallTyped DEF AppendEntry, Serving
  <2>2. /\ Appended(c).baseline = call[c].baseline /\ Appended(c).question = call[c].question
        /\ Appended(c).messages = call[c].messages /\ Appended(c).pc = "answer"
    BY <2>1 DEF Appended, Call
  <2>3. PICK q \in Question : q = call[c].question
    BY <2>1
  <2>4. \A u \in call[c].baseline \cap inbox : Covered(q, u)'
    BY <1>a, <2>3, CoverKept DEF CallCovered
  <2>5. CallCovered(call[c])'
    BY <2>1, <2>2, <2>3, <2>4 DEF CallCovered, Becomes, Covered, InAnswer, Shown
  <2>6. \A u \in call[c].found \cap inbox : Covered(q, u)'
    <3>1. ASSUME NEW u \in call[c].found \cap inbox PROVE Covered(q, u)
      <4>1. u \in call[c].messages \cup missed[q]
        BY <1>a, <2>1, <2>3 DEF CallCovered
      <4>2. CASE u \in call[c].baseline
        BY <1>a, <2>3, <4>2 DEF CallCovered
      <4>3. CASE u \in call[c].messages \ call[c].baseline
        BY <2>3, <4>3 DEF Covered, InAnswer, Shown
      <4> QED BY <4>1, <4>2, <4>3 DEF Covered
    <3> QED BY <3>1, CoverKept
  <2>7. ASSUME NEW i \in DOMAIN ledger', NEW u \in ledger'[i].ids, u \in inbox',
               NEW p, p = ledger'[i].question
        PROVE  Covered(p, u)'
    <3>1. CASE i \in DOMAIN ledger
      BY <1>5, <1>a, <2>7, <3>1, LedgerGrows, EntryStaysCovered
    <3>2. CASE i \notin DOMAIN ledger
      <4>1. ledger'[i] = Entry(c)
        BY <1>5, <3>2, LedgerGrows
      <4>2. p = q /\ u \in call[c].found \cap inbox
        BY <2>1, <2>3, <2>7, <4>1 DEF Entry
      <4> QED BY <2>6, <4>2
    <3> QED BY <3>1, <3>2
  <2>8. RecordedIsAnswered'
    BY <2>7 DEF RecordedIsAnswered, Covered, InAnswer, Shown
  <2> QED BY <1>0, <1>b, <2>1, <2>5, <2>8
<1>6. ASSUME NEW c \in Caller, Answer(c) \/ LoseAnswer(c) \/ Fail(c)
      PROVE  CoverInv'
  <2>1. Becomes(c, Idle) /\ UNCHANGED ledger
    BY <1>6, EndCall DEF Answer, LoseAnswer, Fail
  <2>2. CallCovered(call[c])'
    BY <2>1 DEF CallCovered, Becomes, Idle
  <2> QED BY <1>0, <1>b, <1>c, <2>1, <2>2
<1> QED BY <1>1, <1>2, <1>3, <1>4, <1>5, <1>6 DEF Next, Serve

LEMMA CoverInit == ASSUME SearchAssumption, Init PROVE CoverInv
BY DEF Init, CoverInv, RecordedIsAnswered, Idle

\* A message that mail_search_since_last keeps back, because a similar search
\* recorded it, was answered to somebody, or lost by a fault.
THEOREM SearchRecordedIsAnswered == Spec => []RecordedIsAnswered
<1> DEFINE Inv == TypeOK /\ KnownInv /\ CoverInv
<1>1. SearchAssumption
  BY SearchAssumption
<1>2. Init => Inv
  BY <1>1, TypeInit, KnownInit, CoverInit
<1>3. Inv /\ [Next]_vars => Inv'
  BY <1>1, TypeStep, KnownStep, CoverStep
<1>4. Inv => RecordedIsAnswered
  BY DEF CoverInv
<1> QED BY <1>2, <1>3, <1>4, PTL DEF Spec

-----------------------------------------------------------------------------
(* What is called new is new.                                              *)

\* Two calls that ask the same question at once have made it loose.
OneAtATime == \A c, d \in Caller :
    /\ c # d /\ call[c].pc # "idle" /\ call[d].pc # "idle"
    /\ call[c].question = call[d].question
    => call[c].question \in loose

\* A call that has its question to itself: it looked up, and then found, all
\* that was answered before and is still there.
CallTight(r) ==
    /\ r.pc = "search" /\ r.tool = "mail_search_since_last"
          => answered[r.question] \cap inbox \subseteq r.baseline
    /\ r.pc \in {"fetch", "answer"} =>
          /\ r.found \subseteq Match[r.question] /\ answered[r.question] \cap inbox \subseteq r.found
          /\ r.tool = "mail_search_since_last" => r.found \cap answered[r.question] \subseteq r.baseline
    /\ r.pc = "answer" => r.found \subseteq Baseline(r.question)

QuestionTight(q) == answered[q] \cap inbox \subseteq Baseline(q) /\ answered[q] \subseteq Match[q]

TightInv ==
    /\ OneAtATime
    /\ \A q \in Question \ loose : QuestionTight(q)
    /\ \A c \in Caller : call[c].pc # "idle" /\ call[c].question \notin loose => CallTight(call[c])

LEMMA LooseGrows == ASSUME [Next]_vars PROVE loose \subseteq loose'
BY DEF Next, vars, history, OtherClients, Arrive, Expunge, Serve, Begin, Search, SearchAll,
       Select, Fetch, AppendEntry, Answer, LoseAnswer, Fail

\* A call goes on with its question, or ends.
LEMMA OneKept ==
    ASSUME TypeOK, OneAtATime, loose \subseteq loose', NEW c \in Caller, NEW r, Becomes(c, r),
           \/ r.pc = "idle"
           \/ call[c].pc # "idle" /\ r.question = call[c].question
    PROVE  OneAtATime'
BY DEF OneAtATime, Becomes

LEMMA OneStep ==
    ASSUME SearchAssumption, TypeOK, OneAtATime, [Next]_vars
    PROVE  OneAtATime'
<1>0. loose \subseteq loose'
  BY LooseGrows
<1>1. CASE OtherClients \/ UNCHANGED vars
  BY <1>0, <1>1 DEF OtherClients, Arrive, Expunge, vars, OneAtATime
<1>2. ASSUME NEW c \in Caller, NEW tool \in Tools, NEW q \in Question, NEW k \in Limit,
             Begin(c, tool, q, k)
      PROVE  OneAtATime'
  <2>1. Becomes(c, Begun(tool, q, k)) /\ Begun(tool, q, k).question = q
    BY <1>2, BeginCall DEF Begun
  <2>2. ASSUME NEW d \in Caller \ {c}, call[d].pc # "idle", call[d].question = q
        PROVE  q \in loose'
    BY <1>2, <2>2 DEF Begin, Alone, Idle
  <2> QED BY <1>0, <2>1, <2>2 DEF OneAtATime, Becomes
<1>3. ASSUME NEW c \in Caller, Search(c) \/ SearchAll(c)
      PROVE  OneAtATime'
  <2>1. PICK all \in SUBSET inbox, strict \in BOOLEAN :
              Select(c, all, strict) /\ Serving(c, "search")
    BY <1>3, SearchSelects
  <2>2. all \in SUBSET Uid
    BY DEF TypeOK
  <2>3. Becomes(c, Selected(c, all)) /\ call[c] \in Call /\ call[c].pc # "idle"
    BY <2>1, <2>2, SelectCall, CallTyped DEF Serving
  <2>4. Selected(c, all).question = call[c].question
    BY <2>3 DEF Selected, Call
  <2> QED BY <1>0, <2>3, <2>4, OneKept
<1>4. ASSUME NEW c \in Caller, NEW v \in Uid, Fetch(c, v)
      PROVE  OneAtATime'
  <2>1. /\ Becomes(c, Fetched(c, v)) \/ Becomes(c, Skipped(c, v))
        /\ call[c] \in Call /\ call[c].pc # "idle"
    BY <1>4, FetchCall, CallTyped DEF Fetch, Serving
  <2>2. Fetched(c, v).question = call[c].question /\ Skipped(c, v).question = call[c].question
    BY <2>1 DEF Fetched, Skipped, Call
  <2> QED BY <1>0, <2>1, <2>2, OneKept
<1>5. ASSUME NEW c \in Caller, AppendEntry(c)
      PROVE  OneAtATime'
  <2>1. Becomes(c, Appended(c)) /\ call[c] \in Call /\ call[c].pc # "idle"
    BY <1>5, AppendCall, CallTyped DEF AppendEntry, Serving
  <2>2. Appended(c).question = call[c].question
    BY <2>1 DEF Appended, Call
  <2> QED BY <1>0, <2>1, <2>2, OneKept
<1>6. ASSUME NEW c \in Caller, Answer(c) \/ LoseAnswer(c) \/ Fail(c)
      PROVE  OneAtATime'
  <2>1. Becomes(c, Idle) /\ Idle.pc = "idle"
    BY <1>6, EndCall DEF Idle
  <2> QED BY <1>0, <2>1, OneKept
<1> QED BY <1>1, <1>2, <1>3, <1>4, <1>5, <1>6 DEF Next, Serve

\* The baseline of a question moves with an entry of this question only, and
\* then it is this entry.
LEMMA BaselineOther ==
    ASSUME TypeOK, NEW c \in Caller, AppendEntry(c), NEW q \in Question, q # call[c].question
    PROVE  Baseline(q) \subseteq Baseline(q)'
<1> SUFFICES ASSUME NEW u \in Baseline(q) PROVE u \in Baseline(q)'
  OBVIOUS
<1>1. PICK i \in DOMAIN ledger :
        /\ ledger[i].question = q /\ u \in ledger[i].ids /\ u \in Uid
        /\ \A j \in DOMAIN ledger : ledger[j].question = q => j <= i
  BY DEF Baseline
<1>2. ledger'[Len(ledger) + 1].question # q
  <2>1. ledger'[Len(ledger) + 1] = Entry(c)
    BY LedgerGrows
  <2> QED BY <2>1 DEF Entry
<1>3. i \in DOMAIN ledger' /\ ledger'[i] = ledger[i]
  BY <1>1, LedgerGrows
<1>4. \A j \in DOMAIN ledger' : ledger'[j].question = q => j <= i
  <2>1. ASSUME NEW j \in DOMAIN ledger', ledger'[j].question = q PROVE j \in DOMAIN ledger
    BY <1>2, <2>1, LedgerGrows
  <2> QED BY <1>1, <2>1, LedgerGrows
<1> QED BY <1>1, <1>3, <1>4 DEF Baseline

LEMMA BaselineOwn ==
    ASSUME TypeOK, NEW c \in Caller, AppendEntry(c), NEW q, q = call[c].question
    PROVE  call[c].found \subseteq Baseline(q)'
<1>1. call[c] \in Call /\ call[c].found \subseteq Uid
  BY CallTyped DEF Call
<1>2. /\ Len(ledger) + 1 \in DOMAIN ledger'
      /\ \A j \in DOMAIN ledger' : j <= Len(ledger) + 1
  BY LedgerGrows
<1>3. ledger'[Len(ledger) + 1] = Entry(c)
  BY LedgerGrows
<1>4. /\ ledger'[Len(ledger) + 1].question = q
      /\ ledger'[Len(ledger) + 1].ids = call[c].found
  BY <1>3 DEF Entry
<1> QED BY <1>1, <1>2, <1>4 DEF Baseline

\* A call that does not change stays tight, if nobody answers its question or
\* records it.
LEMMA CallStaysTight ==
    ASSUME SearchAssumption, TypeOK, KnownInv, [Next]_vars, NEW d \in Caller,
           call[d].pc # "idle", call'[d] = call[d], CallTight(call[d]),
           NEW q, q = call[d].question,
           answered'[q] = answered[q], Baseline(q) \subseteq Baseline(q)'
    PROVE  CallTight(call[d])'
<1>1. q \in Question
  BY CallTyped
<1>2. answered[q] \cap inbox' \subseteq answered[q] \cap inbox
  BY <1>1, NoReturn DEF KnownInv
<1> QED BY <1>2 DEF CallTight

LEMMA QuestionStaysTight ==
    ASSUME SearchAssumption, TypeOK, KnownInv, [Next]_vars, NEW q \in Question,
           QuestionTight(q), answered'[q] = answered[q], Baseline(q) \subseteq Baseline(q)'
    PROVE  QuestionTight(q)'
<1>1. answered[q] \cap inbox' \subseteq answered[q] \cap inbox
  BY NoReturn DEF KnownInv
<1> QED BY <1>1 DEF QuestionTight

\* A step of c that answers nothing and records nothing.
LEMMA QuietStep ==
    ASSUME SearchAssumption, TypeOK, KnownInv, TightInv, [Next]_vars, NEW c \in Caller, NEW r,
           Becomes(c, r), UNCHANGED <<answered, ledger>>,
           r.pc # "idle" /\ r.question \notin loose' => CallTight(r)'
    PROVE  TightInv'
<1>1. OneAtATime'
  BY OneStep DEF TightInv
<1>2. loose \subseteq loose'
  BY LooseGrows
<1>3. \A q \in Question : Baseline(q)' = Baseline(q)
  BY DEF Baseline
<1>4. \A q \in Question \ loose' : QuestionTight(q)'
  BY <1>2, <1>3, QuestionStaysTight DEF TightInv
<1>5. ASSUME NEW d \in Caller, call'[d].pc # "idle", call'[d].question \notin loose'
      PROVE  CallTight(call[d])'
  <2>1. CASE d = c
    BY <1>5, <2>1 DEF Becomes, CallTight
  <2>2. CASE d # c
    <3>1. call'[d] = call[d] /\ call[d].question \in Question
      BY <1>5, <2>2, CallTyped DEF Becomes
    <3>2. PICK q \in Question : q = call[d].question
      BY <3>1
    <3> QED BY <1>2, <1>3, <1>5, <3>1, <3>2, CallStaysTight DEF TightInv
  <2> QED BY <2>1, <2>2
<1> QED BY <1>1, <1>4, <1>5 DEF TightInv

LEMMA TightStep ==
    ASSUME SearchAssumption, TypeOK, KnownInv, TightInv, [Next]_vars
    PROVE  TightInv'
<1> USE DEF server, history
<1>o. OneAtATime'
  BY OneStep DEF TightInv
<1>l. loose \subseteq loose'
  BY LooseGrows
<1>1. CASE OtherClients \/ UNCHANGED vars
  <2>1. UNCHANGED <<call, ledger, answered, loose>>
    BY <1>1 DEF OtherClients, Arrive, Expunge, vars
  <2>2. \A q \in Question : Baseline(q)' = Baseline(q)
    BY <2>1 DEF Baseline
  <2>3. \A q \in Question \ loose' : QuestionTight(q)'
    BY <2>1, <2>2, QuestionStaysTight DEF TightInv
  <2>4. ASSUME NEW d \in Caller, call'[d].pc # "idle", call'[d].question \notin loose'
        PROVE  CallTight(call[d])'
    <3>1. PICK q \in Question : q = call[d].question
      BY <2>1, <2>4, CallTyped
    <3> QED BY <2>1, <2>2, <2>4, <3>1, CallStaysTight DEF TightInv
  <2> QED BY <1>o, <2>3, <2>4 DEF TightInv
<1>2. ASSUME NEW c \in Caller, NEW tool \in Tools, NEW q \in Question, NEW k \in Limit,
             Begin(c, tool, q, k)
      PROVE  TightInv'
  <2>1. PICK r : r = Begun(tool, q, k)
    OBVIOUS
  <2>2. /\ r.pc = "search" /\ r.question = q /\ r.tool = tool
        /\ r.tool # "mail_search" => r.baseline = Baseline(q)
    BY <2>1 DEF Begun
  <2>3. Becomes(c, r) /\ UNCHANGED <<inbox, ledger, answered>>
    BY <1>2, <2>1, BeginCall DEF Begin
  <2>4. q \notin loose' => answered[q] \cap inbox \subseteq Baseline(q)
    BY <1>l DEF TightInv, QuestionTight
  <2>5. r.question \notin loose' => CallTight(r)'
    BY <2>2, <2>3, <2>4 DEF CallTight
  <2> QED BY <2>3, <2>5, QuietStep
<1>3. ASSUME NEW c \in Caller, Search(c) \/ SearchAll(c)
      PROVE  TightInv'
  <2>1. PICK all \in SUBSET inbox, strict \in BOOLEAN :
              /\ Select(c, all, strict) /\ Serving(c, "search")
              /\ strict => all = inbox \cap Match[call[c].question]
    BY <1>3, SearchSelects
  <2>2. all \in SUBSET Uid
    BY DEF TypeOK
  <2>3. PICK r : r = Selected(c, all)
    OBVIOUS
  <2>4. /\ Becomes(c, r) /\ call[c] \in Call /\ call[c].question \in Question
        /\ call[c].pc = "search" /\ UNCHANGED <<inbox, ledger, answered>>
    BY <2>1, <2>2, <2>3, SelectCall, CallTyped DEF Select, Serving
  <2>5. PICK q \in Question : q = call[c].question
    BY <2>4
  <2>6. /\ r.pc = "fetch" /\ r.question = q /\ r.tool = call[c].tool
        /\ r.baseline = call[c].baseline /\ r.found = Newest(all, call[c].limit)
    BY <2>3, <2>4, <2>5 DEF Selected, Record, Call
  <2>7. q \notin loose' => q \notin loose /\ r.found = inbox \cap Match[q]
    BY <2>1, <2>5, <2>6 DEF Select
  <2>8. q \notin loose => QuestionTight(q) /\ CallTight(call[c])
    BY <2>4, <2>5 DEF TightInv
  <2>9. r.question \notin loose' => CallTight(r)'
    BY <2>4, <2>5, <2>6, <2>7, <2>8 DEF CallTight, QuestionTight
  <2> QED BY <2>4, <2>9, QuietStep
<1>4. ASSUME NEW c \in Caller, NEW v \in Uid, Fetch(c, v)
      PROVE  TightInv'
  <2>1. PICK r : Becomes(c, r) /\ r \in {Fetched(c, v), Skipped(c, v)}
    BY <1>4, FetchCall
  <2>2. /\ call[c] \in Call /\ call[c].pc = "fetch"
        /\ UNCHANGED <<inbox, ledger, answered, loose>>
    BY <1>4, CallTyped DEF Fetch, Serving
  <2>3. /\ r.pc = call[c].pc /\ r.question = call[c].question /\ r.tool = call[c].tool
        /\ r.baseline = call[c].baseline /\ r.found = call[c].found
    BY <2>1, <2>2 DEF Fetched, Skipped, Call
  <2>4. r.question \notin loose' => CallTight(call[c])
    BY <2>2, <2>3 DEF TightInv
  <2>5. r.question \notin loose' => CallTight(r)'
    BY <2>2, <2>3, <2>4 DEF CallTight
  <2> QED BY <2>1, <2>2, <2>5, QuietStep
<1>5. ASSUME NEW c \in Caller, LoseAnswer(c) \/ Fail(c)
      PROVE  TightInv'
  <2>1. PICK r : r = Idle
    OBVIOUS
  <2>2. Becomes(c, r) /\ UNCHANGED <<ledger, answered>> /\ r.pc = "idle"
    BY <1>5, <2>1, EndCall DEF LoseAnswer, Fail, Idle
  <2> QED BY <2>2, QuietStep
<1>6. ASSUME NEW c \in Caller, AppendEntry(c)
      PROVE  TightInv'
  <2>1. PICK r : r = Appended(c)
    OBVIOUS
  <2>2. /\ Becomes(c, r) /\ call[c] \in Call /\ call[c].question \in Question
        /\ call[c].pc = "fetch" /\ UNCHANGED <<inbox, answered, loose>>
    BY <1>6, <2>1, AppendCall, CallTyped DEF AppendEntry, Serving
  <2>3. PICK q \in Question : q = call[c].question
    BY <2>2
  <2>4. /\ r.pc = "answer" /\ r.question = q /\ r.tool = call[c].tool
        /\ r.baseline = call[c].baseline /\ r.found = call[c].found
    BY <2>1, <2>2, <2>3 DEF Appended, Call
  <2>5. call[c].found \subseteq Baseline(q)'
    BY <1>6, <2>3, BaselineOwn
  <2>6. q \notin loose => CallTight(call[c]) /\ QuestionTight(q)
    BY <2>2, <2>3 DEF TightInv
  <2>7. q \notin loose => QuestionTight(q)' /\ CallTight(r)'
    BY <2>2, <2>3, <2>4, <2>5, <2>6 DEF CallTight, QuestionTight
  <2>8. ASSUME NEW p \in Question \ loose' PROVE QuestionTight(p)'
    <3>1. CASE p = q
      BY <2>2, <2>7, <3>1
    <3>2. CASE p # q
      BY <1>6, <2>2, <2>3, <3>2, BaselineOther, QuestionStaysTight DEF TightInv
    <3> QED BY <3>1, <3>2
  <2>9. ASSUME NEW d \in Caller, call'[d].pc # "idle", call'[d].question \notin loose'
        PROVE  CallTight(call[d])'
    <3>1. CASE d = c
      BY <2>2, <2>4, <2>7, <2>9, <3>1 DEF Becomes, CallTight
    <3>2. CASE d # c
      <4>1. call'[d] = call[d] /\ call[d].question \in Question
        BY <2>2, <2>9, <3>2, CallTyped DEF Becomes
      <4>2. call[d].question # q
        BY <2>2, <2>3, <2>9, <3>2, <4>1 DEF TightInv, OneAtATime
      <4>3. PICK p \in Question : p = call[d].question
        BY <4>1
      <4>4. Baseline(p) \subseteq Baseline(p)'
        BY <1>6, <2>3, <4>2, <4>3, BaselineOther
      <4> QED BY <2>2, <2>9, <4>1, <4>3, <4>4, CallStaysTight DEF TightInv
    <3> QED BY <3>1, <3>2
  <2> QED BY <1>o, <2>8, <2>9 DEF TightInv
<1>7. ASSUME NEW c \in Caller, Answer(c)
      PROVE  TightInv'
  <2>1. /\ Becomes(c, Idle) /\ UNCHANGED <<inbox, ledger, loose>> /\ call[c].pc = "answer"
        /\ call[c] \in Call /\ call[c].question \in Question
        /\ call[c].messages \subseteq call[c].found
    BY <1>7, EndCall, CallTyped DEF Answer, Serving
  <2>2. PICK q \in Question : q = call[c].question
    BY <2>1
  <2>3. /\ answered'[q] = answered[q] \cup Shown(c) /\ Shown(c) \subseteq call[c].found
        /\ \A p \in Question \ {q} : answered'[p] = answered[p]
    BY <1>7, <2>1, <2>2 DEF Answer, TypeOK, Shown
  <2>4. \A p \in Question : Baseline(p)' = Baseline(p)
    BY <2>1 DEF Baseline
  <2>5. ASSUME NEW p \in Question \ loose' PROVE QuestionTight(p)'
    <3>1. CASE p = q
      <4>1. CallTight(call[c]) /\ QuestionTight(q)
        BY <2>1, <2>2, <2>5, <3>1 DEF TightInv
      <4> QED BY <2>1, <2>2, <2>3, <2>4, <3>1, <4>1 DEF CallTight, QuestionTight
    <3>2. CASE p # q
      BY <2>1, <2>3, <2>4, <3>2, QuestionStaysTight DEF TightInv
    <3> QED BY <3>1, <3>2
  <2>6. ASSUME NEW d \in Caller, call'[d].pc # "idle", call'[d].question \notin loose'
        PROVE  CallTight(call[d])'
    <3>1. d # c
      BY <2>1, <2>6 DEF Becomes, Idle
    <3>2. call'[d] = call[d] /\ call[d].question \in Question
      BY <2>1, <2>6, <3>1, CallTyped DEF Becomes
    <3>3. PICK p \in Question : p = call[d].question
      BY <3>2
    <3>4. p # q
      BY <2>1, <2>2, <2>6, <3>1, <3>2, <3>3 DEF TightInv, OneAtATime
    <3> QED BY <2>1, <2>3, <2>4, <2>6, <3>2, <3>3, <3>4, CallStaysTight DEF TightInv
  <2> QED BY <1>o, <2>5, <2>6 DEF TightInv
<1> QED BY <1>1, <1>2, <1>3, <1>4, <1>5, <1>6, <1>7 DEF Next, Serve

LEMMA TightInit == ASSUME SearchAssumption, Init PROVE TightInv
BY DEF Init, TightInv, OneAtATime, QuestionTight, Idle

\* What mail_search_since_last calls new has not been answered before, while
\* its question is asked by one call at a time, uncut and not widened.
THEOREM SearchNewIsNew == Spec => []NewIsNew
<1> DEFINE Inv == TypeOK /\ KnownInv /\ TightInv
<1>1. SearchAssumption
  BY SearchAssumption
<1>2. Init => Inv
  BY <1>1, TypeInit, KnownInit, TightInit
<1>3. Inv /\ [Next]_vars => Inv'
  BY <1>1, TypeStep, KnownStep, TightStep
<1>4. Inv => NewIsNew
  <2> SUFFICES ASSUME Inv, NEW c \in Caller, Serving(c, "answer"),
                      call[c].tool = "mail_search_since_last", call[c].question \notin loose
               PROVE  Shown(c) \cap answered[call[c].question] = {}
    BY DEF NewIsNew
  <2>1. CallTight(call[c]) /\ call[c].messages \subseteq call[c].found
    BY CallTyped DEF Serving, TightInv
  <2> QED BY <2>1 DEF CallTight, Serving, Shown
<1> QED BY <1>2, <1>3, <1>4, PTL DEF Spec
=============================================================================
