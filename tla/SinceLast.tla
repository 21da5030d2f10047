------------------------------ MODULE SinceLast ------------------------------
(***************************************************************************)
(* mail_search and mail_search_since_last of imap_hub_core/tools/          *)
(* search_handler.py on one folder, in the modes that search it live, with *)
(* the search ledger of one server process: one IMAP command or ledger     *)
(* access per step, while messages arrive and are expunged.  A ledger has  *)
(* no lock.  The HTTP routes call the tools one after another on the event *)
(* loop of their process; the A2A server also hands them as functions to   *)
(* the agent router of a library, which may run them in threads.  Calls    *)
(* interleave here, and behaviours without overlap are among those.        *)
(* Each call passed its checks and asks something: an empty query is a     *)
(* question of its own.  What a question matches does not change while a   *)
(* message is there (its headers and text, not its flags), UIDVALIDITY     *)
(* does not change, and a restart, which empties the ledger, begins a new  *)
(* behaviour.                                                              *)
(***************************************************************************)
EXTENDS Integers, FiniteSets, Sequences

CONSTANTS
    MaxUid,         \* bound: UIDs are assigned from 1 to MaxUid
    Caller,         \* bound: calls under way at once
    Question,       \* similarity keys: a query with its mode and filters
    Match,          \* the UIDs of the messages each question matches
    Limits,         \* the limits a mail_search may have
    Window,         \* the limit of every live mail_search_since_last
    MaxCalls,       \* bound: calls of all callers together
    MaxFaults       \* bound: commands refused, connections dropped, answers lost

Uid == 1..MaxUid
Limit == Limits \cup {Window}

ASSUME SearchAssumption ==
    /\ MaxUid \in Nat /\ MaxCalls \in Nat /\ MaxFaults \in Nat
    /\ Match \in [Question -> SUBSET Uid]
    /\ Limits \subseteq Nat \ {0} /\ Window \in Nat \ {0}

VARIABLES
    inbox,          \* server: UIDs of the messages in the folder
    uidNext,        \* server: UIDNEXT of the folder
    ledger,         \* SearchLedgerStore: question and result_ids, oldest first
    call,           \* the call each caller is serving, Idle if none
    answered,       \* history: UIDs in the answers to each question
    missed,         \* history: UIDs whose header could not be fetched for a
                    \* question, or whose answer was lost
    loose,          \* history: questions asked by two calls at once, cut by a
                    \* limit, or answered with SEARCH ALL
    calls, faults   \* bookkeeping of the bounds

server == <<inbox, uidNext>>
history == <<answered, missed, loose>>
vars == <<server, ledger, call, history, calls, faults>>

Tools == {"mail_search", "mail_search_since_last"}

\* A call: its request, the baseline it looked up, the UIDs it found, those
\* whose headers it has still to fetch, and the messages it fetched.
Idle == [pc |-> "idle", tool |-> "none", question |-> "none", limit |-> 0,
         baseline |-> {}, found |-> {}, todo |-> {}, messages |-> {}]

Init ==
    /\ \E n \in 0..MaxUid : uidNext = n + 1 /\ inbox = 1..n
    /\ ledger = <<>> /\ call = [c \in Caller |-> Idle]
    /\ answered = [q \in Question |-> {}] /\ missed = answered /\ loose = {}
    /\ calls = 0 /\ faults = 0

-----------------------------------------------------------------------------
(* Other clients of the mailbox.                                           *)

Arrive ==
    /\ uidNext <= MaxUid /\ uidNext' = uidNext + 1
    /\ inbox' = inbox \cup {uidNext}
    /\ UNCHANGED <<ledger, call, history, calls, faults>>

Expunge(u) ==
    /\ u \in inbox /\ inbox' = inbox \ {u}
    /\ UNCHANGED <<uidNext, ledger, call, history, calls, faults>>

-----------------------------------------------------------------------------
(* The ledger.                                                             *)

\* Slip: the similarity key is not compared.
Baseline_AnyQuestion(q) ==
    {u \in Uid : \E i \in DOMAIN ledger :
        u \in ledger[i].ids /\ \A j \in DOMAIN ledger : j <= i}

\* find_last_similar(): the result_ids of the newest entry of the question.
Baseline(q) ==
    {u \in Uid : \E i \in DOMAIN ledger :
        /\ ledger[i].question = q /\ u \in ledger[i].ids
        /\ \A j \in DOMAIN ledger : ledger[j].question = q => j <= i}

-----------------------------------------------------------------------------
(* A call.                                                                 *)

Fault == faults < MaxFaults /\ faults' = faults + 1
Serving(c, pc) == call[c].pc = pc
Alone(c, q) == \A d \in Caller \ {c} : call[d] = Idle \/ call[d].question # q

\* The last k UIDs of an answer, which is in ascending order.
Newest(S, k) == {u \in S : Cardinality({w \in S : w > u}) < k}

\* mail_search_since_last looks its baseline up before it searches, with the
\* limit that _search_live_messages() has by default.
Begin(c, tool, q, k) ==
    /\ call[c] = Idle /\ calls < MaxCalls /\ calls' = calls + 1
    /\ IF tool = "mail_search" THEN k \in Limits ELSE k = Window
    /\ call' = [call EXCEPT ![c] =
                  [pc |-> "search", tool |-> tool, question |-> q, limit |-> k,
                   baseline |-> IF tool = "mail_search" THEN {} ELSE Baseline(q),
                   found |-> {}, todo |-> {}, messages |-> {}]]
    /\ loose' = IF Alone(c, q) THEN loose ELSE loose \cup {q}
    /\ UNCHANGED <<server, ledger, answered, missed, faults>>

\* Slip: every UID of the answer goes to the ledger.
Record_BeforeLimit(all, k) == all

\* Slip: the slice is one short.
Record_OneShort(all, k) == Newest(all, k - 1)

\* The UIDs that go to the ledger as the result.
Record(all, k) == Newest(all, k)

Select(c, all, strict) ==
    /\ call' = [call EXCEPT ![c].pc = "fetch", ![c].found = Record(all, call[c].limit),
                            ![c].todo = Newest(all, call[c].limit)]
    /\ loose' = IF strict /\ Newest(all, call[c].limit) = all THEN loose
                ELSE loose \cup {call[c].question}
    /\ UNCHANGED <<server, ledger, answered, missed, calls>>

Search(c) ==
    /\ Serving(c, "search")
    /\ Select(c, inbox \cap Match[call[c].question], TRUE)
    /\ UNCHANGED faults

\* SEARCH is refused: SEARCH ALL instead.
SearchAll(c) == Serving(c, "search") /\ Fault /\ Select(c, inbox, FALSE)

\* The headers of one message.  One that was expunged may have none, one whose
\* FETCH is refused has none; it is left out of the answer.
Fetch(c, u) ==
    /\ Serving(c, "fetch") /\ u \in call[c].todo /\ \A w \in call[c].todo : u <= w
    /\ \/ /\ UNCHANGED <<missed, faults>>
          /\ call' = [call EXCEPT ![c].todo = @ \ {u}, ![c].messages = @ \cup {u}]
       \/ /\ \/ u \notin inbox /\ UNCHANGED <<missed, faults>>
             \/ Fault /\ missed' = [missed EXCEPT ![call[c].question] = @ \cup {u}]
          /\ call' = [call EXCEPT ![c].todo = @ \ {u}]
    /\ UNCHANGED <<server, ledger, answered, loose, calls>>

\* Slip: the entry holds what is new only.
Entry_NewOnly(c) ==
    [question |-> call[c].question, ids |-> call[c].found \ call[c].baseline]

\* LedgerEntry with its result_ids, those without headers among them.
Entry(c) == [question |-> call[c].question, ids |-> call[c].found]

AppendEntry(c) ==
    /\ Serving(c, "fetch") /\ call[c].todo = {}
    /\ ledger' = Append(ledger, Entry(c))
    /\ call' = [call EXCEPT ![c].pc = "answer"]
    /\ UNCHANGED <<server, history, calls, faults>>

\* The messages of the answer: new_messages are those not in the baseline.
Shown(c) == call[c].messages \ call[c].baseline

Answer(c) ==
    /\ Serving(c, "answer")
    /\ answered' = [answered EXCEPT ![call[c].question] = @ \cup Shown(c)]
    /\ call' = [call EXCEPT ![c] = Idle]
    /\ UNCHANGED <<server, ledger, missed, loose, calls, faults>>

\* The answer does not reach the caller: the connection to it is gone, or the
\* audit raises behind append().
LoseAnswer(c) ==
    /\ Serving(c, "answer") /\ Fault
    /\ missed' = [missed EXCEPT ![call[c].question] = @ \cup Shown(c)]
    /\ call' = [call EXCEPT ![c] = Idle]
    /\ UNCHANGED <<server, ledger, answered, loose, calls>>

\* imap_search_failed: no session, SEARCH ALL refused too, or the connection
\* dropped.  Nothing is recorded.
Fail(c) ==
    /\ Serving(c, "search") /\ Fault
    /\ call' = [call EXCEPT ![c] = Idle]
    /\ UNCHANGED <<server, ledger, history, calls>>

-----------------------------------------------------------------------------
OtherClients == Arrive \/ \E u \in Uid : Expunge(u)

Serve(c) ==
    \/ \E tool \in Tools, q \in Question, k \in Limit : Begin(c, tool, q, k)
    \/ Search(c) \/ SearchAll(c) \/ (\E u \in Uid : Fetch(c, u))
    \/ AppendEntry(c) \/ Answer(c) \/ LoseAnswer(c) \/ Fail(c)

Next == OtherClients \/ \E c \in Caller : Serve(c)
Spec == Init /\ [][Next]_vars

-----------------------------------------------------------------------------
(* Properties.                                                             *)

Call == [pc : {"idle", "search", "fetch", "answer"}, tool : Tools \cup {"none"},
         question : Question \cup {"none"}, limit : Limit \cup {0},
         baseline : SUBSET Uid, found : SUBSET Uid, todo : SUBSET Uid,
         messages : SUBSET Uid]

\* The types; a call under way asks something, and has fetched, or has still to
\* fetch, only what goes to the ledger with it.
TypeOK ==
    /\ inbox \in SUBSET Uid /\ uidNext \in 1..(MaxUid + 1)
    /\ ledger \in Seq([question : Question, ids : SUBSET Uid])
    /\ call \in [Caller -> Call]
    /\ \A c \in Caller : call[c] = Idle \/
          /\ call[c].pc # "idle" /\ call[c].question \in Question
          /\ call[c].messages \cup call[c].todo \subseteq call[c].found
          /\ call[c].pc = "search" => call[c].messages = {}
    /\ answered \in [Question -> SUBSET Uid] /\ missed \in [Question -> SUBSET Uid]
    /\ loose \in SUBSET Question /\ calls \in 0..MaxCalls /\ faults \in 0..MaxFaults

\* What a call that asks q is about to answer with.
InAnswer(q, u) == \E c \in Caller : call[c].question = q /\ u \in Shown(c)

\* mail_search_since_last keeps back what the newest similar search recorded.
\* However the calls interleave, whatever the limits cut off and whichever of
\* them fell back to SEARCH ALL, a message recorded for a question and still
\* there is in an answer to this question, given or on its way, to some caller
\* (the ledger knows one actor, "system"), unless it was lost by a fault.
RecordedIsAnswered ==
    \A i \in DOMAIN ledger : \A u \in ledger[i].ids \cap inbox :
        \/ u \in answered[ledger[i].question] \cup missed[ledger[i].question]
        \/ InAnswer(ledger[i].question, u)

\* "messages that are new since the last similar baseline": an answer of
\* mail_search_since_last names no message that an answer to the question named
\* before, as long as no two calls asked it at once, no limit cut an answer and
\* no refused SEARCH was widened.
NewIsNew ==
    \A c \in Caller :
        /\ Serving(c, "answer") /\ call[c].tool = "mail_search_since_last"
        /\ call[c].question \notin loose
        => Shown(c) \cap answered[call[c].question] = {}
=============================================================================
