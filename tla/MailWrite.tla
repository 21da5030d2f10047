------------------------------ MODULE MailWrite ------------------------------
(***************************************************************************)
(* The tools of imap_hub_core/tools/write_handler.py that change a mail    *)
(* folder: mail_move_messages, mail_delete_messages, mail_set_seen and     *)
(* mail_move_duplicates_since_last_search.  A call opens an IMAP session   *)
(* and sends one command per step; other calls and other clients of the    *)
(* mailbox act between any two of them, the server refuses commands and    *)
(* connections drop.  Each call passed its checks (access, profile,        *)
(* write.enabled); a move names its destination, any folder other than the *)
(* one it works on.                                                        *)
(***************************************************************************)
EXTENDS Integers, FiniteSets

CONSTANTS
    MaxUid,         \* bound: UIDs are assigned from 1 to MaxUid
    Caller,         \* threads that serve tool calls
    Tools,          \* the tools they are asked for
    Dest,           \* the folders a message can be moved to
    MaxCalls,       \* bound: calls of all callers together
    MaxClients,     \* bound: commands of other clients that flag or unflag
    MaxFaults       \* bound: commands refused and connections dropped

AllTools == {"move", "delete", "seen", "duplicates"}

ASSUME WriteAssumption ==
    /\ MaxUid \in Nat /\ Tools \subseteq AllTools
    /\ MaxCalls \in Nat /\ MaxClients \in Nat /\ MaxFaults \in Nat

VARIABLES
    inbox,          \* server: UIDs of the messages in the folder
    deleted,        \* server: those of them that carry \Deleted
    uidNext,        \* server: UIDNEXT of the folder
    dest,           \* server: UIDs whose message was copied, per destination
    call,           \* the call each caller is serving
    reported,       \* history: UIDs reported as moved, each with the destination
    asked,          \* history: UIDs somebody asked to delete
    strayed,        \* history: UIDs a call copied or flagged and did not name
    calls, clients, faults  \* bookkeeping of the bounds

server == <<inbox, deleted, uidNext, dest>>
history == <<reported, asked, strayed>>
bounds == <<calls, clients, faults>>
vars == <<server, call, history, bounds>>

Uid == 1..MaxUid
Assigned == {u \in Uid : u < uidNext}

\* A call: the destination and the UIDs it names, the UIDs it still has to do
\* and the one it is at, the list it answers with, and the folder as its session
\* sees it.
Idle == [pc |-> "idle", tool |-> "none", to |-> "none", named |-> {}, todo |-> {},
         at |-> 0, done |-> {}, view |-> {}]

Init ==
    /\ \E n \in 0..MaxUid : uidNext = n + 1 /\ inbox = 1..n
    /\ deleted = {} /\ dest = [d \in Dest |-> {}]
    /\ call = [c \in Caller |-> Idle]
    /\ reported = {} /\ asked = {} /\ strayed = {}
    /\ calls = 0 /\ clients = 0 /\ faults = 0

-----------------------------------------------------------------------------
(* Other clients of the mailbox.                                           *)

Arrive ==
    /\ uidNext <= MaxUid /\ uidNext' = uidNext + 1
    /\ inbox' = inbox \cup {uidNext}
    /\ UNCHANGED <<deleted, dest, call, history, bounds>>

ClientFlags(u) ==
    /\ clients < MaxClients /\ clients' = clients + 1
    /\ u \in inbox /\ u \notin deleted
    /\ deleted' = deleted \cup {u} /\ asked' = asked \cup {u}
    /\ UNCHANGED <<inbox, uidNext, dest, call, reported, strayed, calls, faults>>

ClientUnflags(u) ==
    /\ clients < MaxClients /\ clients' = clients + 1
    /\ u \in deleted /\ deleted' = deleted \ {u}
    /\ UNCHANGED <<inbox, uidNext, dest, call, history, calls, faults>>

ClientExpunges ==
    /\ deleted # {} /\ inbox' = inbox \ deleted /\ deleted' = {}
    /\ UNCHANGED <<uidNext, dest, call, history, bounds>>

-----------------------------------------------------------------------------
(* Tool calls.                                                             *)

\* A call names UIDs its caller saw earlier, which need not be there any more;
\* another call may be moving the same ones to another folder.  The duplicates
\* are found by a search of its own, in a session of its own, which names them
\* by UID and keeps at least one message.
Begin(c, tool, to, S) ==
    /\ call[c] = Idle /\ calls < MaxCalls /\ calls' = calls + 1
    /\ IF tool \in {"move", "duplicates"} THEN to \in Dest ELSE to = "none"
    /\ S \subseteq (IF tool = "duplicates" THEN inbox ELSE Assigned)
    /\ tool = "duplicates" => S = {} \/ S # inbox
    /\ call' = [call EXCEPT ![c] =
                  [Idle EXCEPT !.pc = "open", !.tool = tool, !.to = to, !.named = S, !.todo = S]]
    /\ UNCHANGED <<server, history, clients, faults>>

Open(c) ==
    /\ call[c].pc = "open"
    /\ call' = [call EXCEPT ![c].pc = "next", ![c].view = inbox]
    /\ UNCHANGED <<server, history, bounds>>

\* The message a command of the call reaches.  UID COPY and UID STORE name it
\* by UID; client.copy() and client.store() of the duplicates tool put the UID
\* where IMAP has the sequence number, the rank in the session's view.
Rank(view, w) == Cardinality({x \in view : x <= w})

\* Slip: every tool goes by sequence number.
InView_ByNumber(c, u) == {w \in call[c].view : Rank(call[c].view, w) = u}

InView(c, u) ==
    IF call[c].tool = "duplicates" THEN {w \in call[c].view : Rank(call[c].view, w) = u}
    ELSE {u}
Reached(c, u) == InView(c, u) \cap inbox

\* A number beyond the view is answered BAD, and imaplib raises.
Valid(c, u) == InView(c, u) # {}

Stray(c, S) == strayed' = strayed \cup (S \ call[c].named)

\* Slip: the answer to COPY is not looked at.
CopyRefused_Ignored(c, u) ==
    call' = [call EXCEPT ![c].todo = @ \ {u}, ![c].at = u, ![c].pc = "store"]

\* Slip: the message is reported moved all the same.
CopyRefused_Reported(c, u) ==
    call' = [call EXCEPT ![c].todo = @ \ {u}, ![c].done = @ \cup {u}]

\* copy_status other than OK: the message is left alone.
CopyRefused(c, u) == call' = [call EXCEPT ![c].todo = @ \ {u}]

\* COPY or UID COPY to the call's own destination.  It is OK, and copies nothing,
\* for a UID that is not there.  Its answer may bring the session's view up to
\* date.
Copy(c, u) ==
    /\ call[c].pc = "next" /\ call[c].tool \in {"move", "duplicates"}
    /\ u \in call[c].todo /\ Valid(c, u)
    /\ \/ /\ \E view \in {call[c].view, inbox} :
                call' = [call EXCEPT ![c].todo = @ \ {u}, ![c].at = u,
                                     ![c].pc = "store", ![c].view = view]
          /\ dest' = [dest EXCEPT ![call[c].to] = @ \cup Reached(c, u)]
          /\ Stray(c, Reached(c, u))
          /\ UNCHANGED faults
       \/ /\ faults < MaxFaults /\ faults' = faults + 1
          /\ CopyRefused(c, u) /\ UNCHANGED <<dest, strayed>>
    /\ UNCHANGED <<inbox, deleted, uidNext, reported, asked, calls, clients>>

\* STORE +FLAGS \Deleted of the message just copied.  Only mail_move_messages
\* looks at the answer.
StoreMoved(c) ==
    /\ call[c].pc = "store" /\ Valid(c, call[c].at)
    /\ LET u == call[c].at
           Go(done) == call' = [call EXCEPT ![c].pc = "next", ![c].at = 0, ![c].done = done]
       IN  \/ /\ deleted' = deleted \cup Reached(c, u) /\ Stray(c, Reached(c, u))
              /\ Go(call[c].done \cup {u}) /\ UNCHANGED faults
           \/ /\ faults < MaxFaults /\ faults' = faults + 1
              /\ Go(IF call[c].tool = "move" THEN call[c].done ELSE call[c].done \cup {u})
              /\ UNCHANGED <<deleted, strayed>>
    /\ UNCHANGED <<inbox, uidNext, dest, reported, asked, calls, clients>>

\* UID STORE of mail_delete_messages, and of mail_set_seen, whose \Seen nothing
\* here depends on.
StoreNamed(c, u) ==
    /\ call[c].pc = "next" /\ call[c].tool \in {"delete", "seen"} /\ u \in call[c].todo
    /\ \/ /\ call' = [call EXCEPT ![c].todo = @ \ {u}, ![c].done = @ \cup {u}]
          /\ IF call[c].tool = "delete"
             THEN deleted' = deleted \cup Reached(c, u) /\ asked' = asked \cup Reached(c, u)
             ELSE UNCHANGED <<deleted, asked>>
          /\ Stray(c, Reached(c, u)) /\ UNCHANGED faults
       \/ /\ faults < MaxFaults /\ faults' = faults + 1
          /\ call' = [call EXCEPT ![c].todo = @ \ {u}]
          /\ UNCHANGED <<deleted, asked, strayed>>
    /\ UNCHANGED <<inbox, uidNext, dest, reported, calls, clients>>

\* The answer.  mail_move_duplicates_since_last_search lists all it named.
Answer(c) ==
    /\ call' = [call EXCEPT ![c] = Idle]
    /\ reported' = CASE call[c].tool = "move" -> reported \cup ({call[c].to} \X call[c].done)
                     [] call[c].tool = "duplicates" -> reported \cup ({call[c].to} \X call[c].named)
                     [] OTHER -> reported

\* Slip: the server is taken to clear the flags of what it keeps only.
Purge_KeepsFlags == inbox' = inbox \ deleted /\ UNCHANGED deleted

\* EXPUNGE: every message of the folder that carries \Deleted goes, whoever
\* flagged it.
Purge == inbox' = inbox \ deleted /\ deleted' = {}

Expunge(c) ==
    /\ call[c].pc = "next" /\ call[c].todo = {}
    /\ call[c].done # {} \/ call[c].tool = "duplicates"
    /\ Answer(c)
    /\ \/ Purge /\ UNCHANGED faults
       \* Refused: the answer is the same.
       \/ faults < MaxFaults /\ faults' = faults + 1 /\ UNCHANGED <<inbox, deleted>>
    /\ UNCHANGED <<uidNext, dest, asked, strayed, calls, clients>>

NothingDone(c) ==
    /\ call[c].pc = "next" /\ call[c].todo = {}
    /\ call[c].done = {} /\ call[c].tool # "duplicates"
    /\ Answer(c)
    /\ UNCHANGED <<server, asked, strayed, bounds>>

\* An exception ends the call with an error; what was done stays done.
Raise(c) == call' = [call EXCEPT ![c] = Idle] /\ UNCHANGED <<server, history>>

Drop(c) ==
    /\ call[c].pc # "idle" /\ faults < MaxFaults /\ faults' = faults + 1
    /\ Raise(c) /\ UNCHANGED <<calls, clients>>

BadNumber(c) ==
    /\ \/ call[c].pc = "next" /\ call[c].tool = "duplicates"
             /\ \E u \in call[c].todo : ~Valid(c, u)
       \/ call[c].pc = "store" /\ ~Valid(c, call[c].at)
    /\ Raise(c) /\ UNCHANGED bounds

-----------------------------------------------------------------------------
OtherClients ==
    \/ Arrive \/ ClientExpunges
    \/ \E u \in Uid : ClientFlags(u) \/ ClientUnflags(u)

Serve(c) ==
    \/ \E tool \in Tools, to \in Dest \cup {"none"}, S \in SUBSET Uid : Begin(c, tool, to, S)
    \/ Open(c)
    \/ \E u \in Uid : Copy(c, u) \/ StoreNamed(c, u)
    \/ StoreMoved(c) \/ Expunge(c) \/ NothingDone(c) \/ Drop(c)

\* The tools that go by UID raise for no number.
ByUidNext == OtherClients \/ \E c \in Caller : Serve(c)
ByUidSpec == Init /\ [][ByUidNext]_vars

Next == ByUidNext \/ \E c \in Caller : BadNumber(c)
Spec == Init /\ [][Next]_vars

-----------------------------------------------------------------------------
(* Properties.                                                             *)

\* The types; what carries a flag is in the folder, what is in the folder has
\* been assigned a UID.
TypeOK ==
    /\ inbox \in SUBSET Uid /\ deleted \in SUBSET inbox
    /\ dest \in [Dest -> SUBSET Uid]
    /\ uidNext \in 1..(MaxUid + 1) /\ inbox \subseteq Assigned
    /\ call \in [Caller ->
          [pc : {"idle", "open", "next", "store"}, tool : AllTools \cup {"none"},
           to : Dest \cup {"none"}, named : SUBSET Uid, todo : SUBSET Uid, at : {0} \cup Uid,
           done : SUBSET Uid, view : SUBSET Uid]]
    /\ reported \in SUBSET (Dest \X Uid) /\ asked \in SUBSET Uid /\ strayed \in SUBSET Uid
    /\ calls \in 0..MaxCalls /\ clients \in 0..MaxClients /\ faults \in 0..MaxFaults

\* What was copied somewhere, or somebody asked to delete.
Copied == {u \in Uid : \E d \in Dest : u \in dest[d]}
Kept == Copied \cup asked

\* mail_move_messages flags a message only after its COPY was answered OK, so
\* that no EXPUNGE, its own, another call's or another client's, whatever is
\* refused or cut short in between, removes a message for good that nobody
\* asked to delete.
NothingLost == Assigned \subseteq inbox \cup Kept

\* A message mail_move_messages reported as moved to a folder is in that folder.
\* The one exception is a UID that had left before its COPY, which the server
\* answers OK: the message is not in the folder it was moved from, and another
\* call moved it elsewhere or somebody asked to delete it.
IsMoved(d, u) == u \in dest[d] \/ u \in Kept \ inbox
MovedIsKept == \A r \in reported : IsMoved(r[1], r[2])

\* The comment in _uid_command(): "API mutation payloads operate on message
\* UIDs": a call copies and flags only messages it names.
MutatesNamedUids == strayed = {}
=============================================================================
