--------------------------- MODULE MailWriteProofs ---------------------------
(***************************************************************************)
(* No message is lost, and none touched that was not named, by the tools   *)
(* that name messages by UID, for any number of callers, messages, calls   *)
(* and faults.                                                             *)
(***************************************************************************)
EXTENDS MailWrite, FiniteSetTheorems, TLAPS

\* The type of a call.
CallType == [pc : {"idle", "open", "next", "store"}, tool : AllTools \cup {"none"},
          to : Dest \cup {"none"}, named : SUBSET Uid, todo : SUBSET Uid, at : {0} \cup Uid,
          done : SUBSET Uid, view : SUBSET Uid]

\* The UIDs of a call were assigned and named; the one it just copied, and those
\* it will report as moved, are in its own destination or had left before.
CallSafe(c) ==
    /\ call[c].tool # "duplicates"
    /\ call[c].pc = "store" => /\ call[c].tool = "move" /\ call[c].at \in call[c].named
                               /\ IsMoved(call[c].to, call[c].at)
    /\ call[c].todo \subseteq Assigned \cap call[c].named
    /\ call[c].tool = "move" => /\ call[c].to \in Dest
                                /\ \A u \in call[c].done : IsMoved(call[c].to, u)

Inv ==
    /\ TypeOK /\ NothingLost /\ MovedIsKept /\ MutatesNamedUids
    /\ deleted \subseteq Kept /\ Kept \subseteq Assigned
    /\ \A c \in Caller : CallSafe(c)

\* Initially every assigned UID is in the folder and nobody is in a call.
LEMMA WriteInit == Init => Inv
<1> USE WriteAssumption
<1> SUFFICES ASSUME Init PROVE Inv  OBVIOUS
<1>1. PICK n \in 0..MaxUid : uidNext = n + 1 /\ inbox = 1..n  BY DEF Init
<1>2. TypeOK
  BY <1>1 DEF Init, TypeOK, Assigned, Uid, Idle, AllTools
<1>3. NothingLost /\ MovedIsKept /\ MutatesNamedUids
  BY <1>1 DEF Init, NothingLost, MovedIsKept, MutatesNamedUids, Assigned, Uid
<1>4. deleted \subseteq Kept /\ Kept \subseteq Assigned
  BY DEF Init, Kept, Copied
<1>5. \A c \in Caller : CallSafe(c)
  BY DEF Init, CallSafe, Idle
<1> QED  BY <1>2, <1>3, <1>4, <1>5 DEF Inv

\* What no step undoes: a copy, a request to delete, a UID that was assigned; and
\* the only message that comes to the folder is a new one.
Grows ==
    /\ \A d \in Dest : dest[d] \subseteq dest'[d]
    /\ asked \subseteq asked' /\ Assigned \subseteq Assigned'
    /\ inbox' \subseteq inbox \cup {uidNext}

\* So a message that was moved stays so.
LEMMA MovedStays ==
    ASSUME Kept \subseteq Assigned, uidNext \in Int, Grows,
           NEW d \in Dest, NEW u, IsMoved(d, u)
    PROVE  IsMoved(d, u)'
<1>1. CASE u \in dest[d]
  BY <1>1 DEF Grows, IsMoved
<1>2. CASE u \in Kept \ inbox
  <2>1. u \in Uid /\ u # uidNext
    BY <1>2 DEF Assigned, Uid
  <2>2. u \in Kept'
    BY <1>2 DEF Grows, Kept, Copied
  <2> QED  BY <1>2, <2>1, <2>2 DEF Grows, IsMoved
<1> QED  BY <1>1, <1>2 DEF IsMoved

\* What was reported stays true, and a call that does not move stays safe.
LEMMA ReportsStay ==
    ASSUME Inv, Grows, reported' = reported
    PROVE  MovedIsKept'
<1>1. \A r \in reported : r[1] \in Dest /\ IsMoved(r[1], r[2])
  BY DEF Inv, TypeOK, MovedIsKept
<1>2. \A r \in reported : IsMoved(r[1], r[2])'
  BY <1>1, MovedStays DEF Inv, TypeOK
<1> QED  BY <1>2 DEF MovedIsKept

LEMMA CallStays ==
    ASSUME Inv, Grows, NEW c \in Caller, call'[c] = call[c]
    PROVE  CallSafe(c)'
<1>1. CallSafe(c) /\ uidNext \in Int /\ Kept \subseteq Assigned
  BY DEF Inv, TypeOK
<1>2. PICK t, a : t = call[c].to /\ a = call[c].at
  OBVIOUS
<1>3. call'[c].to = t /\ call'[c].at = a
  BY <1>2
<1>4. ASSUME call[c].pc = "store" PROVE IsMoved(t, a)'
  BY <1>1, <1>2, <1>4, MovedStays DEF CallSafe
<1>5. ASSUME call[c].tool = "move", NEW u \in call[c].done PROVE IsMoved(t, u)'
  BY <1>1, <1>2, <1>5, MovedStays DEF CallSafe
<1>6. call[c].pc = "store" => (IsMoved(call[c].to, call[c].at))'
  BY <1>3, <1>4 DEF IsMoved
<1>7. call[c].tool = "move" => (\A u \in call[c].done : IsMoved(call[c].to, u))'
  BY <1>3, <1>5 DEF IsMoved
<1> QED  BY <1>1, <1>6, <1>7 DEF CallSafe, Grows

\* The same of the call that moves, when it keeps what it was asked for and adds
\* to its answer at most one message, which is moved.
LEMMA OwnCall ==
    ASSUME Inv, Grows, NEW c \in Caller, NEW t, NEW a, t = call[c].to,
           UNCHANGED <<call[c].tool, call[c].to, call[c].named>>,
           call'[c].todo \subseteq call[c].todo,
           call'[c].done \subseteq call[c].done \/ IsMoved(t, a)',
           call'[c].done \subseteq call[c].done \cup {a},
           call'[c].pc = "store" =>
              /\ call[c].tool = "move" /\ call'[c].at = a
              /\ a \in call[c].named /\ IsMoved(t, a)'
    PROVE  CallSafe(c)'
<1>1. CallSafe(c) /\ uidNext \in Int /\ Kept \subseteq Assigned
  BY DEF Inv, TypeOK
<1>2. ASSUME call[c].tool = "move", NEW u \in call'[c].done PROVE IsMoved(t, u)'
  <2>1. CASE u \in call[c].done
    BY <1>1, <1>2, <2>1, MovedStays DEF CallSafe
  <2>2. CASE u = a /\ u \notin call[c].done
    BY <1>2, <2>2
  <2> QED  BY <1>2, <2>1, <2>2
<1>3. call[c].tool = "move" => (\A u \in call[c].done : IsMoved(call[c].to, u))'
  BY <1>2 DEF IsMoved
<1>4. (call[c].pc = "store" => IsMoved(call[c].to, call[c].at))'
  BY DEF IsMoved
<1> QED  BY <1>1, <1>3, <1>4 DEF CallSafe, Grows

LEMMA OthersStay ==
    ASSUME Inv, Grows, NEW c \in Caller, CallSafe(c)',
           \A d \in Caller : d # c => call'[d] = call[d]
    PROVE  \A d \in Caller : CallSafe(d)'
BY CallStays

\* A call that starts or selects the folder has done nothing yet.
LEMMA WriteBegin ==
    ASSUME Inv, NEW c \in Caller,
           \/ \E tool \in Tools \ {"duplicates"}, to \in Dest \cup {"none"},
                 S \in SUBSET Uid : Begin(c, tool, to, S)
           \/ Open(c)
    PROVE  Inv'
<1> USE WriteAssumption DEF Inv
<1>0. call \in [Caller -> CallType]
  BY DEF TypeOK, CallType
<1>1. UNCHANGED <<server, history, clients>> /\ calls' \in 0..MaxCalls /\ faults' = faults
  <2>1. ASSUME NEW tool, NEW to, NEW S, Begin(c, tool, to, S) PROVE <1>1!:
    <3>1. UNCHANGED <<server, history, clients, faults>> /\ calls < MaxCalls /\ calls' = calls + 1
      BY <2>1 DEF Begin
    <3> QED  BY <3>1 DEF TypeOK
  <2>2. CASE Open(c)
    BY <2>2 DEF Open, bounds, TypeOK
  <2> QED  BY <2>1, <2>2
<1>2. Kept' = Kept /\ Assigned' = Assigned /\ Grows
  BY <1>1 DEF server, history, Kept, Copied, Assigned, Grows
<1>3. call' \in [Caller -> CallType] /\ CallSafe(c)' /\ \A d \in Caller : d # c => call'[d] = call[d]
  <2>1. ASSUME NEW tool \in Tools \ {"duplicates"}, NEW to \in Dest \cup {"none"},
               NEW S \in SUBSET Uid, Begin(c, tool, to, S)
        PROVE  <1>3!:
    <3> DEFINE new == [Idle EXCEPT !.pc = "open", !.tool = tool, !.to = to, !.named = S, !.todo = S]
    <3>1. new \in CallType
      BY DEF CallType, Idle
    <3>2. call' = [call EXCEPT ![c] = new] /\ S \subseteq Assigned /\ (tool = "move" => to \in Dest)
      BY <2>1 DEF Begin
    <3>3. call'[c] = new
      BY <1>0, <3>2
    <3>4. CallSafe(c)'
      <4>1. /\ call'[c].tool = tool /\ call'[c].to = to /\ call'[c].pc = "open"
            /\ call'[c].named = S /\ call'[c].todo = S /\ call'[c].done = {}
        BY <3>3 DEF Idle
      <4> QED  BY <1>2, <3>2, <4>1 DEF CallSafe
    <3> QED  BY <1>0, <3>1, <3>2, <3>4
  <2>2. CASE Open(c)
    <3> DEFINE new == [call[c] EXCEPT !.pc = "next", !.view = inbox]
    <3>1. new \in CallType
      BY <1>0 DEF CallType, TypeOK
    <3>2. call' = [call EXCEPT ![c] = new]
      BY <2>2 DEF Open
    <3>3. call'[c] = new
      BY <1>0, <3>2
    <3>4. CallSafe(c)'
      BY <1>0, <1>2, <3>3, OwnCall DEF CallType
    <3> QED  BY <1>0, <3>1, <3>2, <3>4
  <2> QED  BY <2>1, <2>2
<1>4. TypeOK'
  BY <1>1, <1>2, <1>3 DEF TypeOK, CallType, server, history
<1> QED  BY <1>1, <1>2, <1>3, <1>4, ReportsStay, OthersStay
         DEF server, history, NothingLost, MutatesNamedUids

\* By UID, a command reaches the message it names, if it is there.
LEMMA ReachedByUid ==
    ASSUME NEW c \in Caller, call[c].tool # "duplicates", NEW u
    PROVE  Reached(c, u) = {u} \cap inbox
BY DEF Reached, InView

\* After a COPY answered OK the message is in the call's destination, or it was
\* not there, and then it is kept elsewhere.
LEMMA WriteCopy ==
    ASSUME Inv, NEW c \in Caller, NEW u \in Uid, Copy(c, u)
    PROVE  Inv'
<1> USE WriteAssumption DEF Inv
<1>0. PICK t : t = call[c].to
  OBVIOUS
<1>1. /\ call[c].tool = "move" /\ u \in call[c].todo /\ u \in Assigned /\ u \in call[c].named
      /\ t \in Dest /\ call[c].pc = "next"
  BY <1>0 DEF Copy, CallSafe
<1>2. Reached(c, u) = {u} \cap inbox
  BY <1>1, ReachedByUid
<1>3. UNCHANGED <<inbox, deleted, uidNext, reported, asked, calls, clients>>
  BY DEF Copy
<1>4. call \in [Caller -> CallType] /\ dest \in [Dest -> SUBSET Uid]
  BY DEF TypeOK, CallType
<1>5. CASE /\ \E view \in {call[c].view, inbox} :
                 call' = [call EXCEPT ![c].todo = @ \ {u}, ![c].at = u,
                                      ![c].pc = "store", ![c].view = view]
           /\ dest' = [dest EXCEPT ![call[c].to] = @ \cup Reached(c, u)]
           /\ Stray(c, Reached(c, u)) /\ UNCHANGED faults
  <2>1. PICK view \in {call[c].view, inbox} :
           call' = [call EXCEPT ![c].todo = @ \ {u}, ![c].at = u,
                                ![c].pc = "store", ![c].view = view]
    BY <1>5
  <2>2. view \in SUBSET Uid
    BY <1>4, <2>1 DEF TypeOK, CallType
  <2>3. call' \in [Caller -> CallType] /\ \A d \in Caller : d # c => call'[d] = call[d]
    <3> DEFINE new == [call[c] EXCEPT !.todo = @ \ {u}, !.at = u, !.pc = "store", !.view = view]
    <3>1. new \in CallType
      BY <1>4, <2>2 DEF CallType
    <3>2. call' = [call EXCEPT ![c] = new]
      BY <1>4, <2>1
    <3> QED  BY <1>4, <3>1, <3>2
  <2>4. /\ dest' \in [Dest -> SUBSET Uid] /\ dest'[t] = dest[t] \cup ({u} \cap inbox)
        /\ \A d \in Dest : d # t => dest'[d] = dest[d]
    BY <1>0, <1>1, <1>2, <1>4, <1>5
  <2>5. Grows /\ Assigned' = Assigned
    BY <1>3, <2>4 DEF Grows, Assigned
  <2>6. Copied' = Copied \cup ({u} \cap inbox)
    BY <1>1, <2>4 DEF Copied
  <2>7. IsMoved(t, u)'
    BY <1>1, <1>3, <2>4, <2>6 DEF IsMoved, Kept, NothingLost
  <2>8. CallSafe(c)'
    BY <1>0, <1>1, <1>4, <2>1, <2>5, <2>7, OwnCall DEF CallType
  <2>9. MutatesNamedUids' /\ NothingLost' /\ (deleted \subseteq Kept /\ Kept \subseteq Assigned)'
    BY <1>1, <1>2, <1>3, <1>5, <2>5, <2>6 DEF Stray, MutatesNamedUids, NothingLost, Kept
  <2>10. TypeOK'
    BY <1>3, <1>5, <2>3, <2>4, <2>5, <2>9 DEF TypeOK, CallType, MutatesNamedUids
  <2> QED  BY <1>3, <2>3, <2>5, <2>8, <2>9, <2>10, ReportsStay, OthersStay
<1>6. CASE /\ faults < MaxFaults /\ faults' = faults + 1
           /\ CopyRefused(c, u) /\ UNCHANGED <<dest, strayed>>
  <2>1. call' = [call EXCEPT ![c].todo = @ \ {u}]
    BY <1>6 DEF CopyRefused
  <2>2. call' \in [Caller -> CallType] /\ \A d \in Caller : d # c => call'[d] = call[d]
    BY <1>4, <2>1 DEF CallType
  <2>3. Kept' = Kept /\ Assigned' = Assigned /\ Grows
    BY <1>3, <1>6 DEF Kept, Copied, Assigned, Grows
  <2>4. CallSafe(c)'
    BY <1>1, <1>4, <2>1, <2>3, OwnCall DEF CallType
  <2>5. TypeOK'
    BY <1>3, <1>6, <2>2, <2>3 DEF TypeOK, CallType
  <2> QED  BY <1>3, <1>6, <2>2, <2>3, <2>4, <2>5, ReportsStay, OthersStay
           DEF NothingLost, MutatesNamedUids
<1> QED  BY <1>5, <1>6 DEF Copy

\* The flag goes on a message that is kept.
LEMMA WriteStoreMoved ==
    ASSUME Inv, NEW c \in Caller, StoreMoved(c)
    PROVE  Inv'
<1> USE WriteAssumption DEF Inv
<1>0. PICK t, a : t = call[c].to /\ a = call[c].at
  OBVIOUS
<1>1. /\ call[c].tool = "move" /\ a \in call[c].named /\ IsMoved(t, a) /\ t \in Dest
      /\ call \in [Caller -> CallType]
  BY <1>0 DEF StoreMoved, CallSafe, TypeOK, CallType
<1>2. Reached(c, a) = {a} \cap inbox
  BY <1>1, ReachedByUid
<1>3. PICK done \in {call[c].done, call[c].done \cup {a}} :
         call' = [call EXCEPT ![c].pc = "next", ![c].at = 0, ![c].done = done]
  BY <1>0 DEF StoreMoved
<1>4. /\ deleted' \in {deleted, deleted \cup ({a} \cap inbox)}
      /\ strayed' \in {strayed, strayed \cup (({a} \cap inbox) \ call[c].named)}
      /\ faults' \in 0..MaxFaults
      /\ UNCHANGED <<inbox, uidNext, dest, reported, asked, calls, clients>>
  BY <1>0, <1>2 DEF StoreMoved, Stray, TypeOK
<1>5. Kept' = Kept /\ Assigned' = Assigned /\ Grows
  BY <1>4 DEF Kept, Copied, Assigned, Grows
<1>6. a \in Kept /\ a \in Uid
  BY <1>1 DEF IsMoved, Kept, Copied, Assigned, TypeOK
<1>7. call' \in [Caller -> CallType] /\ \A d \in Caller : d # c => call'[d] = call[d]
  <2> DEFINE new == [call[c] EXCEPT !.pc = "next", !.at = 0, !.done = done]
  <2>1. new \in CallType
    BY <1>1, <1>3, <1>6 DEF CallType
  <2>2. call' = [call EXCEPT ![c] = new]
    BY <1>1, <1>3
  <2> QED  BY <1>1, <2>1, <2>2
<1>8. IsMoved(t, a)'
  BY <1>1, <1>5, MovedStays DEF TypeOK
<1>9. CallSafe(c)'
  <2>1. /\ call'[c].pc = "next" /\ call'[c].done \subseteq call[c].done \cup {a}
        /\ call'[c].todo = call[c].todo
        /\ UNCHANGED <<call[c].tool, call[c].to, call[c].named>>
    BY <1>1, <1>3 DEF CallType
  <2> QED  BY <1>0, <1>5, <1>8, <2>1, OwnCall
<1>10. TypeOK'
  BY <1>4, <1>5, <1>6, <1>7, <1>1 DEF TypeOK, CallType, MutatesNamedUids
<1> QED  BY <1>1, <1>4, <1>5, <1>6, <1>7, <1>9, <1>10, ReportsStay, OthersStay
         DEF NothingLost, MutatesNamedUids

\* mail_delete_messages flags what it was asked to delete.
LEMMA WriteStoreNamed ==
    ASSUME Inv, NEW c \in Caller, NEW u \in Uid, StoreNamed(c, u)
    PROVE  Inv'
<1> USE WriteAssumption DEF Inv
<1>1. call[c].tool \in {"delete", "seen"} /\ u \in call[c].named /\ call[c].pc = "next"
  BY DEF StoreNamed, CallSafe
<1>2. Reached(c, u) = {u} \cap inbox
  BY <1>1, ReachedByUid
<1>3. /\ call' \in {[call EXCEPT ![c].todo = @ \ {u}],
                    [call EXCEPT ![c].todo = @ \ {u}, ![c].done = @ \cup {u}]}
      /\ \/ UNCHANGED <<deleted, asked>>
         \/ /\ deleted' = deleted \cup ({u} \cap inbox)
            /\ asked' = asked \cup ({u} \cap inbox)
      /\ strayed' \in {strayed, strayed \cup (({u} \cap inbox) \ call[c].named)}
      /\ faults' \in 0..MaxFaults
      /\ UNCHANGED <<inbox, uidNext, dest, reported, calls, clients>>
  BY <1>2 DEF StoreNamed, Stray, TypeOK
<1>4. call \in [Caller -> CallType]
  BY DEF TypeOK, CallType
<1>5. call' \in [Caller -> CallType] /\ \A d \in Caller : d # c => call'[d] = call[d]
  BY <1>3, <1>4 DEF CallType
<1>6. /\ UNCHANGED <<call[c].tool, call[c].named>> /\ call'[c].todo \subseteq call[c].todo
      /\ call'[c].pc = "next"
  BY <1>1, <1>3, <1>4 DEF CallType
<1>7. Assigned' = Assigned /\ Grows /\ inbox \subseteq Assigned
  BY <1>3 DEF Assigned, Grows, TypeOK
<1>8. Copied' = Copied /\ asked \subseteq asked'
  BY <1>3 DEF Copied
<1>9. CallSafe(c)'
  BY <1>1, <1>6, <1>7 DEF CallSafe
<1>10. TypeOK'
  BY <1>3, <1>5, <1>7 DEF TypeOK, CallType
<1>11. MutatesNamedUids' /\ NothingLost' /\ (deleted \subseteq Kept /\ Kept \subseteq Assigned)'
  BY <1>1, <1>3, <1>7, <1>8 DEF MutatesNamedUids, NothingLost, Kept
<1> QED  BY <1>3, <1>5, <1>7, <1>9, <1>10, <1>11, ReportsStay, OthersStay

\* However a call ends, EXPUNGE removes only messages that are kept, and the
\* answer reports only moved ones.
LEMMA WriteEnd ==
    ASSUME Inv, NEW c \in Caller, Expunge(c) \/ NothingDone(c) \/ Drop(c)
    PROVE  Inv'
<1> USE WriteAssumption DEF Inv
<1>0. PICK t, done : t = call[c].to /\ done = call[c].done
  OBVIOUS
<1>1. call' = [call EXCEPT ![c] = Idle] /\ call \in [Caller -> CallType]
  BY DEF Expunge, NothingDone, Drop, Answer, Raise, TypeOK, CallType
<1>2. \/ reported' = reported
      \/ call[c].tool = "move" /\ reported' = reported \cup ({t} \X done)
  BY <1>0 DEF Expunge, NothingDone, Drop, Answer, Raise, CallSafe, history
<1>3. /\ \/ UNCHANGED <<inbox, deleted>>
         \/ inbox' = inbox \ deleted /\ deleted' = {}
      /\ faults' \in 0..MaxFaults
      /\ UNCHANGED <<uidNext, dest, asked, strayed, calls, clients>>
  BY DEF Expunge, NothingDone, Drop, Answer, Raise, Purge, TypeOK, server, history, bounds
<1>4. Kept' = Kept /\ Assigned' = Assigned /\ Grows
  BY <1>3 DEF Kept, Copied, Assigned, Grows
<1>5. call' \in [Caller -> CallType] /\ \A d \in Caller : d # c => call'[d] = call[d]
  BY <1>1 DEF Idle, CallType
<1>6. call[c].tool = "move" => t \in Dest /\ done \in SUBSET Uid /\ \A u \in done : IsMoved(t, u)
  BY <1>0, <1>1 DEF CallSafe, CallType
<1>7. TypeOK'
  <2>1. reported' \in SUBSET (Dest \X Uid)
    BY <1>2, <1>6 DEF TypeOK
  <2> QED  BY <1>3, <1>4, <1>5, <2>1 DEF TypeOK, CallType
<1>8. MovedIsKept'
  <2>1. \A r \in reported : r[1] \in Dest /\ IsMoved(r[1], r[2])
    BY DEF TypeOK, MovedIsKept
  <2>2. \A r \in reported : IsMoved(r[1], r[2])'
    BY <1>4, <2>1, MovedStays DEF TypeOK
  <2>3. call[c].tool = "move" => \A u \in done : IsMoved(t, u)'
    BY <1>4, <1>6, MovedStays DEF TypeOK
  <2> QED  BY <1>2, <2>2, <2>3 DEF MovedIsKept
<1>9. CallSafe(c)'
  BY <1>1 DEF CallSafe, Idle
<1> QED  BY <1>3, <1>4, <1>5, <1>7, <1>8, <1>9, OthersStay DEF NothingLost, MutatesNamedUids

\* The other clients only flag messages after asking for them to be deleted.
LEMMA WriteClients == Inv /\ OtherClients => Inv'
<1> USE WriteAssumption
<1> SUFFICES ASSUME Inv, OtherClients PROVE Inv'  OBVIOUS
<1> USE DEF Inv
<1>0. dest' = dest /\ call' = call /\ reported' = reported /\ strayed' = strayed
  BY DEF OtherClients, Arrive, ClientFlags, ClientUnflags, ClientExpunges, history
<1>1. Grows /\ TypeOK' /\ NothingLost' /\ (deleted \subseteq Kept)' /\ (Kept \subseteq Assigned)'
  <2>1. CASE Arrive
    <3>1. uidNext \in 1..MaxUid /\ uidNext' = uidNext + 1 /\ inbox' = inbox \cup {uidNext}
      BY <2>1 DEF Arrive, TypeOK
    <3>2. Assigned' = Assigned \cup {uidNext}
      BY <3>1 DEF Assigned, Uid
    <3>3. TypeOK'
      BY <2>1, <3>1, <3>2 DEF Arrive, TypeOK, history, bounds, Uid
    <3>4. Kept' = Kept /\ deleted' = deleted
      BY <2>1, <1>0 DEF Arrive, history, Kept, Copied
    <3> QED  BY <2>1, <1>0, <3>1, <3>2, <3>3, <3>4 DEF Arrive, history, NothingLost, Grows
  <2>2. ASSUME NEW u \in Uid, ClientFlags(u) PROVE <1>1!:
    <3>1. Kept' = Kept \cup {u} /\ deleted' = deleted \cup {u} /\ Assigned' = Assigned
      BY <2>2, <1>0 DEF ClientFlags, Kept, Copied, Assigned
    <3>2. TypeOK' /\ u \in Assigned
      BY <2>2 DEF ClientFlags, TypeOK, Assigned, Uid
    <3> QED  BY <2>2, <1>0, <3>1, <3>2 DEF ClientFlags, NothingLost, Grows
  <2>3. ASSUME NEW u \in Uid, ClientUnflags(u) PROVE <1>1!:
    <3>1. Kept' = Kept /\ Assigned' = Assigned
      BY <2>3, <1>0 DEF ClientUnflags, history, Kept, Copied, Assigned
    <3>2. TypeOK'
      <4>1. deleted' \subseteq deleted /\ clients' \in 0..MaxClients
        BY <2>3 DEF ClientUnflags, TypeOK
      <4> QED  BY <2>3, <1>0, <3>1, <4>1 DEF ClientUnflags, TypeOK, history
    <3> QED  BY <2>3, <1>0, <3>1, <3>2 DEF ClientUnflags, history, NothingLost, Grows
  <2>4. CASE ClientExpunges
    <3>1. Kept' = Kept /\ Assigned' = Assigned
      BY <2>4, <1>0 DEF ClientExpunges, history, Kept, Copied, Assigned
    <3>2. TypeOK'
      BY <2>4 DEF ClientExpunges, TypeOK, Assigned, history, bounds, Uid
    <3> QED  BY <2>4, <1>0, <3>1, <3>2 DEF ClientExpunges, history, NothingLost, Grows
  <2> QED  BY <2>1, <2>2, <2>3, <2>4 DEF OtherClients
<1>2. MovedIsKept' /\ \A c \in Caller : CallSafe(c)'
  BY <1>0, <1>1, ReportsStay, CallStays
<1> QED  BY <1>0, <1>1, <1>2 DEF MutatesNamedUids

\* Every step keeps the invariant when no call goes by sequence number.
LEMMA WriteStep ==
    ASSUME "duplicates" \notin Tools, Inv, [ByUidNext]_vars
    PROVE  Inv'
<1>1. CASE OtherClients
  BY <1>1, WriteClients
<1>2. ASSUME NEW c \in Caller, Serve(c) PROVE Inv'
  BY <1>2, WriteBegin, WriteCopy, WriteStoreMoved, WriteStoreNamed, WriteEnd DEF Serve
<1>3. CASE UNCHANGED vars
  BY <1>3 DEF vars, server, history, bounds, Inv, TypeOK, NothingLost, MovedIsKept,
              MutatesNamedUids, Kept, Copied, IsMoved, CallSafe, Assigned
<1> QED  BY <1>1, <1>2, <1>3 DEF ByUidNext

\* mail_move_messages, mail_delete_messages and mail_set_seen lose no message
\* that nobody asked to delete, and what is reported moved is safe, for every
\* number of concurrent calls, refusals and dropped connections.
THEOREM WriteLosesNothing ==
    ASSUME "duplicates" \notin Tools
    PROVE  ByUidSpec => [](TypeOK /\ NothingLost /\ MovedIsKept /\ MutatesNamedUids)
<1>1. Init => Inv
  BY WriteInit
<1>2. Inv /\ [ByUidNext]_vars => Inv'
  BY WriteStep
<1>3. Inv => TypeOK /\ NothingLost /\ MovedIsKept /\ MutatesNamedUids
  BY DEF Inv
<1> QED  BY <1>1, <1>2, <1>3, PTL DEF ByUidSpec

\* Its parts, by name: the types, and that a message a move reports as moved is
\* in that move's own destination, unless it had left the folder before its COPY;
\* refusals, dropped connections and a second move of the same message included.
COROLLARY WriteTyped ==
    ASSUME "duplicates" \notin Tools
    PROVE  ByUidSpec => []TypeOK
BY WriteLosesNothing, PTL

COROLLARY WriteMovedIsKept ==
    ASSUME "duplicates" \notin Tools
    PROVE  ByUidSpec => []MovedIsKept
BY WriteLosesNothing, PTL

\* "API mutation payloads operate on message UIDs": whatever other calls and
\* clients do to the folder between two commands of a call, the call copies and
\* flags only messages it was given.  It is false with the duplicates tool.
COROLLARY WriteTouchesNamed ==
    ASSUME "duplicates" \notin Tools
    PROVE  ByUidSpec => []MutatesNamedUids
BY WriteLosesNothing, PTL
=============================================================================
