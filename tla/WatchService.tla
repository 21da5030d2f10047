---------------------------- MODULE WatchService ----------------------------
(***************************************************************************)
(* The watch registry of imap_hub_core/change_stream/service.py and its    *)
(* fan-out of one observed change, observe_change(), to the watches of a   *)
(* tenant.  Tool and REST handlers create, list, pause, resume and delete  *)
(* watches from several threads while the mailbox watcher of each tenant   *)
(* is in the middle of a fan-out.  self._lock guards the registry; the     *)
(* ownership check and the fan-out run outside it.  The coordinator of     *)
(* cloud_dog_api_kit is external: each call on it is atomic, and raises    *)
(* for a watch it does not have.  Its journals never fill up here.         *)
(***************************************************************************)
EXTENDS Naturals

CONSTANTS
    Watch,          \* watch ids; uuid4 never draws one twice
    Tenant,         \* mail profiles
    Watched,        \* those with a mailbox watcher
    Caller,         \* threads that serve tool and REST calls
    Kind,           \* what criteria can tell apart in a change
    Choking,        \* those that accepted criteria can raise on
    None,           \* no tenant, no watch, no lock holder
    MaxChanges      \* bound: changes each mailbox watcher observes

ASSUME ServiceAssumption ==
    /\ MaxChanges \in Nat /\ Watched \subseteq Tenant /\ Choking \subseteq Kind
    /\ None \notin Watch /\ None \notin Tenant /\ None \notin Caller

VARIABLES
    registry,       \* self._specs: the tenant of each registered watch
    criteria,       \* self._criteria: the kinds of change a watch asks for
    chokes,         \* self._criteria: the kinds its match() raises on
    lock,           \* who holds self._lock
    coord,          \* coordinator: the state of each watch
    journal,        \* coordinator: the events in the journal of each watch
    call,           \* the call each caller is serving
    capture,        \* the observe_change() each tenant's watcher is in
    owner,          \* history: the tenant that created a watch
    steady          \* history: the watches a capture has to feed

specs == <<registry, criteria, chokes>>
vars == <<specs, lock, coord, journal, call, capture, owner, steady>>
calls == <<specs, lock, coord, call, owner>>

Event == Tenant \X (1..MaxChanges) \X Kind
Idle == [op |-> "idle", watch |-> None, tenant |-> None, todo |-> {}]
NoCapture == [pc |-> "idle", n |-> 0, kind |-> None, todo |-> {}, at |-> None]

Owned(t) == {w \in Watch : registry[w] = t}

Init ==
    /\ registry = [w \in Watch |-> None]
    /\ criteria = [w \in Watch |-> {}] /\ chokes = [w \in Watch |-> {}]
    /\ lock = None
    /\ coord = [w \in Watch |-> "absent"]
    /\ journal = [w \in Watch |-> {}]
    /\ call = [c \in Caller |-> Idle]
    /\ capture = [t \in Tenant |-> NoCapture]
    /\ owner = [w \in Watch |-> None]
    /\ steady = [t \in Tenant |-> {}]

-----------------------------------------------------------------------------
(* Tool and REST calls.  A call that finds no watch raises WatchNotFound,  *)
(* which its handler turns into an answer: the caller is idle again.       *)

Return(c) == call' = [call EXCEPT ![c] = Idle]

\* The watches that are no longer live need not be fed.
Leaves(w) == steady' = [t \in Tenant |-> steady[t] \ {w}]

\* One atomic step: nobody knows the id before the call returns, and whoever
\* lists the registry needs the lock.  validate() accepts criteria that ask for
\* the kinds K and that match() raises on for the kinds R, as a null header.
CreateWatch(c, t, K, R) ==
    /\ call[c] = Idle /\ lock = None
    /\ \E w \in Watch :
          /\ owner[w] = None /\ owner' = [owner EXCEPT ![w] = t]
          /\ coord' = [coord EXCEPT ![w] = "live"]
          /\ registry' = [registry EXCEPT ![w] = t]
          /\ criteria' = [criteria EXCEPT ![w] = K]
          /\ chokes' = [chokes EXCEPT ![w] = R]
    /\ UNCHANGED <<lock, journal, call, capture, steady>>

\* Slip: the ownership check only asks whether the watch exists.
RequireOwner_AnyTenant(w, t) == registry[w] # None

\* _require_owner(), outside the lock.
RequireOwner(w, t) == registry[w] = t

Begin(c, o, w, t) ==
    /\ call[c] = Idle /\ o \in {"pause", "resume", "delete"}
    /\ RequireOwner(w, t)
    /\ call' = [call EXCEPT ![c] = [Idle EXCEPT !.op = o, !.watch = w, !.tenant = t]]
    /\ UNCHANGED <<specs, lock, coord, journal, capture, owner, steady>>

Pause(c) ==
    /\ call[c].op = "pause" /\ Return(c)
    /\ LET w == call[c].watch
       IN  IF coord[w] = "absent" THEN UNCHANGED <<coord, steady>>
           ELSE coord' = [coord EXCEPT ![w] = "paused"] /\ Leaves(w)
    /\ UNCHANGED <<specs, lock, journal, capture, owner>>

Resume(c) ==
    /\ call[c].op = "resume" /\ Return(c)
    /\ LET w == call[c].watch
       IN  IF coord[w] = "absent" THEN UNCHANGED coord
           ELSE coord' = [coord EXCEPT ![w] = "live"]
    /\ UNCHANGED <<specs, lock, journal, capture, owner, steady>>

\* Slip: the coordinator's watch is deleted before the lock is taken.
Delete_Unlocked(c) ==
    /\ call[c].op = "delete"
    /\ LET w == call[c].watch
       IN  IF coord[w] = "absent" THEN Return(c) /\ UNCHANGED <<lock, coord, steady>>
           ELSE /\ coord' = [coord EXCEPT ![w] = "absent"] /\ Leaves(w)
                /\ call' = [call EXCEPT ![c].op = "deleting"]
                /\ UNCHANGED lock
    /\ UNCHANGED <<specs, journal, capture, owner>>

\* delete() takes the lock and deletes the coordinator's watch.
Delete(c) ==
    /\ call[c].op = "delete" /\ lock = None
    /\ LET w == call[c].watch
       IN  IF coord[w] = "absent" THEN Return(c) /\ UNCHANGED <<lock, coord, steady>>
           ELSE /\ coord' = [coord EXCEPT ![w] = "absent"] /\ Leaves(w)
                /\ call' = [call EXCEPT ![c].op = "deleting"]
                /\ lock' = c
    /\ UNCHANGED <<specs, journal, capture, owner>>

\* Slip: only the criteria are dropped from the registry.
Forget_KeepsSpec(c) ==
    /\ call[c].op = "deleting" /\ Return(c)
    /\ criteria' = [criteria EXCEPT ![call[c].watch] = {}]
    /\ chokes' = [chokes EXCEPT ![call[c].watch] = {}]
    /\ lock' = None
    /\ UNCHANGED <<registry, coord, journal, capture, owner, steady>>

\* Then it drops the watch from the registry, and the lock.
Forget(c) ==
    /\ call[c].op = "deleting" /\ Return(c)
    /\ registry' = [registry EXCEPT ![call[c].watch] = None]
    /\ criteria' = [criteria EXCEPT ![call[c].watch] = {}]
    /\ chokes' = [chokes EXCEPT ![call[c].watch] = {}]
    /\ lock' = None
    /\ UNCHANGED <<coord, journal, capture, owner, steady>>

\* list_watches() asks the coordinator about each watch with the lock held.
ListWatches(c, t) ==
    /\ call[c] = Idle /\ lock = None /\ lock' = c
    /\ call' = [call EXCEPT ![c] =
                  [Idle EXCEPT !.op = "list", !.tenant = t, !.todo = Owned(t)]]
    /\ UNCHANGED <<specs, coord, journal, capture, owner, steady>>

ListStatus(c) ==
    /\ call[c].op = "list"
    /\ \/ \E w \in call[c].todo :
             /\ coord[w] # "absent"
             /\ call' = [call EXCEPT ![c].todo = @ \ {w}]
             /\ UNCHANGED lock
       \* Done; or get_status() raises, which no handler of watch_list() catches.
       \/ /\ call[c].todo = {} \/ \E w \in call[c].todo : coord[w] = "absent"
          /\ Return(c) /\ lock' = None
    /\ UNCHANGED <<specs, coord, journal, capture, owner, steady>>

-----------------------------------------------------------------------------
(* observe_change().                                                       *)

Step(t, cap) == capture' = [capture EXCEPT ![t] = cap]

\* The mailbox watcher of t observes its next change.
Observe(t, k) ==
    /\ t \in Watched /\ capture[t].pc \in {"idle", "lost"} /\ capture[t].n < MaxChanges
    /\ Step(t, [capture[t] EXCEPT !.pc = "snapshot", !.n = @ + 1, !.kind = k])
    /\ steady' = [steady EXCEPT ![t] = {}]
    /\ UNCHANGED <<calls, journal>>

\* Slip: the snapshot takes the watches of every tenant.
Snapshot_AllTenants(t) ==
    /\ capture[t].pc = "snapshot" /\ lock = None
    /\ Step(t, [capture[t] EXCEPT !.pc = "fanout", !.todo = {w \in Watch : registry[w] # None}])
    /\ steady' = [steady EXCEPT ![t] =
                    {w \in Owned(t) : coord[w] = "live" /\ capture[t].kind \in criteria[w]}]
    /\ UNCHANGED <<calls, journal>>

Snapshot(t) ==
    /\ capture[t].pc = "snapshot" /\ lock = None
    /\ Step(t, [capture[t] EXCEPT !.pc = "fanout", !.todo = Owned(t)])
    /\ steady' = [steady EXCEPT ![t] =
                    {w \in Owned(t) : coord[w] = "live" /\ capture[t].kind \in criteria[w]}]
    /\ UNCHANGED <<calls, journal>>

\* The criteria of a target are those of the snapshot: a watch keeps its own
\* until it is deleted, and then the criteria no longer matter.
Matches(t, w) == capture[t].kind \in criteria[w]

\* get_status() raises when the watch is gone, match() on the criteria of a live
\* one.
StatusRaises(t, w) ==
    \/ coord[w] = "absent"
    \/ coord[w] = "live" /\ capture[t].kind \in chokes[w]

\* Slip: a watch that is not live, or does not match, ends the loop.
TargetStatus_Breaks(t, w) ==
    /\ capture[t].pc = "fanout" /\ w \in capture[t].todo
    /\ Step(t, IF StatusRaises(t, w) THEN [capture[t] EXCEPT !.pc = "raised", !.todo = {}]
               ELSE IF coord[w] = "live" /\ Matches(t, w)
               THEN [capture[t] EXCEPT !.pc = "emit", !.todo = @ \ {w}, !.at = w]
               ELSE [capture[t] EXCEPT !.todo = {}])
    /\ UNCHANGED <<calls, journal, steady>>

\* Slip: the criteria of a target are not looked at.
TargetStatus_AnyKind(t, w) ==
    /\ capture[t].pc = "fanout" /\ w \in capture[t].todo
    /\ Step(t, IF StatusRaises(t, w) THEN [capture[t] EXCEPT !.pc = "raised", !.todo = {}]
               ELSE IF coord[w] = "live"
               THEN [capture[t] EXCEPT !.pc = "emit", !.todo = @ \ {w}, !.at = w]
               ELSE [capture[t] EXCEPT !.todo = @ \ {w}])
    /\ UNCHANGED <<calls, journal, steady>>

\* get_status() and match() of the next target, outside the lock and outside the
\* try.
TargetStatus(t, w) ==
    /\ capture[t].pc = "fanout" /\ w \in capture[t].todo
    /\ Step(t, IF StatusRaises(t, w) THEN [capture[t] EXCEPT !.pc = "raised", !.todo = {}]
               ELSE IF coord[w] = "live" /\ Matches(t, w)
               THEN [capture[t] EXCEPT !.pc = "emit", !.todo = @ \ {w}, !.at = w]
               ELSE [capture[t] EXCEPT !.todo = @ \ {w}])
    /\ UNCHANGED <<calls, journal, steady>>

\* emit() refuses a watch that was paused or deleted meanwhile; the exception
\* is swallowed.
TargetEmit(t) ==
    /\ capture[t].pc = "emit"
    /\ LET w == capture[t].at
       IN  journal' = IF coord[w] = "live"
                      THEN [journal EXCEPT ![w] =
                              @ \cup {<<t, capture[t].n, capture[t].kind>>}]
                      ELSE journal
    /\ Step(t, [capture[t] EXCEPT !.pc = "fanout", !.at = None])
    /\ UNCHANGED <<calls, steady>>

FannedOut(t) ==
    /\ capture[t].pc = "fanout" /\ capture[t].todo = {}
    /\ Step(t, [capture[t] EXCEPT !.pc = "idle"])
    /\ UNCHANGED <<calls, journal, steady>>

\* Slip: the change goes into the watcher's checkpoint before it is observed,
\* so the next pass does not see it.
Rescan_ChangeLost(t) ==
    /\ capture[t].pc = "raised"
    /\ Step(t, [capture[t] EXCEPT !.pc = "idle"])
    /\ steady' = [steady EXCEPT ![t] = {}]
    /\ UNCHANGED <<calls, journal>>

\* The exception abandons scan_once() before the change is in the checkpoint:
\* the next pass observes the change again, if it still can be seen.
Rescan(t) ==
    /\ capture[t].pc = "raised"
    /\ Step(t, [capture[t] EXCEPT !.pc = "snapshot"])
    /\ UNCHANGED <<calls, journal, steady>>

\* It cannot: the message was expunged or the flag changed back meanwhile, and
\* no pass will observe this change any more.
Vanish(t) ==
    /\ capture[t].pc = "raised"
    /\ Step(t, [capture[t] EXCEPT !.pc = "lost"])
    /\ UNCHANGED <<calls, journal, steady>>

-----------------------------------------------------------------------------
Ask ==
    \E c \in Caller, t \in Tenant :
        \/ \E K \in SUBSET Kind : \E R \in SUBSET (Choking \ K) : CreateWatch(c, t, K, R)
        \/ \E o \in {"pause", "resume", "delete"}, w \in Watch : Begin(c, o, w, t)
        \/ ListWatches(c, t)
Proceed(c) == Pause(c) \/ Resume(c) \/ Delete(c) \/ Forget(c) \/ ListStatus(c)
FanOut(t) ==
    \/ Snapshot(t) \/ TargetEmit(t) \/ FannedOut(t) \/ Rescan(t)
    \/ \E w \in Watch : TargetStatus(t, w)
NewChange == \E t \in Tenant, k \in Kind : Observe(t, k)

Next ==
    \/ Ask \/ NewChange \/ \E t \in Tenant : Vanish(t)
    \/ \E c \in Caller : Proceed(c)
    \/ \E t \in Tenant : FanOut(t)

Spec == Init /\ [][Next]_vars

\* A thread that is in a call goes on, and one that waits for the lock gets it
\* at last.  No fairness on Ask, NewChange and Vanish.
FairSpec ==
    /\ Spec
    /\ \A c \in Caller : SF_vars(Proceed(c))
    /\ \A t \in Tenant : SF_vars(FanOut(t))

-----------------------------------------------------------------------------
(* Properties.                                                             *)

\* The types, and that self._lock is held just by a call inside a with block.
TypeOK ==
    /\ registry \in [Watch -> Tenant \cup {None}]
    /\ criteria \in [Watch -> SUBSET Kind] /\ chokes \in [Watch -> SUBSET Choking]
    /\ lock \in Caller \cup {None}
    /\ coord \in [Watch -> {"absent", "live", "paused"}]
    /\ journal \in [Watch -> SUBSET Event]
    /\ call \in [Caller -> [op : {"idle", "pause", "resume", "delete", "deleting", "list"},
                            watch : Watch \cup {None}, tenant : Tenant \cup {None},
                            todo : SUBSET Watch]]
    /\ capture \in [Tenant -> [pc : {"idle", "snapshot", "fanout", "emit", "raised", "lost"},
                               n : 0..MaxChanges, kind : Kind \cup {None},
                               todo : SUBSET Watch, at : Watch \cup {None}]]
    /\ owner \in [Watch -> Tenant \cup {None}]
    /\ steady \in [Tenant -> SUBSET Watch]
    /\ \A c \in Caller : lock = c <=> call[c].op \in {"deleting", "list"}

\* "A watch is scoped to the tenant it was created under; cross-tenant access
\* is a hard failure": whatever changed between the check and the call, a call
\* past _require_owner() acts for the tenant that created the watch, and a
\* journal holds changes of that tenant only.
TenantsApart ==
    /\ \A c \in Caller : call[c].watch # None => owner[call[c].watch] = call[c].tenant
    /\ \A w \in Watch : \A e \in journal[w] : e[1] = owner[w]

\* The registry and the coordinator hold the same watches, but for the watch a
\* lock holder is deleting.
RegistryAgrees ==
    \A w \in Watch :
        registry[w] # None /\ coord[w] = "absent" <=>
            lock # None /\ call[lock].op = "deleting" /\ call[lock].watch = w

\* list_watches() finds every watch it asks the coordinator about: it would
\* raise WatchNotFound out of watch_list(), which catches nothing.
ListFindsAll ==
    \A c \in Caller : call[c].op = "list" => \A w \in call[c].todo : coord[w] # "absent"

\* observe_change() "fans a single observed mail change into every matching
\* live watch": when it returned, each watch of the tenant that matched and
\* was live from the snapshot on has the event.
NoneMissed ==
    \A t \in Tenant :
        capture[t].pc = "idle" =>
            \A w \in steady[t] : <<t, capture[t].n, capture[t].kind>> \in journal[w]

\* A change reaches every watch that asks for it and stays live, also when the
\* fan-out is cut short by the deletion of another watch, but for two cases: the
\* change vanished before it could be observed again, or every pass is cut short
\* by a live watch of the tenant with criteria that raise on the change.
EventuallyFed ==
    \A t \in Tenant, w \in Watch, n \in 1..MaxChanges, k \in Kind :
        /\ capture[t].pc = "snapshot" /\ capture[t].n = n /\ capture[t].kind = k
        /\ registry[w] = t /\ coord[w] = "live" /\ k \in criteria[w]
        ~> \/ <<t, n, k>> \in journal[w] \/ coord[w] # "live"
           \/ capture[t].pc = "lost"
           \/ \E v \in Owned(t) : coord[v] = "live" /\ k \in chokes[v]

\* The service keeps the promise of the watch feed: what the threads of calls
\* and captures do between their steps adds up to watches that are created,
\* paused, resumed and deleted at one moment each, and to changes that reach
\* just the watches that are live, of the tenant, and ask for them.
StateOf(w) == IF owner[w] = None THEN "unused"
              ELSE IF coord[w] = "absent" THEN "gone" ELSE coord[w]
PhaseOf(t) == CASE capture[t].pc \in {"idle", "lost"} -> "done"
                [] capture[t].pc = "snapshot" -> "observed"
                [] capture[t].pc = "raised" -> "broken"
                [] OTHER -> "spreading"

Feed == INSTANCE WatchFeed WITH
            state <- [w \in Watch |-> StateOf(w)],
            wants <- [w \in Watch |-> IF coord[w] = "absent" THEN {} ELSE criteria[w]],
            chokes <- [w \in Watch |-> IF coord[w] = "absent" THEN {} ELSE chokes[w]],
            count <- [t \in Tenant |-> capture[t].n],
            kind <- [t \in Tenant |-> capture[t].kind],
            phase <- [t \in Tenant |-> PhaseOf(t)],
            owed <- steady
FeedSpec == Feed!Spec

\* The comment in observe_change(): "capture must never crash the watcher".
CaptureNeverRaises == \A t \in Tenant : capture[t].pc # "raised"
=============================================================================
