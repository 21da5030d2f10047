-------------------------- MODULE WatchServiceProofs --------------------------
(***************************************************************************)
(* Theorems about WatchService, for every set of watches, tenants, callers *)
(* and kinds of change, and any number of changes.                         *)
(***************************************************************************)
EXTENDS WatchService, TLAPS

USE DEF specs

CallType ==
    [op : {"idle", "pause", "resume", "delete", "deleting", "list"},
     watch : Watch \cup {None}, tenant : Tenant \cup {None}, todo : SUBSET Watch]
CaptureType ==
    [pc : {"idle", "snapshot", "fanout", "emit", "raised", "lost"},
     n : 0..MaxChanges, kind : Kind \cup {None}, todo : SUBSET Watch, at : Watch \cup {None}]

\* A watch the coordinator has is in the registry, under the tenant that
\* created it, and its journal holds changes of that tenant.
WatchOK(w) ==
    /\ coord[w] # "absent" => registry[w] # None
    /\ registry[w] # None => registry[w] = owner[w]
    /\ \A e \in journal[w] : e[1] = owner[w]

\* A call past _require_owner() acts for the watch's tenant; list_watches()
\* has only registered watches left to ask about.
CallOK(c) ==
    /\ call[c].op \in {"pause", "resume", "delete", "deleting"} => call[c].watch \in Watch
    /\ call[c].watch # None => call[c].tenant \in Tenant /\ owner[call[c].watch] = call[c].tenant
    /\ call[c].op = "list" => \A w \in call[c].todo : registry[w] # None

\* A capture works on watches of its own tenant; a watch it has to feed stays
\* live, keeps its criteria, and is still to be visited, or being visited, or
\* has the event.
CaptureOK(t) ==
    LET cap == capture[t]
    IN  /\ \A w \in cap.todo : owner[w] = t
        /\ cap.pc = "emit" => cap.at \in Watch /\ owner[cap.at] = t
        /\ cap.pc # "idle" => cap.kind \in Kind /\ cap.n \in 1..MaxChanges
        /\ \A w \in steady[t] : coord[w] = "live" /\ cap.kind \in criteria[w]
        /\ cap.pc \in {"idle", "fanout", "emit"} =>
             \A w \in steady[t] :
                \/ cap.pc # "idle" /\ w \in cap.todo
                \/ cap.pc = "emit" /\ w = cap.at
                \/ <<t, cap.n, cap.kind>> \in journal[w]

Inv ==
    /\ TypeOK /\ RegistryAgrees
    /\ \A w \in Watch : WatchOK(w)
    /\ \A c \in Caller : CallOK(c)
    /\ \A t \in Tenant : CaptureOK(t)

\* What the runs check follows from the invariant.
LEMMA ServiceInvSuffices ==
    Inv => TypeOK /\ TenantsApart /\ RegistryAgrees /\ ListFindsAll /\ NoneMissed
<1> SUFFICES ASSUME Inv
             PROVE  TypeOK /\ TenantsApart /\ RegistryAgrees /\ ListFindsAll /\ NoneMissed
  OBVIOUS
<1>1. TypeOK /\ RegistryAgrees
  BY DEF Inv
<1>2. TenantsApart
  BY DEF Inv, TenantsApart, CallOK, WatchOK
<1>3. ListFindsAll
  <2> SUFFICES ASSUME NEW c \in Caller, call[c].op = "list", NEW w \in call[c].todo
               PROVE  coord[w] # "absent"
    BY DEF ListFindsAll
  <2>1. lock = c /\ w \in Watch
    BY DEF Inv, TypeOK
  <2>2. registry[w] # None
    BY DEF Inv, CallOK
  <2> QED  BY <2>1, <2>2 DEF Inv, RegistryAgrees
<1>4. NoneMissed
  <2> SUFFICES ASSUME NEW t \in Tenant, capture[t].pc = "idle", NEW w \in steady[t]
               PROVE  <<t, capture[t].n, capture[t].kind>> \in journal[w]
    BY DEF NoneMissed
  <2>1. CaptureOK(t)
    BY DEF Inv
  <2> QED  BY <2>1 DEF CaptureOK
<1> QED  BY <1>1, <1>2, <1>3, <1>4

\* Initially there are no watches, calls or captures.
LEMMA ServiceInit == Init => Inv
<1> SUFFICES ASSUME Init PROVE Inv  OBVIOUS
<1> USE ServiceAssumption DEF Init
<1>1. TypeOK
  BY DEF TypeOK, Idle, NoCapture
<1>2. RegistryAgrees
  BY DEF RegistryAgrees
<1>3. \A w \in Watch : WatchOK(w)
  BY DEF WatchOK
<1>4. \A c \in Caller : CallOK(c)
  BY DEF CallOK, Idle
<1>5. \A t \in Tenant : CaptureOK(t)
  BY DEF CaptureOK, NoCapture
<1> QED  BY <1>1, <1>2, <1>3, <1>4, <1>5 DEF Inv

-----------------------------------------------------------------------------
(* The calls.                                                              *)

\* A new watch has an id nothing has seen.
LEMMA StepCreate ==
    ASSUME Inv, NEW c \in Caller, NEW t \in Tenant, NEW K \in SUBSET Kind,
           NEW R \in SUBSET (Choking \ K), CreateWatch(c, t, K, R)
    PROVE  Inv'
<1> USE ServiceAssumption DEF Inv, CreateWatch
<1>1. PICK w \in Watch :
         /\ owner[w] = None /\ owner' = [owner EXCEPT ![w] = t]
         /\ coord' = [coord EXCEPT ![w] = "live"]
         /\ registry' = [registry EXCEPT ![w] = t]
         /\ criteria' = [criteria EXCEPT ![w] = K]
         /\ chokes' = [chokes EXCEPT ![w] = R]
  OBVIOUS
<1>2. registry[w] = None /\ coord[w] = "absent" /\ \A x \in Tenant : w \notin steady[x]
  <2>1. registry[w] = None /\ coord[w] = "absent"
    BY <1>1 DEF WatchOK, TypeOK
  <2> QED  BY <2>1 DEF CaptureOK
<1>3. TypeOK'
  BY <1>1 DEF TypeOK
<1>4. RegistryAgrees'
  BY <1>1, <1>2 DEF RegistryAgrees, TypeOK
<1>5. \A x \in Watch : WatchOK(x)'
  <2> SUFFICES ASSUME NEW x \in Watch PROVE WatchOK(x)'
    OBVIOUS
  <2>1. \A e \in journal[w] : e[1] = None /\ e[1] \in Tenant
    BY <1>1 DEF WatchOK, TypeOK, Event
  <2> QED  BY <1>1, <1>2, <2>1 DEF WatchOK, TypeOK
<1>6. \A d \in Caller : CallOK(d)'
  BY <1>1, <1>2 DEF CallOK, TypeOK
<1>7. \A x \in Tenant : CaptureOK(x)'
  BY <1>1, <1>2 DEF CaptureOK, TypeOK
<1> QED  BY <1>3, <1>4, <1>5, <1>6, <1>7

\* The ownership check holds for good: a watch never changes hands.
LEMMA StepBegin ==
    ASSUME Inv, NEW c \in Caller, NEW o \in {"pause", "resume", "delete"},
           NEW w \in Watch, NEW t \in Tenant, Begin(c, o, w, t)
    PROVE  Inv'
<1> USE ServiceAssumption DEF Inv, Begin
<1>1. /\ registry[w] = t /\ call[c] = Idle
      /\ call' = [call EXCEPT ![c] = [Idle EXCEPT !.op = o, !.watch = w, !.tenant = t]]
  BY DEF RequireOwner
<1>2. TypeOK'
  <2>1. [Idle EXCEPT !.op = o, !.watch = w, !.tenant = t] \in CallType
    BY DEF Idle, CallType
  <2>2. call' \in [Caller -> CallType]
    BY <1>1, <2>1 DEF TypeOK, CallType
  <2>3. \A d \in Caller : lock' = d <=> call'[d].op \in {"deleting", "list"}
    BY <1>1 DEF TypeOK, Idle
  <2> QED  BY <2>2, <2>3 DEF TypeOK, CallType
<1>3. RegistryAgrees'
  BY <1>1 DEF RegistryAgrees, TypeOK, Idle
<1>4. \A x \in Watch : WatchOK(x)'
  BY DEF WatchOK
<1>5. \A d \in Caller : CallOK(d)'
  BY <1>1 DEF CallOK, TypeOK, WatchOK, Idle
<1>6. \A x \in Tenant : CaptureOK(x)'
  BY DEF CaptureOK
<1> QED  BY <1>2, <1>3, <1>4, <1>5, <1>6

\* What a pause, a resume and the first half of a delete have in common.
LEMMA StepPauseResume ==
    ASSUME Inv, NEW c \in Caller, Pause(c) \/ Resume(c)
    PROVE  Inv'
<1> USE ServiceAssumption DEF Inv
<1> DEFINE w == call[c].watch
<1>1. /\ w \in Watch /\ call[c].op \in {"pause", "resume"} /\ call' = [call EXCEPT ![c] = Idle]
      /\ UNCHANGED <<registry, criteria, chokes, lock, journal, capture, owner>>
  BY DEF Pause, Resume, Return, CallOK
<1>2. /\ coord' = coord \/ (coord[w] # "absent" /\ \E s \in {"paused", "live"} :
                                coord' = [coord EXCEPT ![w] = s])
      /\ \A t \in Tenant : steady'[t] \subseteq steady[t]
      /\ \A t \in Tenant : \A x \in steady'[t] : coord'[x] = "live"
      /\ steady' \in [Tenant -> SUBSET Watch]
  <2>1. steady \in [Tenant -> SUBSET Watch] /\ coord \in [Watch -> {"absent", "live", "paused"}]
    BY DEF TypeOK
  <2>2. \A t \in Tenant : \A x \in steady[t] : coord[x] = "live"
    BY DEF CaptureOK
  <2>3. CASE Pause(c) /\ coord[w] # "absent"
    <3>1. coord' = [coord EXCEPT ![w] = "paused"] /\ steady' = [t \in Tenant |-> steady[t] \ {w}]
      BY <2>3 DEF Pause, Leaves
    <3>2. \A t \in Tenant : steady'[t] = steady[t] \ {w}
      BY <3>1
    <3> QED  BY <1>1, <2>1, <2>2, <2>3, <3>1, <3>2
  <2>4. CASE Resume(c) /\ coord[w] # "absent"
    <3>1. coord' = [coord EXCEPT ![w] = "live"] /\ steady' = steady
      BY <2>4 DEF Resume
    <3> QED  BY <1>1, <2>1, <2>2, <2>4, <3>1
  <2>5. CASE coord[w] = "absent"
    <3>1. coord' = coord /\ steady' = steady
      BY <2>5 DEF Pause, Resume
    <3> QED  BY <2>1, <2>2, <3>1
  <2> QED  BY <2>3, <2>4, <2>5
<1>3. TypeOK'
  <2>1. call' \in [Caller -> CallType]
    BY <1>1 DEF TypeOK, CallType, Idle
  <2>2. \A d \in Caller : lock' = d <=> call'[d].op \in {"deleting", "list"}
    BY <1>1 DEF TypeOK, Idle
  <2>3. coord' \in [Watch -> {"absent", "live", "paused"}]
    BY <1>1, <1>2 DEF TypeOK
  <2> QED  BY <1>1, <1>2, <2>1, <2>2, <2>3 DEF TypeOK, CallType
<1>4. RegistryAgrees'
  BY <1>1, <1>2 DEF RegistryAgrees, TypeOK, Idle
<1>5. \A x \in Watch : WatchOK(x)'
  BY <1>1, <1>2 DEF WatchOK, TypeOK
<1>6. \A d \in Caller : CallOK(d)'
  BY <1>1 DEF CallOK, TypeOK, Idle
<1>7. \A x \in Tenant : CaptureOK(x)'
  BY <1>1, <1>2 DEF CaptureOK
<1> QED  BY <1>3, <1>4, <1>5, <1>6, <1>7

\* Between the coordinator's delete and the registry's, the lock is held.
LEMMA StepDelete ==
    ASSUME Inv, NEW c \in Caller, Delete(c)
    PROVE  Inv'
<1> USE ServiceAssumption DEF Inv
<1> DEFINE w == call[c].watch
<1>1. /\ w \in Watch /\ call[c].op = "delete" /\ lock = None
      /\ UNCHANGED <<registry, criteria, chokes, journal, capture, owner>>
  BY DEF Delete, CallOK
<1>2. CASE coord[w] = "absent"
  <2>1. call' = [call EXCEPT ![c] = Idle] /\ UNCHANGED <<lock, coord, steady>>
    BY <1>2 DEF Delete, Return
  <2>2. TypeOK'
    <3>1. call' \in [Caller -> CallType]
      BY <2>1 DEF TypeOK, CallType, Idle
    <3>2. \A d \in Caller : lock' = d <=> call'[d].op \in {"deleting", "list"}
      BY <1>1, <2>1 DEF TypeOK, Idle
    <3> QED  BY <1>1, <2>1, <3>1, <3>2 DEF TypeOK, CallType
  <2>3. RegistryAgrees'
    BY <1>1, <2>1 DEF RegistryAgrees, TypeOK, Idle
  <2>4. \A x \in Watch : WatchOK(x)'
    BY <1>1, <2>1 DEF WatchOK
  <2>5. \A d \in Caller : CallOK(d)'
    BY <1>1, <2>1 DEF CallOK, TypeOK, Idle
  <2>6. \A x \in Tenant : CaptureOK(x)'
    BY <1>1, <2>1 DEF CaptureOK
  <2> QED  BY <2>2, <2>3, <2>4, <2>5, <2>6
<1>3. CASE coord[w] # "absent"
  <2>1. /\ coord' = [coord EXCEPT ![w] = "absent"] /\ lock' = c
        /\ steady' = [t \in Tenant |-> steady[t] \ {w}]
        /\ call' = [call EXCEPT ![c].op = "deleting"]
    BY <1>3 DEF Delete, Leaves
  <2>2. TypeOK'
    <3>0. call \in [Caller -> CallType]
      BY DEF TypeOK, CallType
    <3>3. [call[c] EXCEPT !.op = "deleting"] \in CallType
      BY <3>0 DEF CallType
    <3>1. call' \in [Caller -> CallType]
      BY <2>1, <3>0, <3>3
    <3>2. \A d \in Caller : lock' = d <=> call'[d].op \in {"deleting", "list"}
      BY <1>1, <2>1 DEF TypeOK
    <3> QED  BY <1>1, <2>1, <3>1, <3>2 DEF TypeOK, CallType
  <2>3. RegistryAgrees'
    <3>1. registry[w] # None /\ w = call'[c].watch /\ call'[c].op = "deleting"
      BY <1>1, <1>3, <2>1 DEF WatchOK, TypeOK
    <3>2. \A x \in Watch : ~(registry[x] # None /\ coord[x] = "absent")
      BY <1>1 DEF RegistryAgrees
    <3> QED  BY <1>1, <2>1, <3>1, <3>2 DEF RegistryAgrees, TypeOK
  <2>4. \A x \in Watch : WatchOK(x)'
    BY <1>1, <2>1 DEF WatchOK, TypeOK
  <2>5. \A d \in Caller : CallOK(d)'
    BY <1>1, <2>1 DEF CallOK, TypeOK
  <2>6. \A x \in Tenant : CaptureOK(x)'
    BY <1>1, <2>1 DEF CaptureOK, TypeOK
  <2> QED  BY <2>2, <2>3, <2>4, <2>5, <2>6
<1> QED  BY <1>2, <1>3

\* Nobody is listing while the registry forgets a watch.
LEMMA StepForget ==
    ASSUME Inv, NEW c \in Caller, Forget(c)
    PROVE  Inv'
<1> USE ServiceAssumption DEF Inv
<1> DEFINE w == call[c].watch
<1>1. /\ w \in Watch /\ call[c].op = "deleting" /\ lock = c /\ lock' = None
      /\ registry' = [registry EXCEPT ![w] = None]
      /\ criteria' = [criteria EXCEPT ![w] = {}]
      /\ chokes' = [chokes EXCEPT ![w] = {}]
      /\ call' = [call EXCEPT ![c] = Idle]
      /\ UNCHANGED <<coord, journal, capture, owner, steady>>
  BY DEF Forget, CallOK, TypeOK, Return
<1>2. coord[w] = "absent"
  BY <1>1 DEF RegistryAgrees
<1>3. TypeOK'
  <2>1. call' \in [Caller -> CallType]
    BY <1>1 DEF TypeOK, CallType, Idle
  <2>2. \A d \in Caller : lock' = d <=> call'[d].op \in {"deleting", "list"}
    BY <1>1 DEF TypeOK, Idle
  <2> QED  BY <1>1, <2>1, <2>2 DEF TypeOK, CallType
<1>4. RegistryAgrees'
  <2>1. \A x \in Watch : x # w => ~(registry[x] # None /\ coord[x] = "absent")
    BY <1>1 DEF RegistryAgrees
  <2> QED  BY <1>1, <2>1 DEF RegistryAgrees, TypeOK
<1>5. \A x \in Watch : WatchOK(x)'
  BY <1>1, <1>2 DEF WatchOK, TypeOK
<1>6. \A d \in Caller : CallOK(d)'
  <2>1. \A d \in Caller : d # c => call[d].op # "list"
    BY <1>1 DEF TypeOK
  <2> QED  BY <1>1, <2>1 DEF CallOK, TypeOK, Idle
<1>7. \A x \in Tenant : CaptureOK(x)'
  <2>1. \A x \in Tenant : w \notin steady[x]
    BY <1>2 DEF CaptureOK
  <2> QED  BY <1>1, <2>1 DEF CaptureOK, TypeOK
<1> QED  BY <1>3, <1>4, <1>5, <1>6, <1>7

\* list_watches() starts on the watches registered under a tenant.
LEMMA StepListWatches ==
    ASSUME Inv, NEW c \in Caller, NEW t \in Tenant, ListWatches(c, t)
    PROVE  Inv'
<1> USE ServiceAssumption DEF Inv
<1> DEFINE asks == [Idle EXCEPT !.op = "list", !.tenant = t, !.todo = Owned(t)]
<1>1. /\ UNCHANGED <<registry, criteria, chokes, coord, journal, capture, owner, steady>>
      /\ lock = None /\ lock' = c /\ call' = [call EXCEPT ![c] = asks]
  BY DEF ListWatches
<1>2. TypeOK'
  <2>1. call \in [Caller -> CallType] /\ asks \in CallType
    BY DEF TypeOK, CallType, Idle, Owned
  <2>2. call' \in [Caller -> CallType]
    BY <1>1, <2>1
  <2>3. \A d \in Caller : lock' = d <=> call'[d].op \in {"deleting", "list"}
    BY <1>1 DEF TypeOK, Idle
  <2> QED  BY <1>1, <2>2, <2>3 DEF TypeOK, CallType
<1>3. RegistryAgrees'
  BY <1>1 DEF RegistryAgrees, TypeOK, Idle
<1>4. \A x \in Watch : WatchOK(x)'
  BY <1>1 DEF WatchOK
<1>5. \A d \in Caller : CallOK(d)'
  BY <1>1 DEF CallOK, TypeOK, Idle, Owned
<1>6. \A x \in Tenant : CaptureOK(x)'
  BY <1>1 DEF CaptureOK
<1> QED  BY <1>2, <1>3, <1>4, <1>5, <1>6

\* Then it asks about one of them, or returns and gives up the lock.
LEMMA StepListStatus ==
    ASSUME Inv, NEW c \in Caller, ListStatus(c)
    PROVE  Inv'
<1> USE ServiceAssumption DEF Inv
<1>1. /\ UNCHANGED <<registry, criteria, chokes, coord, journal, capture, owner, steady>>
      /\ call[c].op = "list" /\ lock = c
  BY DEF ListStatus, TypeOK
<1>2. \A x \in Watch : WatchOK(x)'
  BY <1>1 DEF WatchOK
<1>3. \A x \in Tenant : CaptureOK(x)'
  BY <1>1 DEF CaptureOK
<1>4. ASSUME NEW w \in call[c].todo, lock' = lock,
             call' = [call EXCEPT ![c].todo = @ \ {w}]
      PROVE  TypeOK' /\ RegistryAgrees' /\ \A d \in Caller : CallOK(d)'
  <2>1. call \in [Caller -> CallType]
    BY DEF TypeOK, CallType
  <2>2. [call[c] EXCEPT !.todo = @ \ {w}] \in CallType
    BY <2>1 DEF CallType
  <2>3. call' \in [Caller -> CallType]
    BY <1>4, <2>1, <2>2
  <2>4. \A d \in Caller : lock' = d <=> call'[d].op \in {"deleting", "list"}
    BY <1>4 DEF TypeOK
  <2>5. TypeOK'
    BY <1>1, <2>3, <2>4, <1>4 DEF TypeOK, CallType
  <2>6. RegistryAgrees'
    BY <1>1, <1>4 DEF RegistryAgrees, TypeOK
  <2>7. \A d \in Caller : CallOK(d)'
    BY <1>1, <1>4 DEF CallOK, TypeOK
  <2> QED  BY <2>5, <2>6, <2>7
<1>5. ASSUME Return(c), lock' = None
      PROVE  TypeOK' /\ RegistryAgrees' /\ \A d \in Caller : CallOK(d)'
  <2>1. call' \in [Caller -> CallType]
    BY <1>5 DEF TypeOK, CallType, Idle, Return
  <2>2. \A d \in Caller : lock' = d <=> call'[d].op \in {"deleting", "list"}
    BY <1>1, <1>5 DEF TypeOK, Idle, Return
  <2>3. TypeOK'
    BY <1>1, <1>5, <2>1, <2>2 DEF TypeOK, CallType
  <2>4. RegistryAgrees'
    BY <1>1, <1>5 DEF RegistryAgrees, TypeOK, Return
  <2>5. \A d \in Caller : CallOK(d)'
    BY <1>1, <1>5 DEF CallOK, TypeOK, Return, Idle
  <2> QED  BY <2>3, <2>4, <2>5
<1> QED  BY <1>2, <1>3, <1>4, <1>5 DEF ListStatus

-----------------------------------------------------------------------------
(* The captures.                                                           *)

\* A capture step leaves the registry and the calls alone, so that only its
\* own record, its journal entries and what it has to feed need a look.
LEMMA CaptureFrame ==
    ASSUME Inv, UNCHANGED calls, NEW t \in Tenant, NEW cap \in CaptureType,
           capture' = [capture EXCEPT ![t] = cap],
           steady' \in [Tenant -> SUBSET Watch],
           \A x \in Tenant : x # t => steady'[x] = steady[x],
           journal' \in [Watch -> SUBSET Event],
           \A w \in Watch : journal[w] \subseteq journal'[w],
           \A w \in Watch : \A e \in journal'[w] \ journal[w] : e[1] = owner[w],
           CaptureOK(t)'
    PROVE  Inv'
<1> USE ServiceAssumption DEF Inv, calls
<1>1. TypeOK'
  <2>1. capture' \in [Tenant -> CaptureType]
    BY DEF TypeOK, CaptureType
  <2> QED  BY <2>1 DEF TypeOK, CaptureType
<1>2. RegistryAgrees'
  BY DEF RegistryAgrees
<1>3. \A w \in Watch : WatchOK(w)'
  BY DEF WatchOK
<1>4. \A c \in Caller : CallOK(c)'
  BY DEF CallOK
<1>5. ASSUME NEW x \in Tenant, x # t PROVE CaptureOK(x)'
  <2>1. capture'[x] = capture[x] /\ steady'[x] = steady[x]
    BY <1>5 DEF TypeOK
  <2>2. capture[x].todo \subseteq Watch /\ steady[x] \subseteq Watch
    BY DEF TypeOK
  <2> QED  BY <2>1, <2>2 DEF CaptureOK
<1> QED  BY <1>1, <1>2, <1>3, <1>4, <1>5

\* A new change, or the same one seen again or gone for good: nothing is promised
\* before the snapshot.
LEMMA StepObserve ==
    ASSUME Inv, NEW t \in Tenant, Rescan(t) \/ Vanish(t) \/ \E k \in Kind : Observe(t, k)
    PROVE  Inv'
<1> USE ServiceAssumption DEF Inv
<1>0. capture[t] \in CaptureType /\ steady \in [Tenant -> SUBSET Watch]
      /\ journal \in [Watch -> SUBSET Event]
  BY DEF TypeOK, CaptureType
<1>1. ASSUME NEW k \in Kind, Observe(t, k) PROVE Inv'
  <2> DEFINE cap == [capture[t] EXCEPT !.pc = "snapshot", !.n = @ + 1, !.kind = k]
  <2>1. /\ capture' = [capture EXCEPT ![t] = cap] /\ steady' = [steady EXCEPT ![t] = {}]
        /\ capture[t].n < MaxChanges /\ UNCHANGED <<calls, journal>>
    BY <1>1 DEF Observe, Step
  <2>2. cap \in CaptureType /\ cap.n \in 1..MaxChanges
    <3>1. capture[t].n \in 0..MaxChanges /\ MaxChanges \in Nat
      BY <1>0 DEF CaptureType
    <3>2. capture[t].n + 1 \in 0..MaxChanges /\ capture[t].n + 1 \in 1..MaxChanges
      BY <2>1, <3>1
    <3> QED  BY <1>0, <3>2 DEF CaptureType
  <2>3. capture'[t] = cap /\ steady'[t] = {}
    BY <1>0, <2>1 DEF TypeOK
  <2>4. cap.pc = "snapshot" /\ cap.kind = k /\ cap.todo = capture[t].todo
    BY <1>0 DEF CaptureType
  <2>5. owner' = owner /\ \A w \in capture[t].todo : owner[w] = t
    BY <2>1 DEF CaptureOK, calls
  <2>6. CaptureOK(t)'
    BY <2>2, <2>3, <2>4, <2>5 DEF CaptureOK
  <2> QED  BY <1>0, <2>1, <2>2, <2>6, CaptureFrame
<1>2. ASSUME NEW p \in {"snapshot", "lost"}, capture[t].pc = "raised",
             Step(t, [capture[t] EXCEPT !.pc = p]), UNCHANGED <<calls, journal, steady>>
      PROVE  Inv'
  <2> DEFINE cap == [capture[t] EXCEPT !.pc = p]
  <2>1. capture' = [capture EXCEPT ![t] = cap]
    BY <1>2 DEF Step
  <2>2. cap \in CaptureType
    BY <1>0 DEF CaptureType
  <2>4. capture'[t] = cap /\ cap.pc = p /\ cap.kind = capture[t].kind
        /\ cap.todo = capture[t].todo /\ cap.n = capture[t].n
    BY <1>0, <2>1 DEF TypeOK, CaptureType
  <2>5. CaptureOK(t) /\ UNCHANGED <<owner, coord, criteria, steady>>
    BY <1>2 DEF calls
  <2>3. CaptureOK(t)'
    BY <1>2, <2>4, <2>5 DEF CaptureOK
  <2> QED  BY <1>0, <1>2, <2>1, <2>2, <2>3, CaptureFrame
<1> QED  BY <1>1, <1>2 DEF Rescan, Vanish

\* The snapshot takes every watch it will have to feed.
LEMMA StepSnapshot ==
    ASSUME Inv, NEW t \in Tenant, Snapshot(t)
    PROVE  Inv'
<1> USE ServiceAssumption DEF Inv
<1> DEFINE cap == [capture[t] EXCEPT !.pc = "fanout", !.todo = Owned(t)]
           fed == {w \in Owned(t) : coord[w] = "live" /\ capture[t].kind \in criteria[w]}
<1>1. /\ capture[t].pc = "snapshot" /\ capture' = [capture EXCEPT ![t] = cap]
      /\ steady' = [steady EXCEPT ![t] = fed] /\ UNCHANGED <<calls, journal>>
  BY DEF Snapshot, Step
<1>2. /\ capture[t] \in CaptureType /\ steady \in [Tenant -> SUBSET Watch]
      /\ journal \in [Watch -> SUBSET Event] /\ capture \in [Tenant -> CaptureType]
  BY DEF TypeOK, CaptureType
<1>5. cap \in CaptureType /\ fed \in SUBSET Watch
  BY <1>2 DEF CaptureType, Owned
<1>6. steady' \in [Tenant -> SUBSET Watch]
  BY <1>1, <1>2, <1>5
<1>3. \A w \in Owned(t) : owner[w] = t
  BY DEF WatchOK, Owned
<1>7. capture'[t] = cap /\ steady'[t] = fed
  BY <1>1, <1>2
<1>8. /\ cap.pc = "fanout" /\ cap.todo = Owned(t)
      /\ cap.kind = capture[t].kind /\ cap.n = capture[t].n
  BY <1>2 DEF CaptureType
<1>9. UNCHANGED <<owner, coord, criteria>> /\ cap.kind \in Kind /\ cap.n \in 1..MaxChanges
  BY <1>1, <1>8 DEF calls, CaptureOK
<1>4. CaptureOK(t)'
  BY <1>3, <1>7, <1>8, <1>9 DEF CaptureOK
<1> QED  BY <1>1, <1>2, <1>4, <1>5, <1>6, CaptureFrame

\* Only a watch that is not live, or does not match, is passed over.
LEMMA StepTargetStatus ==
    ASSUME Inv, NEW t \in Tenant, NEW w \in Watch, TargetStatus(t, w)
    PROVE  Inv'
<1> USE ServiceAssumption DEF Inv
<1> DEFINE raised == [capture[t] EXCEPT !.pc = "raised", !.todo = {}]
           emits == [capture[t] EXCEPT !.pc = "emit", !.todo = @ \ {w}, !.at = w]
           skips == [capture[t] EXCEPT !.todo = @ \ {w}]
<1>1. capture[t] \in CaptureType /\ steady \in [Tenant -> SUBSET Watch]
      /\ journal \in [Watch -> SUBSET Event]
  BY DEF TypeOK, CaptureType
<1>2. /\ capture[t].pc = "fanout" /\ w \in capture[t].todo /\ UNCHANGED <<calls, journal, steady>>
  BY DEF TargetStatus
<1>3. raised \in CaptureType /\ emits \in CaptureType /\ skips \in CaptureType
  BY <1>1 DEF CaptureType
<1>4. CASE StatusRaises(t, w)
  <2>1. capture' = [capture EXCEPT ![t] = raised]
    BY <1>4 DEF TargetStatus, Step
  <2>3. /\ capture'[t] = raised /\ raised.pc = "raised" /\ raised.todo = {}
        /\ raised.kind = capture[t].kind /\ raised.n = capture[t].n
    BY <1>1, <2>1 DEF TypeOK, CaptureType
  <2>4. CaptureOK(t) /\ UNCHANGED <<owner, coord, criteria, journal, steady>>
    BY <1>2 DEF calls
  <2>5. /\ capture[t].kind \in Kind /\ capture[t].n \in 1..MaxChanges
        /\ \A x \in steady[t] : coord[x] = "live" /\ capture[t].kind \in criteria[x]
    BY <1>2, <2>4 DEF CaptureOK
  <2>2. CaptureOK(t)'
    <3> HIDE DEF raised
    <3> QED  BY <2>3, <2>4, <2>5 DEF CaptureOK
  <2> QED  BY <1>1, <1>2, <1>3, <2>1, <2>2, CaptureFrame
<1>5. CASE ~StatusRaises(t, w) /\ coord[w] = "live" /\ Matches(t, w)
  <2>1. capture' = [capture EXCEPT ![t] = emits]
    BY <1>5 DEF TargetStatus, Step
  <2>3. /\ capture'[t] = emits /\ emits.pc = "emit" /\ emits.at = w
        /\ emits.todo = capture[t].todo \ {w}
        /\ emits.kind = capture[t].kind /\ emits.n = capture[t].n
    BY <1>1, <2>1 DEF TypeOK, CaptureType
  <2>4. CaptureOK(t) /\ UNCHANGED <<owner, coord, criteria, journal, steady>>
    BY <1>2 DEF calls
  <2>5. owner[w] = t /\ capture[t].kind \in Kind /\ capture[t].n \in 1..MaxChanges
    BY <1>2, <2>4 DEF CaptureOK
  <2>6. \A x \in steady[t] : x \in capture[t].todo \/ <<t, capture[t].n, capture[t].kind>> \in journal[x]
    BY <1>2, <2>4 DEF CaptureOK
  <2>7. (\A x \in capture[t].todo : owner[x] = t)
        /\ \A x \in steady[t] : coord[x] = "live" /\ capture[t].kind \in criteria[x]
    BY <2>4 DEF CaptureOK
  <2>2. CaptureOK(t)'
    <3> HIDE DEF emits
    <3> QED  BY <2>3, <2>4, <2>5, <2>6, <2>7 DEF CaptureOK
  <2> QED  BY <1>1, <1>2, <1>3, <2>1, <2>2, CaptureFrame
<1>6. CASE ~StatusRaises(t, w) /\ ~(coord[w] = "live" /\ Matches(t, w))
  <2>1. capture' = [capture EXCEPT ![t] = skips]
    BY <1>6 DEF TargetStatus, Step
  <2>2. w \notin steady[t]
    BY <1>6 DEF CaptureOK, Matches
  <2>3. CaptureOK(t)'
    BY <1>1, <1>2, <2>1, <2>2 DEF CaptureOK, TypeOK, calls, CaptureType
  <2> QED  BY <1>1, <1>2, <1>3, <2>1, <2>3, CaptureFrame
<1> QED  BY <1>4, <1>5, <1>6

\* The emit reaches the journal of a watch that is live.
LEMMA StepTargetEmit ==
    ASSUME Inv, NEW t \in Tenant, TargetEmit(t)
    PROVE  Inv'
<1> USE ServiceAssumption DEF Inv
<1> DEFINE w == capture[t].at
           ev == <<t, capture[t].n, capture[t].kind>>
           cap == [capture[t] EXCEPT !.pc = "fanout", !.at = None]
<1>1. /\ capture[t] \in CaptureType /\ steady \in [Tenant -> SUBSET Watch]
      /\ journal \in [Watch -> SUBSET Event] /\ capture[t].pc = "emit"
      /\ capture' = [capture EXCEPT ![t] = cap] /\ UNCHANGED <<calls, steady>>
  BY DEF TargetEmit, Step, TypeOK, CaptureType
<1>2. w \in Watch /\ owner[w] = t /\ ev \in Event
  BY <1>1 DEF CaptureOK, Event
<1>3. /\ coord[w] = "live" => journal' = [journal EXCEPT ![w] = @ \cup {ev}]
      /\ coord[w] # "live" => journal' = journal
  BY DEF TargetEmit
<1>4. /\ journal' \in [Watch -> SUBSET Event]
      /\ \A x \in Watch : journal[x] \subseteq journal'[x]
      /\ \A x \in Watch : \A e \in journal'[x] \ journal[x] : e[1] = owner[x]
      /\ coord[w] = "live" => ev \in journal'[w]
  BY <1>1, <1>2, <1>3
<1>5. cap \in CaptureType
  BY <1>1 DEF CaptureType
<1>6. CaptureOK(t)'
  BY <1>1, <1>2, <1>4, <1>5 DEF CaptureOK, TypeOK, calls, CaptureType
<1> QED  BY <1>1, <1>4, <1>5, <1>6, CaptureFrame

\* A fan-out with no target left has fed all it had to.
LEMMA StepFannedOut ==
    ASSUME Inv, NEW t \in Tenant, FannedOut(t)
    PROVE  Inv'
<1> USE ServiceAssumption DEF Inv
<1> DEFINE cap == [capture[t] EXCEPT !.pc = "idle"]
<1>1. /\ capture[t] \in CaptureType /\ steady \in [Tenant -> SUBSET Watch]
      /\ journal \in [Watch -> SUBSET Event]
      /\ capture[t].pc = "fanout" /\ capture[t].todo = {}
      /\ capture' = [capture EXCEPT ![t] = cap] /\ UNCHANGED <<calls, journal, steady>>
  BY DEF FannedOut, Step, TypeOK, CaptureType
<1>2. cap \in CaptureType
  BY <1>1 DEF CaptureType
<1>3. CaptureOK(t)'
  BY <1>1, <1>2 DEF CaptureOK, TypeOK, calls, CaptureType
<1> QED  BY <1>1, <1>2, <1>3, CaptureFrame

-----------------------------------------------------------------------------
\* Every step keeps the invariant.
LEMMA ServiceStep == Inv /\ [Next]_vars => Inv'
<1> SUFFICES ASSUME Inv, [Next]_vars PROVE Inv'
  OBVIOUS
<1>1. CASE Ask
  BY <1>1, StepCreate, StepBegin, StepListWatches DEF Ask
<1>2. CASE NewChange \/ \E t \in Tenant : Vanish(t)
  BY <1>2, StepObserve DEF NewChange
<1>3. ASSUME NEW c \in Caller, Proceed(c) PROVE Inv'
  BY <1>3, StepPauseResume, StepDelete, StepForget, StepListStatus DEF Proceed
<1>4. ASSUME NEW t \in Tenant, FanOut(t) PROVE Inv'
  BY <1>4, StepObserve, StepSnapshot, StepTargetStatus, StepTargetEmit, StepFannedOut DEF FanOut
<1>5. CASE UNCHANGED vars
  BY <1>5 DEF vars, Inv, TypeOK, RegistryAgrees, WatchOK, CallOK, CaptureOK
<1> QED  BY <1>1, <1>2, <1>3, <1>4, <1>5 DEF Next

\* The registry and the fan-out are safe under every interleaving of tool
\* calls and captures: tenants stay apart, the registry and the coordinator
\* agree outside a delete, a listing finds every watch, and a capture that
\* returns has fed every watch it had to.
THEOREM ServiceSafety ==
    Spec => [](TypeOK /\ TenantsApart /\ RegistryAgrees /\ ListFindsAll /\ NoneMissed)
<1>1. Init => Inv
  BY ServiceInit
<1>2. Inv /\ [Next]_vars => Inv'
  BY ServiceStep
<1> QED  BY <1>1, <1>2, ServiceInvSuffices, PTL DEF Spec

\* Its parts, by name.  First the types, and that self._lock is held by a call
\* exactly while it is inside a with block.
COROLLARY ServiceTyped == Spec => []TypeOK
BY ServiceSafety, PTL

\* A call that passed the ownership check acts for the owner of the watch, and
\* a journal has changes of the owner only.
COROLLARY ServiceTenantsApart == Spec => []TenantsApart
BY ServiceSafety, PTL

\* Registry and coordinator have the same watches, but for the one that the
\* holder of the lock is deleting.
COROLLARY ServiceRegistryAgrees == Spec => []RegistryAgrees
BY ServiceSafety, PTL

\* list_watches() never asks the coordinator about a watch it does not have.
COROLLARY ServiceListFindsAll == Spec => []ListFindsAll
BY ServiceSafety, PTL

-----------------------------------------------------------------------------
(* The service keeps the promise of the watch feed.                        *)

\* A capture about to emit asked whether its target wants the change, and a
\* watch keeps its criteria until it is deleted.
EmitAsked(t) ==
    capture[t].pc = "emit" =>
        LET w == capture[t].at IN coord[w] = "absent" \/ capture[t].kind \in criteria[w]
FeedInv == Inv /\ \A t \in Tenant : EmitAsked(t)

\* A call leaves a capture's target with its criteria, or without the watch.
LEMMA EmitAskedCalls ==
    ASSUME FeedInv, Ask \/ \E c \in Caller : Proceed(c), NEW t \in Tenant
    PROVE  EmitAsked(t)'
<1> USE ServiceAssumption
<1> DEFINE w == capture[t].at
<1>1. SUFFICES ASSUME capture[t].pc = "emit", capture' = capture
               PROVE  coord'[w] = "absent" \/ capture[t].kind \in criteria'[w]
  <2>1. capture' = capture
    BY DEF Ask, Proceed, CreateWatch, Begin, ListWatches, Pause, Resume, Delete, Forget, ListStatus
  <2> QED  BY <1>1, <2>1 DEF EmitAsked
<1>2. w \in Watch /\ owner[w] = t /\ (coord[w] = "absent" \/ capture[t].kind \in criteria[w])
  BY <1>1 DEF FeedInv, Inv, CaptureOK, EmitAsked
<1>3. coord \in [Watch -> {"absent", "live", "paused"}] /\ criteria \in [Watch -> SUBSET Kind]
  BY DEF FeedInv, Inv, TypeOK
<1>4. ASSUME NEW c \in Caller, NEW x \in Tenant, NEW K \in SUBSET Kind,
             NEW R \in SUBSET (Choking \ K), CreateWatch(c, x, K, R)
      PROVE  coord'[w] = coord[w] /\ criteria'[w] = criteria[w]
  BY <1>2, <1>3, <1>4 DEF CreateWatch
<1>5. ASSUME NEW c \in Caller, Pause(c) \/ Resume(c) \/ Delete(c)
      PROVE  criteria' = criteria /\ (coord[w] = "absent" => coord'[w] = "absent")
  BY <1>2, <1>3, <1>5 DEF Pause, Resume, Delete
<1>6. ASSUME NEW c \in Caller, Forget(c)
      PROVE  coord'[w] = "absent" \/ capture[t].kind \in criteria'[w]
  <2>1. call[c].watch \in Watch /\ coord[call[c].watch] = "absent"
    BY <1>6 DEF Forget, FeedInv, Inv, CallOK, RegistryAgrees, TypeOK
  <2>2. coord' = coord /\ criteria' = [criteria EXCEPT ![call[c].watch] = {}]
    BY <1>6 DEF Forget
  <2> QED  BY <1>2, <1>3, <2>1, <2>2
<1>7. ASSUME NEW c \in Caller, NEW x \in Tenant,
             ListStatus(c) \/ ListWatches(c, x)
                \/ \E o \in {"pause", "resume", "delete"}, y \in Watch : Begin(c, o, y, x)
      PROVE  UNCHANGED <<coord, criteria>>
  BY <1>7 DEF ListStatus, ListWatches, Begin
<1> QED  BY <1>2, <1>4, <1>5, <1>6, <1>7 DEF Ask, Proceed

\* A capture emits only after it has looked.
LEMMA EmitAskedCaptures ==
    ASSUME FeedInv, NewChange \/ \E x \in Tenant : FanOut(x) \/ Vanish(x), NEW t \in Tenant
    PROVE  EmitAsked(t)'
<1>1. UNCHANGED <<coord, criteria>>
  BY DEF NewChange, FanOut, Observe, Snapshot, TargetStatus, TargetEmit, FannedOut, Rescan, Vanish, calls
<1>2. capture \in [Tenant -> CaptureType] /\ EmitAsked(t)
  BY DEF FeedInv, Inv, TypeOK, CaptureType
<1>3. ASSUME NEW x \in Tenant, NEW cap, Step(x, cap),
             cap.pc = "emit" => coord[cap.at] = "absent" \/ cap.kind \in criteria[cap.at]
      PROVE  EmitAsked(t)'
  BY <1>1, <1>2, <1>3 DEF EmitAsked, Step
<1>4. ASSUME NEW x \in Tenant, NEW k \in Kind, Observe(x, k) PROVE EmitAsked(t)'
  <2>1. [capture[x] EXCEPT !.pc = "snapshot", !.n = @ + 1, !.kind = k].pc = "snapshot"
    BY <1>2 DEF CaptureType
  <2> QED  BY <1>3, <1>4, <2>1 DEF Observe
<1>5. ASSUME NEW x \in Tenant, Snapshot(x) PROVE EmitAsked(t)'
  <2>1. [capture[x] EXCEPT !.pc = "fanout", !.todo = Owned(x)].pc = "fanout"
    BY <1>2 DEF CaptureType
  <2> QED  BY <1>3, <1>5, <2>1 DEF Snapshot
<1>6. ASSUME NEW x \in Tenant, NEW w \in Watch, TargetStatus(x, w) PROVE EmitAsked(t)'
  <2> DEFINE raised == [capture[x] EXCEPT !.pc = "raised", !.todo = {}]
             emits == [capture[x] EXCEPT !.pc = "emit", !.todo = @ \ {w}, !.at = w]
             skips == [capture[x] EXCEPT !.todo = @ \ {w}]
  <2>1. /\ raised.pc = "raised" /\ skips.pc = capture[x].pc /\ capture[x].pc = "fanout"
        /\ emits.at = w /\ emits.kind = capture[x].kind
    BY <1>2, <1>6 DEF CaptureType, TargetStatus
  <2>2. \/ Step(x, raised) \/ Step(x, skips)
        \/ Step(x, emits) /\ capture[x].kind \in criteria[w]
    BY <1>6 DEF TargetStatus, Matches
  <2> HIDE DEF raised, emits, skips
  <2> QED  BY <1>3, <2>1, <2>2
<1>7. ASSUME NEW x \in Tenant, TargetEmit(x) PROVE EmitAsked(t)'
  <2>1. [capture[x] EXCEPT !.pc = "fanout", !.at = None].pc = "fanout"
    BY <1>2 DEF CaptureType
  <2> QED  BY <1>3, <1>7, <2>1 DEF TargetEmit
<1>8. ASSUME NEW x \in Tenant, FannedOut(x) PROVE EmitAsked(t)'
  <2>1. [capture[x] EXCEPT !.pc = "idle"].pc = "idle"
    BY <1>2 DEF CaptureType
  <2> QED  BY <1>3, <1>8, <2>1 DEF FannedOut
<1>9. ASSUME NEW x \in Tenant, Rescan(x) PROVE EmitAsked(t)'
  <2>1. [capture[x] EXCEPT !.pc = "snapshot"].pc = "snapshot"
    BY <1>2 DEF CaptureType
  <2> QED  BY <1>3, <1>9, <2>1 DEF Rescan
<1>10. ASSUME NEW x \in Tenant, Vanish(x) PROVE EmitAsked(t)'
  <2>1. [capture[x] EXCEPT !.pc = "lost"].pc = "lost"
    BY <1>2 DEF CaptureType
  <2> QED  BY <1>3, <1>10, <2>1 DEF Vanish
<1> QED  BY <1>4, <1>5, <1>6, <1>7, <1>8, <1>9, <1>10 DEF NewChange, FanOut

LEMMA FeedInvStep == FeedInv /\ [Next]_vars => FeedInv'
<1> SUFFICES ASSUME FeedInv, [Next]_vars PROVE FeedInv'
  OBVIOUS
<1>1. Inv'
  BY ServiceStep DEF FeedInv
<1>2. ASSUME NEW t \in Tenant PROVE EmitAsked(t)'
  <2>1. CASE UNCHANGED vars
    BY <2>1 DEF vars, FeedInv, EmitAsked
  <2> QED  BY <2>1, EmitAskedCalls, EmitAskedCaptures DEF Next
<1> QED  BY <1>1, <1>2 DEF FeedInv

\* A new watch is one the feed has not used.
LEMMA FeedCreate ==
    ASSUME FeedInv, NEW c \in Caller, NEW t \in Tenant, NEW K \in SUBSET Kind,
           NEW R \in SUBSET (Choking \ K), CreateWatch(c, t, K, R)
    PROVE  Feed!Next
<1> USE ServiceAssumption
<1>1. PICK w \in Watch :
         /\ owner[w] = None /\ owner' = [owner EXCEPT ![w] = t]
         /\ coord' = [coord EXCEPT ![w] = "live"]
         /\ criteria' = [criteria EXCEPT ![w] = K]
         /\ chokes' = [chokes EXCEPT ![w] = R]
  BY DEF CreateWatch
<1>2. /\ owner \in [Watch -> Tenant \cup {None}]
      /\ criteria \in [Watch -> SUBSET Kind] /\ chokes \in [Watch -> SUBSET Choking]
      /\ coord \in [Watch -> {"absent", "live", "paused"}]
  BY DEF FeedInv, Inv, TypeOK
<1>3. /\ StateOf(w) = "unused" /\ StateOf(w)' = "live"
      /\ \A x \in Watch : x # w => StateOf(x)' = StateOf(x)
  BY <1>1, <1>2 DEF StateOf
<1>4. UNCHANGED <<journal, capture, steady>>
  BY DEF CreateWatch
<1>5. Feed!Create(w, t, K, R)
  BY <1>1, <1>2, <1>3, <1>4 DEF Feed!Create, Feed!changeVars, PhaseOf
<1> QED  BY <1>5 DEF Feed!Next

\* A call that reaches the coordinator is the feed's step; one that finds no
\* watch there is none.
LEMMA FeedCall ==
    ASSUME FeedInv, NEW c \in Caller, Pause(c) \/ Resume(c) \/ Delete(c)
    PROVE  Feed!Next \/ UNCHANGED Feed!feedVars
<1> USE ServiceAssumption
<1>0. PICK w \in Watch : w = call[c].watch
  BY DEF Pause, Resume, Delete, FeedInv, Inv, CallOK
<1>1. w = call[c].watch /\ UNCHANGED <<owner, criteria, chokes, journal, capture>>
  BY <1>0 DEF Pause, Resume, Delete
<1>2. /\ coord \in [Watch -> {"absent", "live", "paused"}]
      /\ coord[w] # "absent" => owner[w] # None
      /\ steady \in [Tenant -> SUBSET Watch]
  BY DEF FeedInv, Inv, TypeOK, WatchOK
<1>3. CASE coord[w] = "absent"
  <2>1. UNCHANGED <<coord, steady>>
    BY <1>1, <1>3 DEF Pause, Resume, Delete
  <2> QED  BY <1>1, <2>1 DEF Feed!feedVars, Feed!watchVars, Feed!changeVars, StateOf, PhaseOf
<1>4. CASE coord[w] # "absent"
  <2>1. ASSUME NEW s \in {"absent", "live", "paused"}, coord' = [coord EXCEPT ![w] = s]
        PROVE  /\ StateOf(w) \in {"live", "paused"}
               /\ StateOf(w)' = IF s = "absent" THEN "gone" ELSE s
               /\ \A x \in Watch : x # w => StateOf(x)' = StateOf(x)
               /\ coord'[w] = s /\ \A x \in Watch : x # w => coord'[x] = coord[x]
    BY <1>1, <1>2, <1>4, <2>1 DEF StateOf
  <2>2. CASE Pause(c)
    <3>1. coord' = [coord EXCEPT ![w] = "paused"] /\ steady' = [t \in Tenant |-> steady[t] \ {w}]
      BY <1>1, <1>4, <2>2 DEF Pause, Leaves
    <3>2. Feed!Pause(w)
      BY <1>1, <1>2, <1>4, <2>1, <3>1 DEF Feed!Pause, Feed!Exists, Feed!Goes, Feed!changeVars, PhaseOf
    <3> QED  BY <1>1, <3>2 DEF Feed!Next
  <2>3. CASE Resume(c)
    <3>1. coord' = [coord EXCEPT ![w] = "live"] /\ steady' = steady
      BY <1>1, <1>4, <2>3 DEF Resume
    <3>2. Feed!Resume(w)
      BY <1>1, <1>2, <1>4, <2>1, <3>1 DEF Feed!Resume, Feed!Exists, Feed!changeVars, PhaseOf
    <3> QED  BY <1>1, <3>2 DEF Feed!Next
  <2>4. CASE Delete(c)
    <3>1. coord' = [coord EXCEPT ![w] = "absent"] /\ steady' = [t \in Tenant |-> steady[t] \ {w}]
      BY <1>1, <1>4, <2>4 DEF Delete, Leaves
    <3>2. Feed!Delete(w)
      BY <1>1, <1>2, <1>4, <2>1, <3>1 DEF Feed!Delete, Feed!Exists, Feed!Goes, Feed!changeVars, PhaseOf
    <3> QED  BY <1>1, <3>2 DEF Feed!Next
  <2> QED  BY <2>2, <2>3, <2>4
<1> QED  BY <1>3, <1>4

\* The steps of a call on either side of the coordinator are not the feed's.
LEMMA FeedCallSilent ==
    ASSUME FeedInv, NEW c \in Caller,
           \/ Forget(c) \/ ListStatus(c)
           \/ \E t \in Tenant : ListWatches(c, t)
           \/ \E o \in {"pause", "resume", "delete"}, w \in Watch, t \in Tenant : Begin(c, o, w, t)
    PROVE  UNCHANGED Feed!feedVars
<1> USE ServiceAssumption
<1>1. UNCHANGED <<owner, coord, journal, capture, steady>>
  BY DEF Forget, ListStatus, ListWatches, Begin
<1>2. \A w \in Watch : coord[w] = "absent" \/ (criteria'[w] = criteria[w] /\ chokes'[w] = chokes[w])
  <2>1. CASE Forget(c)
    <3>1. call[c].watch \in Watch /\ coord[call[c].watch] = "absent"
      BY <2>1 DEF Forget, FeedInv, Inv, CallOK, RegistryAgrees, TypeOK
    <3> QED  BY <2>1, <3>1 DEF Forget, FeedInv, Inv, TypeOK
  <2> QED  BY <2>1 DEF ListStatus, ListWatches, Begin
<1> QED  BY <1>1, <1>2 DEF Feed!feedVars, Feed!watchVars, Feed!changeVars, StateOf, PhaseOf

\* A fan-out reaches the watches the feed says, and is over for the feed when
\* it is over for the service.
LEMMA FeedCapture ==
    ASSUME FeedInv, NEW t \in Tenant,
           FanOut(t) \/ Vanish(t) \/ \E k \in Kind : Observe(t, k)
    PROVE  Feed!Next \/ UNCHANGED Feed!feedVars
<1> USE ServiceAssumption
<1>1. /\ capture \in [Tenant -> CaptureType] /\ steady \in [Tenant -> SUBSET Watch]
      /\ journal \in [Watch -> SUBSET Event] /\ CaptureOK(t) /\ EmitAsked(t)
      /\ capture[t] \in CaptureType
  BY DEF FeedInv, Inv, TypeOK, CaptureType
<1>2. UNCHANGED <<registry, criteria, chokes, coord, owner>>
  BY DEF FanOut, Observe, Snapshot, TargetStatus, TargetEmit, FannedOut, Rescan, Vanish, calls
<1>3. \A w \in Watch : coord[w] # "absent" => owner[w] # None /\ registry[w] = owner[w]
  BY DEF FeedInv, Inv, WatchOK
<1>4. ASSUME NEW cap \in CaptureType, Step(t, cap)
      PROVE  /\ capture'[t] = cap /\ \A x \in Tenant : x # t => capture'[x] = capture[x]
             /\ cap.pc \in {"idle", "lost"} => PhaseOf(t)' = "done"
             /\ cap.pc = "raised" => PhaseOf(t)' = "broken"
             /\ cap.pc = "snapshot" => PhaseOf(t)' = "observed"
             /\ cap.pc \in {"fanout", "emit"} => PhaseOf(t)' = "spreading"
             /\ \A x \in Tenant : x # t => PhaseOf(x)' = PhaseOf(x)
  BY <1>1, <1>4 DEF Step, PhaseOf
<1>5. ASSUME NEW cap \in CaptureType, Step(t, cap),
             cap.n = capture[t].n, cap.kind = capture[t].kind
      PROVE  /\ [x \in Tenant |-> capture[x].n]' = [x \in Tenant |-> capture[x].n]
             /\ [x \in Tenant |-> capture[x].kind]' = [x \in Tenant |-> capture[x].kind]
             /\ PhaseOf(t)' = PhaseOf(t) => UNCHANGED Feed!changeVars
  <2>1. /\ capture'[t] = cap /\ \A x \in Tenant : x # t => capture'[x] = capture[x]
        /\ \A x \in Tenant : x # t => PhaseOf(x)' = PhaseOf(x)
    BY <1>4, <1>5
  <2>2. \A x \in Tenant : capture'[x].n = capture[x].n /\ capture'[x].kind = capture[x].kind
    BY <1>5, <2>1
  <2> QED  BY <2>1, <2>2 DEF Feed!changeVars
<1>6. /\ capture[t].pc \in {"idle", "lost"} => PhaseOf(t) = "done"
      /\ capture[t].pc = "raised" => PhaseOf(t) = "broken"
      /\ capture[t].pc = "snapshot" => PhaseOf(t) = "observed"
      /\ capture[t].pc \in {"fanout", "emit"} => PhaseOf(t) = "spreading"
  BY DEF PhaseOf
<1>7. UNCHANGED Feed!watchVars
  BY <1>2 DEF Feed!watchVars, StateOf
<1>8. ASSUME NEW k \in Kind, Observe(t, k) PROVE Feed!Observe(t, k)
  <2> DEFINE cap == [capture[t] EXCEPT !.pc = "snapshot", !.n = @ + 1, !.kind = k]
  <2>1. cap \in CaptureType /\ cap.pc = "snapshot" /\ cap.n = capture[t].n + 1 /\ cap.kind = k
    <3>1. capture[t].n \in 0..MaxChanges /\ capture[t].n < MaxChanges /\ MaxChanges \in Nat
      BY <1>1, <1>8 DEF CaptureType, Observe
    <3>2. capture[t].n + 1 \in 0..MaxChanges
      BY <3>1
    <3> QED  BY <1>1, <3>2 DEF CaptureType
  <2>2. /\ Step(t, cap) /\ capture[t].pc \in {"idle", "lost"}
        /\ steady' = [steady EXCEPT ![t] = {}] /\ journal' = journal
    BY <1>8 DEF Observe
  <2> HIDE DEF cap
  <2> QED  BY <1>1, <1>4, <1>6, <1>7, <2>1, <2>2 DEF Feed!Observe
<1>9. CASE Snapshot(t)
  <2> DEFINE cap == [capture[t] EXCEPT !.pc = "fanout", !.todo = Owned(t)]
             fed == {w \in Owned(t) : coord[w] = "live" /\ capture[t].kind \in criteria[w]}
  <2>1. /\ cap \in CaptureType /\ cap.pc = "fanout" /\ cap.n = capture[t].n
        /\ cap.kind = capture[t].kind
    BY <1>1 DEF CaptureType, Owned
  <2>2. /\ Step(t, cap) /\ capture[t].pc = "snapshot" /\ steady' = [steady EXCEPT ![t] = fed]
        /\ journal' = journal
    BY <1>9 DEF Snapshot
  <2>3. fed = {w \in Watch : owner[w] = t /\ StateOf(w) = "live"
                               /\ capture[t].kind \in (IF coord[w] = "absent" THEN {} ELSE criteria[w])}
    BY <1>3 DEF Owned, StateOf
  <2> HIDE DEF cap, fed
  <2>4. Feed!Spread(t)
    BY <1>1, <1>4, <1>5, <1>6, <1>7, <2>1, <2>2, <2>3 DEF Feed!Spread, Feed!Asks
  <2> QED  BY <2>4 DEF Feed!Next
<1>10. ASSUME NEW w \in Watch, TargetStatus(t, w)
       PROVE  Feed!Next \/ UNCHANGED Feed!feedVars
  <2> DEFINE raised == [capture[t] EXCEPT !.pc = "raised", !.todo = {}]
             emits == [capture[t] EXCEPT !.pc = "emit", !.todo = @ \ {w}, !.at = w]
             skips == [capture[t] EXCEPT !.todo = @ \ {w}]
  <2>1. \A cap \in {raised, emits, skips} :
           /\ cap \in CaptureType /\ cap.pc \in {"raised", "emit", "fanout"}
           /\ cap.n = capture[t].n /\ cap.kind = capture[t].kind
    <3>1. capture[t] \in CaptureType /\ capture[t].pc = "fanout"
      BY <1>1, <1>10 DEF TargetStatus
    <3>2. raised \in CaptureType /\ emits \in CaptureType /\ skips \in CaptureType
      BY <3>1 DEF CaptureType
    <3>3. /\ raised.pc = "raised" /\ emits.pc = "emit" /\ skips.pc = "fanout"
          /\ raised.n = capture[t].n /\ emits.n = capture[t].n /\ skips.n = capture[t].n
          /\ raised.kind = capture[t].kind /\ emits.kind = capture[t].kind
          /\ skips.kind = capture[t].kind
      BY <3>1 DEF CaptureType
    <3> HIDE DEF raised, emits, skips
    <3> QED  BY <3>2, <3>3
  <2>2. \/ Step(t, raised) /\ StatusRaises(t, w)
        \/ \E cap \in {emits, skips} : Step(t, cap) /\ cap.pc # "raised"
    BY <1>1, <1>10 DEF TargetStatus, CaptureType
  <2>3. capture[t].pc = "fanout" /\ UNCHANGED <<journal, steady>>
    BY <1>10 DEF TargetStatus
  <2> HIDE DEF raised, emits, skips
  <2>4. ASSUME NEW cap \in {emits, skips}, Step(t, cap), cap.pc # "raised"
        PROVE  UNCHANGED Feed!feedVars
    BY <1>4, <1>5, <1>6, <1>7, <2>4, <2>3, <2>1 DEF Feed!feedVars
  <2>5. ASSUME Step(t, raised), StatusRaises(t, w) PROVE Feed!Next
    <3>1. /\ owner[w] = t
          /\ \/ StateOf(w) = "gone"
             \/ StateOf(w) = "live" /\ coord[w] # "absent" /\ capture[t].kind \in chokes[w]
      BY <1>1, <1>10, <2>5 DEF TargetStatus, CaptureOK, StatusRaises, StateOf
    <3>2. Feed!Stops(w, t)
      BY <3>1 DEF Feed!Stops
    <3>4. /\ raised \in CaptureType /\ raised.pc = "raised"
          /\ raised.n = capture[t].n /\ raised.kind = capture[t].kind
      BY <1>1 DEF raised, CaptureType
    <3>5. /\ PhaseOf(t) = "spreading" /\ PhaseOf(t)' = "broken"
          /\ \A x \in Tenant : x # t => PhaseOf(x)' = PhaseOf(x)
      BY <1>4, <1>6, <2>3, <2>5, <3>4
    <3>3. Feed!Interrupt(t)
      BY <1>5, <1>7, <2>3, <2>5, <3>2, <3>4, <3>5 DEF Feed!Interrupt
    <3> QED  BY <3>3 DEF Feed!Next
  <2> QED  BY <2>2, <2>4, <2>5
<1>11. CASE TargetEmit(t)
  <2> DEFINE cap == [capture[t] EXCEPT !.pc = "fanout", !.at = None]
             w == capture[t].at
  <2>1. /\ cap \in CaptureType /\ cap.pc = "fanout" /\ cap.n = capture[t].n
        /\ cap.kind = capture[t].kind
    BY <1>1 DEF CaptureType
  <2>2. Step(t, cap) /\ capture[t].pc = "emit" /\ steady' = steady
    BY <1>11 DEF TargetEmit
  <2>3. w \in Watch /\ owner[w] = t /\ (coord[w] = "absent" \/ capture[t].kind \in criteria[w])
    BY <1>1, <2>2 DEF CaptureOK, EmitAsked
  <2> HIDE DEF cap
  <2>4. CASE coord[w] = "live"
    <3>1. journal' = [journal EXCEPT ![w] = @ \cup {<<t, capture[t].n, capture[t].kind>>}]
      BY <1>11, <2>4 DEF TargetEmit
    <3>2. StateOf(w) = "live"
      BY <1>3, <2>3, <2>4 DEF StateOf
    <3>3. Feed!Feed(t, w)
      BY <1>4, <1>5, <1>6, <1>7, <2>1, <2>2, <2>3, <2>4, <3>1, <3>2
      DEF Feed!Feed, Feed!Asks
    <3> QED  BY <2>3, <3>3 DEF Feed!Next
  <2>5. CASE coord[w] # "live"
    <3>1. journal' = journal
      BY <1>11, <2>5 DEF TargetEmit
    <3> QED  BY <1>4, <1>5, <1>6, <1>7, <2>1, <2>2, <3>1 DEF Feed!feedVars
  <2> QED  BY <2>4, <2>5
<1>12. CASE FannedOut(t)
  <2> DEFINE cap == [capture[t] EXCEPT !.pc = "idle"]
  <2>1. /\ cap \in CaptureType /\ cap.pc = "idle" /\ cap.n = capture[t].n
        /\ cap.kind = capture[t].kind
    BY <1>1 DEF CaptureType
  <2>2. /\ Step(t, cap) /\ capture[t].pc = "fanout" /\ capture[t].todo = {}
        /\ UNCHANGED <<journal, steady>>
    BY <1>12 DEF FannedOut
  <2>3. \A w \in steady[t] : <<t, capture[t].n, capture[t].kind>> \in journal[w]
    BY <1>1, <2>2 DEF CaptureOK
  <2> HIDE DEF cap
  <2>4. Feed!Finish(t)
    BY <1>4, <1>5, <1>6, <1>7, <2>1, <2>2, <2>3 DEF Feed!Finish
  <2> QED  BY <2>4 DEF Feed!Next
<1>13. ASSUME NEW p \in {"snapshot", "lost"}, capture[t].pc = "raised",
              Step(t, [capture[t] EXCEPT !.pc = p]), UNCHANGED <<calls, journal, steady>>
       PROVE  Feed!SeenAgain(t) \/ Feed!Lose(t)
  <2> DEFINE cap == [capture[t] EXCEPT !.pc = p]
  <2>1. /\ cap \in CaptureType /\ cap.pc = p /\ cap.n = capture[t].n
        /\ cap.kind = capture[t].kind
    BY <1>1 DEF CaptureType
  <2>2. Step(t, cap)
    BY <1>13
  <2> HIDE DEF cap
  <2>3. /\ PhaseOf(t) = "broken" /\ PhaseOf(t)' = IF p = "snapshot" THEN "observed" ELSE "done"
        /\ \A x \in Tenant : x # t => PhaseOf(x)' = PhaseOf(x)
    BY <1>4, <1>6, <1>13, <2>1, <2>2
  <2> QED  BY <1>5, <1>7, <1>13, <2>1, <2>2, <2>3 DEF Feed!SeenAgain, Feed!Lose
<1>14. (\E k \in Kind : Feed!Observe(t, k)) \/ Feed!SeenAgain(t) \/ Feed!Lose(t) => Feed!Next
  BY DEF Feed!Next
<1> QED  BY <1>8, <1>9, <1>10, <1>11, <1>12, <1>13, <1>14 DEF FanOut, Rescan, Vanish

\* The service implements the watch feed: under every interleaving of calls
\* and captures, watches are created, paused, resumed and deleted at one
\* moment each, a watch gets changes only while it is live, of its own tenant
\* and of the kinds it asks for, and no capture returns before every watch it
\* owes the change to has it.
THEOREM ServiceImplementsFeed == Spec => FeedSpec
<1>1. Init => FeedInv /\ Feed!Init
  <2>1. Init => Inv
    BY ServiceInit
  <2>2. Init => \A t \in Tenant : EmitAsked(t)
    BY DEF Init, EmitAsked, NoCapture
  <2>3. Init => Feed!Init
    BY ServiceAssumption DEF Init, Feed!Init, StateOf, PhaseOf, NoCapture
  <2> QED  BY <2>1, <2>2, <2>3 DEF FeedInv
<1>2. FeedInv /\ [Next]_vars => FeedInv'
  BY FeedInvStep
<1>3. FeedInv /\ [Next]_vars => [Feed!Next]_(Feed!feedVars)
  <2> SUFFICES ASSUME FeedInv, [Next]_vars PROVE Feed!Next \/ UNCHANGED Feed!feedVars
    OBVIOUS
  <2>1. CASE Ask
    BY <2>1, FeedCreate, FeedCallSilent, Zenon DEF Ask
  <2>2. ASSUME NEW c \in Caller, Proceed(c) PROVE Feed!Next \/ UNCHANGED Feed!feedVars
    <3>1. CASE Pause(c) \/ Resume(c) \/ Delete(c)
      BY <3>1, FeedCall, Zenon
    <3>2. CASE Forget(c) \/ ListStatus(c)
      <4>1. UNCHANGED Feed!feedVars
        BY <3>2, FeedCallSilent, Zenon
      <4> QED  BY <4>1, Zenon
    <3> QED  BY <2>2, <3>1, <3>2 DEF Proceed
  <2>3. CASE NewChange \/ \E t \in Tenant : Vanish(t)
    BY <2>3, FeedCapture, Zenon DEF NewChange
  <2>4. ASSUME NEW t \in Tenant, FanOut(t) PROVE Feed!Next \/ UNCHANGED Feed!feedVars
    BY <2>4, FeedCapture, Zenon
  <2>5. CASE UNCHANGED vars
    BY <2>5 DEF vars, Feed!feedVars, Feed!watchVars, Feed!changeVars, StateOf, PhaseOf
  <2> QED  BY <2>1, <2>2, <2>3, <2>4, <2>5 DEF Next
<1> QED  BY <1>1, <1>2, <1>3, PTL DEF Spec, FeedSpec, Feed!Spec
=============================================================================
