-------------------------- MODULE AdminStateProofs --------------------------
(***************************************************************************)
(* Theorems about AdminState, for every set of processes, users, groups,   *)
(* keys, bindings and profiles, and any number of operations.              *)
(***************************************************************************)
EXTENDS AdminState, AdminSnapshotProofs

-----------------------------------------------------------------------------
(* Every change a process makes to its snapshot is an operation of the     *)
(* registry, and drops the grants of everybody it concerns.                *)

Changed(p) ==
    \E D \in SUBSET Subject, K \in SUBSET Key : \E t :
        /\ Change(p, t, D, K) /\ Step(req[p].snap, t)
        /\ \A k \in K : t.keys[k].owner # None
        /\ drawn' = drawn \cup K
        /\ manager' \in [Proc -> [Key -> {"absent", "active", "revoked"}]]
        /\ ~ClientIds => GrantsKept(req[p].snap, t, D)

LEMMA OperationShape ==
  ASSUME TypeOK, NEW p \in Proc,
         UserOps(p) \/ GroupOps(p) \/ KeyOps(p) \/ BindingOps(p) \/ OverlayOps(p)
  PROVE  Changed(p) \/ \E x \in Subject, r \in Grant : CreateBindingAgain(p, x, r)
<1> DEFINE s == req[p].snap
           M == [Proc -> [Key -> {"absent", "active", "revoked"}]]
<1>0. s \in Snapshot /\ manager \in M
  BY DEF TypeOK, Request
<1>a. ASSUME NEW D \in SUBSET Subject, NEW t, ChangeOnly(p, t, D), Step(s, t),
             ~ClientIds => GrantsKept(s, t, D)
      PROVE  Changed(p)
  <2>1. Change(p, t, D, {}) /\ drawn' = drawn \cup {} /\ manager' \in M
    BY <1>0, <1>a DEF ChangeOnly
  <2> HIDE DEF s
  <2> QED
    BY <1>a, <2>1 DEF Changed, s
<1>u. User \in SUBSET Subject /\ {} \in SUBSET Subject
  BY DEF Subject
<1> HIDE DEF s, M
<1>b. \A t : GrantsKept(s, t, User)
  BY <1>0, GrantsOfUsers
<1>1. CASE UserOps(p)
  <2> PICK u \in User : \/ \E n \in Name : CreateUser(p, u, n) \/ UpdateUser(p, u, n)
                        \/ DeleteUser(p, u)
    BY <1>1 DEF UserOps
  <2>1. ASSUME NEW n \in Name, CreateUser(p, u, n) \/ UpdateUser(p, u, n)
        PROVE  Changed(p)
    <3>1. UserStep(s, WithUser(s, u, n)) /\ ChangeOnly(p, WithUser(s, u, n), User)
      BY <2>1 DEF UserStep, CreateUser, UpdateUser, s
    <3> QED
      BY <3>1, <1>a, <1>b, <1>u DEF Step
  <2>2. ASSUME DeleteUser(p, u)
        PROVE  Changed(p)
    <3>1. UserStep(s, WithoutUser(s, u)) /\ ChangeOnly(p, WithoutUser(s, u), User)
      BY <2>2 DEF UserStep, DeleteUser, s
    <3> QED
      BY <3>1, <1>a, <1>b, <1>u DEF Step
  <2> QED
    BY <2>1, <2>2
<1>2. CASE GroupOps(p)
  <2>1. PICK t : GroupStep(s, t) /\ ChangeOnly(p, t, User)
    <3> PICK g \in Group :
          \/ \E n \in Name, A \in SUBSET User, B \in SUBSET User : CreateGroup(p, g, n, A, B)
          \/ \E n \in Name, A \in SUBSET User : UpdateGroup(p, g, n, A)
          \/ DeleteGroup(p, g)
          \/ \E u \in User : AddGroupMember(p, g, u) \/ RemoveGroupMember(p, g, u)
      BY <1>2 DEF GroupOps
    <3>1. ASSUME NEW n \in Name, NEW A \in SUBSET User, NEW B \in SUBSET User,
                 CreateGroup(p, g, n, A, B)
          PROVE  GroupStep(s, WithGroup(s, g, n, A, B))
                 /\ ChangeOnly(p, WithGroup(s, g, n, A, B), User)
      BY <3>1 DEF GroupStep, CreateGroup, s
    <3>2. ASSUME NEW n \in Name, NEW A \in SUBSET User, UpdateGroup(p, g, n, A)
          PROVE  GroupStep(s, UpdatedGroup(s, g, n, A))
                 /\ ChangeOnly(p, UpdatedGroup(s, g, n, A), User)
      BY <3>2 DEF GroupStep, UpdateGroup, s
    <3>3. ASSUME DeleteGroup(p, g)
          PROVE  GroupStep(s, WithoutGroup(s, g)) /\ ChangeOnly(p, WithoutGroup(s, g), User)
      BY <3>3 DEF GroupStep, DeleteGroup, s
    <3>4. ASSUME NEW u \in User, AddGroupMember(p, g, u)
          PROVE  GroupStep(s, WithMember(s, g, u)) /\ ChangeOnly(p, WithMember(s, g, u), User)
      BY <3>4 DEF GroupStep, AddGroupMember, s
    <3>5. ASSUME NEW u \in User, RemoveGroupMember(p, g, u)
          PROVE  GroupStep(s, WithoutMember(s, g, u))
                 /\ ChangeOnly(p, WithoutMember(s, g, u), User)
      BY <3>5 DEF GroupStep, RemoveGroupMember, s
    <3> QED
      BY <3>1, <3>2, <3>3, <3>4, <3>5
  <2> QED
    BY <2>1, <1>a, <1>b, <1>u DEF Step
<1>3. CASE KeyOps(p)
  <2> PICK k \in Key : RevokeApiKey(p, k) \/ \E u \in User : CreateApiKey(p, k, u)
    BY <1>3 DEF KeyOps
  <2>1. ASSUME RevokeApiKey(p, k)
        PROVE  Changed(p)
    <3> DEFINE t == RevokedKey(s, k)
    <3>1. Change(p, t, {}, {}) /\ KeyStep(s, t) /\ drawn' = drawn \cup {}
      BY <2>1 DEF RevokeApiKey, KeyStep, s
    <3>2. manager' \in M
      BY <1>0, <2>1 DEF RevokeApiKey, M
    <3>3. GrantsKept(s, t, {})
      BY <1>0, GrantsOfNobody DEF RevokedKey, Snapshot
    <3> HIDE DEF t
    <3> QED
      BY <3>1, <3>2, <3>3, <1>u DEF Changed, Step, s, M
  <2>2. ASSUME NEW u \in User, CreateApiKey(p, k, u)
        PROVE  Changed(p)
    <3> DEFINE t == WithKey(s, k, u)
    <3>1. Change(p, t, {}, {k}) /\ KeyStep(s, t) /\ drawn' = drawn \cup {k}
      BY <2>2 DEF CreateApiKey, KeyStep, s
    <3>2. manager' \in M
      BY <1>0, <2>2 DEF CreateApiKey, M
    <3>3. GrantsKept(s, t, {})
      BY <1>0, GrantsOfNobody DEF WithKey, Snapshot
    <3>4. t.keys[k].owner # None
      BY <1>0, SnapshotAssumption DEF WithKey, Snapshot
    <3> HIDE DEF t
    <3> QED
      BY <3>1, <3>2, <3>3, <3>4, <1>u DEF Changed, Step, s, M
  <2> QED
    BY <2>1, <2>2
<1>4. CASE BindingOps(p)
  <2>1. ASSUME NEW x \in Subject, NEW r \in Grant, NEW b \in BindingId,
               CreateBinding(p, b, x, r)
        PROVE  Changed(p)
    <3> DEFINE t == WithBinding(s, b, x, r)
               B == [subject |-> x, grant |-> r]
    <3>1. ChangeOnly(p, t, {x}) /\ BindingStep(s, t) /\ (~ClientIds => s.bindings[b] = NoBinding)
      BY <2>1 DEF CreateBinding, BindingStep, s
    <3>2. t.groups = s.groups /\ t.bindings = [s.bindings EXCEPT ![b] = B]
      BY <1>0 DEF WithBinding, Snapshot
    <3>3. B.subject = x
      OBVIOUS
    <3> HIDE DEF t, B
    <3>4. ~ClientIds => GrantsKept(s, t, {x})
      BY <1>0, <3>1, <3>2, <3>3, GrantsOfSubject DEF NoBinding
    <3> QED
      BY <3>1, <3>4, <1>a DEF Step
  <2>2. ASSUME NEW b \in BindingId, DeleteBinding(p, b)
        PROVE  Changed(p)
    <3> DEFINE t == WithoutBinding(s, b)
               x == s.bindings[b].subject
    <3>1. ChangeOnly(p, t, {x}) /\ BindingStep(s, t) /\ s.bindings[b] # NoBinding
      BY <2>2 DEF DeleteBinding, BindingStep, CanUnbind, s
    <3>2. x \in Subject
      BY <1>0, <3>1 DEF Snapshot
    <3>3. t.groups = s.groups /\ t.bindings = [s.bindings EXCEPT ![b] = NoBinding]
          /\ NoBinding.subject = None
      BY <1>0 DEF WithoutBinding, Snapshot, NoBinding
    <3> HIDE DEF t
    <3>4. GrantsKept(s, t, {x})
      BY <1>0, <3>3, GrantsOfSubject
    <3> QED
      BY <3>1, <3>2, <3>4, <1>a DEF Step
  <2> QED
    BY <1>4, <2>1, <2>2 DEF BindingOps
<1>5. CASE OverlayOps(p)
  <2>1. PICK t : OverlayStep(s, t) /\ ChangeOnly(p, t, {})
    BY <1>5 DEF OverlayOps, UpsertProfile, DeleteProfile, UpdateSettings, OverlayStep, s
  <2>2. t.bindings = s.bindings /\ t.groups = s.groups
    BY <1>0, <2>1 DEF OverlayStep, WithProfile, WithoutProfile, WithSettings, Snapshot
  <2> QED
    BY <1>0, <1>a, <1>u, <2>1, <2>2, GrantsOfNobody DEF Step
<1> QED
  BY <1>1, <1>2, <1>3, <1>4, <1>5

-----------------------------------------------------------------------------
(* The type invariant and the soundness of the file: every snapshot a      *)
(* process holds is sound, whoever overwrites whose.                       *)

\* A request that is well formed: its snapshot is sound, its keys were drawn,
\* and only a process that serves administrators is in one.
WellFormed(p) ==
    /\ Sound(req[p].snap) /\ req[p].made \subseteq drawn
    /\ p \notin writers => At(p, "idle")

Inv == TypeOK /\ FileSound /\ \A p \in Proc : WellFormed(p)

LEMMA InvInit == Init => Inv
<1> SUFFICES ASSUME Init PROVE Inv
  OBVIOUS
<1> PICK f \in [User -> Name \cup {None}] :
       /\ \A u, v \in User : f[u] = f[v] /\ u # v => f[u] = None
       /\ file = [Empty EXCEPT !.users = f]
  BY DEF Init, Begun
<1>1. /\ file.users = f /\ file.groups = Empty.groups /\ file.keys = Empty.keys
      /\ file.bindings = Empty.bindings /\ file.profiles = {} /\ file.deleted = {}
  BY DEF Empty
<1>2. file \in Snapshot
  BY EmptySound DEF Snapshot
<1>3. MembersExist(file) /\ KeysOwned(file) /\ GroupNamesDiffer(file)
      /\ BindingsDiffer(file) /\ OverlayApart(file)
  BY <1>1 DEF Empty, MembersExist, KeysOwned, GroupNamesDiffer, BindingsDiffer,
              OverlayApart, Groups, NoGroup, NoKey
<1>4. UserNamesDiffer(file)
  BY <1>1 DEF UserNamesDiffer, Users
<1>5. FileSound
  BY <1>3, <1>4 DEF FileSound, Sound
<1>6. Idle \in Request /\ Idle.pc = "idle" /\ Idle.snap = Empty /\ Idle.made = {}
  BY EmptySound DEF Idle, Request
<1>7. TypeOK
  BY <1>2, <1>6 DEF Init, TypeOK, Miss
<1>8. \A p \in Proc : WellFormed(p)
  BY <1>6, EmptySound DEF Init, WellFormed, At
<1> QED
  BY <1>5, <1>7, <1>8 DEF Inv

\* The steps a request, an operation or a restart can take.
LEMMA StepCases ==
  ASSUME TypeOK, NEW p \in Proc, Operation(p)
  PROVE  \/ Begin(p) \/ Refuse(p) \/ Changed(p) \/ Save(p) \/ SaveRaises(p) \/ Answer(p)
         \/ \E x \in Subject, r \in Grant : CreateBindingAgain(p, x, r)
BY OperationShape DEF Operation

\* Putting a well formed request in the place of that of one process.
LEMMA RequestPut ==
  ASSUME Inv, NEW p \in Proc, NEW r \in Request, req' = [req EXCEPT ![p] = r],
         Sound(r.snap), r.made \subseteq drawn', drawn \subseteq drawn',
         r.pc = "idle" => r = Idle, p \notin writers => r.pc = "idle", writers' = writers
  PROVE  /\ req' \in [Proc -> Request] /\ \A q \in Proc : At(q, "idle")' => req'[q] = Idle
         /\ \A q \in Proc : WellFormed(q)'
<1>1. req \in [Proc -> Request]
  BY DEF Inv, TypeOK
<1>2. req'[p] = r /\ \A q \in Proc \ {p} : req'[q] = req[q]
  BY <1>1
<1>3. req' \in [Proc -> Request]
  BY <1>1
<1>4. \A q \in Proc : At(q, "idle")' => req'[q] = Idle
  BY <1>2 DEF Inv, TypeOK, At
<1>5. \A q \in Proc : WellFormed(q)'
  BY <1>2 DEF Inv, WellFormed, At
<1> QED
  BY <1>3, <1>4, <1>5

LEMMA InvStep == Inv /\ [Next]_vars => Inv'
<1> SUFFICES ASSUME Inv, [Next]_vars PROVE Inv'
  OBVIOUS
<1> DEFINE Other == /\ req' \in [Proc -> Request]
                    /\ \A q \in Proc : At(q, "idle")' => req'[q] = Idle
                    /\ \A q \in Proc : WellFormed(q)'
<1>i. Idle \in Request /\ Idle.pc = "idle" /\ Sound(Idle.snap) /\ Idle.made = {}
  BY EmptySound DEF Idle, Request
<1>t. /\ file \in Snapshot /\ Sound(file) /\ req \in [Proc -> Request]
      /\ \A q \in Proc : /\ req[q] \in Request /\ req[q].snap \in Snapshot
                         /\ Sound(req[q].snap) /\ req[q].made \subseteq drawn
                         /\ req[q].drop \in SUBSET Subject /\ req[q].made \in SUBSET Key
  BY DEF Inv, TypeOK, FileSound, WellFormed, Request
<1>m. /\ manager \in [Proc -> [Key -> {"absent", "active", "revoked"}]]
      /\ cache \in [Proc -> [User -> [hit : BOOLEAN, grants : SUBSET Grant]]]
  BY DEF Inv, TypeOK
<1>1. ASSUME NEW p \in Proc, Begin(p)
      PROVE  Inv'
  <2> DEFINE r == [Idle EXCEPT !.pc = "loaded", !.snap = file]
  <2>1. r \in Request /\ r.pc = "loaded" /\ r.snap = file /\ r.made = {}
    BY <1>t, <1>i DEF Idle, Request
  <2>2. req' = [req EXCEPT ![p] = r] /\ p \in writers
    BY <1>1 DEF Begin
  <2>3. UNCHANGED <<file, writers, manager, cache, drawn, handed, retired, late, lookups>>
        /\ ops' = ops + 1
    BY <1>1 DEF Begin, history
  <2> HIDE DEF r
  <2>4. Other
    BY <2>1, <2>2, <2>3, <1>t, RequestPut
  <2> QED
    BY <2>3, <2>4 DEF Inv, TypeOK, FileSound
<1>2. ASSUME NEW p \in Proc, Refuse(p) \/ SaveRaises(p)
      PROVE  Inv'
  <2>1. req' = [req EXCEPT ![p] = Idle]
        /\ UNCHANGED <<file, writers, manager, cache, drawn, handed, retired, late, ops, lookups>>
    BY <1>2 DEF Refuse, SaveRaises, history, bounds
  <2>2. Other
    BY <2>1, <1>i, RequestPut
  <2> QED
    BY <2>1, <2>2 DEF Inv, TypeOK, FileSound
<1>3. ASSUME NEW p \in Proc, Changed(p)
      PROVE  Inv'
  <2> PICK D \in SUBSET Subject, K \in SUBSET Key : \E t :
         /\ Change(p, t, D, K) /\ Step(req[p].snap, t)
         /\ drawn' = drawn \cup K
         /\ manager' \in [Proc -> [Key -> {"absent", "active", "revoked"}]]
    BY <1>3 DEF Changed
  <2> PICK t :
         /\ Change(p, t, D, K) /\ Step(req[p].snap, t)
         /\ drawn' = drawn \cup K
         /\ manager' \in [Proc -> [Key -> {"absent", "active", "revoked"}]]
    OBVIOUS
  <2> DEFINE r == [pc |-> "changed", snap |-> t, drop |-> D, made |-> K]
  <2>1. t \in Snapshot /\ Sound(t)
    BY <1>t, StepSound
  <2>2. r \in Request /\ r.pc = "changed" /\ r.snap = t /\ r.made = K
    BY <2>1 DEF Request
  <2>3. req' = [req EXCEPT ![p] = r] /\ At(p, "loaded")
        /\ UNCHANGED <<file, writers, cache, handed, retired, late, ops, lookups>>
    BY DEF Change, bounds
  <2>4. p \in writers
    BY <2>3 DEF Inv, WellFormed, At
  <2> HIDE DEF r
  <2>5. Other
    BY <2>1, <2>2, <2>3, <2>4, RequestPut
  <2> QED
    BY <2>3, <2>5 DEF Inv, TypeOK, FileSound
<1>4. ASSUME NEW p \in Proc, NEW x \in Subject, NEW g \in Grant, CreateBindingAgain(p, x, g)
      PROVE  Inv'
  <2> DEFINE r == [req[p] EXCEPT !.pc = "saved", !.drop = {x}]
  <2>1. r \in Request /\ r.pc = "saved" /\ r.snap = req[p].snap /\ r.made = req[p].made
    BY <1>t DEF Request
  <2>2. req' = [req EXCEPT ![p] = r] /\ At(p, "loaded")
        /\ UNCHANGED <<file, writers, manager, cache, drawn, handed, retired, late, ops, lookups>>
    BY <1>4, <1>t DEF CreateBindingAgain, history, bounds
  <2>3. p \in writers
    BY <2>2 DEF Inv, WellFormed, At
  <2> HIDE DEF r
  <2>4. Other
    BY <1>t, <2>1, <2>2, <2>3, RequestPut
  <2> QED
    BY <2>2, <2>4 DEF Inv, TypeOK, FileSound
<1>5. ASSUME NEW p \in Proc, Save(p)
      PROVE  Inv'
  <2> DEFINE r == [req[p] EXCEPT !.pc = "saved"]
  <2>1. r \in Request /\ r.pc = "saved" /\ r.snap = req[p].snap /\ r.made = req[p].made
    BY <1>t DEF Request
  <2>2. req' = [req EXCEPT ![p] = r] /\ At(p, "changed") /\ file' = req[p].snap
        /\ UNCHANGED <<writers, manager, cache, drawn, handed, retired, late, ops, lookups>>
    BY <1>5, <1>t DEF Save, history, bounds
  <2>3. p \in writers
    BY <2>2 DEF Inv, WellFormed, At
  <2> HIDE DEF r
  <2>4. Other
    BY <1>t, <2>1, <2>2, <2>3, RequestPut
  <2> QED
    BY <1>t, <2>2, <2>4 DEF Inv, TypeOK, FileSound
<1>6. ASSUME NEW p \in Proc, Answer(p)
      PROVE  Inv'
  <2>1. /\ req' = [req EXCEPT ![p] = Idle]
        /\ cache' = [cache EXCEPT ![p] = [u \in User |-> IF u \in Dropped(p) THEN Miss
                                                         ELSE cache[p][u]]]
        /\ retired' = retired \cup {k \in handed : ~req[p].snap.keys[k].active}
        /\ handed' = handed \cup req[p].made
        /\ UNCHANGED <<file, writers, manager, drawn, late, ops, lookups>>
    BY <1>6 DEF Answer, bounds
  <2>2. Other
    BY <2>1, <1>i, RequestPut
  <2>3. cache' \in [Proc -> [User -> [hit : BOOLEAN, grants : SUBSET Grant]]]
    BY <1>m, <2>1 DEF Miss
  <2>4. handed' \in SUBSET drawn /\ retired' \in SUBSET handed' /\ late \in SUBSET retired'
    BY <1>t, <2>1 DEF Inv, TypeOK
  <2> QED
    BY <2>1, <2>2, <2>3, <2>4 DEF Inv, TypeOK, FileSound
<1>7. ASSUME NEW p \in Proc, NEW k \in Key, Authenticate(p, k)
      PROVE  Inv'
  <2>1. /\ manager' = [manager EXCEPT ![p] = Synced(p)]
        /\ late' = IF manager'[p][k] = "active" /\ k \in retired THEN late \cup {k} ELSE late
        /\ UNCHANGED <<file, writers, req, cache, drawn, handed, retired, ops, lookups>>
    BY <1>7 DEF Authenticate, bounds
  <2>2. Synced(p) \in [Key -> {"absent", "active", "revoked"}]
    BY <1>m DEF Synced, Filled
  <2>3. manager' \in [Proc -> [Key -> {"absent", "active", "revoked"}]]
    BY <1>m, <2>1, <2>2
  <2>4. late' \in SUBSET retired
    BY <2>1 DEF Inv, TypeOK
  <2> QED
    BY <2>1, <2>3, <2>4 DEF Inv, TypeOK, FileSound, WellFormed, At
<1>8. ASSUME NEW p \in Proc, NEW u \in User, Authorise(p, u)
      PROVE  Inv'
  <2>1. /\ cache' = [cache EXCEPT ![p][u] = [hit |-> TRUE, grants |-> Grants(file, u)]]
        /\ lookups' = lookups + 1
        /\ UNCHANGED <<file, writers, req, manager, drawn, handed, retired, late, ops>>
    BY <1>8 DEF Authorise, history
  <2>2. cache' \in [Proc -> [User -> [hit : BOOLEAN, grants : SUBSET Grant]]]
    <3>1. [hit |-> TRUE, grants |-> Grants(file, u)] \in [hit : BOOLEAN, grants : SUBSET Grant]
      BY DEF Grants
    <3> QED
      BY <1>m, <2>1, <3>1
  <2> QED
    BY <2>1, <2>2 DEF Inv, TypeOK, FileSound, WellFormed, At
<1>9. ASSUME NEW p \in Proc, Restart(p)
      PROVE  Inv'
  <2>1. /\ req' = [req EXCEPT ![p] = Idle]
        /\ manager' = [manager EXCEPT ![p] = Filled(file)]
        /\ cache' = [cache EXCEPT ![p] = [u \in User |-> Miss]]
        /\ UNCHANGED <<file, writers, drawn, handed, retired, late, ops, lookups>>
    BY <1>9 DEF Restart, history, bounds
  <2>2. Other
    BY <2>1, <1>i, RequestPut
  <2>3. manager' \in [Proc -> [Key -> {"absent", "active", "revoked"}]]
    BY <1>m, <2>1 DEF Filled
  <2>4. cache' \in [Proc -> [User -> [hit : BOOLEAN, grants : SUBSET Grant]]]
    BY <1>m, <2>1 DEF Miss
  <2> QED
    BY <2>1, <2>2, <2>3, <2>4 DEF Inv, TypeOK, FileSound
<1>10. CASE UNCHANGED vars
  BY <1>10 DEF Inv, TypeOK, FileSound, WellFormed, At, vars, history, bounds
<1>11. CASE Next
  BY <1>1, <1>2, <1>3, <1>4, <1>5, <1>6, <1>7, <1>8, <1>9, <1>11, StepCases DEF Next, Inv
<1> QED
  BY <1>10, <1>11

\* The variables have their types, and no request keeps a snapshot for the next.
THEOREM TypeCorrect == Spec => []TypeOK
<1>1. Inv => TypeOK
  BY DEF Inv
<1> QED
  BY <1>1, InvInit, InvStep, PTL DEF Spec

\* The file is sound: its references resolve and its names, keys and bindings
\* are well formed, whichever processes write it.
THEOREM FileIsSound == Spec => []FileSound
<1>1. Inv => FileSound
  BY DEF Inv
<1> QED
  BY <1>1, InvInit, InvStep, PTL DEF Spec

-----------------------------------------------------------------------------
(* One writer: no snapshot is stale when it is saved.                      *)

\* What a process has loaded or saved is the file, and what it has changed is
\* one operation away from it.
InStep(p) ==
    /\ req[p].pc \in {"loaded", "saved"} => req[p].snap = file
    /\ At(p, "changed") => Step(file, req[p].snap)

SerialInv == OneWriter => \A p \in writers : InStep(p)

LEMMA WritersFixed ==
  ASSUME Inv, [Next]_vars
  PROVE  writers' = writers
<1>1. ASSUME NEW p \in Proc, Operation(p)
      PROVE  writers' = writers
  BY <1>1, StepCases DEF Inv, Begin, Refuse, Changed, Change, Save, SaveRaises, Answer,
                         CreateBindingAgain
<1> QED
  BY <1>1 DEF Next, Restart, Authenticate, Authorise, vars

\* A step is one of the only writer, or a restart or a reading request of
\* another process.
LEMMA WriterSteps ==
  ASSUME Inv, OneWriter, NEW w \in writers, [Next]_vars
  PROVE  /\ writers' = writers /\ w \in Proc
         /\ \/ Begin(w) \/ Refuse(w) \/ Changed(w) \/ Save(w) \/ SaveRaises(w) \/ Answer(w)
            \/ \E x \in Subject, r \in Grant : CreateBindingAgain(w, x, r)
            \/ Restart(w)
            \/ \E p \in Proc \ {w} : Restart(p)
            \/ \E p \in Proc, k \in Key : Authenticate(p, k)
            \/ \E p \in Proc, u \in User : Authorise(p, u)
            \/ UNCHANGED vars
<1>1. w \in Proc /\ \A p \in Proc \ {w} : p \notin writers /\ At(p, "idle")
  BY DEF Inv, TypeOK, WellFormed, OneWriter
<1>2. ASSUME NEW p \in Proc, Operation(p)
      PROVE  p = w
  <2>1. Begin(p) \/ Refuse(p) \/ Changed(p) \/ Save(p) \/ SaveRaises(p) \/ Answer(p)
        \/ \E x \in Subject, r \in Grant : CreateBindingAgain(p, x, r)
    BY <1>2, StepCases DEF Inv
  <2>2. p \in writers \/ req[p].pc # "idle"
    BY <2>1 DEF Begin, Refuse, Changed, Change, Save, SaveRaises, Answer,
                CreateBindingAgain, At
  <2> QED
    BY <1>1, <2>2 DEF At
<1> QED
  BY <1>1, <1>2, WritersFixed, StepCases DEF Inv, Next

LEMMA SerialStep == Inv /\ SerialInv /\ [Next]_vars => SerialInv'
<1> SUFFICES ASSUME Inv, SerialInv, [Next]_vars, OneWriter', NEW w \in writers'
             PROVE  InStep(w)'
  BY DEF SerialInv
<1>0. w \in writers /\ OneWriter /\ writers' = writers /\ w \in Proc /\ InStep(w)
  BY WritersFixed DEF OneWriter, SerialInv, Inv, TypeOK
<1>t. req \in [Proc -> Request] /\ req[w] \in Request
  BY <1>0 DEF Inv, TypeOK
<1>i. Idle.pc = "idle"
  BY DEF Idle
<1>1. ASSUME Begin(w) PROVE InStep(w)'
  BY <1>0, <1>1, <1>t DEF Begin, InStep, At, Idle
<1>2. ASSUME Refuse(w) \/ SaveRaises(w) \/ Answer(w) PROVE InStep(w)'
  BY <1>0, <1>2, <1>t, <1>i DEF Refuse, SaveRaises, Answer, InStep, At
<1>3. ASSUME Changed(w) PROVE InStep(w)'
  <2> PICK D \in SUBSET Subject, K \in SUBSET Key : \E t :
         Change(w, t, D, K) /\ Step(req[w].snap, t)
    BY <1>3 DEF Changed
  <2> PICK t :
         Change(w, t, D, K) /\ Step(req[w].snap, t)
    OBVIOUS
  <2>1. req'[w].pc = "changed" /\ req'[w].snap = t /\ file' = file /\ req[w].pc = "loaded"
    BY <1>0, <1>t DEF Change, At
  <2> QED
    BY <1>0, <2>1 DEF InStep, At
<1>4. ASSUME NEW x \in Subject, NEW g \in Grant, CreateBindingAgain(w, x, g) PROVE InStep(w)'
  <2>1. req'[w].pc = "saved" /\ req'[w].snap = req[w].snap /\ file' = file
        /\ req[w].pc = "loaded"
    BY <1>0, <1>t, <1>4 DEF CreateBindingAgain, At, Request
  <2> QED
    BY <1>0, <2>1 DEF InStep, At
<1>5. ASSUME Save(w) PROVE InStep(w)'
  <2>1. req'[w].pc = "saved" /\ req'[w].snap = req[w].snap /\ file' = req[w].snap
    BY <1>0, <1>t, <1>5 DEF Save, Request
  <2> QED
    BY <2>1 DEF InStep, At
<1>6. ASSUME Restart(w) PROVE InStep(w)'
  BY <1>0, <1>6, <1>t, <1>i DEF Restart, InStep, At
<1>7. ASSUME req'[w] = req[w], file' = file PROVE InStep(w)'
  BY <1>0, <1>7 DEF InStep, At
<1>8. ASSUME NEW p \in Proc \ {w}, Restart(p) PROVE InStep(w)'
  BY <1>0, <1>7, <1>8, <1>t DEF Restart
<1>9. ASSUME \/ \E p \in Proc, k \in Key : Authenticate(p, k)
             \/ \E p \in Proc, u \in User : Authorise(p, u)
             \/ UNCHANGED vars
      PROVE  InStep(w)'
  BY <1>7, <1>9 DEF Authenticate, Authorise, vars
<1> QED
  BY <1>0, <1>1, <1>2, <1>3, <1>4, <1>5, <1>6, <1>8, <1>9, WriterSteps

LEMMA SerialInit == Init => SerialInv
BY DEF Init, SerialInv, InStep, At, Idle

\* With one writer, every replacement of the file is one operation applied to
\* the file it replaces: no change is lost and none is saved half.
THEOREM SavesSerial == Spec => SavesAreSerial
<1>1. Inv /\ SerialInv /\ [Next]_vars => [OneWriter => Step(file, file')]_file
  <2> SUFFICES ASSUME Inv, SerialInv, Next, OneWriter, file' # file
               PROVE  Step(file, file')
    BY DEF vars
  <2>1. PICK p \in Proc : Save(p)
    <3>1. ASSUME NEW p \in Proc, Operation(p), ~Save(p)
          PROVE  FALSE
      BY <3>1, StepCases DEF Inv, Begin, Refuse, Changed, Change, SaveRaises, Answer,
                             CreateBindingAgain
    <3> QED
      BY <3>1 DEF Next, Operation, Restart, Authenticate, Authorise
  <2>2. p \in writers
    BY <2>1 DEF Save, Inv, WellFormed, At
  <2> QED
    BY <2>1, <2>2 DEF Save, SerialInv, InStep
<1>2. [](Inv /\ SerialInv) /\ [][Next]_vars => SavesAreSerial
  BY <1>1, PTL DEF SavesAreSerial
<1> QED
  BY <1>2, InvInit, InvStep, SerialInit, SerialStep, PTL DEF Spec

\* Where administrators are sent to one process, the file it loads, changes and
\* saves, with failures and restarts anywhere in between, is an atomic registry.
THEOREM OneWriterIsAtomic == Spec => (OneWriter => RegistrySpec)
<1>1. Init => file \in Begun
  BY DEF Init
<1>2. Inv /\ OneWriter /\ [Next]_vars => OneWriter'
  BY WritersFixed DEF OneWriter
<1>3. OneWriter /\ [OneWriter => Step(file, file')]_file => [Step(file, file')]_file
  OBVIOUS
<1>4. Spec => SavesAreSerial
  BY SavesSerial
<1>5. RegistrySpec <=> file \in Begun /\ [][Step(file, file')]_file
  BY DEF RegistrySpec, Atomic!Spec, Atomic!Init, Atomic!Next
<1> QED
  BY <1>1, <1>2, <1>3, <1>4, <1>5, InvInit, InvStep, PTL DEF Spec, SavesAreSerial

-----------------------------------------------------------------------------
(* One writer: no process accepts a key whose end was acknowledged.        *)

KeyInv ==
    OneWriter =>
        /\ \A k \in handed : file.keys[k].owner # None
        /\ \A k \in retired : ~file.keys[k].active
        /\ \A p \in writers : \A k \in req[p].made : req[p].snap.keys[k].owner # None
        /\ late = {}

LEMMA KeyInit == Init => KeyInv
BY DEF Init, KeyInv, Idle

LEMMA KeyStepInv == Inv /\ SerialInv /\ KeyInv /\ [Next]_vars => KeyInv'
<1> SUFFICES ASSUME Inv, SerialInv, KeyInv, [Next]_vars, OneWriter'
             PROVE  /\ \A k \in handed' : file'.keys[k].owner # None
                    /\ \A k \in retired' : ~file'.keys[k].active
                    /\ \A p \in writers' : \A k \in req'[p].made : req'[p].snap.keys[k].owner # None
                    /\ late' = {}
  BY DEF KeyInv
<1> DEFINE Goal == /\ \A k \in handed' : file'.keys[k].owner # None
                   /\ \A k \in retired' : ~file'.keys[k].active
                   /\ \A p \in writers' : \A k \in req'[p].made :
                         req'[p].snap.keys[k].owner # None
                   /\ late' = {}
<1>0. OneWriter /\ writers' = writers /\ writers \subseteq Proc
  BY WritersFixed DEF OneWriter, Inv, TypeOK
<1>k. /\ \A k \in handed : file.keys[k].owner # None
      /\ \A k \in retired : ~file.keys[k].active
      /\ \A p \in writers : \A k \in req[p].made : req[p].snap.keys[k].owner # None
      /\ late = {}
  BY <1>0 DEF KeyInv
<1>t. /\ req \in [Proc -> Request] /\ file \in Snapshot
      /\ \A p \in Proc : req[p] \in Request
      /\ retired \subseteq handed /\ handed \subseteq Key /\ Idle.made = {}
  BY DEF Inv, TypeOK, Idle
<1>1. ASSUME NEW w \in writers, Begin(w) \/ Refuse(w) \/ SaveRaises(w) PROVE Goal
  <2>1. req'[w].made = {} /\ (\A p \in Proc \ {w} : req'[p] = req[p])
        /\ UNCHANGED <<file, handed, retired, late>>
    BY <1>0, <1>1, <1>t DEF Begin, Refuse, SaveRaises, Idle, history
  <2> QED
    BY <1>0, <1>k, <2>1
<1>2. ASSUME NEW w \in writers, Changed(w) PROVE Goal
  <2> PICK D \in SUBSET Subject, K \in SUBSET Key : \E t :
         Change(w, t, D, K) /\ \A k \in K : t.keys[k].owner # None
    BY <1>2 DEF Changed
  <2> PICK t :
         Change(w, t, D, K) /\ \A k \in K : t.keys[k].owner # None
    OBVIOUS
  <2>1. /\ req'[w].made = K /\ req'[w].snap = t
        /\ \A p \in Proc \ {w} : req'[p] = req[p]
        /\ UNCHANGED <<file, handed, retired, late>>
    BY <1>0, <1>t DEF Change
  <2> QED
    BY <1>0, <1>k, <2>1
<1>3. ASSUME NEW w \in writers, NEW x \in Subject, NEW g \in Grant, CreateBindingAgain(w, x, g)
      PROVE  Goal
  <2>1. /\ req'[w].made = req[w].made /\ req'[w].snap = req[w].snap
        /\ \A p \in Proc \ {w} : req'[p] = req[p]
        /\ UNCHANGED <<file, handed, retired, late>>
    BY <1>0, <1>t, <1>3 DEF CreateBindingAgain, Request, history
  <2> QED
    BY <1>0, <1>k, <2>1
<1>4. ASSUME NEW w \in writers, Save(w) PROVE Goal
  <2>1. /\ req'[w].made = req[w].made /\ req'[w].snap = req[w].snap /\ file' = req[w].snap
        /\ \A p \in Proc \ {w} : req'[p] = req[p]
        /\ UNCHANGED <<handed, retired, late>>
    BY <1>0, <1>t, <1>4 DEF Save, Request, history
  <2>2. Step(file, file')
    BY <1>0, <1>4, <2>1 DEF Save, SerialInv, InStep
  <2>3. \A k \in handed : file'.keys[k].owner # None
                          /\ (~file.keys[k].active => ~file'.keys[k].active)
    BY <1>k, <1>t, <2>2, StepKeepsKeys
  <2> QED
    BY <1>0, <1>k, <1>t, <2>1, <2>3
<1>5. ASSUME NEW w \in writers, Answer(w) PROVE Goal
  <2>1. /\ req'[w].made = {} /\ \A p \in Proc \ {w} : req'[p] = req[p]
        /\ retired' = retired \cup {k \in handed : ~req[w].snap.keys[k].active}
        /\ handed' = handed \cup req[w].made
        /\ UNCHANGED <<file, late>>
    BY <1>0, <1>t, <1>5 DEF Answer
  <2>2. req[w].snap = file
    BY <1>0, <1>5 DEF Answer, SerialInv, InStep, At
  <2> QED
    BY <1>0, <1>k, <2>1, <2>2
<1>6. ASSUME NEW p \in Proc, Restart(p) PROVE Goal
  <2>1. req'[p].made = {} /\ (\A q \in Proc \ {p} : req'[q] = req[q])
        /\ UNCHANGED <<file, handed, retired, late>>
    BY <1>t, <1>6 DEF Restart, history
  <2> QED
    BY <1>0, <1>k, <2>1
<1>7. ASSUME NEW p \in Proc, NEW k \in Key, Authenticate(p, k) PROVE Goal
  <2>1. /\ manager' = [manager EXCEPT ![p] = Synced(p)]
        /\ late' = IF manager'[p][k] = "active" /\ k \in retired THEN late \cup {k} ELSE late
        /\ UNCHANGED <<file, req, handed, retired>>
    BY <1>7 DEF Authenticate
  <2>2. k \in retired => manager'[p][k] = "revoked"
    <3>1. manager'[p][k] = Synced(p)[k]
      BY <2>1 DEF Inv, TypeOK
    <3>2. k \in retired => file.keys[k].owner # None /\ ~file.keys[k].active
      BY <1>k, <1>t
    <3> QED
      BY <3>1, <3>2 DEF Synced, Filled
  <2>3. late' = {}
    BY <1>k, <2>1, <2>2
  <2> QED
    BY <1>0, <1>k, <2>1, <2>3
<1>8. ASSUME UNCHANGED <<file, req, handed, retired, late>> PROVE Goal
  BY <1>0, <1>k, <1>8
<1>9. ASSUME (\E p \in Proc, u \in User : Authorise(p, u)) \/ UNCHANGED vars PROVE Goal
  BY <1>8, <1>9 DEF Authorise, vars, history
<1>10. CASE Next
  <2> SUFFICES ASSUME NEW p \in Proc,
                      \/ Operation(p) \/ Restart(p)
                      \/ \E k \in Key : Authenticate(p, k)
                      \/ \E u \in User : Authorise(p, u)
               PROVE  Goal
    BY <1>10 DEF Next
  <2>1. CASE Operation(p)
    <3>1. \/ Begin(p) \/ Refuse(p) \/ Changed(p) \/ Save(p) \/ SaveRaises(p) \/ Answer(p)
          \/ \E x \in Subject, r \in Grant : CreateBindingAgain(p, x, r)
      BY <2>1, StepCases DEF Inv
    <3>2. p \in writers
      BY <3>1 DEF Inv, WellFormed, Begin, Refuse, Changed, Change, Save, SaveRaises, Answer,
                  CreateBindingAgain, At
    <3> QED
      BY <3>1, <3>2, <1>1, <1>2, <1>3, <1>4, <1>5
  <2> QED
    BY <2>1, <1>6, <1>7, <1>9
<1> QED
  BY <1>9, <1>10

\* With one writer, no process accepts a key after its end was acknowledged.
THEOREM EndedKeysAreRefused == Spec => []EndedKeysRefused
<1>1. KeyInv => EndedKeysRefused
  BY DEF KeyInv, EndedKeysRefused
<1> QED
  BY <1>1, InvInit, InvStep, SerialInit, SerialStep, KeyInit, KeyStepInv, PTL DEF Spec

-----------------------------------------------------------------------------
(* One writer and fresh binding ids: it authorises by the file.            *)

GrantInv ==
    ~ClientIds /\ OneWriter =>
        \A p \in writers :
            /\ At(p, "changed") => GrantsKept(file, req[p].snap, req[p].drop)
            /\ \A u \in User :
                  cache[p][u].hit /\ (At(p, "saved") => u \notin Dropped(p))
                      => cache[p][u].grants = Grants(file, u)

LEMMA GrantInit == Init => GrantInv
BY DEF Init, GrantInv, At, Idle, Miss, TypeOK

LEMMA GrantStep == Inv /\ SerialInv /\ GrantInv /\ [Next]_vars => GrantInv'
<1> SUFFICES ASSUME Inv, SerialInv, GrantInv, [Next]_vars, ~ClientIds, OneWriter',
                    NEW w \in writers'
             PROVE  /\ At(w, "changed")' => GrantsKept(file', req'[w].snap, req'[w].drop)
                    /\ \A u \in User :
                          cache'[w][u].hit /\ (At(w, "saved")' => u \notin Dropped(w)')
                              => cache'[w][u].grants = Grants(file', u)
  BY DEF GrantInv
<1> DEFINE Goal == /\ At(w, "changed")' => GrantsKept(file', req'[w].snap, req'[w].drop)
                   /\ \A u \in User :
                         cache'[w][u].hit /\ (At(w, "saved")' => u \notin Dropped(w)')
                             => cache'[w][u].grants = Grants(file', u)
<1>0. OneWriter /\ w \in writers /\ w \in Proc
  BY WritersFixed DEF OneWriter, Inv, TypeOK
<1>g. /\ At(w, "changed") => GrantsKept(file, req[w].snap, req[w].drop)
      /\ \A u \in User :
            cache[w][u].hit /\ (At(w, "saved") => u \notin Dropped(w))
                => cache[w][u].grants = Grants(file, u)
  BY <1>0 DEF GrantInv
<1>t. /\ req \in [Proc -> Request] /\ req[w] \in Request /\ file \in Snapshot
      /\ cache \in [Proc -> [User -> [hit : BOOLEAN, grants : SUBSET Grant]]]
      /\ Idle.pc = "idle"
  BY <1>0 DEF Inv, TypeOK, Idle
<1>1. ASSUME Begin(w) \/ Refuse(w) \/ SaveRaises(w) PROVE Goal
  <2>1. req'[w].pc \in {"idle", "loaded"} /\ ~At(w, "saved") /\ UNCHANGED <<file, cache>>
    BY <1>0, <1>1, <1>t DEF Begin, Refuse, SaveRaises, At, Idle
  <2> QED
    BY <1>g, <2>1 DEF At
<1>2. ASSUME Changed(w) PROVE Goal
  <2> PICK D \in SUBSET Subject, K \in SUBSET Key : \E t :
         Change(w, t, D, K) /\ GrantsKept(req[w].snap, t, D)
    BY <1>2 DEF Changed
  <2> PICK t :
         Change(w, t, D, K) /\ GrantsKept(req[w].snap, t, D)
    OBVIOUS
  <2>1. /\ req'[w].pc = "changed" /\ req'[w].snap = t /\ req'[w].drop = D
        /\ req[w].pc = "loaded" /\ UNCHANGED <<file, cache>>
    BY <1>0, <1>t DEF Change, At
  <2>2. req[w].snap = file
    BY <1>0, <2>1 DEF SerialInv, InStep
  <2> QED
    BY <1>g, <2>1, <2>2 DEF At
<1>3. ASSUME NEW x \in Subject, NEW g \in Grant, CreateBindingAgain(w, x, g) PROVE Goal
  <2>1. req'[w].pc = "saved" /\ ~At(w, "saved") /\ UNCHANGED <<file, cache>>
    BY <1>0, <1>t, <1>3 DEF CreateBindingAgain, At
  <2> QED
    BY <1>g, <2>1 DEF At
<1>4. ASSUME Save(w) PROVE Goal
  <2>1. /\ req'[w].pc = "saved" /\ req'[w].drop = req[w].drop /\ At(w, "changed")
        /\ file' = req[w].snap /\ cache' = cache /\ ~At(w, "saved")
    BY <1>0, <1>t, <1>4 DEF Save, At, Request
  <2>2. Dropped(w)' = Concerned(file', req[w].drop)
    BY <2>1 DEF Dropped, Concerned, MembersOf
  <2>3. \A u \in User \ Dropped(w)' : Grants(file', u) = Grants(file, u)
    BY <1>g, <2>1, <2>2 DEF GrantsKept
  <2> QED
    BY <1>g, <2>1, <2>3 DEF At
<1>5. ASSUME Answer(w) PROVE Goal
  <2>1. /\ req'[w].pc = "idle" /\ At(w, "saved") /\ file' = file
        /\ cache'[w] = [u \in User |-> IF u \in Dropped(w) THEN Miss ELSE cache[w][u]]
    BY <1>0, <1>t, <1>5 DEF Answer
  <2> QED
    BY <1>g, <2>1 DEF At, Miss
<1>6. ASSUME Restart(w) PROVE Goal
  <2>1. req'[w].pc = "idle" /\ cache'[w] = [u \in User |-> Miss]
    BY <1>0, <1>t, <1>6 DEF Restart
  <2> QED
    BY <2>1 DEF At, Miss
<1>7. ASSUME NEW p \in Proc, NEW v \in User, Authorise(p, v) PROVE Goal
  <2>1. /\ cache' = [cache EXCEPT ![p][v] = [hit |-> TRUE, grants |-> Grants(file, v)]]
        /\ UNCHANGED <<file, req>>
    BY <1>7 DEF Authorise
  <2>2. \A u \in User : \/ cache'[w][u] = cache[w][u]
                        \/ cache'[w][u].grants = Grants(file, u)
    BY <1>0, <1>t, <2>1
  <2>3. \A u \in User : cache'[w][u] # cache[w][u] => p = w /\ At(w, "idle")
    BY <1>0, <1>t, <1>7, <2>1 DEF Authorise
  <2>4. Dropped(w)' = Dropped(w)
    BY <2>1 DEF Dropped, MembersOf
  <2> QED
    BY <1>g, <2>1, <2>2, <2>3, <2>4 DEF At
<1>8. ASSUME req'[w] = req[w], cache'[w] = cache[w], file' = file PROVE Goal
  <2>1. Dropped(w)' = Dropped(w)
    BY <1>8 DEF Dropped, MembersOf
  <2> QED
    BY <1>g, <1>8, <2>1 DEF At
<1>9. ASSUME NEW p \in Proc \ {w}, Restart(p) PROVE Goal
  BY <1>0, <1>8, <1>9, <1>t DEF Restart
<1>10. ASSUME (\E p \in Proc, k \in Key : Authenticate(p, k)) \/ UNCHANGED vars PROVE Goal
  BY <1>8, <1>10 DEF Authenticate, vars
<1> QED
  BY <1>0, <1>1, <1>2, <1>3, <1>4, <1>5, <1>6, <1>7, <1>9, <1>10, WriterSteps

\* With one writer, and binding ids that are never reused, the process that
\* serves the administrators authorises by the groups and bindings in the file.
THEOREM GrantsAreCurrent ==
  ASSUME ~ClientIds
  PROVE  Spec => []GrantsCurrent
<1>1. GrantInv => GrantsCurrent
  BY DEF GrantInv, GrantsCurrent, At
<1> QED
  BY <1>1, InvInit, InvStep, SerialInit, SerialStep, GrantInit, GrantStep, PTL DEF Spec
=============================================================================
