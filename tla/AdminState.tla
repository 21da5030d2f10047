----------------------------- MODULE AdminState -----------------------------
(***************************************************************************)
(* The admin state of server/admin: one file, admin_state.json, that the   *)
(* API, MCP and A2A processes load, change and save.  Every operation      *)
(* loads the whole file, checks the request against what it loaded,        *)
(* changes that and replaces the file with it.  The lock is one per        *)
(* process, so the other processes load and save in between, and a process *)
(* may stop at any point.  Each process also keeps a key manager that it   *)
(* fills from the file and a cache of the grants of a user (both of        *)
(* cloud_dog_idam, external).  Which processes administrators are sent to  *)
(* is chosen once, in the initial state.  The user that a process creates  *)
(* for its own key when it starts is never deleted and is not in User.     *)
(***************************************************************************)
EXTENDS AdminSnapshot, Naturals

CONSTANTS
    Proc,           \* the server processes
    ClientIds,      \* whether a request may reuse the id of a binding
    MaxOps,         \* bound: operations of all processes together
    MaxLookups      \* bound: grants looked up and cached, all processes together

ASSUME StateAssumption ==
    ClientIds \in BOOLEAN /\ MaxOps \in Nat /\ MaxLookups \in Nat

VARIABLES
    file,           \* admin_state.json
    writers,        \* the processes that serve admin operations
    req,            \* the operation each process is in
    manager,        \* key manager of each process: the status of each key
    cache,          \* RBAC engine of each process: the cached grants of each user
    drawn,          \* history: key ids generated so far
    handed,         \* history: keys an administrator was given
    retired,        \* history: those of them whose end was acknowledged
    late,           \* history: those accepted after that
    ops, lookups    \* bookkeeping of the bounds

history == <<drawn, handed, retired, late>>
bounds == <<ops, lookups>>
vars == <<file, writers, req, manager, cache, history, bounds>>

Miss == [hit |-> FALSE, grants |-> {}]

\* An operation: the snapshot it loaded and changed, the subjects whose cached
\* grants it drops when it answers, and the keys it created.
Idle == [pc |-> "idle", snap |-> Empty, drop |-> {}, made |-> {}]

At(p, pc) == req[p].pc = pc

\* A key manager that has just been built and filled from a file.
Filled(s) == [k \in Key |-> IF s.keys[k].owner = None THEN "absent"
                            ELSE IF s.keys[k].active THEN "active" ELSE "revoked"]

\* Slip: sync_api_key_manager() skips the keys the manager already has.
Synced_OnlyNew(p) == [k \in Key |-> IF manager[p][k] # "absent" THEN manager[p][k]
                                    ELSE Filled(file)[k]]

\* sync_api_key_manager(): the keys of the file are written over, and the keys
\* the file does not have stay.
Synced(p) == [k \in Key |-> IF file.keys[k].owner = None THEN manager[p][k]
                            ELSE Filled(file)[k]]

\* The file when an observation begins: some users.
Begun ==
    {[Empty EXCEPT !.users = f] :
        f \in {h \in [User -> Name \cup {None}] :
                  \A u, v \in User : h[u] = h[v] /\ u # v => h[u] = None}}

Init ==
    /\ file \in Begun
    /\ writers \in SUBSET Proc
    /\ req = [p \in Proc |-> Idle]
    /\ manager = [p \in Proc |-> [k \in Key |-> "absent"]]
    /\ cache = [p \in Proc |-> [u \in User |-> Miss]]
    /\ drawn = {} /\ handed = {} /\ retired = {} /\ late = {}
    /\ ops = 0 /\ lookups = 0

-----------------------------------------------------------------------------
(* An operation: load, change, save, answer.                               *)

Begin(p) ==
    /\ p \in writers /\ At(p, "idle")
    /\ ops < MaxOps /\ ops' = ops + 1
    /\ req' = [req EXCEPT ![p] = [Idle EXCEPT !.pc = "loaded", !.snap = file]]
    /\ UNCHANGED <<file, writers, manager, cache, history, lookups>>

\* Slip: the snapshot a refused request has loaded is kept.
Refuse_KeepsSnapshot(p) ==
    /\ At(p, "loaded") /\ req' = [req EXCEPT ![p].pc = "idle"]
    /\ UNCHANGED <<file, writers, manager, cache, history, bounds>>

\* A check fails, or the record is not there: nothing is saved.
Refuse(p) ==
    /\ At(p, "loaded") /\ req' = [req EXCEPT ![p] = Idle]
    /\ UNCHANGED <<file, writers, manager, cache, history, bounds>>

\* The operation turns its snapshot into t.
Change(p, t, D, K) ==
    /\ At(p, "loaded")
    /\ req' = [req EXCEPT ![p] = [pc |-> "changed", snap |-> t, drop |-> D, made |-> K]]
    /\ UNCHANGED <<file, writers, cache, handed, retired, late, bounds>>

\* ... and leaves the key manager alone.
ChangeOnly(p, t, D) == Change(p, t, D, {}) /\ UNCHANGED <<manager, drawn>>

CreateUser(p, u, n) ==
    LET s == req[p].snap
    IN  CanCreateUser(s, u, n) /\ ChangeOnly(p, WithUser(s, u, n), User)

UpdateUser(p, u, n) ==
    LET s == req[p].snap
    IN  CanUpdateUser(s, u, n) /\ ChangeOnly(p, WithUser(s, u, n), User)

DeleteUser(p, u) ==
    LET s == req[p].snap
    IN  u \in Users(s) /\ ChangeOnly(p, WithoutUser(s, u), User)

CreateGroup(p, g, n, M, A) ==
    LET s == req[p].snap
    IN  CanCreateGroup(s, g, n, M, A) /\ ChangeOnly(p, WithGroup(s, g, n, M, A), User)

UpdateGroup(p, g, n, A) ==
    LET s == req[p].snap
    IN  CanUpdateGroup(s, g, n, A) /\ ChangeOnly(p, UpdatedGroup(s, g, n, A), User)

DeleteGroup(p, g) ==
    LET s == req[p].snap
    IN  g \in Groups(s) /\ ChangeOnly(p, WithoutGroup(s, g), User)

AddGroupMember(p, g, u) ==
    LET s == req[p].snap
    IN  CanAddMember(s, g, u) /\ ChangeOnly(p, WithMember(s, g, u), User)

RemoveGroupMember(p, g, u) ==
    LET s == req[p].snap
    IN  g \in Groups(s) /\ ChangeOnly(p, WithoutMember(s, g, u), User)

\* generate() puts the key into the manager before the record is saved; its id
\* is a uuid4, which is never drawn twice.
CreateApiKey(p, k, u) ==
    LET s == req[p].snap
    IN  /\ k \notin drawn /\ CanCreateKey(s, k, u)
        /\ Change(p, WithKey(s, k, u), {}, {k})
        /\ manager' = [manager EXCEPT ![p][k] = "active"]
        /\ drawn' = drawn \cup {k}

RevokeApiKey(p, k) ==
    LET s == req[p].snap
    IN  /\ CanRevokeKey(s, k) /\ Change(p, RevokedKey(s, k), {}, {})
        /\ manager' = [manager EXCEPT ![p][k] = "revoked"]
        /\ UNCHANGED drawn

CreateBinding(p, b, x, r) ==
    LET s == req[p].snap
    IN  /\ CanBind(s, x) /\ ~Bound(s, x, r)
        /\ ~ClientIds => s.bindings[b] = NoBinding
        /\ ChangeOnly(p, WithBinding(s, b, x, r), {x})

\* The same binding is there already: nothing to save.
CreateBindingAgain(p, x, r) ==
    /\ At(p, "loaded") /\ Bound(req[p].snap, x, r)
    /\ CanBind(req[p].snap, x)
    /\ req' = [req EXCEPT ![p].pc = "saved", ![p].drop = {x}]
    /\ UNCHANGED <<file, writers, manager, cache, history, bounds>>

DeleteBinding(p, b) ==
    LET s == req[p].snap
    IN  CanUnbind(s, b) /\ ChangeOnly(p, WithoutBinding(s, b), {s.bindings[b].subject})

UpsertProfile(p, f) == ChangeOnly(p, WithProfile(req[p].snap, f), {})
DeleteProfile(p, f) == ChangeOnly(p, WithoutProfile(req[p].snap, f), {})
UpdateSettings(p, v) == ChangeOnly(p, WithSettings(req[p].snap, v), {})

\* os.replace() puts the whole snapshot in the place of the file.
Save(p) ==
    /\ At(p, "changed") /\ file' = req[p].snap
    /\ req' = [req EXCEPT ![p].pc = "saved"]
    /\ UNCHANGED <<writers, manager, cache, history, bounds>>

\* Slip: the changed snapshot is kept for the next request.
SaveRaises_KeepsChange(p) ==
    /\ At(p, "changed") /\ req' = [req EXCEPT ![p].pc = "loaded"]
    /\ UNCHANGED <<file, writers, manager, cache, history, bounds>>

\* The snapshot could not be written; the key manager is not restored.
SaveRaises(p) ==
    /\ At(p, "changed") /\ req' = [req EXCEPT ![p] = Idle]
    /\ UNCHANGED <<file, writers, manager, cache, history, bounds>>

\* Slip: invalidate() gets the subject of a binding and not the group's members.
Dropped_SubjectOnly(p) == req[p].drop \cap User

\* The users whose cached grants an operation drops: those in its subjects,
\* with the members of a group as they are after the save.
Dropped(p) == User \cap UNION {MembersOf(file, x) : x \in req[p].drop}

\* The handler drops cached grants and answers; a new key is handed over.
Answer(p) ==
    /\ At(p, "saved") /\ req' = [req EXCEPT ![p] = Idle]
    /\ cache' = [cache EXCEPT ![p] = [u \in User |-> IF u \in Dropped(p) THEN Miss
                                                     ELSE cache[p][u]]]
    /\ retired' = retired \cup {k \in handed : ~req[p].snap.keys[k].active}
    /\ handed' = handed \cup req[p].made
    /\ UNCHANGED <<file, writers, manager, drawn, late, bounds>>

-----------------------------------------------------------------------------
(* Requests that read, served between the operations of a process, and a   *)
(* process that stops and is started again.                                *)

Authenticate(p, k) ==
    /\ At(p, "idle") /\ k \in handed
    /\ manager' = [manager EXCEPT ![p] = Synced(p)]
    /\ late' = IF manager'[p][k] = "active" /\ k \in retired THEN late \cup {k} ELSE late
    /\ UNCHANGED <<file, writers, req, cache, drawn, handed, retired, bounds>>

\* authorise() of the resource guard looks a user's grants up and caches them.
Authorise(p, u) ==
    /\ At(p, "idle") /\ ~cache[p][u].hit
    /\ lookups < MaxLookups /\ lookups' = lookups + 1
    /\ cache' = [cache EXCEPT ![p][u] = [hit |-> TRUE, grants |-> Grants(file, u)]]
    /\ UNCHANGED <<file, writers, req, manager, history, ops>>

Restart(p) ==
    /\ req' = [req EXCEPT ![p] = Idle]
    /\ manager' = [manager EXCEPT ![p] = Filled(file)]
    /\ cache' = [cache EXCEPT ![p] = [u \in User |-> Miss]]
    /\ UNCHANGED <<file, writers, history, bounds>>

-----------------------------------------------------------------------------

UserOps(p) ==
    \E u \in User :
        \/ \E n \in Name : CreateUser(p, u, n) \/ UpdateUser(p, u, n)
        \/ DeleteUser(p, u)

GroupOps(p) ==
    \E g \in Group :
        \/ \E n \in Name, M, A \in SUBSET User : CreateGroup(p, g, n, M, A)
        \/ \E n \in Name, A \in SUBSET User : UpdateGroup(p, g, n, A)
        \/ DeleteGroup(p, g)
        \/ \E u \in User : AddGroupMember(p, g, u) \/ RemoveGroupMember(p, g, u)

KeyOps(p) ==
    \E k \in Key : RevokeApiKey(p, k) \/ \E u \in User : CreateApiKey(p, k, u)

BindingOps(p) ==
    \/ \E x \in Subject, r \in Grant :
          CreateBindingAgain(p, x, r) \/ \E b \in BindingId : CreateBinding(p, b, x, r)
    \/ \E b \in BindingId : DeleteBinding(p, b)

OverlayOps(p) ==
    \/ \E f \in Profile : UpsertProfile(p, f) \/ DeleteProfile(p, f)
    \/ \E v \in Setting : UpdateSettings(p, v)

Operation(p) ==
    \/ Begin(p) \/ Refuse(p) \/ Save(p) \/ SaveRaises(p) \/ Answer(p)
    \/ UserOps(p) \/ GroupOps(p) \/ KeyOps(p) \/ BindingOps(p) \/ OverlayOps(p)

Next ==
    \E p \in Proc :
        \/ Operation(p) \/ Restart(p)
        \/ \E k \in Key : Authenticate(p, k)
        \/ \E u \in User : Authorise(p, u)

Spec == Init /\ [][Next]_vars

-----------------------------------------------------------------------------
(* Properties.                                                             *)

Request ==
    [pc : {"idle", "loaded", "changed", "saved"}, snap : Snapshot,
     drop : SUBSET Subject, made : SUBSET Key]

\* Type invariant.  No snapshot outlives its request: the next one loads again.
TypeOK ==
    /\ file \in Snapshot /\ writers \in SUBSET Proc
    /\ req \in [Proc -> Request] /\ \A p \in Proc : At(p, "idle") => req[p] = Idle
    /\ manager \in [Proc -> [Key -> {"absent", "active", "revoked"}]]
    /\ cache \in [Proc -> [User -> [hit : BOOLEAN, grants : SUBSET Grant]]]
    /\ drawn \in SUBSET Key /\ handed \in SUBSET drawn
    /\ retired \in SUBSET handed /\ late \in SUBSET retired
    /\ ops \in Nat /\ lookups \in Nat

\* Whatever the processes overwrite of each other, and wherever they stop, the
\* file is sound: the members of a group exist and its administrators are
\* members, an active key has an owner, names and bindings are unique, and no
\* profile is both overridden and deleted.
FileSound == Sound(file)

OneWriter == \A p, q \in writers : p = q

\* If administrators are sent to one process, each replacement of the file is
\* one operation applied to the file it replaces: no change is lost, and no
\* half of one is saved, though saves fail and processes restart.
SavesAreSerial == [][OneWriter => Step(file, file')]_file

\* The file is then an atomic registry: what one writer does to it in several
\* steps implements one step.
Atomic == INSTANCE Registry WITH
            registry <- file, Start <- Begun, Operation <- Step
RegistrySpec == Atomic!Spec

\* ... and once the end of a key was acknowledged, by revocation or because its
\* owner was deleted, no process accepts it.  sync_api_key_manager() never takes
\* a key out, so this rests on the file keeping the record of every key.
EndedKeysRefused == OneWriter => late = {}

\* ... and between its operations the process that serves them authorises by
\* the groups and bindings in the file: each operation drops the grants of
\* everybody it concerns.
GrantsCurrent ==
    OneWriter => \A p \in writers, u \in User :
        At(p, "idle") /\ cache[p][u].hit => cache[p][u].grants = Grants(file, u)
=============================================================================
