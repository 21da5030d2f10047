---------------------------- MODULE AdminSnapshot ----------------------------
(***************************************************************************)
(* The content of admin_state.json, AdminStateSnapshot, and what each      *)
(* operation of server/admin/state_idam.py, state_bindings.py and          *)
(* state_profiles.py makes of it: Can... is the condition under which the  *)
(* operation does not raise, With... and Without... its result.  An absent *)
(* record is a total function's None.  E-mail addresses, display names,    *)
(* roles, scopes, expiry dates and time stamps are left out: no check on   *)
(* the references between the records reads them.                          *)
(***************************************************************************)
CONSTANTS
    User, Group, Key, BindingId, Profile,   \* identifiers
    Name,           \* user names and group names, lower case
    Grant,          \* what a binding grants: a permission on a resource
    Setting,        \* the values the service settings can have
    None

ASSUME SnapshotAssumption ==
    /\ None \notin User /\ None \notin Group /\ None \notin Name
    /\ User \cap Group = {}

Subject == User \cup Group

NoGroup == [name |-> None, members |-> {}, admins |-> {}]
NoKey == [owner |-> None, active |-> FALSE]
NoBinding == [subject |-> None, grant |-> None]

Snapshot ==
    [users : [User -> Name \cup {None}],
     groups : [Group -> [name : Name \cup {None}, members : SUBSET User,
                         admins : SUBSET User]],
     keys : [Key -> [owner : User \cup {None}, active : BOOLEAN]],
     bindings : [BindingId -> {NoBinding} \cup [subject : Subject, grant : Grant]],
     profiles : SUBSET Profile, deleted : SUBSET Profile,
     settings : Setting \cup {None}]

\* What _load() returns before anything was saved.
Empty ==
    [users |-> [u \in User |-> None], groups |-> [g \in Group |-> NoGroup],
     keys |-> [k \in Key |-> NoKey], bindings |-> [b \in BindingId |-> NoBinding],
     profiles |-> {}, deleted |-> {}, settings |-> None]

Users(s) == {u \in User : s.users[u] # None}
Groups(s) == {g \in Group : s.groups[g].name # None}
MembersOf(s, x) == IF x \in Group THEN s.groups[x].members ELSE {x}

\* The grants the bindings give a user, directly or through a group.
Grants(s, u) ==
    {r \in Grant : \E b \in BindingId :
        s.bindings[b].grant = r /\ u \in MembersOf(s, s.bindings[b].subject)}

-----------------------------------------------------------------------------
(* Users.                                                                  *)

CanCreateUser(s, u, n) == u \notin Users(s) /\ \A v \in User : s.users[v] # n
CanUpdateUser(s, u, n) == u \in Users(s) /\ \A v \in User \ {u} : s.users[v] # n
WithUser(s, u, n) == [s EXCEPT !.users[u] = n]

\* Slip: a group keeps the deleted user among its administrators.
WithoutUser_KeepsAdmin(s, u) ==
    [s EXCEPT !.users[u] = None,
              !.groups = [g \in Group |-> [s.groups[g] EXCEPT !.members = @ \ {u}]],
              !.keys = [k \in Key |-> IF s.keys[k].owner = u
                                      THEN [s.keys[k] EXCEPT !.active = FALSE]
                                      ELSE s.keys[k]]]

\* delete_user() also leaves every group and revokes the keys of the user.
WithoutUser(s, u) ==
    [s EXCEPT !.users[u] = None,
              !.groups = [g \in Group |-> [s.groups[g] EXCEPT !.members = @ \ {u},
                                                              !.admins = @ \ {u}]],
              !.keys = [k \in Key |-> IF s.keys[k].owner = u
                                      THEN [s.keys[k] EXCEPT !.active = FALSE]
                                      ELSE s.keys[k]]]

-----------------------------------------------------------------------------
(* Groups.                                                                 *)

GroupNameFree(s, g, n) == \A h \in Group \ {g} : s.groups[h].name # n

CanCreateGroup(s, g, n, M, A) ==
    /\ g \notin Groups(s) /\ GroupNameFree(s, g, n)
    /\ M \subseteq Users(s) /\ A \subseteq Users(s) /\ A \subseteq M
WithGroup(s, g, n, M, A) ==
    [s EXCEPT !.groups[g] = [name |-> n, members |-> M, admins |-> A]]

CanUpdateGroup(s, g, n, A) ==
    /\ g \in Groups(s) /\ GroupNameFree(s, g, n)
    /\ A \subseteq Users(s) /\ A \subseteq s.groups[g].members
UpdatedGroup(s, g, n, A) == WithGroup(s, g, n, s.groups[g].members, A)

WithoutGroup(s, g) == [s EXCEPT !.groups[g] = NoGroup]

CanAddMember(s, g, u) == g \in Groups(s) /\ u \in Users(s)
WithMember(s, g, u) == [s EXCEPT !.groups[g].members = @ \cup {u}]
WithoutMember(s, g, u) ==
    [s EXCEPT !.groups[g] = [s.groups[g] EXCEPT !.members = @ \ {u}, !.admins = @ \ {u}]]

-----------------------------------------------------------------------------
(* API keys.  A revoked key keeps its record.                              *)

CanCreateKey(s, k, u) == s.keys[k].owner = None /\ u \in Users(s)
WithKey(s, k, u) == [s EXCEPT !.keys[k] = [owner |-> u, active |-> TRUE]]
CanRevokeKey(s, k) == s.keys[k].owner # None
RevokedKey(s, k) == [s EXCEPT !.keys[k].active = FALSE]

-----------------------------------------------------------------------------
(* Bindings.  A request may name the id of the binding it creates.         *)

CanBind(s, x) == x \in Users(s) \cup Groups(s)
Bound(s, x, r) == \E b \in BindingId : s.bindings[b] = [subject |-> x, grant |-> r]
WithBinding(s, b, x, r) == [s EXCEPT !.bindings[b] = [subject |-> x, grant |-> r]]
CanUnbind(s, b) == s.bindings[b] # NoBinding
WithoutBinding(s, b) == [s EXCEPT !.bindings[b] = NoBinding]

-----------------------------------------------------------------------------
(* The profile overlay and the settings.                                   *)

WithProfile(s, p) == [s EXCEPT !.profiles = @ \cup {p}, !.deleted = @ \ {p}]
WithoutProfile(s, p) == [s EXCEPT !.profiles = @ \ {p}, !.deleted = @ \cup {p}]
WithSettings(s, v) == [s EXCEPT !.settings = v]

-----------------------------------------------------------------------------
(* What one acknowledged operation makes of a snapshot: the atomic         *)
(* registry that clients of the admin interface see.                       *)

UserStep(s, t) ==
    \E u \in User :
        \/ \E n \in Name : (CanCreateUser(s, u, n) \/ CanUpdateUser(s, u, n))
                               /\ t = WithUser(s, u, n)
        \/ u \in Users(s) /\ t = WithoutUser(s, u)

GroupStep(s, t) ==
    \E g \in Group :
        \/ \E n \in Name, M, A \in SUBSET User :
              CanCreateGroup(s, g, n, M, A) /\ t = WithGroup(s, g, n, M, A)
        \/ \E n \in Name, A \in SUBSET User :
              CanUpdateGroup(s, g, n, A) /\ t = UpdatedGroup(s, g, n, A)
        \/ g \in Groups(s) /\ t = WithoutGroup(s, g)
        \/ \E u \in User : CanAddMember(s, g, u) /\ t = WithMember(s, g, u)
        \/ \E u \in User : g \in Groups(s) /\ t = WithoutMember(s, g, u)

KeyStep(s, t) ==
    \E k \in Key :
        \/ \E u \in User : CanCreateKey(s, k, u) /\ t = WithKey(s, k, u)
        \/ CanRevokeKey(s, k) /\ t = RevokedKey(s, k)

BindingStep(s, t) ==
    \E b \in BindingId :
        \/ \E x \in Subject, r \in Grant :
              CanBind(s, x) /\ ~Bound(s, x, r) /\ t = WithBinding(s, b, x, r)
        \/ CanUnbind(s, b) /\ t = WithoutBinding(s, b)

OverlayStep(s, t) ==
    \/ \E p \in Profile : t = WithProfile(s, p) \/ t = WithoutProfile(s, p)
    \/ \E v \in Setting : t = WithSettings(s, v)

Step(s, t) ==
    UserStep(s, t) \/ GroupStep(s, t) \/ KeyStep(s, t) \/ BindingStep(s, t)
        \/ OverlayStep(s, t)

-----------------------------------------------------------------------------
(* What every reader of the registry relies on: the members of a group     *)
(* exist and its administrators are members, an active key has an owner,   *)
(* names and bindings are unique, and no profile is both overridden and    *)
(* deleted.                                                                *)

MembersExist(s) ==
    \A g \in Group : s.groups[g].admins \subseteq s.groups[g].members
                         /\ s.groups[g].members \subseteq Users(s)
KeysOwned(s) == \A k \in Key : s.keys[k].active => s.keys[k].owner \in Users(s)
UserNamesDiffer(s) == \A u, v \in Users(s) : s.users[u] = s.users[v] => u = v
GroupNamesDiffer(s) ==
    \A g, h \in Groups(s) : s.groups[g].name = s.groups[h].name => g = h
BindingsDiffer(s) ==
    \A b, c \in BindingId : s.bindings[b] = s.bindings[c] /\ b # c => s.bindings[b] = NoBinding
OverlayApart(s) == s.profiles \cap s.deleted = {}

Sound(s) ==
    /\ MembersExist(s) /\ KeysOwned(s) /\ UserNamesDiffer(s) /\ GroupNamesDiffer(s)
    /\ BindingsDiffer(s) /\ OverlayApart(s)
==============================================================================
