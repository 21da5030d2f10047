------------------------- MODULE AdminSnapshotProofs -------------------------
(***************************************************************************)
(* What the operations of the registry keep, for every snapshot and every  *)
(* set of users, groups, keys, bindings and profiles: the lemmas that the  *)
(* theorems about AdminState and WebConsole share.                         *)
(***************************************************************************)
EXTENDS AdminSnapshot, TLAPS

-----------------------------------------------------------------------------
(* What one operation makes of a sound snapshot is a sound snapshot.       *)

LEMMA EmptySound == Empty \in Snapshot /\ Sound(Empty)
<1>1. Empty \in Snapshot
  BY DEF Empty, Snapshot, NoGroup, NoKey, NoBinding
<1>2. Sound(Empty)
  BY DEF Empty, NoGroup, NoKey, NoBinding, Sound, MembersExist, KeysOwned,
         UserNamesDiffer, GroupNamesDiffer, BindingsDiffer, OverlayApart, Users, Groups
<1> QED
  BY <1>1, <1>2

LEMMA UserStepSound ==
  ASSUME NEW s \in Snapshot, Sound(s), NEW t, UserStep(s, t)
  PROVE  t \in Snapshot /\ Sound(t)
<1> PICK u \in User :
       \/ \E n \in Name : (CanCreateUser(s, u, n) \/ CanUpdateUser(s, u, n))
                              /\ t = WithUser(s, u, n)
       \/ u \in Users(s) /\ t = WithoutUser(s, u)
  BY DEF UserStep
<1>1. ASSUME NEW n \in Name, CanCreateUser(s, u, n) \/ CanUpdateUser(s, u, n),
             t = WithUser(s, u, n)
      PROVE  t \in Snapshot /\ Sound(t)
  <2>1. t \in Snapshot
    BY <1>1 DEF WithUser, Snapshot
  <2>2. t.groups = s.groups /\ t.keys = s.keys /\ t.bindings = s.bindings
        /\ t.profiles = s.profiles /\ t.deleted = s.deleted
        /\ t.users = [s.users EXCEPT ![u] = n] /\ s.users \in [User -> Name \cup {None}]
    BY <1>1 DEF WithUser, Snapshot
  <2>3. Users(s) \subseteq Users(t)
    BY <1>1, <2>2, SnapshotAssumption DEF Users
  <2>4. MembersExist(t) /\ KeysOwned(t)
    BY <2>2, <2>3 DEF Sound, MembersExist, KeysOwned
  <2>5. UserNamesDiffer(t)
    BY <1>1, <2>2, SnapshotAssumption
       DEF Sound, UserNamesDiffer, Users, CanCreateUser, CanUpdateUser
  <2>6. GroupNamesDiffer(t) /\ BindingsDiffer(t) /\ OverlayApart(t)
    BY <2>2 DEF Sound, GroupNamesDiffer, BindingsDiffer, OverlayApart, Groups
  <2> QED
    BY <2>1, <2>4, <2>5, <2>6 DEF Sound
<1>2. ASSUME u \in Users(s), t = WithoutUser(s, u)
      PROVE  t \in Snapshot /\ Sound(t)
  <2> DEFINE gr == [g \in Group |-> [s.groups[g] EXCEPT !.members = @ \ {u},
                                                        !.admins = @ \ {u}]]
             ks == [k \in Key |-> IF s.keys[k].owner = u
                                  THEN [s.keys[k] EXCEPT !.active = FALSE] ELSE s.keys[k]]
  <2>1. t = [s EXCEPT !.users[u] = None, !.groups = gr, !.keys = ks]
    BY <1>2 DEF WithoutUser
  <2>2. gr \in [Group -> [name : Name \cup {None}, members : SUBSET User,
                          admins : SUBSET User]]
    <3>1. s.groups \in [Group -> [name : Name \cup {None}, members : SUBSET User,
                                  admins : SUBSET User]]
      BY DEF Snapshot
    <3> QED
      BY <3>1
  <2>3. ks \in [Key -> [owner : User \cup {None}, active : BOOLEAN]]
    BY DEF Snapshot
  <2> HIDE DEF gr, ks
  <2>k. s = [users |-> s.users, groups |-> s.groups, keys |-> s.keys,
             bindings |-> s.bindings, profiles |-> s.profiles, deleted |-> s.deleted,
             settings |-> s.settings] /\ s.users \in [User -> Name \cup {None}]
    BY DEF Snapshot
  <2>4. /\ t.groups = gr /\ t.keys = ks /\ t.bindings = s.bindings
        /\ t.profiles = s.profiles /\ t.deleted = s.deleted
        /\ t.users = [s.users EXCEPT ![u] = None] /\ s.users \in [User -> Name \cup {None}]
    BY <2>1, <2>k
  <2>t. t \in Snapshot
    <3> DEFINE us == [s.users EXCEPT ![u] = None]
    <3>1. us \in [User -> Name \cup {None}]
      BY DEF Snapshot
    <3>2. t = [s EXCEPT !.users = us, !.groups = gr, !.keys = ks]
      BY <2>1
    <3> HIDE DEF us
    <3> QED
      BY <2>2, <2>3, <3>1, <3>2 DEF Snapshot
  <2>5. ASSUME NEW g \in Group
        PROVE  /\ t.groups[g].name = s.groups[g].name
               /\ t.groups[g].members = s.groups[g].members \ {u}
               /\ t.groups[g].admins = s.groups[g].admins \ {u}
    <3>1. s.groups[g] \in [name : Name \cup {None}, members : SUBSET User,
                           admins : SUBSET User]
      BY DEF Snapshot
    <3>2. t.groups[g] = [s.groups[g] EXCEPT !.members = @ \ {u}, !.admins = @ \ {u}]
      BY <2>4 DEF gr
    <3> QED
      BY <3>1, <3>2
  <2>6. \A k \in Key : /\ t.keys[k].owner = s.keys[k].owner
                       /\ t.keys[k].active => s.keys[k].active /\ s.keys[k].owner # u
    BY <2>4 DEF ks, Snapshot
  <2>7. Users(t) = Users(s) \ {u}
    BY <2>4 DEF Users
  <2>8. MembersExist(t)
    BY <2>5, <2>7 DEF Sound, MembersExist
  <2>9. KeysOwned(t)
    BY <2>6, <2>7 DEF Sound, KeysOwned
  <2>10. UserNamesDiffer(t)
    BY <2>4, <2>7 DEF Sound, UserNamesDiffer, Users
  <2>11. GroupNamesDiffer(t)
    BY <2>5 DEF Sound, GroupNamesDiffer, Groups
  <2>12. BindingsDiffer(t) /\ OverlayApart(t)
    BY <2>4 DEF Sound, BindingsDiffer, OverlayApart
  <2> QED
    BY <2>t, <2>8, <2>9, <2>10, <2>11, <2>12 DEF Sound
<1> QED
  BY <1>1, <1>2

\* A group record with existing members, its administrators among them and a
\* name of its own may be put into a sound snapshot.
LEMMA GroupPutSound ==
  ASSUME NEW s \in Snapshot, Sound(s), NEW g \in Group,
         NEW G \in [name : Name \cup {None}, members : SUBSET User, admins : SUBSET User],
         G.members \subseteq Users(s), G.admins \subseteq G.members,
         G.name # None => GroupNameFree(s, g, G.name)
  PROVE  LET t == [s EXCEPT !.groups[g] = G] IN t \in Snapshot /\ Sound(t)
<1> DEFINE t == [s EXCEPT !.groups[g] = G]
<1>1. t \in Snapshot
  BY DEF Snapshot
<1>2. t.users = s.users /\ t.keys = s.keys /\ t.bindings = s.bindings
      /\ t.profiles = s.profiles /\ t.deleted = s.deleted
      /\ t.groups = [s.groups EXCEPT ![g] = G]
      /\ s.groups \in [Group -> [name : Name \cup {None}, members : SUBSET User,
                                 admins : SUBSET User]]
  BY DEF Snapshot
<1> HIDE DEF t
<1>3. MembersExist(t)
  BY <1>2 DEF Sound, MembersExist, Users
<1>4. GroupNamesDiffer(t)
  BY <1>2 DEF Sound, GroupNamesDiffer, Groups, GroupNameFree
<1>5. KeysOwned(t) /\ UserNamesDiffer(t) /\ BindingsDiffer(t) /\ OverlayApart(t)
  BY <1>2 DEF Sound, KeysOwned, UserNamesDiffer, BindingsDiffer, OverlayApart, Users
<1> QED
  BY <1>1, <1>3, <1>4, <1>5 DEF Sound, t

LEMMA GroupStepSound ==
  ASSUME NEW s \in Snapshot, Sound(s), NEW t, GroupStep(s, t)
  PROVE  t \in Snapshot /\ Sound(t)
<1> DEFINE Record == [name : Name \cup {None}, members : SUBSET User, admins : SUBSET User]
<1> PICK g \in Group :
        \/ \E n \in Name, M, A \in SUBSET User :
              CanCreateGroup(s, g, n, M, A) /\ t = WithGroup(s, g, n, M, A)
        \/ \E n \in Name, A \in SUBSET User :
              CanUpdateGroup(s, g, n, A) /\ t = UpdatedGroup(s, g, n, A)
        \/ g \in Groups(s) /\ t = WithoutGroup(s, g)
        \/ \E u \in User : CanAddMember(s, g, u) /\ t = WithMember(s, g, u)
        \/ \E u \in User : g \in Groups(s) /\ t = WithoutMember(s, g, u)
  BY DEF GroupStep
<1>0. /\ s.groups[g] \in Record
      /\ s.groups[g].members \subseteq Users(s)
      /\ s.groups[g].admins \subseteq s.groups[g].members
      /\ s.groups[g].name # None => GroupNameFree(s, g, s.groups[g].name)
  <2>1. s.groups[g] \in Record
    BY DEF Snapshot
  <2>2. s.groups[g].members \subseteq Users(s) /\ s.groups[g].admins \subseteq s.groups[g].members
    BY DEF Sound, MembersExist
  <2>3. s.groups[g].name # None => GroupNameFree(s, g, s.groups[g].name)
    BY DEF Sound, GroupNamesDiffer, GroupNameFree, Groups
  <2> QED
    BY <2>1, <2>2, <2>3
<1>1. ASSUME NEW n \in Name, NEW M \in SUBSET User, NEW A \in SUBSET User,
             CanCreateGroup(s, g, n, M, A), t = WithGroup(s, g, n, M, A)
      PROVE  t \in Snapshot /\ Sound(t)
  <2> DEFINE G == [name |-> n, members |-> M, admins |-> A]
  <2>1. G \in Record /\ t = [s EXCEPT !.groups[g] = G]
    BY <1>1 DEF WithGroup
  <2>2. G.members \subseteq Users(s) /\ G.admins \subseteq G.members
        /\ GroupNameFree(s, g, G.name)
    BY <1>1 DEF CanCreateGroup
  <2> QED
    BY <2>1, <2>2, GroupPutSound
<1>2. ASSUME NEW n \in Name, NEW A \in SUBSET User,
             CanUpdateGroup(s, g, n, A), t = UpdatedGroup(s, g, n, A)
      PROVE  t \in Snapshot /\ Sound(t)
  <2> DEFINE G == [name |-> n, members |-> s.groups[g].members, admins |-> A]
  <2>1. G \in Record /\ t = [s EXCEPT !.groups[g] = G]
    BY <1>0, <1>2 DEF UpdatedGroup, WithGroup
  <2>2. G.members \subseteq Users(s) /\ G.admins \subseteq G.members
        /\ GroupNameFree(s, g, G.name)
    BY <1>0, <1>2 DEF CanUpdateGroup
  <2> QED
    BY <2>1, <2>2, GroupPutSound
<1>3. ASSUME t = WithoutGroup(s, g)
      PROVE  t \in Snapshot /\ Sound(t)
  BY <1>3, GroupPutSound DEF WithoutGroup, NoGroup
<1>4. ASSUME NEW u \in User, CanAddMember(s, g, u), t = WithMember(s, g, u)
      PROVE  t \in Snapshot /\ Sound(t)
  <2> DEFINE G == [s.groups[g] EXCEPT !.members = @ \cup {u}]
  <2>1. G \in Record /\ t = [s EXCEPT !.groups[g] = G]
    BY <1>0, <1>4 DEF WithMember, Snapshot
  <2>2. G.members = s.groups[g].members \cup {u} /\ G.admins = s.groups[g].admins
        /\ G.name = s.groups[g].name
    BY <1>0
  <2> HIDE DEF G
  <2> QED
    BY <1>0, <1>4, <2>1, <2>2, GroupPutSound DEF CanAddMember
<1>5. ASSUME NEW u \in User, t = WithoutMember(s, g, u)
      PROVE  t \in Snapshot /\ Sound(t)
  <2> DEFINE G == [s.groups[g] EXCEPT !.members = @ \ {u}, !.admins = @ \ {u}]
  <2>1. G \in Record /\ t = [s EXCEPT !.groups[g] = G]
    BY <1>0, <1>5 DEF WithoutMember, Snapshot
  <2>2. G.members = s.groups[g].members \ {u} /\ G.admins = s.groups[g].admins \ {u}
        /\ G.name = s.groups[g].name
    BY <1>0
  <2> HIDE DEF G
  <2> QED
    BY <1>0, <2>1, <2>2, GroupPutSound
<1> QED
  BY <1>1, <1>2, <1>3, <1>4, <1>5

\* A key record whose owner exists if it is active may be put into it.
LEMMA KeyPutSound ==
  ASSUME NEW s \in Snapshot, Sound(s), NEW k \in Key,
         NEW K \in [owner : User \cup {None}, active : BOOLEAN],
         K.active => K.owner \in Users(s)
  PROVE  LET t == [s EXCEPT !.keys[k] = K] IN t \in Snapshot /\ Sound(t)
<1> DEFINE t == [s EXCEPT !.keys[k] = K]
<1>1. t \in Snapshot
  BY DEF Snapshot
<1>2. t.users = s.users /\ t.groups = s.groups /\ t.bindings = s.bindings
      /\ t.profiles = s.profiles /\ t.deleted = s.deleted /\ t.keys = [s.keys EXCEPT ![k] = K]
      /\ s.keys \in [Key -> [owner : User \cup {None}, active : BOOLEAN]]
  BY DEF Snapshot
<1> HIDE DEF t
<1>3. KeysOwned(t)
  BY <1>2 DEF Sound, KeysOwned, Users
<1>4. MembersExist(t) /\ UserNamesDiffer(t) /\ GroupNamesDiffer(t) /\ BindingsDiffer(t)
      /\ OverlayApart(t)
  BY <1>2 DEF Sound, MembersExist, UserNamesDiffer, GroupNamesDiffer, BindingsDiffer,
              OverlayApart, Users, Groups
<1> QED
  BY <1>1, <1>3, <1>4 DEF Sound, t

LEMMA KeyStepSound ==
  ASSUME NEW s \in Snapshot, Sound(s), NEW t, KeyStep(s, t)
  PROVE  t \in Snapshot /\ Sound(t)
<1> PICK k \in Key : \/ \E u \in User : CanCreateKey(s, k, u) /\ t = WithKey(s, k, u)
                     \/ CanRevokeKey(s, k) /\ t = RevokedKey(s, k)
  BY DEF KeyStep
<1>1. ASSUME NEW u \in User, CanCreateKey(s, k, u), t = WithKey(s, k, u)
      PROVE  t \in Snapshot /\ Sound(t)
  <2> DEFINE K == [owner |-> u, active |-> TRUE]
  <2>1. K \in [owner : User \cup {None}, active : BOOLEAN] /\ K.owner \in Users(s)
        /\ t = [s EXCEPT !.keys[k] = K]
    BY <1>1 DEF CanCreateKey, WithKey
  <2> QED
    BY <2>1, KeyPutSound
<1>2. ASSUME t = RevokedKey(s, k)
      PROVE  t \in Snapshot /\ Sound(t)
  <2> DEFINE K == [s.keys[k] EXCEPT !.active = FALSE]
  <2>1. K \in [owner : User \cup {None}, active : BOOLEAN] /\ ~K.active
    BY DEF Snapshot
  <2>2. t = [s EXCEPT !.keys[k] = K]
    BY <1>2 DEF RevokedKey, Snapshot
  <2> HIDE DEF K
  <2> QED
    BY <2>1, <2>2, KeyPutSound
<1> QED
  BY <1>1, <1>2

LEMMA BindingStepSound ==
  ASSUME NEW s \in Snapshot, Sound(s), NEW t, BindingStep(s, t)
  PROVE  t \in Snapshot /\ Sound(t)
<1> PICK b \in BindingId :
        \/ \E x \in Subject, r \in Grant :
              CanBind(s, x) /\ ~Bound(s, x, r) /\ t = WithBinding(s, b, x, r)
        \/ CanUnbind(s, b) /\ t = WithoutBinding(s, b)
  BY DEF BindingStep
<1>1. PICK B \in {NoBinding} \cup [subject : Subject, grant : Grant] :
         /\ t = [s EXCEPT !.bindings[b] = B]
         /\ B = NoBinding \/ \A c \in BindingId : s.bindings[c] # B
  BY DEF WithBinding, WithoutBinding, Bound, NoBinding
<1>2. t \in Snapshot
  BY <1>1 DEF Snapshot
<1>3. t.users = s.users /\ t.groups = s.groups /\ t.keys = s.keys
      /\ t.profiles = s.profiles /\ t.deleted = s.deleted
      /\ t.bindings = [s.bindings EXCEPT ![b] = B]
      /\ s.bindings \in [BindingId -> {NoBinding} \cup [subject : Subject, grant : Grant]]
  BY <1>1 DEF Snapshot
<1>4. BindingsDiffer(t)
  BY <1>1, <1>3 DEF Sound, BindingsDiffer
<1>5. MembersExist(t) /\ KeysOwned(t) /\ UserNamesDiffer(t) /\ GroupNamesDiffer(t)
      /\ OverlayApart(t)
  BY <1>3 DEF Sound, MembersExist, KeysOwned, UserNamesDiffer, GroupNamesDiffer,
              OverlayApart, Users, Groups
<1> QED
  BY <1>2, <1>4, <1>5 DEF Sound

LEMMA OverlayStepSound ==
  ASSUME NEW s \in Snapshot, Sound(s), NEW t, OverlayStep(s, t)
  PROVE  t \in Snapshot /\ Sound(t)
<1>1. t \in Snapshot
  <2>1. ASSUME NEW p \in Profile, t = WithProfile(s, p)
        PROVE  t \in Snapshot
    BY <2>1 DEF WithProfile, Snapshot
  <2>2. ASSUME NEW p \in Profile, t = WithoutProfile(s, p)
        PROVE  t \in Snapshot
    BY <2>2 DEF WithoutProfile, Snapshot
  <2>3. ASSUME NEW v \in Setting, t = WithSettings(s, v)
        PROVE  t \in Snapshot
    BY <2>3 DEF WithSettings, Snapshot
  <2> QED
    BY <2>1, <2>2, <2>3 DEF OverlayStep
<1>2. t.users = s.users /\ t.groups = s.groups /\ t.keys = s.keys /\ t.bindings = s.bindings
  BY DEF OverlayStep, WithProfile, WithoutProfile, WithSettings, Snapshot
<1>3. OverlayApart(t)
  BY DEF OverlayStep, WithProfile, WithoutProfile, WithSettings, Snapshot, Sound, OverlayApart
<1>4. MembersExist(t) /\ KeysOwned(t) /\ UserNamesDiffer(t) /\ GroupNamesDiffer(t)
      /\ BindingsDiffer(t)
  BY <1>2 DEF Sound, MembersExist, KeysOwned, UserNamesDiffer, GroupNamesDiffer,
              BindingsDiffer, Users, Groups
<1> QED
  BY <1>1, <1>3, <1>4 DEF Sound

\* Every operation of the registry keeps a sound snapshot sound.
LEMMA StepSound ==
  ASSUME NEW s \in Snapshot, Sound(s), NEW t, Step(s, t)
  PROVE  t \in Snapshot /\ Sound(t)
BY UserStepSound, GroupStepSound, KeyStepSound, BindingStepSound, OverlayStepSound DEF Step

\* No operation takes a key record away or makes an ended key active again.
LEMMA StepKeepsKeys ==
  ASSUME NEW s \in Snapshot, NEW t, Step(s, t), NEW k \in Key, s.keys[k].owner # None
  PROVE  t.keys[k].owner # None /\ (~s.keys[k].active => ~t.keys[k].active)
<1>0. s.keys \in [Key -> [owner : User \cup {None}, active : BOOLEAN]]
  BY DEF Snapshot
<1>1. CASE UserStep(s, t)
  <2> PICK u \in User :
         \/ \E n \in Name : (CanCreateUser(s, u, n) \/ CanUpdateUser(s, u, n))
                                /\ t = WithUser(s, u, n)
         \/ u \in Users(s) /\ t = WithoutUser(s, u)
    BY <1>1 DEF UserStep
  <2>1. CASE t.keys = s.keys
    BY <2>1
  <2>2. CASE t = WithoutUser(s, u)
    <3>1. t.keys[k] = IF s.keys[k].owner = u THEN [s.keys[k] EXCEPT !.active = FALSE]
                      ELSE s.keys[k]
      BY <2>2 DEF WithoutUser, Snapshot
    <3> QED
      BY <3>1, <1>0
  <2>3. t.keys = s.keys \/ t = WithoutUser(s, u)
    BY DEF WithUser, Snapshot
  <2> QED
    BY <2>1, <2>2, <2>3
<1>2. CASE GroupStep(s, t)
  <2>1. t.keys = s.keys
    BY <1>2 DEF GroupStep, WithGroup, UpdatedGroup, WithoutGroup, WithMember, WithoutMember,
                Snapshot
  <2> QED
    BY <2>1
<1>3. CASE KeyStep(s, t)
  <2> PICK l \in Key : \/ \E u \in User : CanCreateKey(s, l, u) /\ t = WithKey(s, l, u)
                       \/ CanRevokeKey(s, l) /\ t = RevokedKey(s, l)
    BY <1>3 DEF KeyStep
  <2>1. ASSUME NEW u \in User, CanCreateKey(s, l, u), t = WithKey(s, l, u)
        PROVE  t.keys[k] = s.keys[k]
    BY <1>0, <2>1 DEF CanCreateKey, WithKey, Snapshot
  <2>2. ASSUME t = RevokedKey(s, l)
        PROVE  t.keys[k].owner = s.keys[k].owner /\ (t.keys[k].active => s.keys[k].active)
    <3>1. t.keys = [s.keys EXCEPT ![l].active = FALSE]
      BY <2>2 DEF RevokedKey, Snapshot
    <3> QED
      BY <1>0, <3>1
  <2> QED
    BY <2>1, <2>2
<1>4. CASE BindingStep(s, t)
  <2>1. t.keys = s.keys
    BY <1>4 DEF BindingStep, WithBinding, WithoutBinding, Snapshot
  <2> QED
    BY <2>1
<1>5. CASE OverlayStep(s, t)
  <2>1. t.keys = s.keys
    BY <1>5 DEF OverlayStep, WithProfile, WithoutProfile, WithSettings, Snapshot
  <2> QED
    BY <2>1
<1> QED
  BY <1>1, <1>2, <1>3, <1>4, <1>5 DEF Step

-----------------------------------------------------------------------------
(* The grants of a user outside the subjects an operation names do not     *)
(* change.                                                                 *)

Concerned(s, D) == User \cap UNION {MembersOf(s, x) : x \in D}
GrantsKept(s, t, D) == \A u \in User \ Concerned(t, D) : Grants(t, u) = Grants(s, u)

LEMMA GrantsOfUsers ==
  ASSUME NEW s \in Snapshot, NEW t
  PROVE  GrantsKept(s, t, User)
<1>1. \A u \in User : MembersOf(t, u) = {u}
  BY SnapshotAssumption DEF MembersOf
<1> QED
  BY <1>1 DEF GrantsKept, Concerned

LEMMA GrantsOfNobody ==
  ASSUME NEW s \in Snapshot, NEW t, t.bindings = s.bindings, t.groups = s.groups
  PROVE  GrantsKept(s, t, {})
BY DEF GrantsKept, Grants, MembersOf

LEMMA GrantsOfSubject ==
  ASSUME NEW s \in Snapshot, NEW t, NEW b \in BindingId, NEW x, NEW B,
         t.groups = s.groups, t.bindings = [s.bindings EXCEPT ![b] = B],
         B.subject \in {x, None}, s.bindings[b].subject \in {x, None}
  PROVE  GrantsKept(s, t, {x})
<1> SUFFICES ASSUME NEW u \in User, u \notin MembersOf(t, x)
             PROVE  Grants(t, u) = Grants(s, u)
  BY DEF GrantsKept, Concerned
<1>1. \A y : MembersOf(t, y) = MembersOf(s, y)
  BY DEF MembersOf
<1>2. u \notin MembersOf(t, B.subject) /\ u \notin MembersOf(s, s.bindings[b].subject)
  BY <1>1, SnapshotAssumption DEF MembersOf
<1>3. t.bindings[b] = B /\ \A c \in BindingId \ {b} : t.bindings[c] = s.bindings[c]
  BY DEF Snapshot
<1> QED
  BY <1>1, <1>2, <1>3 DEF Grants
==============================================================================
