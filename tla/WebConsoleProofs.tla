--------------------------- MODULE WebConsoleProofs ---------------------------
(***************************************************************************)
(* Theorems about WebConsole, for every set of users, groups, keys,        *)
(* profiles, names, folders and messages, any number of clicks, sockets    *)
(* and stops of the server, and queues of any size.                        *)
(***************************************************************************)
EXTENDS WebConsole, ConsolePartsProofs, AdminSnapshotProofs

-----------------------------------------------------------------------------
(* The registry keeps its type, and loses nothing but what is named.       *)

\* Everything of s is in t.
Keeps(s, t) ==
    /\ s.profiles \subseteq t.profiles
    /\ Users(s) \subseteq Users(t) /\ Groups(s) \subseteq Groups(t)
    /\ \A k \in Key : s.keys[k].active => t.keys[k].active

LEMMA WithProfileKeeps ==
  ASSUME NEW s \in Snapshot, NEW p \in Profile
  PROVE  WithProfile(s, p) \in Snapshot /\ Keeps(s, WithProfile(s, p))
BY DEF WithProfile, Snapshot, Keeps, Users, Groups

LEMMA WithoutProfileKeeps ==
  ASSUME NEW s \in Snapshot, NEW p \in Profile
  PROVE  /\ WithoutProfile(s, p) \in Snapshot
         /\ Users(WithoutProfile(s, p)) = Users(s) /\ Groups(WithoutProfile(s, p)) = Groups(s)
         /\ WithoutProfile(s, p).keys = s.keys
         /\ s.profiles \ WithoutProfile(s, p).profiles \subseteq {p}
BY DEF WithoutProfile, Snapshot, Users, Groups

LEMMA WithUserKeeps ==
  ASSUME NEW s \in Snapshot, NEW u \in User, NEW n \in Name
  PROVE  WithUser(s, u, n) \in Snapshot /\ Keeps(s, WithUser(s, u, n))
<1> DEFINE t == WithUser(s, u, n)
<1>1. t \in Snapshot
  BY DEF WithUser, Snapshot
<1>2. /\ t.groups = s.groups /\ t.keys = s.keys /\ t.profiles = s.profiles
      /\ t.users = [s.users EXCEPT ![u] = n] /\ s.users \in [User -> Name \cup {None}]
  BY DEF WithUser, Snapshot
<1> HIDE DEF t
<1>3. Users(s) \subseteq Users(t) /\ Groups(s) = Groups(t)
  BY <1>2, SnapshotAssumption DEF Users, Groups
<1> QED
  BY <1>1, <1>2, <1>3 DEF Keeps, t

LEMMA WithoutUserKeeps ==
  ASSUME NEW s \in Snapshot, NEW u \in User
  PROVE  /\ WithoutUser(s, u) \in Snapshot
         /\ WithoutUser(s, u).profiles = s.profiles
         /\ Groups(WithoutUser(s, u)) = Groups(s)
         /\ Users(s) \ Users(WithoutUser(s, u)) \subseteq {u}
         /\ \A k \in Key : s.keys[k].active /\ ~WithoutUser(s, u).keys[k].active =>
               s.keys[k].owner = u
<1> DEFINE gr == [g \in Group |-> [s.groups[g] EXCEPT !.members = @ \ {u},
                                                      !.admins = @ \ {u}]]
           ks == [k \in Key |-> IF s.keys[k].owner = u
                                THEN [s.keys[k] EXCEPT !.active = FALSE] ELSE s.keys[k]]
           us == [s.users EXCEPT ![u] = None]
           t == WithoutUser(s, u)
<1>1. t = [s EXCEPT !.users = us, !.groups = gr, !.keys = ks]
  BY DEF WithoutUser
<1>2. gr \in [Group -> [name : Name \cup {None}, members : SUBSET User,
                        admins : SUBSET User]]
  <2>1. s.groups \in [Group -> [name : Name \cup {None}, members : SUBSET User,
                                admins : SUBSET User]]
    BY DEF Snapshot
  <2> QED
    BY <2>1
<1>3. ks \in [Key -> [owner : User \cup {None}, active : BOOLEAN]]
  BY DEF Snapshot
<1>4. us \in [User -> Name \cup {None}] /\ s.users \in [User -> Name \cup {None}]
  BY DEF Snapshot
<1>5. \A k \in Key : s.keys[k].active /\ ~ks[k].active => s.keys[k].owner = u
  BY DEF Snapshot
<1>6. ASSUME NEW g \in Group PROVE gr[g].name = s.groups[g].name
  <2>1. s.groups[g] \in [name : Name \cup {None}, members : SUBSET User, admins : SUBSET User]
    BY DEF Snapshot
  <2> QED
    BY <2>1
<1>7. \A v \in User : v # u => us[v] = s.users[v]
  BY <1>4
<1> HIDE DEF gr, ks, us, t
<1>8. t \in Snapshot /\ t.groups = gr /\ t.keys = ks /\ t.users = us /\ t.profiles = s.profiles
  BY <1>1, <1>2, <1>3, <1>4 DEF Snapshot
<1>9. Groups(t) = Groups(s)
  BY <1>6, <1>8 DEF Groups
<1>10. Users(s) \ Users(t) \subseteq {u}
  BY <1>7, <1>8 DEF Users
<1> QED
  BY <1>5, <1>8, <1>9, <1>10 DEF t

LEMMA GroupPut ==
  ASSUME NEW s \in Snapshot, NEW g \in Group,
         NEW G \in [name : Name \cup {None}, members : SUBSET User, admins : SUBSET User]
  PROVE  LET t == [s EXCEPT !.groups[g] = G]
         IN  /\ t \in Snapshot /\ t.profiles = s.profiles /\ Users(t) = Users(s)
             /\ t.keys = s.keys /\ Groups(s) \ Groups(t) \subseteq {g}
             /\ G.name # None => Groups(s) \subseteq Groups(t)
<1> DEFINE t == [s EXCEPT !.groups[g] = G]
<1>1. t \in Snapshot
  BY DEF Snapshot
<1>2. t.users = s.users /\ t.keys = s.keys /\ t.profiles = s.profiles
      /\ t.groups = [s.groups EXCEPT ![g] = G]
      /\ s.groups \in [Group -> [name : Name \cup {None}, members : SUBSET User,
                                 admins : SUBSET User]]
  BY DEF Snapshot
<1> HIDE DEF t
<1>3. Groups(s) \ Groups(t) \subseteq {g} /\ (G.name # None => Groups(s) \subseteq Groups(t))
  BY <1>2 DEF Groups
<1> QED
  BY <1>1, <1>2, <1>3 DEF t, Users

LEMMA KeyPut ==
  ASSUME NEW s \in Snapshot, NEW k \in Key,
         NEW K \in [owner : User \cup {None}, active : BOOLEAN]
  PROVE  LET t == [s EXCEPT !.keys[k] = K]
         IN  /\ t \in Snapshot /\ t.profiles = s.profiles /\ Users(t) = Users(s)
             /\ Groups(t) = Groups(s) /\ \A j \in Key \ {k} : t.keys[j] = s.keys[j]
             /\ t.keys[k] = K
<1> DEFINE t == [s EXCEPT !.keys[k] = K]
<1>1. t \in Snapshot
  BY DEF Snapshot
<1>2. t.users = s.users /\ t.groups = s.groups /\ t.profiles = s.profiles
      /\ t.keys = [s.keys EXCEPT ![k] = K]
      /\ s.keys \in [Key -> [owner : User \cup {None}, active : BOOLEAN]]
  BY DEF Snapshot
<1> HIDE DEF t
<1> QED
  BY <1>1, <1>2 DEF t, Users, Groups

-----------------------------------------------------------------------------
(* What a request that is routed to a deletion takes away.                 *)

LEMMA NotRoutedThere ==
  ASSUME NEW r, NEW c, NEW d, d # "*", d # c, Arrives(r.path)[2] = c
  PROVE  ~Routed(r, "DELETE", <<"admin", d, "*">>)
BY DEF Routed, Fits

LEMMA DeletionTaken ==
  ASSUME NEW r
  PROVE  /\ DeletesProfile(r) => Takes(r) = Deletion("delete_profile", Named(r, 3))
         /\ DeletesUser(r) => Takes(r) = Deletion("delete_user", Named(r, 3))
         /\ DeletesGroup(r) => Takes(r) = Deletion("delete_group", Named(r, 3))
         /\ RevokesKey(r) => Takes(r) = Deletion("revoke_api_key", Named(r, 3))
<1>1. CASE DeletesProfile(r)
  <2>1. r.method = "DELETE" /\ Len(Arrives(r.path)) = 3 /\ Arrives(r.path)[2] = "profiles"
    BY <1>1, RoutedDeletion DEF DeletesProfile
  <2>2. ~Rewrites(r) /\ ~DeletesUser(r) /\ ~DeletesGroup(r) /\ ~RevokesKey(r)
    BY <2>1, NoRewriting, NotRoutedThere DEF DeletesUser, DeletesGroup, RevokesKey
  <2> QED
    BY <1>1, <2>2, TakesProfile
<1>2. CASE DeletesUser(r)
  <2>1. r.method = "DELETE" /\ Len(Arrives(r.path)) = 3 /\ Arrives(r.path)[2] = "users"
    BY <1>2, RoutedDeletion DEF DeletesUser
  <2>2. ~Rewrites(r) /\ ~DeletesProfile(r) /\ ~DeletesGroup(r) /\ ~RevokesKey(r)
    BY <2>1, NoRewriting, NotRoutedThere DEF DeletesProfile, DeletesGroup, RevokesKey
  <2> QED
    BY <1>2, <2>2, TakesUser
<1>3. CASE DeletesGroup(r)
  <2>1. r.method = "DELETE" /\ Len(Arrives(r.path)) = 3 /\ Arrives(r.path)[2] = "groups"
    BY <1>3, RoutedDeletion DEF DeletesGroup
  <2>2. ~Rewrites(r) /\ ~DeletesProfile(r) /\ ~DeletesUser(r) /\ ~RevokesKey(r)
    BY <2>1, NoRewriting, NotRoutedThere DEF DeletesProfile, DeletesUser, RevokesKey
  <2> QED
    BY <1>3, <2>2, TakesGroup
<1>4. CASE RevokesKey(r)
  <2>1. r.method = "DELETE" /\ Len(Arrives(r.path)) = 3 /\ Arrives(r.path)[2] = "api-keys"
    BY <1>4, RoutedDeletion DEF RevokesKey
  <2>2. ~Rewrites(r) /\ ~DeletesProfile(r) /\ ~DeletesUser(r) /\ ~DeletesGroup(r)
    BY <2>1, NoRewriting, NotRoutedThere DEF DeletesProfile, DeletesUser, DeletesGroup
  <2> QED
    BY <1>4, <2>2, TakesKey
<1> QED
  BY <1>1, <1>2, <1>3, <1>4

-----------------------------------------------------------------------------
(* The invariant.  A request in flight is one of the form, together with   *)
(* the scope that its click showed.                                        *)

Justified(scope, r) ==
    \/ scope = Nothing /\ r \in Plain
    \/ \E a \in Guarded : scope = a.scope /\ r = a.request

CallState ==
    [pc : {"free", "sent", "saved", "answered"}, awaited : BOOLEAN,
     scope : Scopes \cup {Nothing}, request : Requests \cup {NoRequest},
     answer : {"none", "ok", "refused"}]

CallOK(c) ==
    /\ c \in CallState
    /\ c.pc = "free" => c = Free
    /\ c.pc = "answered" => c.awaited /\ c.answer # "none"
    /\ c.pc # "free" => Justified(c.scope, c.request)

Inv ==
    /\ db \in Snapshot
    /\ call \in [Slot -> CallState] /\ \A s \in Slot : CallOK(call[s])
    /\ prompt \in Guarded \cup {NoPrompt}
    /\ clicks \in 0..MaxClicks /\ stops \in 0..MaxStops
    /\ prompt # NoPrompt => clicks # 0
    /\ EventsInv

LEMMA FreeOK == CallOK(Free)
BY DEF CallOK, CallState, Free

LEMMA SentOK ==
  ASSUME NEW scope, NEW r, Justified(scope, r)
  PROVE  CallOK([Free EXCEPT !.pc = "sent", !.awaited = TRUE, !.scope = scope,
                             !.request = r])
<1>1. scope \in Scopes \cup {Nothing} /\ r \in Requests
  BY DEF Justified, Scopes, Requests
<1> DEFINE c1 == [Free EXCEPT !.pc = "sent"]
           c2 == [c1 EXCEPT !.awaited = TRUE]
           c3 == [c2 EXCEPT !.scope = scope]
           c == [c3 EXCEPT !.request = r]
<1>2. Free \in CallState
  BY DEF Free, CallState
<1>3. c1 \in CallState /\ c1.pc = "sent"
  BY <1>2 DEF CallState
<1> HIDE DEF c1
<1>4. c2 \in CallState /\ c2.pc = "sent"
  BY <1>3 DEF CallState
<1> HIDE DEF c2
<1>5. c3 \in CallState /\ c3.pc = "sent" /\ c3.scope = scope
  BY <1>1, <1>4 DEF CallState
<1> HIDE DEF c3
<1>6. c \in CallState /\ c.pc = "sent" /\ c.scope = scope /\ c.request = r
  BY <1>1, <1>5 DEF CallState
<1>7. CallOK(c)
  BY <1>6 DEF CallOK
<1>8. c = [Free EXCEPT !.pc = "sent", !.awaited = TRUE, !.scope = scope, !.request = r]
  BY DEF c1, c2, c3
<1> HIDE DEF c
<1> QED
  BY <1>7, <1>8

LEMMA SavedOK ==
  ASSUME NEW c, CallOK(c), c.pc = "sent"
  PROVE  CallOK([c EXCEPT !.pc = "saved"])
BY DEF CallOK, CallState

LEMMA GivenUpOK ==
  ASSUME NEW c, CallOK(c), c.pc # "answered", c.awaited
  PROVE  CallOK([c EXCEPT !.awaited = FALSE])
<1>1. ~Free.awaited
  BY DEF Free
<1>2. c.pc # "free" /\ c \in CallState
  BY <1>1 DEF CallOK
<1>3. [c EXCEPT !.awaited = FALSE] \in CallState
  BY <1>2 DEF CallState
<1>4. /\ [c EXCEPT !.awaited = FALSE].pc = c.pc
      /\ [c EXCEPT !.awaited = FALSE].scope = c.scope
      /\ [c EXCEPT !.awaited = FALSE].request = c.request
  BY <1>2 DEF CallState
<1> QED
  BY <1>2, <1>3, <1>4 DEF CallOK

LEMMA AnsweredOK ==
  ASSUME NEW c, CallOK(c), c.pc # "free", NEW a \in {"ok", "refused"}, c.awaited
  PROVE  CallOK([c EXCEPT !.pc = "answered", !.answer = a])
BY DEF CallOK, CallState

\* A step of one request.
LEMMA CallStep ==
  ASSUME call \in [Slot -> CallState], \A s \in Slot : CallOK(call[s]),
         NEW s \in Slot, NEW c, CallOK(c), call' = [call EXCEPT ![s] = c]
  PROVE  (call \in [Slot -> CallState])' /\ \A t \in Slot : CallOK(call'[t])
BY DEF CallOK

LEMMA InvIsPrimed ==
  Inv' <=> /\ db' \in Snapshot
           /\ call' \in [Slot -> CallState] /\ \A s \in Slot : CallOK(call'[s])
           /\ prompt' \in Guarded \cup {NoPrompt}
           /\ clicks' \in 0..MaxClicks /\ stops' \in 0..MaxStops
           /\ prompt' # NoPrompt => clicks' # 0
           /\ EventsInv'
BY DEF Inv

LEMMA InvInit == Init => Inv
<1> SUFFICES ASSUME Init PROVE Inv
  OBVIOUS
<1>1. \A s \in Slot : CallOK(call[s]) /\ call[s] \in CallState
  BY FreeOK DEF Init, CallOK
<1>2. call \in [Slot -> CallState]
  BY <1>1 DEF Init
<1>3. EventsInv
  BY EventsInvInit DEF Init
<1> QED
  BY <1>1, <1>2, <1>3, ConsoleAssumption DEF Init, Inv

-----------------------------------------------------------------------------
(* The steps of the page.                                                  *)

LEMMA SendStep ==
  ASSUME Inv, NEW scope, NEW r, Justified(scope, r), clicks' \in Slot, Send(scope, r)
  PROVE  call' \in [Slot -> CallState] /\ \A s \in Slot : CallOK(call'[s])
BY CallStep, SentOK DEF Inv, Send

LEMMA ClickBound ==
  ASSUME Inv, Click
  PROVE  clicks' \in Slot /\ clicks' \in 0..MaxClicks /\ clicks' # 0
BY ConsoleAssumption DEF Inv, Click, Slot

LEMMA PressKeeps ==
  ASSUME Inv, NEW r \in Plain, Press(r)
  PROVE  Inv'
<1>1. Justified(Nothing, r) /\ Click /\ Send(Nothing, r)
  BY DEF Justified, Press
<1>2. EventsInv'
  BY UnchangedKeeps DEF Inv, Press
<1> QED
  BY <1>1, <1>2, SendStep, ClickBound, InvIsPrimed DEF Inv, Press

LEMMA AskKeeps ==
  ASSUME Inv, NEW a \in Guarded, Ask(a)
  PROVE  Inv'
<1>1. EventsInv'
  BY UnchangedKeeps DEF Inv, Ask
<1> QED
  BY <1>1, ClickBound, InvIsPrimed DEF Inv, Ask

LEMMA ConfirmKeeps ==
  ASSUME Inv, Confirm
  PROVE  Inv'
<1>1. prompt \in Guarded /\ Justified(prompt.scope, prompt.request)
  BY DEF Inv, Confirm, Responsive, Justified
<1>2. clicks' \in Slot /\ clicks' = clicks
  BY ConsoleAssumption DEF Inv, Confirm, Responsive, Slot
<1>3. EventsInv'
  BY UnchangedKeeps DEF Inv, Confirm
<1> QED
  BY <1>1, <1>2, <1>3, SendStep, InvIsPrimed DEF Inv, Confirm

LEMMA DismissKeeps ==
  ASSUME Inv, Dismiss
  PROVE  Inv'
<1>1. EventsInv'
  BY UnchangedKeeps DEF Inv, Dismiss
<1> QED
  BY <1>1, InvIsPrimed DEF Inv, Dismiss

LEMMA ReceiveKeeps ==
  ASSUME Inv, NEW s \in Slot, Receive(s)
  PROVE  Inv'
<1>1. call' \in [Slot -> CallState] /\ \A t \in Slot : CallOK(call'[t])
  BY CallStep, FreeOK DEF Inv, Receive
<1>2. EventsInv'
  BY UnchangedKeeps DEF Inv, Receive
<1> QED
  BY <1>1, <1>2, InvIsPrimed DEF Inv, Receive, pageVars

LEMMA FetchRejectsKeeps ==
  ASSUME Inv, NEW s \in Slot, FetchRejects(s)
  PROVE  Inv'
<1>1. call \in [Slot -> CallState] /\ CallOK(call[s]) /\ call[s].awaited
  BY DEF Inv, FetchRejects
<1>2. CASE call' = [call EXCEPT ![s] = Free]
  <2>1. call' \in [Slot -> CallState] /\ \A t \in Slot : CallOK(call'[t])
    BY <1>2, CallStep, FreeOK DEF Inv
  <2>2. EventsInv'
    BY UnchangedKeeps DEF Inv, FetchRejects
  <2> QED
    BY <2>1, <2>2, InvIsPrimed DEF Inv, FetchRejects, pageVars
<1>3. CASE ~At(s, "answered") /\ call' = [call EXCEPT ![s].awaited = FALSE]
  <2>1. CallOK([call[s] EXCEPT !.awaited = FALSE])
    BY <1>1, <1>3, GivenUpOK DEF At
  <2>2. call' = [call EXCEPT ![s] = [call[s] EXCEPT !.awaited = FALSE]]
    BY <1>1, <1>3
  <2>3. call' \in [Slot -> CallState] /\ \A t \in Slot : CallOK(call'[t])
    BY <2>1, <2>2, CallStep DEF Inv
  <2>4. EventsInv'
    BY UnchangedKeeps DEF Inv, FetchRejects
  <2> QED
    BY <2>3, <2>4, InvIsPrimed DEF Inv, FetchRejects, pageVars
<1> QED
  BY <1>2, <1>3 DEF FetchRejects

LEMMA OpenSocketKeeps ==
  ASSUME Inv, NEW k \in Socket, OpenSocket(k)
  PROVE  Inv'
<1>1. EventsInv'
  <2>1. SocketOK([Closed EXCEPT !.pc = "opening"], sent)
    BY ClosedOK, EventsInvIs DEF Inv
  <2> QED
    BY <2>1, SocketStep DEF Inv, OpenSocket
<1> QED
  BY <1>1, ClickBound, InvIsPrimed DEF Inv, OpenSocket

LEMMA GreetKeeps ==
  ASSUME Inv, NEW k \in Socket, Greet(k)
  PROVE  Inv'
<1>1. SocketOK(sock[k], sent) /\ sock \in [Socket -> SocketState] /\ sent \in Nat
  BY EventsInvIs DEF Inv
<1>2. EventsInv'
  <2>1. SocketOK([sock[k] EXCEPT !.hello = FALSE], sent)
    BY <1>1, GreetedOK DEF Greet
  <2>2. sock' = [sock EXCEPT ![k] = [sock[k] EXCEPT !.hello = FALSE]]
    BY <1>1 DEF Greet
  <2> QED
    BY <2>1, <2>2, SocketStep DEF Inv, Greet
<1> QED
  BY <1>2, InvIsPrimed DEF Inv, Greet, pageVars

LEMMA ShowLineKeeps ==
  ASSUME Inv, NEW k \in Socket, ShowLine(k)
  PROVE  Inv'
<1>1. SocketOK(sock[k], sent) /\ sock \in [Socket -> SocketState] /\ sent \in Nat
  BY EventsInvIs DEF Inv
<1>2. EventsInv'
  <2>1. SocketOK([sock[k] EXCEPT !.wire = Tail(sock[k].wire),
                                 !.last = Head(sock[k].wire)], sent)
    BY <1>1, ShownOK DEF ShowLine
  <2>2. sock' = [sock EXCEPT ![k] = [sock[k] EXCEPT !.wire = Tail(sock[k].wire),
                                                    !.last = Head(sock[k].wire)]]
    BY <1>1 DEF ShowLine
  <2> QED
    BY <2>1, <2>2, SocketStep DEF Inv, ShowLine
<1> QED
  BY <1>2, InvIsPrimed DEF Inv, ShowLine, pageVars

LEMMA SocketEndsKeeps ==
  ASSUME Inv, NEW k \in Socket, SocketEnds(k)
  PROVE  Inv'
<1>1. EventsInv'
  <2>1. SocketOK(Closed, sent)
    BY ClosedOK, EventsInvIs DEF Inv
  <2> QED
    BY <2>1, SocketStep DEF Inv, SocketEnds
<1> QED
  BY <1>1, InvIsPrimed DEF Inv, SocketEnds, pageVars

-----------------------------------------------------------------------------
(* The steps of the server.                                                *)

LEMMA ReplyStep ==
  ASSUME Inv, NEW s \in Slot, call[s].pc # "free", NEW a \in {"ok", "refused"}, Reply(s, a)
  PROVE  call' \in [Slot -> CallState] /\ \A t \in Slot : CallOK(call'[t])
<1>1. call \in [Slot -> CallState] /\ CallOK(call[s])
  BY DEF Inv
<1>2. CASE call[s].awaited
  <2>1. CallOK([call[s] EXCEPT !.pc = "answered", !.answer = a])
    BY <1>1, <1>2, AnsweredOK
  <2>2. call' = [call EXCEPT ![s] = [call[s] EXCEPT !.pc = "answered", !.answer = a]]
    BY <1>1, <1>2 DEF Reply
  <2> QED
    BY <2>1, <2>2, CallStep DEF Inv
<1>3. CASE ~call[s].awaited
  <2>1. call' = [call EXCEPT ![s] = Free]
    BY <1>1, <1>3 DEF Reply
  <2> QED
    BY <2>1, CallStep, FreeOK DEF Inv
<1> QED
  BY <1>2, <1>3

LEMMA SaveKeeps ==
  ASSUME Inv, NEW s \in Slot, NEW t \in Snapshot, Save(s, t)
  PROVE  Inv'
<1>1. call \in [Slot -> CallState] /\ CallOK(call[s]) /\ call[s].pc = "sent"
  BY DEF Inv, Save, Unserved, At
<1>2. CallOK([call[s] EXCEPT !.pc = "saved"])
  BY <1>1, SavedOK
<1>3. call' = [call EXCEPT ![s] = [call[s] EXCEPT !.pc = "saved"]]
  BY <1>1 DEF Save
<1>4. call' \in [Slot -> CallState] /\ \A u \in Slot : CallOK(call'[u])
  BY <1>2, <1>3, CallStep DEF Inv
<1>5. EventsInv'
  BY UnchangedKeeps DEF Inv, Save
<1> QED
  BY <1>4, <1>5, InvIsPrimed DEF Inv, Save, pageVars

LEMMA AnnounceKeeps ==
  ASSUME Inv, NEW s \in Slot, Announce(s)
  PROVE  Inv'
<1>1. call' \in [Slot -> CallState] /\ \A t \in Slot : CallOK(call'[t])
  BY ReplyStep DEF Announce, At
<1>2. EventsInv'
  BY AppendKeeps DEF Inv, Announce
<1> QED
  BY <1>1, <1>2, InvIsPrimed DEF Inv, Announce, pageVars

LEMMA RefuseKeeps ==
  ASSUME Inv, NEW s \in Slot, Refuse(s) \/ ServeOther(s)
  PROVE  Inv'
<1>1. call' \in [Slot -> CallState] /\ \A t \in Slot : CallOK(call'[t])
  <2>1. call[s].pc # "free"
    BY DEF Refuse, ServeOther, Unserved, At
  <2> QED
    BY <2>1, ReplyStep DEF Refuse, ServeOther
<1>2. UNCHANGED <<db, pageVars, stops, eventVars>>
  BY DEF Refuse, ServeOther
<1>3. EventsInv'
  BY <1>2, UnchangedKeeps DEF Inv
<1> QED
  BY <1>1, <1>2, <1>3, InvIsPrimed DEF Inv, pageVars

LEMMA StopServerKeeps ==
  ASSUME Inv, StopServer
  PROVE  Inv'
<1>1. call' = [s \in Slot |-> IF At(s, "answered") THEN call[s] ELSE Free]
  BY DEF StopServer
<1>2. ASSUME NEW s \in Slot PROVE CallOK(call'[s]) /\ call'[s] \in CallState
  <2>1. CallOK(call[s]) /\ (call'[s] = call[s] \/ call'[s] = Free)
    BY <1>1 DEF Inv
  <2> QED
    BY <2>1, FreeOK DEF CallOK
<1>3. call' \in [Slot -> CallState]
  BY <1>1, <1>2
<1>4. EventsInv'
  BY RestartKeeps DEF Inv, StopServer
<1>5. stops' \in 0..MaxStops
  BY ConsoleAssumption DEF Inv, StopServer
<1> QED
  BY <1>2, <1>3, <1>4, <1>5, InvIsPrimed DEF Inv, StopServer, pageVars

LEMMA EventsKeep ==
  ASSUME Inv, (\E k \in Socket : Stream(k)) \/ Watch \/ Others
  PROVE  Inv'
<1>1. UNCHANGED <<db, call, pageVars, stops>>
  BY DEF Stream, Watch, Others
<1>2. EventsInv'
  BY ServerKeeps, WatcherKeeps, AppendKeeps DEF Inv, Stream, Watch, Others, OtherLine
<1> QED
  BY <1>1, <1>2, InvIsPrimed DEF Inv, pageVars

-----------------------------------------------------------------------------
(* The requests that change the registry.                                  *)

LEMMA NothingVanishes ==
  ASSUME db \in Snapshot, Keeps(db, db')
  PROVE  Vanishes
BY DEF Keeps, Vanishes

\* What the server is about to do is what the form can send.
LEMMA SentTyped ==
  ASSUME Inv, NEW s \in Slot, call[s].pc # "free"
  PROVE  Typed(call[s].request)
BY PlainTyped, GuardedTyped DEF Inv, CallOK, Justified

LEMMA SentConfirmed ==
  ASSUME Inv, NEW s \in Slot, call[s].pc # "free", NEW kind, NEW id,
         kind # "nothing", kind # "move_duplicates",
         Takes(call[s].request) = Deletion(kind, id)
  PROVE  call[s].scope = Deletion(kind, id) \/ Stray(call[s].request)
<1>1. Deletion(kind, id) # Nothing /\ Deletion(kind, id).act # "move_duplicates"
  <2>1. Deletion(kind, id).act = kind /\ Nothing.act = "nothing"
    BY DEF Deletion, Nothing
  <2> QED
    BY <2>1
<1>2. CASE call[s].request \in Plain
  BY <1>1, <1>2, PlainTakes
<1>3. CASE call[s].request \notin Plain
  <2>1. PICK a \in Guarded : call[s].scope = a.scope /\ call[s].request = a.request
    BY <1>3 DEF Inv, CallOK, Justified
  <2>2. Agrees(call[s].scope, Takes(call[s].request))
    BY <1>1, <2>1, PromptsAgree
  <2> QED
    BY <1>1, <2>2 DEF Agrees, FolderNotSent
<1> QED
  BY <1>2, <1>3

\* A stray request deletes a group, and no other record.
LEMMA StrayIs ==
  ASSUME NEW r, Stray(r)
  PROVE  ~DeletesProfile(r) /\ ~DeletesUser(r) /\ ~RevokesKey(r)
<1>1. Arrives(r.path)[2] = "groups"
  BY RoutedDeletion DEF Stray, DeletesGroup
<1> QED
  BY <1>1, NotRoutedThere DEF DeletesProfile, DeletesUser, RevokesKey

\* The step that saves a registry.
Saves(s) == Save(s, db') /\ db' \in Snapshot /\ Vanishes

LEMMA SavesMore ==
  ASSUME Inv, NEW s \in Slot, NEW t \in Snapshot, Keeps(db, t), Save(s, t)
  PROVE  Saves(s)
BY NothingVanishes DEF Inv, Save, Saves

LEMMA SaveIsSent ==
  ASSUME NEW s \in Slot, NEW t, Save(s, t)
  PROVE  db' = t /\ call[s].pc = "sent" /\ At(s, "sent")
BY DEF Save, Unserved, At

LEMMA PutProfileSaves ==
  ASSUME Inv, NEW s \in Slot, PutProfile(s)
  PROVE  Saves(s)
<1> DEFINE p == Named(call[s].request, 3)
<1>1. Save(s, WithProfile(db, p)) /\ call[s].pc = "sent"
  BY SaveIsSent DEF PutProfile
<1>2. p \in Profile
  BY <1>1, SentTyped DEF Typed, PutProfile
<1> HIDE DEF p
<1>3. WithProfile(db, p) \in Snapshot /\ Keeps(db, WithProfile(db, p))
  BY <1>2, WithProfileKeeps DEF Inv
<1> QED
  BY <1>1, <1>3, SavesMore

LEMMA DeleteProfileSaves ==
  ASSUME Inv, NEW s \in Slot, DeleteProfile(s)
  PROVE  Saves(s)
<1> DEFINE p == Named(call[s].request, 3)
<1>1. Save(s, WithoutProfile(db, p)) /\ At(s, "sent") /\ call[s].pc = "sent"
  BY SaveIsSent DEF DeleteProfile
<1>2. p \in Profile
  BY <1>1, SentTyped DEF Typed, DeleteProfile
<1>3. call[s].scope = Deletion("delete_profile", p)
  BY <1>1, DeletionTaken, SentConfirmed, StrayIs DEF DeleteProfile
<1> HIDE DEF p
<1>4. Confirmed(Deletion("delete_profile", p))
  BY <1>1, <1>3 DEF Confirmed
<1>5. /\ db' = WithoutProfile(db, p) /\ db' \in Snapshot
      /\ Users(db') = Users(db) /\ Groups(db') = Groups(db) /\ db'.keys = db.keys
      /\ db.profiles \ db'.profiles \subseteq {p}
  BY <1>1, <1>2, SaveIsSent, WithoutProfileKeeps DEF Inv
<1>6. Vanishes
  BY <1>4, <1>5 DEF Vanishes
<1> QED
  BY <1>1, <1>5, <1>6 DEF Saves

LEMMA CreateUserSaves ==
  ASSUME Inv, NEW s \in Slot, CreateUser(s)
  PROVE  Saves(s)
<1> DEFINE r == call[s].request
<1>1. PICK u \in IF r.body.user = Blank THEN User ELSE {r.body.user} :
         Save(s, WithUser(db, u, r.body.name))
  BY DEF CreateUser
<1>2. r.body.user \in Field(User) /\ r.body.name \in Name
  BY <1>1, SaveIsSent, SentTyped DEF Typed, CreateUser
<1> HIDE DEF r
<1>3. u \in User
  BY <1>1, <1>2 DEF Field
<1>4. WithUser(db, u, r.body.name) \in Snapshot /\ Keeps(db, WithUser(db, u, r.body.name))
  BY <1>2, <1>3, WithUserKeeps DEF Inv
<1> QED
  BY <1>1, <1>4, SavesMore

LEMMA UpdateUserSaves ==
  ASSUME Inv, NEW s \in Slot, UpdateUser(s)
  PROVE  Saves(s)
<1> DEFINE u == Named(call[s].request, 3)
           n == call[s].request.body.name
<1>1. Save(s, WithUser(db, u, n)) /\ u \in User
  BY DEF UpdateUser, CanUpdateUser, Users
<1>2. n \in Name
  BY <1>1, SaveIsSent, SentTyped DEF Typed, UpdateUser
<1> HIDE DEF u, n
<1>3. WithUser(db, u, n) \in Snapshot /\ Keeps(db, WithUser(db, u, n))
  BY <1>1, <1>2, WithUserKeeps DEF Inv
<1> QED
  BY <1>1, <1>3, SavesMore

LEMMA DeleteUserSaves ==
  ASSUME Inv, NEW s \in Slot, DeleteUser(s)
  PROVE  Saves(s)
<1> DEFINE u == Named(call[s].request, 3)
<1>1. Save(s, WithoutUser(db, u)) /\ u \in User /\ At(s, "sent") /\ call[s].pc = "sent"
  BY SaveIsSent DEF DeleteUser, Users
<1>2. call[s].scope = Deletion("delete_user", u)
  BY <1>1, DeletionTaken, SentConfirmed, StrayIs DEF DeleteUser
<1> HIDE DEF u
<1>3. Confirmed(Deletion("delete_user", u))
  BY <1>1, <1>2 DEF Confirmed
<1>4. db' = WithoutUser(db, u)
  BY <1>1, SaveIsSent
<1>5. /\ db' \in Snapshot /\ db'.profiles = db.profiles /\ Groups(db') = Groups(db)
      /\ Users(db) \ Users(db') \subseteq {u}
      /\ \A k \in Key : db.keys[k].active /\ ~db'.keys[k].active => db.keys[k].owner = u
  BY <1>1, <1>4, WithoutUserKeeps DEF Inv
<1>6. Vanishes
  BY <1>3, <1>5 DEF Vanishes
<1> QED
  BY <1>1, <1>4, <1>5, <1>6 DEF Saves

LEMMA WithGroupKeeps ==
  ASSUME NEW s \in Snapshot, NEW g \in Group, NEW n \in Name, NEW M \in SUBSET User,
         NEW A \in SUBSET User
  PROVE  WithGroup(s, g, n, M, A) \in Snapshot /\ Keeps(s, WithGroup(s, g, n, M, A))
<1> DEFINE G == [name |-> n, members |-> M, admins |-> A]
<1>1. G \in [name : Name \cup {None}, members : SUBSET User, admins : SUBSET User]
      /\ G.name # None
  BY SnapshotAssumption
<1>2. WithGroup(s, g, n, M, A) = [s EXCEPT !.groups[g] = G]
  BY DEF WithGroup
<1> HIDE DEF G
<1> QED
  BY <1>1, <1>2, GroupPut DEF Keeps

LEMMA CreateGroupSaves ==
  ASSUME Inv, NEW s \in Slot, CreateGroup(s)
  PROVE  Saves(s)
<1> DEFINE b == call[s].request.body
<1>1. PICK g \in IF b.group = Blank THEN Group ELSE {b.group} :
         Save(s, WithGroup(db, g, b.name, b.members, {}))
  BY DEF CreateGroup
<1>2. b.group \in Field(Group) /\ b.name \in Name /\ b.members \in SUBSET User
  BY <1>1, SaveIsSent, SentTyped DEF Typed, CreateGroup
<1> HIDE DEF b
<1>3. g \in Group
  BY <1>1, <1>2 DEF Field
<1>4. /\ WithGroup(db, g, b.name, b.members, {}) \in Snapshot
      /\ Keeps(db, WithGroup(db, g, b.name, b.members, {}))
  BY <1>2, <1>3, WithGroupKeeps DEF Inv
<1> QED
  BY <1>1, <1>4, SavesMore

LEMMA GroupTyped ==
  ASSUME NEW s \in Snapshot, NEW g \in Groups(s)
  PROVE  /\ g \in Group /\ s.groups[g].members \in SUBSET User
         /\ s.groups[g].admins \in SUBSET User /\ s.groups[g].name \in Name
         /\ s.groups[g] \in [name : Name \cup {None}, members : SUBSET User,
                              admins : SUBSET User]
BY DEF Snapshot, Groups

LEMMA UpdateGroupSaves ==
  ASSUME Inv, NEW s \in Slot, UpdateGroup(s)
  PROVE  Saves(s)
<1> DEFINE g == Named(call[s].request, 3)
           n == call[s].request.body.name
           M == db.groups[g].members
           A == db.groups[g].admins
<1>1. g \in Groups(db) /\ Save(s, WithGroup(db, g, n, M, A))
  BY DEF UpdateGroup, UpdatedGroup
<1>2. n \in Name
  BY <1>1, SaveIsSent, SentTyped DEF Typed, UpdateGroup
<1>3. g \in Group /\ M \in SUBSET User /\ A \in SUBSET User
  BY <1>1, GroupTyped DEF Inv
<1> HIDE DEF g, n, M, A
<1>4. WithGroup(db, g, n, M, A) \in Snapshot /\ Keeps(db, WithGroup(db, g, n, M, A))
  BY <1>2, <1>3, WithGroupKeeps DEF Inv
<1> QED
  BY <1>1, <1>4, SavesMore

LEMMA DeleteGroupSaves ==
  ASSUME Inv, NEW s \in Slot, DeleteGroup(s)
  PROVE  Saves(s)
<1> DEFINE g == Named(call[s].request, 3)
<1>1. Save(s, WithoutGroup(db, g)) /\ g \in Group /\ At(s, "sent") /\ call[s].pc = "sent"
  BY SaveIsSent DEF DeleteGroup, Groups
<1>2. /\ Takes(call[s].request) = Deletion("delete_group", g)
      /\ call[s].scope = Deletion("delete_group", g) \/ Stray(call[s].request)
  BY <1>1, DeletionTaken, SentConfirmed DEF DeleteGroup
<1> HIDE DEF g
<1>3. Confirmed(Deletion("delete_group", g)) \/ Strayed(g)
  BY <1>1, <1>2 DEF Confirmed, Strayed
<1>4. db' = [db EXCEPT !.groups[g] = NoGroup]
  BY <1>1, SaveIsSent DEF WithoutGroup
<1>5. NoGroup \in [name : Name \cup {None}, members : SUBSET User, admins : SUBSET User]
  BY DEF NoGroup
<1>6. /\ db' \in Snapshot /\ db'.profiles = db.profiles /\ Users(db') = Users(db)
      /\ db'.keys = db.keys /\ Groups(db) \ Groups(db') \subseteq {g}
  BY <1>1, <1>4, <1>5, GroupPut DEF Inv
<1>7. Vanishes
  BY <1>3, <1>6 DEF Vanishes
<1>8. Save(s, db')
  BY <1>1, SaveIsSent
<1> QED
  BY <1>6, <1>7, <1>8 DEF Saves

LEMMA AddMemberSaves ==
  ASSUME Inv, NEW s \in Slot, AddMember(s)
  PROVE  Saves(s)
<1> DEFINE g == Named(call[s].request, 3)
           u == call[s].request.body.user
<1>1. Save(s, WithMember(db, g, u)) /\ g \in Groups(db) /\ u \in User
  BY DEF AddMember, CanAddMember, Users
<1> HIDE DEF g, u
<1> DEFINE G == [db.groups[g] EXCEPT !.members = @ \cup {u}]
<1>2. /\ g \in Group /\ db \in Snapshot /\ db.groups[g].name \in Name
      /\ db.groups[g] \in [name : Name \cup {None}, members : SUBSET User,
                            admins : SUBSET User]
  BY <1>1, GroupTyped DEF Inv
<1>3. G \in [name : Name \cup {None}, members : SUBSET User, admins : SUBSET User]
      /\ G.name # None
  BY <1>1, <1>2, SnapshotAssumption
<1>4. WithMember(db, g, u) = [db EXCEPT !.groups[g] = G]
  BY <1>2 DEF WithMember, Snapshot
<1> HIDE DEF G
<1>5. WithMember(db, g, u) \in Snapshot /\ Keeps(db, WithMember(db, g, u))
  BY <1>2, <1>3, <1>4, GroupPut DEF Keeps
<1> QED
  BY <1>1, <1>5, SavesMore

LEMMA RemoveMemberSaves ==
  ASSUME Inv, NEW s \in Slot, RemoveMember(s)
  PROVE  Saves(s)
<1> DEFINE g == Named(call[s].request, 3)
           u == Named(call[s].request, 5)
<1>1. Save(s, WithoutMember(db, g, u)) /\ g \in Groups(db)
  BY DEF RemoveMember
<1> HIDE DEF g, u
<1> DEFINE G1 == [db.groups[g] EXCEPT !.members = @ \ {u}]
           G == [G1 EXCEPT !.admins = @ \ {u}]
<1>2. /\ g \in Group /\ db \in Snapshot /\ db.groups[g].name \in Name
      /\ db.groups[g] \in [name : Name \cup {None}, members : SUBSET User,
                            admins : SUBSET User]
  BY <1>1, GroupTyped DEF Inv
<1>3. G1 \in [name : Name \cup {None}, members : SUBSET User, admins : SUBSET User]
      /\ G1.name # None /\ G1.admins = db.groups[g].admins
  BY <1>2, SnapshotAssumption
<1>4. WithoutMember(db, g, u) = [db EXCEPT !.groups[g] = G]
  BY <1>2, <1>3 DEF WithoutMember
<1> HIDE DEF G1
<1>5. G \in [name : Name \cup {None}, members : SUBSET User, admins : SUBSET User]
      /\ G.name # None
  BY <1>3
<1> HIDE DEF G
<1>6. WithoutMember(db, g, u) \in Snapshot /\ Keeps(db, WithoutMember(db, g, u))
  BY <1>2, <1>4, <1>5, GroupPut DEF Keeps
<1> QED
  BY <1>1, <1>6, SavesMore

LEMMA CreateKeySaves ==
  ASSUME Inv, NEW s \in Slot, CreateKey(s)
  PROVE  Saves(s)
<1> DEFINE u == call[s].request.body.owner
<1>1. PICK k \in Key : Save(s, WithKey(db, k, u)) /\ u \in User
  BY DEF CreateKey, CanCreateKey, Users
<1> HIDE DEF u
<1> DEFINE K == [owner |-> u, active |-> TRUE]
           t == WithKey(db, k, u)
<1>2. K \in [owner : User \cup {None}, active : BOOLEAN] /\ K.active
  BY <1>1
<1>3. t = [db EXCEPT !.keys[k] = K]
  BY DEF WithKey
<1> HIDE DEF K, t
<1>4. /\ t \in Snapshot /\ t.profiles = db.profiles /\ Users(t) = Users(db)
      /\ Groups(t) = Groups(db) /\ \A j \in Key \ {k} : t.keys[j] = db.keys[j]
      /\ t.keys[k] = K
  BY <1>1, <1>2, <1>3, KeyPut DEF Inv
<1>5. t \in Snapshot /\ Keeps(db, t)
  BY <1>2, <1>4 DEF Keeps
<1>6. Save(s, t)
  BY <1>1 DEF t
<1> QED
  BY <1>5, <1>6, SavesMore

LEMMA RevokeKeySaves ==
  ASSUME Inv, NEW s \in Slot, RevokeKey(s)
  PROVE  Saves(s)
<1> DEFINE k == Named(call[s].request, 3)
<1>1. Save(s, RevokedKey(db, k)) /\ At(s, "sent") /\ call[s].pc = "sent"
  BY SaveIsSent DEF RevokeKey
<1>2. k \in Key
  BY <1>1, SentTyped DEF Typed, RevokeKey
<1>3. call[s].scope = Deletion("revoke_api_key", k)
  BY <1>1, DeletionTaken, SentConfirmed, StrayIs DEF RevokeKey
<1> HIDE DEF k
<1>4. Confirmed(Deletion("revoke_api_key", k))
  BY <1>1, <1>3 DEF Confirmed
<1> DEFINE K == [db.keys[k] EXCEPT !.active = FALSE]
<1>5. db.keys[k] \in [owner : User \cup {None}, active : BOOLEAN] /\ db \in Snapshot
  BY <1>2 DEF Inv, Snapshot
<1>6. K \in [owner : User \cup {None}, active : BOOLEAN]
  BY <1>5
<1>7. RevokedKey(db, k) = [db EXCEPT !.keys[k] = K]
  BY <1>2, <1>5 DEF RevokedKey, Snapshot
<1> HIDE DEF K
<1>8. db' = [db EXCEPT !.keys[k] = K]
  BY <1>1, <1>7, SaveIsSent
<1>9. /\ db' \in Snapshot /\ db'.profiles = db.profiles /\ Users(db') = Users(db)
      /\ Groups(db') = Groups(db) /\ \A j \in Key \ {k} : db'.keys[j] = db.keys[j]
  BY <1>2, <1>5, <1>6, <1>8, KeyPut
<1>10. Vanishes
  BY <1>4, <1>9 DEF Vanishes
<1>11. Save(s, db')
  BY <1>1, SaveIsSent
<1> QED
  BY <1>9, <1>10, <1>11 DEF Saves

LEMMA ChangesSave ==
  ASSUME Inv, NEW s \in Slot, Changes(s)
  PROVE  Saves(s)
BY PutProfileSaves, DeleteProfileSaves, CreateUserSaves, UpdateUserSaves, DeleteUserSaves,
   CreateGroupSaves, UpdateGroupSaves, DeleteGroupSaves, AddMemberSaves, RemoveMemberSaves,
   CreateKeySaves, RevokeKeySaves
   DEF Changes

-----------------------------------------------------------------------------
(* The theorems.                                                           *)

LEMMA ServeKeeps ==
  ASSUME Inv, NEW s \in Slot, Serve(s)
  PROVE  Inv'
<1>1. CASE Changes(s)
  BY <1>1, ChangesSave, SaveKeeps DEF Saves
<1> QED
  BY <1>1, AnnounceKeeps, RefuseKeeps DEF Serve

LEMMA StutterKeeps ==
  ASSUME Inv, UNCHANGED vars
  PROVE  Inv'
<1>1. EventsInv'
  BY UnchangedKeeps DEF Inv, vars
<1> QED
  BY <1>1, InvIsPrimed DEF Inv, vars, pageVars

LEMMA NextKeeps ==
  ASSUME Inv, [Next]_vars
  PROVE  Inv'
<1>1. CASE Operator
  BY <1>1, PressKeeps, AskKeeps, ConfirmKeeps, DismissKeeps, OpenSocketKeeps DEF Operator
<1>2. CASE Watch \/ Others \/ \E k \in Socket : Stream(k)
  BY <1>2, EventsKeep
<1>3. CASE StopServer
  BY <1>3, StopServerKeeps
<1>4. CASE \E s \in Slot : Serve(s) \/ Receive(s) \/ FetchRejects(s)
  BY <1>4, ServeKeeps, ReceiveKeeps, FetchRejectsKeeps
<1>5. CASE \E k \in Socket : Greet(k) \/ ShowLine(k) \/ SocketEnds(k)
  BY <1>5, GreetKeeps, ShowLineKeeps, SocketEndsKeeps
<1>6. CASE UNCHANGED vars
  BY <1>6, StutterKeeps
<1> QED
  BY <1>1, <1>2, <1>3, <1>4, <1>5, <1>6 DEF Next

LEMMA ConsoleInvariant == Spec => []Inv
<1>1. Init => Inv
  BY InvInit
<1>2. Inv /\ [Next]_vars => Inv'
  BY NextKeeps
<1> QED
  BY <1>1, <1>2, PTL DEF Spec

LEMMA NoRequestTakesNothing == Takes(NoRequest) = Nothing
<1>1. NoRequest.method = "none"
  BY RequestIs DEF NoRequest
<1> QED
  BY <1>1, NoDeletion, NoRewriting, TakesNothing

\* Every state of a session is one that the code can be in: in particular a
\* request in flight is one of the form of the page, and a socket that is not
\* subscribed holds no line.
THEOREM ConsoleTyped == Spec => []TypeOK
<1>1. Inv => TypeOK
  BY DEF Inv, TypeOK, CallState, CallOK, At, EventsInv
<1> QED
  BY <1>1, ConsoleInvariant, PTL

\* confirmDestructive() shows, of every request that takes something away, what
\* the server takes; except the folder of the duplicates, and the group that a
\* stray removal of a member deletes.
THEOREM ConsoleActsAsConfirmed == Spec => []ActsAsConfirmed
<1>1. ASSUME Inv, NEW s \in Slot, Takes(call[s].request) # Nothing
      PROVE  \/ Agrees(call[s].scope, Takes(call[s].request))
             \/ call[s].scope = Nothing /\ Stray(call[s].request)
  <2>1. call[s].pc # "free"
    BY <1>1, NoRequestTakesNothing DEF Inv, CallOK, Free
  <2>2. CASE call[s].scope = Nothing /\ call[s].request \in Plain
    BY <1>1, <2>2, PlainTakes
  <2>3. CASE \E a \in Guarded : call[s].scope = a.scope /\ call[s].request = a.request
    BY <1>1, <2>3, PromptsAgree
  <2> QED
    BY <1>1, <2>1, <2>2, <2>3 DEF Inv, CallOK, Justified
<1>2. Inv => ActsAsConfirmed
  BY <1>1 DEF ActsAsConfirmed, Agrees
<1> QED
  BY <1>2, ConsoleInvariant, PTL

\* What the page has been shown on a socket and what is on the way to it are
\* all the lines offered since the subscription, in the order of the file,
\* unless the queue overflowed.
THEOREM ConsoleEventsInOrder == Spec => []EventsInOrder
<1>1. Inv => EventsInOrder
  BY DEF Inv, EventsInv
<1> QED
  BY <1>1, ConsoleInvariant, PTL

LEMMA RegistryKept ==
  ASSUME [Next]_vars, \A s \in Slot : ~Changes(s)
  PROVE  db' = db
<1>1. CASE Operator
  BY <1>1 DEF Operator, Press, Ask, Confirm, Dismiss, OpenSocket
<1>2. CASE Watch \/ Others \/ StopServer
  BY <1>2 DEF Watch, Others, StopServer
<1>3. CASE \E s \in Slot : Serve(s)
  BY <1>3 DEF Serve, Announce, Refuse, ServeOther
<1>4. CASE \E s \in Slot : Receive(s) \/ FetchRejects(s)
  BY <1>4 DEF Receive, FetchRejects
<1>5. CASE \E k \in Socket : Stream(k) \/ Greet(k) \/ ShowLine(k) \/ SocketEnds(k)
  BY <1>5 DEF Stream, Greet, ShowLine, SocketEnds
<1>6. CASE UNCHANGED vars
  BY <1>6 DEF vars
<1> QED
  BY <1>1, <1>2, <1>3, <1>4, <1>5, <1>6 DEF Next

\* No record disappears, and no key is revoked, by anything a session does
\* without a prompt for it, or for the owner of the key, having been confirmed:
\* buttons without a prompt, restarts and lost answers included.  Only a group
\* may go unasked, to a stray removal of a member.
THEOREM ConsoleVanishConfirmed == Spec => VanishConfirmed
<1>1. ASSUME Inv, [Next]_vars PROVE [Vanishes]_db
  <2>1. CASE \E s \in Slot : Changes(s)
    BY <1>1, <2>1, ChangesSave DEF Saves
  <2>2. CASE \A s \in Slot : ~Changes(s)
    BY <1>1, <2>2, RegistryKept
  <2> QED
    BY <2>1, <2>2
<1> QED
  BY <1>1, ConsoleInvariant, PTL DEF Spec, VanishConfirmed

-----------------------------------------------------------------------------
(* A change of the registry is one whole operation of AdminSnapshot.       *)

LEMMA ProfileRequestIsStep ==
  ASSUME Inv, NEW s \in Slot, PutProfile(s) \/ DeleteProfile(s)
  PROVE  Step(db, db')
<1> DEFINE p == Named(call[s].request, 3)
<1>1. (Save(s, WithProfile(db, p)) \/ Save(s, WithoutProfile(db, p))) /\ call[s].pc = "sent"
  BY SaveIsSent DEF PutProfile, DeleteProfile
<1>2. p \in Profile
  BY <1>1, SentTyped DEF Typed, PutProfile, DeleteProfile
<1> HIDE DEF p
<1>3. db' = WithProfile(db, p) \/ db' = WithoutProfile(db, p)
  BY <1>1, SaveIsSent
<1> QED
  BY <1>2, <1>3 DEF Step, OverlayStep

LEMMA UserRequestIsStep ==
  ASSUME Inv, NEW s \in Slot, CreateUser(s) \/ UpdateUser(s) \/ DeleteUser(s)
  PROVE  Step(db, db')
<1> DEFINE r == call[s].request
           n == r.body.name
<1>1. CASE CreateUser(s)
  <2>1. PICK u \in IF r.body.user = Blank THEN User ELSE {r.body.user} :
           CanCreateUser(db, u, n) /\ Save(s, WithUser(db, u, n))
    BY <1>1 DEF CreateUser
  <2>2. r.body.user \in Field(User) /\ n \in Name
    BY <1>1, <2>1, SaveIsSent, SentTyped DEF Typed, CreateUser
  <2> HIDE DEF r, n
  <2>3. u \in User /\ db' = WithUser(db, u, n)
    BY <2>1, <2>2, SaveIsSent DEF Field
  <2> QED
    BY <2>1, <2>2, <2>3 DEF Step, UserStep
<1>2. CASE UpdateUser(s)
  <2> DEFINE u == Named(r, 3)
  <2>1. CanUpdateUser(db, u, n) /\ Save(s, WithUser(db, u, n)) /\ u \in User
    BY <1>2 DEF UpdateUser, CanUpdateUser, Users
  <2>2. n \in Name
    BY <1>2, <2>1, SaveIsSent, SentTyped DEF Typed, UpdateUser
  <2> HIDE DEF r, n, u
  <2> QED
    BY <2>1, <2>2, SaveIsSent DEF Step, UserStep
<1>3. CASE DeleteUser(s)
  <2> DEFINE u == Named(r, 3)
  <2>1. u \in Users(db) /\ Save(s, WithoutUser(db, u)) /\ u \in User
    BY <1>3 DEF DeleteUser, Users
  <2> HIDE DEF u
  <2> QED
    BY <2>1, SaveIsSent DEF Step, UserStep
<1> QED
  BY <1>1, <1>2, <1>3

\* Taking somebody who is no user out of a group changes nothing.
LEMMA GroupRequestIsStep ==
  ASSUME Inv, NEW s \in Slot,
         CreateGroup(s) \/ UpdateGroup(s) \/ DeleteGroup(s) \/ AddMember(s) \/ RemoveMember(s)
  PROVE  [Step(db, db')]_db
<1> DEFINE r == call[s].request
           n == r.body.name
<1>1. CASE CreateGroup(s)
  <2> DEFINE M == r.body.members
  <2>1. PICK g \in IF r.body.group = Blank THEN Group ELSE {r.body.group} :
           CanCreateGroup(db, g, n, M, {}) /\ Save(s, WithGroup(db, g, n, M, {}))
    BY <1>1 DEF CreateGroup
  <2>2. r.body.group \in Field(Group) /\ n \in Name /\ M \in SUBSET User
    BY <1>1, <2>1, SaveIsSent, SentTyped DEF Typed, CreateGroup
  <2> HIDE DEF r, n, M
  <2>3. g \in Group /\ db' = WithGroup(db, g, n, M, {})
    BY <2>1, <2>2, SaveIsSent DEF Field
  <2> QED
    BY <2>1, <2>2, <2>3 DEF Step, GroupStep
<1>2. CASE UpdateGroup(s)
  <2> DEFINE g == Named(r, 3)
             A == db.groups[g].admins
  <2>1. CanUpdateGroup(db, g, n, A) /\ Save(s, UpdatedGroup(db, g, n, A)) /\ g \in Groups(db)
    BY <1>2 DEF UpdateGroup
  <2>2. n \in Name
    BY <1>2, <2>1, SaveIsSent, SentTyped DEF Typed, UpdateGroup, UpdatedGroup
  <2>3. g \in Group /\ A \in SUBSET User
    BY <2>1, GroupTyped DEF Inv
  <2> HIDE DEF r, n, g, A
  <2> QED
    BY <2>1, <2>2, <2>3, SaveIsSent DEF Step, GroupStep
<1>3. CASE DeleteGroup(s)
  <2> DEFINE g == Named(r, 3)
  <2>1. g \in Groups(db) /\ Save(s, WithoutGroup(db, g)) /\ g \in Group
    BY <1>3 DEF DeleteGroup, Groups
  <2> HIDE DEF g
  <2> QED
    BY <2>1, SaveIsSent DEF Step, GroupStep
<1>4. CASE AddMember(s)
  <2> DEFINE g == Named(r, 3)
             u == r.body.user
  <2>1. CanAddMember(db, g, u) /\ Save(s, WithMember(db, g, u)) /\ g \in Group /\ u \in User
    BY <1>4 DEF AddMember, CanAddMember, Users, Groups
  <2> HIDE DEF g, u
  <2> QED
    BY <2>1, SaveIsSent DEF Step, GroupStep
<1>5. CASE RemoveMember(s)
  <2> DEFINE g == Named(r, 3)
             u == Named(r, 5)
  <2>1. g \in Groups(db) /\ Save(s, WithoutMember(db, g, u)) /\ g \in Group
    BY <1>5 DEF RemoveMember, Groups
  <2> HIDE DEF g, u
  <2>2. CASE u \in User
    BY <2>1, <2>2, SaveIsSent DEF Step, GroupStep
  <2>3. CASE u \notin User
    <3> DEFINE G == db.groups[g]
               H == [G EXCEPT !.members = @ \ {u}, !.admins = @ \ {u}]
    <3>1. /\ G \in [name : Name \cup {None}, members : SUBSET User, admins : SUBSET User]
          /\ G.members \in SUBSET User /\ G.admins \in SUBSET User
      BY <2>1, GroupTyped DEF Inv
    <3> HIDE DEF G
    <3>2. G.members \ {u} = G.members /\ G.admins \ {u} = G.admins
      BY <2>3, <3>1
    <3>3. H = G
      BY <3>1, <3>2
    <3>4. WithoutMember(db, g, u) = [db EXCEPT !.groups[g] = H]
      BY DEF WithoutMember, G
    <3> HIDE DEF H
    <3>5. [db EXCEPT !.groups[g] = G] = db
      BY <2>1 DEF G, Inv, Snapshot
    <3> QED
      BY <2>1, <3>3, <3>4, <3>5, SaveIsSent
  <2> QED
    BY <2>2, <2>3
<1> QED
  BY <1>1, <1>2, <1>3, <1>4, <1>5

LEMMA KeyRequestIsStep ==
  ASSUME Inv, NEW s \in Slot, CreateKey(s) \/ RevokeKey(s)
  PROVE  Step(db, db')
<1>1. CASE CreateKey(s)
  <2> DEFINE u == call[s].request.body.owner
  <2>1. PICK k \in Key : CanCreateKey(db, k, u) /\ Save(s, WithKey(db, k, u)) /\ u \in User
    BY <1>1 DEF CreateKey, CanCreateKey, Users
  <2> HIDE DEF u
  <2> QED
    BY <2>1, SaveIsSent DEF Step, KeyStep
<1>2. CASE RevokeKey(s)
  <2> DEFINE k == Named(call[s].request, 3)
  <2>1. CanRevokeKey(db, k) /\ Save(s, RevokedKey(db, k))
    BY <1>2 DEF RevokeKey
  <2>2. k \in Key
    BY <1>2, <2>1, SaveIsSent, SentTyped DEF Typed, RevokeKey
  <2> HIDE DEF k
  <2> QED
    BY <2>1, <2>2, SaveIsSent DEF Step, KeyStep
<1> QED
  BY <1>1, <1>2

LEMMA RegistryStep == Inv /\ [Next]_vars => [Step(db, db')]_db
<1> SUFFICES ASSUME Inv, [Next]_vars PROVE [Step(db, db')]_db
  OBVIOUS
<1>1. CASE \E s \in Slot : Changes(s)
  BY <1>1, ProfileRequestIsStep, UserRequestIsStep, GroupRequestIsStep, KeyRequestIsStep
     DEF Changes
<1>2. CASE \A s \in Slot : ~Changes(s)
  BY <1>2, RegistryKept
<1> QED
  BY <1>1, <1>2

\* A session that begins with a sound registry keeps it sound: no request of the
\* page leaves a member, an administrator or a key of somebody who is gone.
THEOREM ConsoleRegistrySound ==
  (\A s \in Start : Sound(s)) => (Spec => []RegistrySound)
<1> SUFFICES ASSUME \A s \in Start : Sound(s)
             PROVE  Spec => []RegistrySound
  OBVIOUS
<1>1. Init => RegistrySound
  BY DEF Init, RegistrySound
<1>2. Inv /\ RegistrySound /\ [Next]_vars => RegistrySound'
  BY RegistryStep, StepSound DEF Inv, RegistrySound
<1> QED
  BY <1>1, <1>2, ConsoleInvariant, PTL DEF Spec
=============================================================================
