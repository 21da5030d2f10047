----------------------------- MODULE WebConsole -----------------------------
(***************************************************************************)
(* A session of the web console, static/app.js, with the API server.       *)
(* Every click that sends a request starts an asynchronous send(), which   *)
(* shows the answer when it comes, whatever was sent or shown since.       *)
(* confirmDestructive() is a modal dialogue: while it is open nothing else *)
(* of the page runs.  The server handles one request at a time on the      *)
(* registry of AdminSnapshot, and announces what it changed through        *)
(* ConfigEvents, which the page shows for each socket it has opened.       *)
(* Requests and answers may be lost, and the server may stop between       *)
(* saving and announcing.  Answers and events overwrite one another in one *)
(* result pane, and no code reads it: its content is left out.             *)
(***************************************************************************)
EXTENDS ConsoleRequests, ConfigEvents

CONSTANTS
    Start,          \* the registries a session may begin with
    Later,          \* bound: the requests of all clicks but the first
    MaxClicks,      \* bound: clicks of a session
    MaxStops        \* bound: stops of the server

ASSUME ConsoleAssumption ==
    /\ Start \subseteq Snapshot
    /\ MaxClicks \in Nat /\ MaxStops \in Nat

\* A click sends one request at most, which has its number.
Slot == 1..MaxClicks

VARIABLES
    db,             \* server: the registry
    call,           \* the requests of the clicks
    prompt,         \* page: the open confirmation
    clicks, stops   \* bookkeeping of the bounds

pageVars == <<prompt, clicks>>
vars == <<db, call, pageVars, stops, eventVars>>

NoRequest == Request("none", <<>>, NoBody)
NoPrompt == Asked(Nothing, NoRequest)

\* awaited: the page has not given the request up.  scope: what the operator
\* confirmed for it.
Free == [pc |-> "free", awaited |-> FALSE, scope |-> Nothing, request |-> NoRequest,
         answer |-> "none"]

At(s, pc) == call[s].pc = pc

Init ==
    /\ db \in Start
    /\ call = [s \in Slot |-> Free] /\ prompt = NoPrompt
    /\ clicks = 0 /\ stops = 0
    /\ EventsInit

-----------------------------------------------------------------------------
(* The page.                                                               *)

\* Nothing of the page runs while a confirmation is open.
Responsive == prompt = NoPrompt
Click == Responsive /\ clicks < MaxClicks /\ clicks' = clicks + 1

\* send() up to the await of fetch(): headers and body are read from the form.
Send(scope, r) ==
    call' = [call EXCEPT ![clicks'] = [Free EXCEPT !.pc = "sent", !.awaited = TRUE,
                                                   !.scope = scope, !.request = r]]

Offers(r) == clicks = 0 \/ r \in Later

Press(r) ==
    /\ Click /\ r \in Plain /\ Offers(r) /\ Send(Nothing, r)
    /\ UNCHANGED <<db, prompt, stops, eventVars>>

Ask(a) ==
    /\ Click /\ a \in Guarded /\ Offers(a.request) /\ prompt' = a
    /\ UNCHANGED <<db, call, stops, eventVars>>

Confirm ==
    /\ ~Responsive /\ prompt' = NoPrompt /\ clicks' = clicks
    /\ Send(prompt.scope, prompt.request)
    /\ UNCHANGED <<db, stops, eventVars>>

Dismiss ==
    /\ ~Responsive /\ prompt' = NoPrompt
    /\ UNCHANGED <<db, call, clicks, stops, eventVars>>

\* Slip: an answer waits until no other request is in flight.
Receive_WhenAlone(s) ==
    /\ Responsive /\ At(s, "answered") /\ \A t \in Slot \ {s} : At(t, "free")
    /\ call' = [call EXCEPT ![s] = Free]
    /\ UNCHANGED <<db, pageVars, stops, eventVars>>

\* send() after its awaits.
Receive(s) ==
    /\ Responsive /\ At(s, "answered")
    /\ call' = [call EXCEPT ![s] = Free]
    /\ UNCHANGED <<db, pageVars, stops, eventVars>>

\* Slip: a request given up keeps its place.
FetchRejects_Keeps(s) ==
    /\ Responsive /\ call[s].awaited
    /\ call' = [call EXCEPT ![s].pc = "free"]
    /\ UNCHANGED <<db, pageVars, stops, eventVars>>

\* fetch() or text() rejects: send() ends and nothing is shown.  The request is
\* lost, its answer is, or the server has it still.
FetchRejects(s) ==
    /\ Responsive /\ call[s].awaited
    /\ \/ ~At(s, "saved") /\ call' = [call EXCEPT ![s] = Free]
       \/ ~At(s, "answered") /\ call' = [call EXCEPT ![s].awaited = FALSE]
    /\ UNCHANGED <<db, pageVars, stops, eventVars>>

OpenSocket(k) ==
    /\ Click /\ sock[k].pc = "closed"
    /\ sock' = [sock EXCEPT ![k] = [Closed EXCEPT !.pc = "opening"]]
    /\ UNCHANGED <<db, call, prompt, stops, written, read, sent>>

\* onopen, which the page sees before any line.
Greet(k) ==
    /\ Responsive /\ sock[k].hello
    /\ sock' = [sock EXCEPT ![k].hello = FALSE]
    /\ UNCHANGED <<db, call, pageVars, stops, written, read, sent>>

\* onmessage.
ShowLine(k) ==
    /\ Responsive /\ ~sock[k].hello /\ sock[k].wire # <<>>
    /\ sock' = [sock EXCEPT ![k].wire = Tail(@), ![k].last = Head(sock[k].wire)]
    /\ UNCHANGED <<db, call, pageVars, stops, written, read, sent>>

\* The server refuses the key, or the connection breaks: onerror, if the
\* socket was not closed in order.  The page does not open another.
SocketEnds(k) ==
    /\ Responsive /\ sock[k].pc # "closed"
    /\ sock' = [sock EXCEPT ![k] = Closed]
    /\ UNCHANGED <<db, call, pageVars, stops, written, read, sent>>

-----------------------------------------------------------------------------
(* The server: one handler at a time, none of which awaits.                *)

Unserved(s) == At(s, "sent") /\ \A t \in Slot : ~At(t, "saved")

Reply(s, a) ==
    call' = [call EXCEPT ![s] = IF call[s].awaited THEN [@ EXCEPT !.pc = "answered", !.answer = a]
                                ELSE Free]

\* The request changes the registry into t; the event and the answer follow.
Save(s, t) ==
    /\ Unserved(s) /\ db' = t
    /\ call' = [call EXCEPT ![s].pc = "saved"]
    /\ UNCHANGED <<pageVars, stops, eventVars>>

\* emit_config_event(), then the answer.
Announce(s) ==
    /\ At(s, "saved") /\ AppendLine /\ Reply(s, "ok")
    /\ UNCHANGED <<db, pageVars, stops, read, sent, sock>>

\* No route, no right, no record, or a record in the way.
Refuse(s) ==
    /\ Unserved(s) /\ Reply(s, "refused")
    /\ UNCHANGED <<db, pageVars, stops, eventVars>>

\* Everything that leaves the registry alone: reads, mail tools, the archive,
\* and the policies, which are kept in memory.
ServeOther(s) ==
    LET r == call[s].request
    IN  /\ Unserved(s)
        /\ \/ r.method = "GET" \/ r.path[1] = "tools"
           \/ Routed(r, "POST", Path("archiveExport")) \/ Routed(r, "PUT", Path("rbacPut"))
        /\ Reply(s, "ok")
        /\ UNCHANGED <<db, pageVars, stops, eventVars>>

PutProfile(s) ==
    LET r == call[s].request
    IN  Routed(r, "PUT", <<"admin", "profiles", "*">>) /\ Save(s, WithProfile(db, Named(r, 3)))
DeleteProfile(s) ==
    LET r == call[s].request
    IN  DeletesProfile(r) /\ Save(s, WithoutProfile(db, Named(r, 3)))

\* Without an id the server draws one.
CreateUser(s) ==
    LET r == call[s].request
    IN  /\ Routed(r, "POST", <<"admin", "users">>) /\ r.body.name # Blank
        /\ \E u \in IF r.body.user = Blank THEN User ELSE {r.body.user} :
              CanCreateUser(db, u, r.body.name) /\ Save(s, WithUser(db, u, r.body.name))
\* An update may set an empty name, which creating refuses.
UpdateUser(s) ==
    LET r == call[s].request
    IN  /\ Routed(r, "PUT", <<"admin", "users", "*">>)
        /\ CanUpdateUser(db, Named(r, 3), r.body.name)
        /\ Save(s, WithUser(db, Named(r, 3), r.body.name))
DeleteUser(s) ==
    LET r == call[s].request
    IN  DeletesUser(r) /\ Named(r, 3) \in Users(db) /\ Save(s, WithoutUser(db, Named(r, 3)))

CreateGroup(s) ==
    LET r == call[s].request
    IN  /\ Routed(r, "POST", <<"admin", "groups">>) /\ r.body.name # Blank
        /\ \E g \in IF r.body.group = Blank THEN Group ELSE {r.body.group} :
              /\ CanCreateGroup(db, g, r.body.name, r.body.members, {})
              /\ Save(s, WithGroup(db, g, r.body.name, r.body.members, {}))
UpdateGroup(s) ==
    LET r == call[s].request
        g == Named(r, 3)
    IN  /\ Routed(r, "PUT", <<"admin", "groups", "*">>) /\ g \in Groups(db)
        /\ CanUpdateGroup(db, g, r.body.name, db.groups[g].admins)
        /\ Save(s, UpdatedGroup(db, g, r.body.name, db.groups[g].admins))
DeleteGroup(s) ==
    LET r == call[s].request
    IN  DeletesGroup(r) /\ Named(r, 3) \in Groups(db) /\ Save(s, WithoutGroup(db, Named(r, 3)))

\* Slip: nobody asks whether the new member is a user.
AddMember_AnyUser(s) ==
    LET r == call[s].request
    IN  /\ Routed(r, "POST", <<"admin", "groups", "*", "members">>)
        /\ Named(r, 3) \in Groups(db) /\ r.body.user \in User
        /\ Save(s, WithMember(db, Named(r, 3), r.body.user))

AddMember(s) ==
    LET r == call[s].request
    IN  /\ Routed(r, "POST", <<"admin", "groups", "*", "members">>)
        /\ CanAddMember(db, Named(r, 3), r.body.user)
        /\ Save(s, WithMember(db, Named(r, 3), r.body.user))
RemoveMember(s) ==
    LET r == call[s].request
    IN  /\ Routed(r, "DELETE", <<"admin", "groups", "*", "members", "*">>)
        /\ Named(r, 3) \in Groups(db) /\ Save(s, WithoutMember(db, Named(r, 3), Named(r, 5)))

CreateKey(s) ==
    LET r == call[s].request
    IN  /\ Routed(r, "POST", <<"admin", "api-keys">>)
        /\ \E k \in Key : CanCreateKey(db, k, r.body.owner)
                              /\ Save(s, WithKey(db, k, r.body.owner))
RevokeKey(s) ==
    LET r == call[s].request
    IN  RevokesKey(r) /\ CanRevokeKey(db, Named(r, 3)) /\ Save(s, RevokedKey(db, Named(r, 3)))

\* The server stops and is started again: it answers nothing it has not
\* answered yet, and a change it saved last is not announced.
StopServer ==
    /\ stops < MaxStops /\ stops' = stops + 1
    /\ call' = [s \in Slot |-> IF At(s, "answered") THEN call[s] ELSE Free]
    /\ RestartEvents
    /\ UNCHANGED <<db, pageVars>>

-----------------------------------------------------------------------------

Operator ==
    \/ \E r \in Plain : Press(r)
    \/ \E a \in Guarded : Ask(a)
    \/ Confirm \/ Dismiss
    \/ \E k \in Socket : OpenSocket(k)

Changes(s) ==
    \/ PutProfile(s) \/ DeleteProfile(s) \/ CreateUser(s) \/ UpdateUser(s)
    \/ DeleteUser(s) \/ CreateGroup(s) \/ UpdateGroup(s) \/ DeleteGroup(s)
    \/ AddMember(s) \/ RemoveMember(s) \/ CreateKey(s) \/ RevokeKey(s)

Serve(s) == Changes(s) \/ Announce(s) \/ Refuse(s) \/ ServeOther(s)

Stream(k) == ServerStep(k) /\ UNCHANGED <<db, call, pageVars, stops>>
Watch == WatcherStep /\ UNCHANGED <<db, call, pageVars, stops>>
Others == OtherLine /\ UNCHANGED <<db, call, pageVars, stops>>

Next ==
    \/ Operator \/ Watch \/ Others \/ StopServer
    \/ \E s \in Slot : Serve(s) \/ Receive(s) \/ FetchRejects(s)
    \/ \E k \in Socket : Stream(k) \/ Greet(k) \/ ShowLine(k) \/ SocketEnds(k)

Spec == Init /\ [][Next]_vars

\* Fairness: the server handles the requests it has, its watcher polls for
\* ever and its socket handlers run, and the event loop of the page runs.
\* Operators need never click, and need never answer a confirmation.
FairSpec ==
    /\ Spec /\ WF_vars(Watch)
    /\ \A s \in Slot : WF_vars(Serve(s)) /\ WF_vars(Receive(s))
    /\ \A k \in Socket :
          WF_vars(Stream(k)) /\ WF_vars(Greet(k)) /\ WF_vars(ShowLine(k))

-----------------------------------------------------------------------------
(* Properties.                                                             *)

Requests == Plain \cup {a.request : a \in Guarded}
Scopes == {a.scope : a \in Guarded}

TypeOK ==
    /\ db \in Snapshot
    /\ call \in [Slot -> [pc : {"free", "sent", "saved", "answered"}, awaited : BOOLEAN,
                          scope : Scopes \cup {Nothing}, request : Requests \cup {NoRequest},
                          answer : {"none", "ok", "refused"}]]
    /\ \A s \in Slot : (At(s, "free") => call[s] = Free)
                           /\ (At(s, "answered") => call[s].awaited /\ call[s].answer # "none")
    /\ prompt \in Guarded \cup {NoPrompt}
    /\ clicks \in 0..MaxClicks /\ stops \in 0..MaxStops
    /\ EventsTypeOK

\* "Confirm destructive action. Affected scope": whatever a request in flight
\* takes away, the operator confirmed a prompt for it that showed just that.
\* There are two exceptions: the folder shown for duplicates, and the removal
\* of a member that deletes a group unasked.
ActsAsConfirmed ==
    \A s \in Slot :
        LET taken == Takes(call[s].request)
        IN  taken # Nothing =>
                \/ call[s].scope = taken
                \/ FolderNotSent(call[s].scope, taken)
                \/ call[s].scope = Nothing /\ Stray(call[s].request)

\* No profile, user or group is gone, and no key revoked, without a prompt
\* that named it, or named the owner of the key, and was confirmed; but a
\* group may be, to a stray removal of a member.
Confirmed(scope) == \E s \in Slot : At(s, "sent") /\ call[s].scope = scope
Strayed(g) ==
    \E s \in Slot : /\ At(s, "sent") /\ Stray(call[s].request)
                    /\ Takes(call[s].request) = Deletion("delete_group", g)

Vanishes ==
    /\ \A p \in db.profiles \ db'.profiles : Confirmed(Deletion("delete_profile", p))
    /\ \A u \in Users(db) \ Users(db') : Confirmed(Deletion("delete_user", u))
    /\ \A g \in Groups(db) \ Groups(db') :
          Confirmed(Deletion("delete_group", g)) \/ Strayed(g)
    /\ \A k \in Key : db.keys[k].active /\ ~db'.keys[k].active =>
          \/ Confirmed(Deletion("revoke_api_key", k))
          \/ Confirmed(Deletion("delete_user", db.keys[k].owner))
VanishConfirmed == [][Vanishes]_db

\* Whatever requests overlap and whoever gives them up, the registry stays one
\* that its readers can rely on, if the session began with such a one.
RegistrySound == Sound(db)

\* A request ends: its answer is shown, it is given up, or an operator leaves
\* a confirmation open.
CallsSettle == \A s \in Slot : ~At(s, "free") ~> At(s, "free") \/ ~Responsive

\* A line of the file is shown on every socket that is subscribed when it is
\* written, unless the queue overflowed, the socket ended, or an operator
\* leaves a confirmation open.
LinesArrive ==
    \A k \in Socket, n \in 1..(MaxLines + MaxClicks) :
        (Live(k) /\ sock[k].last < n /\ n <= written) ~>
            sock[k].last >= n \/ sock[k].lost \/ ~Live(k) \/ ~Responsive
=============================================================================
