-------------------------- MODULE ConsolePartsProofs --------------------------
(***************************************************************************)
(* Lemmas about the two parts that WebConsole is composed of, which        *)
(* WebConsoleProofs rests on.  ConsoleRequests: what the requests of the   *)
(* console are to the server, for every content of the form.               *)
(* ConfigEvents: every step of the stream keeps its types and the order of *)
(* the lines, for any number of sockets and any queue size.                *)
(***************************************************************************)
EXTENDS ConsoleRequests, ConfigEvents, TLAPS

-----------------------------------------------------------------------------
(* The filled-in paths.                                                    *)

LEMMA FillThree ==
  ASSUME NEW a, NEW b, NEW f, NEW id, a # f, b # f
  PROVE  Fill(<<a, b, f>>, f, id) = <<a, b, id>>
BY DEF Fill

LEMMA FillFour ==
  ASSUME NEW a, NEW b, NEW c, NEW f, NEW id, a # f, b # f, c # f
  PROVE  Fill(<<a, b, f, c>>, f, id) = <<a, b, id, c>>
BY DEF Fill

LEMMA ProfilePathIs ==
  ASSUME NEW p
  PROVE  /\ ProfilePath("profileGet", p) = <<"admin", "profiles", p>>
         /\ ProfilePath("profilePut", p) = <<"admin", "profiles", p>>
         /\ ProfilePath("profileDelete", p) = <<"admin", "profiles", p>>
<1>1. /\ Path("profileGet") = <<"admin", "profiles", "profile_id">>
      /\ Path("profilePut") = <<"admin", "profiles", "profile_id">>
      /\ Path("profileDelete") = <<"admin", "profiles", "profile_id">>
  BY DEF Path, ENDPOINTS, Endpoint
<1>2. Fill(<<"admin", "profiles", "profile_id">>, "profile_id", p)
        = <<"admin", "profiles", p>>
  BY FillThree
<1> QED
  BY <1>1, <1>2 DEF ProfilePath

LEMMA UserPathIs ==
  ASSUME NEW u
  PROVE  /\ UserPath("userGet", u) = <<"admin", "users", u>>
         /\ UserPath("userUpdate", u) = <<"admin", "users", u>>
         /\ UserPath("userDelete", u) = <<"admin", "users", u>>
<1>1. /\ Path("userGet") = <<"admin", "users", "user_id">>
      /\ Path("userUpdate") = <<"admin", "users", "user_id">>
      /\ Path("userDelete") = <<"admin", "users", "user_id">>
  BY DEF Path, ENDPOINTS, Endpoint
<1>2. Fill(<<"admin", "users", "user_id">>, "user_id", u) = <<"admin", "users", u>>
  BY FillThree
<1> QED
  BY <1>1, <1>2 DEF UserPath

LEMMA GroupPathIs ==
  ASSUME NEW g
  PROVE  /\ GroupPath("groupGet", g) = <<"admin", "groups", g>>
         /\ GroupPath("groupUpdate", g) = <<"admin", "groups", g>>
         /\ GroupPath("groupDelete", g) = <<"admin", "groups", g>>
         /\ GroupPath("groupAddMember", g) = <<"admin", "groups", g, "members">>
<1>1. /\ Path("groupGet") = <<"admin", "groups", "group_id">>
      /\ Path("groupUpdate") = <<"admin", "groups", "group_id">>
      /\ Path("groupDelete") = <<"admin", "groups", "group_id">>
      /\ Path("groupAddMember") = <<"admin", "groups", "group_id", "members">>
  BY DEF Path, ENDPOINTS, Endpoint
<1>2. Fill(<<"admin", "groups", "group_id">>, "group_id", g) = <<"admin", "groups", g>>
  BY FillThree
<1>3. Fill(<<"admin", "groups", "group_id", "members">>, "group_id", g)
        = <<"admin", "groups", g, "members">>
  BY FillFour
<1> QED
  BY <1>1, <1>2, <1>3 DEF GroupPath

LEMMA GroupFilled ==
  ASSUME NEW g
  PROVE  Fill(<<"admin", "groups", "group_id", "members", "user_id">>, "group_id", g)
           = <<"admin", "groups", g, "members", "user_id">>
<1> DEFINE a == "admin"
           b == "groups"
           c == "members"
           f == "group_id"
           d == "user_id"
<1>1. a # f /\ b # f /\ c # f /\ d # f
  OBVIOUS
<1> HIDE DEF a, b, c, d, f
<1>2. Fill(<<a, b, f, c, d>>, f, g) = <<a, b, g, c, d>>
  BY <1>1 DEF Fill
<1> QED
  BY <1>2 DEF a, b, c, d, f

LEMMA MemberPathIs ==
  ASSUME NEW g, NEW u, NEW q, q = Fill(GroupPath("groupRemoveMember", g), "user_id", u)
  PROVE  Len(q) = 5 /\ q[1] = "admin" /\ q[2] = "groups" /\ q[4] = "members"
<1>1. Path("groupRemoveMember")
        = <<"admin", "groups", "group_id", "members", "user_id">>
  BY DEF Path, ENDPOINTS, Endpoint
<1> DEFINE p == <<"admin", "groups", g, "members", "user_id">>
<1>2. GroupPath("groupRemoveMember", g) = p
  BY <1>1, GroupFilled DEF GroupPath
<1>3. /\ DOMAIN p = 1..5 /\ p[1] = "admin" /\ p[2] = "groups" /\ p[4] = "members"
      /\ "admin" # "user_id" /\ "groups" # "user_id" /\ "members" # "user_id"
  OBVIOUS
<1> HIDE DEF p
<1>4. q = Fill(p, "user_id", u)
  BY <1>2
<1> QED
  BY <1>3, <1>4 DEF Fill

LEMMA KeyPathIs ==
  ASSUME NEW k
  PROVE  ApiKeyPath("apiKeyDelete", k) = <<"admin", "api-keys", k>>
<1>1. Path("apiKeyDelete") = <<"admin", "api-keys", "api_key_id">>
  BY DEF Path, ENDPOINTS, Endpoint
<1>2. Fill(<<"admin", "api-keys", "api_key_id">>, "api_key_id", k)
        = <<"admin", "api-keys", k>>
  BY FillThree
<1> QED
  BY <1>1, <1>2 DEF ApiKeyPath

-----------------------------------------------------------------------------
(* The routes.                                                             *)

LEMMA AskedIs ==
  ASSUME NEW s, NEW r
  PROVE  Asked(s, r).scope = s /\ Asked(s, r).request = r
BY DEF Asked

LEMMA RequestIs ==
  ASSUME NEW m, NEW p, NEW b
  PROVE  /\ Request(m, p, b).method = m /\ Request(m, p, b).path = p
         /\ Request(m, p, b).body = b
BY DEF Request

LEMMA FitsTwo ==
  ASSUME NEW a, NEW b, NEW x, NEW y, x # "*", y # "*"
  PROVE  Fits(<<a, b>>, <<x, y>>) <=> a = x /\ b = y
BY DEF Fits

LEMMA FitsThree ==
  ASSUME NEW a, NEW b, NEW c, NEW x, NEW y, x # "*", y # "*"
  PROVE  Fits(<<a, b, c>>, <<x, y, "*">>) <=> a = x /\ b = y /\ c # Blank
BY DEF Fits

LEMMA FitsLength ==
  ASSUME NEW p, NEW q, Len(p) # Len(q)
  PROVE  ~Fits(p, q)
BY DEF Fits

\* How paths of two to five segments arrive.
LEMMA ArrivesTwo ==
  ASSUME NEW a, NEW b
  PROVE  Arrives(<<a, b>>) = <<a, b>>
BY DEF Arrives

LEMMA ArrivesThree ==
  ASSUME NEW a, NEW b, NEW x
  PROVE  Arrives(<<a, b, x>>) = AtEnd(a, b, x)
<1> DEFINE p == <<a, b, x>>
<1>1. Len(p) = 3 /\ p[1] = a /\ p[2] = b /\ p[3] = x
  OBVIOUS
<1> HIDE DEF p
<1>2. Arrives(p) = AtEnd(a, b, x)
  BY <1>1 DEF Arrives
<1> QED
  BY <1>2 DEF p

LEMMA ArrivesFour ==
  ASSUME NEW a, NEW b, NEW x, NEW c
  PROVE  Arrives(<<a, b, x, c>>) = Before(a, b, x, c)
<1> DEFINE p == <<a, b, x, c>>
<1>1. Len(p) = 4 /\ p[1] = a /\ p[2] = b /\ p[3] = x /\ p[4] = c
  OBVIOUS
<1> HIDE DEF p
<1>2. Arrives(p) = Before(a, b, x, c)
  BY <1>1 DEF Arrives
<1> QED
  BY <1>2 DEF p

LEMMA ArrivesFive ==
  ASSUME NEW p, Len(p) = 5
  PROVE  \/ Arrives(p) = AtEnd(p[1], p[2], p[3])
         \/ Arrives(p) = Before(p[1], p[2], p[3], p[4])
         \/ Arrives(p) = BeforeTwo(p[1], p[2], p[3], p[4], p[5])
<1>1. CASE p[5] = ".."
  BY <1>1 DEF Arrives
<1>2. CASE p[5] # ".." /\ p[5] \in {".", Blank}
  BY <1>2 DEF Arrives
<1>3. CASE p[5] \notin {".", "..", Blank}
  BY <1>3 DEF Arrives
<1> QED
  BY <1>1, <1>2, <1>3

\* The ids that stay where they are.
Dots == {".", "..", Blank}

LEMMA AtEndIs ==
  ASSUME NEW a, NEW b, NEW x
  PROVE  /\ x \notin Dots => AtEnd(a, b, x) = <<a, b, x>>
         /\ x \in Dots => Len(AtEnd(a, b, x)) # 3
         /\ AtEnd(a, b, x) = <<a, b, x>> \/ Len(AtEnd(a, b, x)) # 3
<1>1. Len(<<a, b>>) = 2 /\ Len(<<a>>) = 1
  OBVIOUS
<1> QED
  BY <1>1 DEF AtEnd, Dots

-----------------------------------------------------------------------------
(* The requests that take something away, and those that do not.           *)

Deletes(r) == DeletesProfile(r) \/ DeletesUser(r) \/ DeletesGroup(r) \/ RevokesKey(r)

Rewriters ==
    {"mail_set_seen", "mail_move_duplicates_since_last_search", "mail_move_messages",
     "mail_delete_messages"}
Rewrites(r) == \E t \in Rewriters : CallsTool(r, t)

LEMMA TakesNothing ==
  ASSUME NEW r, ~Deletes(r), ~Rewrites(r)
  PROVE  Takes(r) = Nothing
BY DEF Takes, Deletes, Rewrites, Rewriters

LEMMA NoDeletion ==
  ASSUME NEW r, r.method # "DELETE" \/ Len(Arrives(r.path)) # 3
  PROVE  ~Deletes(r)
BY FitsLength DEF Deletes, DeletesProfile, DeletesUser, DeletesGroup, RevokesKey, Routed

LEMMA NoRewriting ==
  ASSUME NEW r, r.method # "POST" \/ Len(Arrives(r.path)) # 2
  PROVE  ~Rewrites(r)
BY FitsLength DEF Rewrites, CallsTool, Routed

LEMMA DeletesIs ==
  ASSUME NEW r, NEW c, NEW x, r.method = "DELETE", r.path = <<"admin", c, x>>
  PROVE  /\ DeletesProfile(r) <=> c = "profiles" /\ x \notin Dots
         /\ DeletesUser(r) <=> c = "users" /\ x \notin Dots
         /\ DeletesGroup(r) <=> c = "groups" /\ x \notin Dots
         /\ RevokesKey(r) <=> c = "api-keys" /\ x \notin Dots
         /\ ~Rewrites(r)
         /\ x \notin Dots => Named(r, 3) = x
<1>1. Arrives(r.path) = AtEnd("admin", c, x)
  BY ArrivesThree
<1>2. CASE x \in Dots
  BY <1>1, <1>2, AtEndIs, NoDeletion, NoRewriting DEF Deletes
<1>3. CASE x \notin Dots
  <2>1. Arrives(r.path) = <<"admin", c, x>> /\ x # Blank
    BY <1>1, <1>3, AtEndIs DEF Dots
  <2>2. /\ DeletesProfile(r) <=> c = "profiles"
        /\ DeletesUser(r) <=> c = "users"
        /\ DeletesGroup(r) <=> c = "groups"
        /\ RevokesKey(r) <=> c = "api-keys"
    BY <2>1, FitsThree DEF DeletesProfile, DeletesUser, DeletesGroup, RevokesKey, Routed
  <2>3. Named(r, 3) = x
    BY <2>1 DEF Named
  <2> QED
    BY <1>3, <2>2, <2>3, NoRewriting
<1> QED
  BY <1>2, <1>3

LEMMA CallsIs ==
  ASSUME NEW r, NEW t, NEW u, r.method = "POST", r.path = <<"tools", t>>, u # "*"
  PROVE  CallsTool(r, u) <=> t = u
BY FitsTwo, ArrivesTwo DEF Routed, CallsTool

LEMMA OtherArrival ==
  ASSUME NEW r, NEW a, NEW t, Arrives(r.path) = <<a, t>>, a # "tools" \/ t \notin Rewriters
  PROVE  ~Rewrites(r)
BY FitsTwo DEF Rewrites, Rewriters, CallsTool, Routed

LEMMA OtherCall ==
  ASSUME NEW r, NEW a, NEW t, r.path = <<a, t>>, a # "tools" \/ t \notin Rewriters
  PROVE  ~Rewrites(r)
BY OtherArrival, ArrivesTwo

LEMMA AtEndArrival ==
  ASSUME NEW b, NEW x
  PROVE  Len(AtEnd("admin", b, x)) # 2 \/ AtEnd("admin", b, x) = <<"admin", b>>
<1>1. Len(<<"admin", b, x>>) = 3 /\ Len(<<"admin">>) = 1
  OBVIOUS
<1> QED
  BY <1>1 DEF AtEnd

\* A path of four segments that arrives with three ends as it did.
LEMMA BeforeIs ==
  ASSUME NEW r, NEW x, r.path = <<"admin", "groups", x, "members">>
  PROVE  Len(Arrives(r.path)) # 2 \/ Arrives(r.path) = <<"admin", "members">>
<1>1. Arrives(r.path) = Before("admin", "groups", x, "members")
  BY ArrivesFour
<1>2. /\ Len(<<"admin", "groups", "members">>) = 3
      /\ Len(<<"admin", "groups", x, "members">>) = 4
  OBVIOUS
<1> QED
  BY <1>1, <1>2 DEF Before

LEMMA RoutedDeletion ==
  ASSUME NEW r, NEW c, c # "*", Routed(r, "DELETE", <<"admin", c, "*">>)
  PROVE  /\ r.method = "DELETE" /\ Len(Arrives(r.path)) = 3
         /\ Arrives(r.path)[2] = c /\ Arrives(r.path)[3] # Blank
BY DEF Routed, Fits

\* The path of a member may arrive as that of a group, but of nothing else.
LEMMA MemberArrives ==
  ASSUME NEW p, Len(p) = 5, p[1] = "admin", p[2] = "groups", p[4] = "members",
         Len(Arrives(p)) = 3
  PROVE  Arrives(p)[2] \in {"groups", "members"}
<1> DEFINE x == p[3]
           y == p[5]
<1>1. CASE Arrives(p) = AtEnd("admin", "groups", x)
  <2>1. Arrives(p) = <<"admin", "groups", x>>
    BY <1>1, AtEndIs
  <2> QED
    BY <2>1
<1>2. CASE Arrives(p) = Before("admin", "groups", x, "members")
  <2>1. Len(<<"admin", "members">>) = 2 /\ Len(<<"admin", "groups", x, "members">>) = 4
    OBVIOUS
  <2>2. Arrives(p) = <<"admin", "groups", "members">>
    BY <1>2, <2>1 DEF Before
  <2> QED
    BY <2>2
<1>3. CASE Arrives(p) = BeforeTwo("admin", "groups", x, "members", y)
  <2>1. /\ Len(<<"admin", "groups", "members", y>>) = 4
        /\ Len(<<"admin", "groups", x, "members", y>>) = 5
    OBVIOUS
  <2>2. Arrives(p) = <<"admin", "members", y>>
    BY <1>3, <2>1 DEF BeforeTwo
  <2> QED
    BY <2>2
<1> QED
  BY <1>1, <1>2, <1>3, ArrivesFive

LEMMA MemberIsStray ==
  ASSUME NEW r \in GroupRemoveMember, Takes(r) # Nothing
  PROVE  Stray(r)
<1>1. r.method = "DELETE" /\ Len(r.path) = 5 /\ r.path[1] = "admin"
      /\ r.path[2] = "groups" /\ r.path[4] = "members"
  BY MemberPathIs DEF GroupRemoveMember, Request
<1>2. Deletes(r)
  BY <1>1, NoRewriting, TakesNothing
<1>3. ~DeletesProfile(r) /\ ~DeletesUser(r) /\ ~RevokesKey(r)
  BY <1>1, RoutedDeletion, MemberArrives DEF DeletesProfile, DeletesUser, RevokesKey
<1> QED
  BY <1>1, <1>2, <1>3 DEF Deletes, Stray

LEMMA PlainTakes ==
  ASSUME NEW r \in Plain, Takes(r) # Nothing
  PROVE  Stray(r)
<1>1. CASE r \in SystemReads \cup ProfileGet \cup UserReads \cup GroupReads
                  \cup {Get("apiKeyList"), Get("audit"), Get("a2aTools"), Get("rbacGet")}
  <2>1. r.method = "GET"
    BY <1>1 DEF SystemReads, ProfileGet, UserReads, GroupReads, Get, Request
  <2> QED
    BY <2>1, NoDeletion, NoRewriting, TakesNothing
<1>2. CASE r \in ProfilePut \cup UserUpdate \cup GroupUpdate
                  \cup {Request("PUT", Path("rbacPut"), NoBody)}
  <2>1. r.method = "PUT"
    BY <1>2 DEF ProfilePut, UserUpdate, GroupUpdate, Request
  <2> QED
    BY <2>1, NoDeletion, NoRewriting, TakesNothing
<1>3. CASE r \in GroupRemoveMember
  BY <1>3, MemberIsStray
<1>4. CASE r \in GroupAddMember
  <2>1. r.method = "POST" /\ \E x : r.path = <<"admin", "groups", x, "members">>
    BY <1>4, GroupPathIs DEF GroupAddMember, Request
  <2>2. ~Rewrites(r)
    BY <2>1, BeforeIs, OtherArrival, NoRewriting
  <2> QED
    BY <2>1, <2>2, NoDeletion, TakesNothing
<1>5. CASE r \in ArchiveExport
  <2> \E b : r = Post("archiveExport", b)
    BY <1>5 DEF ArchiveExport
  <2> Path("archiveExport") = <<"admin", "archive", "export">>
    BY DEF Path, ENDPOINTS, Endpoint
  <2>1. r.method = "POST" /\ r.path = <<"admin", "archive", "export">>
    BY RequestIs DEF Post
  <2>2. Arrives(r.path) = AtEnd("admin", "archive", "export")
    BY <2>1, ArrivesThree
  <2>3. ~Rewrites(r)
    BY <2>2, AtEndArrival, NoRewriting, OtherArrival
  <2> QED
    BY <2>1, <2>3, NoDeletion, TakesNothing
<1>6. CASE r \in UserCreate \cup GroupCreate \cup (ApiKeyCreate \ {Get("apiKeyList")})
  <2>1. r.method = "POST" /\ \E c : r.path = <<"admin", c>>
    BY <1>6 DEF UserCreate, GroupCreate, ApiKeyCreate, Post, Request, Path, ENDPOINTS, Endpoint
  <2> QED
    BY <2>1, NoDeletion, OtherCall, TakesNothing
<1>7. CASE r \in MailReads \cup {Post("probe", NoBody)}
  <2>1. r.method = "POST" /\ \E t : t \notin Rewriters /\ r.path = <<"tools", t>>
    BY <1>7 DEF MailReads, Post, Request, Path, ENDPOINTS, Endpoint, Tool, Rewriters
  <2> QED
    BY <2>1, NoDeletion, OtherCall, TakesNothing
<1> QED
  BY <1>1, <1>2, <1>3, <1>4, <1>5, <1>6, <1>7
     DEF Plain, Policies, Observation, ApiKeyCreate

-----------------------------------------------------------------------------
(* What a confirmed prompt shows agrees with what its request takes away.  *)

\* A scope that was confirmed, and what its request takes away.
Agrees(scope, taken) == scope = taken \/ FolderNotSent(scope, taken)

LEMMA TakesProfile ==
  ASSUME NEW r, DeletesProfile(r), ~DeletesUser(r), ~DeletesGroup(r), ~RevokesKey(r),
         ~Rewrites(r)
  PROVE  Takes(r) = Deletion("delete_profile", Named(r, 3))
BY DEF Takes, Rewrites, Rewriters

LEMMA ProfileDeleteAgrees ==
  ASSUME NEW a \in ProfileDelete, Takes(a.request) # Nothing
  PROVE  Agrees(a.scope, Takes(a.request))
<1> DEFINE r == a.request
<1>1. PICK p \in PathField(Profile) :
         a = Asked(Deletion("delete_profile", p),
                   Request("DELETE", ProfilePath("profileDelete", p), NoBody))
  BY DEF ProfileDelete
<1>2. a.scope = Deletion("delete_profile", p)
      /\ r = Request("DELETE", ProfilePath("profileDelete", p), NoBody)
  BY <1>1, AskedIs
<1>3. r.method = "DELETE" /\ r.path = <<"admin", "profiles", p>>
  BY <1>2, ProfilePathIs, RequestIs
<1>4. DeletesProfile(r) /\ ~DeletesUser(r) /\ ~DeletesGroup(r) /\ ~RevokesKey(r)
      /\ ~Rewrites(r) /\ p \notin Dots
  BY <1>3, DeletesIs, TakesNothing DEF Deletes
<1>5. Named(r, 3) = p
  BY <1>3, <1>4, DeletesIs
<1>6. Takes(r) = Deletion("delete_profile", p)
  BY <1>4, <1>5, TakesProfile
<1> QED
  BY <1>2, <1>4, <1>6 DEF Agrees

LEMMA TakesUser ==
  ASSUME NEW r, DeletesUser(r), ~DeletesProfile(r), ~DeletesGroup(r), ~RevokesKey(r),
         ~Rewrites(r)
  PROVE  Takes(r) = Deletion("delete_user", Named(r, 3))
BY DEF Takes, Rewrites, Rewriters

LEMMA UserDeleteAgrees ==
  ASSUME NEW a \in UserDelete, Takes(a.request) # Nothing
  PROVE  Agrees(a.scope, Takes(a.request))
<1> DEFINE r == a.request
<1>1. PICK u \in PathField(User), n \in Name :
         a = Asked(Deletion("delete_user", Or(u, n)),
                   Request("DELETE", UserPath("userDelete", u), NoBody))
  BY DEF UserDelete
<1>2. a.scope = Deletion("delete_user", Or(u, n))
      /\ r = Request("DELETE", UserPath("userDelete", u), NoBody)
  BY <1>1, AskedIs
<1>3. r.method = "DELETE" /\ r.path = <<"admin", "users", u>>
  BY <1>2, UserPathIs, RequestIs
<1>4. DeletesUser(r) /\ ~DeletesProfile(r) /\ ~DeletesGroup(r) /\ ~RevokesKey(r)
      /\ ~Rewrites(r) /\ u \notin Dots
  BY <1>3, DeletesIs, TakesNothing DEF Deletes
<1>5. Named(r, 3) = u
  BY <1>3, <1>4, DeletesIs
<1>6. Takes(r) = Deletion("delete_user", u)
  BY <1>4, <1>5, TakesUser
<1> QED
  BY <1>2, <1>4, <1>6 DEF Agrees, Or, Dots

LEMMA TakesGroup ==
  ASSUME NEW r, DeletesGroup(r), ~DeletesProfile(r), ~DeletesUser(r), ~RevokesKey(r),
         ~Rewrites(r)
  PROVE  Takes(r) = Deletion("delete_group", Named(r, 3))
BY DEF Takes, Rewrites, Rewriters

LEMMA GroupDeleteAgrees ==
  ASSUME NEW a \in GroupDelete, Takes(a.request) # Nothing
  PROVE  Agrees(a.scope, Takes(a.request))
<1> DEFINE r == a.request
<1>1. PICK g \in PathField(Group), n \in Name :
         a = Asked(Deletion("delete_group", Or(g, n)),
                   Request("DELETE", GroupPath("groupDelete", g), NoBody))
  BY DEF GroupDelete
<1>2. a.scope = Deletion("delete_group", Or(g, n))
      /\ r = Request("DELETE", GroupPath("groupDelete", g), NoBody)
  BY <1>1, AskedIs
<1>3. r.method = "DELETE" /\ r.path = <<"admin", "groups", g>>
  BY <1>2, GroupPathIs, RequestIs
<1>4. DeletesGroup(r) /\ ~DeletesProfile(r) /\ ~DeletesUser(r) /\ ~RevokesKey(r)
      /\ ~Rewrites(r) /\ g \notin Dots
  BY <1>3, DeletesIs, TakesNothing DEF Deletes
<1>5. Named(r, 3) = g
  BY <1>3, <1>4, DeletesIs
<1>6. Takes(r) = Deletion("delete_group", g)
  BY <1>4, <1>5, TakesGroup
<1> QED
  BY <1>2, <1>4, <1>6 DEF Agrees, Or, Dots

LEMMA TakesKey ==
  ASSUME NEW r, RevokesKey(r), ~DeletesProfile(r), ~DeletesUser(r), ~DeletesGroup(r),
         ~Rewrites(r)
  PROVE  Takes(r) = Deletion("revoke_api_key", Named(r, 3))
BY DEF Takes, Rewrites, Rewriters

LEMMA ApiKeyRevokeAgrees ==
  ASSUME NEW a \in ApiKeyRevoke, Takes(a.request) # Nothing
  PROVE  Agrees(a.scope, Takes(a.request))
<1> DEFINE r == a.request
<1>1. PICK k \in PathField(Key) :
         a = Asked(Deletion("revoke_api_key", k),
                   Request("DELETE", ApiKeyPath("apiKeyDelete", k), NoBody))
  BY DEF ApiKeyRevoke
<1>2. a.scope = Deletion("revoke_api_key", k)
      /\ r = Request("DELETE", ApiKeyPath("apiKeyDelete", k), NoBody)
  BY <1>1, AskedIs
<1>3. r.method = "DELETE" /\ r.path = <<"admin", "api-keys", k>>
  BY <1>2, KeyPathIs, RequestIs
<1>4. RevokesKey(r) /\ ~DeletesProfile(r) /\ ~DeletesUser(r) /\ ~DeletesGroup(r)
      /\ ~Rewrites(r) /\ k \notin Dots
  BY <1>3, DeletesIs, TakesNothing DEF Deletes
<1>5. Named(r, 3) = k
  BY <1>3, <1>4, DeletesIs
<1>6. Takes(r) = Deletion("revoke_api_key", k)
  BY <1>4, <1>5, TakesKey
<1> QED
  BY <1>2, <1>4, <1>6 DEF Agrees

LEMMA TakesRewritten ==
  ASSUME NEW r, NEW t \in Rewriters, ~Deletes(r), CallsTool(r, t),
         \A u \in Rewriters \ {t} : ~CallsTool(r, u)
  PROVE  /\ t = "mail_set_seen" => Takes(r) =
               OnMail("set_seen", r.body.profile, r.body.folder, Blank, r.body.uids)
         /\ t = "mail_move_duplicates_since_last_search" => Takes(r) =
               OnMail("move_duplicates", r.body.profile, Inbox, r.body.destination, {})
         /\ t = "mail_move_messages" => Takes(r) =
               OnMail("move_messages", r.body.profile, r.body.folder, r.body.destination,
                      r.body.uids)
         /\ t = "mail_delete_messages" => Takes(r) =
               OnMail("delete_messages", r.body.profile, r.body.folder, Blank, r.body.uids)
BY DEF Takes, Deletes, Rewriters

LEMMA CallTakes ==
  ASSUME NEW r, NEW t \in Rewriters, r.method = "POST", r.path = <<"tools", t>>
  PROVE  /\ ~Deletes(r) /\ CallsTool(r, t) /\ \A u \in Rewriters \ {t} : ~CallsTool(r, u)
<1>1. ~Deletes(r)
  BY NoDeletion
<1>2. \A u \in Rewriters : u # "*"
  BY DEF Rewriters
<1> QED
  BY <1>1, <1>2, CallsIs

LEMMA SetSeenAgrees ==
  ASSUME NEW a \in SetSeen
  PROVE  Agrees(a.scope, Takes(a.request))
<1> DEFINE r == a.request
<1>1. PICK p \in Field(Profile), f \in Field(Folder), U \in SUBSET Uid :
         a = SeenPrompt(p, f, U)
  BY DEF SetSeen
<1> DEFINE b == [profile |-> Or(p, Operations), folder |-> Or(f, Inbox), uids |-> U]
<1>2. a.scope = OnMail("set_seen", Or(p, Operations), Or(f, Inbox), Blank, U)
      /\ r = Post("setSeen", b)
  BY <1>1, AskedIs DEF SeenPrompt
<1>3. Path("setSeen") = <<"tools", "mail_set_seen">>
  BY DEF Path, ENDPOINTS, Endpoint, Tool
<1>4. /\ r.method = "POST" /\ r.body = b
      /\ r.path = <<"tools", "mail_set_seen">>
  BY <1>2, <1>3, RequestIs DEF Post
<1>5. "mail_set_seen" \in Rewriters
  BY DEF Rewriters
<1>6. /\ ~Deletes(r) /\ CallsTool(r, "mail_set_seen")
      /\ \A u \in Rewriters \ {"mail_set_seen"} : ~CallsTool(r, u)
  BY <1>4, <1>5, CallTakes
<1>7. Takes(r) = OnMail("set_seen", b.profile, b.folder, Blank, b.uids)
  BY <1>4, <1>5, <1>6, TakesRewritten
<1> QED
  BY <1>2, <1>7 DEF Agrees

LEMMA MoveDuplicatesAgrees ==
  ASSUME NEW a \in MoveDuplicates
  PROVE  Agrees(a.scope, Takes(a.request))
<1> DEFINE r == a.request
<1>1. PICK p \in Field(Profile), f \in Field(Folder), d \in Field(Folder) :
         a = DuplicatesPrompt(p, f, d)
  BY DEF MoveDuplicates
<1> DEFINE b == [profile |-> Or(p, Operations), destination |-> d]
<1>2. a.scope = OnMail("move_duplicates", Or(p, Operations), Or(f, Inbox), d, {})
      /\ r = Post("moveDuplicates", b)
  BY <1>1, AskedIs DEF DuplicatesPrompt
<1>3. Path("moveDuplicates") = <<"tools", "mail_move_duplicates_since_last_search">>
  BY DEF Path, ENDPOINTS, Endpoint, Tool
<1>4. /\ r.method = "POST" /\ r.body = b
      /\ r.path = <<"tools", "mail_move_duplicates_since_last_search">>
  BY <1>2, <1>3, RequestIs DEF Post
<1>5. "mail_move_duplicates_since_last_search" \in Rewriters
  BY DEF Rewriters
<1>6. /\ ~Deletes(r) /\ CallsTool(r, "mail_move_duplicates_since_last_search")
      /\ \A u \in Rewriters \ {"mail_move_duplicates_since_last_search"} : ~CallsTool(r, u)
  BY <1>4, <1>5, CallTakes
<1>7. Takes(r) = OnMail("move_duplicates", b.profile, Inbox, b.destination, {})
  BY <1>4, <1>5, <1>6, TakesRewritten
<1> QED
  BY <1>2, <1>7 DEF Agrees, FolderNotSent, OnMail

LEMMA MoveMessagesAgrees ==
  ASSUME NEW a \in MoveMessages
  PROVE  Agrees(a.scope, Takes(a.request))
<1> DEFINE r == a.request
<1>1. PICK p \in Field(Profile), f, d \in Field(Folder), U \in SUBSET Uid :
         a = MovePrompt(p, f, d, U)
  BY DEF MoveMessages
<1> DEFINE b == [profile |-> Or(p, Operations), folder |-> Or(f, Inbox),
                     destination |-> d, uids |-> U]
<1>2. a.scope = OnMail("move_messages", Or(p, Operations), Or(f, Inbox), d, U)
      /\ r = Post("moveMessages", b)
  BY <1>1, AskedIs DEF MovePrompt
<1>3. Path("moveMessages") = <<"tools", "mail_move_messages">>
  BY DEF Path, ENDPOINTS, Endpoint, Tool
<1>4. /\ r.method = "POST" /\ r.body = b
      /\ r.path = <<"tools", "mail_move_messages">>
  BY <1>2, <1>3, RequestIs DEF Post
<1>5. "mail_move_messages" \in Rewriters
  BY DEF Rewriters
<1>6. /\ ~Deletes(r) /\ CallsTool(r, "mail_move_messages")
      /\ \A u \in Rewriters \ {"mail_move_messages"} : ~CallsTool(r, u)
  BY <1>4, <1>5, CallTakes
<1>7. Takes(r) = OnMail("move_messages", b.profile, b.folder, b.destination,
                          b.uids)
  BY <1>4, <1>5, <1>6, TakesRewritten
<1> QED
  BY <1>2, <1>7 DEF Agrees

LEMMA DeleteMessagesAgrees ==
  ASSUME NEW a \in DeleteMessages
  PROVE  Agrees(a.scope, Takes(a.request))
<1> DEFINE r == a.request
<1>1. PICK p \in Field(Profile), f \in Field(Folder), U \in SUBSET Uid :
         a = DeletePrompt(p, f, U)
  BY DEF DeleteMessages
<1> DEFINE b == [profile |-> Or(p, Operations), folder |-> Or(f, Inbox), uids |-> U]
<1>2. a.scope = OnMail("delete_messages", Or(p, Operations), Or(f, Inbox), Blank, U)
      /\ r = Post("deleteMessages", b)
  BY <1>1, AskedIs DEF DeletePrompt
<1>3. Path("deleteMessages") = <<"tools", "mail_delete_messages">>
  BY DEF Path, ENDPOINTS, Endpoint, Tool
<1>4. /\ r.method = "POST" /\ r.body = b
      /\ r.path = <<"tools", "mail_delete_messages">>
  BY <1>2, <1>3, RequestIs DEF Post
<1>5. "mail_delete_messages" \in Rewriters
  BY DEF Rewriters
<1>6. /\ ~Deletes(r) /\ CallsTool(r, "mail_delete_messages")
      /\ \A u \in Rewriters \ {"mail_delete_messages"} : ~CallsTool(r, u)
  BY <1>4, <1>5, CallTakes
<1>7. Takes(r) = OnMail("delete_messages", b.profile, b.folder, Blank, b.uids)
  BY <1>4, <1>5, <1>6, TakesRewritten
<1> QED
  BY <1>2, <1>7 DEF Agrees

LEMMA PromptsAgree ==
  ASSUME NEW a \in Guarded, Takes(a.request) # Nothing
  PROVE  Agrees(a.scope, Takes(a.request))
BY ProfileDeleteAgrees, UserDeleteAgrees, GroupDeleteAgrees, ApiKeyRevokeAgrees,
   SetSeenAgrees, MoveDuplicatesAgrees, MoveMessagesAgrees, DeleteMessagesAgrees DEF Guarded

-----------------------------------------------------------------------------
(* What the server reads from a request is an identifier, a name or a set  *)
(* of members.                                                             *)

Typed(r) ==
    /\ Routed(r, "PUT", <<"admin", "profiles", "*">>) => Named(r, 3) \in Profile
    /\ Routed(r, "POST", <<"admin", "users">>) =>
          r.body.user \in Field(User) /\ r.body.name \in Name
    /\ Routed(r, "PUT", <<"admin", "users", "*">>) => r.body.name \in Name
    /\ Routed(r, "POST", <<"admin", "groups">>) =>
          r.body.group \in Field(Group) /\ r.body.name \in Name /\ r.body.members \subseteq User
    /\ Routed(r, "PUT", <<"admin", "groups", "*">>) => r.body.name \in Name
    /\ DeletesProfile(r) => Named(r, 3) \in Profile
    /\ RevokesKey(r) => Named(r, 3) \in Key

LEMMA TypedGet ==
  ASSUME NEW r, r.method = "GET" PROVE Typed(r)
BY DEF Typed, Routed, DeletesProfile, RevokesKey

\* A request to no route that reads an id, or a body.
LEMMA TypedElsewhere ==
  ASSUME NEW r, r.method # "POST" \/ Len(Arrives(r.path)) # 2, Len(Arrives(r.path)) # 3
  PROVE  Typed(r)
BY FitsLength DEF Typed, Routed, DeletesProfile, RevokesKey

LEMMA TypedArrival ==
  ASSUME NEW r, NEW a, NEW c, r.method = "POST", Arrives(r.path) = <<a, c>>,
         a = "admin" /\ c = "users" => r.body.user \in Field(User) /\ r.body.name \in Name,
         a = "admin" /\ c = "groups" =>
            r.body.group \in Field(Group) /\ r.body.name \in Name /\ r.body.members \subseteq User
  PROVE  Typed(r)
BY FitsTwo DEF Typed, Routed, DeletesProfile, RevokesKey

LEMMA TypedPost ==
  ASSUME NEW r, NEW a, NEW c, r.method = "POST", r.path = <<a, c>>,
         a = "admin" /\ c = "users" => r.body.user \in Field(User) /\ r.body.name \in Name,
         a = "admin" /\ c = "groups" =>
            r.body.group \in Field(Group) /\ r.body.name \in Name /\ r.body.members \subseteq User
  PROVE  Typed(r)
BY TypedArrival, ArrivesTwo

LEMMA TypedPostLength ==
  ASSUME NEW r, r.method = "POST", Len(Arrives(r.path)) # 2 PROVE Typed(r)
BY FitsLength DEF Typed, Routed, DeletesProfile, RevokesKey

LEMMA TypedPut ==
  ASSUME NEW r, NEW c, NEW x, r.method = "PUT", r.path = <<"admin", c, x>>,
         c = "profiles" /\ x \notin Dots => x \in Profile,
         c = "users" \/ c = "groups" => r.body.name \in Name
  PROVE  Typed(r)
<1>1. Arrives(r.path) = AtEnd("admin", c, x)
  BY ArrivesThree
<1>2. CASE x \in Dots
  BY <1>1, <1>2, AtEndIs, TypedElsewhere
<1>3. CASE x \notin Dots
  <2>1. Arrives(r.path) = <<"admin", c, x>>
    BY <1>1, <1>3, AtEndIs
  <2>2. Named(r, 3) = x
    BY <2>1 DEF Named
  <2> QED
    BY <1>3, <2>1, <2>2, FitsThree DEF Typed, Routed, DeletesProfile, RevokesKey
<1> QED
  BY <1>2, <1>3

LEMMA TypedDelete ==
  ASSUME NEW r, NEW c, NEW x, r.method = "DELETE", r.path = <<"admin", c, x>>,
         c = "profiles" /\ x \notin Dots => x \in Profile,
         c = "api-keys" /\ x \notin Dots => x \in Key
  PROVE  Typed(r)
BY DeletesIs DEF Typed, Routed

LEMMA TypedMember ==
  ASSUME NEW r \in GroupRemoveMember
  PROVE  Typed(r)
<1>1. r.method = "DELETE" /\ Len(r.path) = 5 /\ r.path[1] = "admin"
      /\ r.path[2] = "groups" /\ r.path[4] = "members"
  BY MemberPathIs DEF GroupRemoveMember, Request
<1>2. ~DeletesProfile(r) /\ ~RevokesKey(r)
  BY <1>1, RoutedDeletion, MemberArrives DEF DeletesProfile, RevokesKey
<1> QED
  BY <1>1, <1>2 DEF Typed, Routed

LEMMA PlainTyped ==
  ASSUME NEW r \in Plain
  PROVE  Typed(r)
<1>1. CASE r \in SystemReads \cup ProfileGet \cup UserReads \cup GroupReads
                  \cup {Get("apiKeyList"), Get("audit"), Get("a2aTools"), Get("rbacGet")}
  <2>1. r.method = "GET"
    BY <1>1 DEF SystemReads, ProfileGet, UserReads, GroupReads, Get, Request
  <2> QED
    BY <2>1, TypedGet
<1>2. CASE r \in ProfilePut
  <2>1. PICK p \in PathField(Profile) : r = Request("PUT", ProfilePath("profilePut", p), NoBody)
    BY <1>2 DEF ProfilePut
  <2>2. r.method = "PUT" /\ r.path = <<"admin", "profiles", p>>
    BY <2>1, ProfilePathIs, RequestIs
  <2> QED
    BY <2>2, TypedPut DEF Field, PathField, Dots
<1>3. CASE r \in UserUpdate
  <2>1. PICK u \in PathField(User), n \in Name :
           r = Request("PUT", UserPath("userUpdate", u), [name |-> n])
    BY <1>3 DEF UserUpdate
  <2>2. r.method = "PUT" /\ r.path = <<"admin", "users", u>> /\ r.body.name = n
    BY <2>1, UserPathIs, RequestIs
  <2> QED
    BY <2>2, TypedPut
<1>4. CASE r \in GroupUpdate
  <2>1. PICK g \in PathField(Group), n \in Name :
           r = Request("PUT", GroupPath("groupUpdate", g), [name |-> n])
    BY <1>4 DEF GroupUpdate
  <2>2. r.method = "PUT" /\ r.path = <<"admin", "groups", g>> /\ r.body.name = n
    BY <2>1, GroupPathIs, RequestIs
  <2> QED
    BY <2>2, TypedPut
<1>5. CASE r = Request("PUT", Path("rbacPut"), NoBody)
  <2>1. r.method = "PUT" /\ r.path = <<"admin", "rbac", "policies">>
    BY <1>5, RequestIs DEF Path, ENDPOINTS, Endpoint
  <2> QED
    BY <2>1, TypedPut
<1>6. CASE r \in GroupRemoveMember
  BY <1>6, TypedMember
<1>7. CASE r \in GroupAddMember
  <2>1. r.method = "POST" /\ \E x : r.path = <<"admin", "groups", x, "members">>
    BY <1>7, GroupPathIs DEF GroupAddMember, Request
  <2> QED
    BY <2>1, BeforeIs, TypedArrival, TypedPostLength
<1>8. CASE r \in ArchiveExport
  <2> \E b : r = Post("archiveExport", b)
    BY <1>8 DEF ArchiveExport
  <2> Path("archiveExport") = <<"admin", "archive", "export">>
    BY DEF Path, ENDPOINTS, Endpoint
  <2>1. r.method = "POST" /\ r.path = <<"admin", "archive", "export">>
    BY RequestIs DEF Post
  <2>2. Arrives(r.path) = AtEnd("admin", "archive", "export")
    BY <2>1, ArrivesThree
  <2> QED
    BY <2>1, <2>2, AtEndArrival, TypedArrival, TypedPostLength
<1>9. CASE r \in UserCreate
  <2>1. PICK u \in Field(User), n \in Name : r = Post("userCreate", [user |-> u, name |-> n])
    BY <1>9 DEF UserCreate
  <2>2. Path("userCreate") = <<"admin", "users">>
    BY DEF Path, ENDPOINTS, Endpoint
  <2>3. /\ r.method = "POST" /\ r.path = <<"admin", "users">>
        /\ r.body = [user |-> u, name |-> n]
    BY <2>1, <2>2, RequestIs DEF Post
  <2> QED
    BY <2>3, TypedPost
<1>10. CASE r \in GroupCreate
  <2>1. PICK g \in Field(Group), n \in Name, M \in SUBSET User :
           r = Post("groupCreate", [group |-> g, name |-> n, members |-> M])
    BY <1>10 DEF GroupCreate
  <2>2. Path("groupCreate") = <<"admin", "groups">>
    BY DEF Path, ENDPOINTS, Endpoint
  <2>3. /\ r.method = "POST" /\ r.path = <<"admin", "groups">>
        /\ r.body = [group |-> g, name |-> n, members |-> M]
    BY <2>1, <2>2, RequestIs DEF Post
  <2> QED
    BY <2>3, TypedPost
<1>11. CASE r \in ApiKeyCreate \ {Get("apiKeyList")}
  <2>1. r.method = "POST" /\ r.path = <<"admin", "api-keys">>
    BY <1>11 DEF ApiKeyCreate, Post, Request, Path, ENDPOINTS, Endpoint
  <2> QED
    BY <2>1, TypedPost
<1>12. CASE r \in MailReads \cup {Post("probe", NoBody)}
  <2>1. r.method = "POST" /\ \E t : r.path = <<"tools", t>>
    BY <1>12 DEF MailReads, Post, Request, Path, ENDPOINTS, Endpoint, Tool
  <2> QED
    BY <2>1, TypedPost
<1> QED
  BY <1>1, <1>2, <1>3, <1>4, <1>5, <1>6, <1>7, <1>8, <1>9, <1>10, <1>11, <1>12
     DEF Plain, Policies, Observation, ApiKeyCreate

LEMMA GuardedTyped ==
  ASSUME NEW a \in Guarded
  PROVE  Typed(a.request)
<1> DEFINE r == a.request
<1>1. CASE a \in ProfileDelete
  <2>1. PICK p \in PathField(Profile) :
           a = Asked(Deletion("delete_profile", p),
                     Request("DELETE", ProfilePath("profileDelete", p), NoBody))
    BY <1>1 DEF ProfileDelete
  <2>2. r = Request("DELETE", ProfilePath("profileDelete", p), NoBody)
    BY <2>1, AskedIs
  <2>3. r.method = "DELETE" /\ r.path = <<"admin", "profiles", p>>
    BY <2>2, ProfilePathIs, RequestIs
  <2> QED
    BY <2>3, TypedDelete DEF Field, PathField, Dots
<1>2. CASE a \in UserDelete
  <2>1. PICK u \in PathField(User), n \in Name :
           a = Asked(Deletion("delete_user", Or(u, n)),
                     Request("DELETE", UserPath("userDelete", u), NoBody))
    BY <1>2 DEF UserDelete
  <2>2. r = Request("DELETE", UserPath("userDelete", u), NoBody)
    BY <2>1, AskedIs
  <2>3. r.method = "DELETE" /\ r.path = <<"admin", "users", u>>
    BY <2>2, UserPathIs, RequestIs
  <2> QED
    BY <2>3, TypedDelete
<1>3. CASE a \in GroupDelete
  <2>1. PICK g \in PathField(Group), n \in Name :
           a = Asked(Deletion("delete_group", Or(g, n)),
                     Request("DELETE", GroupPath("groupDelete", g), NoBody))
    BY <1>3 DEF GroupDelete
  <2>2. r = Request("DELETE", GroupPath("groupDelete", g), NoBody)
    BY <2>1, AskedIs
  <2>3. r.method = "DELETE" /\ r.path = <<"admin", "groups", g>>
    BY <2>2, GroupPathIs, RequestIs
  <2> QED
    BY <2>3, TypedDelete
<1>4. CASE a \in ApiKeyRevoke
  <2>1. PICK k \in PathField(Key) :
           a = Asked(Deletion("revoke_api_key", k),
                     Request("DELETE", ApiKeyPath("apiKeyDelete", k), NoBody))
    BY <1>4 DEF ApiKeyRevoke
  <2>2. r = Request("DELETE", ApiKeyPath("apiKeyDelete", k), NoBody)
    BY <2>1, AskedIs
  <2>3. r.method = "DELETE" /\ r.path = <<"admin", "api-keys", k>>
    BY <2>2, KeyPathIs, RequestIs
  <2> QED
    BY <2>3, TypedDelete DEF Field, PathField, Dots
<1>5. CASE a \in SetSeen
  <2>1. PICK p \in Field(Profile), f \in Field(Folder), U \in SUBSET Uid : a = SeenPrompt(p, f, U)
    BY <1>5 DEF SetSeen
  <2>2. \E b : r = Post("setSeen", b)
    BY <2>1, AskedIs DEF SeenPrompt
  <2>3. \E t : Path("setSeen") = <<"tools", t>>
    BY DEF Path, ENDPOINTS, Endpoint, Tool
  <2>4. r.method = "POST" /\ \E t : r.path = <<"tools", t>>
    BY <2>2, <2>3, RequestIs DEF Post
  <2> QED
    BY <2>4, TypedPost
<1>6. CASE a \in MoveDuplicates
  <2>1. PICK p \in Field(Profile), f \in Field(Folder), d \in Field(Folder) : a = DuplicatesPrompt(p, f, d)
    BY <1>6 DEF MoveDuplicates
  <2>2. \E b : r = Post("moveDuplicates", b)
    BY <2>1, AskedIs DEF DuplicatesPrompt
  <2>3. \E t : Path("moveDuplicates") = <<"tools", t>>
    BY DEF Path, ENDPOINTS, Endpoint, Tool
  <2>4. r.method = "POST" /\ \E t : r.path = <<"tools", t>>
    BY <2>2, <2>3, RequestIs DEF Post
  <2> QED
    BY <2>4, TypedPost
<1>7. CASE a \in MoveMessages
  <2>1. PICK p \in Field(Profile), f, d \in Field(Folder), U \in SUBSET Uid : a = MovePrompt(p, f, d, U)
    BY <1>7 DEF MoveMessages
  <2>2. \E b : r = Post("moveMessages", b)
    BY <2>1, AskedIs DEF MovePrompt
  <2>3. \E t : Path("moveMessages") = <<"tools", t>>
    BY DEF Path, ENDPOINTS, Endpoint, Tool
  <2>4. r.method = "POST" /\ \E t : r.path = <<"tools", t>>
    BY <2>2, <2>3, RequestIs DEF Post
  <2> QED
    BY <2>4, TypedPost
<1>8. CASE a \in DeleteMessages
  <2>1. PICK p \in Field(Profile), f \in Field(Folder), U \in SUBSET Uid : a = DeletePrompt(p, f, U)
    BY <1>8 DEF DeleteMessages
  <2>2. \E b : r = Post("deleteMessages", b)
    BY <2>1, AskedIs DEF DeletePrompt
  <2>3. \E t : Path("deleteMessages") = <<"tools", t>>
    BY DEF Path, ENDPOINTS, Endpoint, Tool
  <2>4. r.method = "POST" /\ \E t : r.path = <<"tools", t>>
    BY <2>2, <2>3, RequestIs DEF Post
  <2> QED
    BY <2>4, TypedPost
<1> QED
  BY <1>1, <1>2, <1>3, <1>4, <1>5, <1>6, <1>7, <1>8 DEF Guarded

-----------------------------------------------------------------------------
(* Sequences of lines.                                                     *)

\* s holds lines above lo, up to hi, in their order.
Sorted(s, lo, hi) ==
    /\ s \in Seq(Nat)
    /\ \A i \in DOMAIN s : s[i] \in (lo + 1)..hi
    /\ \A i, j \in DOMAIN s : i < j => s[i] < s[j]

\* ... and none of them is missing.
Complete(s, lo, hi) == Len(s) = hi - lo /\ \A i \in DOMAIN s : s[i] = lo + i

LEMMA SortedEmpty ==
  ASSUME NEW lo \in Nat
  PROVE  Sorted(<<>>, lo, lo) /\ Complete(<<>>, lo, lo)
BY DEF Sorted, Complete

LEMMA SortedLater ==
  ASSUME NEW s, NEW lo \in Nat, NEW hi \in Nat, Sorted(s, lo, hi)
  PROVE  Sorted(s, lo, hi + 1)
BY DEF Sorted

LEMMA SortedAppend ==
  ASSUME NEW w \in Seq(Nat), NEW q \in Seq(Nat), NEW lo \in Nat, NEW hi \in Nat, lo <= hi,
         Sorted(w \o q, lo, hi)
  PROVE  /\ Sorted(w \o Append(q, hi + 1), lo, hi + 1)
         /\ Complete(w \o q, lo, hi) => Complete(w \o Append(q, hi + 1), lo, hi + 1)
<1>1. w \o Append(q, hi + 1) = Append(w \o q, hi + 1)
  OBVIOUS
<1> DEFINE s == w \o q
<1>2. s \in Seq(Nat) /\ Sorted(s, lo, hi)
  OBVIOUS
<1> DEFINE t == Append(s, hi + 1)
<1> HIDE DEF s
<1>5. /\ t \in Seq(Nat) /\ Len(s) \in Nat /\ Len(t) = Len(s) + 1
      /\ DOMAIN s = 1..Len(s) /\ DOMAIN t = 1..(Len(s) + 1)
      /\ t[Len(s) + 1] = hi + 1 /\ \A i \in 1..Len(s) : t[i] = s[i]
  BY <1>2
<1> HIDE DEF t
<1>3. Sorted(t, lo, hi + 1)
  <2>1. /\ \A i \in 1..Len(s) : s[i] \in (lo + 1)..hi
        /\ \A i, j \in 1..Len(s) : i < j => s[i] < s[j]
    BY <1>2, <1>5 DEF Sorted
  <2>2. \A i \in DOMAIN t : i \in 1..Len(s) \/ i = Len(s) + 1
    BY <1>5
  <2>3. ASSUME NEW i \in DOMAIN t PROVE t[i] \in (lo + 1)..(hi + 1)
    <3>1. CASE i \in 1..Len(s)
      <4>1. s[i] \in (lo + 1)..hi /\ t[i] = s[i]
        BY <1>5, <2>1, <3>1
      <4> QED
        BY <4>1
    <3>2. CASE i = Len(s) + 1
      BY <1>5, <3>2
    <3> QED
      BY <2>2, <3>1, <3>2
  <2>4. ASSUME NEW i \in DOMAIN t, NEW j \in DOMAIN t, i < j
        PROVE  t[i] < t[j]
    <3>1. i \in 1..Len(s)
      BY <1>5, <2>4
    <3>2. CASE j \in 1..Len(s)
      BY <1>5, <2>1, <2>4, <3>1, <3>2
    <3>3. CASE j = Len(s) + 1
      BY <1>5, <2>1, <3>1, <3>3
    <3> QED
      BY <2>2, <3>2, <3>3
  <2> QED
    BY <1>5, <2>3, <2>4 DEF Sorted
<1>4. ASSUME Complete(s, lo, hi) PROVE Complete(t, lo, hi + 1)
  <2>1. Len(s) = hi - lo /\ \A i \in 1..Len(s) : s[i] = lo + i
    BY <1>4, <1>5 DEF Complete
  <2>2. ASSUME NEW i \in DOMAIN t PROVE t[i] = lo + i
    <3>1. CASE i \in 1..Len(s)
      BY <1>5, <2>1, <3>1
    <3>2. CASE i = Len(s) + 1
      BY <1>5, <2>1, <3>2
    <3> QED
      BY <1>5, <3>1, <3>2
  <2> QED
    BY <1>5, <2>1, <2>2 DEF Complete
<1> QED
  BY <1>1, <1>3, <1>4 DEF s, t

LEMMA SortedWithoutOldest ==
  ASSUME NEW w \in Seq(Nat), NEW q \in Seq(Nat), q # <<>>, NEW lo \in Nat, NEW hi \in Nat,
         Sorted(w \o q, lo, hi)
  PROVE  Sorted(w \o Tail(q), lo, hi)
<1> DEFINE s == w \o q
           t == w \o Tail(q)
<1>1. Len(s) = Len(w) + Len(q) /\ Len(t) = Len(w) + Len(q) - 1 /\ t \in Seq(Nat)
  OBVIOUS
<1>2. \A i \in 1..Len(t) : t[i] = s[IF i <= Len(w) THEN i ELSE i + 1]
  OBVIOUS
<1>3. Sorted(s, lo, hi) /\ s \in Seq(Nat) /\ Len(w) \in Nat /\ Len(q) \in Nat
  OBVIOUS
<1> HIDE DEF s, t
<1> DEFINE n == Len(s)
           k == Len(w)
           at(i) == IF i <= k THEN i ELSE i + 1
<1>4. /\ n \in Nat /\ k \in Nat /\ DOMAIN s = 1..n /\ DOMAIN t = 1..(n - 1)
      /\ \A i \in 1..(n - 1) : t[i] = s[at(i)]
  BY <1>1, <1>2, <1>3
<1>5. /\ \A i \in 1..n : s[i] \in (lo + 1)..hi
      /\ \A i, j \in 1..n : i < j => s[i] < s[j]
  BY <1>3, <1>4 DEF Sorted
<1> HIDE DEF n, k
<1>6. /\ \A i \in 1..(n - 1) : at(i) \in 1..n
      /\ \A i, j \in 1..(n - 1) : i < j => at(i) < at(j)
  BY <1>4
<1> HIDE DEF at
<1>7. Sorted(t, lo, hi)
  BY <1>1, <1>4, <1>5, <1>6 DEF Sorted
<1> QED
  BY <1>7 DEF t

LEMMA SortedPush ==
  ASSUME NEW w \in Seq(Nat), NEW q \in Seq(Nat), q # <<>>
  PROVE  Append(w, Head(q)) \o Tail(q) = w \o q
OBVIOUS

\* The page is shown the first line.
LEMMA SortedShown ==
  ASSUME NEW w \in Seq(Nat), NEW q \in Seq(Nat), w # <<>>, NEW lo \in Nat, NEW hi \in Nat,
         Sorted(w \o q, lo, hi)
  PROVE  /\ Sorted(Tail(w) \o q, Head(w), hi) /\ Head(w) \in lo..hi
         /\ Complete(w \o q, lo, hi) => Complete(Tail(w) \o q, Head(w), hi)
<1> DEFINE s == w \o q
           t == Tail(w) \o q
<1>1. Len(s) = Len(w) + Len(q) /\ Len(t) = Len(s) - 1 /\ t \in Seq(Nat) /\ s \in Seq(Nat)
  OBVIOUS
<1>2. \A i \in 1..Len(t) : t[i] = s[i + 1]
  OBVIOUS
<1>3. s[1] = Head(w) /\ 1 \in DOMAIN s /\ Sorted(s, lo, hi)
  OBVIOUS
<1> DEFINE h == Head(w)
<1> HIDE DEF s, t, h
<1> DEFINE n == Len(s)
<1>6. /\ n \in Nat /\ 1 <= n /\ DOMAIN s = 1..n /\ DOMAIN t = 1..(n - 1) /\ Len(t) = n - 1
      /\ \A i \in 1..(n - 1) : t[i] = s[i + 1]
      /\ s[1] = h
  BY <1>1, <1>2, <1>3 DEF h
<1>7. /\ \A i \in 1..n : s[i] \in (lo + 1)..hi
      /\ \A i, j \in 1..n : i < j => s[i] < s[j]
  BY <1>3, <1>6 DEF Sorted
<1>8. \A i \in 1..(n - 1) : i + 1 \in 1..n /\ 1 < i + 1
  BY <1>6
<1> HIDE DEF n
<1>4. Sorted(t, h, hi) /\ h \in lo..hi
  <2>1. h \in (lo + 1)..hi
    BY <1>6, <1>7
  <2>2. ASSUME NEW i \in 1..(n - 1) PROVE t[i] \in (h + 1)..hi
    <3>1. i + 1 \in 1..n /\ 1 \in 1..n /\ 1 < i + 1 /\ t[i] = s[i + 1]
      BY <1>6, <1>8
    <3>2. s[i + 1] \in (lo + 1)..hi /\ h < s[i + 1]
      BY <1>6, <1>7, <3>1
    <3> QED
      BY <2>1, <3>1, <3>2
  <2>3. \A i, j \in 1..(n - 1) : i < j => t[i] < t[j]
    BY <1>6, <1>7, <1>8
  <2> QED
    BY <1>1, <1>6, <2>1, <2>2, <2>3 DEF Sorted
<1>5. Complete(s, lo, hi) => Complete(t, h, hi)
  <2> SUFFICES ASSUME n = hi - lo, \A i \in 1..n : s[i] = lo + i
               PROVE  n - 1 = hi - h /\ \A i \in 1..(n - 1) : t[i] = h + i
    BY <1>6 DEF Complete, n
  <2>1. h = lo + 1
    BY <1>6
  <2> QED
    BY <1>6, <1>8, <2>1
<1> QED
  BY <1>4, <1>5 DEF s, t, h

-----------------------------------------------------------------------------
(* One socket.                                                             *)

\* What EventsTypeOK and EventsInOrder say of a socket c, n lines being sent.
SocketOK(c, n) ==
    /\ c \in SocketState
    /\ c.pc = "closed" => c = Closed
    /\ c.pc # "live" => c.queue = <<>> /\ c.wire = <<>> /\ ~c.lost
    /\ c.pc = "live" =>
          /\ c.last <= n /\ Sorted(c.wire \o c.queue, c.last, n)
          /\ ~c.lost => Complete(c.wire \o c.queue, c.last, n)

LEMMA ClosedOK ==
  ASSUME NEW n \in Nat
  PROVE  SocketOK(Closed, n) /\ SocketOK([Closed EXCEPT !.pc = "opening"], n)
<1> DEFINE d == [Closed EXCEPT !.pc = "opening"]
<1>1. <<>> \in Seq(Nat)
  OBVIOUS
<1>2. /\ Closed \in SocketState /\ Closed.pc = "closed"
      /\ Closed.queue = <<>> /\ Closed.wire = <<>> /\ ~Closed.lost
  BY <1>1 DEF Closed, SocketState
<1>3. d \in SocketState /\ d.pc = "opening" /\ d.queue = <<>> /\ d.wire = <<>> /\ ~d.lost
  BY <1>2 DEF SocketState
<1> HIDE DEF d
<1>4. SocketOK(d, n)
  BY <1>3 DEF SocketOK
<1> QED
  BY <1>2, <1>4 DEF SocketOK, d

LEMMA NotLiveOK ==
  ASSUME NEW c, NEW n \in Nat, NEW m \in Nat, c.pc # "live", SocketOK(c, n)
  PROVE  SocketOK(c, m)
BY DEF SocketOK

LEMMA AcceptOK ==
  ASSUME NEW c, NEW n \in Nat, SocketOK(c, n), c.pc = "opening"
  PROVE  SocketOK([c EXCEPT !.pc = "accepted", !.hello = TRUE], n)
BY DEF SocketOK, SocketState

LEMMA SubscribeOK ==
  ASSUME NEW c, NEW n \in Nat, SocketOK(c, n), c.pc = "accepted"
  PROVE  SocketOK([c EXCEPT !.pc = "live", !.last = n], n)
<1> DEFINE d == [c EXCEPT !.pc = "live", !.last = n]
<1>1. /\ c \in SocketState /\ c.queue = <<>> /\ c.wire = <<>>
  BY DEF SocketOK
<1>2. /\ d \in SocketState /\ d.pc = "live" /\ d.last = n /\ d.queue = <<>> /\ d.wire = <<>>
  BY <1>1 DEF SocketState
<1>3. d.wire \o d.queue = <<>>
  BY <1>2
<1> HIDE DEF d
<1>4. SocketOK(d, n)
  BY <1>2, <1>3, SortedEmpty DEF SocketOK
<1> QED
  BY <1>4 DEF d

LEMMA PushOK ==
  ASSUME NEW c, NEW n \in Nat, SocketOK(c, n), c.pc = "live", c.queue # <<>>
  PROVE  SocketOK([c EXCEPT !.queue = Tail(@), !.wire = Append(@, Head(c.queue))], n)
<1> DEFINE d == [c EXCEPT !.queue = Tail(@), !.wire = Append(@, Head(c.queue))]
<1>1. c \in SocketState /\ c.queue \in Seq(Nat) /\ c.wire \in Seq(Nat) /\ c.last \in Nat
  BY DEF SocketOK, SocketState
<1>2. Tail(c.queue) \in Seq(Nat) /\ Append(c.wire, Head(c.queue)) \in Seq(Nat)
  BY <1>1
<1>3. /\ d \in SocketState /\ d.pc = "live" /\ d.last = c.last /\ d.lost = c.lost
      /\ d.queue = Tail(c.queue) /\ d.wire = Append(c.wire, Head(c.queue))
  BY <1>1, <1>2 DEF SocketState
<1>4. d.wire \o d.queue = c.wire \o c.queue
  BY <1>1, <1>3, SortedPush
<1> HIDE DEF d
<1>5. SocketOK(d, n)
  BY <1>3, <1>4 DEF SocketOK
<1> QED
  BY <1>5 DEF d

LEMMA OfferedOK ==
  ASSUME NEW c, NEW n \in Nat, NEW oldest \in BOOLEAN, SocketOK(c, n), c.pc = "live"
  PROVE  SocketOK(Offered(c, n + 1, oldest), n + 1)
<1>1. /\ c \in SocketState /\ c.queue \in Seq(Nat) /\ c.wire \in Seq(Nat) /\ c.last \in Nat
      /\ c.last <= n /\ Sorted(c.wire \o c.queue, c.last, n)
      /\ ~c.lost => Complete(c.wire \o c.queue, c.last, n)
  BY DEF SocketOK, SocketState
<1>2. CASE Len(c.queue) < QueueSize
  <2> DEFINE q == Append(c.queue, n + 1)
             d == [c EXCEPT !.queue = q]
  <2>1. q \in Seq(Nat)
    BY <1>1
  <2>2. /\ d \in SocketState /\ d.pc = "live" /\ d.last = c.last /\ d.lost = c.lost
        /\ d.queue = q /\ d.wire = c.wire
    BY <1>1, <2>1 DEF SocketState
  <2>3. /\ Sorted(c.wire \o q, c.last, n + 1)
        /\ ~c.lost => Complete(c.wire \o q, c.last, n + 1)
    BY <1>1, SortedAppend
  <2>4. Offered(c, n + 1, oldest) = d
    BY <1>2 DEF Offered
  <2> HIDE DEF d, q
  <2> QED
    BY <1>1, <2>2, <2>3, <2>4 DEF SocketOK
<1>3. CASE ~(Len(c.queue) < QueueSize) /\ oldest
  <2> DEFINE q == Append(Tail(c.queue), n + 1)
             d == [c EXCEPT !.queue = q, !.lost = TRUE]
  <2>1. c.queue # <<>> /\ Tail(c.queue) \in Seq(Nat)
    BY <1>1, <1>3, EventsAssumption
  <2>2. q \in Seq(Nat)
    BY <2>1
  <2>3. Sorted(c.wire \o q, c.last, n + 1)
    BY <1>1, <2>1, SortedWithoutOldest, SortedAppend
  <2>4. /\ d \in SocketState /\ d.pc = "live" /\ d.last = c.last /\ d.lost
        /\ d.queue = q /\ d.wire = c.wire
    BY <1>1, <2>2 DEF SocketState
  <2>5. Offered(c, n + 1, oldest) = d
    BY <1>3 DEF Offered
  <2> HIDE DEF d, q
  <2> QED
    BY <1>1, <2>3, <2>4, <2>5 DEF SocketOK
<1>4. CASE ~(Len(c.queue) < QueueSize) /\ ~oldest
  <2> DEFINE d == [c EXCEPT !.lost = TRUE]
  <2>1. Sorted(c.wire \o c.queue, c.last, n + 1)
    BY <1>1, SortedLater
  <2>2. /\ d \in SocketState /\ d.pc = "live" /\ d.last = c.last /\ d.lost
        /\ d.queue = c.queue /\ d.wire = c.wire
    BY <1>1 DEF SocketState
  <2>3. Offered(c, n + 1, oldest) = d
    BY <1>4 DEF Offered
  <2> HIDE DEF d
  <2> QED
    BY <1>1, <2>1, <2>2, <2>3 DEF SocketOK
<1> QED
  BY <1>2, <1>3, <1>4

LEMMA GreetedOK ==
  ASSUME NEW c, NEW n \in Nat, SocketOK(c, n), c.hello
  PROVE  SocketOK([c EXCEPT !.hello = FALSE], n)
<1>1. c.pc # "closed"
  BY DEF SocketOK, Closed
<1> QED
  BY <1>1 DEF SocketOK, SocketState

LEMMA ShownOK ==
  ASSUME NEW c, NEW n \in Nat, SocketOK(c, n), c.wire # <<>>
  PROVE  SocketOK([c EXCEPT !.wire = Tail(@), !.last = Head(c.wire)], n)
<1> DEFINE d == [c EXCEPT !.wire = Tail(@), !.last = Head(c.wire)]
<1>1. /\ c \in SocketState /\ c.queue \in Seq(Nat) /\ c.wire \in Seq(Nat) /\ c.last \in Nat
      /\ c.pc = "live" /\ Sorted(c.wire \o c.queue, c.last, n)
      /\ ~c.lost => Complete(c.wire \o c.queue, c.last, n)
  BY DEF SocketOK, SocketState
<1>2. /\ Sorted(Tail(c.wire) \o c.queue, Head(c.wire), n) /\ Head(c.wire) \in c.last..n
      /\ ~c.lost => Complete(Tail(c.wire) \o c.queue, Head(c.wire), n)
  BY <1>1, SortedShown
<1>3. Tail(c.wire) \in Seq(Nat) /\ Head(c.wire) \in Nat /\ Head(c.wire) <= n
  BY <1>1, <1>2
<1>4. /\ d \in SocketState /\ d.pc = "live" /\ d.last = Head(c.wire) /\ d.lost = c.lost
      /\ d.queue = c.queue /\ d.wire = Tail(c.wire)
  BY <1>1, <1>3 DEF SocketState
<1> HIDE DEF d
<1>5. SocketOK(d, n)
  BY <1>2, <1>3, <1>4 DEF SocketOK
<1> QED
  BY <1>5 DEF d

-----------------------------------------------------------------------------
(* The whole stream.                                                       *)

EventsInv == EventsTypeOK /\ EventsInOrder

LEMMA InOrderIs ==
  ASSUME NEW c \in SocketState, NEW n \in Nat
  PROVE  InOrder(c, n) <=> /\ c.last <= n /\ Sorted(c.wire \o c.queue, c.last, n)
                           /\ ~c.lost => Complete(c.wire \o c.queue, c.last, n)
<1>1. c.wire \o c.queue \in Seq(Nat)
  BY DEF SocketState
<1> QED
  BY <1>1 DEF InOrder, OnTheWay, Sorted, Complete

LEMMA EventsInvIs ==
  EventsInv <=> /\ written \in Nat /\ read \in 0..written /\ sent \in 0..read
                /\ sock \in [Socket -> SocketState]
                /\ \A k \in Socket : SocketOK(sock[k], sent)
<1>1. sent \in 0..read /\ read \in 0..written /\ written \in Nat => sent \in Nat
  OBVIOUS
<1> QED
  BY <1>1, InOrderIs DEF EventsInv, EventsTypeOK, EventsInOrder, Live, SocketOK

LEMMA EventsInvIsPrimed ==
  EventsInv' <=> /\ written' \in Nat /\ read' \in 0..written' /\ sent' \in 0..read'
                 /\ sock' \in [Socket -> SocketState]
                 /\ \A k \in Socket : SocketOK(sock'[k], sent')
<1>1. sent' \in 0..read' /\ read' \in 0..written' /\ written' \in Nat => sent' \in Nat
  OBVIOUS
<1> QED
  BY <1>1, InOrderIs DEF EventsInv, EventsTypeOK, EventsInOrder, Live, SocketOK

LEMMA EventsInvInit == EventsInit => EventsInv
<1> SUFFICES ASSUME EventsInit PROVE EventsInv
  OBVIOUS
<1>1. SocketOK(Closed, 0)
  BY ClosedOK
<1>2. written = 0 /\ read = 0 /\ sent = 0 /\ sock = [k \in Socket |-> Closed]
  BY DEF EventsInit
<1>3. \A k \in Socket : sock[k] = Closed
  BY <1>2
<1>4. Closed \in SocketState
  BY <1>1 DEF SocketOK
<1> QED
  BY <1>1, <1>2, <1>3, <1>4, EventsInvIs

\* A step of one socket.
LEMMA SocketStep ==
  ASSUME EventsInv, NEW k \in Socket, NEW c, SocketOK(c, sent),
         sock' = [sock EXCEPT ![k] = c], written' = written, read' = read, sent' = sent
  PROVE  EventsInv'
<1>1. /\ written \in Nat /\ read \in 0..written /\ sent \in 0..read
      /\ sock \in [Socket -> SocketState]
      /\ \A j \in Socket : SocketOK(sock[j], sent)
  BY EventsInvIs
<1>2. c \in SocketState
  BY DEF SocketOK
<1>3. sock' \in [Socket -> SocketState]
  BY <1>1, <1>2
<1>4. \A j \in Socket : SocketOK(sock'[j], sent)
  BY <1>1
<1> QED
  BY <1>1, <1>3, <1>4, EventsInvIsPrimed

LEMMA AppendKeeps ==
  ASSUME EventsInv, AppendLine, UNCHANGED <<read, sent, sock>>
  PROVE  EventsInv'
BY EventsInvIs, EventsInvIsPrimed DEF AppendLine

LEMMA UnchangedKeeps ==
  ASSUME EventsInv, UNCHANGED eventVars
  PROVE  EventsInv'
BY EventsInvIs, EventsInvIsPrimed DEF eventVars

LEMMA WatcherKeeps ==
  ASSUME EventsInv, WatcherStep
  PROVE  EventsInv'
<1>1. CASE ReadLines
  BY <1>1, EventsInvIs, EventsInvIsPrimed DEF ReadLines
<1>2. CASE Dispatch
  <2>1. PICK oldest \in BOOLEAN :
           sock' = [k \in Socket |-> IF Live(k) THEN Offered(sock[k], sent + 1, oldest)
                                    ELSE sock[k]]
    BY <1>2 DEF Dispatch
  <2>2. /\ sent < read /\ sent' = sent + 1 /\ read' = read /\ written' = written
    BY <1>2 DEF Dispatch
  <2>3. /\ written \in Nat /\ read \in 0..written /\ sent \in 0..read
        /\ \A j \in Socket : SocketOK(sock[j], sent)
    BY EventsInvIs
  <2>4. ASSUME NEW k \in Socket PROVE SocketOK(sock'[k], sent')
    <3>1. CASE Live(k)
      BY <2>1, <2>2, <2>3, <3>1, OfferedOK DEF Live
    <3>2. CASE ~Live(k)
      BY <2>1, <2>2, <2>3, <3>2, NotLiveOK DEF Live
    <3> QED
      BY <3>1, <3>2
  <2>5. \A k \in Socket : sock'[k] \in SocketState
    BY <2>4 DEF SocketOK
  <2>6. sock' \in [Socket -> SocketState]
    BY <2>1, <2>5
  <2>7. sent' \in 0..read' /\ read' \in 0..written' /\ written' \in Nat
    BY <2>2, <2>3
  <2> QED
    BY <2>4, <2>6, <2>7, EventsInvIsPrimed
<1> QED
  BY <1>1, <1>2 DEF WatcherStep

LEMMA RestartKeeps ==
  ASSUME EventsInv, RestartEvents
  PROVE  EventsInv'
<1>1. written \in Nat
  BY EventsInvIs
<1>2. /\ read' = written /\ sent' = written /\ written' = written
      /\ sock' = [k \in Socket |-> Closed]
  BY DEF RestartEvents
<1>3. SocketOK(Closed, sent')
  BY <1>1, <1>2, ClosedOK
<1>4. Closed \in SocketState /\ \A k \in Socket : sock'[k] = Closed
  BY <1>2, <1>3 DEF SocketOK
<1>5. sock' \in [Socket -> SocketState]
  BY <1>2, <1>4
<1> QED
  BY <1>1, <1>2, <1>3, <1>4, <1>5, EventsInvIsPrimed

LEMMA ServerKeeps ==
  ASSUME EventsInv, NEW k \in Socket, ServerStep(k)
  PROVE  EventsInv'
<1>1. sent \in Nat /\ SocketOK(sock[k], sent)
  BY EventsInvIs
<1>2. CASE Accept(k)
  <2> DEFINE c == [sock[k] EXCEPT !.pc = "accepted", !.hello = TRUE]
  <2>1. SocketOK(c, sent)
    BY <1>1, <1>2, AcceptOK DEF Accept
  <2>2. sock' = [sock EXCEPT ![k] = c]
    BY <1>2 DEF Accept
  <2> HIDE DEF c
  <2> QED
    BY <1>2, <2>1, <2>2, SocketStep DEF Accept
<1>3. CASE Subscribe(k)
  <2> DEFINE c == [sock[k] EXCEPT !.pc = "live", !.last = sent]
  <2>1. SocketOK(c, sent)
    BY <1>1, <1>3, SubscribeOK DEF Subscribe
  <2>2. sock' = [sock EXCEPT ![k] = c]
    BY <1>3 DEF Subscribe
  <2> HIDE DEF c
  <2> QED
    BY <1>3, <2>1, <2>2, SocketStep DEF Subscribe
<1>4. CASE Push(k)
  <2> DEFINE c == [sock[k] EXCEPT !.queue = Tail(@), !.wire = Append(@, Head(sock[k].queue))]
  <2>1. SocketOK(c, sent)
    BY <1>1, <1>4, PushOK DEF Push, Live
  <2>2. sock' = [sock EXCEPT ![k] = c]
    BY <1>4 DEF Push
  <2> HIDE DEF c
  <2> QED
    BY <1>4, <2>1, <2>2, SocketStep DEF Push
<1> QED
  BY <1>2, <1>3, <1>4 DEF ServerStep
=============================================================================
