--------------------------- MODULE ConsoleRequests ---------------------------
(***************************************************************************)
(* The requests of the web console, static/app.js: for every button the    *)
(* set of requests it sends over all contents of the form, and, for the    *)
(* buttons that ask first, the scope the confirmation shows.  The prefix   *)
(* /api/v1 of the paths is left out, and of the bodies everything that     *)
(* does not name a record or a message.  The second part says which of     *)
(* these requests takes something away, as the routes of the API server    *)
(* and its mail tools read them.                                           *)
(***************************************************************************)
EXTENDS AdminSnapshot, Naturals, Sequences

CONSTANTS
    Folder, Uid,    \* mail folders, message UIDs
    Inbox,          \* the folder of an empty folder field
    Operations,     \* the profile of an empty profile field
    Blank           \* an empty field

ASSUME RequestAssumption ==
    /\ Inbox \in Folder /\ Operations \in Profile
    /\ Blank \in Name       \* an update may name a record so
    /\ Blank \notin User \cup Group \cup Key \cup Profile \cup Folder

\* What value() may return for a field that names one of S: it trims, so that
\* there is one blank.  In a path the names "." and ".." have a meaning.
Field(S) == S \cup {Blank}
PathField(S) == Field(S) \cup {".", ".."}

\* JavaScript's ||, on a field.
Or(v, default) == IF v = Blank THEN default ELSE v

Endpoint(m, p) == [method |-> m, path |-> p]
Tool(name) == Endpoint("POST", <<"tools", name>>)

ENDPOINTS == [
    health |-> Endpoint("GET", <<"health">>),
    tools |-> Endpoint("GET", <<"tools">>),
    profileList |-> Endpoint("GET", <<"admin", "profiles">>),
    profileGet |-> Endpoint("GET", <<"admin", "profiles", "profile_id">>),
    profilePut |-> Endpoint("PUT", <<"admin", "profiles", "profile_id">>),
    profileDelete |-> Endpoint("DELETE", <<"admin", "profiles", "profile_id">>),
    userList |-> Endpoint("GET", <<"admin", "users">>),
    userGet |-> Endpoint("GET", <<"admin", "users", "user_id">>),
    userCreate |-> Endpoint("POST", <<"admin", "users">>),
    userUpdate |-> Endpoint("PUT", <<"admin", "users", "user_id">>),
    userDelete |-> Endpoint("DELETE", <<"admin", "users", "user_id">>),
    groupList |-> Endpoint("GET", <<"admin", "groups">>),
    groupGet |-> Endpoint("GET", <<"admin", "groups", "group_id">>),
    groupCreate |-> Endpoint("POST", <<"admin", "groups">>),
    groupUpdate |-> Endpoint("PUT", <<"admin", "groups", "group_id">>),
    groupDelete |-> Endpoint("DELETE", <<"admin", "groups", "group_id">>),
    groupAddMember |-> Endpoint("POST", <<"admin", "groups", "group_id", "members">>),
    groupRemoveMember |->
        Endpoint("DELETE", <<"admin", "groups", "group_id", "members", "user_id">>),
    apiKeyList |-> Endpoint("GET", <<"admin", "api-keys">>),
    apiKeyCreate |-> Endpoint("POST", <<"admin", "api-keys">>),
    apiKeyDelete |-> Endpoint("DELETE", <<"admin", "api-keys", "api_key_id">>),
    rbacGet |-> Endpoint("GET", <<"admin", "rbac", "policies">>),
    rbacPut |-> Endpoint("PUT", <<"admin", "rbac", "policies">>),
    probe |-> Tool("mail_probe"),
    audit |-> Endpoint("GET", <<"admin", "audit", "events">>),
    archiveExport |-> Endpoint("POST", <<"admin", "archive", "export">>),
    search |-> Tool("mail_search"),
    getMessage |-> Tool("mail_get_message"),
    extract |-> Tool("mail_extract_message"),
    listAttachments |-> Tool("mail_list_attachments"),
    downloadAttachment |-> Tool("mail_download_attachment"),
    setSeen |-> Tool("mail_set_seen"),
    moveDuplicates |-> Tool("mail_move_duplicates_since_last_search"),
    moveMessages |-> Tool("mail_move_messages"),
    deleteMessages |-> Tool("mail_delete_messages"),
    a2aTools |-> Endpoint("GET", <<"a2a", "tools">>)]

NoBody == [fields |-> {}]

Request(m, p, b) == [method |-> m, path |-> p, body |-> b]

\* path.replace("{field}", id), without the braces; an empty field leaves an
\* empty segment.  The server decodes what encodeURIComponent() has encoded; ids
\* with a slash, which it would read as two segments, are left out.
Fill(p, field, id) == [i \in DOMAIN p |-> IF p[i] = field THEN id ELSE p[i]]

Path(e) == ENDPOINTS[e].path
Get(e) == Request("GET", Path(e), NoBody)
Post(e, b) == Request("POST", Path(e), b)

ProfilePath(e, p) == Fill(Path(e), "profile_id", p)
UserPath(e, u) == Fill(Path(e), "user_id", u)
GroupPath(e, g) == Fill(Path(e), "group_id", g)
ApiKeyPath(e, k) == Fill(Path(e), "api_key_id", k)

\* What is taken away: a record, or something of messages.
Deletion(kind, id) == [act |-> kind, id |-> id]
OnMail(act, p, f, d, U) ==
    [act |-> act, profile |-> p, folder |-> f, destination |-> d, uids |-> U]
Nothing == [act |-> "nothing"]

\* A request that confirmDestructive() shows the scope of.
Asked(scope, r) == [scope |-> scope, request |-> r]

-----------------------------------------------------------------------------
(* Profiles, users, groups, keys and policies.  A payload that is not JSON *)
(* raises before anything is sent.                                         *)

SystemReads == {Get("health"), Get("tools"), Get("profileList")}
ProfileGet == {Request("GET", ProfilePath("profileGet", p), NoBody) : p \in PathField(Profile)}
ProfilePut == {Request("PUT", ProfilePath("profilePut", p), NoBody) : p \in PathField(Profile)}
ProfileDelete ==
    {Asked(Deletion("delete_profile", p),
           Request("DELETE", ProfilePath("profileDelete", p), NoBody)) : p \in PathField(Profile)}

UserReads ==
    {Get("userList")}
        \cup {Request("GET", UserPath("userGet", u), NoBody) : u \in PathField(User)}
UserCreate ==
    {Post("userCreate", [user |-> u, name |-> n]) : u \in Field(User), n \in Name}
UserUpdate ==
    {Request("PUT", UserPath("userUpdate", u), [name |-> n]) :
        u \in PathField(User), n \in Name}
UserDelete ==
    {Asked(Deletion("delete_user", Or(u, n)),
           Request("DELETE", UserPath("userDelete", u), NoBody)) :
        u \in PathField(User), n \in Name}

GroupReads ==
    {Get("groupList")}
        \cup {Request("GET", GroupPath("groupGet", g), NoBody) : g \in PathField(Group)}
GroupCreate ==
    {Post("groupCreate", [group |-> g, name |-> n, members |-> M]) :
        g \in Field(Group), n \in Name, M \in SUBSET User}
GroupUpdate ==
    {Request("PUT", GroupPath("groupUpdate", g), [name |-> n]) :
        g \in PathField(Group), n \in Name}
GroupDelete ==
    {Asked(Deletion("delete_group", Or(g, n)),
           Request("DELETE", GroupPath("groupDelete", g), NoBody)) :
        g \in PathField(Group), n \in Name}
GroupAddMember ==
    {Request("POST", GroupPath("groupAddMember", g), [user |-> u]) :
        g \in PathField(Group), u \in Field(User)}

\* Slip: the path of the group without its member.
GroupRemoveMember_GroupPath ==
    {Request("DELETE", GroupPath("groupDelete", g), NoBody) : g \in PathField(Group)}

GroupRemoveMember ==
    {Request("DELETE", Fill(GroupPath("groupRemoveMember", g), "user_id", u), NoBody) :
        g \in PathField(Group), u \in PathField(User)}

ApiKeyCreate ==
    {Get("apiKeyList")} \cup {Post("apiKeyCreate", [owner |-> u]) : u \in Field(User)}
ApiKeyRevoke ==
    {Asked(Deletion("revoke_api_key", k),
           Request("DELETE", ApiKeyPath("apiKeyDelete", k), NoBody)) : k \in PathField(Key)}

Policies == {Get("rbacGet"), Request("PUT", Path("rbacPut"), NoBody)}

-----------------------------------------------------------------------------
(* Observation, archive and mail.                                          *)

Observation == {Post("probe", NoBody), Get("audit"), Get("a2aTools")}

ArchiveExport == {Post("archiveExport", [profile |-> Or(p, Operations)]) : p \in Field(Profile)}

\* What is asked of a message makes no difference here.
MailReads ==
    {Post(e, NoBody) :
        e \in {"search", "getMessage", "extract", "listAttachments", "downloadAttachment"}}

\* The prompt says "set seen" also when the request is to unset it.
SeenPrompt(p, f, U) ==
    Asked(OnMail("set_seen", Or(p, Operations), Or(f, Inbox), Blank, U),
          Post("setSeen", [profile |-> Or(p, Operations), folder |-> Or(f, Inbox),
                           uids |-> U]))
SetSeen ==
    {SeenPrompt(p, f, U) : p \in Field(Profile), f \in Field(Folder), U \in SUBSET Uid}

\* The folder is shown, but it is not in the request.
DuplicatesPrompt(p, f, d) ==
    Asked(OnMail("move_duplicates", Or(p, Operations), Or(f, Inbox), d, {}),
          Post("moveDuplicates", [profile |-> Or(p, Operations), destination |-> d]))
MoveDuplicates ==
    {DuplicatesPrompt(p, f, d) :
        p \in Field(Profile), f \in Field(Folder), d \in Field(Folder)}

MovePrompt(p, f, d, U) ==
    Asked(OnMail("move_messages", Or(p, Operations), Or(f, Inbox), d, U),
          Post("moveMessages", [profile |-> Or(p, Operations), folder |-> Or(f, Inbox),
                                destination |-> d, uids |-> U]))
MoveMessages ==
    {MovePrompt(p, f, d, U) :
        p \in Field(Profile), f, d \in Field(Folder), U \in SUBSET Uid}

\* Slip: the request leaves the folder to the server, like moveDuplicates.
DeletePrompt_NoFolder(p, f, U) ==
    Asked(OnMail("delete_messages", Or(p, Operations), Or(f, Inbox), Blank, U),
          Post("deleteMessages", [profile |-> Or(p, Operations), folder |-> Inbox,
                                  uids |-> U]))

DeletePrompt(p, f, U) ==
    Asked(OnMail("delete_messages", Or(p, Operations), Or(f, Inbox), Blank, U),
          Post("deleteMessages", [profile |-> Or(p, Operations), folder |-> Or(f, Inbox),
                                  uids |-> U]))
DeleteMessages ==
    {DeletePrompt(p, f, U) : p \in Field(Profile), f \in Field(Folder), U \in SUBSET Uid}

\* The requests a click sends at once, and those it asks about first.
Plain ==
    SystemReads \cup ProfileGet \cup ProfilePut \cup UserReads \cup UserCreate
        \cup UserUpdate \cup GroupReads \cup GroupCreate \cup GroupUpdate
        \cup GroupAddMember \cup GroupRemoveMember \cup ApiKeyCreate \cup Policies
        \cup Observation \cup ArchiveExport \cup MailReads
Guarded ==
    ProfileDelete \cup UserDelete \cup GroupDelete \cup ApiKeyRevoke \cup SetSeen
        \cup MoveDuplicates \cup MoveMessages \cup DeleteMessages

-----------------------------------------------------------------------------
(* The server's reading of a request.                                      *)

\* The path a request arrives with.  The browser takes "." and ".." out of a
\* URL, with the segment before a "..".  A path that then ends in an empty
\* segment has no route; the framework redirects it to the path without.
AtEnd(a, b, x) ==
    IF x \in {".", Blank} THEN <<a, b>> ELSE IF x = ".." THEN <<a>> ELSE <<a, b, x>>
Before(a, b, x, c) ==
    IF x = "." THEN <<a, b, c>> ELSE IF x = ".." THEN <<a, c>> ELSE <<a, b, x, c>>
BeforeTwo(a, b, x, c, y) ==
    IF x = "." THEN <<a, b, c, y>>
    ELSE IF x = ".." THEN <<a, c, y>> ELSE <<a, b, x, c, y>>

Arrives(p) ==
    CASE Len(p) = 3 -> AtEnd(p[1], p[2], p[3])
      [] Len(p) = 4 -> Before(p[1], p[2], p[3], p[4])
      [] Len(p) = 5 /\ p[5] = ".." -> AtEnd(p[1], p[2], p[3])
      [] Len(p) = 5 /\ p[5] \in {".", Blank} -> Before(p[1], p[2], p[3], p[4])
      [] Len(p) = 5 /\ p[5] \notin {".", "..", Blank} ->
            BeforeTwo(p[1], p[2], p[3], p[4], p[5])
      [] OTHER -> p

\* What a request names in segment i of its path.
Named(r, i) == Arrives(r.path)[i]

\* A route: "*" is a parameter, which an empty segment does not match.
Fits(p, pattern) ==
    /\ Len(p) = Len(pattern)
    /\ \A i \in DOMAIN pattern : IF pattern[i] = "*" THEN p[i] # Blank ELSE p[i] = pattern[i]

Routed(r, m, pattern) == r.method = m /\ Fits(Arrives(r.path), pattern)

DeletesProfile(r) == Routed(r, "DELETE", <<"admin", "profiles", "*">>)
DeletesUser(r) == Routed(r, "DELETE", <<"admin", "users", "*">>)
DeletesGroup(r) == Routed(r, "DELETE", <<"admin", "groups", "*">>)
RevokesKey(r) == Routed(r, "DELETE", <<"admin", "api-keys", "*">>)
CallsTool(r, name) == Routed(r, "POST", <<"tools", name>>)

\* What a request takes away, or changes in place.  The duplicates tool always
\* works on the folder INBOX.
Takes(r) ==
    CASE DeletesProfile(r) -> Deletion("delete_profile", Named(r, 3))
      [] DeletesUser(r) -> Deletion("delete_user", Named(r, 3))
      [] DeletesGroup(r) -> Deletion("delete_group", Named(r, 3))
      [] RevokesKey(r) -> Deletion("revoke_api_key", Named(r, 3))
      [] CallsTool(r, "mail_set_seen") ->
            OnMail("set_seen", r.body.profile, r.body.folder, Blank, r.body.uids)
      [] CallsTool(r, "mail_move_duplicates_since_last_search") ->
            OnMail("move_duplicates", r.body.profile, Inbox, r.body.destination, {})
      [] CallsTool(r, "mail_move_messages") ->
            OnMail("move_messages", r.body.profile, r.body.folder, r.body.destination,
                   r.body.uids)
      [] CallsTool(r, "mail_delete_messages") ->
            OnMail("delete_messages", r.body.profile, r.body.folder, Blank, r.body.uids)
      [] OTHER -> Nothing

\* The folder a prompt about duplicates shows is not sent: the scope differs
\* from what is taken in that alone.
FolderNotSent(scope, taken) ==
    /\ taken.act = "move_duplicates"
    /\ scope = [taken EXCEPT !.folder = scope.folder]

\* The path of a member whose ids are dots, which arrives as that of a group.
Stray(r) == Len(r.path) = 5 /\ DeletesGroup(r)
==============================================================================
