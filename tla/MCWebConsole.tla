---------------------------- MODULE MCWebConsole ----------------------------
(***************************************************************************)
(* WebConsole for TLC: a session begins with an empty registry, or with    *)
(* one that has every record.                                              *)
(***************************************************************************)
EXTENDS WebConsole, FiniteSets

TheUser == CHOOSE u \in User : TRUE
TheName == CHOOSE n \in Name : n # Blank

Full ==
    [Empty EXCEPT
        !.users = [u \in User |-> IF u = TheUser THEN TheName ELSE None],
        !.groups = [g \in Group |-> [name |-> TheName, members |-> {TheUser}, admins |-> {}]],
        !.keys = [k \in Key |-> [owner |-> TheUser, active |-> TRUE]],
        !.profiles = Profile]

TwoStarts == {Empty, Full}

\* After the first click: creating and removing a user.
Registry ==
    {Post("userCreate", [user |-> TheUser, name |-> TheName]),
     Request("DELETE", UserPath("userDelete", TheUser), NoBody)}
=============================================================================
