----------------------------- MODULE FolderFeed -----------------------------
(***************************************************************************)
(* What the change stream of one mail folder promises its subscribers,     *)
(* with no word of how the watcher finds out: a message is (uidvalidity,   *)
(* uid); it is either part of a baseline, which is never announced, or     *)
(* announced once, after it came to the folder; it may have left again by  *)
(* then.  It is withdrawn only after it was one or the other and has left. *)
(***************************************************************************)
EXTENDS Integers

CONSTANTS Uid, Validity

VARIABLES
    validity,   \* the folder's current UIDVALIDITY
    present,    \* the UIDs in the folder
    been,       \* the messages that are in the folder, or have been
    baseline,   \* the messages that were there when the folder was primed
    created,    \* the messages announced
    moved       \* the messages withdrawn

feedVars == <<validity, present, been, baseline, created, moved>>

Current(S) == {validity} \X S
Accounted == baseline \cup created

Init ==
    /\ validity \in Validity /\ present \in SUBSET Uid
    /\ been = Current(present)
    /\ baseline = {} /\ created = {} /\ moved = {}

\* Other clients: a UID that appears has never been in the folder under this
\* UIDVALIDITY.
FolderChanges ==
    /\ validity' \in Validity /\ validity' >= validity /\ present' \in SUBSET Uid
    /\ \A u \in present' :
          (validity' = validity /\ u \in present) \/ <<validity', u>> \notin been
    /\ been' = been \cup ({validity'} \X present')
    /\ UNCHANGED <<baseline, created, moved>>

Prime ==
    /\ Current(Uid) \cap created = {}
    /\ baseline' = baseline \cup Current(present)
    /\ UNCHANGED <<validity, present, been, created, moved>>

Announce(u) ==
    /\ <<validity, u>> \in been \ Accounted
    /\ created' = created \cup {<<validity, u>>}
    /\ UNCHANGED <<validity, present, been, baseline, moved>>

Withdraw(S) ==
    /\ Current(S) \subseteq Accounted /\ Current(S) \cap moved = {}
    /\ S \cap present = {}
    /\ moved' = moved \cup Current(S)
    /\ UNCHANGED <<validity, present, been, baseline, created>>

Next ==
    \/ FolderChanges
    \/ Prime
    \/ \E u \in Uid : Announce(u)
    \/ \E S \in SUBSET Uid : Withdraw(S)

Spec == Init /\ [][Next]_feedVars
=============================================================================
