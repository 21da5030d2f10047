------------------------------ MODULE WatchFeed ------------------------------
(***************************************************************************)
(* What the watch service promises its tenants, with no word of threads,   *)
(* locks, calls or the registry: a watch is created once, is live or       *)
(* paused, and once deleted stays so; it gets changes of its own tenant    *)
(* only, of the kinds it asks for, and only while it is live; and no       *)
(* change is done before every watch that it owes has it.  Only a watch    *)
(* that was deleted, or whose criteria fail on the change, interrupts it:  *)
(* then it is spread again from the start, or lost.                        *)
(***************************************************************************)
EXTENDS Naturals

CONSTANTS Watch, Tenant, Kind, None

VARIABLES
    owner,      \* the tenant that created a watch
    state,      \* "unused", "live", "paused" or "gone"
    wants,      \* the kinds of change a watch asks for
    chokes,     \* the kinds of change its criteria fail on
    journal,    \* the events a watch got
    count,      \* the changes of each tenant so far
    kind,       \* the kind of the last of them
    phase,      \* "observed", "spreading", "broken" or "done"
    owed        \* the watches it has to reach

watchVars == <<owner, state, wants, chokes>>
changeVars == <<count, kind, phase>>
feedVars == <<watchVars, journal, changeVars, owed>>

Init ==
    /\ owner = [w \in Watch |-> None] /\ state = [w \in Watch |-> "unused"]
    /\ wants = [w \in Watch |-> {}] /\ chokes = [w \in Watch |-> {}]
    /\ journal = [w \in Watch |-> {}]
    /\ count = [t \in Tenant |-> 0] /\ kind = [t \in Tenant |-> None]
    /\ phase = [t \in Tenant |-> "done"] /\ owed = [t \in Tenant |-> {}]

-----------------------------------------------------------------------------
Exists(w) == state[w] \in {"live", "paused"}
Goes(w) == owed' = [t \in Tenant |-> owed[t] \ {w}]

Create(w, t, K, R) ==
    /\ state[w] = "unused" /\ state' = [state EXCEPT ![w] = "live"]
    /\ owner' = [owner EXCEPT ![w] = t]
    /\ wants' = [wants EXCEPT ![w] = K] /\ chokes' = [chokes EXCEPT ![w] = R]
    /\ UNCHANGED <<journal, changeVars, owed>>

Pause(w) ==
    /\ Exists(w) /\ state' = [state EXCEPT ![w] = "paused"] /\ Goes(w)
    /\ UNCHANGED <<owner, wants, chokes, journal, changeVars>>

Resume(w) ==
    /\ Exists(w) /\ state' = [state EXCEPT ![w] = "live"]
    /\ UNCHANGED <<owner, wants, chokes, journal, changeVars, owed>>

Delete(w) ==
    /\ Exists(w) /\ state' = [state EXCEPT ![w] = "gone"] /\ Goes(w)
    /\ wants' = [wants EXCEPT ![w] = {}] /\ chokes' = [chokes EXCEPT ![w] = {}]
    /\ UNCHANGED <<owner, journal, changeVars>>

-----------------------------------------------------------------------------
Observe(t, k) ==
    /\ phase[t] = "done" /\ phase' = [phase EXCEPT ![t] = "observed"]
    /\ count' = [count EXCEPT ![t] = @ + 1] /\ kind' = [kind EXCEPT ![t] = k]
    /\ owed' = [owed EXCEPT ![t] = {}]
    /\ UNCHANGED <<watchVars, journal>>

Asks(w, t) == owner[w] = t /\ state[w] = "live" /\ kind[t] \in wants[w]

Spread(t) ==
    /\ phase[t] = "observed" /\ phase' = [phase EXCEPT ![t] = "spreading"]
    /\ owed' = [owed EXCEPT ![t] = {w \in Watch : Asks(w, t)}]
    /\ UNCHANGED <<watchVars, journal, count, kind>>

Feed(t, w) ==
    /\ phase[t] = "spreading" /\ Asks(w, t)
    /\ journal' = [journal EXCEPT ![w] = @ \cup {<<t, count[t], kind[t]>>}]
    /\ UNCHANGED <<watchVars, changeVars, owed>>

Stops(w, t) ==
    owner[w] = t /\ (state[w] = "gone" \/ (state[w] = "live" /\ kind[t] \in chokes[w]))

Interrupt(t) ==
    /\ phase[t] = "spreading" /\ phase' = [phase EXCEPT ![t] = "broken"]
    /\ \E w \in Watch : Stops(w, t)
    /\ UNCHANGED <<watchVars, journal, count, kind, owed>>

SeenAgain(t) ==
    /\ phase[t] = "broken" /\ phase' = [phase EXCEPT ![t] = "observed"]
    /\ UNCHANGED <<watchVars, journal, count, kind, owed>>

Lose(t) ==
    /\ phase[t] = "broken" /\ phase' = [phase EXCEPT ![t] = "done"]
    /\ UNCHANGED <<watchVars, journal, count, kind, owed>>

Finish(t) ==
    /\ phase[t] = "spreading" /\ phase' = [phase EXCEPT ![t] = "done"]
    /\ \A w \in owed[t] : <<t, count[t], kind[t]>> \in journal[w]
    /\ UNCHANGED <<watchVars, journal, count, kind, owed>>

-----------------------------------------------------------------------------
Next ==
    \/ \E w \in Watch :
          \/ \E t \in Tenant, K, R \in SUBSET Kind : Create(w, t, K, R)
          \/ Pause(w) \/ Resume(w) \/ Delete(w)
    \/ \E t \in Tenant :
          \/ \E k \in Kind : Observe(t, k)
          \/ Spread(t) \/ Finish(t) \/ Interrupt(t) \/ SeenAgain(t) \/ Lose(t)
          \/ \E w \in Watch : Feed(t, w)

Spec == Init /\ [][Next]_feedVars
=============================================================================
