----------------------------- MODULE SecretStore -----------------------------
(***************************************************************************)
(* What the secrets of a project promise to their callers: a map from      *)
(* names to values.  A set or a delete changes its own name and no other,  *)
(* in one step, and one that says so has done it; a call that fails may or *)
(* may not have.                                                           *)
(*                                                                          *)
(* A legacy item that could not be deleted is a shadow: its value may come *)
(* back under a name that has none, and under a name being set or deleted. *)
(* A call may be blind, unable to look up which there are: as long as every *)
(* value is an old item's, such a call may hide them for good.              *)
(***************************************************************************)
CONSTANTS Clients, Names, Values, None

VARIABLES
    store,   \* what a read would find: name -> value or None
    shadow,  \* what old items still hold: name -> value or None
    asked    \* each client's call, or None

vars == <<store, shadow, asked>>

Outcomes == {"pending", "done", "lingers"}
Requests == [op : {"set", "delete", "read"}, name : Names \cup {None},
             value : Values \cup {None}, blind : BOOLEAN, outcome : Outcomes]

Init ==
    /\ store \in [Names -> Values \cup {None}]
    /\ shadow \in [Names -> Values \cup {None}]
    /\ asked = [c \in Clients |-> None]

Ask(c) ==
    /\ asked[c] = None
    /\ \E r \in Requests : /\ r.outcome = "pending" /\ ~r.blind
                          /\ asked' = [asked EXCEPT ![c] = r]
    /\ UNCHANGED <<store, shadow>>

\* A look-up fails.
GoBlind(c) ==
    /\ asked[c] # None /\ asked[c].outcome = "pending"
    /\ asked' = [asked EXCEPT ![c].blind = TRUE]
    /\ UNCHANGED <<store, shadow>>

\* Old items are deleted, never written.
Fades == \A n \in Names : shadow'[n] \in {shadow[n], None}

Surfaces(n) == store[n] = None /\ store'[n] = shadow[n]
AllOld == \A n \in Names : store[n] \in {None, shadow[n]}
Keeps(n) == store'[n] = store[n] \/ Surfaces(n)

\* A delete that could not reach the keychain says that the value may linger.
Work(c) ==
    LET n == asked[c].name IN
    /\ asked[c] # None /\ asked[c].op \in {"set", "delete"} /\ asked[c].outcome = "pending"
    /\ Fades
    /\ store' \in [Names -> Values \cup {None}]
    /\ store'[n] \in {store[n], asked[c].value, shadow[n]}
    /\ \A m \in Names \ {n} : Keeps(m) \/ (asked[c].blind /\ AllOld /\ store'[m] = None)
    /\ \E outcome \in Outcomes :
          /\ asked' = [asked EXCEPT ![c].outcome = outcome]
          /\ outcome = "done" => store'[n] = asked[c].value
          /\ outcome = "lingers" => asked[c].op = "delete"

\* The first call of any kind moves the old items.
Migrate(c) == asked[c] # None /\ Fades /\ UNCHANGED <<store, asked>>

End(c) ==
    /\ asked[c] # None
    /\ asked' = [asked EXCEPT ![c] = None]
    /\ UNCHANGED <<store, shadow>>

Restart ==
    /\ asked' = [c \in Clients |-> None]
    /\ UNCHANGED <<store, shadow>>

Next == Restart \/ \E c \in Clients : Ask(c) \/ GoBlind(c) \/ Work(c) \/ Migrate(c) \/ End(c)

Spec == Init /\ [][Next]_vars
=============================================================================
