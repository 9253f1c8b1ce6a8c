-------------------------------- MODULE Atlas ---------------------------------
(***************************************************************************)
(* Atlas: the daily debrief, the chat and the list of projects, over a     *)
(* database in a process of its own (main/atlas/).                         *)
(*                                                                          *)
(* Main sends the host process one request per database call (dbClient.ts) *)
(* and the host carries them out in the order they came (dbHost.ts,        *)
(* store.ts).  A call is answered, or refused with an error, or times out  *)
(* while its request stays with the host, or fails because the host died;  *)
(* the next call starts another host.                                      *)
(*                                                                          *)
(* Any event may trigger an arrival (start.ts), and one at a time goes on  *)
(* to refresh the portfolio (refresh.ts), have the projects' reports made  *)
(* and the debrief composed (wire.ts).  A chat turn is begun, answered and *)
(* completed (conversation.ts).  The user switches projects on and off and *)
(* forgets them (ipc.ts).                                                  *)
(*                                                                          *)
(* One project is followed.  Calls whose answers only go into a prompt,    *)
(* and the concerns and the snapshots, are left out: they fail as their    *)
(* neighbours do.  A host that cannot be started is one that dies at once. *)
(***************************************************************************)
EXTENDS Naturals, Sequences

CONSTANTS
    Arrivals,  \* triggers, each used once
    Calls,     \* what the user does: a message to Atlas, or a change to the project
    MaxDay,    \* bound: the days that pass
    None

ASSUME SortsAssumption == Arrivals \cap Calls = {}
ASSUME MaxDayAssumption == MaxDay \in Nat \ {0}

Procs == Arrivals \cup Calls
Days == 1..MaxDay

VARIABLES
    day,        \* today
    composing,  \* the slot of the debrief
    at,         \* where each process is; "call" is the await of a database call
    dayOf,      \* the day each arrival composes for
    seen,       \* the registry as each refresh read and merged it
    messages,   \* the calls that are messages
    aborted,    \* messages the user took back
    host,       \* the database process: none, "new" before it opened the file, or "open"
    queue,      \* requests at the host, in order
    db          \* the database

client == <<host, queue, db>>
vars == <<day, composing, at, dayOf, seen, messages, aborted, client>>

-----------------------------------------------------------------------------

Registry == {"absent", "off", "on"}
DayOps == {"readReports", "saveReports", "saveBrief"}
ChoiceOps == {"writeRegistry", "setEnabled"}
PlainOps == {"lastBriefDay", "readRegistry", "forget", "beginTurn", "completeTurn", "abandonTurn", "discardTurn"}
IsRequest(r) ==
    /\ r.by \in Procs /\ r.awaited \in BOOLEAN
    /\ \/ r.op \in DayOps /\ r.arg \in Days
       \/ r.op \in ChoiceOps /\ r.arg \in Registry
       \/ r.op \in PlainOps /\ r.arg = None

TypeOK ==
    /\ day \in Days /\ composing \in BOOLEAN
    /\ at \in [Procs -> {"idle", "prefs", "call", "collect", "standup", "compose",
                         "ready", "model", "answered", "done"}]
    /\ dayOf \in [Arrivals -> Days] /\ seen \in [Procs -> Registry]
    /\ aborted \subseteq messages /\ messages \subseteq Calls
    /\ host \in {"none", "new", "open"}
    /\ \A i \in DOMAIN queue : IsRequest(queue[i])
    /\ \A p \in Procs : at[p] = "call" <=> \E i \in DOMAIN queue : queue[i].by = p /\ queue[i].awaited
    /\ db.briefs \subseteq Days /\ db.reports \subseteq Days
    /\ db.registry \in Registry
    /\ db.turn \in [Calls -> {"none", "pending", "settled", "unanswered", "discarded"}]

Init ==
    /\ day = 1 /\ composing = FALSE
    /\ at = [p \in Procs |-> "idle"]
    /\ dayOf = [a \in Arrivals |-> 1]
    /\ seen = [p \in Procs |-> "absent"]
    /\ messages = {} /\ aborted = {}
    /\ host = "none" /\ queue = <<>>
    /\ db \in [briefs : {{}}, reports : {{}}, registry : {"off", "on"},
               turn : {[c \in Calls |-> "none"]}]

-----------------------------------------------------------------------------
(* The database.                                                           *)

\* markInterruptedTurns, as the host opens the file.
Interrupted(d) ==
    [d EXCEPT !.turn = [c \in Calls |-> IF d.turn[c] = "pending" THEN "unanswered" ELSE d.turn[c]]]

Opened == IF host = "new" THEN Interrupted(db) ELSE db

\* Broken completeTurn: it settles a question that is still pending, no other.
CompletePending(d, c) ==
    [d EXCEPT !.turn[c] = IF @ = "pending" THEN "settled" ELSE @]

CompleteTurn(d, c) == [d EXCEPT !.turn[c] = "settled"]
DiscardTurn(d, c) == [d EXCEPT !.turn[c] = IF @ = "pending" THEN "discarded" ELSE @]
AbandonTurn(d, c) == [d EXCEPT !.turn[c] = "unanswered"]
SaveReports(d, n) == [d EXCEPT !.reports = @ \cup {n}]
LoseReports(d, n) == [d EXCEPT !.reports = @ \ {n}]
SaveBrief(d, n) == [d EXCEPT !.briefs = @ \cup {n}]
Forget(d) == [d EXCEPT !.registry = "absent"]
SetEnabled(d, choice) == [d EXCEPT !.registry = IF @ = "absent" THEN @ ELSE choice]

\* What a request does to the database.
Effect(r, d) ==
    CASE r.op = "writeRegistry" -> [d EXCEPT !.registry = r.arg]
      [] r.op = "setEnabled"    -> SetEnabled(d, r.arg)
      [] r.op = "forget"        -> Forget(d)
      [] r.op = "saveReports"   -> SaveReports(d, r.arg)
      [] r.op = "saveBrief"     -> SaveBrief(d, r.arg)
      [] r.op = "beginTurn"     -> [d EXCEPT !.turn[r.by] = "pending"]
      [] r.op = "completeTurn"  -> CompleteTurn(d, r.by)
      [] r.op = "abandonTurn"   -> AbandonTurn(d, r.by)
      [] r.op = "discardTurn"   -> DiscardTurn(d, r.by)
      [] OTHER                  -> d

\* What a request that fails may leave: a transaction is undone, but a brief and
\* the reports are read back after they are written (writeVerified), and are
\* refused if they came out short.  A short brief counts, short reports cannot be
\* read; or the row is whole and only the reading failed.
Remains(r, d) ==
    CASE r.op = "saveBrief"   -> {d, SaveBrief(d, r.arg)}
      [] r.op = "saveReports" -> {d, SaveReports(d, r.arg), LoseReports(d, r.arg)}
      [] OTHER                -> {d}

\* The last brief there is, if any, is of a day before n.
LastBriefBefore(d, n) == \A m \in d.briefs : m < n

-----------------------------------------------------------------------------
(* The client.                                                             *)

Message(p, op, arg) == <<[by |-> p, op |-> op, arg |-> arg, awaited |-> TRUE]>>

\* A call starts the host if there is none.
Ask(p, op, arg) ==
    /\ at' = [at EXCEPT ![p] = "call"]
    /\ host' = IF host = "none" THEN "new" ELSE host
    /\ queue' = queue \o Message(p, op, arg)
    /\ UNCHANGED db

\* The host carries out p's request and p is resumed.
Answered(p, op) ==
    /\ queue # <<>> /\ Head(queue).by = p /\ Head(queue).op = op /\ Head(queue).awaited
    /\ host' = "open"
    /\ db' = Effect(Head(queue), Opened)

\* p goes on without the database, or with another call.
GoesTo(p, stage) == at' = [at EXCEPT ![p] = stage] /\ queue' = Tail(queue)
AsksNext(p, op, arg) == queue' = Tail(queue) \o Message(p, op, arg) /\ UNCHANGED at

\* Broken arrival: a call that fails leaves the slot taken.
KeepsSlot(failed) == composing

\* The finally of maybeCompose.
Freed(failed) == composing /\ failed \cap Arrivals = {}

Refreshing(p) ==
    \E i \in DOMAIN queue :
        queue[i].by = p /\ queue[i].awaited /\ queue[i].op \in {"readRegistry", "writeRegistry"}

\* Broken settle: the promise of a call that failed is forgotten, not rejected.
Forgotten(failed) == UNCHANGED <<day, composing, at, dayOf, seen, messages, aborted>>

\* The calls in failed fail.  A message does without its portfolio; all else ends.
Failed(failed) ==
    /\ at' = [p \in Procs |-> IF p \notin failed THEN at[p]
                              ELSE IF p \in messages /\ Refreshing(p) THEN "ready" ELSE "done"]
    /\ composing' = Freed(failed)
    /\ UNCHANGED <<day, dayOf, seen, messages, aborted>>

\* The timer of p's call fires; its request stays with the host.
TimeOut(p) ==
    /\ \E i \in DOMAIN queue :
          /\ queue[i].by = p /\ queue[i].awaited
          /\ queue' = [queue EXCEPT ![i].awaited = FALSE]
    /\ Failed({p})
    /\ UNCHANGED <<host, db>>

\* The request the host is at fails, or the file cannot be opened for it, or it was
\* opened and the marking failed, which is not tried again.
Throws ==
    \/ host' = "open" /\ db' \in Remains(Head(queue), Opened)
    \/ host = "new" /\ host' \in {"new", "open"} /\ UNCHANGED db

\* The host answers p's request with an error.
Refused(p) ==
    /\ queue # <<>> /\ Head(queue).by = p /\ Head(queue).awaited
    /\ Throws
    /\ queue' = Tail(queue)
    /\ Failed({p})

\* The host gets to a request nobody awaits any more.
RunsLate ==
    /\ queue # <<>> /\ ~Head(queue).awaited
    /\ Throws \/ (host' = "open" /\ db' = Effect(Head(queue), Opened))
    /\ queue' = Tail(queue)
    /\ UNCHANGED <<day, composing, at, dayOf, seen, messages, aborted>>

\* The host dies, before, in or after the request it was at.
HostDies ==
    /\ host # "none"
    /\ host' = "none" /\ queue' = <<>>
    /\ Failed({p \in Procs : at[p] = "call"})
    /\ \/ db' = db
       \/ queue # <<>> /\ db' \in Remains(Head(queue), Opened) \cup {Effect(Head(queue), Opened)}

-----------------------------------------------------------------------------
(* The arrival.                                                            *)

NewDay ==
    /\ day < MaxDay
    /\ day' = day + 1
    /\ UNCHANGED <<composing, at, dayOf, seen, messages, aborted, client>>

Trigger(a) ==
    /\ at[a] = "idle"
    /\ at' = [at EXCEPT ![a] = "prefs"]
    /\ UNCHANGED <<day, composing, dayOf, seen, messages, aborted, client>>

\* Broken claim: the slot is taken when the last brief's day is known.
SlotUnclaimed == composing

\* The slot is claimed before the first await.
SlotClaimed == TRUE

Arrive(a) ==
    /\ at[a] = "prefs"
    /\ IF composing
          THEN at' = [at EXCEPT ![a] = "done"] /\ UNCHANGED <<composing, dayOf, client>>
          ELSE /\ composing' = SlotClaimed
               /\ dayOf' = [dayOf EXCEPT ![a] = day]
               /\ Ask(a, "lastBriefDay", None)
    /\ UNCHANGED <<day, seen, messages, aborted>>

\* shouldCompose: not before the user's hour, nor if Atlas is off, nor twice a day.
Decide(a) ==
    /\ Answered(a, "lastBriefDay")
    /\ \/ /\ LastBriefBefore(db, dayOf[a])
          /\ composing' = TRUE
          /\ AsksNext(a, "readRegistry", None)
       \/ /\ composing' = FALSE
          /\ GoesTo(a, "done")
    /\ UNCHANGED <<day, dayOf, seen, messages, aborted>>

\* refreshPortfolio and discoverProjects: what was read, with what is new added.
Merge(p) ==
    /\ Answered(p, "readRegistry")
    /\ \E merged \in IF db.registry = "absent" THEN {"absent", "off"} ELSE {db.registry} :
          seen' = [seen EXCEPT ![p] = merged]
    /\ GoesTo(p, "collect")
    /\ UNCHANGED <<day, composing, dayOf, messages, aborted>>

\* The repositories are read and the folders looked for, and the table is replaced.
Collected(p) ==
    /\ at[p] = "collect"
    /\ Ask(p, "writeRegistry", seen[p])
    /\ UNCHANGED <<day, composing, dayOf, seen, messages, aborted>>

Refreshed(p) ==
    /\ Answered(p, "writeRegistry")
    /\ \/ p \in Arrivals /\ AsksNext(p, "readReports", dayOf[p])
       \/ p \in messages /\ GoesTo(p, "ready")
       \/ p \in Calls \ messages /\ GoesTo(p, "done")
    /\ UNCHANGED <<day, composing, dayOf, seen, messages, aborted>>

\* A day's reports are made once, however often its brief is tried.
ReadReports(a) ==
    /\ Answered(a, "readReports")
    /\ GoesTo(a, IF dayOf[a] \in db.reports THEN "compose" ELSE "standup")
    /\ UNCHANGED <<day, composing, dayOf, seen, messages, aborted>>

StandUp(a) ==
    /\ at[a] = "standup"
    /\ Ask(a, "saveReports", dayOf[a])
    /\ UNCHANGED <<day, composing, dayOf, seen, messages, aborted>>

SavedReports(a) ==
    /\ Answered(a, "saveReports")
    /\ GoesTo(a, "compose")
    /\ UNCHANGED <<day, composing, dayOf, seen, messages, aborted>>

Composed(a) ==
    /\ at[a] = "compose"
    /\ Ask(a, "saveBrief", dayOf[a])
    /\ UNCHANGED <<day, composing, dayOf, seen, messages, aborted>>

\* The composer fails; the reporters never do, but leave their reports out.
RunFails(a) ==
    /\ at[a] = "compose"
    /\ at' = [at EXCEPT ![a] = "done"] /\ composing' = FALSE
    /\ UNCHANGED <<day, dayOf, seen, messages, aborted, client>>

SavedBrief(a) ==
    /\ Answered(a, "saveBrief")
    /\ composing' = FALSE
    /\ GoesTo(a, "done")
    /\ UNCHANGED <<day, dayOf, seen, messages, aborted>>

-----------------------------------------------------------------------------
(* The chat.                                                               *)

\* A new message takes back the one under way.
Send(c) ==
    /\ at[c] = "idle"
    /\ \/ Ask(c, "readRegistry", None)
       \/ at' = [at EXCEPT ![c] = "ready"] /\ UNCHANGED client
    /\ messages' = messages \cup {c}
    /\ aborted' = aborted \cup {b \in messages : at[b] \notin {"done", "answered"}}
    /\ UNCHANGED <<day, composing, dayOf, seen>>

Cancel(c) ==
    /\ c \in messages /\ at[c] \notin {"done", "answered"}
    /\ aborted' = aborted \cup {c}
    /\ UNCHANGED <<day, composing, at, dayOf, seen, messages, client>>

BeginTurn(c) ==
    /\ at[c] = "ready"
    /\ Ask(c, "beginTurn", None)
    /\ UNCHANGED <<day, composing, dayOf, seen, messages, aborted>>

Begun(c) ==
    /\ Answered(c, "beginTurn")
    /\ GoesTo(c, "model")
    /\ UNCHANGED <<day, composing, dayOf, seen, messages, aborted>>

\* The model answers, or fails, or was stopped.
ModelEnds(c) ==
    /\ at[c] = "model"
    /\ \E op \in {"completeTurn", "abandonTurn", "discardTurn"} :
          /\ op = "discardTurn" <=> c \in aborted
          /\ Ask(c, op, None)
    /\ UNCHANGED <<day, composing, dayOf, seen, messages, aborted>>

TurnEnded(c) ==
    /\ \/ Answered(c, "completeTurn") /\ GoesTo(c, "answered")
       \/ Answered(c, "abandonTurn") /\ GoesTo(c, "done")
       \/ Answered(c, "discardTurn") /\ GoesTo(c, "done")
    /\ UNCHANGED <<day, composing, dayOf, seen, messages, aborted>>

-----------------------------------------------------------------------------
(* The user.                                                               *)

SetProjectEnabled(u) == \E choice \in {"off", "on"} : Ask(u, "setEnabled", choice)
ForgetProject(u) == Ask(u, "forget", None)
ListProjects(u) == Ask(u, "readRegistry", None)

UserAsks(u) ==
    /\ at[u] = "idle"
    /\ SetProjectEnabled(u) \/ ForgetProject(u) \/ ListProjects(u)
    /\ UNCHANGED <<day, composing, dayOf, seen, messages, aborted>>

UserAnswered(u) ==
    /\ Answered(u, "setEnabled") \/ Answered(u, "forget")
    /\ GoesTo(u, "done")
    /\ UNCHANGED <<day, composing, dayOf, seen, messages, aborted>>

-----------------------------------------------------------------------------

ArrivalStep(a) ==
    \/ Arrive(a) \/ Decide(a) \/ ReadReports(a) \/ StandUp(a) \/ SavedReports(a)
    \/ Composed(a) \/ RunFails(a) \/ SavedBrief(a)
ChatStep(c) == BeginTurn(c) \/ Begun(c) \/ ModelEnds(c) \/ TurnEnded(c)

Next ==
    \/ NewDay \/ HostDies \/ RunsLate
    \/ \E p \in Procs : TimeOut(p) \/ Refused(p) \/ Merge(p) \/ Collected(p) \/ Refreshed(p)
    \/ \E a \in Arrivals : Trigger(a) \/ ArrivalStep(a)
    \/ \E c \in Calls : Send(c) \/ Cancel(c) \/ ChatStep(c) \/ UserAsks(c) \/ UserAnswered(c)

Spec == Init /\ [][Next]_vars

\* Timers fire, preferences are read, and the programs that Atlas runs end or are
\* stopped.  The host need not answer.
Fairness ==
    /\ \A a \in Arrivals : WF_vars(TimeOut(a) \/ Arrive(a) \/ Collected(a) \/ StandUp(a) \/ Composed(a) \/ RunFails(a))

FairSpec == Spec /\ Fairness

-----------------------------------------------------------------------------
(* Properties.                                                             *)

Underway(op, d) == \E i \in DOMAIN queue : queue[i].op = op /\ queue[i].arg = d
Starts(a, stage) == at[a] # stage /\ at'[a] = stage

\* A day's reports and its brief are paid for once: no run starts for a day whose
\* result is stored or still on its way to the database, and no two at a time.
SpentOnce ==
    [][\A a \in Arrivals :
         /\ Starts(a, "standup") => dayOf[a] \notin db.reports /\ ~Underway("saveReports", dayOf[a])
         /\ Starts(a, "compose") => dayOf[a] \notin db.briefs /\ ~Underway("saveBrief", dayOf[a])
         /\ Starts(a, "standup") \/ Starts(a, "compose") =>
               \A b \in Arrivals \ {a} : at[b] \notin {"standup", "compose"}]_vars

\* The slot is freed again, whatever times out, dies or fails.
SlotIsFreed == composing ~> ~composing

\* A reply that was stored settles its question for good, although a host that
\* started meanwhile took the question for interrupted.
RepliesSettle == \A c \in Calls : at[c] = "answered" => db.turn[c] = "settled"

\* What the user chose for a project stands until the user chooses again.
ChoiceStands ==
    [][db.registry # "absent" /\ db'.registry # db.registry =>
         queue # <<>> /\ Head(queue).op \in {"setEnabled", "forget"}]_vars
=============================================================================
