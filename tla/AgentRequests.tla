---------------------------- MODULE AgentRequests ----------------------------
(***************************************************************************)
(* The registry of agent-initiated requests that AirLock's main process    *)
(* keeps (packages/app/src/main/agent-requests.ts): agents ask the user to  *)
(* vault a secret or to let them type into a terminal, and the local-apps   *)
(* poll posts notices about long-running apps.  The registry shows each     *)
(* request as a card in one window; agents wait until the card is answered, *)
(* times out, or becomes moot.                                              *)
(*                                                                          *)
(* JavaScript runs every handler to completion, so each handler below is    *)
(* one action.  A promise continuation that runs in the same macrotask as   *)
(* the resolve (the rest of gatedTerminalInput after its grant) is part of  *)
(* the action that resolves it; an `await` of real I/O or of a timer ends   *)
(* the action.                                                              *)
(***************************************************************************)
EXTENDS Integers, FiniteSets

CONSTANTS
    Roots,        \* project roots
    Names,        \* secret names
    Ptys,         \* pty ids: uuids, never reused
    Callers,      \* agents; each has one tool call outstanding at a time
    Apps,         \* appIdentity values: one app scanned at another instant may be another
    AppRoot,      \* the project an app belongs to, or None
    RegistryMax,  \* REGISTRY_MAX
    MaxId,        \* bound: requests ever registered
    MaxWindow,    \* bound: windows ever created
    None

ASSUME BoundsAssumption == RegistryMax \in Nat /\ MaxId \in Nat /\ MaxWindow \in Nat \ {0}
ASSUME AppsAssumption ==
    /\ IsFiniteSet(Apps)
    /\ AppRoot \in [Apps -> Roots \cup {None}]
ASSUME NoneAssumption == None \notin Roots /\ None \notin Nat

VARIABLES
    windows,      \* ids of live app windows (appWindowIds)
    lastWindow,   \* the highest window id Electron has handed out
    focused,      \* the focused app window; None: no focus, or not an app window
    active,       \* workspaceRoots: the project each window is on, or None
    tabs,         \* windowRoots: the projects each window has open
    live,         \* ptys with a session
    entries,      \* the registry: request id -> Entry, ids in creation order
    nextId,
    granted,      \* grantedTerminals
    acknowledged, \* acknowledgedApps
    call          \* what each agent's tool call is doing

vars == <<windows, lastWindow, focused, active, tabs, live, entries, nextId, granted,
          acknowledged, call>>
windowVars == <<windows, lastWindow, focused, active, tabs>>

-----------------------------------------------------------------------------
(* The shape of the state.                                                 *)

Kinds == {"secret", "grant", "notice"}
Payloads == {"line", "keys", "enter"}   \* splitSubmit: body + CR, body, CR
Outcomes == {"ok", "no", "timedOut"}
Results == {"none", "error", "sent"} \cup Outcomes
Waiting == {"secret", "grant"}          \* phases that await a card

\* A card asks for a secret by name, for a terminal, or reports an app.
Entry == {e \in [kind : Kinds, root : Roots \cup {None},
                 subject : Names \cup Ptys \cup Apps,
                 state : {"pending", "expired"}, dismissed : BOOLEAN,
                 target : Nat \cup {None}, waiters : SUBSET Callers] :
             /\ e.kind = "secret" => e.subject \in Names
             /\ e.kind = "grant" => e.subject \in Ptys
             /\ e.kind = "notice" => e.subject \in Apps}

\* "asking": inside `await deps.askFirst()`; "typing": the body is written and
\* the send waits out SUBMIT_DELAY_MS before pressing Enter.
Call == {k \in [phase : {"idle", "asking", "typing"} \cup Waiting,
                pty : Ptys \cup {None}, payload : Payloads, asked : BOOLEAN,
                result : Results] :
            k.phase \in {"idle", "secret"} \/ k.pty \in Ptys}

Done(r) == [phase |-> "idle", pty |-> None, payload |-> "line",
            asked |-> FALSE, result |-> r]

AwaitSecret == [Done("none") EXCEPT !.phase = "secret"]

TypeOK ==
    /\ windows \subseteq 1..lastWindow
    /\ lastWindow \in Nat
    /\ focused \in windows \cup {None}
    /\ active \in [1..MaxWindow -> Roots \cup {None}]
    /\ tabs \in [1..MaxWindow -> SUBSET Roots]
    /\ live \subseteq Ptys
    /\ nextId \in Nat \ {0}
    /\ DOMAIN entries \subseteq 1..(nextId - 1)
    /\ entries \in [DOMAIN entries -> Entry]
    /\ granted \subseteq Ptys
    /\ acknowledged \subseteq Apps
    /\ call \in [Callers -> Call]

\* The registry as the app starts: one window, no project reported yet, the ptys it
\* will spawn, no card.
Init ==
    /\ windows = {1} /\ lastWindow = 1 /\ focused = 1
    /\ active = [w \in 1..MaxWindow |-> None]
    /\ tabs = [w \in 1..MaxWindow |-> {}]
    /\ live = Ptys
    /\ entries = <<>> /\ nextId = 1
    /\ granted = {} /\ acknowledged = {}
    /\ call = [c \in Callers |-> Done("none")]

-----------------------------------------------------------------------------
(* Helpers of the code.                                                    *)

\* AGENT_REQUEST_POLICY, the columns that drive the registry.
ActionableAfterExpiry(kind) == kind # "grant"
PrunedOnPtyExit(kind) == kind = "grant"

\* The least element of a set of numbers, as a set: empty for the empty set.
First(S) == {i \in S : \A j \in S : i <= j}

\* windowForRoot ?? the focused app window ?? the first app window: a window that
\* is on the project, else one that has it open.  The code walks its two maps in
\* insertion order; here any window that qualifies may be the one it finds.
Pick(ws, focus, on, open, root) ==
    LET front == {w \in ws : root # None /\ on[w] = root}
        showing == {w \in ws : root \in open[w]} IN
    IF front # {} THEN front
    ELSE IF showing # {} THEN showing
    ELSE IF focus # None THEN {focus}
    ELSE IF ws # {} THEN First(ws)
    ELSE {None}

PickWindow(root) == Pick(windows, focused, active, tabs, root)

NoWindow == windows = {}

\* Broken coalesceKey: no key for a request that has no project.
SameProjectRequest(e, root, name) ==
    root # None /\ e.kind = "secret" /\ e.root = root /\ e.subject = name

\* coalesceKey: secrets with one root and name share a card.
SameRequest(e, root, name) == e.kind = "secret" /\ e.root = root /\ e.subject = name

Coalescable(root, name) ==
    {i \in DOMAIN entries : entries[i].state = "pending" /\ SameRequest(entries[i], root, name)}

Drop(es, ids) == [i \in DOMAIN es \ ids |-> es[i]]
Add(es, new) == [i \in DOMAIN es \cup DOMAIN new |->
                    IF i \in DOMAIN new THEN new[i] ELSE es[i]]

\* Broken enforceCap: plain oldest-first, and the rule the code had before,
\* "not pending", which a notice never is.
EvictAnything(es) == DOMAIN es
EvictSettled(es) == {i \in DOMAIN es : es[i].state # "pending"}

\* enforceCap: evict the oldest entries nobody awaits while over the cap.
Evictable(es) == {i \in DOMAIN es : es[i].waiters = {}}
Evicted(es) ==
    {i \in Evictable(es) :
        Cardinality({j \in Evictable(es) : j < i}) < Cardinality(DOMAIN es) - RegistryMax}
EnforceCap(es) == Drop(es, Evicted(es))

Card(kind, root, subject, target, waiters) ==
    [kind |-> kind, root |-> root, subject |-> subject, state |-> "pending",
     dismissed |-> FALSE, target |-> target, waiters |-> waiters]

\* Broken register: the id is not used up.
RegisterReusingId(card) ==
    /\ nextId <= MaxId
    /\ entries' = EnforceCap(Add(entries, [i \in {nextId} |-> card]))
    /\ nextId' = nextId

Register(card) ==
    /\ nextId <= MaxId
    /\ entries' = EnforceCap(Add(entries, [i \in {nextId} |-> card]))
    /\ nextId' = nextId + 1

\* Broken settle: only the agent that opened the card is answered.
OneWaiterOf(ids) ==
    {CHOOSE c \in entries[i].waiters : TRUE : i \in {j \in ids : entries[j].waiters # {}}}

WaitersOf(ids) == UNION {entries[i].waiters : i \in ids}

\* The tail of gatedTerminalInput once approval is out of the way: write the
\* body, which fails on a dead pty, then wait before pressing Enter.
TypeBody(k) ==
    IF k.payload # "enter" /\ k.pty \notin live THEN Done("error")
    ELSE IF k.payload = "keys" THEN Done("sent")
    ELSE [k EXCEPT !.phase = "typing"]

\* Broken gatedTerminalInput: the grant's timeout is looked at, its denial is not.
AfterAnyAnswer(k, outcome) ==
    IF k.phase = "grant" /\ outcome # "timedOut" THEN TypeBody(k) ELSE Done(outcome)

\* What a call does with the answer to the card it awaited.
AfterAnswer(k, outcome) ==
    IF k.phase = "grant" /\ outcome = "ok" THEN TypeBody(k) ELSE Done(outcome)

Answer(callers, outcome) ==
    call' = [c \in Callers |-> IF c \in callers THEN AfterAnswer(call[c], outcome) ELSE call[c]]

\* settle, for every id in a set: drop the cards and answer all who wait.
Settle(ids, outcome) ==
    /\ entries' = Drop(entries, ids)
    /\ Answer(WaitersOf(ids), outcome)

-----------------------------------------------------------------------------
(* An agent asks for a secret.                                             *)

\* No window to ask in: answered at once, and nothing is stored.
RefuseSecret(c) ==
    /\ NoWindow
    /\ call' = [call EXCEPT ![c] = Done("no")]
    /\ UNCHANGED <<entries, nextId>>

\* A card already asks for it: wait on that one, on its running timer.
JoinSecret(c, root, name) ==
    /\ ~NoWindow
    /\ \E i \in First(Coalescable(root, name)) :
           entries' = [entries EXCEPT ![i].waiters = @ \cup {c}]
    /\ call' = [call EXCEPT ![c] = AwaitSecret]
    /\ UNCHANGED nextId

OpenSecret(c, root, name) ==
    /\ ~NoWindow /\ Coalescable(root, name) = {}
    /\ \E w \in PickWindow(root) : Register(Card("secret", root, name, w, {c}))
    /\ call' = [call EXCEPT ![c] = AwaitSecret]

\* requestSecretFromUser
RequestSecret(c, root, name) ==
    /\ call[c].phase = "idle"
    /\ \/ RefuseSecret(c)
       \/ JoinSecret(c, root, name)
       \/ OpenSecret(c, root, name)
    /\ UNCHANGED <<windowVars, live, granted, acknowledged>>

-----------------------------------------------------------------------------
(* An agent types into a terminal: gatedTerminalInput.                     *)

\* Up to the first await: an unknown pty is an error, whatever the preference.
SendInput(c, p, payload) ==
    /\ call[c].phase = "idle"
    /\ call' = [call EXCEPT ![c] =
           IF p \notin live THEN Done("error")
           ELSE [phase |-> "asking", pty |-> p, payload |-> payload,
                 asked |-> FALSE, result |-> "none"]]
    /\ UNCHANGED <<windowVars, live, entries, nextId, granted, acknowledged>>

\* The preference says no card: type at once.
TypeUnasked(c) ==
    /\ call' = [call EXCEPT ![c] = TypeBody(call[c])]
    /\ UNCHANGED <<entries, nextId>>

\* requestTerminalGrant short-circuits for a granted pty ...
TypeGranted(c) ==
    /\ call[c].pty \in granted
    /\ call' = [call EXCEPT ![c] = TypeBody([call[c] EXCEPT !.asked = TRUE])]
    /\ UNCHANGED <<entries, nextId>>

\* ... denies when there is no window ...
RefuseGrant(c) ==
    /\ call[c].pty \notin granted /\ NoWindow
    /\ call' = [call EXCEPT ![c] = Done("no")]
    /\ UNCHANGED <<entries, nextId>>

\* ... and otherwise opens a card of its own: grants never coalesce.
OpenGrant(c) ==
    /\ call[c].pty \notin granted /\ ~NoWindow
    /\ \E w \in PickWindow(None) : Register(Card("grant", None, call[c].pty, w, {c}))
    /\ call' = [call EXCEPT ![c].phase = "grant", ![c].asked = TRUE]

\* The preference has been read; everything to the next await runs with it.
AskFirst(c) ==
    /\ call[c].phase = "asking"
    /\ \/ TypeUnasked(c)
       \/ TypeGranted(c)
       \/ RefuseGrant(c)
       \/ OpenGrant(c)
    /\ UNCHANGED <<windowVars, live, granted, acknowledged>>

\* SUBMIT_DELAY_MS later: press Enter, which fails on a terminal that died.
Submit(c) ==
    /\ call[c].phase = "typing"
    /\ call' = [call EXCEPT ![c] = Done(IF call[c].pty \in live THEN "sent" ELSE "error")]
    /\ UNCHANGED <<windowVars, live, entries, nextId, granted, acknowledged>>

-----------------------------------------------------------------------------
(* The user answers a card, or puts it off.  The stack and the bell show a *)
(* window its own cards only.                                              *)

Shown(i) == i \in DOMAIN entries /\ entries[i].target \in windows

\* resolveSecretRequest.  An expired secret card can still be acted on.
ResolveSecret(i, vaulted) ==
    /\ Shown(i) /\ entries[i].kind = "secret"
    /\ Settle({i}, IF vaulted THEN "ok" ELSE "no")
    /\ UNCHANGED <<windowVars, live, nextId, granted, acknowledged>>

\* resolveTerminalGrant
ResolveGrant(i, yes) ==
    /\ Shown(i) /\ entries[i].kind = "grant"
    /\ granted' = IF yes THEN granted \cup {entries[i].subject} ELSE granted
    /\ Settle({i}, IF yes THEN "ok" ELSE "no")
    /\ UNCHANGED <<windowVars, live, nextId, acknowledged>>

\* Dismissing a notice acknowledges its app; dismissing a request only moves
\* the card to the bell, and the agent keeps waiting.
DismissNotice(i) ==
    /\ entries[i].kind = "notice"
    /\ acknowledged' = acknowledged \cup {entries[i].subject}
    /\ entries' = Drop(entries, {i})

DismissRequest(i) ==
    /\ entries[i].kind # "notice"
    /\ entries' = [entries EXCEPT ![i].dismissed = TRUE]
    /\ UNCHANGED acknowledged

\* dismissAgentRequest
Dismiss(i) ==
    /\ Shown(i)
    /\ DismissNotice(i) \/ DismissRequest(i)
    /\ UNCHANGED <<windowVars, live, nextId, granted, call>>

\* forgetLongRunningNotice: a Stop that worked retires the card at once.
ForgetNotice(i) ==
    /\ Shown(i) /\ entries[i].kind = "notice"
    /\ entries' = Drop(entries, {i})
    /\ UNCHANGED <<windowVars, live, nextId, granted, acknowledged, call>>

-----------------------------------------------------------------------------
(* The events that make a request moot, or move it.                        *)

\* Broken expire: a card that is worthless once expired is left alone.
ExpireActionable(i) ==
    /\ i \in DOMAIN entries
    /\ entries[i].kind # "notice" /\ entries[i].state = "pending"
    /\ ActionableAfterExpiry(entries[i].kind)
    /\ entries' = [entries EXCEPT ![i].state = "expired", ![i].waiters = {}]
    /\ Answer(entries[i].waiters, "timedOut")
    /\ UNCHANGED <<windowVars, live, nextId, granted, acknowledged>>

\* expire: the agent gives up; the card stays if it can still be acted on.
\* The timer is armed exactly while the card is pending.
Expire(i) ==
    /\ i \in DOMAIN entries
    /\ entries[i].kind # "notice" /\ entries[i].state = "pending"
    /\ entries' = IF ActionableAfterExpiry(entries[i].kind)
                  THEN [entries EXCEPT ![i].state = "expired", ![i].waiters = {}]
                  ELSE Drop(entries, {i})
    /\ Answer(entries[i].waiters, "timedOut")
    /\ UNCHANGED <<windowVars, live, nextId, granted, acknowledged>>

\* secrets:set ends in resolveExternallyVaulted: every card asking for this
\* secret, pending or expired, is settled as satisfied.
VaultByHand(root, name) ==
    /\ Settle({i \in DOMAIN entries : SameRequest(entries[i], root, name)}, "ok")
    /\ UNCHANGED <<windowVars, live, nextId, granted, acknowledged>>

\* The onExit handler of a pty: its session is gone and its grant cards are moot.
PtyExit(p) ==
    /\ p \in live
    /\ live' = live \ {p}
    /\ Settle({i \in DOMAIN entries : /\ PrunedOnPtyExit(entries[i].kind)
                                      /\ entries[i].subject = p}, "no")
    /\ UNCHANGED <<windowVars, nextId, granted, acknowledged>>

\* One notice for each identity the registry does not show yet, with ids in some
\* order of the scan; each goes to the window of the app's project.
NewNotices(fresh) ==
    LET ids == nextId..(nextId + Cardinality(fresh) - 1) IN
    {new \in [ids -> {Card("notice", AppRoot[a], a, w, {}) : a \in fresh, w \in windows \cup {None}}] :
        /\ \A i, j \in ids : new[i].subject = new[j].subject => i = j
        /\ \A i \in ids : new[i].target \in PickWindow(new[i].root)}

\* The user's acknowledgement outlives the notice.
Wanted(apps) == apps \ acknowledged

\* reconcileLongRunningApps: the poll states the whole truth.  Gone or
\* acknowledged apps lose their notice, shown ones keep it, the rest get one.
\* A poll that changes nothing does not look at the cap either.
Notices == {i \in DOMAIN entries : entries[i].kind = "notice"}
Gone(apps) == {i \in Notices : entries[i].subject \notin Wanted(apps)}
Fresh(apps) == Wanted(apps) \ {entries[i].subject : i \in Notices}

Reconcile(apps) ==
    /\ Gone(apps) # {} \/ Fresh(apps) # {}
    /\ nextId + Cardinality(Fresh(apps)) - 1 <= MaxId
    /\ \E new \in NewNotices(Fresh(apps)) :
           entries' = EnforceCap(Add(Drop(entries, Gone(apps)), new))
    /\ nextId' = nextId + Cardinality(Fresh(apps))
    /\ UNCHANGED <<windowVars, live, granted, acknowledged, call>>

-----------------------------------------------------------------------------
(* Windows.                                                                *)

\* createWindow.  Its renderer has reported nothing yet.
NewWindow ==
    /\ lastWindow < MaxWindow
    /\ lastWindow' = lastWindow + 1
    /\ windows' = windows \cup {lastWindow'}
    /\ UNCHANGED <<focused, active, tabs, live, entries, nextId, granted, acknowledged, call>>

\* The renderer reports which project its window is on: a folder opened, a tab
\* selected, the last one closed.
SetActive(w, root) ==
    /\ w \in windows /\ active[w] # root
    /\ active' = [active EXCEPT ![w] = root]
    /\ UNCHANGED <<windows, lastWindow, focused, tabs, live, entries, nextId, granted,
                   acknowledged, call>>

\* In a message of its own it reports the projects its tabs hold.
SetTabs(w, open) ==
    /\ w \in windows /\ tabs[w] # open
    /\ tabs' = [tabs EXCEPT ![w] = open]
    /\ UNCHANGED <<windows, lastWindow, focused, active, live, entries, nextId, granted,
                   acknowledged, call>>

\* Focus moves to an app window, or to none (another app, or Atlas's window).
Focus(w) ==
    /\ w \in windows \cup {None} /\ w # focused
    /\ focused' = w
    /\ UNCHANGED <<windows, lastWindow, active, tabs, live, entries, nextId, granted,
                   acknowledged, call>>

\* Broken reroute: only cards an agent still waits on are moved.
ReroutePending(w, ws, focus, on, open) ==
    LET orphans == {i \in DOMAIN entries : entries[i].target = w /\ entries[i].waiters # {}} IN
    \/ /\ ws = {}
       /\ Settle(orphans, "no")
    \/ /\ ws # {}
       /\ \E to \in [orphans -> ws] :
            /\ \A i \in orphans : to[i] \in Pick(ws, focus, on, open, entries[i].root)
            /\ entries' = [i \in DOMAIN entries |->
                   IF i \in orphans THEN [entries[i] EXCEPT !.target = to[i]] ELSE entries[i]]
       /\ UNCHANGED call

\* rerouteRequestsFromClosedWindow, run once the closing window is out of every
\* map: its cards move to a survivor, or are settled when nothing survives.
Reroute(w, ws, focus, on, open) ==
    LET orphans == {i \in DOMAIN entries : entries[i].target = w} IN
    \/ /\ ws = {}
       /\ Settle(orphans, "no")
    \/ /\ ws # {}
       /\ \E to \in [orphans -> ws] :
            /\ \A i \in orphans : to[i] \in Pick(ws, focus, on, open, entries[i].root)
            /\ entries' = [i \in DOMAIN entries |->
                   IF i \in orphans THEN [entries[i] EXCEPT !.target = to[i]] ELSE entries[i]]
       /\ UNCHANGED call

\* The "closed" handler of a window.
CloseWindow(w) ==
    /\ w \in windows
    /\ windows' = windows \ {w}
    /\ active' = [active EXCEPT ![w] = None]
    /\ tabs' = [tabs EXCEPT ![w] = {}]
    /\ focused' \in IF focused = w THEN windows' \cup {None} ELSE {focused}
    /\ Reroute(w, windows', focused', active', tabs')
    /\ UNCHANGED <<lastWindow, live, nextId, granted, acknowledged>>

-----------------------------------------------------------------------------
Ids == 1..MaxId

Agent(c) ==
    \/ \E root \in Roots \cup {None}, name \in Names : RequestSecret(c, root, name)
    \/ \E p \in Ptys, payload \in Payloads : SendInput(c, p, payload)
    \/ AskFirst(c)
    \/ Submit(c)

User(i) ==
    \/ \E answer \in BOOLEAN : ResolveSecret(i, answer) \/ ResolveGrant(i, answer)
    \/ Dismiss(i)
    \/ ForgetNotice(i)

Lifecycle ==
    \/ \E i \in Ids : Expire(i)
    \/ \E root \in Roots, name \in Names : VaultByHand(root, name)
    \/ \E p \in Ptys : PtyExit(p)
    \/ \E apps \in SUBSET Apps : Reconcile(apps)

Desktop ==
    \/ NewWindow
    \/ \E w \in windows, root \in Roots \cup {None} : SetActive(w, root)
    \/ \E w \in windows, open \in SUBSET Roots : SetTabs(w, open)
    \/ \E w \in windows \cup {None} : Focus(w)
    \/ \E w \in windows : CloseWindow(w)

Next ==
    \/ \E c \in Callers : Agent(c)
    \/ \E i \in Ids : User(i)
    \/ Lifecycle
    \/ Desktop

Spec == Init /\ [][Next]_vars

\* What the event loop guarantees: armed timers fire, the preferences file is
\* read, the submit delay elapses.  Nothing is assumed of the user.
Fairness ==
    /\ \A i \in Ids : WF_vars(Expire(i))
    /\ \A c \in Callers : WF_vars(AskFirst(c)) /\ WF_vars(Submit(c))

FairSpec == Spec /\ Fairness

-----------------------------------------------------------------------------
(* Correctness.                                                            *)

\* An agent that waits is held by exactly one card, which is still pending, and
\* a card holds only agents that wait on it: nobody is forgotten by an eviction,
\* a reroute or a dismissal, and nobody can be answered twice.
Held(c) == {i \in DOMAIN entries : c \in entries[i].waiters}

NoStrandedAgent ==
    \A c \in Callers :
        IF call[c].phase \in Waiting
        THEN \E i \in DOMAIN entries :
                 /\ Held(c) = {i}
                 /\ entries[i].state = "pending" /\ entries[i].kind = call[c].phase
        ELSE Held(c) = {}

\* At most one pending card asks the user for a given secret of a given project,
\* however many agents want it.
OneCardPerSecret ==
    \A i, j \in DOMAIN entries :
        (/\ i # j /\ entries[i].kind = "secret" /\ entries[j].kind = "secret"
         /\ entries[i].state = "pending" /\ entries[j].state = "pending")
        => <<entries[i].root, entries[i].subject>> # <<entries[j].root, entries[j].subject>>

\* A request card is always in a live window, whatever windows open and close:
\* one in a dead window would be in no stack and no bell until it expires.
CardsOnScreen ==
    \A i \in DOMAIN entries : entries[i].kind # "notice" => entries[i].target \in windows

\* A call that was told to ask types only into a terminal the user approved.
ApprovedBeforeTyping ==
    \A c \in Callers :
        call[c].phase = "typing" /\ call[c].asked => call[c].pty \in granted

\* Registering a card over the cap leaves no card that nobody waits on, so a
\* pile of stale cards and notices never grows, and never at an agent's expense.
CapHolds ==
    [][nextId' > nextId => \/ Cardinality(DOMAIN entries') <= RegistryMax
                           \/ \A i \in DOMAIN entries' : entries'[i].waiters # {}]_vars

\* Agents that share a card share its fate: if a step answers one, it answers
\* all of them, and with the same result.
SharedFate ==
    [][\A c, d \in Callers :
         (/\ Held(c) = Held(d) /\ call[c].phase = "secret" /\ call[d].phase = "secret"
          /\ call'[c].phase = "idle")
         => call'[d] = call'[c]]_vars

\* Every tool call returns, even if the user never looks at a card: dismissing,
\* rerouting and coalescing never lose the timer.
EveryCallReturns ==
    \A c \in Callers : call[c].phase # "idle" ~> call[c].phase = "idle"

=============================================================================
