------------------------------- MODULE TabMove -------------------------------
(***************************************************************************)
(* Project tabs that move between windows with their shells running.       *)
(*                                                                          *)
(* The main process (ipc.ts, window.ts, tabdrag/) owns the pty sessions and *)
(* records which window each one belongs to; every window's renderer        *)
(* (store.ts, TerminalPane.tsx, ProjectTabs.tsx) mounts a pane for each     *)
(* terminal of the tab.  Releasing a dragged tab over another window, or    *)
(* over none, moves it: main tickets its ptys, hands its description to the *)
(* receiving window, and only then tells the source to let go; the panes    *)
(* mounted by the receiver spend the tickets to adopt the live ptys.        *)
(*                                                                          *)
(* Main and a renderer talk over two ordered channels.  One tab is          *)
(* modelled; its copies are numbered by how often it has moved, so a pane   *)
(* is named by a terminal and a copy, and a pty by the pane that spawned    *)
(* it.  Main's handlers and React's commits run to completion.              *)
(***************************************************************************)
EXTENDS Integers, SequencesExt

CONSTANTS
    Terms,      \* terminal ids of the tab; they survive a move
    MaxWindow,  \* bound: windows ever created
    MaxMoves,   \* bound: moves of the tab
    None

ASSUME BoundsAssumption == MaxWindow \in Nat \ {0} /\ MaxMoves \in Nat

Windows == 1..MaxWindow
Copies == 0..MaxMoves
PaneIds == Terms \X Copies

ASSUME TermsAssumption == IsFiniteSet(Terms)

VARIABLES
    moves,     \* how often the tab has moved: the number of its latest copy
    wins,      \* live app windows
    lastWin,   \* the highest window id handed out
    booted,    \* windows whose renderer has mounted and listens
    tab,       \* the copy of the tab each window shows, or None
    panes,     \* each pane: its window, its pty (idRef, or the one to adopt), its state
    owner,     \* sessionWindows: live pty -> window (sessionTargets agrees)
    tickets,   \* MovingSessions
    killed,    \* ptys sent a kill whose exit main has not seen
    creating,  \* panes whose pty:create is in its awaits
    parked,    \* pendingAdopts of main: what a new window has to claim, or None
    toMain,    \* IPC from each renderer to main, in order
    toWin      \* IPC from main to each renderer, in order

vars == <<moves, wins, lastWin, booted, tab, panes, owner, tickets, killed, creating,
          parked, toMain, toWin>>
ptyVars == <<owner, tickets, killed>>
desktop == <<moves, wins, lastWin, booted, parked>>

-----------------------------------------------------------------------------
(* The shape of the state.                                                 *)

Loads == UNION {[ts -> PaneIds \cup {None}] : ts \in SUBSET Terms}  \* MovingTab.terminals

\* closed: unmounted by the user, an exit or a failed attach; left: unmounted
\* because its tab moved out; lost: its renderer is gone.
PaneStates == {"unused", "waiting", "up", "closed", "left", "lost"}
Pane == [win : Windows \cup {None}, pty : PaneIds \cup {None}, state : PaneStates]

TabMessage == [op : {"tab"}, load : Loads, copy : Copies]
Request == [op : {"create", "adopt"}, pane : PaneIds] \cup [op : {"kill"}, pty : PaneIds]
           \cup [op : {"end"}, load : Loads, canDetach : BOOLEAN]
Notice == [op : {"created", "adopted", "failed"}, pane : PaneIds]
          \cup [op : {"exit"}, pty : PaneIds] \cup [op : {"moved", "stays"}] \cup TabMessage

ASSUME NoneAssumption == None \notin Nat \cup PaneIds \cup TabMessage

TypeOK ==
    /\ moves \in Copies
    /\ wins \subseteq 1..lastWin /\ lastWin \in Windows
    /\ booted \subseteq wins
    /\ tab \in [Windows -> Copies \cup {None}]
    /\ panes \in [PaneIds -> Pane]
    /\ DOMAIN owner \subseteq PaneIds /\ owner \in [DOMAIN owner -> Windows \cup {None}]
    /\ tickets \subseteq PaneIds /\ killed \subseteq DOMAIN owner
    /\ creating \subseteq PaneIds
    /\ parked \in [Windows -> TabMessage \cup {None}]
    /\ toMain \in [Windows -> Seq(Request)] /\ toWin \in [Windows -> Seq(Notice)]

\* One window with the tab open and no terminal in it yet.
Init ==
    /\ moves = 0
    /\ wins = {1} /\ lastWin = 1 /\ booted = {1}
    /\ tab = [w \in Windows |-> IF w = 1 THEN 0 ELSE None]
    /\ panes = [i \in PaneIds |-> [win |-> None, pty |-> None, state |-> "unused"]]
    /\ owner = <<>> /\ tickets = {} /\ killed = {}
    /\ creating = {}
    /\ parked = [w \in Windows |-> None]
    /\ toMain = [w \in Windows |-> <<>>] /\ toWin = [w \in Windows |-> <<>>]

-----------------------------------------------------------------------------
(* Channels and panes.                                                     *)

Mounted(i) == panes[i].state \in {"waiting", "up"}
MountedIn(w) == {i \in PaneIds : Mounted(i) /\ panes[i].win = w}

Asks(w, op) == toMain[w] # <<>> /\ Head(toMain[w]).op = op
Hears(w, op) == toWin[w] # <<>> /\ Head(toWin[w]).op = op

Sent(queues, w, msgs) == [queues EXCEPT ![w] = @ \o msgs]
Taken(queues, w) == [queues EXCEPT ![w] = Tail(@)]

\* webContents.send: a renderer that has not mounted yet has nothing subscribed.
Told(queues, w, msg) == IF w \in booted THEN Sent(queues, w, <<msg>>) ELSE queues

KillRequests(ids) == SetToSeq({[op |-> "kill", pty |-> panes[i].pty] :
                                  i \in {j \in ids : panes[j].state = "up"}})

\* What rides along in a moving tab: each terminal and the pty it is known by.
LoadOf(w) ==
    [t \in {u \in Terms : <<u, tab[w]>> \in MountedIn(w)} |-> panes[<<t, tab[w]>>].pty]

DropPending(w) == \/ \E k \in DOMAIN toMain[w] : toMain[w][k].op = "end"
                  \/ \E k \in DOMAIN toWin[w] : toWin[w][k].op \in {"moved", "stays"}

-----------------------------------------------------------------------------
(* The renderer of a window.                                               *)

\* A new terminal: its pane mounts and asks for a shell.
OpenTerminal(w, t) ==
    /\ w \in booted /\ tab[w] # None
    /\ \A c \in Copies : panes[<<t, c>>].state = "unused"
    /\ panes' = [panes EXCEPT ![<<t, tab[w]>>] =
                    [win |-> w, pty |-> None, state |-> "waiting"]]
    /\ toMain' = Sent(toMain, w, <<[op |-> "create", pane |-> <<t, tab[w]>>]>>)
    /\ UNCHANGED <<desktop, tab, ptyVars, creating, toWin>>

\* TerminalPane's effect cleanup when the user closes a terminal or the tab: a
\* pane that knows its pty kills it; one still waiting for it cannot.
ClosePanes(w, ids) ==
    /\ panes' = [i \in PaneIds |-> IF i \in ids THEN [panes[i] EXCEPT !.state = "closed"]
                                   ELSE panes[i]]
    /\ toMain' = Sent(toMain, w, KillRequests(ids))
    /\ UNCHANGED <<desktop, ptyVars, creating, toWin>>

CloseTerminal(i) ==
    /\ Mounted(i)
    /\ ClosePanes(panes[i].win, {i})
    /\ UNCHANGED tab

CloseTab(w) ==
    /\ tab[w] # None
    /\ ClosePanes(w, MountedIn(w))
    /\ tab' = [tab EXCEPT ![w] = None]

\* onDragEnd sends what the tab holds NOW; the tab stays until main answers.  A
\* drag outlasts the answer to the one before it.
EndDrag(w, canDetach) ==
    /\ w \in booted /\ tab[w] # None /\ ~DropPending(w)
    /\ toMain' = Sent(toMain, w, <<[op |-> "end", load |-> LoadOf(w), canDetach |-> canDetach]>>)
    /\ UNCHANGED <<desktop, tab, panes, ptyVars, creating, toWin>>

\* ptyCreate resolves.  A pane that unmounted meanwhile kills its newborn shell.
HearCreated(w) ==
    /\ Hears(w, "created")
    /\ LET i == Head(toWin[w]).pane IN
       /\ panes' = IF panes[i].state = "waiting"
                   THEN [panes EXCEPT ![i].pty = i, ![i].state = "up"] ELSE panes
       /\ toMain' = IF panes[i].state \in {"closed", "left"}
                    THEN Sent(toMain, w, <<[op |-> "kill", pty |-> i]>>) ELSE toMain
    /\ toWin' = Taken(toWin, w)
    /\ UNCHANGED <<desktop, tab, ptyVars, creating>>

\* ptyAdopt resolves.  A pane that unmounted meanwhile leaves the session be.
HearAdopted(w) ==
    /\ Hears(w, "adopted")
    /\ LET i == Head(toWin[w]).pane IN
       panes' = IF panes[i].state = "waiting" THEN [panes EXCEPT ![i].state = "up"] ELSE panes
    /\ toWin' = Taken(toWin, w)
    /\ UNCHANGED <<desktop, tab, ptyVars, creating, toMain>>

\* Broken attach: a rejection is only logged.
HearFailedOnly(w) ==
    /\ Hears(w, "failed")
    /\ toWin' = Taken(toWin, w)
    /\ UNCHANGED <<desktop, tab, panes, ptyVars, creating, toMain>>

\* The pane a window shows for a terminal, if any.
ShownFor(w, t) == {i \in MountedIn(w) : i[1] = t}

\* The attach was rejected: removeTerminal leaves no zombie.  It goes by the id of
\* the terminal, so the late rejection of a pane that has gone with its tab closes
\* the one that stands for the terminal since the tab is back.
HearFailed(w) ==
    /\ Hears(w, "failed")
    /\ LET gone == ShownFor(w, Head(toWin[w]).pane[1]) IN
       /\ panes' = [i \in PaneIds |-> IF i \in gone THEN [panes[i] EXCEPT !.state = "closed"]
                                      ELSE panes[i]]
       /\ toMain' = Sent(toMain, w, KillRequests(gone))
    /\ toWin' = Taken(toWin, w)
    /\ UNCHANGED <<desktop, tab, ptyVars, creating>>

\* pty:exit: the pane of that pty goes, without a kill.
HearExit(w) ==
    /\ Hears(w, "exit")
    /\ LET gone == {i \in MountedIn(w) : /\ panes[i].state = "up"
                                         /\ panes[i].pty = Head(toWin[w]).pty} IN
       panes' = [i \in PaneIds |-> IF i \in gone THEN [panes[i] EXCEPT !.state = "closed"]
                                   ELSE panes[i]]
    /\ toWin' = Taken(toWin, w)
    /\ UNCHANGED <<desktop, tab, ptyVars, creating, toMain>>

\* adoptTab: a pane mounts for each terminal and adopts its pty, or spawns a
\* fresh one for a terminal that had none when the drag ended.
HearTab(w) ==
    /\ Hears(w, "tab")
    /\ LET load == Head(toWin[w]).load
           copy == Head(toWin[w]).copy
           ids == {<<t, copy>> : t \in DOMAIN load} IN
       /\ tab' = [tab EXCEPT ![w] = copy]
       /\ panes' = [i \in PaneIds |->
              IF i \in ids THEN [win |-> w, pty |-> load[i[1]], state |-> "waiting"]
              ELSE panes[i]]
       /\ toMain' = Sent(toMain, w, SetToSeq(
              {[op |-> IF load[i[1]] = None THEN "create" ELSE "adopt", pane |-> i] : i \in ids}))
    /\ toWin' = Taken(toWin, w)
    /\ UNCHANGED <<desktop, ptyVars, creating>>

\* Main moved the tab: detachTab drops it, and its panes unmount without killing
\* what they show (movingPtyIds is filled and emptied within this step).
LetGo(w) ==
    /\ Hears(w, "moved")
    /\ tab' = [tab EXCEPT ![w] = None]
    /\ panes' = [i \in PaneIds |-> IF i \in MountedIn(w) THEN [panes[i] EXCEPT !.state = "left"]
                                   ELSE panes[i]]
    /\ toWin' = Taken(toWin, w)
    /\ UNCHANGED <<desktop, ptyVars, creating, toMain>>

HearStays(w) ==
    /\ Hears(w, "stays")
    /\ toWin' = Taken(toWin, w)
    /\ UNCHANGED <<desktop, tab, panes, ptyVars, creating, toMain>>

-----------------------------------------------------------------------------
(* Main: the pty handlers.                                                 *)

\* pty:create up to its awaits (project config, secrets, shim).
BeginCreate(w) ==
    /\ Asks(w, "create")
    /\ creating' = creating \cup {Head(toMain[w]).pane}
    /\ toMain' = Taken(toMain, w)
    /\ UNCHANGED <<desktop, tab, panes, ptyVars, toWin>>

\* ... and after them: the shell starts, owned by whatever window the asking
\* renderer now belongs to, or fails to.  A renderer that is gone is not answered.
FinishCreate(i) ==
    /\ i \in creating
    /\ creating' = creating \ {i}
    /\ LET w == panes[i].win
           answer(op) == IF panes[i].state = "lost" THEN toWin
                         ELSE Told(toWin, w, [op |-> op, pane |-> i]) IN
       \/ /\ owner' = [p \in DOMAIN owner \cup {i} |->
                          IF p # i THEN owner[p] ELSE IF w \in wins THEN w ELSE None]
          /\ toWin' = answer("created")
       \/ /\ toWin' = answer("failed")
          /\ UNCHANGED owner
    /\ UNCHANGED <<desktop, tab, panes, tickets, killed, toMain>>

\* MovingSessions.claim
Claim(p) == p \in tickets /\ tickets' = tickets \ {p}

\* pty:adopt: spend the ticket and re-point the session, in one step.
Adopt(w) ==
    /\ Asks(w, "adopt")
    /\ LET i == Head(toMain[w]).pane
           p == panes[i].pty IN
       \/ /\ p \in DOMAIN owner /\ Claim(p)
          /\ owner' = [owner EXCEPT ![p] = w]
          /\ toWin' = Told(toWin, w, [op |-> "adopted", pane |-> i])
       \/ /\ ~(p \in DOMAIN owner /\ p \in tickets)
          /\ toWin' = Told(toWin, w, [op |-> "failed", pane |-> i])
          /\ UNCHANGED <<owner, tickets>>
    /\ toMain' = Taken(toMain, w)
    /\ UNCHANGED <<desktop, tab, panes, killed, creating>>

\* pty:kill, refused unless the sender's window owns the session.
Kill(w) ==
    /\ Asks(w, "kill")
    /\ LET p == Head(toMain[w]).pty IN
       killed' = IF p \in DOMAIN owner /\ owner[p] = w THEN killed \cup {p} ELSE killed
    /\ toMain' = Taken(toMain, w)
    /\ UNCHANGED <<desktop, tab, panes, owner, tickets, creating, toWin>>

\* onExit: the process ended, by itself or because it was killed.
PtyExit(p) ==
    /\ p \in DOMAIN owner
    /\ owner' = [q \in DOMAIN owner \ {p} |-> owner[q]]
    /\ tickets' = tickets \ {p}
    /\ killed' = killed \ {p}
    /\ toWin' = IF owner[p] = None THEN toWin
                ELSE Told(toWin, owner[p], [op |-> "exit", pty |-> p])
    /\ UNCHANGED <<desktop, tab, panes, creating, toMain>>

-----------------------------------------------------------------------------
(* Main: a drop.                                                           *)

Ptys(load) == {load[t] : t \in DOMAIN load} \ {None}

\* Broken endTabDrag: a detach is answered like a drop that moved nothing.
AnswerMerges(to) == [op |-> IF to \in wins THEN "moved" ELSE "stays"]

\* What the source hears: detachTab follows only a drop that moved the tab.
AnswerTo(to) == [op |-> IF to = None THEN "stays" ELSE "moved"]

\* resolveDropTarget and dropAction: None for a drop that moves nothing, another
\* live window to merge into, or the window about to be created.
DropTargets(w, canDetach) ==
    {None} \cup (wins \ {w}) \cup
    (IF canDetach /\ lastWin < MaxWindow THEN {lastWin + 1} ELSE {})

\* endTabDrag: ticket the ptys, then push the tab to the window it merges into or
\* park it for a new one; the source is answered last.
Drop(w) ==
    /\ Asks(w, "end")
    /\ \E to \in DropTargets(w, Head(toMain[w]).canDetach) :
         LET load == Head(toMain[w]).load
             msg == [op |-> "tab", load |-> load, copy |-> moves + 1]
             answered == Told(toWin, w, AnswerTo(to)) IN
         \/ /\ to = None
            /\ toWin' = answered
            /\ UNCHANGED <<desktop, tickets>>
         \/ /\ to \in wins /\ moves < MaxMoves
            /\ tickets' = tickets \cup Ptys(load)
            /\ toWin' = Told(answered, to, msg)
            /\ moves' = moves + 1
            /\ UNCHANGED <<wins, lastWin, booted, parked>>
         \/ /\ to \notin wins \cup {None} /\ moves < MaxMoves
            /\ tickets' = tickets \cup Ptys(load)
            /\ lastWin' = to /\ wins' = wins \cup {to}
            /\ parked' = [parked EXCEPT ![to] = msg]
            /\ toWin' = answered
            /\ moves' = moves + 1
            /\ UNCHANGED booted
    /\ toMain' = Taken(toMain, w)
    /\ UNCHANGED <<tab, panes, owner, killed, creating>>

-----------------------------------------------------------------------------
(* Main: windows.                                                          *)

\* createWindow: an app window without the tab.
NewWindow ==
    /\ lastWin < MaxWindow
    /\ lastWin' = lastWin + 1
    /\ wins' = wins \cup {lastWin'}
    /\ UNCHANGED <<moves, booted, parked, tab, panes, ptyVars, creating, toMain, toWin>>

\* Broken takePendingAdopt: the parked tab is read but not removed.
ReadPending(w) == parked

\* takePendingAdopt is single-use.
TakePending(w) == [parked EXCEPT ![w] = None]

\* A renderer mounts: it subscribes, and claims the tab parked for its window.
Boot(w) ==
    /\ w \in wins \ booted
    /\ booted' = booted \cup {w}
    /\ toWin' = IF parked[w] = None THEN toWin ELSE Sent(toWin, w, <<parked[w]>>)
    /\ parked' = TakePending(w)
    /\ UNCHANGED <<wins, lastWin, moves, tab, panes, ptyVars, creating, toMain>>

\* Broken killSessionsForWindow: a session that is being moved is not spared.
AllOwned(w) == {p \in DOMAIN owner : owner[p] = w}

\* killSessionsForWindow spares what is being moved.
Reaped(w) == {p \in DOMAIN owner : owner[p] = w /\ p \notin tickets}

\* Broken "closed" handler: the window stays listed.
StillListed(w) == booted

\* A destroyed renderer hears nothing.
Unlisted(w) == booted \ {w}

\* The renderer of a window is destroyed: no cleanup runs in it, and what was on
\* its way to or from it is lost.
LoseRenderer(w) ==
    /\ booted' = Unlisted(w)
    /\ tab' = [tab EXCEPT ![w] = None]
    /\ panes' = [i \in PaneIds |-> IF panes[i].win = w /\ panes[i].state # "unused"
                                   THEN [win |-> w, pty |-> None, state |-> "lost"] ELSE panes[i]]
    /\ toMain' = [toMain EXCEPT ![w] = <<>>]
    /\ toWin' = [toWin EXCEPT ![w] = <<>>]
    /\ killed' = killed \cup Reaped(w)
    /\ UNCHANGED <<lastWin, moves, owner, tickets, creating>>

\* did-start-navigation, or render-process-gone and a reload
Reload(w) ==
    /\ w \in booted
    /\ LoseRenderer(w)
    /\ UNCHANGED <<wins, parked>>

\* The closed handler; forgetWindow drops a tab nobody claimed.
CloseWindow(w) ==
    /\ w \in wins
    /\ LoseRenderer(w)
    /\ wins' = wins \ {w}
    /\ parked' = [parked EXCEPT ![w] = None]

-----------------------------------------------------------------------------
Renderer(w) == \/ HearCreated(w) \/ HearAdopted(w) \/ HearFailed(w) \/ HearExit(w)
               \/ HearTab(w) \/ LetGo(w) \/ HearStays(w)

Main(w) == BeginCreate(w) \/ Adopt(w) \/ Kill(w) \/ Drop(w)

User(w) == \/ \E t \in Terms : OpenTerminal(w, t)
           \/ CloseTab(w)
           \/ \E canDetach \in BOOLEAN : EndDrag(w, canDetach)
           \/ Reload(w)
           \/ CloseWindow(w)

Next ==
    \/ \E w \in Windows : Renderer(w) \/ Main(w) \/ Boot(w) \/ User(w)
    \/ \E i \in PaneIds : CloseTerminal(i) \/ FinishCreate(i) \/ PtyExit(i)
    \/ NewWindow

Spec == Init /\ [][Next]_vars

\* Both event loops run: messages are handled, awaits resolve, renderers mount.
\* Nothing is assumed of the user or of the shells.
Fairness ==
    /\ \A w \in Windows : WF_vars(Renderer(w)) /\ WF_vars(Main(w)) /\ WF_vars(Boot(w))
    /\ \A i \in PaneIds : WF_vars(FinishCreate(i))

FairSpec == Spec /\ Fairness

-----------------------------------------------------------------------------
(* Correctness.                                                            *)

Coming(w) == {k \in DOMAIN toWin[w] : toWin[w][k].op = "tab"}
LetsGo(w) == \E k \in DOMAIN toWin[w] : toWin[w][k].op = "moved"

\* The tab is in one place: however drags, closes and reloads interleave, no two
\* windows keep it, counting one on its way and not one that is about to let go.
TabInOnePlace ==
    LET keeping == {w \in Windows : tab[w] # None /\ ~LetsGo(w)}
        receiving == {w \in Windows : parked[w] # None \/ Coming(w) # {}} IN
    /\ Cardinality(keeping) + Cardinality(receiving) <= 1
    /\ \A w \in receiving : Cardinality(Coming(w)) <= 1

\* A pane whose session has gone to another window is about to unmount: no window
\* keeps a dead terminal that types into nothing.
PaneKeepsSession ==
    \A i \in PaneIds :
        (/\ panes[i].state = "up" /\ panes[i].pty \in DOMAIN owner
         /\ owner[panes[i].pty] # panes[i].win)
        => LetsGo(panes[i].win)

\* A move never costs a shell: one that is being moved is killed only because a
\* pane of it was closed, and no other is killed under a pane that shows it.
MoveSparesShells ==
    [][\A p \in killed' \ killed :
         /\ p \in tickets => \E i \in PaneIds : panes[i].pty = p /\ panes[i].state = "closed"
         /\ \A i \in PaneIds :
              ~(panes'[i].state = "up" /\ panes'[i].pty = p /\ panes'[i].win = owner[p])]_vars

\* No pane waits for its shell for ever.
PanesSettle ==
    \A i \in PaneIds : panes[i].state = "waiting" ~> panes[i].state # "waiting"

InTransit(p) ==
    \/ \E w \in Windows : parked[w] # None /\ p \in Ptys(parked[w].load)
    \/ \E w \in Windows : \E k \in Coming(w) : p \in Ptys(toWin[w][k].load)
    \/ \E i \in PaneIds : panes[i].state = "waiting" /\ panes[i].pty = p

\* Every running shell is in a pane, on its way to one, or about to be killed:
\* none is left running where the user can neither see nor close it.
ShellsShown ==
    \A p \in DOMAIN owner \ killed :
        \/ InTransit(p)
        \/ \E i \in PaneIds : panes[i].state = "up" /\ panes[i].pty = p
        \/ \E w \in Windows :
              \/ \E k \in DOMAIN toWin[w] : toWin[w][k] = [op |-> "created", pane |-> p]
              \/ \E k \in DOMAIN toMain[w] : toMain[w][k] = [op |-> "kill", pty |-> p]

=============================================================================
