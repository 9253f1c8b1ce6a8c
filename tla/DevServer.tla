------------------------------- MODULE DevServer -------------------------------
(***************************************************************************)
(* The managed dev servers: one per project, run in a terminal of the      *)
(* project's own tab.                                                       *)
(*                                                                          *)
(* The manager (devserver/manager.ts) lives in the main process.  To start *)
(* a server it sends a command to the focused window (agent-commands.ts)   *)
(* and waits at most five seconds; the renderer (useAgentCommands.ts,      *)
(* devServer.ts) opens a terminal, waits for its pty, again at most five   *)
(* seconds, registers it with the manager and answers.  A poll then looks  *)
(* for the port that the terminal's processes listen on, and later for     *)
(* their disappearance.  Users and agents start and stop, close terminals, *)
(* type into them; servers crash; windows come and go.                      *)
(*                                                                          *)
(* A terminal and its pty are one.  Time is left out: a time-out may come  *)
(* at any moment while its timer is armed.                                  *)
(***************************************************************************)
EXTENDS Integers, FiniteSets

CONSTANTS
    Roots,        \* project roots
    Terms,        \* terminals that can be opened; each is used once
    Ports,
    Callers,      \* start calls that can be under way at once
    MaxCommands,  \* bound: commands ever sent to a renderer
    None

ASSUME PortsAssumption == /\ Ports \cap {"none", "quiet"} = {}
                          /\ None \notin Terms \cup Ports \cup Roots
                          /\ None \notin [root : Roots, pty : Terms, settled : BOOLEAN]
ASSUME CommandsAssumption == MaxCommands \in Nat

Commands == 1..MaxCommands

VARIABLES
    states,       \* DevServerState of each root
    rootToPty,    \* the managed terminal of each root
    pollTimers,   \* the interval each root can cancel
    intervals,    \* the intervals that tick
    call,         \* the start call each caller is in
    pending,      \* commands a call awaits: their five-second timers are armed
    lastCommand,  \* the highest command id handed out
    task,         \* each command as its renderer carries it out
    term,         \* each terminal: its project, its shell, the server run in it
    tabs,         \* projects with a tab in the window
    window        \* is there a window?

manager == <<states, rootToPty, pollTimers, intervals>>
commands == <<call, pending, lastCommand, task>>
screen == <<tabs, window>>
vars == <<manager, commands, term, screen>>

-----------------------------------------------------------------------------
(* The shape of the state.                                                 *)

DevServerState == [status : {"idle", "starting", "running", "exited"},
                   port : Ports \cup {None}, terminalId : Terms \cup {None}]
IdleDevServer == [status |-> "idle", port |-> None, terminalId |-> None]

Interval == [root : Roots, pty : Terms, settled : BOOLEAN]

Call == [pc : {"idle", "saving", "config", "guess", "sent"}, root : Roots \cup {None},
         by : {"user", "agent", None}, command : Commands \cup {None}]
NoCall == [pc |-> "idle", root |-> None, by |-> None, command |-> None]

Task == [stage : {"none", "posted", "waiting", "registering", "replying"},
         root : Roots \cup {None}, term : Terms \cup {None}]
NoTask == [stage |-> "none", root |-> None, term |-> None]

\* A server that runs without listening is "quiet".
Servers == {"none", "quiet"} \cup Ports
Terminal == [root : {None}, shell : {"none"}, server : {"none"}]
            \cup [root : Roots, shell : {"opening", "up", "gone"}, server : Servers]

TypeOK ==
    /\ states \in [Roots -> DevServerState]
    /\ rootToPty \in [Roots -> Terms \cup {None}]
    /\ pollTimers \in [Roots -> Interval \cup {None}]
    /\ intervals \subseteq Interval
    /\ call \in [Callers -> Call]
    /\ pending \subseteq 1..lastCommand
    /\ lastCommand \in 0..MaxCommands
    /\ task \in [Commands -> Task]
    /\ term \in [Terms -> Terminal]
    /\ tabs \subseteq Roots /\ window \in BOOLEAN

Init ==
    /\ states = [r \in Roots |-> IdleDevServer]
    /\ rootToPty = [r \in Roots |-> None]
    /\ pollTimers = [r \in Roots |-> None]
    /\ intervals = {}
    /\ call = [c \in Callers |-> NoCall]
    /\ pending = {} /\ lastCommand = 0
    /\ task = [k \in Commands |-> NoTask]
    /\ term = [t \in Terms |-> [root |-> None, shell |-> "none", server |-> "none"]]
    /\ tabs = Roots /\ window = TRUE

-----------------------------------------------------------------------------
(* devServerNextState: what each event makes of a state.                   *)

Active(state) == state.status \in {"starting", "running"}

OnStart(state, t) ==
    IF Active(state) THEN state ELSE [status |-> "starting", port |-> None, terminalId |-> t]
OnPort(state, p) ==
    IF Active(state) THEN [state EXCEPT !.status = "running", !.port = p] ELSE state
OnExit(state) == IF state.status = "idle" THEN state ELSE [state EXCEPT !.status = "exited"]

-----------------------------------------------------------------------------
(* startDevServer and the command it sends.                                *)

\* The check for a server that is already up; nothing is awaited before it.  A
\* call that finds one answers at once.
CheckActive(c, r, by) ==
    call' = [call EXCEPT ![c] = IF Active(states[r]) THEN NoCall
                                ELSE [pc |-> "config", root |-> r, by |-> by, command |-> None]]

StartDevServer(c, r, by) ==
    /\ call[c].pc = "idle"
    /\ CheckActive(c, r, by)
    /\ UNCHANGED <<manager, pending, lastCommand, task, term, screen>>

\* The confirm path: save the command, then start.
SetDevServerCommand(c, r) ==
    /\ call[c].pc = "idle"
    /\ call' = [call EXCEPT ![c] = [pc |-> "saving", root |-> r, by |-> "user", command |-> None]]
    /\ UNCHANGED <<manager, pending, lastCommand, task, term, screen>>

FinishSaving(c) ==
    /\ call[c].pc = "saving"
    /\ CheckActive(c, call[c].root, "user")
    /\ UNCHANGED <<manager, pending, lastCommand, task, term, screen>>

\* Broken runAgentCommand: the command is posted with no timer.
RunUntimed(c) ==
    /\ window /\ lastCommand + 1 \in Commands
    /\ lastCommand' = lastCommand + 1
    /\ task' = [task EXCEPT ![lastCommand'] = [stage |-> "posted", root |-> call[c].root, term |-> None]]
    /\ call' = [call EXCEPT ![c].pc = "sent", ![c].command = lastCommand']
    /\ UNCHANGED pending

\* runAgentCommand: without a window the call fails; else the command is posted
\* and its timer armed.
RunAgentCommand(c) ==
    IF window
    THEN LET k == lastCommand + 1 IN
         /\ k \in Commands
         /\ lastCommand' = k
         /\ pending' = pending \cup {k}
         /\ task' = [task EXCEPT ![k] = [stage |-> "posted", root |-> call[c].root, term |-> None]]
         /\ call' = [call EXCEPT ![c].pc = "sent", ![c].command = k]
    ELSE /\ call' = [call EXCEPT ![c] = NoCall]
         /\ UNCHANGED <<pending, lastCommand, task>>

\* readProjectConfig resolves: a configured command is launched, without one the
\* package is consulted.
ReadProjectConfig(c) ==
    /\ call[c].pc = "config"
    /\ \/ RunAgentCommand(c)
       \/ /\ call' = [call EXCEPT ![c].pc = "guess"]
          /\ UNCHANGED <<pending, lastCommand, task>>
    /\ UNCHANGED <<manager, term, screen>>

\* resolveCommand resolves: only an agent runs the guess, if there is one.
ResolveCommand(c) ==
    /\ call[c].pc = "guess"
    /\ \/ call[c].by = "agent" /\ RunAgentCommand(c)
       \/ /\ call' = [call EXCEPT ![c] = NoCall]
          /\ UNCHANGED <<pending, lastCommand, task>>
    /\ UNCHANGED <<manager, term, screen>>

\* The promise of command k settles and with it the call that awaits it.
Settle(k) ==
    /\ pending' = pending \ {k}
    /\ call' = [c \in Callers |-> IF call[c].pc = "sent" /\ call[c].command = k THEN NoCall
                                  ELSE call[c]]

TimeOut(k) ==
    /\ k \in pending
    /\ Settle(k)
    /\ UNCHANGED <<manager, lastCommand, task, term, screen>>

-----------------------------------------------------------------------------
(* The renderer carries out a command.                                     *)

\* Broken resolveCommandTab: every caller gets the focused tab.
FocusedTab(callerRoot, focused) == focused

\* Which tab a command acts on: the caller's own, whatever is focused.  Only Atlas
\* has no root; it gets the focused tab.
ResolveCommandTab(callerRoot, focused) ==
    IF callerRoot = None THEN focused
    ELSE IF callerRoot \in tabs THEN callerRoot ELSE None

OpensTerminal(k, tab) ==
    \E t \in Terms :
       /\ term[t].shell = "none"
       /\ term' = [term EXCEPT ![t] = [root |-> tab, shell |-> "opening", server |-> "none"]]
       /\ task' = [task EXCEPT ![k].stage = "waiting", ![k].term = t]

\* Broken startManagedDevTerminal: a terminal is opened with no project tab.
TakeAnyhow(k) ==
    /\ task[k].stage = "posted"
    /\ OpensTerminal(k, ResolveCommandTab(task[k].root, None))
    /\ UNCHANGED <<manager, call, pending, lastCommand, screen>>

\* startManagedDevTerminal up to its wait.  Without a tab it throws, which is
\* reported as the answer.
TakeCommand(k) ==
    /\ task[k].stage = "posted"
    /\ \E focused \in tabs \cup {None} :
          LET tab == ResolveCommandTab(task[k].root, focused) IN
          IF tab = None
          THEN /\ task' = [task EXCEPT ![k].stage = "replying"]
               /\ UNCHANGED term
          ELSE OpensTerminal(k, tab)
    /\ UNCHANGED <<manager, call, pending, lastCommand, screen>>

\* The pane gets its pty and types the queued command.  Whoever waits for the pty
\* is told by the same store update, and registers it.
AttachPty(t) ==
    /\ term[t].shell = "opening"
    /\ term' = [term EXCEPT ![t].shell = "up", ![t].server = "quiet"]
    /\ task' = [k \in Commands |-> IF task[k].stage = "waiting" /\ task[k].term = t
                                   THEN [task[k] EXCEPT !.stage = "registering"] ELSE task[k]]
    /\ UNCHANGED <<manager, call, pending, lastCommand, screen>>

\* The spawn fails and the pane goes, or the user closes it.
CloseOpening(t) ==
    /\ term[t].shell = "opening"
    /\ term' = [term EXCEPT ![t].shell = "gone"]
    /\ UNCHANGED <<manager, commands, screen>>

\* waitForPtyId runs out: nothing is registered and the answer is still "done".
GiveUpWaiting(k) ==
    /\ task[k].stage = "waiting"
    /\ task' = [task EXCEPT ![k].stage = "replying"]
    /\ UNCHANGED <<manager, call, pending, lastCommand, term, screen>>

\* The answer reaches main, which ignores one it no longer awaits.
Answer(k) ==
    /\ task[k].stage = "replying"
    /\ task' = [task EXCEPT ![k] = NoTask]
    /\ Settle(k)
    /\ UNCHANGED <<manager, lastCommand, term, screen>>

-----------------------------------------------------------------------------
(* The manager's own operations.                                           *)

\* Broken stopPortDiscovery: forgets the interval without clearing it.
ForgetInterval(r) ==
    /\ pollTimers' = [pollTimers EXCEPT ![r] = None]
    /\ UNCHANGED intervals

StopPortDiscovery(r) ==
    /\ intervals' = intervals \ {pollTimers[r]}
    /\ pollTimers' = [pollTimers EXCEPT ![r] = None]

StartPortDiscovery(r, t) ==
    LET timer == [root |-> r, pty |-> t, settled |-> FALSE] IN
    /\ intervals' = (intervals \ {pollTimers[r]}) \cup {timer}
    /\ pollTimers' = [pollTimers EXCEPT ![r] = timer]

\* registerDevServer: a second terminal of an active project is not recorded.
RegisterDevServer(k) ==
    LET t == task[k].term  r == term[t].root IN
    /\ task[k].stage = "registering"
    /\ task' = [task EXCEPT ![k].stage = "replying"]
    /\ IF Active(states[r]) THEN UNCHANGED manager
       ELSE /\ rootToPty' = [rootToPty EXCEPT ![r] = t]
            /\ states' = [states EXCEPT ![r] = OnStart(@, t)]
            /\ StartPortDiscovery(r, t)
    /\ UNCHANGED <<call, pending, lastCommand, term, screen>>

\* stopDevServer; the interrupt it types may be ignored, or may end the server
\* later: ServerDies.
StopDevServer(r) ==
    /\ states' = [states EXCEPT ![r] = IdleDevServer]
    /\ rootToPty' = [rootToPty EXCEPT ![r] = None]
    /\ StopPortDiscovery(r)
    /\ UNCHANGED <<commands, term, screen>>

\* Broken onPtyExitForDevServer: never told.
IgnorePtyExit(t) == UNCHANGED manager

\* The root that manages this pty, if any.
OnPtyExit(t) ==
    IF \E r \in Roots : rootToPty[r] = t
    THEN \E r \in Roots :
            /\ rootToPty[r] = t
            /\ rootToPty' = [rootToPty EXCEPT ![r] = None]
            /\ StopPortDiscovery(r)
            /\ states' = [states EXCEPT ![r] = OnExit(@)]
    ELSE UNCHANGED manager

\* A shell ends: by itself, with its pane, or with its window.
PtyExit(t) ==
    /\ term[t].shell = "up"
    /\ term' = [term EXCEPT ![t].shell = "gone", ![t].server = "none"]
    /\ OnPtyExit(t)
    /\ UNCHANGED <<commands, screen>>

\* Broken pickListeningPortFromSubtree: any process's port will do.
AnyPort(t, lsof) == IF lsof /\ \E u \in Terms : term[u].server \in Ports
                    THEN CHOOSE p \in Ports : \E u \in Terms : term[u].server = p ELSE None

\* What a tick can see.  Each probe (lsof, ps) may fail; then it sees nothing.
SeenPort(t, lsof) == IF lsof /\ term[t].server \in Ports THEN term[t].server ELSE None

\* Broken tick: looks for a port and never for its loss.
NeverAlone(t, ps) == FALSE

SeenAlone(t, ps) == ~ps \/ term[t].server = "none"

\* A tick of the poll.  slowDown swaps the interval for a slower one; it fires
\* once, and finds none to swap if discovery was stopped.
Tick(i, lsof, ps) ==
    LET r == i.root  port == SeenPort(i.pty, lsof)  slow == [i EXCEPT !.settled = TRUE] IN
    /\ i \in intervals
    /\ term[i.pty].shell = "up"
    /\ \/ /\ port # None /\ states[r].port # port
          /\ states' = [states EXCEPT ![r] = OnPort(@, port)]
          /\ IF i.settled \/ pollTimers[r] = None THEN UNCHANGED <<pollTimers, intervals>>
             ELSE /\ intervals' = (intervals \ {pollTimers[r]}) \cup {slow}
                  /\ pollTimers' = [pollTimers EXCEPT ![r] = slow]
       \/ /\ port = None /\ states[r].status = "running" /\ SeenAlone(i.pty, ps)
          /\ states' = [states EXCEPT ![r] = OnExit(@)]
          /\ StopPortDiscovery(r)
    /\ UNCHANGED <<rootToPty, commands, term, screen>>

-----------------------------------------------------------------------------
(* The servers, the user and the window.                                   *)

ServerListens(t, p) ==
    /\ term[t].server \notin {"none", p}
    /\ \A u \in Terms : term[u].server # p
    /\ term' = [term EXCEPT ![t].server = p]
    /\ UNCHANGED <<manager, commands, screen>>

ServerDies(t) ==
    /\ term[t].server # "none"
    /\ term' = [term EXCEPT ![t].server = "none"]
    /\ UNCHANGED <<manager, commands, screen>>

\* Somebody types the command again at the prompt.
RunAgain(t) ==
    /\ term[t].shell = "up" /\ term[t].server = "none"
    /\ term' = [term EXCEPT ![t].server = "quiet"]
    /\ UNCHANGED <<manager, commands, screen>>

\* The window closes, reloads or crashes: what its renderer was doing is lost.
\* Its shells are killed; each ends with a PtyExit.
LoseWindow ==
    /\ window
    /\ window' = FALSE /\ tabs' = {}
    /\ task' = [k \in Commands |-> NoTask]
    /\ term' = [t \in Terms |-> IF term[t].shell = "opening" THEN [term[t] EXCEPT !.shell = "gone"]
                                ELSE term[t]]
    /\ UNCHANGED <<manager, call, pending, lastCommand>>

OpenWindow(ts) ==
    /\ ~window
    /\ window' = TRUE /\ tabs' = ts
    /\ UNCHANGED <<manager, commands, term>>

-----------------------------------------------------------------------------
(* The specification.                                                      *)

Starting == \E c \in Callers :
               \/ \E r \in Roots : \/ StartDevServer(c, r, "user") \/ StartDevServer(c, r, "agent")
                                   \/ SetDevServerCommand(c, r)
               \/ FinishSaving(c) \/ ReadProjectConfig(c) \/ ResolveCommand(c)
Commanding == \E k \in Commands :
               \/ TimeOut(k) \/ TakeCommand(k) \/ GiveUpWaiting(k)
               \/ RegisterDevServer(k) \/ Answer(k)
Polling == \E i \in intervals, lsof, ps \in BOOLEAN : Tick(i, lsof, ps)
World ==
    \/ \E t \in Terms : \/ AttachPty(t) \/ CloseOpening(t) \/ PtyExit(t)
                        \/ ServerDies(t) \/ RunAgain(t)
                        \/ \E p \in Ports : ServerListens(t, p)
    \/ LoseWindow \/ \E ts \in SUBSET Roots : OpenWindow(ts)

Next == Starting \/ Commanding \/ Polling \/ World \/ \E r \in Roots : StopDevServer(r)

Spec == Init /\ [][Next]_vars

\* Main is not blocked for ever: its timers fire, its reads end and its poll ticks,
\* with probes that work again and again.  Nothing is asked of users, servers,
\* renderers and windows.
Fairness ==
    /\ \A c \in Callers : WF_vars(FinishSaving(c) \/ ReadProjectConfig(c) \/ ResolveCommand(c))
    /\ \A k \in Commands : WF_vars(TimeOut(k))
    /\ \A r \in Roots : WF_vars(\E i \in intervals : i.root = r /\ Tick(i, TRUE, TRUE))

FairSpec == Spec /\ Fairness

-----------------------------------------------------------------------------
(* Properties.                                                             *)

\* An active server is the one in the managed terminal, and that terminal is
\* polled; an idle project has neither.  Every interval that ticks can be
\* cancelled by its root and looks at the terminal that its root manages now,
\* however starts, stops, exits and slow-downs follow each other: no poll outlives
\* its server to report the port of an old terminal as that of a new one.
ActiveIsWatched ==
    /\ \A r \in Roots :
          /\ Active(states[r]) => /\ rootToPty[r] = states[r].terminalId
                                  /\ rootToPty[r] # None /\ pollTimers[r] \in intervals
          /\ states[r].status = "idle" => rootToPty[r] = None /\ pollTimers[r] = None
    /\ \A i \in intervals : i = pollTimers[i.root] /\ i.pty = rootToPty[i.root]

\* A server that is said to run has a living shell: the exit of a pty is never
\* missed once a port was seen.
RunningHasShell ==
    \A r \in Roots : states[r].status = "running" => term[rootToPty[r]].shell = "up"

\* The terminal opened for a project's start is in that project's tab, whichever
\* tab is focused when the command arrives.
StartsInOwnTab ==
    \A k \in Commands : task[k].term # None => term[task[k].term].root = task[k].root

\* The port shown for a project is, when it is found, one that its own managed
\* terminal listens on: not another project's, nor that of an earlier terminal.
PortIsOwn ==
    [][\A r \in Roots :
          states'[r].port \notin {states[r].port, None} =>
             \E t \in Terms : /\ rootToPty[r] = t /\ term[t].root = r
                              /\ term[t].server = states'[r].port]_vars

\* Every start returns to its caller, however long renderers and windows take.
EveryStartReturns ==
    \A c \in Callers : call[c].pc # "idle" ~> call[c].pc = "idle"

\* What is said of the server and what runs in its terminal disagree.
Behind(r) ==
    \/ states[r].status = "running" /\ term[rootToPty[r]].server = "none"
    \/ states[r].status = "starting" /\ term[rootToPty[r]].server \in Ports

\* A server that stopped by itself, its shell alone again, does not stay
\* "running"; a port that is listened on is found.
StatusCatchesUp ==
    \A r \in Roots : Behind(r) ~> ~Behind(r)
=============================================================================
