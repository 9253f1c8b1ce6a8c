--------------------------- MODULE DevServerProofs ---------------------------
(***************************************************************************)
(* Safety of the managed dev servers for any number of projects,           *)
(* terminals, ports, callers and commands.                                 *)
(***************************************************************************)
EXTENDS DevServer, TLAPS

\* What is under way names its project and, once it has one, its terminal.
UnderWay ==
    /\ \A c \in Callers : call[c].pc # "idle" => call[c].root \in Roots
    /\ \A k \in Commands :
          /\ task[k].stage # "none" \/ task[k].term # None => task[k].root \in Roots
          /\ task[k].stage \in {"waiting", "registering"} => task[k].term \in Terms

\* A project's interval and managed terminal are its own.
Owned ==
    \A r \in Roots :
       /\ pollTimers[r] # None => pollTimers[r].root = r
       /\ rootToPty[r] # None => term[rootToPty[r]].root = r

IInv == TypeOK /\ UnderWay /\ Owned /\ ActiveIsWatched /\ RunningHasShell /\ StartsInOwnTab

-----------------------------------------------------------------------------
(* Terminals and commands.                                                 *)

\* A terminal belongs to a project from its opening on.
LEMMA TerminalKinds ==
    ASSUME TypeOK, NEW t \in Terms
    PROVE  /\ term[t].shell = "none" => term[t].root = None /\ term[t].server = "none"
           /\ term[t].shell # "none" => term[t].root \in Roots
           /\ term[t].root \in Roots => term[t].shell # "none"
BY PortsAssumption DEF TypeOK, Terminal

\* Terminals keep their project, and managed ones their shell.
TermStep ==
    \A t \in Terms : /\ term'[t] \in Terminal
                     /\ term[t].shell # "none" => term'[t].root = term[t].root
                     /\ term[t].shell = "up" => \/ term'[t].shell = "up"
                                                \/ \A r \in Roots : rootToPty[r] # t

\* What a step makes of the terminals, but for the end of a managed shell.
LEMMA TermMoves ==
    ASSUME TypeOK, NEW t \in Terms,
           \/ AttachPty(t) \/ CloseOpening(t) \/ ServerDies(t) \/ RunAgain(t)
           \/ \E p \in Ports : ServerListens(t, p)
    PROVE  TermStep /\ term' \in [Terms -> Terminal] /\ UNCHANGED <<manager, screen>>
<1>0. term \in [Terms -> Terminal] /\ \A u \in Terms : term[u] \in Terminal
  BY DEF TypeOK
<1>1. CASE AttachPty(t)
  <2>1. term' = [term EXCEPT ![t].shell = "up", ![t].server = "quiet"] /\ term[t].shell = "opening"
    BY <1>1 DEF AttachPty
  <2>2. term'[t] = [root |-> term[t].root, shell |-> "up", server |-> "quiet"]
    BY <1>0, <2>1 DEF Terminal
  <2>3. term[t].root \in Roots
    BY <2>1, TerminalKinds
  <2>4. term'[t] \in Terminal
    BY <2>2, <2>3 DEF Terminal, Servers
  <2>. QED BY <1>0, <1>1, <2>1, <2>2, <2>4 DEF TermStep, AttachPty
<1>2. CASE CloseOpening(t)
  BY <1>0, <1>2, TerminalKinds DEF CloseOpening, TermStep, Terminal, commands
<1>3. CASE ServerDies(t)
  BY <1>0, <1>3, TerminalKinds DEF ServerDies, TermStep, Terminal, Servers
<1>4. CASE RunAgain(t)
  BY <1>0, <1>4, TerminalKinds DEF RunAgain, TermStep, Terminal, Servers
<1>5. ASSUME NEW p \in Ports, ServerListens(t, p) PROVE TermStep /\ term' \in [Terms -> Terminal]
  <2>1. term' = [term EXCEPT ![t].server = p] /\ term[t].server # "none"
    BY <1>5 DEF ServerListens
  <2>2. term[t].shell # "none"
    BY <2>1, TerminalKinds
  <2>. QED BY <1>0, <2>1, <2>2 DEF TermStep, Terminal, Servers
<1>. QED BY <1>1, <1>2, <1>3, <1>4, <1>5 DEF ServerListens, AttachPty, CloseOpening, ServerDies, RunAgain

\* A command that opens a terminal opens it in the project of its task.
LEMMA Opens ==
    ASSUME TypeOK, UnderWay, StartsInOwnTab, NEW k \in Commands, TakeCommand(k)
    PROVE  /\ TermStep /\ term' \in [Terms -> Terminal] /\ UNCHANGED <<manager, screen>>
           /\ task' \in [Commands -> Task] /\ UnderWay' /\ StartsInOwnTab'
<1>0. /\ term \in [Terms -> Terminal] /\ task \in [Commands -> Task] /\ task[k].root \in Roots
      /\ task[k].root # None /\ call' = call /\ UNCHANGED <<manager, screen>>
  BY PortsAssumption DEF TypeOK, UnderWay, TakeCommand
<1>1. PICK focused \in tabs \cup {None} :
          LET tab == ResolveCommandTab(task[k].root, focused) IN
          IF tab = None
          THEN /\ task' = [task EXCEPT ![k].stage = "replying"]
               /\ UNCHANGED term
          ELSE OpensTerminal(k, tab)
  BY DEF TakeCommand
<1> DEFINE tab == ResolveCommandTab(task[k].root, focused)
<1>2. tab \in {task[k].root, None}
  BY <1>0 DEF ResolveCommandTab
<1>3. CASE tab = None
  <2>1. task' = [task EXCEPT ![k].stage = "replying"] /\ term' = term
    BY <1>1, <1>3
  <2>2. task' \in [Commands -> Task]
    BY <1>0, <2>1 DEF Task
  <2>3. \A l \in Commands : task'[l].term = task[l].term /\ task'[l].root = task[l].root
                            /\ (l # k => task'[l] = task[l])
    BY <1>0, <2>1 DEF Task
  <2>4. task'[k].stage = "replying"
    BY <1>0, <2>1 DEF Task
  <2>. QED BY <1>0, <2>1, <2>2, <2>3, <2>4 DEF TermStep, UnderWay, StartsInOwnTab
<1>4. CASE tab # None
  <2>1. PICK t \in Terms :
           /\ term[t].shell = "none"
           /\ term' = [term EXCEPT ![t] = [root |-> tab, shell |-> "opening", server |-> "none"]]
           /\ task' = [task EXCEPT ![k].stage = "waiting", ![k].term = t]
    BY <1>1, <1>4 DEF OpensTerminal
  <2>2. tab = task[k].root
    BY <1>2, <1>4
  <2> HIDE DEF tab
  <2>3. [root |-> tab, shell |-> "opening", server |-> "none"] \in Terminal
    BY <1>0, <2>2 DEF Terminal, Servers
  <2>4. term' \in [Terms -> Terminal] /\ TermStep
    BY <1>0, <2>1, <2>3 DEF TermStep
  <2>5. task' \in [Commands -> Task]
    BY <1>0, <2>1 DEF Task
  <2>6. /\ task'[k].stage = "waiting" /\ task'[k].term = t /\ task'[k].root = task[k].root
        /\ \A l \in Commands \ {k} : task'[l] = task[l]
    BY <1>0, <2>1 DEF Task
  <2>7. term'[t].root = task[k].root /\ \A u \in Terms \ {t} : term'[u] = term[u]
    BY <1>0, <2>1, <2>2
  <2>8. UnderWay'
    BY <1>0, <2>1, <2>6 DEF UnderWay
  <2>9. ASSUME NEW l \in Commands, task'[l].term # None
        PROVE  term'[task'[l].term].root = task'[l].root
    <3>1. CASE l = k
      BY <2>6, <2>7, <3>1
    <3>2. CASE l # k
      <4>1. task[l].term \in Terms /\ term[task[l].term].root = task[l].root
        BY <1>0, <2>6, <2>9, <3>2 DEF StartsInOwnTab, UnderWay, Task
      <4>2. task[l].root \in Roots
        BY <2>6, <2>9, <3>2 DEF UnderWay
      <4>3. task[l].term # t
        BY <2>1, <4>1, <4>2, TerminalKinds
      <4>. QED BY <2>6, <2>7, <3>2, <4>1, <4>3
    <3>. QED BY <3>1, <3>2
  <2>. QED BY <1>0, <2>4, <2>5, <2>8, <2>9 DEF StartsInOwnTab
<1>. QED BY <1>3, <1>4

\* The commands' side of the invariant, when no terminal loses its project.
TaskStep ==
    /\ task' \in [Commands -> Task]
    /\ \A k \in Commands :
          /\ task'[k].stage # "none" \/ task'[k].term # None => task'[k].root \in Roots
          /\ task'[k].stage \in {"waiting", "registering"} => task'[k].term \in Terms
          /\ task'[k].term # None => task'[k].term = task[k].term /\ task'[k].root = task[k].root

LEMMA OwnTabKept ==
    ASSUME TypeOK, UnderWay, StartsInOwnTab, TermStep, TaskStep
    PROVE  StartsInOwnTab'
<1>. SUFFICES ASSUME NEW k \in Commands, task'[k].term # None
              PROVE  term'[task'[k].term].root = task'[k].root
  BY DEF StartsInOwnTab
<1>1. task'[k].term = task[k].term /\ task'[k].root = task[k].root
  BY DEF TaskStep
<1>2. task[k].term \in Terms /\ term[task[k].term].root = task[k].root /\ task[k].root \in Roots
  BY <1>1 DEF TypeOK, Task, StartsInOwnTab, UnderWay
<1>3. term'[task[k].term].root = term[task[k].term].root
  BY <1>2, TerminalKinds DEF TermStep
<1>. QED BY <1>1, <1>2, <1>3

\* Calls that return or move on keep their project.
CallStep ==
    /\ call' \in [Callers -> Call]
    /\ \A c \in Callers : call'[c].pc # "idle" => call'[c].root \in Roots

LEMMA Settles ==
    ASSUME TypeOK, UnderWay, NEW k, Settle(k)
    PROVE  CallStep /\ pending' \subseteq 1..lastCommand
<1>1. \A c \in Callers : call[c] \in Call
  BY DEF TypeOK
<1>2. NoCall \in Call /\ NoCall.pc = "idle"
  BY DEF NoCall, Call
<1>. QED BY <1>1, <1>2 DEF Settle, CallStep, TypeOK, UnderWay

\* A call sends its command, or fails for want of a window.
LEMMA Runs ==
    ASSUME TypeOK, UnderWay, NEW c \in Callers, call[c].pc # "idle", RunAgentCommand(c)
    PROVE  /\ CallStep /\ TaskStep
           /\ lastCommand' \in 0..MaxCommands /\ pending' \subseteq 1..lastCommand'
<1>0. /\ call \in [Callers -> Call] /\ call[c] \in Call /\ task \in [Commands -> Task]
      /\ call[c].root \in Roots /\ lastCommand \in Nat /\ lastCommand \in 0..MaxCommands
      /\ pending \subseteq 1..lastCommand
  BY CommandsAssumption DEF TypeOK, UnderWay
<1>1. CASE window
  <2> DEFINE k == lastCommand + 1
  <2>1. /\ k \in Commands /\ lastCommand' = k /\ pending' = pending \cup {k}
        /\ task' = [task EXCEPT ![k] = [stage |-> "posted", root |-> call[c].root, term |-> None]]
        /\ call' = [call EXCEPT ![c].pc = "sent", ![c].command = k]
    BY <1>1 DEF RunAgentCommand
  <2>2. k \in 0..MaxCommands /\ 1..lastCommand \subseteq 1..k /\ k \in 1..k
    BY <1>0, <2>1, CommandsAssumption DEF Commands
  <2> HIDE DEF k
  <2>3. call' \in [Callers -> Call] /\ call'[c].root = call[c].root /\ \A d \in Callers \ {c} : call'[d] = call[d]
    BY <1>0, <2>1 DEF Call
  <2>4. task'[k] = [stage |-> "posted", root |-> call[c].root, term |-> None]
        /\ \A l \in Commands \ {k} : task'[l] = task[l]
    BY <1>0, <2>1
  <2>5. [stage |-> "posted", root |-> call[c].root, term |-> None] \in Task
    BY <1>0 DEF Task
  <2>6. TaskStep
    BY <1>0, <2>1, <2>4, <2>5 DEF TaskStep, UnderWay
  <2>. QED BY <1>0, <2>1, <2>2, <2>3, <2>6 DEF CallStep, UnderWay
<1>2. CASE ~window
  <2>1. call' = [call EXCEPT ![c] = NoCall] /\ UNCHANGED <<pending, lastCommand, task>>
    BY <1>2 DEF RunAgentCommand
  <2>2. NoCall \in Call /\ NoCall.pc = "idle"
    BY DEF NoCall, Call
  <2>. QED BY <1>0, <2>1, <2>2 DEF CallStep, TaskStep, UnderWay
<1>. QED BY <1>1, <1>2

\* One that finds no server up goes on to read the configuration.
LEMMA Checks ==
    ASSUME TypeOK, UnderWay, NEW c \in Callers, NEW r \in Roots, NEW by \in {"user", "agent"},
           CheckActive(c, r, by)
    PROVE  CallStep
<1>1. NoCall \in Call /\ NoCall.pc = "idle"
  BY DEF NoCall, Call
<1>2. [pc |-> "config", root |-> r, by |-> by, command |-> None] \in Call
  BY DEF Call
<1>. QED BY <1>1, <1>2 DEF CheckActive, CallStep, TypeOK, UnderWay

LEMMA StartingSteps ==
    ASSUME TypeOK, UnderWay, Starting
    PROVE  /\ CallStep /\ TaskStep /\ UNCHANGED <<manager, term, screen>>
           /\ lastCommand' \in 0..MaxCommands /\ pending' \subseteq 1..lastCommand'
<1>0. /\ lastCommand \in 0..MaxCommands /\ pending \subseteq 1..lastCommand
      /\ (UNCHANGED task => TaskStep)
  BY DEF TypeOK, UnderWay, TaskStep
<1>1. ASSUME NEW c \in Callers, NEW r \in Roots, NEW by \in {"user", "agent"}, StartDevServer(c, r, by)
      PROVE  CallStep
  BY <1>1, Checks DEF StartDevServer
<1>2. ASSUME NEW c \in Callers, NEW r \in Roots, SetDevServerCommand(c, r) PROVE CallStep
  <2>1. [pc |-> "saving", root |-> r, by |-> "user", command |-> None] \in Call
    BY DEF Call
  <2>. QED BY <1>2, <2>1 DEF SetDevServerCommand, CallStep, TypeOK, UnderWay
<1>3. ASSUME NEW c \in Callers, FinishSaving(c) PROVE CallStep
  BY <1>3, Checks DEF FinishSaving, UnderWay
<1>4. ASSUME NEW c \in Callers, ReadProjectConfig(c)
      PROVE  /\ CallStep /\ TaskStep
             /\ lastCommand' \in 0..MaxCommands /\ pending' \subseteq 1..lastCommand'
  <2>1. CASE RunAgentCommand(c)
    BY <1>4, <2>1, Runs DEF ReadProjectConfig
  <2>2. CASE call' = [call EXCEPT ![c].pc = "guess"] /\ UNCHANGED <<pending, lastCommand, task>>
    <3>1. call'[c].root = call[c].root /\ call' \in [Callers -> Call]
          /\ \A d \in Callers \ {c} : call'[d] = call[d]
      BY <2>2 DEF TypeOK, Call
    <3>2. call[c].pc = "config"
      BY <1>4 DEF ReadProjectConfig
    <3>. QED BY <1>0, <2>2, <3>1, <3>2 DEF CallStep, UnderWay
  <2>. QED BY <1>4, <2>1, <2>2 DEF ReadProjectConfig
<1>5. ASSUME NEW c \in Callers, ResolveCommand(c)
      PROVE  /\ CallStep /\ TaskStep
             /\ lastCommand' \in 0..MaxCommands /\ pending' \subseteq 1..lastCommand'
  <2>1. CASE RunAgentCommand(c)
    BY <1>5, <2>1, Runs DEF ResolveCommand
  <2>2. CASE call' = [call EXCEPT ![c] = NoCall] /\ UNCHANGED <<pending, lastCommand, task>>
    <3>1. NoCall \in Call /\ NoCall.pc = "idle"
      BY DEF NoCall, Call
    <3>. QED BY <1>0, <2>2, <3>1 DEF CallStep, UnderWay, TypeOK
  <2>. QED BY <1>5, <2>1, <2>2 DEF ResolveCommand
<1>6. CASE \E c \in Callers : \/ FinishSaving(c)
              \/ \E r \in Roots : \/ StartDevServer(c, r, "user") \/ StartDevServer(c, r, "agent")
                                  \/ SetDevServerCommand(c, r)
  <2>1. CallStep /\ UNCHANGED <<manager, pending, lastCommand, task, term, screen>>
    BY <1>1, <1>2, <1>3, <1>6 DEF FinishSaving, StartDevServer, SetDevServerCommand
  <2>. QED BY <1>0, <2>1
<1>7. CASE \E c \in Callers : ReadProjectConfig(c) \/ ResolveCommand(c)
  <2>1. UNCHANGED <<manager, term, screen>>
    BY <1>7 DEF ReadProjectConfig, ResolveCommand
  <2>. QED BY <1>4, <1>5, <1>7, <2>1
<1>. QED BY <1>6, <1>7 DEF Starting

-----------------------------------------------------------------------------
(* The manager.                                                            *)

Watched == Owned /\ ActiveIsWatched /\ RunningHasShell

\* A step that leaves the manager alone and ends no managed shell.
LEMMA WatchedKept ==
    ASSUME TypeOK, Watched, TermStep, UNCHANGED manager
    PROVE  Watched'
<1>1. \A r \in Roots : rootToPty[r] # None =>
          rootToPty[r] \in Terms /\ term'[rootToPty[r]].root = r
  <2>. SUFFICES ASSUME NEW r \in Roots, rootToPty[r] # None
                PROVE  rootToPty[r] \in Terms /\ term'[rootToPty[r]].root = r
    OBVIOUS
  <2>1. rootToPty[r] \in Terms /\ term[rootToPty[r]].root = r
    BY DEF TypeOK, Watched, Owned
  <2>. QED BY <2>1, TerminalKinds DEF TermStep
<1>2. Owned' /\ ActiveIsWatched'
  BY <1>1 DEF Watched, Owned, ActiveIsWatched, manager, Active
<1>3. ASSUME NEW r \in Roots, states[r].status = "running" PROVE term'[rootToPty[r]].shell = "up"
  <2>1. rootToPty[r] # None /\ term[rootToPty[r]].shell = "up"
    BY <1>3 DEF Watched, ActiveIsWatched, Active, RunningHasShell
  <2>. QED BY <1>1, <2>1 DEF TermStep
<1>4. RunningHasShell'
  BY <1>3 DEF RunningHasShell, manager
<1>. QED BY <1>2, <1>4 DEF Watched

\* A terminal is registered: an idle or exited project gets it and a poll of it.
LEMMA Registers ==
    ASSUME TypeOK, UnderWay, Watched, StartsInOwnTab, NEW k \in Commands, RegisterDevServer(k)
    PROVE  /\ Watched' /\ states' \in [Roots -> DevServerState] /\ rootToPty' \in [Roots -> Terms \cup {None}]
           /\ pollTimers' \in [Roots -> Interval \cup {None}] /\ intervals' \subseteq Interval
<1>0. /\ task[k].term \in Terms /\ term[task[k].term].root \in Roots /\ term' = term
      /\ states \in [Roots -> DevServerState] /\ rootToPty \in [Roots -> Terms \cup {None}]
      /\ pollTimers \in [Roots -> Interval \cup {None}] /\ intervals \subseteq Interval
  <2>1. task[k].term \in Terms /\ task[k].term # None /\ task[k].root \in Roots
    BY PortsAssumption DEF RegisterDevServer, UnderWay
  <2>. QED BY <2>1 DEF StartsInOwnTab, RegisterDevServer, TypeOK
<1>1. PICK t \in Terms, r \in Roots : t = task[k].term /\ r = term[t].root
  BY <1>0
<1>2. CASE Active(states[r])
  <2>1. UNCHANGED <<manager, term>>
    BY <1>0, <1>1, <1>2 DEF RegisterDevServer
  <2>2. TermStep
    BY <2>1 DEF TypeOK, TermStep
  <2>. QED BY <1>0, <2>1, <2>2, WatchedKept DEF manager
<1>3. CASE ~Active(states[r])
  <2> DEFINE timer == [root |-> r, pty |-> t, settled |-> FALSE]
             state == [status |-> "starting", port |-> None, terminalId |-> t]
  <2>1. /\ rootToPty' = [rootToPty EXCEPT ![r] = t]
        /\ states' = [states EXCEPT ![r] = state]
        /\ intervals' = (intervals \ {pollTimers[r]}) \cup {timer}
        /\ pollTimers' = [pollTimers EXCEPT ![r] = timer]
    BY <1>1, <1>3 DEF RegisterDevServer, OnStart, StartPortDiscovery
  <2>2. timer \in Interval /\ timer.root = r /\ timer.pty = t /\ state \in DevServerState
        /\ t # None /\ timer # None
    <3>1. timer \in Interval /\ timer.root = r /\ timer.pty = t
      BY DEF Interval
    <3>2. timer # None /\ t # None
      BY <3>1, PortsAssumption DEF Interval
    <3>. QED BY <3>1, <3>2 DEF DevServerState
  <2> HIDE DEF timer
  <2>3. /\ rootToPty'[r] = t /\ states'[r] = state /\ pollTimers'[r] = timer
        /\ \A q \in Roots \ {r} : /\ rootToPty'[q] = rootToPty[q] /\ states'[q] = states[q]
                                  /\ pollTimers'[q] = pollTimers[q]
    BY <1>0, <2>1
  <2>4. \A i \in intervals \ {pollTimers[r]} : i.root # r
    BY DEF Watched, ActiveIsWatched
  <2>5. \A q \in Roots \ {r} : pollTimers[q] # None => pollTimers[q] # pollTimers[r]
    BY DEF Watched, Owned
  <2>6. Owned'
    BY <1>0, <1>1, <2>2, <2>3 DEF Watched, Owned
  <2>7. ASSUME NEW i \in intervals' PROVE i = pollTimers'[i.root] /\ i.pty = rootToPty'[i.root]
    <3>1. CASE i = timer
      BY <2>2, <2>3, <3>1
    <3>2. CASE i \in intervals \ {pollTimers[r]}
      <4>1. i.root \in Roots \ {r}
        BY <1>0, <2>4, <3>2 DEF Interval
      <4>. QED BY <2>3, <3>2, <4>1 DEF Watched, ActiveIsWatched
    <3>. QED BY <2>1, <2>7, <3>1, <3>2
  <2>8. ASSUME NEW q \in Roots
        PROVE  /\ Active(states'[q]) => /\ rootToPty'[q] = states'[q].terminalId
                                        /\ rootToPty'[q] # None /\ pollTimers'[q] \in intervals'
               /\ states'[q].status = "idle" => rootToPty'[q] = None /\ pollTimers'[q] = None
               /\ states'[q].status = "running" => term'[rootToPty'[q]].shell = "up"
    <3>1. CASE q = r
      BY <2>1, <2>2, <2>3, <3>1 DEF Active
    <3>2. CASE q # r
      <4>1. ASSUME Active(states[q]) PROVE pollTimers[q] \in intervals'
        <5>1. pollTimers[q] \in intervals /\ pollTimers[q] # None
          BY <1>0, <4>1, PortsAssumption DEF Watched, ActiveIsWatched, Interval
        <5>. QED BY <2>1, <2>5, <3>2, <5>1
      <4>. QED BY <1>0, <2>3, <3>2, <4>1 DEF Watched, ActiveIsWatched, RunningHasShell
    <3>. QED BY <3>1, <3>2
  <2>9. ActiveIsWatched'
    BY <2>7, <2>8 DEF ActiveIsWatched, Active
  <2>10. RunningHasShell'
    BY <2>8 DEF RunningHasShell
  <2>. QED BY <1>0, <2>1, <2>2, <2>6, <2>9, <2>10 DEF Watched
<1>. QED BY <1>2, <1>3

\* A project's server is stopped, has exited or has died: its poll ends, and only
\* its own terminal may have lost its shell.
LEMMA Stops ==
    ASSUME TypeOK, Watched, NEW r \in Roots, NEW s \in DevServerState, s.status \in {"idle", "exited"},
           NEW p \in {None, rootToPty[r]}, s.status = "idle" => p = None,
           states' = [states EXCEPT ![r] = s], rootToPty' = [rootToPty EXCEPT ![r] = p],
           StopPortDiscovery(r),
           \A t \in Terms : /\ term[t].shell # "none" => term'[t].root = term[t].root
                            /\ term[t].shell = "up" /\ t # rootToPty[r] => term'[t].shell = "up"
    PROVE  /\ Watched' /\ states' \in [Roots -> DevServerState] /\ rootToPty' \in [Roots -> Terms \cup {None}]
           /\ pollTimers' \in [Roots -> Interval \cup {None}] /\ intervals' \subseteq Interval
<1>0. /\ states \in [Roots -> DevServerState] /\ rootToPty \in [Roots -> Terms \cup {None}]
      /\ pollTimers \in [Roots -> Interval \cup {None}] /\ intervals \subseteq Interval
      /\ None \notin Interval
  BY PortsAssumption DEF TypeOK, Interval
<1>1. intervals' = intervals \ {pollTimers[r]} /\ pollTimers' = [pollTimers EXCEPT ![r] = None]
  BY DEF StopPortDiscovery
<1>2. /\ states'[r] = s /\ rootToPty'[r] = p /\ pollTimers'[r] = None
      /\ \A q \in Roots \ {r} : /\ rootToPty'[q] = rootToPty[q] /\ states'[q] = states[q]
                                /\ pollTimers'[q] = pollTimers[q]
  BY <1>0, <1>1
<1>3. \A q \in Roots : rootToPty[q] # None =>
          rootToPty[q] \in Terms /\ term'[rootToPty[q]].root = q /\ term[rootToPty[q]].root = q
  <2>. SUFFICES ASSUME NEW q \in Roots, rootToPty[q] # None
                PROVE  /\ rootToPty[q] \in Terms /\ term'[rootToPty[q]].root = q
                       /\ term[rootToPty[q]].root = q
    OBVIOUS
  <2>1. rootToPty[q] \in Terms /\ term[rootToPty[q]].root = q
    BY <1>0 DEF Watched, Owned
  <2>. QED BY <2>1, TerminalKinds
<1>4. Owned'
  BY <1>2, <1>3 DEF Watched, Owned
<1>5. ASSUME NEW i \in intervals' PROVE i = pollTimers'[i.root] /\ i.pty = rootToPty'[i.root]
  <2>1. i \in intervals /\ i # pollTimers[r] /\ i.root \in Roots
    BY <1>0, <1>1, <1>5 DEF Interval
  <2>2. i.root # r
    BY <2>1 DEF Watched, ActiveIsWatched
  <2>. QED BY <1>2, <2>1, <2>2 DEF Watched, ActiveIsWatched
<1>6. ASSUME NEW q \in Roots
      PROVE  /\ Active(states'[q]) => /\ rootToPty'[q] = states'[q].terminalId
                                      /\ rootToPty'[q] # None /\ pollTimers'[q] \in intervals'
             /\ states'[q].status = "idle" => rootToPty'[q] = None /\ pollTimers'[q] = None
             /\ states'[q].status = "running" => term'[rootToPty'[q]].shell = "up"
  <2>1. CASE q = r
    BY <1>2, <2>1 DEF Active
  <2>2. CASE q # r
    <3>1. ASSUME Active(states[q])
          PROVE  pollTimers[q] \in intervals' /\ rootToPty[q] # rootToPty[r] /\ rootToPty[q] \in Terms
      <4>1. pollTimers[q] \in intervals /\ pollTimers[q] # None /\ rootToPty[q] # None
        BY <1>0, <3>1 DEF Watched, ActiveIsWatched
      <4>2. pollTimers[q] # pollTimers[r]
        BY <2>2, <4>1 DEF Watched, Owned
      <4>. QED BY <1>1, <1>3, <2>2, <4>1, <4>2
    <3>2. states[q].status = "running" => term'[rootToPty[q]].shell = "up"
      BY <3>1 DEF Active, Watched, RunningHasShell
    <3>. QED BY <1>2, <2>2, <3>1, <3>2 DEF Watched, ActiveIsWatched, Active
  <2>. QED BY <2>1, <2>2
<1>7. ActiveIsWatched' /\ RunningHasShell'
  BY <1>5, <1>6 DEF ActiveIsWatched, RunningHasShell, Active
<1>. QED BY <1>0, <1>1, <1>4, <1>7 DEF Watched

\* A shell ends.
LEMMA PtyExits ==
    ASSUME TypeOK, Watched, NEW t \in Terms, PtyExit(t)
    PROVE  /\ Watched' /\ states' \in [Roots -> DevServerState] /\ rootToPty' \in [Roots -> Terms \cup {None}]
           /\ pollTimers' \in [Roots -> Interval \cup {None}] /\ intervals' \subseteq Interval
           /\ term' \in [Terms -> Terminal]
           /\ \A u \in Terms : term[u].shell # "none" => term'[u].root = term[u].root
<1>0. term[t].shell = "up" /\ term \in [Terms -> Terminal] /\ term[t].root \in Roots
      /\ term' = [term EXCEPT ![t].shell = "gone", ![t].server = "none"]
  BY TerminalKinds DEF PtyExit, TypeOK
<1>1. term'[t] = [root |-> term[t].root, shell |-> "gone", server |-> "none"]
      /\ \A u \in Terms \ {t} : term'[u] = term[u]
  BY <1>0 DEF Terminal
<1>2. term'[t] \in Terminal
  BY <1>0, <1>1 DEF Terminal, Servers
<1>3. term' \in [Terms -> Terminal] /\ \A u \in Terms : term[u].shell # "none" => term'[u].root = term[u].root
  BY <1>0, <1>1, <1>2
<1>4. CASE \E r \in Roots : rootToPty[r] = t
  <2>1. PICK r \in Roots : /\ rootToPty[r] = t
                           /\ rootToPty' = [rootToPty EXCEPT ![r] = None]
                           /\ StopPortDiscovery(r)
                           /\ states' = [states EXCEPT ![r] = OnExit(@)]
    BY <1>4 DEF PtyExit, OnPtyExit
  <2>2. states[r] \in DevServerState /\ states[r].status # "idle" /\ t # None
    BY <2>1, PortsAssumption DEF TypeOK, Watched, ActiveIsWatched
  <2> DEFINE s == OnExit(states[r])
  <2>3. s \in DevServerState /\ s.status = "exited"
    BY <2>2 DEF OnExit, DevServerState
  <2>4. states' = [states EXCEPT ![r] = s]
    BY <2>1
  <2> HIDE DEF s
  <2>. QED BY <1>1, <1>3, <2>1, <2>3, <2>4, Stops
<1>5. CASE \A r \in Roots : rootToPty[r] # t
  <2>1. UNCHANGED manager
    BY <1>5 DEF PtyExit, OnPtyExit
  <2>2. TermStep
    BY <1>1, <1>3, <1>5 DEF TermStep
  <2>. QED BY <1>3, <2>1, <2>2, WatchedKept DEF manager, TypeOK
<1>. QED BY <1>4, <1>5

\* A tick finds a port, or that the server has gone.
LEMMA Ticks ==
    ASSUME TypeOK, Watched, NEW i \in intervals, NEW lsof \in BOOLEAN, NEW ps \in BOOLEAN, Tick(i, lsof, ps)
    PROVE  /\ Watched' /\ states' \in [Roots -> DevServerState] /\ rootToPty' \in [Roots -> Terms \cup {None}]
           /\ pollTimers' \in [Roots -> Interval \cup {None}] /\ intervals' \subseteq Interval
<1>0. /\ states \in [Roots -> DevServerState] /\ rootToPty \in [Roots -> Terms \cup {None}]
      /\ pollTimers \in [Roots -> Interval \cup {None}] /\ intervals \subseteq Interval
      /\ None \notin Interval /\ i \in Interval /\ i.root \in Roots
      /\ rootToPty' = rootToPty /\ term' = term
  BY PortsAssumption DEF TypeOK, Interval, Tick
<1>1. PICK r \in Roots : r = i.root
  BY <1>0
<1>2. pollTimers[r] = i /\ rootToPty[r] = i.pty /\ term[i.pty].shell = "up" /\ pollTimers[r] # None
      /\ i.pty \in Terms
  BY <1>0, <1>1 DEF Watched, ActiveIsWatched, Tick, Interval
<1>3. states[r] \in DevServerState /\ states[r].status # "idle"
  BY <1>0, <1>2 DEF Watched, ActiveIsWatched
<1> DEFINE port == SeenPort(i.pty, lsof)
           found == OnPort(states[r], port)
           slow == [i EXCEPT !.settled = TRUE]
<1>4. CASE /\ port # None /\ states' = [states EXCEPT ![r] = found]
           /\ IF i.settled \/ pollTimers[r] = None THEN UNCHANGED <<pollTimers, intervals>>
              ELSE /\ intervals' = (intervals \ {pollTimers[r]}) \cup {slow}
                   /\ pollTimers' = [pollTimers EXCEPT ![r] = slow]
  <2>1. /\ found \in DevServerState /\ found.terminalId = states[r].terminalId
        /\ Active(found) <=> Active(states[r])
        /\ found.status # "idle"
    <3>1. port \in Ports
      BY <1>4, PortsAssumption DEF SeenPort
    <3>. HIDE DEF port
    <3>. QED BY <1>3, <3>1 DEF OnPort, Active, DevServerState
  <2>2. slow \in Interval /\ slow.root = r /\ slow.pty = i.pty /\ slow # None
    BY <1>0, <1>1 DEF Interval
  <2> DEFINE next == IF i.settled THEN i ELSE slow
  <2>3. intervals' = (intervals \ {i}) \cup {next} /\ pollTimers' = [pollTimers EXCEPT ![r] = next]
    BY <1>0, <1>2, <1>4
  <2>4. next \in Interval /\ next.root = r /\ next.pty = i.pty /\ next # None
    BY <1>0, <1>1, <2>2
  <2> HIDE DEF next, found, port, slow
  <2>5. /\ states'[r] = found /\ pollTimers'[r] = next
        /\ \A q \in Roots \ {r} : states'[q] = states[q] /\ pollTimers'[q] = pollTimers[q]
    BY <1>0, <1>4, <2>3
  <2>6. Owned'
    BY <1>0, <2>4, <2>5 DEF Watched, Owned
  <2>7. ASSUME NEW j \in intervals' PROVE j = pollTimers'[j.root] /\ j.pty = rootToPty'[j.root]
    <3>1. CASE j = next
      BY <1>0, <1>2, <2>4, <2>5, <3>1
    <3>2. CASE j \in intervals \ {i}
      <4>1. j.root \in Roots /\ j = pollTimers[j.root] /\ j.pty = rootToPty[j.root]
        BY <1>0, <3>2 DEF Interval, Watched, ActiveIsWatched
      <4>2. j.root # r
        BY <1>2, <3>2, <4>1
      <4>. QED BY <1>0, <2>5, <4>1, <4>2
    <3>. QED BY <2>3, <2>7, <3>1, <3>2
  <2>8. ASSUME NEW q \in Roots
        PROVE  /\ Active(states'[q]) => /\ rootToPty'[q] = states'[q].terminalId
                                        /\ rootToPty'[q] # None /\ pollTimers'[q] \in intervals'
               /\ states'[q].status = "idle" => rootToPty'[q] = None /\ pollTimers'[q] = None
               /\ states'[q].status = "running" => term'[rootToPty'[q]].shell = "up"
    <3>1. CASE q = r
      BY <1>0, <1>2, <2>1, <2>3, <2>5, <3>1 DEF Watched, ActiveIsWatched
    <3>2. CASE q # r
      <4>1. ASSUME Active(states[q]) PROVE pollTimers[q] \in intervals'
        <5>1. pollTimers[q] \in intervals /\ pollTimers[q] # None
          BY <1>0, <4>1 DEF Watched, ActiveIsWatched
        <5>2. pollTimers[q] # i
          BY <1>1, <3>2, <5>1 DEF Watched, Owned
        <5>. QED BY <2>3, <5>1, <5>2
      <4>. QED BY <1>0, <2>5, <3>2, <4>1 DEF Watched, ActiveIsWatched, RunningHasShell
    <3>. QED BY <3>1, <3>2
  <2>9. ActiveIsWatched' /\ RunningHasShell'
    BY <2>7, <2>8 DEF ActiveIsWatched, RunningHasShell, Active
  <2>. QED BY <1>0, <1>4, <2>1, <2>3, <2>4, <2>6, <2>9 DEF Watched
<1>5. CASE /\ states' = [states EXCEPT ![r] = OnExit(@)]
           /\ StopPortDiscovery(r)
  <2> DEFINE s == OnExit(states[r])
  <2>1. s \in DevServerState /\ s.status = "exited"
    BY <1>3 DEF OnExit, DevServerState
  <2>2. states' = [states EXCEPT ![r] = s] /\ rootToPty' = [rootToPty EXCEPT ![r] = rootToPty[r]]
    BY <1>0, <1>5
  <2> HIDE DEF s
  <2>. QED BY <1>0, <1>5, <2>1, <2>2, Stops
<1>. QED BY <1>1, <1>4, <1>5 DEF Tick

-----------------------------------------------------------------------------
(* The invariant is inductive.                                             *)

ManagerType ==
    /\ states \in [Roots -> DevServerState]
    /\ rootToPty \in [Roots -> Terms \cup {None}]
    /\ pollTimers \in [Roots -> Interval \cup {None}]
    /\ intervals \subseteq Interval

LEMMA StartsWell == Init => IInv
<1>. SUFFICES ASSUME Init PROVE IInv
  OBVIOUS
<1>1. NoCall \in Call /\ NoCall.pc = "idle" /\ NoTask \in Task /\ NoTask.stage = "none" /\ NoTask.term = None
  BY DEF NoCall, Call, NoTask, Task
<1>2. [root |-> None, shell |-> "none", server |-> "none"] \in Terminal
  BY DEF Terminal
<1>3. IdleDevServer \in DevServerState /\ IdleDevServer.status = "idle"
  BY DEF IdleDevServer, DevServerState
<1>4. TypeOK
  BY <1>1, <1>2, <1>3, CommandsAssumption DEF Init, TypeOK
<1>5. UnderWay /\ StartsInOwnTab
  BY <1>1 DEF Init, UnderWay, StartsInOwnTab
<1>6. Owned /\ ActiveIsWatched /\ RunningHasShell
  BY <1>3 DEF Init, Owned, ActiveIsWatched, RunningHasShell, Active
<1>. QED BY <1>4, <1>5, <1>6 DEF IInv

\* A command's own steps: it gives up, registers or answers.
LEMMA TaskSteps ==
    ASSUME TypeOK, UnderWay, NEW k \in Commands,
           \/ GiveUpWaiting(k) \/ RegisterDevServer(k) \/ Answer(k)
    PROVE  TaskStep
<1>1. task \in [Commands -> Task]
  BY DEF TypeOK
<1>2. CASE task' = [task EXCEPT ![k].stage = "replying"] /\ task[k].stage # "none"
  <2>1. /\ task' \in [Commands -> Task] /\ \A l \in Commands \ {k} : task'[l] = task[l]
        /\ task'[k].stage = "replying" /\ task'[k].root = task[k].root /\ task'[k].term = task[k].term
    BY <1>1, <1>2 DEF Task
  <2>. QED BY <1>2, <2>1 DEF TaskStep, UnderWay
<1>3. CASE Answer(k)
  <2>1. NoTask \in Task /\ NoTask.stage = "none" /\ NoTask.term = None
    BY DEF NoTask, Task
  <2>. QED BY <1>1, <1>3, <2>1 DEF Answer, TaskStep, UnderWay
<1>. QED BY <1>2, <1>3 DEF GiveUpWaiting, RegisterDevServer

LEMMA Inductive == IInv /\ [Next]_vars => IInv'
<1>. SUFFICES ASSUME IInv, [Next]_vars PROVE IInv'
  OBVIOUS
<1>0. /\ TypeOK /\ UnderWay /\ Watched /\ StartsInOwnTab /\ ManagerType
      /\ (UNCHANGED call => CallStep) /\ (UNCHANGED task => TaskStep)
      /\ lastCommand \in 0..MaxCommands /\ pending \subseteq 1..lastCommand
      /\ tabs \subseteq Roots /\ window \in BOOLEAN /\ term \in [Terms -> Terminal]
  BY DEF IInv, Watched, TypeOK, ManagerType, CallStep, TaskStep, UnderWay
\* The parts of a step make the whole.
<1>1. ASSUME Watched', ManagerType', CallStep, TaskStep, StartsInOwnTab',
             lastCommand' \in 0..MaxCommands, pending' \subseteq 1..lastCommand',
             term' \in [Terms -> Terminal], tabs' \subseteq Roots, window' \in BOOLEAN
      PROVE  IInv'
  BY <1>1 DEF IInv, Watched, TypeOK, ManagerType, CallStep, TaskStep, UnderWay
<1>2. ASSUME TermStep, term' \in [Terms -> Terminal], UNCHANGED manager, CallStep, TaskStep,
             lastCommand' \in 0..MaxCommands, pending' \subseteq 1..lastCommand',
             tabs' \subseteq Roots, window' \in BOOLEAN
      PROVE  IInv'
  <2>1. Watched' /\ ManagerType'
    BY <1>0, <1>2, WatchedKept DEF ManagerType, manager
  <2>. QED BY <1>0, <1>1, <1>2, <2>1, OwnTabKept
<1>3. UNCHANGED term => TermStep
  BY <1>0 DEF TermStep
<1>4. CASE Starting
  BY <1>0, <1>2, <1>3, <1>4, StartingSteps DEF screen
<1>5. ASSUME NEW k \in Commands, TimeOut(k) PROVE IInv'
  BY <1>0, <1>2, <1>3, <1>5, Settles DEF TimeOut, screen
<1>6. ASSUME NEW k \in Commands, TakeCommand(k) PROVE IInv'
  <2>1. /\ TermStep /\ term' \in [Terms -> Terminal] /\ UNCHANGED <<manager, screen>>
        /\ task' \in [Commands -> Task] /\ UnderWay' /\ StartsInOwnTab'
        /\ UNCHANGED <<call, pending, lastCommand>>
    BY <1>0, <1>6, Opens DEF TakeCommand
  <2>2. Watched'
    BY <1>0, <2>1, WatchedKept
  <2>3. TypeOK'
    BY <1>0, <2>1 DEF TypeOK, manager, screen
  <2>. QED BY <2>1, <2>2, <2>3 DEF IInv, Watched
<1>7. ASSUME NEW k \in Commands, GiveUpWaiting(k) \/ Answer(k) PROVE IInv'
  <2>1. TaskStep
    BY <1>0, <1>7, TaskSteps
  <2>2. CallStep /\ pending' \subseteq 1..lastCommand'
    BY <1>0, <1>7, Settles DEF GiveUpWaiting, Answer
  <2>. QED BY <1>0, <1>2, <1>3, <1>7, <2>1, <2>2 DEF GiveUpWaiting, Answer, screen
<1>8. ASSUME NEW k \in Commands, RegisterDevServer(k) PROVE IInv'
  <2>1. TaskStep /\ TermStep
    BY <1>0, <1>3, <1>8, TaskSteps DEF RegisterDevServer
  <2>2. Watched' /\ ManagerType'
    BY <1>0, <1>8, Registers DEF ManagerType
  <2>. QED BY <1>0, <1>1, <1>8, <2>1, <2>2, OwnTabKept DEF RegisterDevServer, screen
<1>9. ASSUME NEW i \in intervals, NEW lsof \in BOOLEAN, NEW ps \in BOOLEAN, Tick(i, lsof, ps) PROVE IInv'
  <2>1. Watched' /\ ManagerType'
    BY <1>0, <1>9, Ticks DEF ManagerType
  <2>2. UNCHANGED <<commands, term, screen>>
    BY <1>9 DEF Tick
  <2>. QED BY <1>0, <1>1, <1>3, <2>1, <2>2, OwnTabKept DEF commands, screen
<1>10. ASSUME NEW r \in Roots, StopDevServer(r) PROVE IInv'
  <2>1. UNCHANGED <<commands, term, screen>>
    BY <1>10 DEF StopDevServer
  <2>2. IdleDevServer \in DevServerState /\ IdleDevServer.status = "idle"
    BY DEF IdleDevServer, DevServerState
  <2>3. Watched' /\ ManagerType'
    BY <1>0, <1>10, <2>1, <2>2, Stops DEF StopDevServer, ManagerType
  <2>. QED BY <1>0, <1>1, <1>3, <2>1, <2>3, OwnTabKept DEF commands, screen
<1>11. ASSUME NEW t \in Terms, PtyExit(t) PROVE IInv'
  <2>1. UNCHANGED <<commands, screen>>
    BY <1>11 DEF PtyExit
  <2>2. Watched' /\ ManagerType' /\ term' \in [Terms -> Terminal]
    BY <1>0, <1>11, PtyExits DEF ManagerType
  <2>3. StartsInOwnTab'
    <3>. SUFFICES ASSUME NEW k \in Commands, task[k].term # None
                  PROVE  term'[task[k].term].root = task[k].root
      BY <2>1 DEF StartsInOwnTab, commands
    <3>1. task[k].term \in Terms /\ term[task[k].term].root = task[k].root /\ task[k].root \in Roots
      BY <1>0 DEF TypeOK, Task, StartsInOwnTab, UnderWay
    <3>. QED BY <1>0, <1>11, <3>1, PtyExits, TerminalKinds
  <2>. QED BY <1>0, <1>1, <2>1, <2>2, <2>3 DEF commands, screen
<1>12. ASSUME NEW t \in Terms,
              \/ CloseOpening(t) \/ ServerDies(t) \/ RunAgain(t) \/ \E p \in Ports : ServerListens(t, p)
       PROVE  IInv'
  <2>1. UNCHANGED commands
    BY <1>12 DEF CloseOpening, ServerDies, RunAgain, ServerListens
  <2>2. TermStep /\ term' \in [Terms -> Terminal] /\ UNCHANGED <<manager, screen>>
    BY <1>0, <1>12, TermMoves
  <2>. QED BY <1>0, <1>2, <2>1, <2>2 DEF commands, screen
<1>13. ASSUME NEW t \in Terms, AttachPty(t) PROVE IInv'
  <2>1. TermStep /\ term' \in [Terms -> Terminal] /\ UNCHANGED <<manager, screen>>
    BY <1>0, <1>13, TermMoves
  <2>2. TaskStep
    <3>1. \A k \in Commands : task[k] \in Task
      BY <1>0 DEF TypeOK
    <3>2. task' = [k \in Commands |-> IF task[k].stage = "waiting" /\ task[k].term = t
                                      THEN [task[k] EXCEPT !.stage = "registering"] ELSE task[k]]
      BY <1>13 DEF AttachPty
    <3>. QED BY <1>0, <3>1, <3>2 DEF TaskStep, UnderWay, Task
  <2>. QED BY <1>0, <1>2, <1>13, <2>1, <2>2 DEF AttachPty, screen
<1>14. CASE LoseWindow
  <2>1. term' = [t \in Terms |-> IF term[t].shell = "opening" THEN [term[t] EXCEPT !.shell = "gone"]
                                ELSE term[t]]
    BY <1>14 DEF LoseWindow
  <2>2. ASSUME NEW t \in Terms
        PROVE  /\ term'[t] \in Terminal /\ term'[t].root = term[t].root
               /\ term[t].shell = "up" => term'[t].shell = "up"
    <3>1. term[t] \in Terminal
      BY <1>0
    <3>2. CASE term[t].shell = "opening"
      BY <2>1, <3>1, <3>2 DEF Terminal
    <3>. QED BY <2>1, <3>1, <3>2
  <2>3. TermStep /\ term' \in [Terms -> Terminal]
    BY <2>1, <2>2 DEF TermStep
  <2>4. TaskStep
    <3>1. NoTask \in Task /\ NoTask.stage = "none" /\ NoTask.term = None
      BY DEF NoTask, Task
    <3>. QED BY <1>14, <3>1 DEF LoseWindow, TaskStep
  <2>. QED BY <1>0, <1>2, <1>14, <2>3, <2>4 DEF LoseWindow
<1>15. ASSUME NEW ts \in SUBSET Roots, OpenWindow(ts) PROVE IInv'
  BY <1>0, <1>2, <1>3, <1>15 DEF OpenWindow, commands
<1>16. CASE UNCHANGED vars
  BY <1>0, <1>2, <1>3, <1>16 DEF vars, commands, screen
<1>17. CASE Commanding
  BY <1>5, <1>6, <1>7, <1>8, <1>17 DEF Commanding
<1>18. CASE World
  BY <1>11, <1>12, <1>13, <1>14, <1>15, <1>18 DEF World
<1>. QED BY <1>4, <1>9, <1>10, <1>16, <1>17, <1>18 DEF Next, Polling

\* What a step of the manager may put up as a project's port.
PortFound ==
    \A r \in Roots :
       states'[r].port \notin {states[r].port, None} =>
          \E t \in Terms : rootToPty[r] = t /\ term[t].root = r /\ term[t].server = states'[r].port

\* Only a tick finds a port, and the interval that ticks looks at the terminal its
\* project manages.
LEMMA PortStep == IInv /\ [Next]_vars => PortFound
<1>. SUFFICES ASSUME IInv, [Next]_vars PROVE PortFound
  OBVIOUS
<1>0. /\ states \in [Roots -> DevServerState] /\ intervals \subseteq Interval
      /\ \A r \in Roots : states[r] \in DevServerState
      /\ Owned /\ ActiveIsWatched /\ TypeOK
  BY DEF IInv, TypeOK
<1>1. UNCHANGED states => PortFound
  BY DEF PortFound
<1>2. CASE Starting
  BY <1>1, <1>2 DEF Starting, StartDevServer, SetDevServerCommand, FinishSaving, ReadProjectConfig,
                    ResolveCommand, manager
<1>3. ASSUME NEW k \in Commands, RegisterDevServer(k) PROVE PortFound
  <2>1. PICK t : t = task[k].term
    OBVIOUS
  <2>2. PICK r : r = term[t].root
    OBVIOUS
  <2>3. UNCHANGED states \/ states' = [states EXCEPT ![r] = OnStart(@, t)]
    BY <1>3, <2>1, <2>2 DEF RegisterDevServer, manager
  <2>4. \A s \in Roots : OnStart(states[s], t).port \in {states[s].port, None}
    BY DEF OnStart
  <2>. QED BY <1>0, <1>1, <2>3, <2>4 DEF PortFound
<1>4. CASE Commanding
  BY <1>1, <1>3, <1>4 DEF Commanding, TimeOut, TakeCommand, GiveUpWaiting, Answer, manager
<1>5. ASSUME NEW i \in intervals, NEW lsof \in BOOLEAN, NEW ps \in BOOLEAN, Tick(i, lsof, ps)
      PROVE  PortFound
  <2>1. PICK r \in Roots : r = i.root
    BY <1>0 DEF Interval
  <2>2. PICK port : port = SeenPort(i.pty, lsof)
    OBVIOUS
  <2>3. i.pty \in Terms /\ rootToPty[r] = i.pty /\ term[i.pty].root = r
    <3>1. i.pty \in Terms /\ i.pty # None /\ rootToPty[r] = i.pty
      BY <1>0, <2>1, PortsAssumption DEF Interval, ActiveIsWatched
    <3>. QED BY <1>0, <3>1 DEF Owned
  <2>4. \/ port # None /\ states' = [states EXCEPT ![r] = OnPort(@, port)]
        \/ states' = [states EXCEPT ![r] = OnExit(@)]
    BY <1>5, <2>1, <2>2 DEF Tick
  <2>5. \A s \in Roots : /\ OnPort(states[s], port).port \in {states[s].port, port}
                         /\ OnExit(states[s]).port = states[s].port
    BY <1>0 DEF OnPort, OnExit, DevServerState
  <2>6. port # None => term[i.pty].server = port
    BY <2>2 DEF SeenPort
  <2>7. CASE port # None /\ states' = [states EXCEPT ![r] = OnPort(@, port)]
    BY <1>0, <2>3, <2>5, <2>6, <2>7 DEF PortFound
  <2>8. CASE states' = [states EXCEPT ![r] = OnExit(@)]
    BY <1>0, <2>5, <2>8 DEF PortFound
  <2>. QED BY <2>4, <2>7, <2>8
<1>6. ASSUME NEW r \in Roots, StopDevServer(r) PROVE PortFound
  <2>1. states' = [states EXCEPT ![r] = IdleDevServer] /\ IdleDevServer.port = None
    BY <1>6 DEF StopDevServer, IdleDevServer
  <2>. QED BY <1>0, <2>1 DEF PortFound
<1>7. ASSUME NEW t \in Terms, PtyExit(t) PROVE PortFound
  <2>1. UNCHANGED states \/ \E r \in Roots : states' = [states EXCEPT ![r] = OnExit(@)]
    BY <1>7 DEF PtyExit, OnPtyExit, manager
  <2>2. \A s \in Roots : OnExit(states[s]).port = states[s].port
    BY <1>0 DEF OnExit, DevServerState
  <2>. QED BY <1>0, <1>1, <2>1, <2>2 DEF PortFound
<1>8. CASE World
  BY <1>1, <1>7, <1>8 DEF World, AttachPty, CloseOpening, ServerDies, RunAgain, ServerListens,
                          LoseWindow, OpenWindow, manager
<1>9. CASE UNCHANGED vars
  BY <1>1, <1>9 DEF vars, manager
<1>. QED BY <1>2, <1>4, <1>5, <1>6, <1>8, <1>9 DEF Next, Polling

LEMMA Invariant == Spec => []IInv
BY StartsWell, Inductive, PTL DEF Spec

-----------------------------------------------------------------------------
(* The theorems.                                                           *)

\* Every variable keeps its type, however long and however interleaved the run.
THEOREM TypeCorrect == Spec => []TypeOK
<1>1. IInv => TypeOK
  BY DEF IInv
<1>. QED BY <1>1, Invariant, PTL

\* Every interval that ticks is the one its project can cancel and looks at the
\* terminal that the project manages now; an active server is always polled.
THEOREM WatchSafe == Spec => []ActiveIsWatched
<1>1. IInv => ActiveIsWatched
  BY DEF IInv
<1>. QED BY <1>1, Invariant, PTL

\* No server is said to run in a terminal whose shell has ended.
THEOREM ShellSafe == Spec => []RunningHasShell
<1>1. IInv => RunningHasShell
  BY DEF IInv
<1>. QED BY <1>1, Invariant, PTL

\* The terminal opened for a project's start is in that project's tab.
THEOREM OwnTabSafe == Spec => []StartsInOwnTab
<1>1. IInv => StartsInOwnTab
  BY DEF IInv
<1>. QED BY <1>1, Invariant, PTL

\* Whatever starts, stops, exits and slow-downs went before, the port that a tick
\* puts up is one that the project's own managed terminal listens on.
THEOREM PortSafe == Spec => PortIsOwn
<1>1. IInv /\ [Next]_vars =>
        [\A r \in Roots :
            states'[r].port \notin {states[r].port, None} =>
               \E t \in Terms : /\ rootToPty[r] = t /\ term[t].root = r
                                /\ term[t].server = states'[r].port]_vars
  BY PortStep DEF PortFound
<1>. QED BY <1>1, Invariant, PTL DEF Spec, PortIsOwn

-----------------------------------------------------------------------------
(* Every start returns, and what is said of a server catches up.           *)

\* The fairness of each thing that main gets to, by name, and what it needs: that
\* the read or the save a call awaits can end, that the timer of a command that is
\* awaited can fire, and that a poll whose terminal differs from what is said of
\* it can tick.  Each has the guard written here and no other; they are hypotheses
\* because tlapm has no rule for ENABLED.
Proceed(c) == FinishSaving(c) \/ ReadProjectConfig(c) \/ ResolveCommand(c)
Poll(r) == \E i \in intervals : i.root = r /\ Tick(i, TRUE, TRUE)

FairCall(c) == WF_vars(Proceed(c))
FairTimer(k) == WF_vars(TimeOut(k))
FairPoll(r) == WF_vars(Poll(r))
MainFair ==
    /\ \A c \in Callers : FairCall(c)
    /\ \A k \in Commands : FairTimer(k)
    /\ \A r \in Roots : FairPoll(r)

\* A tick with probes that work has something to do.
HasNews(i) ==
    /\ i \in intervals /\ term[i.pty].shell = "up"
    /\ \/ term[i.pty].server \in Ports /\ states[i.root].port # term[i.pty].server
       \/ term[i.pty].server = "none" /\ states[i.root].status = "running"

Reading(c) == call[c].pc \in {"saving", "config", "guess"}
CanProceed(c) == Reading(c) => ENABLED <<Proceed(c)>>_vars
CanTimeOut(k) == k \in pending => ENABLED <<TimeOut(k)>>_vars
CanPoll(r) == (\E i \in intervals : i.root = r /\ HasNews(i)) => ENABLED <<Poll(r)>>_vars
MainRuns ==
    /\ \A c \in Callers : CanProceed(c)
    /\ \A k \in Commands : CanTimeOut(k)
    /\ \A r \in Roots : CanPoll(r)

\* A call awaits a command whose timer is armed; a server that starts shows no
\* port; a server runs in a shell.
Timely ==
    /\ \A c \in Callers : call[c].pc = "sent" => call[c].command \in pending
    /\ \A r \in Roots : states[r].status = "starting" => states[r].port = None
    /\ \A t \in Terms : term[t].server # "none" => term[t].shell = "up"

\* What a step does to the calls: each goes on as it must.
CallMoves(c) ==
    /\ call[c].pc = "saving" => call'[c].pc \in {"saving", "config", "idle"}
    /\ call[c].pc = "config" => call'[c].pc \in {"config", "guess", "sent", "idle"}
    /\ call[c].pc = "guess" => call'[c].pc \in {"guess", "sent", "idle"}
    /\ call[c].pc = "sent" => call'[c] = call[c] \/ call'[c].pc = "idle"
    /\ call'[c].pc = "sent" => call'[c].command \in pending'

LEMMA SettleMoves ==
    ASSUME TypeOK, Timely, NEW k, Settle(k), NEW c \in Callers
    PROVE  CallMoves(c)
BY DEF Settle, CallMoves, TypeOK, NoCall, Timely

LEMMA RunMoves ==
    ASSUME TypeOK, Timely, NEW d \in Callers, Reading(d), RunAgentCommand(d), NEW c \in Callers
    PROVE  /\ IF c = d THEN call'[c].pc \in {"sent", "idle"} ELSE call'[c] = call[c]
           /\ call'[c].pc = "sent" => call'[c].command \in pending'
<1>0. call \in [Callers -> Call] /\ call[d] \in Call
  BY DEF TypeOK
<1>1. CASE window
  <2> DEFINE k == lastCommand + 1
  <2>1. pending' = pending \cup {k} /\ call' = [call EXCEPT ![d].pc = "sent", ![d].command = k]
    BY <1>1 DEF RunAgentCommand
  <2> HIDE DEF k
  <2>2. call'[d].pc = "sent" /\ call'[d].command = k /\ \A e \in Callers \ {d} : call'[e] = call[e]
    BY <1>0, <2>1 DEF Call
  <2>3. CASE c = d
    BY <2>1, <2>2, <2>3
  <2>4. CASE c # d
    <3>1. call'[c] = call[c] /\ pending \subseteq pending'
      BY <2>1, <2>2, <2>4
    <3>. QED BY <2>4, <3>1 DEF Timely
  <2>. QED BY <2>3, <2>4
<1>2. CASE ~window
  BY <1>0, <1>2 DEF RunAgentCommand, NoCall, Timely
<1>. QED BY <1>1, <1>2

\* The steps that go on with a call leave the state in which they took it.
LEMMA ProceedMoves ==
    ASSUME TypeOK, Timely, NEW d \in Callers, Proceed(d), NEW c \in Callers
    PROVE  /\ CallMoves(c)
           /\ call[d].pc = "saving" => call'[d].pc \in {"config", "idle"}
           /\ call[d].pc = "config" => call'[d].pc \in {"guess", "sent", "idle"}
           /\ call[d].pc = "guess" => call'[d].pc \in {"sent", "idle"}
<1>0. call \in [Callers -> Call] /\ call[d] \in Call /\ NoCall.pc = "idle"
  BY DEF TypeOK, NoCall
<1>1. CASE FinishSaving(d)
  <2>1. call[d].pc = "saving" /\ pending' = pending
        /\ \/ call' = [call EXCEPT ![d] = NoCall]
           \/ call' = [call EXCEPT ![d] = [pc |-> "config", root |-> call[d].root, by |-> "user", command |-> None]]
    BY <1>1 DEF FinishSaving, CheckActive
  <2>2. call'[d].pc \in {"config", "idle"} /\ \A e \in Callers \ {d} : call'[e] = call[e]
    BY <1>0, <2>1
  <2>. QED BY <2>1, <2>2 DEF CallMoves, Timely
<1>2. CASE (ReadProjectConfig(d) \/ ResolveCommand(d)) /\ RunAgentCommand(d)
  <2>1. call[d].pc \in {"config", "guess"} /\ Reading(d)
    BY <1>2 DEF ReadProjectConfig, ResolveCommand, Reading
  <2>2. /\ call'[d].pc \in {"sent", "idle"} /\ (c # d => call'[c] = call[c])
        /\ call'[c].pc = "sent" => call'[c].command \in pending'
    BY <1>2, <2>1, RunMoves
  <2>. QED BY <2>1, <2>2 DEF CallMoves
<1>3. CASE ReadProjectConfig(d) /\ ~RunAgentCommand(d)
  <2>1. /\ call[d].pc = "config" /\ pending' = pending
        /\ call' = [call EXCEPT ![d].pc = "guess"]
    BY <1>3 DEF ReadProjectConfig
  <2>2. call'[d].pc = "guess" /\ \A e \in Callers \ {d} : call'[e] = call[e]
    BY <1>0, <2>1 DEF Call
  <2>. QED BY <2>1, <2>2 DEF CallMoves, Timely
<1>4. CASE ResolveCommand(d) /\ ~RunAgentCommand(d)
  BY <1>0, <1>4 DEF ResolveCommand, CallMoves, Timely
<1>. QED BY <1>1, <1>2, <1>3, <1>4 DEF Proceed

LEMMA CallsMove ==
    ASSUME TypeOK, Timely, [Next]_vars, NEW c \in Callers
    PROVE  CallMoves(c)
<1>1. ASSUME UNCHANGED <<call, pending>> PROVE CallMoves(c)
  BY <1>1 DEF CallMoves, Timely
<1>2. ASSUME NEW d \in Callers,
             \/ \E r \in Roots, by \in {"user", "agent"} : StartDevServer(d, r, by)
             \/ \E r \in Roots : SetDevServerCommand(d, r)
      PROVE  CallMoves(c)
  <2>1. /\ call[d].pc = "idle" /\ pending' = pending /\ call'[d].pc \in {"idle", "config", "saving"}
        /\ \A e \in Callers \ {d} : call'[e] = call[e]
    BY <1>2 DEF StartDevServer, CheckActive, SetDevServerCommand, TypeOK, NoCall
  <2>. QED BY <2>1 DEF CallMoves, Timely
<1>3. CASE Starting
  BY <1>2, <1>3, ProceedMoves DEF Starting, Proceed
<1>4. CASE Commanding
  BY <1>1, <1>4, SettleMoves DEF Commanding, TimeOut, Answer, TakeCommand, GiveUpWaiting, RegisterDevServer
<1>5. CASE Polling \/ World \/ UNCHANGED vars \/ \E r \in Roots : StopDevServer(r)
  BY <1>1, <1>5 DEF Polling, Tick, World, AttachPty, CloseOpening, PtyExit, ServerDies, RunAgain,
     ServerListens, LoseWindow, OpenWindow, StopDevServer, vars, commands
<1>. QED BY <1>3, <1>4, <1>5 DEF Next

\* Servers run in shells.
LEMMA ServersStep ==
    ASSUME TypeOK, Timely, [Next]_vars, NEW t \in Terms
    PROVE  term'[t].server # "none" => term'[t].shell = "up"
<1>0. /\ term \in [Terms -> Terminal] /\ term[t] \in Terminal
      /\ term[t].server # "none" => term[t].shell = "up"
  BY DEF TypeOK, Timely
<1>1. ASSUME term' = term PROVE term'[t].server # "none" => term'[t].shell = "up"
  BY <1>0, <1>1
<1>2. ASSUME NEW k \in Commands, NEW tab, OpensTerminal(k, tab)
      PROVE  term'[t].server # "none" => term'[t].shell = "up"
  BY <1>0, <1>2 DEF OpensTerminal
<1>3. CASE Commanding
  BY <1>1, <1>2, <1>3 DEF Commanding, TakeCommand, TimeOut, GiveUpWaiting, RegisterDevServer, Answer
<1>4. ASSUME NEW u \in Terms,
             \/ AttachPty(u) \/ CloseOpening(u) \/ PtyExit(u) \/ ServerDies(u) \/ RunAgain(u)
             \/ \E p \in Ports : ServerListens(u, p)
      PROVE  term'[t].server # "none" => term'[t].shell = "up"
  BY <1>0, <1>4 DEF AttachPty, CloseOpening, PtyExit, ServerDies, RunAgain, ServerListens, Terminal
<1>5. CASE LoseWindow
  <2>1. term'[t] = IF term[t].shell = "opening" THEN [term[t] EXCEPT !.shell = "gone"] ELSE term[t]
    BY <1>5 DEF LoseWindow
  <2>2. [term[t] EXCEPT !.shell = "gone"].server = term[t].server
    BY <1>0 DEF Terminal
  <2>. QED BY <1>0, <2>1, <2>2
<1>6. CASE World
  BY <1>1, <1>4, <1>5, <1>6 DEF World, OpenWindow
<1>. QED BY <1>1, <1>3, <1>6
         DEF Next, Starting, StartDevServer, SetDevServerCommand, FinishSaving, ReadProjectConfig,
             ResolveCommand, Polling, Tick, StopDevServer, vars

\* A server that starts has no port yet.
LEMMA StatesStep ==
    ASSUME IInv, Timely, [Next]_vars, NEW r \in Roots
    PROVE  states'[r].status = "starting" => states'[r].port = None
<1>0. /\ states \in [Roots -> DevServerState] /\ states[r] \in DevServerState
      /\ states[r].status = "starting" => states[r].port = None
  BY DEF IInv, TypeOK, Timely
<1>1. ASSUME UNCHANGED states PROVE states'[r].status = "starting" => states'[r].port = None
  BY <1>0, <1>1
<1>2. ASSUME NEW s, NEW new, states' = [states EXCEPT ![s] = new],
             s = r /\ new.status = "starting" => new.port = None
      PROVE  states'[r].status = "starting" => states'[r].port = None
  BY <1>0, <1>2
<1>3. /\ \A t : OnStart(states[r], t).status = "starting" => OnStart(states[r], t).port = None
      /\ \A p : OnPort(states[r], p).status # "starting"
      /\ OnExit(states[r]).status # "starting"
      /\ IdleDevServer.status # "starting"
  BY <1>0 DEF OnStart, OnPort, OnExit, Active, IdleDevServer, DevServerState
<1>4. ASSUME NEW k \in Commands, RegisterDevServer(k)
      PROVE  states'[r].status = "starting" => states'[r].port = None
  <2>1. PICK t, s : t = task[k].term /\ s = term[task[k].term].root
    OBVIOUS
  <2>2. UNCHANGED states \/ states' = [states EXCEPT ![s] = OnStart(states[s], t)]
    BY <1>4, <2>1 DEF RegisterDevServer, manager
  <2>. QED BY <1>0, <1>1, <1>2, <1>3, <2>2
<1>5. CASE Commanding
  BY <1>1, <1>4, <1>5 DEF Commanding, TakeCommand, TimeOut, GiveUpWaiting, Answer, manager
<1>6. ASSUME NEW i \in intervals, NEW lsof \in BOOLEAN, NEW ps \in BOOLEAN, Tick(i, lsof, ps)
      PROVE  states'[r].status = "starting" => states'[r].port = None
  <2>1. PICK s, p : s = i.root /\ p = SeenPort(i.pty, lsof)
    OBVIOUS
  <2>2. \/ states' = [states EXCEPT ![s] = OnPort(states[s], p)]
        \/ states' = [states EXCEPT ![s] = OnExit(states[s])]
    BY <1>6, <2>1 DEF Tick
  <2>. QED BY <1>0, <1>2, <1>3, <2>2
<1>7. ASSUME NEW s \in Roots, StopDevServer(s)
      PROVE  states'[r].status = "starting" => states'[r].port = None
  BY <1>2, <1>3, <1>7 DEF StopDevServer
<1>8. ASSUME NEW t \in Terms, PtyExit(t)
      PROVE  states'[r].status = "starting" => states'[r].port = None
  <2>1. UNCHANGED states \/ \E s \in Roots : states' = [states EXCEPT ![s] = OnExit(states[s])]
    BY <1>8 DEF PtyExit, OnPtyExit, manager
  <2>. QED BY <1>1, <1>2, <1>3, <2>1
<1>9. CASE World
  BY <1>1, <1>8, <1>9 DEF World, AttachPty, CloseOpening, ServerDies, RunAgain, ServerListens,
                          LoseWindow, OpenWindow, manager
<1>. QED BY <1>1, <1>5, <1>6, <1>7, <1>9
         DEF Next, Starting, StartDevServer, SetDevServerCommand, FinishSaving, ReadProjectConfig,
             ResolveCommand, Polling, vars, manager

Carried == IInv /\ Timely

LEMMA AlwaysCarried == Spec => []Carried
<1>1. Init => Timely
  BY DEF Init, Timely, NoCall, IdleDevServer
<1>2. IInv /\ Timely /\ [Next]_vars => Timely'
  <2>. SUFFICES ASSUME IInv, Timely, [Next]_vars PROVE Timely'
    OBVIOUS
  <2>1. TypeOK
    BY DEF IInv
  <2>2. \A c \in Callers : call'[c].pc = "sent" => call'[c].command \in pending'
    BY <2>1, CallsMove DEF CallMoves
  <2>3. \A r \in Roots : states'[r].status = "starting" => states'[r].port = None
    BY StatesStep
  <2>4. \A t \in Terms : term'[t].server # "none" => term'[t].shell = "up"
    BY <2>1, ServersStep
  <2>. QED BY <2>2, <2>3, <2>4 DEF Timely
<1>. QED BY <1>1, <1>2, Invariant, PTL DEF Spec, Carried

\* Each stage of a call ends.
LEMMA ReadingEnds ==
    ASSUME NEW c \in Callers
    PROVE  []Carried /\ [][Next]_vars /\ FairCall(c) /\ []CanProceed(c)
           => /\ (call[c].pc = "saving" ~> call[c].pc = "config" \/ call[c].pc = "idle")
              /\ (call[c].pc = "config" ~> call[c].pc = "guess" \/ call[c].pc = "sent" \/ call[c].pc = "idle")
              /\ (call[c].pc = "guess" ~> call[c].pc = "sent" \/ call[c].pc = "idle")
<1>1. Carried /\ [Next]_vars
      => /\ call[c].pc = "saving" =>
              (call[c].pc = "saving")' \/ (call[c].pc = "config")' \/ (call[c].pc = "idle")'
         /\ call[c].pc = "config" =>
              (call[c].pc = "config")' \/ (call[c].pc = "guess")' \/ (call[c].pc = "sent")' \/ (call[c].pc = "idle")'
         /\ call[c].pc = "guess" =>
              (call[c].pc = "guess")' \/ (call[c].pc = "sent")' \/ (call[c].pc = "idle")'
  BY CallsMove DEF Carried, IInv, CallMoves
<1>2. Carried /\ <<Proceed(c)>>_vars
      => /\ call[c].pc = "saving" => (call[c].pc = "config")' \/ (call[c].pc = "idle")'
         /\ call[c].pc = "config" =>
              (call[c].pc = "guess")' \/ (call[c].pc = "sent")' \/ (call[c].pc = "idle")'
         /\ call[c].pc = "guess" => (call[c].pc = "sent")' \/ (call[c].pc = "idle")'
  BY ProceedMoves DEF Carried, IInv
<1>3. CanProceed(c) /\ (call[c].pc = "saving" \/ call[c].pc = "config" \/ call[c].pc = "guess")
      => ENABLED <<Proceed(c)>>_vars
  BY DEF CanProceed, Reading
<1>. QED BY <1>1, <1>2, <1>3, PTL DEF FairCall

SentAs(k, c) == call[c].pc = "sent" /\ call[c].command = k

LEMMA SentEnds ==
    ASSUME NEW c \in Callers, NEW k \in Commands
    PROVE  []Carried /\ [][Next]_vars /\ FairTimer(k) /\ []CanTimeOut(k)
           => (SentAs(k, c) ~> call[c].pc = "idle")
<1>1. Carried /\ SentAs(k, c) /\ [Next]_vars => SentAs(k, c)' \/ (call[c].pc = "idle")'
  BY CallsMove DEF Carried, IInv, CallMoves, SentAs
<1>2. Carried /\ SentAs(k, c) /\ <<TimeOut(k)>>_vars => (call[c].pc = "idle")'
  BY DEF TimeOut, Settle, SentAs, NoCall
<1>3. Carried /\ CanTimeOut(k) /\ SentAs(k, c) => ENABLED <<TimeOut(k)>>_vars
  BY DEF Carried, Timely, CanTimeOut, SentAs
<1>. QED BY <1>1, <1>2, <1>3, PTL DEF FairTimer

\* A poll that ticks puts right what is said of its project.
LEMMA PollCatchesUp ==
    ASSUME NEW r \in Roots
    PROVE  []Carried /\ [][Next]_vars /\ FairPoll(r) /\ []CanPoll(r) => (Behind(r) ~> ~Behind(r))
<1>1. Carried /\ Behind(r) /\ <<Poll(r)>>_vars => ~Behind(r)'
  <2>. SUFFICES ASSUME Carried, Behind(r), Poll(r) PROVE ~Behind(r)'
    OBVIOUS
  <2>1. PICK i \in intervals : i.root = r /\ Tick(i, TRUE, TRUE)
    BY DEF Poll
  <2>2. /\ states \in [Roots -> DevServerState] /\ states[r] \in DevServerState
        /\ rootToPty[r] = i.pty /\ UNCHANGED <<rootToPty, term>>
    BY <2>1 DEF Carried, IInv, TypeOK, ActiveIsWatched, Tick
  <2>3. PICK p : p = SeenPort(i.pty, TRUE)
    OBVIOUS
  <2>4. \/ p # None /\ states' = [states EXCEPT ![r] = OnPort(states[r], p)]
        \/ states' = [states EXCEPT ![r] = OnExit(states[r])] /\ states[r].status = "running"
    BY <2>1, <2>3 DEF Tick
  <2>5. CASE p # None /\ states' = [states EXCEPT ![r] = OnPort(states[r], p)]
    <3>1. term[i.pty].server \in Ports /\ term[i.pty].server # "none"
      BY <2>3, <2>5, PortsAssumption DEF SeenPort
    <3>2. states'[r].status # "starting"
      BY <2>2, <2>5 DEF OnPort, Active, DevServerState
    <3>. QED BY <2>2, <3>1, <3>2 DEF Behind
  <2>6. CASE states' = [states EXCEPT ![r] = OnExit(states[r])] /\ states[r].status = "running"
    <3>1. states'[r].status = "exited"
      BY <2>2, <2>6 DEF OnExit, DevServerState
    <3>. QED BY <3>1 DEF Behind
  <2>. QED BY <2>4, <2>5, <2>6
<1>2. Carried /\ CanPoll(r) /\ Behind(r) => ENABLED <<Poll(r)>>_vars
  <2>. SUFFICES ASSUME Carried, Behind(r) PROVE \E i \in intervals : i.root = r /\ HasNews(i)
    BY DEF CanPoll
  <2>1. Active(states[r])
    BY DEF Behind, Active
  <2>2. /\ pollTimers[r] \in intervals /\ pollTimers[r] \in Interval
        /\ rootToPty[r] \in Terms /\ rootToPty[r] # None
    BY <2>1 DEF Carried, IInv, TypeOK, ActiveIsWatched
  <2>3. PICK i \in intervals : i = pollTimers[r]
    BY <2>2
  <2>4. i # None
    BY <2>2, <2>3, PortsAssumption DEF Interval
  <2>5. i.root = r /\ i.pty = rootToPty[r]
    BY <2>3, <2>4 DEF Carried, IInv, Owned, ActiveIsWatched
  <2>6. CASE states[r].status = "running" /\ term[i.pty].server = "none"
    <3>1. term[i.pty].shell = "up"
      BY <2>5, <2>6 DEF Carried, IInv, RunningHasShell
    <3>. QED BY <2>5, <2>6, <3>1 DEF HasNews
  <2>7. CASE states[r].status = "starting" /\ term[i.pty].server \in Ports
    <3>1. states[r].port = None /\ term[i.pty].shell = "up"
      BY <2>2, <2>5, <2>7, PortsAssumption DEF Carried, Timely
    <3>2. states[r].port # term[i.pty].server
      BY <2>7, <3>1, PortsAssumption
    <3>. QED BY <2>5, <2>7, <3>1, <3>2 DEF HasNews
  <2>. QED BY <2>5, <2>6, <2>7 DEF Behind
<1>. QED BY <1>1, <1>2, PTL DEF FairPoll

\* Fairness is for good.
LEMMA MainStaysFair == Fairness => []MainFair
<1>1. Fairness => MainFair
  BY PTL DEF Fairness, MainFair, FairCall, FairTimer, FairPoll, Proceed, Poll
<1>2. ASSUME NEW c \in Callers PROVE FairCall(c) => []FairCall(c)
  BY PTL DEF FairCall
<1>3. ASSUME NEW k \in Commands PROVE FairTimer(k) => []FairTimer(k)
  BY PTL DEF FairTimer
<1>4. ASSUME NEW r \in Roots PROVE FairPoll(r) => []FairPoll(r)
  BY PTL DEF FairPoll
<1>5. MainFair => /\ \A c \in Callers : []FairCall(c)
                  /\ \A k \in Commands : []FairTimer(k)
                  /\ \A r \in Roots : []FairPoll(r)
  BY <1>2, <1>3, <1>4 DEF MainFair
<1>6. (\A c \in Callers : []FairCall(c)) => [](\A c \in Callers : FairCall(c))
  OBVIOUS
<1>7. (\A k \in Commands : []FairTimer(k)) => [](\A k \in Commands : FairTimer(k))
  OBVIOUS
<1>8. (\A r \in Roots : []FairPoll(r)) => [](\A r \in Roots : FairPoll(r))
  OBVIOUS
<1>. QED BY <1>1, <1>5, <1>6, <1>7, <1>8, PTL DEF MainFair

Assumed == []Carried /\ [][Next]_vars /\ []MainFair /\ []MainRuns

LEMMA FairAssumed == FairSpec /\ []MainRuns => Assumed
BY MainStaysFair, AlwaysCarried, PTL DEF FairSpec, Spec, Assumed

StartReturns(c) == call[c].pc # "idle" ~> call[c].pc = "idle"

\* Every start returns to its caller, however long renderers and windows take: each
\* of its reads ends, and the five-second timer of the command it sent
\* (agent-commands.ts) is armed for as long as it waits.
THEOREM StartsReturn == FairSpec /\ []MainRuns => EveryStartReturns
<1>1. ASSUME NEW c \in Callers PROVE Assumed => StartReturns(c)
  <2>1. ASSUME NEW k \in Commands PROVE Assumed => (SentAs(k, c) => <>(call[c].pc = "idle"))
    <3>1. (MainRuns => CanTimeOut(k)) /\ (MainFair => FairTimer(k))
      BY DEF MainRuns, MainFair
    <3>2. []Carried /\ [][Next]_vars /\ FairTimer(k) /\ []CanTimeOut(k)
          => (SentAs(k, c) ~> call[c].pc = "idle")
      BY SentEnds
    <3>. QED BY <3>1, <3>2, PTL DEF Assumed
  <2>2. Assumed => ((\E k \in Commands : SentAs(k, c)) => <>(call[c].pc = "idle"))
    BY <2>1
  <2>3. Carried /\ call[c].pc = "sent" => \E k \in Commands : SentAs(k, c)
    <3>. SUFFICES ASSUME Carried, call[c].pc = "sent" PROVE \E k \in Commands : SentAs(k, c)
      OBVIOUS
    <3>1. pending \subseteq 1..lastCommand /\ lastCommand \in 0..MaxCommands
      BY DEF Carried, IInv, TypeOK
    <3>2. PICK k \in pending : k = call[c].command
      BY DEF Carried, Timely
    <3>3. k \in Commands
      BY <3>1, CommandsAssumption DEF Commands
    <3>. QED BY <3>2, <3>3 DEF SentAs
  <2>4. (MainRuns => CanProceed(c)) /\ (MainFair => FairCall(c))
    BY DEF MainRuns, MainFair
  <2>5. []Carried /\ [][Next]_vars /\ FairCall(c) /\ []CanProceed(c)
        => /\ (call[c].pc = "saving" ~> call[c].pc = "config" \/ call[c].pc = "idle")
           /\ (call[c].pc = "config" ~> call[c].pc = "guess" \/ call[c].pc = "sent" \/ call[c].pc = "idle")
           /\ (call[c].pc = "guess" ~> call[c].pc = "sent" \/ call[c].pc = "idle")
    BY ReadingEnds
  <2>6. Carried => \/ call[c].pc = "idle" \/ call[c].pc = "saving" \/ call[c].pc = "config"
                   \/ call[c].pc = "guess" \/ call[c].pc = "sent"
    BY DEF Carried, IInv, TypeOK, Call
  <2>7. call[c].pc # "idle" <=> ~(call[c].pc = "idle")
    OBVIOUS
  <2>. QED BY <2>2, <2>3, <2>4, <2>5, <2>6, <2>7, PTL DEF Assumed, StartReturns
<1>2. (\A c \in Callers : StartReturns(c)) => EveryStartReturns
  BY PTL DEF StartReturns, EveryStartReturns
<1>. QED BY <1>1, <1>2, FairAssumed

CaughtUp(r) == Behind(r) ~> ~Behind(r)

\* What is said of a server catches up with what runs in its terminal: whatever
\* starts, stops and slow-downs went before, a server that is said to start or run
\* has a poll that looks at the right terminal (manager.ts, tick).
THEOREM StatusFollows == FairSpec /\ []MainRuns => StatusCatchesUp
<1>1. ASSUME NEW r \in Roots PROVE Assumed => CaughtUp(r)
  <2>1. (MainRuns => CanPoll(r)) /\ (MainFair => FairPoll(r))
    BY DEF MainRuns, MainFair
  <2>2. []Carried /\ [][Next]_vars /\ FairPoll(r) /\ []CanPoll(r) => (Behind(r) ~> ~Behind(r))
    BY PollCatchesUp
  <2>. QED BY <2>1, <2>2, PTL DEF Assumed, CaughtUp
<1>2. (\A r \in Roots : CaughtUp(r)) => StatusCatchesUp
  BY PTL DEF CaughtUp, StatusCatchesUp
<1>. QED BY <1>1, <1>2, FairAssumed
=============================================================================
