------------------------------- MODULE LocalApps -------------------------------
(***************************************************************************)
(* Notices about local servers that have run for long.                     *)
(*                                                                          *)
(* A poll (localapps/index.ts) lists the processes that listen on a port   *)
(* out of a known project and are older than a threshold (scan.ts,         *)
(* detect.ts), and reconciles the notices in the bell with the list        *)
(* (agent-requests.ts).  Polls start every ten minutes and after each      *)
(* Stop; they await the preferences, the projects and docker, and so may   *)
(* overlap.  The user stops the app of a notice or ignores it.             *)
(*                                                                          *)
(* A process listens on one port and its pid is its number: pids are not   *)
(* reused.  Containers, whose age docker keeps, are left out.              *)
(***************************************************************************)
EXTENDS Integers, FiniteSets

CONSTANTS
    Procs,      \* processes, by pid
    PortOf,     \* the port each listens on
    Second,     \* ticks of the clock in a second, the grain of ps
    Threshold,  \* age, in ticks, over which an app is reported
    MaxClock,   \* bound: the clock
    MaxPolls,   \* bound: polls under way at once
    None

ASSUME ClockAssumption == /\ Second \in Nat \ {0} /\ Threshold \in Nat
                          /\ MaxClock \in Nat /\ MaxPolls \in Nat
ASSUME ProcsAssumption == Procs \subseteq Nat /\ DOMAIN PortOf = Procs /\ None \notin Nat

Polls == 1..MaxPolls
Times == 0..MaxClock

VARIABLES
    clock,
    started,       \* when each process started, or None
    ended,         \* processes that are gone
    managed,       \* processes whose port the dev-server manager reports as its own
    polls,         \* the polls under way
    pidForApp,     \* the apps of the last poll that listed any, with their pids
    notices,       \* the longRunningApp entries of the registry, each with its process
    acknowledged   \* acknowledgedApps, each with the process it was about

world == <<clock, started, ended, managed>>
bell == <<pidForApp, notices, acknowledged>>
vars == <<world, polls, bell>>

-----------------------------------------------------------------------------

Identity == [type : {"managedServer", "detectedServer"}, port : {PortOf[p] : p \in Procs},
             startedAt : Times]
App == [identity : Identity, pid : Procs]
Poll == [stage : {"free", "prefs", "roots", "docker"}, found : SUBSET App]
NoPoll == [stage |-> "free", found |-> {}]

TypeOK ==
    /\ clock \in Times
    /\ started \in [Procs -> Times \cup {None}]
    /\ ended \subseteq {p \in Procs : started[p] # None} /\ managed \subseteq Procs
    /\ polls \in [Polls -> Poll]
    /\ pidForApp \subseteq App /\ notices \subseteq App /\ acknowledged \subseteq App

Init ==
    /\ clock = 0
    /\ started = [p \in Procs |-> None] /\ ended = {} /\ managed = {}
    /\ polls = [s \in Polls |-> NoPoll]
    /\ pidForApp = {} /\ notices = {} /\ acknowledged = {}

-----------------------------------------------------------------------------
(* The machine.                                                            *)

Runs(p) == started[p] # None /\ p \notin ended

Tick ==
    /\ clock < MaxClock
    /\ clock' = clock + 1
    /\ UNCHANGED <<started, ended, managed, polls, bell>>

\* A server is started, by the manager or by hand.  A port has one server, unless
\* a supervisor hands its socket to a worker it forks.
ProcStarts(p) ==
    /\ started[p] = None
    /\ started' = [started EXCEPT ![p] = clock]
    /\ \/ managed' = managed \cup {p}
       \/ UNCHANGED managed
    /\ UNCHANGED <<clock, ended, polls, bell>>

ProcEnds(p) ==
    /\ Runs(p)
    /\ ended' = ended \cup {p}
    /\ managed' = managed \ {p}
    /\ UNCHANGED <<clock, started, polls, bell>>

\* The manager stops the server; it may ignore the interrupt.
ManagerStops ==
    /\ managed' = {}
    /\ UNCHANGED <<clock, started, ended, polls, bell>>

-----------------------------------------------------------------------------
(* One scan.                                                               *)

\* Broken parseElapsed: a second begun counts as a second.
RoundedUp(p) == Second * ((clock - started[p]) \div Second + 1)

\* ps tells whole seconds; the start is the instant of the scan less those.
Elapsed(p) == Second * ((clock - started[p]) \div Second)
StartedAt(p) == clock - Elapsed(p)

\* Broken isOverThreshold: everything is long-running.
AnyAge(p) == TRUE
IsOverThreshold(p) == clock - StartedAt(p) > Threshold

Qualified == {p \in Procs : Runs(p) /\ IsOverThreshold(p)}

\* Broken ownership: every listener of a port gets a card.
AnyListener(p) == TRUE

\* One owner per port, the oldest; a tie goes to the lower pid.
OwnsPort(p) ==
    \A q \in Qualified \ {p} : PortOf[q] = PortOf[p] =>
        \/ StartedAt(p) < StartedAt(q)
        \/ StartedAt(p) = StartedAt(q) /\ p < q

IsManagedPort(port) == \E p \in managed : Runs(p) /\ PortOf[p] = port

AppOf(p) ==
    [identity |-> [type |-> IF IsManagedPort(PortOf[p]) THEN "managedServer" ELSE "detectedServer",
                   port |-> PortOf[p], startedAt |-> StartedAt(p)],
     pid |-> p]
LongRunningProcesses == {AppOf(p) : p \in {q \in Qualified : OwnsPort(q)}}

-----------------------------------------------------------------------------
(* The poll.                                                               *)

\* Broken reconciliation: nothing is retired.
KeepNotices(apps) ==
    /\ notices' = notices \cup apps
    /\ UNCHANGED acknowledged

\* reconcileLongRunningApps: the list is the whole truth, but for acknowledged apps.
Reconcile(apps) ==
    /\ notices' = {a \in apps : \A b \in acknowledged : b.identity # a.identity}
    /\ UNCHANGED acknowledged

StartPoll(s) ==
    /\ polls[s].stage = "free"
    /\ polls' = [polls EXCEPT ![s].stage = "prefs"]
    /\ UNCHANGED <<world, bell>>

\* The preferences are read.  Off, or unreadable: every notice is retired.
ReadPrefs(s) ==
    /\ polls[s].stage = "prefs"
    /\ \/ /\ polls' = [polls EXCEPT ![s].stage = "roots"]
          /\ UNCHANGED bell
       \/ /\ polls' = [polls EXCEPT ![s] = NoPoll]
          /\ pidForApp' = {}
          /\ Reconcile({})
    /\ UNCHANGED world

\* The projects are known and the machine is scanned, in one go up to docker.  A
\* probe that fails sees nothing.
Scan(s) ==
    /\ polls[s].stage = "roots"
    /\ \E found \in {LongRunningProcesses, {}} :
          polls' = [polls EXCEPT ![s] = [stage |-> "docker", found |-> found]]
    /\ UNCHANGED <<world, bell>>

\* A scan that throws, before docker or after, changes nothing.
ScanThrows(s) ==
    /\ polls[s].stage = "docker"
    /\ polls' = [polls EXCEPT ![s] = NoPoll]
    /\ UNCHANGED <<world, bell>>

FinishPoll(s) ==
    /\ polls[s].stage = "docker"
    /\ polls' = [polls EXCEPT ![s] = NoPoll]
    /\ pidForApp' = polls[s].found
    /\ Reconcile(polls[s].found)
    /\ UNCHANGED world

-----------------------------------------------------------------------------
(* The user.                                                               *)

\* Broken lookup: Stop goes by the port alone.
PidByPort(n) == {p \in Procs : Runs(p) /\ PortOf[p] = n.identity.port}

PidOf(n) == {a.pid : a \in {b \in pidForApp : b.identity = n.identity}}

\* stopLocalApp of a server the manager reports: through the manager.  Else the
\* process is sent SIGTERM, which it may ignore; without a pid, or of one that is
\* gone, the call answers with an error and changes nothing.
StopLocalApp(n, s) ==
    /\ n \in notices /\ polls[s].stage = "free"
    /\ \/ /\ n.identity.type = "managedServer"
          /\ managed' = {}
       \/ /\ n.identity.type = "detectedServer"
          /\ \E p \in PidOf(n) : Runs(p)
          /\ UNCHANGED managed
    /\ notices' = notices \ {n}
    /\ polls' = [polls EXCEPT ![s].stage = "prefs"]
    /\ UNCHANGED <<clock, started, ended, pidForApp, acknowledged>>

\* dismissAgentRequest of a notice: "I know about this".
Ignore(n) ==
    /\ n \in notices
    /\ notices' = notices \ {n}
    /\ acknowledged' = acknowledged \cup {n}
    /\ UNCHANGED <<world, polls, pidForApp>>

-----------------------------------------------------------------------------

Next ==
    \/ Tick \/ ManagerStops
    \/ \E p \in Procs : ProcStarts(p) \/ ProcEnds(p)
    \/ \E s \in Polls : StartPoll(s) \/ ReadPrefs(s) \/ Scan(s) \/ ScanThrows(s) \/ FinishPoll(s)
    \/ \E n \in notices : Ignore(n) \/ \E s \in Polls : StopLocalApp(n, s)

Spec == Init /\ [][Next]_vars

\* The interval fires, what a poll awaits is answered, and not every scan throws.
Fairness ==
    \A s \in Polls : /\ WF_vars(StartPoll(s) \/ ReadPrefs(s) \/ Scan(s))
                     /\ SF_vars(FinishPoll(s))

FairSpec == Spec /\ Fairness

-----------------------------------------------------------------------------
(* Properties.                                                             *)

\* One card per port, although a supervisor and its worker both listen on it.
OneCardPerPort == \A m, n \in notices : m.identity.port = n.identity.port => m = n

\* The processes a Stop could signal now.
Stoppable == UNION {PidOf(n) : n \in {m \in notices : m.identity.type = "detectedServer"}}

\* Stop signals only a process that a poll listed as long-running: one card, one
\* process of its port, over the threshold, whichever of two overlapping polls
\* finished last.
StopsOnlyLongRunning ==
    /\ \A n \in notices : n.identity.type = "detectedServer" => \E p \in Procs : PidOf(n) = {p}
    /\ \A p \in Stoppable : started[p] # None /\ clock - started[p] > Threshold

\* A process whose notice was ignored gets no other as the same kind of app:
\* "acknowledging is permanent for this run of that app, but a restart is a new
\* identity", "an acknowledged identity is never resurrected".
IgnoredStaysAway ==
    \A n \in notices, b \in acknowledged : n.pid = b.pid => n.identity.type # b.identity.type

\* An app that ended is retired for good, although polls that saw it alive may
\* still finish: the bell does not keep, or bring back for ever, a card about nothing.
EndedStaysRetired ==
    \A p \in Procs : (p \in ended) ~> [](\A n \in notices : n.pid # p)
=============================================================================
