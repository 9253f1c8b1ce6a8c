--------------------------- MODULE LocalAppsProofs ---------------------------
(***************************************************************************)
(* Proofs about LocalApps, for any processes, ports, threshold, clock and  *)
(* number of polls under way at once.                                      *)
(*                                                                          *)
(* What every list of apps has, those that polls still hold included, is   *)
(* Report: one app per port, each of a process that is over the threshold. *)
(* It stays true of a list however old the list is, because time only      *)
(* passes; and the notices are always among the apps the pids of which are *)
(* kept, because one step of a poll replaces both.                         *)
(***************************************************************************)
EXTENDS LocalApps, TLAPS

OverThreshold(p) == started[p] # None /\ clock - started[p] > Threshold

\* What holds of each list of apps.
Report(apps) ==
    /\ apps \subseteq App
    /\ \A a, b \in apps : a.identity.port = b.identity.port => a = b
    /\ \A a \in apps : OverThreshold(a.pid)

StartedInThePast == \A p \in Procs : started[p] # None => started[p] <= clock
ReportsHold == Report(pidForApp) /\ \A s \in Polls : Report(polls[s].found)
NoticesAreListed == notices \subseteq pidForApp

IInv == TypeOK /\ StartedInThePast /\ ReportsHold /\ NoticesAreListed

-----------------------------------------------------------------------------
(* One scan.                                                               *)

\* A whole number of seconds that fit in a time is no longer than it.
LEMMA WholeSeconds ==
    ASSUME NEW n \in Nat, NEW s \in Nat \ {0}
    PROVE  /\ s * (n \div s) \in Nat
           /\ s * (n \div s) <= n
OBVIOUS

\* ps never makes a process older than it is.
LEMMA StartIsRounded ==
    ASSUME TypeOK, StartedInThePast, NEW p \in Procs, started[p] # None
    PROVE  /\ started[p] \in Times /\ clock \in Times /\ clock - started[p] \in Nat
           /\ StartedAt(p) \in Times /\ started[p] <= StartedAt(p)
<1>1. started[p] \in Times /\ clock \in Times /\ MaxClock \in Nat /\ started[p] <= clock
  BY ClockAssumption DEF TypeOK, StartedInThePast
<1> DEFINE d == clock - started[p]
<1>2. d \in Nat
  BY <1>1 DEF Times
<1>3. Elapsed(p) \in Nat /\ Elapsed(p) <= d
  BY <1>2, WholeSeconds, ClockAssumption DEF Elapsed
<1> QED
  BY <1>1, <1>2, <1>3, ClockAssumption DEF StartedAt, Times

\* What a scan finds is a report.
LEMMA ScanReports ==
    ASSUME TypeOK, StartedInThePast
    PROVE  Report(LongRunningProcesses)
<1>1. \A p \in Qualified : /\ p \in Procs /\ started[p] # None
                           /\ StartedAt(p) \in Times /\ OverThreshold(p)
  <2> SUFFICES ASSUME NEW p \in Qualified
               PROVE  /\ p \in Procs /\ started[p] # None
                      /\ StartedAt(p) \in Times /\ OverThreshold(p)
    OBVIOUS
  <2>1. p \in Procs /\ started[p] # None /\ clock - StartedAt(p) > Threshold
    BY DEF Qualified, Runs, IsOverThreshold
  <2>2. /\ started[p] \in Times /\ clock \in Times
        /\ StartedAt(p) \in Times /\ started[p] <= StartedAt(p)
    BY <2>1, StartIsRounded
  <2> QED
    BY <2>1, <2>2, ClockAssumption DEF OverThreshold, Times
<1>2. \A p \in Qualified : /\ AppOf(p) \in App /\ AppOf(p).pid = p
                           /\ AppOf(p).identity.port = PortOf[p]
  BY <1>1 DEF AppOf, App, Identity
<1>3. \A p, q \in Qualified : OwnsPort(p) /\ OwnsPort(q) /\ PortOf[p] = PortOf[q] => p = q
  <2> SUFFICES ASSUME NEW p \in Qualified, NEW q \in Qualified, p # q,
                      OwnsPort(p), OwnsPort(q), PortOf[p] = PortOf[q]
               PROVE  FALSE
    OBVIOUS
  <2>1. StartedAt(p) < StartedAt(q) \/ (StartedAt(p) = StartedAt(q) /\ p < q)
    BY DEF OwnsPort
  <2>2. StartedAt(q) < StartedAt(p) \/ (StartedAt(q) = StartedAt(p) /\ q < p)
    BY DEF OwnsPort
  <2>3. /\ p \in Procs /\ q \in Procs
        /\ StartedAt(p) \in Times /\ StartedAt(q) \in Times
    BY <1>1
  <2>4. p \in Int /\ q \in Int
    BY <2>3, ProcsAssumption
  <2>5. StartedAt(p) \in Int /\ StartedAt(q) \in Int
    BY <2>3 DEF Times
  <2> QED
    BY <2>1, <2>2, <2>4, <2>5
<1>4. LongRunningProcesses \subseteq {AppOf(p) : p \in Qualified}
  BY DEF LongRunningProcesses
<1>5. ASSUME NEW a \in LongRunningProcesses, NEW b \in LongRunningProcesses,
             a.identity.port = b.identity.port
      PROVE  a = b
  <2>1. PICK p \in Qualified : OwnsPort(p) /\ a = AppOf(p)
    BY <1>5 DEF LongRunningProcesses
  <2>2. PICK q \in Qualified : OwnsPort(q) /\ b = AppOf(q)
    BY <1>5 DEF LongRunningProcesses
  <2>3. PortOf[p] = PortOf[q]
    BY <1>2, <1>5, <2>1, <2>2
  <2> QED
    BY <1>3, <2>1, <2>2, <2>3
<1> QED
  BY <1>1, <1>2, <1>4, <1>5 DEF Report

-----------------------------------------------------------------------------
(* Steps that change no list.                                              *)

\* A report stays one, because time passes and processes are not started twice.
Ages ==
    /\ clock' \in Times /\ clock <= clock'
    /\ \A p \in Procs : started[p] # None => started'[p] = started[p]

LEMMA ReportsAge ==
    ASSUME TypeOK, Ages, NEW apps, Report(apps)
    PROVE  Report(apps)'
<1>1. \A p \in Procs : started[p] # None => started[p] \in Times
  BY DEF TypeOK
<1>2. apps \subseteq App
  BY DEF Report
<1>3. ASSUME NEW a \in apps
      PROVE  started'[a.pid] # None /\ clock' - started'[a.pid] > Threshold
  <2>1. a.pid \in Procs
    BY <1>2 DEF App
  <2>2. started[a.pid] # None /\ clock - started[a.pid] > Threshold
    BY DEF Report, OverThreshold
  <2>3. started'[a.pid] = started[a.pid] /\ started[a.pid] \in Times
    BY <1>1, <2>1, <2>2 DEF Ages
  <2> QED
    BY <2>2, <2>3, ClockAssumption DEF Ages, Times, TypeOK
<1> QED
  BY <1>2, <1>3 DEF Report, OverThreshold

\* A step of the machine that leaves the polls and the bell alone.
LEMMA AgeStep ==
    ASSUME IInv, Ages, UNCHANGED <<polls, bell>>
    PROVE  ReportsHold' /\ NoticesAreListed'
<1>1. Report(pidForApp)' /\ \A s \in Polls : Report(polls[s].found)'
  <2>1. TypeOK /\ Report(pidForApp) /\ \A s \in Polls : Report(polls[s].found)
    BY DEF IInv, ReportsHold
  <2>2. \A apps : Report(apps) => Report(apps)'
    BY <2>1, ReportsAge
  <2> QED
    BY <2>1, <2>2 DEF bell
<1> QED
  BY <1>1 DEF IInv, ReportsHold, NoticesAreListed, bell

LEMMA TickKeepsIInv == ASSUME IInv, Tick PROVE IInv'
<1>1. clock \in Times /\ clock' = clock + 1 /\ clock' \in Times /\ clock <= clock'
  BY ClockAssumption DEF IInv, TypeOK, Tick, Times
<1>2. TypeOK'
  BY <1>1 DEF IInv, TypeOK, Tick, bell
<1>3. StartedInThePast'
  BY <1>1 DEF IInv, TypeOK, StartedInThePast, Tick, Times
<1>4. Ages /\ UNCHANGED <<polls, bell>>
  BY <1>1 DEF Ages, Tick
<1> QED
  BY <1>2, <1>3, <1>4, AgeStep DEF IInv

LEMMA ProcStartsKeepsIInv == ASSUME IInv, NEW p \in Procs, ProcStarts(p) PROVE IInv'
<1>1. clock \in Times /\ clock' = clock
  BY DEF IInv, TypeOK, ProcStarts
<1>2. None \notin Times
  BY ProcsAssumption, ClockAssumption DEF Times
<1>3. started' = [started EXCEPT ![p] = clock] /\ started \in [Procs -> Times \cup {None}]
  BY DEF IInv, TypeOK, ProcStarts
<1>4. ended' = ended /\ ended \subseteq {q \in Procs : started[q] # None} /\ started[p] = None
  BY DEF IInv, TypeOK, ProcStarts
<1>5. ended' \subseteq {q \in Procs : started'[q] # None}
  BY <1>3, <1>4
<1>6. TypeOK'
  BY <1>1, <1>3, <1>5 DEF IInv, TypeOK, ProcStarts, bell
<1>7. StartedInThePast'
  BY <1>1, <1>3, ClockAssumption DEF IInv, StartedInThePast, Times
<1>8. Ages /\ UNCHANGED <<polls, bell>>
  BY <1>1, <1>3, <1>4, ClockAssumption DEF Ages, ProcStarts, Times
<1> QED
  BY <1>6, <1>7, <1>8, AgeStep DEF IInv

\* The other steps of the machine start no process and do not move the clock.
LEMMA EndsKeepIInv ==
    ASSUME IInv, ManagerStops \/ \E p \in Procs : ProcEnds(p)
    PROVE  IInv'
<1>1. UNCHANGED <<clock, started, polls, bell>> /\ managed' \subseteq Procs
  BY DEF IInv, TypeOK, ManagerStops, ProcEnds
<1>2. ended' \subseteq {q \in Procs : started[q] # None}
  BY DEF IInv, TypeOK, ManagerStops, ProcEnds, Runs
<1>3. TypeOK' /\ StartedInThePast'
  BY <1>1, <1>2 DEF IInv, TypeOK, StartedInThePast, bell
<1>4. Ages
  BY <1>1, ClockAssumption DEF IInv, TypeOK, Ages, Times
<1> QED
  BY <1>1, <1>3, <1>4, AgeStep DEF IInv

-----------------------------------------------------------------------------
(* Steps of the polls and of the user.                                     *)

\* The lists of a step that leaves time and the processes alone.
LEMMA ListStep ==
    ASSUME IInv, UNCHANGED <<clock, started>>,
           ended' = ended, managed' \subseteq Procs, acknowledged' \subseteq App,
           polls' \in [Polls -> Poll],
           \A s \in Polls : Report(polls'[s].found),
           Report(pidForApp'), notices' \subseteq pidForApp'
    PROVE  IInv'
<1>1. pidForApp' \subseteq App
  BY DEF Report
<1>2. TypeOK' /\ StartedInThePast'
  BY <1>1 DEF IInv, TypeOK, StartedInThePast
<1>3. ReportsHold'
  BY DEF ReportsHold, Report, OverThreshold
<1> QED
  BY <1>2, <1>3 DEF IInv, NoticesAreListed

LEMMA EmptyReport == Report({})
BY DEF Report

LEMMA ReconcileKeeps ==
    ASSUME NEW apps, Reconcile(apps), acknowledged \subseteq App
    PROVE  notices' \subseteq apps /\ acknowledged' \subseteq App
BY DEF Reconcile

LEMMA PollKeepsIInv ==
    ASSUME IInv, NEW s \in Polls,
           StartPoll(s) \/ ReadPrefs(s) \/ Scan(s) \/ ScanThrows(s) \/ FinishPoll(s)
    PROVE  IInv'
<1>1. /\ TypeOK /\ StartedInThePast /\ acknowledged \subseteq App
      /\ polls \in [Polls -> Poll] /\ managed \subseteq Procs
      /\ Report(pidForApp) /\ notices \subseteq pidForApp
      /\ \A r \in Polls : Report(polls[r].found)
  BY DEF IInv, TypeOK, ReportsHold, NoticesAreListed
<1>2. /\ UNCHANGED <<clock, started>> /\ ended' = ended /\ managed' \subseteq Procs
  BY <1>1 DEF StartPoll, ReadPrefs, Scan, ScanThrows, FinishPoll, world
<1>3. NoPoll \in Poll /\ Report(NoPoll.found)
  BY EmptyReport DEF NoPoll, Poll
<1>4. CASE StartPoll(s)
  <2>1. [polls[s] EXCEPT !.stage = "prefs"] \in Poll
    BY <1>1 DEF Poll
  <2>2. polls' \in [Polls -> Poll] /\ \A r \in Polls : polls'[r].found = polls[r].found
    BY <1>1, <1>4, <2>1 DEF StartPoll
  <2>3. UNCHANGED bell
    BY <1>4 DEF StartPoll
  <2> QED
    BY <1>1, <1>2, <2>2, <2>3, ListStep DEF bell
<1>5. CASE ReadPrefs(s)
  <2>1. CASE UNCHANGED bell
    <3>1. [polls[s] EXCEPT !.stage = "roots"] \in Poll
      BY <1>1 DEF Poll
    <3>2. PICK poll \in {[polls[s] EXCEPT !.stage = "roots"], NoPoll} :
              polls' = [polls EXCEPT ![s] = poll]
      BY <1>1, <1>5 DEF ReadPrefs
    <3>3. poll \in Poll /\ Report(poll.found)
      <4>1. [polls[s] EXCEPT !.stage = "roots"].found = polls[s].found
        BY <1>1 DEF Poll
      <4> QED
        BY <1>1, <1>3, <3>1, <4>1
    <3>4. polls' \in [Polls -> Poll] /\ \A r \in Polls : Report(polls'[r].found)
      BY <1>1, <3>2, <3>3
    <3> QED
      BY <1>1, <1>2, <2>1, <3>4, ListStep DEF bell
  <2>2. CASE polls' = [polls EXCEPT ![s] = NoPoll] /\ pidForApp' = {} /\ Reconcile({})
    <3>1. polls' \in [Polls -> Poll] /\ \A r \in Polls : Report(polls'[r].found)
      BY <1>1, <1>3, <2>2
    <3>2. notices' \subseteq pidForApp' /\ acknowledged' \subseteq App /\ Report(pidForApp')
      BY <1>1, <2>2, ReconcileKeeps, EmptyReport
    <3> QED
      BY <1>2, <3>1, <3>2, ListStep
  <2> QED
    BY <1>5, <2>1, <2>2 DEF ReadPrefs
<1>6. CASE Scan(s)
  <2>1. PICK found \in {LongRunningProcesses, {}} :
            polls' = [polls EXCEPT ![s] = [stage |-> "docker", found |-> found]]
    BY <1>6 DEF Scan
  <2>2. Report(found)
    BY <1>1, ScanReports, EmptyReport
  <2>3. [stage |-> "docker", found |-> found] \in Poll
    BY <2>2 DEF Poll, Report
  <2>4. polls' \in [Polls -> Poll] /\ \A r \in Polls : Report(polls'[r].found)
    BY <1>1, <2>1, <2>2, <2>3
  <2>5. UNCHANGED bell
    BY <1>6 DEF Scan
  <2> QED
    BY <1>1, <1>2, <2>4, <2>5, ListStep DEF bell
<1>7. CASE ScanThrows(s)
  <2>1. polls' \in [Polls -> Poll] /\ \A r \in Polls : Report(polls'[r].found)
    BY <1>1, <1>3, <1>7 DEF ScanThrows
  <2>2. UNCHANGED bell
    BY <1>7 DEF ScanThrows
  <2> QED
    BY <1>1, <1>2, <2>1, <2>2, ListStep DEF bell
<1>8. CASE FinishPoll(s)
  <2>1. polls' \in [Polls -> Poll] /\ \A r \in Polls : Report(polls'[r].found)
    BY <1>1, <1>3, <1>8 DEF FinishPoll
  <2>2. pidForApp' = polls[s].found /\ Reconcile(polls[s].found)
    BY <1>8 DEF FinishPoll
  <2>3. notices' \subseteq pidForApp' /\ acknowledged' \subseteq App /\ Report(pidForApp')
    BY <1>1, <2>2, ReconcileKeeps
  <2> QED
    BY <1>2, <2>1, <2>3, ListStep
<1> QED
  BY <1>4, <1>5, <1>6, <1>7, <1>8

LEMMA UserKeepsIInv ==
    ASSUME IInv, NEW n \in notices, Ignore(n) \/ \E s \in Polls : StopLocalApp(n, s)
    PROVE  IInv'
<1>1. /\ acknowledged \subseteq App /\ notices \subseteq App
      /\ polls \in [Polls -> Poll] /\ managed \subseteq Procs
      /\ Report(pidForApp) /\ notices \subseteq pidForApp
      /\ \A r \in Polls : Report(polls[r].found)
  BY DEF IInv, TypeOK, ReportsHold, NoticesAreListed
<1>2. CASE Ignore(n)
  BY <1>1, <1>2, ListStep DEF Ignore, world
<1>3. ASSUME NEW s \in Polls, StopLocalApp(n, s)
      PROVE  IInv'
  <2>1. [polls[s] EXCEPT !.stage = "prefs"] \in Poll
    BY <1>1 DEF Poll
  <2>2. polls' \in [Polls -> Poll] /\ \A r \in Polls : polls'[r].found = polls[r].found
    BY <1>1, <1>3, <2>1 DEF StopLocalApp
  <2>3. /\ UNCHANGED <<clock, started>> /\ ended' = ended /\ managed' \subseteq Procs
        /\ pidForApp' = pidForApp /\ notices' \subseteq notices /\ acknowledged' = acknowledged
    BY <1>1, <1>3 DEF StopLocalApp
  <2> QED
    BY <1>1, <2>2, <2>3, ListStep
<1> QED
  BY <1>2, <1>3

-----------------------------------------------------------------------------
(* The invariant.                                                          *)

LEMMA InitIInv == ASSUME Init PROVE IInv
<1>1. 0 \in Times
  BY ClockAssumption DEF Times
<1>2. NoPoll \in Poll /\ Report(NoPoll.found)
  BY EmptyReport DEF NoPoll, Poll
<1>3. TypeOK
  BY <1>1, <1>2 DEF Init, TypeOK
<1>4. StartedInThePast /\ NoticesAreListed
  BY DEF Init, StartedInThePast, NoticesAreListed
<1>5. ReportsHold
  BY <1>2, EmptyReport DEF Init, ReportsHold
<1> QED
  BY <1>3, <1>4, <1>5 DEF IInv

LEMMA StutterKeepsIInv == ASSUME IInv, UNCHANGED vars PROVE IInv'
<1>1. UNCHANGED <<polls, bell>> /\ UNCHANGED <<clock, started, ended, managed>>
  BY DEF vars, world
<1>2. TypeOK' /\ StartedInThePast'
  BY <1>1 DEF IInv, TypeOK, StartedInThePast, bell
<1>3. Ages
  BY <1>1, ClockAssumption DEF IInv, TypeOK, Ages, Times
<1> QED
  BY <1>1, <1>2, <1>3, AgeStep DEF IInv

LEMMA NextKeepsIInv == ASSUME IInv, [Next]_vars PROVE IInv'
<1>1. ASSUME NEW p \in Procs, ProcStarts(p) \/ ProcEnds(p) PROVE IInv'
  BY <1>1, ProcStartsKeepsIInv, EndsKeepIInv
<1>2. ASSUME NEW n \in notices, Ignore(n) \/ \E s \in Polls : StopLocalApp(n, s) PROVE IInv'
  BY <1>2, UserKeepsIInv
<1> QED
  BY <1>1, <1>2, TickKeepsIInv, EndsKeepIInv, PollKeepsIInv, StutterKeepsIInv DEF Next

LEMMA InvariantHolds == Spec => []IInv
BY InitIInv, NextKeepsIInv, PTL DEF Spec

\* Every variable keeps its type: a notice is about a port of a known process and
\* a start that is no later than the clock.
THEOREM TypeCorrect == Spec => []TypeOK
<1>1. IInv => TypeOK
  BY DEF IInv
<1> QED
  BY <1>1, InvariantHolds, PTL

\* The bell holds one card per port, whichever of the polls under way ends last.
THEOREM CardsSafe == Spec => []OneCardPerPort
<1>1. IInv => OneCardPerPort
  BY DEF IInv, ReportsHold, NoticesAreListed, Report, OneCardPerPort
<1> QED
  BY <1>1, InvariantHolds, PTL

\* A Stop signals one process, of the card's port, that has run for longer than
\* the threshold, however old the list is that the card came from.
THEOREM StopsSafe == Spec => []StopsOnlyLongRunning
<1>1. ASSUME IInv PROVE StopsOnlyLongRunning
  <2>1. /\ notices \subseteq pidForApp /\ pidForApp \subseteq App
        /\ \A a, b \in pidForApp : a.identity.port = b.identity.port => a = b
        /\ \A a \in pidForApp : OverThreshold(a.pid)
    BY <1>1 DEF IInv, ReportsHold, NoticesAreListed, Report
  <2>2. ASSUME NEW n \in notices
        PROVE  PidOf(n) = {n.pid} /\ n.pid \in Procs /\ OverThreshold(n.pid)
    <3>1. {b \in pidForApp : b.identity = n.identity} = {n}
      BY <2>1
    <3>2. PidOf(n) = {a.pid : a \in {n}}
      BY <3>1 DEF PidOf
    <3> QED
      BY <2>1, <3>2 DEF App
  <2>3. \A p \in Stoppable : OverThreshold(p)
    BY <2>2 DEF Stoppable
  <2> QED
    BY <2>2, <2>3 DEF StopsOnlyLongRunning, OverThreshold
<1> QED
  BY <1>1, InvariantHolds, PTL

-----------------------------------------------------------------------------
(* An app that ended is retired.                                           *)

IsAbout(apps, p) == \E a \in apps : a.pid = p
Holds(s, p) == s \in Polls /\ IsAbout(polls[s].found, p)
Shown(p) == IsAbout(notices, p)
Cleared(p) == \A s \in Polls : ~Holds(s, p)

\* What a poll found it holds only while it asks docker.
HeldAtDocker == \A s \in Polls : polls[s].found # {} => polls[s].stage = "docker"

LEMMA HeldStep == ASSUME TypeOK, HeldAtDocker, [Next]_vars PROVE HeldAtDocker'
<1>1. polls \in [Polls -> Poll]
  BY DEF TypeOK
<1>2. ASSUME NEW s \in Polls, StartPoll(s) \/ ReadPrefs(s) \/ Scan(s) \/ ScanThrows(s) \/ FinishPoll(s)
      PROVE  HeldAtDocker'
  BY <1>1, <1>2 DEF HeldAtDocker, Poll, NoPoll, StartPoll, ReadPrefs, Scan, ScanThrows, FinishPoll
<1>3. ASSUME NEW n \in notices, NEW s \in Polls, StopLocalApp(n, s) PROVE HeldAtDocker'
  BY <1>1, <1>3 DEF HeldAtDocker, Poll, StopLocalApp
<1>4. ASSUME UNCHANGED polls PROVE HeldAtDocker'
  BY <1>4 DEF HeldAtDocker
<1> QED
  BY <1>2, <1>3, <1>4 DEF Next, vars, Tick, ManagerStops, ProcStarts, ProcEnds, Ignore

LEMMA HeldInvariant == Spec => []HeldAtDocker
<1>1. Init => HeldAtDocker
  BY DEF Init, HeldAtDocker, NoPoll
<1>2. IInv => TypeOK
  BY DEF IInv
<1> QED
  BY <1>1, <1>2, HeldStep, InvariantHolds, PTL DEF Spec

\* A process that ended stays so, and no scan finds it.
LEMMA EndedStep ==
    ASSUME TypeOK, NEW p \in ended, [Next]_vars
    PROVE  /\ p \in ended'
           /\ \A s \in Polls : ~Holds(s, p) => ~Holds(s, p)'
           /\ Cleared(p) /\ ~Shown(p) => ~Shown(p)'
<1>1. polls \in [Polls -> Poll] /\ ended \subseteq Procs
  BY DEF TypeOK
<1>2. ~IsAbout(LongRunningProcesses, p) /\ ~IsAbout({}, p)
  BY DEF IsAbout, LongRunningProcesses, AppOf, Qualified, Runs
<1>3. ASSUME UNCHANGED <<polls, notices>>, p \in ended'
      PROVE  /\ p \in ended'
             /\ \A s \in Polls : ~Holds(s, p) => ~Holds(s, p)'
             /\ Cleared(p) /\ ~Shown(p) => ~Shown(p)'
  BY <1>3 DEF Holds, Shown, IsAbout
<1>4. ASSUME NEW s \in Polls, StartPoll(s) \/ ReadPrefs(s) \/ Scan(s) \/ ScanThrows(s) \/ FinishPoll(s)
      PROVE  /\ p \in ended'
             /\ \A t \in Polls : ~Holds(t, p) => ~Holds(t, p)'
             /\ Cleared(p) /\ ~Shown(p) => ~Shown(p)'
  <2>1. p \in ended'
    BY <1>4 DEF StartPoll, ReadPrefs, Scan, ScanThrows, FinishPoll, world
  <2>2. polls'[s].found \in {polls[s].found, LongRunningProcesses, {}}
    BY <1>1, <1>4 DEF Poll, NoPoll, StartPoll, ReadPrefs, Scan, ScanThrows, FinishPoll
  <2>3. \A t \in Polls : t # s => polls'[t] = polls[t]
    BY <1>1, <1>4 DEF StartPoll, ReadPrefs, Scan, ScanThrows, FinishPoll
  <2>4. ~Holds(s, p) => ~Holds(s, p)'
    BY <1>2, <2>2 DEF Holds, IsAbout
  <2>5. \A t \in Polls : ~Holds(t, p) => ~Holds(t, p)'
    BY <2>3, <2>4 DEF Holds, IsAbout
  <2>6. notices' = notices \/ notices' \subseteq polls[s].found
    BY <1>4 DEF StartPoll, ReadPrefs, Scan, ScanThrows, FinishPoll, bell, Reconcile
  <2>7. Cleared(p) /\ ~Shown(p) => ~Shown(p)'
    BY <2>6 DEF Cleared, Holds, Shown, IsAbout
  <2> QED
    BY <2>1, <2>5, <2>7
<1>5. ASSUME NEW n \in notices, Ignore(n)
      PROVE  /\ p \in ended'
             /\ \A s \in Polls : ~Holds(s, p) => ~Holds(s, p)'
             /\ Cleared(p) /\ ~Shown(p) => ~Shown(p)'
  BY <1>5 DEF Ignore, world, Holds, Shown, IsAbout
<1>6. ASSUME NEW n \in notices, NEW s \in Polls, StopLocalApp(n, s)
      PROVE  /\ p \in ended'
             /\ \A t \in Polls : ~Holds(t, p) => ~Holds(t, p)'
             /\ Cleared(p) /\ ~Shown(p) => ~Shown(p)'
  <2>1. p \in ended' /\ notices' \subseteq notices
    BY <1>6 DEF StopLocalApp
  <2>2. \A t \in Polls : polls'[t].found = polls[t].found
    BY <1>1, <1>6 DEF StopLocalApp, Poll
  <2> QED
    BY <2>1, <2>2 DEF Holds, Shown, IsAbout
<1> QED
  BY <1>3, <1>4, <1>5, <1>6 DEF Next, vars, world, bell, Tick, ManagerStops, ProcStarts, ProcEnds

-----------------------------------------------------------------------------
(* What a poll does by itself.                                             *)

GoesOn(s) == StartPoll(s) \/ ReadPrefs(s) \/ Scan(s)
FairPoll(s) ==
    /\ WF_vars(GoesOn(s))
    /\ SF_vars(FinishPoll(s))
PollsFair == \A s \in Polls : FairPoll(s)

\* The timer fires and what a poll awaits is answered; a scan that has got to docker
\* may come to its end.
CanGoOn(s) ==
    /\ polls[s].stage # "docker" => ENABLED <<GoesOn(s)>>_vars
    /\ polls[s].stage = "docker" => ENABLED <<FinishPoll(s)>>_vars
PollsGoOn == \A s \in Polls : CanGoOn(s)

LEMMA StaysFair == Fairness => []PollsFair
<1>1. Fairness => PollsFair
  BY PTL DEF Fairness, PollsFair, FairPoll, GoesOn
<1>2. ASSUME NEW s \in Polls PROVE FairPoll(s) => []FairPoll(s)
  BY PTL DEF FairPoll
<1>3. PollsFair => \A s \in Polls : []FairPoll(s)
  BY <1>2 DEF PollsFair
<1>4. (\A s \in Polls : []FairPoll(s)) => []PollsFair
  BY DEF PollsFair
<1> QED
  BY <1>1, <1>3, <1>4, PTL

HasEnded(p) == p \in ended
At(s, stage) == polls[s].stage = stage
LetsGo(s, p) == HasEnded(p) ~> []~Holds(s, p)

\* A poll that saw the process alive comes to its end, and no later one sees it.
LEMMA PollLetsGo ==
    ASSUME NEW s \in Polls, NEW p \in Procs
    PROVE  []TypeOK /\ []HeldAtDocker /\ [][Next]_vars /\ FairPoll(s) /\ []CanGoOn(s) => LetsGo(s, p)
<1>1. TypeOK /\ HasEnded(p) /\ [Next]_vars => HasEnded(p)'
  BY EndedStep DEF HasEnded
<1>2. TypeOK /\ HasEnded(p) /\ ~Holds(s, p) /\ [Next]_vars => ~Holds(s, p)'
  BY EndedStep DEF HasEnded
<1>3. TypeOK /\ HasEnded(p) /\ <<FinishPoll(s)>>_vars => ~Holds(s, p)'
  BY DEF FinishPoll, TypeOK, NoPoll, Holds, IsAbout
<1>4. HeldAtDocker /\ Holds(s, p) /\ CanGoOn(s) => ENABLED <<FinishPoll(s)>>_vars
  BY DEF HeldAtDocker, Holds, IsAbout, CanGoOn
<1> QED
  BY <1>1, <1>2, <1>3, <1>4, PTL DEF FairPoll, LetsGo

\* A poll goes from stage to stage, and makes a list without p of one it finishes.
LEMMA PollStep ==
    ASSUME TypeOK, NEW s \in Polls, NEW p \in Procs, [Next]_vars
    PROVE  /\ At(s, "free") => At(s, "free")' \/ At(s, "prefs")'
           /\ At(s, "prefs") => At(s, "prefs")' \/ At(s, "roots")' \/ ~Shown(p)'
           /\ At(s, "roots") => At(s, "roots")' \/ At(s, "docker")'
           /\ At(s, "docker") => At(s, "docker")' \/ At(s, "free")'
<1>1. polls \in [Polls -> Poll]
  BY DEF TypeOK
<1> DEFINE Turn(t) ==
        \/ polls'[t].stage = polls[t].stage
        \/ polls[t].stage = "free" /\ polls'[t].stage = "prefs"
        \/ polls[t].stage = "prefs" /\ (polls'[t].stage = "roots" \/ notices' = {})
        \/ polls[t].stage = "roots" /\ polls'[t].stage = "docker"
        \/ polls[t].stage = "docker" /\ polls'[t].stage = "free"
<1>2. ASSUME NEW t \in Polls, StartPoll(t) \/ ReadPrefs(t) \/ Scan(t) \/ ScanThrows(t) \/ FinishPoll(t)
      PROVE  Turn(s)
  BY <1>1, <1>2 DEF Poll, NoPoll, StartPoll, ReadPrefs, Scan, ScanThrows, FinishPoll, Reconcile
<1>3. ASSUME NEW n \in notices, NEW t \in Polls, StopLocalApp(n, t) PROVE Turn(s)
  BY <1>1, <1>3 DEF Poll, StopLocalApp
<1>4. ASSUME UNCHANGED polls PROVE Turn(s)
  BY <1>4
<1>5. Turn(s)
  BY <1>2, <1>3, <1>4 DEF Next, vars, Tick, ManagerStops, ProcStarts, ProcEnds, Ignore
<1> QED
  BY <1>5 DEF At, Shown, IsAbout

\* Once no poll holds the process any more, the next that comes to its end takes its
\* notice away.
LEMMA PollClears ==
    ASSUME NEW s \in Polls, NEW p \in Procs
    PROVE  []TypeOK /\ [][Next]_vars /\ FairPoll(s) /\ []CanGoOn(s)
           => ([]Cleared(p) => <>~Shown(p))
<1>1. TypeOK /\ [Next]_vars =>
          /\ At(s, "free") => At(s, "free")' \/ At(s, "prefs")'
          /\ At(s, "prefs") => At(s, "prefs")' \/ At(s, "roots")' \/ ~Shown(p)'
          /\ At(s, "roots") => At(s, "roots")' \/ At(s, "docker")'
          /\ At(s, "docker") => At(s, "docker")' \/ At(s, "free")'
  BY PollStep
<1>2. TypeOK /\ <<GoesOn(s)>>_vars =>
          /\ At(s, "free") => At(s, "prefs")'
          /\ At(s, "prefs") => At(s, "roots")' \/ ~Shown(p)'
          /\ At(s, "roots") => At(s, "docker")'
  BY DEF GoesOn, StartPoll, ReadPrefs, Scan, At, TypeOK, Poll, NoPoll, Reconcile, Shown, IsAbout
<1>3. Cleared(p) /\ <<FinishPoll(s)>>_vars => ~Shown(p)'
  BY DEF FinishPoll, Reconcile, Cleared, Holds, Shown, IsAbout
<1>4. TypeOK => At(s, "free") \/ At(s, "prefs") \/ At(s, "roots") \/ At(s, "docker")
  BY DEF TypeOK, Poll, At
<1>5. CanGoOn(s) => /\ At(s, "free") \/ At(s, "prefs") \/ At(s, "roots") => ENABLED <<GoesOn(s)>>_vars
                    /\ At(s, "docker") => ENABLED <<FinishPoll(s)>>_vars
  BY DEF CanGoOn, At
<1> QED
  BY <1>1, <1>2, <1>3, <1>4, <1>5, PTL DEF FairPoll

Retires(p) == HasEnded(p) ~> []~Shown(p)

\* With up to four polls under way at once, an app that ended is retired for good:
\* each poll that saw it alive comes to its end (index.ts:54-92), the next one that
\* does takes the notice away, and none brings it back.
THEOREM EndedRetired ==
    ASSUME MaxPolls \in 1..4
    PROVE  FairSpec /\ []PollsGoOn => EndedStaysRetired
<1> DEFINE Assumed == []TypeOK /\ []HeldAtDocker /\ [][Next]_vars /\ []PollsFair /\ []PollsGoOn
<1>1. ASSUME NEW s \in Polls
      PROVE  Assumed => []TypeOK /\ []HeldAtDocker /\ [][Next]_vars /\ FairPoll(s) /\ []CanGoOn(s)
  <2>1. (PollsFair => FairPoll(s)) /\ (PollsGoOn => CanGoOn(s))
    BY DEF PollsFair, PollsGoOn
  <2> QED
    BY <2>1, PTL
<1>2. ASSUME NEW p \in Procs
      PROVE  Assumed => Retires(p)
  <2>1. \A s \in Polls : Assumed => LetsGo(s, p)
    BY <1>1, PollLetsGo
  <2>2. ASSUME NEW s \in 1..4 PROVE Assumed => LetsGo(s, p)
    <3>1. CASE s \in Polls
      BY <2>1, <3>1
    <3>2. CASE s \notin Polls
      <4>1. ~Holds(s, p)
        BY <3>2 DEF Holds
      <4>2. LetsGo(s, p)
        BY <4>1, PTL DEF LetsGo
      <4> QED
        BY <4>2
    <3> QED
      BY <3>1, <3>2
  <2>3. ~Holds(1, p) /\ ~Holds(2, p) /\ ~Holds(3, p) /\ ~Holds(4, p) => Cleared(p)
    <3>1. Polls \subseteq {1, 2, 3, 4}
      BY DEF Polls
    <3> QED
      BY <3>1 DEF Cleared
  <2>4. Assumed => (HasEnded(p) => <>[]Cleared(p))
    <3>1. Assumed => LetsGo(1, p) /\ LetsGo(2, p) /\ LetsGo(3, p) /\ LetsGo(4, p)
      BY <2>2
    <3> HIDE DEF Assumed
    <3> QED
      BY <2>3, <3>1, PTL DEF LetsGo
  <2>5. Assumed => ([]Cleared(p) => <>~Shown(p))
    <3>1. 1 \in Polls
      BY DEF Polls
    <3> QED
      BY <1>1, <3>1, PollClears
  <2>6. TypeOK /\ HasEnded(p) /\ [Next]_vars => HasEnded(p)' /\ (Cleared(p) /\ ~Shown(p) => ~Shown(p)')
    BY EndedStep DEF HasEnded
  <2> QED
    BY <2>4, <2>5, <2>6, PTL DEF Retires
<1>3. (\A p \in Procs : Retires(p)) => EndedStaysRetired
  <2> DEFINE Stays(p) == (p \in ended) ~> [](\A n \in notices : n.pid # p)
  <2>1. ASSUME NEW p \in Procs PROVE Retires(p) => Stays(p)
    <3>1. ~Shown(p) <=> \A n \in notices : n.pid # p
      BY DEF Shown, IsAbout
    <3> QED
      BY <3>1, PTL DEF Retires, HasEnded
  <2>2. (\A p \in Procs : Stays(p)) => EndedStaysRetired
    BY PTL DEF EndedStaysRetired
  <2> HIDE DEF Stays
  <2> QED
    BY <2>1, <2>2
<1>4. FairSpec /\ []PollsGoOn => Assumed
  <2>1. IInv => TypeOK
    BY DEF IInv
  <2> QED
    BY <2>1, StaysFair, InvariantHolds, HeldInvariant, PTL DEF FairSpec, Spec
<1>5. FairSpec /\ []PollsGoOn => \A p \in Procs : Retires(p)
  BY <1>2, <1>4
<1> QED
  BY <1>3, <1>5
=============================================================================
