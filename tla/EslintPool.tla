------------------------------ MODULE EslintPool ------------------------------
(***************************************************************************)
(* Linting the open files of one ESLint unit (main/eslint/).               *)
(*                                                                          *)
(* The unit's worker is a child process, started by the first lint the     *)
(* user's grant allows and kept for the next ones (pool.ts).  A file has    *)
(* one lint under way and at most one waiting, the newest.  A worker that   *)
(* does not answer in time, that exits, that nobody uses, or whose grant    *)
(* the user takes back (service.ts) is dropped, and everything that waits   *)
(* on it is answered.                                                       *)
(*                                                                          *)
(* Lints are numbered in the order of their calls, and a lint's number      *)
(* stands for its text.  What a worker prints may be read at any time       *)
(* after the request, from a killed or dead worker too.                     *)
(***************************************************************************)
EXTENDS Naturals

CONSTANTS
    Files,       \* the files of the unit that are open
    MaxCalls,    \* bound: lints asked for
    MaxWorkers,  \* bound: workers ever started
    None

ASSUME BoundsAssumption == MaxCalls \in Nat /\ MaxWorkers \in Nat
ASSUME NoneAssumption == None \notin Files \cup 1..MaxCalls \cup 1..MaxWorkers

Calls == 1..MaxCalls
Workers == 1..MaxWorkers
Ids == 1..MaxCalls

VARIABLES
    trust,     \* the user's grant; "failed" after a revoke that threw half-way
    proc,      \* each worker's process
    worker,    \* the registered worker, or None
    nextId,    \* its last request id; ids start anew with each worker
    inflight,  \* its requests that await an answer, each with its lint
    queued,    \* the lint that waits for each file
    wire,      \* what was written to each worker and not answered
    lint       \* each lint: its file, its outcome, and the text the outcome is about

pool == <<worker, nextId, inflight, queued>>
vars == <<trust, proc, pool, wire, lint>>

-----------------------------------------------------------------------------

Outcomes == {"messages", "configError", "timedOut", "superseded", "untrusted"}
Lint == [file : Files \cup {None}, outcome : {"none", "waiting"} \cup Outcomes,
         about : Calls \cup {None}]
Request == [id : Ids, call : Calls]

TypeOK ==
    /\ trust \in {"granted", "revoked", "failed"}
    /\ proc \in [Workers -> {"none", "up", "dead", "killed", "gone"}]
    /\ worker \in Workers \cup {None}
    /\ nextId \in 0..MaxCalls
    /\ inflight \in [Ids -> Calls \cup {None}]
    /\ queued \in [Files -> Calls \cup {None}]
    /\ wire \in [Workers -> SUBSET Request]
    /\ lint \in [Calls -> Lint]

NewLint(f, o) == [file |-> f, outcome |-> o, about |-> None]
NothingInflight == [i \in Ids |-> None]
NothingQueued == [f \in Files |-> None]

Init ==
    /\ trust \in {"granted", "revoked"}
    /\ proc = [w \in Workers |-> "none"]
    /\ worker = None /\ nextId = 0
    /\ inflight = NothingInflight /\ queued = NothingQueued
    /\ wire = [w \in Workers |-> {}]
    /\ lint = [c \in Calls |-> NewLint(None, "none")]

-----------------------------------------------------------------------------
(* The pool.                                                               *)

\* Broken queue: there is none, every lint is sent at once.
NeverBusy(f) == FALSE
Busy(f) == \E i \in Ids : inflight[i] # None /\ lint[inflight[i]].file = f

\* Broken teardown: what waits in the queue is forgotten.
InflightOnly == {inflight[i] : i \in Ids} \ {None}

\* The lints a worker that goes away must answer.
Outstanding == ({inflight[i] : i \in Ids} \cup {queued[f] : f \in Files}) \ {None}

\* Broken guard: any worker passes for the registered one.
AnyWorker(w) == TRUE
Registered(w) == worker = w

\* Drop the worker and answer what waits on it, late being the lint that timed out.
Teardown(late) ==
    /\ worker' = None /\ nextId' = 0
    /\ inflight' = NothingInflight /\ queued' = NothingQueued
    /\ lint' = [c \in Calls |->
                  IF c \in Outstanding
                  THEN [lint[c] EXCEPT !.outcome = IF c = late THEN "timedOut" ELSE "configError"]
                  ELSE lint[c]]

\* Broken dispose: the process is left to itself.
LeaveRunning == UNCHANGED proc

KillWorker == proc' = [proc EXCEPT ![worker] = IF @ = "up" THEN "killed" ELSE @]

\* disposeUnit, disposeUnder, retainOnly, disposeAll.
Dispose ==
    IF worker = None THEN UNCHANGED <<pool, proc, lint>>
    ELSE Teardown(None) /\ KillWorker

\* Broken numbering: the line goes out with the id before it was counted up.
WriteOldId(id, c) == {[id |-> id - 1, call |-> c]}

\* What send writes to the worker.
Write(id, c) == {[id |-> id, call |-> c]}

\* ensure: the registered worker, or a new one.
Ensured(w) ==
    IF worker # None THEN w = worker ELSE proc[w] = "none" /\ \A v \in 1..(w - 1) : proc[v] # "none"

Superseded(f) == {queued[f]} \ {None}

-----------------------------------------------------------------------------
(* The service.                                                            *)

NextCall == {c \in Calls : lint[c].outcome = "none" /\ \A d \in 1..(c - 1) : lint[d].outcome # "none"}

\* Refused: no grant, or the file really lives in another unit.
Refuse(f, c) ==
    /\ \E o \in {"untrusted", "configError"} :
          /\ o = "untrusted" <=> trust # "granted"
          /\ lint' = [lint EXCEPT ![c] = NewLint(f, o)]
    /\ UNCHANGED <<trust, proc, pool, wire>>

\* A lint of a file that has none under way is sent, else it waits in place of
\* the one that waited.
RunLint(f, c) ==
    /\ trust = "granted"
    /\ \E w \in Workers :
          /\ Ensured(w)
          /\ worker' = w
          /\ proc' = [proc EXCEPT ![w] = IF worker = None THEN "up" ELSE @]
          /\ lint' = [d \in Calls |->
                        IF d = c THEN NewLint(f, "waiting")
                        ELSE IF d \in Superseded(f) /\ Busy(f) THEN [lint[d] EXCEPT !.outcome = "superseded"]
                        ELSE lint[d]]
          /\ IF Busy(f)
                THEN queued' = [queued EXCEPT ![f] = c] /\ UNCHANGED <<nextId, inflight, wire>>
                ELSE /\ nextId' = nextId + 1
                     /\ wire' = [wire EXCEPT ![w] = @ \cup Write(nextId + 1, c)]
                     /\ inflight' = [inflight EXCEPT ![nextId + 1] = c]
                     /\ UNCHANGED queued
    /\ UNCHANGED trust

CallLint(f) == \E c \in NextCall : Refuse(f, c) \/ RunLint(f, c)

\* setTrust.
Grant ==
    /\ trust # "granted" /\ trust' = "granted"
    /\ UNCHANGED <<proc, pool, wire, lint>>

Revoke ==
    /\ trust' = "revoked"
    /\ Dispose
    /\ UNCHANGED wire

\* The store forgets the grant and then cannot be written: the call throws before
\* the worker is disposed of.
RevokeFails ==
    /\ trust = "granted" /\ trust' = "failed"
    /\ UNCHANGED <<proc, pool, wire, lint>>

-----------------------------------------------------------------------------
(* The worker's lines, timers and exits.                                   *)

\* A worker's lines are looked up among its own requests; a dropped one has none.
Heard(w, id) == IF Registered(w) THEN inflight[id] ELSE None

\* onLine: the lint is answered and the one that waits for its file is sent.
Line(w, r) ==
    LET c == Heard(w, r.id) IN
    /\ r \in wire[w]
    /\ IF c = None
          THEN /\ wire' = [wire EXCEPT ![w] = @ \ {r}]
               /\ UNCHANGED <<pool, lint>>
          ELSE LET f == lint[c].file
                   next == queued[f] IN
               /\ \E a \in {[outcome |-> "messages", about |-> r.call],
                            [outcome |-> "configError", about |-> None]} :
                     lint' = [lint EXCEPT ![c] = [file |-> f, outcome |-> a.outcome, about |-> a.about]]
               /\ queued' = [queued EXCEPT ![f] = None]
               /\ IF next = None
                     THEN /\ inflight' = [inflight EXCEPT ![r.id] = None]
                          /\ wire' = [wire EXCEPT ![w] = @ \ {r}]
                          /\ UNCHANGED nextId
                     ELSE /\ inflight' = [inflight EXCEPT ![r.id] = None, ![nextId + 1] = next]
                          /\ nextId' = nextId + 1
                          /\ wire' = [wire EXCEPT ![w] = (@ \ {r}) \cup Write(nextId + 1, next)]
               /\ UNCHANGED worker
    /\ UNCHANGED <<trust, proc>>

\* The request's timer: its lint times out and takes the worker along.
TimeOut(i) ==
    /\ inflight[i] # None
    /\ Teardown(inflight[i])
    /\ KillWorker
    /\ UNCHANGED <<trust, wire>>

\* The idle timer finds nothing in flight.
Idle ==
    /\ worker # None /\ inflight = NothingInflight
    /\ Dispose
    /\ UNCHANGED <<trust, wire>>

\* The project closes, or AirLock quits.
Close ==
    /\ worker # None
    /\ Dispose
    /\ UNCHANGED <<trust, wire>>

\* The process dies; the pool hears of it later, and of a killed one too.
Die(w) ==
    /\ proc[w] = "up"
    /\ proc' = [proc EXCEPT ![w] = "dead"]
    /\ UNCHANGED <<trust, pool, wire, lint>>

Exit(w) ==
    /\ proc[w] \in {"dead", "killed"}
    /\ proc' = [proc EXCEPT ![w] = "gone"]
    /\ IF Registered(w) THEN Teardown(None) ELSE UNCHANGED <<pool, lint>>
    /\ UNCHANGED <<trust, wire>>

-----------------------------------------------------------------------------

Next ==
    \/ \E f \in Files : CallLint(f)
    \/ Grant \/ Revoke \/ RevokeFails \/ Idle \/ Close
    \/ \E i \in Ids : TimeOut(i)
    \/ \E w \in Workers : Die(w) \/ Exit(w) \/ \E r \in wire[w] : Line(w, r)

Spec == Init /\ [][Next]_vars

\* Timers fire.  A worker need not answer, nor exit.
Fairness == \A i \in Ids : WF_vars(TimeOut(i))

FairSpec == Spec /\ Fairness

-----------------------------------------------------------------------------
(* Properties.                                                             *)

\* A lint's messages are about its own text, although ids start anew with each
\* worker and an old worker's answers may still be read.
AnswersOwnText ==
    \A c \in Calls : lint[c].outcome = "messages" => lint[c].about = c

\* Only the registered worker's process runs, and none after the grant was taken back.
NoStrayProcess ==
    \A w \in Workers : proc[w] = "up" => worker = w /\ trust # "revoked"

\* The newest lint of a file is never dropped for another, and a file that shows a
\* newer text's messages is not waiting for an older one's.
LatestWins ==
    \A d \in Calls :
        LET SameFile == {c \in Calls : lint[c].file = lint[d].file} IN
        /\ lint[d].outcome = "superseded" => \E c \in SameFile : c > d
        /\ lint[d].outcome = "messages" => \A c \in SameFile : c < d => lint[c].outcome # "waiting"

\* Every lint is answered, whatever the worker does.
EveryLintSettles ==
    \A c \in Calls : lint[c].outcome = "waiting" ~> lint[c].outcome # "waiting"
=============================================================================
