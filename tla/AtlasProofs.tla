----------------------------- MODULE AtlasProofs ------------------------------
(***************************************************************************)
(* Proofs about Atlas, for any arrivals, messages, changes and days.       *)
(*                                                                          *)
(* The argument is about the queue of the database's process.  Each        *)
(* process waits for one request at most, and behind the request that an   *)
(* arrival waits for there is none by any arrival: requests are carried    *)
(* out in the order they came, one arrival is under way at a time, and one *)
(* that gave up left its requests before its successor's.  So an arrival   *)
(* whose request is answered knows that nothing its predecessors sent is   *)
(* still to come.                                                           *)
(***************************************************************************)
EXTENDS Atlas, SequenceTheorems, TLAPS

Ops == DayOps \cup ChoiceOps \cup PlainOps
Request == [by : Procs, op : Ops, arg : Days \cup Registry \cup {None}, awaited : BOOLEAN]
TurnOps == {"beginTurn", "completeTurn", "abandonTurn", "discardTurn"}
Stages == {"idle", "prefs", "call", "collect", "standup", "compose",
           "ready", "model", "answered", "done"}
Database ==
    [briefs : SUBSET Days, reports : SUBSET Days, registry : Registry,
     turn : [Calls -> {"none", "pending", "settled", "unanswered", "discarded"}]]

\* A request that the code can send.
Sendable(r) ==
    /\ r \in Request /\ IsRequest(r)
    /\ r.op \in DayOps \cup {"lastBriefDay"} => r.by \in Arrivals
    /\ r.op \in TurnOps => r.by \in Calls

\* What holds of the queue q when the processes in waiting wait.
Ordered(q, waiting) ==
    /\ q \in Seq(Request)
    /\ \A i \in 1..Len(q) : Sendable(q[i])
    /\ \A p \in Procs : p \in waiting <=> \E i \in 1..Len(q) : q[i].by = p /\ q[i].awaited
    /\ \A i, j \in 1..Len(q) :
          q[i].awaited /\ q[j].awaited /\ q[i].by = q[j].by => i = j
    /\ \A i, j \in 1..Len(q) :
          i < j /\ q[i].awaited /\ q[i].by \in Arrivals => q[j].by \notin Arrivals

-----------------------------------------------------------------------------
(* What the queue's operations preserve.                                   *)

LEMMA EmptyIsOrdered == Ordered(<<>>, {})
<1>1. <<>> \in Seq(Request) /\ Len(<<>>) = 0
  BY EmptySeq
<1> QED
  BY <1>1 DEF Ordered

LEMMA TailIsOrdered ==
    ASSUME NEW q, NEW waiting, Ordered(q, waiting), q # <<>>
    PROVE  /\ Head(q) = q[1] /\ 1 \in 1..Len(q) /\ Sendable(Head(q))
           /\ Len(Tail(q)) = Len(q) - 1 /\ Len(q) \in Nat
           /\ \A i \in 1..Len(Tail(q)) : Tail(q)[i] = q[i + 1] /\ i + 1 \in 1..Len(q)
           /\ Ordered(Tail(q), IF Head(q).awaited THEN waiting \ {Head(q).by} ELSE waiting)
<1>1. q \in Seq(Request) /\ Len(q) \in Nat \ {0} /\ Head(q) = q[1] /\ 1 \in 1..Len(q)
  BY EmptySeq DEF Ordered
<1>2. /\ Tail(q) \in Seq(Request) /\ Len(Tail(q)) = Len(q) - 1
      /\ \A i \in 1..Len(Tail(q)) : Tail(q)[i] = q[i + 1] /\ i + 1 \in 1..Len(q)
  BY <1>1, HeadTailProperties
<1>3. Sendable(Head(q))
  BY <1>1 DEF Ordered
<1> DEFINE t == Tail(q)
           left == IF Head(q).awaited THEN waiting \ {Head(q).by} ELSE waiting
<1>4. \A i \in 1..Len(t) : Sendable(t[i])
  BY <1>2 DEF Ordered
<1>5. ASSUME NEW i \in 1..Len(t), NEW j \in 1..Len(t)
      PROVE  /\ t[i].awaited /\ t[j].awaited /\ t[i].by = t[j].by => i = j
             /\ i < j /\ t[i].awaited /\ t[i].by \in Arrivals => t[j].by \notin Arrivals
  <2>1. /\ t[i] = q[i + 1] /\ i + 1 \in 1..Len(q) /\ t[j] = q[j + 1] /\ j + 1 \in 1..Len(q)
    BY <1>2
  <2>2. /\ q[i + 1].awaited /\ q[j + 1].awaited /\ q[i + 1].by = q[j + 1].by => i + 1 = j + 1
        /\ i + 1 < j + 1 /\ q[i + 1].awaited /\ q[i + 1].by \in Arrivals => q[j + 1].by \notin Arrivals
    BY <2>1 DEF Ordered
  <2>3. i \in Int /\ j \in Int
    OBVIOUS
  <2> QED
    BY <2>1, <2>2, <2>3
<1>6. ASSUME NEW p \in Procs
      PROVE  p \in left <=> \E i \in 1..Len(t) : t[i].by = p /\ t[i].awaited
  <2>1. p \in waiting <=> \E i \in 1..Len(q) : q[i].by = p /\ q[i].awaited
    BY DEF Ordered
  <2>2. ASSUME NEW i \in 1..Len(t), t[i].by = p, t[i].awaited
        PROVE  p \in left
    <3>1. t[i] = q[i + 1] /\ i + 1 \in 1..Len(q) /\ i + 1 # 1
      BY <1>2
    <3>2. p \in waiting
      BY <2>1, <2>2, <3>1
    <3>3. ~(q[1].awaited /\ q[1].by = p)
      BY <1>1, <2>2, <3>1 DEF Ordered
    <3> QED
      BY <1>1, <3>2, <3>3
  <2>3. ASSUME p \in left
        PROVE  \E i \in 1..Len(t) : t[i].by = p /\ t[i].awaited
    <3>1. PICK k \in 1..Len(q) : q[k].by = p /\ q[k].awaited
      BY <2>1, <2>3
    <3>2. k # 1
      BY <1>1, <2>3, <3>1
    <3>3. k - 1 \in 1..Len(t) /\ t[k - 1] = q[k]
      BY <1>1, <1>2, <3>2
    <3> QED
      BY <3>1, <3>3
  <2> QED
    BY <2>2, <2>3
<1> QED
  BY <1>1, <1>2, <1>3, <1>4, <1>5, <1>6 DEF Ordered

LEMMA AppendIsOrdered ==
    ASSUME NEW q, NEW waiting, Ordered(q, waiting), NEW r, Sendable(r), r.awaited,
           r.by \notin waiting,
           r.by \in Arrivals => waiting \cap Arrivals = {}
    PROVE  /\ Len(q \o <<r>>) = Len(q) + 1 /\ Len(q) \in Nat
           /\ (q \o <<r>>)[Len(q) + 1] = r
           /\ \A i \in 1..Len(q) : (q \o <<r>>)[i] = q[i]
           /\ Ordered(q \o <<r>>, waiting \cup {r.by})
<1> DEFINE t == q \o <<r>>
<1>1. r \in Request /\ r.by \in Procs
  BY DEF Sendable, Request
<1>2. /\ q \in Seq(Request) /\ t \in Seq(Request) /\ Len(t) = Len(q) + 1 /\ Len(q) \in Nat
      /\ t[Len(q) + 1] = r /\ \A i \in 1..Len(q) : t[i] = q[i]
  BY <1>1 DEF Ordered
<1> HIDE DEF t
<1>3. \A i \in 1..Len(t) : (i \in 1..Len(q) /\ t[i] = q[i]) \/ (i = Len(q) + 1 /\ t[i] = r)
  BY <1>2
<1>4. \A i \in 1..Len(t) : Sendable(t[i])
  BY <1>3 DEF Ordered
<1>5. \A i \in 1..Len(q) : q[i].awaited => q[i].by \in waiting
  <2>1. \A i \in 1..Len(q) : q[i].by \in Procs
    BY DEF Ordered, Sendable, Request
  <2> QED
    BY <2>1 DEF Ordered
<1>6. ASSUME NEW i \in 1..Len(t), NEW j \in 1..Len(t)
      PROVE  /\ t[i].awaited /\ t[j].awaited /\ t[i].by = t[j].by => i = j
             /\ i < j /\ t[i].awaited /\ t[i].by \in Arrivals => t[j].by \notin Arrivals
  <2>1. CASE i \in 1..Len(q) /\ j \in 1..Len(q)
    BY <1>2, <2>1 DEF Ordered
  <2>2. CASE i = Len(q) + 1 /\ j \in 1..Len(q)
    <3>1. t[i] = r /\ t[j] = q[j] /\ ~(i < j)
      BY <1>2, <2>2
    <3> QED
      BY <1>5, <2>2, <3>1
  <2>3. CASE i \in 1..Len(q) /\ j = Len(q) + 1
    <3>1. t[i] = q[i] /\ t[j] = r
      BY <1>2, <2>3
    <3> QED
      BY <1>5, <2>3, <3>1
  <2>4. CASE i = Len(q) + 1 /\ j = Len(q) + 1
    BY <1>2, <2>4
  <2> QED
    BY <1>3, <2>1, <2>2, <2>3, <2>4
<1>7. ASSUME NEW p \in Procs
      PROVE  p \in waiting \cup {r.by} <=> \E i \in 1..Len(t) : t[i].by = p /\ t[i].awaited
  <2>1. p \in waiting <=> \E i \in 1..Len(q) : q[i].by = p /\ q[i].awaited
    BY DEF Ordered
  <2>2. Len(q) + 1 \in 1..Len(t) /\ \A i \in 1..Len(q) : i \in 1..Len(t)
    BY <1>2
  <2> QED
    BY <1>2, <1>3, <2>1, <2>2
<1>8. Ordered(t, waiting \cup {r.by})
  BY <1>2, <1>4, <1>6, <1>7 DEF Ordered
<1> QED
  BY <1>2, <1>8 DEF t

\* The request of a call that timed out stays where it is.
LEMMA UnawaitedIsOrdered ==
    ASSUME NEW q, NEW waiting, Ordered(q, waiting), NEW k \in 1..Len(q), q[k].awaited
    PROVE  LET t == [q EXCEPT ![k].awaited = FALSE] IN
           /\ Len(t) = Len(q)
           /\ \A i \in 1..Len(q) : /\ t[i].by = q[i].by /\ t[i].op = q[i].op
                                   /\ t[i].awaited <=> q[i].awaited /\ i # k
           /\ Ordered(t, waiting \ {q[k].by})
<1> DEFINE e == [q[k] EXCEPT !.awaited = FALSE]
           t == [q EXCEPT ![k].awaited = FALSE]
<1>1. q \in Seq(Request) /\ q[k] \in Request /\ Sendable(q[k])
  BY DEF Ordered, Sendable
<1>2. /\ e \in Request /\ e.by = q[k].by /\ e.op = q[k].op /\ e.arg = q[k].arg
      /\ e.awaited = FALSE
  BY <1>1 DEF Request
<1>3. t = [q EXCEPT ![k] = e]
  OBVIOUS
<1>4. Sendable(e)
  BY <1>1, <1>2 DEF Sendable, IsRequest
<1> HIDE DEF e, t
<1>5. /\ t \in Seq(Request) /\ Len(t) = Len(q)
      /\ \A i \in 1..Len(q) : t[i] = IF i = k THEN e ELSE q[i]
  BY <1>1, <1>2, <1>3, ExceptSeq
<1>6. \A i \in 1..Len(q) : /\ t[i].by = q[i].by /\ t[i].op = q[i].op
                           /\ t[i].awaited <=> q[i].awaited /\ i # k
  <2> SUFFICES ASSUME NEW i \in 1..Len(q)
               PROVE  /\ t[i].by = q[i].by /\ t[i].op = q[i].op
                      /\ t[i].awaited <=> q[i].awaited /\ i # k
    OBVIOUS
  <2>1. CASE i = k
    <3>1. t[i] = e
      BY <1>5, <2>1
    <3>2. ~t[i].awaited
      BY <1>2, <3>1
    <3> QED
      BY <1>2, <2>1, <3>1, <3>2
  <2>2. CASE i # k
    BY <1>5, <2>2
  <2> QED
    BY <2>1, <2>2
<1>7. \A i \in 1..Len(t) : Sendable(t[i])
  BY <1>4, <1>5 DEF Ordered
<1>8. ASSUME NEW p \in Procs
      PROVE  p \in waiting \ {q[k].by} <=> \E i \in 1..Len(t) : t[i].by = p /\ t[i].awaited
  <2>1. p \in waiting <=> \E i \in 1..Len(q) : q[i].by = p /\ q[i].awaited
    BY DEF Ordered
  <2>2. \A i \in 1..Len(q) : q[i].awaited /\ q[i].by = q[k].by => i = k
    BY DEF Ordered
  <2> QED
    BY <1>5, <1>6, <2>1, <2>2
<1>9. \A i, j \in 1..Len(t) :
          /\ t[i].awaited /\ t[j].awaited /\ t[i].by = t[j].by => i = j
          /\ i < j /\ t[i].awaited /\ t[i].by \in Arrivals => t[j].by \notin Arrivals
  BY <1>5, <1>6 DEF Ordered
<1>10. Ordered(t, waiting \ {q[k].by})
  BY <1>5, <1>7, <1>8, <1>9 DEF Ordered
<1> QED
  BY <1>5, <1>6, <1>10 DEF t

-----------------------------------------------------------------------------
(* What a request does to the database.                                    *)

LEMMA EffectOnDatabase ==
    ASSUME NEW d \in Database, NEW r, Sendable(r)
    PROVE  /\ Effect(r, d) \in Database
           /\ r.op # "saveBrief" => Effect(r, d).briefs = d.briefs
           /\ \A c \in Calls : r.op \notin TurnOps \/ r.by # c => Effect(r, d).turn[c] = d.turn[c]
           /\ r.op = "completeTurn" => Effect(r, d).turn[r.by] = "settled"
<1>1. /\ d.briefs \subseteq Days /\ d.reports \subseteq Days /\ d.registry \in Registry
      /\ d.turn \in [Calls -> {"none", "pending", "settled", "unanswered", "discarded"}]
      /\ d = [briefs |-> d.briefs, reports |-> d.reports, registry |-> d.registry, turn |-> d.turn]
  BY DEF Database
<1>2. CASE r.op = "writeRegistry"
  <2>1. r.arg \in Registry
    BY <1>2 DEF Sendable, IsRequest, DayOps, ChoiceOps, PlainOps
  <2>2. Effect(r, d) = [d EXCEPT !.registry = r.arg]
    BY <1>2 DEF Effect
  <2> QED
    BY <1>1, <1>2, <2>1, <2>2 DEF Database, TurnOps
<1>3. CASE r.op = "setEnabled"
  <2>1. r.arg \in Registry
    BY <1>3 DEF Sendable, IsRequest, DayOps, ChoiceOps, PlainOps
  <2>2. Effect(r, d) = [d EXCEPT !.registry = IF d.registry = "absent" THEN d.registry ELSE r.arg]
    BY <1>1, <1>3 DEF Effect, SetEnabled
  <2> QED
    BY <1>1, <1>3, <2>1, <2>2 DEF Database, TurnOps
<1>4. CASE r.op = "forget"
  <2>1. Effect(r, d) = [d EXCEPT !.registry = "absent"]
    BY <1>4 DEF Effect, Forget
  <2> QED
    BY <1>1, <1>4, <2>1 DEF Database, TurnOps, Registry
<1>5. CASE r.op = "saveReports"
  <2>1. r.arg \in Days
    BY <1>5 DEF Sendable, IsRequest, DayOps, ChoiceOps, PlainOps
  <2>2. Effect(r, d) = [d EXCEPT !.reports = d.reports \cup {r.arg}]
    BY <1>1, <1>5 DEF Effect, SaveReports
  <2> QED
    BY <1>1, <1>5, <2>1, <2>2 DEF Database, TurnOps
<1>6. CASE r.op = "saveBrief"
  <2>1. r.arg \in Days
    BY <1>6 DEF Sendable, IsRequest, DayOps, ChoiceOps, PlainOps
  <2>2. Effect(r, d) = [d EXCEPT !.briefs = d.briefs \cup {r.arg}]
    BY <1>1, <1>6 DEF Effect, SaveBrief
  <2> QED
    BY <1>1, <1>6, <2>1, <2>2 DEF Database, TurnOps
<1>7. CASE r.op \in TurnOps
  <2>1. r.by \in Calls
    BY <1>7 DEF Sendable
  <2>2. PICK v \in {"none", "pending", "settled", "unanswered", "discarded"} :
            /\ Effect(r, d) = [d EXCEPT !.turn[r.by] = v]
            /\ r.op = "completeTurn" => v = "settled"
    <3>1. d.turn[r.by] \in {"none", "pending", "settled", "unanswered", "discarded"}
      BY <1>1, <2>1
    <3>2. CASE r.op = "beginTurn"
      BY <3>2 DEF Effect
    <3>3. CASE r.op = "completeTurn"
      BY <3>3 DEF Effect, CompleteTurn
    <3>4. CASE r.op = "abandonTurn"
      BY <3>4 DEF Effect, AbandonTurn
    <3>5. CASE r.op = "discardTurn"
      <4>1. Effect(r, d) = [d EXCEPT !.turn[r.by] =
                                IF d.turn[r.by] = "pending" THEN "discarded" ELSE d.turn[r.by]]
        BY <1>1, <2>1, <3>5 DEF Effect, DiscardTurn
      <4> QED
        BY <3>1, <3>5, <4>1
    <3> QED
      BY <1>7, <3>2, <3>3, <3>4, <3>5 DEF TurnOps
  <2>3. Effect(r, d) = [d EXCEPT !.turn = [d.turn EXCEPT ![r.by] = v]]
    BY <1>1, <2>1, <2>2
  <2>4. /\ [d.turn EXCEPT ![r.by] = v]
               \in [Calls -> {"none", "pending", "settled", "unanswered", "discarded"}]
        /\ [d.turn EXCEPT ![r.by] = v][r.by] = v
        /\ \A c \in Calls : r.by # c => [d.turn EXCEPT ![r.by] = v][c] = d.turn[c]
    BY <1>1, <2>1
  <2>5. /\ Effect(r, d).briefs = d.briefs /\ Effect(r, d).turn = [d.turn EXCEPT ![r.by] = v]
        /\ Effect(r, d) \in Database
    BY <1>1, <2>3, <2>4 DEF Database
  <2> QED
    BY <1>7, <2>2, <2>4, <2>5 DEF TurnOps
<1>8. CASE r.op \in {"lastBriefDay", "readRegistry", "readReports"}
  <2>1. Effect(r, d) = d
    BY <1>8 DEF Effect
  <2> QED
    BY <1>8, <2>1 DEF TurnOps
<1> QED
  BY <1>2, <1>3, <1>4, <1>5, <1>6, <1>7, <1>8
     DEF Sendable, IsRequest, DayOps, ChoiceOps, PlainOps, TurnOps

\* A host that starts leaves the briefs alone, and the questions that are settled.
LEMMA OpenedDatabase ==
    ASSUME db \in Database
    PROVE  /\ Opened \in Database /\ Opened.briefs = db.briefs
           /\ \A c \in Calls : db.turn[c] = "settled" => Opened.turn[c] = "settled"
<1> DEFINE turn == [c \in Calls |-> IF db.turn[c] = "pending" THEN "unanswered" ELSE db.turn[c]]
<1>1. turn \in [Calls -> {"none", "pending", "settled", "unanswered", "discarded"}]
  BY DEF Database
<1>2. \A c \in Calls : db.turn[c] = "settled" => turn[c] = "settled"
  OBVIOUS
<1>3. Interrupted(db) = [db EXCEPT !.turn = turn]
  BY DEF Interrupted
<1> HIDE DEF turn
<1>4. /\ Interrupted(db) \in Database /\ Interrupted(db).briefs = db.briefs
      /\ Interrupted(db).turn = turn
  BY <1>1, <1>3 DEF Database
<1> QED
  BY <1>2, <1>4 DEF Opened

\* A request that fails may leave its brief, and may leave its reports or lose them.
LEMMA RemainsOnDatabase ==
    ASSUME NEW d \in Database, NEW r, Sendable(r), NEW e \in Remains(r, d)
    PROVE  /\ e \in Database /\ e.turn = d.turn
           /\ r.op # "saveBrief" => e.briefs = d.briefs
<1>1. /\ d.briefs \subseteq Days /\ d.reports \subseteq Days
      /\ d.turn \in [Calls -> {"none", "pending", "settled", "unanswered", "discarded"}]
      /\ d = [briefs |-> d.briefs, reports |-> d.reports, registry |-> d.registry, turn |-> d.turn]
  BY DEF Database
<1>2. CASE r.op = "saveBrief"
  <2>1. r.arg \in Days
    BY <1>2 DEF Sendable, IsRequest, DayOps, ChoiceOps, PlainOps
  <2>2. e = d \/ e = [d EXCEPT !.briefs = d.briefs \cup {r.arg}]
    BY <1>1, <1>2 DEF Remains, SaveBrief
  <2> QED
    BY <1>1, <1>2, <2>1, <2>2 DEF Database
<1>3. CASE r.op = "saveReports"
  <2>1. r.arg \in Days
    BY <1>3 DEF Sendable, IsRequest, DayOps, ChoiceOps, PlainOps
  <2>2. \/ e = d
        \/ e = [d EXCEPT !.reports = d.reports \cup {r.arg}]
        \/ e = [d EXCEPT !.reports = d.reports \ {r.arg}]
    BY <1>1, <1>3 DEF Remains, SaveReports, LoseReports
  <2> QED
    BY <1>1, <2>1, <2>2 DEF Database
<1>4. CASE r.op \notin {"saveBrief", "saveReports"}
  BY <1>4 DEF Remains
<1> QED
  BY <1>2, <1>3, <1>4

-----------------------------------------------------------------------------
(* Requests that may be sent.                                              *)

LEMMA DayRequest ==
    ASSUME NEW a \in Arrivals, NEW op \in DayOps, NEW n \in Days
    PROVE  Sendable([by |-> a, op |-> op, arg |-> n, awaited |-> TRUE])
BY DEF Sendable, Request, Ops, IsRequest, Procs, TurnOps, DayOps

LEMMA ChoiceRequest ==
    ASSUME NEW p \in Procs, NEW op \in ChoiceOps, NEW choice \in Registry
    PROVE  Sendable([by |-> p, op |-> op, arg |-> choice, awaited |-> TRUE])
BY DEF Sendable, Request, Ops, IsRequest, DayOps, ChoiceOps, TurnOps

LEMMA PlainRequest ==
    ASSUME NEW p \in Procs, NEW op \in PlainOps,
           op = "lastBriefDay" => p \in Arrivals, op \in TurnOps => p \in Calls
    PROVE  Sendable([by |-> p, op |-> op, arg |-> None, awaited |-> TRUE])
BY DEF Sendable, Request, Ops, IsRequest, DayOps, PlainOps, TurnOps

-----------------------------------------------------------------------------
(* The inductive invariant.                                                *)

Plain ==
    /\ day \in Days /\ composing \in BOOLEAN
    /\ dayOf \in [Arrivals -> Days] /\ seen \in [Procs -> Registry]
    /\ aborted \subseteq messages /\ messages \subseteq Calls

Waiting == {p \in Procs : at[p] = "call"}
Active(a) == at[a] \notin {"idle", "prefs", "done"}

\* The slot is taken while an arrival is under way, and only one is.
OneActive ==
    \A a \in Arrivals : Active(a) =>
        composing /\ \A b \in Arrivals : Active(b) => b = a

\* No request about a turn is left of a message that was answered.
TurnsOver ==
    \A i \in 1..Len(queue) :
        queue[i].op \in TurnOps => queue[i].awaited \/ at[queue[i].by] = "done"

\* An arrival that has decided to compose and has not sent its brief yet.
Decided(a) ==
    \/ at[a] \in {"collect", "standup", "compose"}
    \/ \E i \in 1..Len(queue) : /\ queue[i].by = a /\ queue[i].awaited
                                /\ queue[i].op \notin {"lastBriefDay", "saveBrief"}

NoLateRequest == \A i \in 1..Len(queue) : queue[i].by \in Arrivals => queue[i].awaited
BriefDue == \A a \in Arrivals : Decided(a) => dayOf[a] \notin db.briefs /\ NoLateRequest

IInv ==
    /\ Plain /\ at \in [Procs -> Stages] /\ host \in {"none", "new", "open"} /\ db \in Database
    /\ Ordered(queue, Waiting)
    /\ OneActive /\ TurnsOver /\ RepliesSettle /\ BriefDue

LEMMA WaitingIsAwaited ==
    ASSUME IInv, NEW i \in 1..Len(queue)
    PROVE  /\ queue[i].by \in Procs /\ Sendable(queue[i])
           /\ queue[i].awaited => at[queue[i].by] = "call"
           /\ queue[i].awaited /\ queue[i].by \in Arrivals => Active(queue[i].by)
<1>1. Sendable(queue[i]) /\ queue[i].by \in Procs
  BY DEF IInv, Ordered, Sendable, Request
<1>2. queue[i].awaited => queue[i].by \in Waiting
  BY <1>1 DEF IInv, Ordered
<1> QED
  BY <1>1, <1>2 DEF Waiting, Active

-----------------------------------------------------------------------------
(* A step that does not go to the database.                                *)

LEMMA QuietStep ==
    ASSUME IInv, Plain', UNCHANGED client, NEW p \in Procs, NEW stage \in Stages,
           at' = [at EXCEPT ![p] = stage],
           at[p] \notin {"call", "done", "answered"}, stage \notin {"call", "answered"},
           p \in Arrivals => stage \in {"prefs", "done"},
           composing => composing' \/ (p \in Arrivals /\ Active(p) /\ stage = "done"),
           dayOf' = dayOf
    PROVE  IInv'
<1>1. at' \in [Procs -> Stages] /\ \A q \in Procs : at'[q] = IF q = p THEN stage ELSE at[q]
  BY DEF IInv
<1>2. host' = host /\ db' = db /\ queue' = queue
  BY DEF client
<1>3. {q \in Procs : at'[q] = "call"} = Waiting
  BY <1>1 DEF Waiting
<1>4. Ordered(queue', Waiting')
  BY <1>2, <1>3 DEF IInv, Waiting
<1>5. OneActive'
  <2>1. \A a \in Arrivals : a \in Procs
    BY DEF Procs
  <2>2. \A a \in Arrivals : at'[a] \notin {"idle", "prefs", "done"} => a # p /\ at'[a] = at[a]
    BY <1>1, <2>1
  <2> QED
    BY <2>2 DEF IInv, OneActive, Active
<1>6. TurnsOver'
  BY <1>1, <1>2, WaitingIsAwaited DEF IInv, TurnsOver
<1>7. RepliesSettle'
  <2>1. \A c \in Calls : c \in Procs
    BY DEF Procs
  <2> QED
    BY <1>1, <1>2, <2>1 DEF IInv, RepliesSettle
<1>8. BriefDue'
  <2>1. \A a \in Arrivals : a \in Procs
    BY DEF Procs
  <2>2. \A a \in Arrivals : at'[a] \in {"collect", "standup", "compose"} => at'[a] = at[a]
    BY <1>1, <2>1
  <2> QED
    BY <1>2, <2>2 DEF IInv, BriefDue, Decided, NoLateRequest
<1> QED
  BY <1>1, <1>2, <1>4, <1>5, <1>6, <1>7, <1>8 DEF IInv

-----------------------------------------------------------------------------
(* A call.                                                                 *)

LEMMA AskStep ==
    ASSUME IInv, Plain', NEW p \in Procs, NEW op, NEW arg, Ask(p, op, arg),
           Sendable([by |-> p, op |-> op, arg |-> arg, awaited |-> TRUE]),
           at[p] \notin {"call", "done", "answered"},
           p \in Arrivals => \/ Active(p) /\ composing' = composing
                             \/ ~composing /\ composing',
           p \notin Arrivals => composing' = composing,
           p \in Arrivals => op \in {"lastBriefDay", "saveBrief"} \/ Decided(p),
           op = "lastBriefDay" \/ dayOf' = dayOf,
           \A a \in Arrivals \ {p} : dayOf'[a] = dayOf[a]
    PROVE  IInv'
<1> DEFINE r == [by |-> p, op |-> op, arg |-> arg, awaited |-> TRUE]
<1>1. r.by = p /\ r.op = op /\ r.awaited
  OBVIOUS
<1>2. /\ at' = [at EXCEPT ![p] = "call"] /\ queue' = queue \o <<r>> /\ db' = db
      /\ host' \in {"none", "new", "open"}
  BY DEF Ask, Message, IInv
<1>3. Sendable(r)
  OBVIOUS
<1> HIDE DEF r
<1>4. at' \in [Procs -> Stages] /\ \A q \in Procs : at'[q] = IF q = p THEN "call" ELSE at[q]
  BY <1>2 DEF IInv, Stages
<1>5. {q \in Procs : at'[q] = "call"} = Waiting \cup {p} /\ p \notin Waiting
  BY <1>4 DEF Waiting
<1>6. \A a \in Arrivals : a \in Procs
  BY DEF Procs
<1>7. p \in Arrivals => Waiting \cap Arrivals = {}
  BY <1>6 DEF IInv, OneActive, Active, Waiting
<1>8. /\ Len(queue') = Len(queue) + 1 /\ Len(queue) \in Nat
      /\ queue'[Len(queue) + 1] = r
      /\ \A i \in 1..Len(queue) : queue'[i] = queue[i]
      /\ Ordered(queue', Waiting \cup {p})
  BY <1>1, <1>2, <1>3, <1>5, <1>7, AppendIsOrdered DEF IInv
<1>9. \A i \in 1..Len(queue') : \/ i \in 1..Len(queue) /\ queue'[i] = queue[i]
                                \/ i = Len(queue) + 1 /\ queue'[i] = r
  BY <1>8
<1>10. Ordered(queue', Waiting')
  BY <1>5, <1>8 DEF Waiting
<1>11. OneActive'
  <2>1. CASE p \in Arrivals /\ ~Active(p)
    <3>1. \A a \in Arrivals : ~Active(a) /\ composing'
      BY <2>1 DEF IInv, OneActive
    <3>2. \A a \in Arrivals : at'[a] \notin {"idle", "prefs", "done"} => a = p
      BY <1>4, <1>6, <3>1 DEF Active
    <3> QED
      BY <2>1, <3>1, <3>2 DEF OneActive, Active
  <2>2. CASE p \in Arrivals /\ Active(p)
    <3>1. composing' = composing
      BY <2>2 DEF IInv, OneActive
    <3>2. \A a \in Arrivals : at'[a] \notin {"idle", "prefs", "done"} => Active(a)
      BY <1>4, <1>6, <2>2 DEF Active
    <3> QED
      BY <3>1, <3>2 DEF IInv, OneActive, Active
  <2>3. CASE p \notin Arrivals
    <3>1. \A a \in Arrivals : at'[a] = at[a]
      BY <1>4, <1>6, <2>3
    <3> QED
      BY <2>3, <3>1 DEF IInv, OneActive, Active
  <2> QED
    BY <2>1, <2>2, <2>3
<1>12. TurnsOver'
  <2>1. ASSUME NEW i \in 1..Len(queue'), queue'[i].op \in TurnOps
        PROVE  queue'[i].awaited \/ at'[queue'[i].by] = "done"
    <3>1. CASE i \in 1..Len(queue) /\ queue'[i] = queue[i]
      <4>1. queue[i].awaited \/ at[queue[i].by] = "done"
        BY <2>1, <3>1 DEF IInv, TurnsOver
      <4>2. queue[i].by \in Procs
        BY <3>1, WaitingIsAwaited
      <4> QED
        BY <1>4, <3>1, <4>1, <4>2
    <3>2. CASE queue'[i] = r
      BY <1>1, <3>2
    <3> QED
      BY <1>9, <3>1, <3>2
  <2> QED
    BY <2>1 DEF TurnsOver
<1>13. RepliesSettle'
  <2>1. \A c \in Calls : c \in Procs
    BY DEF Procs
  <2> QED
    BY <1>2, <1>4, <2>1 DEF IInv, RepliesSettle
<1>14. BriefDue'
  <2>1. ASSUME NEW a \in Arrivals, Decided(a)'
        PROVE  Decided(a) /\ dayOf'[a] = dayOf[a]
    <3>1. CASE a = p
      <4>1. PICK i \in 1..Len(queue') : /\ queue'[i].by = a /\ queue'[i].awaited
                                        /\ queue'[i].op \notin {"lastBriefDay", "saveBrief"}
        BY <1>4, <2>1, <3>1 DEF Decided
      <4>2. queue'[i] = r
        <5>1. CASE i \in 1..Len(queue) /\ queue'[i] = queue[i]
          BY <3>1, <4>1, <5>1, WaitingIsAwaited
        <5> QED
          BY <1>9, <5>1
      <4> QED
        BY <1>1, <3>1, <4>1, <4>2
    <3>2. CASE a # p
      <4>1. at'[a] = at[a] /\ dayOf'[a] = dayOf[a]
        BY <1>4, <1>6, <3>2
      <4>2. \A i \in 1..Len(queue') : queue'[i].by = a => i \in 1..Len(queue) /\ queue'[i] = queue[i]
        BY <1>1, <1>9, <3>2
      <4> QED
        BY <2>1, <4>1, <4>2 DEF Decided
    <3> QED
      BY <3>1, <3>2
  <2>2. NoLateRequest => NoLateRequest'
    BY <1>1, <1>9 DEF NoLateRequest
  <2> QED
    BY <1>2, <2>1, <2>2 DEF IInv, BriefDue
<1> QED
  BY <1>2, <1>4, <1>10, <1>11, <1>12, <1>13, <1>14 DEF IInv

-----------------------------------------------------------------------------
(* The host carries out a request.                                         *)

\* What is left in the queue, and what is in the database, once the request at the
\* head is carried out.
LEMMA HeadCarriedOut ==
    ASSUME IInv, queue # <<>>
    PROVE  /\ Head(queue) = queue[1] /\ 1 \in 1..Len(queue) /\ Sendable(Head(queue))
           /\ Head(queue).by \in Procs
           /\ Ordered(Tail(queue), IF Head(queue).awaited THEN Waiting \ {Head(queue).by} ELSE Waiting)
           /\ Effect(Head(queue), Opened) \in Database
           /\ Head(queue).op # "saveBrief" => Effect(Head(queue), Opened).briefs = db.briefs
           /\ Head(queue).op = "completeTurn" =>
                 Effect(Head(queue), Opened).turn[Head(queue).by] = "settled"
           /\ \A c \in Calls : at[c] = "answered" => Effect(Head(queue), Opened).turn[c] = "settled"
           /\ \A i \in 1..Len(Tail(queue)) : Tail(queue)[i] = queue[i + 1] /\ i + 1 \in 1..Len(queue)
<1>1. /\ Head(queue) = queue[1] /\ 1 \in 1..Len(queue) /\ Sendable(Head(queue))
      /\ \A i \in 1..Len(Tail(queue)) : Tail(queue)[i] = queue[i + 1] /\ i + 1 \in 1..Len(queue)
      /\ Ordered(Tail(queue), IF Head(queue).awaited THEN Waiting \ {Head(queue).by} ELSE Waiting)
  BY TailIsOrdered DEF IInv
<1>2. Opened \in Database /\ Opened.briefs = db.briefs
      /\ \A c \in Calls : db.turn[c] = "settled" => Opened.turn[c] = "settled"
  BY OpenedDatabase DEF IInv
<1>3. /\ Effect(Head(queue), Opened) \in Database
      /\ Head(queue).op # "saveBrief" => Effect(Head(queue), Opened).briefs = Opened.briefs
      /\ \A c \in Calls : Head(queue).op \notin TurnOps \/ Head(queue).by # c =>
            Effect(Head(queue), Opened).turn[c] = Opened.turn[c]
      /\ Head(queue).op = "completeTurn" =>
            Effect(Head(queue), Opened).turn[Head(queue).by] = "settled"
  BY <1>1, <1>2, EffectOnDatabase
<1>4. ASSUME NEW c \in Calls, at[c] = "answered"
      PROVE  Effect(Head(queue), Opened).turn[c] = "settled"
  <2>1. Opened.turn[c] = "settled"
    BY <1>2, <1>4 DEF IInv, RepliesSettle
  <2>2. ~(Head(queue).op \in TurnOps /\ Head(queue).by = c)
    BY <1>1, <1>4, WaitingIsAwaited DEF IInv, TurnsOver
  <2> QED
    BY <1>3, <2>1, <2>2
<1>5. Head(queue).by \in Procs
  BY <1>1, WaitingIsAwaited
<1> QED
  BY <1>1, <1>2, <1>3, <1>4, <1>5

\* What is in the database once the request at the head is carried out, or has
\* failed, or was never begun.
LEMMA HeadLeaves ==
    ASSUME IInv, queue # <<>>,
           NEW e \in Remains(Head(queue), Opened) \cup {Effect(Head(queue), Opened), db}
    PROVE  /\ e \in Database
           /\ Head(queue).op # "saveBrief" => e.briefs = db.briefs
           /\ \A c \in Calls : at[c] = "answered" => e.turn[c] = "settled"
<1>1. CASE e \in Remains(Head(queue), Opened)
  <2>1. Sendable(Head(queue))
    BY HeadCarriedOut
  <2>2. Opened \in Database /\ Opened.briefs = db.briefs
        /\ \A c \in Calls : db.turn[c] = "settled" => Opened.turn[c] = "settled"
    BY OpenedDatabase DEF IInv
  <2>3. /\ e \in Database /\ e.turn = Opened.turn
        /\ Head(queue).op # "saveBrief" => e.briefs = Opened.briefs
    BY <1>1, <2>1, <2>2, RemainsOnDatabase
  <2> QED
    BY <2>2, <2>3 DEF IInv, RepliesSettle
<1>2. CASE e = Effect(Head(queue), Opened)
  BY <1>2, HeadCarriedOut
<1>3. CASE e = db
  BY <1>3 DEF IInv, RepliesSettle
<1> QED
  BY <1>1, <1>2, <1>3

\* Requests about turns that are left stay as they are.
LEMMA TurnsLeft ==
    ASSUME IInv, queue # <<>>, queue' = Tail(queue),
           \A p \in Procs : at[p] = "done" => at'[p] = "done"
    PROVE  TurnsOver'
<1>1. ASSUME NEW i \in 1..Len(queue'), queue'[i].op \in TurnOps
      PROVE  queue'[i].awaited \/ at'[queue'[i].by] = "done"
  <2>1. queue'[i] = queue[i + 1] /\ i + 1 \in 1..Len(queue)
    BY HeadCarriedOut
  <2>2. queue[i + 1].by \in Procs
    BY <2>1, WaitingIsAwaited
  <2>3. queue[i + 1].awaited \/ at[queue[i + 1].by] = "done"
    BY <1>1, <2>1 DEF IInv, TurnsOver
  <2> QED
    BY <2>1, <2>2, <2>3
<1> QED
  BY <1>1 DEF TurnsOver

\* Behind the request an arrival waits for there is none by an arrival.
LEMMA ArrivalsAreLast ==
    ASSUME IInv, queue # <<>>, Head(queue).awaited, Head(queue).by \in Arrivals
    PROVE  \A i \in 1..Len(queue) : i # 1 => queue[i].by \notin Arrivals
<1>1. Head(queue) = queue[1] /\ 1 \in 1..Len(queue)
  BY HeadCarriedOut
<1>2. \A i \in 1..Len(queue) : i # 1 => 1 < i
  OBVIOUS
<1> QED
  BY <1>1, <1>2 DEF IInv, Ordered

\* A call is answered, and its process goes on without the database.
LEMMA AnswerStep ==
    ASSUME IInv, Plain', NEW p \in Procs, NEW op, NEW stage \in Stages,
           Answered(p, op), GoesTo(p, stage), stage # "call",
           p \in Arrivals => stage = "done" \/ composing' = composing,
           p \in Arrivals => stage = "done" \/ op \notin {"lastBriefDay", "saveBrief"},
           p \notin Arrivals => composing' = composing,
           stage = "answered" => op = "completeTurn",
           dayOf' = dayOf
    PROVE  IInv'
<1>1. /\ queue # <<>> /\ Head(queue).by = p /\ Head(queue).op = op /\ Head(queue).awaited
      /\ host' = "open" /\ db' = Effect(Head(queue), Opened)
      /\ at' = [at EXCEPT ![p] = stage] /\ queue' = Tail(queue)
  BY DEF Answered, GoesTo
<1>2. /\ Head(queue) = queue[1] /\ 1 \in 1..Len(queue) /\ Sendable(Head(queue))
      /\ Ordered(Tail(queue), Waiting \ {p})
      /\ db' \in Database
      /\ op # "saveBrief" => db'.briefs = db.briefs
      /\ op = "completeTurn" => db'.turn[p] = "settled"
      /\ \A c \in Calls : at[c] = "answered" => db'.turn[c] = "settled"
      /\ \A i \in 1..Len(Tail(queue)) : Tail(queue)[i] = queue[i + 1] /\ i + 1 \in 1..Len(queue)
  BY <1>1, HeadCarriedOut
<1>3. at' \in [Procs -> Stages] /\ \A q \in Procs : at'[q] = IF q = p THEN stage ELSE at[q]
  BY <1>1 DEF IInv
<1>4. at[p] = "call" /\ (p \in Arrivals => Active(p))
  BY <1>1, <1>2, WaitingIsAwaited
<1>5. {q \in Procs : at'[q] = "call"} = Waiting \ {p}
  BY <1>3 DEF Waiting
<1>6. Ordered(queue', Waiting')
  BY <1>1, <1>2, <1>5 DEF Waiting
<1>7. \A a \in Arrivals : a \in Procs
  BY DEF Procs
<1>8. OneActive'
  <2>1. CASE p \in Arrivals
    <3>1. composing /\ \A a \in Arrivals : Active(a) => a = p
      BY <1>4, <2>1 DEF IInv, OneActive
    <3>2. \A a \in Arrivals : at'[a] \notin {"idle", "prefs", "done"} => a = p /\ stage # "done"
      BY <1>3, <1>7, <3>1 DEF Active
    <3> QED
      BY <2>1, <3>1, <3>2 DEF OneActive, Active
  <2>2. CASE p \notin Arrivals
    <3>1. \A a \in Arrivals : at'[a] = at[a]
      BY <1>3, <1>7, <2>2
    <3> QED
      BY <2>2, <3>1 DEF IInv, OneActive, Active
  <2> QED
    BY <2>1, <2>2
<1>9. TurnsOver'
  <2>1. \A q \in Procs : at[q] = "done" => at'[q] = "done"
    BY <1>3, <1>4
  <2> QED
    BY <1>1, <2>1, TurnsLeft
<1>10. RepliesSettle'
  <2>1. \A c \in Calls : c \in Procs
    BY DEF Procs
  <2> QED
    BY <1>2, <1>3, <2>1 DEF RepliesSettle
<1>11. BriefDue'
  <2>1. ASSUME NEW a \in Arrivals, Decided(a)'
        PROVE  dayOf[a] \notin db'.briefs /\ NoLateRequest'
    <3>1. CASE p \in Arrivals
      <4>1. \A i \in 1..Len(queue') : queue'[i].by \notin Arrivals
        <5>1. \A i \in 1..Len(queue') : /\ queue'[i] = queue[i + 1] /\ i + 1 \in 1..Len(queue)
                                        /\ i + 1 # 1
          BY <1>1, <1>2
        <5> QED
          BY <1>1, <3>1, <5>1, ArrivalsAreLast
      <4>2. at'[a] \in {"collect", "standup", "compose"}
        BY <2>1, <4>1 DEF Decided
      <4>3. a = p /\ stage # "done"
        <5>1. \A b \in Arrivals : Active(b) => b = p
          BY <1>4, <3>1 DEF IInv, OneActive
        <5> QED
          BY <1>3, <1>7, <4>2, <5>1 DEF Active
      <4>4. op \notin {"lastBriefDay", "saveBrief"}
        BY <3>1, <4>3
      <4>5. Decided(p)
        BY <1>1, <1>2, <4>4 DEF Decided
      <4> QED
        BY <1>2, <4>1, <4>3, <4>4, <4>5 DEF IInv, BriefDue, NoLateRequest
    <3>2. CASE p \notin Arrivals
      <4>1. op # "saveBrief"
        BY <1>1, <1>2, <3>2 DEF Sendable, DayOps
      <4>2. at'[a] = at[a]
        BY <1>3, <1>7, <3>2
      <4>3. \A i \in 1..Len(queue') : queue'[i] = queue[i + 1] /\ i + 1 \in 1..Len(queue)
        BY <1>1, <1>2
      <4>4. Decided(a)
        BY <2>1, <4>2, <4>3 DEF Decided
      <4>5. NoLateRequest'
        BY <4>3, <4>4 DEF IInv, BriefDue, NoLateRequest
      <4> QED
        BY <1>2, <4>1, <4>4, <4>5 DEF IInv, BriefDue
    <3> QED
      BY <3>1, <3>2
  <2> QED
    BY <2>1 DEF BriefDue
<1> QED
  BY <1>1, <1>2, <1>3, <1>6, <1>8, <1>9, <1>10, <1>11 DEF IInv

\* An arrival's call is answered and it makes the next one.
LEMMA AnswerAskStep ==
    ASSUME IInv, Plain', NEW a \in Arrivals, NEW op, NEW next, NEW arg,
           Answered(a, op), AsksNext(a, next, arg),
           Sendable([by |-> a, op |-> next, arg |-> arg, awaited |-> TRUE]),
           composing => composing',
           op # "saveBrief", dayOf' = dayOf, dayOf[a] \notin db.briefs
    PROVE  IInv'
<1> DEFINE r == [by |-> a, op |-> next, arg |-> arg, awaited |-> TRUE]
           t == Tail(queue)
<1>1. /\ queue # <<>> /\ Head(queue).by = a /\ Head(queue).op = op /\ Head(queue).awaited
      /\ host' = "open" /\ db' = Effect(Head(queue), Opened)
      /\ at' = at /\ queue' = t \o <<r>>
  BY DEF Answered, AsksNext, Message
<1>2. r.by = a /\ r.op = next /\ r.awaited /\ Sendable(r)
  OBVIOUS
<1>3. /\ Head(queue) = queue[1] /\ 1 \in 1..Len(queue)
      /\ Ordered(t, Waiting \ {a})
      /\ db' \in Database /\ db'.briefs = db.briefs
      /\ \A c \in Calls : at[c] = "answered" => db'.turn[c] = "settled"
      /\ \A i \in 1..Len(t) : t[i] = queue[i + 1] /\ i + 1 \in 1..Len(queue)
  BY <1>1, HeadCarriedOut
<1> HIDE DEF r, t
<1>4. at[a] = "call" /\ Active(a) /\ a \in Procs
  BY <1>1, <1>3, WaitingIsAwaited
<1>5. composing /\ \A b \in Arrivals : Active(b) => b = a
  BY <1>4 DEF IInv, OneActive
<1>6. (Waiting \ {a}) \cap Arrivals = {} /\ (Waiting \ {a}) \cup {a} = Waiting
  BY <1>4, <1>5 DEF Waiting, Active
<1>7. /\ Len(queue') = Len(t) + 1 /\ Len(t) \in Nat
      /\ queue'[Len(t) + 1] = r
      /\ \A i \in 1..Len(t) : queue'[i] = t[i]
      /\ Ordered(queue', Waiting)
  <2>1. r.by \notin Waiting \ {a}
    BY <1>2
  <2> QED
    BY <1>1, <1>2, <1>3, <1>6, <2>1, AppendIsOrdered
<1>8. \A i \in 1..Len(queue') : \/ i \in 1..Len(t) /\ queue'[i] = t[i]
                                \/ i = Len(t) + 1 /\ queue'[i] = r
  BY <1>7
<1>9. Ordered(queue', Waiting')
  BY <1>1, <1>7 DEF Waiting
<1>10. OneActive'
  BY <1>1, <1>5 DEF OneActive, Active
<1>11. TurnsOver'
  <2>1. ASSUME NEW i \in 1..Len(queue'), queue'[i].op \in TurnOps
        PROVE  queue'[i].awaited \/ at[queue'[i].by] = "done"
    <3>1. CASE i \in 1..Len(t) /\ queue'[i] = t[i]
      <4>1. queue'[i] = queue[i + 1] /\ i + 1 \in 1..Len(queue)
        BY <1>3, <3>1
      <4> QED
        BY <2>1, <4>1 DEF IInv, TurnsOver
    <3> QED
      BY <1>2, <1>8, <3>1
  <2> QED
    BY <1>1, <2>1 DEF TurnsOver
<1>12. RepliesSettle'
  BY <1>1, <1>3 DEF RepliesSettle
<1>13. BriefDue'
  <2>1. \A i \in 1..Len(t) : t[i].by \notin Arrivals
    <3>1. \A i \in 1..Len(t) : t[i] = queue[i + 1] /\ i + 1 \in 1..Len(queue) /\ i + 1 # 1
      BY <1>3
    <3> QED
      BY <1>1, <3>1, ArrivalsAreLast
  <2>2. NoLateRequest'
    BY <1>2, <1>8, <2>1 DEF NoLateRequest
  <2>3. \A b \in Arrivals : Decided(b)' => b = a
    <3>1. ASSUME NEW b \in Arrivals, Decided(b)'
          PROVE  b = a
      <4>1. CASE at'[b] \in {"collect", "standup", "compose"}
        BY <1>1, <1>5, <4>1 DEF Active
      <4>2. CASE \E i \in 1..Len(queue') : queue'[i].by = b
        BY <1>2, <1>8, <2>1, <4>2
      <4> QED
        BY <3>1, <4>1, <4>2 DEF Decided
    <3> QED
      BY <3>1
  <2> QED
    BY <1>3, <2>2, <2>3 DEF BriefDue
<1> QED
  BY <1>1, <1>3, <1>9, <1>10, <1>11, <1>12, <1>13 DEF IInv

\* The host gets to a request nobody awaits.
LEMMA RunsLateStep == ASSUME IInv, RunsLate PROVE IInv'
<1>1. /\ queue # <<>> /\ ~Head(queue).awaited /\ queue' = Tail(queue)
      /\ host' \in {"none", "new", "open"}
      /\ db' \in Remains(Head(queue), Opened) \cup {Effect(Head(queue), Opened), db}
      /\ UNCHANGED <<day, composing, at, dayOf, seen, messages, aborted>>
  BY DEF RunsLate, Throws
<1>2. /\ Head(queue) = queue[1] /\ 1 \in 1..Len(queue) /\ Sendable(Head(queue))
      /\ Ordered(queue', Waiting)
      /\ \A i \in 1..Len(queue') : queue'[i] = queue[i + 1] /\ i + 1 \in 1..Len(queue)
  BY <1>1, HeadCarriedOut
<1>3. /\ db' \in Database
      /\ Head(queue).op # "saveBrief" => db'.briefs = db.briefs
      /\ \A c \in Calls : at[c] = "answered" => db'.turn[c] = "settled"
  BY <1>1, HeadLeaves
<1>4. Ordered(queue', Waiting')
  BY <1>1, <1>2 DEF Waiting
<1>5. Plain' /\ OneActive'
  BY <1>1 DEF IInv, Plain, OneActive, Active
<1>6. TurnsOver'
  BY <1>1, TurnsLeft
<1>7. RepliesSettle'
  BY <1>1, <1>3 DEF RepliesSettle
<1>8. BriefDue'
  <2>1. ASSUME NEW a \in Arrivals, Decided(a)'
        PROVE  dayOf'[a] \notin db'.briefs /\ NoLateRequest'
    <3>1. Decided(a)
      BY <1>1, <1>2, <2>1 DEF Decided
    <3>2. dayOf[a] \notin db.briefs /\ NoLateRequest
      BY <3>1 DEF IInv, BriefDue
    <3>3. Head(queue).op # "saveBrief"
      BY <1>1, <1>2, <3>2 DEF NoLateRequest, Sendable, DayOps
    <3> QED
      BY <1>1, <1>2, <1>3, <3>2, <3>3 DEF NoLateRequest
  <2> QED
    BY <2>1 DEF BriefDue
<1> QED
  BY <1>1, <1>3, <1>4, <1>5, <1>6, <1>7, <1>8 DEF IInv

-----------------------------------------------------------------------------
(* Calls fail.                                                             *)

\* What the failures of the calls in failed do to the processes.
LEMMA FailedProcesses ==
    ASSUME IInv, NEW failed \in SUBSET Waiting, Failed(failed)
    PROVE  /\ Plain' /\ at' \in [Procs -> Stages] /\ OneActive'
           /\ Waiting' = Waiting \ failed
           /\ \A p \in Procs \ failed : at'[p] = at[p]
           /\ \A p \in failed : at'[p] \in {"ready", "done"}
           /\ \A p \in failed : p \in Arrivals \/ ~Refreshing(p) => at'[p] = "done"
           /\ \A a \in Arrivals : Active(a)' => Active(a) /\ failed \cap Arrivals = {}
<1>1. at \in [Procs -> Stages] /\ failed \subseteq Procs /\ \A p \in failed : at[p] = "call"
  BY DEF IInv, Waiting
<1>2. \A p \in Procs :
          at'[p] = IF p \notin failed THEN at[p]
                   ELSE IF p \in messages /\ Refreshing(p) THEN "ready" ELSE "done"
  BY DEF Failed
<1>3. at' \in [Procs -> Stages]
  BY <1>1, <1>2 DEF Failed, Stages
<1>4. Plain' /\ composing' = (composing /\ failed \cap Arrivals = {}) /\ messages \subseteq Calls
  BY DEF IInv, Plain, Failed, Freed
<1>5. \A a \in Arrivals : a \in Procs /\ a \notin messages
  BY <1>4, SortsAssumption DEF Procs
<1>6. ASSUME NEW a \in Arrivals, at'[a] \notin {"idle", "prefs", "done"}
      PROVE  Active(a) /\ at'[a] = at[a] /\ failed \cap Arrivals = {}
  <2>1. a \notin failed /\ at'[a] = at[a] /\ Active(a)
    BY <1>2, <1>5, <1>6 DEF Active
  <2>2. \A b \in Arrivals : Active(b) => b = a
    BY <2>1 DEF IInv, OneActive
  <2> QED
    BY <1>1, <2>1, <2>2 DEF Active
<1>7. OneActive'
  BY <1>4, <1>6 DEF IInv, OneActive, Active
<1>8. Waiting' = Waiting \ failed
  BY <1>1, <1>2 DEF Waiting
<1> QED
  BY <1>1, <1>2, <1>3, <1>4, <1>5, <1>6, <1>7, <1>8 DEF Active

\* A call times out, and its request stays.
LEMMA TimeOutStep == ASSUME IInv, NEW p \in Procs, TimeOut(p) PROVE IInv'
<1>1. PICK k \in DOMAIN queue : /\ queue[k].by = p /\ queue[k].awaited
                                /\ queue' = [queue EXCEPT ![k].awaited = FALSE]
  BY DEF TimeOut
<1>2. k \in 1..Len(queue)
  BY <1>1 DEF IInv, Ordered
<1>3. Failed({p}) /\ host' = host /\ db' = db
  BY DEF TimeOut
<1>4. at[p] = "call" /\ p \in Waiting
  BY <1>1, <1>2, WaitingIsAwaited DEF Waiting
<1>5. /\ Plain' /\ at' \in [Procs -> Stages] /\ OneActive'
      /\ Waiting' = Waiting \ {p}
      /\ \A q \in Procs : q # p => at'[q] = at[q]
      /\ at'[p] \in {"ready", "done"}
      /\ ~Refreshing(p) => at'[p] = "done"
      /\ p \in Arrivals => at'[p] = "done"
      /\ \A a \in Arrivals : Active(a)' => Active(a) /\ {p} \cap Arrivals = {}
  BY <1>3, <1>4, FailedProcesses
<1>6. /\ Len(queue') = Len(queue)
      /\ \A i \in 1..Len(queue) : /\ queue'[i].by = queue[i].by /\ queue'[i].op = queue[i].op
                                  /\ queue'[i].awaited <=> queue[i].awaited /\ i # k
      /\ Ordered(queue', Waiting \ {p})
  BY <1>1, <1>2, UnawaitedIsOrdered DEF IInv
<1>7. Ordered(queue', Waiting')
  BY <1>5, <1>6
<1>8. TurnsOver'
  <2>1. ASSUME NEW i \in 1..Len(queue), queue[i].op \in TurnOps
        PROVE  queue'[i].awaited \/ at'[queue[i].by] = "done"
    <3>1. queue[i].by \in Procs /\ (queue[i].awaited \/ at[queue[i].by] = "done")
      BY <2>1, WaitingIsAwaited DEF IInv, TurnsOver
    <3>2. CASE i = k
      <4>1. \A j \in 1..Len(queue) : queue[j].by = p /\ queue[j].awaited => j = k
        BY <1>1, <1>2 DEF IInv, Ordered
      <4>2. queue[k].op \notin {"readRegistry", "writeRegistry"}
        BY <2>1, <3>2 DEF TurnOps
      <4>3. DOMAIN queue = 1..Len(queue)
        BY DEF IInv, Ordered
      <4>4. ~Refreshing(p)
        BY <4>1, <4>2, <4>3 DEF Refreshing
      <4> QED
        BY <1>1, <1>5, <3>2, <4>4
    <3>3. CASE i # k
      BY <1>4, <1>5, <1>6, <3>1, <3>3
    <3> QED
      BY <3>2, <3>3
  <2> QED
    BY <1>6, <2>1 DEF TurnsOver
<1>9. RepliesSettle'
  <2>1. \A c \in Calls : c \in Procs
    BY DEF Procs
  <2>2. \A c \in Calls : at'[c] = "answered" => at[c] = "answered"
    BY <1>5, <2>1
  <2> QED
    BY <1>3, <2>2 DEF IInv, RepliesSettle
<1>10. BriefDue'
  <2>1. ASSUME NEW a \in Arrivals, Decided(a)'
        PROVE  dayOf'[a] \notin db'.briefs /\ NoLateRequest'
    <3>1. \/ at'[a] \in {"collect", "standup", "compose"}
          \/ \E i \in 1..Len(queue') : queue'[i].by = a /\ queue'[i].awaited
      BY <2>1 DEF Decided
    <3>2. (\E i \in 1..Len(queue') : queue'[i].by = a /\ queue'[i].awaited) => a \in Waiting'
      BY <1>7 DEF Ordered, Procs
    <3>3. Active(a)'
      BY <3>1, <3>2 DEF Active, Waiting
    <3>4. Active(a) /\ p \notin Arrivals /\ at'[a] = at[a]
      BY <1>5, <3>3 DEF Procs
    <3>5. Decided(a)
      BY <1>6, <2>1, <3>4 DEF Decided
    <3>6. NoLateRequest'
      BY <1>1, <1>6, <3>4, <3>5 DEF IInv, BriefDue, NoLateRequest
    <3>7. dayOf' = dayOf
      BY <1>3 DEF Failed
    <3> QED
      BY <1>3, <3>5, <3>6, <3>7 DEF IInv, BriefDue
  <2> QED
    BY <2>1 DEF BriefDue
<1> QED
  BY <1>3, <1>5, <1>7, <1>8, <1>9, <1>10 DEF IInv

\* A request fails.
LEMMA RefusedStep == ASSUME IInv, NEW p \in Procs, Refused(p) PROVE IInv'
<1>1. /\ queue # <<>> /\ Head(queue).by = p /\ Head(queue).awaited
      /\ queue' = Tail(queue) /\ Failed({p})
      /\ host' \in {"none", "new", "open"}
      /\ db' \in Remains(Head(queue), Opened) \cup {Effect(Head(queue), Opened), db}
  BY DEF Refused, Throws
<1>2. /\ Head(queue) = queue[1] /\ 1 \in 1..Len(queue) /\ Ordered(queue', Waiting \ {p})
      /\ \A i \in 1..Len(queue') : queue'[i] = queue[i + 1] /\ i + 1 \in 1..Len(queue)
  BY <1>1, HeadCarriedOut
<1>3. at[p] = "call" /\ p \in Waiting
  BY <1>1, <1>2, WaitingIsAwaited DEF Waiting
<1>4. /\ Plain' /\ at' \in [Procs -> Stages] /\ OneActive'
      /\ Waiting' = Waiting \ {p}
      /\ \A q \in Procs : q # p => at'[q] = at[q]
      /\ at'[p] \in {"ready", "done"}
      /\ p \in Arrivals => at'[p] = "done"
  BY <1>1, <1>3, FailedProcesses
<1>5. /\ db' \in Database
      /\ Head(queue).op # "saveBrief" => db'.briefs = db.briefs
      /\ \A c \in Calls : at[c] = "answered" => db'.turn[c] = "settled"
  BY <1>1, HeadLeaves
<1>6. Ordered(queue', Waiting')
  BY <1>2, <1>4
<1>7. TurnsOver'
  <2>1. \A q \in Procs : at[q] = "done" => at'[q] = "done"
    BY <1>3, <1>4
  <2> QED
    BY <1>1, <2>1, TurnsLeft
<1>8. RepliesSettle'
  <2>1. \A c \in Calls : c \in Procs
    BY DEF Procs
  <2>2. \A c \in Calls : at'[c] = "answered" => at[c] = "answered"
    BY <1>4, <2>1
  <2> QED
    BY <1>5, <2>2 DEF RepliesSettle
<1>9. BriefDue'
  <2>1. ASSUME NEW a \in Arrivals, Decided(a)'
        PROVE  dayOf'[a] \notin db'.briefs /\ NoLateRequest'
    <3>1. \A i \in 1..Len(queue') : queue'[i].by = p => ~queue'[i].awaited
      BY <1>3, <1>6, <1>4 DEF Ordered
    <3>2. a # p
      BY <1>4, <2>1, <3>1 DEF Decided
    <3>3. at'[a] = at[a]
      BY <1>4, <3>2 DEF Procs
    <3>4. Decided(a)
      BY <1>2, <2>1, <3>3 DEF Decided
    <3>5. NoLateRequest'
      BY <1>2, <3>4 DEF IInv, BriefDue, NoLateRequest
    <3>6. dayOf' = dayOf
      BY <1>1 DEF Failed
    <3>7. Head(queue).op # "saveBrief"
      <4>1. SUFFICES ASSUME Head(queue).op = "saveBrief" PROVE FALSE
        OBVIOUS
      <4>2. p \in Arrivals /\ Active(p)
        BY <1>1, <1>2, <4>1, WaitingIsAwaited DEF Sendable, DayOps
      <4>3. Active(a)
        <5>1. CASE at[a] \in {"collect", "standup", "compose"}
          BY <5>1 DEF Active
        <5>2. CASE \E i \in 1..Len(queue) : queue[i].by = a /\ queue[i].awaited
          BY <5>2, WaitingIsAwaited
        <5> QED
          BY <3>4, <5>1, <5>2 DEF Decided
      <4> QED
        BY <3>2, <4>2, <4>3 DEF IInv, OneActive
    <3> QED
      BY <1>5, <3>4, <3>5, <3>6, <3>7 DEF IInv, BriefDue
  <2> QED
    BY <2>1 DEF BriefDue
<1> QED
  BY <1>1, <1>4, <1>5, <1>6, <1>7, <1>8, <1>9 DEF IInv

\* The database's process dies.
LEMMA HostDiesStep == ASSUME IInv, HostDies PROVE IInv'
<1>1. /\ host' = "none" /\ queue' = <<>> /\ Failed(Waiting)
      /\ \/ db' = db
         \/ queue # <<>> /\ db' \in Remains(Head(queue), Opened) \cup {Effect(Head(queue), Opened), db}
  <2>1. /\ host' = "none" /\ queue' = <<>>
        /\ \/ db' = db
           \/ queue # <<>> /\ db' \in Remains(Head(queue), Opened) \cup {Effect(Head(queue), Opened), db}
    BY DEF HostDies
  <2>2. Failed(Waiting)
    BY DEF HostDies, Waiting, Failed, Freed
  <2> QED
    BY <2>1, <2>2
<1>2. /\ Plain' /\ at' \in [Procs -> Stages] /\ OneActive'
      /\ Waiting' = Waiting \ Waiting
      /\ \A q \in Procs \ Waiting : at'[q] = at[q]
      /\ \A q \in Waiting : at'[q] \in {"ready", "done"}
      /\ \A q \in Waiting : q \in Arrivals => at'[q] = "done"
  BY <1>1, FailedProcesses
<1>3. Len(queue') = 0 /\ Ordered(queue', Waiting')
  BY <1>1, <1>2, EmptyIsOrdered, EmptySeq
<1>4. /\ db' \in Database
      /\ \A c \in Calls : at[c] = "answered" => db'.turn[c] = "settled"
      /\ db'.briefs = db.briefs \/ (queue # <<>> /\ Head(queue).op = "saveBrief")
  <2>1. CASE db' = db
    BY <2>1 DEF IInv, RepliesSettle
  <2>2. CASE queue # <<>> /\ db' \in Remains(Head(queue), Opened) \cup {Effect(Head(queue), Opened), db}
    BY <2>2, HeadLeaves
  <2> QED
    BY <1>1, <2>1, <2>2
<1>5. TurnsOver'
  BY <1>3 DEF TurnsOver
<1>6. RepliesSettle'
  <2>1. \A c \in Calls : c \in Procs
    BY DEF Procs
  <2>2. \A c \in Calls : at'[c] = "answered" => at[c] = "answered"
    BY <1>2, <2>1
  <2> QED
    BY <1>4, <2>2 DEF RepliesSettle
<1>7. BriefDue'
  <2>1. ASSUME NEW a \in Arrivals, Decided(a)'
        PROVE  dayOf'[a] \notin db'.briefs /\ NoLateRequest'
    <3>1. at'[a] \in {"collect", "standup", "compose"}
      BY <1>3, <2>1 DEF Decided
    <3>2. at'[a] = at[a] /\ at[a] # "call"
      BY <1>2, <3>1 DEF Waiting, Procs
    <3>3. Decided(a) /\ Active(a)
      BY <3>1, <3>2 DEF Decided, Active
    <3>4. ~(queue # <<>> /\ Head(queue).op = "saveBrief")
      <4>1. SUFFICES ASSUME queue # <<>>, Head(queue).op = "saveBrief" PROVE FALSE
        OBVIOUS
      <4>2. Head(queue) = queue[1] /\ 1 \in 1..Len(queue) /\ Sendable(Head(queue))
        BY <4>1, HeadCarriedOut
      <4>3. queue[1].by \in Arrivals /\ queue[1].awaited
        BY <3>3, <4>1, <4>2 DEF Sendable, DayOps, IInv, BriefDue, NoLateRequest
      <4>4. at[queue[1].by] = "call" /\ Active(queue[1].by)
        BY <4>2, <4>3, WaitingIsAwaited
      <4>5. queue[1].by = a
        BY <3>3, <4>3, <4>4 DEF IInv, OneActive
      <4> QED
        BY <3>2, <4>4, <4>5
    <3>5. dayOf' = dayOf
      BY <1>1 DEF Failed
    <3> QED
      BY <1>3, <1>4, <3>3, <3>4, <3>5 DEF IInv, BriefDue, NoLateRequest
  <2> QED
    BY <2>1 DEF BriefDue
<1> QED
  BY <1>1, <1>2, <1>3, <1>4, <1>5, <1>6, <1>7 DEF IInv

-----------------------------------------------------------------------------
(* The actions.                                                            *)

\* No process moves and no request is sent.
LEMMA IdleStep ==
    ASSUME IInv, Plain', UNCHANGED <<composing, at, dayOf, client>>
    PROVE  IInv'
<1>1. at' = at /\ composing' = composing /\ dayOf' = dayOf /\ host' = host /\ db' = db
      /\ queue' = queue
  BY DEF client
<1>2. Waiting' = Waiting
  BY <1>1 DEF Waiting
<1>3. OneActive' /\ TurnsOver' /\ RepliesSettle'
  BY <1>1 DEF IInv, OneActive, Active, TurnsOver, RepliesSettle
<1>4. BriefDue'
  BY <1>1 DEF IInv, BriefDue, Decided, NoLateRequest
<1> QED
  BY <1>1, <1>2, <1>3, <1>4 DEF IInv

LEMMA InitIInv == ASSUME Init PROVE IInv
<1>1. Plain
  <2>1. 1 \in Days /\ "absent" \in Registry
    BY MaxDayAssumption DEF Days, Registry
  <2> QED
    BY <2>1 DEF Init, Plain
<1>2. at \in [Procs -> Stages] /\ host = "none" /\ queue = <<>> /\ Len(queue) = 0
  BY EmptySeq DEF Init, Stages
<1>3. db \in Database
  BY DEF Init, Database, Registry
<1>4. Waiting = {}
  BY DEF Init, Waiting
<1>5. Ordered(queue, Waiting)
  BY <1>2, <1>4, EmptyIsOrdered
<1>6. OneActive /\ RepliesSettle /\ \A a \in Arrivals : at[a] = "idle"
  BY DEF Init, OneActive, Active, RepliesSettle, Procs
<1>7. TurnsOver /\ BriefDue
  BY <1>2, <1>6 DEF TurnsOver, BriefDue, Decided
<1> QED
  BY <1>1, <1>2, <1>3, <1>5, <1>6, <1>7 DEF IInv

\* An arrival is triggered, and takes the slot or goes.
LEMMA ArriveKeepsIInv ==
    ASSUME IInv, NEW a \in Arrivals, Trigger(a) \/ Arrive(a)
    PROVE  IInv'
<1>1. a \in Procs /\ Plain
  BY DEF Procs, IInv
<1>2. CASE Trigger(a)
  <2>1. Plain'
    BY <1>1, <1>2 DEF Plain, Trigger
  <2>2. /\ at[a] = "idle" /\ at' = [at EXCEPT ![a] = "prefs"] /\ "prefs" \in Stages
        /\ composing => composing'
        /\ dayOf' = dayOf /\ UNCHANGED client
    BY <1>2 DEF Trigger, Stages
  <2> QED
    BY <1>1, <2>1, <2>2, QuietStep
<1>3. CASE Arrive(a) /\ composing
  <2>1. Plain'
    BY <1>1, <1>3 DEF Plain, Arrive
  <2>2. /\ at[a] = "prefs" /\ at' = [at EXCEPT ![a] = "done"] /\ "done" \in Stages
        /\ composing => composing'
        /\ dayOf' = dayOf /\ UNCHANGED client
    BY <1>3 DEF Arrive, Stages
  <2> QED
    BY <1>1, <2>1, <2>2, QuietStep
<1>4. CASE Arrive(a) /\ ~composing
  <2>1. /\ at[a] = "prefs" /\ composing' = TRUE /\ dayOf' = [dayOf EXCEPT ![a] = day]
        /\ Ask(a, "lastBriefDay", None) /\ UNCHANGED <<day, seen, messages, aborted>>
    BY <1>4 DEF Arrive, SlotClaimed
  <2>2. Plain'
    BY <1>1, <2>1 DEF Plain
  <2>3. Sendable([by |-> a, op |-> "lastBriefDay", arg |-> None, awaited |-> TRUE])
    BY <1>1, PlainRequest DEF PlainOps, TurnOps
  <2>4. \A b \in Arrivals \ {a} : dayOf'[b] = dayOf[b]
    BY <1>1, <2>1 DEF Plain
  <2> QED
    BY <1>1, <1>4, <2>1, <2>2, <2>3, <2>4, AskStep
<1> QED
  BY <1>2, <1>3, <1>4

LEMMA DecideKeepsIInv == ASSUME IInv, NEW a \in Arrivals, Decide(a) PROVE IInv'
<1>1. /\ a \in Procs /\ Plain /\ Answered(a, "lastBriefDay")
      /\ UNCHANGED <<day, dayOf, seen, messages, aborted>>
  BY DEF Procs, IInv, Decide
<1>2. CASE LastBriefBefore(db, dayOf[a]) /\ composing' = TRUE /\ AsksNext(a, "readRegistry", None)
  <2>1. Plain'
    BY <1>1, <1>2 DEF Plain
  <2>2. Sendable([by |-> a, op |-> "readRegistry", arg |-> None, awaited |-> TRUE])
    BY <1>1, PlainRequest DEF PlainOps, TurnOps
  <2>3. dayOf[a] \notin db.briefs
    BY <1>1, <1>2 DEF LastBriefBefore, Plain, Days
  <2> QED
    BY <1>1, <1>2, <2>1, <2>2, <2>3, AnswerAskStep
<1>3. CASE composing' = FALSE /\ GoesTo(a, "done")
  <2>1. Plain'
    BY <1>1, <1>3 DEF Plain
  <2> QED
    BY <1>1, <1>3, <2>1, AnswerStep DEF Stages
<1> QED
  BY <1>2, <1>3 DEF Decide

\* The refresh of the portfolio, an arrival's or not.
LEMMA RefreshKeepsIInv ==
    ASSUME IInv, NEW p \in Procs, Merge(p) \/ Collected(p) \/ Refreshed(p)
    PROVE  IInv'
<1>1. Plain /\ UNCHANGED <<day, composing, dayOf, messages, aborted>>
  BY DEF IInv, Merge, Collected, Refreshed
<1>2. CASE Merge(p)
  <2>1. db.registry \in Registry /\ seen' \in [Procs -> Registry]
    BY <1>1, <1>2 DEF IInv, Database, Merge, Plain, Registry
  <2>2. Plain' /\ Answered(p, "readRegistry") /\ GoesTo(p, "collect")
    BY <1>1, <1>2, <2>1 DEF Plain, Merge
  <2> QED
    BY <1>1, <2>2, AnswerStep DEF Stages
<1>3. CASE Collected(p)
  <2>1. Plain' /\ at[p] = "collect" /\ Ask(p, "writeRegistry", seen[p])
    BY <1>1, <1>3 DEF Plain, Collected
  <2>2. Sendable([by |-> p, op |-> "writeRegistry", arg |-> seen[p], awaited |-> TRUE])
    BY <1>1, ChoiceRequest DEF Plain, ChoiceOps
  <2>3. Active(p) /\ Decided(p)
    BY <2>1 DEF Active, Decided
  <2> QED
    BY <1>1, <2>1, <2>2, <2>3, AskStep
<1>4. CASE Refreshed(p)
  <2>1. Plain' /\ Answered(p, "writeRegistry")
    BY <1>1, <1>4 DEF Plain, Refreshed
  <2>2. CASE p \in Arrivals /\ AsksNext(p, "readReports", dayOf[p])
    <3>1. Sendable([by |-> p, op |-> "readReports", arg |-> dayOf[p], awaited |-> TRUE])
      BY <1>1, <2>2, DayRequest DEF Plain, DayOps
    <3>2. queue # <<>> /\ Head(queue).by = p /\ Head(queue).op = "writeRegistry" /\ Head(queue).awaited
      BY <2>1 DEF Answered
    <3>3. Decided(p)
      BY <3>2, HeadCarriedOut DEF Decided
    <3>4. dayOf[p] \notin db.briefs
      BY <2>2, <3>3 DEF IInv, BriefDue
    <3> QED
      BY <1>1, <2>1, <2>2, <3>1, <3>4, AnswerAskStep
  <2>3. CASE GoesTo(p, "ready") \/ GoesTo(p, "done")
    BY <1>1, <2>1, <2>3, AnswerStep DEF Stages
  <2> QED
    BY <1>4, <2>2, <2>3 DEF Refreshed
<1> QED
  BY <1>2, <1>3, <1>4

\* The reports and the brief.
LEMMA DebriefKeepsIInv ==
    ASSUME IInv, NEW a \in Arrivals,
           \/ ReadReports(a) \/ StandUp(a) \/ SavedReports(a)
           \/ Composed(a) \/ RunFails(a) \/ SavedBrief(a)
    PROVE  IInv'
<1>1. /\ a \in Procs /\ Plain /\ Plain' /\ UNCHANGED <<day, dayOf, seen, messages, aborted>>
      /\ dayOf[a] \in Days
  BY DEF Procs, IInv, Plain, ReadReports, StandUp, SavedReports, Composed, RunFails, SavedBrief
<1>2. CASE ReadReports(a)
  <2>1. PICK stage \in {"compose", "standup"} : GoesTo(a, stage)
    BY <1>2 DEF ReadReports
  <2> QED
    BY <1>1, <1>2, <2>1, AnswerStep DEF ReadReports, Stages
<1>3. CASE StandUp(a)
  <2>1. Sendable([by |-> a, op |-> "saveReports", arg |-> dayOf[a], awaited |-> TRUE])
    BY <1>1, DayRequest DEF DayOps
  <2> QED
    BY <1>1, <1>3, <2>1, AskStep DEF StandUp, Active, Decided
<1>4. CASE SavedReports(a)
  BY <1>1, <1>4, AnswerStep DEF SavedReports, Stages
<1>5. CASE Composed(a)
  <2>1. Sendable([by |-> a, op |-> "saveBrief", arg |-> dayOf[a], awaited |-> TRUE])
    BY <1>1, DayRequest DEF DayOps
  <2> QED
    BY <1>1, <1>5, <2>1, AskStep DEF Composed, Active, Decided
<1>6. CASE RunFails(a)
  BY <1>1, <1>6, QuietStep DEF RunFails, Active, Stages
<1>7. CASE SavedBrief(a)
  BY <1>1, <1>7, AnswerStep DEF SavedBrief, Stages
<1> QED
  BY <1>2, <1>3, <1>4, <1>5, <1>6, <1>7

\* A call of the user is never an arrival.
LEMMA CallsAreNotArrivals == \A c \in Calls : c \in Procs /\ c \notin Arrivals
BY SortsAssumption DEF Procs

LEMMA SendKeepsIInv == ASSUME IInv, NEW c \in Calls, Send(c) \/ Cancel(c) PROVE IInv'
<1>1. /\ c \in Procs /\ c \notin Arrivals /\ Plain
      /\ UNCHANGED <<day, composing, dayOf, seen>>
  BY CallsAreNotArrivals DEF IInv, Send, Cancel
<1>2. Plain'
  BY <1>1 DEF Plain, Send, Cancel
<1>3. CASE Send(c) /\ Ask(c, "readRegistry", None)
  <2>1. Sendable([by |-> c, op |-> "readRegistry", arg |-> None, awaited |-> TRUE])
    BY <1>1, PlainRequest DEF PlainOps, TurnOps
  <2> QED
    BY <1>1, <1>2, <1>3, <2>1, AskStep DEF Send
<1>4. CASE Send(c) /\ at' = [at EXCEPT ![c] = "ready"] /\ UNCHANGED client
  <2>1. at[c] = "idle" /\ "ready" \in Stages /\ (composing => composing')
    BY <1>1, <1>4 DEF Send, Stages
  <2> QED
    BY <1>1, <1>2, <1>4, <2>1, QuietStep
<1>5. CASE Cancel(c)
  BY <1>1, <1>2, <1>5, IdleStep DEF Cancel
<1> QED
  BY <1>3, <1>4, <1>5 DEF Send

LEMMA TurnKeepsIInv == ASSUME IInv, NEW c \in Calls, ChatStep(c) PROVE IInv'
<1>1. /\ c \in Procs /\ c \notin Arrivals /\ Plain'
      /\ UNCHANGED <<day, composing, dayOf, seen, messages, aborted>>
  BY CallsAreNotArrivals DEF IInv, Plain, ChatStep, BeginTurn, Begun, ModelEnds, TurnEnded
<1>2. \A op \in TurnOps : Sendable([by |-> c, op |-> op, arg |-> None, awaited |-> TRUE])
  BY <1>1, PlainRequest DEF PlainOps, TurnOps
<1>3. CASE BeginTurn(c)
  BY <1>1, <1>2, <1>3, AskStep DEF BeginTurn, TurnOps
<1>4. CASE Begun(c)
  BY <1>1, <1>4, AnswerStep DEF Begun, Stages
<1>5. CASE ModelEnds(c)
  <2>1. PICK op \in TurnOps : Ask(c, op, None)
    BY <1>5 DEF ModelEnds, TurnOps
  <2>2. at[c] = "model"
    BY <1>5 DEF ModelEnds
  <2> QED
    BY <1>1, <1>2, <2>1, <2>2, AskStep
<1>6. CASE TurnEnded(c)
  <2>1. PICK op \in TurnOps, stage \in {"answered", "done"} :
            Answered(c, op) /\ GoesTo(c, stage) /\ (stage = "answered" => op = "completeTurn")
    BY <1>6 DEF TurnEnded, TurnOps
  <2> QED
    BY <1>1, <2>1, AnswerStep DEF Stages
<1> QED
  BY <1>3, <1>4, <1>5, <1>6 DEF ChatStep

LEMMA UserKeepsIInv ==
    ASSUME IInv, NEW c \in Calls, UserAsks(c) \/ UserAnswered(c)
    PROVE  IInv'
<1>1. /\ c \in Procs /\ c \notin Arrivals /\ Plain'
      /\ UNCHANGED <<day, composing, dayOf, seen, messages, aborted>>
  BY CallsAreNotArrivals DEF IInv, Plain, UserAsks, UserAnswered
<1>2. CASE UserAsks(c)
  <2>1. PICK op, arg : /\ Ask(c, op, arg)
                       /\ Sendable([by |-> c, op |-> op, arg |-> arg, awaited |-> TRUE])
    <3>1. CASE SetProjectEnabled(c)
      <4>1. PICK choice \in {"off", "on"} : Ask(c, "setEnabled", choice)
        BY <3>1 DEF SetProjectEnabled
      <4>2. Sendable([by |-> c, op |-> "setEnabled", arg |-> choice, awaited |-> TRUE])
        BY <1>1, ChoiceRequest DEF ChoiceOps, Registry
      <4> QED
        BY <4>1, <4>2
    <3>2. CASE ForgetProject(c)
      <4>1. Sendable([by |-> c, op |-> "forget", arg |-> None, awaited |-> TRUE])
        BY <1>1, PlainRequest DEF PlainOps, TurnOps
      <4> QED
        BY <3>2, <4>1 DEF ForgetProject
    <3>3. CASE ListProjects(c)
      <4>1. Sendable([by |-> c, op |-> "readRegistry", arg |-> None, awaited |-> TRUE])
        BY <1>1, PlainRequest DEF PlainOps, TurnOps
      <4> QED
        BY <3>3, <4>1 DEF ListProjects
    <3> QED
      BY <1>2, <3>1, <3>2, <3>3 DEF UserAsks
  <2>2. at[c] = "idle"
    BY <1>2 DEF UserAsks
  <2> QED
    BY <1>1, <2>1, <2>2, AskStep
<1>3. CASE UserAnswered(c)
  <2>1. PICK op \in {"setEnabled", "forget"} : Answered(c, op)
    BY <1>3 DEF UserAnswered
  <2>2. GoesTo(c, "done")
    BY <1>3 DEF UserAnswered
  <2> QED
    BY <1>1, <2>1, <2>2, AnswerStep DEF Stages
<1> QED
  BY <1>2, <1>3

LEMMA NextKeepsIInv == ASSUME IInv, [Next]_vars PROVE IInv'
<1>1. CASE NewDay
  <2>1. Plain'
    BY <1>1, MaxDayAssumption DEF IInv, Plain, NewDay, Days
  <2> QED
    BY <1>1, <2>1, IdleStep DEF NewDay
<1>2. CASE UNCHANGED vars
  <2>1. Plain'
    BY <1>2 DEF IInv, Plain, vars
  <2> QED
    BY <1>2, <2>1, IdleStep DEF vars
<1>3. ASSUME NEW p \in Procs, TimeOut(p) \/ Refused(p) \/ Merge(p) \/ Collected(p) \/ Refreshed(p)
      PROVE  IInv'
  BY <1>3, TimeOutStep, RefusedStep, RefreshKeepsIInv
<1>4. ASSUME NEW a \in Arrivals, Trigger(a) \/ ArrivalStep(a)
      PROVE  IInv'
  BY <1>4, ArriveKeepsIInv, DecideKeepsIInv, DebriefKeepsIInv DEF ArrivalStep
<1>5. ASSUME NEW c \in Calls, Send(c) \/ Cancel(c) \/ ChatStep(c) \/ UserAsks(c) \/ UserAnswered(c)
      PROVE  IInv'
  BY <1>5, SendKeepsIInv, TurnKeepsIInv, UserKeepsIInv
<1> QED
  BY <1>1, <1>2, <1>3, <1>4, <1>5, HostDiesStep, RunsLateStep DEF Next

LEMMA InvariantHolds == Spec => []IInv
BY InitIInv, NextKeepsIInv, PTL DEF Spec

-----------------------------------------------------------------------------
(* The theorems.                                                           *)

\* Every variable keeps its type, and a process waits for the database exactly
\* while a request of its own is awaited.
THEOREM TypeCorrect == Spec => []TypeOK
<1>1. ASSUME IInv PROVE TypeOK
  <2>1. DOMAIN queue = 1..Len(queue) /\ \A i \in 1..Len(queue) : IsRequest(queue[i])
    BY <1>1 DEF IInv, Ordered, Sendable
  <2>2. \A p \in Procs : at[p] = "call" <=> \E i \in DOMAIN queue : queue[i].by = p /\ queue[i].awaited
    BY <1>1, <2>1 DEF IInv, Ordered, Waiting
  <2>3. /\ db.briefs \subseteq Days /\ db.reports \subseteq Days /\ db.registry \in Registry
        /\ db.turn \in [Calls -> {"none", "pending", "settled", "unanswered", "discarded"}]
    BY <1>1 DEF IInv, Database
  <2>4. Plain /\ at \in [Procs -> Stages] /\ host \in {"none", "new", "open"}
    BY <1>1 DEF IInv
  <2> QED
    BY <2>1, <2>2, <2>3, <2>4 DEF TypeOK, Plain, Stages
<1> QED
  BY <1>1, InvariantHolds, PTL

\* A reply that was stored settles its question for good, whatever the database's
\* process does and however late it is.
THEOREM RepliesSafe == Spec => []RepliesSettle
<1>1. IInv => RepliesSettle
  BY DEF IInv
<1> QED
  BY <1>1, InvariantHolds, PTL

\* A run of the reporters or of the composer starts in two ways only.
LEMMA RunsStart ==
    ASSUME IInv, [Next]_vars, NEW a \in Arrivals, NEW stage \in {"standup", "compose"},
           Starts(a, stage)
    PROVE  \/ ReadReports(a) /\ (stage = "standup" => dayOf[a] \notin db.reports)
           \/ SavedReports(a) /\ stage = "compose"
<1>1. at[a] # stage /\ at'[a] = stage /\ a \in Procs /\ at \in [Procs -> Stages]
  BY DEF Starts, IInv, Procs
<1>2. \A p \in Procs : \A s : at' = [at EXCEPT ![p] = s] => p = a /\ s = stage
  BY <1>1
<1>3. ~(UNCHANGED at)
  BY <1>1
<1>4. \A failed : ~Failed(failed)
  BY <1>1 DEF Failed
<1>5. ASSUME NEW p \in Procs, TimeOut(p) \/ Refused(p) \/ Merge(p) \/ Collected(p) \/ Refreshed(p)
      PROVE  FALSE
  <2>1. ~TimeOut(p) /\ ~Refused(p)
    BY <1>4 DEF TimeOut, Refused
  <2>2. ~Merge(p)
    BY <1>2 DEF Merge, GoesTo
  <2>3. ~Collected(p)
    BY <1>2 DEF Collected, Ask
  <2>4. ~Refreshed(p)
    <3>1. ~GoesTo(p, "ready") /\ ~GoesTo(p, "done")
      <4>1. \A s : at' = [at EXCEPT ![p] = s] => s \notin {"ready", "done"}
        BY <1>2
      <4> QED
        BY <4>1 DEF GoesTo
    <3>2. ~AsksNext(p, "readReports", dayOf[p])
      BY <1>3 DEF AsksNext
    <3> QED
      BY <3>1, <3>2 DEF Refreshed
  <2> QED
    BY <1>5, <2>1, <2>2, <2>3, <2>4
<1>6. ASSUME NEW c \in Calls, Send(c) \/ Cancel(c) \/ ChatStep(c) \/ UserAsks(c) \/ UserAnswered(c)
      PROVE  FALSE
  BY <1>2, <1>3, <1>6, CallsAreNotArrivals
     DEF Send, Cancel, ChatStep, BeginTurn, Begun, ModelEnds, TurnEnded, UserAsks, UserAnswered,
         GoesTo, Ask, SetProjectEnabled, ForgetProject, ListProjects
<1>7. ASSUME NewDay \/ HostDies \/ RunsLate \/ UNCHANGED vars
      PROVE  FALSE
  BY <1>3, <1>4, <1>7 DEF NewDay, HostDies, RunsLate, vars
<1>8. ASSUME NEW b \in Arrivals, Trigger(b) \/ ArrivalStep(b)
      PROVE  ReadReports(b) \/ SavedReports(b)
  <2>1. b \in Procs
    BY DEF Procs
  <2> QED
    BY <1>2, <1>3, <1>8, <2>1
       DEF Trigger, ArrivalStep, Arrive, Decide, StandUp, Composed, RunFails, SavedBrief,
           GoesTo, AsksNext, Ask
<1>9. PICK b \in Arrivals : ReadReports(b) \/ SavedReports(b)
  BY <1>5, <1>6, <1>7, <1>8 DEF Next
<1>10. b \in Procs
  BY DEF Procs
<1>11. CASE ReadReports(b)
  <2>1. at' = [at EXCEPT ![b] = IF dayOf[b] \in db.reports THEN "compose" ELSE "standup"]
    BY <1>11 DEF ReadReports, GoesTo
  <2>2. b = a /\ stage = IF dayOf[b] \in db.reports THEN "compose" ELSE "standup"
    BY <1>2, <1>10, <2>1
  <2> QED
    BY <1>11, <2>2
<1>12. CASE SavedReports(b)
  BY <1>2, <1>10, <1>12 DEF SavedReports, GoesTo
<1> QED
  BY <1>9, <1>11, <1>12

\* A day's reports and its brief are paid for once, whatever calls time out, fail or
\* are carried out after the arrival that made them gave up.
THEOREM SpentSafe == Spec => SpentOnce
<1> DEFINE Once(a) ==
         /\ Starts(a, "standup") => dayOf[a] \notin db.reports /\ ~Underway("saveReports", dayOf[a])
         /\ Starts(a, "compose") => dayOf[a] \notin db.briefs /\ ~Underway("saveBrief", dayOf[a])
         /\ Starts(a, "standup") \/ Starts(a, "compose") =>
               \A b \in Arrivals \ {a} : at[b] \notin {"standup", "compose"}
<1>1. ASSUME IInv, [Next]_vars, NEW a \in Arrivals, NEW stage \in {"standup", "compose"},
             Starts(a, stage)
      PROVE  /\ stage = "standup" => dayOf[a] \notin db.reports /\ ~Underway("saveReports", dayOf[a])
             /\ stage = "compose" => dayOf[a] \notin db.briefs /\ ~Underway("saveBrief", dayOf[a])
             /\ \A b \in Arrivals \ {a} : at[b] \notin {"standup", "compose"}
  <2>1. \/ ReadReports(a) /\ (stage = "standup" => dayOf[a] \notin db.reports)
        \/ SavedReports(a) /\ stage = "compose"
    BY <1>1, RunsStart
  <2>2. PICK op \in {"readReports", "saveReports"} :
            /\ queue # <<>> /\ Head(queue).by = a /\ Head(queue).op = op /\ Head(queue).awaited
            /\ stage = "standup" => op = "readReports" /\ dayOf[a] \notin db.reports
    BY <2>1 DEF ReadReports, SavedReports, Answered
  <2>3. Head(queue) = queue[1] /\ 1 \in 1..Len(queue)
    BY <1>1, <2>2, HeadCarriedOut
  <2>4. Active(a) /\ Decided(a)
    BY <1>1, <2>2, <2>3, WaitingIsAwaited DEF Decided
  <2>5. \A i \in 1..Len(queue) : queue[i].by \in Arrivals => i = 1
    BY <1>1, <2>2, ArrivalsAreLast
  <2>6. \A i \in 1..Len(queue) : queue[i].op \in DayOps => queue[i].op = op
    BY <1>1, <2>2, <2>3, <2>5, WaitingIsAwaited DEF Sendable
  <2>7. DOMAIN queue = 1..Len(queue)
    BY <1>1 DEF IInv, Ordered
  <2>8. stage = "standup" => ~Underway("saveReports", dayOf[a])
    BY <2>2, <2>6, <2>7 DEF Underway, DayOps
  <2>9. ~Underway("saveBrief", dayOf[a])
    BY <2>2, <2>6, <2>7 DEF Underway, DayOps
  <2>10. dayOf[a] \notin db.briefs
    BY <1>1, <2>4 DEF IInv, BriefDue
  <2>11. \A b \in Arrivals \ {a} : at[b] \notin {"standup", "compose"}
    BY <1>1, <2>4 DEF IInv, OneActive, Active
  <2> QED
    BY <2>2, <2>8, <2>9, <2>10, <2>11
<1>2. IInv /\ [Next]_vars => [\A a \in Arrivals : Once(a)]_vars
  BY <1>1
<1>3. SpentOnce <=> [][\A a \in Arrivals : Once(a)]_vars
  BY DEF SpentOnce
<1> QED
  BY <1>2, <1>3, InvariantHolds, PTL DEF Spec

-----------------------------------------------------------------------------
(* The slot of the debrief is freed again.                                 *)

\* The way of an arrival from its claim of the slot to its end: the calls it waits
\* for, each by its operation, and the places it is at between them.
Course == <<"lastBriefDay", "readRegistry", "collect", "writeRegistry", "readReports",
            "standup", "saveReports", "compose", "saveBrief">>
Places == {"collect", "standup", "compose"}

Awaits(a, op) ==
    \E i \in 1..Len(queue) : queue[i].by = a /\ queue[i].awaited /\ queue[i].op = op
Passes(a, n) == (at[a] \in Places /\ at[a] = Course[n]) \/ Awaits(a, Course[n])
Reached(a, n) == \E m \in n..9 : Passes(a, m)

\* The slot is taken only for an arrival that is on its way.
Claimed == composing => \E a \in Arrivals : Reached(a, 1)

LEMMA Stations ==
    /\ Course[1] = "lastBriefDay" /\ Course[2] = "readRegistry" /\ Course[3] = "collect"
    /\ Course[4] = "writeRegistry" /\ Course[5] = "readReports" /\ Course[6] = "standup"
    /\ Course[7] = "saveReports" /\ Course[8] = "compose" /\ Course[9] = "saveBrief"
BY DEF Course

\* An arrival waits for one request, and is nowhere else meanwhile.
LEMMA OneStation ==
    ASSUME IInv, NEW a \in Arrivals, NEW n \in 1..9, Passes(a, n)
    PROVE  /\ a \in Procs /\ Active(a)
           /\ (at[a] = "call" /\ Awaits(a, Course[n])) \/ (at[a] \in Places /\ at[a] = Course[n])
           /\ \A op : Awaits(a, op) => at[a] = "call" /\ Course[n] = op
<1>1. a \in Procs
  BY DEF Procs
<1>2. ASSUME NEW op, Awaits(a, op) PROVE at[a] = "call" /\ Course[n] = op
  <2>1. PICK i \in 1..Len(queue) : queue[i].by = a /\ queue[i].awaited /\ queue[i].op = op
    BY <1>2 DEF Awaits
  <2>2. at[a] = "call"
    BY <2>1, WaitingIsAwaited
  <2>3. PICK j \in 1..Len(queue) : queue[j].by = a /\ queue[j].awaited /\ queue[j].op = Course[n]
    BY <2>2 DEF Passes, Awaits, Places
  <2>4. i = j
    BY <2>1, <2>3 DEF IInv, Ordered
  <2> QED
    BY <2>1, <2>2, <2>3, <2>4
<1>3. Awaits(a, Course[n]) => at[a] = "call"
  BY <1>2
<1> QED
  BY <1>1, <1>2, <1>3 DEF Passes, Places, Active

\* The request at the head, answered, was the one its arrival waited for.
LEMMA AnsweredAwaits ==
    ASSUME IInv, NEW a, NEW op, Answered(a, op)
    PROVE  Awaits(a, op)
BY HeadCarriedOut DEF Answered, Awaits

\* A request stays in the queue while it is not answered or given up.
LEMMA RequestStays ==
    ASSUME IInv, NEW a \in Procs, NEW op, Awaits(a, op),
           \/ queue' = queue
           \/ \E p \in Procs : \E f, arg : queue' = queue \o Message(p, f, arg)
           \/ queue # <<>> /\ ~(Head(queue).by = a /\ Head(queue).awaited) /\ queue' = Tail(queue)
           \/ /\ queue # <<>> /\ ~(Head(queue).by = a /\ Head(queue).awaited)
              /\ \E p \in Procs : \E f, arg : queue' = Tail(queue) \o Message(p, f, arg)
           \/ \E k \in 1..Len(queue) : /\ queue[k].by # a /\ queue[k].awaited
                                       /\ queue' = [queue EXCEPT ![k].awaited = FALSE]
    PROVE  Awaits(a, op)'
<1>1. PICK i \in 1..Len(queue) : queue[i].by = a /\ queue[i].awaited /\ queue[i].op = op
  BY DEF Awaits
<1>2. queue \in Seq(Request) /\ Len(queue) \in Nat
  BY DEF IInv, Ordered
<1>3. CASE queue' = queue
  BY <1>1, <1>3 DEF Awaits
<1>4. ASSUME NEW q, NEW r, Len(q) \in Nat, queue' = q \o <<r>>, q \in Seq(Request),
             NEW k \in 1..Len(q), q[k] = queue[i]
      PROVE  Awaits(a, op)'
  <2>1. Len(queue') = Len(q) + 1 /\ queue'[k] = q[k]
    BY <1>4, ConcatProperties
  <2> QED
    BY <1>1, <1>4, <2>1 DEF Awaits
<1>5. ASSUME NEW p \in Procs, NEW f, NEW arg, queue' = queue \o Message(p, f, arg)
      PROVE  Awaits(a, op)'
  BY <1>2, <1>4, <1>5 DEF Message
<1>6. ASSUME queue # <<>>, ~(Head(queue).by = a /\ Head(queue).awaited)
      PROVE  /\ i - 1 \in 1..Len(Tail(queue)) /\ Tail(queue)[i - 1] = queue[i]
             /\ Tail(queue) \in Seq(Request) /\ Len(Tail(queue)) \in Nat
  <2>1. /\ Head(queue) = queue[1] /\ 1 \in 1..Len(queue)
        /\ Len(Tail(queue)) = Len(queue) - 1
        /\ \A j \in 1..Len(Tail(queue)) : Tail(queue)[j] = queue[j + 1]
        /\ Tail(queue) \in Seq(Request)
    BY <1>6, TailIsOrdered, HeadCarriedOut DEF IInv, Ordered
  <2>2. i # 1
    BY <1>1, <1>6, <2>1
  <2> QED
    BY <1>2, <2>1, <2>2
<1>7. ASSUME queue # <<>>, ~(Head(queue).by = a /\ Head(queue).awaited), queue' = Tail(queue)
      PROVE  Awaits(a, op)'
  BY <1>1, <1>6, <1>7 DEF Awaits
<1>8. ASSUME queue # <<>>, ~(Head(queue).by = a /\ Head(queue).awaited),
             NEW p \in Procs, NEW f, NEW arg, queue' = Tail(queue) \o Message(p, f, arg)
      PROVE  Awaits(a, op)'
  <2>1. /\ i - 1 \in 1..Len(Tail(queue)) /\ Tail(queue)[i - 1] = queue[i]
        /\ Tail(queue) \in Seq(Request) /\ Len(Tail(queue)) \in Nat
    BY <1>6, <1>8
  <2> QED
    BY <1>4, <1>8, <2>1 DEF Message
<1>9. ASSUME NEW k \in 1..Len(queue), queue[k].by # a, queue[k].awaited,
             queue' = [queue EXCEPT ![k].awaited = FALSE]
      PROVE  Awaits(a, op)'
  <2>1. /\ Len(queue') = Len(queue)
        /\ queue'[i].by = queue[i].by /\ queue'[i].op = queue[i].op
        /\ queue'[i].awaited <=> queue[i].awaited /\ i # k
    BY <1>9, UnawaitedIsOrdered DEF IInv
  <2>2. i # k
    BY <1>1, <1>9
  <2>3. queue'[i].awaited
    BY <1>1, <2>1, <2>2
  <2> QED
    BY <1>1, <2>1, <2>3 DEF Awaits
<1> QED
  BY <1>3, <1>5, <1>7, <1>8, <1>9

\* What others do leaves an arrival where it is, unless its host dies.
LEMMA OthersLeaveIt ==
    ASSUME IInv, NEW a \in Arrivals, NEW n \in 1..9, Passes(a, n), NEW p \in Procs,
           p # a \/ RunsLate,
           \/ \E f, arg : Ask(p, f, arg)
           \/ \E f, stage : Answered(p, f) /\ GoesTo(p, stage)
           \/ \E f, g, arg : Answered(p, f) /\ AsksNext(p, g, arg)
           \/ \E stage : at' = [at EXCEPT ![p] = stage] /\ queue' = queue
           \/ at' = at /\ queue' = queue
           \/ TimeOut(p) \/ Refused(p)
           \/ RunsLate
    PROVE  Passes(a, n)'
<1>1. a \in Procs /\ at \in [Procs -> Stages]
  BY DEF Procs, IInv
<1>2. ASSUME p # a, Failed({p}) PROVE at'[a] = at[a]
  BY <1>1, <1>2 DEF Failed
<1>3. at'[a] = at[a]
  <2>1. ASSUME p # a, NEW stage, at' = [at EXCEPT ![p] = stage] PROVE at'[a] = at[a]
    BY <1>1, <2>1
  <2> QED
    BY <1>2, <2>1 DEF Ask, GoesTo, AsksNext, TimeOut, Refused, RunsLate
<1>4. \/ queue' = queue
      \/ \E q \in Procs : \E f, arg : queue' = queue \o Message(q, f, arg)
      \/ queue # <<>> /\ ~(Head(queue).by = a /\ Head(queue).awaited) /\ queue' = Tail(queue)
      \/ /\ queue # <<>> /\ ~(Head(queue).by = a /\ Head(queue).awaited)
         /\ \E q \in Procs : \E f, arg : queue' = Tail(queue) \o Message(q, f, arg)
      \/ \E k \in 1..Len(queue) : /\ queue[k].by # a /\ queue[k].awaited
                                  /\ queue' = [queue EXCEPT ![k].awaited = FALSE]
  <2>1. CASE p # a /\ (\E f, arg : Ask(p, f, arg))
    BY <2>1 DEF Ask
  <2>2. CASE p # a /\ (\E f, stage : Answered(p, f) /\ GoesTo(p, stage))
    BY <2>2 DEF Answered, GoesTo
  <2>3. CASE p # a /\ (\E f, g, arg : Answered(p, f) /\ AsksNext(p, g, arg))
    BY <2>3 DEF Answered, AsksNext
  <2>4. CASE queue' = queue
    BY <2>4
  <2>5. CASE p # a /\ TimeOut(p)
    <3>1. DOMAIN queue = 1..Len(queue)
      BY DEF IInv, Ordered
    <3> QED
      BY <2>5, <3>1 DEF TimeOut
  <2>6. CASE p # a /\ Refused(p)
    BY <2>6 DEF Refused
  <2>7. CASE RunsLate
    BY <2>7 DEF RunsLate
  <2> QED
    BY <2>1, <2>2, <2>3, <2>4, <2>5, <2>6, <2>7
<1>5. Awaits(a, Course[n]) => Awaits(a, Course[n])'
  BY <1>1, <1>4, RequestStays
<1> QED
  BY <1>3, <1>5 DEF Passes

\* A request just sent is awaited.
LEMMA SentIsAwaited ==
    ASSUME NEW a \in Procs, NEW op, NEW arg, NEW q \in Seq(Request),
           queue' = q \o Message(a, op, arg)
    PROVE  Awaits(a, op)'
<1> DEFINE r == [by |-> a, op |-> op, arg |-> arg, awaited |-> TRUE]
<1>1. r.by = a /\ r.op = op /\ r.awaited /\ queue' = q \o <<r>> /\ Len(q) \in Nat
  BY DEF Message
<1> HIDE DEF r
<1>2. Len(queue') = Len(q) + 1 /\ queue'[Len(q) + 1] = r
  BY <1>1
<1> QED
  BY <1>1, <1>2 DEF Awaits

\* What an arrival does itself takes it further, or frees the slot.
LEMMA ItGoesOn ==
    ASSUME IInv, NEW a \in Arrivals, NEW n \in 1..9, Passes(a, n),
           \/ TimeOut(a) \/ Refused(a) \/ Merge(a) \/ Collected(a) \/ Refreshed(a)
           \/ Trigger(a) \/ ArrivalStep(a)
    PROVE  Reached(a, n + 1)' \/ ~composing'
<1>1. /\ a \in Procs /\ a \notin Calls /\ at \in [Procs -> Stages] /\ Active(a)
      /\ queue \in Seq(Request)
  BY OneStation, SortsAssumption DEF IInv, Ordered
<1>2. ASSUME NEW op, Answered(a, op)
      PROVE  Course[n] = op /\ Tail(queue) \in Seq(Request)
  <2>1. Awaits(a, op) /\ queue # <<>>
    BY <1>2, AnsweredAwaits DEF Answered
  <2> QED
    BY <2>1, OneStation, HeadCarriedOut DEF Ordered
<1>3. at[a] \in Places => at[a] = Course[n]
  BY OneStation DEF Places
<1>4. ASSUME NEW stage \in Places, GoesTo(a, stage), NEW m \in n + 1..9, Course[m] = stage
      PROVE  Reached(a, n + 1)'
  <2>1. at'[a] = stage
    BY <1>1, <1>4 DEF GoesTo
  <2>2. Passes(a, m)'
    BY <1>4, <2>1 DEF Passes
  <2> QED
    BY <2>2 DEF Reached
<1>5. ASSUME NEW op, NEW arg, NEW q \in Seq(Request), queue' = q \o Message(a, op, arg),
             NEW m \in n + 1..9, Course[m] = op
      PROVE  Reached(a, n + 1)'
  <2>1. Awaits(a, op)'
    BY <1>1, <1>5, SentIsAwaited
  <2>2. Passes(a, m)'
    BY <1>5, <2>1 DEF Passes, Awaits
  <2> QED
    BY <2>2 DEF Reached
<1>6. CASE TimeOut(a) \/ Refused(a)
  BY <1>6 DEF TimeOut, Refused, Failed, Freed
<1>7. CASE Merge(a)
  <2>1. n = 2 /\ Course[3] = "collect" /\ GoesTo(a, "collect")
    BY <1>2, <1>7, Stations DEF Merge
  <2> QED
    BY <1>4, <2>1 DEF Places
<1>8. CASE Collected(a)
  <2>1. 4 \in n + 1..9 /\ Course[4] = "writeRegistry" /\ queue' = queue \o Message(a, "writeRegistry", seen[a])
    BY <1>3, <1>8, Stations DEF Collected, Ask, Places
  <2> QED
    BY <1>1, <1>5, <2>1
<1>9. CASE Refreshed(a)
  <2>1. 5 \in n + 1..9 /\ Course[5] = "readReports" /\ Tail(queue) \in Seq(Request)
    BY <1>2, <1>9, Stations DEF Refreshed
  <2>2. queue' = Tail(queue) \o Message(a, "readReports", dayOf[a])
    BY <1>1, <1>9 DEF Refreshed, AsksNext, IInv, Plain
  <2> QED
    BY <1>5, <2>1, <2>2
<1>10. CASE Trigger(a) \/ Arrive(a)
  BY <1>1, <1>10 DEF Trigger, Arrive, Active
<1>11. CASE Decide(a)
  <2>1. 2 \in n + 1..9 /\ Course[2] = "readRegistry" /\ Tail(queue) \in Seq(Request)
    BY <1>2, <1>11, Stations DEF Decide
  <2>2. ~composing' \/ queue' = Tail(queue) \o Message(a, "readRegistry", None)
    BY <1>11 DEF Decide, AsksNext
  <2> QED
    BY <1>5, <2>1, <2>2
<1>12. CASE ReadReports(a)
  <2>1. n = 5 /\ Course[6] = "standup" /\ Course[8] = "compose"
    BY <1>2, <1>12, Stations DEF ReadReports
  <2>2. GoesTo(a, "standup") \/ GoesTo(a, "compose")
    BY <1>12 DEF ReadReports
  <2> QED
    BY <1>4, <2>1, <2>2 DEF Places
<1>13. CASE StandUp(a)
  <2>1. 7 \in n + 1..9 /\ Course[7] = "saveReports" /\ queue' = queue \o Message(a, "saveReports", dayOf[a])
    BY <1>3, <1>13, Stations DEF StandUp, Ask, Places
  <2> QED
    BY <1>1, <1>5, <2>1
<1>14. CASE SavedReports(a)
  <2>1. n = 7 /\ Course[8] = "compose" /\ GoesTo(a, "compose")
    BY <1>2, <1>14, Stations DEF SavedReports
  <2> QED
    BY <1>4, <2>1 DEF Places
<1>15. CASE Composed(a)
  <2>1. 9 \in n + 1..9 /\ Course[9] = "saveBrief" /\ queue' = queue \o Message(a, "saveBrief", dayOf[a])
    BY <1>3, <1>15, Stations DEF Composed, Ask, Places
  <2> QED
    BY <1>1, <1>5, <2>1
<1>16. CASE RunFails(a) \/ SavedBrief(a)
  BY <1>16 DEF RunFails, SavedBrief
<1> QED
  BY <1>6, <1>7, <1>8, <1>9, <1>10, <1>11, <1>12, <1>13, <1>14, <1>15, <1>16 DEF ArrivalStep

\* At any step an arrival stays where it is, goes further, or frees the slot.
LEMMA ArrivalsStep ==
    ASSUME IInv, NEW a \in Arrivals, NEW n \in 1..9, Passes(a, n), [Next]_vars
    PROVE  Reached(a, n)' \/ ~composing'
<1> SUFFICES Passes(a, n)' \/ Reached(a, n + 1)' \/ ~composing'
  BY DEF Reached
<1>1. /\ a \in Procs
      /\ \A b \in Arrivals : b \in Procs
      /\ \A c \in Calls : c \in Procs /\ c # a
  BY CallsAreNotArrivals DEF Procs
<1>2. CASE NewDay \/ UNCHANGED vars
  BY <1>2 DEF NewDay, vars, client, Passes, Awaits
<1>3. CASE HostDies
  <2>1. Awaits(a, Course[n]) => ~composing'
    BY <1>1, <1>3, OneStation DEF HostDies, Failed, Freed
  <2>2. at[a] \in Places => at'[a] = at[a]
    BY <1>1, <1>3 DEF HostDies, Failed, Places
  <2> QED
    BY <2>1, <2>2 DEF Passes
<1>4. CASE RunsLate
  BY <1>1, <1>4, OthersLeaveIt
<1>5. ASSUME NEW p \in Procs, p # a,
             TimeOut(p) \/ Refused(p) \/ Merge(p) \/ Collected(p) \/ Refreshed(p)
      PROVE  Passes(a, n)'
  <2>1. CASE TimeOut(p) \/ Refused(p)
    BY <1>5, <2>1, OthersLeaveIt
  <2>2. CASE Merge(p)
    <3>1. Answered(p, "readRegistry") /\ GoesTo(p, "collect")
      BY <2>2 DEF Merge
    <3> QED
      BY <1>5, <3>1, OthersLeaveIt
  <2>3. CASE Collected(p)
    <3>1. Ask(p, "writeRegistry", seen[p])
      BY <2>3 DEF Collected
    <3> QED
      BY <1>5, <3>1, OthersLeaveIt
  <2>4. CASE Refreshed(p)
    <3>1. /\ Answered(p, "writeRegistry")
          /\ AsksNext(p, "readReports", dayOf[p]) \/ GoesTo(p, "ready") \/ GoesTo(p, "done")
      BY <2>4 DEF Refreshed
    <3> QED
      BY <1>5, <3>1, OthersLeaveIt
  <2> QED
    BY <1>5, <2>1, <2>2, <2>3, <2>4
<1>6. ASSUME NEW b \in Arrivals, b # a, Trigger(b) \/ ArrivalStep(b)
      PROVE  Passes(a, n)'
  <2> DEFINE Kind ==
        \/ \E f, arg : Ask(b, f, arg)
        \/ \E f, stage : Answered(b, f) /\ GoesTo(b, stage)
        \/ \E f, g, arg : Answered(b, f) /\ AsksNext(b, g, arg)
        \/ \E stage : at' = [at EXCEPT ![b] = stage] /\ queue' = queue
  <2>1. ASSUME Trigger(b) \/ RunFails(b) PROVE Kind
    BY <2>1 DEF Trigger, RunFails, client
  <2>2. ASSUME Arrive(b) PROVE Kind
    BY <2>2 DEF Arrive, client
  <2>3. ASSUME Decide(b) PROVE Kind
    BY <2>3 DEF Decide
  <2>4. ASSUME ReadReports(b) PROVE Kind
    BY <2>4 DEF ReadReports
  <2>5. ASSUME StandUp(b) \/ Composed(b) PROVE Kind
    BY <2>5 DEF StandUp, Composed
  <2>6. ASSUME SavedReports(b) \/ SavedBrief(b) PROVE Kind
    BY <2>6 DEF SavedReports, SavedBrief
  <2>7. Kind
    BY <1>6, <2>1, <2>2, <2>3, <2>4, <2>5, <2>6 DEF ArrivalStep
  <2> QED
    BY <1>1, <1>6, <2>7, OthersLeaveIt
<1>7. ASSUME NEW c \in Calls, Send(c) \/ Cancel(c) \/ ChatStep(c) \/ UserAsks(c) \/ UserAnswered(c)
      PROVE  Passes(a, n)'
  <2> DEFINE Kind ==
        \/ \E f, arg : Ask(c, f, arg)
        \/ \E f, stage : Answered(c, f) /\ GoesTo(c, stage)
        \/ \E stage : at' = [at EXCEPT ![c] = stage] /\ queue' = queue
        \/ at' = at /\ queue' = queue
  <2>1. ASSUME Send(c) \/ Cancel(c) PROVE Kind
    BY <2>1 DEF Send, Cancel, client
  <2>2. ASSUME BeginTurn(c) \/ ModelEnds(c) PROVE Kind
    BY <2>2 DEF BeginTurn, ModelEnds
  <2>3. ASSUME Begun(c) \/ TurnEnded(c) \/ UserAnswered(c) PROVE Kind
    BY <2>3 DEF Begun, TurnEnded, UserAnswered
  <2>4. ASSUME UserAsks(c) PROVE Kind
    BY <2>4 DEF UserAsks, SetProjectEnabled, ForgetProject, ListProjects
  <2>5. Kind
    BY <1>7, <2>1, <2>2, <2>3, <2>4 DEF ChatStep
  <2> QED
    BY <1>1, <1>7, <2>5, OthersLeaveIt
<1> QED
  BY <1>2, <1>3, <1>4, <1>5, <1>6, <1>7, ItGoesOn DEF Next

LEMMA ClaimedStep == ASSUME IInv, Claimed, [Next]_vars PROVE Claimed'
<1>1. ASSUME composing PROVE Claimed'
  <2>1. PICK a \in Arrivals, n \in 1..9 : Passes(a, n)
    BY <1>1 DEF Claimed, Reached
  <2>2. Reached(a, n)' \/ ~composing'
    BY <2>1, ArrivalsStep
  <2>3. \A m \in n..9 : m \in 1..9
    BY <2>1
  <2> QED
    BY <2>2, <2>3 DEF Claimed, Reached
<1>2. ASSUME ~composing PROVE Claimed'
  <2>1. \A a \in Arrivals : ~Active(a) /\ a \in Procs
    BY <1>2 DEF IInv, OneActive, Procs
  <2>2. ASSUME NEW a \in Arrivals, Arrive(a) PROVE Claimed'
    <3>1. a \in Procs /\ queue \in Seq(Request)
      BY <2>1 DEF IInv, Ordered
    <3>2. queue' = queue \o Message(a, "lastBriefDay", None)
      BY <1>2, <2>2 DEF Arrive, Ask
    <3>3. Awaits(a, "lastBriefDay")'
      BY <3>1, <3>2, SentIsAwaited
    <3>4. Passes(a, 1)'
      BY <3>3, Stations DEF Passes, Awaits
    <3> QED
      BY <3>4 DEF Claimed, Reached
  <2>3. ASSUME NEW a \in Arrivals, Decide(a) PROVE FALSE
    <3>1. Awaits(a, "lastBriefDay")
      BY <2>3, AnsweredAwaits DEF Decide
    <3>2. Active(a)
      BY <3>1, WaitingIsAwaited DEF Awaits
    <3> QED
      BY <2>1, <3>2
  <2>4. ASSUME NEW a \in Arrivals, Trigger(a) \/ ArrivalStep(a) PROVE ~composing' \/ Claimed'
    BY <1>2, <2>2, <2>3, <2>4
       DEF ArrivalStep, Trigger, ReadReports, StandUp, SavedReports, Composed, RunFails, SavedBrief
  <2>5. ASSUME NEW p \in Procs, TimeOut(p) \/ Refused(p) \/ Merge(p) \/ Collected(p) \/ Refreshed(p)
        PROVE  ~composing'
    BY <1>2, <2>5 DEF TimeOut, Refused, Failed, Freed, Merge, Collected, Refreshed
  <2>6. ASSUME NEW c \in Calls, Send(c) \/ Cancel(c) \/ ChatStep(c) \/ UserAsks(c) \/ UserAnswered(c)
        PROVE  ~composing'
    BY <1>2, <2>6
       DEF Send, Cancel, ChatStep, BeginTurn, Begun, ModelEnds, TurnEnded, UserAsks, UserAnswered
  <2>7. ASSUME NewDay \/ HostDies \/ RunsLate \/ UNCHANGED vars PROVE ~composing'
    BY <1>2, <2>7 DEF NewDay, HostDies, Failed, Freed, RunsLate, vars
  <2> QED
    BY <2>4, <2>5, <2>6, <2>7 DEF Next, Claimed
<1> QED
  BY <1>1, <1>2

LEMMA SlotIsClaimed == Spec => []Claimed
<1>1. Init => Claimed
  BY DEF Init, Claimed
<1> QED
  BY <1>1, ClaimedStep, InvariantHolds, PTL DEF Spec

-----------------------------------------------------------------------------
(* What an arrival does with nobody's help.                                *)

Onward(a) == TimeOut(a) \/ Arrive(a) \/ Collected(a) \/ StandUp(a) \/ Composed(a) \/ RunFails(a)
FairArrival(a) == WF_vars(Onward(a))
ArrivalsFair == \A a \in Arrivals : FairArrival(a)

\* The timer of a call can fire while its answer is awaited, and what an arrival does
\* between two calls ends.
CanGoOn(a) == at[a] \in Places \cup {"call"} => ENABLED <<Onward(a)>>_vars
ArrivalsGoOn == \A a \in Arrivals : CanGoOn(a)

LEMMA StaysFair == Fairness => []ArrivalsFair
<1>1. Fairness => ArrivalsFair
  BY PTL DEF Fairness, ArrivalsFair, FairArrival, Onward
<1>2. ASSUME NEW a \in Arrivals PROVE FairArrival(a) => []FairArrival(a)
  BY PTL DEF FairArrival
<1>3. ArrivalsFair => \A a \in Arrivals : []FairArrival(a)
  BY <1>2 DEF ArrivalsFair
<1>4. (\A a \in Arrivals : []FairArrival(a)) => []ArrivalsFair
  BY DEF ArrivalsFair
<1> QED
  BY <1>1, <1>3, <1>4, PTL

GoesFurther(a, n) == Passes(a, n) ~> Reached(a, n + 1) \/ ~composing
Ends(a, n) == Reached(a, n) ~> ~composing

\* An arrival leaves every station of its way.
LEMMA LeavesStation ==
    ASSUME NEW a \in Arrivals, NEW n \in 1..9
    PROVE  []IInv /\ [][Next]_vars /\ FairArrival(a) /\ []CanGoOn(a) => GoesFurther(a, n)
<1>1. IInv /\ Passes(a, n) /\ [Next]_vars => Passes(a, n)' \/ Reached(a, n + 1)' \/ ~composing'
  <2>1. Reached(a, n)' => Passes(a, n)' \/ Reached(a, n + 1)'
    BY DEF Reached
  <2> QED
    BY <2>1, ArrivalsStep
<1>2. IInv /\ Passes(a, n) /\ <<Onward(a)>>_vars => Reached(a, n + 1)' \/ ~composing'
  BY ItGoesOn DEF Onward, ArrivalStep
<1>3. IInv /\ Passes(a, n) /\ CanGoOn(a) => ENABLED <<Onward(a)>>_vars
  BY OneStation DEF CanGoOn
<1> QED
  BY <1>1, <1>2, <1>3, PTL DEF FairArrival, GoesFurther

LEMMA ArrivalEnds ==
    ASSUME NEW a \in Arrivals
    PROVE  []IInv /\ [][Next]_vars /\ FairArrival(a) /\ []CanGoOn(a) => Ends(a, 1)
<1> DEFINE Assumed == []IInv /\ [][Next]_vars /\ FairArrival(a) /\ []CanGoOn(a)
<1>1. ASSUME NEW n \in 1..9 PROVE Assumed /\ Ends(a, n + 1) => Ends(a, n)
  <2>1. Reached(a, n) => Passes(a, n) \/ Reached(a, n + 1)
    BY DEF Reached
  <2>2. Assumed => GoesFurther(a, n)
    BY LeavesStation
  <2> QED
    BY <2>1, <2>2, PTL DEF GoesFurther, Ends
<1>2. Assumed => Ends(a, 10)
  <2>1. ~Reached(a, 10)
    BY DEF Reached
  <2> QED
    BY <2>1, PTL DEF Ends
<1>3. \A n \in 1..9, m \in 2..10 : m = n + 1 /\ Assumed /\ Ends(a, m) => Ends(a, n)
  BY <1>1
<1> HIDE DEF Assumed
<1>4. Assumed => Ends(a, 9)
  <2>1. 9 \in 1..9 /\ 10 \in 2..10 /\ 10 = 9 + 1
    OBVIOUS
  <2>2. Assumed /\ Ends(a, 10) => Ends(a, 9)
    BY <1>3, <2>1
  <2> QED
    BY <1>2, <2>2
<1>5. Assumed => Ends(a, 8)
  <2>1. 8 \in 1..9 /\ 9 \in 2..10 /\ 9 = 8 + 1
    OBVIOUS
  <2>2. Assumed /\ Ends(a, 9) => Ends(a, 8)
    BY <1>3, <2>1
  <2> QED
    BY <1>4, <2>2
<1>6. Assumed => Ends(a, 7)
  BY <1>3, <1>5
<1>7. Assumed => Ends(a, 6)
  BY <1>3, <1>6
<1>8. Assumed => Ends(a, 5)
  BY <1>3, <1>7
<1>9. Assumed => Ends(a, 4)
  BY <1>3, <1>8
<1>10. Assumed => Ends(a, 3)
  BY <1>3, <1>9
<1>11. Assumed => Ends(a, 2)
  BY <1>3, <1>10
<1>12. Assumed => Ends(a, 1)
  BY <1>3, <1>11
<1> QED
  BY <1>12 DEF Assumed

\* The slot of the debrief is freed again (the finally of maybeCompose), whatever
\* times out, dies or fails, and although the host need never answer.
THEOREM SlotFreed == FairSpec /\ []ArrivalsGoOn => SlotIsFreed
<1> DEFINE Assumed == []IInv /\ [][Next]_vars /\ []ArrivalsFair /\ []ArrivalsGoOn
<1>1. ASSUME NEW a \in Arrivals
      PROVE  Assumed => (Reached(a, 1) => <>~composing)
  <2>1. ArrivalsGoOn => CanGoOn(a)
    BY DEF ArrivalsGoOn
  <2>2. ArrivalsFair => FairArrival(a)
    BY DEF ArrivalsFair
  <2>3. Assumed => []IInv /\ [][Next]_vars /\ FairArrival(a) /\ []CanGoOn(a)
    BY <2>1, <2>2, PTL
  <2>4. Assumed => Ends(a, 1)
    BY <2>3, ArrivalEnds
  <2> QED
    BY <2>4, PTL DEF Ends
<1>2. Assumed => ((\E a \in Arrivals : Reached(a, 1)) => <>~composing)
  BY <1>1
<1>3. Claimed /\ composing => \E a \in Arrivals : Reached(a, 1)
  BY DEF Claimed
<1>4. FairSpec /\ []ArrivalsGoOn => []Claimed /\ Assumed
  BY StaysFair, InvariantHolds, SlotIsClaimed, PTL DEF FairSpec, Spec
<1> QED
  BY <1>2, <1>3, <1>4, PTL DEF SlotIsFreed
=============================================================================
