---------------------------- MODULE TabMoveProofs ----------------------------
(***************************************************************************)
(* The tab is in one place, a pane that is up has its session or is about  *)
(* to go, and no move costs a shell, for any terminals and any numbers of  *)
(* windows and moves.                                                       *)
(*                                                                          *)
(* The inductive invariant looks through the channels.  IInv: who still has *)
(* a say in where the tab goes, or is about to be told of it, is at most   *)
(* one.  Sessions: while a window asks to adopt the tab's ptys, every other *)
(* window has let go of it or is about to.  Spared: a pty that a window     *)
(* asks to kill is one that a pane of it closed on, and no other pane of it *)
(* shows.                                                                   *)
(*                                                                          *)
(* Awaited: a pane that waits has its request, its shell or its answer     *)
(* under way.  The last sections follow that through the queues to the     *)
(* pane's settling.                                                         *)
(***************************************************************************)
EXTENDS TabMove, FiniteSetTheorems, TLAPS

\* The kinds of messages in a queue.
Ops(q) == {q[k].op : k \in 1..Len(q)}

\* A window from which the tab can still be moved: it keeps the tab, or a drag of
\* its has ended and main has not heard of it.
Holds(w) == "end" \in Ops(toMain[w]) \/ (tab[w] # None /\ "moved" \notin Ops(toWin[w]))

\* A window the tab is on its way to.
Gets(w) == parked[w] # None \/ "tab" \in Ops(toWin[w])

\* One window holds the tab or gets it.
OnePlace ==
    \A v, w \in Windows : /\ Holds(v) /\ Holds(w) => v = w
                          /\ Gets(v) /\ Gets(w) => v = w
                          /\ ~(Holds(v) /\ Gets(w))

\* A tab that arrives is the last of its kind, and no word to let go is behind it.
TabLast(q) ==
    \A j, k \in 1..Len(q) : q[j].op = "tab" /\ q[k].op \in {"tab", "moved"} => k <= j

OneEnd(q) == \A j, k \in 1..Len(q) : q[j].op = "end" /\ q[k].op = "end" => j = k

\* Only a renderer that listens has anything under way, and nothing is parked for it.
Tidy ==
    \A w \in Windows :
       /\ TabLast(toWin[w]) /\ OneEnd(toMain[w])
       /\ w \in booted => parked[w] = None
       /\ w \notin booted => toMain[w] = <<>> /\ toWin[w] = <<>> /\ tab[w] = None

\* The latest copy of the tab is in use nowhere while it is on its way.
Unused(c) == /\ \A w \in Windows : tab[w] # c
             /\ \A t \in Terms : panes[<<t, c>>].state = "unused"
Fresh ==
    /\ \A c \in Copies : c > moves => Unused(c)
    /\ (\E w \in Windows : Gets(w)) => Unused(moves)
    /\ \A w \in Windows :
          /\ parked[w] # None => parked[w].copy = moves
          /\ \A k \in 1..Len(toWin[w]) : toWin[w][k].op = "tab" => toWin[w][k].copy = moves

\* What is under way for a pane is between main and the pane's own window, and an
\* adoption is of a pty.
PaneOps == {"create", "adopt", "created", "adopted", "failed"}
Concerns(q, w, ps) ==
    \A k \in 1..Len(q) : q[k].op \in PaneOps =>
       LET pane == ps[q[k].pane] IN
       /\ pane.state # "unused" /\ pane.win = w
       /\ q[k].op \in {"adopt", "adopted"} => pane.pty # None
Addressed ==
    /\ \A w \in Windows : Concerns(toMain[w], w, panes) /\ Concerns(toWin[w], w, panes)
    /\ \A i \in creating : panes[i].state # "unused"
    /\ \A i \in PaneIds : /\ panes[i].state # "unused" => panes[i].win \in Windows
                          /\ panes[i].state = "up" => panes[i].pty # None
                          /\ Mounted(i) => panes[i].win \in booted

IInv == TypeOK /\ OnePlace /\ Tidy /\ Fresh /\ Addressed

-----------------------------------------------------------------------------
(* Queues.                                                                 *)

\* What taking the head leaves.
LEMMA TailKeeps ==
    ASSUME NEW S, NEW q \in Seq(S), q # <<>>
    PROVE  /\ Tail(q) \in Seq(S) /\ Head(q) \in S /\ Head(q) = q[1]
           /\ Len(q) \in Nat \ {0} /\ Len(Tail(q)) = Len(q) - 1
           /\ \A k \in 1..Len(Tail(q)) : k + 1 \in 1..Len(q) /\ Tail(q)[k] = q[k + 1]
           /\ Ops(Tail(q)) \subseteq Ops(q) /\ Head(q).op \in Ops(q)
           /\ Ops(q) \subseteq Ops(Tail(q)) \cup {Head(q).op}
<1>1. /\ Tail(q) \in Seq(S) /\ Head(q) \in S /\ Head(q) = q[1]
      /\ Len(q) \in Nat \ {0} /\ Len(Tail(q)) = Len(q) - 1
      /\ \A k \in 1..Len(Tail(q)) : k + 1 \in 1..Len(q) /\ Tail(q)[k] = q[k + 1]
  OBVIOUS
<1>2. Ops(Tail(q)) \subseteq Ops(q) /\ Head(q).op \in Ops(q)
  BY <1>1 DEF Ops
<1>3. ASSUME NEW k \in 1..Len(q) PROVE q[k].op \in Ops(Tail(q)) \cup {Head(q).op}
  <2>1. CASE k = 1
    BY <1>1, <2>1
  <2>2. CASE k # 1
    <3>1. k - 1 \in 1..Len(Tail(q)) /\ Tail(q)[k - 1] = q[k]
      BY <1>1, <2>2
    <3>. QED BY <3>1 DEF Ops
  <2>. QED BY <2>1, <2>2
<1>4. Ops(q) \subseteq Ops(Tail(q)) \cup {Head(q).op}
  BY <1>3 DEF Ops
<1>. QED BY <1>1, <1>2, <1>4

\* What sending adds.
LEMMA SendAdds ==
    ASSUME NEW S, NEW q \in Seq(S), NEW m \in Seq(S)
    PROVE  /\ q \o m \in Seq(S)
           /\ \A k \in 1..Len(q \o m) : \/ k \in 1..Len(q) /\ (q \o m)[k] = q[k]
                                        \/ /\ k > Len(q) /\ k - Len(q) \in 1..Len(m)
                                           /\ (q \o m)[k] = m[k - Len(q)]
           /\ Ops(q \o m) = Ops(q) \cup Ops(m)
<1>1. /\ q \o m \in Seq(S) /\ Len(q \o m) = Len(q) + Len(m) /\ Len(q) \in Nat /\ Len(m) \in Nat
      /\ \A k \in 1..Len(q) + Len(m) :
            (q \o m)[k] = IF k <= Len(q) THEN q[k] ELSE m[k - Len(q)]
  OBVIOUS
<1>2. \A k \in 1..Len(q \o m) : \/ k \in 1..Len(q) /\ (q \o m)[k] = q[k]
                                \/ /\ k > Len(q) /\ k - Len(q) \in 1..Len(m)
                                   /\ (q \o m)[k] = m[k - Len(q)]
  BY <1>1
<1>3. Ops(q \o m) \subseteq Ops(q) \cup Ops(m)
  BY <1>2 DEF Ops
<1>4. ASSUME NEW k \in 1..Len(q) PROVE q[k].op \in Ops(q \o m)
  BY <1>1 DEF Ops
<1>5. ASSUME NEW k \in 1..Len(m) PROVE m[k].op \in Ops(q \o m)
  <2>1. k + Len(q) \in 1..Len(q \o m) /\ (q \o m)[k + Len(q)] = m[k]
    BY <1>1
  <2>. QED BY <2>1 DEF Ops
<1>6. Ops(q) \cup Ops(m) \subseteq Ops(q \o m)
  BY <1>4, <1>5 DEF Ops
<1>. QED BY <1>1, <1>2, <1>3, <1>6

LEMMA OneOp ==
    ASSUME NEW S, NEW m \in S
    PROVE  <<m>> \in Seq(S) /\ Len(<<m>>) = 1 /\ <<m>>[1] = m /\ Ops(<<m>>) = {m.op}
<1>1. <<m>> \in Seq(S) /\ Len(<<m>>) = 1 /\ <<m>>[1] = m
  OBVIOUS
<1>2. 1..1 = {1}
  OBVIOUS
<1>. QED BY <1>1, <1>2 DEF Ops

LEMMA TellAdds ==
    ASSUME NEW S, NEW q \in Seq(S), NEW n \in S
    PROVE  q \o <<n>> \in Seq(S) /\ Ops(q \o <<n>>) = Ops(q) \cup {n.op}
<1>1. <<n>> \in Seq(S) /\ Ops(<<n>>) = {n.op}
  BY OneOp
<1>2. \A m \in Seq(S) : q \o m \in Seq(S) /\ Ops(q \o m) = Ops(q) \cup Ops(m)
  BY SendAdds
<1>3. q \o <<n>> \in Seq(S) /\ Ops(q \o <<n>>) = Ops(q) \cup Ops(<<n>>)
  BY <1>1, <1>2
<1>. QED BY <1>1, <1>3

\* A finite set of messages, sent in some order.
LEMMA SetAsQueue ==
    ASSUME NEW S, IsFiniteSet(S)
    PROVE  /\ SetToSeq(S) \in Seq(S)
           /\ \A k \in 1..Len(SetToSeq(S)) : SetToSeq(S)[k] \in S
<1> DEFINE f == SetToSeq(S)
<1>1. Cardinality(S) \in Nat /\ ExistsBijection(1..Cardinality(S), S)
  BY FS_CardinalityType
<1>2. \E g \in [1..Cardinality(S) -> S] : IsInjective(g)
  BY <1>1 DEF ExistsBijection, Bijection, Injection
<1>3. f \in [1..Cardinality(S) -> S]
  BY <1>2 DEF SetToSeq
<1>4. f \in Seq(S)
  BY <1>1, <1>3
<1>. QED BY <1>4

-----------------------------------------------------------------------------
(* The order of a queue.                                                   *)

LEMMA TailInOrder ==
    ASSUME NEW S, NEW q \in Seq(S), q # <<>>
    PROVE  /\ TabLast(q) => TabLast(Tail(q))
           /\ TabLast(q) /\ Head(q).op = "tab" => Ops(Tail(q)) \cap {"tab", "moved"} = {}
           /\ OneEnd(q) => OneEnd(Tail(q))
           /\ OneEnd(q) /\ Head(q).op = "end" => "end" \notin Ops(Tail(q))
<1>1. /\ Head(q) = q[1] /\ Len(q) \in Nat \ {0} /\ Len(Tail(q)) \in Nat
      /\ \A k \in 1..Len(Tail(q)) : k + 1 \in 1..Len(q) /\ Tail(q)[k] = q[k + 1]
  BY TailKeeps
<1>2. TabLast(q) => TabLast(Tail(q))
  <2>1. ASSUME TabLast(q), NEW j \in 1..Len(Tail(q)), NEW k \in 1..Len(Tail(q)),
               Tail(q)[j].op = "tab", Tail(q)[k].op \in {"tab", "moved"}
        PROVE  k <= j
    <3>1. k + 1 <= j + 1
      BY <1>1, <2>1 DEF TabLast
    <3>. QED BY <3>1
  <2>. QED BY <2>1 DEF TabLast
<1>3. TabLast(q) /\ Head(q).op = "tab" => Ops(Tail(q)) \cap {"tab", "moved"} = {}
  <2>1. ASSUME TabLast(q), q[1].op = "tab", NEW k \in 1..Len(Tail(q)),
               Tail(q)[k].op \in {"tab", "moved"}
        PROVE  FALSE
    <3>1. k + 1 <= 1
      BY <1>1, <2>1 DEF TabLast
    <3>. QED BY <3>1
  <2>. QED BY <1>1, <2>1 DEF Ops
<1>4. OneEnd(q) => OneEnd(Tail(q))
  <2>1. ASSUME OneEnd(q), NEW j \in 1..Len(Tail(q)), NEW k \in 1..Len(Tail(q)),
               Tail(q)[j].op = "end", Tail(q)[k].op = "end"
        PROVE  j = k
    <3>1. k + 1 = j + 1
      BY <1>1, <2>1 DEF OneEnd
    <3>. QED BY <3>1
  <2>. QED BY <2>1 DEF OneEnd
<1>5. OneEnd(q) /\ Head(q).op = "end" => "end" \notin Ops(Tail(q))
  <2>1. ASSUME OneEnd(q), q[1].op = "end", NEW k \in 1..Len(Tail(q)), Tail(q)[k].op = "end"
        PROVE  FALSE
    <3>1. k + 1 = 1
      BY <1>1, <2>1 DEF OneEnd
    <3>. QED BY <3>1
  <2>. QED BY <1>1, <2>1 DEF Ops
<1>. QED BY <1>2, <1>3, <1>4, <1>5

\* A message keeps a queue in order unless it is about the tab and a tab is there.
LEMMA ToldInOrder ==
    ASSUME NEW S, NEW q \in Seq(S), NEW m \in S, TabLast(q),
           m.op \in {"tab", "moved"} => "tab" \notin Ops(q)
    PROVE  TabLast(q \o <<m>>)
<1>1. /\ Len(q) \in Nat
      /\ \A k \in 1..Len(q \o <<m>>) : \/ k \in 1..Len(q) /\ (q \o <<m>>)[k] = q[k]
                                       \/ k = Len(q) + 1 /\ (q \o <<m>>)[k] = m
  BY SendAdds, OneOp
<1>2. ASSUME NEW j \in 1..Len(q \o <<m>>), NEW k \in 1..Len(q \o <<m>>),
             (q \o <<m>>)[j].op = "tab", (q \o <<m>>)[k].op \in {"tab", "moved"}
      PROVE  k <= j
  <2>1. CASE k \in 1..Len(q) /\ j \in 1..Len(q)
    BY <1>1, <1>2, <2>1 DEF TabLast
  <2>2. CASE j = Len(q) + 1
    BY <1>1, <2>2
  <2>3. CASE k = Len(q) + 1 /\ j \in 1..Len(q)
    BY <1>1, <1>2, <2>3 DEF Ops
  <2>. QED BY <1>1, <2>1, <2>2, <2>3
<1>. QED BY <1>2 DEF TabLast

LEMMA SentInOrder ==
    ASSUME NEW S, NEW q \in Seq(S), NEW m \in Seq(S), OneEnd(q),
           \/ "end" \notin Ops(m)
           \/ Len(m) = 1 /\ "end" \notin Ops(q)
    PROVE  OneEnd(q \o m)
<1>1. /\ Len(q) \in Nat /\ Len(m) \in Nat
      /\ \A k \in 1..Len(q \o m) : \/ k \in 1..Len(q) /\ (q \o m)[k] = q[k]
                                   \/ /\ k > Len(q) /\ k - Len(q) \in 1..Len(m)
                                      /\ (q \o m)[k] = m[k - Len(q)]
  BY SendAdds
<1>2. ASSUME NEW j \in 1..Len(q \o m), NEW k \in 1..Len(q \o m),
             (q \o m)[j].op = "end", (q \o m)[k].op = "end"
      PROVE  j = k
  <2>1. CASE "end" \notin Ops(m)
    <3>1. j \in 1..Len(q) /\ k \in 1..Len(q)
      BY <1>1, <1>2, <2>1 DEF Ops
    <3>. QED BY <1>1, <1>2, <3>1 DEF OneEnd
  <2>2. CASE Len(m) = 1 /\ "end" \notin Ops(q)
    <3>1. j \notin 1..Len(q) /\ k \notin 1..Len(q)
      BY <1>1, <1>2, <2>2 DEF Ops
    <3>. QED BY <1>1, <2>2, <3>1
  <2>. QED BY <2>1, <2>2
<1>. QED BY <1>2 DEF OneEnd

-----------------------------------------------------------------------------
(* Channels and messages.                                                  *)

LEMMA Channels ==
    ASSUME NEW S, NEW queues \in [Windows -> Seq(S)], NEW w \in Windows
    PROVE  /\ \A m \in Seq(S) :
                 /\ Sent(queues, w, m) \in [Windows -> Seq(S)]
                 /\ Sent(queues, w, m)[w] = queues[w] \o m
                 /\ \A v \in Windows \ {w} : Sent(queues, w, m)[v] = queues[v]
           /\ queues[w] # <<>> =>
                 /\ Taken(queues, w) \in [Windows -> Seq(S)]
                 /\ Taken(queues, w)[w] = Tail(queues[w])
                 /\ \A v \in Windows \ {w} : Taken(queues, w)[v] = queues[v]
           /\ \A n \in S :
                 /\ Told(queues, w, n) \in [Windows -> Seq(S)]
                 /\ w \in booted => Told(queues, w, n)[w] = queues[w] \o <<n>>
                 /\ \A v \in Windows : v # w \/ w \notin booted => Told(queues, w, n)[v] = queues[v]
<1>1. \A m \in Seq(S) : /\ queues[w] \o m \in Seq(S)
                        /\ Sent(queues, w, m) \in [Windows -> Seq(S)]
                        /\ Sent(queues, w, m)[w] = queues[w] \o m
                        /\ \A v \in Windows \ {w} : Sent(queues, w, m)[v] = queues[v]
  BY SendAdds DEF Sent
<1>2. queues[w] # <<>> => /\ Tail(queues[w]) \in Seq(S)
                          /\ Taken(queues, w) \in [Windows -> Seq(S)]
                          /\ Taken(queues, w)[w] = Tail(queues[w])
                          /\ \A v \in Windows \ {w} : Taken(queues, w)[v] = queues[v]
  BY TailKeeps DEF Taken
<1>3. ASSUME NEW n \in S
      PROVE  /\ Told(queues, w, n) \in [Windows -> Seq(S)]
             /\ w \in booted => Told(queues, w, n)[w] = queues[w] \o <<n>>
             /\ \A v \in Windows : v # w \/ w \notin booted => Told(queues, w, n)[v] = queues[v]
  <2>1. <<n>> \in Seq(S)
    OBVIOUS
  <2>. QED BY <1>1, <2>1 DEF Told
<1>. QED BY <1>1, <1>2, <1>3

LEMMA PanesAreFinite == IsFiniteSet(PaneIds)
<1>1. IsFiniteSet(Copies)
  BY FS_Interval, BoundsAssumption DEF Copies
<1>. QED BY <1>1, FS_Product, TermsAssumption DEF PaneIds

\* Whom a window's unmounting panes ask main to kill.
LEMMA KillsNamed ==
    ASSUME TypeOK, Addressed, NEW ids \in SUBSET PaneIds
    PROVE  /\ KillRequests(ids) \in Seq(Request) /\ Ops(KillRequests(ids)) \subseteq {"kill"}
           /\ \A k \in 1..Len(KillRequests(ids)) : \E i \in ids :
                 panes[i].state = "up" /\ KillRequests(ids)[k] = [op |-> "kill", pty |-> panes[i].pty]
<1> DEFINE ups == {j \in ids : panes[j].state = "up"}
           f == [i \in ups |-> [op |-> "kill", pty |-> panes[i].pty]]
           requests == {[op |-> "kill", pty |-> panes[i].pty] : i \in ups}
<1>1. IsFiniteSet(ups)
  BY PanesAreFinite, FS_Subset
<1>2. f \in Surjection(ups, requests)
  BY DEF Surjection
<1>3. IsFiniteSet(requests)
  BY <1>1, <1>2, FS_Surjection
<1>4. \A i \in ups : panes[i].pty \in PaneIds
  BY DEF TypeOK, Pane, Addressed
<1>5. \A r \in requests : r \in Request /\ r.op = "kill"
  BY <1>4 DEF Request
<1>6. /\ SetToSeq(requests) \in Seq(Request)
      /\ \A k \in 1..Len(SetToSeq(requests)) : SetToSeq(requests)[k] \in requests
  <2>1. /\ SetToSeq(requests) \in Seq(requests)
        /\ \A k \in 1..Len(SetToSeq(requests)) : SetToSeq(requests)[k] \in requests
    BY <1>3, SetAsQueue
  <2>2. requests \subseteq Request
    BY <1>5
  <2>. HIDE DEF requests
  <2>. QED BY <2>1, <2>2
<1>7. KillRequests(ids) = SetToSeq(requests)
  BY DEF KillRequests
<1>8. \A r \in requests : \E i \in ids : panes[i].state = "up" /\ r = [op |-> "kill", pty |-> panes[i].pty]
  OBVIOUS
<1>. HIDE DEF requests
<1>. QED BY <1>5, <1>6, <1>7, <1>8 DEF Ops

LEMMA Kills ==
    ASSUME TypeOK, Addressed, NEW ids \in SUBSET PaneIds
    PROVE  KillRequests(ids) \in Seq(Request) /\ Ops(KillRequests(ids)) \subseteq {"kill"}
BY KillsNamed

LEMMA Mounts ==
    ASSUME NEW load \in Loads, NEW copy \in Copies
    PROVE  LET ids == {<<t, copy>> : t \in DOMAIN load}
               requests == SetToSeq({[op |-> IF load[i[1]] = None THEN "create" ELSE "adopt",
                                      pane |-> i] : i \in ids})
           IN  /\ ids \subseteq PaneIds
               /\ requests \in Seq(Request) /\ Ops(requests) \subseteq {"create", "adopt"}
               /\ \A k \in 1..Len(requests) : /\ requests[k].pane \in ids
                                              /\ requests[k].op = "adopt" => load[requests[k].pane[1]] # None
<1> DEFINE ids == {<<t, copy>> : t \in DOMAIN load}
           msg(i) == [op |-> IF load[i[1]] = None THEN "create" ELSE "adopt", pane |-> i]
           set == {msg(i) : i \in ids}
           f == [i \in ids |-> msg(i)]
           requests == SetToSeq(set)
<1>1. ids \subseteq PaneIds
  BY DEF Loads, PaneIds
<1>2. IsFiniteSet(ids)
  BY <1>1, PanesAreFinite, FS_Subset
<1>3. f \in Surjection(ids, set)
  BY DEF Surjection
<1>4. IsFiniteSet(set)
  BY <1>2, <1>3, FS_Surjection
<1>5. \A r \in set : /\ r \in Request /\ r.op \in {"create", "adopt"} /\ r.pane \in ids
                     /\ r.op = "adopt" => load[r.pane[1]] # None
  BY <1>1 DEF Request
<1>6. requests \in Seq(set) /\ \A k \in 1..Len(requests) : requests[k] \in set
  BY <1>4, SetAsQueue
<1>7. requests \in Seq(Request)
  <2>1. set \subseteq Request
    BY <1>5
  <2>. HIDE DEF set
  <2>. QED BY <1>6, <2>1
<1>8. Ops(requests) \subseteq {"create", "adopt"}
  <2>. HIDE DEF set
  <2>. QED BY <1>5, <1>6 DEF Ops
<1>9. \A k \in 1..Len(requests) : /\ requests[k].pane \in ids
                                  /\ requests[k].op = "adopt" => load[requests[k].pane[1]] # None
  <2>. HIDE DEF set
  <2>. QED BY <1>5, <1>6
<1>. QED BY <1>1, <1>7, <1>8, <1>9

\* What messages say.
LEMMA Contents ==
    /\ \A r \in Request : /\ r.op \in {"create", "adopt"} => r.pane \in PaneIds
                          /\ r.op = "kill" => r.pty \in PaneIds
                          /\ r.op = "end" => r.load \in Loads
                          /\ r.op \in {"create", "adopt", "kill", "end"}
    /\ \A n \in Notice : /\ n.op \in {"created", "adopted", "failed"} => n.pane \in PaneIds
                         /\ n.op = "tab" => n \in TabMessage
                         /\ n.op \in {"created", "adopted", "failed", "exit", "moved", "stays", "tab"}
    /\ \A m \in TabMessage : m.op = "tab" /\ m.load \in Loads /\ m.copy \in Copies /\ m \in Notice
<1>1. \A r \in Request : /\ r.op \in {"create", "adopt"} => r.pane \in PaneIds
                         /\ r.op = "kill" => r.pty \in PaneIds
                         /\ r.op = "end" => r.load \in Loads
                         /\ r.op \in {"create", "adopt", "kill", "end"}
  BY DEF Request
<1>2. \A m \in TabMessage : m.op = "tab" /\ m.load \in Loads /\ m.copy \in Copies /\ m \in Notice
  BY DEF TabMessage, Notice
<1>3. \A n \in Notice : /\ n.op \in {"created", "adopted", "failed"} => n.pane \in PaneIds
                        /\ n.op = "tab" => n \in TabMessage
                        /\ n.op \in {"created", "adopted", "failed", "exit", "moved", "stays", "tab"}
  BY <1>2 DEF Notice
<1>. QED BY <1>1, <1>2, <1>3

\* The head of a queue.
LEMMA Heads ==
    ASSUME TypeOK, NEW w \in Windows
    PROVE  /\ toMain[w] \in Seq(Request) /\ toWin[w] \in Seq(Notice)
           /\ toMain[w] # <<>> => Head(toMain[w]) \in Request
           /\ toWin[w] # <<>> => Head(toWin[w]) \in Notice
BY TailKeeps DEF TypeOK

-----------------------------------------------------------------------------
(* Types.                                                                  *)

\* A renderer's queues after it has heard a message, and sent what it has to.
LEMMA HearTypes ==
    ASSUME TypeOK, NEW w \in Windows, toWin[w] # <<>>
    PROVE  /\ Taken(toWin, w) \in [Windows -> Seq(Notice)]
           /\ \A m \in Seq(Request) : Sent(toMain, w, m) \in [Windows -> Seq(Request)]
<1>1. toWin \in [Windows -> Seq(Notice)] /\ toMain \in [Windows -> Seq(Request)]
  BY DEF TypeOK
<1>. QED BY <1>1, Channels

\* A pane that changes its state and no more.
LEMMA PaneTypes ==
    ASSUME TypeOK, NEW ids \in SUBSET PaneIds, NEW state \in PaneStates
    PROVE  /\ [i \in PaneIds |-> IF i \in ids THEN [panes[i] EXCEPT !.state = state] ELSE panes[i]]
                 \in [PaneIds -> Pane]
           /\ \A i \in PaneIds : [panes EXCEPT ![i].state = state] \in [PaneIds -> Pane]
<1>1. panes \in [PaneIds -> Pane]
  BY DEF TypeOK
<1>2. \A pane \in Pane : [pane EXCEPT !.state = state] \in Pane
  BY DEF Pane
<1>3. [i \in PaneIds |-> IF i \in ids THEN [panes[i] EXCEPT !.state = state] ELSE panes[i]]
         \in [PaneIds -> Pane]
  BY <1>1, <1>2
<1>4. ASSUME NEW i \in PaneIds PROVE [panes EXCEPT ![i].state = state] \in [PaneIds -> Pane]
  <2>1. [panes[i] EXCEPT !.state = state] \in Pane
    BY <1>1, <1>2
  <2>. QED BY <1>1, <2>1
<1>. QED BY <1>3, <1>4

\* A rejected attach closes what its window shows for the terminal, as a user would.
LEMMA FailedCloses ==
    ASSUME NEW w \in Windows, HearFailed(w)
    PROVE  \E ids \in SUBSET PaneIds :
              /\ ids \subseteq MountedIn(w)
              /\ panes' = [i \in PaneIds |-> IF i \in ids THEN [panes[i] EXCEPT !.state = "closed"]
                                             ELSE panes[i]]
              /\ toMain' = Sent(toMain, w, KillRequests(ids))
<1> DEFINE gone == ShownFor(w, Head(toWin[w]).pane[1])
<1>1. gone \in SUBSET PaneIds /\ gone \subseteq MountedIn(w)
  BY DEF ShownFor, MountedIn
<1>2. /\ panes' = [i \in PaneIds |-> IF i \in gone THEN [panes[i] EXCEPT !.state = "closed"]
                                     ELSE panes[i]]
      /\ toMain' = Sent(toMain, w, KillRequests(gone))
  BY DEF HearFailed
<1>. HIDE DEF gone
<1>. QED BY <1>1, <1>2

LEMMA RendererTypes ==
    ASSUME TypeOK, Addressed, NEW w \in Windows, Renderer(w)
    PROVE  TypeOK'
<1>0. \A st \in {"closed", "left", "up"} : st \in PaneStates
  BY DEF PaneStates
<1>1. CASE HearCreated(w)
  <2>1. PICK i \in PaneIds :
           /\ panes' = IF panes[i].state = "waiting"
                       THEN [panes EXCEPT ![i].pty = i, ![i].state = "up"] ELSE panes
           /\ toMain' = IF panes[i].state \in {"closed", "left"}
                        THEN Sent(toMain, w, <<[op |-> "kill", pty |-> i]>>) ELSE toMain
    BY <1>1, Heads, Contents DEF HearCreated, Hears
  <2>2. panes' \in [PaneIds -> Pane]
    BY <1>0, <2>1 DEF TypeOK, Pane
  <2>3. toMain' \in [Windows -> Seq(Request)] /\ toWin' \in [Windows -> Seq(Notice)]
    <3>1. [op |-> "kill", pty |-> i] \in Request
      BY DEF Request
    <3>2. <<[op |-> "kill", pty |-> i]>> \in Seq(Request)
      BY <3>1
    <3>. QED BY <1>1, <2>1, <3>2, HearTypes DEF HearCreated, Hears, TypeOK
  <2>. QED BY <1>1, <2>2, <2>3 DEF HearCreated, TypeOK, desktop, ptyVars
<1>2. CASE HearAdopted(w)
  <2>1. panes' \in [PaneIds -> Pane]
    BY <1>0, <1>2, PaneTypes, Heads, Contents DEF HearAdopted, Hears, TypeOK
  <2>2. toWin' \in [Windows -> Seq(Notice)]
    BY <1>2, HearTypes DEF HearAdopted, Hears
  <2>. QED BY <1>2, <2>1, <2>2 DEF HearAdopted, TypeOK, desktop, ptyVars
<1>3. CASE HearFailed(w)
  <2>1. PICK ids \in SUBSET PaneIds :
           /\ panes' = [i \in PaneIds |-> IF i \in ids THEN [panes[i] EXCEPT !.state = "closed"]
                                          ELSE panes[i]]
           /\ toMain' = Sent(toMain, w, KillRequests(ids))
    BY <1>3, FailedCloses
  <2>2. panes' \in [PaneIds -> Pane]
    BY <1>0, <2>1, PaneTypes
  <2>3. toMain' \in [Windows -> Seq(Request)] /\ toWin' \in [Windows -> Seq(Notice)]
    <3>1. KillRequests(ids) \in Seq(Request)
      BY Kills
    <3>. QED BY <1>3, <2>1, <3>1, HearTypes DEF HearFailed, Hears
  <2>. QED BY <1>3, <2>2, <2>3 DEF HearFailed, TypeOK, desktop, ptyVars
<1>4. CASE HearExit(w)
  <2>1. PICK gone \in SUBSET PaneIds :
           panes' = [i \in PaneIds |-> IF i \in gone THEN [panes[i] EXCEPT !.state = "closed"]
                                       ELSE panes[i]]
    BY <1>4 DEF HearExit, MountedIn
  <2>2. panes' \in [PaneIds -> Pane]
    BY <1>0, <2>1, PaneTypes
  <2>3. toWin' \in [Windows -> Seq(Notice)]
    BY <1>4, HearTypes DEF HearExit, Hears
  <2>. QED BY <1>4, <2>2, <2>3 DEF HearExit, TypeOK, desktop, ptyVars
<1>5. CASE HearTab(w)
  <2> DEFINE load == Head(toWin[w]).load
             copy == Head(toWin[w]).copy
             ids == {<<t, copy>> : t \in DOMAIN load}
  <2>1. load \in Loads /\ copy \in Copies
    BY <1>5, Heads, Contents DEF HearTab, Hears
  <2>2. /\ tab' = [tab EXCEPT ![w] = copy]
        /\ panes' = [i \in PaneIds |->
              IF i \in ids THEN [win |-> w, pty |-> load[i[1]], state |-> "waiting"] ELSE panes[i]]
        /\ toMain' = Sent(toMain, w, SetToSeq(
              {[op |-> IF load[i[1]] = None THEN "create" ELSE "adopt", pane |-> i] : i \in ids}))
    BY <1>5 DEF HearTab
  <2>3. tab' \in [Windows -> Copies \cup {None}]
    BY <2>1, <2>2 DEF TypeOK
  <2>4. panes' \in [PaneIds -> Pane]
    <3>1. ASSUME NEW i \in ids PROVE [win |-> w, pty |-> load[i[1]], state |-> "waiting"] \in Pane
      <4>1. load[i[1]] \in PaneIds \cup {None}
        BY <2>1 DEF Loads
      <4>. QED BY <4>1 DEF Pane, PaneStates
    <3>. HIDE DEF ids, load, copy
    <3>. QED BY <2>2, <3>1 DEF TypeOK
  <2>5. toMain' \in [Windows -> Seq(Request)] /\ toWin' \in [Windows -> Seq(Notice)]
    <3>1. SetToSeq({[op |-> IF load[i[1]] = None THEN "create" ELSE "adopt", pane |-> i] : i \in ids})
             \in Seq(Request)
      <4>. HIDE DEF load, copy
      <4>. QED BY <2>1, Mounts
    <3>. QED BY <1>5, <2>2, <3>1, HearTypes DEF HearTab, Hears
  <2>. HIDE DEF ids, load, copy
  <2>. QED BY <1>5, <2>3, <2>4, <2>5 DEF HearTab, TypeOK, desktop, ptyVars
<1>6. CASE LetGo(w)
  <2>1. panes' \in [PaneIds -> Pane]
    <3>1. MountedIn(w) \in SUBSET PaneIds
      BY DEF MountedIn
    <3>. QED BY <1>0, <1>6, <3>1, PaneTypes DEF LetGo
  <2>2. toWin' \in [Windows -> Seq(Notice)]
    BY <1>6, HearTypes DEF LetGo, Hears
  <2>. QED BY <1>6, <2>1, <2>2 DEF LetGo, TypeOK, desktop, ptyVars
<1>7. CASE HearStays(w)
  <2>1. toWin' \in [Windows -> Seq(Notice)]
    BY <1>7, HearTypes DEF HearStays, Hears
  <2>. QED BY <1>7, <2>1 DEF HearStays, TypeOK, desktop, ptyVars
<1>. QED BY <1>1, <1>2, <1>3, <1>4, <1>5, <1>6, <1>7 DEF Renderer

LEMMA LoadTypes ==
    ASSUME TypeOK, NEW w \in Windows
    PROVE  LoadOf(w) \in Loads
<1> DEFINE ts == {u \in Terms : <<u, tab[w]>> \in MountedIn(w)}
<1>1. \A t \in ts : <<t, tab[w]>> \in PaneIds
  BY DEF MountedIn
<1>2. \A t \in ts : panes[<<t, tab[w]>>].pty \in PaneIds \cup {None}
  BY <1>1 DEF TypeOK, Pane
<1>3. ts \in SUBSET Terms
  OBVIOUS
<1>4. LoadOf(w) = [t \in ts |-> panes[<<t, tab[w]>>].pty]
  BY DEF LoadOf
<1>. HIDE DEF ts
<1>. QED BY <1>2, <1>3, <1>4 DEF Loads

\* A renderer that sends and changes its panes and tab.
LEMMA UserTypes ==
    ASSUME TypeOK, Addressed, NEW w \in Windows,
           \/ \E t \in Terms : OpenTerminal(w, t)
           \/ CloseTab(w)
           \/ \E canDetach \in BOOLEAN : EndDrag(w, canDetach)
    PROVE  TypeOK'
<1>0. /\ "closed" \in PaneStates /\ "waiting" \in PaneStates
      /\ toMain \in [Windows -> Seq(Request)]
  BY DEF PaneStates, TypeOK
<1>1. ASSUME NEW t \in Terms, OpenTerminal(w, t) PROVE TypeOK'
  <2>1. <<t, tab[w]>> \in PaneIds
    BY <1>1 DEF OpenTerminal, TypeOK, PaneIds
  <2>2. panes' \in [PaneIds -> Pane]
    BY <1>0, <1>1, <2>1 DEF OpenTerminal, TypeOK, Pane
  <2>3. <<[op |-> "create", pane |-> <<t, tab[w]>>]>> \in Seq(Request)
    <3>1. [op |-> "create", pane |-> <<t, tab[w]>>] \in Request
      BY <2>1 DEF Request
    <3>. QED BY <3>1
  <2>4. toMain' \in [Windows -> Seq(Request)]
    BY <1>0, <1>1, <2>3, Channels DEF OpenTerminal
  <2>. QED BY <1>1, <2>2, <2>4 DEF OpenTerminal, TypeOK, desktop, ptyVars
<1>2. CASE CloseTab(w)
  <2>1. MountedIn(w) \in SUBSET PaneIds
    BY DEF MountedIn
  <2>2. panes' \in [PaneIds -> Pane]
    BY <1>0, <1>2, <2>1, PaneTypes DEF CloseTab, ClosePanes
  <2>3. toMain' \in [Windows -> Seq(Request)]
    BY <1>0, <1>2, <2>1, Kills, Channels DEF CloseTab, ClosePanes
  <2>4. tab' \in [Windows -> Copies \cup {None}]
    BY <1>2 DEF CloseTab, TypeOK
  <2>. QED BY <1>2, <2>2, <2>3, <2>4 DEF CloseTab, ClosePanes, TypeOK, desktop, ptyVars
<1>3. ASSUME NEW canDetach \in BOOLEAN, EndDrag(w, canDetach) PROVE TypeOK'
  <2>1. <<[op |-> "end", load |-> LoadOf(w), canDetach |-> canDetach]>> \in Seq(Request)
    <3>1. [op |-> "end", load |-> LoadOf(w), canDetach |-> canDetach] \in Request
      BY LoadTypes DEF Request
    <3>. QED BY <3>1
  <2>2. toMain' \in [Windows -> Seq(Request)]
    BY <1>0, <1>3, <2>1, Channels DEF EndDrag
  <2>. QED BY <1>3, <2>2 DEF EndDrag, TypeOK, desktop, ptyVars
<1>. QED BY <1>1, <1>2, <1>3

LEMMA CloseTypes ==
    ASSUME TypeOK, Addressed, NEW i \in PaneIds, CloseTerminal(i)
    PROVE  TypeOK'
<1>1. /\ "closed" \in PaneStates /\ toMain \in [Windows -> Seq(Request)]
      /\ panes[i].win \in Windows
  BY DEF PaneStates, TypeOK, CloseTerminal, Mounted, Addressed
<1>2. panes' \in [PaneIds -> Pane]
  BY <1>1, PaneTypes DEF CloseTerminal, ClosePanes
<1>3. toMain' \in [Windows -> Seq(Request)]
  <2>1. toMain' = Sent(toMain, panes[i].win, KillRequests({i}))
    BY DEF CloseTerminal, ClosePanes
  <2>2. KillRequests({i}) \in Seq(Request)
    BY Kills
  <2>. QED BY <1>1, <2>1, <2>2, Channels
<1>4. UNCHANGED <<moves, wins, lastWin, booted, parked, owner, tickets, killed, creating, tab, toWin>>
  <2>1. UNCHANGED <<desktop, ptyVars, creating, toWin>> /\ UNCHANGED tab
    BY DEF CloseTerminal, ClosePanes
  <2>. QED BY <2>1 DEF desktop, ptyVars
<1>5. /\ DOMAIN owner' \subseteq PaneIds /\ owner' \in [DOMAIN owner' -> Windows \cup {None}]
      /\ killed' \subseteq DOMAIN owner'
  BY <1>4 DEF TypeOK
<1>6. /\ moves' \in Copies /\ wins' \subseteq 1..lastWin' /\ lastWin' \in Windows
      /\ booted' \subseteq wins' /\ tab' \in [Windows -> Copies \cup {None}]
      /\ tickets' \subseteq PaneIds /\ creating' \subseteq PaneIds
      /\ parked' \in [Windows -> TabMessage \cup {None}] /\ toWin' \in [Windows -> Seq(Notice)]
  BY <1>4 DEF TypeOK
<1>. QED BY <1>2, <1>3, <1>5, <1>6 DEF TypeOK

LEMMA NoticeKinds ==
    /\ \A i \in PaneIds, op \in {"created", "adopted", "failed"} : [op |-> op, pane |-> i] \in Notice
    /\ \A p \in PaneIds : [op |-> "exit", pty |-> p] \in Notice
    /\ \A to : AnswerTo(to) \in Notice /\ AnswerTo(to).op = IF to = None THEN "stays" ELSE "moved"
<1>1. [op |-> "moved"] \in Notice /\ [op |-> "stays"] \in Notice
  BY DEF Notice
<1>. QED BY <1>1 DEF Notice, AnswerTo

LEMMA MainTypes ==
    ASSUME TypeOK, NEW w \in Windows, BeginCreate(w) \/ Adopt(w) \/ Kill(w)
    PROVE  TypeOK'
<1>0. /\ toMain \in [Windows -> Seq(Request)] /\ toWin \in [Windows -> Seq(Notice)]
      /\ w \in Windows
  BY DEF TypeOK
<1>1. toMain' = Taken(toMain, w) /\ toMain[w] # <<>>
  BY DEF BeginCreate, Adopt, Kill, Asks
<1>2. toMain' \in [Windows -> Seq(Request)]
  BY <1>0, <1>1, Channels
<1>3. CASE BeginCreate(w)
  <2>1. creating' \subseteq PaneIds
    BY <1>3, Heads, Contents DEF BeginCreate, Asks, TypeOK
  <2>. QED BY <1>2, <1>3, <2>1 DEF BeginCreate, TypeOK, desktop, ptyVars
<1>4. CASE Adopt(w)
  <2> DEFINE i == Head(toMain[w]).pane  p == panes[i].pty
  <2>1. i \in PaneIds
    BY <1>4, Heads, Contents DEF Adopt, Asks
  <2>2. \/ /\ p \in DOMAIN owner /\ Claim(p)
           /\ owner' = [owner EXCEPT ![p] = w]
           /\ toWin' = Told(toWin, w, [op |-> "adopted", pane |-> i])
        \/ /\ toWin' = Told(toWin, w, [op |-> "failed", pane |-> i])
           /\ UNCHANGED <<owner, tickets>>
    BY <1>4 DEF Adopt
  <2>. HIDE DEF i, p
  <2>3. toWin' \in [Windows -> Seq(Notice)]
    <3>1. \A op \in {"adopted", "failed"} : [op |-> op, pane |-> i] \in Notice
      BY <2>1, NoticeKinds
    <3>2. \A n \in Notice : Told(toWin, w, n) \in [Windows -> Seq(Notice)]
      BY <1>0, Channels
    <3>. QED BY <2>2, <3>1, <3>2
  <2>4. /\ DOMAIN owner' = DOMAIN owner /\ owner' \in [DOMAIN owner -> Windows \cup {None}]
        /\ tickets' \subseteq PaneIds
    BY <2>2 DEF TypeOK, Claim
  <2>. QED BY <1>2, <1>4, <2>3, <2>4 DEF Adopt, TypeOK, desktop
<1>5. CASE Kill(w)
  <2>1. killed' \subseteq DOMAIN owner
    BY <1>5 DEF Kill, TypeOK
  <2>. QED BY <1>2, <1>5, <2>1 DEF Kill, TypeOK, desktop
<1>. QED BY <1>3, <1>4, <1>5

LEMMA ShellTypes ==
    ASSUME TypeOK, Addressed, NEW i \in PaneIds, FinishCreate(i) \/ PtyExit(i)
    PROVE  TypeOK'
<1>0. toWin \in [Windows -> Seq(Notice)] /\ wins \subseteq Windows
  BY BoundsAssumption DEF TypeOK, Windows
<1>1. CASE FinishCreate(i)
  <2>1. panes[i].win \in Windows
    BY <1>1 DEF FinishCreate, Addressed
  <2>2. \A op \in {"created", "failed"} :
           (IF panes[i].state = "lost" THEN toWin ELSE Told(toWin, panes[i].win, [op |-> op, pane |-> i]))
              \in [Windows -> Seq(Notice)]
    BY <1>0, <2>1, NoticeKinds, Channels
  <2>3. toWin' \in [Windows -> Seq(Notice)]
    BY <1>1, <2>2 DEF FinishCreate
  <2>4. /\ DOMAIN owner' \subseteq PaneIds /\ owner' \in [DOMAIN owner' -> Windows \cup {None}]
        /\ DOMAIN owner \subseteq DOMAIN owner'
    BY <1>0, <1>1, <2>1 DEF FinishCreate, TypeOK
  <2>5. creating' \subseteq PaneIds
    BY <1>1 DEF FinishCreate, TypeOK
  <2>. QED BY <1>1, <2>3, <2>4, <2>5 DEF FinishCreate, TypeOK, desktop
<1>2. CASE PtyExit(i)
  <2>1. owner[i] # None => owner[i] \in Windows
    BY <1>2 DEF PtyExit, TypeOK
  <2>2. toWin' \in [Windows -> Seq(Notice)]
    BY <1>0, <1>2, <2>1, NoticeKinds, Channels DEF PtyExit
  <2>3. /\ DOMAIN owner' = DOMAIN owner \ {i} /\ owner' \in [DOMAIN owner' -> Windows \cup {None}]
        /\ tickets' \subseteq PaneIds /\ killed' \subseteq DOMAIN owner'
    BY <1>2 DEF PtyExit, TypeOK
  <2>. QED BY <1>2, <2>2, <2>3 DEF PtyExit, TypeOK, desktop
<1>. QED BY <1>1, <1>2

\* Where a drop can send the tab.
LEMMA Targets ==
    ASSUME TypeOK, NEW w \in Windows, NEW canDetach, NEW to \in DropTargets(w, canDetach)
    PROVE  /\ to \in (wins \ {w}) \cup {None} \/ (to = lastWin + 1 /\ to \in Windows /\ to \notin wins)
           /\ to # None => to \in Windows
<1>1. lastWin \in Nat /\ wins \subseteq 1..lastWin /\ MaxWindow \in Nat /\ lastWin \in 1..MaxWindow
  BY BoundsAssumption DEF TypeOK, Windows
<1>2. wins \subseteq Windows
  BY <1>1 DEF Windows
<1>3. lastWin < MaxWindow => lastWin + 1 \in Windows /\ lastWin + 1 \notin wins
  BY <1>1 DEF Windows
<1>. QED BY <1>2, <1>3 DEF DropTargets

LEMMA DropTypes ==
    ASSUME TypeOK, NEW w \in Windows, Drop(w)
    PROVE  TypeOK'
<1> DEFINE load == Head(toMain[w]).load
           msg == [op |-> "tab", load |-> load, copy |-> moves + 1]
<1>0. /\ toMain \in [Windows -> Seq(Request)] /\ toWin \in [Windows -> Seq(Notice)]
      /\ toMain[w] # <<>> /\ moves \in Nat /\ MaxMoves \in Nat
  BY BoundsAssumption DEF TypeOK, Drop, Asks, Copies
<1>1. load \in Loads
  BY Heads, Contents DEF Drop, Asks
<1>2. moves < MaxMoves => moves + 1 \in Copies /\ msg \in TabMessage /\ msg \in Notice
  <2>1. moves < MaxMoves => moves + 1 \in Copies
    BY <1>0 DEF Copies
  <2>. QED BY <1>1, <2>1 DEF TabMessage, Notice
<1>3. Ptys(load) \subseteq PaneIds
  BY <1>1 DEF Ptys, Loads
<1>4. toMain' \in [Windows -> Seq(Request)]
  BY <1>0, Channels DEF Drop
<1>5. PICK to \in DropTargets(w, Head(toMain[w]).canDetach) :
         \/ /\ to = None
            /\ toWin' = Told(toWin, w, AnswerTo(to))
            /\ UNCHANGED <<desktop, tickets>>
         \/ /\ to \in wins /\ moves < MaxMoves
            /\ tickets' = tickets \cup Ptys(load)
            /\ toWin' = Told(Told(toWin, w, AnswerTo(to)), to, msg)
            /\ moves' = moves + 1
            /\ UNCHANGED <<wins, lastWin, booted, parked>>
         \/ /\ to \notin wins \cup {None} /\ moves < MaxMoves
            /\ tickets' = tickets \cup Ptys(load)
            /\ lastWin' = to /\ wins' = wins \cup {to}
            /\ parked' = [parked EXCEPT ![to] = msg]
            /\ toWin' = Told(toWin, w, AnswerTo(to))
            /\ moves' = moves + 1
            /\ UNCHANGED booted
  BY DEF Drop
<1>6. /\ to \in (wins \ {w}) \cup {None} \/ (to = lastWin + 1 /\ to \in Windows /\ to \notin wins)
      /\ to # None => to \in Windows
  BY <1>5, Targets
<1>. HIDE DEF load, msg
<1>7. Told(toWin, w, AnswerTo(to)) \in [Windows -> Seq(Notice)]
  BY <1>0, NoticeKinds, Channels
<1>8. toWin' \in [Windows -> Seq(Notice)]
  <2>1. CASE to \in wins /\ moves < MaxMoves /\ toWin' = Told(Told(toWin, w, AnswerTo(to)), to, msg)
    <3>1. None \notin wins
      BY NoneAssumption DEF TypeOK
    <3>2. to \in Windows /\ msg \in Notice
      BY <1>2, <1>6, <2>1, <3>1
    <3>. QED BY <1>7, <2>1, <3>2, Channels
  <2>. QED BY <1>5, <1>7, <2>1
<1>9. moves' \in Copies /\ tickets' \subseteq PaneIds /\ booted' \subseteq wins'
  BY <1>2, <1>3, <1>5 DEF TypeOK, desktop
<1>10. wins' \subseteq 1..lastWin' /\ lastWin' \in Windows
  <2>1. CASE to = lastWin + 1 /\ to \in Windows /\ lastWin' = to /\ wins' = wins \cup {to}
    <3>1. lastWin \in Nat
      BY DEF TypeOK, Windows
    <3>. QED BY <2>1, <3>1 DEF TypeOK, Windows
  <2>. QED BY <1>5, <1>6, <2>1 DEF TypeOK, desktop
<1>11. parked' \in [Windows -> TabMessage \cup {None}]
  BY <1>2, <1>5 DEF TypeOK, desktop
<1>. QED BY <1>4, <1>8, <1>9, <1>10, <1>11 DEF Drop, TypeOK

LEMMA WindowTypes ==
    ASSUME TypeOK, NewWindow \/ \E w \in Windows : Boot(w) \/ Reload(w) \/ CloseWindow(w)
    PROVE  TypeOK'
<1>0. /\ toMain \in [Windows -> Seq(Request)] /\ toWin \in [Windows -> Seq(Notice)]
      /\ lastWin \in Nat /\ MaxWindow \in Nat
  BY BoundsAssumption DEF TypeOK, Windows
<1>1. CASE NewWindow
  <2>1. wins' \subseteq 1..lastWin' /\ lastWin' \in Windows
    BY <1>0, <1>1 DEF NewWindow, TypeOK, Windows
  <2>. QED BY <1>1, <2>1 DEF NewWindow, TypeOK, ptyVars
<1>2. ASSUME NEW w \in Windows, Boot(w) PROVE TypeOK'
  <2>1. parked[w] # None => <<parked[w]>> \in Seq(Notice)
    <3>1. parked[w] # None => parked[w] \in Notice
      BY Contents DEF TypeOK
    <3>. QED BY <3>1
  <2>2. toWin' \in [Windows -> Seq(Notice)]
    BY <1>0, <1>2, <2>1, Channels DEF Boot
  <2>3. parked' \in [Windows -> TabMessage \cup {None}] /\ booted' \subseteq wins
    BY <1>2 DEF Boot, TakePending, TypeOK
  <2>. QED BY <1>2, <2>2, <2>3 DEF Boot, TypeOK, ptyVars
<1>3. ASSUME NEW w \in Windows, LoseRenderer(w)
      PROVE  /\ tab' \in [Windows -> Copies \cup {None}] /\ panes' \in [PaneIds -> Pane]
             /\ toMain' \in [Windows -> Seq(Request)] /\ toWin' \in [Windows -> Seq(Notice)]
             /\ killed' \subseteq DOMAIN owner /\ booted' = booted \ {w}
  <2>1. [win |-> w, pty |-> None, state |-> "lost"] \in Pane
    BY DEF Pane, PaneStates
  <2>2. panes' \in [PaneIds -> Pane]
    BY <1>3, <2>1 DEF LoseRenderer, TypeOK
  <2>3. toMain' \in [Windows -> Seq(Request)] /\ toWin' \in [Windows -> Seq(Notice)]
    BY <1>0, <1>3 DEF LoseRenderer
  <2>. QED BY <1>3, <2>2, <2>3 DEF LoseRenderer, TypeOK, Reaped, Unlisted
<1>4. ASSUME NEW w \in Windows, Reload(w) PROVE TypeOK'
  <2>1. LoseRenderer(w)
    BY <1>4 DEF Reload
  <2>. QED BY <1>3, <1>4, <2>1 DEF Reload, LoseRenderer, TypeOK
<1>5. ASSUME NEW w \in Windows, CloseWindow(w) PROVE TypeOK'
  <2>1. LoseRenderer(w)
    BY <1>5 DEF CloseWindow
  <2>2. /\ parked' \in [Windows -> TabMessage \cup {None}] /\ wins' \subseteq 1..lastWin
        /\ booted \ {w} \subseteq wins'
    BY <1>5 DEF CloseWindow, TypeOK
  <2>. QED BY <1>3, <2>1, <2>2 DEF LoseRenderer, TypeOK
<1>. QED BY <1>1, <1>2, <1>4, <1>5

LEMMA TypeStep ==
    ASSUME TypeOK, Addressed, [Next]_vars
    PROVE  TypeOK'
<1>1. ASSUME NEW w \in Windows, Renderer(w) \/ Main(w) \/ Boot(w) \/ User(w) PROVE TypeOK'
  BY <1>1, RendererTypes, MainTypes, DropTypes, WindowTypes, UserTypes DEF Main, User
<1>2. ASSUME NEW i \in PaneIds, CloseTerminal(i) \/ FinishCreate(i) \/ PtyExit(i) PROVE TypeOK'
  BY <1>2, CloseTypes, ShellTypes
<1>3. CASE NewWindow
  BY <1>3, WindowTypes
<1>4. CASE UNCHANGED vars
  BY <1>4 DEF TypeOK, vars, ptyVars
<1>. QED BY <1>1, <1>2, <1>3, <1>4 DEF Next

-----------------------------------------------------------------------------
(* One place.                                                              *)

\* What a step sends to main, or takes from there, is not the end of a drag.
AsksQuietly(v) ==
    \/ toMain'[v] = toMain[v]
    \/ /\ v \in booted
       /\ \/ toMain[v] # <<>> /\ toMain'[v] = Tail(toMain[v])
          \/ \E m \in Seq(Request) : "end" \notin Ops(m) /\ toMain'[v] = toMain[v] \o m

\* What a step tells a window, or a window hears, is nothing about the tab, but for
\* the word to let it go.
HearsQuietly(v) ==
    \/ toWin'[v] = toWin[v]
    \/ /\ v \in booted
       /\ \/ /\ toWin[v] # <<>> /\ toWin'[v] = Tail(toWin[v])
             /\ Head(toWin[v]).op = "moved" => tab'[v] = None
          \/ \E n \in Notice : n.op \notin {"tab", "moved"} /\ toWin'[v] = toWin[v] \o <<n>>

\* A step that says nothing about the tab.
Quiet == /\ UNCHANGED <<booted, parked, moves>>
         /\ \A v \in Windows : AsksQuietly(v) /\ HearsQuietly(v) /\ tab'[v] \in {tab[v], None}

LEMMA Shrinks ==
    ASSUME OnePlace, \A w \in Windows : (Holds(w)' => Holds(w)) /\ (Gets(w)' => Gets(w))
    PROVE  OnePlace'
BY DEF OnePlace

LEMMA AsksQuietlyKeeps ==
    ASSUME TypeOK, NEW v \in Windows, AsksQuietly(v), OneEnd(toMain[v]), v \notin booted => toMain[v] = <<>>
    PROVE  /\ "end" \in Ops(toMain'[v]) => "end" \in Ops(toMain[v])
           /\ OneEnd(toMain'[v]) /\ (v \notin booted => toMain'[v] = <<>>)
<1>1. toMain[v] \in Seq(Request)
  BY DEF TypeOK
<1>2. CASE toMain'[v] = toMain[v]
  BY <1>2
<1>3. CASE v \in booted /\ toMain[v] # <<>> /\ toMain'[v] = Tail(toMain[v])
  BY <1>1, <1>3, TailKeeps, TailInOrder
<1>4. ASSUME v \in booted, NEW m \in Seq(Request), "end" \notin Ops(m), toMain'[v] = toMain[v] \o m
      PROVE  /\ "end" \in Ops(toMain'[v]) => "end" \in Ops(toMain[v])
             /\ OneEnd(toMain'[v])
  BY <1>1, <1>4, SendAdds, SentInOrder
<1>. QED BY <1>2, <1>3, <1>4 DEF AsksQuietly

LEMMA HearsQuietlyKeeps ==
    ASSUME TypeOK, NEW v \in Windows, HearsQuietly(v), TabLast(toWin[v]), v \notin booted => toWin[v] = <<>>
    PROVE  /\ "tab" \in Ops(toWin'[v]) => "tab" \in Ops(toWin[v])
           /\ "moved" \in Ops(toWin[v]) => "moved" \in Ops(toWin'[v]) \/ tab'[v] = None
           /\ TabLast(toWin'[v]) /\ (v \notin booted => toWin'[v] = <<>>)
<1>1. toWin[v] \in Seq(Notice)
  BY DEF TypeOK
<1>2. CASE toWin'[v] = toWin[v]
  BY <1>2
<1>3. CASE /\ v \in booted /\ toWin[v] # <<>> /\ toWin'[v] = Tail(toWin[v])
           /\ Head(toWin[v]).op = "moved" => tab'[v] = None
  BY <1>1, <1>3, TailKeeps, TailInOrder
<1>4. ASSUME v \in booted, NEW n \in Notice, n.op \notin {"tab", "moved"}, toWin'[v] = toWin[v] \o <<n>>
      PROVE  /\ "tab" \in Ops(toWin'[v]) => "tab" \in Ops(toWin[v])
             /\ "moved" \in Ops(toWin[v]) => "moved" \in Ops(toWin'[v])
             /\ TabLast(toWin'[v])
  <2>1. Ops(toWin'[v]) = Ops(toWin[v]) \cup {n.op}
    BY <1>1, <1>4, TellAdds
  <2>2. TabLast(toWin'[v])
    BY <1>1, <1>4, ToldInOrder
  <2>. QED BY <1>4, <2>1, <2>2
<1>. QED BY <1>2, <1>3, <1>4 DEF HearsQuietly

\* Such a step leaves the tab where it is, or drops it.
LEMMA Quietly ==
    ASSUME TypeOK, OnePlace, Tidy, Quiet
    PROVE  OnePlace' /\ Tidy'
<1>1. ASSUME NEW v \in Windows
      PROVE  /\ (Holds(v)' => Holds(v)) /\ (Gets(v)' => Gets(v))
             /\ TabLast(toWin'[v]) /\ OneEnd(toMain'[v])
             /\ v \in booted => parked[v] = None
             /\ v \notin booted => toMain'[v] = <<>> /\ toWin'[v] = <<>> /\ tab'[v] = None
  <2>1. /\ TabLast(toWin[v]) /\ OneEnd(toMain[v])
        /\ v \in booted => parked[v] = None
        /\ v \notin booted => toMain[v] = <<>> /\ toWin[v] = <<>> /\ tab[v] = None
    BY DEF Tidy
  <2>2. /\ "end" \in Ops(toMain'[v]) => "end" \in Ops(toMain[v])
        /\ OneEnd(toMain'[v]) /\ (v \notin booted => toMain'[v] = <<>>)
    BY <2>1, AsksQuietlyKeeps DEF Quiet
  <2>3. /\ "tab" \in Ops(toWin'[v]) => "tab" \in Ops(toWin[v])
        /\ "moved" \in Ops(toWin[v]) => "moved" \in Ops(toWin'[v]) \/ tab'[v] = None
        /\ TabLast(toWin'[v]) /\ (v \notin booted => toWin'[v] = <<>>)
    BY <2>1, HearsQuietlyKeeps DEF Quiet
  <2>4. Holds(v)' => Holds(v)
    BY <2>2, <2>3 DEF Holds, Quiet
  <2>5. Gets(v)' => Gets(v)
    BY <2>3 DEF Gets, Quiet
  <2>. QED BY <2>1, <2>2, <2>3, <2>4, <2>5 DEF Quiet
<1>2. OnePlace'
  BY <1>1, Shrinks
<1>3. Tidy'
  BY <1>1 DEF Tidy, Quiet
<1>. QED BY <1>2, <1>3

\* The four quiet uses of a channel.
LEMMA QuietUses ==
    ASSUME TypeOK, NEW w \in Windows
    PROVE  /\ toMain[w] # <<>> /\ w \in booted /\ toMain' = Taken(toMain, w)
                 => \A v \in Windows : AsksQuietly(v)
           /\ \A m \in Seq(Request) :
                 "end" \notin Ops(m) /\ w \in booted /\ toMain' = Sent(toMain, w, m)
                 => \A v \in Windows : AsksQuietly(v)
           /\ /\ toWin[w] # <<>> /\ w \in booted /\ toWin' = Taken(toWin, w)
              /\ Head(toWin[w]).op = "moved" => tab'[w] = None
              => \A v \in Windows : HearsQuietly(v)
           /\ \A n \in Notice :
                 n.op \notin {"tab", "moved"} /\ toWin' = Told(toWin, w, n)
                 => \A v \in Windows : HearsQuietly(v)
<1>1. toMain \in [Windows -> Seq(Request)] /\ toWin \in [Windows -> Seq(Notice)]
  BY DEF TypeOK
<1>2. ASSUME toMain[w] # <<>>, w \in booted, toMain' = Taken(toMain, w), NEW v \in Windows
      PROVE  AsksQuietly(v)
  <2>1. /\ Taken(toMain, w)[w] = Tail(toMain[w])
        /\ v # w => Taken(toMain, w)[v] = toMain[v]
    BY <1>1 DEF Taken
  <2>. QED BY <1>2, <2>1 DEF AsksQuietly
<1>3. ASSUME NEW m \in Seq(Request), "end" \notin Ops(m), w \in booted, toMain' = Sent(toMain, w, m),
             NEW v \in Windows
      PROVE  AsksQuietly(v)
  <2>1. /\ Sent(toMain, w, m)[w] = toMain[w] \o m
        /\ v # w => Sent(toMain, w, m)[v] = toMain[v]
    BY <1>1 DEF Sent
  <2>. QED BY <1>3, <2>1 DEF AsksQuietly
<1>4. ASSUME toWin[w] # <<>>, w \in booted, toWin' = Taken(toWin, w),
             Head(toWin[w]).op = "moved" => tab'[w] = None, NEW v \in Windows
      PROVE  HearsQuietly(v)
  <2>1. /\ Taken(toWin, w)[w] = Tail(toWin[w])
        /\ v # w => Taken(toWin, w)[v] = toWin[v]
    BY <1>1 DEF Taken
  <2>. QED BY <1>4, <2>1 DEF HearsQuietly
<1>5. ASSUME NEW n \in Notice, n.op \notin {"tab", "moved"}, toWin' = Told(toWin, w, n), NEW v \in Windows
      PROVE  HearsQuietly(v)
  <2>1. /\ w \in booted => Told(toWin, w, n)[w] = toWin[w] \o <<n>>
        /\ v # w \/ w \notin booted => Told(toWin, w, n)[v] = toWin[v]
    BY <1>1 DEF Told, Sent
  <2>. QED BY <1>5, <2>1 DEF HearsQuietly
<1>6. /\ toMain[w] # <<>> /\ w \in booted /\ toMain' = Taken(toMain, w)
         => \A v \in Windows : AsksQuietly(v)
      /\ \A m \in Seq(Request) :
            "end" \notin Ops(m) /\ w \in booted /\ toMain' = Sent(toMain, w, m)
            => \A v \in Windows : AsksQuietly(v)
  BY <1>2, <1>3
<1>7. /\ /\ toWin[w] # <<>> /\ w \in booted /\ toWin' = Taken(toWin, w)
         /\ Head(toWin[w]).op = "moved" => tab'[w] = None
         => \A v \in Windows : HearsQuietly(v)
      /\ \A n \in Notice :
            n.op \notin {"tab", "moved"} /\ toWin' = Told(toWin, w, n)
            => \A v \in Windows : HearsQuietly(v)
  BY <1>4, <1>5
<1>. QED BY <1>6, <1>7

LEMMA NoUse ==
    /\ UNCHANGED toMain => \A v \in Windows : AsksQuietly(v)
    /\ UNCHANGED toWin => \A v \in Windows : HearsQuietly(v)
BY DEF AsksQuietly, HearsQuietly

\* What each message to main is, or is not.
LEMMA QuietRequests ==
    ASSUME NEW i \in PaneIds
    PROVE  \A r \in {[op |-> "kill", pty |-> i], [op |-> "create", pane |-> i]} :
              <<r>> \in Seq(Request) /\ "end" \notin Ops(<<r>>)
<1>1. \A r \in {[op |-> "kill", pty |-> i], [op |-> "create", pane |-> i]} :
         r \in Request /\ r.op # "end"
  BY DEF Request
<1>. QED BY <1>1, OneOp

\* A renderer that hears a message other than the tab, or is used.
LEMMA QuietRenderer ==
    ASSUME TypeOK, Tidy, Addressed, NEW w \in Windows,
           \/ HearCreated(w) \/ HearAdopted(w) \/ HearFailed(w) \/ HearExit(w)
           \/ LetGo(w) \/ HearStays(w)
    PROVE  Quiet
<1>1. /\ toWin[w] # <<>> /\ toWin' = Taken(toWin, w) /\ UNCHANGED <<booted, parked, moves>>
      /\ Head(toWin[w]).op = "moved" => tab'[w] = None
      /\ \A v \in Windows : tab'[v] \in {tab[v], None}
  BY DEF HearCreated, HearAdopted, HearFailed, HearExit, LetGo, HearStays, Hears, TypeOK, desktop
<1>2. w \in booted
  BY <1>1 DEF Tidy
<1>3. \A v \in Windows : HearsQuietly(v)
  BY <1>1, <1>2, QuietUses
<1>4. \A v \in Windows : AsksQuietly(v)
  <2>1. CASE HearCreated(w)
    <3>1. PICK i \in PaneIds :
             toMain' = IF panes[i].state \in {"closed", "left"}
                       THEN Sent(toMain, w, <<[op |-> "kill", pty |-> i]>>) ELSE toMain
      BY <2>1, Heads, Contents DEF HearCreated, Hears
    <3>2. /\ <<[op |-> "kill", pty |-> i]>> \in Seq(Request)
          /\ "end" \notin Ops(<<[op |-> "kill", pty |-> i]>>)
      BY QuietRequests
    <3>. QED BY <1>2, <3>1, <3>2, QuietUses, NoUse
  <2>2. CASE HearFailed(w)
    <3>1. PICK ids \in SUBSET PaneIds : toMain' = Sent(toMain, w, KillRequests(ids))
      BY <2>2, FailedCloses
    <3>2. KillRequests(ids) \in Seq(Request) /\ "end" \notin Ops(KillRequests(ids))
      BY Kills
    <3>. QED BY <1>2, <3>1, <3>2, QuietUses
  <2>3. CASE UNCHANGED toMain
    BY <2>3, NoUse
  <2>. QED BY <2>1, <2>2, <2>3 DEF HearAdopted, HearExit, LetGo, HearStays
<1>. QED BY <1>1, <1>3, <1>4 DEF Quiet

LEMMA QuietUser ==
    ASSUME TypeOK, Tidy, Addressed, NEW w \in Windows,
           \/ \E t \in Terms : OpenTerminal(w, t)
           \/ CloseTab(w)
           \/ \E i \in PaneIds : CloseTerminal(i) /\ panes[i].win = w
    PROVE  Quiet
<1>1. /\ UNCHANGED <<booted, parked, moves, toWin>> /\ w \in booted
      /\ \A v \in Windows : tab'[v] \in {tab[v], None}
  BY DEF OpenTerminal, CloseTab, CloseTerminal, ClosePanes, Addressed, Tidy, TypeOK, desktop
<1>2. \A v \in Windows : HearsQuietly(v)
  BY <1>1, NoUse
<1>3. PICK m \in Seq(Request) : "end" \notin Ops(m) /\ toMain' = Sent(toMain, w, m)
  <2>1. ASSUME NEW t \in Terms, OpenTerminal(w, t)
        PROVE  \E m \in Seq(Request) : "end" \notin Ops(m) /\ toMain' = Sent(toMain, w, m)
    <3>1. <<t, tab[w]>> \in PaneIds
      BY <2>1 DEF OpenTerminal, TypeOK, PaneIds
    <3>. QED BY <2>1, <3>1, QuietRequests DEF OpenTerminal
  <2>2. CASE CloseTab(w)
    <3>1. MountedIn(w) \in SUBSET PaneIds
      BY DEF MountedIn
    <3>2. KillRequests(MountedIn(w)) \in Seq(Request) /\ "end" \notin Ops(KillRequests(MountedIn(w)))
      BY <3>1, Kills
    <3>. QED BY <2>2, <3>2 DEF CloseTab, ClosePanes
  <2>3. ASSUME NEW i \in PaneIds, CloseTerminal(i), panes[i].win = w
        PROVE  \E m \in Seq(Request) : "end" \notin Ops(m) /\ toMain' = Sent(toMain, w, m)
    <3>1. KillRequests({i}) \in Seq(Request) /\ "end" \notin Ops(KillRequests({i}))
      BY Kills
    <3>. QED BY <2>3, <3>1 DEF CloseTerminal, ClosePanes
  <2>. QED BY <2>1, <2>2, <2>3
<1>4. \A v \in Windows : AsksQuietly(v)
  BY <1>1, <1>3, QuietUses
<1>. QED BY <1>1, <1>2, <1>4 DEF Quiet

LEMMA QuietMain ==
    ASSUME TypeOK, Tidy, Addressed, NEW w \in Windows,
           BeginCreate(w) \/ Adopt(w) \/ Kill(w)
    PROVE  Quiet
<1>1. /\ toMain[w] # <<>> /\ toMain' = Taken(toMain, w) /\ UNCHANGED <<booted, parked, moves, tab>>
  BY DEF BeginCreate, Adopt, Kill, Asks, desktop
<1>2. w \in booted
  BY <1>1 DEF Tidy
<1>3. \A v \in Windows : AsksQuietly(v)
  BY <1>1, <1>2, QuietUses
<1>4. \A v \in Windows : HearsQuietly(v)
  <2>1. CASE Adopt(w)
    <3>1. PICK i \in PaneIds : \E op \in {"adopted", "failed"} :
             toWin' = Told(toWin, w, [op |-> op, pane |-> i])
      BY <2>1, Heads, Contents DEF Adopt, Asks
    <3>2. \A op \in {"adopted", "failed"} : [op |-> op, pane |-> i] \in Notice
      BY NoticeKinds
    <3>. QED BY <3>1, <3>2, QuietUses
  <2>2. CASE UNCHANGED toWin
    BY <2>2, NoUse
  <2>. QED BY <2>1, <2>2 DEF BeginCreate, Kill
<1>. QED BY <1>1, <1>3, <1>4 DEF Quiet

LEMMA QuietShells ==
    ASSUME TypeOK, Tidy, Addressed, NEW i \in PaneIds, FinishCreate(i) \/ PtyExit(i)
    PROVE  Quiet
<1>1. UNCHANGED <<booted, parked, moves, tab, toMain>>
  BY DEF FinishCreate, PtyExit, desktop
<1>2. \A v \in Windows : AsksQuietly(v)
  BY <1>1, NoUse
<1>3. UNCHANGED toWin \/ \E w \in Windows, n \in Notice :
                             n.op \notin {"tab", "moved"} /\ toWin' = Told(toWin, w, n)
  <2>1. CASE FinishCreate(i)
    <3>1. panes[i].win \in Windows
      BY <2>1 DEF FinishCreate, Addressed
    <3>2. \A op \in {"created", "failed"} : [op |-> op, pane |-> i] \in Notice
      BY NoticeKinds
    <3>3. UNCHANGED toWin \/ \E op \in {"created", "failed"} :
             toWin' = Told(toWin, panes[i].win, [op |-> op, pane |-> i])
      BY <2>1 DEF FinishCreate
    <3>. QED BY <3>1, <3>2, <3>3
  <2>2. CASE PtyExit(i)
    <3>1. owner[i] # None => owner[i] \in Windows
      BY <2>2 DEF PtyExit, TypeOK
    <3>2. [op |-> "exit", pty |-> i] \in Notice
      BY NoticeKinds
    <3>3. UNCHANGED toWin \/ (owner[i] # None /\ toWin' = Told(toWin, owner[i], [op |-> "exit", pty |-> i]))
      BY <2>2 DEF PtyExit
    <3>. QED BY <3>1, <3>2, <3>3
  <2>. QED BY <2>1, <2>2
<1>4. \A v \in Windows : HearsQuietly(v)
  BY <1>3, QuietUses, NoUse
<1>. QED BY <1>1, <1>2, <1>4 DEF Quiet

\* The tab leaves the window that held it for the one it is sent to ...
LEMMA Leaves ==
    ASSUME OnePlace, NEW w \in Windows, NEW to \in Windows, Holds(w),
           \A v \in Windows : /\ Holds(v)' => Holds(v) /\ v # w
                              /\ Gets(v)' => Gets(v) \/ v = to
    PROVE  OnePlace'
BY DEF OnePlace

\* ... and arrives there.
LEMMA Arrives ==
    ASSUME OnePlace, NEW w \in Windows, Gets(w),
           \A v \in Windows : /\ Gets(v)' => Gets(v) /\ v # w
                              /\ Holds(v)' => Holds(v) \/ v = w
    PROVE  OnePlace'
BY DEF OnePlace

LEMMA EndDragPlace ==
    ASSUME TypeOK, OnePlace, Tidy, NEW w \in Windows, NEW canDetach \in BOOLEAN, EndDrag(w, canDetach)
    PROVE  OnePlace' /\ Tidy'
<1> DEFINE r == [op |-> "end", load |-> LoadOf(w), canDetach |-> canDetach]
<1>1. r \in Request /\ r.op = "end"
  BY LoadTypes DEF Request
<1>2. <<r>> \in Seq(Request) /\ Len(<<r>>) = 1 /\ Ops(<<r>>) = {"end"}
  BY <1>1, OneOp
<1>3. /\ UNCHANGED <<booted, parked, tab, toWin>> /\ w \in booted /\ tab[w] # None
      /\ toMain' = Sent(toMain, w, <<r>>) /\ ~DropPending(w)
  BY DEF EndDrag, desktop
<1>. HIDE DEF r
<1>4. toMain \in [Windows -> Seq(Request)] /\ toMain[w] \in Seq(Request) /\ toWin[w] \in Seq(Notice)
  BY DEF TypeOK
<1>5. "end" \notin Ops(toMain[w]) /\ "moved" \notin Ops(toWin[w])
  BY <1>3, <1>4 DEF DropPending, Ops
<1>6. /\ toMain'[w] = toMain[w] \o <<r>>
      /\ \A v \in Windows : v # w => toMain'[v] = toMain[v]
  BY <1>3, <1>4 DEF Sent
<1>7. Holds(w)
  BY <1>3, <1>5 DEF Holds
<1>8. OnePlace'
  <2>1. \A v \in Windows : (Holds(v)' => Holds(v)) /\ (Gets(v)' => Gets(v))
    BY <1>3, <1>6, <1>7 DEF Holds, Gets
  <2>. QED BY <2>1, Shrinks
<1>9. OneEnd(toMain'[w])
  BY <1>2, <1>4, <1>5, <1>6, SentInOrder DEF Tidy
<1>10. Tidy'
  BY <1>3, <1>6, <1>9 DEF Tidy
<1>. QED BY <1>8, <1>10

LEMMA HearTabPlace ==
    ASSUME TypeOK, OnePlace, Tidy, NEW w \in Windows, HearTab(w)
    PROVE  OnePlace' /\ Tidy' /\ \A v \in Windows : ~Gets(v)'
<1> DEFINE load == Head(toWin[w]).load
           copy == Head(toWin[w]).copy
           ids == {<<t, copy>> : t \in DOMAIN load}
           m == SetToSeq({[op |-> IF load[i[1]] = None THEN "create" ELSE "adopt", pane |-> i] : i \in ids})
<1>1. /\ UNCHANGED <<booted, parked>> /\ toWin[w] # <<>> /\ Head(toWin[w]).op = "tab"
      /\ toWin' = Taken(toWin, w) /\ toMain' = Sent(toMain, w, m) /\ tab' = [tab EXCEPT ![w] = copy]
  BY DEF HearTab, Hears, desktop
<1>2. load \in Loads /\ copy \in Copies
  BY <1>1, Heads, Contents
<1>3. m \in Seq(Request) /\ "end" \notin Ops(m)
  <2>. HIDE DEF load, copy
  <2>. QED BY <1>2, Mounts
<1>. HIDE DEF load, copy, ids, m
<1>4. /\ toMain \in [Windows -> Seq(Request)] /\ toMain[w] \in Seq(Request)
      /\ toWin \in [Windows -> Seq(Notice)] /\ toWin[w] \in Seq(Notice)
      /\ tab \in [Windows -> Copies \cup {None}]
  BY DEF TypeOK
<1>5. /\ toMain'[w] = toMain[w] \o m /\ toWin'[w] = Tail(toWin[w])
      /\ \A v \in Windows : v # w => /\ toMain'[v] = toMain[v] /\ toWin'[v] = toWin[v]
                                     /\ tab'[v] = tab[v]
  BY <1>1, <1>4 DEF Sent, Taken
<1>6. w \in booted /\ parked[w] = None /\ TabLast(toWin[w]) /\ OneEnd(toMain[w])
  BY <1>1 DEF Tidy
<1>7. /\ TabLast(toWin'[w]) /\ "tab" \notin Ops(toWin'[w])
      /\ "tab" \in Ops(toWin[w])
  BY <1>1, <1>4, <1>5, <1>6, TailInOrder, TailKeeps
<1>8. OneEnd(toMain'[w])
  BY <1>3, <1>4, <1>5, <1>6, SentInOrder
<1>9. OnePlace' /\ \A v \in Windows : ~Gets(v)'
  <2>1. Gets(w) /\ ~Gets(w)'
    BY <1>1, <1>6, <1>7 DEF Gets
  <2>2. \A v \in Windows : /\ Gets(v)' => Gets(v) /\ v # w
                           /\ Holds(v)' => Holds(v) \/ v = w
    BY <1>1, <1>5, <2>1 DEF Holds, Gets
  <2>3. \A v \in Windows : ~Gets(v)'
    BY <2>1, <2>2 DEF OnePlace
  <2>. QED BY <2>1, <2>2, <2>3, Arrives
<1>10. Tidy'
  BY <1>1, <1>5, <1>6, <1>7, <1>8 DEF Tidy
<1>. QED BY <1>9, <1>10

LEMMA DropPlace ==
    ASSUME TypeOK, OnePlace, Tidy, NEW w \in Windows, Drop(w)
    PROVE  OnePlace' /\ Tidy'
<1> DEFINE load == Head(toMain[w]).load
           msg == [op |-> "tab", load |-> load, copy |-> moves + 1]
           moved == Told(toWin, w, [op |-> "moved"])
<1>0. /\ toMain \in [Windows -> Seq(Request)] /\ toMain[w] \in Seq(Request)
      /\ toWin \in [Windows -> Seq(Notice)] /\ wins \subseteq Windows
      /\ moves \in Nat /\ MaxMoves \in Nat
      /\ [op |-> "moved"] \in Notice /\ [op |-> "stays"] \in Notice
  BY BoundsAssumption DEF TypeOK, Copies, Windows, Notice
<1>1. /\ toMain[w] # <<>> /\ Head(toMain[w]).op = "end" /\ toMain' = Taken(toMain, w)
      /\ tab' = tab /\ booted' = booted
  BY DEF Drop, Asks, desktop
<1>2. w \in booted /\ Holds(w) /\ OneEnd(toMain[w])
  BY <1>0, <1>1, TailKeeps DEF Tidy, Holds
<1>3. /\ OneEnd(toMain'[w]) /\ "end" \notin Ops(toMain'[w])
      /\ \A v \in Windows : v # w => toMain'[v] = toMain[v]
  <2>1. toMain'[w] = Tail(toMain[w]) /\ \A v \in Windows : v # w => toMain'[v] = toMain[v]
    BY <1>0, <1>1 DEF Taken
  <2>. QED BY <1>0, <1>1, <1>2, <2>1, TailInOrder
<1>4. moves < MaxMoves => msg \in Notice /\ msg \in TabMessage /\ msg.op = "tab"
  <2>1. load \in Loads
    BY <1>1, Heads, Contents
  <2>2. moves < MaxMoves => moves + 1 \in Copies
    BY <1>0 DEF Copies
  <2>. QED BY <2>1, <2>2 DEF TabMessage, Notice
<1>5. PICK to \in DropTargets(w, Head(toMain[w]).canDetach) :
         \/ /\ to = None
            /\ toWin' = Told(toWin, w, AnswerTo(to))
            /\ UNCHANGED <<desktop, tickets>>
         \/ /\ to \in wins /\ moves < MaxMoves
            /\ toWin' = Told(Told(toWin, w, AnswerTo(to)), to, msg)
            /\ parked' = parked
         \/ /\ to \notin wins \cup {None} /\ moves < MaxMoves
            /\ parked' = [parked EXCEPT ![to] = msg]
            /\ toWin' = Told(toWin, w, AnswerTo(to))
  BY DEF Drop
<1>6. /\ to \in (wins \ {w}) \cup {None} \/ (to = lastWin + 1 /\ to \in Windows /\ to \notin wins)
      /\ to # None => to \in Windows
      /\ None \notin wins
  BY <1>5, Targets, NoneAssumption DEF TypeOK
<1>7. CASE to = None /\ toWin' = Told(toWin, w, AnswerTo(to)) /\ UNCHANGED <<desktop, tickets>>
  <2>1. \A v \in Windows : AsksQuietly(v)
    BY <1>1, <1>2, QuietUses
  <2>2. AnswerTo(to) \in Notice /\ AnswerTo(to).op = "stays"
    BY <1>7, NoticeKinds
  <2>3. \A v \in Windows : HearsQuietly(v)
    BY <1>7, <2>2, QuietUses
  <2>4. UNCHANGED <<booted, parked, moves>>
    BY <1>7 DEF desktop
  <2>5. Quiet
    BY <1>1, <2>1, <2>3, <2>4 DEF Quiet
  <2>. QED BY <2>5, Quietly
<1>. HIDE DEF load, msg
<1>8. /\ moved \in [Windows -> Seq(Notice)] /\ moved[w] = toWin[w] \o <<[op |-> "moved"]>>
      /\ Ops(moved[w]) = Ops(toWin[w]) \cup {"moved"}
      /\ \A v \in Windows : v # w => moved[v] = toWin[v]
  <2>1. [op |-> "moved"].op = "moved" /\ toWin[w] \in Seq(Notice)
    BY <1>0
  <2>2. moved[w] = toWin[w] \o <<[op |-> "moved"]>> /\ \A v \in Windows : v # w => moved[v] = toWin[v]
    BY <1>0, <1>2 DEF Told, Sent
  <2>3. moved \in [Windows -> Seq(Notice)]
    BY <1>0, Channels
  <2>4. \A n \in Notice : Ops(toWin[w] \o <<n>>) = Ops(toWin[w]) \cup {n.op}
    BY <2>1, TellAdds
  <2>5. Ops(toWin[w] \o <<[op |-> "moved"]>>) = Ops(toWin[w]) \cup {"moved"}
    BY <1>0, <2>1, <2>4
  <2>. QED BY <2>2, <2>3, <2>5
<1>9. \A v \in Windows : ~Gets(v) /\ "tab" \notin Ops(toWin[v])
  BY <1>2 DEF OnePlace, Gets
<1>10. \A v \in Windows : TabLast(moved[v]) /\ "tab" \notin Ops(moved[v])
  <2>1. \A v \in Windows : TabLast(toWin[v]) /\ toWin[v] \in Seq(Notice)
    BY <1>0 DEF Tidy
  <2>2. \A n \in Notice : TabLast(toWin[w] \o <<n>>)
    BY <1>9, <2>1, ToldInOrder
  <2>3. \A v \in Windows : TabLast(moved[v])
    BY <1>0, <1>8, <2>1, <2>2
  <2>4. \A v \in Windows : "tab" \notin Ops(moved[v])
    BY <1>8, <1>9
  <2>. QED BY <2>3, <2>4
<1>. HIDE DEF moved
<1>11. CASE /\ to \in wins /\ moves < MaxMoves /\ parked' = parked
            /\ toWin' = Told(Told(toWin, w, AnswerTo(to)), to, msg)
  <2>1. AnswerTo(to) = [op |-> "moved"]
    BY <1>6, <1>11 DEF AnswerTo
  <2>2. toWin' = Told(moved, to, msg) /\ to \in Windows /\ to # w /\ msg \in Notice /\ msg.op = "tab"
    BY <1>0, <1>4, <1>6, <1>11, <2>1 DEF moved
  <2>3. \A v \in Windows : v # to \/ to \notin booted => toWin'[v] = moved[v]
    BY <1>8, <2>2 DEF Told, Sent
  <2>4. to \in booted => toWin'[to] = moved[to] \o <<msg>>
    BY <1>8, <2>2 DEF Told, Sent
  <2>5. to \in booted => Ops(moved[to]) \subseteq Ops(toWin'[to]) /\ TabLast(toWin'[to])
    <3>1. moved[to] \in Seq(Notice)
      BY <1>8, <2>2
    <3>2. Ops(moved[to] \o <<msg>>) = Ops(moved[to]) \cup {msg.op}
      BY <2>2, <3>1, TellAdds
    <3>3. TabLast(moved[to] \o <<msg>>)
      BY <1>10, <2>2, <3>1, ToldInOrder
    <3>. QED BY <2>4, <3>2, <3>3
  <2>6. \A v \in Windows : /\ Ops(moved[v]) \subseteq Ops(toWin'[v]) /\ TabLast(toWin'[v])
                           /\ v # to => toWin'[v] = moved[v]
    BY <1>10, <2>3, <2>5
  <2>7. \A v \in Windows : /\ Holds(v)' => Holds(v) /\ v # w
                           /\ Gets(v)' => Gets(v) \/ v = to
    BY <1>1, <1>3, <1>8, <1>9, <1>10, <1>11, <2>6 DEF Holds, Gets
  <2>8. OnePlace'
    BY <1>2, <2>2, <2>7, Leaves
  <2>9. \A v \in Windows : v \notin booted => toWin'[v] = <<>>
    BY <1>2, <1>8, <2>3 DEF Tidy
  <2>. QED BY <1>1, <1>2, <1>3, <1>11, <2>6, <2>8, <2>9 DEF Tidy
<1>12. CASE /\ to \notin wins \cup {None} /\ moves < MaxMoves
            /\ parked' = [parked EXCEPT ![to] = msg]
            /\ toWin' = Told(toWin, w, AnswerTo(to))
  <2>1. AnswerTo(to) = [op |-> "moved"]
    BY <1>12 DEF AnswerTo
  <2>2. toWin' = moved /\ to \in Windows /\ to \notin booted
    BY <1>6, <1>12, <2>1 DEF moved, TypeOK
  <2>3. \A v \in Windows : v # to => parked'[v] = parked[v]
    BY <1>12 DEF TypeOK
  <2>4. \A v \in Windows : /\ Holds(v)' => Holds(v) /\ v # w
                           /\ Gets(v)' => Gets(v) \/ v = to
    BY <1>1, <1>3, <1>8, <1>10, <2>2, <2>3 DEF Holds, Gets
  <2>5. OnePlace'
    BY <1>2, <2>2, <2>4, Leaves
  <2>. QED BY <1>1, <1>2, <1>3, <1>8, <1>10, <2>2, <2>3, <2>5 DEF Tidy
<1>. QED BY <1>5, <1>7, <1>11, <1>12

LEMMA WindowPlace ==
    ASSUME TypeOK, OnePlace, Tidy, NewWindow \/ \E w \in Windows : Boot(w) \/ Reload(w) \/ CloseWindow(w)
    PROVE  OnePlace' /\ Tidy'
<1>1. CASE NewWindow
  <2>1. Quiet
    BY <1>1, NoUse DEF NewWindow, Quiet
  <2>. QED BY <2>1, Quietly
<1>2. ASSUME NEW w \in Windows, Boot(w) PROVE OnePlace' /\ Tidy'
  <2>1. /\ booted' = booted \cup {w} /\ UNCHANGED <<tab, toMain>> /\ w \notin booted
        /\ toWin' = IF parked[w] = None THEN toWin ELSE Sent(toWin, w, <<parked[w]>>)
        /\ parked' = [parked EXCEPT ![w] = None]
    BY <1>2 DEF Boot, TakePending
  <2>2. toMain[w] = <<>> /\ toWin[w] = <<>> /\ tab[w] = None
    BY <2>1 DEF Tidy
  <2>3. /\ toWin \in [Windows -> Seq(Notice)] /\ parked \in [Windows -> TabMessage \cup {None}]
    BY DEF TypeOK
  <2>4. /\ parked'[w] = None
        /\ \A v \in Windows : v # w => parked'[v] = parked[v] /\ toWin'[v] = toWin[v]
    BY <2>1, <2>3 DEF Sent
  <2>5. parked[w] = None => toWin'[w] = <<>>
    BY <2>1, <2>2
  <2>6. parked[w] # None => /\ parked[w] \in Notice /\ toWin'[w] = <<parked[w]>>
    <3>1. parked[w] # None => parked[w] \in Notice
      BY <2>3, Contents
    <3>2. parked[w] # None => toWin'[w] = <<>> \o <<parked[w]>>
      BY <2>1, <2>2, <2>3 DEF Sent
    <3>. QED BY <3>1, <3>2
  <2>7. TabLast(toWin'[w])
    <3>1. CASE parked[w] = None
      BY <2>5, <3>1 DEF TabLast
    <3>2. CASE parked[w] # None
      BY <2>6, <3>2 DEF TabLast
    <3>. QED BY <3>1, <3>2
  <2>8. \A v \in Windows : (Holds(v)' => Holds(v)) /\ (Gets(v)' => Gets(v))
    <3>1. parked[w] = None => Ops(toWin'[w]) = {}
      BY <2>5 DEF Ops
    <3>2. ASSUME NEW v \in Windows, v # w PROVE (Holds(v)' => Holds(v)) /\ (Gets(v)' => Gets(v))
      BY <2>1, <2>4, <3>2 DEF Holds, Gets
    <3>3. Holds(w)' => Holds(w)
      BY <2>1, <2>2 DEF Holds
    <3>4. Gets(w)' => Gets(w)
      BY <2>4, <3>1 DEF Gets
    <3>. QED BY <3>2, <3>3, <3>4
  <2>9. OnePlace'
    BY <2>8, Shrinks
  <2>. QED BY <2>1, <2>4, <2>7, <2>9 DEF Tidy
<1>3. ASSUME NEW w \in Windows, Reload(w) \/ CloseWindow(w) PROVE OnePlace' /\ Tidy'
  <2>1. /\ booted' = booted \ {w} /\ tab' = [tab EXCEPT ![w] = None]
        /\ toMain' = [toMain EXCEPT ![w] = <<>>] /\ toWin' = [toWin EXCEPT ![w] = <<>>]
        /\ parked' = parked \/ parked' = [parked EXCEPT ![w] = None]
    BY <1>3 DEF Reload, CloseWindow, LoseRenderer, Unlisted
  <2>2. /\ tab'[w] = None /\ toMain'[w] = <<>> /\ toWin'[w] = <<>> /\ parked'[w] \in {parked[w], None}
        /\ \A v \in Windows : v # w => /\ tab'[v] = tab[v] /\ toMain'[v] = toMain[v]
                                       /\ toWin'[v] = toWin[v] /\ parked'[v] = parked[v]
    BY <2>1 DEF TypeOK
  <2>3. \A v \in Windows : (Holds(v)' => Holds(v)) /\ (Gets(v)' => Gets(v))
    <3>1. Ops(<<>>) = {}
      BY DEF Ops
    <3>. QED BY <2>2, <3>1 DEF Holds, Gets
  <2>4. OnePlace'
    BY <2>3, Shrinks
  <2>5. TabLast(<<>>) /\ OneEnd(<<>>)
    BY DEF TabLast, OneEnd
  <2>. QED BY <2>1, <2>2, <2>4, <2>5 DEF Tidy
<1>. QED BY <1>1, <1>2, <1>3

LEMMA PlaceStep ==
    ASSUME TypeOK, OnePlace, Tidy, Addressed, [Next]_vars
    PROVE  OnePlace' /\ Tidy'
<1>1. ASSUME NEW w \in Windows, Renderer(w) PROVE OnePlace' /\ Tidy'
  BY <1>1, QuietRenderer, Quietly, HearTabPlace DEF Renderer
<1>2. ASSUME NEW w \in Windows, Main(w) PROVE OnePlace' /\ Tidy'
  BY <1>2, QuietMain, Quietly, DropPlace DEF Main
<1>3. ASSUME NEW w \in Windows, Boot(w) \/ User(w) PROVE OnePlace' /\ Tidy'
  BY <1>3, QuietUser, Quietly, EndDragPlace, WindowPlace DEF User
<1>4. ASSUME NEW i \in PaneIds, CloseTerminal(i) \/ FinishCreate(i) \/ PtyExit(i)
      PROVE  OnePlace' /\ Tidy'
  <2>1. CASE CloseTerminal(i)
    <3>1. panes[i].win \in Windows
      BY <2>1 DEF CloseTerminal, Mounted, Addressed
    <3>. QED BY <2>1, <3>1, QuietUser, Quietly
  <2>. QED BY <1>4, <2>1, QuietShells, Quietly
<1>5. CASE NewWindow
  BY <1>5, WindowPlace
<1>6. CASE UNCHANGED vars
  <2>1. UNCHANGED <<booted, parked, moves, tab, toMain, toWin>>
    BY <1>6 DEF vars
  <2>2. Quiet
    BY <2>1, NoUse DEF Quiet
  <2>. QED BY <2>2, Quietly
<1>. QED BY <1>1, <1>2, <1>3, <1>4, <1>5, <1>6 DEF Next

-----------------------------------------------------------------------------
(* A fresh copy.                                                           *)

LEMMA NoneIsNoCopy == \A c \in Copies : c # None
BY NoneAssumption DEF Copies

LEMMA QuietTabs ==
    ASSUME TypeOK, NEW v \in Windows, HearsQuietly(v)
    PROVE  \A k \in 1..Len(toWin'[v]) : toWin'[v][k].op = "tab"
              => \E j \in 1..Len(toWin[v]) : toWin[v][j] = toWin'[v][k]
<1>1. toWin[v] \in Seq(Notice)
  BY DEF TypeOK
<1>2. CASE toWin'[v] = toWin[v]
  BY <1>2
<1>3. CASE toWin[v] # <<>> /\ toWin'[v] = Tail(toWin[v])
  <2>1. \A k \in 1..Len(Tail(toWin[v])) : k + 1 \in 1..Len(toWin[v]) /\ Tail(toWin[v])[k] = toWin[v][k + 1]
    BY <1>1, <1>3, TailKeeps
  <2>. QED BY <1>3, <2>1
<1>4. ASSUME NEW n \in Notice, n.op \notin {"tab", "moved"}, toWin'[v] = toWin[v] \o <<n>>
      PROVE  \A k \in 1..Len(toWin'[v]) : toWin'[v][k].op = "tab"
                => \E j \in 1..Len(toWin[v]) : toWin[v][j] = toWin'[v][k]
  <2>1. <<n>> \in Seq(Notice) /\ Len(<<n>>) = 1 /\ <<n>>[1] = n
    OBVIOUS
  <2>2. \A k \in 1..Len(toWin[v] \o <<n>>) :
           \/ k \in 1..Len(toWin[v]) /\ (toWin[v] \o <<n>>)[k] = toWin[v][k]
           \/ (toWin[v] \o <<n>>)[k] = n
    BY <1>1, <2>1
  <2>. QED BY <1>4, <2>2
<1>. QED BY <1>2, <1>3, <1>4 DEF HearsQuietly

\* A quiet step that takes no pane of an unused copy keeps the copy fresh.
LEMMA QuietFresh ==
    ASSUME TypeOK, Fresh, Quiet,
           \A c \in Copies : Unused(c) => \A t \in Terms : panes'[<<t, c>>].state = "unused"
    PROVE  Fresh'
<1>1. moves' = moves /\ parked' = parked /\ moves \in Copies
  BY DEF Quiet, TypeOK
<1>2. \A c \in Copies : Unused(c) => Unused(c)'
  BY NoneIsNoCopy DEF Unused, Quiet
<1>3. \A v \in Windows : \A k \in 1..Len(toWin'[v]) : toWin'[v][k].op = "tab"
              => \E j \in 1..Len(toWin[v]) : toWin[v][j] = toWin'[v][k]
  BY QuietTabs DEF Quiet
<1>4. \A v \in Windows : Gets(v)' => Gets(v)
  BY <1>1, <1>3 DEF Gets, Ops
<1>5. \A w \in Windows : \A k \in 1..Len(toWin'[w]) : toWin'[w][k].op = "tab" => toWin'[w][k].copy = moves
  BY <1>3 DEF Fresh
<1>6. \A w \in Windows : parked'[w] # None => parked'[w].copy = moves
  BY <1>1 DEF Fresh
<1>. QED BY <1>1, <1>2, <1>4, <1>5, <1>6 DEF Fresh

\* Most steps take no pane at all.
LEMMA NoPaneTaken ==
    ASSUME TypeOK, Addressed, Tidy,
           \/ \E w \in Windows : \/ HearCreated(w) \/ HearAdopted(w) \/ HearFailed(w) \/ HearExit(w)
                                 \/ LetGo(w) \/ HearStays(w) \/ BeginCreate(w) \/ Adopt(w) \/ Kill(w)
                                 \/ CloseTab(w) \/ LoseRenderer(w)
           \/ \E i \in PaneIds : CloseTerminal(i) \/ FinishCreate(i) \/ PtyExit(i)
    PROVE  \A i \in PaneIds : panes[i].state = "unused" => panes'[i].state = "unused"
<1>1. ASSUME NEW w \in Windows, HearCreated(w) \/ HearAdopted(w), NEW i \in PaneIds,
             panes[i].state = "unused"
      PROVE  panes'[i].state = "unused"
  <2>1. PICK j \in PaneIds : panes' = panes \/ (panes[j].state = "waiting" /\
            (\/ panes' = [panes EXCEPT ![j].pty = j, ![j].state = "up"]
             \/ panes' = [panes EXCEPT ![j].state = "up"]))
    BY <1>1, Heads, Contents DEF HearCreated, HearAdopted, Hears
  <2>. QED BY <1>1, <2>1 DEF TypeOK
<1>2. ASSUME NEW w \in Windows, NEW i \in PaneIds, panes[i].state = "unused",
             HearFailed(w) \/ HearExit(w) \/ LetGo(w) \/ CloseTab(w) \/ LoseRenderer(w)
      PROVE  panes'[i].state = "unused"
  <2>1. HearFailed(w) => panes'[i].state = "unused"
    BY <1>2, FailedCloses DEF MountedIn, Mounted
  <2>. QED BY <1>2, <2>1 DEF HearExit, LetGo, CloseTab, ClosePanes, LoseRenderer, MountedIn, Mounted
<1>3. ASSUME NEW j \in PaneIds, CloseTerminal(j), NEW i \in PaneIds, panes[i].state = "unused"
      PROVE  panes'[i].state = "unused"
  BY <1>3 DEF CloseTerminal, ClosePanes, Mounted
<1>4. CASE UNCHANGED panes
  BY <1>4
<1>5. ASSUME NEW w \in Windows, HearStays(w) \/ BeginCreate(w) \/ Adopt(w) \/ Kill(w)
      PROVE  UNCHANGED panes
  BY <1>5 DEF HearStays, BeginCreate, Adopt, Kill
<1>6. ASSUME NEW i \in PaneIds, FinishCreate(i) \/ PtyExit(i) PROVE UNCHANGED panes
  BY <1>6 DEF FinishCreate, PtyExit
<1>. QED BY <1>1, <1>2, <1>3, <1>4, <1>5, <1>6

LEMMA NoPaneNoCopy ==
    ASSUME \A i \in PaneIds : panes[i].state = "unused" => panes'[i].state = "unused"
    PROVE  \A c \in Copies : Unused(c) => \A t \in Terms : panes'[<<t, c>>].state = "unused"
<1>1. \A t \in Terms, c \in Copies : <<t, c>> \in PaneIds
  BY DEF PaneIds
<1>. QED BY <1>1 DEF Unused

LEMMA HearTabFresh ==
    ASSUME TypeOK, OnePlace, Tidy, Fresh, NEW w \in Windows, HearTab(w)
    PROVE  Fresh'
<1> DEFINE load == Head(toWin[w]).load
           copy == Head(toWin[w]).copy
           ids == {<<t, copy>> : t \in DOMAIN load}
<1>1. /\ toWin[w] # <<>> /\ Head(toWin[w]).op = "tab" /\ UNCHANGED <<moves, parked>>
      /\ tab' = [tab EXCEPT ![w] = copy]
      /\ \A i \in PaneIds : i \notin ids => panes'[i] = panes[i]
  BY DEF HearTab, Hears, desktop
<1>2. \A v \in Windows : ~Gets(v)'
  BY HearTabPlace
<1>3. copy = moves /\ moves \in Nat
  <2>1. 1 \in 1..Len(toWin[w]) /\ Head(toWin[w]) = toWin[w][1]
    BY <1>1, TailKeeps DEF TypeOK
  <2>2. \A k \in 1..Len(toWin[w]) : toWin[w][k].op = "tab" => toWin[w][k].copy = moves
    BY DEF Fresh
  <2>3. moves \in Nat
    BY DEF TypeOK, Copies
  <2>. QED BY <1>1, <2>1, <2>2, <2>3
<1>4. ASSUME NEW c \in Copies, c > moves PROVE Unused(c)'
  <2>1. Unused(c) /\ c # moves
    BY <1>3, <1>4 DEF Fresh, Copies
  <2>2. \A v \in Windows : tab'[v] # c
    BY <1>1, <1>3, <2>1 DEF Unused, TypeOK
  <2>3. \A t \in Terms : <<t, c>> \in PaneIds /\ <<t, c>> \notin ids
    BY <1>3, <2>1 DEF PaneIds
  <2>4. \A t \in Terms : panes'[<<t, c>>].state = "unused"
    BY <1>1, <2>1, <2>3 DEF Unused
  <2>. QED BY <2>2, <2>4 DEF Unused
<1>. HIDE DEF load, copy, ids
<1>. QED BY <1>1, <1>2, <1>4 DEF Fresh, Gets, Ops

LEMMA DropFresh ==
    ASSUME TypeOK, OnePlace, Tidy, Fresh, NEW w \in Windows, Drop(w)
    PROVE  Fresh'
<1> DEFINE load == Head(toMain[w]).load
           msg == [op |-> "tab", load |-> load, copy |-> moves + 1]
<1>0. /\ toMain[w] \in Seq(Request) /\ toWin \in [Windows -> Seq(Notice)] /\ wins \subseteq Windows
      /\ moves \in Nat /\ MaxMoves \in Nat /\ parked \in [Windows -> TabMessage \cup {None}]
  BY BoundsAssumption DEF TypeOK, Copies, Windows
<1>1. /\ toMain[w] # <<>> /\ Head(toMain[w]).op = "end" /\ tab' = tab /\ panes' = panes
  BY DEF Drop, Asks, desktop
<1>2. \A v \in Windows : ~Gets(v)
  <2>1. Holds(w)
    BY <1>0, <1>1, TailKeeps DEF Holds
  <2>. QED BY <2>1 DEF OnePlace
<1>3. \A v \in Windows : parked[v] = None /\ \A k \in 1..Len(toWin[v]) : toWin[v][k].op # "tab"
  BY <1>2 DEF Gets, Ops
<1>4. PICK to \in DropTargets(w, Head(toMain[w]).canDetach) :
         \/ /\ to = None
            /\ toWin' = Told(toWin, w, AnswerTo(to))
            /\ parked' = parked /\ moves' = moves
         \/ /\ to \in wins /\ moves < MaxMoves
            /\ toWin' = Told(Told(toWin, w, AnswerTo(to)), to, msg)
            /\ parked' = parked /\ moves' = moves + 1
         \/ /\ to \notin wins \cup {None} /\ moves < MaxMoves
            /\ parked' = [parked EXCEPT ![to] = msg]
            /\ toWin' = Told(toWin, w, AnswerTo(to)) /\ moves' = moves + 1
  BY DEF Drop, desktop
<1>5. AnswerTo(to) \in Notice /\ AnswerTo(to).op # "tab"
  BY NoticeKinds
<1>6. moves < MaxMoves => msg \in Notice /\ msg.op = "tab" /\ msg.copy = moves + 1
  <2>1. load \in Loads
    BY <1>1, Heads, Contents
  <2>2. moves < MaxMoves => moves + 1 \in Copies
    BY <1>0 DEF Copies
  <2>. QED BY <2>1, <2>2 DEF TabMessage, Notice
<1>. HIDE DEF load, msg
<1>7. ASSUME NEW qs \in [Windows -> Seq(Notice)], NEW u \in Windows, NEW n \in Notice, NEW v \in Windows,
             NEW k \in 1..Len(Told(qs, u, n)[v])
      PROVE  (k \in 1..Len(qs[v]) /\ Told(qs, u, n)[v][k] = qs[v][k]) \/ Told(qs, u, n)[v][k] = n
  <2>1. CASE Told(qs, u, n)[v] = qs[v]
    BY <2>1
  <2>2. CASE Told(qs, u, n)[v] = qs[v] \o <<n>>
    BY <2>2
  <2>3. Told(qs, u, n)[v] = qs[v] \/ Told(qs, u, n)[v] = qs[v] \o <<n>>
    BY DEF Told, Sent
  <2>. QED BY <2>1, <2>2, <2>3
<1>8. /\ Told(toWin, w, AnswerTo(to)) \in [Windows -> Seq(Notice)]
      /\ \A v \in Windows : \A k \in 1..Len(Told(toWin, w, AnswerTo(to))[v]) :
            Told(toWin, w, AnswerTo(to))[v][k].op # "tab"
  <2>1. Told(toWin, w, AnswerTo(to)) \in [Windows -> Seq(Notice)]
    BY <1>0, <1>5, Channels
  <2>2. ASSUME NEW v \in Windows, NEW k \in 1..Len(Told(toWin, w, AnswerTo(to))[v])
        PROVE  Told(toWin, w, AnswerTo(to))[v][k].op # "tab"
    <3>1. PICK n \in Notice : n = AnswerTo(to) /\ n.op # "tab"
      BY <1>5
    <3>2. k \in 1..Len(Told(toWin, w, n)[v])
      BY <3>1
    <3>3. \/ k \in 1..Len(toWin[v]) /\ Told(toWin, w, n)[v][k] = toWin[v][k]
          \/ Told(toWin, w, n)[v][k] = n
      <4>1. toWin[v] \in Seq(Notice)
        BY <1>0
      <4>2. Told(toWin, w, n)[v] = toWin[v] \/ Told(toWin, w, n)[v] = toWin[v] \o <<n>>
        BY <1>0 DEF Told, Sent
      <4>. QED BY <3>2, <4>1, <4>2
    <3>. QED BY <1>3, <3>1, <3>3
  <2>. QED BY <2>1, <2>2
<1>9. CASE to = None /\ toWin' = Told(toWin, w, AnswerTo(to)) /\ parked' = parked /\ moves' = moves
  <2>1. \A v \in Windows : ~Gets(v)'
    BY <1>3, <1>8, <1>9 DEF Gets, Ops
  <2>2. \A c \in Copies : c > moves => Unused(c)'
    BY <1>1 DEF Fresh, Unused
  <2>. QED BY <1>3, <1>8, <1>9, <2>1, <2>2 DEF Fresh
<1>10. CASE moves < MaxMoves /\ moves' = moves + 1
  <2>1. \A c \in Copies : c > moves => Unused(c)'
    BY <1>1 DEF Fresh, Unused
  <2>2. PICK new \in Copies : new = moves + 1 /\ new > moves
    BY <1>0, <1>10 DEF Copies
  <2>3. Unused(new)' /\ \A c \in Copies : c > new => Unused(c)'
    BY <1>0, <2>1, <2>2 DEF Copies
  <2>4. \A v \in Windows : parked'[v] # None => parked'[v].copy = moves + 1
    BY <1>0, <1>3, <1>4, <1>6, <1>10
  <2>5. \A v \in Windows : \A k \in 1..Len(toWin'[v]) : toWin'[v][k].op = "tab" => toWin'[v][k].copy = moves + 1
    <3>1. CASE to \in wins /\ toWin' = Told(Told(toWin, w, AnswerTo(to)), to, msg)
      <4> DEFINE qs == Told(toWin, w, AnswerTo(to))
      <4>1. to \in Windows /\ msg \in Notice /\ msg.copy = moves + 1
        BY <1>0, <1>6, <1>10, <3>1
      <4>2. /\ qs \in [Windows -> Seq(Notice)] /\ toWin' = Told(qs, to, msg)
            /\ \A v \in Windows : \A k \in 1..Len(qs[v]) : qs[v][k].op # "tab"
        BY <1>8, <3>1
      <4>. HIDE DEF qs
      <4>3. ASSUME NEW v \in Windows, NEW k \in 1..Len(toWin'[v]), toWin'[v][k].op = "tab"
            PROVE  toWin'[v][k].copy = moves + 1
        <5>1. (k \in 1..Len(qs[v]) /\ toWin'[v][k] = qs[v][k]) \/ toWin'[v][k] = msg
          BY <1>7, <4>1, <4>2
        <5>. QED BY <4>1, <4>2, <4>3, <5>1
      <4>. QED BY <4>3
    <3>2. CASE toWin' = Told(toWin, w, AnswerTo(to))
      BY <1>8, <3>2
    <3>. QED BY <1>0, <1>4, <1>10, <3>1, <3>2
  <2>6. moves' = new
    BY <1>10, <2>2
  <2>. QED BY <2>2, <2>3, <2>4, <2>5, <2>6 DEF Fresh, Unused
<1>. QED BY <1>4, <1>9, <1>10

LEMMA WindowFresh ==
    ASSUME TypeOK, Tidy, Addressed, Fresh,
           NewWindow \/ \E w \in Windows : Boot(w) \/ Reload(w) \/ CloseWindow(w)
    PROVE  Fresh'
<1>1. CASE NewWindow
  BY <1>1 DEF NewWindow, Fresh, Unused, Gets
<1>2. ASSUME NEW w \in Windows, Boot(w) PROVE Fresh'
  <2>1. /\ UNCHANGED <<tab, panes, moves>> /\ w \notin booted
        /\ toWin' = IF parked[w] = None THEN toWin ELSE Sent(toWin, w, <<parked[w]>>)
        /\ parked' = [parked EXCEPT ![w] = None]
    BY <1>2 DEF Boot, TakePending
  <2>2. toWin[w] = <<>>
    BY <2>1 DEF Tidy
  <2>3. /\ toWin \in [Windows -> Seq(Notice)] /\ parked \in [Windows -> TabMessage \cup {None}]
    BY DEF TypeOK
  <2>4. /\ parked'[w] = None
        /\ \A v \in Windows : v # w => parked'[v] = parked[v] /\ toWin'[v] = toWin[v]
    BY <2>1, <2>3 DEF Sent
  <2>5. \A k \in 1..Len(toWin'[w]) : parked[w] # None /\ toWin'[w][k] = parked[w]
    <3>1. parked[w] = None => toWin'[w] = <<>>
      BY <2>1, <2>2
    <3>2. parked[w] # None => toWin'[w] = <<>> \o <<parked[w]>>
      BY <2>1, <2>2, <2>3 DEF Sent
    <3>3. parked[w] # None => toWin'[w] = <<parked[w]>>
      <4>1. parked[w] # None => parked[w] \in Notice
        BY <2>3, Contents
      <4>. QED BY <3>2, <4>1
    <3>. QED BY <3>1, <3>3
  <2>6. \A v \in Windows : Gets(v)' => Gets(v)
    BY <2>4, <2>5 DEF Gets, Ops
  <2>7. \A c \in Copies : Unused(c) => Unused(c)'
    BY <2>1 DEF Unused
  <2>8. moves \in Copies
    BY DEF TypeOK
  <2>9. \A v \in Windows : \A k \in 1..Len(toWin'[v]) : toWin'[v][k].op = "tab" => toWin'[v][k].copy = moves
    BY <2>4, <2>5 DEF Fresh
  <2>10. \A v \in Windows : parked'[v] # None => parked'[v].copy = moves
    BY <2>4 DEF Fresh
  <2>. QED BY <2>1, <2>6, <2>7, <2>8, <2>9, <2>10 DEF Fresh
<1>3. ASSUME NEW w \in Windows, Reload(w) \/ CloseWindow(w) PROVE Fresh'
  <2>1. /\ moves' = moves /\ tab' = [tab EXCEPT ![w] = None] /\ toWin' = [toWin EXCEPT ![w] = <<>>]
        /\ parked' = parked \/ parked' = [parked EXCEPT ![w] = None]
        /\ LoseRenderer(w)
    BY <1>3 DEF Reload, CloseWindow, LoseRenderer
  <2>2. /\ tab'[w] = None /\ toWin'[w] = <<>> /\ parked'[w] \in {parked[w], None}
        /\ \A v \in Windows : v # w => tab'[v] = tab[v] /\ toWin'[v] = toWin[v] /\ parked'[v] = parked[v]
    BY <2>1 DEF TypeOK
  <2>3. \A v \in Windows : Gets(v)' => Gets(v)
    BY <2>2 DEF Gets, Ops
  <2>4. \A c \in Copies : Unused(c) => Unused(c)'
    <3>1. \A c \in Copies : Unused(c) => \A t \in Terms : panes'[<<t, c>>].state = "unused"
      BY <2>1, NoPaneTaken, NoPaneNoCopy
    <3>. QED BY <2>2, <3>1, NoneIsNoCopy DEF Unused
  <2>5. moves \in Copies
    BY DEF TypeOK
  <2>6. \A v \in Windows : \A k \in 1..Len(toWin'[v]) : toWin'[v][k].op = "tab" => toWin'[v][k].copy = moves
    BY <2>2 DEF Fresh
  <2>7. \A v \in Windows : parked'[v] # None => parked'[v].copy = moves
    BY <2>2 DEF Fresh
  <2>. QED BY <2>1, <2>3, <2>4, <2>5, <2>6, <2>7 DEF Fresh
<1>. QED BY <1>1, <1>2, <1>3

LEMMA FreshStep ==
    ASSUME TypeOK, OnePlace, Tidy, Fresh, Addressed, [Next]_vars
    PROVE  Fresh'
<1>1. ASSUME NEW w \in Windows,
             \/ HearCreated(w) \/ HearAdopted(w) \/ HearFailed(w) \/ HearExit(w) \/ LetGo(w)
             \/ HearStays(w) \/ BeginCreate(w) \/ Adopt(w) \/ Kill(w) \/ CloseTab(w)
      PROVE  Fresh'
  <2>1. Quiet
    BY <1>1, QuietRenderer, QuietMain, QuietUser
  <2>2. \A i \in PaneIds : panes[i].state = "unused" => panes'[i].state = "unused"
    BY <1>1, NoPaneTaken
  <2>. QED BY <2>1, <2>2, NoPaneNoCopy, QuietFresh
<1>2. ASSUME NEW i \in PaneIds, CloseTerminal(i) \/ FinishCreate(i) \/ PtyExit(i) PROVE Fresh'
  <2>1. CloseTerminal(i) => panes[i].win \in Windows
    BY DEF CloseTerminal, Mounted, Addressed
  <2>2. Quiet
    BY <1>2, <2>1, QuietUser, QuietShells
  <2>3. \A j \in PaneIds : panes[j].state = "unused" => panes'[j].state = "unused"
    BY <1>2, NoPaneTaken
  <2>. QED BY <2>2, <2>3, NoPaneNoCopy, QuietFresh
<1>3. ASSUME NEW w \in Windows, NEW t \in Terms, OpenTerminal(w, t) PROVE Fresh'
  <2>1. Quiet
    BY <1>3, QuietUser
  <2>2. \A c \in Copies : Unused(c) => \A u \in Terms : panes'[<<u, c>>].state = "unused"
    <3>1. ASSUME NEW c \in Copies, Unused(c), NEW u \in Terms PROVE panes'[<<u, c>>].state = "unused"
      <4>1. <<u, c>> \in PaneIds /\ <<u, c>> # <<t, tab[w]>>
        BY <3>1 DEF PaneIds, Unused
      <4>2. panes'[<<u, c>>] = panes[<<u, c>>]
        BY <1>3, <4>1 DEF OpenTerminal, TypeOK
      <4>. QED BY <3>1, <4>2 DEF Unused
    <3>. QED BY <3>1
  <2>. QED BY <2>1, <2>2, QuietFresh
<1>4. ASSUME NEW w \in Windows, NEW canDetach \in BOOLEAN, EndDrag(w, canDetach) PROVE Fresh'
  BY <1>4 DEF EndDrag, desktop, Fresh, Unused, Gets
<1>5. ASSUME NEW w \in Windows, HearTab(w) \/ Drop(w) PROVE Fresh'
  BY <1>5, HearTabFresh, DropFresh
<1>6. ASSUME NEW w \in Windows, Boot(w) \/ Reload(w) \/ CloseWindow(w) PROVE Fresh'
  BY <1>6, WindowFresh
<1>7. CASE NewWindow
  BY <1>7, WindowFresh
<1>8. CASE UNCHANGED vars
  BY <1>8 DEF vars, Fresh, Unused, Gets
<1>9. ASSUME NEW w \in Windows, Renderer(w) \/ Main(w) \/ Boot(w) \/ User(w) PROVE Fresh'
  BY <1>1, <1>3, <1>4, <1>5, <1>6, <1>9 DEF Renderer, Main, User
<1>. QED BY <1>2, <1>7, <1>8, <1>9 DEF Next

-----------------------------------------------------------------------------
(* What is under way for a pane.                                           *)

LEMMA Unconcerned ==
    ASSUME NEW q, NEW w, NEW ps, Ops(q) \cap PaneOps = {}
    PROVE  Concerns(q, w, ps)
BY DEF Ops, Concerns

LEMMA TailConcerns ==
    ASSUME NEW S, NEW q \in Seq(S), NEW w, NEW ps, q # <<>>, Concerns(q, w, ps)
    PROVE  /\ Concerns(Tail(q), w, ps)
           /\ Head(q).op \in PaneOps =>
                 /\ ps[Head(q).pane].state # "unused" /\ ps[Head(q).pane].win = w
                 /\ Head(q).op \in {"adopt", "adopted"} => ps[Head(q).pane].pty # None
<1>1. /\ Head(q) = q[1] /\ 1 \in 1..Len(q)
      /\ \A k \in 1..Len(Tail(q)) : k + 1 \in 1..Len(q) /\ Tail(q)[k] = q[k + 1]
  BY TailKeeps
<1>. QED BY <1>1 DEF Concerns

LEMMA SendConcerns ==
    ASSUME NEW S, NEW q \in Seq(S), NEW m \in Seq(S), NEW w, NEW ps,
           Concerns(q, w, ps), Concerns(m, w, ps)
    PROVE  Concerns(q \o m, w, ps)
<1>1. \A k \in 1..Len(q \o m) : \/ k \in 1..Len(q) /\ (q \o m)[k] = q[k]
                                \/ k - Len(q) \in 1..Len(m) /\ (q \o m)[k] = m[k - Len(q)]
  BY SendAdds
<1>. QED BY <1>1 DEF Concerns

\* The uses of the two channels, for panes as they are after a step.
LEMMA MainConcerns ==
    ASSUME TypeOK, NEW w \in Windows, NEW ps, \A v \in Windows : Concerns(toMain[v], v, ps)
    PROVE  /\ toMain[w] # <<>> => \A v \in Windows : Concerns(Taken(toMain, w)[v], v, ps)
           /\ \A m \in Seq(Request) : Concerns(m, w, ps)
                 => \A v \in Windows : Concerns(Sent(toMain, w, m)[v], v, ps)
<1>1. toMain \in [Windows -> Seq(Request)] /\ toMain[w] \in Seq(Request)
  BY DEF TypeOK
<1>2. ASSUME toMain[w] # <<>>, NEW v \in Windows PROVE Concerns(Taken(toMain, w)[v], v, ps)
  <2>1. Concerns(Tail(toMain[w]), w, ps)
    BY <1>1, <1>2, TailConcerns
  <2>2. Taken(toMain, w)[v] = IF v = w THEN Tail(toMain[w]) ELSE toMain[v]
    BY <1>1 DEF Taken
  <2>. QED BY <2>1, <2>2
<1>3. ASSUME NEW m \in Seq(Request), Concerns(m, w, ps), NEW v \in Windows
      PROVE  Concerns(Sent(toMain, w, m)[v], v, ps)
  <2>1. Concerns(toMain[w] \o m, w, ps)
    BY <1>1, <1>3, SendConcerns
  <2>2. Sent(toMain, w, m)[v] = IF v = w THEN toMain[w] \o m ELSE toMain[v]
    BY <1>1 DEF Sent
  <2>. QED BY <2>1, <2>2
<1>. QED BY <1>2, <1>3

LEMMA WinConcerns ==
    ASSUME TypeOK, NEW w \in Windows, NEW ps, \A v \in Windows : Concerns(toWin[v], v, ps)
    PROVE  /\ toWin[w] # <<>> => \A v \in Windows : Concerns(Taken(toWin, w)[v], v, ps)
           /\ \A n \in Notice : Concerns(<<n>>, w, ps)
                 => \A v \in Windows : Concerns(Told(toWin, w, n)[v], v, ps)
<1>1. toWin \in [Windows -> Seq(Notice)] /\ toWin[w] \in Seq(Notice)
  BY DEF TypeOK
<1>2. ASSUME toWin[w] # <<>>, NEW v \in Windows PROVE Concerns(Taken(toWin, w)[v], v, ps)
  <2>1. Concerns(Tail(toWin[w]), w, ps)
    BY <1>1, <1>2, TailConcerns
  <2>2. Taken(toWin, w)[v] = IF v = w THEN Tail(toWin[w]) ELSE toWin[v]
    BY <1>1 DEF Taken
  <2>. QED BY <2>1, <2>2
<1>3. ASSUME NEW n \in Notice, Concerns(<<n>>, w, ps), NEW v \in Windows
      PROVE  Concerns(Told(toWin, w, n)[v], v, ps)
  <2>1. <<n>> \in Seq(Notice)
    OBVIOUS
  <2>2. Concerns(toWin[w] \o <<n>>, w, ps)
    BY <1>1, <1>3, <2>1, SendConcerns
  <2>3. Told(toWin, w, n)[v] = toWin[v] \/ (v = w /\ Told(toWin, w, n)[v] = toWin[w] \o <<n>>)
    BY <1>1 DEF Told, Sent
  <2>. QED BY <2>2, <2>3
<1>. QED BY <1>2, <1>3

\* A message for a pane and one about none.
LEMMA OneConcern ==
    ASSUME NEW n, NEW w, NEW ps,
           n.op \in PaneOps => /\ ps[n.pane].state # "unused" /\ ps[n.pane].win = w
                               /\ n.op \in {"adopt", "adopted"} => ps[n.pane].pty # None
    PROVE  Concerns(<<n>>, w, ps)
<1>1. \A k \in 1..Len(<<n>>) : <<n>>[k] = n
  OBVIOUS
<1>. QED BY <1>1 DEF Concerns

\* What most steps do to panes: a pane stays where it is and keeps its pty.
Settles ==
    \A i \in PaneIds :
       /\ panes[i].state # "unused" => /\ panes'[i].state # "unused" /\ panes'[i].win = panes[i].win
                                       /\ panes[i].pty # None => panes'[i].pty # None
       /\ panes[i].state = "unused" => panes'[i] = panes[i]
       /\ panes'[i].state = "up" => panes'[i].pty # None
       /\ panes'[i].state \in {"waiting", "up"} => panes[i].state \in {"waiting", "up"}

Placed == \A i \in PaneIds : /\ panes[i].state # "unused" => panes[i].win \in Windows
                             /\ panes[i].state = "up" => panes[i].pty # None
                             /\ Mounted(i) => panes[i].win \in booted

LEMMA SettledPanes ==
    ASSUME TypeOK, Addressed, Settles, booted \subseteq booted'
    PROVE  /\ \A v \in Windows : Concerns(toMain[v], v, panes') /\ Concerns(toWin[v], v, panes')
           /\ Placed'
           /\ \A i \in PaneIds : panes[i].state # "unused" => panes'[i].state # "unused"
<1>1. ASSUME NEW v \in Windows PROVE Concerns(toMain[v], v, panes') /\ Concerns(toWin[v], v, panes')
  <2>1. /\ \A k \in 1..Len(toMain[v]) : toMain[v][k].op \in PaneOps => toMain[v][k].pane \in PaneIds
        /\ \A k \in 1..Len(toWin[v]) : toWin[v][k].op \in PaneOps => toWin[v][k].pane \in PaneIds
    <3>1. /\ \A k \in 1..Len(toMain[v]) : toMain[v][k] \in Request
          /\ \A k \in 1..Len(toWin[v]) : toWin[v][k] \in Notice
      BY DEF TypeOK
    <3>. QED BY <3>1, Contents DEF PaneOps
  <2>2. Concerns(toMain[v], v, panes) /\ Concerns(toWin[v], v, panes)
    BY DEF Addressed
  <2>. QED BY <2>1, <2>2 DEF Concerns, Settles
<1>2. Placed'
  BY DEF Placed, Settles, Addressed, Mounted
<1>3. \A i \in PaneIds : panes[i].state # "unused" => panes'[i].state # "unused"
  BY DEF Settles
<1>. QED BY <1>1, <1>2, <1>3

LEMMA StillPanes ==
    ASSUME Addressed, UNCHANGED panes
    PROVE  Settles
BY DEF Settles, Addressed

LEMMA SetsState ==
    ASSUME TypeOK, Addressed, NEW ids \in SUBSET PaneIds, NEW state \in {"closed", "left"},
           \A i \in ids : Mounted(i),
           panes' = [i \in PaneIds |-> IF i \in ids THEN [panes[i] EXCEPT !.state = state] ELSE panes[i]]
    PROVE  Settles
BY DEF Settles, Addressed, Mounted, TypeOK, Pane

LEMMA HearSettles ==
    ASSUME TypeOK, Addressed, NEW w \in Windows,
           \/ HearCreated(w) \/ HearAdopted(w) \/ HearFailed(w) \/ HearExit(w)
           \/ LetGo(w) \/ HearStays(w)
    PROVE  Settles
<1>1. CASE HearCreated(w) \/ HearAdopted(w)
  <2> DEFINE i == Head(toWin[w]).pane
  <2>1. toWin[w] # <<>> /\ Head(toWin[w]).op \in {"created", "adopted"}
    BY <1>1 DEF HearCreated, HearAdopted, Hears
  <2>2. i \in PaneIds /\ i # None
    BY <2>1, Heads, Contents, NoneAssumption
  <2>3. Head(toWin[w]).op = "adopted" => panes[i].pty # None
    <3>1. toWin[w] \in Seq(Notice) /\ Concerns(toWin[w], w, panes)
      BY DEF TypeOK, Addressed
    <3>. QED BY <2>1, <3>1, TailConcerns DEF PaneOps
  <2>4. panes' = panes \/ (panes[i].state = "waiting" /\
            (\/ panes' = [panes EXCEPT ![i].pty = i, ![i].state = "up"]
             \/ (Head(toWin[w]).op = "adopted" /\ panes' = [panes EXCEPT ![i].state = "up"])))
    BY <1>1 DEF HearCreated, HearAdopted, Hears
  <2>. HIDE DEF i
  <2>5. CASE panes' = panes
    BY <2>5, StillPanes
  <2>6. CASE panes[i].state = "waiting" /\ panes' # panes
    <3>1. panes \in [PaneIds -> Pane] /\ panes[i] \in Pane
      BY <2>2 DEF TypeOK
    <3>2. /\ \A j \in PaneIds : j # i => panes'[j] = panes[j]
          /\ panes'[i].win = panes[i].win /\ panes'[i].state = "up"
          /\ panes'[i].pty \in {panes[i].pty, i}
          /\ panes'[i].state = "up" => panes'[i].pty = i \/ panes[i].pty # None
      BY <2>2, <2>3, <2>4, <2>6, <3>1 DEF Pane
    <3>3. \A j \in PaneIds : j # i =>
             /\ panes[j].state = "up" => panes[j].pty # None
             /\ panes'[j] = panes[j]
      BY <3>2 DEF Addressed
    <3>. QED BY <2>2, <2>6, <3>2, <3>3 DEF Settles
  <2>. QED BY <2>4, <2>5, <2>6
<1>2. CASE HearExit(w)
  <2>1. PICK gone \in SUBSET PaneIds :
           /\ \A i \in gone : Mounted(i)
           /\ panes' = [i \in PaneIds |-> IF i \in gone THEN [panes[i] EXCEPT !.state = "closed"]
                                          ELSE panes[i]]
    BY <1>2 DEF HearExit, MountedIn
  <2>. QED BY <2>1, SetsState
<1>3. CASE LetGo(w)
  <2>1. MountedIn(w) \in SUBSET PaneIds /\ \A i \in MountedIn(w) : Mounted(i)
    BY DEF MountedIn
  <2>. QED BY <1>3, <2>1, SetsState DEF LetGo
<1>4. CASE HearStays(w)
  BY <1>4, StillPanes DEF HearStays
<1>5. CASE HearFailed(w)
  <2>1. \A i \in MountedIn(w) : Mounted(i)
    BY DEF MountedIn
  <2>. QED BY <1>5, <2>1, FailedCloses, SetsState
<1>. QED BY <1>1, <1>2, <1>3, <1>4, <1>5

LEMMA CloseSettles ==
    ASSUME TypeOK, Addressed,
           (\E i \in PaneIds : CloseTerminal(i)) \/ \E w \in Windows : CloseTab(w)
    PROVE  Settles
<1>1. ASSUME NEW i \in PaneIds, CloseTerminal(i) PROVE Settles
  <2>1. {i} \in SUBSET PaneIds /\ \A j \in {i} : Mounted(j)
    BY <1>1 DEF CloseTerminal
  <2>. QED BY <1>1, <2>1, SetsState DEF CloseTerminal, ClosePanes
<1>2. ASSUME NEW w \in Windows, CloseTab(w) PROVE Settles
  <2>1. MountedIn(w) \in SUBSET PaneIds /\ \A j \in MountedIn(w) : Mounted(j)
    BY DEF MountedIn
  <2>. QED BY <1>2, <2>1, SetsState DEF CloseTab, ClosePanes
<1>. QED BY <1>1, <1>2

LEMMA AddressedSum ==
    ASSUME \A v \in Windows : Concerns(toMain'[v], v, panes') /\ Concerns(toWin'[v], v, panes'),
           \A i \in creating' : panes'[i].state # "unused",
           Placed'
    PROVE  Addressed'
BY DEF Addressed, Placed, Mounted

LEMMA HearAddressed ==
    ASSUME TypeOK, Addressed, NEW w \in Windows,
           \/ HearCreated(w) \/ HearAdopted(w) \/ HearFailed(w) \/ HearExit(w)
           \/ LetGo(w) \/ HearStays(w)
    PROVE  Addressed'
<1>1. /\ \A v \in Windows : Concerns(toMain[v], v, panes') /\ Concerns(toWin[v], v, panes')
      /\ Placed' /\ creating' = creating
      /\ \A i \in PaneIds : panes[i].state # "unused" => panes'[i].state # "unused"
  <2>1. booted' = booted /\ creating' = creating
    BY DEF HearCreated, HearAdopted, HearFailed, HearExit, LetGo, HearStays, desktop
  <2>. QED BY <2>1, HearSettles, SettledPanes
<1>2. toWin[w] # <<>> /\ toWin' = Taken(toWin, w)
  BY DEF HearCreated, HearAdopted, HearFailed, HearExit, LetGo, HearStays, Hears
<1>3. \A v \in Windows : Concerns(toWin'[v], v, panes')
  BY <1>1, <1>2, WinConcerns
<1>4. \A v \in Windows : Concerns(toMain'[v], v, panes')
  <2>1. CASE HearCreated(w)
    <3>1. PICK i \in PaneIds :
             toMain' = IF panes[i].state \in {"closed", "left"}
                       THEN Sent(toMain, w, <<[op |-> "kill", pty |-> i]>>) ELSE toMain
      BY <2>1, Heads, Contents DEF HearCreated, Hears
    <3>2. [op |-> "kill", pty |-> i] \in Request
      BY DEF Request
    <3>3. <<[op |-> "kill", pty |-> i]>> \in Seq(Request)
      BY <3>2
    <3>4. Concerns(<<[op |-> "kill", pty |-> i]>>, w, panes')
      BY OneConcern DEF PaneOps
    <3>5. \A v \in Windows : Concerns(Sent(toMain, w, <<[op |-> "kill", pty |-> i]>>)[v], v, panes')
      BY <1>1, <3>3, <3>4, MainConcerns
    <3>. QED BY <1>1, <3>1, <3>5
  <2>2. CASE HearFailed(w)
    <3>1. PICK ids \in SUBSET PaneIds : toMain' = Sent(toMain, w, KillRequests(ids))
      BY <2>2, FailedCloses
    <3>2. KillRequests(ids) \in Seq(Request) /\ Ops(KillRequests(ids)) \cap PaneOps = {}
      BY Kills DEF PaneOps
    <3>3. Concerns(KillRequests(ids), w, panes')
      BY <3>2, Unconcerned
    <3>4. \A v \in Windows : Concerns(Sent(toMain, w, KillRequests(ids))[v], v, panes')
      BY <1>1, <3>2, <3>3, MainConcerns
    <3>. QED BY <3>1, <3>4
  <2>3. CASE UNCHANGED toMain
    BY <1>1, <2>3
  <2>. QED BY <2>1, <2>2, <2>3 DEF HearAdopted, HearExit, LetGo, HearStays
<1>5. \A i \in creating' : panes'[i].state # "unused"
  BY <1>1 DEF Addressed, TypeOK
<1>. QED BY <1>1, <1>3, <1>4, <1>5, AddressedSum

LEMMA UserAddressed ==
    ASSUME TypeOK, Tidy, Addressed, NEW w \in Windows,
           \/ CloseTab(w)
           \/ \E i \in PaneIds : CloseTerminal(i) /\ panes[i].win = w
           \/ \E canDetach \in BOOLEAN : EndDrag(w, canDetach)
    PROVE  Addressed'
<1>1. Settles /\ booted' = booted /\ creating' = creating /\ toWin' = toWin
  <2>1. booted' = booted /\ creating' = creating /\ toWin' = toWin
    BY DEF CloseTab, CloseTerminal, ClosePanes, EndDrag, desktop
  <2>2. ASSUME NEW canDetach \in BOOLEAN, EndDrag(w, canDetach) PROVE Settles
    BY <2>2, StillPanes DEF EndDrag
  <2>. QED BY <2>1, <2>2, CloseSettles
<1>2. /\ \A v \in Windows : Concerns(toMain[v], v, panes') /\ Concerns(toWin[v], v, panes')
      /\ Placed'
      /\ \A i \in PaneIds : panes[i].state # "unused" => panes'[i].state # "unused"
  BY <1>1, SettledPanes
<1>3. PICK m \in Seq(Request) : Ops(m) \cap PaneOps = {} /\ toMain' = Sent(toMain, w, m)
  <2>1. ASSUME NEW ids \in SUBSET PaneIds, toMain' = Sent(toMain, w, KillRequests(ids))
        PROVE  \E m \in Seq(Request) : Ops(m) \cap PaneOps = {} /\ toMain' = Sent(toMain, w, m)
    <3>1. KillRequests(ids) \in Seq(Request) /\ Ops(KillRequests(ids)) \cap PaneOps = {}
      BY Kills DEF PaneOps
    <3>. QED BY <2>1, <3>1
  <2>2. CASE CloseTab(w)
    <3>1. MountedIn(w) \in SUBSET PaneIds
      BY DEF MountedIn
    <3>. QED BY <2>1, <2>2, <3>1 DEF CloseTab, ClosePanes
  <2>3. ASSUME NEW i \in PaneIds, CloseTerminal(i), panes[i].win = w
        PROVE  \E m \in Seq(Request) : Ops(m) \cap PaneOps = {} /\ toMain' = Sent(toMain, w, m)
    <3>1. {i} \in SUBSET PaneIds
      OBVIOUS
    <3>. QED BY <2>1, <2>3, <3>1 DEF CloseTerminal, ClosePanes
  <2>4. ASSUME NEW canDetach \in BOOLEAN, EndDrag(w, canDetach)
        PROVE  \E m \in Seq(Request) : Ops(m) \cap PaneOps = {} /\ toMain' = Sent(toMain, w, m)
    <3> DEFINE r == [op |-> "end", load |-> LoadOf(w), canDetach |-> canDetach]
    <3>1. r \in Request /\ r.op = "end"
      BY LoadTypes DEF Request
    <3>2. <<r>> \in Seq(Request) /\ Ops(<<r>>) = {"end"}
      BY <3>1, OneOp
    <3>. QED BY <2>4, <3>2 DEF EndDrag, PaneOps
  <2>. QED BY <2>2, <2>3, <2>4
<1>4. \A v \in Windows : Concerns(toMain'[v], v, panes')
  <2>1. Concerns(m, w, panes')
    BY <1>3, Unconcerned
  <2>. QED BY <1>2, <1>3, <2>1, MainConcerns
<1>5. \A i \in creating' : panes'[i].state # "unused"
  BY <1>1, <1>2 DEF Addressed, TypeOK
<1>. QED BY <1>1, <1>2, <1>4, <1>5, AddressedSum

\* A pane that was in no use mounts, and what is sent for it concerns its window.
LEMMA MountAddressed ==
    ASSUME TypeOK, Addressed, NEW w \in booted, NEW ids \in SUBSET PaneIds, NEW m \in Seq(Request),
           \A i \in ids : panes[i].state = "unused",
           \A i \in PaneIds \ ids : panes'[i] = panes[i],
           \A i \in ids : panes'[i].win = w /\ panes'[i].state = "waiting",
           Concerns(m, w, panes'), w \in Windows,
           toMain' = Sent(toMain, w, m),
           toWin' = toWin \/ (toWin[w] # <<>> /\ toWin' = Taken(toWin, w)),
           UNCHANGED <<booted, creating>>
    PROVE  Addressed'
<1>1. \A v \in Windows : Concerns(toMain[v], v, panes') /\ Concerns(toWin[v], v, panes')
  <2>1. ASSUME NEW v \in Windows PROVE Concerns(toMain[v], v, panes') /\ Concerns(toWin[v], v, panes')
    <3>1. /\ \A k \in 1..Len(toMain[v]) : toMain[v][k].op \in PaneOps => toMain[v][k].pane \in PaneIds
          /\ \A k \in 1..Len(toWin[v]) : toWin[v][k].op \in PaneOps => toWin[v][k].pane \in PaneIds
      <4>1. /\ \A k \in 1..Len(toMain[v]) : toMain[v][k] \in Request
            /\ \A k \in 1..Len(toWin[v]) : toWin[v][k] \in Notice
        BY DEF TypeOK
      <4>. QED BY <4>1, Contents DEF PaneOps
    <3>2. Concerns(toMain[v], v, panes) /\ Concerns(toWin[v], v, panes)
      BY DEF Addressed
    <3>3. \A i \in PaneIds : panes[i].state # "unused" => panes'[i] = panes[i]
      OBVIOUS
    <3>. QED BY <3>1, <3>2, <3>3 DEF Concerns
  <2>. QED BY <2>1
<1>2. \A v \in Windows : Concerns(toMain'[v], v, panes')
  BY <1>1, MainConcerns
<1>3. \A v \in Windows : Concerns(toWin'[v], v, panes')
  BY <1>1, WinConcerns
<1>4. Placed'
  <2>1. \A i \in ids : /\ panes'[i].win \in Windows /\ panes'[i].state # "up"
                       /\ panes'[i].win \in booted'
    OBVIOUS
  <2>. QED BY <2>1 DEF Placed, Addressed, Mounted
<1>5. \A i \in creating' : panes'[i].state # "unused"
  BY DEF Addressed, TypeOK
<1>. QED BY <1>2, <1>3, <1>4, <1>5, AddressedSum

LEMMA OpenAddressed ==
    ASSUME TypeOK, Addressed, NEW w \in Windows, NEW t \in Terms, OpenTerminal(w, t)
    PROVE  Addressed'
<1> DEFINE i == <<t, tab[w]>>  r == [op |-> "create", pane |-> i]
<1>1. i \in PaneIds /\ panes[i].state = "unused" /\ w \in booted
  BY DEF OpenTerminal, TypeOK, PaneIds
<1>2. /\ panes' = [panes EXCEPT ![i] = [win |-> w, pty |-> None, state |-> "waiting"]]
      /\ toMain' = Sent(toMain, w, <<r>>) /\ UNCHANGED <<booted, creating, toWin>>
  BY DEF OpenTerminal, desktop
<1>3. r \in Request /\ r.op = "create" /\ r.pane = i
  BY <1>1 DEF Request
<1>. HIDE DEF i, r
<1>4. /\ panes'[i] = [win |-> w, pty |-> None, state |-> "waiting"]
      /\ \A j \in PaneIds \ {i} : panes'[j] = panes[j]
  BY <1>1, <1>2 DEF TypeOK
<1>5. Concerns(<<r>>, w, panes')
  BY <1>3, <1>4, OneConcern
<1>6. <<r>> \in Seq(Request) /\ {i} \in SUBSET PaneIds
  BY <1>1, <1>3
<1>7. \A j \in {i} : panes[j].state = "unused" /\ panes'[j].win = w /\ panes'[j].state = "waiting"
  BY <1>1, <1>4
<1>. QED BY <1>1, <1>2, <1>4, <1>5, <1>6, <1>7, MountAddressed

LEMMA HearTabAddressed ==
    ASSUME TypeOK, Tidy, Fresh, Addressed, NEW w \in Windows, HearTab(w)
    PROVE  Addressed'
<1> DEFINE load == Head(toWin[w]).load
           copy == Head(toWin[w]).copy
           ids == {<<t, copy>> : t \in DOMAIN load}
           m == SetToSeq({[op |-> IF load[i[1]] = None THEN "create" ELSE "adopt", pane |-> i] : i \in ids})
<1>1. /\ UNCHANGED <<booted, creating>> /\ toWin[w] # <<>> /\ Head(toWin[w]).op = "tab"
      /\ toWin' = Taken(toWin, w) /\ toMain' = Sent(toMain, w, m)
      /\ panes' = [i \in PaneIds |->
             IF i \in ids THEN [win |-> w, pty |-> load[i[1]], state |-> "waiting"] ELSE panes[i]]
  BY DEF HearTab, Hears, desktop
<1>2. load \in Loads /\ copy \in Copies /\ w \in booted
  BY <1>1, Heads, Contents DEF Tidy
<1>3. Unused(copy)
  <2>1. 1 \in 1..Len(toWin[w]) /\ Head(toWin[w]) = toWin[w][1]
    BY <1>1, TailKeeps DEF TypeOK
  <2>2. \A k \in 1..Len(toWin[w]) : toWin[w][k].op = "tab" => toWin[w][k].copy = moves
    BY DEF Fresh
  <2>3. Gets(w)
    BY <1>1, <2>1 DEF Gets, Ops
  <2>. QED BY <1>1, <2>1, <2>2, <2>3 DEF Fresh
<1>4. /\ ids \subseteq PaneIds /\ m \in Seq(Request) /\ Ops(m) \subseteq {"create", "adopt"}
      /\ \A k \in 1..Len(m) : /\ m[k].pane \in ids
                              /\ m[k].op = "adopt" => load[m[k].pane[1]] # None
  <2>. HIDE DEF load, copy
  <2>. QED BY <1>2, Mounts
<1>5. \A i \in ids : panes[i].state = "unused"
  <2>1. \A i \in ids : \E t \in Terms : i = <<t, copy>>
    BY <1>2 DEF Loads
  <2>. QED BY <1>3, <2>1 DEF Unused
<1>. HIDE DEF load, copy, ids, m
<1>6. /\ \A i \in ids : /\ panes'[i].win = w /\ panes'[i].state = "waiting"
                        /\ panes'[i].pty = load[i[1]]
      /\ \A i \in PaneIds \ ids : panes'[i] = panes[i]
  BY <1>1, <1>4
<1>7. Concerns(m, w, panes')
  <2>1. \A k \in 1..Len(m) : m[k].op \in {"create", "adopt"}
    BY <1>4 DEF Ops
  <2>. QED BY <1>4, <1>6, <2>1 DEF Concerns
<1>. QED BY <1>1, <1>2, <1>4, <1>5, <1>6, <1>7, MountAddressed

LEMMA MainAddressed ==
    ASSUME TypeOK, Addressed, NEW w \in Windows, BeginCreate(w) \/ Adopt(w) \/ Kill(w)
    PROVE  Addressed'
<1>1. /\ toMain[w] # <<>> /\ toMain' = Taken(toMain, w) /\ UNCHANGED <<booted, panes>>
  BY DEF BeginCreate, Adopt, Kill, Asks, desktop
<1>2. /\ \A v \in Windows : Concerns(toMain[v], v, panes') /\ Concerns(toWin[v], v, panes')
      /\ Placed'
  BY <1>1, StillPanes, SettledPanes
<1>3. \A v \in Windows : Concerns(toMain'[v], v, panes')
  BY <1>1, <1>2, MainConcerns
<1>4. Head(toMain[w]).op \in PaneOps =>
         /\ panes[Head(toMain[w]).pane].state # "unused" /\ panes[Head(toMain[w]).pane].win = w
         /\ Head(toMain[w]).op \in {"adopt", "adopted"} => panes[Head(toMain[w]).pane].pty # None
  <2>1. toMain[w] \in Seq(Request) /\ Concerns(toMain[w], w, panes)
    BY DEF TypeOK, Addressed
  <2>. QED BY <1>1, <2>1, TailConcerns
<1>5. \A i \in creating' : panes'[i].state # "unused"
  <2>1. CASE BeginCreate(w)
    BY <1>1, <1>4, <2>1 DEF BeginCreate, Asks, PaneOps, Addressed
  <2>2. CASE creating' = creating
    BY <1>1, <2>2 DEF Addressed
  <2>. QED BY <2>1, <2>2 DEF Adopt, Kill
<1>6. \A v \in Windows : Concerns(toWin'[v], v, panes')
  <2>1. CASE Adopt(w)
    <3> DEFINE i == Head(toMain[w]).pane
    <3>1. i \in PaneIds /\ panes[i].state # "unused" /\ panes[i].win = w /\ panes[i].pty # None
      BY <1>4, <2>1, Heads, Contents DEF Adopt, Asks, PaneOps
    <3>2. \E op \in {"adopted", "failed"} : toWin' = Told(toWin, w, [op |-> op, pane |-> i])
      BY <2>1 DEF Adopt
    <3>. HIDE DEF i
    <3>3. ASSUME NEW op \in {"adopted", "failed"}
          PROVE  [op |-> op, pane |-> i] \in Notice /\ Concerns(<<[op |-> op, pane |-> i]>>, w, panes')
      BY <1>1, <3>1, NoticeKinds, OneConcern
    <3>4. \A n \in Notice : Concerns(<<n>>, w, panes')
             => \A v \in Windows : Concerns(Told(toWin, w, n)[v], v, panes')
      BY <1>2, WinConcerns
    <3>. QED BY <3>2, <3>3, <3>4
  <2>2. CASE UNCHANGED toWin
    BY <1>2, <2>2
  <2>. QED BY <2>1, <2>2 DEF BeginCreate, Kill
<1>. QED BY <1>2, <1>3, <1>5, <1>6, AddressedSum

LEMMA ShellAddressed ==
    ASSUME TypeOK, Addressed, NEW i \in PaneIds, FinishCreate(i) \/ PtyExit(i)
    PROVE  Addressed'
<1>1. UNCHANGED <<booted, panes, toMain>> /\ creating' \subseteq creating
  BY DEF FinishCreate, PtyExit, desktop
<1>2. /\ \A v \in Windows : Concerns(toMain'[v], v, panes') /\ Concerns(toWin[v], v, panes')
      /\ Placed'
  BY <1>1, StillPanes, SettledPanes
<1>3. \A j \in creating' : panes'[j].state # "unused"
  BY <1>1 DEF Addressed
<1>4. UNCHANGED toWin \/ \E w \in Windows, n \in Notice :
                             Concerns(<<n>>, w, panes') /\ toWin' = Told(toWin, w, n)
  <2>1. CASE FinishCreate(i)
    <3>1. panes[i].state # "unused" /\ panes[i].win \in Windows
      BY <2>1 DEF FinishCreate, Addressed
    <3>2. ASSUME NEW op \in {"created", "failed"}
          PROVE  /\ [op |-> op, pane |-> i] \in Notice
                 /\ Concerns(<<[op |-> op, pane |-> i]>>, panes[i].win, panes')
      <4>1. /\ [op |-> op, pane |-> i].op = op /\ [op |-> op, pane |-> i].pane = i
            /\ op \notin {"adopt", "adopted"}
        OBVIOUS
      <4>. QED BY <1>1, <3>1, <4>1, NoticeKinds, OneConcern
    <3>3. UNCHANGED toWin \/ \E op \in {"created", "failed"} :
             toWin' = Told(toWin, panes[i].win, [op |-> op, pane |-> i])
      BY <2>1 DEF FinishCreate
    <3>. QED BY <3>1, <3>2, <3>3
  <2>2. CASE PtyExit(i)
    <3>1. owner[i] # None => owner[i] \in Windows
      BY <2>2 DEF PtyExit, TypeOK
    <3>2. [op |-> "exit", pty |-> i] \in Notice
      BY NoticeKinds
    <3>3. Concerns(<<[op |-> "exit", pty |-> i]>>, owner[i], panes')
      BY OneConcern DEF PaneOps
    <3>4. UNCHANGED toWin \/ (owner[i] # None /\ toWin' = Told(toWin, owner[i], [op |-> "exit", pty |-> i]))
      BY <2>2 DEF PtyExit
    <3>. QED BY <3>1, <3>2, <3>3, <3>4
  <2>. QED BY <2>1, <2>2
<1>5. \A v \in Windows : Concerns(toWin'[v], v, panes')
  BY <1>2, <1>4, WinConcerns
<1>. QED BY <1>2, <1>3, <1>5, AddressedSum

LEMMA DropAddressed ==
    ASSUME TypeOK, Addressed, NEW w \in Windows, Drop(w)
    PROVE  Addressed'
<1> DEFINE load == Head(toMain[w]).load
           msg == [op |-> "tab", load |-> load, copy |-> moves + 1]
<1>0. /\ toWin \in [Windows -> Seq(Notice)] /\ wins \subseteq Windows /\ moves \in Nat /\ MaxMoves \in Nat
  BY BoundsAssumption DEF TypeOK, Copies, Windows
<1>1. /\ toMain[w] # <<>> /\ Head(toMain[w]).op = "end" /\ toMain' = Taken(toMain, w)
      /\ UNCHANGED <<booted, panes, creating>>
  BY DEF Drop, Asks, desktop
<1>2. /\ \A v \in Windows : Concerns(toMain[v], v, panes') /\ Concerns(toWin[v], v, panes')
      /\ Placed'
  BY <1>1, StillPanes, SettledPanes
<1>3. \A v \in Windows : Concerns(toMain'[v], v, panes')
  BY <1>1, <1>2, MainConcerns
<1>4. \A i \in creating' : panes'[i].state # "unused"
  BY <1>1 DEF Addressed
<1>5. PICK to \in DropTargets(w, Head(toMain[w]).canDetach) :
         \/ toWin' = Told(toWin, w, AnswerTo(to))
         \/ /\ to \in wins /\ moves < MaxMoves
            /\ toWin' = Told(Told(toWin, w, AnswerTo(to)), to, msg)
  BY DEF Drop
<1>6. AnswerTo(to) \in Notice /\ AnswerTo(to).op \notin PaneOps
  BY NoticeKinds DEF PaneOps
<1>7. \A v \in Windows : Concerns(Told(toWin, w, AnswerTo(to))[v], v, panes')
  <2>1. Concerns(<<AnswerTo(to)>>, w, panes')
    BY <1>6, OneConcern
  <2>. QED BY <1>2, <1>6, <2>1, WinConcerns
<1>8. CASE toWin' = Told(toWin, w, AnswerTo(to))
  BY <1>2, <1>3, <1>4, <1>7, <1>8, AddressedSum
<1>9. CASE to \in wins /\ moves < MaxMoves /\ toWin' = Told(Told(toWin, w, AnswerTo(to)), to, msg)
  <2> DEFINE qs == Told(toWin, w, AnswerTo(to))
  <2>1. to \in Windows /\ msg \in Notice /\ msg.op \notin PaneOps
    <3>1. load \in Loads
      BY <1>1, Heads, Contents
    <3>2. moves + 1 \in Copies
      BY <1>0, <1>9 DEF Copies
    <3>. QED BY <1>0, <1>9, <3>1, <3>2 DEF TabMessage, Notice, PaneOps
  <2>2. qs \in [Windows -> Seq(Notice)] /\ toWin' = Told(qs, to, msg)
    BY <1>0, <1>6, <1>9, Channels
  <2>3. \A v \in Windows : Concerns(qs[v], v, panes')
    BY <1>7
  <2>. HIDE DEF qs, msg
  <2>4. Concerns(<<msg>>, to, panes') /\ <<msg>> \in Seq(Notice)
    BY <2>1, OneConcern
  <2>5. qs[to] \in Seq(Notice)
    BY <2>1, <2>2
  <2>6. Concerns(qs[to] \o <<msg>>, to, panes')
    BY <2>1, <2>3, <2>4, <2>5, SendConcerns
  <2>7. \A v \in Windows : toWin'[v] = qs[v] \/ (v = to /\ toWin'[v] = qs[to] \o <<msg>>)
    BY <2>1, <2>2 DEF Told, Sent
  <2>8. \A v \in Windows : Concerns(toWin'[v], v, panes')
    BY <2>3, <2>6, <2>7
  <2>. QED BY <1>2, <1>3, <1>4, <2>8, AddressedSum
<1>. QED BY <1>5, <1>8, <1>9

LEMMA WindowAddressed ==
    ASSUME TypeOK, Tidy, Addressed, NewWindow \/ \E w \in Windows : Boot(w) \/ Reload(w) \/ CloseWindow(w)
    PROVE  Addressed'
<1>1. CASE NewWindow
  BY <1>1 DEF NewWindow, Addressed, Mounted
<1>2. ASSUME NEW w \in Windows, Boot(w) PROVE Addressed'
  <2>1. /\ UNCHANGED <<panes, toMain, creating>> /\ booted \subseteq booted'
        /\ toWin' = IF parked[w] = None THEN toWin ELSE Sent(toWin, w, <<parked[w]>>)
    BY <1>2 DEF Boot
  <2>2. /\ \A v \in Windows : Concerns(toMain'[v], v, panes') /\ Concerns(toWin[v], v, panes')
        /\ Placed'
    BY <2>1, StillPanes, SettledPanes
  <2>3. \A i \in creating' : panes'[i].state # "unused"
    BY <2>1 DEF Addressed
  <2>4. \A v \in Windows : Concerns(toWin'[v], v, panes')
    <3>1. CASE parked[w] = None
      BY <2>1, <2>2, <3>1
    <3>2. CASE parked[w] # None
      <4>1. parked[w] \in Notice /\ parked[w].op \notin PaneOps
        BY <3>2, Contents DEF TypeOK, PaneOps
      <4>2. Concerns(<<parked[w]>>, w, panes') /\ <<parked[w]>> \in Seq(Notice)
        BY <4>1, OneConcern
      <4>3. toWin[w] \in Seq(Notice)
        BY DEF TypeOK
      <4>4. Concerns(toWin[w] \o <<parked[w]>>, w, panes')
        BY <2>2, <4>2, <4>3, SendConcerns
      <4>5. \A v \in Windows : toWin'[v] = toWin[v] \/ (v = w /\ toWin'[v] = toWin[w] \o <<parked[w]>>)
        BY <2>1, <3>2 DEF Sent, TypeOK
      <4>. QED BY <2>2, <4>4, <4>5
    <3>. QED BY <3>1, <3>2
  <2>. QED BY <2>2, <2>3, <2>4, AddressedSum
<1>3. ASSUME NEW w \in Windows, LoseRenderer(w) PROVE Addressed'
  <2>1. /\ booted' = booted \ {w} /\ creating' = creating
        /\ panes' = [i \in PaneIds |-> IF panes[i].win = w /\ panes[i].state # "unused"
                                       THEN [win |-> w, pty |-> None, state |-> "lost"] ELSE panes[i]]
        /\ toMain' = [toMain EXCEPT ![w] = <<>>] /\ toWin' = [toWin EXCEPT ![w] = <<>>]
    BY <1>3 DEF LoseRenderer, Unlisted
  <2>2. /\ toMain'[w] = <<>> /\ toWin'[w] = <<>>
        /\ \A v \in Windows : v # w => toMain'[v] = toMain[v] /\ toWin'[v] = toWin[v]
    BY <2>1 DEF TypeOK
  <2>3. \A i \in PaneIds : panes[i].state # "unused" /\ panes[i].win # w => panes'[i] = panes[i]
    BY <2>1
  <2>4. ASSUME NEW v \in Windows PROVE Concerns(toMain'[v], v, panes') /\ Concerns(toWin'[v], v, panes')
    <3>1. CASE v = w
      <4>1. Ops(<<>>) = {}
        BY DEF Ops
      <4>. QED BY <2>2, <3>1, <4>1, Unconcerned
    <3>2. CASE v # w
      <4>1. /\ \A k \in 1..Len(toMain[v]) : toMain[v][k].op \in PaneOps => toMain[v][k].pane \in PaneIds
            /\ \A k \in 1..Len(toWin[v]) : toWin[v][k].op \in PaneOps => toWin[v][k].pane \in PaneIds
        <5>1. /\ \A k \in 1..Len(toMain[v]) : toMain[v][k] \in Request
              /\ \A k \in 1..Len(toWin[v]) : toWin[v][k] \in Notice
          BY DEF TypeOK
        <5>. QED BY <5>1, Contents DEF PaneOps
      <4>2. Concerns(toMain[v], v, panes) /\ Concerns(toWin[v], v, panes)
        BY DEF Addressed
      <4>3. Concerns(toMain[v], v, panes') /\ Concerns(toWin[v], v, panes')
        BY <2>3, <3>2, <4>1, <4>2 DEF Concerns
      <4>. QED BY <2>2, <3>2, <4>3
    <3>. QED BY <3>1, <3>2
  <2>5. \A i \in creating' : panes'[i].state # "unused"
    BY <2>1 DEF Addressed, TypeOK
  <2>6. Placed'
    <3>1. ASSUME NEW i \in PaneIds
          PROVE  /\ panes'[i].state # "unused" => panes'[i].win \in Windows
                 /\ panes'[i].state = "up" => panes'[i].pty # None
                 /\ panes'[i].state \in {"waiting", "up"} => panes'[i].win \in booted'
      <4>1. CASE panes[i].win = w /\ panes[i].state # "unused"
        BY <2>1, <4>1
      <4>2. CASE ~(panes[i].win = w /\ panes[i].state # "unused")
        BY <2>1, <4>2 DEF Addressed, Mounted
      <4>. QED BY <4>1, <4>2
    <3>. QED BY <3>1 DEF Placed, Mounted
  <2>. QED BY <2>4, <2>5, <2>6, AddressedSum
<1>. QED BY <1>1, <1>2, <1>3 DEF Reload, CloseWindow

LEMMA AddressedStep ==
    ASSUME TypeOK, Tidy, Fresh, Addressed, [Next]_vars
    PROVE  Addressed'
<1>1. ASSUME NEW w \in Windows, Renderer(w) PROVE Addressed'
  BY <1>1, HearAddressed, HearTabAddressed DEF Renderer
<1>2. ASSUME NEW w \in Windows, Main(w) PROVE Addressed'
  BY <1>2, MainAddressed, DropAddressed DEF Main
<1>3. ASSUME NEW w \in Windows, Boot(w) \/ User(w) PROVE Addressed'
  BY <1>3, WindowAddressed, UserAddressed, OpenAddressed DEF User
<1>4. ASSUME NEW i \in PaneIds, CloseTerminal(i) \/ FinishCreate(i) \/ PtyExit(i) PROVE Addressed'
  <2>1. CASE CloseTerminal(i)
    <3>1. panes[i].win \in Windows
      BY <2>1 DEF CloseTerminal, Mounted, Addressed
    <3>. QED BY <2>1, <3>1, UserAddressed
  <2>. QED BY <1>4, <2>1, ShellAddressed
<1>5. CASE NewWindow
  BY <1>5, WindowAddressed
<1>6. CASE UNCHANGED vars
  BY <1>6 DEF vars, Addressed, Mounted
<1>. QED BY <1>1, <1>2, <1>3, <1>4, <1>5, <1>6 DEF Next

-----------------------------------------------------------------------------
(* Sessions: what is true of panes and of what is under way for them.      *)

\* The messages in a queue.
Items(q) == {q[k] : k \in 1..Len(q)}

\* No message comes somewhere behind one it must not follow.
InOrder(q, never) == \A j, k \in 1..Len(q) : j < k => <<q[j], q[k]>> \notin never

\* A renderer asks to adopt before it ends a drag; a pane asks once for a shell, and
\* is told once.
LateAdopt == {r \in Request \X Request : r[1].op = "end" /\ r[2].op = "adopt"}
Again == {r \in (Request \cup Notice) \X (Request \cup Notice) :
             r[1].op = r[2].op /\ r[2].op \in {"create", "created"} /\ r[1].pane = r[2].pane}
MainOrdered == \A w \in Windows : InOrder(toMain[w], LateAdopt) /\ InOrder(toMain[w], Again)
WinOrdered == \A w \in Windows : InOrder(toWin[w], Again)

\* A mounted pane is in a window that shows the tab.
InTab == \A i \in PaneIds : Mounted(i) => tab[panes[i].win] # None

\* While a window asks to adopt, the tab is nowhere else.
Adopters == \A v, w \in Windows : "adopt" \in Ops(toMain[w]) /\ v # w => ~Holds(v) /\ ~Gets(v)

\* A shell is asked for, being made or announced, and one of these only.
Spawning(q, i) == \E x \in Items(q) : x.op \in {"create", "created"} /\ x.pane = i
OneSpawn ==
    \A i \in PaneIds, w \in Windows :
       /\ ~(Spawning(toMain[w], i) /\ Spawning(toWin[w], i))
       /\ i \in creating => ~Spawning(toMain[w], i) /\ ~Spawning(toWin[w], i)

\* Until its pane is told of it, a pty is in no pane and in no load, and not ticketed.
Unborn(p) == \/ panes[p].state = "unused" \/ p \in creating
             \/ \E w \in Windows : Spawning(toMain[w], p) \/ Spawning(toWin[w], p)
Mentions(q, p) == \E x \in Items(q) : x.op \in {"end", "tab"} /\ p \in Ptys(x.load)
Known(p) == \/ \E i \in PaneIds : panes[i].pty = p
            \/ \E w \in Windows : \/ parked[w] # None /\ p \in Ptys(parked[w].load)
                                  \/ Mentions(toMain[w], p) \/ Mentions(toWin[w], p)
Born == \A p \in PaneIds : Unborn(p) => ~Known(p) /\ p \notin tickets

\* A session belongs to the window that shows it, or is about to by the next answer,
\* unless that window is about to let go.
Answers(q, op, i) == \E x \in Items(q) : x.op = op /\ x.pane = i
Shows(i, p) ==
    \/ panes[i].state = "up" /\ panes[i].pty = p
    \/ panes[i].state = "waiting" /\ panes[i].pty = p /\ Answers(toWin[panes[i].win], "adopted", i)
    \/ panes[i].state = "waiting" /\ p = i /\ Answers(toWin[panes[i].win], "created", i)
Kept ==
    \A i \in PaneIds, p \in DOMAIN owner :
       Shows(i, p) /\ "moved" \notin Ops(toWin[panes[i].win]) => owner[p] = panes[i].win

Sessions == MainOrdered /\ WinOrdered /\ InTab /\ Adopters /\ OneSpawn /\ Born /\ Kept

LEMMA QueueTail ==
    ASSUME NEW S, NEW q \in Seq(S), q # <<>>
    PROVE  /\ Items(q) = Items(Tail(q)) \cup {Head(q)}
           /\ \A never : InOrder(q, never) =>
                 /\ InOrder(Tail(q), never)
                 /\ \A x \in Items(Tail(q)) : <<Head(q), x>> \notin never
<1>1. /\ Head(q) = q[1] /\ Len(q) \in Nat \ {0} /\ Len(Tail(q)) = Len(q) - 1
      /\ \A k \in 1..Len(Tail(q)) : k + 1 \in 1..Len(q) /\ Tail(q)[k] = q[k + 1]
  BY TailKeeps
<1>2. Items(Tail(q)) \cup {Head(q)} \subseteq Items(q)
  BY <1>1 DEF Items
<1>3. ASSUME NEW k \in 1..Len(q), k # 1 PROVE q[k] \in Items(Tail(q))
  <2>1. k - 1 \in 1..Len(Tail(q)) /\ Tail(q)[k - 1] = q[k]
    BY <1>1, <1>3
  <2>. QED BY <2>1 DEF Items
<1>4. Items(q) \subseteq Items(Tail(q)) \cup {Head(q)}
  BY <1>1, <1>3 DEF Items
<1>5. ASSUME NEW never, InOrder(q, never)
      PROVE  /\ InOrder(Tail(q), never)
             /\ \A x \in Items(Tail(q)) : <<Head(q), x>> \notin never
  <2>1. ASSUME NEW j \in 1..Len(Tail(q)), NEW k \in 1..Len(Tail(q)), j < k
        PROVE  <<Tail(q)[j], Tail(q)[k]>> \notin never
    <3>1. j + 1 \in 1..Len(q) /\ k + 1 \in 1..Len(q) /\ j + 1 < k + 1
      BY <1>1, <2>1
    <3>2. <<q[j + 1], q[k + 1]>> \notin never
      BY <1>5, <3>1 DEF InOrder
    <3>. QED BY <1>1, <3>2
  <2>2. ASSUME NEW k \in 1..Len(Tail(q)) PROVE <<Head(q), Tail(q)[k]>> \notin never
    <3>1. 1 \in 1..Len(q) /\ k + 1 \in 1..Len(q) /\ 1 < k + 1
      BY <1>1
    <3>2. <<q[1], q[k + 1]>> \notin never
      BY <1>5, <3>1 DEF InOrder
    <3>. QED BY <1>1, <3>2
  <2>. QED BY <2>1, <2>2 DEF InOrder, Items
<1>. QED BY <1>2, <1>4, <1>5

LEMMA QueueSent ==
    ASSUME NEW S, NEW q \in Seq(S), NEW m \in Seq(S)
    PROVE  /\ Items(q \o m) = Items(q) \cup Items(m)
           /\ \A never : /\ InOrder(q, never) /\ InOrder(m, never)
                         /\ \A x \in Items(q), y \in Items(m) : <<x, y>> \notin never
                         => InOrder(q \o m, never)
<1>1. /\ Len(q \o m) = Len(q) + Len(m) /\ Len(q) \in Nat /\ Len(m) \in Nat
      /\ \A k \in 1..Len(q) + Len(m) : (q \o m)[k] = IF k <= Len(q) THEN q[k] ELSE m[k - Len(q)]
  OBVIOUS
<1>2. ASSUME NEW k \in 1..Len(q \o m)
      PROVE  \/ k \in 1..Len(q) /\ (q \o m)[k] = q[k]
             \/ k > Len(q) /\ k - Len(q) \in 1..Len(m) /\ (q \o m)[k] = m[k - Len(q)]
  BY <1>1
<1>3. Items(q \o m) \subseteq Items(q) \cup Items(m)
  BY <1>2 DEF Items
<1>4. Items(q) \subseteq Items(q \o m)
  BY <1>1 DEF Items
<1>5. ASSUME NEW k \in 1..Len(m) PROVE m[k] \in Items(q \o m)
  <2>1. k + Len(q) \in 1..Len(q \o m) /\ (q \o m)[k + Len(q)] = m[k]
    BY <1>1
  <2>. QED BY <2>1 DEF Items
<1>6. Items(m) \subseteq Items(q \o m)
  BY <1>5 DEF Items
<1>7. ASSUME NEW never, InOrder(q, never), InOrder(m, never),
             \A x \in Items(q), y \in Items(m) : <<x, y>> \notin never,
             NEW j \in 1..Len(q \o m), NEW k \in 1..Len(q \o m), j < k
      PROVE  <<(q \o m)[j], (q \o m)[k]>> \notin never
  <2>1. CASE j \in 1..Len(q) /\ (q \o m)[j] = q[j] /\ k \in 1..Len(q) /\ (q \o m)[k] = q[k]
    BY <1>7, <2>1 DEF InOrder
  <2>2. CASE /\ j \in 1..Len(q) /\ (q \o m)[j] = q[j]
             /\ k - Len(q) \in 1..Len(m) /\ (q \o m)[k] = m[k - Len(q)]
    BY <1>7, <2>2 DEF Items
  <2>3. CASE /\ j - Len(q) \in 1..Len(m) /\ (q \o m)[j] = m[j - Len(q)]
             /\ k - Len(q) \in 1..Len(m) /\ (q \o m)[k] = m[k - Len(q)]
    <3>1. j - Len(q) < k - Len(q)
      BY <1>1, <1>7
    <3>. QED BY <1>7, <2>3, <3>1 DEF InOrder
  <2>4. /\ \/ j \in 1..Len(q) /\ (q \o m)[j] = q[j]
           \/ j > Len(q) /\ j - Len(q) \in 1..Len(m) /\ (q \o m)[j] = m[j - Len(q)]
        /\ \/ k \in 1..Len(q) /\ (q \o m)[k] = q[k]
           \/ k > Len(q) /\ k - Len(q) \in 1..Len(m) /\ (q \o m)[k] = m[k - Len(q)]
    BY <1>2
  <2>5. ~(j > Len(q) /\ k \in 1..Len(q))
    BY <1>1, <1>7
  <2>. QED BY <2>1, <2>2, <2>3, <2>4, <2>5
<1>. QED BY <1>3, <1>4, <1>6, <1>7 DEF InOrder

LEMMA ShortQueues ==
    /\ Items(<<>>) = {} /\ \A never : InOrder(<<>>, never)
    /\ \A n : Items(<<n>>) = {n} /\ \A never : InOrder(<<n>>, never)
<1>1. \A n : Len(<<n>>) = 1 /\ <<n>>[1] = n
  OBVIOUS
<1>2. 1..1 = {1} /\ 1..0 = {} /\ Len(<<>>) = 0
  OBVIOUS
<1>3. Items(<<>>) = {} /\ \A n : Items(<<n>>) = {n}
  BY <1>1, <1>2 DEF Items
<1>4. \A never : InOrder(<<>>, never)
  BY <1>2 DEF InOrder
<1>5. ASSUME NEW n, NEW never PROVE InOrder(<<n>>, never)
  BY <1>1 DEF InOrder
<1>. QED BY <1>3, <1>4, <1>5

\* What is in a queue.
LEMMA InQueues ==
    ASSUME TypeOK, NEW w \in Windows
    PROVE  /\ \A x \in Items(toMain[w]) : x \in Request /\ x.op \in Ops(toMain[w])
           /\ \A x \in Items(toWin[w]) : x \in Notice /\ x.op \in Ops(toWin[w])
           /\ \A op \in Ops(toMain[w]) : \E x \in Items(toMain[w]) : x.op = op
           /\ \A op \in Ops(toWin[w]) : \E x \in Items(toWin[w]) : x.op = op
<1>1. /\ \A k \in 1..Len(toMain[w]) : toMain[w][k] \in Request
      /\ \A k \in 1..Len(toWin[w]) : toWin[w][k] \in Notice
  BY DEF TypeOK
<1>. QED BY <1>1 DEF Items, Ops

LEMMA AboutPanes ==
    ASSUME TypeOK, Addressed, NEW w \in Windows, NEW x \in Items(toMain[w]) \cup Items(toWin[w]),
           x.op \in PaneOps
    PROVE  /\ x.pane \in PaneIds /\ panes[x.pane].state # "unused" /\ panes[x.pane].win = w
           /\ x.op \in {"adopt", "adopted"} => panes[x.pane].pty # None
<1>1. x.pane \in PaneIds
  BY InQueues, Contents DEF PaneOps
<1>2. Concerns(toMain[w], w, panes) /\ Concerns(toWin[w], w, panes)
  BY DEF Addressed
<1>. QED BY <1>1, <1>2 DEF Concerns, Items

\* The uses of the channels.
LEMMA MainTaken ==
    ASSUME TypeOK, MainOrdered, NEW w \in Windows, toMain[w] # <<>>, toMain' = Taken(toMain, w)
    PROVE  /\ MainOrdered'
           /\ \A v \in Windows : v # w => toMain'[v] = toMain[v]
           /\ Items(toMain[w]) = Items(toMain'[w]) \cup {Head(toMain[w])}
           /\ \A v \in Windows : Items(toMain'[v]) \subseteq Items(toMain[v])
           /\ \A x \in Items(toMain'[w]) : <<Head(toMain[w]), x>> \notin LateAdopt \cup Again
           /\ \A never : InOrder(toMain[w], never) =>
                 /\ InOrder(toMain'[w], never)
                 /\ \A x \in Items(toMain'[w]) : <<Head(toMain[w]), x>> \notin never
<1>1. toMain \in [Windows -> Seq(Request)] /\ toMain[w] \in Seq(Request)
  BY DEF TypeOK
<1>2. toMain'[w] = Tail(toMain[w]) /\ \A v \in Windows : v # w => toMain'[v] = toMain[v]
  BY <1>1 DEF Taken
<1>3. /\ Items(toMain[w]) = Items(toMain'[w]) \cup {Head(toMain[w])}
      /\ \A never : InOrder(toMain[w], never) =>
            /\ InOrder(toMain'[w], never)
            /\ \A x \in Items(toMain'[w]) : <<Head(toMain[w]), x>> \notin never
  BY <1>1, <1>2, QueueTail
<1>4. InOrder(toMain[w], LateAdopt) /\ InOrder(toMain[w], Again)
  BY DEF MainOrdered
<1>5. /\ InOrder(toMain'[w], LateAdopt) /\ InOrder(toMain'[w], Again)
      /\ \A x \in Items(toMain'[w]) : <<Head(toMain[w]), x>> \notin LateAdopt \cup Again
  BY <1>3, <1>4
<1>6. MainOrdered'
  BY <1>2, <1>5 DEF MainOrdered
<1>. QED BY <1>2, <1>3, <1>5, <1>6

LEMMA MainSent ==
    ASSUME TypeOK, MainOrdered, NEW w \in Windows, NEW m \in Seq(Request), toMain' = Sent(toMain, w, m),
           InOrder(m, Again) /\ InOrder(m, LateAdopt),
           \A x \in Items(toMain[w]), y \in Items(m) : <<x, y>> \notin LateAdopt \cup Again
    PROVE  /\ MainOrdered'
           /\ \A v \in Windows : v # w => toMain'[v] = toMain[v]
           /\ Items(toMain'[w]) = Items(toMain[w]) \cup Items(m)
           /\ \A never : /\ InOrder(toMain[w], never) /\ InOrder(m, never)
                         /\ \A x \in Items(toMain[w]), y \in Items(m) : <<x, y>> \notin never
                         => InOrder(toMain'[w], never)
<1>1. toMain \in [Windows -> Seq(Request)] /\ toMain[w] \in Seq(Request)
  BY DEF TypeOK
<1>2. toMain'[w] = toMain[w] \o m /\ \A v \in Windows : v # w => toMain'[v] = toMain[v]
  BY <1>1 DEF Sent
<1>3. /\ Items(toMain'[w]) = Items(toMain[w]) \cup Items(m)
      /\ \A never : /\ InOrder(toMain[w], never) /\ InOrder(m, never)
                    /\ \A x \in Items(toMain[w]), y \in Items(m) : <<x, y>> \notin never
                    => InOrder(toMain'[w], never)
  BY <1>1, <1>2, QueueSent
<1>4. InOrder(toMain[w], LateAdopt) /\ InOrder(toMain[w], Again)
  BY DEF MainOrdered
<1>5. InOrder(toMain'[w], LateAdopt) /\ InOrder(toMain'[w], Again)
  BY <1>3, <1>4
<1>6. MainOrdered'
  BY <1>2, <1>5 DEF MainOrdered
<1>. QED BY <1>2, <1>3, <1>6

LEMMA WinTaken ==
    ASSUME TypeOK, WinOrdered, NEW w \in Windows, toWin[w] # <<>>, toWin' = Taken(toWin, w)
    PROVE  /\ WinOrdered'
           /\ \A v \in Windows : v # w => toWin'[v] = toWin[v]
           /\ Items(toWin[w]) = Items(toWin'[w]) \cup {Head(toWin[w])}
           /\ \A v \in Windows : Items(toWin'[v]) \subseteq Items(toWin[v])
           /\ \A x \in Items(toWin'[w]) : <<Head(toWin[w]), x>> \notin Again
<1>1. toWin \in [Windows -> Seq(Notice)] /\ toWin[w] \in Seq(Notice)
  BY DEF TypeOK
<1>2. toWin'[w] = Tail(toWin[w]) /\ \A v \in Windows : v # w => toWin'[v] = toWin[v]
  BY <1>1 DEF Taken
<1>3. /\ Items(toWin[w]) = Items(toWin'[w]) \cup {Head(toWin[w])}
      /\ \A never : InOrder(toWin[w], never) =>
            /\ InOrder(toWin'[w], never)
            /\ \A x \in Items(toWin'[w]) : <<Head(toWin[w]), x>> \notin never
  BY <1>1, <1>2, QueueTail
<1>4. InOrder(toWin[w], Again)
  BY DEF WinOrdered
<1>5. InOrder(toWin'[w], Again) /\ \A x \in Items(toWin'[w]) : <<Head(toWin[w]), x>> \notin Again
  BY <1>3, <1>4
<1>6. WinOrdered'
  BY <1>2, <1>5 DEF WinOrdered
<1>. QED BY <1>2, <1>3, <1>5, <1>6

LEMMA QueueTold ==
    ASSUME NEW q \in Seq(Notice), InOrder(q, Again), NEW n \in Notice,
           \A x \in Items(q) : <<x, n>> \notin Again
    PROVE  /\ q \o <<n>> \in Seq(Notice) /\ InOrder(q \o <<n>>, Again)
           /\ Items(q \o <<n>>) = Items(q) \cup {n}
<1>1. <<n>> \in Seq(Notice) /\ Items(<<n>>) = {n} /\ InOrder(<<n>>, Again)
  BY ShortQueues
<1>2. /\ Items(q \o <<n>>) = Items(q) \cup Items(<<n>>)
      /\ \A never : /\ InOrder(q, never) /\ InOrder(<<n>>, never)
                    /\ \A x \in Items(q), y \in Items(<<n>>) : <<x, y>> \notin never
                    => InOrder(q \o <<n>>, never)
  BY <1>1, QueueSent
<1>3. InOrder(q \o <<n>>, Again)
  BY <1>1, <1>2
<1>. QED BY <1>1, <1>2, <1>3

LEMMA WinTold ==
    ASSUME TypeOK, WinOrdered, NEW w \in Windows, NEW n \in Notice, toWin' = Told(toWin, w, n),
           \A x \in Items(toWin[w]) : <<x, n>> \notin Again
    PROVE  /\ WinOrdered'
           /\ \A v \in Windows : v # w => toWin'[v] = toWin[v]
           /\ \A v \in Windows : Items(toWin[v]) \subseteq Items(toWin'[v])
           /\ \A x \in Items(toWin'[w]) : x \in Items(toWin[w]) \/ x = n
           /\ w \in booted => n \in Items(toWin'[w])
<1>1. toWin \in [Windows -> Seq(Notice)] /\ toWin[w] \in Seq(Notice) /\ InOrder(toWin[w], Again)
  BY DEF TypeOK, WinOrdered
<1>2. /\ \A v \in Windows : v # w => toWin'[v] = toWin[v]
      /\ toWin'[w] = IF w \in booted THEN toWin[w] \o <<n>> ELSE toWin[w]
  BY <1>1 DEF Told, Sent
<1>3. InOrder(toWin[w] \o <<n>>, Again) /\ Items(toWin[w] \o <<n>>) = Items(toWin[w]) \cup {n}
  BY <1>1, QueueTold
<1>4. WinOrdered'
  BY <1>1, <1>2, <1>3 DEF WinOrdered
<1>. QED BY <1>2, <1>3, <1>4

\* What may follow anything.
LEMMA FollowsAnything ==
    ASSUME NEW y, y.op \notin {"create", "adopt", "created"}
    PROVE  \A x : <<x, y>> \notin LateAdopt \cup Again
BY DEF LateAdopt, Again

-----------------------------------------------------------------------------
(* Kinds of steps.                                                         *)

\* A step that starts no shell, tells no pane of one, and invents no pty.
Plain ==
    /\ \A v \in Windows :
          /\ \A x \in Items(toMain'[v]) : \/ x \in Items(toMain[v]) \/ x.op = "kill"
                                          \/ x.op = "end" /\ \A p \in Ptys(x.load) : Known(p)
          /\ \A x \in Items(toWin'[v]) : \/ x \in Items(toWin[v])
                                         \/ x.op \in {"adopted", "failed", "exit", "moved", "stays"}
                                         \/ x.op = "tab" /\ \A p \in Ptys(x.load) : Known(p)
          /\ parked'[v] # None => \A p \in Ptys(parked'[v].load) : Known(p)
    /\ \A i \in PaneIds : /\ panes'[i].state = "unused" => panes[i].state = "unused"
                          /\ panes'[i].pty \in {panes[i].pty, None}
    /\ creating' \subseteq creating
    /\ \A p \in tickets' : p \in tickets \/ Known(p)

\* Ptys come to be known only when they are made, and ticketed when they are known.
Ages ==
    \A p \in PaneIds : /\ Unborn(p)' => Unborn(p)
                       /\ Known(p)' => Known(p) \/ Unborn(p)
                       /\ p \in tickets' => p \in tickets \/ Known(p)

LEMMA PlainKeeps ==
    ASSUME OneSpawn, Born, Plain
    PROVE  OneSpawn' /\ Born' /\ Ages
<1>1. \A v \in Windows, i \in PaneIds : /\ Spawning(toMain'[v], i) => Spawning(toMain[v], i)
                                        /\ Spawning(toWin'[v], i) => Spawning(toWin[v], i)
  BY DEF Plain, Spawning
<1>2. OneSpawn'
  BY <1>1 DEF OneSpawn, Plain
<1>3. ASSUME NEW p \in PaneIds PROVE Unborn(p)' => Unborn(p)
  BY <1>1 DEF Unborn, Plain
<1>4. ASSUME NEW p \in PaneIds PROVE Known(p)' => Known(p)
  <2>1. p # None
    BY NoneAssumption
  <2>2. \A i \in PaneIds : panes'[i].pty = p => Known(p)
    BY <2>1 DEF Plain, Known
  <2>3. \A v \in Windows : /\ Mentions(toMain'[v], p) => Known(p)
                           /\ Mentions(toWin'[v], p) => Known(p)
                           /\ parked'[v] # None /\ p \in Ptys(parked'[v].load) => Known(p)
    BY DEF Plain, Known, Mentions
  <2>. QED BY <2>2, <2>3 DEF Known
<1>5. Born'
  BY <1>3, <1>4 DEF Born, Plain
<1>6. Ages
  BY <1>3, <1>4 DEF Ages, Plain
<1>. QED BY <1>2, <1>5, <1>6

\* A step by which no window comes to hold or get the tab and none asks to adopt.
LEMMA AdoptersKeep ==
    ASSUME TypeOK, TypeOK', Adopters, \A v \in Windows : (Holds(v)' => Holds(v)) /\ (Gets(v)' => Gets(v)),
           \A v \in Windows : \A x \in Items(toMain'[v]) : x.op = "adopt" => x \in Items(toMain[v])
    PROVE  Adopters'
<1>1. ASSUME NEW v \in Windows PROVE "adopt" \in Ops(toMain'[v]) => "adopt" \in Ops(toMain[v])
  BY DEF Ops, Items
<1>. QED BY <1>1 DEF Adopters

\* A step that brings no pane nearer to its session, and leaves the sessions where
\* they are.
Still ==
    /\ \A i \in PaneIds : panes'[i].state \in {"waiting", "up"} =>
          /\ panes'[i] = panes[i]
          /\ tab[panes[i].win] # None => tab'[panes[i].win] # None
          /\ "moved" \in Ops(toWin[panes[i].win]) => "moved" \in Ops(toWin'[panes[i].win])
    /\ \A v \in Windows : \A x \in Items(toWin'[v]) :
          x \in Items(toWin[v]) \/ x.op \notin {"adopted", "created"}
    /\ \A p \in DOMAIN owner' : p \in DOMAIN owner /\ owner'[p] = owner[p]

LEMMA StillKeeps ==
    ASSUME Addressed, InTab, Kept, Still
    PROVE  InTab' /\ Kept'
<1>1. InTab'
  BY DEF InTab, Still, Mounted
<1>2. ASSUME NEW i \in PaneIds, NEW p \in DOMAIN owner', Shows(i, p)', "moved" \notin Ops(toWin'[panes'[i].win])
      PROVE  owner'[p] = panes'[i].win
  <2>1. panes'[i].state \in {"waiting", "up"}
    BY <1>2 DEF Shows
  <2>2. panes'[i] = panes[i] /\ panes[i].win \in Windows
    BY <2>1 DEF Still, Addressed
  <2>3. \A op \in {"adopted", "created"} :
           Answers(toWin'[panes[i].win], op, i) => Answers(toWin[panes[i].win], op, i)
    BY <2>2 DEF Still, Answers
  <2>4. Shows(i, p)
    BY <1>2, <2>2, <2>3 DEF Shows
  <2>5. "moved" \notin Ops(toWin[panes[i].win])
    BY <1>2, <2>1, <2>2 DEF Still
  <2>6. p \in DOMAIN owner /\ owner'[p] = owner[p]
    BY DEF Still
  <2>. QED BY <2>2, <2>4, <2>5, <2>6 DEF Kept
<1>3. Kept'
  BY <1>2 DEF Kept
<1>. QED BY <1>1, <1>3

LEMMA QuietPlace ==
    ASSUME TypeOK, Tidy, Quiet, NEW v \in Windows
    PROVE  /\ (Holds(v)' => Holds(v)) /\ (Gets(v)' => Gets(v))
           /\ "moved" \in Ops(toWin[v]) => "moved" \in Ops(toWin'[v]) \/ tab'[v] = None
<1>1. /\ TabLast(toWin[v]) /\ OneEnd(toMain[v])
      /\ v \notin booted => toMain[v] = <<>> /\ toWin[v] = <<>>
  BY DEF Tidy
<1>2. "end" \in Ops(toMain'[v]) => "end" \in Ops(toMain[v])
  BY <1>1, AsksQuietlyKeeps DEF Quiet
<1>3. /\ "tab" \in Ops(toWin'[v]) => "tab" \in Ops(toWin[v])
      /\ "moved" \in Ops(toWin[v]) => "moved" \in Ops(toWin'[v]) \/ tab'[v] = None
  BY <1>1, HearsQuietlyKeeps DEF Quiet
<1>. QED BY <1>2, <1>3 DEF Holds, Gets, Quiet

Calm == Sessions' /\ Plain /\ Still /\ Ages

LEMMA CalmStep ==
    ASSUME TypeOK, TypeOK', Addressed, Sessions, MainOrdered', WinOrdered', Plain, Still,
           \A v \in Windows : (Holds(v)' => Holds(v)) /\ (Gets(v)' => Gets(v))
    PROVE  Calm
<1>1. OneSpawn' /\ Born' /\ Ages
  BY PlainKeeps DEF Sessions
<1>2. InTab' /\ Kept'
  BY StillKeeps DEF Sessions
<1>3. Adopters'
  BY AdoptersKeep DEF Sessions, Plain
<1>. QED BY <1>1, <1>2, <1>3 DEF Sessions, Calm

-----------------------------------------------------------------------------
(* Calm steps.                                                             *)

\* The panes after some have changed their state.
Marked(ids, state) == [i \in PaneIds |-> IF i \in ids THEN [panes[i] EXCEPT !.state = state] ELSE panes[i]]

LEMMA Unmounts ==
    ASSUME TypeOK, NEW ids \in SUBSET PaneIds, NEW state \in {"closed", "left", "lost"},
           panes' = Marked(ids, state), NEW i \in PaneIds
    PROVE  /\ panes'[i].state = "unused" => panes[i].state = "unused"
           /\ panes'[i].pty = panes[i].pty
           /\ panes'[i].state \in {"waiting", "up"} => panes'[i] = panes[i] /\ i \notin ids
<1>1. panes[i] \in Pane
  BY DEF TypeOK
<1>. QED BY <1>1 DEF Pane, Marked

LEMMA HearCalm ==
    ASSUME IInv, IInv', Sessions, NEW w \in Windows,
           HearExit(w) \/ LetGo(w) \/ HearStays(w)
    PROVE  Calm
<1>0. TypeOK /\ TypeOK' /\ Tidy /\ Addressed /\ MainOrdered /\ WinOrdered
  BY DEF IInv, Sessions
<1>1. /\ toWin[w] # <<>> /\ toWin' = Taken(toWin, w)
      /\ UNCHANGED <<toMain, parked, creating, tickets, owner>>
  BY DEF HearExit, LetGo, HearStays, Hears, desktop, ptyVars
<1>2. /\ WinOrdered' /\ \A v \in Windows : v # w => toWin'[v] = toWin[v]
      /\ \A v \in Windows : Items(toWin'[v]) \subseteq Items(toWin[v])
  BY <1>0, <1>1, WinTaken
<1>3. MainOrdered'
  BY <1>0, <1>1 DEF MainOrdered
<1>4. \A v \in Windows : (Holds(v)' => Holds(v)) /\ (Gets(v)' => Gets(v))
  BY <1>0, QuietRenderer, QuietPlace
<1>5. PICK ids \in SUBSET PaneIds, state \in {"closed", "left"} :
         panes' = Marked(ids, state)
  <2>1. panes = [i \in PaneIds |-> panes[i]]
    BY <1>0 DEF TypeOK
  <2>3. CASE HearExit(w)
    <3>1. \A ids : ids \subseteq MountedIn(w) => ids \in SUBSET PaneIds
      BY DEF MountedIn
    <3>. QED BY <2>3, <3>1 DEF HearExit, Marked
  <2>4. CASE LetGo(w)
    <3>1. MountedIn(w) \in SUBSET PaneIds
      BY DEF MountedIn
    <3>. QED BY <2>4, <3>1 DEF LetGo, Marked
  <2>5. CASE HearStays(w)
    <3>1. panes' = Marked({}, "closed")
      BY <2>1, <2>5 DEF HearStays, Marked
    <3>. QED BY <3>1
  <2>. QED BY <2>3, <2>4, <2>5
<1>6. \A i \in PaneIds : /\ panes'[i].state = "unused" => panes[i].state = "unused"
                         /\ panes'[i].pty = panes[i].pty
                         /\ panes'[i].state \in {"waiting", "up"} => panes'[i] = panes[i]
  BY <1>0, <1>5, Unmounts
<1>7. Plain
  <2>1. \A v \in Windows : parked'[v] # None => \A p \in Ptys(parked'[v].load) : Known(p)
    BY <1>1 DEF Known
  <2>. QED BY <1>1, <1>2, <1>6, <2>1 DEF Plain
<1>8. ASSUME NEW i \in PaneIds, panes'[i].state \in {"waiting", "up"}
      PROVE  /\ tab[panes[i].win] # None => tab'[panes[i].win] # None
             /\ "moved" \in Ops(toWin[panes[i].win]) => "moved" \in Ops(toWin'[panes[i].win])
  <2>1. panes'[i] = panes[i] /\ Mounted(i) /\ panes[i].win \in Windows
    BY <1>0, <1>6, <1>8 DEF Mounted, Addressed
  <2>2. CASE LetGo(w)
    <3>1. i \notin MountedIn(w)
      <4>1. MountedIn(w) \in SUBSET PaneIds
        BY DEF MountedIn
      <4>2. panes' = Marked(MountedIn(w), "left")
        BY <2>2 DEF LetGo, Marked
      <4>. QED BY <1>0, <1>8, <4>1, <4>2, Unmounts
    <3>2. panes[i].win # w
      BY <2>1, <3>1 DEF MountedIn
    <3>. QED BY <1>0, <1>2, <2>1, <2>2, <3>2 DEF LetGo, TypeOK
  <2>3. CASE HearExit(w) \/ HearStays(w)
    <3>1. tab' = tab /\ Head(toWin[w]).op # "moved"
      BY <2>3 DEF HearExit, HearStays, Hears
    <3>2. "moved" \in Ops(toWin[w]) => "moved" \in Ops(toWin'[w])
      <4>1. toWin'[w] = Tail(toWin[w]) /\ toWin[w] \in Seq(Notice)
        BY <1>0, <1>1 DEF TypeOK, Taken
      <4>. QED BY <1>1, <3>1, <4>1, TailKeeps
    <3>. QED BY <1>2, <2>1, <3>1, <3>2
  <2>. QED BY <2>2, <2>3
<1>9. Still
  BY <1>1, <1>2, <1>6, <1>8 DEF Still
<1>. QED BY <1>0, <1>2, <1>3, <1>4, <1>7, <1>9, CalmStep

\* The ways a window closes panes of its own.
Closes(w) == \/ CloseTab(w) \/ HearFailed(w)
             \/ \E i \in PaneIds : CloseTerminal(i) /\ panes[i].win = w

LEMMA CloseCalm ==
    ASSUME IInv, IInv', Sessions, NEW w \in Windows,
           Closes(w)
    PROVE  Calm
<1>0. TypeOK /\ TypeOK' /\ Tidy /\ Addressed /\ MainOrdered /\ WinOrdered
  BY DEF IInv, Sessions
<1>1. PICK ids \in SUBSET PaneIds :
         /\ panes' = Marked(ids, "closed") /\ toMain' = Sent(toMain, w, KillRequests(ids))
         /\ tab' = tab \/ (tab' = [tab EXCEPT ![w] = None] /\ ids = MountedIn(w))
  <2>1. MountedIn(w) \in SUBSET PaneIds
    BY DEF MountedIn
  <2>2. ASSUME NEW ids \in SUBSET PaneIds, ClosePanes(w, ids)
        PROVE  panes' = Marked(ids, "closed") /\ toMain' = Sent(toMain, w, KillRequests(ids))
    BY <2>2 DEF ClosePanes, Marked
  <2>3. CASE CloseTab(w)
    BY <2>1, <2>2, <2>3 DEF CloseTab
  <2>4. ASSUME NEW i \in PaneIds, CloseTerminal(i), panes[i].win = w
        PROVE  {i} \in SUBSET PaneIds /\ ClosePanes(w, {i}) /\ tab' = tab
    BY <2>4 DEF CloseTerminal
  <2>5. CASE HearFailed(w)
    <3>1. tab' = tab
      BY <2>5 DEF HearFailed
    <3>. QED BY <2>5, <3>1, FailedCloses DEF Marked
  <2>. QED BY <2>2, <2>3, <2>4, <2>5 DEF Closes
<1>2. /\ UNCHANGED <<parked, creating, tickets, owner>>
      /\ toWin' = toWin \/ (toWin[w] # <<>> /\ Head(toWin[w]).op = "failed" /\ toWin' = Taken(toWin, w))
  BY DEF Closes, CloseTab, CloseTerminal, ClosePanes, HearFailed, Hears, desktop, ptyVars
<1>3. KillRequests(ids) \in Seq(Request) /\ \A x \in Items(KillRequests(ids)) : x.op = "kill"
  <2>1. KillRequests(ids) \in Seq(Request) /\ Ops(KillRequests(ids)) \subseteq {"kill"}
    BY <1>0, Kills
  <2>. QED BY <2>1 DEF Items, Ops
<1>4. /\ MainOrdered' /\ \A v \in Windows : v # w => toMain'[v] = toMain[v]
      /\ Items(toMain'[w]) = Items(toMain[w]) \cup Items(KillRequests(ids))
  <2>1. \A x, y : y \in Items(KillRequests(ids)) => <<x, y>> \notin LateAdopt \cup Again
    BY <1>3, FollowsAnything
  <2>2. InOrder(KillRequests(ids), Again) /\ InOrder(KillRequests(ids), LateAdopt)
    BY <2>1 DEF InOrder, Items
  <2>. QED BY <1>0, <1>1, <1>3, <2>1, <2>2, MainSent
<1>5. /\ WinOrdered' /\ \A v \in Windows : Items(toWin'[v]) \subseteq Items(toWin[v])
      /\ \A v \in Windows : "moved" \in Ops(toWin[v]) => "moved" \in Ops(toWin'[v])
  <2>1. CASE toWin' = toWin
    BY <1>0, <2>1 DEF WinOrdered
  <2>2. CASE toWin[w] # <<>> /\ Head(toWin[w]).op = "failed" /\ toWin' = Taken(toWin, w)
    <3>1. /\ WinOrdered' /\ \A v \in Windows : v # w => toWin'[v] = toWin[v]
          /\ \A v \in Windows : Items(toWin'[v]) \subseteq Items(toWin[v])
      BY <1>0, <2>2, WinTaken
    <3>2. toWin'[w] = Tail(toWin[w]) /\ toWin[w] \in Seq(Notice)
      BY <1>0, <2>2 DEF TypeOK, Taken
    <3>3. "moved" \in Ops(toWin[w]) => "moved" \in Ops(toWin'[w])
      BY <2>2, <3>2, TailKeeps
    <3>. QED BY <3>1, <3>3
  <2>. QED BY <1>2, <2>1, <2>2
<1>6. \A v \in Windows : (Holds(v)' => Holds(v)) /\ (Gets(v)' => Gets(v))
  <2>1. Quiet
    BY <1>0, QuietUser, QuietRenderer DEF Closes
  <2>. QED BY <1>0, <2>1, QuietPlace
<1>7. \A i \in PaneIds : /\ panes'[i].state = "unused" => panes[i].state = "unused"
                         /\ panes'[i].pty = panes[i].pty
                         /\ panes'[i].state \in {"waiting", "up"} => panes'[i] = panes[i] /\ i \notin ids
  BY <1>0, <1>1, Unmounts
<1>8. Plain
  <2>1. \A v \in Windows : parked'[v] # None => \A p \in Ptys(parked'[v].load) : Known(p)
    BY <1>2 DEF Known
  <2>. QED BY <1>2, <1>3, <1>4, <1>5, <1>7, <2>1 DEF Plain
<1>9. ASSUME NEW i \in PaneIds, panes'[i].state \in {"waiting", "up"}
      PROVE  tab[panes[i].win] # None => tab'[panes[i].win] # None
  <2>1. Mounted(i) /\ panes[i].win \in Windows /\ i \notin ids
    BY <1>0, <1>7, <1>9 DEF Mounted, Addressed
  <2>2. CASE ids = MountedIn(w) /\ tab' = [tab EXCEPT ![w] = None]
    <3>1. panes[i].win # w
      BY <2>1, <2>2 DEF MountedIn
    <3>. QED BY <1>0, <2>1, <2>2, <3>1 DEF TypeOK
  <2>. QED BY <1>1, <2>2
<1>10. Still
  <2>1. \A i \in PaneIds : panes'[i].state \in {"waiting", "up"} =>
           /\ panes'[i] = panes[i] /\ panes[i].win \in Windows
           /\ tab[panes[i].win] # None => tab'[panes[i].win] # None
    BY <1>0, <1>7, <1>9 DEF Addressed
  <2>2. owner' = owner /\ \A v \in Windows : \A x \in Items(toWin'[v]) : x \in Items(toWin[v])
    BY <1>2, <1>5
  <2>. QED BY <1>5, <2>1, <2>2 DEF Still
<1>. QED BY <1>0, <1>4, <1>5, <1>6, <1>8, <1>10, CalmStep

\* What a window has under way is kept, in another order of things.
LEMMA KeepsMoved ==
    ASSUME TypeOK, TypeOK', NEW v \in Windows
    PROVE  Items(toWin[v]) \subseteq Items(toWin'[v]) => Ops(toWin[v]) \subseteq Ops(toWin'[v])
BY DEF Items, Ops

LEMMA KillCalm ==
    ASSUME IInv, IInv', Sessions, NEW w \in Windows, Kill(w)
    PROVE  Calm
<1>0. TypeOK /\ TypeOK' /\ Tidy /\ Addressed /\ MainOrdered /\ WinOrdered
  BY DEF IInv, Sessions
<1>1. /\ toMain[w] # <<>> /\ toMain' = Taken(toMain, w)
      /\ UNCHANGED <<tab, toWin, panes, parked, creating, tickets, owner>>
  BY DEF Kill, Asks, desktop
<1>2. MainOrdered' /\ \A v \in Windows : Items(toMain'[v]) \subseteq Items(toMain[v])
  BY <1>0, <1>1, MainTaken
<1>3. WinOrdered'
  BY <1>0, <1>1 DEF WinOrdered
<1>4. \A v \in Windows : (Holds(v)' => Holds(v)) /\ (Gets(v)' => Gets(v))
  BY <1>0, QuietMain, QuietPlace
<1>5. Plain
  <2>1. \A v \in Windows : parked'[v] # None => \A p \in Ptys(parked'[v].load) : Known(p)
    BY <1>1 DEF Known
  <2>. QED BY <1>1, <1>2, <2>1 DEF Plain
<1>6. Still
  BY <1>1 DEF Still
<1>. QED BY <1>0, <1>2, <1>3, <1>4, <1>5, <1>6, CalmStep

LEMMA ExitCalm ==
    ASSUME IInv, IInv', Sessions, NEW i \in PaneIds, PtyExit(i)
    PROVE  Calm /\ \A v \in Windows : \A x \in Items(toWin'[v]) : x \in Items(toWin[v]) \/ x.op = "exit"
<1>0. TypeOK /\ TypeOK' /\ Tidy /\ Addressed /\ MainOrdered /\ WinOrdered
  BY DEF IInv, Sessions
<1>1. /\ UNCHANGED <<tab, panes, toMain, parked, creating>> /\ tickets' \subseteq tickets
      /\ \A p \in DOMAIN owner' : p \in DOMAIN owner /\ owner'[p] = owner[p]
      /\ \/ toWin' = toWin
         \/ owner[i] # None /\ toWin' = Told(toWin, owner[i], [op |-> "exit", pty |-> i])
  BY DEF PtyExit, desktop
<1>2. owner[i] # None => owner[i] \in Windows
  BY <1>0 DEF PtyExit, TypeOK
<1>3. /\ WinOrdered'
      /\ \A v \in Windows : /\ \A x \in Items(toWin'[v]) : x \in Items(toWin[v]) \/ x.op = "exit"
                            /\ Items(toWin[v]) \subseteq Items(toWin'[v])
  <2>1. CASE toWin' = toWin
    BY <1>0, <2>1 DEF WinOrdered
  <2>2. CASE owner[i] # None /\ toWin' = Told(toWin, owner[i], [op |-> "exit", pty |-> i])
    <3> DEFINE n == [op |-> "exit", pty |-> i]
    <3>1. n \in Notice /\ n.op = "exit"
      BY NoticeKinds
    <3>2. \A x : <<x, n>> \notin Again
      BY <3>1, FollowsAnything
    <3>3. PICK u \in Windows : toWin' = Told(toWin, u, n)
      BY <1>2, <2>2
    <3>. HIDE DEF n
    <3>. QED BY <1>0, <3>1, <3>2, <3>3, WinTold
  <2>. QED BY <1>1, <2>1, <2>2
<1>4. MainOrdered'
  BY <1>0, <1>1 DEF MainOrdered
<1>5. \A v \in Windows : (Holds(v)' => Holds(v)) /\ (Gets(v)' => Gets(v))
  BY <1>0, QuietShells, QuietPlace
<1>6. Plain
  <2>1. \A v \in Windows : parked'[v] # None => \A p \in Ptys(parked'[v].load) : Known(p)
    BY <1>1 DEF Known
  <2>. QED BY <1>1, <1>3, <2>1 DEF Plain
<1>7. Still
  <2>1. ASSUME NEW j \in PaneIds, panes'[j].state \in {"waiting", "up"}
        PROVE  "moved" \in Ops(toWin[panes[j].win]) => "moved" \in Ops(toWin'[panes[j].win])
    <3>1. panes[j].win \in Windows
      BY <1>0, <1>1, <2>1 DEF Addressed
    <3>. QED BY <1>0, <1>3, <3>1, KeepsMoved
  <2>. QED BY <1>1, <1>3, <2>1 DEF Still
<1>8. Calm
  BY <1>0, <1>3, <1>4, <1>5, <1>6, <1>7, CalmStep
<1>. QED BY <1>3, <1>8

LEMMA EndDragCalm ==
    ASSUME IInv, IInv', Sessions, NEW w \in Windows, NEW canDetach \in BOOLEAN, EndDrag(w, canDetach)
    PROVE  Calm
<1> DEFINE r == [op |-> "end", load |-> LoadOf(w), canDetach |-> canDetach]
<1>0. TypeOK /\ TypeOK' /\ Tidy /\ Addressed /\ MainOrdered /\ WinOrdered
  BY DEF IInv, Sessions
<1>1. /\ toMain' = Sent(toMain, w, <<r>>) /\ tab[w] # None /\ ~DropPending(w)
      /\ UNCHANGED <<tab, toWin, panes, parked, creating, tickets, owner>>
  BY DEF EndDrag, desktop, ptyVars
<1>2. r \in Request /\ r.op = "end" /\ r.load = LoadOf(w)
  BY <1>0, LoadTypes DEF Request
<1>3. \A p \in Ptys(LoadOf(w)) : Known(p)
  <2>1. \A t \in DOMAIN LoadOf(w) : <<t, tab[w]>> \in PaneIds /\ LoadOf(w)[t] = panes[<<t, tab[w]>>].pty
    BY DEF LoadOf, MountedIn
  <2>. QED BY <2>1 DEF Ptys, Known
<1>. HIDE DEF r
<1>4. /\ MainOrdered' /\ \A v \in Windows : v # w => toMain'[v] = toMain[v]
      /\ Items(toMain'[w]) = Items(toMain[w]) \cup {r}
  <2>1. <<r>> \in Seq(Request) /\ Items(<<r>>) = {r} /\ InOrder(<<r>>, Again) /\ InOrder(<<r>>, LateAdopt)
    BY <1>2, ShortQueues, OneOp
  <2>2. \A x : <<x, r>> \notin LateAdopt \cup Again
    BY <1>2, FollowsAnything
  <2>. QED BY <1>0, <1>1, <2>1, <2>2, MainSent
<1>5. WinOrdered'
  BY <1>0, <1>1 DEF WinOrdered
<1>6. \A v \in Windows : (Holds(v)' => Holds(v)) /\ (Gets(v)' => Gets(v))
  <2>1. Holds(w)
    <3>1. DOMAIN toWin[w] = 1..Len(toWin[w])
      BY <1>0 DEF TypeOK
    <3>2. "moved" \notin Ops(toWin[w])
      BY <1>1, <3>1 DEF DropPending, Ops
    <3>. QED BY <1>1, <3>2 DEF Holds
  <2>. QED BY <1>1, <1>4, <2>1 DEF Holds, Gets
<1>7. Plain
  <2>1. \A v \in Windows : parked'[v] # None => \A p \in Ptys(parked'[v].load) : Known(p)
    BY <1>1 DEF Known
  <2>. QED BY <1>1, <1>2, <1>3, <1>4, <2>1 DEF Plain
<1>8. Still
  BY <1>1 DEF Still
<1>. QED BY <1>0, <1>4, <1>5, <1>6, <1>7, <1>8, CalmStep

LEMMA WindowCalm ==
    ASSUME IInv, IInv', Sessions, NewWindow \/ \E w \in Windows : Boot(w) \/ Reload(w) \/ CloseWindow(w)
    PROVE  Calm
<1>0. TypeOK /\ TypeOK' /\ Tidy /\ Addressed /\ MainOrdered /\ WinOrdered
  BY DEF IInv, Sessions
<1>1. CASE NewWindow
  <2>1. UNCHANGED <<tab, panes, toMain, toWin, parked, creating, tickets, owner>>
    BY <1>1 DEF NewWindow, ptyVars
  <2>2. \A v \in Windows : (Holds(v)' => Holds(v)) /\ (Gets(v)' => Gets(v))
    BY <2>1 DEF Holds, Gets
  <2>3. Plain
    <3>1. \A v \in Windows : parked'[v] # None => \A p \in Ptys(parked'[v].load) : Known(p)
      BY <2>1 DEF Known
    <3>. QED BY <2>1, <3>1 DEF Plain
  <2>4. Still
    BY <2>1 DEF Still
  <2>5. MainOrdered' /\ WinOrdered'
    BY <1>0, <2>1 DEF MainOrdered, WinOrdered
  <2>. QED BY <1>0, <2>2, <2>3, <2>4, <2>5, CalmStep
<1>2. ASSUME NEW w \in Windows, Boot(w) PROVE Calm
  <2>1. /\ UNCHANGED <<tab, panes, toMain, creating, tickets, owner>> /\ w \notin booted
        /\ toWin' = IF parked[w] = None THEN toWin ELSE Sent(toWin, w, <<parked[w]>>)
        /\ parked' = [parked EXCEPT ![w] = None]
    BY <1>2 DEF Boot, TakePending, ptyVars
  <2>2. toWin[w] = <<>> /\ toMain[w] = <<>> /\ tab[w] = None
    BY <1>0, <2>1 DEF Tidy
  <2>3. \A v \in Windows : parked'[v] = IF v = w THEN None ELSE parked[v]
    BY <1>0, <2>1 DEF TypeOK
  <2>4. \A v \in Windows : v # w => toWin'[v] = toWin[v]
    BY <1>0, <2>1 DEF TypeOK, Sent
  <2>5. /\ parked[w] = None => toWin'[w] = <<>>
        /\ parked[w] # None => toWin'[w] = <<parked[w]>> /\ parked[w].op = "tab"
    <3>1. CASE parked[w] = None
      BY <2>1, <2>2, <3>1
    <3>2. CASE parked[w] # None
      <4>1. parked[w] \in TabMessage /\ parked[w].op = "tab" /\ parked[w] \in Notice
        BY <1>0, <3>2, Contents DEF TypeOK
      <4>2. toWin'[w] = <<>> \o <<parked[w]>>
        BY <1>0, <2>1, <2>2, <3>2 DEF TypeOK, Sent
      <4>. QED BY <3>2, <4>1, <4>2
    <3>. QED BY <3>1, <3>2
  <2>6. /\ \A v \in Windows : v # w => Items(toWin'[v]) = Items(toWin[v])
        /\ \A x \in Items(toWin'[w]) : x.op = "tab" /\ \A p \in Ptys(x.load) : Known(p)
        /\ WinOrdered'
    <3>1. Items(toWin'[w]) = IF parked[w] = None THEN {} ELSE {parked[w]}
      BY <2>5, ShortQueues
    <3>2. parked[w] # None => \A p \in Ptys(parked[w].load) : Known(p)
      BY DEF Known
    <3>3. InOrder(toWin'[w], Again)
      <4>1. InOrder(<<>>, Again) /\ InOrder(<<parked[w]>>, Again)
        BY ShortQueues
      <4>. QED BY <2>5, <4>1
    <3>4. WinOrdered'
      BY <1>0, <2>4, <3>3 DEF WinOrdered
    <3>. QED BY <2>4, <2>5, <3>1, <3>2, <3>4
  <2>7. MainOrdered'
    BY <1>0, <2>1 DEF MainOrdered
  <2>8. \A v \in Windows : (Holds(v)' => Holds(v)) /\ (Gets(v)' => Gets(v))
    <3>1. ASSUME NEW v \in Windows, v # w PROVE (Holds(v)' => Holds(v)) /\ (Gets(v)' => Gets(v))
      BY <2>1, <2>3, <2>4, <3>1 DEF Holds, Gets
    <3>2. Holds(w)' => Holds(w)
      BY <2>1, <2>2 DEF Holds
    <3>3. parked[w] = None => Ops(toWin'[w]) = {}
      BY <2>5 DEF Ops
    <3>4. Gets(w)' => Gets(w)
      BY <2>3, <3>3 DEF Gets
    <3>. QED BY <3>1, <3>2, <3>4
  <2>9. Plain
    <3>1. \A v \in Windows : parked'[v] # None => \A p \in Ptys(parked'[v].load) : Known(p)
      BY <2>3 DEF Known
    <3>. QED BY <2>1, <2>6, <3>1 DEF Plain
  <2>10. Still
    <3>1. \A v \in Windows : "moved" \in Ops(toWin[v]) => "moved" \in Ops(toWin'[v])
      <4>1. "moved" \notin Ops(toWin[w])
        BY <2>2 DEF Ops
      <4>. QED BY <2>4, <4>1
    <3>2. \A v \in Windows : \A x \in Items(toWin'[v]) :
             x \in Items(toWin[v]) \/ x.op \notin {"adopted", "created"}
      BY <2>6
    <3>3. \A i \in PaneIds : panes'[i].state \in {"waiting", "up"} => panes[i].win \in Windows
      BY <1>0, <2>1 DEF Addressed
    <3>. QED BY <2>1, <3>1, <3>2, <3>3 DEF Still
  <2>. QED BY <1>0, <2>6, <2>7, <2>8, <2>9, <2>10, CalmStep
<1>3. ASSUME NEW w \in Windows, Reload(w) \/ CloseWindow(w) PROVE Calm
  <2>1. /\ tab' = [tab EXCEPT ![w] = None] /\ UNCHANGED <<creating, tickets, owner>>
        /\ panes' = [i \in PaneIds |-> IF panes[i].win = w /\ panes[i].state # "unused"
                                       THEN [win |-> w, pty |-> None, state |-> "lost"] ELSE panes[i]]
        /\ toMain' = [toMain EXCEPT ![w] = <<>>] /\ toWin' = [toWin EXCEPT ![w] = <<>>]
        /\ parked' = parked \/ parked' = [parked EXCEPT ![w] = None]
    BY <1>3 DEF Reload, CloseWindow, LoseRenderer
  <2>2. /\ tab'[w] = None /\ toMain'[w] = <<>> /\ toWin'[w] = <<>> /\ parked'[w] \in {parked[w], None}
        /\ \A v \in Windows : v # w => /\ tab'[v] = tab[v] /\ toMain'[v] = toMain[v]
                                       /\ toWin'[v] = toWin[v] /\ parked'[v] = parked[v]
    BY <1>0, <2>1 DEF TypeOK
  <2>3. \A v \in Windows : (Holds(v)' => Holds(v)) /\ (Gets(v)' => Gets(v))
    <3>1. Ops(<<>>) = {}
      BY DEF Ops
    <3>. QED BY <2>2, <3>1 DEF Holds, Gets
  <2>4. MainOrdered' /\ WinOrdered'
    BY <1>0, <2>2, ShortQueues DEF MainOrdered, WinOrdered
  <2>5. \A v \in Windows : /\ Items(toMain'[v]) \subseteq Items(toMain[v])
                           /\ Items(toWin'[v]) \subseteq Items(toWin[v])
    BY <2>2, ShortQueues
  <2>6. \A i \in PaneIds :
           /\ panes'[i].state = "unused" => panes[i].state = "unused"
           /\ panes'[i].pty \in {panes[i].pty, None}
           /\ panes'[i].state \in {"waiting", "up"} => panes'[i] = panes[i] /\ panes[i].win # w
    <3>1. ASSUME NEW i \in PaneIds, panes[i].win = w /\ panes[i].state # "unused"
          PROVE  panes'[i] = [win |-> w, pty |-> None, state |-> "lost"]
      BY <2>1, <3>1
    <3>2. ASSUME NEW i \in PaneIds, ~(panes[i].win = w /\ panes[i].state # "unused")
          PROVE  panes'[i] = panes[i]
      BY <2>1, <3>2
    <3>. QED BY <3>1, <3>2
  <2>7. Plain
    <3>1. \A v \in Windows : parked'[v] # None => \A p \in Ptys(parked'[v].load) : Known(p)
      BY <2>2 DEF Known
    <3>. QED BY <2>1, <2>5, <2>6, <3>1 DEF Plain
  <2>8. Still
    <3>1. \A i \in PaneIds : panes'[i].state \in {"waiting", "up"} => panes[i].win \in Windows
      BY <1>0, <2>6 DEF Addressed
    <3>. QED BY <2>1, <2>2, <2>5, <2>6, <3>1 DEF Still
  <2>. QED BY <1>0, <2>3, <2>4, <2>7, <2>8, CalmStep
<1>. QED BY <1>1, <1>2, <1>3

-----------------------------------------------------------------------------
(* Steps by which a pane gets its session, or asks for one.                *)

\* A renderer that hears of a session shows no other than was due to it.
LEMMA HearShown ==
    ASSUME IInv, IInv', Sessions, NEW w \in Windows, HearCreated(w) \/ HearAdopted(w)
    PROVE  InTab' /\ Kept' /\ WinOrdered' /\ MainOrdered' /\ Adopters'
<1> DEFINE i == Head(toWin[w]).pane
<1>0. /\ TypeOK /\ TypeOK' /\ Tidy /\ Addressed /\ MainOrdered /\ WinOrdered /\ InTab /\ Adopters /\ Kept
  BY DEF IInv, Sessions
<1>1. /\ toWin[w] # <<>> /\ toWin' = Taken(toWin, w) /\ Head(toWin[w]).op \in {"created", "adopted"}
      /\ UNCHANGED <<tab, parked, creating, tickets, owner>>
  BY DEF HearCreated, HearAdopted, Hears, desktop, ptyVars
<1>2. /\ WinOrdered' /\ \A v \in Windows : v # w => toWin'[v] = toWin[v]
      /\ Items(toWin[w]) = Items(toWin'[w]) \cup {Head(toWin[w])}
      /\ \A v \in Windows : Items(toWin'[v]) \subseteq Items(toWin[v])
  BY <1>0, <1>1, WinTaken
<1>3. i \in PaneIds /\ panes[i].state # "unused" /\ panes[i].win = w
  BY <1>0, <1>1, <1>2, AboutPanes DEF PaneOps
<1>4. \/ panes' = panes
      \/ /\ panes[i].state = "waiting"
         /\ \A j \in PaneIds : j # i => panes'[j] = panes[j]
         /\ panes'[i].state = "up" /\ panes'[i].win = w
         /\ \/ Head(toWin[w]).op = "created" /\ panes'[i].pty = i
            \/ Head(toWin[w]).op = "adopted" /\ panes'[i].pty = panes[i].pty
  <2>1. panes' = panes \/ (panes[i].state = "waiting" /\
            \/ Head(toWin[w]).op = "created" /\ panes' = [panes EXCEPT ![i].pty = i, ![i].state = "up"]
            \/ Head(toWin[w]).op = "adopted" /\ panes' = [panes EXCEPT ![i].state = "up"])
    BY DEF HearCreated, HearAdopted, Hears
  <2>. HIDE DEF i
  <2>2. panes \in [PaneIds -> Pane] /\ panes[i] \in Pane
    BY <1>0, <1>3 DEF TypeOK
  <2>. QED BY <1>3, <2>1, <2>2 DEF Pane
<1>5. \/ toMain' = toMain
      \/ toMain' = Sent(toMain, w, <<[op |-> "kill", pty |-> i]>>)
  BY DEF HearCreated, HearAdopted
<1>6. MainOrdered' /\ \A v \in Windows : \A x \in Items(toMain'[v]) : x \in Items(toMain[v]) \/ x.op = "kill"
  <2>1. CASE toMain' = toMain
    BY <1>0, <2>1 DEF MainOrdered
  <2>2. CASE toMain' = Sent(toMain, w, <<[op |-> "kill", pty |-> i]>>)
    <3> DEFINE r == [op |-> "kill", pty |-> i]
    <3>1. r \in Request /\ r.op = "kill" /\ toMain' = Sent(toMain, w, <<r>>)
      BY <1>3, <2>2 DEF Request
    <3>. HIDE DEF r
    <3>2. <<r>> \in Seq(Request) /\ Items(<<r>>) = {r} /\ InOrder(<<r>>, Again) /\ InOrder(<<r>>, LateAdopt)
      BY <3>1, ShortQueues, OneOp
    <3>3. \A x : <<x, r>> \notin LateAdopt \cup Again
      BY <3>1, FollowsAnything
    <3>. QED BY <1>0, <3>1, <3>2, <3>3, MainSent
  <2>. QED BY <1>5, <2>1, <2>2
<1>7. InTab'
  BY <1>0, <1>1, <1>3, <1>4 DEF InTab, Mounted
<1>. HIDE DEF i
<1>8. ASSUME NEW v \in Windows PROVE "moved" \in Ops(toWin[v]) => "moved" \in Ops(toWin'[v])
  <2>1. toWin'[w] = Tail(toWin[w]) /\ toWin[w] \in Seq(Notice)
    BY <1>0, <1>1 DEF TypeOK, Taken
  <2>2. "moved" \in Ops(toWin[w]) => "moved" \in Ops(toWin'[w])
    BY <1>1, <2>1, TailKeeps
  <2>. QED BY <1>2, <2>2
<1>9. ASSUME NEW j \in PaneIds, NEW p \in DOMAIN owner', Shows(j, p)', "moved" \notin Ops(toWin'[panes'[j].win])
      PROVE  owner'[p] = panes'[j].win
  <2>1. panes'[j].win = panes[j].win /\ panes[j].win \in Windows
    <3>1. panes'[j].state \in {"waiting", "up"}
      BY <1>9 DEF Shows
    <3>. QED BY <1>0, <1>3, <1>4, <3>1 DEF Addressed
  <2>2. Shows(j, p)
    <3>1. CASE panes'[j] = panes[j]
      <4>1. \A op : Answers(toWin'[panes[j].win], op, j) => Answers(toWin[panes[j].win], op, j)
        BY <1>2, <2>1 DEF Answers
      <4>. QED BY <1>9, <3>1, <4>1 DEF Shows
    <3>2. CASE j = i /\ panes[i].state = "waiting" /\ panes'[i].state = "up"
      <4>1. Head(toWin[w]) \in Items(toWin[w]) /\ Head(toWin[w]).pane = i
        BY <1>2 DEF i
      <4>2. Answers(toWin[w], Head(toWin[w]).op, i)
        BY <4>1 DEF Answers
      <4>3. p = panes'[i].pty
        BY <1>9, <3>2 DEF Shows
      <4>. QED BY <1>3, <1>4, <3>2, <4>2, <4>3 DEF Shows
    <3>. QED BY <1>4, <3>1, <3>2
  <2>. QED BY <1>0, <1>1, <1>8, <1>9, <2>1, <2>2 DEF Kept
<1>10. Kept'
  BY <1>9 DEF Kept
<1>11. Adopters'
  <2>1. \A v \in Windows : (Holds(v)' => Holds(v)) /\ (Gets(v)' => Gets(v))
    BY <1>0, QuietRenderer, QuietPlace
  <2>2. \A v \in Windows : \A x \in Items(toMain'[v]) : x.op = "adopt" => x \in Items(toMain[v])
    BY <1>6
  <2>. QED BY <1>0, <2>1, <2>2, AdoptersKeep
<1>. QED BY <1>2, <1>6, <1>7, <1>10, <1>11

LEMMA HearAdoptedSession ==
    ASSUME IInv, IInv', Sessions, NEW w \in Windows, HearAdopted(w)
    PROVE  Sessions' /\ Ages
<1>0. TypeOK /\ WinOrdered /\ OneSpawn /\ Born
  BY DEF IInv, Sessions
<1>1. /\ toWin[w] # <<>> /\ toWin' = Taken(toWin, w)
      /\ UNCHANGED <<toMain, parked, creating, tickets>>
      /\ panes' = panes \/ panes' = [panes EXCEPT ![Head(toWin[w]).pane].state = "up"]
  BY DEF HearAdopted, Hears, desktop, ptyVars
<1>2. \A v \in Windows : Items(toWin'[v]) \subseteq Items(toWin[v])
  BY <1>0, <1>1, WinTaken
<1>3. \A j \in PaneIds : /\ panes'[j].state = "unused" => panes[j].state = "unused"
                         /\ panes'[j].pty = panes[j].pty
  <2>1. panes \in [PaneIds -> Pane]
    BY <1>0 DEF TypeOK
  <2>. QED BY <1>1, <2>1 DEF Pane
<1>4. Plain
  <2>1. \A v \in Windows : parked'[v] # None => \A p \in Ptys(parked'[v].load) : Known(p)
    BY <1>1 DEF Known
  <2>. QED BY <1>1, <1>2, <1>3, <2>1 DEF Plain
<1>. QED BY <1>0, <1>4, HearShown, PlainKeeps DEF Sessions

\* The pty that a pane hears of was not born, and is known to no other pane.
Announces(w) ==
    \E i \in PaneIds : /\ i = Head(toWin[w]).pane /\ Unborn(i) /\ ~Unborn(i)'
                       /\ panes' = panes => ~Known(i)'

\* A pty is known from when its pane hears of it, and only then.
LEMMA HearCreatedSession ==
    ASSUME IInv, IInv', Sessions, NEW w \in Windows, HearCreated(w)
    PROVE  Sessions' /\ Ages /\ Announces(w)
<1>0. TypeOK /\ TypeOK' /\ Addressed /\ MainOrdered /\ WinOrdered /\ OneSpawn /\ Born
  BY DEF IInv, Sessions
<1>a. PICK i \in PaneIds : i = Head(toWin[w]).pane
  <2>1. Head(toWin[w]).pane \in PaneIds
    BY <1>0, Heads, Contents DEF HearCreated, Hears
  <2>. QED BY <2>1
<1>1. /\ toWin[w] # <<>> /\ toWin' = Taken(toWin, w) /\ Head(toWin[w]).op = "created"
      /\ Head(toWin[w]).pane = i
      /\ UNCHANGED <<parked, creating, tickets>>
      /\ \/ panes' = panes
         \/ panes' = [panes EXCEPT ![i].pty = i, ![i].state = "up"]
      /\ \/ toMain' = toMain
         \/ toMain' = Sent(toMain, w, <<[op |-> "kill", pty |-> i]>>)
  BY <1>a DEF HearCreated, Hears, desktop, ptyVars
<1>2. /\ \A v \in Windows : v # w => toWin'[v] = toWin[v]
      /\ Items(toWin[w]) = Items(toWin'[w]) \cup {Head(toWin[w])}
      /\ \A v \in Windows : Items(toWin'[v]) \subseteq Items(toWin[v])
      /\ \A x \in Items(toWin'[w]) : <<Head(toWin[w]), x>> \notin Again
  BY <1>0, <1>1, WinTaken
<1>3. i \in PaneIds /\ panes[i].state # "unused" /\ panes[i].win = w
  BY <1>0, <1>1, <1>2, AboutPanes DEF PaneOps
<1>4. \A v \in Windows : \A x \in Items(toMain'[v]) : x \in Items(toMain[v]) \/ x.op = "kill"
  <2>1. CASE toMain' = toMain
    BY <2>1
  <2>2. CASE toMain' = Sent(toMain, w, <<[op |-> "kill", pty |-> i]>>)
    <3> DEFINE r == [op |-> "kill", pty |-> i]
    <3>1. r \in Request /\ r.op = "kill" /\ toMain' = Sent(toMain, w, <<r>>)
      BY <1>3, <2>2 DEF Request
    <3>. HIDE DEF r
    <3>2. <<r>> \in Seq(Request) /\ Items(<<r>>) = {r} /\ InOrder(<<r>>, Again) /\ InOrder(<<r>>, LateAdopt)
      BY <3>1, ShortQueues, OneOp
    <3>3. \A x : <<x, r>> \notin LateAdopt \cup Again
      BY <3>1, FollowsAnything
    <3>. QED BY <1>0, <3>1, <3>2, <3>3, MainSent
  <2>. QED BY <1>1, <2>1, <2>2
<1>5. \A v \in Windows, p \in PaneIds : /\ Spawning(toMain'[v], p) => Spawning(toMain[v], p)
                                        /\ Spawning(toWin'[v], p) => Spawning(toWin[v], p)
  BY <1>2, <1>4 DEF Spawning
<1>6. OneSpawn'
  BY <1>0, <1>1, <1>5 DEF OneSpawn
<1>7. /\ \A p \in PaneIds : panes'[p].state = "unused" => panes[p].state = "unused"
      /\ \A j \in PaneIds : panes'[j].pty = panes[j].pty \/ panes'[j].pty = i
  <2>1. panes \in [PaneIds -> Pane]
    BY <1>0 DEF TypeOK
  <2>. QED BY <1>1, <1>3, <2>1 DEF Pane
<1>8. ~Unborn(i)'
  <2>1. Head(toWin[w]) \in Items(toWin[w]) /\ Spawning(toWin[w], i)
    BY <1>1, <1>2 DEF Spawning
  <2>2. \A v \in Windows : Spawning(toMain[v], i) \/ Spawning(toWin[v], i) => v = w
    BY <1>0, <1>3, AboutPanes DEF Spawning, PaneOps
  <2>3. i \notin creating' /\ \A v \in Windows : ~Spawning(toMain'[v], i)
    BY <1>0, <1>1, <1>3, <1>5, <2>1, <2>2 DEF OneSpawn
  <2>4. ~Spawning(toWin'[w], i)
    <3>1. ASSUME NEW x \in Items(toWin'[w]), x.op \in {"create", "created"}, x.pane = i PROVE FALSE
      <4>1. x \in Notice /\ Head(toWin[w]) \in Notice
        BY <1>0, <1>2, <2>1, <3>1, InQueues
      <4>2. x.op = "created"
        BY <3>1, <4>1, Contents
      <4>3. <<Head(toWin[w]), x>> \in Again
        BY <1>1, <3>1, <4>1, <4>2 DEF Again
      <4>. QED BY <1>2, <3>1, <4>3
    <3>. QED BY <3>1 DEF Spawning
  <2>5. \A v \in Windows : ~Spawning(toWin'[v], i)
    BY <1>3, <1>5, <2>2, <2>4
  <2>6. panes'[i].state # "unused"
    BY <1>3, <1>7
  <2>. QED BY <2>3, <2>5, <2>6 DEF Unborn
<1>9. ASSUME NEW p \in PaneIds PROVE /\ Unborn(p)' => Unborn(p)
                                     /\ Known(p)' => Known(p) \/ p = i
  <2>1. Unborn(p)' => Unborn(p)
    BY <1>1, <1>5, <1>7 DEF Unborn
  <2>2. Known(p)' => Known(p) \/ p = i
    <3>1. \A v \in Windows : /\ Mentions(toMain'[v], p) => Mentions(toMain[v], p)
                             /\ Mentions(toWin'[v], p) => Mentions(toWin[v], p)
      BY <1>2, <1>4 DEF Mentions
    <3>. QED BY <1>1, <1>7, <3>1 DEF Known
  <2>. QED BY <2>1, <2>2
<1>10. Born'
  <2>. QED BY <1>0, <1>1, <1>8, <1>9 DEF Born
<1>11. Unborn(i)
  <2>1. Spawning(toWin[w], i)
    BY <1>1, <1>2 DEF Spawning
  <2>. QED BY <2>1 DEF Unborn
<1>12. Ages
  BY <1>1, <1>9, <1>11 DEF Ages
<1>13. panes' = panes => ~Known(i)'
  <2>1. \A v \in Windows : /\ Mentions(toMain'[v], i) => Mentions(toMain[v], i)
                           /\ Mentions(toWin'[v], i) => Mentions(toWin[v], i)
    BY <1>2, <1>4 DEF Mentions
  <2>2. ~Known(i)
    BY <1>0, <1>11 DEF Born
  <2>. QED BY <1>1, <2>1, <2>2 DEF Known
<1>14. Sessions'
  BY <1>6, <1>10, HearShown DEF Sessions
<1>15. Announces(w)
  BY <1>a, <1>8, <1>11, <1>13 DEF Announces
<1>. QED BY <1>12, <1>14, <1>15

\* Panes that were in no use mount, and ask for shells or for the sessions of the tab.
LEMMA MountSession ==
    ASSUME IInv, Sessions, NEW w \in Windows, NEW ids \in SUBSET PaneIds, NEW m \in Seq(Request),
           \A i \in ids : panes[i].state = "unused",
           \A i \in PaneIds \ ids : panes'[i] = panes[i],
           \A i \in ids : /\ panes'[i].win = w /\ panes'[i].state = "waiting"
                          /\ panes'[i].pty = None \/ Known(panes'[i].pty),
           InOrder(m, Again), \A x \in Items(m) : x.op \in {"create", "adopt"} /\ x.pane \in ids,
           "end" \in Ops(toMain[w]) => \A x \in Items(m) : x.op # "adopt",
           toMain' = Sent(toMain, w, m),
           toWin' = toWin \/ (toWin[w] # <<>> /\ Head(toWin[w]).op # "moved" /\ toWin' = Taken(toWin, w)),
           tab'[w] # None, \A v \in Windows : v # w => tab'[v] = tab[v],
           UNCHANGED <<parked, creating, tickets, owner>>
    PROVE  MainOrdered' /\ WinOrdered' /\ InTab' /\ OneSpawn' /\ Born' /\ Kept' /\ Ages
<1>0. TypeOK /\ Addressed /\ MainOrdered /\ WinOrdered /\ InTab /\ OneSpawn /\ Born /\ Kept
  BY DEF IInv, Sessions
<1>1. \A x \in Items(m) : x \in Request
  BY DEF Items
<1>2. \A v \in Windows : \A x \in Items(toMain[v]) \cup Items(toWin[v]) :
         x.op \in PaneOps => x.pane \in PaneIds \ ids
  <2>1. \A v \in Windows : \A x \in Items(toMain[v]) \cup Items(toWin[v]) :
           x.op \in PaneOps => x.pane \in PaneIds /\ panes[x.pane].state # "unused"
    BY <1>0, AboutPanes
  <2>. QED BY <2>1
<1>3. /\ MainOrdered' /\ \A v \in Windows : v # w => toMain'[v] = toMain[v]
      /\ Items(toMain'[w]) = Items(toMain[w]) \cup Items(m)
  <2>1. ASSUME NEW x \in Items(toMain[w]), NEW y \in Items(m)
        PROVE  <<x, y>> \notin LateAdopt \cup Again
    <3>1. <<x, y>> \notin LateAdopt
      <4>1. x.op \in Ops(toMain[w])
        BY <1>0, InQueues
      <4>. QED BY <2>1, <4>1 DEF LateAdopt
    <3>2. <<x, y>> \notin Again
      BY <1>2, <2>1 DEF Again, PaneOps
    <3>. QED BY <3>1, <3>2
  <2>2. InOrder(m, LateAdopt)
    <3>1. ASSUME NEW j \in 1..Len(m), NEW k \in 1..Len(m) PROVE <<m[j], m[k]>> \notin LateAdopt
      <4>1. m[j] \in Items(m)
        BY DEF Items
      <4>. QED BY <4>1 DEF LateAdopt
    <3>. QED BY <3>1 DEF InOrder
  <2>. QED BY <1>0, <2>1, <2>2, MainSent
<1>4. WinOrdered' /\ \A v \in Windows : Items(toWin'[v]) \subseteq Items(toWin[v])
  <2>1. CASE toWin' = toWin
    BY <1>0, <2>1 DEF WinOrdered
  <2>2. CASE toWin[w] # <<>> /\ toWin' = Taken(toWin, w)
    BY <1>0, <2>2, WinTaken
  <2>. QED BY <2>1, <2>2
<1>5. \A v \in Windows, p \in PaneIds :
         /\ Spawning(toWin'[v], p) => Spawning(toWin[v], p) /\ p \notin ids
         /\ Spawning(toMain'[v], p) => Spawning(toMain[v], p) \/ p \in ids
         /\ p \in ids => ~Spawning(toMain[v], p) /\ ~Spawning(toWin[v], p)
  BY <1>2, <1>3, <1>4 DEF Spawning, PaneOps
<1>6. \A i \in ids : i \notin creating
  BY <1>0 DEF Addressed
<1>7. OneSpawn'
  BY <1>0, <1>5, <1>6 DEF OneSpawn
<1>8. InTab'
  <2>1. ASSUME NEW i \in PaneIds, panes'[i].state \in {"waiting", "up"} PROVE tab'[panes'[i].win] # None
    <3>1. CASE i \in ids
      BY <3>1
    <3>2. CASE i \notin ids
      <4>1. panes'[i] = panes[i] /\ Mounted(i) /\ panes[i].win \in Windows
        BY <1>0, <2>1, <3>2 DEF Mounted, Addressed
      <4>. QED BY <1>0, <4>1 DEF InTab
    <3>. QED BY <3>1, <3>2
  <2>. QED BY <2>1 DEF InTab, Mounted
<1>9. ASSUME NEW p \in PaneIds PROVE (Unborn(p)' => Unborn(p)) /\ (Known(p)' => Known(p))
  <2>1. Unborn(p)' => Unborn(p)
    BY <1>5 DEF Unborn
  <2>2. \A i \in PaneIds : panes'[i].pty = p => Known(p)
    <3>1. ASSUME NEW i \in PaneIds, panes'[i].pty = p PROVE Known(p)
      <4>1. CASE i \in ids
        BY <3>1, <4>1, NoneAssumption
      <4>2. CASE i \notin ids
        BY <3>1, <4>2 DEF Known
      <4>. QED BY <4>1, <4>2
    <3>. QED BY <3>1
  <2>3. \A v \in Windows : /\ Mentions(toMain'[v], p) => Mentions(toMain[v], p)
                           /\ Mentions(toWin'[v], p) => Mentions(toWin[v], p)
    BY <1>3, <1>4 DEF Mentions
  <2>4. Known(p)' => Known(p)
    BY <2>2, <2>3 DEF Known
  <2>. QED BY <2>1, <2>4
<1>10. Born'
  BY <1>0, <1>9 DEF Born
<1>11. \A v \in Windows : "moved" \in Ops(toWin[v]) => "moved" \in Ops(toWin'[v])
  <2>1. CASE toWin' = toWin
    BY <2>1
  <2>2. CASE toWin[w] # <<>> /\ Head(toWin[w]).op # "moved" /\ toWin' = Taken(toWin, w)
    <3>1. /\ toWin'[w] = Tail(toWin[w]) /\ toWin[w] \in Seq(Notice)
          /\ \A v \in Windows : v # w => toWin'[v] = toWin[v]
      BY <1>0, <2>2 DEF TypeOK, Taken
    <3>2. "moved" \in Ops(toWin[w]) => "moved" \in Ops(toWin'[w])
      BY <2>2, <3>1, TailKeeps
    <3>. QED BY <3>1, <3>2
  <2>. QED BY <2>1, <2>2
<1>12. ASSUME NEW j \in PaneIds, NEW p \in DOMAIN owner', Shows(j, p)', "moved" \notin Ops(toWin'[panes'[j].win])
       PROVE  owner'[p] = panes'[j].win
  <2>1. \A op \in {"adopted", "created"} :
           Answers(toWin'[panes'[j].win], op, j) /\ panes'[j].win \in Windows
           => Answers(toWin[panes'[j].win], op, j) /\ j \notin ids
    BY <1>2, <1>4 DEF Answers, PaneOps
  <2>2. panes'[j].state \in {"waiting", "up"}
    BY <1>12 DEF Shows
  <2>3. j \notin ids
    BY <1>12, <2>1 DEF Shows
  <2>4. panes'[j] = panes[j] /\ panes[j].win \in Windows
    BY <1>0, <2>2, <2>3 DEF Addressed
  <2>5. Shows(j, p)
    BY <1>12, <2>1, <2>4 DEF Shows
  <2>. QED BY <1>0, <1>11, <1>12, <2>4, <2>5 DEF Kept
<1>13. Kept'
  BY <1>12 DEF Kept
<1>14. Ages
  BY <1>9 DEF Ages
<1>. QED BY <1>3, <1>4, <1>7, <1>8, <1>10, <1>13, <1>14

LEMMA OpenSession ==
    ASSUME IInv, IInv', Sessions, NEW w \in Windows, NEW t \in Terms, OpenTerminal(w, t)
    PROVE  Sessions' /\ Ages
<1>0. TypeOK /\ TypeOK' /\ Tidy /\ Addressed /\ Adopters
  BY DEF IInv, Sessions
<1>1. PICK i \in PaneIds : i = <<t, tab[w]>> /\ panes[i].state = "unused"
  BY <1>0 DEF OpenTerminal, TypeOK, PaneIds
<1> DEFINE r == [op |-> "create", pane |-> i]
<1>2. /\ panes' = [panes EXCEPT ![i] = [win |-> w, pty |-> None, state |-> "waiting"]]
      /\ toMain' = Sent(toMain, w, <<r>>) /\ tab[w] # None
      /\ UNCHANGED <<tab, toWin, parked, creating, tickets, owner>>
  BY <1>1 DEF OpenTerminal, desktop, ptyVars
<1>3. r \in Request /\ r.op = "create" /\ r.pane = i
  BY DEF Request
<1>. HIDE DEF r
<1>4. <<r>> \in Seq(Request) /\ Items(<<r>>) = {r} /\ InOrder(<<r>>, Again) /\ InOrder(<<r>>, LateAdopt)
  BY <1>3, ShortQueues, OneOp
<1>5. /\ panes'[i] = [win |-> w, pty |-> None, state |-> "waiting"]
      /\ \A j \in PaneIds \ {i} : panes'[j] = panes[j]
  BY <1>0, <1>2 DEF TypeOK
<1>6. MainOrdered' /\ WinOrdered' /\ InTab' /\ OneSpawn' /\ Born' /\ Kept' /\ Ages
  <2>1. /\ {i} \in SUBSET PaneIds /\ \A j \in {i} : panes[j].state = "unused"
        /\ \A j \in {i} : /\ panes'[j].win = w /\ panes'[j].state = "waiting"
                          /\ panes'[j].pty = None \/ Known(panes'[j].pty)
        /\ \A x \in Items(<<r>>) : x.op \in {"create", "adopt"} /\ x.pane \in {i} /\ x.op # "adopt"
        /\ tab'[w] # None /\ \A v \in Windows : v # w => tab'[v] = tab[v]
    BY <1>1, <1>2, <1>3, <1>4, <1>5
  <2>. QED BY <1>2, <1>4, <1>5, <2>1, MountSession
<1>7. Adopters'
  <2>1. \A v \in Windows : \A x \in Items(toMain'[v]) : x.op = "adopt" => x \in Items(toMain[v])
    <3>1. \A v \in Windows : toMain'[v] = IF v = w THEN toMain[v] \o <<r>> ELSE toMain[v]
      BY <1>0, <1>2 DEF Sent, TypeOK
    <3>2. toMain[w] \in Seq(Request) /\ <<r>> \in Seq(Request)
      BY <1>0, <1>4 DEF TypeOK
    <3>3. Items(toMain[w] \o <<r>>) = Items(toMain[w]) \cup Items(<<r>>)
      BY <3>2, QueueSent
    <3>4. \A x \in Items(toMain'[w]) : x \in Items(toMain[w]) \/ x = r
      BY <1>4, <3>1, <3>3
    <3>5. \A v \in Windows : v # w => toMain'[v] = toMain[v]
      BY <3>1
    <3>. SUFFICES ASSUME NEW v \in Windows, NEW x \in Items(toMain'[v]), x.op = "adopt"
                  PROVE  x \in Items(toMain[v])
      OBVIOUS
    <3>6. CASE v = w
      <4>1. x \in Items(toMain[w]) \/ x = r
        BY <3>4, <3>6
      <4>. QED BY <1>3, <3>6, <4>1
    <3>7. CASE v # w
      <4>1. toMain'[v] = toMain[v]
        BY <3>5, <3>7
      <4>. QED BY <4>1
    <3>. QED BY <3>6, <3>7
  <2>2. \A v \in Windows : (Holds(v)' => Holds(v)) /\ (Gets(v)' => Gets(v))
    BY <1>0, QuietUser, QuietPlace
  <2>. QED BY <1>0, <2>1, <2>2, AdoptersKeep
<1>. QED BY <1>6, <1>7 DEF Sessions

LEMMA QueueOnce ==
    ASSUME NEW S, IsFiniteSet(S)
    PROVE  \A j, k \in 1..Len(SetToSeq(S)) : SetToSeq(S)[j] = SetToSeq(S)[k] => j = k
<1> DEFINE f == SetToSeq(S)  n == Cardinality(S)
<1>1. n \in Nat /\ ExistsBijection(1..n, S)
  BY FS_CardinalityType
<1>2. \E g \in [1..n -> S] : IsInjective(g)
  BY <1>1 DEF ExistsBijection, Bijection, Injection
<1>3. f \in [1..n -> S] /\ IsInjective(f)
  BY <1>2 DEF SetToSeq
<1>4. f \in Seq(S) /\ Len(f) = n
  BY <1>1, <1>3
<1>5. \A j, k \in 1..n : f[j] = f[k] => j = k
  BY <1>3 DEF IsInjective
<1>. HIDE DEF f, n
<1>6. \A j, k \in 1..Len(f) : f[j] = f[k] => j = k
  BY <1>4, <1>5
<1>. QED BY <1>6 DEF f

\* A pane of a tab that arrives asks once.
LEMMA MountsOnce ==
    ASSUME NEW load \in Loads, NEW copy \in Copies
    PROVE  LET ids == {<<t, copy>> : t \in DOMAIN load}
               requests == SetToSeq({[op |-> IF load[i[1]] = None THEN "create" ELSE "adopt",
                                      pane |-> i] : i \in ids})
           IN  InOrder(requests, Again)
<1> DEFINE ids == {<<t, copy>> : t \in DOMAIN load}
           msg(i) == [op |-> IF load[i[1]] = None THEN "create" ELSE "adopt", pane |-> i]
           set == {msg(i) : i \in ids}
           f == [i \in ids |-> msg(i)]
           requests == SetToSeq(set)
<1>1. ids \subseteq PaneIds
  BY DEF Loads, PaneIds
<1>2. IsFiniteSet(ids)
  BY <1>1, PanesAreFinite, FS_Subset
<1>3. f \in Surjection(ids, set)
  BY DEF Surjection
<1>4. IsFiniteSet(set)
  BY <1>2, <1>3, FS_Surjection
<1>5. \A r \in set : r = msg(r.pane)
  OBVIOUS
<1>6. /\ \A k \in 1..Len(requests) : requests[k] \in set
      /\ \A j, k \in 1..Len(requests) : requests[j] = requests[k] => j = k
  BY <1>4, SetAsQueue, QueueOnce
<1>7. ASSUME NEW j \in 1..Len(requests), NEW k \in 1..Len(requests), j < k
      PROVE  <<requests[j], requests[k]>> \notin Again
  <2>1. requests[j] = msg(requests[j].pane) /\ requests[k] = msg(requests[k].pane)
    BY <1>5, <1>6
  <2>. HIDE DEF msg, requests
  <2>2. requests[j].pane # requests[k].pane
    <3>1. requests[j].pane = requests[k].pane => j = k
      BY <1>6, <2>1
    <3>. QED BY <1>7, <3>1
  <2>. QED BY <2>2 DEF Again
<1>8. InOrder(requests, Again)
  <2>. HIDE DEF requests
  <2>. QED BY <1>7 DEF InOrder
<1>. QED BY <1>8

LEMMA HearTabSession ==
    ASSUME IInv, IInv', Sessions, NEW w \in Windows, HearTab(w)
    PROVE  Sessions' /\ Ages
<1> DEFINE load == Head(toWin[w]).load
           copy == Head(toWin[w]).copy
           ids == {<<t, copy>> : t \in DOMAIN load}
           m == SetToSeq({[op |-> IF load[i[1]] = None THEN "create" ELSE "adopt", pane |-> i] : i \in ids})
<1>0. TypeOK /\ TypeOK' /\ OnePlace /\ Tidy /\ Fresh /\ Addressed /\ Adopters
  BY DEF IInv, Sessions
<1>1. /\ UNCHANGED <<parked, creating, tickets, owner>> /\ toWin[w] # <<>> /\ Head(toWin[w]).op = "tab"
      /\ toWin' = Taken(toWin, w) /\ toMain' = Sent(toMain, w, m)
      /\ tab' = [tab EXCEPT ![w] = copy]
      /\ panes' = [i \in PaneIds |->
             IF i \in ids THEN [win |-> w, pty |-> load[i[1]], state |-> "waiting"] ELSE panes[i]]
  BY DEF HearTab, Hears, desktop, ptyVars
<1>2. load \in Loads /\ copy \in Copies /\ copy # None
  BY <1>0, <1>1, Heads, Contents, NoneIsNoCopy
<1>3. Gets(w) /\ "tab" \in Ops(toWin[w])
  <2>1. Head(toWin[w]).op \in Ops(toWin[w])
    BY <1>0, <1>1, TailKeeps DEF TypeOK
  <2>. QED BY <1>1, <2>1 DEF Gets
<1>4. Unused(copy)
  <2>1. 1 \in 1..Len(toWin[w]) /\ Head(toWin[w]) = toWin[w][1]
    BY <1>0, <1>1, TailKeeps DEF TypeOK
  <2>2. \A k \in 1..Len(toWin[w]) : toWin[w][k].op = "tab" => toWin[w][k].copy = moves
    BY <1>0 DEF Fresh
  <2>3. toWin[w][1].copy = moves
    BY <1>1, <2>1, <2>2
  <2>4. Unused(moves)
    BY <1>0, <1>3 DEF Fresh
  <2>. QED BY <2>1, <2>3, <2>4
<1>5. /\ ids \subseteq PaneIds /\ m \in Seq(Request) /\ Ops(m) \subseteq {"create", "adopt"}
      /\ \A k \in 1..Len(m) : /\ m[k].pane \in ids
                              /\ m[k].op = "adopt" => load[m[k].pane[1]] # None
  <2>. HIDE DEF load, copy
  <2>. QED BY <1>2, Mounts
<1>6. InOrder(m, Again)
  <2>. HIDE DEF load, copy
  <2>. QED BY <1>2, MountsOnce
<1>7. \A i \in ids : panes[i].state = "unused"
  <2>1. \A i \in ids : \E t \in Terms : i = <<t, copy>>
    BY <1>2 DEF Loads
  <2>. QED BY <1>4, <2>1 DEF Unused
<1>8. \A i \in ids : load[i[1]] = None \/ Known(load[i[1]])
  <2>1. Head(toWin[w]) \in Items(toWin[w])
    BY <1>0, <1>1, QueueTail DEF TypeOK
  <2>2. \A p \in Ptys(load) : Known(p)
    BY <1>1, <2>1 DEF Known, Mentions
  <2>3. \A i \in ids : i[1] \in DOMAIN load
    OBVIOUS
  <2>. HIDE DEF load, ids
  <2>. QED BY <2>2, <2>3 DEF Ptys
<1>. HIDE DEF load, copy, ids, m
<1>9. /\ \A i \in ids : /\ panes'[i].win = w /\ panes'[i].state = "waiting"
                        /\ panes'[i].pty = None \/ Known(panes'[i].pty)
      /\ \A i \in PaneIds \ ids : panes'[i] = panes[i]
  BY <1>1, <1>5, <1>8
<1>10. \A x \in Items(m) : x.op \in {"create", "adopt"} /\ x.pane \in ids
  BY <1>5 DEF Items, Ops
<1>11. tab'[w] # None /\ \A v \in Windows : v # w => tab'[v] = tab[v]
  BY <1>0, <1>1, <1>2 DEF TypeOK
<1>12. \A v \in Windows : ~Holds(v)
  BY <1>0, <1>3 DEF OnePlace
<1>13. "end" \notin Ops(toMain[w])
  BY <1>12 DEF Holds
<1>14. MainOrdered' /\ WinOrdered' /\ InTab' /\ OneSpawn' /\ Born' /\ Kept' /\ Ages
  <2>1. toWin[w] # <<>> /\ Head(toWin[w]).op # "moved" /\ toWin' = Taken(toWin, w)
    BY <1>1
  <2>2. ids \in SUBSET PaneIds
    BY <1>5
  <2>. QED BY <1>1, <1>5, <1>6, <1>7, <1>9, <1>10, <1>11, <1>13, <2>1, <2>2, MountSession
<1>15. Adopters'
  <2>1. /\ \A v \in Windows : v # w => toMain'[v] = toMain[v] /\ toWin'[v] = toWin[v]
    BY <1>0, <1>1 DEF Sent, Taken, TypeOK
  <2>2. \A v \in Windows : v # w => "adopt" \notin Ops(toMain'[v])
    BY <1>0, <1>3, <2>1 DEF Adopters
  <2>3. \A v \in Windows : v # w => ~Holds(v)'
    BY <1>11, <1>12, <2>1 DEF Holds
  <2>4. \A v \in Windows : ~Gets(v)'
    BY <1>0, HearTabPlace
  <2>. QED BY <2>2, <2>3, <2>4 DEF Adopters
<1>. QED BY <1>14, <1>15 DEF Sessions

LEMMA BeginSession ==
    ASSUME IInv, IInv', Sessions, NEW w \in Windows, BeginCreate(w)
    PROVE  Sessions' /\ Ages
<1>0. /\ TypeOK /\ TypeOK' /\ Tidy /\ Addressed /\ MainOrdered /\ WinOrdered
      /\ InTab /\ Adopters /\ OneSpawn /\ Born /\ Kept
  BY DEF IInv, Sessions
<1>1. PICK i \in PaneIds : i = Head(toMain[w]).pane
  <2>1. Head(toMain[w]).pane \in PaneIds
    BY <1>0, Heads, Contents DEF BeginCreate, Asks
  <2>. QED BY <2>1
<1>2. /\ toMain[w] # <<>> /\ toMain' = Taken(toMain, w) /\ Head(toMain[w]).op = "create"
      /\ Head(toMain[w]).pane = i /\ creating' = creating \cup {i}
      /\ UNCHANGED <<tab, panes, parked, tickets, owner, toWin>>
  BY <1>1 DEF BeginCreate, Asks, desktop, ptyVars
<1>3. /\ MainOrdered' /\ Items(toMain[w]) = Items(toMain'[w]) \cup {Head(toMain[w])}
      /\ \A v \in Windows : Items(toMain'[v]) \subseteq Items(toMain[v])
      /\ \A x \in Items(toMain'[w]) : <<Head(toMain[w]), x>> \notin Again
  BY <1>0, <1>2, MainTaken
<1>4. Spawning(toMain[w], i)
  BY <1>2, <1>3 DEF Spawning
<1>5. \A v \in Windows : Spawning(toMain[v], i) \/ Spawning(toWin[v], i) => v = w
  <2>1. \A v \in Windows : Spawning(toMain[v], i) \/ Spawning(toWin[v], i) => panes[i].win = v
    BY <1>0, AboutPanes DEF Spawning, PaneOps
  <2>. QED BY <1>4, <2>1
<1>6. \A v \in Windows : ~Spawning(toMain'[v], i) /\ ~Spawning(toWin[v], i)
  <2>1. ASSUME NEW x \in Items(toMain'[w]), x.op \in {"create", "created"}, x.pane = i PROVE FALSE
    <3>1. x \in Request /\ Head(toMain[w]) \in Request
      BY <1>0, <1>2, <1>3, <2>1, InQueues
    <3>2. x.op = "create"
      BY <2>1, <3>1, Contents
    <3>3. <<Head(toMain[w]), x>> \in Again
      BY <1>2, <2>1, <3>1, <3>2 DEF Again
    <3>. QED BY <1>3, <2>1, <3>3
  <2>2. ~Spawning(toMain'[w], i)
    BY <2>1 DEF Spawning
  <2>3. \A v \in Windows : Spawning(toMain'[v], i) => Spawning(toMain[v], i)
    BY <1>3 DEF Spawning
  <2>. QED BY <1>0, <1>4, <1>5, <2>2, <2>3 DEF OneSpawn
<1>7. \A v \in Windows, p \in PaneIds : /\ Spawning(toMain'[v], p) => Spawning(toMain[v], p)
                                        /\ Mentions(toMain'[v], p) => Mentions(toMain[v], p)
  BY <1>3 DEF Spawning, Mentions
<1>8. OneSpawn'
  BY <1>0, <1>2, <1>6, <1>7 DEF OneSpawn
<1>9. ASSUME NEW p \in PaneIds PROVE (Unborn(p)' => Unborn(p)) /\ (Known(p)' => Known(p))
  <2>1. Unborn(p)' => Unborn(p)
    BY <1>2, <1>4, <1>7 DEF Unborn
  <2>2. Known(p)' => Known(p)
    BY <1>2, <1>7 DEF Known
  <2>. QED BY <2>1, <2>2
<1>15. Ages
  BY <1>2, <1>9 DEF Ages
<1>10. Born'
  BY <1>0, <1>2, <1>9 DEF Born
<1>11. Still
  BY <1>2 DEF Still
<1>12. InTab' /\ Kept'
  BY <1>0, <1>11, StillKeeps
<1>13. Adopters'
  <2>1. \A v \in Windows : (Holds(v)' => Holds(v)) /\ (Gets(v)' => Gets(v))
    BY <1>0, QuietMain, QuietPlace
  <2>. QED BY <1>0, <1>3, <2>1, AdoptersKeep
<1>14. WinOrdered'
  BY <1>0, <1>2 DEF WinOrdered
<1>. QED BY <1>3, <1>8, <1>10, <1>12, <1>13, <1>14, <1>15 DEF Sessions

\* The shell that starts is known to no pane but the one that asked for it.
LEMMA FinishSession ==
    ASSUME IInv, IInv', Sessions, NEW i \in PaneIds, FinishCreate(i)
    PROVE  /\ Sessions' /\ Ages
           /\ \A v \in Windows : \A x \in Items(toWin'[v]) : x \in Items(toWin[v]) \/ x.op \in {"created", "failed"}
<1>0. /\ TypeOK /\ TypeOK' /\ Tidy /\ Addressed /\ MainOrdered /\ WinOrdered
      /\ InTab /\ Adopters /\ OneSpawn /\ Born /\ Kept
  BY DEF IInv, Sessions
<1>1. PICK w \in Windows : w = panes[i].win
  BY <1>0 DEF FinishCreate, Addressed
<1> DEFINE starts == owner' = [p \in DOMAIN owner \cup {i} |->
                                IF p # i THEN owner[p] ELSE IF w \in wins THEN w ELSE None]
<1>2. /\ i \in creating /\ creating' = creating \ {i}
      /\ UNCHANGED <<tab, panes, parked, tickets, toMain>>
      /\ starts \/ owner' = owner
      /\ \/ toWin' = toWin
         \/ starts /\ toWin' = Told(toWin, w, [op |-> "created", pane |-> i])
         \/ toWin' = Told(toWin, w, [op |-> "failed", pane |-> i])
  BY <1>1 DEF FinishCreate, desktop
<1>. HIDE DEF starts
<1>3. \A v \in Windows : ~Spawning(toMain[v], i) /\ ~Spawning(toWin[v], i)
  BY <1>0, <1>2 DEF OneSpawn
<1>4. /\ WinOrdered'
      /\ \A v \in Windows :
            /\ Items(toWin[v]) \subseteq Items(toWin'[v])
            /\ \A x \in Items(toWin'[v]) : \/ x \in Items(toWin[v])
                                           \/ x.pane = i /\ (x.op = "failed" \/ (starts /\ x.op = "created"))
  <2>1. CASE toWin' = toWin
    BY <1>0, <2>1 DEF WinOrdered
  <2>2. ASSUME NEW op \in {"created", "failed"}, toWin' = Told(toWin, w, [op |-> op, pane |-> i]),
               op = "created" => starts
        PROVE  /\ WinOrdered'
               /\ \A v \in Windows :
                     /\ Items(toWin[v]) \subseteq Items(toWin'[v])
                     /\ \A x \in Items(toWin'[v]) :
                           \/ x \in Items(toWin[v])
                           \/ x.pane = i /\ (x.op = "failed" \/ (starts /\ x.op = "created"))
    <3> DEFINE n == [op |-> op, pane |-> i]
    <3>1. n \in Notice /\ n.op = op /\ n.pane = i /\ toWin' = Told(toWin, w, n)
      BY <2>2, NoticeKinds
    <3>. HIDE DEF n
    <3>2. \A x \in Items(toWin[w]) : <<x, n>> \notin Again
      BY <1>3, <3>1 DEF Again, Spawning
    <3>3. /\ WinOrdered' /\ \A v \in Windows : v # w => toWin'[v] = toWin[v]
          /\ \A v \in Windows : Items(toWin[v]) \subseteq Items(toWin'[v])
          /\ \A x \in Items(toWin'[w]) : x \in Items(toWin[w]) \/ x = n
      BY <1>0, <3>1, <3>2, WinTold
    <3>. QED BY <2>2, <3>1, <3>3
  <2>. QED BY <1>2, <2>1, <2>2
<1>5. \A v \in Windows, p \in PaneIds : /\ Spawning(toWin'[v], p) => Spawning(toWin[v], p) \/ p = i
                                        /\ Mentions(toWin'[v], p) => Mentions(toWin[v], p)
  BY <1>4 DEF Spawning, Mentions
<1>6. OneSpawn'
  BY <1>0, <1>2, <1>3, <1>5 DEF OneSpawn
<1>7. ASSUME NEW p \in PaneIds PROVE (Unborn(p)' => Unborn(p)) /\ (Known(p)' => Known(p))
  <2>1. Unborn(p)' => Unborn(p)
    BY <1>2, <1>5 DEF Unborn
  <2>2. Known(p)' => Known(p)
    BY <1>2, <1>5 DEF Known
  <2>. QED BY <2>1, <2>2
<1>13. Ages
  BY <1>2, <1>7 DEF Ages
<1>8. Born'
  BY <1>0, <1>2, <1>7 DEF Born
<1>9. MainOrdered' /\ InTab'
  BY <1>0, <1>2 DEF MainOrdered, InTab, Mounted
<1>10. Adopters'
  <2>1. \A v \in Windows : (Holds(v)' => Holds(v)) /\ (Gets(v)' => Gets(v))
    BY <1>0, QuietShells, QuietPlace
  <2>. QED BY <1>0, <1>2, <2>1, AdoptersKeep
<1>11. ASSUME NEW j \in PaneIds, NEW p \in DOMAIN owner', Shows(j, p)', "moved" \notin Ops(toWin'[panes'[j].win])
       PROVE  owner'[p] = panes'[j].win
  <2>1. /\ panes' = panes /\ panes[j].state \in {"waiting", "up"}
        /\ panes[j].win \in Windows /\ panes[j].win \in booted
    BY <1>0, <1>2, <1>11 DEF Shows, Addressed, Mounted
  <2>2. "moved" \notin Ops(toWin[panes[j].win])
    BY <1>0, <1>4, <1>11, <2>1, KeepsMoved
  <2>3. /\ Answers(toWin'[panes[j].win], "adopted", j) => Answers(toWin[panes[j].win], "adopted", j)
        /\ Answers(toWin'[panes[j].win], "created", j) => Answers(toWin[panes[j].win], "created", j) \/ (j = i /\ starts)
    BY <1>4, <2>1 DEF Answers
  <2>4. Shows(j, p) \/ (p = i /\ j = i /\ starts)
    BY <1>11, <2>1, <2>3 DEF Shows
  <2>5. CASE ~(starts /\ p = i)
    <3>1. p \in DOMAIN owner /\ owner'[p] = owner[p]
      BY <1>2, <2>5 DEF starts
    <3>. QED BY <1>0, <2>1, <2>2, <2>4, <2>5, <3>1 DEF Kept
  <2>6. CASE starts /\ p = i
    <3>1. Unborn(i)
      BY <1>2 DEF Unborn
    <3>2. ~Known(i)
      BY <1>0, <3>1 DEF Born
    <3>3. panes[j].pty # i
      BY <3>2 DEF Known
    <3>4. j = i
      BY <1>11, <2>1, <2>6, <3>3 DEF Shows
    <3>5. w \in wins
      BY <1>0, <1>1, <2>1, <3>4 DEF TypeOK
    <3>. QED BY <1>1, <2>1, <2>6, <3>4, <3>5 DEF starts
  <2>. QED BY <2>5, <2>6
<1>12. Kept'
  BY <1>11 DEF Kept
<1>. QED BY <1>4, <1>6, <1>8, <1>9, <1>10, <1>12, <1>13 DEF Sessions

\* The session a pane adopts is shown nowhere else: no other window has the tab, or
\* it is about to let go.
LEMMA AdoptSession ==
    ASSUME IInv, IInv', Sessions, NEW w \in Windows, Adopt(w)
    PROVE  /\ Sessions' /\ Ages
           /\ \A v \in Windows : \A x \in Items(toWin'[v]) :
                 x \in Items(toWin[v]) \/ x.op = "failed" \/ (x.op = "adopted" /\ x.pane = Head(toMain[w]).pane)
<1>0. /\ TypeOK /\ TypeOK' /\ Tidy /\ Addressed /\ MainOrdered /\ WinOrdered
      /\ InTab /\ Adopters /\ OneSpawn /\ Born /\ Kept
  BY DEF IInv, Sessions
<1>1. PICK i \in PaneIds : i = Head(toMain[w]).pane
  <2>1. Head(toMain[w]).pane \in PaneIds
    BY <1>0, Heads, Contents DEF Adopt, Asks
  <2>. QED BY <2>1
<1>2. PICK p : p = panes[i].pty
  OBVIOUS
<1> DEFINE claims == p \in DOMAIN owner /\ owner' = [owner EXCEPT ![p] = w]
<1>3. /\ toMain[w] # <<>> /\ toMain' = Taken(toMain, w) /\ Head(toMain[w]).op = "adopt"
      /\ UNCHANGED <<tab, panes, parked, creating>> /\ tickets' \subseteq tickets
      /\ \/ claims /\ toWin' = Told(toWin, w, [op |-> "adopted", pane |-> i])
         \/ owner' = owner /\ toWin' = Told(toWin, w, [op |-> "failed", pane |-> i])
  BY <1>1, <1>2 DEF Adopt, Asks, desktop, Claim
<1>. HIDE DEF claims
<1>4. /\ MainOrdered' /\ Items(toMain[w]) = Items(toMain'[w]) \cup {Head(toMain[w])}
      /\ \A v \in Windows : Items(toMain'[v]) \subseteq Items(toMain[v])
  BY <1>0, <1>3, MainTaken
<1>5. "adopt" \in Ops(toMain[w])
  BY <1>0, <1>3, <1>4, InQueues
<1>6. /\ WinOrdered'
      /\ \A v \in Windows :
            /\ Items(toWin[v]) \subseteq Items(toWin'[v])
            /\ \A x \in Items(toWin'[v]) :
                  \/ x \in Items(toWin[v])
                  \/ x.pane = i /\ (x.op = "failed" \/ (claims /\ x.op = "adopted"))
  <2>1. ASSUME NEW op \in {"adopted", "failed"}, toWin' = Told(toWin, w, [op |-> op, pane |-> i]),
               op = "adopted" => claims
        PROVE  /\ WinOrdered'
               /\ \A v \in Windows :
                     /\ Items(toWin[v]) \subseteq Items(toWin'[v])
                     /\ \A x \in Items(toWin'[v]) :
                           \/ x \in Items(toWin[v])
                           \/ x.pane = i /\ (x.op = "failed" \/ (claims /\ x.op = "adopted"))
    <3> DEFINE n == [op |-> op, pane |-> i]
    <3>1. n \in Notice /\ n.op = op /\ n.pane = i /\ toWin' = Told(toWin, w, n)
      BY <2>1, NoticeKinds
    <3>. HIDE DEF n
    <3>2. \A x : <<x, n>> \notin Again
      BY <3>1, FollowsAnything
    <3>3. /\ WinOrdered' /\ \A v \in Windows : v # w => toWin'[v] = toWin[v]
          /\ \A v \in Windows : Items(toWin[v]) \subseteq Items(toWin'[v])
          /\ \A x \in Items(toWin'[w]) : x \in Items(toWin[w]) \/ x = n
      BY <1>0, <3>1, <3>2, WinTold
    <3>. QED BY <2>1, <3>1, <3>3
  <2>. QED BY <1>3, <2>1
<1>7. OneSpawn' /\ Born' /\ Ages
  <2>1. \A v \in Windows : parked'[v] # None => \A q \in Ptys(parked'[v].load) : Known(q)
    BY <1>3 DEF Known
  <2>2. Plain
    BY <1>3, <1>4, <1>6, <2>1 DEF Plain
  <2>. QED BY <1>0, <2>2, PlainKeeps
<1>8. InTab'
  BY <1>0, <1>3 DEF InTab, Mounted
<1>9. Adopters'
  <2>1. \A v \in Windows : (Holds(v)' => Holds(v)) /\ (Gets(v)' => Gets(v))
    BY <1>0, QuietMain, QuietPlace
  <2>. QED BY <1>0, <1>4, <2>1, AdoptersKeep
<1>10. ASSUME NEW j \in PaneIds, NEW q \in DOMAIN owner', Shows(j, q)', "moved" \notin Ops(toWin'[panes'[j].win])
       PROVE  owner'[q] = panes'[j].win
  <2>1. panes' = panes /\ panes[j].win \in Windows /\ Mounted(j)
    BY <1>0, <1>3, <1>10 DEF Shows, Addressed, Mounted
  <2>2. "moved" \notin Ops(toWin[panes[j].win])
    BY <1>0, <1>6, <1>10, <2>1, KeepsMoved
  <2>3. panes[j].win = w
    <3>1. Holds(panes[j].win)
      BY <1>0, <2>1, <2>2 DEF InTab, Holds
    <3>. QED BY <1>0, <1>5, <2>1, <3>1 DEF Adopters
  <2>4. /\ Answers(toWin'[w], "adopted", j) => Answers(toWin[w], "adopted", j) \/ (j = i /\ claims)
        /\ Answers(toWin'[w], "created", j) => Answers(toWin[w], "created", j)
    BY <1>6 DEF Answers
  <2>5. Shows(j, q) \/ (q = p /\ claims)
    BY <1>2, <1>10, <2>1, <2>3, <2>4 DEF Shows
  <2>6. CASE claims /\ q = p
    BY <2>1, <2>3, <2>6 DEF claims
  <2>7. CASE ~(claims /\ q = p)
    <3>1. q \in DOMAIN owner /\ owner'[q] = owner[q]
      BY <1>3, <2>7 DEF claims
    <3>. QED BY <1>0, <2>1, <2>2, <2>5, <2>7, <3>1 DEF Kept
  <2>. QED BY <2>6, <2>7
<1>11. Kept'
  BY <1>10 DEF Kept
<1>12. \A v \in Windows : \A x \in Items(toWin'[v]) :
          x \in Items(toWin[v]) \/ x.op = "failed" \/ (x.op = "adopted" /\ x.pane = Head(toMain[w]).pane)
  BY <1>1, <1>6
<1>. QED BY <1>4, <1>6, <1>7, <1>8, <1>9, <1>11, <1>12 DEF Sessions

\* A drop changes no session's window: it tickets the ptys the tab was told to hold.
LEMMA DropSession ==
    ASSUME IInv, IInv', Sessions, NEW w \in Windows, Drop(w)
    PROVE  /\ Calm
           /\ \A v \in Windows :
                 /\ \A x \in Items(toWin'[v]) :
                       x.op = "tab" => x \in Items(toWin[v]) \/ x.load = Head(toMain[w]).load
                 /\ parked'[v] = parked[v] \/ parked'[v].load = Head(toMain[w]).load
<1> DEFINE load == Head(toMain[w]).load
           msg == [op |-> "tab", load |-> load, copy |-> moves + 1]
<1>0. /\ TypeOK /\ TypeOK' /\ OnePlace /\ Tidy /\ Addressed /\ MainOrdered /\ WinOrdered
      /\ InTab /\ Adopters /\ OneSpawn /\ Born /\ Kept
  BY DEF IInv, Sessions
<1>1. /\ toMain[w] # <<>> /\ Head(toMain[w]).op = "end" /\ toMain' = Taken(toMain, w)
      /\ UNCHANGED <<tab, panes, creating, owner>>
  BY DEF Drop, Asks
<1>2. /\ MainOrdered' /\ Items(toMain[w]) = Items(toMain'[w]) \cup {Head(toMain[w])}
      /\ \A v \in Windows : v # w => toMain'[v] = toMain[v]
      /\ \A v \in Windows : Items(toMain'[v]) \subseteq Items(toMain[v])
      /\ \A x \in Items(toMain'[w]) : <<Head(toMain[w]), x>> \notin LateAdopt
  BY <1>0, <1>1, MainTaken
<1>3. PICK to \in DropTargets(w, Head(toMain[w]).canDetach) :
         \/ /\ toWin' = Told(toWin, w, AnswerTo(to))
            /\ UNCHANGED <<parked, tickets>>
         \/ /\ to \in wins /\ moves < MaxMoves /\ parked' = parked
            /\ tickets' = tickets \cup Ptys(load)
            /\ toWin' = Told(Told(toWin, w, AnswerTo(to)), to, msg)
         \/ /\ tickets' = tickets \cup Ptys(load)
            /\ parked' = [parked EXCEPT ![to] = msg]
            /\ toWin' = Told(toWin, w, AnswerTo(to))
  BY DEF Drop, desktop
<1>4. load \in Loads /\ msg.load = load /\ msg.op = "tab"
  BY <1>0, <1>1, Heads, Contents
<1>5. moves < MaxMoves => msg \in Notice
  <2>1. moves < MaxMoves => moves + 1 \in Copies
    <3>1. moves \in 0..MaxMoves /\ MaxMoves \in Nat
      BY <1>0, BoundsAssumption DEF TypeOK, Copies
    <3>. HIDE DEF load, msg
    <3>. QED BY <3>1 DEF Copies
  <2>. QED BY <1>4, <2>1 DEF TabMessage, Notice
<1>6. \A p \in Ptys(load) : Known(p)
  <2>1. Head(toMain[w]) \in Items(toMain[w])
    BY <1>2
  <2>. QED BY <1>1, <2>1 DEF Known, Mentions
<1>. HIDE DEF load, msg
<1>7. AnswerTo(to) \in Notice /\ AnswerTo(to).op \in {"stays", "moved"}
  BY NoticeKinds
<1> DEFINE told(qs) == \A v \in Windows :
              /\ qs[v] \in Seq(Notice) /\ InOrder(qs[v], Again)
              /\ Items(toWin[v]) \subseteq Items(qs[v])
              /\ \A x \in Items(qs[v]) : x \in Items(toWin[v]) \/ x = AnswerTo(to) \/ x = msg
<1>8. told(Told(toWin, w, AnswerTo(to)))
  <2>1. \A v \in Windows : toWin[v] \in Seq(Notice) /\ InOrder(toWin[v], Again)
    BY <1>0 DEF TypeOK, WinOrdered
  <2>2. \A x : <<x, AnswerTo(to)>> \notin Again
    BY <1>7, FollowsAnything
  <2>3. \A v \in Windows : \/ Told(toWin, w, AnswerTo(to))[v] = toWin[v]
                           \/ Told(toWin, w, AnswerTo(to))[v] = toWin[v] \o <<AnswerTo(to)>>
    BY <1>0 DEF Told, Sent, TypeOK
  <2>4. \A v \in Windows : /\ toWin[v] \o <<AnswerTo(to)>> \in Seq(Notice)
                           /\ InOrder(toWin[v] \o <<AnswerTo(to)>>, Again)
                           /\ Items(toWin[v] \o <<AnswerTo(to)>>) = Items(toWin[v]) \cup {AnswerTo(to)}
    BY <1>7, <2>1, <2>2, QueueTold
  <2>. QED BY <2>1, <2>3, <2>4
<1>9. ASSUME to \in wins, moves < MaxMoves, toWin' = Told(Told(toWin, w, AnswerTo(to)), to, msg)
      PROVE  told(toWin')
  <2> DEFINE qs == Told(toWin, w, AnswerTo(to))
  <2>1. \A v \in Windows : /\ qs[v] \in Seq(Notice) /\ InOrder(qs[v], Again)
                           /\ Items(toWin[v]) \subseteq Items(qs[v])
                           /\ \A x \in Items(qs[v]) : x \in Items(toWin[v]) \/ x = AnswerTo(to)
                                                      \/ x = msg
    BY <1>8
  <2>2. DOMAIN qs = Windows /\ toWin' = Told(qs, to, msg)
    BY <1>0, <1>9 DEF Told, Sent, TypeOK
  <2>. HIDE DEF qs
  <2>3. \A x : <<x, msg>> \notin Again
    BY <1>4, FollowsAnything
  <2>4. \A v \in Windows : toWin'[v] = qs[v] \/ toWin'[v] = qs[v] \o <<msg>>
    BY <2>2 DEF Told, Sent
  <2>5. \A v \in Windows : /\ qs[v] \o <<msg>> \in Seq(Notice) /\ InOrder(qs[v] \o <<msg>>, Again)
                           /\ Items(qs[v] \o <<msg>>) = Items(qs[v]) \cup {msg}
    BY <1>5, <1>9, <2>1, <2>3, QueueTold
  <2>. QED BY <2>1, <2>4, <2>5
<1>10. \A v \in Windows :
         /\ InOrder(toWin'[v], Again) /\ Items(toWin[v]) \subseteq Items(toWin'[v])
         /\ \A x \in Items(toWin'[v]) : x \in Items(toWin[v]) \/ x = AnswerTo(to) \/ x = msg
  <2>1. told(toWin')
    BY <1>3, <1>8, <1>9
  <2>. QED BY <2>1
<1>. HIDE DEF told
<1>11. WinOrdered'
  BY <1>10 DEF WinOrdered
<1>12. OneSpawn' /\ Born' /\ Plain /\ Ages
  <2>1. ASSUME NEW v \in Windows, parked'[v] # None PROVE \A p \in Ptys(parked'[v].load) : Known(p)
    <3>1. parked'[v] = parked[v] \/ parked'[v] = msg
      BY <1>0, <1>3, <2>1 DEF TypeOK
    <3>2. parked[v] # None => \A p \in Ptys(parked[v].load) : Known(p)
      BY DEF Known
    <3>. QED BY <1>4, <1>6, <2>1, <3>1, <3>2
  <2>2. \A p \in tickets' : p \in tickets \/ Known(p)
    BY <1>3, <1>6
  <2>3. Plain
    BY <1>1, <1>2, <1>4, <1>6, <1>7, <1>10, <2>1, <2>2 DEF Plain
  <2>. QED BY <1>0, <2>3, PlainKeeps
<1>13. Still
  <2>1. ASSUME NEW j \in PaneIds, panes'[j].state \in {"waiting", "up"}
        PROVE  "moved" \in Ops(toWin[panes[j].win]) => "moved" \in Ops(toWin'[panes[j].win])
    <3>1. panes[j].win \in Windows
      BY <1>0, <1>1, <2>1 DEF Addressed
    <3>. QED BY <1>0, <1>10, <3>1, KeepsMoved
  <2>. QED BY <1>1, <1>4, <1>7, <1>10, <2>1 DEF Still
<1>14. InTab' /\ Kept'
  BY <1>0, <1>13, StillKeeps
<1>15. Adopters'
  <2>1. Holds(w)
    <3>1. "end" \in Ops(toMain[w])
      BY <1>0, <1>1, <1>2, InQueues
    <3>. QED BY <3>1 DEF Holds
  <2>2. \A v \in Windows : v # w => "adopt" \notin Ops(toMain[v])
    BY <1>0, <2>1 DEF Adopters
  <2>3. "adopt" \notin Ops(toMain'[w])
    <3>1. \A x \in Items(toMain'[w]) : x \in Request /\ x.op # "adopt"
      <4>1. Head(toMain[w]) \in Request /\ \A x \in Items(toMain'[w]) : x \in Request
        BY <1>0, <1>1, <1>2, Heads, InQueues
      <4>. QED BY <1>1, <1>2, <4>1 DEF LateAdopt
    <3>. QED BY <3>1 DEF Items, Ops
  <2>4. \A v \in Windows : "adopt" \notin Ops(toMain'[v])
    BY <1>2, <2>2, <2>3
  <2>. QED BY <2>4 DEF Adopters
<1>16. \A v \in Windows :
          /\ \A x \in Items(toWin'[v]) : x.op = "tab" => x \in Items(toWin[v]) \/ x.load = load
          /\ parked'[v] = parked[v] \/ parked'[v].load = load
  <2>1. \A v \in Windows : parked'[v] = parked[v] \/ parked'[v] = msg
    BY <1>0, <1>3 DEF TypeOK
  <2>. QED BY <1>4, <1>7, <1>10, <2>1
<1>17. Calm
  BY <1>2, <1>11, <1>12, <1>13, <1>14, <1>15 DEF Sessions, Calm
<1>. QED BY <1>16, <1>17 DEF load

LEMMA SessionStep ==
    ASSUME IInv, IInv', Sessions, [Next]_vars
    PROVE  Sessions'
<1>1. ASSUME NEW w \in Windows, Renderer(w) PROVE Sessions'
  BY <1>1, HearCalm, CloseCalm, HearAdoptedSession, HearCreatedSession, HearTabSession DEF Renderer, Calm, Closes
<1>2. ASSUME NEW w \in Windows, Main(w) PROVE Sessions'
  BY <1>2, BeginSession, AdoptSession, KillCalm, DropSession DEF Main, Calm
<1>3. ASSUME NEW w \in Windows, Boot(w) \/ User(w) PROVE Sessions'
  BY <1>3, WindowCalm, CloseCalm, EndDragCalm, OpenSession DEF User, Calm, Closes
<1>4. ASSUME NEW i \in PaneIds, CloseTerminal(i) \/ FinishCreate(i) \/ PtyExit(i) PROVE Sessions'
  <2>1. CASE CloseTerminal(i)
    <3>1. panes[i].win \in Windows
      BY <2>1 DEF CloseTerminal, Mounted, IInv, Addressed
    <3>. QED BY <2>1, <3>1, CloseCalm DEF Calm, Closes
  <2>. QED BY <1>4, <2>1, FinishSession, ExitCalm DEF Calm
<1>5. CASE NewWindow
  BY <1>5, WindowCalm DEF Calm
<1>6. CASE UNCHANGED vars
  <2>1. UNCHANGED <<tab, panes, owner, tickets, creating, parked, toMain, toWin>>
    BY <1>6 DEF vars
  <2>2. MainOrdered' /\ WinOrdered' /\ InTab' /\ OneSpawn' /\ Kept'
    BY <2>1 DEF Sessions, MainOrdered, WinOrdered, InTab, Mounted, OneSpawn, Kept, Shows
  <2>3. Adopters' /\ Born'
    BY <2>1 DEF Sessions, Adopters, Holds, Gets, Born, Unborn, Known
  <2>. QED BY <2>2, <2>3 DEF Sessions
<1>. QED BY <1>1, <1>2, <1>3, <1>4, <1>5, <1>6 DEF Next

-----------------------------------------------------------------------------
(* Kills: what is true of the shells that a renderer asks main to kill.     *)

\* Panes mounted in one window show different ptys, and so do the terminals of a
\* tab that is moving.
Sole ==
    \A i, j \in PaneIds :
       /\ Mounted(i) /\ Mounted(j) /\ panes[i].win = panes[j].win
       /\ panes[i].pty = panes[j].pty /\ panes[i].pty # None
       => i = j
Distinct(load) == \A s, t \in DOMAIN load : load[s] = load[t] /\ load[s] # None => s = t
Carried(load) ==
    \E w \in Windows : \/ parked[w] # None /\ parked[w].load = load
                       \/ \E x \in Items(toMain[w]) : x.op = "end" /\ x.load = load
                       \/ \E x \in Items(toWin[w]) : x.op = "tab" /\ x.load = load
LoadsDistinct == \A load \in Loads : Carried(load) => Distinct(load)

\* A kill is of a pty that a pane closed on, or that no pane was ever told of.
Condemns(q, p) == \E x \in Items(q) : x.op = "kill" /\ x.pty = p
Closed(w, p) == \E i \in PaneIds : panes[i].win = w /\ panes[i].pty = p /\ panes[i].state = "closed"
Blamed ==
    \A w \in Windows, p \in PaneIds : Condemns(toMain[w], p) =>
       ~Unborn(p) /\ (Closed(w, p) \/ (~Known(p) /\ p \notin tickets))

\* No pane of the window that asks shows that pty, or will by the next answer.
Attached(i) == \/ panes[i].state = "up"
               \/ panes[i].state = "waiting" /\ Answers(toWin[panes[i].win], "adopted", i)
Unshown ==
    \A i \in PaneIds : Attached(i) => ~Condemns(toMain[panes[i].win], panes[i].pty)

\* Nor is a pty killed right after a pane that still waits has adopted it.
Untimely ==
    {r \in Request \X Request :
        /\ r[1].op = "adopt" /\ r[2].op = "kill"
        /\ panes[r[1].pane].state = "waiting" /\ panes[r[1].pane].pty = r[2].pty}
Timely == \A w \in Windows : InOrder(toMain[w], Untimely)

Spared == Sole /\ LoadsDistinct /\ Blamed /\ Unshown /\ Timely

\* A step that brings no pane nearer to a session.
NoneNearer ==
    /\ \A i \in PaneIds : panes'[i].state \in {"waiting", "up"} => panes'[i] = panes[i]
    /\ \A v \in Windows : \A x \in Items(toWin'[v]) : x \in Items(toWin[v]) \/ x.op # "adopted"

\* A step that closes no pane but for good: what closed stays so until its window
\* asks for nothing any more.
StayClosed ==
    \A i \in PaneIds :
       panes[i].state = "closed" => panes'[i] = panes[i] \/ toMain'[panes[i].win] = <<>>

LEMMA BlamedKeeps ==
    ASSUME Blamed, Ages, StayClosed, NEW w \in Windows, NEW p \in PaneIds,
           Condemns(toMain[w], p), Condemns(toMain'[w], p)
    PROVE  ~Unborn(p)' /\ (Closed(w, p)' \/ (~Known(p)' /\ p \notin tickets'))
<1>1. ~Unborn(p) /\ ~Unborn(p)'
  BY DEF Blamed, Ages
<1>2. CASE Closed(w, p)
  <2>1. toMain'[w] # <<>>
    BY ShortQueues DEF Condemns
  <2>. QED BY <1>1, <1>2, <2>1 DEF Closed, StayClosed
<1>3. CASE ~Known(p) /\ p \notin tickets
  BY <1>1, <1>3 DEF Ages
<1>. QED BY <1>2, <1>3, <1>1 DEF Blamed

\* Loads that were under way stay distinct.
LEMMA LoadsKeep ==
    ASSUME LoadsDistinct, \A load \in Loads : Carried(load)' => Carried(load) \/ Distinct(load)
    PROVE  LoadsDistinct'
<1>1. ASSUME NEW load \in Loads, Carried(load)' PROVE Distinct(load)
  BY <1>1 DEF LoadsDistinct
<1>. QED BY <1>1 DEF LoadsDistinct, Distinct

LEMMA Untouched ==
    ASSUME UNCHANGED parked,
           \A v \in Windows : /\ \A x \in Items(toMain'[v]) : x.op = "end" => x \in Items(toMain[v])
                              /\ \A x \in Items(toWin'[v]) : x.op = "tab" => x \in Items(toWin[v])
    PROVE  \A load : Carried(load)' => Carried(load)
BY DEF Carried

\* A step that sends no kill, answers no adoption and mounts nothing.
LEMMA SparedCalm ==
    ASSUME IInv, Sessions, Spared, Ages, NoneNearer, StayClosed, LoadsDistinct',
           \A v \in Windows : \A x \in Items(toMain'[v]) : x.op = "kill" => x \in Items(toMain[v]),
           \A v \in Windows : InOrder(toMain'[v], Untimely)
    PROVE  Spared'
<1>0. Sole /\ LoadsDistinct /\ Blamed /\ Unshown /\ Timely /\ Addressed /\ TypeOK
  BY DEF Spared, IInv
<1>1. \A i \in PaneIds : panes'[i].state \in {"waiting", "up"} => panes'[i] = panes[i]
  BY DEF NoneNearer
<1>2. Sole'
  BY <1>0, <1>1 DEF Sole, Mounted
<1>3. \A v \in Windows, p \in PaneIds : Condemns(toMain'[v], p) => Condemns(toMain[v], p)
  BY DEF Condemns
<1>4. Blamed'
  BY <1>0, <1>3, BlamedKeeps DEF Blamed
<1>5. Unshown'
  <2>1. ASSUME NEW i \in PaneIds, Attached(i)', Condemns(toMain'[panes'[i].win], panes'[i].pty) PROVE FALSE
    <3>1. panes'[i] = panes[i] /\ Mounted(i)
      BY <1>1, <2>1 DEF Attached, Mounted
    <3>2. panes[i].win \in Windows
      BY <1>0, <3>1 DEF Addressed, Mounted
    <3>3. Attached(i)
      BY <2>1, <3>1, <3>2 DEF Attached, Answers, NoneNearer
    <3>4. Condemns(toMain[panes[i].win], panes[i].pty)
      BY <2>1, <3>1, <3>2 DEF Condemns
    <3>. QED BY <1>0, <3>3, <3>4 DEF Unshown
  <2>. QED BY <2>1 DEF Unshown
<1>6. Timely'
  <2>1. \A r : r \in Untimely' => r \in Untimely
    <3>1. ASSUME NEW r \in Request \X Request, r[1].op = "adopt",
                 panes'[r[1].pane].state = "waiting"
          PROVE  panes'[r[1].pane] = panes[r[1].pane]
      <4>1. r[1].pane \in PaneIds
        BY <3>1, Contents
      <4>. QED BY <1>1, <3>1, <4>1
    <3>. QED BY <3>1 DEF Untimely
  <2>. QED BY <2>1 DEF Timely, InOrder
<1>. QED BY <1>2, <1>4, <1>5, <1>6 DEF Spared

\* Queues to main that only shrink.
LEMMA QueuesShrink ==
    ASSUME TypeOK, MainOrdered, Timely, NEW w \in Windows,
           toMain' = toMain \/ (toMain[w] # <<>> /\ toMain' = Taken(toMain, w))
    PROVE  \A v \in Windows : /\ Items(toMain'[v]) \subseteq Items(toMain[v])
                              /\ InOrder(toMain'[v], Untimely)
<1>1. CASE toMain' = toMain
  BY <1>1 DEF Timely
<1>2. CASE toMain[w] # <<>> /\ toMain' = Taken(toMain, w)
  <2>1. \A v \in Windows : Items(toMain'[v]) \subseteq Items(toMain[v])
    BY <1>2, MainTaken
  <2>2. InOrder(toMain[w], Untimely) => InOrder(toMain'[w], Untimely)
    BY <1>2, MainTaken
  <2>3. \A v \in Windows : v # w => toMain'[v] = toMain[v]
    BY <1>2, MainTaken
  <2>. QED BY <2>1, <2>2, <2>3 DEF Timely
<1>. QED BY <1>1, <1>2

\* A renderer that hears of an end closes or leaves panes that were mounted.
LEMMA HearSpared ==
    ASSUME IInv, IInv', Sessions, Spared, NEW w \in Windows,
           HearExit(w) \/ LetGo(w) \/ HearStays(w)
    PROVE  Spared'
<1>0. TypeOK /\ Timely /\ LoadsDistinct /\ MainOrdered /\ WinOrdered
  BY DEF IInv, Spared, Sessions
<1>1. NoneNearer /\ Ages
  BY HearCalm DEF Calm, Still, NoneNearer
<1>2. toWin[w] # <<>> /\ toWin' = Taken(toWin, w) /\ UNCHANGED <<toMain, parked>>
  BY DEF HearExit, LetGo, HearStays, Hears, desktop
<1>3. \A v \in Windows : /\ Items(toMain'[v]) \subseteq Items(toMain[v])
                         /\ InOrder(toMain'[v], Untimely)
  BY <1>0, <1>2, QueuesShrink
<1>4. LoadsDistinct'
  <2>1. \A v \in Windows : Items(toWin'[v]) \subseteq Items(toWin[v])
    BY <1>0, <1>2, WinTaken
  <2>2. \A load : Carried(load)' => Carried(load)
    BY <1>2, <1>3, <2>1, Untouched
  <2>. QED BY <1>0, <2>2, LoadsKeep
<1>5. StayClosed
  <2>2. CASE HearExit(w)
    BY <2>2 DEF HearExit, StayClosed
  <2>3. CASE LetGo(w)
    BY <2>3 DEF LetGo, StayClosed, MountedIn, Mounted
  <2>4. CASE HearStays(w)
    BY <2>4 DEF HearStays, StayClosed
  <2>. QED BY <2>2, <2>3, <2>4
<1>. QED BY <1>1, <1>3, <1>4, <1>5, SparedCalm

\* Main takes a request from a renderer, or a shell exits.
LEMMA MainSpared ==
    ASSUME IInv, IInv', Sessions, Spared, NEW w \in Windows, BeginCreate(w) \/ Kill(w) \/ Drop(w)
    PROVE  Spared'
<1>0. TypeOK /\ Timely /\ LoadsDistinct /\ MainOrdered /\ WinOrdered
  BY DEF IInv, Spared, Sessions
<1>1. toMain[w] # <<>> /\ toMain' = Taken(toMain, w) /\ UNCHANGED <<panes, tab>>
  BY DEF BeginCreate, Kill, Drop, Asks
<1>2. NoneNearer /\ Ages
  <2>1. CASE BeginCreate(w)
    BY <2>1, BeginSession DEF BeginCreate, NoneNearer
  <2>2. CASE Kill(w) \/ Drop(w)
    BY <2>2, KillCalm, DropSession DEF Calm, Still, NoneNearer
  <2>. QED BY <2>1, <2>2
<1>3. /\ \A v \in Windows : /\ Items(toMain'[v]) \subseteq Items(toMain[v])
                            /\ InOrder(toMain'[v], Untimely)
      /\ Head(toMain[w]) \in Items(toMain[w])
  BY <1>0, <1>1, QueuesShrink, MainTaken
<1>4. \A load : Carried(load)' => Carried(load)
  <2>1. CASE BeginCreate(w) \/ Kill(w)
    <3>1. UNCHANGED <<parked, toWin>>
      BY <2>1 DEF BeginCreate, Kill, desktop
    <3>. QED BY <1>3, <3>1, Untouched
  <2>2. CASE Drop(w)
    <3>1. Carried(Head(toMain[w]).load)
      BY <1>3, <2>2 DEF Carried, Drop, Asks
    <3>2. \A v \in Windows :
             /\ \A x \in Items(toWin'[v]) :
                   x.op = "tab" => x \in Items(toWin[v]) \/ x.load = Head(toMain[w]).load
             /\ parked'[v] = parked[v] \/ parked'[v].load = Head(toMain[w]).load
      BY <2>2, DropSession
    <3>. QED BY <1>3, <3>1, <3>2 DEF Carried
  <2>. QED BY <2>1, <2>2
<1>5. LoadsDistinct'
  BY <1>0, <1>4, LoadsKeep
<1>6. StayClosed
  BY <1>1 DEF StayClosed
<1>. QED BY <1>2, <1>3, <1>5, <1>6, SparedCalm

LEMMA ShellSpared ==
    ASSUME IInv, IInv', Sessions, Spared, NEW i \in PaneIds, FinishCreate(i) \/ PtyExit(i)
    PROVE  Spared'
<1>0. TypeOK /\ Timely /\ LoadsDistinct /\ MainOrdered /\ WinOrdered
  BY DEF IInv, Spared, Sessions
<1>1. UNCHANGED <<panes, toMain, parked>>
  BY DEF FinishCreate, PtyExit, desktop
<1>2. /\ Ages
      /\ \A v \in Windows : \A x \in Items(toWin'[v]) :
            x \in Items(toWin[v]) \/ x.op \in {"created", "failed", "exit"}
  BY FinishSession, ExitCalm DEF Calm
<1>3. NoneNearer /\ StayClosed
  BY <1>1, <1>2 DEF NoneNearer, StayClosed
<1>4. \A load : Carried(load)' => Carried(load)
  BY <1>1, <1>2, Untouched
<1>5. LoadsDistinct'
  BY <1>0, <1>4, LoadsKeep
<1>6. \A v \in Windows : InOrder(toMain'[v], Untimely)
  BY <1>0, <1>1 DEF Timely
<1>. QED BY <1>1, <1>2, <1>3, <1>5, <1>6, SparedCalm

\* The panes of one window show different ptys, so what a drag describes does.
LEMMA EndDragSpared ==
    ASSUME IInv, IInv', Sessions, Spared, NEW w \in Windows, NEW canDetach \in BOOLEAN,
           EndDrag(w, canDetach)
    PROVE  Spared'
<1> DEFINE r == [op |-> "end", load |-> LoadOf(w), canDetach |-> canDetach]
<1>0. TypeOK /\ Sole /\ Timely /\ LoadsDistinct /\ MainOrdered
  BY DEF IInv, Spared, Sessions
<1>1. toMain' = Sent(toMain, w, <<r>>) /\ UNCHANGED <<panes, toWin, parked>>
  BY DEF EndDrag, desktop
<1>2. r \in Request /\ r.op = "end" /\ r.load = LoadOf(w)
  BY <1>0, LoadTypes DEF Request, EndDrag
<1>3. Distinct(LoadOf(w))
  <2>1. ASSUME NEW t \in DOMAIN LoadOf(w)
        PROVE  /\ LoadOf(w)[t] = panes[<<t, tab[w]>>].pty
               /\ <<t, tab[w]>> \in PaneIds /\ Mounted(<<t, tab[w]>>) /\ panes[<<t, tab[w]>>].win = w
    BY DEF LoadOf, MountedIn
  <2>2. ASSUME NEW s \in DOMAIN LoadOf(w), NEW t \in DOMAIN LoadOf(w),
               LoadOf(w)[s] = LoadOf(w)[t], LoadOf(w)[s] # None
        PROVE  s = t
    <3>1. <<s, tab[w]>> = <<t, tab[w]>>
      BY <1>0, <2>1, <2>2 DEF Sole
    <3>. QED BY <3>1
  <2>. QED BY <2>2 DEF Distinct
<1>. HIDE DEF r
<1>4. /\ \A v \in Windows : v # w => toMain'[v] = toMain[v]
      /\ Items(toMain'[w]) = Items(toMain[w]) \cup {r}
      /\ InOrder(toMain'[w], Untimely)
  <2>1. <<r>> \in Seq(Request) /\ Items(<<r>>) = {r} /\ \A never : InOrder(<<r>>, never)
    BY <1>2, ShortQueues, OneOp
  <2>2. \A x : <<x, r>> \notin LateAdopt \cup Again
    BY <1>2, FollowsAnything
  <2>3. \A x : <<x, r>> \notin Untimely
    BY <1>2 DEF Untimely
  <2>4. /\ \A v \in Windows : v # w => toMain'[v] = toMain[v]
        /\ Items(toMain'[w]) = Items(toMain[w]) \cup Items(<<r>>)
        /\ \A never : /\ InOrder(toMain[w], never) /\ InOrder(<<r>>, never)
                      /\ \A x \in Items(toMain[w]), y \in Items(<<r>>) : <<x, y>> \notin never
                      => InOrder(toMain'[w], never)
    BY <1>0, <1>1, <2>1, <2>2, MainSent
  <2>5. InOrder(toMain[w], Untimely)
    BY <1>0 DEF Timely
  <2>6. InOrder(toMain'[w], Untimely)
    BY <2>1, <2>3, <2>4, <2>5
  <2>. QED BY <2>1, <2>4, <2>6
<1>5. LoadsDistinct'
  <2>1. \A load : Carried(load)' => Carried(load) \/ load = LoadOf(w)
    BY <1>1, <1>2, <1>4 DEF Carried
  <2>2. \A load : Carried(load)' => Carried(load) \/ Distinct(load)
    BY <1>3, <2>1
  <2>. QED BY <1>0, <2>2, LoadsKeep
<1>6. Ages
  BY EndDragCalm DEF Calm
<1>7. NoneNearer /\ StayClosed
  BY <1>1 DEF NoneNearer, StayClosed
<1>8. \A v \in Windows : /\ \A x \in Items(toMain'[v]) : x.op = "kill" => x \in Items(toMain[v])
                         /\ InOrder(toMain'[v], Untimely)
  BY <1>0, <1>2, <1>4 DEF Timely
<1>. QED BY <1>5, <1>6, <1>7, <1>8, SparedCalm

LEMMA WindowSpared ==
    ASSUME IInv, IInv', Sessions, Spared, NewWindow \/ \E w \in Windows : Boot(w) \/ Reload(w) \/ CloseWindow(w)
    PROVE  Spared'
<1>0. TypeOK /\ Timely /\ LoadsDistinct /\ Tidy
  BY DEF IInv, Spared
<1>1. NoneNearer /\ Ages
  BY WindowCalm DEF Calm, Still, NoneNearer
<1>2. CASE NewWindow \/ \E w \in Windows : Boot(w)
  <2>1. UNCHANGED <<panes, toMain>>
    BY <1>2 DEF NewWindow, Boot
  <2>2. \A load : Carried(load)' => Carried(load)
    <3>1. CASE NewWindow
      BY <2>1, <3>1 DEF NewWindow, Carried
    <3>2. ASSUME NEW w \in Windows, Boot(w) PROVE \A load : Carried(load)' => Carried(load)
      <4>1. /\ parked' = [parked EXCEPT ![w] = None]
            /\ toWin' = IF parked[w] = None THEN toWin ELSE Sent(toWin, w, <<parked[w]>>)
            /\ toWin[w] = <<>>
        BY <1>0, <3>2 DEF Boot, TakePending, Tidy
      <4>2. \A v \in Windows : parked'[v] # None => parked'[v] = parked[v]
        BY <1>0, <4>1 DEF TypeOK
      <4>3. ASSUME NEW v \in Windows, NEW x \in Items(toWin'[v])
            PROVE  x \in Items(toWin[v]) \/ (parked[w] # None /\ x = parked[w])
        <5>1. CASE parked[w] = None \/ v # w
          <6>1. toWin'[v] = toWin[v]
            BY <1>0, <4>1, <5>1 DEF Sent, TypeOK
          <6>. QED BY <4>3, <6>1
        <5>2. CASE parked[w] # None /\ v = w
          <6>1. <<parked[w]>> \in Seq(Notice)
            BY <1>0, <5>2, Contents, OneOp DEF TypeOK
          <6>2. toWin'[w] = <<>> \o <<parked[w]>>
            BY <1>0, <4>1, <5>2 DEF Sent, TypeOK
          <6>3. toWin'[w] = <<parked[w]>>
            BY <6>1, <6>2
          <6>. QED BY <4>3, <5>2, <6>3, ShortQueues
        <5>. QED BY <5>1, <5>2
      <4>. QED BY <2>1, <4>2, <4>3 DEF Carried
    <3>. QED BY <1>2, <3>1, <3>2
  <2>3. LoadsDistinct'
    BY <1>0, <2>2, LoadsKeep
  <2>4. StayClosed /\ \A v \in Windows : InOrder(toMain'[v], Untimely)
    BY <1>0, <2>1 DEF StayClosed, Timely
  <2>. QED BY <1>1, <2>1, <2>3, <2>4, SparedCalm
<1>3. ASSUME NEW w \in Windows, Reload(w) \/ CloseWindow(w) PROVE Spared'
  <2>1. /\ panes' = [i \in PaneIds |-> IF panes[i].win = w /\ panes[i].state # "unused"
                                       THEN [win |-> w, pty |-> None, state |-> "lost"] ELSE panes[i]]
        /\ toMain' = [toMain EXCEPT ![w] = <<>>] /\ toWin' = [toWin EXCEPT ![w] = <<>>]
        /\ parked' = parked \/ parked' = [parked EXCEPT ![w] = None]
    BY <1>3 DEF Reload, CloseWindow, LoseRenderer
  <2>2. /\ toMain'[w] = <<>> /\ toWin'[w] = <<>>
        /\ \A v \in Windows : /\ v # w => toMain'[v] = toMain[v] /\ toWin'[v] = toWin[v]
                              /\ parked'[v] # None => parked'[v] = parked[v]
    BY <1>0, <2>1 DEF TypeOK
  <2>3. \A v \in Windows : /\ Items(toMain'[v]) \subseteq Items(toMain[v])
                           /\ Items(toWin'[v]) \subseteq Items(toWin[v])
                           /\ InOrder(toMain'[v], Untimely)
    BY <1>0, <2>2, ShortQueues DEF Timely
  <2>4. \A load : Carried(load)' => Carried(load)
    BY <2>2, <2>3 DEF Carried
  <2>5. LoadsDistinct'
    BY <1>0, <2>4, LoadsKeep
  <2>6. StayClosed
    BY <2>1, <2>2 DEF StayClosed
  <2>. QED BY <1>1, <2>3, <2>5, <2>6, SparedCalm
<1>. QED BY <1>2, <1>3

\* A pane that closes asks for the end of a pty that no other pane of its window has.
LEMMA CloseSpared ==
    ASSUME IInv, IInv', Sessions, Spared, NEW w \in Windows,
           Closes(w)
    PROVE  Spared'
<1>0. /\ TypeOK /\ Addressed /\ Sole /\ LoadsDistinct /\ Blamed /\ Unshown /\ Timely
      /\ MainOrdered /\ WinOrdered /\ Born
  BY DEF IInv, Spared, Sessions
<1>1. PICK ids \in SUBSET PaneIds :
         /\ ids \subseteq MountedIn(w)
         /\ panes' = Marked(ids, "closed") /\ toMain' = Sent(toMain, w, KillRequests(ids))
  <2>1. MountedIn(w) \in SUBSET PaneIds
    BY DEF MountedIn
  <2>2. ASSUME NEW ids \in SUBSET PaneIds, ClosePanes(w, ids)
        PROVE  panes' = Marked(ids, "closed") /\ toMain' = Sent(toMain, w, KillRequests(ids))
    BY <2>2 DEF ClosePanes, Marked
  <2>3. CASE CloseTab(w)
    BY <2>1, <2>2, <2>3 DEF CloseTab
  <2>4. ASSUME NEW i \in PaneIds, CloseTerminal(i), panes[i].win = w
        PROVE  {i} \in SUBSET PaneIds /\ ClosePanes(w, {i}) /\ {i} \subseteq MountedIn(w)
    BY <2>4 DEF CloseTerminal, MountedIn
  <2>5. CASE HearFailed(w)
    BY <2>5, FailedCloses DEF Marked
  <2>. QED BY <2>2, <2>3, <2>4, <2>5 DEF Closes
<1>2. PICK m \in Seq(Request) :
         /\ m = KillRequests(ids)
         /\ \A x \in Items(m) : \E i \in ids :
               panes[i].state = "up" /\ x = [op |-> "kill", pty |-> panes[i].pty]
  <2>1. KillRequests(ids) \in Seq(Request)
    BY <1>0, KillsNamed
  <2>2. \A x \in Items(KillRequests(ids)) : \E i \in ids :
           panes[i].state = "up" /\ x = [op |-> "kill", pty |-> panes[i].pty]
    <3>1. \A k \in 1..Len(KillRequests(ids)) : \E i \in ids :
             panes[i].state = "up" /\ KillRequests(ids)[k] = [op |-> "kill", pty |-> panes[i].pty]
      BY <1>0, KillsNamed
    <3>. QED BY <3>1 DEF Items
  <2>. QED BY <2>1, <2>2
<1>3. /\ panes' = Marked(ids, "closed") /\ toMain' = Sent(toMain, w, m) /\ UNCHANGED parked
      /\ \A v \in Windows : Items(toWin'[v]) \subseteq Items(toWin[v])
  <2>1. /\ UNCHANGED parked
        /\ toWin' = toWin \/ (toWin[w] # <<>> /\ toWin' = Taken(toWin, w))
    BY DEF Closes, CloseTab, CloseTerminal, ClosePanes, HearFailed, Hears, desktop
  <2>2. \A v \in Windows : Items(toWin'[v]) \subseteq Items(toWin[v])
    BY <1>0, <2>1, WinTaken
  <2>. QED BY <1>1, <1>2, <2>1, <2>2
<1>4. ASSUME NEW i \in PaneIds
      PROVE  /\ panes'[i].state \in {"waiting", "up"} => panes'[i] = panes[i] /\ i \notin ids
             /\ i \in ids => /\ panes[i].win = w /\ Mounted(i) /\ panes'[i].state = "closed"
                             /\ panes'[i].win = w /\ panes'[i].pty = panes[i].pty
             /\ i \notin ids => panes'[i] = panes[i]
  <2>1. panes[i] \in Pane
    BY <1>0 DEF TypeOK
  <2>2. panes'[i].state \in {"waiting", "up"} => panes'[i] = panes[i] /\ i \notin ids
    BY <1>0, <1>3, Unmounts
  <2>3. i \notin ids => panes'[i] = panes[i]
    BY <1>3 DEF Marked
  <2>4. i \in ids => panes'[i] = [panes[i] EXCEPT !.state = "closed"] /\ panes[i].win = w /\ Mounted(i)
    BY <1>1, <1>3 DEF Marked, MountedIn
  <2>. QED BY <2>1, <2>2, <2>3, <2>4 DEF Pane
<1>5. \A x \in Items(m) : x.op = "kill"
  BY <1>2
<1>6. /\ \A v \in Windows : v # w => toMain'[v] = toMain[v]
      /\ Items(toMain'[w]) = Items(toMain[w]) \cup Items(m)
      /\ \A never : /\ InOrder(toMain[w], never) /\ InOrder(m, never)
                    /\ \A x \in Items(toMain[w]), y \in Items(m) : <<x, y>> \notin never
                    => InOrder(toMain'[w], never)
  <2>1. \A x, y : y \in Items(m) => <<x, y>> \notin LateAdopt \cup Again
    BY <1>5, FollowsAnything
  <2>2. InOrder(m, Again) /\ InOrder(m, LateAdopt)
    BY <2>1 DEF InOrder, Items
  <2>. QED BY <1>0, <1>3, <2>1, <2>2, MainSent
<1>7. Ages
  BY CloseCalm DEF Calm
<1>8. NoneNearer /\ StayClosed
  <2>1. NoneNearer
    BY <1>3, <1>4 DEF NoneNearer
  <2>2. \A i \in PaneIds : panes[i].state = "closed" => i \notin ids
    BY <1>4 DEF Mounted
  <2>. QED BY <1>4, <2>1, <2>2 DEF StayClosed
<1>9. Sole'
  BY <1>0, <1>4 DEF Sole, Mounted
<1>10. LoadsDistinct'
  <2>1. \A v \in Windows : \A x \in Items(toMain'[v]) : x.op = "end" => x \in Items(toMain[v])
    BY <1>5, <1>6
  <2>2. \A load : Carried(load)' => Carried(load)
    BY <1>3, <2>1, Untouched
  <2>. QED BY <1>0, <2>2, LoadsKeep
<1>11. ASSUME NEW v \in Windows, NEW p, Condemns(toMain'[v], p)
       PROVE  \/ Condemns(toMain[v], p)
              \/ v = w /\ \E j \in ids : panes[j].state = "up" /\ panes[j].pty = p
  BY <1>2, <1>6, <1>11 DEF Condemns
<1>12. Blamed'
  <2>1. ASSUME NEW v \in Windows, NEW p \in PaneIds, Condemns(toMain'[v], p)
        PROVE  ~Unborn(p)' /\ (Closed(v, p)' \/ (~Known(p)' /\ p \notin tickets'))
    <3>1. CASE Condemns(toMain[v], p)
      BY <1>0, <1>7, <1>8, <2>1, <3>1, BlamedKeeps
    <3>2. ASSUME NEW j \in ids, v = w, panes[j].state = "up", panes[j].pty = p
          PROVE  ~Unborn(p)' /\ Closed(v, p)'
      <4>1. Known(p)
        BY <3>2 DEF Known
      <4>2. ~Unborn(p)'
        BY <1>0, <1>7, <4>1 DEF Born, Ages
      <4>. QED BY <1>4, <3>2, <4>2 DEF Closed
    <3>. QED BY <1>11, <2>1, <3>1, <3>2
  <2>. QED BY <2>1 DEF Blamed
<1>13. ASSUME NEW i \in PaneIds, NEW j \in ids, panes'[i].state \in {"waiting", "up"},
              panes[i].win = w, panes[j].state = "up", panes[j].pty = panes[i].pty
       PROVE  FALSE
  <2>1. Mounted(i) /\ i \notin ids /\ Mounted(j) /\ panes[j].win = w
    BY <1>4, <1>13 DEF Mounted
  <2>2. panes[j].pty # None
    BY <1>0, <1>13 DEF Addressed
  <2>. QED BY <1>0, <1>13, <2>1, <2>2 DEF Sole
<1>14. Unshown'
  <2>1. ASSUME NEW i \in PaneIds, Attached(i)', Condemns(toMain'[panes'[i].win], panes'[i].pty) PROVE FALSE
    <3>1. panes'[i] = panes[i] /\ panes'[i].state \in {"waiting", "up"} /\ Attached(i)
      <4>1. panes'[i] = panes[i] /\ panes'[i].state \in {"waiting", "up"} /\ panes[i].win \in Windows
        BY <1>0, <1>4, <2>1 DEF Attached, Addressed
      <4>. QED BY <1>3, <2>1, <4>1 DEF Attached, Answers
    <3>2. panes[i].win \in Windows
      BY <1>0, <3>1 DEF Addressed
    <3>3. ~Condemns(toMain[panes[i].win], panes[i].pty)
      BY <1>0, <3>1 DEF Unshown
    <3>. QED BY <1>11, <1>13, <2>1, <3>1, <3>2, <3>3
  <2>. QED BY <2>1 DEF Unshown
<1>15. Timely'
  <2>1. ASSUME NEW v \in Windows, NEW x \in Items(toMain[v]), NEW y, <<x, y>> \in Untimely'
        PROVE  /\ <<x, y>> \in Untimely
               /\ panes'[x.pane].state = "waiting" /\ panes[x.pane].pty = y.pty
               /\ x.pane \in PaneIds /\ panes[x.pane].win = v
    <3>1. /\ x \in Request /\ y \in Request /\ x.op = "adopt" /\ y.op = "kill"
          /\ panes'[x.pane].state = "waiting" /\ panes'[x.pane].pty = y.pty
      BY <2>1 DEF Untimely
    <3>2. x.pane \in PaneIds /\ panes[x.pane].win = v
      BY <1>0, <3>1, AboutPanes DEF PaneOps
    <3>3. panes'[x.pane] = panes[x.pane]
      BY <1>4, <3>1, <3>2
    <3>. QED BY <3>1, <3>2, <3>3 DEF Untimely
  <2>2. ASSUME NEW v \in Windows PROVE InOrder(toMain[v], Untimely')
    <3>1. InOrder(toMain[v], Untimely)
      BY <1>0 DEF Timely
    <3>2. ASSUME NEW j \in 1..Len(toMain[v]), NEW k \in 1..Len(toMain[v]), j < k
          PROVE  <<toMain[v][j], toMain[v][k]>> \notin Untimely'
      <4>1. toMain[v][j] \in Items(toMain[v])
        BY DEF Items
      <4>. QED BY <2>1, <3>1, <3>2, <4>1 DEF InOrder
    <3>. QED BY <3>2 DEF InOrder
  <2>3. InOrder(m, Untimely')
    <3>1. ASSUME NEW j \in 1..Len(m), NEW k \in 1..Len(m) PROVE <<m[j], m[k]>> \notin Untimely'
      <4>1. m[j].op = "kill"
        BY <1>5 DEF Items
      <4>. QED BY <4>1 DEF Untimely
    <3>. QED BY <3>1 DEF InOrder
  <2>4. ASSUME NEW x \in Items(toMain[w]), NEW y \in Items(m) PROVE <<x, y>> \notin Untimely'
    <3>1. PICK j \in ids : panes[j].state = "up" /\ panes[j].pty = y.pty
      BY <1>2
    <3>. QED BY <1>13, <2>1, <3>1
  <2>5. InOrder(toMain'[w], Untimely')
    BY <1>6, <2>2, <2>3, <2>4
  <2>. QED BY <1>6, <2>2, <2>5 DEF Timely
<1>. QED BY <1>9, <1>10, <1>12, <1>14, <1>15 DEF Spared

\* A pane comes up with the pty it waited for, and its window asks for no end of it.
LEMMA HearAdoptedSpared ==
    ASSUME IInv, IInv', Sessions, Spared, NEW w \in Windows, HearAdopted(w)
    PROVE  Spared'
<1>0. /\ TypeOK /\ Addressed /\ Sole /\ LoadsDistinct /\ Blamed /\ Unshown /\ Timely /\ WinOrdered
  BY DEF IInv, Spared, Sessions
<1>1. PICK i \in PaneIds : i = Head(toWin[w]).pane
  <2>1. Head(toWin[w]).pane \in PaneIds
    BY <1>0, Heads, Contents DEF HearAdopted, Hears
  <2>. QED BY <2>1
<1>2. /\ toWin[w] # <<>> /\ toWin' = Taken(toWin, w) /\ Head(toWin[w]).op = "adopted"
      /\ UNCHANGED <<toMain, parked>>
      /\ \/ panes' = panes
         \/ panes[i].state = "waiting" /\ panes' = [panes EXCEPT ![i].state = "up"]
  BY <1>1 DEF HearAdopted, Hears, desktop
<1>3. /\ \A v \in Windows : Items(toWin'[v]) \subseteq Items(toWin[v])
      /\ Head(toWin[w]) \in Items(toWin[w])
  BY <1>0, <1>2, WinTaken
<1>4. panes[i].win = w /\ Answers(toWin[w], "adopted", i)
  BY <1>0, <1>1, <1>2, <1>3, AboutPanes DEF PaneOps, Answers
<1>5. ASSUME NEW j \in PaneIds
      PROVE  /\ panes'[j].win = panes[j].win /\ panes'[j].pty = panes[j].pty
             /\ panes'[j].state \in {"waiting", "up"} => Mounted(j)
             /\ panes'[j] = panes[j] \/ (j = i /\ panes[i].state = "waiting" /\ panes'[i].state = "up")
  <2>1. panes \in [PaneIds -> Pane]
    BY <1>0 DEF TypeOK
  <2>. QED BY <1>2, <2>1 DEF Pane, Mounted
<1>6. Sole'
  BY <1>0, <1>5 DEF Sole, Mounted
<1>7. LoadsDistinct'
  <2>1. \A load : Carried(load)' => Carried(load)
    BY <1>2, <1>3, Untouched
  <2>. QED BY <1>0, <2>1, LoadsKeep
<1>8. Blamed'
  <2>1. StayClosed
    BY <1>5 DEF StayClosed
  <2>2. Ages
    BY HearAdoptedSession
  <2>. QED BY <1>0, <1>2, <2>1, <2>2, BlamedKeeps DEF Blamed
<1>9. Unshown'
  <2>1. ASSUME NEW j \in PaneIds, Attached(j)' PROVE ~Condemns(toMain'[panes'[j].win], panes'[j].pty)
    <3>1. panes[j].win \in Windows
      BY <1>0, <1>5, <2>1 DEF Attached, Addressed, Mounted
    <3>2. Attached(j)
      BY <1>3, <1>4, <1>5, <2>1, <3>1 DEF Attached, Answers
    <3>. QED BY <1>0, <1>2, <1>5, <3>2 DEF Unshown
  <2>. QED BY <2>1 DEF Unshown
<1>10. Timely'
  <2>1. ASSUME NEW r \in Untimely' PROVE r \in Untimely
    <3>1. r \in Request \X Request /\ r[1].op = "adopt" /\ r[1].pane \in PaneIds
      BY <2>1, Contents DEF Untimely
    <3>2. panes'[r[1].pane] = panes[r[1].pane]
      BY <1>5, <2>1, <3>1 DEF Untimely
    <3>. QED BY <2>1, <3>2 DEF Untimely
  <2>. QED BY <1>0, <1>2, <2>1 DEF Timely, InOrder
<1>. QED BY <1>6, <1>7, <1>8, <1>9, <1>10 DEF Spared

\* A pty that its pane hears of has been in no pane: nobody can have closed on it.
LEMMA HearCreatedSpared ==
    ASSUME IInv, IInv', Sessions, Spared, NEW w \in Windows, HearCreated(w)
    PROVE  Spared'
<1>0. /\ TypeOK /\ Addressed /\ Sole /\ LoadsDistinct /\ Blamed /\ Unshown /\ Timely
      /\ MainOrdered /\ WinOrdered /\ Born
  BY DEF IInv, Spared, Sessions
<1>1. PICK i \in PaneIds : /\ i = Head(toWin[w]).pane /\ Unborn(i) /\ ~Unborn(i)'
                           /\ panes' = panes => ~Known(i)'
  <2>1. Announces(w)
    BY HearCreatedSession
  <2>. QED BY <2>1 DEF Announces
<1>2. Ages /\ i \notin tickets /\ ~Known(i)
  BY <1>0, <1>1, HearCreatedSession DEF Born
<1>3. \A j \in PaneIds : panes[j].pty # i
  BY <1>2 DEF Known
<1>4. \A v \in Windows : ~Condemns(toMain[v], i)
  BY <1>0, <1>1 DEF Blamed
<1>5. /\ toWin[w] # <<>> /\ toWin' = Taken(toWin, w) /\ UNCHANGED <<parked, tickets>>
      /\ \/ /\ panes[i].state = "waiting" /\ toMain' = toMain
            /\ panes' = [panes EXCEPT ![i].pty = i, ![i].state = "up"]
         \/ panes' = panes /\ toMain' = toMain
         \/ panes' = panes /\ toMain' = Sent(toMain, w, <<[op |-> "kill", pty |-> i]>>)
  BY <1>1 DEF HearCreated, Hears, desktop, ptyVars
<1>6. \A v \in Windows : Items(toWin'[v]) \subseteq Items(toWin[v])
  BY <1>0, <1>5, WinTaken
<1>7. ASSUME NEW j \in PaneIds
      PROVE  \/ panes'[j] = panes[j]
             \/ /\ j = i /\ panes[i].state = "waiting" /\ toMain' = toMain
                /\ panes'[i].pty = i /\ panes'[i].state = "up"
  <2>1. panes \in [PaneIds -> Pane]
    BY <1>0 DEF TypeOK
  <2>. QED BY <1>5, <2>1 DEF Pane
<1>8. Sole'
  <2>1. ASSUME NEW j \in PaneIds, NEW k \in PaneIds, Mounted(j)', Mounted(k)',
               panes'[j].win = panes'[k].win, panes'[j].pty = panes'[k].pty, panes'[j].pty # None
        PROVE  j = k
    <3>1. CASE panes'[j] = panes[j] /\ panes'[k] = panes[k]
      BY <1>0, <2>1, <3>1 DEF Sole, Mounted
    <3>2. CASE panes'[j].pty = i
      BY <1>3, <1>7, <2>1, <3>2
    <3>. QED BY <1>7, <2>1, <3>1, <3>2
  <2>. QED BY <2>1 DEF Sole
<1>9. /\ \A v \in Windows : \A x \in Items(toMain'[v]) :
            x \in Items(toMain[v]) \/ (panes' = panes /\ x.op = "kill" /\ x.pty = i)
      /\ \A v \in Windows : \A never :
            InOrder(toMain[v], never) /\ (\A x, y : y.op = "kill" /\ y.pty = i => <<x, y>> \notin never)
            => InOrder(toMain'[v], never)
  <2>1. CASE toMain' = toMain
    BY <2>1
  <2>2. CASE panes' = panes /\ toMain' = Sent(toMain, w, <<[op |-> "kill", pty |-> i]>>)
    <3> DEFINE r == [op |-> "kill", pty |-> i]
    <3>1. r \in Request /\ r.op = "kill" /\ r.pty = i /\ toMain' = Sent(toMain, w, <<r>>)
      BY <2>2 DEF Request
    <3>. HIDE DEF r
    <3>2. <<r>> \in Seq(Request) /\ Items(<<r>>) = {r} /\ \A never : InOrder(<<r>>, never)
      BY <3>1, ShortQueues, OneOp
    <3>3. \A x : <<x, r>> \notin LateAdopt \cup Again
      BY <3>1, FollowsAnything
    <3>4. /\ \A v \in Windows : v # w => toMain'[v] = toMain[v]
          /\ Items(toMain'[w]) = Items(toMain[w]) \cup {r}
          /\ \A never : /\ InOrder(toMain[w], never) /\ InOrder(<<r>>, never)
                        /\ \A x \in Items(toMain[w]), y \in Items(<<r>>) : <<x, y>> \notin never
                        => InOrder(toMain'[w], never)
      BY <1>0, <3>1, <3>2, <3>3, MainSent
    <3>. QED BY <2>2, <3>1, <3>2, <3>4
  <2>. QED BY <1>5, <2>1, <2>2
<1>10. LoadsDistinct'
  <2>1. \A load : Carried(load)' => Carried(load)
    BY <1>5, <1>6, <1>9, Untouched
  <2>. QED BY <1>0, <2>1, LoadsKeep
<1>11. ASSUME NEW v \in Windows, NEW p, Condemns(toMain'[v], p)
       PROVE  Condemns(toMain[v], p) \/ (panes' = panes /\ p = i)
  BY <1>9, <1>11 DEF Condemns
<1>12. Blamed'
  <2>1. StayClosed
    BY <1>7 DEF StayClosed
  <2>2. ASSUME NEW v \in Windows, NEW p \in PaneIds, Condemns(toMain'[v], p)
        PROVE  ~Unborn(p)' /\ (Closed(v, p)' \/ (~Known(p)' /\ p \notin tickets'))
    <3>1. CASE Condemns(toMain[v], p)
      BY <1>0, <1>2, <2>1, <2>2, <3>1, BlamedKeeps
    <3>2. CASE panes' = panes /\ p = i
      BY <1>1, <1>2, <1>5, <3>2
    <3>. QED BY <1>11, <2>2, <3>1, <3>2
  <2>. QED BY <2>2 DEF Blamed
<1>13. Unshown'
  <2>1. ASSUME NEW j \in PaneIds, Attached(j)', Condemns(toMain'[panes'[j].win], panes'[j].pty) PROVE FALSE
    <3>1. panes'[j].win \in Windows
      <4>1. Mounted(j)'
        BY <2>1 DEF Attached, Mounted
      <4>. QED BY <4>1 DEF IInv, Addressed, Mounted
    <3>2. CASE panes'[j] = panes[j]
      <4>1. Attached(j)
        BY <1>6, <2>1, <3>1, <3>2 DEF Attached, Answers
      <4>. QED BY <1>0, <1>3, <1>11, <2>1, <3>1, <3>2, <4>1 DEF Unshown
    <3>3. CASE panes'[j].pty = i /\ toMain' = toMain
      BY <1>4, <2>1, <3>1, <3>3
    <3>. QED BY <1>7, <3>2, <3>3
  <2>. QED BY <2>1 DEF Unshown
<1>14. Timely'
  <2>1. ASSUME NEW r \in Untimely' PROVE r \in Untimely /\ r[2].pty # i
    <3>1. r \in Request \X Request /\ r[1].op = "adopt" /\ r[1].pane \in PaneIds
      BY <2>1, Contents DEF Untimely
    <3>2. panes'[r[1].pane] = panes[r[1].pane]
      BY <1>7, <2>1, <3>1 DEF Untimely
    <3>. QED BY <1>3, <2>1, <3>1, <3>2 DEF Untimely
  <2>2. \A v \in Windows : InOrder(toMain[v], Untimely')
    BY <1>0, <2>1 DEF Timely, InOrder
  <2>3. \A x, y : y.op = "kill" /\ y.pty = i => <<x, y>> \notin Untimely'
    BY <2>1
  <2>. QED BY <1>9, <2>2, <2>3 DEF Timely
<1>. QED BY <1>8, <1>10, <1>12, <1>13, <1>14 DEF Spared

\* Panes that were in no use mount: nothing is under way for them yet.
LEMMA MountSpared ==
    ASSUME IInv, IInv', Sessions, Spared, Ages, Sole', NEW w \in Windows, NEW ids \in SUBSET PaneIds,
           NEW m \in Seq(Request), toMain' = Sent(toMain, w, m),
           \A x \in Items(m) : x.op \in {"create", "adopt"},
           \A i \in ids : panes[i].state = "unused" /\ panes'[i].state = "waiting",
           \A i \in PaneIds \ ids : panes'[i] = panes[i],
           \A v \in Windows : Items(toWin'[v]) \subseteq Items(toWin[v]),
           UNCHANGED parked
    PROVE  Spared'
<1>0. /\ TypeOK /\ Addressed /\ LoadsDistinct /\ Blamed /\ Unshown /\ Timely
  BY DEF IInv, Spared
<1>1. /\ \A v \in Windows : v # w => toMain'[v] = toMain[v]
      /\ Items(toMain'[w]) = Items(toMain[w]) \cup Items(m)
      /\ \A never : /\ InOrder(toMain[w], never) /\ InOrder(m, never)
                    /\ \A x \in Items(toMain[w]), y \in Items(m) : <<x, y>> \notin never
                    => InOrder(toMain'[w], never)
  <2>1. toMain \in [Windows -> Seq(Request)] /\ toMain[w] \in Seq(Request)
    BY <1>0 DEF TypeOK
  <2>2. toMain'[w] = toMain[w] \o m /\ \A v \in Windows : v # w => toMain'[v] = toMain[v]
    BY <2>1 DEF Sent
  <2>. QED BY <2>1, <2>2, QueueSent
<1>2. LoadsDistinct'
  <2>1. \A v \in Windows : \A x \in Items(toMain'[v]) : x.op = "end" => x \in Items(toMain[v])
    BY <1>1
  <2>2. \A load : Carried(load)' => Carried(load)
    BY <2>1, Untouched
  <2>. QED BY <1>0, <2>2, LoadsKeep
<1>3. \A v \in Windows : \A p : Condemns(toMain'[v], p) => Condemns(toMain[v], p)
  BY <1>1 DEF Condemns
<1>4. Blamed'
  <2>1. StayClosed
    BY DEF StayClosed
  <2>. QED BY <1>0, <1>3, <2>1, BlamedKeeps DEF Blamed
<1>5. ASSUME NEW v \in Windows, NEW x \in Items(toMain[v]) \cup Items(toWin[v]), x.op \in PaneOps
      PROVE  x.pane \in PaneIds /\ panes'[x.pane] = panes[x.pane] /\ x.pane \notin ids
  <2>1. x.pane \in PaneIds /\ panes[x.pane].state # "unused"
    BY <1>0, <1>5, AboutPanes
  <2>. QED BY <2>1
<1>6. Unshown'
  <2>1. ASSUME NEW i \in PaneIds, Attached(i)', Condemns(toMain'[panes'[i].win], panes'[i].pty) PROVE FALSE
    <3>1. panes'[i].win \in Windows
      <4>1. Mounted(i)'
        BY <2>1 DEF Attached, Mounted
      <4>. QED BY <4>1 DEF IInv, Addressed, Mounted
    <3>2. ASSUME i \in ids PROVE FALSE
      <4>1. panes'[i].state = "waiting"
        BY <3>2
      <4>2. PICK x \in Items(toWin'[panes'[i].win]) : x.op = "adopted" /\ x.pane = i
        BY <2>1, <4>1 DEF Attached, Answers
      <4>3. x \in Items(toWin[panes'[i].win])
        BY <3>1
      <4>. QED BY <1>5, <3>1, <3>2, <4>2, <4>3 DEF PaneOps
    <3>3. panes'[i] = panes[i]
      BY <3>2
    <3>4. Attached(i)
      BY <2>1, <3>1, <3>3 DEF Attached, Answers
    <3>. QED BY <1>0, <1>3, <2>1, <3>1, <3>3, <3>4 DEF Unshown
  <2>. QED BY <2>1 DEF Unshown
<1>7. Timely'
  <2>1. ASSUME NEW v \in Windows, NEW x \in Items(toMain[v]), NEW y, <<x, y>> \in Untimely'
        PROVE  <<x, y>> \in Untimely
    <3>1. x.op = "adopt" /\ panes'[x.pane] = panes[x.pane]
      BY <1>5, <2>1 DEF Untimely, PaneOps
    <3>. QED BY <2>1, <3>1 DEF Untimely
  <2>2. ASSUME NEW v \in Windows PROVE InOrder(toMain[v], Untimely')
    <3>1. InOrder(toMain[v], Untimely)
      BY <1>0 DEF Timely
    <3>2. ASSUME NEW j \in 1..Len(toMain[v]), NEW k \in 1..Len(toMain[v]), j < k
          PROVE  <<toMain[v][j], toMain[v][k]>> \notin Untimely'
      <4>1. toMain[v][j] \in Items(toMain[v])
        BY DEF Items
      <4>. QED BY <2>1, <3>1, <3>2, <4>1 DEF InOrder
    <3>. QED BY <3>2 DEF InOrder
  <2>3. \A x, y : y \in Items(m) => <<x, y>> \notin Untimely'
    BY DEF Untimely
  <2>4. InOrder(m, Untimely')
    <3>1. \A k \in 1..Len(m) : m[k] \in Items(m)
      BY DEF Items
    <3>. QED BY <2>3, <3>1 DEF InOrder
  <2>5. InOrder(toMain'[w], Untimely')
    BY <1>1, <2>2, <2>3, <2>4
  <2>. QED BY <1>1, <2>2, <2>5 DEF Timely
<1>. QED BY <1>2, <1>4, <1>6, <1>7 DEF Spared

LEMMA OpenSpared ==
    ASSUME IInv, IInv', Sessions, Spared, NEW w \in Windows, NEW t \in Terms, OpenTerminal(w, t)
    PROVE  Spared'
<1>0. TypeOK /\ Sole
  BY DEF IInv, Spared
<1>1. PICK i \in PaneIds : i = <<t, tab[w]>> /\ panes[i].state = "unused"
  BY <1>0 DEF OpenTerminal, TypeOK, PaneIds
<1> DEFINE r == [op |-> "create", pane |-> i]
<1>2. /\ panes' = [panes EXCEPT ![i] = [win |-> w, pty |-> None, state |-> "waiting"]]
      /\ toMain' = Sent(toMain, w, <<r>>) /\ UNCHANGED <<toWin, parked>>
  BY <1>1 DEF OpenTerminal, desktop
<1>3. r \in Request /\ r.op = "create"
  BY DEF Request
<1>. HIDE DEF r
<1>4. <<r>> \in Seq(Request) /\ Items(<<r>>) = {r}
  BY <1>3, ShortQueues, OneOp
<1>5. /\ panes'[i] = [win |-> w, pty |-> None, state |-> "waiting"]
      /\ \A j \in PaneIds \ {i} : panes'[j] = panes[j]
  BY <1>0, <1>2 DEF TypeOK
<1>6. Sole'
  <2>1. panes'[i].pty = None
    BY <1>5
  <2>. QED BY <1>0, <1>5, <2>1 DEF Sole, Mounted
<1>7. Ages
  BY OpenSession
<1>8. /\ {i} \in SUBSET PaneIds /\ \A x \in Items(<<r>>) : x.op \in {"create", "adopt"}
      /\ \A j \in {i} : panes[j].state = "unused" /\ panes'[j].state = "waiting"
  BY <1>1, <1>3, <1>4, <1>5
<1>. QED BY <1>2, <1>4, <1>5, <1>6, <1>7, <1>8, MountSpared

\* The tab arrives where nothing of it is mounted: its panes show what it carries.
LEMMA HearTabSpared ==
    ASSUME IInv, IInv', Sessions, Spared, NEW w \in Windows, HearTab(w)
    PROVE  Spared'
<1> DEFINE load == Head(toWin[w]).load
           copy == Head(toWin[w]).copy
           ids == {<<t, copy>> : t \in DOMAIN load}
           m == SetToSeq({[op |-> IF load[i[1]] = None THEN "create" ELSE "adopt", pane |-> i] : i \in ids})
<1>0. /\ TypeOK /\ OnePlace /\ Tidy /\ Fresh /\ Addressed /\ Sole /\ LoadsDistinct /\ WinOrdered /\ InTab
  BY DEF IInv, Spared, Sessions
<1>1. /\ UNCHANGED parked /\ toWin[w] # <<>> /\ Head(toWin[w]).op = "tab"
      /\ toWin' = Taken(toWin, w) /\ toMain' = Sent(toMain, w, m)
      /\ panes' = [i \in PaneIds |->
             IF i \in ids THEN [win |-> w, pty |-> load[i[1]], state |-> "waiting"] ELSE panes[i]]
  BY DEF HearTab, Hears, desktop
<1>2. load \in Loads /\ copy \in Copies
  BY <1>0, <1>1, Heads, Contents
<1>3. Gets(w)
  <2>1. Head(toWin[w]).op \in Ops(toWin[w])
    BY <1>0, <1>1, TailKeeps DEF TypeOK
  <2>. QED BY <1>1, <2>1 DEF Gets
<1>4. \A i \in ids : panes[i].state = "unused"
  <2>1. Unused(copy)
    <3>1. 1 \in 1..Len(toWin[w]) /\ Head(toWin[w]) = toWin[w][1]
      BY <1>0, <1>1, TailKeeps DEF TypeOK
    <3>2. \A k \in 1..Len(toWin[w]) : toWin[w][k].op = "tab" => toWin[w][k].copy = moves
      BY <1>0 DEF Fresh
    <3>3. toWin[w][1].copy = moves
      BY <1>1, <3>1, <3>2
    <3>4. Unused(moves)
      BY <1>0, <1>3 DEF Fresh
    <3>. QED BY <3>1, <3>3, <3>4
  <2>2. \A i \in ids : \E t \in Terms : i = <<t, copy>>
    BY <1>2 DEF Loads
  <2>. QED BY <2>1, <2>2 DEF Unused
<1>5. /\ ids \subseteq PaneIds /\ m \in Seq(Request) /\ Ops(m) \subseteq {"create", "adopt"}
  <2>. HIDE DEF load, copy
  <2>. QED BY <1>2, Mounts
<1>6. Distinct(load)
  <2>1. Head(toWin[w]) \in Items(toWin[w])
    BY <1>0, <1>1, WinTaken
  <2>2. Carried(load)
    BY <1>1, <2>1 DEF Carried
  <2>. HIDE DEF load
  <2>. QED BY <1>0, <1>2, <2>2 DEF LoadsDistinct
<1>7. \A i \in PaneIds : Mounted(i) => panes[i].win # w
  <2>1. "moved" \notin Ops(toWin[w])
    <3>1. /\ TabLast(toWin[w]) /\ toWin[w] \in Seq(Notice)
      BY <1>0 DEF Tidy, TypeOK
    <3>2. /\ Ops(Tail(toWin[w])) \cap {"tab", "moved"} = {}
          /\ Ops(toWin[w]) \subseteq Ops(Tail(toWin[w])) \cup {Head(toWin[w]).op}
      BY <1>1, <3>1, TailInOrder, TailKeeps
    <3>. QED BY <1>1, <3>2
  <2>2. tab[w] = None
    BY <1>0, <1>3, <2>1 DEF OnePlace, Holds
  <2>. QED BY <1>0, <2>2 DEF InTab
<1>8. /\ \A i \in ids : panes'[i].win = w /\ panes'[i].state = "waiting" /\ panes'[i].pty = load[i[1]]
      /\ \A i \in PaneIds \ ids : panes'[i] = panes[i]
  BY <1>1, <1>5
<1>9. /\ \A i \in ids : i[1] \in DOMAIN load
      /\ \A i, j \in ids : i[1] = j[1] => i = j
  OBVIOUS
<1>. HIDE DEF load, copy, ids, m
<1>10. Sole'
  <2>1. ASSUME NEW i \in PaneIds, NEW j \in PaneIds, Mounted(i)', Mounted(j)',
               panes'[i].win = panes'[j].win, panes'[i].pty = panes'[j].pty, panes'[i].pty # None
        PROVE  i = j
    <3>1. CASE i \in ids /\ j \in ids
      <4>1. load[i[1]] = load[j[1]] /\ load[i[1]] # None
        BY <1>8, <2>1, <3>1
      <4>2. i[1] = j[1]
        BY <1>6, <1>9, <3>1, <4>1 DEF Distinct
      <4>. QED BY <1>9, <3>1, <4>2
    <3>2. CASE i \notin ids /\ j \notin ids
      <4>1. panes'[i] = panes[i] /\ panes'[j] = panes[j]
        BY <1>8, <3>2
      <4>. QED BY <1>0, <2>1, <4>1 DEF Sole, Mounted
    <3>3. \A k \in PaneIds : k \in ids => panes'[k].win = w
      BY <1>8
    <3>4. \A k \in PaneIds : k \notin ids /\ Mounted(k)' => panes'[k].win # w
      BY <1>7, <1>8 DEF Mounted
    <3>. QED BY <2>1, <3>1, <3>2, <3>3, <3>4
  <2>. QED BY <2>1 DEF Sole
<1>11. Ages
  BY HearTabSession
<1>12. \A x \in Items(m) : x.op \in {"create", "adopt"}
  BY <1>5 DEF Items, Ops
<1>13. \A v \in Windows : Items(toWin'[v]) \subseteq Items(toWin[v])
  BY <1>0, <1>1, WinTaken
<1>14. ids \in SUBSET PaneIds /\ \A i \in ids : panes[i].state = "unused" /\ panes'[i].state = "waiting"
  BY <1>4, <1>5, <1>8
<1>. QED BY <1>1, <1>5, <1>8, <1>10, <1>11, <1>12, <1>13, <1>14, MountSpared

\* A pane that adopts a pty does not see it end by what its own window asked before.
LEMMA AdoptSpared ==
    ASSUME IInv, IInv', Sessions, Spared, NEW w \in Windows, Adopt(w)
    PROVE  Spared'
<1>0. /\ TypeOK /\ Addressed /\ Sole /\ LoadsDistinct /\ Blamed /\ Unshown /\ Timely /\ MainOrdered
  BY DEF IInv, Spared, Sessions
<1>1. PICK i \in PaneIds : i = Head(toMain[w]).pane
  <2>1. Head(toMain[w]).pane \in PaneIds
    BY <1>0, Heads, Contents DEF Adopt, Asks
  <2>. QED BY <2>1
<1>2. /\ toMain[w] # <<>> /\ toMain' = Taken(toMain, w) /\ Head(toMain[w]).op = "adopt"
      /\ UNCHANGED <<panes, parked>>
  BY DEF Adopt, Asks, desktop
<1>3. /\ Ages
      /\ \A v \in Windows : \A x \in Items(toWin'[v]) :
            x \in Items(toWin[v]) \/ x.op = "failed" \/ (x.op = "adopted" /\ x.pane = i)
  <2>1. \A v \in Windows : \A x \in Items(toWin'[v]) :
           x \in Items(toWin[v]) \/ x.op = "failed" \/ (x.op = "adopted" /\ x.pane = Head(toMain[w]).pane)
    BY AdoptSession
  <2>. QED BY <1>1, <2>1, AdoptSession
<1>4. /\ \A v \in Windows : Items(toMain'[v]) \subseteq Items(toMain[v])
      /\ Head(toMain[w]) \in Items(toMain[w])
      /\ \A x \in Items(toMain'[w]) : <<Head(toMain[w]), x>> \notin Untimely
  <2>1. InOrder(toMain[w], Untimely)
    BY <1>0 DEF Timely
  <2>. QED BY <1>0, <1>2, <2>1, MainTaken
<1>5. panes[i].win = w
  BY <1>0, <1>1, <1>2, <1>4, AboutPanes DEF PaneOps
<1>6. Sole'
  BY <1>0, <1>2 DEF Sole, Mounted
<1>7. LoadsDistinct'
  <2>1. \A v \in Windows : \A x \in Items(toWin'[v]) : x.op = "tab" => x \in Items(toWin[v])
    BY <1>3
  <2>2. \A load : Carried(load)' => Carried(load)
    BY <1>2, <1>4, <2>1, Untouched
  <2>. QED BY <1>0, <2>2, LoadsKeep
<1>8. \A v \in Windows : \A p : Condemns(toMain'[v], p) => Condemns(toMain[v], p)
  BY <1>4 DEF Condemns
<1>9. Blamed'
  <2>1. StayClosed
    BY <1>2 DEF StayClosed
  <2>. QED BY <1>0, <1>3, <1>8, <2>1, BlamedKeeps DEF Blamed
<1>10. Unshown'
  <2>1. ASSUME NEW j \in PaneIds, Attached(j)', Condemns(toMain'[panes[j].win], panes[j].pty) PROVE FALSE
    <3>1. panes[j].win \in Windows
      BY <1>0, <1>2, <2>1 DEF Attached, Addressed, Mounted
    <3>2. CASE Attached(j)
      BY <1>0, <1>8, <2>1, <3>1, <3>2 DEF Unshown
    <3>3. CASE j = i /\ panes[i].state = "waiting"
      <4>1. PICK x \in Items(toMain'[w]) : x.op = "kill" /\ x.pty = panes[i].pty
        BY <1>5, <2>1, <3>3 DEF Condemns
      <4>2. x \in Request /\ Head(toMain[w]) \in Request
        BY <1>0, <1>4, <4>1, InQueues
      <4>3. <<Head(toMain[w]), x>> \in Untimely
        BY <1>1, <1>2, <3>3, <4>1, <4>2 DEF Untimely
      <4>. QED BY <1>4, <4>1, <4>3
    <3>4. Attached(j) \/ (j = i /\ panes[i].state = "waiting")
      BY <1>2, <1>3, <2>1, <3>1 DEF Attached, Answers
    <3>. QED BY <3>2, <3>3, <3>4
  <2>. QED BY <1>2, <2>1 DEF Unshown
<1>11. Timely'
  <2>1. \A v \in Windows : InOrder(toMain'[v], Untimely)
    BY <1>0, <1>2, QueuesShrink
  <2>2. Untimely' = Untimely
    BY <1>2 DEF Untimely
  <2>. QED BY <2>1, <2>2 DEF Timely
<1>. QED BY <1>6, <1>7, <1>9, <1>10, <1>11 DEF Spared

LEMMA SparedStep ==
    ASSUME IInv, IInv', Sessions, Spared, [Next]_vars
    PROVE  Spared'
<1>1. ASSUME NEW w \in Windows, Renderer(w) PROVE Spared'
  BY <1>1, HearSpared, CloseSpared, HearAdoptedSpared, HearCreatedSpared, HearTabSpared DEF Renderer, Closes
<1>2. ASSUME NEW w \in Windows, Main(w) PROVE Spared'
  BY <1>2, MainSpared, AdoptSpared DEF Main
<1>3. ASSUME NEW w \in Windows, Boot(w) \/ User(w) PROVE Spared'
  BY <1>3, WindowSpared, CloseSpared, EndDragSpared, OpenSpared DEF User, Closes
<1>4. ASSUME NEW i \in PaneIds, CloseTerminal(i) \/ FinishCreate(i) \/ PtyExit(i) PROVE Spared'
  <2>1. CASE CloseTerminal(i)
    <3>1. panes[i].win \in Windows
      BY <2>1 DEF CloseTerminal, Mounted, IInv, Addressed
    <3>. QED BY <2>1, <3>1, CloseSpared DEF Closes
  <2>. QED BY <1>4, <2>1, ShellSpared
<1>5. CASE NewWindow
  BY <1>5, WindowSpared
<1>6. CASE UNCHANGED vars
  <2>1. UNCHANGED <<panes, tickets, creating, parked, toMain, toWin>>
    BY <1>6 DEF vars
  <2>2. Sole' /\ LoadsDistinct' /\ Unshown'
    BY <2>1 DEF Spared, Sole, Mounted, LoadsDistinct, Carried, Unshown, Attached
  <2>3. Blamed'
    BY <2>1 DEF Spared, Blamed, Unborn, Closed, Known
  <2>4. Timely'
    BY <2>1 DEF Spared, Timely, Untimely
  <2>. QED BY <2>2, <2>3, <2>4 DEF Spared
<1>. QED BY <1>1, <1>2, <1>3, <1>4, <1>5, <1>6 DEF Next

\* What a kill must spare.
SparesShell(p) ==
    /\ p \in tickets => \E i \in PaneIds : panes[i].pty = p /\ panes[i].state = "closed"
    /\ \A i \in PaneIds :
          ~(panes'[i].state = "up" /\ panes'[i].pty = p /\ panes'[i].win = owner[p])

\* Main kills what a renderer asks for, and what a renderer that is gone leaves.
LEMMA KillsSpare ==
    ASSUME IInv, Spared, [Next]_vars
    PROVE  \A p \in killed' \ killed : SparesShell(p)
<1>0. TypeOK /\ Addressed /\ Blamed /\ Unshown
  BY DEF IInv, Spared
<1>. SUFFICES ASSUME NEW p \in killed' \ killed PROVE SparesShell(p)
  OBVIOUS
<1>1. ASSUME NEW w \in Windows, Kill(w) PROVE SparesShell(p)
  <2>1. /\ toMain[w] # <<>> /\ Head(toMain[w]).op = "kill" /\ p = Head(toMain[w]).pty
        /\ p \in DOMAIN owner /\ owner[p] = w /\ panes' = panes
    BY <1>1 DEF Kill, Asks
  <2>2. p \in PaneIds
    BY <1>0, <2>1 DEF TypeOK
  <2>3. Condemns(toMain[w], p)
    <3>1. Head(toMain[w]) \in Items(toMain[w])
      BY <1>0, <2>1, QueueTail DEF TypeOK
    <3>. QED BY <2>1, <3>1 DEF Condemns
  <2>4. p \in tickets => Closed(w, p)
    BY <1>0, <2>2, <2>3 DEF Blamed
  <2>5. ASSUME NEW i \in PaneIds, panes[i].state = "up", panes[i].pty = p, panes[i].win = w PROVE FALSE
    BY <1>0, <2>3, <2>5 DEF Unshown, Attached
  <2>. QED BY <2>1, <2>4, <2>5 DEF SparesShell, Closed
<1>2. ASSUME NEW w \in Windows, Reload(w) \/ CloseWindow(w) PROVE SparesShell(p)
  <2>1. /\ panes' = [i \in PaneIds |-> IF panes[i].win = w /\ panes[i].state # "unused"
                                       THEN [win |-> w, pty |-> None, state |-> "lost"] ELSE panes[i]]
        /\ owner[p] = w /\ p \notin tickets
    BY <1>2 DEF Reload, CloseWindow, LoseRenderer, Reaped
  <2>2. ASSUME NEW i \in PaneIds, panes'[i].state = "up" PROVE panes'[i].win # w
    <3>1. CASE panes[i].win = w /\ panes[i].state # "unused"
      BY <2>1, <2>2, <3>1
    <3>2. CASE ~(panes[i].win = w /\ panes[i].state # "unused")
      BY <2>1, <2>2, <3>2
    <3>. QED BY <3>1, <3>2
  <2>. QED BY <2>1, <2>2 DEF SparesShell
<1>3. ASSUME NEW w \in Windows, Renderer(w) \/ Boot(w) PROVE FALSE
  BY <1>3 DEF Renderer, HearCreated, HearAdopted, HearFailed, HearExit, HearTab, LetGo, HearStays, Boot, ptyVars
<1>4. ASSUME NEW w \in Windows, BeginCreate(w) \/ Adopt(w) \/ Drop(w) PROVE FALSE
  BY <1>4 DEF BeginCreate, Adopt, Drop, ptyVars
<1>5. ASSUME NEW w \in Windows,
             \/ \E t \in Terms : OpenTerminal(w, t)
             \/ CloseTab(w) \/ \E canDetach \in BOOLEAN : EndDrag(w, canDetach)
      PROVE  FALSE
  BY <1>5 DEF OpenTerminal, CloseTab, ClosePanes, EndDrag, ptyVars
<1>6. ASSUME NEW i \in PaneIds, CloseTerminal(i) \/ FinishCreate(i) \/ PtyExit(i) PROVE FALSE
  BY <1>6 DEF CloseTerminal, ClosePanes, FinishCreate, PtyExit, ptyVars
<1>7. ~NewWindow /\ ~(UNCHANGED vars)
  BY DEF NewWindow, ptyVars, vars
<1>. QED BY <1>1, <1>2, <1>3, <1>4, <1>5, <1>6, <1>7 DEF Next, Main, User

-----------------------------------------------------------------------------
(* The theorems.                                                           *)

LEMMA InitInvariant == Init => IInv
<1> SUFFICES ASSUME Init PROVE IInv
  OBVIOUS
<1>0. /\ 1 \in Windows /\ 0 \in Copies /\ 0 # None /\ None \notin Windows /\ None \notin PaneIds
  BY BoundsAssumption, NoneAssumption DEF Windows, Copies
<1>1. TypeOK
  <2>1. [win |-> None, pty |-> None, state |-> "unused"] \in Pane
    BY DEF Pane, PaneStates
  <2>2. panes \in [PaneIds -> Pane] /\ toMain \in [Windows -> Seq(Request)] /\ toWin \in [Windows -> Seq(Notice)]
    BY <2>1 DEF Init
  <2>3. DOMAIN owner = {} /\ owner \in [DOMAIN owner -> Windows \cup {None}]
    BY DEF Init
  <2>. QED BY <1>0, <2>2, <2>3 DEF Init, TypeOK
<1>2. /\ \A w \in Windows : toMain[w] = <<>> /\ toWin[w] = <<>> /\ parked[w] = None
      /\ \A w \in Windows : tab[w] = IF w = 1 THEN 0 ELSE None
      /\ \A i \in PaneIds : panes[i].state = "unused"
      /\ booted = {1} /\ moves = 0 /\ creating = {}
  BY DEF Init
<1>3. Ops(<<>>) = {} /\ TabLast(<<>>) /\ OneEnd(<<>>)
  BY DEF Ops, TabLast, OneEnd
<1>4. /\ \A w \in Windows : ~Gets(w) /\ (Holds(w) <=> w = 1)
      /\ OnePlace
  BY <1>0, <1>2, <1>3 DEF Gets, Holds, OnePlace
<1>5. Tidy
  BY <1>2, <1>3 DEF Tidy
<1>6. Fresh
  <2>1. \A c \in Copies : c > 0 => Unused(c)
    BY <1>2, NoneIsNoCopy DEF Unused, PaneIds
  <2>. QED BY <1>2, <1>4, <2>1 DEF Fresh
<1>7. Addressed
  BY <1>2, <1>3, Unconcerned DEF Addressed, Mounted
<1>. QED BY <1>1, <1>4, <1>5, <1>6, <1>7 DEF IInv

LEMMA NextInvariant == IInv /\ [Next]_vars => IInv'
BY TypeStep, PlaceStep, FreshStep, AddressedStep DEF IInv

THEOREM Invariant == Spec => []IInv
BY InitInvariant, NextInvariant, PTL DEF Spec

\* Main's records and the renderers' keep their types, and with them every message
\* its shape: what a handler takes from the head of its queue is what it expects.
THEOREM TypeCorrect == Spec => []TypeOK
<1>1. IInv => TypeOK
  BY DEF IInv
<1>. QED BY <1>1, Invariant, PTL

LEMMA PlaceFollows == IInv => TabInOnePlace
<1> SUFFICES ASSUME IInv PROVE TabInOnePlace
  OBVIOUS
<1> DEFINE keeping == {w \in Windows : tab[w] # None /\ ~LetsGo(w)}
           receiving == {w \in Windows : parked[w] # None \/ Coming(w) # {}}
<1>1. \A w \in Windows : toWin[w] \in Seq(Notice) /\ DOMAIN toWin[w] = 1..Len(toWin[w])
  BY DEF IInv, TypeOK
<1>2. \A w \in Windows : /\ LetsGo(w) <=> "moved" \in Ops(toWin[w])
                         /\ Coming(w) # {} <=> "tab" \in Ops(toWin[w])
  BY <1>1 DEF LetsGo, Coming, Ops
<1>3. /\ \A w \in keeping : w \in Windows /\ Holds(w)
      /\ \A w \in receiving : w \in Windows /\ Gets(w)
  BY <1>2 DEF Holds, Gets
<1>. HIDE DEF keeping, receiving
<1>4. /\ \A v, w \in keeping : v = w
      /\ \A v, w \in receiving : v = w
      /\ ~(keeping # {} /\ receiving # {})
  BY <1>3 DEF IInv, OnePlace
<1>5. \A x : Cardinality({x}) = 1
  BY FS_Singleton
<1>6. Cardinality({}) = 0
  BY FS_EmptySet
<1>7. /\ keeping = {} \/ \E x : keeping = {x}
      /\ receiving = {} \/ \E x : receiving = {x}
  BY <1>4
<1>8. Cardinality(keeping) + Cardinality(receiving) <= 1
  <2>1. /\ Cardinality(keeping) \in {0, 1} /\ Cardinality(receiving) \in {0, 1}
        /\ keeping = {} => Cardinality(keeping) = 0
        /\ receiving = {} => Cardinality(receiving) = 0
    BY <1>5, <1>6, <1>7
  <2>. QED BY <1>4, <2>1
<1>9. ASSUME NEW w \in Windows PROVE Cardinality(Coming(w)) <= 1
  <2>1. \A j, k \in Coming(w) : j = k
    <3>1. ASSUME NEW j \in Coming(w), NEW k \in Coming(w) PROVE j = k
      <4>1. /\ j \in 1..Len(toWin[w]) /\ k \in 1..Len(toWin[w])
            /\ toWin[w][j].op = "tab" /\ toWin[w][k].op = "tab" /\ Len(toWin[w]) \in Nat
        BY <1>1, <3>1 DEF Coming
      <4>2. j <= k /\ k <= j
        BY <4>1 DEF IInv, Tidy, TabLast
      <4>. QED BY <4>1, <4>2
    <3>. QED BY <3>1
  <2>2. Coming(w) = {} \/ \E x : Coming(w) = {x}
    BY <2>1
  <2>3. Cardinality(Coming(w)) \in {0, 1}
    BY <1>5, <1>6, <2>2
  <2>. QED BY <2>3
<1>. QED BY <1>8, <1>9 DEF TabInOnePlace, keeping, receiving

\* Whatever the user drags, closes and reloads while main and the renderers answer
\* each other, no two windows keep the tab, counting one it is on its way to and
\* not one about to let it go; and no window is sent it twice.
THEOREM PlaceSafe == Spec => []TabInOnePlace
BY Invariant, PlaceFollows, PTL

LEMMA InitSessions == Init => Sessions
<1> SUFFICES ASSUME Init PROVE Sessions
  OBVIOUS
<1>1. /\ \A w \in Windows : toMain[w] = <<>> /\ toWin[w] = <<>> /\ parked[w] = None
      /\ \A i \in PaneIds : panes[i].state = "unused" /\ panes[i].pty = None
      /\ creating = {} /\ tickets = {}
  BY DEF Init
<1>2. Items(<<>>) = {} /\ Ops(<<>>) = {} /\ \A never : InOrder(<<>>, never)
  BY ShortQueues DEF Ops
<1>3. MainOrdered /\ WinOrdered /\ Adopters
  BY <1>1, <1>2 DEF MainOrdered, WinOrdered, Adopters
<1>4. InTab /\ Kept
  BY <1>1 DEF InTab, Mounted, Kept, Shows
<1>5. OneSpawn
  BY <1>1, <1>2 DEF OneSpawn, Spawning
<1>6. Born
  <2>1. \A p \in PaneIds : ~Known(p)
    BY <1>1, <1>2, NoneAssumption DEF Known, Mentions
  <2>. QED BY <1>1, <2>1 DEF Born
<1>. QED BY <1>3, <1>4, <1>5, <1>6 DEF Sessions

THEOREM SessionInvariant == Spec => [](IInv /\ Sessions)
<1>1. Init => IInv /\ Sessions
  BY InitInvariant, InitSessions
<1>2. IInv /\ Sessions /\ [Next]_vars => (IInv /\ Sessions)'
  BY NextInvariant, SessionStep
<1>. QED BY <1>1, <1>2, PTL DEF Spec

LEMMA SessionFollows == IInv /\ Sessions => PaneKeepsSession
<1> SUFFICES ASSUME IInv, Sessions, NEW i \in PaneIds,
                    panes[i].state = "up", panes[i].pty \in DOMAIN owner,
                    owner[panes[i].pty] # panes[i].win
             PROVE  LetsGo(panes[i].win)
  BY DEF PaneKeepsSession
<1>1. panes[i].win \in Windows
  BY DEF IInv, Addressed
<1>2. "moved" \in Ops(toWin[panes[i].win])
  BY DEF Sessions, Kept, Shows
<1>3. toWin[panes[i].win] \in Seq(Notice)
  BY <1>1 DEF IInv, TypeOK
<1>4. DOMAIN toWin[panes[i].win] = 1..Len(toWin[panes[i].win])
  BY <1>3
<1>. QED BY <1>2, <1>4 DEF LetsGo, Ops

\* A terminal that is up shows a session its own window owns, or one that has
\* exited, or its window has been told to let go of the tab: pty:adopt re-points no
\* session that another window's pane keeps typing into.
THEOREM SessionSafe == Spec => []PaneKeepsSession
BY SessionInvariant, SessionFollows, PTL

LEMMA InitSpared == Init => Spared
<1>. SUFFICES ASSUME Init PROVE Spared
  OBVIOUS
<1>1. /\ \A w \in Windows : Items(toMain[w]) = {} /\ Items(toWin[w]) = {} /\ parked[w] = None
      /\ \A i \in PaneIds : panes[i].state = "unused"
      /\ \A w \in Windows : InOrder(toMain[w], Untimely)
  BY ShortQueues DEF Init
<1>2. Sole /\ LoadsDistinct
  BY <1>1 DEF Sole, Mounted, LoadsDistinct, Carried
<1>3. Blamed /\ Unshown /\ Timely
  BY <1>1 DEF Blamed, Condemns, Unshown, Attached, Timely
<1>. QED BY <1>2, <1>3 DEF Spared

THEOREM SparedInvariant == Spec => [](IInv /\ Sessions /\ Spared)
<1>1. Init => IInv /\ Sessions /\ Spared
  BY InitInvariant, InitSessions, InitSpared
<1>2. IInv /\ Sessions /\ Spared /\ [Next]_vars => (IInv /\ Sessions /\ Spared)'
  BY NextInvariant, SessionStep, SparedStep
<1>. QED BY <1>1, <1>2, PTL DEF Spec

\* However drags, closes, exits and reloads interleave, a shell that is being moved is
\* killed only because the user closed a pane of it, and none under a pane that shows it.
THEOREM ShellsSafe == Spec => MoveSparesShells
<1>1. IInv /\ Sessions /\ Spared /\ [Next]_vars =>
        [\A p \in killed' \ killed :
            /\ p \in tickets => \E i \in PaneIds : panes[i].pty = p /\ panes[i].state = "closed"
            /\ \A i \in PaneIds :
                 ~(panes'[i].state = "up" /\ panes'[i].pty = p /\ panes'[i].win = owner[p])]_vars
  BY KillsSpare DEF SparesShell
<1>. QED BY <1>1, SparedInvariant, PTL DEF Spec, MoveSparesShells

-----------------------------------------------------------------------------
(* A pane that waits has something under way.                              *)

Waits(i, w) == panes[i].state = "waiting" /\ panes[i].win = w
Settled(i) == panes[i].state # "waiting"

Places == Nat \ {0}
RequestAt(q, i, k) == k \in 1..Len(q) /\ q[k].op \in {"create", "adopt"} /\ q[k].pane = i
ReplyAt(q, i, k) == k \in 1..Len(q) /\ q[k].op \in {"created", "adopted", "failed"} /\ q[k].pane = i

Asked(i, w, k) == Waits(i, w) /\ RequestAt(toMain[w], i, k)
Made(i, w) == Waits(i, w) /\ i \in creating
Replied(i, w, k) == Waits(i, w) /\ ReplyAt(toWin[w], i, k)
Answered(i, w) == \E k \in Places : Replied(i, w, k)

Awaited == \A i \in PaneIds, w \in Windows :
    Waits(i, w) => (\E k \in Places : Asked(i, w, k)) \/ Made(i, w) \/ Answered(i, w)

\* A queue that only grows, and one whose head was taken.
Grows(q, q2) == \A k \in 1..Len(q) : k \in 1..Len(q2) /\ q2[k] = q[k]
Advances(q, q2) == /\ q # <<>>
                   /\ \A k \in 1..Len(q) : k # 1 => k - 1 \in 1..Len(q2) /\ q2[k - 1] = q[k]

LEMMA SentGrows ==
    ASSUME NEW S, NEW queues \in [Windows -> Seq(S)], NEW v \in Windows, NEW m \in Seq(S)
    PROVE  /\ \A w \in Windows : Grows(queues[w], Sent(queues, v, m)[w])
           /\ \A k \in 1..Len(m) : Contains(Sent(queues, v, m)[v], m[k])
<1>1. /\ Sent(queues, v, m)[v] = queues[v] \o m
      /\ \A w \in Windows \ {v} : Sent(queues, v, m)[w] = queues[w]
  BY DEF Sent
<1>2. /\ Len(queues[v] \o m) = Len(queues[v]) + Len(m) /\ Len(queues[v]) \in Nat /\ Len(m) \in Nat
      /\ \A k \in 1..Len(queues[v]) + Len(m) :
            (queues[v] \o m)[k] = IF k <= Len(queues[v]) THEN queues[v][k] ELSE m[k - Len(queues[v])]
  OBVIOUS
<1>3. Grows(queues[v], queues[v] \o m)
  BY <1>2 DEF Grows
<1>4. \A w \in Windows : Grows(queues[w], queues[w])
  BY DEF Grows
<1>5. ASSUME NEW k \in 1..Len(m)
      PROVE  \E j \in 1..Len(queues[v] \o m) : (queues[v] \o m)[j] = m[k]
  <2>1. k + Len(queues[v]) \in 1..Len(queues[v] \o m)
        /\ (queues[v] \o m)[k + Len(queues[v])] = m[k]
    BY <1>2
  <2>. QED BY <2>1
<1>. QED BY <1>1, <1>3, <1>4, <1>5 DEF Contains

LEMMA ToldGrows ==
    ASSUME NEW S, NEW queues \in [Windows -> Seq(S)], NEW v \in Windows, NEW n \in S
    PROVE  /\ \A w \in Windows : Grows(queues[w], Told(queues, v, n)[w])
           /\ v \in booted => Contains(Told(queues, v, n)[v], n)
<1>1. <<n>> \in Seq(S) /\ 1 \in 1..Len(<<n>>) /\ <<n>>[1] = n
  OBVIOUS
<1>2. \A w \in Windows : Grows(queues[w], queues[w])
  BY DEF Grows
<1>3. /\ \A w \in Windows : Grows(queues[w], Sent(queues, v, <<n>>)[w])
      /\ \A k \in 1..Len(<<n>>) : Contains(Sent(queues, v, <<n>>)[v], <<n>>[k])
  <2>1. \A m \in Seq(S) :
           /\ \A w \in Windows : Grows(queues[w], Sent(queues, v, m)[w])
           /\ \A k \in 1..Len(m) : Contains(Sent(queues, v, m)[v], m[k])
    BY SentGrows
  <2>. QED BY <1>1, <2>1
<1>4. Contains(Sent(queues, v, <<n>>)[v], n)
  BY <1>1, <1>3
<1>. QED BY <1>2, <1>3, <1>4 DEF Told

LEMMA TakenAdvances ==
    ASSUME NEW S, NEW queues \in [Windows -> Seq(S)], NEW v \in Windows, queues[v] # <<>>
    PROVE  /\ Advances(queues[v], Taken(queues, v)[v])
           /\ \A w \in Windows : w # v => Taken(queues, v)[w] = queues[w]
           /\ Head(queues[v]) = queues[v][1] /\ 1 \in 1..Len(queues[v])
<1>1. /\ Taken(queues, v)[v] = Tail(queues[v])
      /\ \A w \in Windows \ {v} : Taken(queues, v)[w] = queues[w]
  BY DEF Taken
<1>2. /\ Len(queues[v]) \in Nat \ {0} /\ Len(Tail(queues[v])) = Len(queues[v]) - 1
      /\ Head(queues[v]) = queues[v][1]
      /\ \A k \in 1..Len(Tail(queues[v])) : Tail(queues[v])[k] = queues[v][k + 1]
  BY TailKeeps
<1>3. Advances(queues[v], Tail(queues[v]))
  BY <1>2 DEF Advances
<1>. QED BY <1>1, <1>2, <1>3

LEMMA GrowsOn ==
    /\ \A q : Grows(q, q)
    /\ \A p, q, r : Grows(p, q) /\ Grows(q, r) => Grows(p, r)
BY DEF Grows

\* What a step may do to a pane that waits on: its request stays, moves up or is
\* taken, and then the shell is being made or the reply is there; the same for the
\* shell being made; a reply stays or moves up, but is not taken.
AskStep(i, w) ==
    \/ Grows(toMain[w], toMain'[w])
    \/ /\ Advances(toMain[w], toMain'[w])
       /\ RequestAt(toMain[w], i, 1) => \/ i \in creating'
                                        \/ \E k \in 1..Len(toWin'[w]) : ReplyAt(toWin'[w], i, k)
MakeStep(i, w) ==
    i \in creating => i \in creating' \/ \E k \in 1..Len(toWin'[w]) : ReplyAt(toWin'[w], i, k)
ReplyStep(i, w) ==
    \/ Grows(toWin[w], toWin'[w])
    \/ Advances(toWin[w], toWin'[w]) /\ ~ReplyAt(toWin[w], i, 1)
WaitStep(i, w) == Waits(i, w)' /\ AskStep(i, w) /\ MakeStep(i, w) /\ ReplyStep(i, w)

LEMMA AllSent ==
    ASSUME NEW S, IsFiniteSet(S)
    PROVE  \A x \in S : \E k \in 1..Len(SetToSeq(S)) : SetToSeq(S)[k] = x
<1> DEFINE f == SetToSeq(S)  n == Cardinality(S)
<1>1. n \in Nat /\ ExistsBijection(1..n, S)
  BY FS_CardinalityType
<1>2. \E g \in [1..n -> S] : IsInjective(g)
  BY <1>1 DEF ExistsBijection, Bijection, Injection
<1>3. f \in [1..n -> S] /\ IsInjective(f)
  BY <1>2 DEF SetToSeq
<1>4. f \in Seq(S) /\ Len(f) = n
  BY <1>1, <1>3
<1>5. f \in Injection(1..n, S)
  BY <1>3 DEF Injection
<1>6. Cardinality(1..n) = n
  BY <1>1, FS_Interval
<1>. HIDE DEF f
<1>7. f \in Surjection(1..n, S)
  BY <1>5, <1>6, FS_Injection
<1>8. \A x \in S : \E k \in 1..n : f[k] = x
  BY <1>7 DEF Surjection
<1>. QED BY <1>4, <1>8 DEF f

\* A tab that arrives mounts panes that were in no use, and asks for each of them.
LEMMA TabMounts ==
    ASSUME TypeOK, Tidy, Fresh, NEW w \in Windows, HearTab(w)
    PROVE  /\ \A i \in PaneIds : \/ panes'[i] = panes[i]
                                 \/ /\ panes[i].state = "unused" /\ panes'[i].win = w
                                    /\ \E k \in 1..Len(toMain'[w]) : RequestAt(toMain'[w], i, k)
           /\ \E m \in Seq(Request) : toMain' = Sent(toMain, w, m)
<1> DEFINE load == Head(toWin[w]).load
           copy == Head(toWin[w]).copy
           ids == {<<t, copy>> : t \in DOMAIN load}
           msg(i) == [op |-> IF load[i[1]] = None THEN "create" ELSE "adopt", pane |-> i]
           set == {msg(i) : i \in ids}
           m == SetToSeq(set)
<1>1. /\ toWin[w] # <<>> /\ Head(toWin[w]).op = "tab" /\ toMain' = Sent(toMain, w, m)
      /\ panes' = [i \in PaneIds |->
             IF i \in ids THEN [win |-> w, pty |-> load[i[1]], state |-> "waiting"] ELSE panes[i]]
  BY DEF HearTab, Hears
<1>2. load \in Loads /\ copy \in Copies
  BY <1>1, Heads, Contents
<1>3. Unused(copy)
  <2>1. 1 \in 1..Len(toWin[w]) /\ Head(toWin[w]) = toWin[w][1]
    BY <1>1, TailKeeps DEF TypeOK
  <2>2. \A k \in 1..Len(toWin[w]) : toWin[w][k].op = "tab" => toWin[w][k].copy = moves
    BY DEF Fresh
  <2>3. Gets(w)
    BY <1>1, <2>1 DEF Gets, Ops
  <2>. QED BY <1>1, <2>1, <2>2, <2>3 DEF Fresh
<1>4. m \in Seq(Request)
  <2>. HIDE DEF load, copy
  <2>. QED BY <1>2, Mounts
<1>5. \A i \in ids : panes[i].state = "unused"
  <2>1. \A i \in ids : \E t \in Terms : i = <<t, copy>>
    BY <1>2 DEF Loads
  <2>. QED BY <1>3, <2>1 DEF Unused
<1>6. ids \subseteq PaneIds
  BY <1>2 DEF Loads, PaneIds
<1>7. \A x \in set : \E k \in 1..Len(m) : m[k] = x
  <2>1. IsFiniteSet(ids)
    BY <1>6, PanesAreFinite, FS_Subset
  <2> DEFINE f == [i \in ids |-> msg(i)]
  <2>2. f \in Surjection(ids, set)
    BY DEF Surjection
  <2>3. IsFiniteSet(set)
    BY <2>1, <2>2, FS_Surjection
  <2>. HIDE DEF set
  <2>. QED BY <2>3, AllSent
<1>8. \A i \in ids : msg(i) \in set /\ msg(i).op \in {"create", "adopt"} /\ msg(i).pane = i
  OBVIOUS
<1>. HIDE DEF load, copy, ids, msg, set, m
<1>9. ASSUME NEW i \in ids PROVE \E k \in 1..Len(toMain'[w]) : RequestAt(toMain'[w], i, k)
  <2>1. PICK k \in 1..Len(m) : m[k] = msg(i)
    BY <1>7, <1>8
  <2>2. Contains(toMain'[w], m[k])
    <3>1. \A m2 \in Seq(Request) : \A k2 \in 1..Len(m2) : Contains(Sent(toMain, w, m2)[w], m2[k2])
      <4>1. toMain \in [Windows -> Seq(Request)]
        BY DEF TypeOK
      <4>. QED BY <4>1, SentGrows
    <3>. QED BY <1>1, <1>4, <3>1
  <2>3. PICK j \in 1..Len(toMain'[w]) : toMain'[w][j] = msg(i)
    BY <2>1, <2>2 DEF Contains
  <2>. QED BY <1>8, <2>3 DEF RequestAt
<1>10. \A i \in PaneIds : i \notin ids => panes'[i] = panes[i]
  BY <1>1
<1>11. \A i \in ids : panes'[i].win = w
  BY <1>1, <1>6
<1>. QED BY <1>1, <1>4, <1>5, <1>9, <1>10, <1>11

\* A drop tells the source, and the window that gets the tab.
LEMMA DropGrows ==
    ASSUME TypeOK, NEW v \in Windows, Drop(v), NEW w \in Windows
    PROVE  Grows(toWin[w], toWin'[w])
<1> DEFINE load == Head(toMain[v]).load
           msg == [op |-> "tab", load |-> load, copy |-> moves + 1]
<1>0. /\ toWin \in [Windows -> Seq(Notice)] /\ wins \subseteq Windows /\ moves \in Nat /\ MaxMoves \in Nat
  BY BoundsAssumption DEF TypeOK, Copies, Windows
<1>1. toMain[v] # <<>> /\ Head(toMain[v]).op = "end"
  BY DEF Drop, Asks
<1>2. PICK to \in DropTargets(v, Head(toMain[v]).canDetach) :
         \/ toWin' = Told(toWin, v, AnswerTo(to))
         \/ /\ to \in wins /\ moves < MaxMoves
            /\ toWin' = Told(Told(toWin, v, AnswerTo(to)), to, msg)
  BY DEF Drop
<1>3. AnswerTo(to) \in Notice
  BY NoticeKinds
<1> DEFINE qs == Told(toWin, v, AnswerTo(to))
<1>4. qs \in [Windows -> Seq(Notice)] /\ Grows(toWin[w], qs[w])
  <2>1. \A n \in Notice : /\ Told(toWin, v, n) \in [Windows -> Seq(Notice)]
                           /\ Grows(toWin[w], Told(toWin, v, n)[w])
    BY <1>0, Channels, ToldGrows
  <2>. QED BY <1>3, <2>1
<1>5. CASE to \in wins /\ moves < MaxMoves /\ toWin' = Told(qs, to, msg)
  <2>1. msg \in Notice
    <3>1. load \in Loads
      BY <1>1, Heads, Contents
    <3>2. moves + 1 \in Copies
      BY <1>0, <1>5 DEF Copies
    <3>. QED BY <3>1, <3>2 DEF TabMessage, Notice
  <2>2. to \in Windows
    BY <1>0, <1>5
  <2>. HIDE DEF qs, msg
  <2>3. \A n \in Notice : Grows(qs[w], Told(qs, to, n)[w])
    BY <1>4, <2>2, ToldGrows
  <2>. QED BY <1>4, <1>5, <2>1, <2>3, GrowsOn
<1>. QED BY <1>2, <1>4, <1>5

LEMMA HearWaits ==
    ASSUME TypeOK, Addressed, Tidy, Fresh, NEW v \in Windows, Renderer(v),
           NEW i \in PaneIds, NEW w \in Windows, Waits(i, w), ~Settled(i)'
    PROVE  WaitStep(i, w)
<1>0. toMain \in [Windows -> Seq(Request)] /\ toWin \in [Windows -> Seq(Notice)]
  BY DEF TypeOK
<1>1. toWin[v] # <<>> /\ toWin' = Taken(toWin, v) /\ creating' = creating
  BY DEF Renderer, HearCreated, HearAdopted, HearFailed, HearExit, HearTab, LetGo, HearStays, Hears
<1>2. /\ Advances(toWin[v], toWin'[v]) /\ (w # v => toWin'[w] = toWin[w])
      /\ Head(toWin[v]) = toWin[v][1]
  BY <1>0, <1>1, TakenAdvances
<1>3. panes'[i].win = w
  <2>1. CASE HearTab(v)
    <3>1. panes'[i] = panes[i]
      BY <2>1, TabMounts DEF Waits
    <3>. QED BY <3>1 DEF Waits
  <2>2. CASE ~HearTab(v)
    <3>1. Settles
      BY <2>2, HearSettles DEF Renderer
    <3>. QED BY <3>1 DEF Settles, Waits
  <2>. QED BY <2>1, <2>2
<1>4. Grows(toMain[w], toMain'[w])
  <2>1. \A m \in Seq(Request) : Grows(toMain[w], Sent(toMain, v, m)[w])
    BY <1>0, SentGrows
  <2>2. CASE HearTab(v)
    BY <2>1, <2>2, TabMounts
  <2>3. CASE HearCreated(v)
    <3>1. PICK j \in PaneIds :
             toMain' = IF panes[j].state \in {"closed", "left"}
                       THEN Sent(toMain, v, <<[op |-> "kill", pty |-> j]>>) ELSE toMain
      BY <2>3, Heads, Contents DEF HearCreated, Hears
    <3>2. [op |-> "kill", pty |-> j] \in Request
      BY DEF Request
    <3>3. <<[op |-> "kill", pty |-> j]>> \in Seq(Request)
      BY <3>2
    <3>. QED BY <2>1, <3>1, <3>3, GrowsOn
  <2>4. CASE HearFailed(v)
    <3>1. PICK ids \in SUBSET PaneIds : toMain' = Sent(toMain, v, KillRequests(ids))
      BY <2>4, FailedCloses
    <3>2. KillRequests(ids) \in Seq(Request)
      BY Kills
    <3>. QED BY <2>1, <3>1, <3>2
  <2>5. CASE UNCHANGED toMain
    BY <2>5, GrowsOn
  <2>. QED BY <2>2, <2>3, <2>4, <2>5 DEF Renderer, HearAdopted, HearExit, LetGo, HearStays
<1>5. ASSUME v = w, ReplyAt(toWin[w], i, 1) PROVE FALSE
  <2>1. Head(toWin[w]).op \in {"created", "adopted", "failed"} /\ Head(toWin[w]).pane = i
    BY <1>2, <1>5 DEF ReplyAt
  <2>2. HearCreated(w) \/ HearAdopted(w) \/ HearFailed(w)
    BY <1>5, <2>1 DEF Renderer, HearExit, HearTab, LetGo, HearStays, Hears
  <2>3. panes'[i].state \in {"up", "closed"}
    <3>1. panes[i].state = "waiting" /\ panes[i] \in Pane /\ i \in ShownFor(w, i[1])
      BY DEF Waits, TypeOK, ShownFor, MountedIn, Mounted
    <3>2. CASE HearFailed(w)
      BY <2>1, <3>1, <3>2 DEF HearFailed, Pane
    <3>. QED BY <2>1, <2>2, <3>1, <3>2 DEF HearCreated, HearAdopted, TypeOK, Pane
  <2>. QED BY <2>3 DEF Settled
<1>6. ReplyStep(i, w)
  BY <1>2, <1>5, GrowsOn DEF ReplyStep
<1>. QED BY <1>1, <1>3, <1>4, <1>6 DEF WaitStep, Waits, Settled, AskStep, MakeStep

LEMMA MainWaits ==
    ASSUME TypeOK, Addressed, NEW v \in Windows, Main(v),
           NEW i \in PaneIds, NEW w \in Windows, Waits(i, w)
    PROVE  WaitStep(i, w)
<1>0. toMain \in [Windows -> Seq(Request)] /\ toWin \in [Windows -> Seq(Notice)]
  BY DEF TypeOK
<1>1. /\ toMain[v] # <<>> /\ toMain' = Taken(toMain, v) /\ panes' = panes
      /\ creating \subseteq creating'
  BY DEF Main, BeginCreate, Adopt, Kill, Drop, Asks
<1>2. /\ Advances(toMain[v], toMain'[v]) /\ (w # v => toMain'[w] = toMain[w])
      /\ Head(toMain[v]) = toMain[v][1]
  BY <1>0, <1>1, TakenAdvances
<1>3. ASSUME Adopt(v)
      PROVE  /\ Grows(toWin[w], toWin'[w])
             /\ v = w /\ Head(toMain[v]).pane = i => \E k \in 1..Len(toWin'[w]) : ReplyAt(toWin'[w], i, k)
  <2> DEFINE j == Head(toMain[v]).pane
  <2>1. PICK op \in {"adopted", "failed"} : toWin' = Told(toWin, v, [op |-> op, pane |-> j])
    BY <1>3 DEF Adopt
  <2>2. j \in PaneIds
    BY <1>1, <1>3, Heads, Contents DEF Adopt, Asks
  <2>. HIDE DEF j
  <2>3. [op |-> op, pane |-> j] \in Notice
    BY <2>2, NoticeKinds
  <2>4. /\ Grows(toWin[w], toWin'[w])
        /\ v \in booted => Contains(toWin'[v], [op |-> op, pane |-> j])
    <3>1. \A n \in Notice : Grows(toWin[w], Told(toWin, v, n)[w])
      BY <1>0, ToldGrows
    <3>2. v \in booted => \A n \in Notice : Contains(Told(toWin, v, n)[v], n)
      BY <1>0, ToldGrows
    <3>. QED BY <2>1, <2>3, <3>1, <3>2
  <2>5. w \in booted
    BY DEF Addressed, Mounted, Waits
  <2>6. ASSUME v = w, j = i PROVE \E k \in 1..Len(toWin'[w]) : ReplyAt(toWin'[w], i, k)
    <3>1. PICK k \in 1..Len(toWin'[w]) : toWin'[w][k] = [op |-> op, pane |-> i]
      BY <2>4, <2>5, <2>6 DEF Contains
    <3>. QED BY <3>1 DEF ReplyAt
  <2>. QED BY <2>4, <2>6 DEF j
<1>4. Grows(toWin[w], toWin'[w])
  <2>1. CASE Drop(v)
    BY <1>0, <2>1, DropGrows
  <2>2. CASE UNCHANGED toWin
    BY <2>2, GrowsOn
  <2>. QED BY <1>3, <2>1, <2>2 DEF Main, BeginCreate, Kill
<1>5. ASSUME v = w, RequestAt(toMain[w], i, 1)
      PROVE  i \in creating' \/ \E k \in 1..Len(toWin'[w]) : ReplyAt(toWin'[w], i, k)
  <2>1. Head(toMain[w]).op \in {"create", "adopt"} /\ Head(toMain[w]).pane = i
    BY <1>2, <1>5 DEF RequestAt
  <2>2. BeginCreate(w) \/ Adopt(w)
    BY <1>5, <2>1 DEF Main, Kill, Drop, Asks
  <2>. QED BY <1>3, <1>5, <2>1, <2>2 DEF BeginCreate
<1>6. AskStep(i, w)
  BY <1>2, <1>5, GrowsOn DEF AskStep
<1>. QED BY <1>1, <1>4, <1>6 DEF WaitStep, Waits, MakeStep, ReplyStep

\* A step that only sends changes nothing for a pane whose state it leaves.
LEMMA SendingWaits ==
    ASSUME NEW i, NEW w, Waits(i, w)', Grows(toMain[w], toMain'[w]), Grows(toWin[w], toWin'[w]),
           creating' = creating
    PROVE  WaitStep(i, w)
BY DEF WaitStep, AskStep, MakeStep, ReplyStep

LEMMA UserWaits ==
    ASSUME TypeOK, Addressed, NEW v \in Windows,
           \/ \E t \in Terms : OpenTerminal(v, t)
           \/ CloseTab(v)
           \/ \E canDetach \in BOOLEAN : EndDrag(v, canDetach)
           \/ \E j \in PaneIds : CloseTerminal(j) /\ panes[j].win = v,
           NEW i \in PaneIds, NEW w \in Windows, Waits(i, w), ~Settled(i)'
    PROVE  WaitStep(i, w)
<1>1. creating' = creating /\ toWin' = toWin
  BY DEF OpenTerminal, CloseTab, CloseTerminal, ClosePanes, EndDrag
<1>2. \E m \in Seq(Request) : toMain' = Sent(toMain, v, m)
  <2>1. \A ids \in SUBSET PaneIds : KillRequests(ids) \in Seq(Request)
    BY Kills
  <2>2. CASE CloseTab(v)
    <3>1. MountedIn(v) \in SUBSET PaneIds
      BY DEF MountedIn
    <3>. QED BY <2>1, <2>2, <3>1 DEF CloseTab, ClosePanes
  <2>3. ASSUME NEW j \in PaneIds, CloseTerminal(j), panes[j].win = v
        PROVE  \E m \in Seq(Request) : toMain' = Sent(toMain, v, m)
    <3>1. {j} \in SUBSET PaneIds
      OBVIOUS
    <3>. QED BY <2>1, <2>3, <3>1 DEF CloseTerminal, ClosePanes
  <2>4. ASSUME NEW canDetach \in BOOLEAN, EndDrag(v, canDetach)
        PROVE  \E m \in Seq(Request) : toMain' = Sent(toMain, v, m)
    <3> DEFINE r == [op |-> "end", load |-> LoadOf(v), canDetach |-> canDetach]
    <3>1. r \in Request
      BY LoadTypes DEF Request
    <3>2. <<r>> \in Seq(Request)
      BY <3>1
    <3>. QED BY <2>4, <3>2 DEF EndDrag
  <2>5. ASSUME NEW t \in Terms, OpenTerminal(v, t)
        PROVE  \E m \in Seq(Request) : toMain' = Sent(toMain, v, m)
    <3> DEFINE r == [op |-> "create", pane |-> <<t, tab[v]>>]
    <3>1. r \in Request
      BY <2>5 DEF Request, OpenTerminal, TypeOK, PaneIds
    <3>2. <<r>> \in Seq(Request)
      BY <3>1
    <3>. QED BY <2>5, <3>2 DEF OpenTerminal
  <2>. QED BY <2>2, <2>3, <2>4, <2>5
<1>3. Grows(toMain[w], toMain'[w])
  <2>1. toMain \in [Windows -> Seq(Request)]
    BY DEF TypeOK
  <2>2. \A m \in Seq(Request) : Grows(toMain[w], Sent(toMain, v, m)[w])
    BY <2>1, SentGrows
  <2>. QED BY <1>2, <2>2
<1>4. panes'[i].win = w
  <2>1. ASSUME NEW t \in Terms, OpenTerminal(v, t) PROVE panes'[i].win = w
    BY <2>1 DEF OpenTerminal, TypeOK, Waits
  <2>2. CASE \E canDetach \in BOOLEAN : EndDrag(v, canDetach)
    BY <2>2 DEF EndDrag, Waits
  <2>3. CASE CloseTab(v) \/ \E j \in PaneIds : CloseTerminal(j)
    <3>1. Settles
      BY <2>3, CloseSettles
    <3>. QED BY <3>1 DEF Settles, Waits
  <2>. QED BY <2>1, <2>2, <2>3
<1>5. Waits(i, w)'
  BY <1>4 DEF Waits, Settled
<1>. QED BY <1>1, <1>3, <1>5, GrowsOn, SendingWaits

LEMMA ShellWaits ==
    ASSUME TypeOK, Addressed, NEW j \in PaneIds, FinishCreate(j) \/ PtyExit(j),
           NEW i \in PaneIds, NEW w \in Windows, Waits(i, w)
    PROVE  WaitStep(i, w)
<1>0. toWin \in [Windows -> Seq(Notice)]
  BY DEF TypeOK
<1>1. toMain' = toMain /\ panes' = panes
  BY DEF FinishCreate, PtyExit
<1>2. CASE PtyExit(j)
  <2>1. creating' = creating
    BY <1>2 DEF PtyExit
  <2>2. Grows(toWin[w], toWin'[w])
    <3>1. CASE toWin' = toWin
      BY <3>1, GrowsOn
    <3>2. CASE owner[j] # None /\ toWin' = Told(toWin, owner[j], [op |-> "exit", pty |-> j])
      <4>1. owner[j] \in Windows
        BY <1>2, <3>2 DEF PtyExit, TypeOK
      <4>2. [op |-> "exit", pty |-> j] \in Notice
        BY NoticeKinds
      <4>3. \A n \in Notice : Grows(toWin[w], Told(toWin, owner[j], n)[w])
        BY <1>0, <4>1, ToldGrows
      <4>. QED BY <3>2, <4>2, <4>3
    <3>. QED BY <1>2, <3>1, <3>2 DEF PtyExit
  <2>. QED BY <1>1, <2>1, <2>2, GrowsOn, SendingWaits DEF Waits
<1>3. CASE FinishCreate(j)
  <2>1. panes[j].win \in Windows
    BY <1>3 DEF FinishCreate, Addressed
  <2>2. PICK op \in {"created", "failed"} :
           toWin' = IF panes[j].state = "lost" THEN toWin
                    ELSE Told(toWin, panes[j].win, [op |-> op, pane |-> j])
    BY <1>3 DEF FinishCreate
  <2>3. [op |-> op, pane |-> j] \in Notice
    BY NoticeKinds
  <2>4. /\ \A n \in Notice : Grows(toWin[w], Told(toWin, panes[j].win, n)[w])
        /\ \A n \in Notice : w \in booted => Contains(Told(toWin, w, n)[w], n)
    BY <1>0, <2>1, ToldGrows
  <2>5. Grows(toWin[w], toWin'[w])
    BY <2>2, <2>3, <2>4, GrowsOn
  <2>6. i = j => Contains(toWin'[w], [op |-> op, pane |-> i])
    <3>1. w \in booted /\ panes[i].win = w /\ panes[i].state # "lost"
      BY DEF Addressed, Mounted, Waits
    <3>. QED BY <2>2, <2>3, <2>4, <3>1
  <2>7. i = j => \E k \in 1..Len(toWin'[w]) : ReplyAt(toWin'[w], i, k)
    <3>1. ASSUME NEW k \in 1..Len(toWin'[w]), toWin'[w][k] = [op |-> op, pane |-> i]
          PROVE  ReplyAt(toWin'[w], i, k)
      BY <3>1 DEF ReplyAt
    <3>. QED BY <2>6, <3>1 DEF Contains
  <2>8. creating' = creating \ {j}
    BY <1>3 DEF FinishCreate
  <2>. QED BY <1>1, <2>5, <2>7, <2>8, GrowsOn DEF WaitStep, AskStep, MakeStep, ReplyStep, Waits
<1>. QED BY <1>2, <1>3

LEMMA WindowWaits ==
    ASSUME TypeOK, NewWindow \/ \E v \in Windows : Boot(v) \/ Reload(v) \/ CloseWindow(v),
           NEW i \in PaneIds, NEW w \in Windows, Waits(i, w), ~Settled(i)'
    PROVE  WaitStep(i, w)
<1>1. CASE NewWindow
  BY <1>1, GrowsOn, SendingWaits DEF NewWindow, Waits
<1>2. ASSUME NEW v \in Windows, Boot(v) PROVE WaitStep(i, w)
  <2>1. /\ UNCHANGED <<panes, toMain, creating>>
        /\ toWin' = IF parked[v] = None THEN toWin ELSE Sent(toWin, v, <<parked[v]>>)
    BY <1>2 DEF Boot
  <2>2. Grows(toWin[w], toWin'[w])
    <3>1. CASE parked[v] = None
      BY <2>1, <3>1, GrowsOn
    <3>2. CASE parked[v] # None
      <4>1. parked[v] \in Notice
        BY <3>2, Contents DEF TypeOK
      <4>2. <<parked[v]>> \in Seq(Notice) /\ toWin \in [Windows -> Seq(Notice)]
        BY <4>1 DEF TypeOK
      <4>3. \A m \in Seq(Notice) : Grows(toWin[w], Sent(toWin, v, m)[w])
        BY <4>2, SentGrows
      <4>. QED BY <2>1, <3>2, <4>2, <4>3
    <3>. QED BY <3>1, <3>2
  <2>. QED BY <2>1, <2>2, GrowsOn, SendingWaits DEF Waits
<1>3. ASSUME NEW v \in Windows, LoseRenderer(v) PROVE WaitStep(i, w)
  <2>1. /\ creating' = creating
        /\ panes' = [j \in PaneIds |-> IF panes[j].win = v /\ panes[j].state # "unused"
                                       THEN [win |-> v, pty |-> None, state |-> "lost"] ELSE panes[j]]
        /\ toMain' = [toMain EXCEPT ![v] = <<>>] /\ toWin' = [toWin EXCEPT ![v] = <<>>]
    BY <1>3 DEF LoseRenderer
  <2>2. v # w /\ panes'[i] = panes[i]
    BY <2>1 DEF Waits, Settled
  <2>3. toMain'[w] = toMain[w] /\ toWin'[w] = toWin[w]
    BY <2>1, <2>2 DEF TypeOK
  <2>. QED BY <2>1, <2>2, <2>3, GrowsOn, SendingWaits DEF Waits
<1>. QED BY <1>1, <1>2, <1>3 DEF Reload, CloseWindow

LEMMA WaitsOn ==
    ASSUME IInv, [Next]_vars, NEW i \in PaneIds, NEW w \in Windows, Waits(i, w), ~Settled(i)'
    PROVE  WaitStep(i, w)
<1>0. TypeOK /\ Tidy /\ Fresh /\ Addressed
  BY DEF IInv
<1>1. ASSUME NEW v \in Windows, Renderer(v) \/ Main(v) PROVE WaitStep(i, w)
  BY <1>0, <1>1, HearWaits, MainWaits
<1>2. ASSUME NEW v \in Windows, Boot(v) \/ User(v) PROVE WaitStep(i, w)
  BY <1>0, <1>2, UserWaits, WindowWaits DEF User
<1>3. ASSUME NEW j \in PaneIds, CloseTerminal(j) \/ FinishCreate(j) \/ PtyExit(j) PROVE WaitStep(i, w)
  <2>1. CASE CloseTerminal(j)
    <3>1. panes[j].win \in Windows
      BY <1>0, <2>1 DEF CloseTerminal, Mounted, Addressed
    <3>. QED BY <1>0, <2>1, <3>1, UserWaits
  <2>. QED BY <1>0, <1>3, <2>1, ShellWaits
<1>4. CASE NewWindow
  BY <1>0, <1>4, WindowWaits
<1>5. CASE UNCHANGED vars
  BY <1>5, GrowsOn, SendingWaits DEF vars, Waits
<1>. QED BY <1>1, <1>2, <1>3, <1>4, <1>5 DEF Next

\* What a pane that is asked for comes to next.
Later(i, w) == Made(i, w) \/ Answered(i, w) \/ Settled(i)

LEMMA Stages ==
    ASSUME IInv, [Next]_vars, NEW i \in PaneIds, NEW w \in Windows
    PROVE  /\ \A k \in Places :
                 /\ Asked(i, w, k + 1) => Asked(i, w, k + 1)' \/ Asked(i, w, k)' \/ Later(i, w)'
                 /\ Replied(i, w, k + 1) => Replied(i, w, k + 1)' \/ Replied(i, w, k)' \/ Settled(i)'
           /\ Asked(i, w, 1) => Asked(i, w, 1)' \/ Later(i, w)'
           /\ Made(i, w) => Made(i, w)' \/ Answered(i, w)' \/ Settled(i)'
           /\ Replied(i, w, 1) => Replied(i, w, 1)' \/ Settled(i)'
<1>. SUFFICES ASSUME Waits(i, w), ~Settled(i)' PROVE
           /\ \A k \in Places :
                 /\ Asked(i, w, k + 1) => Asked(i, w, k + 1)' \/ Asked(i, w, k)' \/ Later(i, w)'
                 /\ Replied(i, w, k + 1) => Replied(i, w, k + 1)' \/ Replied(i, w, k)'
           /\ Asked(i, w, 1) => Asked(i, w, 1)' \/ Later(i, w)'
           /\ Made(i, w) => Made(i, w)' \/ Answered(i, w)'
           /\ Replied(i, w, 1) => Replied(i, w, 1)'
  BY DEF Later, Asked, Made, Replied
<1>1. WaitStep(i, w)
  BY WaitsOn
<1>2. (\E k \in 1..Len(toWin'[w]) : ReplyAt(toWin'[w], i, k)) => Answered(i, w)'
  <2>1. ASSUME NEW k \in 1..Len(toWin'[w]), ReplyAt(toWin'[w], i, k) PROVE Answered(i, w)'
    <3>1. k \in Places
      BY DEF Places
    <3>2. Replied(i, w, k)'
      BY <1>1, <2>1 DEF Replied, WaitStep
    <3>. QED BY <3>1, <3>2 DEF Answered
  <2>. QED BY <2>1
<1>3. Made(i, w) => Made(i, w)' \/ Answered(i, w)'
  BY <1>1, <1>2 DEF WaitStep, MakeStep, Made
<1>4. ASSUME NEW k \in Places, NEW q, NEW q2, Grows(q, q2)
      PROVE  (RequestAt(q, i, k) => RequestAt(q2, i, k)) /\ (ReplyAt(q, i, k) => ReplyAt(q2, i, k))
  BY <1>4 DEF Grows, RequestAt, ReplyAt
<1>5. ASSUME NEW k \in Places, NEW q, NEW q2, Advances(q, q2)
      PROVE  /\ RequestAt(q, i, k + 1) => RequestAt(q2, i, k)
             /\ ReplyAt(q, i, k + 1) => ReplyAt(q2, i, k)
  <2>1. k + 1 # 1 /\ (k + 1) - 1 = k
    BY DEF Places
  <2>2. k + 1 \in 1..Len(q) => k \in 1..Len(q2) /\ q2[k] = q[k + 1]
    BY <1>5, <2>1 DEF Advances
  <2>. QED BY <2>2 DEF RequestAt, ReplyAt
<1>6. 1 \in Places /\ \A k \in Places : k + 1 \in Places
  BY DEF Places
<1>7. ASSUME NEW k \in Places
      PROVE  /\ Asked(i, w, k + 1) => Asked(i, w, k + 1)' \/ Asked(i, w, k)' \/ Later(i, w)'
             /\ Replied(i, w, k + 1) => Replied(i, w, k + 1)' \/ Replied(i, w, k)'
  <2>1. /\ Grows(toMain[w], toMain'[w]) \/ Advances(toMain[w], toMain'[w])
        /\ Grows(toWin[w], toWin'[w]) \/ Advances(toWin[w], toWin'[w])
    BY <1>1 DEF WaitStep, AskStep, ReplyStep
  <2>. QED BY <1>1, <1>4, <1>5, <1>6, <2>1 DEF Asked, Replied, WaitStep
<1>8. Asked(i, w, 1) => Asked(i, w, 1)' \/ Later(i, w)'
  <2>1. CASE Grows(toMain[w], toMain'[w])
    BY <1>1, <1>4, <1>6, <2>1 DEF Asked, WaitStep
  <2>2. CASE RequestAt(toMain[w], i, 1) => \/ i \in creating'
                                          \/ \E k \in 1..Len(toWin'[w]) : ReplyAt(toWin'[w], i, k)
    BY <1>1, <1>2, <2>2 DEF Asked, Later, Made, WaitStep
  <2>. QED BY <1>1, <2>1, <2>2 DEF WaitStep, AskStep
<1>9. Replied(i, w, 1) => Replied(i, w, 1)'
  <2>1. CASE Grows(toWin[w], toWin'[w])
    BY <1>1, <1>4, <1>6, <2>1 DEF Replied, WaitStep
  <2>. QED BY <1>1, <2>1 DEF WaitStep, ReplyStep, Replied
<1>. QED BY <1>3, <1>7, <1>8, <1>9

\* What the steps of the loops do to it.
LEMMA Takes ==
    ASSUME IInv, [Next]_vars, NEW i \in PaneIds, NEW w \in Windows
    PROVE  /\ Main(w) => /\ \A k \in Places : Asked(i, w, k + 1) => Asked(i, w, k)' \/ Later(i, w)'
                         /\ Asked(i, w, 1) => Later(i, w)'
           /\ FinishCreate(i) /\ Made(i, w) => Answered(i, w)' \/ Settled(i)'
           /\ Renderer(w) => /\ \A k \in Places : Replied(i, w, k + 1) => Replied(i, w, k)' \/ Settled(i)'
                             /\ Replied(i, w, 1) => Settled(i)'
<1>. SUFFICES ASSUME Waits(i, w), ~Settled(i)' PROVE
           /\ Main(w) => /\ \A k \in Places : Asked(i, w, k + 1) => Asked(i, w, k)' \/ Later(i, w)'
                         /\ Asked(i, w, 1) => Later(i, w)'
           /\ FinishCreate(i) /\ Made(i, w) => Answered(i, w)'
           /\ Renderer(w) => /\ \A k \in Places : Replied(i, w, k + 1) => Replied(i, w, k)'
                             /\ ~Replied(i, w, 1)
  BY DEF Later, Asked, Made, Replied
<1>1. WaitStep(i, w)
  BY WaitsOn
<1>2. (\E k \in 1..Len(toWin'[w]) : ReplyAt(toWin'[w], i, k)) => Answered(i, w)'
  <2>1. ASSUME NEW k \in 1..Len(toWin'[w]), ReplyAt(toWin'[w], i, k) PROVE Answered(i, w)'
    <3>1. k \in Places
      BY DEF Places
    <3>2. Replied(i, w, k)'
      BY <1>1, <2>1 DEF Replied, WaitStep
    <3>. QED BY <3>1, <3>2 DEF Answered
  <2>. QED BY <2>1
<1>3. ASSUME NEW k \in Places, NEW q, NEW q2, Advances(q, q2)
      PROVE  /\ RequestAt(q, i, k + 1) => RequestAt(q2, i, k)
             /\ ReplyAt(q, i, k + 1) => ReplyAt(q2, i, k)
  <2>1. k + 1 # 1 /\ (k + 1) - 1 = k
    BY DEF Places
  <2>2. k + 1 \in 1..Len(q) => k \in 1..Len(q2) /\ q2[k] = q[k + 1]
    BY <1>3, <2>1 DEF Advances
  <2>. QED BY <2>2 DEF RequestAt, ReplyAt
<1>4. ASSUME NEW S, NEW queues \in [Windows -> Seq(S)], queues[w] # <<>>
      PROVE  ~Grows(queues[w], Taken(queues, w)[w])
  <2>1. Taken(queues, w)[w] = Tail(queues[w])
    BY DEF Taken
  <2>2. /\ Len(queues[w]) \in Nat \ {0} /\ Len(Tail(queues[w])) = Len(queues[w]) - 1
    BY <1>4, TailKeeps
  <2>. QED BY <2>1, <2>2 DEF Grows
<1>5. toMain \in [Windows -> Seq(Request)] /\ toWin \in [Windows -> Seq(Notice)]
  BY DEF IInv, TypeOK
<1>6. ASSUME Main(w)
      PROVE  /\ \A k \in Places : Asked(i, w, k + 1) => Asked(i, w, k)'
             /\ Asked(i, w, 1) => Later(i, w)'
  <2>1. toMain[w] # <<>> /\ toMain' = Taken(toMain, w)
    BY <1>6 DEF Main, BeginCreate, Adopt, Kill, Drop, Asks
  <2>2. ~Grows(toMain[w], toMain'[w])
    BY <1>4, <1>5, <2>1
  <2>. QED BY <1>1, <1>2, <1>3, <2>2 DEF WaitStep, AskStep, Asked, Later, Made
<1>7. ASSUME Renderer(w)
      PROVE  /\ \A k \in Places : Replied(i, w, k + 1) => Replied(i, w, k)'
             /\ ~Replied(i, w, 1)
  <2>1. toWin[w] # <<>> /\ toWin' = Taken(toWin, w)
    BY <1>7 DEF Renderer, HearCreated, HearAdopted, HearFailed, HearExit, HearTab, LetGo, HearStays, Hears
  <2>2. ~Grows(toWin[w], toWin'[w])
    BY <1>4, <1>5, <2>1
  <2>. QED BY <1>1, <1>3, <2>2 DEF WaitStep, ReplyStep, Replied
<1>8. ASSUME FinishCreate(i), Made(i, w) PROVE Answered(i, w)'
  BY <1>1, <1>2, <1>8 DEF WaitStep, MakeStep, Made, FinishCreate
<1>. QED BY <1>6, <1>7, <1>8

\* A pane that waits waited already, or is mounted in this step.
StaysUp == \A i \in PaneIds : panes'[i].state = "waiting" => panes[i] = panes'[i]

LEMMA MessagesWait ==
    ASSUME TypeOK, Addressed, NEW v \in Windows, Renderer(v), ~HearTab(v)
    PROVE  StaysUp
<1>1. CASE HearCreated(v)
  BY <1>1 DEF HearCreated, StaysUp, TypeOK, Pane
<1>2. CASE HearAdopted(v) \/ HearFailed(v)
  <2>1. HearFailed(v) => StaysUp
    BY FailedCloses DEF StaysUp, TypeOK, Pane
  <2>. QED BY <1>2, <2>1 DEF HearAdopted, StaysUp, TypeOK, Pane
<1>3. CASE HearExit(v) \/ LetGo(v)
  BY <1>3 DEF HearExit, LetGo, StaysUp, TypeOK, Pane
<1>4. CASE HearStays(v)
  BY <1>4 DEF HearStays, StaysUp
<1>. QED BY <1>1, <1>2, <1>3, <1>4 DEF Renderer

LEMMA UserKeeps ==
    ASSUME TypeOK,
           \/ \E v \in Windows : \/ CloseTab(v) \/ Reload(v) \/ CloseWindow(v)
                                 \/ \E canDetach \in BOOLEAN : EndDrag(v, canDetach)
           \/ \E j \in PaneIds : CloseTerminal(j)
    PROVE  StaysUp
<1>1. ASSUME NEW v \in Windows, LoseRenderer(v) PROVE StaysUp
  BY <1>1 DEF LoseRenderer, StaysUp, TypeOK, Pane
<1>2. ASSUME NEW v, NEW ids, ClosePanes(v, ids) PROVE StaysUp
  BY <1>2 DEF ClosePanes, StaysUp, TypeOK, Pane
<1>3. ASSUME NEW v \in Windows, NEW canDetach \in BOOLEAN, EndDrag(v, canDetach) PROVE StaysUp
  BY <1>3 DEF EndDrag, StaysUp
<1>. QED BY <1>1, <1>2, <1>3 DEF Reload, CloseWindow, CloseTab, CloseTerminal

\* A pane that comes to wait asks for its shell in the same step.
LEMMA NewlyWaits ==
    ASSUME IInv, [Next]_vars, NEW i \in PaneIds, NEW w \in Windows, Waits(i, w)', ~Waits(i, w)
    PROVE  \E k \in 1..Len(toMain'[w]) : RequestAt(toMain'[w], i, k)
<1>0. TypeOK /\ Tidy /\ Fresh /\ Addressed /\ toMain \in [Windows -> Seq(Request)]
  BY DEF IInv, TypeOK
<1>1. ~StaysUp
  BY DEF StaysUp, Waits
<1>2. panes' # panes
  BY DEF Waits
<1>3. ASSUME NEW v \in Windows, HearTab(v)
      PROVE  \E k \in 1..Len(toMain'[w]) : RequestAt(toMain'[w], i, k)
  <2>1. panes'[i] # panes[i]
    BY DEF Waits
  <2>2. /\ panes'[i].win = v
        /\ \E k \in 1..Len(toMain'[v]) : RequestAt(toMain'[v], i, k)
    BY <1>0, <1>3, <2>1, TabMounts
  <2>. QED BY <2>2 DEF Waits
<1>4. ASSUME NEW v \in Windows, NEW t \in Terms, OpenTerminal(v, t)
      PROVE  \E k \in 1..Len(toMain'[w]) : RequestAt(toMain'[w], i, k)
  <2> DEFINE r == [op |-> "create", pane |-> <<t, tab[v]>>]
  <2>1. i = <<t, tab[v]>> /\ w = v
    BY <1>0, <1>4 DEF OpenTerminal, Waits, TypeOK
  <2>2. r \in Request
    BY <2>1 DEF Request
  <2>3. <<r>> \in Seq(Request) /\ 1 \in 1..Len(<<r>>) /\ <<r>>[1] = r
    BY <2>2
  <2>4. \A m \in Seq(Request) : \A k \in 1..Len(m) : Contains(Sent(toMain, v, m)[v], m[k])
    BY <1>0, SentGrows
  <2>5. Contains(toMain'[v], r)
    BY <1>4, <2>3, <2>4 DEF OpenTerminal
  <2>6. \A q, k : k \in 1..Len(q) /\ q[k] = r => RequestAt(q, i, k)
    BY <2>1 DEF RequestAt
  <2>. HIDE DEF r
  <2>. QED BY <2>1, <2>5, <2>6 DEF Contains
<1>5. CASE \E v \in Windows : Renderer(v)
  BY <1>0, <1>1, <1>3, <1>5, MessagesWait
<1>6. CASE \E v \in Windows : User(v)
  BY <1>0, <1>1, <1>4, <1>6, UserKeeps DEF User
<1>7. CASE \E j \in PaneIds : CloseTerminal(j)
  BY <1>0, <1>1, <1>7, UserKeeps
<1>8. CASE (\E v \in Windows : Main(v) \/ Boot(v)) \/ NewWindow \/ UNCHANGED vars
  BY <1>2, <1>8 DEF Main, BeginCreate, Adopt, Kill, Drop, Boot, NewWindow, vars
<1>9. CASE \E j \in PaneIds : FinishCreate(j) \/ PtyExit(j)
  BY <1>2, <1>9 DEF FinishCreate, PtyExit
<1>. QED BY <1>5, <1>6, <1>7, <1>8, <1>9 DEF Next

LEMMA AwaitedStep == IInv /\ Awaited /\ [Next]_vars => Awaited'
<1>. SUFFICES ASSUME IInv, Awaited, [Next]_vars, NEW i \in PaneIds, NEW w \in Windows, Waits(i, w)'
              PROVE  (\E k \in Places : Asked(i, w, k)') \/ Made(i, w)' \/ Answered(i, w)'
  BY DEF Awaited
<1>1. CASE ~Waits(i, w)
  <2>1. PICK k \in 1..Len(toMain'[w]) : RequestAt(toMain'[w], i, k)
    BY <1>1, NewlyWaits
  <2>2. k \in Places
    BY DEF Places
  <2>. QED BY <2>1, <2>2 DEF Asked
<1>2. CASE Waits(i, w)
  <2>0. ~Settled(i)'
    BY DEF Waits, Settled
  <2>1. ASSUME NEW k \in Places, Asked(i, w, k)
        PROVE  (\E j \in Places : Asked(i, w, j)') \/ Made(i, w)' \/ Answered(i, w)'
    <3>1. CASE k = 1
      BY <2>0, <2>1, <3>1, Stages DEF Later
    <3>2. CASE k # 1
      <4>1. k - 1 \in Places /\ k = (k - 1) + 1
        BY <3>2 DEF Places
      <4>2. \A j \in Places : Asked(i, w, j + 1) => Asked(i, w, j + 1)' \/ Asked(i, w, j)' \/ Later(i, w)'
        BY Stages
      <4>3. Asked(i, w, k)' \/ Asked(i, w, k - 1)' \/ Later(i, w)'
        BY <2>1, <4>1, <4>2
      <4>. QED BY <2>0, <4>1, <4>3 DEF Later
    <3>. QED BY <3>1, <3>2
  <2>2. Made(i, w) => Made(i, w)' \/ Answered(i, w)'
    BY <2>0, Stages
  <2>3. ASSUME NEW k \in Places, Replied(i, w, k) PROVE Answered(i, w)'
    <3>1. CASE k = 1
      BY <2>0, <2>3, <3>1, Stages DEF Answered
    <3>2. CASE k # 1
      <4>1. k - 1 \in Places /\ k = (k - 1) + 1
        BY <3>2 DEF Places
      <4>2. \A j \in Places : Replied(i, w, j + 1) => Replied(i, w, j + 1)' \/ Replied(i, w, j)' \/ Settled(i)'
        BY Stages
      <4>3. Replied(i, w, k)' \/ Replied(i, w, k - 1)'
        BY <2>0, <2>3, <4>1, <4>2
      <4>. QED BY <4>1, <4>3 DEF Answered
    <3>. QED BY <3>1, <3>2
  <2>4. (\E k \in Places : Asked(i, w, k)) \/ Made(i, w) \/ Answered(i, w)
    BY <1>2 DEF Awaited
  <2>. QED BY <2>1, <2>2, <2>3, <2>4 DEF Answered
<1>. QED BY <1>1, <1>2

\* A pane that waits for its shell has not been forgotten: its request is on the way
\* to main, main is starting the shell, or the answer is on the way to it.  No reload,
\* close or drag in between loses the thread.
THEOREM PanesAreAwaited == Spec => []Awaited
<1>1. Init => Awaited
  BY DEF Init, Awaited, Waits
<1>. QED BY <1>1, AwaitedStep, Invariant, PTL DEF Spec

-----------------------------------------------------------------------------
(* What the loops do with what is under way.                               *)

WindowFair(w) == WF_vars(Renderer(w)) /\ WF_vars(Main(w)) /\ WF_vars(Boot(w))
ShellFair(i) == WF_vars(FinishCreate(i))
LoopsFair == (\A w \in Windows : WindowFair(w)) /\ (\A i \in PaneIds : ShellFair(i))

\* The head of a queue can be handled, and what pty:create awaits can end.  Read off the
\* guards: Main and Renderer have a disjunct for each kind of message, and a drop may
\* always move nothing.  A hypothesis, because tlapm has no rule for ENABLED.
CanRun(w, i) ==
    /\ toMain[w] # <<>> => ENABLED <<Main(w)>>_vars
    /\ toWin[w] # <<>> => ENABLED <<Renderer(w)>>_vars
    /\ i \in creating => ENABLED <<FinishCreate(i)>>_vars
LoopsRun == \A w \in Windows, i \in PaneIds : CanRun(w, i)

LEMMA StaysFair == Fairness => []LoopsFair
<1>1. Fairness => LoopsFair
  BY PTL DEF Fairness, LoopsFair, WindowFair, ShellFair
<1>2. ASSUME NEW w \in Windows PROVE WindowFair(w) => []WindowFair(w)
  BY PTL DEF WindowFair
<1>3. ASSUME NEW i \in PaneIds PROVE ShellFair(i) => []ShellFair(i)
  BY PTL DEF ShellFair
<1>4. LoopsFair => (\A w \in Windows : []WindowFair(w)) /\ (\A i \in PaneIds : []ShellFair(i))
  BY <1>2, <1>3 DEF LoopsFair
<1>5. (\A w \in Windows : []WindowFair(w)) => [](\A w \in Windows : WindowFair(w))
  OBVIOUS
<1>6. (\A i \in PaneIds : []ShellFair(i)) => [](\A i \in PaneIds : ShellFair(i))
  OBVIOUS
<1>. QED BY <1>1, <1>4, <1>5, <1>6, PTL DEF LoopsFair

Runs(w, i) == []IInv /\ [][Next]_vars /\ WindowFair(w) /\ ShellFair(i) /\ []CanRun(w, i)

\* Every message moves up, and the one at the head is handled.
LEMMA MovesUp ==
    ASSUME NEW i \in PaneIds, NEW w \in Windows, NEW k \in Places
    PROVE  /\ Runs(w, i) => (Asked(i, w, k + 1) ~> Asked(i, w, k) \/ Later(i, w))
           /\ Runs(w, i) => (Replied(i, w, k + 1) ~> Replied(i, w, k) \/ Settled(i))
<1>1. k + 1 \in Places /\ \A q : q # <<>> \/ (~RequestAt(q, i, k + 1) /\ ~ReplyAt(q, i, k + 1))
  BY DEF Places, RequestAt, ReplyAt
<1>2. Runs(w, i) => (Asked(i, w, k + 1) ~> Asked(i, w, k) \/ Later(i, w))
  <2>1. IInv /\ Asked(i, w, k + 1) /\ [Next]_vars
        => Asked(i, w, k + 1)' \/ Asked(i, w, k)' \/ Later(i, w)'
    BY Stages
  <2>2. IInv /\ Asked(i, w, k + 1) /\ <<Next /\ Main(w)>>_vars => Asked(i, w, k)' \/ Later(i, w)'
    BY Takes
  <2>3. CanRun(w, i) /\ Asked(i, w, k + 1) => ENABLED <<Main(w)>>_vars
    BY <1>1 DEF CanRun, Asked
  <2>. QED BY <2>1, <2>2, <2>3, PTL DEF Runs, WindowFair, ShellFair
<1>3. Runs(w, i) => (Replied(i, w, k + 1) ~> Replied(i, w, k) \/ Settled(i))
  <2>1. IInv /\ Replied(i, w, k + 1) /\ [Next]_vars
        => Replied(i, w, k + 1)' \/ Replied(i, w, k)' \/ Settled(i)'
    BY Stages
  <2>2. IInv /\ Replied(i, w, k + 1) /\ <<Next /\ Renderer(w)>>_vars => Replied(i, w, k)' \/ Settled(i)'
    BY Takes
  <2>3. CanRun(w, i) /\ Replied(i, w, k + 1) => ENABLED <<Renderer(w)>>_vars
    BY <1>1 DEF CanRun, Replied
  <2>. QED BY <2>1, <2>2, <2>3, PTL DEF Runs, WindowFair, ShellFair
<1>. QED BY <1>2, <1>3

LEMMA HeadIsHandled ==
    ASSUME NEW i \in PaneIds, NEW w \in Windows
    PROVE  /\ Runs(w, i) => (Asked(i, w, 1) ~> Later(i, w))
           /\ Runs(w, i) => (Made(i, w) ~> Answered(i, w) \/ Settled(i))
           /\ Runs(w, i) => (Replied(i, w, 1) ~> Settled(i))
<1>1. \A q : q # <<>> \/ (~RequestAt(q, i, 1) /\ ~ReplyAt(q, i, 1))
  BY DEF RequestAt, ReplyAt
<1>2. Runs(w, i) => (Asked(i, w, 1) ~> Later(i, w))
  <2>1. IInv /\ Asked(i, w, 1) /\ [Next]_vars => Asked(i, w, 1)' \/ Later(i, w)'
    BY Stages
  <2>2. IInv /\ Asked(i, w, 1) /\ <<Next /\ Main(w)>>_vars => Later(i, w)'
    BY Takes
  <2>3. CanRun(w, i) /\ Asked(i, w, 1) => ENABLED <<Main(w)>>_vars
    BY <1>1 DEF CanRun, Asked
  <2>. QED BY <2>1, <2>2, <2>3, PTL DEF Runs, WindowFair, ShellFair
<1>3. Runs(w, i) => (Made(i, w) ~> Answered(i, w) \/ Settled(i))
  <2>1. IInv /\ Made(i, w) /\ [Next]_vars => Made(i, w)' \/ Answered(i, w)' \/ Settled(i)'
    BY Stages
  <2>2. IInv /\ Made(i, w) /\ <<Next /\ FinishCreate(i)>>_vars => Answered(i, w)' \/ Settled(i)'
    BY Takes
  <2>3. CanRun(w, i) /\ Made(i, w) => ENABLED <<FinishCreate(i)>>_vars
    BY DEF CanRun, Made
  <2>. QED BY <2>1, <2>2, <2>3, PTL DEF Runs, WindowFair, ShellFair
<1>4. Runs(w, i) => (Replied(i, w, 1) ~> Settled(i))
  <2>1. IInv /\ Replied(i, w, 1) /\ [Next]_vars => Replied(i, w, 1)' \/ Settled(i)'
    BY Stages
  <2>2. IInv /\ Replied(i, w, 1) /\ <<Next /\ Renderer(w)>>_vars => Settled(i)'
    BY Takes
  <2>3. CanRun(w, i) /\ Replied(i, w, 1) => ENABLED <<Renderer(w)>>_vars
    BY <1>1 DEF CanRun, Replied
  <2>. QED BY <2>1, <2>2, <2>3, PTL DEF Runs, WindowFair, ShellFair
<1>. QED BY <1>2, <1>3, <1>4

\* No more than eight messages are under way in one direction between main and one
\* window: in place of an induction over the place in the queue, which is temporal.
Short == \A w \in Windows : Len(toMain[w]) <= 8 /\ Len(toWin[w]) <= 8

AskEnds(i, w, k) == Asked(i, w, k) ~> Later(i, w)
ReplyEnds(i, w, k) == Replied(i, w, k) ~> Settled(i)

LEMMA PlacesEnd ==
    ASSUME NEW i \in PaneIds, NEW w \in Windows
    PROVE  Runs(w, i) => \A k \in 1..8 : AskEnds(i, w, k) /\ ReplyEnds(i, w, k)
<1> DEFINE Ends(k) == AskEnds(i, w, k) /\ ReplyEnds(i, w, k)
<1>1. ASSUME NEW k \in Places PROVE Runs(w, i) /\ Ends(k) => Ends(k + 1)
  BY MovesUp, PTL DEF AskEnds, ReplyEnds
<1>2. Runs(w, i) => Ends(1)
  BY HeadIsHandled, PTL DEF AskEnds, ReplyEnds
<1>3. \A k, m \in Places : m = k + 1 /\ Runs(w, i) /\ Ends(k) => Ends(m)
  BY <1>1
<1>. HIDE DEF Ends
<1>4. \A k \in 1..8 : k \in Places
  BY DEF Places
<1>5. Runs(w, i) => Ends(2)
  BY <1>2, <1>3, <1>4
<1>6. Runs(w, i) => Ends(3)
  BY <1>3, <1>4, <1>5
<1>7. Runs(w, i) => Ends(4)
  BY <1>3, <1>4, <1>6
<1>8. Runs(w, i) => Ends(5)
  BY <1>3, <1>4, <1>7
<1>9. Runs(w, i) => Ends(6)
  BY <1>3, <1>4, <1>8
<1>10. Runs(w, i) => Ends(7)
  BY <1>3, <1>4, <1>9
<1>11. Runs(w, i) => Ends(8)
  BY <1>3, <1>4, <1>10
<1>12. Runs(w, i) => \A k \in 1..8 : Ends(k)
  <2>1. \A k \in 1..8 : k = 1 \/ k = 2 \/ k = 3 \/ k = 4 \/ k = 5 \/ k = 6 \/ k = 7 \/ k = 8
    OBVIOUS
  <2>. QED BY <1>2, <1>5, <1>6, <1>7, <1>8, <1>9, <1>10, <1>11, <2>1
<1>. QED BY <1>12 DEF Ends

\* A pane that waits in a window settles.
SettlesIn(i, w) == Waits(i, w) ~> Settled(i)

LEMMA PaneSettles ==
    ASSUME NEW i \in PaneIds, NEW w \in Windows
    PROVE  []Awaited /\ []Short /\ []LoopsFair /\ []LoopsRun /\ []IInv /\ [][Next]_vars
           => SettlesIn(i, w)
<1> DEFINE Assumed == []Short /\ []LoopsFair /\ []LoopsRun /\ []IInv /\ [][Next]_vars
           SomeAsked == \E k \in 1..8 : Asked(i, w, k)
           SomeReplied == \E k \in 1..8 : Replied(i, w, k)
<1>1. Assumed => Runs(w, i)
  <2>1. LoopsFair => WindowFair(w) /\ ShellFair(i)
    BY DEF LoopsFair
  <2>2. LoopsRun => CanRun(w, i)
    BY DEF LoopsRun
  <2>. QED BY <2>1, <2>2, PTL DEF Runs
<1>2. Assumed => (SomeAsked ~> Later(i, w))
  <2>1. ASSUME NEW k \in 1..8 PROVE Assumed => (Asked(i, w, k) => <>Later(i, w))
    <3>1. Assumed => AskEnds(i, w, k)
      BY <1>1, PlacesEnd
    <3>. QED BY <3>1, PTL DEF AskEnds
  <2>2. Assumed => (SomeAsked => <>Later(i, w))
    BY <2>1
  <2>. HIDE DEF SomeAsked
  <2>. QED BY <2>2, PTL
<1>3. Assumed => (SomeReplied ~> Settled(i))
  <2>1. ASSUME NEW k \in 1..8 PROVE Assumed => (Replied(i, w, k) => <>Settled(i))
    <3>1. Assumed => ReplyEnds(i, w, k)
      BY <1>1, PlacesEnd
    <3>. QED BY <3>1, PTL DEF ReplyEnds
  <2>2. Assumed => (SomeReplied => <>Settled(i))
    BY <2>1
  <2>. HIDE DEF SomeReplied
  <2>. QED BY <2>2, PTL
<1>4. Assumed => (Made(i, w) ~> Answered(i, w) \/ Settled(i))
  BY <1>1, HeadIsHandled
<1>5. Short /\ IInv /\ Answered(i, w) => SomeReplied
  <2>. SUFFICES ASSUME Short, IInv PROVE \A k \in 1..Len(toWin[w]) : k \in 1..8
    BY DEF Answered, Replied, ReplyAt
  <2>1. toWin \in [Windows -> Seq(Notice)]
    BY DEF IInv, TypeOK
  <2>2. Len(toWin[w]) \in Nat /\ Len(toWin[w]) <= 8
    BY <2>1 DEF Short
  <2>. QED BY <2>2
<1>6. Short /\ IInv /\ Awaited /\ Waits(i, w) => SomeAsked \/ Made(i, w) \/ Answered(i, w)
  <2>. SUFFICES ASSUME Short, IInv PROVE \A k \in 1..Len(toMain[w]) : k \in 1..8
    BY DEF Awaited, Asked, RequestAt
  <2>1. toMain \in [Windows -> Seq(Request)]
    BY DEF IInv, TypeOK
  <2>2. Len(toMain[w]) \in Nat /\ Len(toMain[w]) <= 8
    BY <2>1 DEF Short
  <2>. QED BY <2>2
<1>. HIDE DEF SomeAsked, SomeReplied
<1>. QED BY <1>2, <1>3, <1>4, <1>5, <1>6, PTL DEF Later, SettlesIn

\* No pane waits for its shell for ever (ptyCreate and ptyAdopt resolve or reject, and
\* the pane's attach hears of it), whatever is dragged, closed or reloaded meanwhile.
THEOREM PanesSettled == FairSpec /\ []LoopsRun /\ []Short => PanesSettle
<1> DEFINE Assumed == /\ []Awaited /\ []Short /\ []LoopsFair /\ []LoopsRun /\ []IInv
                      /\ [][Next]_vars
           Body(i) == panes[i].state = "waiting" ~> panes[i].state # "waiting"
<1>1. ASSUME NEW i \in PaneIds PROVE Assumed => Body(i)
  <2> DEFINE Waiting == \E w \in Windows : Waits(i, w)
  <2>1. ASSUME NEW w \in Windows PROVE Assumed => (Waits(i, w) => <>Settled(i))
    <3>1. Assumed => SettlesIn(i, w)
      BY PaneSettles
    <3>. QED BY <3>1, PTL DEF SettlesIn
  <2>2. Assumed => (Waiting => <>Settled(i))
    BY <2>1
  <2>3. IInv /\ panes[i].state = "waiting" => Waiting
    BY DEF IInv, Addressed, Waits
  <2>4. Settled(i) <=> panes[i].state # "waiting"
    BY DEF Settled
  <2>. HIDE DEF Waiting
  <2>. QED BY <2>2, <2>3, <2>4, PTL
<1>2. FairSpec /\ []LoopsRun /\ []Short => Assumed
  BY StaysFair, Invariant, PanesAreAwaited, PTL DEF FairSpec, Spec
<1>3. FairSpec /\ []LoopsRun /\ []Short => \A i \in PaneIds : Body(i)
  <2>. HIDE DEF Assumed, Body
  <2>. QED BY <1>1, <1>2
<1>4. (\A i \in PaneIds : Body(i)) => PanesSettle
  BY PTL DEF PanesSettle
<1>. HIDE DEF Body
<1>. QED BY <1>3, <1>4
=============================================================================
