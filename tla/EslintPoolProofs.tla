-------------------------- MODULE EslintPoolProofs --------------------------
(***************************************************************************)
(* Safety of the ESLint pool for any number of files, lints and workers.   *)
(*                                                                          *)
(* The inductive invariant says what the registered worker's bookkeeping   *)
(* has to do with what was written to it and with the lints that wait.     *)
(***************************************************************************)
EXTENDS EslintPool, FiniteSetTheorems, TLAPS

Used(c) == lint[c].outcome # "none"
Waits(c) == lint[c].outcome = "waiting"

\* The lints of a file are sent one at a time: those handed to a worker, or over.
Sent == {c \in Calls : Used(c) /\ \A f \in Files : queued[f] # c}

\* Processes and the registration: only the registered worker's can be up.
Alive ==
    /\ \A w \in Workers : /\ proc[w] = "none" => wire[w] = {}
                          /\ proc[w] = "up" => w = worker
    /\ worker # None => proc[worker] # "none" /\ trust # "revoked"
    /\ worker = None => nextId = 0 /\ inflight = NothingInflight /\ queued = NothingQueued

\* Ids: each is used once by a worker, and stands for one lint or for none.
Numbered ==
    /\ nextId <= Cardinality(Sent)
    /\ \A i \in Ids : inflight[i] # None => i <= nextId
    /\ worker # None => \A r \in wire[worker] : r.id <= nextId /\ inflight[r.id] \in {None, r.call}

\* Lints: one under way for each file, a newer one behind it, and no other waits.
Tracked ==
    /\ \A c \in Calls : /\ IF Used(c) THEN lint[c].file \in Files ELSE lint[c].file = None
                        /\ Waits(c) => \/ \E i \in Ids : inflight[i] = c
                                       \/ \E f \in Files : queued[f] = c
    /\ \A i \in Ids : inflight[i] # None => Waits(inflight[i])
    /\ \A i, j \in Ids :
          /\ inflight[i] # None /\ inflight[j] # None
          /\ lint[inflight[i]].file = lint[inflight[j]].file
          => i = j
    /\ \A f \in Files : queued[f] # None =>
          /\ Waits(queued[f]) /\ lint[queued[f]].file = f
          /\ \E i \in Ids : /\ inflight[i] # None /\ inflight[i] < queued[f]
                            /\ lint[inflight[i]].file = f

\* Calls are numbered in their order.
InOrder == \A c, d \in Calls : d < c /\ Used(c) => Used(d)

IInv == TypeOK /\ Alive /\ Numbered /\ Tracked /\ InOrder /\ AnswersOwnText /\ LatestWins

-----------------------------------------------------------------------------
(* Counting: there are never more ids than calls.                          *)

LEMMA SubsetCounts ==
    ASSUME NEW T \in SUBSET Calls, NEW S \in SUBSET T
    PROVE  /\ Cardinality(S) \in Nat /\ Cardinality(T) \in Nat
           /\ Cardinality(S) <= Cardinality(T)
<1>1. IsFiniteSet(Calls)
  BY FS_Interval, BoundsAssumption DEF Calls
<1>2. IsFiniteSet(T)
  BY <1>1, FS_Subset
<1>. QED BY <1>2, FS_Subset, FS_CardinalityType

LEMMA OneMore ==
    ASSUME NEW S \in SUBSET Calls, NEW c \in Calls, c \notin S
    PROVE  /\ Cardinality(S) \in Nat
           /\ Cardinality(S \cup {c}) = Cardinality(S) + 1
           /\ Cardinality(S) + 1 <= MaxCalls
<1>1. IsFiniteSet(Calls) /\ Cardinality(Calls) = MaxCalls
  BY FS_Interval, BoundsAssumption DEF Calls
<1>2. IsFiniteSet(S) /\ Cardinality(S) \in Nat
  BY <1>1, FS_Subset, FS_CardinalityType
<1>3. Cardinality(S \cup {c}) = Cardinality(S) + 1
  BY <1>2, FS_AddElement
<1>4. Cardinality(S \cup {c}) <= Cardinality(Calls)
  BY <1>1, FS_Subset
<1>. QED BY <1>1, <1>2, <1>3, <1>4

-----------------------------------------------------------------------------
(* What becomes of the invariant.                                          *)

\* A worker is dropped, and with it all that waited on it.
LEMMA TearsDown ==
    ASSUME IInv, NEW late, Teardown(late), wire' = wire, trust' \in {"granted", "revoked", "failed"},
           proc' \in [Workers -> {"none", "up", "dead", "killed", "gone"}],
           \A w \in Workers : proc'[w] # "up" /\ (proc'[w] = "none" <=> proc[w] = "none")
    PROVE  IInv'
<1>1. TypeOK /\ Tracked
  BY DEF IInv
<1>2. /\ \A c \in Calls : /\ lint'[c].file = lint[c].file /\ lint'[c].about = lint[c].about
                          /\ Waits(c) => lint'[c].outcome \in {"timedOut", "configError"}
                          /\ ~Waits(c) => lint'[c] = lint[c]
      /\ lint' \in [Calls -> Lint]
  <2>1. \A c \in Outstanding : c \in Calls /\ Waits(c)
    BY <1>1 DEF Outstanding, Tracked, TypeOK
  <2>2. \A c \in Calls : Waits(c) => c \in Outstanding
    <3>. SUFFICES ASSUME NEW c \in Calls, Waits(c) PROVE c \in Outstanding
      OBVIOUS
    <3>1. c # None
      BY NoneAssumption DEF Calls
    <3>. QED BY <1>1, <3>1 DEF Tracked, Outstanding
  <2>3. \A c \in Calls : lint[c] \in Lint
    BY <1>1 DEF TypeOK
  <2>. QED BY <2>1, <2>2, <2>3 DEF Teardown, Lint, Outcomes, Waits
<1>3. worker' = None /\ nextId' = 0 /\ inflight' = NothingInflight /\ queued' = NothingQueued
  BY DEF Teardown
<1>4. \A c \in Calls : (Used(c)' <=> Used(c)) /\ ~Waits(c)'
  BY <1>2 DEF Used, Waits
<1>5. TypeOK'
  BY <1>1, <1>2, <1>3, BoundsAssumption DEF TypeOK, NothingInflight, NothingQueued
<1>6. Alive'
  BY <1>3 DEF IInv, Alive
<1>7. Numbered'
  BY <1>3, SubsetCounts DEF Numbered, NothingInflight, Sent
<1>8. Tracked'
  BY <1>1, <1>2, <1>3, <1>4 DEF Tracked, NothingInflight, NothingQueued
<1>9. InOrder'
  BY <1>4 DEF IInv, InOrder
<1>10. AnswersOwnText' /\ LatestWins'
  BY <1>2 DEF IInv, AnswersOwnText, LatestWins, Waits
<1>. QED BY <1>5, <1>6, <1>7, <1>8, <1>9, <1>10 DEF IInv

\* A new lint comes after all others.
LEMMA NewestLint ==
    ASSUME IInv, NEW c \in NextCall
    PROVE  /\ \A d \in Calls : d # None
           /\ c \in Calls /\ lint[c].outcome = "none"
           /\ \A d \in Calls : Used(d) => d < c
           /\ \A i \in Ids : inflight[i] # c
           /\ \A f \in Files : queued[f] # c
<1>1. c \in Calls /\ ~Used(c) /\ \A d \in Calls : d # None
  BY NoneAssumption DEF NextCall, Used, Calls
<1>2. \A d \in Calls : Used(d) => d < c
  <2>. SUFFICES ASSUME NEW d \in Calls, Used(d), ~(d < c) PROVE FALSE
    OBVIOUS
  <2>1. c < d \/ c = d
    BY <1>1, BoundsAssumption DEF Calls
  <2>. QED BY <1>1, <2>1 DEF IInv, InOrder
<1>3. ~Waits(c)
  BY <1>1 DEF Waits, Used
<1>. QED BY <1>1, <1>2, <1>3 DEF IInv, Tracked, NextCall, Used

\* The worker a lint goes to, whether it ran before or starts now.
LEMMA EnsuredWorker ==
    ASSUME IInv, NEW w \in Workers, Ensured(w),
           proc' = [proc EXCEPT ![w] = IF worker = None THEN "up" ELSE @], worker' = w
    PROVE  /\ proc' \in [Workers -> {"none", "up", "dead", "killed", "gone"}]
           /\ proc'[w] # "none" /\ w # None
           /\ \A v \in Workers : v # w => proc'[v] = proc[v] /\ proc'[v] # "up"
           /\ \A r \in wire[w] : r.id <= nextId /\ inflight[r.id] \in {None, r.call}
           /\ worker # None => w = worker
<1>1. \A v \in Workers : v # None
  BY NoneAssumption DEF Workers
<1>2. worker # None => w = worker
  BY DEF Ensured
<1>3. worker = None => proc[w] = "none" /\ wire[w] = {}
  BY DEF Ensured, IInv, Alive
<1>4. proc \in [Workers -> {"none", "up", "dead", "killed", "gone"}]
  BY DEF IInv, TypeOK
<1>5. proc'[w] # "none" /\ \A v \in Workers : v # w => proc'[v] = proc[v] /\ proc'[v] # "up"
  BY <1>1, <1>2, <1>4 DEF IInv, Alive
<1>6. \A r \in wire[w] : r.id <= nextId /\ inflight[r.id] \in {None, r.call}
  BY <1>2, <1>3 DEF IInv, Numbered
<1>. QED BY <1>1, <1>2, <1>4, <1>5, <1>6

LEMMA FreshLint ==
    ASSUME NEW f \in Files, NEW o \in {"waiting"} \cup Outcomes
    PROVE  NewLint(f, o) \in Lint /\ NewLint(f, o).file = f /\ NewLint(f, o).outcome = o
BY DEF NewLint, Lint

\* A lint that must wait takes the place of the one that waited.
LEMMA Queues ==
    ASSUME IInv, NEW f \in Files, NEW c \in NextCall, RunLint(f, c), Busy(f)
    PROVE  IInv'
<1>0. /\ \A d \in Calls : d # None
      /\ c \in Calls /\ lint[c].outcome = "none"
      /\ \A d \in Calls : Used(d) => d < c
      /\ \A i \in Ids : inflight[i] # c
      /\ \A g \in Files : queued[g] # c
  BY NewestLint
<1>1. TypeOK /\ Tracked /\ Numbered /\ Alive
  BY DEF IInv
<1>2. PICK w \in Workers :
          /\ Ensured(w)
          /\ worker' = w
          /\ proc' = [proc EXCEPT ![w] = IF worker = None THEN "up" ELSE @]
  BY DEF RunLint
<1>3. /\ queued' = [queued EXCEPT ![f] = c] /\ UNCHANGED <<nextId, inflight, wire, trust>>
      /\ trust = "granted"
  BY DEF RunLint
<1>4. /\ lint' \in [Calls -> Lint]
      /\ lint'[c].file = f /\ lint'[c].outcome = "waiting"
      /\ \A d \in Calls \ {c} : /\ lint'[d].file = lint[d].file
                                /\ d # queued[f] => lint'[d] = lint[d]
                                /\ d = queued[f] => lint'[d].outcome = "superseded"
  <2>1. \A d \in Calls : lint[d] \in Lint /\ d # None
    BY <1>1, NoneAssumption DEF TypeOK, Calls
  <2>2. lint' = [d \in Calls |->
                        IF d = c THEN NewLint(f, "waiting")
                        ELSE IF d \in Superseded(f) /\ Busy(f) THEN [lint[d] EXCEPT !.outcome = "superseded"]
                        ELSE lint[d]]
    BY DEF RunLint
  <2>. QED BY <2>1, <2>2, <1>0, FreshLint DEF Lint, Outcomes, Superseded
<1>5. PICK busy \in Ids : inflight[busy] # None /\ lint[inflight[busy]].file = f
  BY DEF Busy
<1>6. \A i \in Ids : inflight[i] # None => inflight[i] # queued[f]
  <2>. SUFFICES ASSUME NEW i \in Ids, inflight[i] # None, inflight[i] = queued[f] PROVE FALSE
    OBVIOUS
  <2>1. PICK j \in Ids : /\ inflight[j] # None /\ inflight[j] < queued[f]
                         /\ lint[inflight[j]].file = f
    BY <1>1 DEF Tracked
  <2>2. i = j
    BY <1>1, <2>1 DEF Tracked
  <2>3. inflight[i] \in Calls
    BY <1>1 DEF TypeOK
  <2>. QED BY <2>1, <2>2, <2>3, BoundsAssumption DEF Calls
<1>7. TypeOK'
  BY <1>1, <1>2, <1>3, <1>4, EnsuredWorker, <1>0 DEF TypeOK
<1>8. Alive'
  BY <1>1, <1>2, <1>3, EnsuredWorker DEF Alive, TypeOK
<1>9. Numbered'
  <2>1. Sent \subseteq Sent'
    BY <1>1, <1>3, <1>4, <1>0 DEF Sent, Used, TypeOK
  <2>2. Cardinality(Sent) <= Cardinality(Sent') /\ Cardinality(Sent) \in Nat /\ Cardinality(Sent') \in Nat
    BY <2>1, SubsetCounts DEF Sent
  <2>3. \A r \in wire[w] : r.id <= nextId /\ inflight[r.id] \in {None, r.call}
    BY <1>2, EnsuredWorker
  <2>4. nextId <= Cardinality(Sent) /\ nextId \in Nat
    BY <1>1, BoundsAssumption DEF Numbered, TypeOK
  <2>. QED BY <1>1, <1>2, <1>3, <2>2, <2>3, <2>4 DEF Numbered
<1>10. Tracked'
  <2>1. \A d \in Calls : /\ IF Used(d)' THEN lint'[d].file \in Files ELSE lint'[d].file = None
                         /\ Waits(d)' => \/ \E i \in Ids : inflight'[i] = d
                                         \/ \E g \in Files : queued'[g] = d
    <3>1. queued'[f] = c /\ \A g \in Files \ {f} : queued'[g] = queued[g]
      BY <1>1, <1>3 DEF TypeOK
    <3>. QED BY <1>0, <1>1, <1>3, <1>4, <3>1 DEF Tracked, Used, Waits
  <2>2. \A i \in Ids : inflight[i] # None => inflight[i] \in Calls \ {c} /\ lint'[inflight[i]] = lint[inflight[i]]
    BY <1>1, <1>4, <1>6, <1>0 DEF TypeOK
  <2>3. \A i \in Ids : inflight[i] # None => Waits(inflight[i])'
    BY <1>1, <1>3, <2>2 DEF Tracked, Waits
  <2>4. \A g \in Files : queued'[g] # None =>
          /\ lint'[queued'[g]].outcome = "waiting" /\ lint'[queued'[g]].file = g
          /\ \E i \in Ids : /\ inflight[i] # None /\ inflight[i] < queued'[g]
                            /\ lint'[inflight[i]].file = g
    <3>1. inflight[busy] < c
      BY <1>1, <1>5, <2>2, <1>0 DEF Tracked, Waits, Used
    <3>2. CASE queued[f] = None
      BY <1>1, <1>3, <1>4, <1>5, <2>2, <3>1, <1>0 DEF Tracked, Waits, TypeOK
    <3>3. CASE queued[f] # None
      <4>1. \A g \in Files \ {f} : queued[g] # None => queued[g] # queued[f]
        BY <1>1, <3>3 DEF Tracked
      <4>. QED BY <1>1, <1>3, <1>4, <1>5, <2>2, <3>1, <4>1, <1>0 DEF Tracked, Waits, TypeOK
    <3>. QED BY <3>2, <3>3
  <2>5. \A i, j \in Ids :
          /\ inflight[i] # None /\ inflight[j] # None
          /\ lint'[inflight[i]].file = lint'[inflight[j]].file
          => i = j
    BY <1>1, <2>2 DEF Tracked
  <2>. QED BY <1>3, <2>1, <2>3, <2>4, <2>5 DEF Tracked, Waits
<1>11. \A d \in Calls : (Used(d)' <=> Used(d) \/ d = c) /\ (Waits(d)' => Waits(d) \/ d = c)
  BY <1>0, <1>1, <1>4 DEF Used, Waits, Tracked
<1>12. InOrder'
  <2>. SUFFICES ASSUME NEW e \in Calls, NEW d \in Calls, d < e, Used(e)' PROVE Used(d)'
    BY DEF InOrder
  <2>1. CASE e = c
    BY <1>11, <2>1, BoundsAssumption DEF NextCall, Used, Calls
  <2>2. CASE e # c
    BY <1>11, <2>2 DEF IInv, InOrder
  <2>. QED BY <2>1, <2>2
<1>13. AnswersOwnText'
  BY <1>4 DEF IInv, AnswersOwnText
<1>14. LatestWins'
  <2>. SUFFICES ASSUME NEW d \in Calls
                PROVE  /\ lint'[d].outcome = "superseded" =>
                             \E e \in Calls : lint'[e].file = lint'[d].file /\ e > d
                       /\ lint'[d].outcome = "messages" =>
                             \A e \in Calls : lint'[e].file = lint'[d].file /\ e < d => ~Waits(e)'
    BY DEF LatestWins, Waits
  <2>1. lint'[d].outcome = "superseded" => \E e \in Calls : lint'[e].file = lint'[d].file /\ e > d
    <3>1. CASE d = queued[f] /\ d # c
      <4>1. lint'[d].file = f /\ d < c
        BY <1>1, <1>4, <3>1, <1>0, NoneAssumption DEF Tracked, Waits, Used, Calls
      <4>. QED BY <1>4, <4>1, <1>0, BoundsAssumption DEF Calls
    <3>2. ASSUME d # queued[f], d # c, lint'[d].outcome = "superseded"
          PROVE  \E e \in Calls : lint'[e].file = lint'[d].file /\ e > d
      <4>1. PICK e \in Calls : lint[e].file = lint[d].file /\ e > d
        BY <1>4, <3>2 DEF IInv, LatestWins
      <4>2. CASE e # c
        BY <1>4, <3>2, <4>1, <4>2
      <4>3. CASE e = c
        <5>1. lint[d].file \in Files /\ lint[c].file = None
          BY <1>1, <1>4, <3>2, <1>0 DEF Tracked, Used
        <5>. QED BY <5>1, <4>1, <4>3, NoneAssumption
      <4>. QED BY <4>2, <4>3
    <3>3. CASE d = c
      BY <1>4, <3>3
    <3>. QED BY <3>1, <3>2, <3>3
  <2>2. ASSUME lint'[d].outcome = "messages", NEW e \in Calls, lint'[e].file = lint'[d].file, e < d
        PROVE  ~Waits(e)'
    <3>1. d # c /\ d # queued[f] /\ lint'[d] = lint[d]
      BY <1>4, <2>2
    <3>2. d < c
      BY <2>2, <3>1, <1>0 DEF Used
    <3>3. e # c
      BY <2>2, <3>2, <1>0, BoundsAssumption DEF Calls
    <3>. QED BY <1>4, <1>11, <2>2, <3>1, <3>3 DEF IInv, LatestWins, Waits
  <2>. QED BY <2>1, <2>2
<1>. QED BY <1>7, <1>8, <1>9, <1>10, <1>12, <1>13, <1>14 DEF IInv

\* A lint of a file that has none under way is sent at once.
LEMMA Sends ==
    ASSUME IInv, NEW f \in Files, NEW c \in NextCall, RunLint(f, c), ~Busy(f)
    PROVE  IInv'
<1>0. /\ \A d \in Calls : d # None
      /\ c \in Calls /\ lint[c].outcome = "none"
      /\ \A d \in Calls : Used(d) => d < c
      /\ \A i \in Ids : inflight[i] # c
      /\ \A g \in Files : queued[g] # c
  BY NewestLint
<1> DEFINE id == nextId + 1
<1>1. TypeOK /\ Tracked /\ Numbered /\ Alive
  BY DEF IInv
<1>2. PICK w \in Workers :
          /\ Ensured(w)
          /\ worker' = w
          /\ proc' = [proc EXCEPT ![w] = IF worker = None THEN "up" ELSE @]
          /\ wire' = [wire EXCEPT ![w] = @ \cup Write(id, c)]
  BY DEF RunLint
<1>3. /\ inflight' = [inflight EXCEPT ![id] = c] /\ nextId' = id /\ UNCHANGED <<queued, trust>>
      /\ trust = "granted"
  BY DEF RunLint
<1>4. /\ lint' \in [Calls -> Lint]
      /\ lint'[c].file = f /\ lint'[c].outcome = "waiting"
      /\ \A d \in Calls \ {c} : lint'[d] = lint[d]
  <2>1. \A d \in Calls : lint[d] \in Lint
    BY <1>1 DEF TypeOK
  <2>2. lint' = [d \in Calls |-> IF d = c THEN NewLint(f, "waiting")
                                ELSE lint[d]]
    BY <2>1 DEF RunLint
  <2>. QED BY <2>1, <2>2, <1>0, FreshLint
<1>5. id \in Ids /\ nextId \in Nat
  <2>1. c \notin Sent /\ c \in Calls /\ Sent \in SUBSET Calls
    BY <1>0 DEF Sent, Used
  <2>2. nextId \in Nat /\ nextId <= Cardinality(Sent)
    BY <1>1, BoundsAssumption DEF Numbered, TypeOK
  <2>3. Cardinality(Sent) \in Nat /\ Cardinality(Sent) + 1 <= MaxCalls
    BY <2>1, OneMore
  <2>. QED BY <2>2, <2>3, BoundsAssumption DEF Ids
<1>6. \A i \in Ids : inflight[i] # None => i < id /\ inflight[i] \in Calls \ {c}
  BY <1>1, <1>5, <1>0, BoundsAssumption DEF Numbered, TypeOK, Ids
<1>7. inflight'[id] = c /\ \A i \in Ids \ {id} : inflight'[i] = inflight[i]
  BY <1>1, <1>3, <1>5 DEF TypeOK
<1>8. /\ wire'[w] = wire[w] \cup {[id |-> id, call |-> c]}
      /\ \A v \in Workers \ {w} : wire'[v] = wire[v]
  BY <1>1, <1>2 DEF TypeOK, Write
<1> HIDE DEF id
<1>9. TypeOK'
  <2>1. wire' \in [Workers -> SUBSET Request]
    BY <1>1, <1>2, <1>5, <1>0 DEF TypeOK, Write, Request
  <2>2. id \in 0..MaxCalls
    BY <1>5, BoundsAssumption DEF Ids
  <2>. QED BY <1>1, <1>2, <1>3, <1>4, <2>1, <2>2, EnsuredWorker, <1>0 DEF TypeOK
<1>10. Alive'
  BY <1>1, <1>2, <1>3, <1>8, EnsuredWorker DEF Alive, TypeOK
<1>11. Numbered'
  <2>1. c \notin Sent /\ c \in Calls /\ Sent \in SUBSET Calls
    BY <1>0 DEF Sent, Used
  <2>2. Sent' = Sent \cup {c}
    BY <1>3, <1>4, <1>0 DEF Sent, Used
  <2>3. id <= Cardinality(Sent)'
    BY <1>1, <1>5, <2>1, <2>2, OneMore DEF Numbered, id
  <2>4. \A r \in wire[w] : r.id < id /\ r.id \in Ids /\ inflight[r.id] \in {None, r.call}
    <3>1. \A r \in wire[w] : r \in Request
      BY <1>1 DEF TypeOK
    <3>2. \A r \in wire[w] : r.id <= nextId /\ inflight[r.id] \in {None, r.call}
      BY <1>2, EnsuredWorker
    <3>. QED BY <1>5, <3>1, <3>2, BoundsAssumption DEF Request, Ids, id
  <2>5. \A r \in wire'[w] : r.id <= id /\ inflight'[r.id] \in {None, r.call}
    BY <1>5, <1>7, <1>8, <2>4, BoundsAssumption DEF Ids
  <2>6. \A i \in Ids : inflight'[i] # None => i <= id
    BY <1>5, <1>6, <1>7, BoundsAssumption DEF Ids
  <2>. QED BY <1>2, <1>3, <2>3, <2>5, <2>6 DEF Numbered
<1>12. \A d \in Calls : (Used(d)' <=> Used(d) \/ d = c) /\ (Waits(d)' <=> Waits(d) \/ d = c)
  BY <1>4 DEF Used, Waits
<1>13. Tracked'
  <2>1. \A d \in Calls : /\ IF Used(d)' THEN lint'[d].file \in Files ELSE lint'[d].file = None
                         /\ Waits(d)' => \/ \E i \in Ids : inflight'[i] = d
                                         \/ \E g \in Files : queued'[g] = d
    <3>1. \A d \in Calls : d # None
      BY NoneAssumption DEF Calls
    <3>2. ASSUME NEW d \in Calls, Waits(d)', d # c
          PROVE  (\E i \in Ids : inflight'[i] = d) \/ \E g \in Files : queued'[g] = d
      <4>1. (\E i \in Ids : inflight[i] = d) \/ \E g \in Files : queued[g] = d
        BY <1>1, <1>12, <3>2 DEF Tracked
      <4>2. \A i \in Ids : inflight[i] = d => inflight'[i] = d
        BY <1>5, <1>6, <1>7, <3>1, BoundsAssumption DEF Ids
      <4>. QED BY <1>3, <4>1, <4>2
    <3>3. Waits(c)' => \E i \in Ids : inflight'[i] = c
      BY <1>5, <1>7
    <3>4. \A d \in Calls : IF Used(d)' THEN lint'[d].file \in Files ELSE lint'[d].file = None
      BY <1>1, <1>4, <1>12 DEF Tracked
    <3>. QED BY <3>2, <3>3, <3>4
  <2>2. \A i \in Ids : inflight'[i] # None => lint'[inflight'[i]].outcome = "waiting"
    BY <1>1, <1>4, <1>6, <1>7 DEF Tracked, Waits
  <2>3. \A i, j \in Ids :
          /\ inflight'[i] # None /\ inflight'[j] # None
          /\ lint'[inflight'[i]].file = lint'[inflight'[j]].file
          => i = j
    <3>1. \A i \in Ids \ {id} : inflight'[i] # None =>
              inflight'[i] = inflight[i] /\ lint'[inflight'[i]] = lint[inflight[i]] /\ lint[inflight[i]].file # f
      BY <1>4, <1>6, <1>7 DEF Busy
    <3>2. inflight'[id] = c /\ lint'[c].file = f
      BY <1>4, <1>7
    <3>. QED BY <1>1, <3>1, <3>2 DEF Tracked
  <2>4. \A g \in Files : queued'[g] # None =>
          /\ lint'[queued'[g]].outcome = "waiting" /\ lint'[queued'[g]].file = g
          /\ \E i \in Ids : /\ inflight'[i] # None /\ inflight'[i] < queued'[g]
                            /\ lint'[inflight'[i]].file = g
    <3>. SUFFICES ASSUME NEW g \in Files, queued[g] # None
                  PROVE  /\ lint'[queued[g]].outcome = "waiting" /\ lint'[queued[g]].file = g
                         /\ \E i \in Ids : /\ inflight'[i] # None /\ inflight'[i] < queued[g]
                                           /\ lint'[inflight'[i]].file = g
      BY <1>3
    <3>1. queued[g] \in Calls \ {c}
      BY <1>1, <1>0 DEF TypeOK
    <3>2. PICK i \in Ids : inflight[i] # None /\ inflight[i] < queued[g] /\ lint[inflight[i]].file = g
      BY <1>1 DEF Tracked
    <3>3. i # id
      BY <1>5, <1>6, <3>2, BoundsAssumption DEF Ids
    <3>4. inflight'[i] = inflight[i] /\ lint'[inflight[i]] = lint[inflight[i]]
      BY <1>4, <1>6, <1>7, <3>2, <3>3
    <3>. QED BY <1>1, <1>4, <3>1, <3>2, <3>4 DEF Tracked, Waits
  <2>. QED BY <2>1, <2>2, <2>3, <2>4 DEF Tracked, Waits
<1>14. InOrder'
  <2>. SUFFICES ASSUME NEW e \in Calls, NEW d \in Calls, d < e, Used(e)' PROVE Used(d)'
    BY DEF InOrder
  <2>1. CASE e = c
    BY <1>12, <2>1, BoundsAssumption DEF NextCall, Used, Calls
  <2>2. CASE e # c
    BY <1>12, <2>2 DEF IInv, InOrder
  <2>. QED BY <2>1, <2>2
<1>15. AnswersOwnText'
  BY <1>4 DEF IInv, AnswersOwnText
<1>16. LatestWins'
  <2>1. ASSUME NEW d \in Calls, lint'[d].outcome = "superseded"
        PROVE  \E e \in Calls : lint'[e].file = lint'[d].file /\ e > d
    <3>1. d # c /\ lint'[d] = lint[d]
      BY <1>4, <2>1
    <3>2. PICK e \in Calls : lint[e].file = lint[d].file /\ e > d
      BY <2>1, <3>1 DEF IInv, LatestWins
    <3>3. e # c
      <4>1. lint[d].file \in Files /\ lint[c].file = None
        BY <1>1, <2>1, <3>1, <1>0 DEF Tracked, Used
      <4>. QED BY <3>2, <4>1, NoneAssumption
    <3>. QED BY <1>4, <3>1, <3>2, <3>3
  <2>2. ASSUME NEW d \in Calls, lint'[d].outcome = "messages",
               NEW e \in Calls, lint'[e].file = lint'[d].file, e < d
        PROVE  ~Waits(e)'
    <3>1. d # c /\ lint'[d] = lint[d] /\ d < c
      BY <1>4, <2>2, <1>0 DEF Used
    <3>2. e # c
      BY <2>2, <3>1, BoundsAssumption DEF Calls
    <3>. QED BY <1>4, <1>12, <2>2, <3>1, <3>2 DEF IInv, LatestWins, Waits
  <2>. QED BY <2>1, <2>2 DEF LatestWins, Waits
<1>. QED BY <1>9, <1>10, <1>11, <1>13, <1>14, <1>15, <1>16 DEF IInv

\* A refused lint is answered at once, about nothing.
LEMMA Refuses ==
    ASSUME IInv, NEW f \in Files, NEW c \in NextCall, Refuse(f, c)
    PROVE  IInv'
<1>0. /\ \A d \in Calls : d # None
      /\ c \in Calls /\ lint[c].outcome = "none"
      /\ \A d \in Calls : Used(d) => d < c
      /\ \A i \in Ids : inflight[i] # c
      /\ \A g \in Files : queued[g] # c
  BY NewestLint
<1>1. TypeOK /\ Tracked
  BY DEF IInv
<1>2. /\ lint' \in [Calls -> Lint]
      /\ lint'[c].file = f /\ lint'[c].outcome \in {"untrusted", "configError"}
      /\ \A d \in Calls \ {c} : lint'[d] = lint[d]
      /\ UNCHANGED <<trust, proc, worker, nextId, inflight, queued, wire>>
  <2>1. PICK o \in {"untrusted", "configError"} :
            lint' = [lint EXCEPT ![c] = NewLint(f, o)]
    BY DEF Refuse
  <2>. QED BY <1>0, <1>1, <2>1, FreshLint DEF Refuse, pool, TypeOK, Outcomes
<1>3. \A d \in Calls : (Used(d)' <=> Used(d) \/ d = c) /\ (Waits(d)' <=> Waits(d))
  BY <1>2, <1>0 DEF Used, Waits
<1>4. TypeOK' /\ Alive'
  BY <1>1, <1>2 DEF TypeOK, IInv, Alive
<1>5. Numbered'
  <2>1. Sent \subseteq Sent' /\ Sent' \in SUBSET Calls
    BY <1>2, <1>3 DEF Sent
  <2>2. Cardinality(Sent) <= Cardinality(Sent') /\ Cardinality(Sent) \in Nat /\ Cardinality(Sent') \in Nat
    BY <2>1, SubsetCounts
  <2>. QED BY <1>1, <1>2, <2>2, BoundsAssumption DEF IInv, Numbered, TypeOK
<1>6. Tracked'
  <2>1. \A i \in Ids : inflight[i] # None => inflight[i] \in Calls \ {c}
    BY <1>1, <1>0 DEF TypeOK
  <2>2. \A g \in Files : queued[g] # None => queued[g] \in Calls \ {c}
    BY <1>1, <1>0 DEF TypeOK
  <2>3. \A d \in Calls : IF Used(d)' THEN lint'[d].file \in Files ELSE lint'[d].file = None
    BY <1>1, <1>2, <1>3 DEF Tracked
  <2>. QED BY <1>1, <1>2, <1>3, <2>1, <2>2, <2>3 DEF Tracked
<1>7. InOrder'
  <2>. SUFFICES ASSUME NEW e \in Calls, NEW d \in Calls, d < e, Used(e)' PROVE Used(d)'
    BY DEF InOrder
  <2>1. CASE e = c
    BY <1>3, <2>1, BoundsAssumption DEF NextCall, Used, Calls
  <2>2. CASE e # c
    BY <1>3, <2>2 DEF IInv, InOrder
  <2>. QED BY <2>1, <2>2
<1>8. AnswersOwnText'
  BY <1>2 DEF IInv, AnswersOwnText
<1>9. LatestWins'
  <2>1. ASSUME NEW d \in Calls, lint'[d].outcome = "superseded"
        PROVE  \E e \in Calls : lint'[e].file = lint'[d].file /\ e > d
    <3>1. d # c /\ lint'[d] = lint[d]
      BY <1>2, <2>1
    <3>2. PICK e \in Calls : lint[e].file = lint[d].file /\ e > d
      BY <2>1, <3>1 DEF IInv, LatestWins
    <3>3. e # c
      <4>1. lint[d].file \in Files /\ lint[c].file = None
        BY <1>1, <2>1, <3>1, <1>0 DEF Tracked, Used
      <4>. QED BY <3>2, <4>1, NoneAssumption
    <3>. QED BY <1>2, <3>1, <3>2, <3>3
  <2>2. ASSUME NEW d \in Calls, lint'[d].outcome = "messages",
               NEW e \in Calls, lint'[e].file = lint'[d].file, e < d
        PROVE  ~Waits(e)'
    <3>1. CASE e = c
      BY <1>2, <3>1 DEF Waits
    <3>2. CASE e # c
      BY <1>2, <1>3, <2>2, <3>2 DEF IInv, LatestWins, Waits
    <3>. QED BY <3>1, <3>2
  <2>. QED BY <2>1, <2>2 DEF LatestWins, Waits
<1>. QED BY <1>4, <1>5, <1>6, <1>7, <1>8, <1>9 DEF IInv

\* What the registered worker's bookkeeping says of a line it will answer for.
LEMMA HeardLine ==
    ASSUME IInv, NEW w \in Workers, NEW r \in wire[w], Heard(w, r.id) # None
    PROVE  /\ w = worker /\ r.id \in Ids /\ r.id <= nextId /\ r.call \in Calls
           /\ inflight[r.id] = r.call /\ Waits(r.call) /\ lint[r.call].file \in Files
           /\ Heard(w, r.id) = r.call
<1>1. w = worker /\ Heard(w, r.id) = inflight[r.id] /\ inflight[r.id] # None
  BY DEF Heard, Registered
<1>2. w # None
  BY NoneAssumption DEF Workers
<1>3. r \in Request
  BY DEF IInv, TypeOK
<1>4. r.id <= nextId /\ inflight[r.id] = r.call
  BY <1>1, <1>2 DEF IInv, Numbered
<1>5. r.id \in Ids /\ r.call \in Calls
  BY <1>3 DEF Request
<1>6. Waits(r.call) /\ lint[r.call].file \in Files
  BY <1>1, <1>4, <1>5 DEF IInv, Tracked, Waits, Used
<1>. QED BY <1>1, <1>4, <1>5, <1>6

\* A line nobody waits for any more is dropped.
LEMMA DropsLine ==
    ASSUME IInv, NEW w \in Workers, NEW r \in wire[w], Line(w, r), Heard(w, r.id) = None
    PROVE  IInv'
<1>1. /\ wire' = [wire EXCEPT ![w] = @ \ {r}]
      /\ UNCHANGED <<trust, proc, worker, nextId, inflight, queued, lint>>
  BY DEF Line, pool
<1>2. wire' \in [Workers -> SUBSET Request] /\ \A v \in Workers : wire'[v] \subseteq wire[v]
  BY <1>1 DEF IInv, TypeOK
<1>3. TypeOK'
  BY <1>1, <1>2 DEF IInv, TypeOK
<1>4. Alive'
  BY <1>1, <1>2 DEF IInv, Alive
<1>5. Numbered'
  <2>1. worker # None => worker \in Workers
    BY DEF IInv, TypeOK
  <2>. QED BY <1>1, <1>2, <2>1 DEF IInv, Numbered, Sent, Used
<1>. QED BY <1>1, <1>3, <1>4, <1>5 DEF IInv, Tracked, InOrder, AnswersOwnText, LatestWins, Used, Waits

\* An answered lint keeps its file and gets its own text's messages, or an error.
LEMMA AnswersLine ==
    ASSUME IInv, NEW w \in Workers, NEW r \in wire[w], Line(w, r), Heard(w, r.id) # None
    PROVE  IInv'
<1> DEFINE c == r.call  f == lint[c].file  next == queued[f]  id == nextId + 1
<1>1. TypeOK /\ Tracked /\ Numbered /\ Alive
  BY DEF IInv
<1>2. /\ w = worker /\ w # None /\ r.id \in Ids /\ r.id <= nextId /\ c \in Calls
      /\ inflight[r.id] = c /\ Waits(c) /\ f \in Files /\ Heard(w, r.id) = c
      /\ \A d \in Calls : d # None
  BY HeardLine, NoneAssumption DEF Workers, Calls
<1>3. PICK a \in {[outcome |-> "messages", about |-> c], [outcome |-> "configError", about |-> None]} :
          lint' = [lint EXCEPT ![c] = [file |-> f, outcome |-> a.outcome, about |-> a.about]]
  BY <1>2 DEF Line
<1>4. /\ queued' = [queued EXCEPT ![f] = None]
      /\ IF next = None
            THEN /\ inflight' = [inflight EXCEPT ![r.id] = None]
                 /\ wire' = [wire EXCEPT ![w] = @ \ {r}]
                 /\ nextId' = nextId
            ELSE /\ inflight' = [inflight EXCEPT ![r.id] = None, ![id] = next]
                 /\ nextId' = id
                 /\ wire' = [wire EXCEPT ![w] = (@ \ {r}) \cup Write(id, next)]
      /\ UNCHANGED <<trust, proc, worker>>
  BY <1>2 DEF Line
<1>5. /\ lint' \in [Calls -> Lint]
      /\ lint'[c].file = f /\ lint'[c].outcome \in {"messages", "configError"}
      /\ lint'[c].outcome = "messages" => lint'[c].about = c
      /\ \A d \in Calls \ {c} : lint'[d] = lint[d]
  BY <1>1, <1>2, <1>3 DEF TypeOK, Lint, Outcomes
<1>6. \A d \in Calls : (Used(d)' <=> Used(d)) /\ (Waits(d)' <=> Waits(d) /\ d # c)
  BY <1>2, <1>5 DEF Used, Waits
<1> HIDE DEF c, f, next, id
<1>7. \A i \in Ids : inflight[i] = c \/ (inflight[i] # None /\ lint[inflight[i]].file = f) => i = r.id
  BY <1>1, <1>2 DEF Tracked, f
<1>8. next # None => /\ next \in Calls /\ Waits(next) /\ lint[next].file = f /\ c < next
                     /\ lint'[next] = lint[next] /\ next \notin Sent /\ Used(next)
                     /\ id \in Ids /\ nextId < id /\ id <= Cardinality(Sent \cup {next})
  <2>. SUFFICES ASSUME next # None
                PROVE  /\ next \in Calls /\ Waits(next) /\ lint[next].file = f /\ c < next
                       /\ lint'[next] = lint[next] /\ next \notin Sent /\ Used(next)
                       /\ id \in Ids /\ nextId < id /\ id <= Cardinality(Sent \cup {next})
    OBVIOUS
  <2>1. next \in Calls /\ Waits(next) /\ lint[next].file = f /\ Used(next)
    BY <1>1, <1>2 DEF TypeOK, Tracked, next, Waits, Used
  <2>2. PICK i \in Ids : inflight[i] # None /\ inflight[i] < next /\ lint[inflight[i]].file = f
    BY <1>1, <1>2 DEF Tracked, next
  <2>3. c < next
    BY <1>2, <1>7, <2>2
  <2>4. lint'[next] = lint[next]
    BY <1>2, <1>5, <2>1, <2>3, BoundsAssumption DEF Calls
  <2>5. next \notin Sent /\ Sent \in SUBSET Calls
    BY <1>2 DEF Sent, next
  <2>6. nextId \in Nat /\ nextId <= Cardinality(Sent)
    BY <1>1, BoundsAssumption DEF Numbered, TypeOK
  <2>7. /\ Cardinality(Sent) \in Nat /\ Cardinality(Sent) + 1 <= MaxCalls
        /\ Cardinality(Sent \cup {next}) = Cardinality(Sent) + 1
    BY <2>1, <2>5, OneMore
  <2>8. id \in Ids /\ nextId < id /\ id <= Cardinality(Sent \cup {next})
    BY <2>6, <2>7, BoundsAssumption DEF Ids, id
  <2>. QED BY <2>1, <2>3, <2>4, <2>5, <2>8
<1>9. queued'[f] = None /\ \A g \in Files \ {f} : queued'[g] = queued[g]
  BY <1>1, <1>2, <1>4 DEF TypeOK
<1>10. \A i \in Ids : inflight[i] # None => i <= nextId /\ (next # None => i # id) /\ inflight[i] \in Calls
  BY <1>1, <1>8, BoundsAssumption DEF Numbered, TypeOK, Ids
<1>11. /\ next = None => inflight'[r.id] = None
       /\ next # None => inflight'[id] = next /\ id # r.id /\ inflight'[r.id] = None
       /\ \A i \in Ids : inflight'[i] # None => \/ (i = id /\ next # None)
                                       \/ (inflight'[i] = inflight[i] /\ i # r.id)
       /\ \A i \in Ids : inflight[i] # None /\ i # r.id => inflight'[i] = inflight[i]
       /\ inflight' \in [Ids -> Calls \cup {None}]
  <2>1. CASE next = None
    BY <1>1, <1>2, <1>4, <2>1 DEF TypeOK
  <2>2. CASE next # None
    <3>1. id # r.id
      BY <1>2, <1>10, <2>2
    <3>2. inflight' = [inflight EXCEPT ![r.id] = None, ![id] = next] /\ id \in Ids /\ next \in Calls
      BY <1>4, <1>8, <2>2
    <3>. QED BY <1>1, <1>2, <1>10, <2>2, <3>1, <3>2 DEF TypeOK
  <2>. QED BY <2>1, <2>2
<1>12. /\ wire' \in [Workers -> SUBSET Request]
       /\ \A v \in Workers \ {w} : wire'[v] = wire[v]
       /\ \A q \in wire'[w] : q \in wire[w] \/ (next # None /\ q = [id |-> id, call |-> next])
  <2>1. CASE next = None
    BY <1>1, <1>4, <2>1 DEF TypeOK
  <2>2. CASE next # None
    <3>1. [id |-> id, call |-> next] \in Request
      BY <1>8, <2>2 DEF Request
    <3>. QED BY <1>1, <1>4, <2>2, <3>1 DEF TypeOK, Write
  <2>. QED BY <2>1, <2>2
<1>13. nextId' \in 0..MaxCalls /\ nextId' = IF next = None THEN nextId ELSE id
  <2>1. nextId \in 0..MaxCalls
    BY <1>1 DEF TypeOK
  <2>2. next # None => id \in 0..MaxCalls
    BY <1>8, BoundsAssumption DEF Ids
  <2>. QED BY <1>4, <2>1, <2>2
<1>14. TypeOK'
  BY <1>1, <1>4, <1>5, <1>9, <1>11, <1>12, <1>13 DEF TypeOK
<1>15. Alive'
  <2>1. proc[w] # "none"
    BY <1>1, <1>2 DEF Alive
  <2>. QED BY <1>1, <1>2, <1>4, <1>12, <2>1 DEF Alive
<1>16. Numbered'
  <2>1. Sent' = IF next = None THEN Sent ELSE Sent \cup {next}
    <3>1. CASE next = None
      BY <1>2, <1>6, <1>9, <3>1 DEF Sent, next
    <3>2. CASE next # None
      <4>1. \A d \in Calls : (\A g \in Files : queued'[g] # d) <=> (\A g \in Files : queued[g] # d) \/ d = next
        <5>1. \A g \in Files \ {f} : queued[g] # next
          BY <1>1, <1>8, <3>2 DEF Tracked
        <5>2. queued[f] = next
          BY DEF next
        <5>. QED BY <1>2, <1>9, <3>2, <5>1, <5>2
      <4>. QED BY <1>6, <1>8, <3>2, <4>1 DEF Sent
    <3>. QED BY <3>1, <3>2
  <2>2. nextId' <= Cardinality(Sent')
    <3>1. CASE next = None
      BY <1>1, <1>13, <2>1, <3>1 DEF Numbered
    <3>2. CASE next # None
      BY <1>8, <1>13, <2>1, <3>2
    <3>. QED BY <3>1, <3>2
  <2>3. \A i \in Ids : inflight'[i] # None => i <= nextId'
    <3>1. nextId \in Nat
      BY <1>1, BoundsAssumption DEF TypeOK
    <3>. QED BY <1>8, <1>10, <1>11, <1>13, <3>1, BoundsAssumption DEF Ids
  <2>4. \A q \in wire'[w] : q.id <= nextId' /\ inflight'[q.id] \in {None, q.call}
    <3>. SUFFICES ASSUME NEW q \in wire'[w] PROVE q.id <= nextId' /\ inflight'[q.id] \in {None, q.call}
      OBVIOUS
    <3>1. CASE next # None /\ q = [id |-> id, call |-> next]
      BY <1>8, <1>11, <1>13, <3>1, BoundsAssumption DEF Ids
    <3>2. CASE q \in wire[w]
      <4>1. q.id \in Ids /\ nextId \in Nat
        BY <1>1, <3>2, BoundsAssumption DEF TypeOK, Request
      <4>2. q.id <= nextId /\ inflight[q.id] \in {None, q.call}
        BY <1>1, <1>2, <3>2 DEF Numbered
      <4>3. next # None => q.id # id
        BY <1>8, <4>1, <4>2, BoundsAssumption DEF Ids
      <4>. QED BY <1>8, <1>11, <1>13, <4>1, <4>2, <4>3, BoundsAssumption DEF Ids
    <3>. QED BY <1>12, <3>1, <3>2
  <2>. QED BY <1>2, <1>4, <2>2, <2>3, <2>4 DEF Numbered
<1>17. Tracked'
  <2>1. \A d \in Calls : /\ IF Used(d)' THEN lint'[d].file \in Files ELSE lint'[d].file = None
                         /\ Waits(d)' => \/ \E i \in Ids : inflight'[i] = d
                                         \/ \E g \in Files : queued'[g] = d
    <3>1. \A d \in Calls : IF Used(d)' THEN lint'[d].file \in Files ELSE lint'[d].file = None
      BY <1>1, <1>2, <1>5, <1>6 DEF Tracked, Used, Waits
    <3>2. ASSUME NEW d \in Calls, Waits(d)'
          PROVE  (\E i \in Ids : inflight'[i] = d) \/ \E g \in Files : queued'[g] = d
      <4>1. Waits(d) /\ d # c /\ d # None
        BY <1>2, <1>6, <3>2
      <4>2. ASSUME NEW i \in Ids, inflight[i] = d PROVE inflight'[i] = d
        BY <1>2, <1>11, <4>1, <4>2
      <4>3. ASSUME NEW g \in Files, queued[g] = d
            PROVE  (\E i \in Ids : inflight'[i] = d) \/ \E h \in Files : queued'[h] = d
        BY <1>8, <1>9, <1>11, <4>1, <4>3 DEF next
      <4>. QED BY <1>1, <4>1, <4>2, <4>3 DEF Tracked
    <3>. QED BY <3>1, <3>2
  <2>2. ASSUME NEW i \in Ids, inflight'[i] # None
        PROVE  /\ lint'[inflight'[i]].outcome = "waiting"
               /\ lint'[inflight'[i]].file = f <=> i = id /\ next # None
               /\ \/ i = id /\ next # None
                  \/ inflight'[i] = inflight[i] /\ lint'[inflight[i]] = lint[inflight[i]]
    <3>1. CASE i = id /\ next # None
      BY <1>8, <1>11, <3>1 DEF Waits
    <3>2. CASE inflight'[i] = inflight[i] /\ i # r.id
      <4>1. inflight[i] # c /\ lint[inflight[i]].file # f /\ inflight[i] \in Calls
        BY <1>7, <1>10, <2>2, <3>2
      <4>2. lint'[inflight[i]] = lint[inflight[i]] /\ Waits(inflight[i])
        BY <1>1, <1>5, <2>2, <3>2, <4>1 DEF Tracked
      <4>3. ~(i = id /\ next # None)
        BY <1>10, <2>2, <3>2
      <4>. QED BY <3>2, <4>1, <4>2, <4>3 DEF Waits
    <3>. QED BY <1>11, <2>2, <3>1, <3>2
  <2>3. \A i, j \in Ids :
          /\ inflight'[i] # None /\ inflight'[j] # None
          /\ lint'[inflight'[i]].file = lint'[inflight'[j]].file
          => i = j
    BY <1>1, <2>2 DEF Tracked
  <2>4. \A g \in Files : queued'[g] # None =>
          /\ lint'[queued'[g]].outcome = "waiting" /\ lint'[queued'[g]].file = g
          /\ \E i \in Ids : /\ inflight'[i] # None /\ inflight'[i] < queued'[g]
                            /\ lint'[inflight'[i]].file = g
    <3>. SUFFICES ASSUME NEW g \in Files, g # f, queued[g] # None
                  PROVE  /\ lint'[queued[g]].outcome = "waiting" /\ lint'[queued[g]].file = g
                         /\ \E i \in Ids : /\ inflight'[i] # None /\ inflight'[i] < queued[g]
                                           /\ lint'[inflight'[i]].file = g
      BY <1>2, <1>9
    <3>1. queued[g] \in Calls /\ Waits(queued[g]) /\ lint[queued[g]].file = g
      BY <1>1 DEF TypeOK, Tracked
    <3>2. queued[g] # c /\ lint'[queued[g]] = lint[queued[g]]
      BY <1>5, <3>1 DEF f
    <3>3. PICK i \in Ids : inflight[i] # None /\ inflight[i] < queued[g] /\ lint[inflight[i]].file = g
      BY <1>1 DEF Tracked
    <3>4. i # r.id /\ inflight[i] # c
      BY <1>2, <1>7, <3>3 DEF f
    <3>5. inflight'[i] = inflight[i] /\ lint'[inflight[i]] = lint[inflight[i]]
      BY <1>5, <1>10, <1>11, <3>3, <3>4
    <3>. QED BY <3>1, <3>2, <3>3, <3>5 DEF Waits
  <2>. QED BY <2>1, <2>2, <2>3, <2>4 DEF Tracked, Waits
<1>18. InOrder'
  BY <1>6 DEF IInv, InOrder
<1>19. AnswersOwnText'
  BY <1>5 DEF IInv, AnswersOwnText
<1>20. LatestWins'
  <2>0. \A d \in Calls : lint'[d].file = lint[d].file
    BY <1>5 DEF f
  <2>1. ASSUME NEW d \in Calls, lint'[d].outcome = "superseded"
        PROVE  \E e \in Calls : lint'[e].file = lint'[d].file /\ e > d
    <3>1. lint[d].outcome = "superseded"
      BY <1>5, <2>1
    <3>. QED BY <2>0, <3>1 DEF IInv, LatestWins
  <2>2. ASSUME NEW d \in Calls, lint'[d].outcome = "messages",
               NEW e \in Calls, lint'[e].file = lint'[d].file, e < d, Waits(e)'
        PROVE  FALSE
    <3>1. Waits(e) /\ e # c /\ lint[e].file = lint[d].file
      BY <1>6, <2>0, <2>2
    <3>2. d = c
      BY <1>5, <2>2, <3>1 DEF IInv, LatestWins, Waits
    <3>3. ASSUME NEW i \in Ids, inflight[i] = e PROVE FALSE
      BY <1>2, <1>7, <3>1, <3>2, <3>3 DEF f
    <3>4. ASSUME NEW g \in Files, queued[g] = e PROVE FALSE
      <4>1. e # None /\ g = lint[e].file
        BY <1>1, <1>2, <3>4 DEF Tracked
      <4>2. e = next
        BY <3>1, <3>2, <3>4, <4>1 DEF next, f
      <4>. QED BY <1>2, <1>8, <2>2, <3>2, <4>1, <4>2, BoundsAssumption DEF Calls
    <3>. QED BY <1>1, <3>1, <3>3, <3>4 DEF Tracked
  <2>. QED BY <2>1, <2>2 DEF LatestWins, Waits
<1>. QED BY <1>14, <1>15, <1>16, <1>17, <1>18, <1>19, <1>20 DEF IInv

-----------------------------------------------------------------------------
(* The invariant is inductive.                                             *)

LEMMA StartsWell == Init => IInv
<1>. SUFFICES ASSUME Init PROVE IInv
  OBVIOUS
<1>1. \A c \in Calls : lint[c] \in Lint /\ ~Used(c) /\ ~Waits(c) /\ lint[c].file = None
                       /\ lint[c].outcome = "none"
  BY DEF Init, Lint, NewLint, Used, Waits
<1>2. TypeOK
  BY <1>1, BoundsAssumption DEF Init, TypeOK, NothingInflight, NothingQueued, NewLint, Lint
<1>3. Alive
  BY DEF Init, Alive
<1>4. Numbered
  <2>1. Cardinality(Sent) \in Nat
    BY SubsetCounts DEF Sent
  <2>. QED BY <2>1 DEF Init, Numbered, NothingInflight
<1>5. Tracked
  BY <1>1 DEF Init, Tracked, NothingInflight, NothingQueued
<1>. QED BY <1>1, <1>2, <1>3, <1>4, <1>5 DEF IInv, InOrder, AnswersOwnText, LatestWins, Used

\* Steps that leave the pool, the lines and the lints alone.
LEMMA Aside ==
    ASSUME IInv, UNCHANGED <<pool, wire, lint>>, trust' \in {"granted", "revoked", "failed"},
           trust' = "revoked" => worker = None,
           proc' \in [Workers -> {"none", "up", "dead", "killed", "gone"}],
           \A w \in Workers : /\ proc'[w] = "up" => proc[w] = "up"
                              /\ proc'[w] = "none" <=> proc[w] = "none"
    PROVE  IInv'
<1>1. worker # None => worker \in Workers
  BY DEF IInv, TypeOK
<1>. QED BY <1>1 DEF IInv, pool, TypeOK, Alive, Numbered, Tracked, InOrder, AnswersOwnText, LatestWins, Used,
            Waits, Sent

\* A worker that is killed does not run; no other did.
LEMMA KilledProcs ==
    ASSUME IInv, KillWorker, worker # None
    PROVE  /\ proc' \in [Workers -> {"none", "up", "dead", "killed", "gone"}]
           /\ \A w \in Workers : proc'[w] # "up" /\ (proc'[w] = "none" <=> proc[w] = "none")
BY DEF IInv, TypeOK, Alive, KillWorker

LEMMA Inductive == IInv /\ [Next]_vars => IInv'
<1>. SUFFICES ASSUME IInv, [Next]_vars PROVE IInv'
  OBVIOUS
<1>0. TypeOK /\ Alive /\ trust \in {"granted", "revoked", "failed"}
  BY DEF IInv, TypeOK
<1>1. ASSUME NEW f \in Files, CallLint(f) PROVE IInv'
  <2>1. PICK c \in NextCall : Refuse(f, c) \/ RunLint(f, c)
    BY <1>1 DEF CallLint
  <2>. QED BY <2>1, Refuses, Queues, Sends
<1>2. CASE Dispose /\ UNCHANGED wire /\ (trust' = trust \/ Revoke)
  <2>0. trust' \in {"granted", "revoked", "failed"}
    BY <1>0, <1>2 DEF Revoke
  <2>1. CASE worker = None
    <3>1. UNCHANGED <<pool, wire, lint, proc>>
      BY <1>2, <2>1 DEF Dispose
    <3>. QED BY <1>0, <2>0, <2>1, <3>1, Aside DEF TypeOK
  <2>2. CASE worker # None
    BY <1>2, <2>0, <2>2, KilledProcs, TearsDown DEF Dispose
  <2>. QED BY <2>1, <2>2
<1>3. CASE Revoke \/ Idle \/ Close
  BY <1>2, <1>3 DEF Revoke, Idle, Close
<1>4. CASE Grant \/ RevokeFails
  BY <1>0, <1>4, Aside DEF Grant, RevokeFails, TypeOK
<1>5. ASSUME NEW i \in Ids, TimeOut(i) PROVE IInv'
  <2>1. worker # None
    BY <1>0, <1>5 DEF TimeOut, Alive, NothingInflight
  <2>. QED BY <1>0, <1>5, <2>1, KilledProcs, TearsDown DEF TimeOut
<1>6. ASSUME NEW w \in Workers, Die(w) PROVE IInv'
  <2>1. trust' = "revoked" => worker = None
    BY <1>0, <1>6 DEF Die, Alive
  <2>2. /\ proc' \in [Workers -> {"none", "up", "dead", "killed", "gone"}]
        /\ \A v \in Workers : /\ proc'[v] = "up" => proc[v] = "up"
                              /\ proc'[v] = "none" <=> proc[v] = "none"
    BY <1>0, <1>6 DEF Die, TypeOK
  <2>. QED BY <1>0, <1>6, <2>1, <2>2, Aside DEF Die
<1>7. ASSUME NEW w \in Workers, Exit(w) PROVE IInv'
  <2>1. /\ proc' \in [Workers -> {"none", "up", "dead", "killed", "gone"}]
        /\ \A v \in Workers : /\ proc'[v] = "up" => proc[v] = "up" /\ v # w
                              /\ proc'[v] = "none" <=> proc[v] = "none"
    BY <1>0, <1>7 DEF Exit, TypeOK
  <2>2. CASE Registered(w)
    <3>1. \A v \in Workers : proc'[v] # "up"
      BY <1>0, <2>1, <2>2 DEF Alive, Registered
    <3>. QED BY <1>0, <1>7, <2>1, <2>2, <3>1, TearsDown DEF Exit
  <2>3. CASE ~Registered(w)
    <3>1. trust' = "revoked" => worker = None
      BY <1>0, <1>7 DEF Exit, Alive
    <3>. QED BY <1>0, <1>7, <2>1, <2>3, <3>1, Aside DEF Exit
  <2>. QED BY <2>2, <2>3
<1>8. ASSUME NEW w \in Workers, NEW r \in wire[w], Line(w, r) PROVE IInv'
  BY <1>8, DropsLine, AnswersLine
<1>9. CASE UNCHANGED vars
  <2>1. trust' = "revoked" => worker = None
    BY <1>0, <1>9 DEF vars, Alive
  <2>. QED BY <1>0, <1>9, <2>1, Aside DEF vars, TypeOK
<1>. QED BY <1>1, <1>3, <1>4, <1>5, <1>6, <1>7, <1>8, <1>9 DEF Next

LEMMA Invariant == Spec => []IInv
BY StartsWell, Inductive, PTL DEF Spec

-----------------------------------------------------------------------------
(* The theorems.                                                           *)

\* Every variable keeps its type; in particular no worker is ever sent more
\* requests than lints were asked for.
THEOREM TypeCorrect == Spec => []TypeOK
<1>1. IInv => TypeOK
  BY DEF IInv
<1>. QED BY <1>1, Invariant, PTL

\* A lint's messages are about its own text, although ids start anew with each
\* worker and an old worker's answers may still be read.
THEOREM AnswersSafe == Spec => []AnswersOwnText
<1>1. IInv => AnswersOwnText
  BY DEF IInv
<1>. QED BY <1>1, Invariant, PTL

\* No process of the pool runs but the registered worker's, and none once the
\* grant was taken back.
THEOREM ProcessesSafe == Spec => []NoStrayProcess
<1>1. IInv => NoStrayProcess
  <2>1. \A w \in Workers : w # None
    BY NoneAssumption DEF Workers
  <2>. QED BY <2>1 DEF IInv, Alive, NoStrayProcess
<1>. QED BY <1>1, Invariant, PTL

\* The newest lint of a file is never dropped for another, and no file goes back
\* from a newer text's messages to an older one's.
THEOREM LatestSafe == Spec => []LatestWins
<1>1. IInv => LatestWins
  BY DEF IInv
<1>. QED BY <1>1, Invariant, PTL

-----------------------------------------------------------------------------
(* Every lint settles.                                                     *)

\* The fairness of one timer, and what fairness needs of it: that the timer of a
\* request that awaits an answer can fire.  TimeOut(i) has no other guard than
\* inflight[i] # None, and its effects are assignments; TimersArmed says so, as a
\* hypothesis, because tlapm has no rule for ENABLED.
FairTimer(i) == WF_vars(TimeOut(i))
Armed(i) == inflight[i] # None => ENABLED <<TimeOut(i)>>_vars
TimersFair == \A i \in Ids : FairTimer(i)
TimersArmed == \A i \in Ids : Armed(i)

\* The lint c waits behind the one that request i is about.
Behind(i, c) ==
    /\ inflight[i] # None
    /\ \E f \in Files : queued[f] = c /\ lint[inflight[i]].file = f

\* A lint leaves its request when it is answered, and then the one behind it is
\* sent; it leaves the queue when it is sent or answered.
OneByOne ==
    /\ \A d \in Calls : Waits(d) => lint'[d].file = lint[d].file
    /\ \A i \in Ids : inflight[i] # None =>
          \/ inflight'[i] = inflight[i]
          \/ /\ lint'[inflight[i]].outcome # "waiting"
             /\ \A f \in Files : f = lint[inflight[i]].file /\ queued[f] # None =>
                   \E j \in Ids : inflight'[j] = queued[f]
    /\ \A f \in Files : queued[f] # None =>
          \/ queued'[f] = queued[f] \/ lint'[queued[f]].outcome # "waiting"
          \/ \E j \in Ids : inflight'[j] = queued[f]

\* A worker that is dropped leaves nobody waiting.
LEMMA DropAnswers ==
    ASSUME IInv, NEW late, Teardown(late)
    PROVE  \A c \in Calls : ~Waits(c)'
<1>. SUFFICES ASSUME NEW c \in Calls PROVE ~Waits(c)'
  OBVIOUS
<1>1. TypeOK /\ Tracked
  BY DEF IInv
<1>2. CASE Waits(c)
  <2>1. c # None
    BY NoneAssumption DEF Calls
  <2>2. c \in Outstanding
    BY <1>1, <1>2, <2>1 DEF Tracked, Outstanding
  <2>3. lint[c] \in Lint
    BY <1>1 DEF TypeOK
  <2>. QED BY <2>2, <2>3 DEF Teardown, Lint, Waits
<1>3. CASE ~Waits(c)
  <2>1. \A d \in Outstanding : Waits(d)
    BY <1>1 DEF Outstanding, Tracked, TypeOK
  <2>. QED BY <1>3, <2>1 DEF Teardown, Waits
<1>. QED BY <1>2, <1>3

\* Every step handles the lints one by one, or answers all of them.
LEMMA PoolStep ==
    ASSUME IInv, [Next]_vars
    PROVE  OneByOne \/ \A c \in Calls : ~Waits(c)'
<1>0. /\ TypeOK /\ Numbered /\ Tracked
      /\ \A d \in Calls : d # None
  BY NoneAssumption DEF IInv, Calls
<1>1. ASSUME UNCHANGED <<inflight, queued, lint>> PROVE OneByOne
  BY <1>0, <1>1 DEF OneByOne
<1>2. CASE Revoke \/ Idle \/ Close
  BY <1>1, <1>2, DropAnswers DEF Revoke, Idle, Close, Dispose, pool
<1>3. CASE Grant \/ RevokeFails \/ UNCHANGED vars
  BY <1>1, <1>3 DEF Grant, RevokeFails, vars, pool
<1>4. ASSUME NEW i \in Ids, TimeOut(i) PROVE \A c \in Calls : ~Waits(c)'
  BY <1>4, DropAnswers DEF TimeOut
<1>5. ASSUME NEW w \in Workers, Die(w) \/ Exit(w)
      PROVE  OneByOne \/ \A c \in Calls : ~Waits(c)'
  BY <1>1, <1>5, DropAnswers DEF Die, Exit, pool
<1>6. ASSUME NEW f \in Files, NEW c \in NextCall, Refuse(f, c) PROVE OneByOne
  <2>1. /\ UNCHANGED <<inflight, queued>> /\ \A d \in Calls \ {c} : lint'[d] = lint[d]
        /\ ~Waits(c)
    BY <1>0, <1>6 DEF Refuse, pool, NextCall, Waits, TypeOK
  <2>. QED BY <2>1 DEF OneByOne
<1>7. ASSUME NEW f \in Files, NEW c \in NextCall, RunLint(f, c) PROVE OneByOne
  <2>1. /\ c \in Calls /\ ~Waits(c)
        /\ \A d \in Calls \ {c} : lint'[d].file = lint[d].file
    <3>1. \A d \in Calls : lint[d] \in Lint
      BY <1>0 DEF TypeOK
    <3>. QED BY <1>7, <3>1 DEF RunLint, NextCall, Waits, Lint
  <2>2. CASE Busy(f)
    <3>1. queued' = [queued EXCEPT ![f] = c] /\ UNCHANGED inflight
      BY <1>7, <2>2 DEF RunLint
    <3>2. queued[f] # None => lint'[queued[f]].outcome # "waiting"
      <4>. SUFFICES ASSUME queued[f] # None PROVE lint'[queued[f]].outcome # "waiting"
        OBVIOUS
      <4>1. queued[f] \in Calls /\ Waits(queued[f]) /\ queued[f] # c
        BY <1>0, <2>1 DEF TypeOK, Tracked
      <4>2. queued[f] \in Superseded(f) /\ lint[queued[f]] \in Lint
        BY <1>0, <4>1 DEF Superseded, TypeOK
      <4>3. lint'[queued[f]] = [lint[queued[f]] EXCEPT !.outcome = "superseded"]
        <5>1. lint' = [d \in Calls |->
                         IF d = c THEN NewLint(f, "waiting")
                         ELSE IF d \in Superseded(f) /\ Busy(f) THEN [lint[d] EXCEPT !.outcome = "superseded"]
                         ELSE lint[d]]
          BY <1>7 DEF RunLint
        <5>. QED BY <2>2, <4>1, <4>2, <5>1
      <4>. QED BY <4>2, <4>3 DEF Lint, Waits
    <3>3. \A g \in Files : g # f => queued'[g] = queued[g]
      BY <1>0, <3>1 DEF TypeOK
    <3>. QED BY <2>1, <3>1, <3>2, <3>3 DEF OneByOne
  <2>3. CASE ~Busy(f)
    <3>1. inflight' = [inflight EXCEPT ![nextId + 1] = c] /\ UNCHANGED queued
      BY <1>7, <2>3 DEF RunLint
    <3>2. \A i \in Ids : inflight[i] # None => inflight'[i] = inflight[i]
      BY <1>0, <3>1, BoundsAssumption DEF Numbered, TypeOK, Ids
    <3>. QED BY <2>1, <3>1, <3>2 DEF OneByOne
  <2>. QED BY <2>2, <2>3
<1>8. ASSUME NEW w \in Workers, NEW r \in wire[w], Line(w, r) PROVE OneByOne
  <2>1. CASE Heard(w, r.id) = None
    BY <1>1, <1>8, <2>1 DEF Line, pool
  <2>2. CASE Heard(w, r.id) # None
    <3> DEFINE c == r.call  f == lint[c].file
    <3>1. /\ r.id \in Ids /\ r.id <= nextId /\ c \in Calls /\ inflight[r.id] = c
          /\ Waits(c) /\ f \in Files /\ Heard(w, r.id) = c
      BY <2>2, HeardLine
    <3>2. /\ lint'[c].file = f /\ ~Waits(c)'
          /\ \A d \in Calls \ {c} : lint'[d] = lint[d]
      <4>1. PICK a \in {[outcome |-> "messages", about |-> r.call],
                        [outcome |-> "configError", about |-> None]} :
               lint' = [lint EXCEPT ![c] = [file |-> f, outcome |-> a.outcome, about |-> a.about]]
        BY <1>8, <2>2, <3>1 DEF Line
      <4>2. a.outcome # "waiting"
        OBVIOUS
      <4>. QED BY <1>0, <3>1, <4>1, <4>2 DEF TypeOK, Waits
    <3>3. /\ queued' = [queued EXCEPT ![f] = None]
          /\ \/ queued[f] = None /\ inflight' = [inflight EXCEPT ![r.id] = None]
             \/ /\ queued[f] # None
                /\ inflight' = [inflight EXCEPT ![r.id] = None, ![nextId + 1] = queued[f]]
      BY <1>8, <2>2, <3>1 DEF Line
    <3>. HIDE DEF c, f
    <3>4. queued[f] # None => nextId + 1 \in Ids
      <4>. SUFFICES ASSUME queued[f] # None PROVE nextId + 1 \in Ids
        OBVIOUS
      <4>1. queued[f] \in Calls /\ queued[f] \notin Sent /\ Sent \in SUBSET Calls
        BY <1>0, <3>1 DEF TypeOK, Sent
      <4>2. Cardinality(Sent) \in Nat /\ Cardinality(Sent) + 1 <= MaxCalls
        BY <4>1, OneMore
      <4>. QED BY <1>0, <4>2, BoundsAssumption DEF Numbered, TypeOK, Ids
    <3>5. queued[f] # None => \E j \in Ids : inflight'[j] = queued[f]
      BY <1>0, <3>1, <3>3, <3>4 DEF TypeOK
    <3>6. \A i \in Ids : inflight[i] # None /\ i # r.id => inflight'[i] = inflight[i]
      BY <1>0, <3>1, <3>3, BoundsAssumption DEF TypeOK, Ids, Numbered
    <3>7. \A g \in Files : g # f => queued'[g] = queued[g]
      BY <1>0, <3>3 DEF TypeOK
    <3>8. \A g \in Files : g = lint[inflight[r.id]].file => g = f
      BY <3>1 DEF f
    <3>9. lint'[c].file = lint[c].file
      BY <3>2 DEF f
    <3>10. \A d \in Calls : Waits(d) => lint'[d].file = lint[d].file
      BY <3>2, <3>9
    <3>11. \A i \in Ids : inflight[i] # None =>
             \/ inflight'[i] = inflight[i]
             \/ /\ lint'[inflight[i]].outcome # "waiting"
                /\ \A g \in Files : g = lint[inflight[i]].file /\ queued[g] # None =>
                      \E j \in Ids : inflight'[j] = queued[g]
      BY <3>1, <3>2, <3>5, <3>6, <3>8 DEF Waits
    <3>12. \A g \in Files : queued[g] # None =>
             queued'[g] = queued[g] \/ \E j \in Ids : inflight'[j] = queued[g]
      BY <3>5, <3>7
    <3>. QED BY <3>10, <3>11, <3>12 DEF OneByOne
  <2>. QED BY <2>1, <2>2
<1>. QED BY <1>2, <1>3, <1>4, <1>5, <1>6, <1>7, <1>8 DEF Next, CallLint

OnItsWay(c) == \E j \in Ids : inflight[j] = c

\* A lint that was sent is answered or stays with its request.
LEMMA SentSettles ==
    ASSUME NEW c \in Calls, NEW i \in Ids
    PROVE  []IInv /\ [][Next]_vars /\ FairTimer(i) /\ []Armed(i)
           => (inflight[i] = c ~> ~Waits(c))
<1>1. IInv /\ inflight[i] = c /\ [Next]_vars => (inflight[i] = c)' \/ ~Waits(c)'
  <2>1. c # None
    BY NoneAssumption DEF Calls
  <2>. QED BY <2>1, PoolStep DEF OneByOne, Waits
<1>2. IInv /\ inflight[i] = c /\ <<TimeOut(i)>>_vars => ~Waits(c)'
  BY DropAnswers DEF TimeOut
<1>3. Armed(i) /\ inflight[i] = c => ENABLED <<TimeOut(i)>>_vars
  <2>1. c # None
    BY NoneAssumption DEF Calls
  <2>. QED BY <2>1 DEF Armed
<1>. QED BY <1>1, <1>2, <1>3, PTL DEF FairTimer

\* A lint that waits for its turn is sent or answered.
LEMMA QueuedMovesUp ==
    ASSUME NEW c \in Calls, NEW i \in Ids
    PROVE  []IInv /\ [][Next]_vars /\ FairTimer(i) /\ []Armed(i)
           => (Behind(i, c) ~> ~Waits(c) \/ OnItsWay(c))
<1>0. c # None
  BY NoneAssumption DEF Calls
<1>1. IInv /\ Behind(i, c) /\ [Next]_vars
      => Behind(i, c)' \/ ~Waits(c)' \/ OnItsWay(c)'
  <2>. SUFFICES ASSUME IInv, Behind(i, c), [Next]_vars, ~(\A d \in Calls : ~Waits(d)')
                PROVE  Behind(i, c)' \/ ~Waits(c)' \/ OnItsWay(c)'
    OBVIOUS
  <2>1. OneByOne
    BY PoolStep
  <2>2. PICK f \in Files : queued[f] = c /\ lint[inflight[i]].file = f
    BY DEF Behind
  <2>3. inflight[i] # None /\ inflight[i] \in Calls /\ Waits(inflight[i])
    BY DEF Behind, IInv, Tracked, TypeOK
  <2>4. lint'[inflight[i]].file = f
    BY <2>1, <2>2, <2>3 DEF OneByOne
  <2>5. \/ queued'[f] = c \/ ~Waits(c)' \/ OnItsWay(c)'
    BY <1>0, <2>1, <2>2 DEF OneByOne, Waits, OnItsWay
  <2>6. inflight'[i] = inflight[i] \/ OnItsWay(c)'
    BY <1>0, <2>1, <2>2, <2>3 DEF OneByOne, OnItsWay
  <2>. QED BY <2>3, <2>4, <2>5, <2>6 DEF Behind
<1>2. IInv /\ Behind(i, c) /\ <<TimeOut(i)>>_vars => ~Waits(c)'
  BY DropAnswers DEF TimeOut
<1>3. Armed(i) /\ Behind(i, c) => ENABLED <<TimeOut(i)>>_vars
  BY DEF Armed, Behind
<1>. QED BY <1>1, <1>2, <1>3, PTL DEF FairTimer

\* Fairness is for good.
LEMMA StaysFair == Fairness => []TimersFair
<1>1. Fairness => TimersFair
  BY PTL DEF Fairness, TimersFair, FairTimer
<1>2. ASSUME NEW i \in Ids PROVE FairTimer(i) => []FairTimer(i)
  BY PTL DEF FairTimer
<1>3. TimersFair => \A i \in Ids : []FairTimer(i)
  BY <1>2 DEF TimersFair
<1>4. (\A i \in Ids : []FairTimer(i)) => []TimersFair
  BY DEF TimersFair
<1>. QED BY <1>1, <1>3, <1>4, PTL

LintSettles(c) == lint[c].outcome = "waiting" ~> lint[c].outcome # "waiting"

\* Every lint is answered, whatever the worker does: one that was sent when its
\* timer fires at the latest (pool.ts:126), and one in the queue after the lint it
\* waits behind.
THEOREM LintsSettle == FairSpec /\ []TimersArmed => EveryLintSettles
<1>1. ASSUME NEW c \in Calls
      PROVE  []IInv /\ [][Next]_vars /\ []TimersFair /\ []TimersArmed => LintSettles(c)
  <2> DEFINE Assumed == []IInv /\ [][Next]_vars /\ []TimersFair /\ []TimersArmed
  <2>1. ASSUME NEW i \in Ids
        PROVE  /\ Assumed => (inflight[i] = c => <>~Waits(c))
               /\ Assumed => (Behind(i, c) => <>(~Waits(c) \/ OnItsWay(c)))
    <3>1. TimersArmed => Armed(i)
      BY DEF TimersArmed
    <3>2. TimersFair => FairTimer(i)
      BY DEF TimersFair
    <3>3. Assumed => []IInv /\ [][Next]_vars /\ FairTimer(i) /\ []Armed(i)
      BY <3>1, <3>2, PTL DEF Assumed
    <3>4. []IInv /\ [][Next]_vars /\ FairTimer(i) /\ []Armed(i) => (inflight[i] = c ~> ~Waits(c))
      BY SentSettles
    <3>5. []IInv /\ [][Next]_vars /\ FairTimer(i) /\ []Armed(i) => (Behind(i, c) ~> ~Waits(c) \/ OnItsWay(c))
      BY QueuedMovesUp
    <3>. QED BY <3>3, <3>4, <3>5, PTL
  <2>2. IInv /\ Waits(c) => OnItsWay(c) \/ \E i \in Ids : Behind(i, c)
    <3>1. c # None
      BY NoneAssumption DEF Calls
    <3>. QED BY <3>1 DEF IInv, Tracked, Behind, OnItsWay
  <2>3. Assumed => (OnItsWay(c) => <>~Waits(c))
    BY <2>1 DEF OnItsWay
  <2>4. Assumed => ((\E i \in Ids : Behind(i, c)) => <>(~Waits(c) \/ OnItsWay(c)))
    BY <2>1
  <2>5. LintSettles(c) <=> (Waits(c) ~> ~Waits(c))
    <3>1. /\ lint[c].outcome = "waiting" <=> Waits(c)
          /\ lint[c].outcome # "waiting" <=> ~Waits(c)
      BY DEF Waits
    <3>. QED BY <3>1, PTL DEF LintSettles
  <2>. QED BY <2>2, <2>3, <2>4, <2>5, PTL DEF Assumed
<1>2. (\A c \in Calls : LintSettles(c)) => EveryLintSettles
  BY PTL DEF LintSettles, EveryLintSettles
<1>3. FairSpec /\ []TimersArmed => []IInv /\ [][Next]_vars /\ []TimersFair /\ []TimersArmed
  BY StaysFair, Invariant, PTL DEF FairSpec, Spec
<1>4. FairSpec /\ []TimersArmed => \A c \in Calls : LintSettles(c)
  BY <1>1, <1>3
<1>. QED BY <1>2, <1>4
=============================================================================
