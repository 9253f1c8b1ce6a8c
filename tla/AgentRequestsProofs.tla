------------------------- MODULE AgentRequestsProofs -------------------------
(***************************************************************************)
(* Machine-checked invariance proofs for the agent-request registry, for   *)
(* any number of windows, agents, terminals and cards.                     *)
(***************************************************************************)
EXTENDS AgentRequests, FiniteSetTheorems, WellFoundedInduction, TLAPS

-----------------------------------------------------------------------------
(* What the helpers preserve.                                              *)

\* Dropping cards leaves a well-typed registry.
LEMMA DropType ==
    ASSUME NEW es, NEW ids, NEW D, DOMAIN es \subseteq D, es \in [DOMAIN es -> Entry]
    PROVE  /\ DOMAIN Drop(es, ids) = DOMAIN es \ ids
           /\ DOMAIN Drop(es, ids) \subseteq D
           /\ Drop(es, ids) \in [DOMAIN Drop(es, ids) -> Entry]
BY DEF Drop

\* Enforcing the cap removes cards and changes none of the others.
LEMMA EnforceCapDrops ==
    ASSUME NEW es
    PROVE  /\ DOMAIN EnforceCap(es) \subseteq DOMAIN es
           /\ \A i \in DOMAIN EnforceCap(es) : EnforceCap(es)[i] = es[i]
           /\ \A i \in DOMAIN es \ DOMAIN EnforceCap(es) : es[i].waiters = {}
BY DEF EnforceCap, Drop, Evicted, Evictable

LEMMA EnforceCapType ==
    ASSUME NEW es, es \in [DOMAIN es -> Entry]
    PROVE  EnforceCap(es) \in [DOMAIN EnforceCap(es) -> Entry]
BY DEF EnforceCap, Drop

\* What typing a body, or an answer, leaves a call in.
LEMMA DoneType == \A r \in Results : Done(r) \in Call
BY DEF Done, Call, Payloads, Waiting

LEMMA TypeBodyType ==
    ASSUME NEW k \in Call, k.phase \in {"asking", "grant"}
    PROVE  TypeBody(k) \in Call
<1>1. [k EXCEPT !.phase = "typing"] \in Call
  BY DEF Call
<1>. QED BY <1>1, DoneType DEF TypeBody, Results

LEMMA AnswerType ==
    ASSUME call \in [Callers -> Call], NEW callers, NEW o \in Outcomes, Answer(callers, o)
    PROVE  call' \in [Callers -> Call]
<1>1. \A k \in Call : AfterAnswer(k, o) \in Call
  BY TypeBodyType, DoneType DEF AfterAnswer, Results
<1>. QED BY <1>1 DEF Answer

\* A window is picked among the live ones, and None only when there is none.
LEMMA PickType ==
    ASSUME NEW ws, NEW f \in ws \cup {None}, NEW on, NEW open, NEW root,
           NEW w \in Pick(ws, f, on, open, root), ws \subseteq Nat
    PROVE  IF ws = {} THEN w = None ELSE w \in ws
<1>1. None \notin ws BY NoneAssumption
<1>. QED BY <1>1 DEF Pick, First

LEMMA PickWindowType ==
    ASSUME TypeOK, NEW root, NEW w \in PickWindow(root)
    PROVE  /\ IF windows = {} THEN w = None ELSE w \in windows
           /\ w \in Nat \cup {None}
<1>1. windows \subseteq Nat
  BY DEF TypeOK
<1>2. focused \in windows \cup {None}
  BY DEF TypeOK
<1>3. IF windows = {} THEN w = None ELSE w \in windows
  BY <1>1, <1>2, PickType DEF PickWindow
<1>. QED BY <1>1, <1>3

LEMMA RegisterType ==
    ASSUME TypeOK, NEW card \in Entry, Register(card)
    PROVE  /\ entries' \in [DOMAIN entries' -> Entry]
           /\ DOMAIN entries' \subseteq 1..(nextId' - 1)
           /\ nextId' \in Nat \ {0}
<1> DEFINE es == Add(entries, [i \in {nextId} |-> card])
<1>1. es \in [DOMAIN es -> Entry] /\ DOMAIN es = DOMAIN entries \cup {nextId}
  BY DEF Add, TypeOK
<1>2. DOMAIN es \subseteq 1..nextId
  BY <1>1 DEF TypeOK
<1>. QED BY <1>1, <1>2, EnforceCapDrops, EnforceCapType DEF Register, TypeOK

\* A registered card is the only new one, and the cards it evicts are unawaited.
LEMMA RegisterAdds ==
    ASSUME TypeOK, NEW card \in Entry, card.waiters # {}, Register(card)
    PROVE  /\ nextId \in DOMAIN entries' /\ entries'[nextId] = card
           /\ nextId \notin DOMAIN entries
           /\ \A i \in DOMAIN entries' \ {nextId} : i \in DOMAIN entries /\ entries'[i] = entries[i]
           /\ \A i \in DOMAIN entries \ DOMAIN entries' : entries[i].waiters = {}
<1> DEFINE es == Add(entries, [i \in {nextId} |-> card])
<1>1. /\ DOMAIN es = DOMAIN entries \cup {nextId}
      /\ es[nextId] = card
      /\ nextId \notin DOMAIN entries
      /\ \A i \in DOMAIN entries : es[i] = entries[i]
  BY DEF Add, TypeOK
<1>2. entries' = EnforceCap(es)
  BY DEF Register
<1>. QED BY <1>1, <1>2, EnforceCapDrops

LEMMA SettleType ==
    ASSUME TypeOK, NEW ids, NEW o \in Outcomes, Settle(ids, o)
    PROVE  /\ entries' \in [DOMAIN entries' -> Entry]
           /\ DOMAIN entries' = DOMAIN entries \ ids
           /\ \A i \in DOMAIN entries' : entries'[i] = entries[i]
           /\ call' \in [Callers -> Call]
BY AnswerType, DropType DEF Settle, TypeOK, Drop

-----------------------------------------------------------------------------
(* Type correctness.                                                       *)

\* The type invariant holds in every reachable state.
THEOREM TypeCorrect == Spec => []TypeOK
<1>1. Init => TypeOK
  BY DoneType, BoundsAssumption, NoneAssumption DEF Init, TypeOK, Results
<1>2. TypeOK /\ [Next]_vars => TypeOK'
  <2> SUFFICES ASSUME TypeOK, [Next]_vars PROVE TypeOK'
    OBVIOUS
  <2>1. ASSUME NEW c \in Callers, NEW root \in Roots \cup {None}, NEW name \in Names,
               RequestSecret(c, root, name)
        PROVE  TypeOK'
    <3>1. CASE RefuseSecret(c)
      BY <2>1, <3>1, DoneType DEF RequestSecret, RefuseSecret, TypeOK, windowVars, Results, Outcomes
    <3>2. CASE JoinSecret(c, root, name)
      <4>1. PICK i \in First(Coalescable(root, name)) :
              entries' = [entries EXCEPT ![i].waiters = @ \cup {c}]
        BY <3>2 DEF JoinSecret
      <4>2. i \in DOMAIN entries
        BY DEF First, Coalescable
      <4>3. entries' \in [DOMAIN entries' -> Entry] /\ DOMAIN entries' = DOMAIN entries
        <5>1. [entries[i] EXCEPT !.waiters = @ \cup {c}] \in Entry
          BY <4>2 DEF TypeOK, Entry
        <5>. QED BY <4>1, <4>2, <5>1 DEF TypeOK
      <4>4. AwaitSecret \in Call
        BY DEF AwaitSecret, Done, Call, Results, Payloads, Waiting
      <4>5. call' \in [Callers -> Call]
        BY <3>2, <4>4 DEF JoinSecret, TypeOK
      <4>. QED BY <2>1, <3>2, <4>3, <4>5 DEF RequestSecret, JoinSecret, TypeOK, windowVars
    <3>3. CASE OpenSecret(c, root, name)
      <4>1. PICK w \in PickWindow(root) : Register(Card("secret", root, name, w, {c}))
        BY <3>3 DEF OpenSecret
      <4>2. w \in Nat \cup {None}
        BY PickWindowType
      <4>3. Card("secret", root, name, w, {c}) \in Entry
        BY <4>2 DEF Card, Entry, Kinds
      <4>4. AwaitSecret \in Call
        BY DEF AwaitSecret, Done, Call, Results, Payloads, Waiting
      <4>5. call' \in [Callers -> Call]
        BY <3>3, <4>4 DEF OpenSecret, TypeOK
      <4>. QED BY <2>1, <4>1, <4>3, <4>5, RegisterType DEF RequestSecret, TypeOK, windowVars
    <3>. QED BY <2>1, <3>1, <3>2, <3>3 DEF RequestSecret
  <2>2. ASSUME NEW c \in Callers, NEW p \in Ptys, NEW payload \in Payloads,
               SendInput(c, p, payload)
        PROVE  TypeOK'
    <3>1. call' \in [Callers -> Call]
      BY <2>2, DoneType DEF SendInput, TypeOK, Call, Results, Outcomes
    <3>. QED BY <2>2, <3>1 DEF SendInput, TypeOK, windowVars
  <2>3. ASSUME NEW c \in Callers, AskFirst(c) PROVE TypeOK'
    <3>1. CASE TypeUnasked(c) \/ TypeGranted(c) \/ RefuseGrant(c)
      <4> DEFINE k == [call[c] EXCEPT !.asked = TRUE]
      <4>1. call[c] \in Call /\ call[c].phase = "asking"
        BY <2>3 DEF AskFirst, TypeOK
      <4>2. k \in Call /\ k.phase = "asking"
        BY <4>1 DEF Call
      <4>3. TypeBody(call[c]) \in Call /\ TypeBody(k) \in Call /\ Done("no") \in Call
        BY <4>1, <4>2, TypeBodyType, DoneType DEF Results, Outcomes
      <4>4. call' \in [Callers -> Call]
        BY <3>1, <4>3 DEF TypeUnasked, TypeGranted, RefuseGrant, TypeOK
      <4>. QED BY <2>3, <3>1, <4>4
               DEF AskFirst, TypeUnasked, TypeGranted, RefuseGrant, TypeOK, windowVars
    <3>2. CASE OpenGrant(c)
      <4>1. PICK w \in PickWindow(None) : Register(Card("grant", None, call[c].pty, w, {c}))
        BY <3>2 DEF OpenGrant
      <4>2. w \in Nat \cup {None}
        BY PickWindowType
      <4>3. call[c].pty \in Ptys
        BY <2>3 DEF AskFirst, TypeOK, Call
      <4>4. Card("grant", None, call[c].pty, w, {c}) \in Entry
        BY <4>2, <4>3 DEF Card, Entry, Kinds
      <4>5. call' \in [Callers -> Call]
        <5>1. call[c] \in Call
          BY DEF TypeOK
        <5>2. [call[c] EXCEPT !.phase = "grant", !.asked = TRUE] \in Call
          BY <4>3, <5>1 DEF Call, Waiting
        <5>3. call' = [call EXCEPT ![c] = [call[c] EXCEPT !.phase = "grant", !.asked = TRUE]]
          BY <3>2 DEF OpenGrant, TypeOK
        <5>. QED BY <5>2, <5>3 DEF TypeOK
      <4>. QED BY <2>3, <4>1, <4>4, <4>5, RegisterType DEF AskFirst, TypeOK, windowVars
    <3>. QED BY <2>3, <3>1, <3>2 DEF AskFirst
  <2>4. ASSUME NEW c \in Callers, Submit(c) PROVE TypeOK'
    BY <2>4, DoneType DEF Submit, TypeOK, windowVars, Results
  <2>5. ASSUME NEW i \in Ids, NEW answer \in BOOLEAN, ResolveSecret(i, answer) PROVE TypeOK'
    BY <2>5, SettleType DEF ResolveSecret, TypeOK, windowVars, Outcomes
  <2>6. ASSUME NEW i \in Ids, NEW answer \in BOOLEAN, ResolveGrant(i, answer) PROVE TypeOK'
    <3>1. granted' \subseteq Ptys
      BY <2>6 DEF ResolveGrant, Shown, TypeOK, Entry
    <3>2. /\ entries' \in [DOMAIN entries' -> Entry]
          /\ DOMAIN entries' \subseteq DOMAIN entries
          /\ call' \in [Callers -> Call]
      BY <2>6, SettleType DEF ResolveGrant, Outcomes
    <3>. QED BY <2>6, <3>1, <3>2 DEF ResolveGrant, TypeOK, windowVars
  <2>7. ASSUME NEW i \in Ids, Dismiss(i) PROVE TypeOK'
    <3>1. CASE DismissNotice(i)
      <4>1. acknowledged' \subseteq Apps
        BY <2>7, <3>1 DEF Dismiss, DismissNotice, Shown, TypeOK, Entry
      <4>2. entries' \in [DOMAIN entries' -> Entry] /\ DOMAIN entries' \subseteq DOMAIN entries
        BY <3>1 DEF DismissNotice, TypeOK, Drop
      <4>. QED BY <2>7, <3>1, <4>1, <4>2 DEF Dismiss, TypeOK, windowVars
    <3>2. CASE DismissRequest(i)
      <4>1. [entries[i] EXCEPT !.dismissed = TRUE] \in Entry
        BY <2>7 DEF Dismiss, Shown, TypeOK, Entry
      <4>2. entries' \in [DOMAIN entries' -> Entry] /\ DOMAIN entries' = DOMAIN entries
        BY <2>7, <3>2, <4>1 DEF Dismiss, DismissRequest, Shown, TypeOK
      <4>. QED BY <2>7, <3>2, <4>2 DEF Dismiss, DismissRequest, TypeOK, windowVars
    <3>. QED BY <2>7, <3>1, <3>2 DEF Dismiss
  <2>8. ASSUME NEW i \in Ids, ForgetNotice(i) PROVE TypeOK'
    <3>1. entries' \in [DOMAIN entries' -> Entry] /\ DOMAIN entries' \subseteq DOMAIN entries
      BY <2>8 DEF ForgetNotice, TypeOK, Drop
    <3>. QED BY <2>8, <3>1 DEF ForgetNotice, TypeOK, windowVars
  <2>9. ASSUME NEW i \in Ids, Expire(i) PROVE TypeOK'
    <3>1. call' \in [Callers -> Call]
      BY <2>9, AnswerType DEF Expire, TypeOK, Outcomes
    <3>2. entries' \in [DOMAIN entries' -> Entry] /\ DOMAIN entries' \subseteq DOMAIN entries
      <4>1. [entries[i] EXCEPT !.state = "expired", !.waiters = {}] \in Entry
        BY <2>9 DEF Expire, TypeOK, Entry
      <4>2. [entries EXCEPT ![i].state = "expired", ![i].waiters = {}]
              = [entries EXCEPT ![i] = [entries[i] EXCEPT !.state = "expired", !.waiters = {}]]
        BY <2>9 DEF Expire, TypeOK
      <4>. QED BY <2>9, <4>1, <4>2 DEF Expire, TypeOK, Drop
    <3>. QED BY <2>9, <3>1, <3>2 DEF Expire, TypeOK, windowVars
  <2>10. ASSUME NEW root \in Roots, NEW name \in Names, VaultByHand(root, name) PROVE TypeOK'
    BY <2>10, SettleType DEF VaultByHand, TypeOK, windowVars, Outcomes
  <2>11. ASSUME NEW p \in Ptys, PtyExit(p) PROVE TypeOK'
    BY <2>11, SettleType DEF PtyExit, TypeOK, windowVars, Outcomes
  <2>12. ASSUME NEW apps \in SUBSET Apps, Reconcile(apps) PROVE TypeOK'
    <3> DEFINE fresh == Fresh(apps)
               kept == Drop(entries, Gone(apps))
    <3>1. fresh \subseteq Apps /\ Cardinality(fresh) \in Nat
      BY <2>12, AppsAssumption, FS_Subset, FS_CardinalityType DEF Fresh, Wanted
    <3>2. PICK new \in NewNotices(fresh) : entries' = EnforceCap(Add(kept, new))
      BY <2>12 DEF Reconcile
    <3>3. DOMAIN new = nextId..(nextId + Cardinality(fresh) - 1)
      BY <3>2 DEF NewNotices
    <3>4. \A i \in DOMAIN new : new[i] \in Entry
      <4>1. \A a \in fresh, w \in windows \cup {None} :
              Card("notice", AppRoot[a], a, w, {}) \in Entry
        BY <3>1, AppsAssumption DEF Card, Entry, Kinds, TypeOK
      <4>2. \A i \in DOMAIN new : \E a \in fresh, w \in windows \cup {None} :
              new[i] = Card("notice", AppRoot[a], a, w, {})
        BY <3>2, <3>3 DEF NewNotices
      <4>. QED BY <4>1, <4>2
    <3>5. /\ Add(kept, new) \in [DOMAIN Add(kept, new) -> Entry]
          /\ DOMAIN Add(kept, new) \subseteq 1..(nextId + Cardinality(fresh) - 1)
      BY <3>1, <3>3, <3>4 DEF Add, Drop, TypeOK
    <3>6. /\ entries' \in [DOMAIN entries' -> Entry]
          /\ DOMAIN entries' \subseteq 1..(nextId + Cardinality(fresh) - 1)
      BY <3>2, <3>5, EnforceCapType, EnforceCapDrops
    <3>7. nextId' = nextId + Cardinality(fresh) /\ nextId' \in Nat \ {0}
      BY <2>12, <3>1 DEF Reconcile, TypeOK
    <3>8. DOMAIN entries' \subseteq 1..(nextId' - 1)
      BY <3>1, <3>6, <3>7 DEF TypeOK
    <3>. QED BY <2>12, <3>6, <3>7, <3>8 DEF Reconcile, TypeOK, windowVars
  <2>13. CASE NewWindow
    <3>1. lastWindow' = lastWindow + 1 /\ lastWindow \in Nat
      BY <2>13 DEF NewWindow, TypeOK
    <3>2. windows' \subseteq 1..lastWindow'
      BY <2>13, <3>1 DEF NewWindow, TypeOK
    <3>. QED BY <2>13, <3>1, <3>2 DEF NewWindow, TypeOK
  <2>14. ASSUME NEW w \in windows, NEW root \in Roots \cup {None}, NEW open \in SUBSET Roots,
                SetActive(w, root) \/ SetTabs(w, open)
         PROVE  TypeOK'
    BY <2>14 DEF SetActive, SetTabs, TypeOK
  <2>15. ASSUME NEW w \in windows \cup {None}, Focus(w) PROVE TypeOK'
    BY <2>15 DEF Focus, TypeOK
  <2>16. ASSUME NEW w \in windows, CloseWindow(w) PROVE TypeOK'
    <3> DEFINE orphans == {i \in DOMAIN entries : entries[i].target = w}
    <3>1. /\ entries' \in [DOMAIN entries' -> Entry]
          /\ DOMAIN entries' \subseteq DOMAIN entries
          /\ call' \in [Callers -> Call]
      <4>1. CASE windows' = {} /\ Settle(orphans, "no")
        BY <4>1, SettleType DEF Outcomes
      <4>2. CASE /\ UNCHANGED call
                 /\ \E to \in [orphans -> windows'] :
                      entries' = [i \in DOMAIN entries |->
                        IF i \in orphans THEN [entries[i] EXCEPT !.target = to[i]]
                        ELSE entries[i]]
        <5>1. PICK to \in [orphans -> windows'] :
                entries' = [i \in DOMAIN entries |->
                  IF i \in orphans THEN [entries[i] EXCEPT !.target = to[i]]
                  ELSE entries[i]]
          BY <4>2
        <5>2. windows' \subseteq Nat
          BY <2>16 DEF CloseWindow, TypeOK
        <5>3. \A i \in orphans : [entries[i] EXCEPT !.target = to[i]] \in Entry
          BY <5>1, <5>2 DEF TypeOK, Entry
        <5>. QED BY <4>2, <5>1, <5>3 DEF TypeOK
      <4>. QED BY <2>16, <4>1, <4>2 DEF CloseWindow, Reroute
    <3>2. focused' \in windows' \cup {None}
      BY <2>16 DEF CloseWindow, TypeOK
    <3>. QED BY <2>16, <3>1, <3>2 DEF CloseWindow, TypeOK
  <2>17. CASE UNCHANGED vars
    BY <2>17 DEF vars, windowVars, TypeOK
  <2>. QED BY <2>1, <2>2, <2>3, <2>4, <2>5, <2>6, <2>7, <2>8, <2>9, <2>10, <2>11, <2>12,
              <2>13, <2>14, <2>15, <2>16, <2>17
           DEF Next, Agent, User, Lifecycle, Desktop
<1>. QED BY <1>1, <1>2, PTL DEF Spec

-----------------------------------------------------------------------------
(* No agent is forgotten.  NoStrandedAgent is not inductive as it stands:  *)
(* the steps that move or merge cards need it card by card.                *)

\* A card holds only agents that wait on that very thing, while it is pending.
HeldRight ==
    \A i \in DOMAIN entries : \A c \in entries[i].waiters :
        /\ call[c].phase = entries[i].kind
        /\ entries[i].state = "pending"
        /\ entries[i].kind = "grant" => call[c].pty = entries[i].subject

HeldOnce ==
    \A i, j \in DOMAIN entries : \A c \in entries[i].waiters :
        c \in entries[j].waiters => i = j

NobodyLost ==
    \A c \in Callers : call[c].phase \in Waiting =>
        \E i \in DOMAIN entries : c \in entries[i].waiters

Holding == HeldRight /\ HeldOnce /\ NobodyLost

LEMMA HoldingSuffices ==
    ASSUME TypeOK, Holding
    PROVE  NoStrandedAgent
<1> SUFFICES ASSUME NEW c \in Callers
             PROVE  IF call[c].phase \in Waiting
                    THEN \E i \in DOMAIN entries :
                             /\ Held(c) = {i}
                             /\ entries[i].state = "pending" /\ entries[i].kind = call[c].phase
                    ELSE Held(c) = {}
  BY DEF NoStrandedAgent
<1>1. CASE call[c].phase \in Waiting
  <2>1. PICK i \in DOMAIN entries : c \in entries[i].waiters
    BY <1>1 DEF Holding, NobodyLost
  <2>2. Held(c) = {i}
    BY <2>1 DEF Holding, HeldOnce, Held
  <2>3. entries[i].state = "pending" /\ entries[i].kind = call[c].phase
    BY <2>1 DEF Holding, HeldRight
  <2>. QED BY <1>1, <2>2, <2>3
<1>2. CASE call[c].phase \notin Waiting
  <2>1. SUFFICES ASSUME NEW i \in Held(c) PROVE FALSE
    BY <1>2
  <2>2. i \in DOMAIN entries /\ c \in entries[i].waiters
    BY DEF Held
  <2>3. call[c].phase = entries[i].kind /\ entries[i].state = "pending"
    BY <2>2 DEF Holding, HeldRight
  <2>4. entries[i].kind = "notice"
    BY <1>2, <2>2, <2>3 DEF TypeOK, Entry, Kinds, Waiting
  <2>5. call[c].phase # "notice"
    BY DEF TypeOK, Call, Waiting
  <2>. QED BY <2>3, <2>4, <2>5
<1>. QED BY <1>1, <1>2

\* Steps that move, flag, drop or add cards without touching a waiter.
LEMMA Rearranged ==
    ASSUME TypeOK, Holding, UNCHANGED call,
           \A i \in DOMAIN entries : entries[i].waiters # {} => i \in DOMAIN entries',
           \A i \in DOMAIN entries' : entries'[i].waiters # {} => i \in DOMAIN entries,
           \A i \in DOMAIN entries \cap DOMAIN entries' :
               /\ entries'[i].waiters = entries[i].waiters
               /\ entries'[i].kind = entries[i].kind
               /\ entries'[i].state = entries[i].state
               /\ entries'[i].subject = entries[i].subject
    PROVE  Holding'
<1>1. HeldRight' BY DEF Holding, HeldRight
<1>2. HeldOnce' BY DEF Holding, HeldOnce
<1>3. NobodyLost' BY DEF Holding, NobodyLost
<1>. QED BY <1>1, <1>2, <1>3 DEF Holding

\* Steps that answer every agent of some cards and take them off those cards.
LEMMA AnsweredAll ==
    ASSUME TypeOK, Holding, NEW ids \in SUBSET DOMAIN entries, NEW o \in Outcomes,
           Answer(WaitersOf(ids), o),
           \A i \in DOMAIN entries' :
               /\ i \in DOMAIN entries
               /\ IF i \in ids THEN entries'[i].waiters = {} ELSE entries'[i] = entries[i],
           \A i \in DOMAIN entries \ ids : i \in DOMAIN entries'
    PROVE  Holding'
<1>1. \A k \in Call : AfterAnswer(k, o).phase \notin Waiting
  BY DEF AfterAnswer, TypeBody, Done, Call, Waiting
<1>2. \A c \in Callers : IF c \in WaitersOf(ids) THEN call'[c].phase \notin Waiting
                                                 ELSE call'[c] = call[c]
  BY <1>1 DEF Answer, TypeOK
<1>3. \A i \in DOMAIN entries', c \in Callers : c \in entries'[i].waiters =>
          /\ i \notin ids /\ entries'[i] = entries[i] /\ c \notin WaitersOf(ids)
  BY DEF WaitersOf, Holding, HeldOnce
<1>4. \A i \in DOMAIN entries' : entries'[i].waiters \subseteq Callers
  BY DEF TypeOK, Entry
<1>5. HeldRight'
  BY <1>2, <1>3, <1>4 DEF Holding, HeldRight
<1>6. HeldOnce'
  BY <1>3, <1>4 DEF Holding, HeldOnce
<1>7. NobodyLost'
  <2> SUFFICES ASSUME NEW c \in Callers, call'[c].phase \in Waiting
               PROVE  \E i \in DOMAIN entries' : c \in entries'[i].waiters
    BY DEF NobodyLost
  <2>1. c \notin WaitersOf(ids) /\ call[c].phase \in Waiting
    BY <1>2
  <2>2. PICK i \in DOMAIN entries : c \in entries[i].waiters
    BY <2>1 DEF Holding, NobodyLost
  <2>. QED BY <2>1, <2>2 DEF WaitersOf
<1>. QED BY <1>5, <1>6, <1>7 DEF Holding

\* Steps that put an agent that was not waiting on a card, new or shared.
LEMMA Enlisted ==
    ASSUME TypeOK, Holding, NEW c \in Callers, call[c].phase \notin Waiting,
           \A d \in Callers \ {c} : call'[d] = call[d],
           NEW i \in DOMAIN entries',
           entries'[i].state = "pending", entries'[i].kind = call'[c].phase,
           entries'[i].kind = "grant" => call'[c].pty = entries'[i].subject,
           IF i \in DOMAIN entries
           THEN entries'[i] = [entries[i] EXCEPT !.waiters = @ \cup {c}]
           ELSE entries'[i].waiters = {c},
           \A j \in DOMAIN entries' \ {i} : j \in DOMAIN entries /\ entries'[j] = entries[j],
           \A j \in DOMAIN entries \ DOMAIN entries' : entries[j].waiters = {}
    PROVE  Holding'
<1>1. \A j \in DOMAIN entries : c \notin entries[j].waiters
  BY DEF Holding, HeldRight, TypeOK, Entry, Kinds, Call, Waiting
<1>2. \A j \in DOMAIN entries : entries[j].waiters \subseteq Callers
  BY DEF TypeOK, Entry
<1>3. i \in DOMAIN entries => /\ entries'[i].waiters = entries[i].waiters \cup {c}
                              /\ entries'[i].kind = entries[i].kind
                              /\ entries'[i].subject = entries[i].subject
  BY DEF TypeOK, Entry
<1>4. HeldRight'
  BY <1>1, <1>2, <1>3 DEF Holding, HeldRight
<1>5. HeldOnce'
  BY <1>1, <1>2, <1>3 DEF Holding, HeldOnce
<1>6. NobodyLost'
  BY <1>2, <1>3 DEF Holding, NobodyLost
<1>. QED BY <1>4, <1>5, <1>6 DEF Holding

\* Steps of one agent that neither starts nor stops waiting on a card.
LEMMA OnTheSide ==
    ASSUME TypeOK, Holding, UNCHANGED entries, NEW c \in Callers,
           call[c].phase \notin Waiting, call'[c].phase \notin Waiting,
           \A d \in Callers \ {c} : call'[d] = call[d]
    PROVE  Holding'
<1>1. \A i \in DOMAIN entries : /\ c \notin entries[i].waiters
                                /\ entries[i].waiters \subseteq Callers
  BY DEF Holding, HeldRight, TypeOK, Entry, Kinds, Call, Waiting
<1>. QED BY <1>1 DEF Holding, HeldRight, HeldOnce, NobodyLost

\* Every step of the registry keeps each waiting agent on exactly one card.
LEMMA HoldingStep == TypeOK /\ Holding /\ [Next]_vars => Holding'
<1> SUFFICES ASSUME TypeOK, Holding, [Next]_vars PROVE Holding'
  OBVIOUS
<1>1. ASSUME NEW c \in Callers, NEW root \in Roots \cup {None}, NEW name \in Names,
             RequestSecret(c, root, name)
      PROVE  Holding'
  <2>1. /\ call[c].phase \notin Waiting
        /\ AwaitSecret.phase = "secret" /\ Done("no").phase = "idle"
    BY <1>1 DEF RequestSecret, Waiting, AwaitSecret, Done
  <2>2. CASE RefuseSecret(c)
    BY <2>1, <2>2, OnTheSide DEF RefuseSecret, Waiting, TypeOK
  <2>3. CASE JoinSecret(c, root, name)
    <3>1. PICK i \in First(Coalescable(root, name)) :
            entries' = [entries EXCEPT ![i].waiters = @ \cup {c}]
      BY <2>3 DEF JoinSecret
    <3>2. /\ i \in DOMAIN entries /\ entries[i].state = "pending"
          /\ entries[i].kind = "secret"
      BY DEF First, Coalescable, SameRequest
    <3>3. /\ DOMAIN entries' = DOMAIN entries
          /\ entries'[i] = [entries[i] EXCEPT !.waiters = @ \cup {c}]
          /\ \A j \in DOMAIN entries \ {i} : entries'[j] = entries[j]
      BY <3>1, <3>2 DEF TypeOK
    <3>4. entries'[i].state = "pending" /\ entries'[i].kind = "secret"
      BY <3>2, <3>3 DEF TypeOK, Entry
    <3>5. /\ call'[c].phase = "secret"
          /\ \A d \in Callers \ {c} : call'[d] = call[d]
      BY <2>1, <2>3 DEF JoinSecret, TypeOK
    <3>. QED BY <2>1, <3>2, <3>3, <3>4, <3>5, Enlisted
  <2>4. CASE OpenSecret(c, root, name)
    <3>1. PICK w \in PickWindow(root) : Register(Card("secret", root, name, w, {c}))
      BY <2>4 DEF OpenSecret
    <3> DEFINE card == Card("secret", root, name, w, {c})
    <3>2. card \in Entry
      BY PickWindowType DEF Card, Entry, Kinds
    <3>3. /\ card.waiters = {c} /\ card.kind = "secret" /\ card.state = "pending"
      BY DEF Card
    <3>4. /\ call'[c].phase = "secret"
          /\ \A d \in Callers \ {c} : call'[d] = call[d]
      BY <2>1, <2>4 DEF OpenSecret, TypeOK
    <3> HIDE DEF card
    <3>5. /\ nextId \in DOMAIN entries' /\ entries'[nextId] = card
          /\ nextId \notin DOMAIN entries
          /\ \A i \in DOMAIN entries' \ {nextId} : i \in DOMAIN entries /\ entries'[i] = entries[i]
          /\ \A i \in DOMAIN entries \ DOMAIN entries' : entries[i].waiters = {}
      <4>1. Register(card)
        BY <3>1 DEF card
      <4>. QED BY <4>1, <3>2, <3>3, RegisterAdds
    <3>. QED BY <2>1, <3>3, <3>4, <3>5, Enlisted
  <2>. QED BY <1>1, <2>2, <2>3, <2>4 DEF RequestSecret
<1>2. ASSUME NEW c \in Callers, NEW p \in Ptys, NEW payload \in Payloads,
             SendInput(c, p, payload)
      PROVE  Holding'
  BY <1>2, OnTheSide DEF SendInput, Waiting, Done, TypeOK
<1>3. ASSUME NEW c \in Callers, AskFirst(c) PROVE Holding'
  <2>1. call[c].phase = "asking" /\ call[c].phase \notin Waiting /\ call[c] \in Call
    BY <1>3 DEF AskFirst, Waiting, TypeOK
  <2>2. CASE TypeUnasked(c) \/ TypeGranted(c) \/ RefuseGrant(c)
    <3>1. \A k \in Call : TypeBody(k).phase \notin Waiting
      BY DEF TypeBody, Done, Waiting, Call
    <3>2. [call[c] EXCEPT !.asked = TRUE] \in Call
      BY <2>1 DEF Call
    <3>3. call'[c].phase \notin Waiting /\ \A d \in Callers \ {c} : call'[d] = call[d]
      BY <2>1, <2>2, <3>1, <3>2
         DEF TypeUnasked, TypeGranted, RefuseGrant, TypeOK, Done, Waiting
    <3>. QED BY <2>1, <2>2, <3>3, OnTheSide DEF TypeUnasked, TypeGranted, RefuseGrant
  <2>3. CASE OpenGrant(c)
    <3>1. PICK w \in PickWindow(None) : Register(Card("grant", None, call[c].pty, w, {c}))
      BY <2>3 DEF OpenGrant
    <3> DEFINE card == Card("grant", None, call[c].pty, w, {c})
    <3>2. call[c].pty \in Ptys
      BY <2>1 DEF Call
    <3>3. card \in Entry
      BY <3>2, PickWindowType DEF Card, Entry, Kinds
    <3>4. /\ card.waiters = {c} /\ card.kind = "grant" /\ card.state = "pending"
          /\ card.subject = call[c].pty
      BY DEF Card
    <3>5. call' = [call EXCEPT ![c] = [call[c] EXCEPT !.phase = "grant", !.asked = TRUE]]
      BY <2>3 DEF OpenGrant, TypeOK
    <3>6. /\ call'[c].phase = "grant" /\ call'[c].pty = call[c].pty
          /\ \A d \in Callers \ {c} : call'[d] = call[d]
      BY <2>1, <3>5 DEF TypeOK, Call
    <3> HIDE DEF card
    <3>7. /\ nextId \in DOMAIN entries' /\ entries'[nextId] = card
          /\ nextId \notin DOMAIN entries
          /\ \A i \in DOMAIN entries' \ {nextId} : i \in DOMAIN entries /\ entries'[i] = entries[i]
          /\ \A i \in DOMAIN entries \ DOMAIN entries' : entries[i].waiters = {}
      <4>1. Register(card)
        BY <3>1 DEF card
      <4>. QED BY <4>1, <3>3, <3>4, RegisterAdds
    <3>. QED BY <2>1, <3>4, <3>6, <3>7, Enlisted
  <2>. QED BY <1>3, <2>2, <2>3 DEF AskFirst
<1>4. ASSUME NEW c \in Callers, Submit(c) PROVE Holding'
  BY <1>4, OnTheSide DEF Submit, Waiting, Done, TypeOK
<1>5. ASSUME NEW ids \in SUBSET DOMAIN entries, NEW o \in Outcomes, Settle(ids, o)
      PROVE  Holding'
  <2>1. /\ DOMAIN entries' = DOMAIN entries \ ids
        /\ \A i \in DOMAIN entries' : entries'[i] = entries[i]
    BY <1>5 DEF Settle, Drop
  <2>. QED BY <1>5, <2>1, AnsweredAll DEF Settle
<1>6. ASSUME NEW i \in Ids, NEW answer \in BOOLEAN, ResolveSecret(i, answer) \/ ResolveGrant(i, answer)
      PROVE  Holding'
  BY <1>5, <1>6 DEF ResolveSecret, ResolveGrant, Shown, Outcomes
<1>7. ASSUME NEW i \in Ids, Dismiss(i) \/ ForgetNotice(i) PROVE Holding'
  <2>1. i \in DOMAIN entries /\ UNCHANGED call
    BY <1>7 DEF Dismiss, ForgetNotice, Shown
  <2>2. CASE entries[i].kind = "notice" /\ entries' = Drop(entries, {i})
    <3>1. entries[i].waiters = {}
      BY <2>1, <2>2 DEF Holding, HeldRight, TypeOK, Entry, Call, Waiting
    <3>. QED BY <2>1, <2>2, <3>1, Rearranged DEF Drop
  <2>3. CASE DismissRequest(i)
    <3>1. /\ DOMAIN entries' = DOMAIN entries
          /\ \A j \in DOMAIN entries :
                entries'[j] = IF j = i THEN [entries[i] EXCEPT !.dismissed = TRUE] ELSE entries[j]
      BY <2>1, <2>3 DEF DismissRequest, TypeOK
    <3>2. \A j \in DOMAIN entries : /\ entries'[j].waiters = entries[j].waiters
                                    /\ entries'[j].kind = entries[j].kind
                                    /\ entries'[j].state = entries[j].state
                                    /\ entries'[j].subject = entries[j].subject
      <4>1. LET e == [entries[i] EXCEPT !.dismissed = TRUE]
            IN  /\ e.waiters = entries[i].waiters /\ e.kind = entries[i].kind
                /\ e.state = entries[i].state /\ e.subject = entries[i].subject
        BY <2>1 DEF TypeOK, Entry
      <4>. QED BY <3>1, <4>1
    <3>. QED BY <2>1, <3>1, <3>2, Rearranged
  <2>. QED BY <1>7, <2>2, <2>3 DEF Dismiss, DismissNotice, ForgetNotice
<1>8. ASSUME NEW i \in Ids, Expire(i) PROVE Holding'
  <2>1. i \in DOMAIN entries /\ WaitersOf({i}) = entries[i].waiters
    BY <1>8 DEF Expire, WaitersOf
  <2>2. Answer(WaitersOf({i}), "timedOut")
    BY <1>8, <2>1 DEF Expire
  <2>3. CASE entries' = Drop(entries, {i})
    BY <1>5, <2>1, <2>2, <2>3 DEF Settle, Outcomes
  <2>4. CASE entries' = [entries EXCEPT ![i].state = "expired", ![i].waiters = {}]
    <3>1. /\ DOMAIN entries' = DOMAIN entries
          /\ \A j \in DOMAIN entries \ {i} : entries'[j] = entries[j]
          /\ entries'[i] = [entries[i] EXCEPT !.state = "expired", !.waiters = {}]
      BY <2>1, <2>4 DEF TypeOK
    <3>2. entries'[i].waiters = {}
      BY <2>1, <3>1 DEF TypeOK, Entry
    <3>3. {i} \in SUBSET DOMAIN entries /\ "timedOut" \in Outcomes
      BY <2>1 DEF Outcomes
    <3>. QED BY <2>2, <3>1, <3>2, <3>3, AnsweredAll
  <2>. QED BY <1>8, <2>3, <2>4 DEF Expire
<1>9. ASSUME NEW root \in Roots, NEW name \in Names, VaultByHand(root, name) PROVE Holding'
  BY <1>5, <1>9 DEF VaultByHand, Outcomes
<1>10. ASSUME NEW p \in Ptys, PtyExit(p) PROVE Holding'
  BY <1>5, <1>10 DEF PtyExit, Outcomes
<1>11. ASSUME NEW apps \in SUBSET Apps, Reconcile(apps) PROVE Holding'
  <2> DEFINE kept == Drop(entries, Gone(apps))
  <2>1. PICK new \in NewNotices(Fresh(apps)) : entries' = EnforceCap(Add(kept, new))
    BY <1>11 DEF Reconcile
  <2>2. /\ DOMAIN new \cap DOMAIN entries = {}
        /\ \A i \in DOMAIN new : new[i].waiters = {}
    BY <2>1 DEF NewNotices, Card, TypeOK
  <2>3. \A i \in DOMAIN entries : entries[i].kind = "notice" => entries[i].waiters = {}
    BY DEF Holding, HeldRight, TypeOK, Entry, Call, Waiting
  <2>4. /\ DOMAIN Add(kept, new) = (DOMAIN entries \ Gone(apps)) \cup DOMAIN new
        /\ \A i \in DOMAIN entries \ Gone(apps) : Add(kept, new)[i] = entries[i]
        /\ \A i \in DOMAIN new : Add(kept, new)[i] = new[i]
    BY <2>2 DEF Add, Drop
  <2>5. \A i \in Gone(apps) : i \in DOMAIN entries /\ entries[i].waiters = {}
    BY <2>3 DEF Gone, Notices
  <2>6. UNCHANGED call
    BY <1>11 DEF Reconcile
  <2>7. \A i \in DOMAIN entries : entries[i].waiters # {} => i \in DOMAIN entries'
    BY <2>1, <2>4, <2>5, EnforceCapDrops
  <2>8. \A i \in DOMAIN entries' : \/ i \in DOMAIN entries /\ entries'[i] = entries[i]
                                   \/ i \notin DOMAIN entries /\ entries'[i].waiters = {}
    BY <2>1, <2>2, <2>4, EnforceCapDrops
  <2>. QED BY <2>6, <2>7, <2>8, Rearranged
<1>12. CASE NewWindow
  BY <1>12, Rearranged DEF NewWindow
<1>13. ASSUME NEW w \in windows, NEW root \in Roots \cup {None}, NEW open \in SUBSET Roots,
              SetActive(w, root) \/ SetTabs(w, open)
       PROVE  Holding'
  BY <1>13, Rearranged DEF SetActive, SetTabs
<1>14. ASSUME NEW w \in windows \cup {None}, Focus(w) PROVE Holding'
  BY <1>14, Rearranged DEF Focus
<1>15. ASSUME NEW w \in windows, CloseWindow(w) PROVE Holding'
  <2> DEFINE orphans == {i \in DOMAIN entries : entries[i].target = w}
  <2>1. CASE Settle(orphans, "no")
    BY <1>5, <2>1 DEF Outcomes
  <2>2. CASE /\ UNCHANGED call
             /\ \E to \in [orphans -> windows'] :
                  entries' = [i \in DOMAIN entries |->
                    IF i \in orphans THEN [entries[i] EXCEPT !.target = to[i]]
                    ELSE entries[i]]
    <3>1. /\ DOMAIN entries' = DOMAIN entries
          /\ \A i \in DOMAIN entries : /\ entries'[i].waiters = entries[i].waiters
                                       /\ entries'[i].kind = entries[i].kind
                                       /\ entries'[i].state = entries[i].state
                                       /\ entries'[i].subject = entries[i].subject
      <4>1. PICK to \in [orphans -> windows'] :
              entries' = [i \in DOMAIN entries |->
                IF i \in orphans THEN [entries[i] EXCEPT !.target = to[i]] ELSE entries[i]]
        BY <2>2
      <4>2. ASSUME NEW i \in DOMAIN entries
            PROVE  LET e == [entries[i] EXCEPT !.target = to[i]]
                   IN  /\ e.waiters = entries[i].waiters /\ e.kind = entries[i].kind
                       /\ e.state = entries[i].state /\ e.subject = entries[i].subject
        BY DEF TypeOK, Entry
      <4>. QED BY <4>1, <4>2
    <3>. QED BY <2>2, <3>1, Rearranged
  <2>. QED BY <1>15, <2>1, <2>2 DEF CloseWindow, Reroute
<1>16. CASE UNCHANGED vars
  BY <1>16, Rearranged DEF vars
<1>. QED BY <1>1, <1>2, <1>3, <1>4, <1>6, <1>7, <1>8, <1>9, <1>10, <1>11, <1>12, <1>13,
            <1>14, <1>15, <1>16
         DEF Next, Agent, User, Lifecycle, Desktop

\* In every reachable state an agent that waits is on exactly one pending card,
\* so no eviction, reroute or dismissal strands it and nothing answers it twice.
THEOREM AgentsNeverStranded == Spec => []NoStrandedAgent
<1>1. Init => Holding
  BY DEF Init, Holding, HeldRight, HeldOnce, NobodyLost, Done, Waiting
<1>2. TypeOK /\ Holding => NoStrandedAgent
  BY HoldingSuffices
<1>. QED BY <1>1, <1>2, HoldingStep, TypeCorrect, PTL DEF Spec

-----------------------------------------------------------------------------
(* Where cards are.                                                        *)

\* Steps after which every card was there before, in the same place.
LEMMA FewerCards ==
    ASSUME CardsOnScreen, windows \subseteq windows',
           \A i \in DOMAIN entries' : /\ i \in DOMAIN entries
                                      /\ entries'[i].kind = entries[i].kind
                                      /\ entries'[i].target = entries[i].target
    PROVE  CardsOnScreen'
BY DEF CardsOnScreen

\* Registering a request card that some live window was picked for.
LEMMA RequestPlaced ==
    ASSUME TypeOK, CardsOnScreen, UNCHANGED windowVars,
           NEW kind \in {"secret", "grant"}, NEW root, NEW subject, NEW c \in Callers,
           NEW w \in PickWindow(root), ~NoWindow,
           Card(kind, root, subject, w, {c}) \in Entry,
           Register(Card(kind, root, subject, w, {c}))
    PROVE  CardsOnScreen'
<1> DEFINE card == Card(kind, root, subject, w, {c})
<1>1. w \in windows'
  BY PickWindowType DEF NoWindow, windowVars
<1>2. card.kind # "notice" /\ card.target = w /\ card.waiters # {}
  BY DEF Card
<1>3. card \in Entry /\ Register(card)
  OBVIOUS
<1> HIDE DEF card
<1>4. /\ \A i \in DOMAIN entries' \ {nextId} : i \in DOMAIN entries /\ entries'[i] = entries[i]
      /\ entries'[nextId] = card
  BY <1>2, <1>3, RegisterAdds
<1>. QED BY <1>1, <1>2, <1>4
         DEF CardsOnScreen, windowVars

LEMMA OnScreenStep == TypeOK /\ CardsOnScreen /\ [Next]_vars => CardsOnScreen'
<1> SUFFICES ASSUME TypeOK, CardsOnScreen, [Next]_vars PROVE CardsOnScreen'
  OBVIOUS
<1>1. ASSUME NEW c \in Callers, NEW root \in Roots \cup {None}, NEW name \in Names,
             RequestSecret(c, root, name)
      PROVE  CardsOnScreen'
  <2>1. UNCHANGED windowVars /\ windows' = windows
    BY <1>1 DEF RequestSecret, windowVars
  <2>2. CASE RefuseSecret(c)
    BY <2>1, <2>2, FewerCards DEF RefuseSecret
  <2>3. CASE JoinSecret(c, root, name)
    <3>1. PICK i \in First(Coalescable(root, name)) :
            entries' = [entries EXCEPT ![i].waiters = @ \cup {c}]
      BY <2>3 DEF JoinSecret
    <3>2. i \in DOMAIN entries
      BY DEF First, Coalescable
    <3>3. LET e == [entries[i] EXCEPT !.waiters = @ \cup {c}]
          IN  /\ e.kind = entries[i].kind /\ e.target = entries[i].target
      BY <3>2 DEF TypeOK, Entry
    <3>4. \A j \in DOMAIN entries' : /\ j \in DOMAIN entries
                                     /\ entries'[j].kind = entries[j].kind
                                     /\ entries'[j].target = entries[j].target
      BY <3>1, <3>2, <3>3 DEF TypeOK
    <3>. QED BY <2>1, <3>4, FewerCards
  <2>4. CASE OpenSecret(c, root, name)
    <3>1. PICK w \in PickWindow(root) : Register(Card("secret", root, name, w, {c}))
      BY <2>4 DEF OpenSecret
    <3>2. Card("secret", root, name, w, {c}) \in Entry
      BY PickWindowType DEF Card, Entry, Kinds
    <3>3. ~NoWindow
      BY <2>4 DEF OpenSecret
    <3>. QED BY <2>1, <3>1, <3>2, <3>3, RequestPlaced
  <2>. QED BY <1>1, <2>2, <2>3, <2>4 DEF RequestSecret
<1>2. ASSUME NEW c \in Callers, NEW p \in Ptys, NEW payload \in Payloads,
             SendInput(c, p, payload)
      PROVE  CardsOnScreen'
  BY <1>2, FewerCards DEF SendInput, windowVars
<1>3. ASSUME NEW c \in Callers, AskFirst(c) PROVE CardsOnScreen'
  <2>1. UNCHANGED windowVars /\ windows' = windows
    BY <1>3 DEF AskFirst, windowVars
  <2>2. CASE TypeUnasked(c) \/ TypeGranted(c) \/ RefuseGrant(c)
    BY <2>1, <2>2, FewerCards DEF TypeUnasked, TypeGranted, RefuseGrant
  <2>3. CASE OpenGrant(c)
    <3>1. PICK w \in PickWindow(None) : Register(Card("grant", None, call[c].pty, w, {c}))
      BY <2>3 DEF OpenGrant
    <3>2. call[c].pty \in Ptys
      BY <1>3 DEF AskFirst, TypeOK, Call
    <3>3. Card("grant", None, call[c].pty, w, {c}) \in Entry
      BY <3>2, PickWindowType DEF Card, Entry, Kinds
    <3>4. ~NoWindow
      BY <2>3 DEF OpenGrant
    <3>. QED BY <2>1, <3>1, <3>3, <3>4, RequestPlaced
  <2>. QED BY <1>3, <2>2, <2>3 DEF AskFirst
<1>4. ASSUME NEW c \in Callers, Submit(c) PROVE CardsOnScreen'
  BY <1>4, FewerCards DEF Submit, windowVars
<1>5. ASSUME NEW ids, NEW o \in Outcomes, Settle(ids, o), UNCHANGED windowVars
      PROVE  CardsOnScreen'
  BY <1>5, FewerCards DEF Settle, Drop, windowVars
<1>6. ASSUME NEW i \in Ids, NEW answer \in BOOLEAN, ResolveSecret(i, answer) \/ ResolveGrant(i, answer)
      PROVE  CardsOnScreen'
  BY <1>5, <1>6 DEF ResolveSecret, ResolveGrant, Outcomes
<1>7. ASSUME NEW i \in Ids, Dismiss(i) \/ ForgetNotice(i) PROVE CardsOnScreen'
  <2>1. i \in DOMAIN entries /\ windows' = windows
    BY <1>7 DEF Dismiss, ForgetNotice, Shown, windowVars
  <2>2. CASE DismissNotice(i)
    BY <2>1, <2>2 DEF DismissNotice, Drop, CardsOnScreen
  <2>3. CASE DismissRequest(i)
    <3>1. LET e == [entries[i] EXCEPT !.dismissed = TRUE]
          IN  /\ e.kind = entries[i].kind /\ e.target = entries[i].target
      BY <2>1 DEF TypeOK, Entry
    <3>2. \A j \in DOMAIN entries' : /\ j \in DOMAIN entries
                                     /\ entries'[j].kind = entries[j].kind
                                     /\ entries'[j].target = entries[j].target
      BY <2>1, <2>3, <3>1 DEF DismissRequest, TypeOK
    <3>. QED BY <2>1, <2>3, <3>2, FewerCards DEF DismissRequest
  <2>4. CASE ForgetNotice(i)
    BY <2>1, <2>4, FewerCards DEF ForgetNotice, Drop
  <2>. QED BY <1>7, <2>2, <2>3, <2>4 DEF Dismiss
<1>8. ASSUME NEW i \in Ids, Expire(i) PROVE CardsOnScreen'
  <2>1. /\ i \in DOMAIN entries /\ windows' = windows
    BY <1>8 DEF Expire, windowVars
  <2>2. LET e == [entries[i] EXCEPT !.state = "expired", !.waiters = {}]
        IN  /\ e.kind = entries[i].kind /\ e.target = entries[i].target
    BY <2>1 DEF TypeOK, Entry
  <2>3. \/ entries' = [entries EXCEPT ![i] = [entries[i] EXCEPT !.state = "expired", !.waiters = {}]]
        \/ entries' = Drop(entries, {i})
    BY <1>8, <2>1 DEF Expire, TypeOK
  <2>4. \A j \in DOMAIN entries' : /\ j \in DOMAIN entries
                                   /\ entries'[j].kind = entries[j].kind
                                   /\ entries'[j].target = entries[j].target
    BY <2>1, <2>2, <2>3 DEF Drop, TypeOK
  <2>. QED BY <2>1, <2>4, FewerCards
<1>9. ASSUME NEW root \in Roots, NEW name \in Names, VaultByHand(root, name) PROVE CardsOnScreen'
  BY <1>5, <1>9 DEF VaultByHand, Outcomes
<1>10. ASSUME NEW p \in Ptys, PtyExit(p) PROVE CardsOnScreen'
  BY <1>5, <1>10 DEF PtyExit, Outcomes
<1>11. ASSUME NEW apps \in SUBSET Apps, Reconcile(apps) PROVE CardsOnScreen'
  <2> DEFINE kept == Drop(entries, Gone(apps))
  <2>1. PICK new \in NewNotices(Fresh(apps)) : entries' = EnforceCap(Add(kept, new))
    BY <1>11 DEF Reconcile
  <2>2. /\ DOMAIN new \cap DOMAIN entries = {}
        /\ \A i \in DOMAIN new : new[i].kind = "notice"
    BY <2>1 DEF NewNotices, Card, TypeOK
  <2>3. \A i \in DOMAIN entries' :
           \/ i \in DOMAIN new /\ entries'[i] = new[i]
           \/ /\ i \in DOMAIN entries \ Gone(apps) /\ i \notin DOMAIN new
              /\ entries'[i] = entries[i]
    <3>1. /\ DOMAIN Add(kept, new) = (DOMAIN entries \ Gone(apps)) \cup DOMAIN new
          /\ \A i \in DOMAIN entries \ Gone(apps) : Add(kept, new)[i] = entries[i]
          /\ \A i \in DOMAIN new : Add(kept, new)[i] = new[i]
      BY <2>2 DEF Add, Drop
    <3>2. \A i \in DOMAIN entries' : i \in DOMAIN Add(kept, new) /\ entries'[i] = Add(kept, new)[i]
      BY <2>1, EnforceCapDrops
    <3> HIDE DEF kept
    <3>. QED BY <2>2, <3>1, <3>2
  <2>4. windows' = windows
    BY <1>11 DEF Reconcile, windowVars
  <2>. QED BY <2>2, <2>3, <2>4 DEF CardsOnScreen
<1>12. CASE NewWindow
  BY <1>12, FewerCards DEF NewWindow
<1>13. ASSUME NEW w \in windows, NEW root \in Roots \cup {None}, NEW open \in SUBSET Roots,
              SetActive(w, root) \/ SetTabs(w, open)
       PROVE  CardsOnScreen'
  BY <1>13, FewerCards DEF SetActive, SetTabs
<1>14. ASSUME NEW w \in windows \cup {None}, Focus(w) PROVE CardsOnScreen'
  BY <1>14, FewerCards DEF Focus
<1>15. ASSUME NEW w \in windows, CloseWindow(w) PROVE CardsOnScreen'
  <2> DEFINE orphans == {i \in DOMAIN entries : entries[i].target = w}
  <2>1. windows' = windows \ {w}
    BY <1>15 DEF CloseWindow
  <2>2. CASE Settle(orphans, "no")
    BY <2>1, <2>2 DEF Settle, Drop, CardsOnScreen
  <2>3. CASE \E to \in [orphans -> windows'] :
               entries' = [i \in DOMAIN entries |->
                 IF i \in orphans THEN [entries[i] EXCEPT !.target = to[i]] ELSE entries[i]]
    <3>1. PICK to \in [orphans -> windows'] :
            entries' = [i \in DOMAIN entries |->
              IF i \in orphans THEN [entries[i] EXCEPT !.target = to[i]] ELSE entries[i]]
      BY <2>3
    <3>2. ASSUME NEW i \in DOMAIN entries
          PROVE  LET e == [entries[i] EXCEPT !.target = to[i]]
                 IN  e.kind = entries[i].kind /\ e.target = to[i]
      BY DEF TypeOK, Entry
    <3>3. /\ DOMAIN entries' = DOMAIN entries
          /\ \A i \in DOMAIN entries :
                /\ entries'[i].kind = entries[i].kind
                /\ IF i \in orphans THEN entries'[i].target \in windows'
                                    ELSE entries'[i].target = entries[i].target
      BY <3>1, <3>2
    <3>. QED BY <2>1, <3>3 DEF CardsOnScreen
  <2>. QED BY <1>15, <2>2, <2>3 DEF CloseWindow, Reroute
<1>16. CASE UNCHANGED vars
  BY <1>16, FewerCards DEF vars, windowVars
<1>. QED BY <1>1, <1>2, <1>3, <1>4, <1>6, <1>7, <1>8, <1>9, <1>10, <1>11, <1>12, <1>13,
            <1>14, <1>15, <1>16
         DEF Next, Agent, User, Lifecycle, Desktop

\* Whatever windows open, close or change focus, every request card is in a live
\* window.
THEOREM RequestsAlwaysOnScreen == Spec => []CardsOnScreen
<1>1. Init => CardsOnScreen
  BY DEF Init, CardsOnScreen
<1>. QED BY <1>1, OnScreenStep, TypeCorrect, PTL DEF Spec

-----------------------------------------------------------------------------
(* Cards for one secret.                                                   *)

PendingSecrets == {i \in DOMAIN entries : entries[i].kind = "secret" /\ entries[i].state = "pending"}
Asked(e) == <<e.root, e.subject>>

\* Steps after which every pending secret card was one before, for the same secret.
LEMMA FewerSecrets ==
    ASSUME OneCardPerSecret,
           \A i \in PendingSecrets' : i \in PendingSecrets /\ Asked(entries'[i]) = Asked(entries[i])
    PROVE  OneCardPerSecret'
BY DEF OneCardPerSecret, PendingSecrets, Asked

LEMMA OneCardStep == TypeOK /\ OneCardPerSecret /\ [Next]_vars => OneCardPerSecret'
<1> SUFFICES ASSUME TypeOK, OneCardPerSecret, [Next]_vars PROVE OneCardPerSecret'
  OBVIOUS
<1>1. ASSUME \A i \in DOMAIN entries' : i \in DOMAIN entries /\ entries'[i] = entries[i]
      PROVE  OneCardPerSecret'
  BY <1>1, FewerSecrets DEF PendingSecrets
<1>2. ASSUME NEW i \in DOMAIN entries, NEW e, DOMAIN entries' = DOMAIN entries, entries'[i] = e,
             \A j \in DOMAIN entries \ {i} : entries'[j] = entries[j],
             e.kind = entries[i].kind, e.root = entries[i].root, e.subject = entries[i].subject,
             e.state = "pending" => entries[i].state = "pending"
      PROVE  OneCardPerSecret'
  BY <1>2, FewerSecrets DEF PendingSecrets, Asked
<1>3. ASSUME NEW c \in Callers, NEW root \in Roots \cup {None}, NEW name \in Names,
             RequestSecret(c, root, name)
      PROVE  OneCardPerSecret'
  <2>1. CASE RefuseSecret(c)
    BY <1>1, <2>1 DEF RefuseSecret
  <2>2. CASE JoinSecret(c, root, name)
    <3>1. PICK i \in First(Coalescable(root, name)) :
            entries' = [entries EXCEPT ![i].waiters = @ \cup {c}]
      BY <2>2 DEF JoinSecret
    <3> DEFINE e == [entries[i] EXCEPT !.waiters = @ \cup {c}]
    <3>2. i \in DOMAIN entries
      BY DEF First, Coalescable
    <3>3. /\ e.kind = entries[i].kind /\ e.root = entries[i].root
          /\ e.subject = entries[i].subject /\ e.state = entries[i].state
      BY <3>2 DEF TypeOK, Entry
    <3>4. /\ DOMAIN entries' = DOMAIN entries /\ entries'[i] = e
          /\ \A j \in DOMAIN entries \ {i} : entries'[j] = entries[j]
      BY <3>1, <3>2 DEF TypeOK
    <3> HIDE DEF e
    <3>. QED BY <1>2, <3>2, <3>3, <3>4
  <2>3. CASE OpenSecret(c, root, name)
    <3>1. PICK w \in PickWindow(root) : Register(Card("secret", root, name, w, {c}))
      BY <2>3 DEF OpenSecret
    <3> DEFINE card == Card("secret", root, name, w, {c})
    <3>2. card \in Entry /\ card.waiters # {} /\ Register(card)
      BY <3>1, PickWindowType DEF Card, Entry, Kinds
    <3>3. Asked(card) = <<root, name>>
      BY DEF Card, Asked
    <3> HIDE DEF card
    <3>4. /\ entries'[nextId] = card
          /\ \A i \in DOMAIN entries' \ {nextId} : i \in DOMAIN entries /\ entries'[i] = entries[i]
      BY <3>2, RegisterAdds
    <3>5. \A i \in PendingSecrets : Asked(entries[i]) # <<root, name>>
      BY <2>3 DEF OpenSecret, Coalescable, SameRequest, PendingSecrets, Asked
    <3>. QED BY <3>3, <3>4, <3>5 DEF OneCardPerSecret, PendingSecrets, Asked
  <2>. QED BY <1>3, <2>1, <2>2, <2>3 DEF RequestSecret
<1>4. ASSUME NEW c \in Callers, AskFirst(c) PROVE OneCardPerSecret'
  <2>1. CASE OpenGrant(c)
    <3>1. PICK w \in PickWindow(None) : Register(Card("grant", None, call[c].pty, w, {c}))
      BY <2>1 DEF OpenGrant
    <3> DEFINE card == Card("grant", None, call[c].pty, w, {c})
    <3>2. call[c].pty \in Ptys
      BY <1>4 DEF AskFirst, TypeOK, Call
    <3>3. card \in Entry /\ card.waiters # {} /\ card.kind = "grant" /\ Register(card)
      BY <3>1, <3>2, PickWindowType DEF Card, Entry, Kinds
    <3> HIDE DEF card
    <3>4. /\ entries'[nextId] = card
          /\ \A i \in DOMAIN entries' \ {nextId} : i \in DOMAIN entries /\ entries'[i] = entries[i]
      BY <3>3, RegisterAdds
    <3>. QED BY <3>3, <3>4, FewerSecrets DEF PendingSecrets
  <2>. QED BY <1>1, <1>4, <2>1 DEF AskFirst, TypeUnasked, TypeGranted, RefuseGrant
<1>5. ASSUME NEW ids, NEW o, Settle(ids, o) PROVE OneCardPerSecret'
  BY <1>1, <1>5 DEF Settle, Drop
<1>6. ASSUME NEW i \in Ids, Dismiss(i) PROVE OneCardPerSecret'
  <2>1. CASE DismissNotice(i)
    BY <1>1, <2>1 DEF DismissNotice, Drop
  <2>2. CASE DismissRequest(i)
    <3> DEFINE e == [entries[i] EXCEPT !.dismissed = TRUE]
    <3>1. i \in DOMAIN entries
      BY <1>6 DEF Dismiss, Shown
    <3>2. /\ e.kind = entries[i].kind /\ e.root = entries[i].root
          /\ e.subject = entries[i].subject /\ e.state = entries[i].state
      BY <3>1 DEF TypeOK, Entry
    <3>3. /\ DOMAIN entries' = DOMAIN entries /\ entries'[i] = e
          /\ \A j \in DOMAIN entries \ {i} : entries'[j] = entries[j]
      BY <2>2, <3>1 DEF DismissRequest, TypeOK
    <3> HIDE DEF e
    <3>. QED BY <1>2, <3>1, <3>2, <3>3
  <2>. QED BY <1>6, <2>1, <2>2 DEF Dismiss
<1>7. ASSUME NEW i \in Ids, Expire(i) PROVE OneCardPerSecret'
  <2>1. CASE entries' = Drop(entries, {i})
    BY <1>1, <2>1 DEF Drop
  <2>2. CASE entries' = [entries EXCEPT ![i].state = "expired", ![i].waiters = {}]
    <3> DEFINE e == [entries[i] EXCEPT !.state = "expired", !.waiters = {}]
    <3>1. i \in DOMAIN entries
      BY <1>7 DEF Expire
    <3>2. /\ e.kind = entries[i].kind /\ e.root = entries[i].root
          /\ e.subject = entries[i].subject /\ e.state = "expired"
      BY <3>1 DEF TypeOK, Entry
    <3>3. /\ DOMAIN entries' = DOMAIN entries /\ entries'[i] = e
          /\ \A j \in DOMAIN entries \ {i} : entries'[j] = entries[j]
      BY <2>2, <3>1 DEF TypeOK
    <3> HIDE DEF e
    <3>. QED BY <1>2, <3>1, <3>2, <3>3
  <2>. QED BY <1>7, <2>1, <2>2 DEF Expire
<1>8. ASSUME NEW apps \in SUBSET Apps, Reconcile(apps) PROVE OneCardPerSecret'
  <2> DEFINE kept == Drop(entries, Gone(apps))
  <2>1. PICK new \in NewNotices(Fresh(apps)) : entries' = EnforceCap(Add(kept, new))
    BY <1>8 DEF Reconcile
  <2>2. \A i \in DOMAIN new : new[i].kind = "notice"
    BY <2>1 DEF NewNotices, Card
  <2>3. \A i \in DOMAIN Add(kept, new) :
           \/ i \in DOMAIN new /\ Add(kept, new)[i] = new[i]
           \/ i \in DOMAIN entries /\ Add(kept, new)[i] = entries[i]
    BY DEF Add, Drop
  <2>4. \A i \in DOMAIN entries' : i \in DOMAIN Add(kept, new) /\ entries'[i] = Add(kept, new)[i]
    BY <2>1, EnforceCapDrops
  <2> HIDE DEF kept
  <2>5. \A i \in PendingSecrets' : i \in DOMAIN entries /\ entries'[i] = entries[i]
    BY <2>2, <2>3, <2>4 DEF PendingSecrets
  <2>. QED BY <2>5, FewerSecrets DEF PendingSecrets
<1>9. ASSUME NEW w \in windows, CloseWindow(w) PROVE OneCardPerSecret'
  <2> DEFINE orphans == {i \in DOMAIN entries : entries[i].target = w}
  <2>1. CASE \E to \in [orphans -> windows'] :
               entries' = [i \in DOMAIN entries |->
                 IF i \in orphans THEN [entries[i] EXCEPT !.target = to[i]] ELSE entries[i]]
    <3>1. PICK to \in [orphans -> windows'] :
            entries' = [i \in DOMAIN entries |->
              IF i \in orphans THEN [entries[i] EXCEPT !.target = to[i]] ELSE entries[i]]
      BY <2>1
    <3>2. ASSUME NEW i \in DOMAIN entries
          PROVE  LET e == [entries[i] EXCEPT !.target = to[i]]
                 IN  /\ e.kind = entries[i].kind /\ e.root = entries[i].root
                     /\ e.subject = entries[i].subject /\ e.state = entries[i].state
      BY DEF TypeOK, Entry
    <3>3. /\ DOMAIN entries' = DOMAIN entries
          /\ \A i \in DOMAIN entries : /\ entries'[i].kind = entries[i].kind
                                       /\ entries'[i].root = entries[i].root
                                       /\ entries'[i].subject = entries[i].subject
                                       /\ entries'[i].state = entries[i].state
      BY <3>1, <3>2
    <3>. QED BY <3>3, FewerSecrets DEF PendingSecrets, Asked
  <2>. QED BY <1>5, <1>9, <2>1 DEF CloseWindow, Reroute
<1>10. ASSUME UNCHANGED entries PROVE OneCardPerSecret'
  BY <1>1, <1>10
<1>. QED BY <1>3, <1>4, <1>5, <1>6, <1>7, <1>8, <1>9, <1>10, <1>1
         DEF Next, Agent, User, Lifecycle, Desktop, vars, SendInput, Submit, ResolveSecret,
             ResolveGrant, ForgetNotice, Drop, VaultByHand, PtyExit, NewWindow, SetActive, SetTabs,
             Focus

\* However many agents ask for one secret of one project, and however their requests
\* interleave with expiry, the user sees one pending card for it.
THEOREM SecretAskedOnce == Spec => []OneCardPerSecret
<1>1. Init => OneCardPerSecret
  BY DEF Init, OneCardPerSecret
<1>. QED BY <1>1, OneCardStep, TypeCorrect, PTL DEF Spec

-----------------------------------------------------------------------------
(* Approval comes before typing.                                           *)

\* While the preference is being read a call has not been through approval; were
\* it marked as asked already, an unasked body would pass for an approved one.
NotYetAsked == \A c \in Callers : call[c].phase = "asking" => ~call[c].asked

Permitted == ApprovedBeforeTyping /\ NotYetAsked

\* What a call may turn into.
Fit(k, ptys) == /\ k.phase = "typing" /\ k.asked => k.pty \in ptys
                /\ k.phase # "asking" \/ ~k.asked

LEMMA PermittedWhenFit == Permitted <=> \A c \in Callers : Fit(call[c], granted)
BY DEF Permitted, ApprovedBeforeTyping, NotYetAsked, Fit

LEMMA DoneFits == \A o, ptys : Fit(Done(o), ptys)
BY DEF Fit, Done

\* A body goes to the terminal the call is about, approved or not asked for.
LEMMA TypeBodyFits ==
    ASSUME NEW k \in Call, NEW ptys, k.asked => k.pty \in ptys
    PROVE  Fit(TypeBody(k), ptys)
<1> DEFINE t == [k EXCEPT !.phase = "typing"]
<1>1. t.phase = "typing" /\ t.asked = k.asked /\ t.pty = k.pty
  BY DEF Call
<1>2. Fit(t, ptys)
  BY <1>1 DEF Fit
<1>. QED BY <1>2, DoneFits DEF TypeBody

\* One call changes, and approvals are not taken back.
LEMMA OneCall ==
    ASSUME TypeOK, Permitted, granted \subseteq granted', NEW c \in Callers, NEW k,
           Fit(k, granted'), call' = [call EXCEPT ![c] = k]
    PROVE  Permitted'
<1>1. \A d \in Callers : Fit(call[d], granted')
  BY PermittedWhenFit DEF Fit
<1>2. \A d \in Callers : Fit(call'[d], granted')
  BY <1>1 DEF TypeOK
<1>. QED BY <1>2, PermittedWhenFit DEF Permitted, ApprovedBeforeTyping, NotYetAsked, Fit

\* Agents are answered, with "ok" only where that is the terminal's approval.
LEMMA AnsweredFits ==
    ASSUME TypeOK, Permitted, granted \subseteq granted', NEW callers, NEW o, Answer(callers, o),
           \A c \in callers \cap Callers :
               o = "ok" /\ call[c].phase = "grant" => call[c].pty \in granted'
    PROVE  Permitted'
<1>1. \A d \in Callers : Fit(call[d], granted')
  BY PermittedWhenFit DEF Fit
<1>2. ASSUME NEW c \in Callers, c \in callers PROVE Fit(AfterAnswer(call[c], o), granted')
  <2>1. call[c] \in Call
    BY DEF TypeOK
  <2>2. CASE call[c].phase = "grant" /\ o = "ok"
    BY <1>2, <2>1, <2>2, TypeBodyFits DEF AfterAnswer
  <2>3. CASE ~(call[c].phase = "grant" /\ o = "ok")
    BY <2>3, DoneFits DEF AfterAnswer
  <2>. QED BY <2>2, <2>3
<1>3. \A c \in Callers : call'[c] = IF c \in callers THEN AfterAnswer(call[c], o) ELSE call[c]
  BY DEF Answer
<1>4. \A d \in Callers : Fit(call'[d], granted')
  BY <1>1, <1>2, <1>3
<1>. QED BY <1>4, PermittedWhenFit DEF Permitted, ApprovedBeforeTyping, NotYetAsked, Fit

LEMMA PermittedStep == TypeOK /\ Holding /\ Permitted /\ [Next]_vars => Permitted'
<1> SUFFICES ASSUME TypeOK, Holding, Permitted, [Next]_vars PROVE Permitted'
  OBVIOUS
<1>1. ASSUME UNCHANGED <<call, granted>> PROVE Permitted'
  BY <1>1 DEF Permitted, ApprovedBeforeTyping, NotYetAsked
<1>2. ASSUME NEW c \in Callers, NEW root \in Roots \cup {None}, NEW name \in Names,
             RequestSecret(c, root, name)
      PROVE  Permitted'
  <2>1. Fit(AwaitSecret, granted')
    BY DEF Fit, AwaitSecret, Done
  <2>. QED BY <1>2, <2>1, DoneFits, OneCall
           DEF RequestSecret, RefuseSecret, JoinSecret, OpenSecret
<1>3. ASSUME NEW c \in Callers, NEW p \in Ptys, NEW payload \in Payloads,
             SendInput(c, p, payload)
      PROVE  Permitted'
  <2> DEFINE asking == [phase |-> "asking", pty |-> p, payload |-> payload,
                        asked |-> FALSE, result |-> "none"]
  <2>1. Fit(asking, granted')
    BY DEF Fit
  <2>2. granted \subseteq granted'
    BY <1>3 DEF SendInput
  <2>3. \/ call' = [call EXCEPT ![c] = Done("error")]
        \/ call' = [call EXCEPT ![c] = asking]
    BY <1>3 DEF SendInput
  <2> HIDE DEF asking
  <2>. QED BY <2>1, <2>2, <2>3, DoneFits, OneCall
<1>4. ASSUME NEW c \in Callers, AskFirst(c) PROVE Permitted'
  <2>1. /\ call[c] \in Call /\ call[c].phase = "asking" /\ ~call[c].asked
        /\ granted' = granted
    BY <1>4 DEF AskFirst, TypeOK, Permitted, NotYetAsked
  <2>2. CASE TypeUnasked(c)
    <3>1. Fit(TypeBody(call[c]), granted')
      BY <2>1, TypeBodyFits
    <3>. QED BY <2>1, <2>2, <3>1, OneCall DEF TypeUnasked
  <2>3. CASE TypeGranted(c)
    <3> DEFINE k == [call[c] EXCEPT !.asked = TRUE]
    <3>1. k \in Call /\ k.pty = call[c].pty
      BY <2>1 DEF Call
    <3>2. Fit(TypeBody(k), granted')
      BY <2>1, <2>3, <3>1, TypeBodyFits DEF TypeGranted
    <3>3. call' = [call EXCEPT ![c] = TypeBody(k)]
      BY <2>3 DEF TypeGranted
    <3> HIDE DEF k
    <3>. QED BY <2>1, <3>2, <3>3, OneCall
  <2>4. CASE RefuseGrant(c)
    BY <2>1, <2>4, DoneFits, OneCall DEF RefuseGrant
  <2>5. CASE OpenGrant(c)
    <3> DEFINE k == [call[c] EXCEPT !.phase = "grant", !.asked = TRUE]
    <3>1. k.phase = "grant"
      BY <2>1 DEF Call
    <3>2. Fit(k, granted')
      BY <3>1 DEF Fit
    <3>3. call' = [call EXCEPT ![c] = k]
      BY <2>5 DEF OpenGrant, TypeOK
    <3> HIDE DEF k
    <3>. QED BY <2>1, <3>2, <3>3, OneCall
  <2>. QED BY <1>4, <2>2, <2>3, <2>4, <2>5 DEF AskFirst
<1>5. ASSUME NEW c \in Callers, Submit(c) PROVE Permitted'
  <2>1. \E r : call' = [call EXCEPT ![c] = Done(r)]
    BY <1>5 DEF Submit
  <2>2. granted \subseteq granted'
    BY <1>5 DEF Submit
  <2>. QED BY <2>1, <2>2, DoneFits, OneCall
<1>6. ASSUME NEW ids \in SUBSET DOMAIN entries, Settle(ids, "ok"), granted \subseteq granted',
             \A i \in ids : entries[i].kind = "secret"
      PROVE  Permitted'
  <2>1. \A c \in WaitersOf(ids) : call[c].phase # "grant"
    BY <1>6 DEF WaitersOf, Holding, HeldRight
  <2>. QED BY <1>6, <2>1, AnsweredFits DEF Settle
<1>7. ASSUME NEW ids, Settle(ids, "no"), granted \subseteq granted' PROVE Permitted'
  BY <1>7, AnsweredFits DEF Settle
<1>8. ASSUME NEW i \in Ids, NEW answer \in BOOLEAN, ResolveSecret(i, answer) PROVE Permitted'
  <2>1. /\ {i} \in SUBSET DOMAIN entries /\ entries[i].kind = "secret"
        /\ granted \subseteq granted'
    BY <1>8 DEF ResolveSecret, Shown
  <2>2. Settle({i}, "ok") \/ Settle({i}, "no")
    BY <1>8 DEF ResolveSecret
  <2>. QED BY <1>6, <1>7, <2>1, <2>2
<1>9. ASSUME NEW i \in Ids, NEW answer \in BOOLEAN, ResolveGrant(i, answer) PROVE Permitted'
  <2>1. /\ i \in DOMAIN entries /\ entries[i].kind = "grant"
        /\ granted \subseteq granted'
    BY <1>9 DEF ResolveGrant, Shown
  <2>2. CASE answer
    <3>1. entries[i].subject \in granted' /\ Settle({i}, "ok")
      BY <1>9, <2>2 DEF ResolveGrant
    <3>2. \A c \in WaitersOf({i}) : call[c].pty = entries[i].subject
      BY <2>1 DEF WaitersOf, Holding, HeldRight
    <3>. QED BY <2>1, <3>1, <3>2, AnsweredFits DEF Settle
  <2>3. CASE ~answer
    BY <1>7, <1>9, <2>1, <2>3 DEF ResolveGrant
  <2>. QED BY <2>2, <2>3
<1>10. ASSUME NEW i \in Ids, Expire(i) PROVE Permitted'
  BY <1>10, AnsweredFits DEF Expire
<1>11. ASSUME NEW root \in Roots, NEW name \in Names, VaultByHand(root, name) PROVE Permitted'
  <2> DEFINE ids == {i \in DOMAIN entries : SameRequest(entries[i], root, name)}
  <2>1. Settle(ids, "ok") /\ granted \subseteq granted'
    BY <1>11 DEF VaultByHand
  <2>2. \A i \in ids : entries[i].kind = "secret"
    BY DEF SameRequest
  <2>. QED BY <1>6, <2>1, <2>2
<1>12. ASSUME NEW p \in Ptys, PtyExit(p) PROVE Permitted'
  BY <1>7, <1>12 DEF PtyExit
<1>13. ASSUME NEW w \in windows, CloseWindow(w) PROVE Permitted'
  BY <1>1, <1>7, <1>13 DEF CloseWindow, Reroute
<1>. QED BY <1>1, <1>2, <1>3, <1>4, <1>5, <1>8, <1>9, <1>10, <1>11, <1>12, <1>13
         DEF Next, Agent, User, Lifecycle, Desktop, vars, Dismiss, ForgetNotice, Reconcile,
             NewWindow, SetActive, SetTabs, Focus

\* A call that was told to ask types into no terminal but one the user approved:
\* no other answer, time-out, exit or closing window passes for an approval.
THEOREM NoTypingUnapproved == Spec => []ApprovedBeforeTyping
<1>1. Init => Holding
  BY DEF Init, Holding, HeldRight, HeldOnce, NobodyLost, Done, Waiting
<1>2. Init => Permitted
  BY DEF Init, Permitted, ApprovedBeforeTyping, NotYetAsked, Done
<1>3. Permitted => ApprovedBeforeTyping
  BY DEF Permitted
<1>. QED BY <1>1, <1>2, <1>3, HoldingStep, PermittedStep, TypeCorrect, PTL DEF Spec

-----------------------------------------------------------------------------
(* What a step may do to the agents of one card.                           *)

Together(c, d) == /\ Held(c) = Held(d)
                  /\ call[c].phase = "secret" /\ call[d].phase = "secret"

\* Agents that share a card are answered by the same steps.
LEMMA AnsweredTogether ==
    ASSUME NEW ids \in SUBSET DOMAIN entries, NEW o, Answer(WaitersOf(ids), o),
           NEW c \in Callers, NEW d \in Callers, Together(c, d), call'[c].phase = "idle"
    PROVE  call'[d] = call'[c]
<1>1. c \in WaitersOf(ids) <=> d \in WaitersOf(ids)
  BY DEF WaitersOf, Together, Held
<1>2. \A e \in Callers : call'[e] = IF e \in WaitersOf(ids) THEN AfterAnswer(call[e], o)
                                    ELSE call[e]
  BY DEF Answer
<1>3. c \in WaitersOf(ids)
  BY <1>2 DEF Together
<1>. QED BY <1>1, <1>2, <1>3 DEF AfterAnswer, Together

\* Agents that share a card share its fate, however it is settled.
THEOREM FateShared == Spec => SharedFate
<1> DEFINE Fate == \A c, d \in Callers :
         (/\ Held(c) = Held(d) /\ call[c].phase = "secret" /\ call[d].phase = "secret"
          /\ call'[c].phase = "idle")
         => call'[d] = call'[c]
<1>1. ASSUME TypeOK, [Next]_vars PROVE Fate
  <2> SUFFICES ASSUME NEW c \in Callers, NEW d \in Callers, Together(c, d),
                      call'[c].phase = "idle"
               PROVE  call'[d] = call'[c]
    BY DEF Together
  <2>1. call'[c] # call[c]
    BY DEF Together
  <2>2. ASSUME NEW ids \in SUBSET DOMAIN entries, NEW o, Settle(ids, o) PROVE call'[d] = call'[c]
    BY <2>2, AnsweredTogether DEF Settle
  <2>3. ASSUME NEW e \in Callers, Agent(e) PROVE FALSE
    <3>1. call[e].phase \in {"idle", "asking", "typing"} /\ \A f \in Callers \ {e} : call'[f] = call[f]
      BY <1>1, <2>3 DEF Agent, RequestSecret, RefuseSecret, JoinSecret, OpenSecret, SendInput, AskFirst,
                  TypeUnasked, TypeGranted, RefuseGrant, OpenGrant, Submit, TypeOK
    <3>. QED BY <2>1, <3>1 DEF Together
  <2>4. ASSUME NEW i \in Ids, Expire(i) PROVE call'[d] = call'[c]
    <3>1. {i} \in SUBSET DOMAIN entries /\ WaitersOf({i}) = entries[i].waiters
      BY <2>4 DEF Expire, WaitersOf
    <3>. QED BY <2>4, <3>1, AnsweredTogether DEF Expire
  <2>5. ASSUME NEW i \in Ids, User(i) PROVE call'[d] = call'[c]
    BY <2>1, <2>2, <2>5 DEF User, ResolveSecret, ResolveGrant, Dismiss, ForgetNotice, Shown
  <2>6. ASSUME NEW root \in Roots, NEW name \in Names, VaultByHand(root, name)
        PROVE  call'[d] = call'[c]
    BY <2>2, <2>6 DEF VaultByHand
  <2>7. ASSUME NEW p \in Ptys, PtyExit(p) PROVE call'[d] = call'[c]
    BY <2>2, <2>7 DEF PtyExit
  <2>8. ASSUME NEW w \in windows, CloseWindow(w) PROVE call'[d] = call'[c]
    BY <2>1, <2>2, <2>8 DEF CloseWindow, Reroute
  <2>. QED BY <1>1, <2>1, <2>3, <2>4, <2>5, <2>6, <2>7, <2>8
           DEF Next, Lifecycle, Desktop, Reconcile, NewWindow, SetActive, SetTabs, Focus, vars
<1>2. TypeOK /\ [Next]_vars => [Fate]_vars
  BY <1>1
<1>. QED BY <1>2, TypeCorrect, PTL DEF Spec, SharedFate

-----------------------------------------------------------------------------
(* The cap.                                                                *)

\* A set of numbers that is not empty has a least one: take the i for which the
\* set of the smaller members is minimal under inclusion.
LEMMA LeastMember ==
    ASSUME NEW S \in SUBSET Nat, IsFiniteSet(S), S # {}
    PROVE  \E i \in S : \A j \in S : i <= j
<1> DEFINE Below(i) == {j \in S : j < i}
           Belows == {Below(i) : i \in S}
<1>1. \A i \in S : Below(i) \in SUBSET S /\ IsFiniteSet(Below(i))
  <2> SUFFICES ASSUME NEW i \in S PROVE IsFiniteSet(Below(i))
    OBVIOUS
  <2>1. Below(i) \in SUBSET S
    OBVIOUS
  <2>. QED BY <2>1, FS_Subset
<1>2. Belows \subseteq FiniteSubsetsOf(S) /\ Belows # {}
  BY <1>1 DEF FiniteSubsetsOf
<1> HIDE DEF Belows
<1>3. PICK B \in Belows : \A C \in Belows : ~ (<<C, B>> \in StrictSubsetOrdering(S))
  BY <1>2, FS_StrictSubsetOrderingWellFounded, WFMin
<1>4. PICK i \in S : B = Below(i)
  BY <1>3 DEF Belows
<1>5. ASSUME NEW j \in S, j < i PROVE FALSE
  <2>1. Below(j) \subseteq Below(i) /\ j \in Below(i) /\ j \notin Below(j)
    <3>1. \A k \in S : k \in Nat
      OBVIOUS
    <3>2. \A k \in S : k < j => k < i
      BY <1>5, <3>1
    <3>3. ~ (j < j)
      BY <3>1
    <3>. QED BY <1>5, <3>2, <3>3
  <2>2. <<Below(j), Below(i)>> \in StrictSubsetOrdering(S)
    BY <2>1, <1>1 DEF StrictSubsetOrdering
  <2>. QED BY <2>2, <1>3, <1>4 DEF Belows
<1>6. \A j \in S : i <= j
  BY <1>5
<1>. QED BY <1>6

\* What enforceCap leaves is within the cap, or awaited to the last card: if some
\* unawaited card stays, all the cards older than the oldest such one went, and
\* by the rule that spared it those are as many as there were too many.
LEMMA EnforceCapCaps ==
    ASSUME NEW es, DOMAIN es \subseteq Nat, IsFiniteSet(DOMAIN es)
    PROVE  \/ Cardinality(DOMAIN EnforceCap(es)) <= RegistryMax
           \/ \A i \in DOMAIN EnforceCap(es) : EnforceCap(es)[i].waiters # {}
<1> DEFINE Spared == Evictable(es) \ Evicted(es)
<1>1. DOMAIN EnforceCap(es) = DOMAIN es \ Evicted(es)
      /\ \A i \in DOMAIN EnforceCap(es) : EnforceCap(es)[i] = es[i]
  BY DEF EnforceCap, Drop
<1>2. CASE Spared = {}
  BY <1>1, <1>2 DEF Evictable
<1>3. CASE Spared # {}
  <2>1. /\ Evictable(es) \subseteq DOMAIN es /\ Evicted(es) \subseteq DOMAIN es
        /\ Spared \subseteq DOMAIN es
    BY DEF Evictable, Evicted
  <2>2. IsFiniteSet(Spared) /\ Spared \in SUBSET Nat /\ IsFiniteSet(Evicted(es))
    BY <2>1, FS_Subset
  <2>3. PICK i \in Spared : \A j \in Spared : i <= j
    BY <1>3, <2>2, LeastMember
  <2> DEFINE older == {j \in Evictable(es) : j < i}
             tooMany == Cardinality(DOMAIN es) - RegistryMax
  <2>4. older \in SUBSET Evicted(es)
    BY <2>1, <2>3
  <2>5. /\ IsFiniteSet(older) /\ Cardinality(older) <= Cardinality(Evicted(es))
        /\ Cardinality(older) \in Nat /\ Cardinality(Evicted(es)) \in Nat
        /\ Cardinality(DOMAIN es) \in Nat /\ RegistryMax \in Nat
    BY <2>2, <2>4, FS_Subset, FS_CardinalityType, BoundsAssumption
  <2>6. ~ (Cardinality(older) < tooMany)
    BY <2>3 DEF Evicted
  <2>7. Cardinality(DOMAIN es \ Evicted(es)) = Cardinality(DOMAIN es) - Cardinality(Evicted(es))
    <3>1. DOMAIN es \cap Evicted(es) = Evicted(es)
      BY <2>1
    <3>. QED BY <3>1, FS_Difference
  <2> HIDE DEF older
  <2>. QED BY <1>1, <2>5, <2>6, <2>7
<1>. QED BY <1>2, <1>3

\* Registering leaves the registry within its cap unless every card is awaited.
THEOREM CapEnforced == Spec => CapHolds
<1> DEFINE Capped == nextId' > nextId => \/ Cardinality(DOMAIN entries') <= RegistryMax
                                         \/ \A i \in DOMAIN entries' : entries'[i].waiters # {}
<1>1. ASSUME TypeOK, [Next]_vars PROVE Capped
  <2> SUFFICES ASSUME nextId' > nextId PROVE Capped
    OBVIOUS
  <2>1. DOMAIN entries \subseteq Nat /\ IsFiniteSet(DOMAIN entries) /\ nextId \in Nat
    <3>1. /\ nextId \in Nat /\ nextId - 1 \in Int
          /\ DOMAIN entries \in SUBSET (1..(nextId - 1))
      BY <1>1 DEF TypeOK
    <3>2. IsFiniteSet(1..(nextId - 1))
      BY <3>1, FS_Interval
    <3>3. 1..(nextId - 1) \subseteq Nat
      BY <3>1
    <3>. QED BY <3>1, <3>2, <3>3, FS_Subset
  <2>2. ASSUME NEW card, Register(card) PROVE Capped
    <3> DEFINE es == Add(entries, [i \in {nextId} |-> card])
    <3>1. DOMAIN es = DOMAIN entries \cup {nextId}
      BY DEF Add
    <3>2. DOMAIN es \subseteq Nat /\ IsFiniteSet(DOMAIN es)
      BY <2>1, <3>1, FS_AddElement
    <3>3. entries' = EnforceCap(es)
      BY <2>2 DEF Register
    <3> HIDE DEF es
    <3>. QED BY <3>2, <3>3, EnforceCapCaps
  <2>3. ASSUME NEW apps \in SUBSET Apps, Reconcile(apps) PROVE Capped
    <3> DEFINE kept == Drop(entries, Gone(apps))
               ids == nextId..(nextId + Cardinality(Fresh(apps)) - 1)
    <3>1. PICK new \in NewNotices(Fresh(apps)) : entries' = EnforceCap(Add(kept, new))
      BY <2>3 DEF Reconcile
    <3>2. DOMAIN new = ids
      BY <3>1 DEF NewNotices
    <3>3. Cardinality(Fresh(apps)) \in Nat
      <4>1. Fresh(apps) \in SUBSET Apps
        BY DEF Fresh, Wanted
      <4>. QED BY <4>1, AppsAssumption, FS_Subset, FS_CardinalityType
    <3>4. ids \subseteq Nat /\ IsFiniteSet(ids)
      <4>1. nextId + Cardinality(Fresh(apps)) - 1 \in Int /\ nextId \in Int
        BY <2>1, <3>3
      <4>2. IsFiniteSet(ids)
        BY <4>1, FS_Interval
      <4>. QED BY <2>1, <4>1, <4>2
    <3>5. DOMAIN kept \subseteq DOMAIN entries /\ IsFiniteSet(DOMAIN kept)
      <4>1. DOMAIN kept \in SUBSET DOMAIN entries
        BY DEF Drop
      <4>. QED BY <2>1, <4>1, FS_Subset
    <3>6. DOMAIN Add(kept, new) = DOMAIN kept \cup ids
      BY <3>2 DEF Add
    <3>7. DOMAIN Add(kept, new) \subseteq Nat /\ IsFiniteSet(DOMAIN Add(kept, new))
      BY <2>1, <3>4, <3>5, <3>6, FS_Union
    <3>. QED BY <3>1, <3>7, EnforceCapCaps
  <2> HIDE DEF Capped
  <2>4. ASSUME NEW c \in Callers, Agent(c) PROVE Capped
    BY <2>1, <2>2, <2>4
       DEF Agent, RequestSecret, RefuseSecret, JoinSecret, OpenSecret, SendInput, AskFirst,
           TypeUnasked, TypeGranted, RefuseGrant, OpenGrant, Submit
  <2>5. ASSUME NEW i \in Ids, User(i) PROVE FALSE
    BY <2>1, <2>5 DEF User, ResolveSecret, ResolveGrant, Dismiss, ForgetNotice
  <2>6. CASE Lifecycle
    <3>1. ASSUME NEW i \in Ids, Expire(i) PROVE FALSE
      BY <2>1, <3>1 DEF Expire
    <3>2. ASSUME NEW root \in Roots, NEW name \in Names, VaultByHand(root, name) PROVE FALSE
      BY <2>1, <3>2 DEF VaultByHand
    <3>3. ASSUME NEW p \in Ptys, PtyExit(p) PROVE FALSE
      BY <2>1, <3>3 DEF PtyExit
    <3>. QED BY <2>3, <2>6, <3>1, <3>2, <3>3 DEF Lifecycle
  <2>7. CASE Desktop
    BY <2>1, <2>7 DEF Desktop, NewWindow, SetActive, SetTabs, Focus, CloseWindow
  <2>. QED BY <1>1, <2>1, <2>4, <2>5, <2>6, <2>7 DEF Next, vars
<1>2. TypeOK /\ [Next]_vars => [Capped]_vars
  BY <1>1
<1>. QED BY <1>2, TypeCorrect, PTL DEF Spec, CapHolds

-----------------------------------------------------------------------------
(* Every tool call returns.                                                *)

\* The fairness of each thing the event loop gets to, by name, and what it needs:
\* that the timer of a pending card can fire, that the preferences can be read and
\* that the submit delay can elapse.  Each has the guard written here and no other
\* (a call that reads the preferences may always be told not to ask); they are
\* hypotheses because tlapm has no rule for ENABLED.
FairExpiry(i) == WF_vars(Expire(i))
FairAsk(c) == WF_vars(AskFirst(c))
FairSubmit(c) == WF_vars(Submit(c))
FairCall(c) == FairAsk(c) /\ FairSubmit(c)
LoopFair ==
    /\ \A i \in Ids : FairExpiry(i)
    /\ \A c \in Callers : FairCall(c)

CanExpire(i) ==
    (i \in DOMAIN entries /\ entries[i].kind # "notice" /\ entries[i].state = "pending")
    => ENABLED <<Expire(i)>>_vars
CanAsk(c) == call[c].phase = "asking" => ENABLED <<AskFirst(c)>>_vars
CanSubmit(c) == call[c].phase = "typing" => ENABLED <<Submit(c)>>_vars
LoopRuns ==
    /\ \A i \in Ids : CanExpire(i)
    /\ \A c \in Callers : CanAsk(c) /\ CanSubmit(c)

\* Every card has an id the bound allows, so that it has a timer.
Numbered == nextId <= MaxId + 1

LEMMA NumberedStep == TypeOK /\ Numbered /\ [Next]_vars => Numbered'
<1>. SUFFICES ASSUME TypeOK, Numbered, [Next]_vars PROVE Numbered'
  OBVIOUS
<1>1. ASSUME nextId' = nextId PROVE Numbered'
  BY <1>1 DEF Numbered
<1>2. ASSUME NEW card, Register(card) PROVE Numbered'
  BY <1>2, BoundsAssumption DEF Register, Numbered, TypeOK
<1>3. ASSUME NEW apps \in SUBSET Apps, Reconcile(apps) PROVE Numbered'
  <2>1. Fresh(apps) \in SUBSET Apps
    BY DEF Fresh, Wanted
  <2>2. Cardinality(Fresh(apps)) \in Nat
    BY <2>1, AppsAssumption, FS_Subset, FS_CardinalityType
  <2>. QED BY <1>3, <2>2, BoundsAssumption DEF Reconcile, Numbered, TypeOK
<1>4. ASSUME NEW c \in Callers, Agent(c) PROVE Numbered'
  BY <1>1, <1>2, <1>4 DEF Agent, RequestSecret, RefuseSecret, JoinSecret, OpenSecret, SendInput,
     AskFirst, TypeUnasked, TypeGranted, RefuseGrant, OpenGrant, Submit
<1>5. ASSUME NEW i \in Ids, User(i) PROVE Numbered'
  BY <1>1, <1>5 DEF User, ResolveSecret, ResolveGrant, Dismiss, ForgetNotice
<1>6. CASE Lifecycle
  BY <1>1, <1>3, <1>6 DEF Lifecycle, Expire, VaultByHand, PtyExit
<1>7. CASE Desktop \/ UNCHANGED vars
  BY <1>1, <1>7 DEF Desktop, NewWindow, SetActive, SetTabs, Focus, CloseWindow, vars
<1>. QED BY <1>4, <1>5, <1>6, <1>7 DEF Next

Settled(c) == call[c].phase = "idle"
OnCard(i, c) ==
    /\ i \in DOMAIN entries /\ c \in entries[i].waiters
    /\ call[c].phase \in Waiting

\* An agent that waits stays on its card until it is answered, and then it either
\* has its result or types what it was allowed to; typing ends in a result.
CallMovesOn(c) ==
    /\ call[c].phase = "typing" => call'[c].phase \in {"typing", "idle"}
    /\ \A i \in DOMAIN entries : c \in entries[i].waiters =>
          \/ call'[c].phase \in {"idle", "typing"}
          \/ call'[c] = call[c] /\ i \in DOMAIN entries' /\ c \in entries'[i].waiters

\* Steps that answer every agent of some cards and leave the other cards alone.
LEMMA AnsweredMovesOn ==
    ASSUME TypeOK, Holding, NEW ids \in SUBSET DOMAIN entries, NEW o \in Outcomes,
           Answer(WaitersOf(ids), o), NEW c \in Callers,
           \A i \in DOMAIN entries \ ids : i \in DOMAIN entries' /\ entries'[i] = entries[i]
    PROVE  CallMovesOn(c)
<1>1. \A k \in Call : AfterAnswer(k, o).phase \in {"idle", "typing"}
  BY DEF AfterAnswer, TypeBody, Done, Call
<1>2. IF c \in WaitersOf(ids) THEN call'[c].phase \in {"idle", "typing"} ELSE call'[c] = call[c]
  BY <1>1 DEF Answer, TypeOK
<1>. QED BY <1>2 DEF CallMovesOn, WaitersOf

\* Steps that keep the calls, and everyone on their card.
LEMMA KeptMovesOn ==
    ASSUME NEW c \in Callers, call'[c] = call[c],
           \A i \in DOMAIN entries : c \in entries[i].waiters =>
               i \in DOMAIN entries' /\ c \in entries'[i].waiters
    PROVE  CallMovesOn(c)
BY DEF CallMovesOn

LEMMA CallStep ==
    ASSUME TypeOK, Holding, [Next]_vars, NEW c \in Callers
    PROVE  CallMovesOn(c)
<1>0. \A i \in DOMAIN entries : c \in entries[i].waiters =>
        /\ call[c].phase \in Waiting /\ entries[i].kind # "notice"
  BY DEF Holding, HeldRight, TypeOK, Entry, Kinds, Call, Waiting
<1>1. ASSUME call'[c] = call[c], UNCHANGED entries PROVE CallMovesOn(c)
  BY <1>1, KeptMovesOn
<1>2. ASSUME NEW ids \in SUBSET DOMAIN entries, NEW o \in Outcomes, Settle(ids, o)
      PROVE  CallMovesOn(c)
  <2>1. \A i \in DOMAIN entries \ ids : i \in DOMAIN entries' /\ entries'[i] = entries[i]
    BY <1>2 DEF Settle, Drop
  <2>. QED BY <1>2, <2>1, AnsweredMovesOn DEF Settle
<1>3. ASSUME NEW card \in Entry, card.waiters # {}, Register(card)
      PROVE  \A i \in DOMAIN entries : c \in entries[i].waiters =>
                 i \in DOMAIN entries' /\ c \in entries'[i].waiters
  <2>1. /\ nextId \notin DOMAIN entries
        /\ \A i \in DOMAIN entries' \ {nextId} : i \in DOMAIN entries /\ entries'[i] = entries[i]
        /\ \A i \in DOMAIN entries \ DOMAIN entries' : entries[i].waiters = {}
    BY <1>3, RegisterAdds
  <2>. QED BY <2>1
<1>4. ASSUME NEW d \in Callers, NEW root \in Roots \cup {None}, NEW name \in Names,
             RequestSecret(d, root, name)
      PROVE  CallMovesOn(c)
  <2>1. /\ call[d].phase = "idle"
        /\ \A e \in Callers \ {d} : call'[e] = call[e]
    BY <1>4 DEF RequestSecret, RefuseSecret, JoinSecret, OpenSecret, TypeOK
  <2>2. CASE c = d
    BY <1>0, <2>1, <2>2 DEF CallMovesOn, Waiting
  <2>3. CASE RefuseSecret(d) /\ c # d
    BY <1>1, <2>1, <2>3 DEF RefuseSecret
  <2>4. CASE JoinSecret(d, root, name) /\ c # d
    <3>1. PICK i \in First(Coalescable(root, name)) :
            entries' = [entries EXCEPT ![i].waiters = @ \cup {d}]
      BY <2>4 DEF JoinSecret
    <3>2. i \in DOMAIN entries
      BY DEF First, Coalescable
    <3>3. \A j \in DOMAIN entries : c \in entries[j].waiters =>
              j \in DOMAIN entries' /\ c \in entries'[j].waiters
      BY <3>1, <3>2 DEF TypeOK, Entry
    <3>. QED BY <2>1, <2>4, <3>3, KeptMovesOn
  <2>5. CASE OpenSecret(d, root, name) /\ c # d
    <3>1. PICK w \in PickWindow(root) : Register(Card("secret", root, name, w, {d}))
      BY <2>5 DEF OpenSecret
    <3> DEFINE card == Card("secret", root, name, w, {d})
    <3>2. card \in Entry /\ card.waiters # {}
      BY PickWindowType DEF Card, Entry, Kinds
    <3>3. Register(card)
      BY <3>1
    <3> HIDE DEF card
    <3>. QED BY <1>3, <2>1, <2>5, <3>2, <3>3, KeptMovesOn
  <2>. QED BY <1>4, <2>2, <2>3, <2>4, <2>5 DEF RequestSecret
<1>5. ASSUME NEW d \in Callers, NEW p \in Ptys, NEW payload \in Payloads,
             SendInput(d, p, payload)
      PROVE  CallMovesOn(c)
  <2>1. /\ call[d].phase = "idle" /\ UNCHANGED entries
        /\ \A e \in Callers \ {d} : call'[e] = call[e]
    BY <1>5 DEF SendInput, TypeOK
  <2>. QED BY <1>0, <1>1, <2>1 DEF CallMovesOn, Waiting
<1>6. ASSUME NEW d \in Callers, AskFirst(d) PROVE CallMovesOn(c)
  <2>1. /\ call[d].phase = "asking"
        /\ \A e \in Callers \ {d} : call'[e] = call[e]
    BY <1>6 DEF AskFirst, TypeUnasked, TypeGranted, RefuseGrant, OpenGrant, TypeOK
  <2>2. CASE c = d
    BY <1>0, <2>1, <2>2 DEF CallMovesOn, Waiting
  <2>3. CASE (TypeUnasked(d) \/ TypeGranted(d) \/ RefuseGrant(d)) /\ c # d
    BY <1>1, <2>1, <2>3 DEF TypeUnasked, TypeGranted, RefuseGrant
  <2>4. CASE OpenGrant(d) /\ c # d
    <3>1. PICK w \in PickWindow(None) : Register(Card("grant", None, call[d].pty, w, {d}))
      BY <2>4 DEF OpenGrant
    <3> DEFINE card == Card("grant", None, call[d].pty, w, {d})
    <3>2. call[d].pty \in Ptys
      BY <2>1 DEF Call, TypeOK, Waiting
    <3>3. card \in Entry /\ card.waiters # {}
      BY <3>2, PickWindowType DEF Card, Entry, Kinds
    <3>4. Register(card)
      BY <3>1
    <3> HIDE DEF card
    <3>. QED BY <1>3, <2>1, <2>4, <3>3, <3>4, KeptMovesOn
  <2>. QED BY <1>6, <2>2, <2>3, <2>4 DEF AskFirst
<1>7. ASSUME NEW d \in Callers, Submit(d) PROVE CallMovesOn(c)
  <2>1. /\ call[d].phase = "typing" /\ UNCHANGED entries /\ call'[d].phase = "idle"
        /\ \A e \in Callers \ {d} : call'[e] = call[e]
    BY <1>7 DEF Submit, TypeOK, Done
  <2>2. CASE c = d
    BY <2>1, <2>2 DEF CallMovesOn
  <2>. QED BY <1>1, <2>1, <2>2
<1>8. ASSUME NEW i \in Ids, NEW answer \in BOOLEAN, ResolveSecret(i, answer) \/ ResolveGrant(i, answer)
      PROVE  CallMovesOn(c)
  BY <1>2, <1>8 DEF ResolveSecret, ResolveGrant, Shown, Outcomes
<1>9. ASSUME NEW i \in Ids, Dismiss(i) \/ ForgetNotice(i) PROVE CallMovesOn(c)
  <2>1. i \in DOMAIN entries /\ UNCHANGED call
    BY <1>9 DEF Dismiss, ForgetNotice, Shown
  <2>2. CASE entries[i].kind = "notice" /\ entries' = Drop(entries, {i})
    BY <1>0, <2>1, <2>2, KeptMovesOn DEF Drop
  <2>3. CASE DismissRequest(i)
    <3>1. entries' = [entries EXCEPT ![i].dismissed = TRUE]
      BY <2>3 DEF DismissRequest
    <3>2. \A j \in DOMAIN entries : c \in entries[j].waiters =>
              j \in DOMAIN entries' /\ c \in entries'[j].waiters
      BY <2>1, <3>1 DEF TypeOK, Entry
    <3>. QED BY <2>1, <3>2, KeptMovesOn
  <2>. QED BY <1>9, <2>2, <2>3 DEF Dismiss, DismissNotice, ForgetNotice
<1>10. ASSUME NEW i \in Ids, Expire(i) PROVE CallMovesOn(c)
  <2>1. i \in DOMAIN entries /\ WaitersOf({i}) = entries[i].waiters
    BY <1>10 DEF Expire, WaitersOf
  <2>2. Answer(WaitersOf({i}), "timedOut")
    BY <1>10, <2>1 DEF Expire
  <2>3. \A j \in DOMAIN entries \ {i} : j \in DOMAIN entries' /\ entries'[j] = entries[j]
    BY <1>10, <2>1 DEF Expire, Drop, TypeOK
  <2>4. "timedOut" \in Outcomes /\ {i} \in SUBSET DOMAIN entries
    BY <2>1 DEF Outcomes
  <2>. QED BY <2>2, <2>3, <2>4, AnsweredMovesOn
<1>11. ASSUME NEW root \in Roots, NEW name \in Names, VaultByHand(root, name) PROVE CallMovesOn(c)
  BY <1>2, <1>11 DEF VaultByHand, Outcomes
<1>12. ASSUME NEW p \in Ptys, PtyExit(p) PROVE CallMovesOn(c)
  BY <1>2, <1>12 DEF PtyExit, Outcomes
<1>13. ASSUME NEW apps \in SUBSET Apps, Reconcile(apps) PROVE CallMovesOn(c)
  <2> DEFINE kept == Drop(entries, Gone(apps))
  <2>1. PICK new \in NewNotices(Fresh(apps)) : entries' = EnforceCap(Add(kept, new))
    BY <1>13 DEF Reconcile
  <2>2. DOMAIN new \cap DOMAIN entries = {}
    BY <2>1 DEF NewNotices, TypeOK
  <2>3. /\ DOMAIN Add(kept, new) = (DOMAIN entries \ Gone(apps)) \cup DOMAIN new
        /\ \A i \in DOMAIN entries \ Gone(apps) : Add(kept, new)[i] = entries[i]
    BY <2>2 DEF Add, Drop
  <2>4. \A i \in DOMAIN entries : c \in entries[i].waiters => i \notin Gone(apps)
    BY <1>0 DEF Gone, Notices
  <2>5. \A i \in DOMAIN entries : c \in entries[i].waiters =>
            i \in DOMAIN entries' /\ c \in entries'[i].waiters
    BY <2>1, <2>3, <2>4, EnforceCapDrops
  <2>. QED BY <1>13, <2>5, KeptMovesOn DEF Reconcile
<1>14. ASSUME NEW w \in windows, CloseWindow(w) PROVE CallMovesOn(c)
  <2> DEFINE orphans == {i \in DOMAIN entries : entries[i].target = w}
  <2>1. CASE Settle(orphans, "no")
    BY <1>2, <2>1 DEF Outcomes
  <2>2. ASSUME NEW to \in [orphans -> windows'], UNCHANGED call,
               entries' = [i \in DOMAIN entries |->
                  IF i \in orphans THEN [entries[i] EXCEPT !.target = to[i]] ELSE entries[i]]
        PROVE  CallMovesOn(c)
    <3>1. \A i \in DOMAIN entries : [entries[i] EXCEPT !.target = to[i]].waiters = entries[i].waiters
      BY DEF TypeOK, Entry
    <3>2. \A i \in DOMAIN entries : entries'[i].waiters = entries[i].waiters
      BY <2>2, <3>1
    <3>. QED BY <2>2, <3>2, KeptMovesOn
  <2>. QED BY <1>14, <2>1, <2>2 DEF CloseWindow, Reroute
<1>15. CASE UNCHANGED <<call, entries>>
  BY <1>1, <1>15
<1>. QED BY <1>4, <1>5, <1>6, <1>7, <1>8, <1>9, <1>10, <1>11, <1>12, <1>13, <1>14, <1>15
         DEF Next, Agent, User, Lifecycle, Desktop, NewWindow, SetActive, SetTabs, Focus, vars

-----------------------------------------------------------------------------
(* What the proof carries along: the types, the cards' waiters, the bound.  *)

Carried == TypeOK /\ Holding /\ Numbered

LEMMA AlwaysCarried == Spec => []Carried
<1>1. Init => Holding
  BY DEF Init, Holding, HeldRight, HeldOnce, NobodyLost, Done, Waiting
<1>2. Init => Numbered
  BY BoundsAssumption DEF Init, Numbered
<1>. QED BY <1>1, <1>2, HoldingStep, NumberedStep, TypeCorrect, PTL DEF Spec, Carried

\* Typing ends when the submit delay has elapsed.
LEMMA TypingEnds ==
    ASSUME NEW c \in Callers
    PROVE  []Carried /\ [][Next]_vars /\ FairSubmit(c) /\ []CanSubmit(c)
           => (call[c].phase = "typing" ~> Settled(c))
<1>1. Carried /\ call[c].phase = "typing" /\ [Next]_vars
      => (call[c].phase = "typing")' \/ Settled(c)'
  BY CallStep DEF Carried, CallMovesOn, Settled
<1>2. Carried /\ <<Submit(c)>>_vars => Settled(c)'
  BY DEF Submit, Carried, TypeOK, Done, Settled
<1>3. CanSubmit(c) /\ call[c].phase = "typing" => ENABLED <<Submit(c)>>_vars
  BY DEF CanSubmit
<1>. QED BY <1>1, <1>2, <1>3, PTL DEF FairSubmit

\* A call that reads the preferences goes on once they have been read.
LEMMA AskingEnds ==
    ASSUME NEW c \in Callers
    PROVE  []Carried /\ [][Next]_vars /\ FairAsk(c) /\ []CanAsk(c)
           => (call[c].phase = "asking" ~> ~(call[c].phase = "asking"))
<1>1. Carried /\ <<AskFirst(c)>>_vars => ~(call[c].phase = "asking")'
  <2>. SUFFICES ASSUME Carried, AskFirst(c) PROVE call'[c].phase # "asking"
    OBVIOUS
  <2>1. call[c] \in Call /\ call \in [Callers -> Call]
    BY DEF Carried, TypeOK
  <2>2. TypeBody(call[c]).phase # "asking" /\ TypeBody([call[c] EXCEPT !.asked = TRUE]).phase # "asking"
    BY <2>1 DEF TypeBody, Done, Call
  <2>3. CASE OpenGrant(c)
    <3>1. call' = [call EXCEPT ![c] = [call[c] EXCEPT !.phase = "grant", !.asked = TRUE]]
      BY <2>1, <2>3 DEF OpenGrant
    <3>2. [call[c] EXCEPT !.phase = "grant", !.asked = TRUE].phase = "grant"
      BY <2>1 DEF Call
    <3>. QED BY <2>1, <3>1, <3>2
  <2>. QED BY <2>1, <2>2, <2>3 DEF AskFirst, TypeUnasked, TypeGranted, RefuseGrant, Done
<1>2. CanAsk(c) /\ call[c].phase = "asking" => ENABLED <<AskFirst(c)>>_vars
  BY DEF CanAsk
<1>. QED BY <1>1, <1>2, PTL DEF FairAsk

\* An agent on a card leaves it when the card's timer fires at the latest.
LEMMA WaitingEnds ==
    ASSUME NEW c \in Callers, NEW i \in Ids
    PROVE  []Carried /\ [][Next]_vars /\ FairExpiry(i) /\ []CanExpire(i)
           => (OnCard(i, c) ~> Settled(c) \/ call[c].phase = "typing")
<1>1. Carried /\ OnCard(i, c) /\ [Next]_vars
      => OnCard(i, c)' \/ Settled(c)' \/ (call[c].phase = "typing")'
  BY CallStep DEF Carried, CallMovesOn, Settled, OnCard
<1>2. Carried /\ OnCard(i, c) /\ <<Expire(i)>>_vars => Settled(c)'
  BY DEF Expire, Answer, AfterAnswer, Carried, TypeOK, Done, Settled, OnCard
<1>3. Carried /\ CanExpire(i) /\ OnCard(i, c) => ENABLED <<Expire(i)>>_vars
  BY DEF CanExpire, OnCard, Carried, Holding, HeldRight, Waiting
<1>. QED BY <1>1, <1>2, <1>3, PTL DEF FairExpiry

\* Fairness is for good.
LEMMA LoopStaysFair == Fairness => []LoopFair
<1>1. Fairness => LoopFair
  BY PTL DEF Fairness, LoopFair, FairExpiry, FairCall, FairAsk, FairSubmit
<1>2. ASSUME NEW i \in Ids PROVE FairExpiry(i) => []FairExpiry(i)
  BY PTL DEF FairExpiry
<1>3. ASSUME NEW c \in Callers PROVE FairCall(c) => []FairCall(c)
  BY PTL DEF FairCall, FairAsk, FairSubmit
<1>4. LoopFair => (\A i \in Ids : []FairExpiry(i)) /\ (\A c \in Callers : []FairCall(c))
  BY <1>2, <1>3 DEF LoopFair
<1>5. (\A i \in Ids : []FairExpiry(i)) => [](\A i \in Ids : FairExpiry(i))
  OBVIOUS
<1>6. (\A c \in Callers : []FairCall(c)) => [](\A c \in Callers : FairCall(c))
  OBVIOUS
<1>. QED BY <1>1, <1>4, <1>5, <1>6, PTL DEF LoopFair

CallReturns(c) == call[c].phase # "idle" ~> call[c].phase = "idle"

\* Every tool call returns, even if the user never looks at a card: whatever is
\* dismissed, moved, shared or evicted meanwhile, the card an agent waits on keeps
\* its timer, and an answer leads to a result (agent-requests.ts, expire).
THEOREM CallsReturn == FairSpec /\ []LoopRuns => EveryCallReturns
<1>1. ASSUME NEW c \in Callers
      PROVE  []Carried /\ [][Next]_vars /\ []LoopFair /\ []LoopRuns => CallReturns(c)
  <2> DEFINE Assumed == []Carried /\ [][Next]_vars /\ []LoopFair /\ []LoopRuns
  <2>1. ASSUME NEW i \in Ids
        PROVE  Assumed => (OnCard(i, c) => <>(Settled(c) \/ call[c].phase = "typing"))
    <3>1. (LoopRuns => CanExpire(i)) /\ (LoopFair => FairExpiry(i))
      BY DEF LoopRuns, LoopFair, FairCall
    <3>2. []Carried /\ [][Next]_vars /\ FairExpiry(i) /\ []CanExpire(i)
          => (OnCard(i, c) ~> Settled(c) \/ call[c].phase = "typing")
      BY WaitingEnds
    <3>. QED BY <3>1, <3>2, PTL DEF Assumed
  <2>2. Assumed => ((\E i \in Ids : OnCard(i, c)) => <>(Settled(c) \/ call[c].phase = "typing"))
    BY <2>1
  <2>3. Assumed => (call[c].phase = "typing" ~> Settled(c))
    <3>1. (LoopRuns => CanSubmit(c)) /\ (LoopFair => FairSubmit(c))
      BY DEF LoopRuns, LoopFair, FairCall
    <3>2. []Carried /\ [][Next]_vars /\ FairSubmit(c) /\ []CanSubmit(c)
          => (call[c].phase = "typing" ~> Settled(c))
      BY TypingEnds
    <3>. QED BY <3>1, <3>2, PTL DEF Assumed
  <2>4. Assumed => (call[c].phase = "asking" ~> ~(call[c].phase = "asking"))
    <3>1. (LoopRuns => CanAsk(c)) /\ (LoopFair => FairAsk(c))
      BY DEF LoopRuns, LoopFair, FairCall
    <3>2. []Carried /\ [][Next]_vars /\ FairAsk(c) /\ []CanAsk(c)
          => (call[c].phase = "asking" ~> ~(call[c].phase = "asking"))
      BY AskingEnds
    <3>. QED BY <3>1, <3>2, PTL DEF Assumed
  <2>5. Carried => \/ Settled(c) \/ call[c].phase = "asking" \/ call[c].phase = "typing"
                   \/ \E i \in Ids : OnCard(i, c)
    <3>. SUFFICES ASSUME Carried, call[c].phase \in Waiting PROVE \E i \in Ids : OnCard(i, c)
      BY DEF Carried, TypeOK, Call, Settled
    <3>1. PICK i \in DOMAIN entries : c \in entries[i].waiters
      BY DEF Carried, Holding, NobodyLost
    <3>2. i \in Ids
      BY BoundsAssumption DEF Carried, TypeOK, Numbered, Ids
    <3>. QED BY <3>1, <3>2 DEF OnCard
  <2>6. (call[c].phase # "idle" <=> ~Settled(c)) /\ (call[c].phase = "idle" <=> Settled(c))
    BY DEF Settled
  <2>. QED BY <2>2, <2>3, <2>4, <2>5, <2>6, PTL DEF Assumed, CallReturns
<1>2. (\A c \in Callers : CallReturns(c)) => EveryCallReturns
  BY PTL DEF CallReturns, EveryCallReturns
<1>3. FairSpec /\ []LoopRuns => []Carried /\ [][Next]_vars /\ []LoopFair /\ []LoopRuns
  BY LoopStaysFair, AlwaysCarried, PTL DEF FairSpec, Spec
<1>4. FairSpec /\ []LoopRuns => \A c \in Callers : CallReturns(c)
  BY <1>1, <1>3
<1>. QED BY <1>2, <1>4
==============================================================================
