----------------------------- MODULE VaultProofs -----------------------------
(***************************************************************************)
(* Machine-checked proofs about the secret vault, for any names, values    *)
(* and legacy items: the index for any number of overlapping calls, the    *)
(* values for calls that do not overlap.                                   *)
(***************************************************************************)
EXTENDS Vault, Integers, TLAPS

\* The calls that wait for the index or are changing it.
InLine == {"queued", "publishing"}

-----------------------------------------------------------------------------
(* Types.                                                                  *)

LEMMA EmptyType == Empty \in Maps /\ (\A map \in Maps : map # None)
BY NoneAssumption DEF Empty, Maps

LEMMA IdleType == Idle \in Call
BY EmptyType, NoneAssumption DEF Idle, Call, CallRecord, Stages

LEMMA UpdateType ==
    ASSUME TypeOK, NEW c \in Clients, NEW k \in Call, call' = [call EXCEPT ![c] = k]
    PROVE  call' \in [Clients -> Call]
BY DEF TypeOK

LEMMA SettlesType ==
    ASSUME TypeOK, NEW c \in Clients, Settles(c)
    PROVE  call' \in [Clients -> Call]
BY IdleType DEF TypeOK, Settles

\* A call that changes stage, working copy or notes is a call of the same kind.
LEMMA AdvanceType ==
    ASSUME NEW k \in Call, NEW k2 \in CallRecord,
           k2.op = k.op, k2.name = k.name, k2.value = k.value
    PROVE  k2 \in Call
BY DEF Call

\* What a call finds in the index, and what it notes of having missed.
LEMMA MissedType ==
    ASSUME TypeOK, NEW found \in Found, NEW what \in {"items", "names"}
    PROVE  found \subseteq Names /\ Missed(found, what) \subseteq {"items", "names"}
BY DEF Found, Missed, TypeOK

\* Each step replaces the call of one client by another well-typed call.
LEMMA StepType ==
    ASSUME TypeOK, NEW c \in Clients, Step(c), overlap' \in BOOLEAN
    PROVE  TypeOK'
<1>0. call[c] \in Call /\ call[c] \in CallRecord /\ Empty \in Maps /\ call \in [Clients -> Call]
  BY EmptyType DEF TypeOK, Call
<1>1. CASE ReadVault(c)
  <2> DEFINE map == IF cache # None THEN cache ELSE vault
             at == IF map # Empty THEN "migrated" ELSE "listing"
             k == [call[c] EXCEPT !.map = map, !.at = at]
  <2>1. map \in Maps /\ at \in Stages
    BY DEF TypeOK, Stages
  <2>2. k \in CallRecord /\ k.op = call[c].op /\ k.name = call[c].name /\ k.value = call[c].value
    BY <1>0, <2>1 DEF CallRecord
  <2>3. k \in Call
    BY <1>0, <2>2, AdvanceType
  <2>4. call' = [call EXCEPT ![c] = k] /\ cache' = map
    BY <1>1, <1>0 DEF ReadVault
  <2>. HIDE DEF k, map
  <2>. QED BY <1>1, <2>1, <2>3, <2>4, UpdateType DEF ReadVault, TypeOK, keychain
<1>2. CASE ReadVaultDenied(c)
  BY <1>2, SettlesType DEF ReadVaultDenied, keychain, TypeOK
<1>3. CASE ListItems(c)
  <2>0. PICK found \in Found :
          call' = [call EXCEPT ![c].todo = found, ![c].unread = Missed(found, "items"),
                               ![c].at = IF found = {} THEN "migrated" ELSE "items"]
    BY <1>3 DEF ListItems
  <2> DEFINE at == IF found = {} THEN "migrated" ELSE "items"
             k == [call[c] EXCEPT !.todo = found, !.unread = Missed(found, "items"), !.at = at]
  <2>1. k \in CallRecord /\ k.op = call[c].op /\ k.name = call[c].name /\ k.value = call[c].value
    BY <1>0, MissedType DEF CallRecord, Stages
  <2>2. k \in Call
    BY <1>0, <2>1, AdvanceType
  <2>3. call' = [call EXCEPT ![c] = k]
    BY <2>0, <1>0
  <2>. HIDE DEF k
  <2>. QED BY <1>3, <2>2, <2>3, UpdateType DEF ListItems, TypeOK, keychain, session
<1>4. CASE ReadItem(c)
  <2>1. PICK n \in call[c].todo :
          LET map == [call[c].map EXCEPT ![n] = legacy[n]]
              left == call[c].todo \ {n}
          IN  /\ call' = [call EXCEPT ![c].map = map, ![c].todo = left,
                                      ![c].at = IF left # {} THEN "items"
                                                ELSE IF map # Empty THEN "consolidating"
                                                ELSE "migrated"]
              /\ cached' = cached \cup {n}
    BY <1>4 DEF ReadItem
  <2> DEFINE map == [call[c].map EXCEPT ![n] = legacy[n]]
             left == call[c].todo \ {n}
             at == IF left # {} THEN "items" ELSE IF map # Empty THEN "consolidating" ELSE "migrated"
             k == [call[c] EXCEPT !.map = map, !.todo = left, !.at = at]
  <2>2. n \in Names /\ map \in Maps /\ left \subseteq Names
    BY <1>0 DEF CallRecord, TypeOK, Maps
  <2>3. at \in Stages
    BY DEF Stages
  <2>4. call' = [call EXCEPT ![c] = k]
    BY <2>1, <1>0
  <2>. HIDE DEF map, left, at
  <2>5. k \in CallRecord /\ k.op = call[c].op /\ k.name = call[c].name /\ k.value = call[c].value
    BY <1>0, <2>2, <2>3 DEF CallRecord
  <2>6. k \in Call
    BY <1>0, <2>5, AdvanceType
  <2>. HIDE DEF k
  <2>. QED BY <1>4, <2>1, <2>2, <2>4, <2>6, UpdateType DEF ReadItem, TypeOK, keychain
<1>5. CASE ReadItemDenied(c)
  BY <1>5, SettlesType DEF ReadItemDenied, keychain, TypeOK
<1>6. CASE Consolidate(c)
  <2> DEFINE k == [call[c] EXCEPT !.todo = NamesIn(call[c].map), !.at = "cleaning"]
  <2>1. k \in CallRecord /\ k.op = call[c].op /\ k.name = call[c].name /\ k.value = call[c].value
    BY <1>0 DEF CallRecord, Stages, NamesIn
  <2>2. k \in Call
    BY <1>0, <2>1, AdvanceType
  <2>3. call' = [call EXCEPT ![c] = k] /\ call[c].map \in Maps
    BY <1>6, <1>0 DEF Consolidate, CallRecord
  <2>. HIDE DEF k
  <2>. QED BY <1>6, <2>2, <2>3, UpdateType DEF Consolidate, Stores, TypeOK
<1>7. CASE ConsolidateRefused(c)
  BY <1>7, SettlesType DEF ConsolidateRefused, keychain, session, TypeOK
<1>8. CASE CleanItem(c)
  <2>1. PICK n \in call[c].todo :
          LET left == call[c].todo \ {n}
          IN  /\ legacy' \in {legacy, [legacy EXCEPT ![n] = None]}
              /\ cached' = cached \ {n}
              /\ call' = [call EXCEPT ![c].todo = left,
                                ![c].at = IF left # {} THEN "cleaning" ELSE "migrated"]
    BY <1>8 DEF CleanItem
  <2> DEFINE left == call[c].todo \ {n}
             k == [call[c] EXCEPT !.todo = left, !.at = IF left # {} THEN "cleaning" ELSE "migrated"]
  <2>2. legacy' \in Maps
    BY <2>1 DEF TypeOK, Maps
  <2>3. k \in CallRecord /\ k.op = call[c].op /\ k.name = call[c].name /\ k.value = call[c].value
    BY <1>0 DEF CallRecord, Stages
  <2>4. k \in Call
    BY <1>0, <2>3, AdvanceType
  <2>5. call' = [call EXCEPT ![c] = k]
    BY <2>1, <1>0
  <2>. HIDE DEF k
  <2>. QED BY <1>8, <2>1, <2>2, <2>4, <2>5, UpdateType DEF CleanItem, TypeOK
<1>9. CASE Answer(c)
  BY <1>9, SettlesType DEF Answer, keychain, session, TypeOK
<1>10. ASSUME NEW clean \in BOOLEAN, Dropped(c, clean)
       PROVE  call' \in [Clients -> Call] /\ queue' \in Seq(Clients) /\ UNCHANGED <<index, audit>>
  <2> DEFINE k == [call[c] EXCEPT !.map = Empty, !.clean = clean, !.at = "queued"]
  <2>1. k \in CallRecord /\ k.op = call[c].op /\ k.name = call[c].name /\ k.value = call[c].value
    BY <1>0 DEF CallRecord, Stages
  <2>2. k \in Call
    BY <1>0, <2>1, AdvanceType
  <2>3. call' = [call EXCEPT ![c] = k]
    BY <1>10, <1>0 DEF Dropped
  <2>. HIDE DEF k
  <2>. QED BY <1>10, <2>2, <2>3, UpdateType DEF Dropped, TypeOK
<1>11. CASE Drop(c)
  <2>1. [call[c].map EXCEPT ![call[c].name] = None] \in Maps
    BY <1>0 DEF CallRecord, Maps
  <2>2. /\ vault' \in Maps /\ legacy' \in Maps /\ cache' \in Maps \cup {None}
        /\ cached' \subseteq Names /\ hardError' \in BOOLEAN
    <3>1. vault' \in Maps /\ cache' \in Maps \cup {None} /\ hardError' \in BOOLEAN
      BY <1>0, <1>11, <2>1 DEF Drop, Stores, Removes, TypeOK
    <3>2. legacy' = legacy \/ legacy' = [legacy EXCEPT ![call[c].name] = None]
      BY <1>11 DEF Drop
    <3>3. legacy' \in Maps
      BY <1>0, <3>2 DEF Maps, TypeOK
    <3>4. cached' \subseteq cached
      BY <1>11 DEF Drop, Stores, Removes, session
    <3>. QED BY <3>1, <3>3, <3>4 DEF TypeOK
  <2>3. \E clean \in BOOLEAN : Dropped(c, clean)
    BY <1>11 DEF Drop
  <2>. QED BY <1>10, <2>2, <2>3 DEF TypeOK
<1>12. CASE DropRefused(c)
  <2>1. Dropped(c, FALSE) /\ UNCHANGED keychain
        /\ cache' \in Maps \cup {None} /\ cached' \subseteq Names /\ hardError' \in BOOLEAN
    BY <1>12 DEF DropRefused, session, TypeOK
  <2>. QED BY <1>10, <2>1 DEF keychain, TypeOK
<1>13. CASE AskToList(c)
  <2> DEFINE k == [call[c] EXCEPT !.at = "queued"]
  <2>1. k \in CallRecord /\ k.op = call[c].op /\ k.name = call[c].name /\ k.value = call[c].value
    BY <1>0 DEF CallRecord, Stages
  <2>2. k \in Call
    BY <1>0, <2>1, AdvanceType
  <2>3. call' = [call EXCEPT ![c] = k]
    BY <1>13, <1>0 DEF AskToList
  <2>. HIDE DEF k
  <2>. QED BY <1>13, <2>2, <2>3, UpdateType DEF AskToList, TypeOK, keychain, session
<1>14. CASE WriteVault(c)
  <2> DEFINE k == [call[c] EXCEPT !.map = Empty, !.at = "auditing"]
  <2>1. k \in CallRecord /\ k.op = call[c].op /\ k.name = call[c].name /\ k.value = call[c].value
    BY <1>0 DEF CallRecord, Stages
  <2>2. k \in Call
    BY <1>0, <2>1, AdvanceType
  <2>3. call' = [call EXCEPT ![c] = k]
    BY <1>14, <1>0 DEF WriteVault
  <2>4. [call[c].map EXCEPT ![call[c].name] = call[c].value] \in Maps
    BY <1>0 DEF CallRecord, Maps
  <2>. HIDE DEF k
  <2>. QED BY <1>14, <2>2, <2>3, <2>4, UpdateType DEF WriteVault, Stores, TypeOK
<1>15. CASE WriteRefused(c)
  BY <1>15, SettlesType DEF WriteRefused, keychain, session, TypeOK
<1>16. CASE ReadIndex(c)
  <2>0. PICK found \in Found :
          call' = [call EXCEPT ![c].base = found, ![c].unread = @ \cup Missed(found, "names"),
                               ![c].at = "publishing"]
    BY <1>16 DEF ReadIndex
  <2> DEFINE k == [call[c] EXCEPT !.base = found, !.unread = @ \cup Missed(found, "names"),
                                  !.at = "publishing"]
  <2>1. k \in CallRecord /\ k.op = call[c].op /\ k.name = call[c].name /\ k.value = call[c].value
    <3>1. Missed(found, "names") \subseteq {"items", "names"} /\ found \subseteq Names
      BY MissedType
    <3>. QED BY <1>0, <3>1 DEF CallRecord, Stages
  <2>2. k \in Call
    BY <1>0, <2>1, AdvanceType
  <2>3. call' = [call EXCEPT ![c] = k]
    BY <2>0, <1>0
  <2>. HIDE DEF k
  <2>. QED BY <1>16, <2>2, <2>3, UpdateType DEF ReadIndex, TypeOK, keychain, session
<1>17. CASE Publish(c)
  <2>1. PICK stage \in {"writing", "auditing"} : Leaves(c, stage)
    BY <1>17 DEF Publish
  <2> DEFINE k == [call[c] EXCEPT !.base = {}, !.at = stage]
  <2>2. k \in CallRecord /\ k.op = call[c].op /\ k.name = call[c].name /\ k.value = call[c].value
    BY <1>0 DEF CallRecord, Stages
  <2>3. k \in Call
    BY <1>0, <2>2, AdvanceType
  <2>4. call' = [call EXCEPT ![c] = k]
    BY <2>1, <1>0 DEF Leaves
  <2>5. index' \subseteq Names
    BY <1>17, <1>0 DEF Publish, Call, CallRecord, Does
  <2>. HIDE DEF k
  <2>6. queue' \in Seq(Clients)
    BY <1>17 DEF Publish, HasTurn, TypeOK
  <2>. QED BY <1>17, <2>3, <2>4, <2>5, <2>6, UpdateType DEF Publish, TypeOK, keychain, session
<1>18. CASE PublishFails(c)
  <2>1. queue' \in Seq(Clients)
    BY <1>18 DEF PublishFails, HasTurn, TypeOK
  <2>. QED BY <1>18, <2>1, SettlesType DEF PublishFails, keychain, session, TypeOK
<1>19. CASE Audit(c)
  <2> DEFINE says == IF Does(c, "set") THEN "set" ELSE IF call[c].clean THEN "deleted" ELSE "lingers"
  <2>1. audit' \in {audit, [audit EXCEPT ![call[c].name] = says]}
    BY <1>19 DEF Audit
  <2>2. audit' \in [Names -> {"nothing", "set", "deleted", "lingers"}]
    BY <2>1 DEF TypeOK
  <2>. QED BY <1>19, <2>2, SettlesType DEF Audit, keychain, session, TypeOK
<1>. QED BY <1>1, <1>2, <1>3, <1>4, <1>5, <1>6, <1>7, <1>8, <1>9, <1>11, <1>12, <1>13,
            <1>14, <1>15, <1>16, <1>17, <1>18, <1>19 DEF Step

LEMMA TypeCorrectStep == TypeOK /\ [Next]_vars => TypeOK'
<1> SUFFICES ASSUME TypeOK, [Next]_vars PROVE TypeOK'
  OBVIOUS
<1>0. overlap' \in BOOLEAN
  BY DEF Next, Remember, vars, TypeOK
<1>1. ASSUME NEW c \in Clients, SetSecret(c) \/ DeleteSecret(c) \/ ReadSecrets(c)
      PROVE  TypeOK'
  <2>1. \A op \in {"set", "delete", "read"}, n \in Names \cup {None}, v \in Values \cup {None} :
            /\ op \in {"set", "delete"} => n \in Names
            /\ op = "set" => v \in Values
            => [Idle EXCEPT !.op = op, !.name = n, !.value = v, !.at = "reading"] \in Call
    BY EmptyType DEF Idle, Call, CallRecord, Stages
  <2>2. PICK op \in {"set", "delete", "read"}, n \in Names \cup {None}, v \in Values \cup {None} :
            /\ op \in {"set", "delete"} => n \in Names
            /\ op = "set" => v \in Values
            /\ Begin(c, op, n, v)
    BY <1>1 DEF SetSecret, DeleteSecret, ReadSecrets
  <2> DEFINE k == [Idle EXCEPT !.op = op, !.name = n, !.value = v, !.at = "reading"]
  <2>3. k \in Call
    BY <2>1, <2>2
  <2>4. call' = [call EXCEPT ![c] = k] /\ UNCHANGED <<keychain, index, audit, session, queue>>
    BY <2>2 DEF Begin
  <2>. HIDE DEF k
  <2>. QED BY <1>0, <2>3, <2>4, UpdateType DEF TypeOK, keychain, session
<1>2. CASE Restart
  <2>1. queue' \in Seq(Clients) /\ call' \in [Clients -> Call]
    BY <1>2, IdleType DEF Restart
  <2>. QED BY <1>0, <1>2, <2>1 DEF TypeOK, Restart, keychain
<1>3. CASE OtherAccounts
  BY <1>0, <1>3 DEF TypeOK, OtherAccounts, keychain
<1>4. CASE UNCHANGED vars
  BY <1>4 DEF TypeOK, vars, session
<1>. QED BY <1>0, <1>1, <1>2, <1>3, <1>4, StepType DEF Next

\* Every variable keeps its type.
THEOREM TypeCorrect == Spec => []TypeOK
<1>1. Init => TypeOK
  <2> SUFFICES ASSUME Init PROVE TypeOK
    OBVIOUS
  <2>1. vault \in Maps /\ legacy \in Maps /\ index \subseteq Names /\ call \in [Clients -> Call]
    BY IdleType, EmptyType, OldItemsAssumption DEF Init
  <2>2. audit \in [Names -> {"nothing", "set", "deleted", "lingers"}] /\ queue \in Seq(Clients)
    BY DEF Init
  <2>. QED BY <2>1, <2>2 DEF Init, TypeOK
<1>. QED BY <1>1, TypeCorrectStep, PTL DEF Spec

-----------------------------------------------------------------------------
(* The index.                                                              *)

\* The queue holds exactly the calls that are in line for the index, each once,
\* and what the call at its head has read is what the file still says, or nothing
\* because it could not read it.
ReadWell(c) == call[c].base = index \/ (call[c].base = {} /\ "names" \in call[c].unread)

InOrder ==
    /\ \A i, j \in DOMAIN queue : queue[i] = queue[j] => i = j
    /\ \A c \in Clients : call[c].at \in InLine <=> \E i \in DOMAIN queue : queue[i] = c
    /\ \A c \in Clients : At(c, "publishing") => HasTurn(c) /\ ReadWell(c)

\* A step of a call leaves the others alone, and either it stays out of the line,
\* or it enters at the end, or it has the turn and reads, or it leaves.
LEMMA StepKinds ==
    ASSUME TypeOK, NEW c \in Clients, Step(c)
    PROVE  /\ \A d \in Clients \ {c} : call'[d] = call[d]
           /\ \/ /\ call[c].at \notin InLine /\ call'[c].at \notin InLine
                 /\ UNCHANGED <<queue, index>>
              \/ /\ call[c].at \notin InLine /\ call'[c].at = "queued"
                 /\ queue' = Append(queue, c) /\ UNCHANGED index
              \/ ReadIndex(c)
              \/ Publish(c)
              \/ PublishFails(c)
<1>. USE DEF TypeOK, InLine, At
<1>1. CASE ReadVault(c)
  BY <1>1 DEF ReadVault
<1>2. CASE ReadVaultDenied(c) \/ ReadItemDenied(c) \/ ConsolidateRefused(c) \/ Answer(c)
           \/ WriteRefused(c) \/ Audit(c)
  BY <1>2 DEF ReadVaultDenied, ReadItemDenied, ConsolidateRefused, Answer, WriteRefused, Audit,
              Settles, Idle
<1>3. CASE ListItems(c)
  BY <1>3 DEF ListItems
<1>4. CASE ReadItem(c)
  BY <1>4 DEF ReadItem
<1>5. CASE Consolidate(c)
  BY <1>5 DEF Consolidate
<1>6. CASE CleanItem(c)
  BY <1>6 DEF CleanItem
<1>7. CASE Drop(c) \/ DropRefused(c)
  <2>1. PICK clean : Dropped(c, clean) /\ At(c, "migrated")
    BY <1>7 DEF Drop, DropRefused
  <2>. QED BY <2>1 DEF Dropped
<1>9. CASE AskToList(c)
  BY <1>9 DEF AskToList
<1>10. CASE WriteVault(c)
  BY <1>10 DEF WriteVault
<1>11. CASE ReadIndex(c)
  BY <1>11 DEF ReadIndex
<1>12. CASE Publish(c)
  BY <1>12 DEF Publish, Leaves
<1>13. CASE PublishFails(c)
  BY <1>13 DEF PublishFails, Settles
<1>. QED BY <1>1, <1>2, <1>3, <1>4, <1>5, <1>6, <1>7, <1>9, <1>10, <1>11, <1>12, <1>13
         DEF Step

LEMMA LeavesLine ==
    ASSUME TypeOK, InOrder, NEW c \in Clients, HasTurn(c), queue' = Tail(queue),
           call' \in [Clients -> Call], call'[c].at \notin InLine,
           \A d \in Clients \ {c} : call'[d] = call[d]
    PROVE  InOrder'
<1>1. /\ queue \in Seq(Clients) /\ queue # <<>> /\ queue[1] = c
      /\ DOMAIN queue' = 1..(Len(queue) - 1) /\ \A i \in DOMAIN queue' : queue'[i] = queue[i + 1]
      /\ \A i \in DOMAIN queue' : i + 1 \in DOMAIN queue /\ i + 1 # 1
      /\ \A i \in DOMAIN queue : i # 1 => i - 1 \in DOMAIN queue' /\ queue'[i - 1] = queue[i]
  BY DEF TypeOK, HasTurn
<1>2. \A i, j \in DOMAIN queue' : queue'[i] = queue'[j] => i = j
  BY <1>1 DEF InOrder
<1>3. \A i \in DOMAIN queue' : queue'[i] # c
  BY <1>1 DEF InOrder
<1>4. ASSUME NEW d \in Clients
      PROVE  call'[d].at \in InLine <=> \E i \in DOMAIN queue' : queue'[i] = d
  <2>1. CASE d = c
    BY <2>1, <1>3
  <2>2. CASE d # c
    <3>1. ASSUME NEW i \in DOMAIN queue' PROVE i + 1 \in DOMAIN queue /\ queue[i + 1] = queue'[i]
      BY <1>1
    <3>2. ASSUME NEW i \in DOMAIN queue, queue[i] = d
          PROVE  i - 1 \in DOMAIN queue' /\ queue'[i - 1] = d
      BY <1>1, <2>2, <3>2
    <3>3. (\E i \in DOMAIN queue : queue[i] = d) <=> (\E i \in DOMAIN queue' : queue'[i] = d)
      BY <3>1, <3>2
    <3>. QED BY <2>2, <3>3 DEF InOrder
  <2>. QED BY <2>1, <2>2
<1>5. \A d \in Clients : ~At(d, "publishing")'
  BY DEF InOrder, HasTurn, At, InLine
<1>. QED BY <1>2, <1>4, <1>5 DEF InOrder

LEMMA InOrderStep == TypeOK /\ InOrder /\ [Next]_vars => InOrder'
<1> SUFFICES ASSUME TypeOK, InOrder, [Next]_vars PROVE InOrder'
  OBVIOUS
<1>1. ASSUME NEW c \in Clients, SetSecret(c) \/ DeleteSecret(c) \/ ReadSecrets(c)
      PROVE  InOrder'
  <2>1. /\ \A d \in Clients \ {c} : call'[d] = call[d]
        /\ call[c].at = "idle" /\ call'[c].at = "reading"
        /\ UNCHANGED <<queue, index>>
    BY <1>1 DEF SetSecret, DeleteSecret, ReadSecrets, Begin, At, Idle, TypeOK
  <2>. QED BY <2>1 DEF InOrder, InLine, At, HasTurn, ReadWell
<1>2. ASSUME NEW c \in Clients, Step(c)
      PROVE  InOrder'
  <2>0. call' \in [Clients -> Call] /\ queue \in Seq(Clients)
    BY TypeCorrectStep DEF TypeOK
  <2>1. CASE call[c].at \notin InLine /\ call'[c].at \notin InLine /\ UNCHANGED <<queue, index>>
    BY <1>2, <2>1, StepKinds DEF InOrder, InLine, At, HasTurn, ReadWell
  <2>2. CASE call[c].at \notin InLine /\ call'[c].at = "queued" /\ queue' = Append(queue, c)
             /\ UNCHANGED index
    <3>1. /\ DOMAIN queue' = 1..(Len(queue) + 1) /\ queue'[Len(queue) + 1] = c
          /\ DOMAIN queue = 1..Len(queue) /\ Len(queue) \in Nat
          /\ \A i \in DOMAIN queue : queue'[i] = queue[i] /\ queue[i] # c
      BY <2>0, <2>2 DEF InOrder
    <3>2. \A i, j \in DOMAIN queue' : queue'[i] = queue'[j] => i = j
      BY <3>1 DEF InOrder
    <3>3. ASSUME NEW d \in Clients
          PROVE  call'[d].at \in InLine <=> \E i \in DOMAIN queue' : queue'[i] = d
      <4>1. CASE d = c
        <5>1. Len(queue) + 1 \in DOMAIN queue' /\ call'[d].at \in InLine
          BY <2>2, <3>1, <4>1 DEF InLine
        <5>. QED BY <3>1, <4>1, <5>1
      <4>2. CASE d # c
        <5>1. call'[d] = call[d]
          BY <1>2, <4>2, StepKinds
        <5>2. \A i \in DOMAIN queue' : i \in DOMAIN queue \/ i = Len(queue) + 1
          BY <3>1
        <5>3. \A i \in DOMAIN queue : i \in DOMAIN queue'
          BY <3>1
        <5>4. (\E i \in DOMAIN queue : queue[i] = d) <=> (\E i \in DOMAIN queue' : queue'[i] = d)
          BY <3>1, <4>2, <5>2, <5>3
        <5>. QED BY <5>1, <5>4 DEF InOrder
      <4>. QED BY <4>1, <4>2
    <3>4. ASSUME NEW d \in Clients, At(d, "publishing")'
          PROVE  HasTurn(d)' /\ ReadWell(d)'
      <4>1. d # c /\ call'[d] = call[d]
        BY <1>2, <2>2, <3>4, StepKinds DEF At
      <4>2. queue # <<>> /\ Head(queue) = d /\ ReadWell(d)
        BY <3>4, <4>1 DEF InOrder, HasTurn, At
      <4>. QED BY <2>0, <2>2, <4>1, <4>2 DEF HasTurn, ReadWell
    <3>. QED BY <3>2, <3>3, <3>4 DEF InOrder
  <2>3. CASE ReadIndex(c)
    <3>1. /\ call[c].at = "queued" /\ HasTurn(c) /\ call'[c].at = "publishing"
          /\ ReadWell(c)' /\ UNCHANGED <<queue, index>>
      <4>1. PICK found \in Found :
              call' = [call EXCEPT ![c].base = found, ![c].unread = @ \cup Missed(found, "names"),
                                   ![c].at = "publishing"]
        BY <2>3 DEF ReadIndex
      <4>2. /\ call'[c].base = found /\ Missed(found, "names") \subseteq call'[c].unread
            /\ call'[c].at = "publishing"
        BY <4>1 DEF TypeOK, Call, CallRecord
      <4>. QED BY <2>3, <4>2 DEF ReadIndex, At, Found, Missed, ReadWell
    <3>. QED BY <1>2, <3>1, StepKinds DEF InOrder, InLine, At, HasTurn, ReadWell
  <2>4. CASE Publish(c) \/ PublishFails(c)
    <3>1. HasTurn(c) /\ queue' = Tail(queue) /\ call'[c].at \notin InLine
      <4>1. CASE Publish(c)
        <5>1. PICK stage \in {"writing", "auditing"} : Leaves(c, stage)
          BY <4>1 DEF Publish
        <5>. QED BY <4>1, <5>1 DEF Publish, Leaves, InLine, TypeOK
      <4>2. CASE PublishFails(c)
        BY <4>2 DEF PublishFails, Settles, Idle, InLine, TypeOK
      <4>. QED BY <2>4, <4>1, <4>2
    <3>. QED BY <1>2, <2>0, <3>1, StepKinds, LeavesLine
  <2>. QED BY <1>2, <2>1, <2>2, <2>3, <2>4, StepKinds
<1>3. CASE Restart
  BY <1>3 DEF Restart, InOrder, InLine, At, Idle
<1>4. CASE OtherAccounts
  BY <1>4 DEF OtherAccounts, InOrder, At, HasTurn, ReadWell
<1>5. CASE UNCHANGED vars
  BY <1>5 DEF vars, InOrder, At, HasTurn, ReadWell
<1>. QED BY <1>1, <1>2, <1>3, <1>4, <1>5 DEF Next

LEMMA AlwaysInOrder == Spec => []InOrder
<1>1. Init => InOrder
  BY DEF Init, InOrder, InLine, At, Idle
<1>. QED BY <1>1, InOrderStep, TypeCorrect, PTL DEF Spec

\* However many calls rewrite the index at once, only a set of a name puts it in
\* (chainMeta), and only a delete of it takes it out, or a call that writes after a
\* read of the file that failed.
THEOREM IndexSafe == Spec => IndexKeepsNames
<1> DEFINE Kept == \A n \in Names :
          /\ n \in index \ index' => \E c \in Clients :
                Works(c, "delete", n) \/ (At(c, "publishing") /\ "names" \in call[c].unread)
          /\ n \in index' \ index => \E c \in Clients : Works(c, "set", n)
<1>1. ASSUME TypeOK, InOrder, [Next]_vars PROVE Kept
  <2>1. ASSUME NEW c \in Clients, Step(c) PROVE Kept
    <3>1. CASE Publish(c)
      <4>1. At(c, "publishing") /\ ReadWell(c)
        BY <1>1, <3>1 DEF Publish, InOrder
      <4>2. \/ Does(c, "set") /\ index' = call[c].base \cup {call[c].name}
            \/ Does(c, "delete") /\ index' = call[c].base \ {call[c].name}
        BY <3>1 DEF Publish
      <4>3. CASE call[c].base = index
        BY <4>2, <4>3 DEF Works
      <4>4. CASE call[c].base = {} /\ "names" \in call[c].unread
        BY <4>1, <4>2, <4>4 DEF Works
      <4>. QED BY <4>1, <4>3, <4>4 DEF ReadWell
    <3>2. CASE index' = index
      BY <3>2
    <3>. QED BY <1>1, <2>1, <3>1, <3>2, StepKinds DEF ReadIndex, PublishFails
  <2>2. CASE index' = index
    BY <2>2
  <2>. QED BY <1>1, <2>1, <2>2
       DEF Next, SetSecret, DeleteSecret, ReadSecrets, Begin, Restart, OtherAccounts, vars
<1>2. TypeOK /\ InOrder /\ [Next]_vars => [Kept]_vars
  BY <1>1
<1>. QED BY <1>2, TypeCorrect, AlwaysInOrder, PTL DEF Spec, IndexKeepsNames

-----------------------------------------------------------------------------
(* The cache and the values.                                               *)

\* Nothing but the vault as it is now is ever served from the cache.
THEOREM CacheSafe == Spec => []CacheTruthful
<1>1. Init => CacheTruthful
  BY DEF Init, CacheTruthful
<1>2. TypeOK /\ CacheTruthful /\ [Next]_vars => CacheTruthful'
  <2> SUFFICES ASSUME CacheTruthful, [Next]_vars PROVE CacheTruthful'
    OBVIOUS
  <2>. USE DEF CacheTruthful
  <2>1. ASSUME NEW c \in Clients, ReadVault(c) PROVE CacheTruthful'
    BY <2>1 DEF ReadVault, keychain
  <2>2. ASSUME NEW c \in Clients, Consolidate(c) \/ WriteVault(c) PROVE CacheTruthful'
    BY <2>2 DEF Consolidate, WriteVault, Stores
  <2>3. ASSUME NEW c \in Clients, Drop(c) PROVE CacheTruthful'
    BY <2>3 DEF Drop, Stores, Removes
  <2>4. ASSUME NEW c \in Clients, DropRefused(c) PROVE CacheTruthful'
    BY <2>4 DEF DropRefused, keychain, session
  <2>5. CASE vault' = vault /\ cache' = cache
    BY <2>5
  <2>6. CASE Restart
    BY <2>6 DEF Restart
  <2>7. ASSUME NEW c \in Clients, Step(c) PROVE CacheTruthful'
    BY <2>1, <2>2, <2>3, <2>4, <2>5, <2>7
       DEF Step, ReadVaultDenied, ListItems, ReadItem, ReadItemDenied, ConsolidateRefused,
           CleanItem, Answer, AskToList, WriteRefused, ReadIndex, Publish, PublishFails, Audit,
           keychain, session
  <2>. QED BY <2>5, <2>6, <2>7
       DEF Next, SetSecret, DeleteSecret, ReadSecrets, Begin, OtherAccounts, keychain, session, vars
<1>. QED BY <1>1, <1>2, TypeCorrect, PTL DEF Spec

\* What a call that has the project to itself knows of it: while it migrates, the
\* vault is absent and its map holds the indexed items it has read; from then on
\* its map is the vault, and if that is absent there is nothing else, but for what
\* an index it could not read would show.
Bare(n) == \A m \in Names \ {n} : Stored(m) = None

Knows(c) == LET k == call[c] IN
    /\ k.at \in {"reading", "listing"} => k.unread = {}
    /\ k.at = "listing" => vault = Empty /\ k.map = Empty
    /\ k.at \in {"items", "consolidating"} =>
          /\ vault = Empty /\ k.todo \subseteq index /\ k.unread = {}
          /\ \A n \in Names : k.map[n] = IF n \in index \ k.todo THEN legacy[n] ELSE None
    /\ k.at = "consolidating" => k.todo = {} /\ k.map # Empty
    /\ k.at = "cleaning" => vault = k.map /\ vault # Empty
    /\ k.at = "migrated" =>
          /\ vault = k.map
          /\ vault = Empty /\ k.unread = {} => \A n \in Names : Stored(n) = None
    /\ k.at \in {"queued", "publishing", "writing"} /\ k.op = "set" =>
          /\ vault = k.map
          /\ vault = Empty /\ k.unread = {} => Bare(k.name)
    /\ k.at \in {"queued", "publishing", "auditing"} => k.op \in {"set", "delete"}
    /\ k.at = "writing" => k.op = "set"

\* Old items that a call could not look up, and that nothing but the index leads to.
OldAtRisk == vault = Empty /\ \E c \in Clients : call[c].unread # {}

LEMMA SameStored ==
    ASSUME NEW n, UNCHANGED <<vault, legacy, index>>
    PROVE  Stored(n)' = Stored(n)
BY DEF Stored

\* Each step keeps the values, but for old items at risk, and hands on what the
\* call knows.
LEMMA KnowsStep ==
    ASSUME TypeOK, InOrder, CacheTruthful, NEW c \in Clients, Knows(c), Step(c)
    PROVE  Knows(c)' /\ (Survive \/ OldAtRisk)
<1>0. call[c] \in CallRecord /\ Empty \in Maps /\ vault \in Maps /\ legacy \in Maps
      /\ (\A map \in Maps : map # None) /\ call \in [Clients -> Call]
      /\ \A n : n \in Names => Empty[n] = None
  BY EmptyType DEF TypeOK, Call, Empty
<1>1. CASE ReadVault(c)
  <2>1. /\ call'[c].map = vault /\ call'[c].at = IF vault # Empty THEN "migrated" ELSE "listing"
        /\ call'[c].unread = call[c].unread
    BY <1>1, <1>0 DEF ReadVault, CacheTruthful, TypeOK, CallRecord
  <2>2. UNCHANGED <<vault, legacy, index>> /\ call[c].unread = {}
    BY <1>1 DEF ReadVault, keychain, At, Knows
  <2>. QED BY <2>1, <2>2, SameStored DEF Knows, Survive
<1>2. CASE ReadVaultDenied(c) \/ ReadItemDenied(c) \/ ConsolidateRefused(c) \/ Answer(c)
           \/ WriteRefused(c) \/ Audit(c) \/ PublishFails(c)
  <2>1. call'[c] = Idle /\ UNCHANGED <<vault, legacy, index>>
    BY <1>2 DEF ReadVaultDenied, ReadItemDenied, ConsolidateRefused, Answer, WriteRefused, Audit,
                PublishFails, Settles, keychain, TypeOK
  <2>. QED BY <2>1 DEF Knows, Idle, Survive, Stored
<1>3. CASE ListItems(c)
  <2>0. PICK found \in Found :
          call' = [call EXCEPT ![c].todo = found, ![c].unread = Missed(found, "items"),
                               ![c].at = IF found = {} THEN "migrated" ELSE "items"]
    BY <1>3 DEF ListItems
  <2>1. /\ call'[c].todo = found /\ call'[c].at = IF found = {} THEN "migrated" ELSE "items"
        /\ call'[c].unread = IF found = index THEN {} ELSE {"items"}
        /\ call'[c].map = Empty /\ vault = Empty /\ UNCHANGED <<vault, legacy, index>>
    BY <1>3, <1>0, <2>0 DEF ListItems, Missed, keychain, At, Knows, CallRecord
  <2>2. CASE found = index
    <3>1. index = {} => \A n \in Names : Stored(n)' = None
      BY <1>0, <2>1 DEF Stored
    <3>. QED BY <1>0, <2>1, <2>2, <3>1, SameStored DEF Knows, Survive
  <2>3. CASE found = {} /\ index # {}
    BY <2>1, <2>3, SameStored DEF Knows, Survive
  <2>. QED BY <2>2, <2>3 DEF Found
<1>4. CASE ReadItem(c)
  <2>1. PICK n \in call[c].todo :
          LET map == [call[c].map EXCEPT ![n] = legacy[n]]
              left == call[c].todo \ {n}
          IN  call' = [call EXCEPT ![c].map = map, ![c].todo = left,
                                   ![c].at = IF left # {} THEN "items"
                                             ELSE IF map # Empty THEN "consolidating"
                                             ELSE "migrated"]
    BY <1>4 DEF ReadItem
  <2> DEFINE map == [call[c].map EXCEPT ![n] = legacy[n]]
             left == call[c].todo \ {n}
  <2>2. /\ call'[c].map = map /\ call'[c].todo = left
        /\ call'[c].at = IF left # {} THEN "items" ELSE IF map # Empty THEN "consolidating"
                         ELSE "migrated"
        /\ call'[c].op = call[c].op /\ call'[c].unread = call[c].unread
    BY <1>0, <2>1 DEF CallRecord
  <2>3. vault = Empty /\ UNCHANGED <<vault, legacy, index>> /\ n \in Names /\ n \in index
        /\ left \subseteq index /\ call[c].unread = {}
    BY <1>0, <1>4 DEF ReadItem, keychain, At, Knows, CallRecord
  <2>4. \A m \in Names : map[m] = IF m \in index \ left THEN legacy[m] ELSE None
    BY <1>0, <1>4, <2>3 DEF ReadItem, At, Knows, CallRecord, Maps
  <2> HIDE DEF map, left
  <2>5. left = {} /\ map = Empty => \A m \in Names : Stored(m)' = None
    BY <1>0, <2>3, <2>4 DEF Stored
  <2>6. Knows(c)'
    BY <2>2, <2>3, <2>4, <2>5 DEF Knows
  <2>. QED BY <2>3, <2>6, SameStored DEF Survive
<1>5. CASE Consolidate(c)
  <2>1. /\ vault = Empty /\ call[c].map # Empty
        /\ \A n \in Names : call[c].map[n] = IF n \in index THEN legacy[n] ELSE None
    BY <1>5 DEF Consolidate, At, Knows
  <2>2. /\ vault' = call[c].map /\ legacy' = legacy /\ index' = index
        /\ call'[c].map = call[c].map /\ call'[c].at = "cleaning"
    BY <1>5, <1>0 DEF Consolidate, Stores, CallRecord
  <2>3. Survive
    BY <2>1, <2>2 DEF Survive, Stored
  <2>4. Knows(c)'
    BY <2>1, <2>2 DEF Knows
  <2>. QED BY <2>3, <2>4
<1>6. CASE CleanItem(c)
  <2>1. /\ vault = call[c].map /\ vault # Empty /\ UNCHANGED <<vault, index>>
        /\ call'[c].map = call[c].map /\ call'[c].at \in {"cleaning", "migrated"}
    BY <1>6, <1>0 DEF CleanItem, At, Knows, CallRecord
  <2>2. \A n \in Names : Stored(n) = vault[n] /\ Stored(n)' = vault[n]
    BY <2>1 DEF Stored
  <2>3. Knows(c)'
    BY <2>1 DEF Knows
  <2>. QED BY <2>2, <2>3 DEF Survive
<1>7. CASE Drop(c)
  <2> DEFINE n == call[c].name
             rest == [call[c].map EXCEPT ![n] = None]
  <2>1. /\ Does(c, "delete") /\ n \in Names /\ index' = index
        /\ call'[c].at = "queued" /\ call'[c].op = "delete"
        /\ vault = call[c].map
    BY <1>7, <1>0 DEF Drop, Dropped, Does, At, Knows, TypeOK, Call, CallRecord
  <2>2. \A m \in Names \ {n} : rest[m] = vault[m]
    BY <1>0, <2>1 DEF CallRecord, Maps
  <2>3. \/ vault # Empty /\ vault' \in {rest, Empty} /\ (vault' = Empty => rest = Empty)
        \/ vault' = vault /\ legacy' = [legacy EXCEPT ![n] = None]
    BY <1>0, <1>7, <2>1 DEF Drop, Stores, Removes
  <2>4. \A m \in Names \ {n} : Stored(m) \in {None, Stored(m)'}
    <3>1. CASE vault # Empty /\ vault' \in {rest, Empty} /\ (vault' = Empty => rest = Empty)
      <4>. HIDE DEF rest, n
      <4>. QED BY <1>0, <2>2, <3>1 DEF Stored
    <3>2. CASE vault' = vault /\ legacy' = [legacy EXCEPT ![n] = None]
      BY <1>0, <2>1, <3>2 DEF Stored, Maps
    <3>. QED BY <2>3, <3>1, <3>2
  <2>5. Survive
    BY <2>1, <2>4 DEF Survive, Works
  <2>6. Knows(c)'
    BY <2>1 DEF Knows
  <2>. QED BY <2>5, <2>6
<1>8. CASE DropRefused(c)
  <2>1. /\ UNCHANGED <<vault, legacy, index>>
        /\ call'[c].at = "queued" /\ call'[c].op = "delete"
    BY <1>8, <1>0 DEF DropRefused, Dropped, Does, keychain, CallRecord
  <2>. QED BY <2>1, SameStored DEF Knows, Survive
<1>9. CASE AskToList(c)
  <2>1. /\ UNCHANGED <<vault, legacy, index>> /\ call'[c].op = "set"
        /\ call'[c].at = "queued" /\ call'[c].map = call[c].map /\ call'[c].unread = call[c].unread
        /\ vault = call[c].map
        /\ vault = Empty /\ call[c].unread = {} => \A n \in Names : Stored(n) = None
    BY <1>9, <1>0 DEF AskToList, At, Does, Knows, keychain, CallRecord
  <2>2. \A n : Stored(n)' = Stored(n)
    BY <2>1, SameStored
  <2>3. Knows(c)'
    BY <2>1, <2>2 DEF Knows, Bare
  <2>. QED BY <2>2, <2>3 DEF Survive
<1>10. CASE WriteVault(c)
  <2> DEFINE n == call[c].name
             map == [call[c].map EXCEPT ![n] = call[c].value]
  <2>1. /\ Does(c, "set") /\ n \in Names /\ call[c].value \in Values /\ vault = call[c].map
        /\ vault = Empty /\ call[c].unread = {} => Bare(n)
    BY <1>10 DEF WriteVault, At, Knows, Does, TypeOK, Call
  <2>2. map[n] = call[c].value /\ \A m \in Names \ {n} : map[m] = vault[m]
    BY <1>0, <2>1 DEF CallRecord, Maps
  <2>3. map # Empty
    BY <2>1, <2>2, NoneAssumption DEF Empty
  <2>4. /\ vault' = map /\ call'[c].at = "auditing" /\ call'[c].op = "set"
    BY <1>10, <1>0, <2>1 DEF WriteVault, Stores, Does, CallRecord
  <2> HIDE DEF map
  <2>5. ASSUME ~OldAtRisk PROVE \A m \in Names \ {n} : Stored(m) \in {None, Stored(m)'}
    BY <2>1, <2>2, <2>3, <2>4, <2>5 DEF Stored, OldAtRisk, Bare
  <2>6. Survive \/ OldAtRisk
    BY <2>1, <2>5 DEF Survive, Works
  <2>7. Knows(c)'
    BY <2>4 DEF Knows
  <2>. QED BY <2>6, <2>7
<1>11. CASE ReadIndex(c)
  <2>1. /\ UNCHANGED <<vault, legacy, index>> /\ call[c].at = "queued"
        /\ call'[c].at = "publishing" /\ call'[c].map = call[c].map
        /\ call'[c].op = call[c].op /\ call'[c].name = call[c].name
        /\ call[c].unread \subseteq call'[c].unread
    BY <1>11, <1>0 DEF ReadIndex, At, keychain, CallRecord
  <2>2. \A n : Stored(n)' = Stored(n)
    BY <2>1, SameStored
  <2>3. Knows(c)'
    BY <2>1, <2>2 DEF Knows, Bare
  <2>. QED BY <2>2, <2>3 DEF Survive
<1>12. CASE Publish(c)
  <2> DEFINE n == call[c].name
  <2>1. /\ call[c].at = "publishing" /\ ReadWell(c) /\ UNCHANGED <<vault, legacy>>
        /\ call[c].op \in {"set", "delete"}
    BY <1>12 DEF Publish, InOrder, At, keychain, Does
  <2>2. PICK stage \in {"writing", "auditing"} :
          /\ Leaves(c, stage)
          /\ \/ call[c].op = "set" /\ stage = "writing" /\ index' = call[c].base \cup {n}
             \/ call[c].op = "delete" /\ stage = "auditing" /\ index' = call[c].base \ {n}
    BY <1>12 DEF Publish, Does
  <2>3. /\ call'[c].at = stage /\ call'[c].map = call[c].map /\ call'[c].unread = call[c].unread
        /\ call'[c].op = call[c].op /\ call'[c].name = n
    BY <1>0, <2>2 DEF Leaves, CallRecord
  <2>4. \A m \in Names \ {n} : Stored(m)' = Stored(m) \/ (OldAtRisk /\ Stored(m)' = None)
    <3>1. CASE vault # Empty
      BY <2>1, <3>1 DEF Stored
    <3>2. CASE call[c].base = index
      BY <2>1, <2>2, <3>2 DEF Stored
    <3>3. CASE vault = Empty /\ call[c].base = {} /\ "names" \in call[c].unread
      <4>1. OldAtRisk
        BY <3>3 DEF OldAtRisk
      <4>2. \A m \in Names \ {n} : Stored(m)' = None
        BY <2>1, <2>2, <3>3 DEF Stored
      <4>. QED BY <4>1, <4>2
    <3>. QED BY <2>1, <3>1, <3>2, <3>3 DEF ReadWell
  <2>5. Survive \/ OldAtRisk
    BY <2>1, <2>4 DEF Survive, Works, Does
  <2>6. Bare(n) => Bare(n)'
    BY <2>4, <2>3 DEF Bare
  <2>7. Knows(c)'
    BY <2>1, <2>2, <2>3, <2>6 DEF Knows
  <2>. QED BY <2>5, <2>7
<1>. QED BY <1>1, <1>2, <1>3, <1>4, <1>5, <1>6, <1>7, <1>8, <1>9, <1>10, <1>11, <1>12 DEF Step

\* Calls that do not overlap: one at most is in progress.
OneAtATime == \A c, d \in Clients : call[c].at # "idle" /\ call[d].at # "idle" => c = d
Apart == ~overlap => OneAtATime

LEMMA AlwaysApart == Spec => []Apart
<1>1. Init => Apart
  BY DEF Init, Apart, OneAtATime, Idle
<1>2. Apart /\ [Next]_vars => Apart'
  <2>1. CASE UNCHANGED vars
    BY <2>1 DEF Apart, OneAtATime, vars
  <2>2. CASE Next
    BY <2>2 DEF Next, Remember, Overlapping, Busy, At, Apart, OneAtATime
  <2>. QED BY <2>1, <2>2
<1>. QED BY <1>1, <1>2, PTL DEF Spec

\* The calls that overlapped are over when the last of them is.
LEMMA AllEnded ==
    ASSUME [Next]_vars, overlap, ~overlap'
    PROVE  \A c \in Clients : call'[c].at = "idle"
BY DEF Next, Remember, Busy, At, vars

\* A step of a call leaves the other clients where they are.
LEMMA OthersStay ==
    ASSUME TypeOK, NEW c \in Clients, Step(c) \/ SetSecret(c) \/ DeleteSecret(c) \/ ReadSecrets(c)
    PROVE  \A d \in Clients \ {c} : call'[d] = call[d]
<1>. SUFFICES ASSUME NEW d \in Clients \ {c} PROVE call'[d] = call[d]
  OBVIOUS
<1>0. call \in [Clients -> Call]
  BY DEF TypeOK
<1>1. CASE ReadVault(c) \/ ReadVaultDenied(c) \/ ListItems(c) \/ ReadItemDenied(c) \/ Answer(c)
           \/ Consolidate(c) \/ ConsolidateRefused(c)
  BY <1>0, <1>1 DEF ReadVault, ReadVaultDenied, ListItems, ReadItemDenied, Answer, Consolidate,
                    ConsolidateRefused, Settles
<1>2. CASE ReadItem(c)
  BY <1>0, <1>2 DEF ReadItem
<1>3. CASE CleanItem(c)
  BY <1>0, <1>3 DEF CleanItem
<1>4. CASE Drop(c) \/ DropRefused(c)
  BY <1>0, <1>4 DEF Drop, DropRefused, Dropped
<1>5. CASE AskToList(c) \/ WriteVault(c) \/ WriteRefused(c) \/ ReadIndex(c) \/ Publish(c)
           \/ PublishFails(c) \/ Audit(c)
  BY <1>0, <1>5 DEF AskToList, WriteVault, WriteRefused, ReadIndex, Publish, PublishFails, Audit,
                    Leaves, Settles
<1>6. CASE SetSecret(c) \/ DeleteSecret(c) \/ ReadSecrets(c)
  BY <1>0, <1>6 DEF SetSecret, DeleteSecret, ReadSecrets, Begin
<1>. QED BY <1>1, <1>2, <1>3, <1>4, <1>5, <1>6 DEF Step

\* The call that takes a step, of those that do not overlap, is the only one.
LEMMA OthersIdle ==
    ASSUME TypeOK, OneAtATime, NEW c \in Clients, Step(c)
    PROVE  \A d \in Clients \ {c} : call[d].at = "idle" /\ call'[d].at = "idle"
<1>1. call[c].at # "idle"
  BY DEF Step, At, ReadVault, ReadVaultDenied, ListItems, ReadItem, ReadItemDenied, Consolidate,
         ConsolidateRefused, CleanItem, Answer, Drop, DropRefused, AskToList, WriteVault,
         WriteRefused, ReadIndex, Publish, PublishFails, Audit
<1>2. \A d \in Clients \ {c} : call[d].at = "idle"
  BY <1>1 DEF OneAtATime
<1>. QED BY <1>2, OthersStay

\* A call that begins reads first.
LEMMA BeginsToRead ==
    ASSUME TypeOK, NEW c \in Clients, SetSecret(c) \/ DeleteSecret(c) \/ ReadSecrets(c)
    PROVE  call'[c].at = "reading" /\ call'[c].unread = {} /\ UNCHANGED <<vault, legacy, index>>
<1>1. PICK op, n, v : Begin(c, op, n, v)
  BY DEF SetSecret, DeleteSecret, ReadSecrets
<1>2. call' = [call EXCEPT ![c] = [Idle EXCEPT !.op = op, !.name = n, !.value = v, !.at = "reading"]]
  BY <1>1 DEF Begin
<1>3. call'[c] = [Idle EXCEPT !.op = op, !.name = n, !.value = v, !.at = "reading"]
  BY <1>2 DEF TypeOK
<1>4. call'[c].at = "reading" /\ call'[c].unread = {}
  BY <1>3 DEF Idle
<1>. QED BY <1>1, <1>4 DEF Begin, keychain

\* What a call with no rival knows stays true, and no step loses a value but an old
\* item at risk.
LEMMA KnowsAndKeeps ==
    Spec => /\ [](~overlap => \A c \in Clients : Knows(c))
            /\ [][Undisturbed => Survive \/ OldAtRisk]_vars
<1> DEFINE All == \A c \in Clients : Knows(c)
           Known == ~overlap => All
<1>1. Init => Known
  BY DEF Init, Knows, Idle
<1>2. ASSUME TypeOK, InOrder, CacheTruthful, OneAtATime, All, [Next]_vars
      PROVE  All' /\ (Survive \/ OldAtRisk \/ UNCHANGED vars)
  <2>1. ASSUME NEW c \in Clients, SetSecret(c) \/ DeleteSecret(c) \/ ReadSecrets(c)
        PROVE  All' /\ Survive
    <3>1. call'[c].at = "reading" /\ call'[c].unread = {} /\ UNCHANGED <<vault, legacy, index>>
      BY <1>2, <2>1, BeginsToRead
    <3>2. \A n : Stored(n)' = Stored(n)
      BY <3>1, SameStored
    <3>3. \A d \in Clients \ {c} : call'[d] = call[d]
      BY <1>2, <2>1, OthersStay
    <3>4. ASSUME NEW d \in Clients PROVE Knows(d)'
      <4>1. CASE d = c
        BY <3>1, <4>1 DEF Knows
      <4>2. CASE d # c
        BY <1>2, <3>1, <3>2, <3>3, <4>2 DEF Knows, Bare
      <4>. QED BY <4>1, <4>2
    <3>. QED BY <3>2, <3>4 DEF Survive
  <2>2. ASSUME NEW c \in Clients, Step(c) PROVE All' /\ (Survive \/ OldAtRisk)
    <3>1. Knows(c)' /\ (Survive \/ OldAtRisk)
      BY <1>2, <2>2, KnowsStep
    <3>2. \A d \in Clients \ {c} : call'[d].at = "idle"
      BY <1>2, <2>2, OthersIdle
    <3>3. \A d \in Clients \ {c} : Knows(d)'
      BY <3>2 DEF Knows
    <3>. QED BY <3>1, <3>3
  <2>3. CASE Restart
    <3>1. (\A c \in Clients : call'[c] = Idle) /\ UNCHANGED <<vault, legacy, index>>
      BY <2>3 DEF Restart, keychain
    <3>. QED BY <3>1, SameStored DEF Knows, Idle, Survive
  <2>4. CASE OtherAccounts \/ UNCHANGED vars
    <3>1. UNCHANGED <<call, vault, legacy, index>>
      BY <2>4 DEF OtherAccounts, keychain, vars
    <3>2. \A n : Stored(n)' = Stored(n)
      BY <3>1, SameStored
    <3>. QED BY <1>2, <3>1, <3>2 DEF Knows, Bare, Survive
  <2>. QED BY <1>2, <2>1, <2>2, <2>3, <2>4 DEF Next
<1>3. TypeOK /\ InOrder /\ CacheTruthful /\ Apart /\ Known /\ [Next]_vars
      => Known' /\ [Undisturbed => Survive \/ OldAtRisk]_vars
  <2> SUFFICES ASSUME TypeOK, InOrder, CacheTruthful, Apart, Known, [Next]_vars, ~overlap'
               PROVE  All' /\ [Undisturbed => Survive \/ OldAtRisk]_vars
    BY DEF Undisturbed
  <2>1. CASE ~overlap
    BY <1>2, <2>1 DEF Apart
  <2>2. CASE overlap
    BY <2>2, AllEnded DEF Knows, Undisturbed
  <2>. QED BY <2>1, <2>2
<1>. QED BY <1>1, <1>3, TypeCorrect, AlwaysInOrder, AlwaysApart, CacheSafe, PTL DEF Spec

\* The index is read whenever a call looks something up in it.
Readable == \A c \in Clients : call[c].unread = {}

\* Calls that do not overlap and can read the index lose no value and change none
\* but the one they are about: not by migrating, not by a refused keychain call or a
\* failed write, not by dying at any step.
THEOREM ValuesSafe == Spec /\ []Readable /\ []~overlap => ValuesSurvive
<1>1. Readable /\ ~overlap /\ ~overlap' /\ [Undisturbed => Survive \/ OldAtRisk]_vars => [Survive]_vars
  BY DEF Readable, OldAtRisk, Undisturbed
<1>. QED BY <1>1, KnowsAndKeeps, PTL DEF ValuesSurvive

\* Whether or not the index can be read, and whatever earlier calls that overlapped
\* have left, calls that do not overlap lose nothing once the vault holds something:
\* an unreadable index only costs old items, and only while there is no vault.
THEOREM VaultKept == Spec => [][Undisturbed /\ vault # Empty => Survive]_vars
<1>1. [Undisturbed => Survive \/ OldAtRisk]_vars => [Undisturbed /\ vault # Empty => Survive]_vars
  BY DEF OldAtRisk
<1>. QED BY <1>1, KnowsAndKeeps, PTL

-----------------------------------------------------------------------------
(* The names.                                                              *)

\* What setSecret's order gives it: by the time it writes, its name is listed.
Listed(c) == At(c, "writing") => call[c].name \in index

\* A value that appears in the vault is an indexed legacy item or the value being
\* set.
LEMMA StepHidesNothing ==
    ASSUME TypeOK, InOrder, NEW c \in Clients, Knows(c), Listed(c), Step(c)
    PROVE  /\ Listed(c)'
           /\ \A n \in Names : vault[n] = None /\ vault'[n] # None => n \in index'
<1> DEFINE Shown == \A n \in Names : vault[n] = None /\ vault'[n] # None => n \in index'
<1>0. call[c] \in CallRecord /\ call \in [Clients -> Call] /\ \A n \in Names : Empty[n] = None
  BY DEF TypeOK, Call, Empty
<1>2. CASE Consolidate(c)
  <2>1. vault' = call[c].map /\ index' = index /\ call'[c].at = "cleaning"
    BY <1>2, <1>0 DEF Consolidate, Stores, CallRecord
  <2>2. \A n \in Names : call[c].map[n] # None => n \in index
    BY <1>2 DEF Consolidate, At, Knows
  <2>. QED BY <2>1, <2>2 DEF Listed, At
<1>3. CASE Drop(c)
  <2> DEFINE rest == [call[c].map EXCEPT ![call[c].name] = None]
  <2>1. index' = index /\ call'[c].at = "queued"
    BY <1>3, <1>0 DEF Drop, Dropped, CallRecord
  <2>2. \A n \in Names : rest[n] # None => vault[n] # None
    <3>1. vault = call[c].map
      BY <1>3 DEF Drop, At, Knows
    <3>2. \A n \in Names : rest[n] \in {None, call[c].map[n]}
      BY <1>0 DEF CallRecord, Maps
    <3>. HIDE DEF rest
    <3>. QED BY <3>1, <3>2
  <2>3. vault' \in {rest, Empty, vault}
    BY <1>3 DEF Drop, Stores, Removes
  <2> HIDE DEF rest
  <2>4. Shown
    BY <1>0, <2>1, <2>2, <2>3
  <2>. QED BY <2>1, <2>4 DEF Listed, At
<1>4. CASE WriteVault(c)
  <2> DEFINE n == call[c].name
             map == [call[c].map EXCEPT ![n] = call[c].value]
  <2>1. Does(c, "set") /\ n \in Names /\ n \in index
    BY <1>4 DEF WriteVault, At, Knows, Does, TypeOK, Call, Listed
  <2>2. \A m \in Names \ {n} : map[m] = vault[m]
    BY <1>4, <1>0, <2>1 DEF WriteVault, At, Does, Knows, CallRecord, Maps
  <2>3. vault' = map /\ index' = index /\ call'[c].at = "auditing"
    BY <1>4, <1>0 DEF WriteVault, Stores, CallRecord
  <2> HIDE DEF map
  <2>4. Shown
    BY <2>1, <2>2, <2>3
  <2>. QED BY <2>3, <2>4 DEF Listed, At
<1>5. CASE Publish(c)
  <2>1. PICK stage \in {"writing", "auditing"} :
          /\ Leaves(c, stage)
          /\ stage = "writing" => call[c].name \in index'
    BY <1>5 DEF Publish
  <2>2. call'[c].at = stage /\ call'[c].name = call[c].name /\ vault' = vault
    BY <1>0, <1>5, <2>1 DEF Leaves, CallRecord, Publish, keychain
  <2>. QED BY <2>1, <2>2 DEF Listed, At
<1>6. CASE call'[c].at # "writing" /\ vault' = vault
  BY <1>6 DEF Listed, At
<1>7. CASE ReadVault(c) \/ ListItems(c) \/ ReadIndex(c)
  <2>1. CASE ReadVault(c)
    BY <1>0, <1>6, <2>1 DEF ReadVault, keychain, CallRecord
  <2>2. CASE ListItems(c)
    <3>1. call'[c].at \in {"migrated", "items"}
      BY <1>0, <2>2 DEF ListItems, CallRecord
    <3>. QED BY <1>6, <2>2, <3>1 DEF ListItems, keychain
  <2>3. CASE ReadIndex(c)
    <3>1. call'[c].at = "publishing"
      BY <1>0, <2>3 DEF ReadIndex, CallRecord
    <3>. QED BY <1>6, <2>3, <3>1 DEF ReadIndex, keychain
  <2>. QED BY <1>7, <2>1, <2>2, <2>3
<1>8. CASE CleanItem(c)
  BY <1>0, <1>6, <1>8 DEF CleanItem, CallRecord
<1>9. CASE ReadItem(c)
  <2>1. PICK n \in call[c].todo :
          LET map == [call[c].map EXCEPT ![n] = legacy[n]]
              left == call[c].todo \ {n}
          IN  call' = [call EXCEPT ![c].map = map, ![c].todo = left,
                                   ![c].at = IF left # {} THEN "items"
                                             ELSE IF map # Empty THEN "consolidating"
                                             ELSE "migrated"]
    BY <1>9 DEF ReadItem
  <2>2. call'[c].at # "writing"
    BY <1>0, <2>1 DEF CallRecord
  <2>. QED BY <1>6, <1>9, <2>2 DEF ReadItem, keychain
<1>10. CASE ReadVaultDenied(c) \/ ReadItemDenied(c) \/ ConsolidateRefused(c) \/ Answer(c)
           \/ WriteRefused(c) \/ Audit(c) \/ PublishFails(c)
  BY <1>0, <1>6, <1>10 DEF ReadVaultDenied, ReadItemDenied, ConsolidateRefused, Answer, WriteRefused,
                          Audit, PublishFails, Settles, Idle, keychain
<1>11. CASE DropRefused(c) \/ AskToList(c)
  BY <1>0, <1>6, <1>11 DEF DropRefused, Dropped, AskToList, keychain, CallRecord
<1>. QED BY <1>2, <1>3, <1>4, <1>5, <1>7, <1>8, <1>9, <1>10, <1>11 DEF Step

\* Calls that do not overlap never put a value in the vault under a name that the
\* index does not hold, at whatever step one fails or the process dies.
THEOREM NothingHidden == Spec => NoHiddenValue
<1> DEFINE Shown == \A n \in Names : vault[n] = None /\ vault'[n] # None => n \in index'
           All == \A c \in Clients : Knows(c)
           Every == \A c \in Clients : Listed(c)
           Known == ~overlap => All
           Named == ~overlap => Every
<1>1. Init => Named
  BY DEF Init, Listed, At, Idle
<1>2. ASSUME TypeOK, InOrder, OneAtATime, All, Every, [Next]_vars PROVE Every' /\ Shown
  <2>1. ASSUME NEW c \in Clients, SetSecret(c) \/ DeleteSecret(c) \/ ReadSecrets(c)
        PROVE  Every' /\ Shown
    <3>1. call'[c].at = "reading" /\ UNCHANGED <<vault, index>>
      BY <1>2, <2>1, BeginsToRead
    <3>2. \A d \in Clients \ {c} : call'[d] = call[d]
      BY <1>2, <2>1, OthersStay
    <3>. QED BY <1>2, <3>1, <3>2 DEF Listed, At
  <2>2. ASSUME NEW c \in Clients, Step(c) PROVE Every' /\ Shown
    <3>1. Listed(c)' /\ Shown
      BY <1>2, <2>2, StepHidesNothing
    <3>2. \A d \in Clients \ {c} : Listed(d)'
      BY <1>2, <2>2, OthersIdle DEF Listed, At
    <3>. QED BY <3>1, <3>2
  <2>3. CASE Restart
    BY <2>3 DEF Restart, keychain, Idle, Listed, At
  <2>4. CASE OtherAccounts \/ UNCHANGED vars
    BY <1>2, <2>4 DEF OtherAccounts, keychain, vars, Listed, At
  <2>. QED BY <1>2, <2>1, <2>2, <2>3, <2>4 DEF Next
<1>3. TypeOK /\ InOrder /\ Apart /\ Known /\ Named /\ [Next]_vars
      => Named' /\ [Undisturbed => Shown]_vars
  <2> SUFFICES ASSUME TypeOK, InOrder, Apart, Known, Named, [Next]_vars, ~overlap'
               PROVE  Every' /\ [Undisturbed => Shown]_vars
    BY DEF Undisturbed
  <2>1. CASE ~overlap
    BY <1>2, <2>1 DEF Apart
  <2>2. CASE overlap
    BY <2>2, AllEnded DEF Listed, At, Undisturbed
  <2>. QED BY <2>1, <2>2
<1>4. Spec => []Known
  BY KnowsAndKeeps, PTL
<1>. QED BY <1>1, <1>3, <1>4, TypeCorrect, AlwaysInOrder, AlwaysApart, PTL DEF Spec, NoHiddenValue
=============================================================================
