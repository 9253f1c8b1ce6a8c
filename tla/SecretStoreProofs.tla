------------------------- MODULE SecretStoreProofs -------------------------
(***************************************************************************)
(* The vault implements the secret store, for calls that do not overlap:   *)
(* any names, values and legacy items, with every refusal, failed read or  *)
(* write and restart.                                                       *)
(***************************************************************************)
EXTENDS VaultProofs

\* What a call will tell its caller: a delete that is clean left no value behind.
Told(c) == LET k == call[c] IN
    /\ k.at # "idle" => k.op \in {"set", "delete", "read"} /\ (k.op # "set" => k.value = None)
    /\ k.op = "delete" /\ k.clean /\ k.at \in {"queued", "publishing", "auditing"} =>
          vault[k.name] = None

-----------------------------------------------------------------------------
(* What a step of a call is to the store.                                  *)

SameCall(k, k2) == k2.op = k.op /\ k2.name = k.name /\ k2.value = k.value
Untouched == \A n \in Names : Stored(n)' = Stored(n)
SameSight(k, k2) == (k2.unread = {}) <=> (k.unread = {})
Fading == \A n \in Names : legacy'[n] \in {legacy[n], None}

\* Nothing; or only old items go.
Internal(c) ==
    /\ Untouched /\ Fading /\ SameCall(call[c], call'[c]) /\ SameSight(call[c], call'[c])
    /\ call[c].at \notin {"idle", "auditing"} /\ call'[c].at \notin {"idle", "auditing"}

\* A look-up in the index fails.
Loses(c) ==
    /\ Untouched /\ legacy' = legacy /\ SameCall(call[c], call'[c]) /\ call'[c].unread # {}
    /\ call[c].at \notin {"idle", "auditing"} /\ call'[c].at \notin {"idle", "auditing"}

Finishes(c) ==
    /\ Untouched /\ legacy' = legacy
    /\ call[c].at # "idle" /\ call'[c] = Idle

\* Every value is an old item's.
AllOld == \A n \in Names : Stored(n) \in {None, legacy[n]}

\* What becomes of another name than the call's.
Kept(k, m) ==
    \/ Stored(m)' = Stored(m)
    \/ (Stored(m) = None /\ Stored(m)' = legacy[m])
    \/ (k.unread # {} /\ AllOld /\ Stored(m)' = None)

\* The call's own name changes, and no other, but for old values that surface, and
\* for those that a call hides which could not look them up.
Changes(c) ==
    LET k == call[c] IN \E n \in Names :
    /\ n = k.name
    /\ Fading /\ SameCall(k, call'[c]) /\ SameSight(k, call'[c])
    /\ k.op \in {"set", "delete"}
    /\ k.at \notin {"idle", "auditing"} /\ call'[c].at # "idle"
    /\ Stored(n)' \in {Stored(n), k.value, legacy[n]}
    /\ \A m \in Names \ {n} : Kept(k, m)
    /\ call'[c].at = "auditing" /\ (k.op = "set" \/ call'[c].clean) => Stored(n)' = k.value

LEMMA StepStores ==
    ASSUME TypeOK, InOrder, CacheTruthful, NEW c \in Clients, Knows(c), Told(c), Step(c)
    PROVE  /\ Told(c)'
           /\ Internal(c) \/ Loses(c) \/ Finishes(c) \/ Changes(c)
<1>0. /\ call[c] \in CallRecord /\ call[c] \in Call /\ call \in [Clients -> Call]
      /\ Empty \in Maps /\ vault \in Maps /\ legacy \in Maps
      /\ \A n \in Names : Empty[n] = None
  BY EmptyType DEF TypeOK, Call, Empty
<1>1. CASE ReadVault(c) \/ ListItems(c) \/ AskToList(c) \/ ReadIndex(c)
  <2>1. /\ UNCHANGED <<vault, legacy, index>> /\ SameCall(call[c], call'[c])
        /\ call'[c].clean = call[c].clean
        /\ call[c].at \notin {"idle", "auditing"} /\ call'[c].at \notin {"idle", "auditing"}
        /\ call'[c].at \in {"queued", "publishing"} =>
              call[c].at \in {"queued", "publishing"} \/ call[c].op = "set"
    <3>1. CASE ReadVault(c)
      BY <1>0, <3>1 DEF ReadVault, keychain, SameCall, CallRecord, At
    <3>2. CASE ListItems(c)
      BY <1>0, <3>2 DEF ListItems, keychain, SameCall, CallRecord, At
    <3>3. CASE AskToList(c)
      BY <1>0, <3>3 DEF AskToList, keychain, SameCall, CallRecord, At, Does
    <3>4. CASE ReadIndex(c)
      BY <1>0, <3>4 DEF ReadIndex, keychain, SameCall, CallRecord, At
    <3>. QED BY <1>1, <3>1, <3>2, <3>3, <3>4
  <2>2. Untouched /\ Fading
    BY <2>1, SameStored DEF Untouched, Fading
  <2>3. call[c].unread \subseteq call'[c].unread
    <3>1. CASE ReadVault(c) \/ AskToList(c)
      BY <1>0, <3>1 DEF ReadVault, AskToList, CallRecord
    <3>2. CASE ListItems(c)
      BY <3>2 DEF ListItems, Knows, At
    <3>3. CASE ReadIndex(c)
      BY <1>0, <3>3 DEF ReadIndex, CallRecord
    <3>. QED BY <1>1, <3>1, <3>2, <3>3
  <2>4. SameSight(call[c], call'[c]) \/ call'[c].unread # {}
    BY <2>3 DEF SameSight
  <2>. QED BY <2>1, <2>2, <2>4 DEF Internal, Loses, Told, SameCall
<1>2. CASE ReadVaultDenied(c) \/ ReadItemDenied(c) \/ ConsolidateRefused(c) \/ Answer(c)
           \/ WriteRefused(c) \/ Audit(c) \/ PublishFails(c)
  <2>1. call'[c] = Idle /\ UNCHANGED <<vault, legacy, index>> /\ call[c].at # "idle"
    BY <1>2, <1>0 DEF ReadVaultDenied, ReadItemDenied, ConsolidateRefused, Answer, WriteRefused, Audit,
                PublishFails, Settles, keychain, At
  <2>2. Told(c)'
    BY <2>1, NoneAssumption DEF Told, Idle
  <2>. QED BY <2>1, <2>2, SameStored DEF Finishes, Untouched
<1>3. CASE ReadItem(c)
  <2>1. PICK n \in call[c].todo :
          LET map == [call[c].map EXCEPT ![n] = legacy[n]]
              left == call[c].todo \ {n}
          IN  call' = [call EXCEPT ![c].map = map, ![c].todo = left,
                                   ![c].at = IF left # {} THEN "items"
                                             ELSE IF map # Empty THEN "consolidating"
                                             ELSE "migrated"]
    BY <1>3 DEF ReadItem
  <2>2. /\ SameCall(call[c], call'[c]) /\ call'[c].at \in {"items", "consolidating", "migrated"}
        /\ SameSight(call[c], call'[c])
        /\ UNCHANGED <<vault, legacy, index>> /\ call[c].at = "items"
    BY <1>0, <1>3, <2>1 DEF CallRecord, SameCall, SameSight, ReadItem, keychain, At
  <2>3. Untouched /\ Fading
    BY <2>2, SameStored DEF Untouched, Fading
  <2>. QED BY <2>2, <2>3 DEF Internal, Told, SameCall
<1>4. CASE Consolidate(c)
  <2>1. /\ vault = Empty /\ call[c].map # Empty
        /\ \A n \in Names : call[c].map[n] = IF n \in index THEN legacy[n] ELSE None
    BY <1>4 DEF Consolidate, At, Knows
  <2>2. /\ vault' = call[c].map /\ legacy' = legacy /\ index' = index /\ SameCall(call[c], call'[c])
        /\ call'[c].at = "cleaning" /\ call[c].at = "consolidating" /\ SameSight(call[c], call'[c])
    BY <1>4, <1>0 DEF Consolidate, Stores, CallRecord, SameCall, SameSight, At
  <2>3. Untouched /\ Fading
    BY <2>1, <2>2 DEF Untouched, Stored, Fading
  <2>. QED BY <2>2, <2>3 DEF Internal, Told, SameCall
<1>5. CASE CleanItem(c)
  <2>1. /\ vault # Empty /\ UNCHANGED <<vault, index>> /\ SameCall(call[c], call'[c])
        /\ call'[c].at \in {"cleaning", "migrated"} /\ call[c].at = "cleaning"
        /\ SameSight(call[c], call'[c])
    BY <1>5, <1>0 DEF CleanItem, At, Knows, CallRecord, SameCall, SameSight
  <2>2. Untouched
    BY <2>1 DEF Untouched, Stored
  <2>3. Fading
    BY <1>0, <1>5 DEF CleanItem, Fading, Maps, CallRecord
  <2>. QED BY <2>1, <2>2, <2>3 DEF Internal, Told, SameCall
<1>6. CASE Drop(c)
  <2>0. call[c].op = "delete" /\ call[c].name \in Names
    BY <1>6, <1>0 DEF Drop, Does, Call
  <2>a. PICK n \in Names : n = call[c].name
    BY <2>0
  <2> DEFINE rest == [call[c].map EXCEPT ![n] = None]
  <2>1. /\ call[c].op = "delete" /\ index' = index /\ call[c].at = "migrated"
        /\ call[c].value = None
        /\ vault = call[c].map
    BY <1>6, <1>0, <2>0, <2>a DEF Drop, Dropped, Does, At, Knows, Told, Call
  <2>2. PICK clean \in BOOLEAN : Dropped(c, clean) /\ (clean => vault'[n] = None)
    <3>1. CASE call[c].map[n] # None /\ rest # Empty
      <4>1. Dropped(c, TRUE) /\ vault' = rest
        BY <1>6, <2>a, <3>1 DEF Drop, Stores
      <4>2. rest[n] = None
        BY <1>0, <2>1 DEF CallRecord, Maps
      <4>. QED BY <4>1, <4>2
    <3>2. CASE call[c].map[n] # None /\ rest = Empty
      <4>1. Dropped(c, vault # Empty) /\ vault' = Empty
        BY <1>6, <2>a, <3>2 DEF Drop, Removes
      <4>. QED BY <1>0, <4>1
    <3>3. CASE call[c].map[n] = None
      <4>1. Dropped(c, legacy[n] # None) /\ vault' = vault
        BY <1>6, <2>a, <3>3 DEF Drop
      <4>2. vault[n] = None
        BY <2>1, <3>3
      <4>. QED BY <4>1, <4>2
    <3>. QED BY <3>1, <3>2, <3>3
  <2>3. /\ SameCall(call[c], call'[c]) /\ call'[c].at = "queued" /\ call'[c].clean = clean
        /\ SameSight(call[c], call'[c])
    BY <1>0, <2>2 DEF Dropped, SameCall, SameSight, CallRecord
  <2>4. \A m \in Names \ {n} : rest[m] = vault[m]
    BY <1>0, <2>1 DEF CallRecord, Maps
  <2>5. rest[n] = None
    BY <1>0 DEF CallRecord, Maps
  <2>6. \/ vault # Empty /\ vault' = rest /\ rest # Empty /\ legacy' = legacy
        \/ vault # Empty /\ vault' = Empty /\ rest = Empty /\ legacy' = legacy
        \/ vault' = vault /\ legacy' = [legacy EXCEPT ![n] = None] /\ vault[n] = None
    BY <1>0, <1>6, <2>a, <2>1 DEF Drop, Stores, Removes
  <2> HIDE DEF rest
  <2>7. Fading
    BY <1>0, <2>1, <2>6 DEF Fading, Maps
  <2>8. Stored(n)' \in {Stored(n), None, legacy[n]}
    BY <1>0, <2>1, <2>5, <2>6 DEF Stored, Maps
  <2>9. ASSUME NEW m \in Names \ {n}
        PROVE  Stored(m)' = Stored(m) \/ (Stored(m) = None /\ Stored(m)' = legacy[m])
    <3>1. CASE vault # Empty /\ vault' = rest /\ rest # Empty
      BY <2>1, <2>4, <3>1 DEF Stored
    <3>2. CASE vault # Empty /\ vault' = Empty /\ rest = Empty /\ legacy' = legacy
      <4>1. Stored(m) = None
        BY <1>0, <2>4, <3>2 DEF Stored
      <4>. QED BY <2>1, <3>2, <4>1 DEF Stored
    <3>3. CASE vault' = vault /\ legacy' = [legacy EXCEPT ![n] = None]
      BY <1>0, <2>1, <3>3 DEF Stored, Maps
    <3>. QED BY <2>6, <3>1, <3>2, <3>3
  <2>10. Told(c)'
    BY <2>1, <2>2, <2>3, <2>a DEF Told, SameCall
  <2>11. Changes(c)
    BY <2>1, <2>3, <2>a, <2>7, <2>8, <2>9 DEF Changes, Kept
  <2>. QED BY <2>10, <2>11
<1>7. CASE DropRefused(c)
  <2>1. /\ UNCHANGED <<vault, legacy, index>> /\ SameCall(call[c], call'[c])
        /\ call'[c].at = "queued" /\ ~call'[c].clean /\ call[c].at = "migrated"
        /\ SameSight(call[c], call'[c])
    BY <1>7, <1>0 DEF DropRefused, Dropped, At, keychain, CallRecord, SameCall, SameSight
  <2>2. Untouched /\ Fading
    BY <2>1, SameStored DEF Untouched, Fading
  <2>. QED BY <2>1, <2>2 DEF Internal, Told, SameCall
<1>8. CASE WriteVault(c)
  <2>1. call[c].op = "set" /\ call[c].name \in Names /\ call[c].value \in Values /\ call[c].at = "writing"
    BY <1>8, <1>0 DEF WriteVault, At, Knows, Call
  <2>a. PICK n \in Names : n = call[c].name
    BY <2>1
  <2> DEFINE map == [call[c].map EXCEPT ![n] = call[c].value]
  <2>2. /\ vault = Empty /\ call[c].unread = {} => Bare(n)
        /\ map[n] = call[c].value /\ \A m \in Names \ {n} : map[m] = vault[m]
    BY <1>0, <2>1, <2>a DEF Knows, CallRecord, Maps
  <2>3. map # Empty
    BY <1>0, <2>1, <2>2, NoneAssumption
  <2>4. /\ vault' = map /\ legacy' = legacy /\ call'[c].at = "auditing"
        /\ SameCall(call[c], call'[c]) /\ SameSight(call[c], call'[c])
    BY <1>8, <1>0, <2>a DEF WriteVault, Stores, CallRecord, SameCall, SameSight
  <2> HIDE DEF map
  <2>5. Stored(n)' = call[c].value /\ \A m \in Names \ {n} : Kept(call[c], m)
    <3>1. Stored(n)' = call[c].value /\ \A m \in Names \ {n} : Stored(m)' = vault[m]
      BY <2>1, <2>2, <2>3, <2>4 DEF Stored
    <3>2. CASE vault # Empty
      BY <3>1, <3>2 DEF Stored, Kept
    <3>3. CASE vault = Empty /\ call[c].unread = {}
      BY <1>0, <2>2, <3>1, <3>3 DEF Bare, Kept
    <3>4. CASE vault = Empty /\ call[c].unread # {}
      <4>1. AllOld
        BY <3>4 DEF AllOld, Stored
      <4>. QED BY <1>0, <3>1, <3>4, <4>1 DEF Kept
    <3>. QED BY <3>2, <3>3, <3>4, <3>1
  <2>6. Changes(c)
    BY <2>1, <2>4, <2>5, <2>a DEF Changes, Fading
  <2>7. Told(c)'
    BY <2>1, <2>4 DEF Told, SameCall
  <2>. QED BY <2>6, <2>7
<1>9. CASE Publish(c)
  <2>0. call[c].name \in Names
    BY <1>9, <1>0 DEF Publish, Does, Call
  <2>a. PICK n \in Names : n = call[c].name
    BY <2>0
  <2>1. /\ call[c].at = "publishing" /\ ReadWell(c) /\ UNCHANGED <<vault, legacy>>
        /\ call[c].op = "delete" => call[c].value = None
    BY <1>9 DEF Publish, InOrder, At, keychain, Told
  <2>2. PICK stage \in {"writing", "auditing"} :
          /\ Leaves(c, stage)
          /\ \/ call[c].op = "set" /\ stage = "writing" /\ index' = call[c].base \cup {n}
             \/ call[c].op = "delete" /\ stage = "auditing" /\ index' = call[c].base \ {n}
    BY <1>9, <2>a DEF Publish, Does
  <2>3. /\ call'[c].at = stage /\ SameCall(call[c], call'[c]) /\ call'[c].clean = call[c].clean
        /\ SameSight(call[c], call'[c])
    BY <1>0, <2>2 DEF Leaves, CallRecord, SameCall, SameSight
  <2>4. \A m \in Names \ {n} : Kept(call[c], m)
    <3>1. CASE vault # Empty
      BY <2>1, <3>1 DEF Stored, Kept
    <3>2. CASE call[c].base = index
      BY <2>1, <2>2, <3>2 DEF Stored, Kept
    <3>3. CASE vault = Empty /\ call[c].base = {} /\ "names" \in call[c].unread
      <4>1. AllOld
        BY <3>3 DEF AllOld, Stored
      <4>2. \A m \in Names \ {n} : Stored(m)' = None
        BY <2>1, <2>2, <3>3 DEF Stored
      <4>3. call[c].unread # {}
        BY <3>3
      <4>. QED BY <4>1, <4>2, <4>3 DEF Kept
    <3>. QED BY <2>1, <3>1, <3>2, <3>3 DEF ReadWell
  <2>6. Stored(n)' \in {Stored(n), call[c].value, legacy[n]}
    BY <1>0, <2>1, <2>2 DEF Stored
  <2>7. call'[c].at = "auditing" /\ (call[c].op = "set" \/ call'[c].clean) => Stored(n)' = call[c].value
    <3>. SUFFICES ASSUME call[c].op = "delete", stage = "auditing", call[c].clean,
                         index' = call[c].base \ {n}
                  PROVE  Stored(n)' = None
      BY <2>1, <2>2, <2>3
    <3>1. vault[n] = None
      BY <2>1, <2>a DEF Told
    <3>. QED BY <2>1, <3>1 DEF Stored
  <2>8. Changes(c)
    BY <2>1, <2>2, <2>3, <2>4, <2>6, <2>7, <2>a DEF Changes, Fading
  <2>9. Told(c)'
    BY <2>1, <2>2, <2>3 DEF Told, SameCall
  <2>. QED BY <2>8, <2>9
<1>. QED BY <1>1, <1>2, <1>3, <1>4, <1>5, <1>6, <1>7, <1>8, <1>9 DEF Step

-----------------------------------------------------------------------------
(* The mapping of steps.                                                   *)

\* The call of one client at most changes.
Alone(c) == \A d \in Clients \ {c} : call'[d] = call[d]

StoreNow == [n \in Names |-> Stored(n)]
AskedNow == [c \in Clients |-> Asked(call[c])]

\* A call under way is not the absence of one.
LEMMA AskedType ==
    ASSUME NEW k \in Call, k.at # "idle", k.op \in {"set", "delete", "read"}
    PROVE  /\ Asked(k) = [op |-> k.op, name |-> k.name, value |-> k.value,
                          blind |-> k.unread # {}, outcome |-> Outcome(k)]
           /\ Asked(k) # None /\ Asked(k) \in Store!Requests
<1>1. Asked(k) = [op |-> k.op, name |-> k.name, value |-> k.value, blind |-> k.unread # {},
                  outcome |-> Outcome(k)]
  BY DEF Asked
<1>2. Outcome(k) \in {"pending", "done", "lingers"}
  BY DEF Outcome
<1>3. k.name \in Names \cup {None} /\ k.value \in Values \cup {None}
  BY DEF Call, CallRecord
<1>4. (k.unread # {}) \in BOOLEAN
  OBVIOUS
<1>5. Asked(k) \in Store!Requests
  <2> DEFINE blind == k.unread # {}
  <2>1. blind \in BOOLEAN
    BY <1>4
  <2>2. Asked(k) = [op |-> k.op, name |-> k.name, value |-> k.value, blind |-> blind,
                    outcome |-> Outcome(k)]
    BY <1>1
  <2>. HIDE DEF blind
  <2>. QED BY <1>2, <1>3, <2>1, <2>2 DEF Store!Requests, Store!Outcomes
<1>6. Asked(k) # None
  BY <1>5, NoneAssumption DEF Store!Requests, Store!Outcomes
<1>. QED BY <1>1, <1>5, <1>6

\* What leaves the store, the old items and the request alone is no step of the store.
LEMMA MapsToStutter ==
    ASSUME TypeOK, Untouched, legacy' = legacy, \A c \in Clients : Asked(call'[c]) = Asked(call[c])
    PROVE  UNCHANGED Store!vars
BY DEF Store!vars, Untouched

LEMMA InternalMaps ==
    ASSUME NEW c \in Clients, Alone(c), TypeOK, TypeOK', Told(c), Internal(c)
    PROVE  Store!Next \/ UNCHANGED Store!vars
<1>1. Asked(call'[c]) = Asked(call[c])
  BY DEF Internal, SameCall, SameSight, Asked, Outcome
<1>2. Asked(call[c]) # None
  BY AskedType DEF Internal, Told, TypeOK
<1>3. AskedNow' = AskedNow /\ AskedNow[c] # None /\ StoreNow' = StoreNow
  BY <1>1, <1>2 DEF AskedNow, StoreNow, Internal, Untouched, Alone
<1>4. Store!Migrate(c)
  BY <1>3 DEF Store!Migrate, Store!Fades, Internal, Fading, AskedNow, StoreNow
<1>. QED BY <1>4 DEF Store!Next

\* A request that goes blind differs in that alone.
LEMMA GoesBlind ==
    ASSUME NEW op, NEW name, NEW value, NEW blind, NEW blinder, NEW outcome
    PROVE  [op |-> op, name |-> name, value |-> value, blind |-> blinder, outcome |-> outcome]
           = [[op |-> op, name |-> name, value |-> value, blind |-> blind, outcome |-> outcome]
                EXCEPT !.blind = blinder]
OBVIOUS

LEMMA LoseMaps ==
    ASSUME NEW c \in Clients, Alone(c), TypeOK, TypeOK', Told(c), Loses(c)
    PROVE  Store!Next
<1>1. call[c] \in Call /\ call'[c] \in Call /\ call[c].op \in {"set", "delete", "read"}
  BY DEF TypeOK, Told, Loses
<1>2. /\ Asked(call[c]) # None /\ Asked(call[c]).outcome = "pending"
      /\ Asked(call'[c]) = [Asked(call[c]) EXCEPT !.blind = TRUE]
  <2>1. Asked(call[c]) = [op |-> call[c].op, name |-> call[c].name, value |-> call[c].value,
                          blind |-> call[c].unread # {}, outcome |-> "pending"]
        /\ Asked(call[c]) # None
    BY <1>1, AskedType DEF Loses, Outcome
  <2>2. Asked(call'[c]) = [op |-> call[c].op, name |-> call[c].name, value |-> call[c].value,
                           blind |-> TRUE, outcome |-> "pending"]
    BY <1>1, AskedType DEF Loses, Outcome, SameCall
  <2> DEFINE blind == call[c].unread # {}
  <2>3. Asked(call[c]) = [op |-> call[c].op, name |-> call[c].name, value |-> call[c].value,
                          blind |-> blind, outcome |-> "pending"]
    BY <2>1
  <2>. HIDE DEF blind
  <2>4. Asked(call'[c]) = [[op |-> call[c].op, name |-> call[c].name, value |-> call[c].value,
                            blind |-> blind, outcome |-> "pending"] EXCEPT !.blind = TRUE]
    <3> DEFINE blinder == TRUE
    <3>1. Asked(call'[c]) = [op |-> call[c].op, name |-> call[c].name, value |-> call[c].value,
                             blind |-> blinder, outcome |-> "pending"]
      BY <2>2
    <3>. HIDE DEF blinder
    <3>2. Asked(call'[c]) = [[op |-> call[c].op, name |-> call[c].name, value |-> call[c].value,
                              blind |-> blind, outcome |-> "pending"] EXCEPT !.blind = blinder]
      BY <3>1, GoesBlind
    <3>. QED BY <3>2 DEF blinder
  <2>. QED BY <2>1, <2>3, <2>4, Zenon
<1>3. AskedNow' = [AskedNow EXCEPT ![c].blind = TRUE]
  BY <1>2 DEF AskedNow, Alone
<1>4. StoreNow' = StoreNow
  BY DEF StoreNow, Loses, Untouched
<1>5. Store!GoBlind(c)
  BY <1>2, <1>3, <1>4 DEF Store!GoBlind, Loses, AskedNow, StoreNow
<1>. QED BY <1>5 DEF Store!Next

LEMMA FinishMaps ==
    ASSUME NEW c \in Clients, Alone(c), TypeOK, Told(c), Finishes(c)
    PROVE  Store!Next
<1>1. Asked(call'[c]) = None
  BY DEF Finishes, Asked, Idle
<1>2. Asked(call[c]) # None
  BY AskedType DEF Finishes, Told, TypeOK
<1>3. AskedNow' = [AskedNow EXCEPT ![c] = None] /\ AskedNow[c] # None /\ StoreNow' = StoreNow
  <2>1. \A d \in Clients \ {c} : Asked(call'[d]) = Asked(call[d])
    BY DEF Alone
  <2>2. AskedNow' = [AskedNow EXCEPT ![c] = None]
    BY <1>1, <2>1 DEF AskedNow
  <2>3. AskedNow[c] # None
    BY <1>2 DEF AskedNow
  <2>4. StoreNow' = StoreNow
    BY DEF StoreNow, Finishes, Untouched
  <2>. QED BY <2>2, <2>3, <2>4
<1>4. Store!End(c)
  BY <1>3 DEF Store!End, Finishes, AskedNow, StoreNow
<1>. QED BY <1>4 DEF Store!Next

LEMMA ChangeMaps ==
    ASSUME NEW c \in Clients, Alone(c), TypeOK, TypeOK', Told(c), Told(c)', Changes(c)
    PROVE  Store!Next
<1> DEFINE k == call[c]  outcome == Outcome(call'[c])
<1>1. PICK n \in Names :
    /\ n = k.name
    /\ Fading /\ SameCall(k, call'[c]) /\ SameSight(k, call'[c])
    /\ k.op \in {"set", "delete"}
    /\ k.at \notin {"idle", "auditing"} /\ call'[c].at # "idle"
    /\ Stored(n)' \in {Stored(n), k.value, legacy[n]}
    /\ \A m \in Names \ {n} : Kept(k, m)
    /\ call'[c].at = "auditing" /\ (k.op = "set" \/ call'[c].clean) => Stored(n)' = k.value
  BY DEF Changes
<1>2. k \in Call /\ call'[c] \in Call
  BY DEF TypeOK
<1>3. Asked(k) # None /\ Asked(k) = [op |-> k.op, name |-> n, value |-> k.value,
                                     blind |-> k.unread # {}, outcome |-> "pending"]
  BY <1>1, <1>2, AskedType DEF Outcome
<1>4. Asked(call'[c]) = [op |-> k.op, name |-> n, value |-> k.value, blind |-> k.unread # {},
                         outcome |-> outcome]
  BY <1>1, <1>2, AskedType DEF SameCall, SameSight
<1>5. /\ outcome \in {"pending", "done", "lingers"}
      /\ outcome = "done" => Stored(n)' = k.value
      /\ outcome = "lingers" => k.op = "delete"
  BY <1>1 DEF Outcome, SameCall
<1>6. /\ AskedNow[c] = [op |-> k.op, name |-> n, value |-> k.value, blind |-> k.unread # {},
                        outcome |-> "pending"]
      /\ AskedNow[c] # None /\ AskedNow' = [AskedNow EXCEPT ![c].outcome = outcome]
  <2>. HIDE DEF outcome
  <2>1. \A d \in Clients \ {c} : Asked(call'[d]) = Asked(call[d])
    BY DEF Alone
  <2>2. Asked(call'[c]) = [Asked(call[c]) EXCEPT !.outcome = outcome]
    BY <1>3, <1>4
  <2>. QED BY <1>3, <2>1, <2>2 DEF AskedNow
<1>7. StoreNow' \in [Names -> Values \cup {None}]
  BY DEF TypeOK, Maps, StoreNow, Stored
<1> HIDE DEF outcome
<1>8. Store!Work(c)
  <2>1. /\ AskedNow[c].op = k.op /\ AskedNow[c].name = n /\ AskedNow[c].value = k.value
        /\ AskedNow[c].outcome = "pending" /\ AskedNow[c].blind = (k.unread # {})
    BY <1>6
  <2>2. StoreNow'[n] \in {StoreNow[n], AskedNow[c].value, legacy[n]}
    BY <1>1, <2>1 DEF StoreNow
  <2>3. \A m \in Names \ {n} :
           Store!Keeps(m) \/ (AskedNow[c].blind /\ Store!AllOld /\ StoreNow'[m] = None)
    <3>1. AllOld => Store!AllOld
      BY DEF AllOld, Store!AllOld
    <3>. QED BY <1>1, <2>1, <3>1 DEF Kept, Store!Keeps, Store!Surfaces, StoreNow
  <2>4. Store!Fades
    BY <1>1 DEF Store!Fades, Fading
  <2>5. /\ outcome = "done" => StoreNow'[n] = AskedNow[c].value
        /\ outcome = "lingers" => AskedNow[c].op = "delete"
    BY <1>5, <2>1 DEF StoreNow
  <2> HIDE DEF k
  <2>. QED BY <1>1, <1>5, <1>6, <1>7, <2>1, <2>2, <2>3, <2>4, <2>5
           DEF Store!Work, Store!Outcomes, StoreNow, AskedNow
<1>. QED BY <1>8 DEF Store!Next

\* A call that begins asks; nothing is stored or moved yet.
LEMMA BeginMaps ==
    ASSUME NEW c \in Clients, Alone(c), TypeOK, TypeOK',
           SetSecret(c) \/ DeleteSecret(c) \/ ReadSecrets(c)
    PROVE  Told(c)' /\ Store!Next
<1>1. PICK op, n, v : /\ op \in {"set", "delete", "read"}
                      /\ Begin(c, op, n, v)
                      /\ op # "set" => v = None
  BY DEF SetSecret, DeleteSecret, ReadSecrets
<1>2. /\ call[c].at = "idle" /\ UNCHANGED <<vault, legacy, index>>
      /\ call'[c] = [Idle EXCEPT !.op = op, !.name = n, !.value = v, !.at = "reading"]
  BY <1>1 DEF Begin, At, keychain, TypeOK
<1>3. call'[c].op = op /\ call'[c].value = v /\ call'[c].at = "reading" /\ call'[c].unread = {}
  BY <1>2 DEF Idle
<1>4. Told(c)'
  BY <1>1, <1>3 DEF Told
<1>5. Asked(call[c]) = None /\ Asked(call'[c]) \in Store!Requests
      /\ Asked(call'[c]).outcome = "pending" /\ ~Asked(call'[c]).blind
  <2>1. call'[c] \in Call /\ Asked(call[c]) = None
    BY <1>2 DEF TypeOK, Asked
  <2>2. /\ Asked(call'[c]) \in Store!Requests
        /\ Asked(call'[c]).outcome = Outcome(call'[c]) /\ ~Asked(call'[c]).blind
    <3>1. call'[c].at # "idle" /\ call'[c].op \in {"set", "delete", "read"}
      BY <1>1, <1>3
    <3>2. /\ Asked(call'[c]) \in Store!Requests
          /\ Asked(call'[c]) = [op |-> call'[c].op, name |-> call'[c].name, value |-> call'[c].value,
                                blind |-> call'[c].unread # {}, outcome |-> Outcome(call'[c])]
      BY <2>1, <3>1, AskedType
    <3>3. (call'[c].unread # {}) = FALSE
      BY <1>3
    <3>4. Asked(call'[c]).outcome = Outcome(call'[c]) /\ Asked(call'[c]).blind = (call'[c].unread # {})
      BY <3>2
    <3>. QED BY <3>2, <3>3, <3>4
  <2>3. Outcome(call'[c]) = "pending"
    BY <1>3 DEF Outcome
  <2>. QED BY <2>1, <2>2, <2>3
<1>6. StoreNow' = StoreNow
  BY <1>2, SameStored DEF StoreNow
<1>7. AskedNow[c] = None /\ AskedNow' = [AskedNow EXCEPT ![c] = Asked(call'[c])]
  BY <1>5 DEF AskedNow, Alone
<1>8. Store!Ask(c)
  BY <1>2, <1>5, <1>6, <1>7 DEF Store!Ask, StoreNow, AskedNow
<1>. QED BY <1>4, <1>8 DEF Store!Next

LEMMA RestartMaps ==
    ASSUME Restart
    PROVE  (\A c \in Clients : Told(c)') /\ Store!Next
<1>1. call' = [d \in Clients |-> Idle] /\ UNCHANGED <<vault, legacy, index>>
  BY DEF Restart, keychain
<1>2. \A c \in Clients : Told(c)'
  BY <1>1, NoneAssumption DEF Told, Idle
<1>3. StoreNow' = StoreNow
  BY <1>1, SameStored DEF StoreNow
<1>4. AskedNow' = [d \in Clients |-> None]
  BY <1>1 DEF AskedNow, Asked, Idle
<1>5. Store!Restart
  BY <1>1, <1>3, <1>4 DEF Store!Restart, StoreNow, AskedNow
<1>. QED BY <1>2, <1>5 DEF Store!Next

LEMMA InitMaps ==
    ASSUME Init
    PROVE  (\A c \in Clients : Told(c)) /\ Store!Init
<1>1. legacy \in Maps /\ vault = Empty /\ \A c \in Clients : call[c] = Idle
  BY DEF Init
<1>2. StoreNow \in [Names -> Values \cup {None}]
  BY <1>1 DEF StoreNow, Stored, Maps
<1>3. AskedNow = [d \in Clients |-> None]
  BY <1>1 DEF AskedNow, Asked, Idle
<1>4. Store!Init
  BY <1>1, <1>2, <1>3 DEF Store!Init, StoreNow, AskedNow, Maps
<1>5. \A c \in Clients : Told(c)
  BY <1>1, NoneAssumption DEF Told, Idle
<1>. QED BY <1>4, <1>5

-----------------------------------------------------------------------------
(* The theorem.                                                            *)

\* Calls that do not overlap see one map from names to values, and again once calls
\* that did have ended: whatever is refused, fails or dies, each call changes its own
\* name only, and what setSecret or a clean deleteSecret reports is so.  A call that
\* cannot read the index may hide old items, and does so only while every value there
\* is is an old item's.
THEOREM StoreSafe == Spec => StoreImplemented
<1> DEFINE All == \A c \in Clients : Knows(c)
           AllTold == \A c \in Clients : Told(c)
           Known == ~overlap => All
           Heard == ~overlap => AllTold
<1>1. Init => AllTold /\ Store!Init
  BY InitMaps
<1>2. ASSUME TypeOK, TypeOK', InOrder, CacheTruthful, OneAtATime, All, AllTold, [Next]_vars
      PROVE  AllTold' /\ (Store!Next \/ UNCHANGED Store!vars)
  <2>2. ASSUME NEW c \in Clients, SetSecret(c) \/ DeleteSecret(c) \/ ReadSecrets(c)
        PROVE  AllTold' /\ Store!Next
    <3>1. Alone(c)
      BY <1>2, <2>2, OthersStay DEF Alone
    <3>2. Told(c)' /\ Store!Next
      BY <1>2, <2>2, <3>1, BeginMaps
    <3>3. vault' = vault
      BY <2>2 DEF SetSecret, DeleteSecret, ReadSecrets, Begin, keychain
    <3>4. \A d \in Clients \ {c} : Told(d)'
      BY <1>2, <3>1, <3>3 DEF Told, Alone
    <3>. QED BY <3>2, <3>4
  <2>3. ASSUME NEW c \in Clients, Step(c)
        PROVE  AllTold' /\ (Store!Next \/ UNCHANGED Store!vars)
    <3>1. Alone(c) /\ \A d \in Clients \ {c} : call[d].at = "idle"
      BY <1>2, <2>3, OthersStay, OthersIdle DEF Alone
    <3>2. Told(c)' /\ (Internal(c) \/ Loses(c) \/ Finishes(c) \/ Changes(c))
      BY <1>2, <2>3, StepStores
    <3>3. Store!Next \/ UNCHANGED Store!vars
      BY <1>2, <3>1, <3>2, InternalMaps, LoseMaps, FinishMaps, ChangeMaps
    <3>4. \A d \in Clients \ {c} : Told(d)'
      BY <1>2, <3>1 DEF Told, Alone
    <3>. QED BY <3>2, <3>3, <3>4
  <2>4. CASE Restart
    BY <2>4, RestartMaps
  <2>5. CASE OtherAccounts \/ UNCHANGED vars
    <3>1. UNCHANGED <<call, vault, legacy, index>>
      BY <2>5 DEF OtherAccounts, keychain, vars
    <3>2. AllTold'
      BY <1>2, <3>1 DEF Told
    <3>3. Untouched
      BY <3>1, SameStored DEF Untouched
    <3>. QED BY <1>2, <3>1, <3>2, <3>3, MapsToStutter
  <2>. QED BY <1>2, <2>2, <2>3, <2>4, <2>5 DEF Next
<1>3. TypeOK /\ TypeOK' /\ InOrder /\ CacheTruthful /\ Apart /\ Known /\ Heard /\ [Next]_vars
      => Heard' /\ [Undisturbed => Store!Next \/ UNCHANGED Store!vars]_vars
  <2> SUFFICES ASSUME TypeOK, TypeOK', InOrder, CacheTruthful, Apart, Known, Heard, [Next]_vars,
                      ~overlap'
               PROVE  AllTold' /\ [Undisturbed => Store!Next \/ UNCHANGED Store!vars]_vars
    BY DEF Undisturbed
  <2>1. CASE ~overlap
    BY <1>2, <2>1 DEF Apart
  <2>2. CASE overlap
    <3>1. ASSUME NEW c \in Clients PROVE Told(c)'
      BY <2>2, AllEnded DEF Told
    <3>. QED BY <2>2, <3>1 DEF Undisturbed
  <2>. QED BY <2>1, <2>2
<1>4. Spec => []Known
  BY KnowsAndKeeps, PTL
<1>. QED BY <1>1, <1>3, <1>4, TypeCorrect, AlwaysInOrder, AlwaysApart, CacheSafe, PTL
         DEF Spec, StoreImplemented
=============================================================================
