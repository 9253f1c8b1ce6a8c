-------------------------------- MODULE Vault --------------------------------
(***************************************************************************)
(* The secrets of one project (agent-core/broker): the values are one JSON *)
(* blob in one OS keychain item, the vault; an index of their names is the *)
(* file .airlock/secrets.json.  Earlier versions kept one keychain item    *)
(* per secret; the first call of any kind that finds no vault moves those  *)
(* legacy items into it.                                                   *)
(*                                                                          *)
(* Calls overlap: every await of setSecret, deleteSecret or a read lets    *)
(* another call of the main process run.  The only locks are the queue of  *)
(* the index (chainMeta) and the one of the audit log.  The keychain sits   *)
(* behind a session cache that gives up reading after one refusal.         *)
(*                                                                          *)
(* A vault with no name in it and an absent one are the same here: the     *)
(* code deletes the item rather than write an empty blob.  A native        *)
(* keychain call is one step, at its completion; a second read of an item  *)
(* being read shares its promise, so it gets what the first one got.       *)
(***************************************************************************)
EXTENDS FiniteSets, Sequences

CONSTANTS
    Clients,   \* calls that can be in progress at once
    Names,     \* secret names
    Values,    \* secret values
    OldItems,  \* the names that may have a legacy item
    None

ASSUME OldItemsAssumption == OldItems \subseteq Names
ASSUME NoneAssumption == /\ None \notin {"set", "delete", "read"} /\ None \notin Values
                         /\ None \notin [Names -> Values \cup {None}]
                         /\ None \notin [op : {"set", "delete", "read"}, name : Names \cup {None},
                                         value : Values \cup {None}, blind : BOOLEAN,
                                         outcome : {"pending", "done", "lingers"}]

VARIABLES
    vault,      \* the keychain's vault item: name -> value or None
    legacy,     \* the keychain's legacy items: name -> value or None
    index,      \* the names in secrets.json
    audit,      \* what the audit log last says of each name
    cache,      \* cachingKeychain's entry for the vault: its map, or None
    cached,     \* names whose legacy item the cache has an entry for
    hardError,  \* cachingKeychain.hardError: a read was refused this session
    queue,      \* metaQueues: calls waiting to change the index, the first at it
    call,       \* what each client is doing
    overlap     \* history: calls in progress overlap, or did since there was none

keychain == <<vault, legacy>>
session == <<cache, cached, hardError>>
vars == <<vault, legacy, index, audit, session, queue, call, overlap>>

-----------------------------------------------------------------------------
Maps == [Names -> Values \cup {None}]
Empty == [n \in Names |-> None]
NamesIn(map) == {n \in Names : map[n] # None}

Stages == {"idle", "reading", "listing", "items", "consolidating", "cleaning",
           "migrated", "queued", "publishing", "writing", "auditing"}
CallRecord ==
        [op : {"set", "delete", "read", None},
         name : Names \cup {None}, value : Values \cup {None},
         at : Stages,
         map : Maps,           \* the parsed blob this call works on
         todo : SUBSET Names,  \* legacy items still to read or delete
         base : SUBSET Names,  \* the index as read in the queue
         unread : SUBSET {"items", "names"},  \* what it could not look up in the index
         clean : BOOLEAN]      \* keychainDeleted
Call == {k \in CallRecord : /\ k.op \in {"set", "delete"} => k.name \in Names
                            /\ k.op = "set" => k.value \in Values}
Idle == [op |-> None, name |-> None, value |-> None, at |-> "idle", map |-> Empty,
         todo |-> {}, base |-> {}, unread |-> {}, clean |-> FALSE]

TypeOK ==
    /\ vault \in Maps /\ legacy \in Maps
    /\ index \subseteq Names
    /\ audit \in [Names -> {"nothing", "set", "deleted", "lingers"}]
    /\ cache \in Maps \cup {None}
    /\ cached \subseteq Names
    /\ hardError \in BOOLEAN
    /\ queue \in Seq(Clients)
    /\ call \in [Clients -> Call]
    /\ overlap \in BOOLEAN

\* A project of the last version before the vault: the index may name a secret
\* whose item is gone, and an item whose delete was refused may be unnamed.
Init ==
    /\ vault = Empty
    /\ legacy \in {map \in Maps : NamesIn(map) \subseteq OldItems}
    /\ index \in SUBSET OldItems
    /\ audit = [n \in Names |-> "nothing"]
    /\ cache = None /\ cached = {} /\ hardError = FALSE
    /\ queue = <<>>
    /\ call = [c \in Clients |-> Idle]
    /\ overlap = FALSE

At(c, stage) == call[c].at = stage
Does(c, op) == call[c].op = op
Settles(c) == call' = [call EXCEPT ![c] = Idle]

\* cachingKeychain.set and .delete of the vault item, when they succeed.
Stores(map) == vault' = map /\ cache' = map /\ hardError' = FALSE /\ UNCHANGED cached
\* Broken delete: the cache keeps serving what the item held.
RemovesItem == vault' = Empty /\ UNCHANGED session
Removes == vault' = Empty /\ cache' = None /\ UNCHANGED <<cached, hardError>>

-----------------------------------------------------------------------------
(* ensureMigrated: where every call begins.                                *)

Begin(c, op, n, v) ==
    /\ At(c, "idle")
    /\ call' = [call EXCEPT ![c] = [Idle EXCEPT !.op = op, !.name = n, !.value = v,
                                               !.at = "reading"]]
    /\ UNCHANGED <<keychain, index, audit, session, queue>>

SetSecret(c) == \E n \in Names, v \in Values : Begin(c, "set", n, v)
DeleteSecret(c) == \E n \in Names : Begin(c, "delete", n, None)
ReadSecrets(c) == Begin(c, "read", None, None)  \* getSecretValue, vaultedSecrets, injectInto

\* Broken backoff: after a refusal every later read finds nothing.
ReadVaultLies(c) ==
    /\ At(c, "reading")
    /\ LET map == IF cache # None THEN cache ELSE IF hardError THEN Empty ELSE vault
       IN  /\ call' = [call EXCEPT ![c].map = map,
                                   ![c].at = IF map # Empty THEN "migrated" ELSE "listing"]
           /\ cache' = IF hardError THEN cache ELSE map
    /\ UNCHANGED <<keychain, index, audit, cached, hardError, queue>>

\* keychain.get of the vault, through the cache.
ReadVault(c) ==
    /\ At(c, "reading") /\ (cache # None \/ ~hardError)
    /\ LET map == IF cache # None THEN cache ELSE vault
       IN  /\ call' = [call EXCEPT ![c].map = map,
                                   ![c].at = IF map # Empty THEN "migrated" ELSE "listing"]
           /\ cache' = map
    /\ UNCHANGED <<keychain, index, audit, cached, hardError, queue>>

\* The keychain is locked or its dialog denied, or it was before.
ReadVaultDenied(c) ==
    /\ At(c, "reading") /\ cache = None
    /\ hardError' = TRUE
    /\ Settles(c)
    /\ UNCHANGED <<keychain, index, audit, cache, cached, queue>>

\* readMeta: a file that cannot be read (EMFILE, EACCES, EIO) is one without names.
Found == {index, {}}
Missed(found, what) == IF found = index THEN {} ELSE {what}

\* No vault: the index says which legacy items to look for.
ListItems(c) == \E found \in Found :
    /\ At(c, "listing")
    /\ call' = [call EXCEPT ![c].todo = found, ![c].unread = Missed(found, "items"),
                            ![c].at = IF found = {} THEN "migrated" ELSE "items"]
    /\ UNCHANGED <<keychain, index, audit, session, queue>>

\* Broken cache key: the entry is filed under the name the call is about.
ReadItemMisfiled(c) == \E n \in call[c].todo :
    /\ At(c, "items") /\ (n \in cached \/ ~hardError)
    /\ call' = [call EXCEPT ![c].map[n] = legacy[n], ![c].todo = @ \ {n},
                            ![c].at = IF call[c].todo # {n} THEN "items" ELSE "migrated"]
    /\ cached' = cached \cup {call[c].name}
    /\ UNCHANGED <<keychain, index, audit, cache, hardError, queue>>

\* In the order of the index, which is any.
ReadItem(c) == \E n \in call[c].todo :
    /\ At(c, "items") /\ (n \in cached \/ ~hardError)
    /\ LET map == [call[c].map EXCEPT ![n] = legacy[n]]
           left == call[c].todo \ {n}
       IN  call' = [call EXCEPT ![c].map = map, ![c].todo = left,
                                ![c].at = IF left # {} THEN "items"
                                          ELSE IF map # Empty THEN "consolidating"
                                          ELSE "migrated"]
    /\ cached' = cached \cup {n}
    /\ UNCHANGED <<keychain, index, audit, cache, hardError, queue>>

ReadItemDenied(c) ==
    /\ At(c, "items") /\ ~(call[c].todo \subseteq cached)
    /\ hardError' = TRUE
    /\ Settles(c)
    /\ UNCHANGED <<keychain, index, audit, cache, cached, queue>>

Consolidate(c) ==
    /\ At(c, "consolidating")
    /\ Stores(call[c].map)
    /\ call' = [call EXCEPT ![c].todo = NamesIn(call[c].map), ![c].at = "cleaning"]
    /\ UNCHANGED <<legacy, index, audit, queue>>

ConsolidateRefused(c) ==
    /\ At(c, "consolidating")
    /\ Settles(c)
    /\ UNCHANGED <<keychain, index, audit, session, queue>>

\* The keychain may refuse: its delete then answers false and nobody looks.
CleanItem(c) == \E n \in call[c].todo :
    /\ At(c, "cleaning")
    /\ legacy' \in {legacy, [legacy EXCEPT ![n] = None]}
    /\ cached' = cached \ {n}
    /\ LET left == call[c].todo \ {n}
       IN  call' = [call EXCEPT ![c].todo = left,
                                ![c].at = IF left # {} THEN "cleaning" ELSE "migrated"]
    /\ UNCHANGED <<vault, index, audit, cache, hardError, queue>>

\* A read has its map; what it looks up in the index changes nothing.
Answer(c) ==
    /\ At(c, "migrated") /\ Does(c, "read")
    /\ Settles(c)
    /\ UNCHANGED <<keychain, index, audit, session, queue>>

-----------------------------------------------------------------------------
(* deleteSecret: the value, then the name.                                 *)

\* keychainDeleted is known; removeMeta waits for its turn.
Dropped(c, clean) ==
    /\ call' = [call EXCEPT ![c].map = Empty, ![c].clean = clean, ![c].at = "queued"]
    /\ queue' = Append(queue, c)
    /\ UNCHANGED <<index, audit>>

Drop(c) == LET n == call[c].name
               rest == [call[c].map EXCEPT ![n] = None]
           IN
    /\ At(c, "migrated") /\ Does(c, "delete")
    /\ \/ /\ call[c].map[n] # None /\ rest # Empty
          /\ Stores(rest) /\ UNCHANGED legacy
          /\ Dropped(c, TRUE)
       \/ /\ call[c].map[n] # None /\ rest = Empty
          /\ Removes /\ UNCHANGED legacy
          /\ Dropped(c, vault # Empty)
       \/ /\ call[c].map[n] = None
          /\ legacy' = [legacy EXCEPT ![n] = None] /\ cached' = cached \ {n}
          /\ UNCHANGED <<vault, cache, hardError>>
          /\ Dropped(c, legacy[n] # None)

\* A refused set throws into the catch; a refused delete answers false, and the
\* cache forgets the item all the same.
DropRefused(c) == LET n == call[c].name
                      rest == [call[c].map EXCEPT ![n] = None]
                  IN
    /\ At(c, "migrated") /\ Does(c, "delete")
    /\ \/ call[c].map[n] # None /\ rest # Empty /\ UNCHANGED session
       \/ call[c].map[n] # None /\ rest = Empty /\ cache' = None /\ UNCHANGED <<cached, hardError>>
       \/ call[c].map[n] = None /\ cached' = cached \ {n} /\ UNCHANGED <<cache, hardError>>
    /\ UNCHANGED keychain
    /\ Dropped(c, FALSE)

-----------------------------------------------------------------------------
(* setSecret: the name, then the value.                                    *)

\* Broken order: the value is stored before the name is in the index.
WriteFirst(c) ==
    /\ At(c, "migrated") /\ Does(c, "set")
    /\ call' = [call EXCEPT ![c].at = "writing"]
    /\ UNCHANGED <<keychain, index, audit, session, queue>>

\* upsertMeta waits for its turn.
AskToList(c) ==
    /\ At(c, "migrated") /\ Does(c, "set")
    /\ call' = [call EXCEPT ![c].at = "queued"]
    /\ queue' = Append(queue, c)
    /\ UNCHANGED <<keychain, index, audit, session>>

WriteVault(c) ==
    /\ At(c, "writing")
    /\ Stores([call[c].map EXCEPT ![call[c].name] = call[c].value])
    /\ call' = [call EXCEPT ![c].map = Empty, ![c].at = "auditing"]
    /\ UNCHANGED <<legacy, index, audit, queue>>

WriteRefused(c) ==
    /\ At(c, "writing")
    /\ Settles(c)
    /\ UNCHANGED <<keychain, index, audit, session, queue>>

-----------------------------------------------------------------------------
(* The index (chainMeta, upsertMeta, removeMeta) and the audit log.        *)

Leaves(c, stage) == call' = [call EXCEPT ![c].base = {}, ![c].at = stage]
\* Broken chainMeta: a call does not wait for the ones before it.
IsQueued(c) == \E k \in DOMAIN queue : queue[k] = c
HasTurn(c) == queue # <<>> /\ Head(queue) = c

ReadIndex(c) == \E found \in Found :
    /\ At(c, "queued") /\ HasTurn(c)
    /\ call' = [call EXCEPT ![c].base = found, ![c].unread = @ \cup Missed(found, "names"),
                            ![c].at = "publishing"]
    /\ UNCHANGED <<keychain, index, audit, session, queue>>

\* The rename lands and the next call in the queue may read.
Publish(c) ==
    /\ At(c, "publishing") /\ HasTurn(c)
    /\ queue' = Tail(queue)
    /\ \/ /\ Does(c, "set")
          /\ index' = call[c].base \cup {call[c].name}
          /\ Leaves(c, "writing")
       \/ /\ Does(c, "delete")
          /\ index' = call[c].base \ {call[c].name}
          /\ Leaves(c, "auditing")
    /\ UNCHANGED <<keychain, audit, session>>

PublishFails(c) ==
    /\ At(c, "publishing") /\ HasTurn(c)
    /\ queue' = Tail(queue)
    /\ Settles(c)
    /\ UNCHANGED <<keychain, index, audit, session>>

\* appendAudit, which may fail: the call is then rejected although it is done.
Audit(c) ==
    /\ At(c, "auditing")
    /\ LET says == IF Does(c, "set") THEN "set"
                   ELSE IF call[c].clean THEN "deleted" ELSE "lingers"
       IN  audit' \in {audit, [audit EXCEPT ![call[c].name] = says]}
    /\ Settles(c)
    /\ UNCHANGED <<keychain, index, session, queue>>

-----------------------------------------------------------------------------
\* AirLock dies and starts again: only what is on disk is left.
Restart ==
    /\ cache' = None /\ cached' = {} /\ hardError' = FALSE
    /\ queue' = <<>>
    /\ call' = [c \in Clients |-> Idle]
    /\ UNCHANGED <<keychain, index, audit>>

\* Another project or an account key: its refused read trips the same flag, its
\* successful write clears it.
OtherAccounts ==
    /\ hardError' = ~hardError
    /\ UNCHANGED <<keychain, index, audit, cache, cached, queue, call>>

Step(c) ==
    \/ ReadVault(c) \/ ReadVaultDenied(c) \/ ListItems(c)
    \/ ReadItem(c) \/ ReadItemDenied(c)
    \/ Consolidate(c) \/ ConsolidateRefused(c) \/ CleanItem(c) \/ Answer(c)
    \/ Drop(c) \/ DropRefused(c)
    \/ AskToList(c) \/ WriteVault(c) \/ WriteRefused(c)
    \/ ReadIndex(c) \/ Publish(c) \/ PublishFails(c) \/ Audit(c)

Busy(c) == ~At(c, "idle")
Overlapping == \E c, d \in Clients : c # d /\ Busy(c) /\ Busy(d)
Remember == overlap' = (Overlapping' \/ (overlap /\ \E c \in Clients : Busy(c)'))

Next ==
    /\ \/ \E c \in Clients : SetSecret(c) \/ DeleteSecret(c) \/ ReadSecrets(c) \/ Step(c)
       \/ Restart \/ OtherAccounts
    /\ Remember

Spec == Init /\ [][Next]_vars

-----------------------------------------------------------------------------
(* Properties.                                                             *)

Works(c, op, n) == Does(c, op) /\ call[c].name = n

\* The value a call that starts now would find for n.
Stored(n) ==
    IF vault # Empty THEN vault[n] ELSE IF n \in index THEN legacy[n] ELSE None

\* A value that can be read stays as it is, but for a call that sets or deletes
\* that very name.
Survive == \A n \in Names :
    \/ Stored(n) \in {None, Stored(n)'}
    \/ \E c \in Clients : Works(c, "set", n) \/ Works(c, "delete", n)

\* No value is lost to a call about another name, through migration, refusals and
\* restarts: "so the blob we write below carries this project's existing secrets,
\* not just the new one" (setSecret), and migration's "no-loss order"
\* (ensureMigrated).
ValuesSurvive == [][Survive]_vars

\* How far a call is: a set that is written, a delete that is unlisted.
Outcome(k) ==
    IF k.at # "auditing" THEN "pending" ELSE IF k.op = "set" \/ k.clean THEN "done" ELSE "lingers"

Asked(k) == IF k.at = "idle" THEN None
            ELSE [op |-> k.op, name |-> k.name, value |-> k.value,
                  blind |-> k.unread # {}, outcome |-> Outcome(k)]

Store == INSTANCE SecretStore WITH
            store <- [n \in Names |-> Stored(n)],
            shadow <- legacy,
            asked <- [c \in Clients |-> Asked(call[c])]

\* Nobody disturbs whoever takes this step.
Undisturbed == ~overlap /\ ~overlap'

\* Calls that do not overlap see one map from names to values (SecretStore): each
\* changes its own name only, and what setSecret or a clean deleteSecret reports
\* is so, through migration, refusals and restarts.  One that could not read the
\* index may hide old items while the vault is empty, and nothing else.  And so
\* again when those that overlapped have ended, whatever they left.
StoreImplemented ==
    Store!Init /\ [][Undisturbed => Store!Next \/ UNCHANGED Store!vars]_vars

\* setSecret indexes a name before it stores the value: calls that do not overlap
\* never give the vault a value under a name the user cannot see, nor delete.
NoHiddenValue ==
    [][Undisturbed =>
          \A n \in Names : vault[n] = None /\ vault'[n] # None => n \in index']_vars

\* The index gains a name from a set of it alone and loses one to a delete of it,
\* however many calls rewrite the file at once (chainMeta); or else all but one
\* name, to a call that itself could not read the file.
IndexKeepsNames ==
    [][\A n \in Names :
          /\ n \in index \ index' => \E c \in Clients :
                Works(c, "delete", n) \/ (At(c, "publishing") /\ "names" \in call[c].unread)
          /\ n \in index' \ index => \E c \in Clients : Works(c, "set", n)]_vars

\* What the session cache serves is what the keychain holds: no refused or
\* overlapping call leaves it with a vault that was never written.
CacheTruthful == cache \in {None, vault}
=============================================================================
