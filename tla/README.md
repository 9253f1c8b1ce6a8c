# AirLock in TLA+

AirLock is a desktop IDE (Electron, TypeScript) in which AI agents work beside
the user: they run in real terminals, call AirLock's MCP tools, and get at
secrets only through a broker that keeps the values in the OS keychain. This
directory holds TLA+ models of the parts of AirLock whose correctness depends on
order, overlap and failure, the TLC instances that check them, and proofs of
their main invariants.

Paths below are relative to `src/`; `main/` stands for `packages/app/src/main/`,
`renderer/` for `packages/app/src/renderer/src/`, and `core/` for
`packages/agent-core/src/`.

1. [The system](#1-the-system)
2. [Modules](#2-modules)
3. [AgentRequests](#3-agentrequests-the-agent-request-registry)
4. [TabMove](#4-tabmove-tabs-that-move-with-their-shells)
5. [Vault and SecretStore](#5-vault-and-secretstore-the-secrets-of-a-project)
6. [DevServer](#6-devserver-managed-dev-servers)
7. [LocalApps](#7-localapps-notices-about-long-running-apps)
8. [EslintPool](#8-eslintpool-linting-in-a-child-process)
9. [Atlas](#9-atlas-debrief-chat-and-registry-over-a-database-process)
10. [Runs](#10-runs)
11. [Proofs](#11-proofs)
12. [What the models found](#12-what-the-models-found)
13. [Not modelled](#13-not-modelled)

## 1. The system

One **main process** owns everything that lasts: pty sessions, the keychain, the
project files, the MCP server, dev servers, the Atlas assistant and its
database. Each **window** has a renderer (React) that shows projects as tabs
and terminals as panes; it talks to main over IPC, in order in each direction.
**Agents** talk to the MCP server over HTTP; a tool call blocks until its handler
answers. Main is one JavaScript thread: a handler runs to its next `await`
without interruption, and everything may happen at the `await`. That is the grain
of all the models: one action for what runs between two awaits.

| Component | State | Operations | Interacts with | What is hard | What makes it correct |
|---|---|---|---|---|---|
| **Agent-request registry** `main/agent-requests.ts` | the requests on screen, terminals granted, apps acknowledged | ask for a secret, ask to type, answer, dismiss, expire, vault by hand, pty exit, reconcile notices, reroute | MCP tools (callers), windows, pty exits, vault, local-apps poll | answers race timers, evictions, exits and windows that close; agents share cards | no agent is forgotten or answered twice; a card is where the user can see it; typing needs approval |
| **Tab tear-off and pty ownership** `main/ipc.ts`, `main/window.ts`, `main/tabdrag/`, `renderer/store.ts`, `TerminalPane.tsx`, `ProjectTabs.tsx` | sessions and their windows, move tickets, parked tabs; tabs and panes of each renderer | create, adopt, kill, exit, drop, claim, detach, reload, close | IPC in both directions, windows | the two sides act on old news of each other; windows close or reload between any two steps | the tab is in one place; a move costs no shell; no pane waits for ever |
| **Secret vault** `core/broker/` | one keychain blob per project, legacy items, name index, audit, session cache | set, delete, read, migrate | keychain, files, every caller of secrets | read-modify-write across awaits, refused keychain calls, crash in migration | no value lost, none stored where the user cannot see it, audit honest |
| **Audit log** `core/audit/audit.ts` | hash-chained lines in a file | append under a lock, read, verify | vault, command runner | torn last line, overlapping appends | the chain verifies after any crash |
| **Dev-server manager** `main/devserver/` | per project: status, pty, ports | start, register, discover ports, stop, pty exit | agent commands, ptys | start is checked before its awaits | one server per project; stop reaches it |
| **Agent commands** `main/agent-commands.ts` | commands awaiting a renderer | send, reply, time out | MCP tools, windows | a late reply after the time-out | each command answered once |
| **ESLint pool** `main/eslint/` | a worker per project, queue, timers | lint, result, time out, idle, exit, trust | child processes | exit of an old worker after the new one starts | every lint settles; latest text wins |
| **Local apps** `main/localapps/` | apps found by the last scan | poll, stop | registry (notices) | overlapping polls, unstable start times | notices reflect what runs |
| **Atlas** `main/atlas/`, `core/atlas/` | compose slot, database process, registry of concerns | arrive, compose, store, crash, respawn | language-model child, renderers | many triggers, one slot; database dies with requests in flight | one compose at a time; every request settles |
| **Journal, config, session files** `main/overview/journalStore.ts`, `core/project/`, `main/session-store.ts` | files | append, edit, merge | user and agents | read-modify-write, temporary file names | no entry lost |
| **LSP client** `main/lsp/` | a server per project | start, request, exit | child processes | exit races a request | every request settles |
| **MCP server** `main/mcp/` | none of its own | tools | all of the above | none: one handler per request | scope checks |
| **The rest** | see [section 13](#13-not-modelled) | | | | |

`PROJECT.json` lists every component with its files and status, and under
`hazards` the places, by line, where this code can go wrong in a way a test would
hardly reach.

## 2. Modules

| Modules | What they model | Checked | Proved |
|---|---|---|---|
| `AgentRequests`, `MCAgentRequests`, `AgentRequestsProofs` | the registry of what agents ask of the user, all its operations | safety, liveness | every property |
| `TabMove`, `MCTabMove`, `TabMoveProofs` | main and the renderers over ordered channels: tabs, panes, ptys, windows | safety, liveness | every safety property; the liveness property for queues of up to eight messages |
| `Vault`, `MCVault`, `VaultProofs` | the broker, the index queue, the keychain cache | safety | every property |
| `SecretStore`, `SecretStoreProofs` | abstract: a map from names to values; `Vault` implements it in the steps of calls that do not overlap | refinement | refinement |
| `DevServer`, `DevServerProofs` | the manager, the commands it sends, the renderer that carries them out, the shells and the servers in them | safety, liveness | every property |
| `LocalApps`, `MCLocalApps`, `LocalAppsProofs` | overlapping polls of the machine, and the bell they reconcile | safety, liveness | every safety property; the liveness property for up to four polls |
| `EslintPool`, `EslintPoolProofs` | the pool, its workers and the user's grant | safety, liveness | every property |
| `Atlas`, `AtlasProofs` | arrivals, chat turns and the user's changes, over a database process | safety, liveness | every property |

Modules are independent of each other, as the components are, and each holds the
actors that its component meets: `DevServer` is a composition of
`devserver/manager.ts`, `agent-commands.ts` and the renderer's half of a start;
`LocalApps` of the poll and the notices of the registry; `Atlas` of the triggers,
the refresh, the chat, the user and the database's client and host.

How the modules are written: constants with named assumptions, one action per
handler or continuation, invariants as named conjuncts, no `RECURSIVE` operator.
A definition whose comment begins "Broken ..." is a plausible mistake in the code,
used to confirm that a property notices it; it is not part of the model.

## 3. AgentRequests: the agent-request registry

| In the model | In `main/agent-requests.ts` |
|---|---|
| `entries`, `nextId` | `entries` map and `nextId`; ids grow, so order of ids is age |
| an entry's `kind`, `subject`, `root`, `state`, `dismissed`, `target` | `Entry.view` and `Entry.windowId` |
| an entry's `waiters` | `Entry.waiters`, by agent instead of by resolver function |
| `granted`, `acknowledged` | `grantedTerminals`, `acknowledgedApps` |
| `call[c]` | the stack of agent `c`'s tool call: in `await askFirst()`, waiting for a card, or between body and Enter |
| `windows`, `focused` | `appWindowIds`, `BrowserWindow.getFocusedWindow` |
| `active`, `tabs` | `workspaceRoots`, the project each window is on, and `windowRoots`, those it has open; two maps, set by separate calls of the renderer (`SetActive`, `SetTabs`), both empty for a new window |
| `live` | `sessions` of `main/ipc.ts` |
| `RequestSecret`, `SendInput`, `AskFirst`, `Submit` | `requestSecretFromUser`, `gatedTerminalInput`, `requestTerminalGrant` |
| `ResolveSecret`, `ResolveGrant`, `Dismiss`, `ForgetNotice` | the functions of these names, as the IPC handlers reach them |
| `Expire`, `VaultByHand`, `PtyExit`, `Reconcile` | `expire`, `resolveExternallyVaulted`, `pruneRequestsOnPtyExit`, `reconcileLongRunningApps` |
| `CloseWindow` / `Reroute` | the `closed` handler / `rerouteRequestsFromClosedWindow` |

Abstractions. Names, roots, ptys and apps are model values. A promise
continuation that runs in the same macrotask as its resolve belongs to the action
that resolves it. `windowForRoot` looks through the windows on the project and then
through those with it open; which of several it finds first is left open. A payload is a line (body, pause, Enter), keys, or Enter
alone; the escape filter and the bytes are left out. `ResolveSecret(i, TRUE)`
stands for a value that was stored; the storing is `Vault`'s. An app is its identity
(`appIdentity`), start time included, as one poll computed it: that the next poll may
compute another one for the same process is `LocalApps`' subject.

The properties: `NoStrandedAgent` (a waiting agent is held by exactly one pending
card of its kind, a card holds nobody else), `OneCardPerSecret`, `CardsOnScreen`,
`ApprovedBeforeTyping`, and of steps `CapHolds`, `SharedFate`; of behaviours
`EveryCallReturns`. `ApprovedBeforeTyping` is about the user's approval only: the
terminal may have exited meanwhile, and its card stay until it expires.

Fairness (`FairSpec`): weak fairness on `Expire(i)`, since the timer of a pending
card is armed and `setTimeout` fires; on `AskFirst(c)`, since the preferences file
is read; on `Submit(c)`, since the pause ends. None on the user: `EveryCallReturns`
holds although nobody ever looks at a card.

## 4. TabMove: tabs that move with their shells

A tab is dragged from its window and released over another window, or over none,
and its terminals go with it, shells running. Main tickets the ptys, hands the
tab's description to the receiver (pushed to a window that listens, parked for one
that does not exist yet) and only then tells the source to let go. The receiver's
panes spend the tickets to adopt the ptys.

| In the model | In the code |
|---|---|
| `owner` | `sessionWindows` and `sessionTargets` (`main/ipc.ts`), which change together |
| `tickets` | `MovingSessions` (`main/tabdrag/moving.ts`) |
| `parked` | `pendingAdopts` (`main/tabdrag/wire.ts`) |
| `creating` | `pty:create` handlers in their awaits |
| `killed` | ptys sent a signal, `onExit` not yet seen |
| `tab`, `panes` | each renderer's tab list and `TerminalPane` instances (`idRef`, `adoptPtyId`) |
| `toMain`, `toWin` | IPC, `invoke` requests and `webContents.send`/replies |
| `OpenTerminal`, `CloseTerminal`, `CloseTab`, `EndDrag`, `Hear...`, `LetGo` | renderer handlers and effect cleanups |
| `BeginCreate`/`FinishCreate`, `Adopt`, `Kill`, `PtyExit`, `Drop` | `pty:create` before and after its awaits, `pty:adopt`, `pty:kill`, `onExit`, `endTabDrag` |
| `Boot`, `Reload`, `CloseWindow` | mount and `takePendingAdopt`; `did-start-navigation` or `render-process-gone`; `closed` |

Assumptions. IPC is first-in first-out in each direction of a window. One tab
moves; its copies are numbered, so a pane is a terminal and a copy, and a pty is
named by the pane that spawned it. A window does not start its next drag before
the answer to the last one. What is sent to a renderer that has not mounted is
lost; what is on its way to or from a renderer that dies is lost. `movingPtyIds`
is filled and emptied inside `LetGo`, one React commit. A `create` that finishes
for a window that is gone gives a session with no owner.

A rejected attach closes the panes that show its terminal in the window that hears of
it (`HearFailed`, `ShownFor`), whichever pane asked: `removeTerminal` goes by the
terminal's id, which survives a move. So the late rejection of a pane that is gone can
close, and kill the shell of, the one that came back. `MoveSparesShells` allows it, as a
pane of that shell was closed.

The properties: `TabInOnePlace` (one place at most: a tab whose windows all close is
gone, rightly), `PaneKeepsSession`, `MoveSparesShells` and, of behaviours,
`PanesSettle`. Fairness: both event loops run (`Renderer`, `Main`),
a renderer that was created mounts (`Boot`) and the awaits of `pty:create`
resolve (`FinishCreate`). None on the user, on windows or on the shells.

## 5. Vault and SecretStore: the secrets of a project

All values of a project are one JSON blob in one keychain item; the names are in
`.airlock/secrets.json`. The first call that finds no blob migrates the items of
earlier versions. Only the index has a queue; nothing serialises two calls that
each read the blob and write it back.

| In the model | In `core/broker/` |
|---|---|
| `vault`, `legacy` | the keychain items of `vaultAccountFor` and `accountFor` |
| `index`, `queue` | `secrets.json`; `metaQueues` (`meta.ts`) |
| `cache`, `cached`, `hardError` | `cachingKeychain` (`keychain.ts`) |
| `audit` | the last event the audit log holds for each name |
| `call[c]` | the locals of a call and the await it is in |
| `Found`, `Missed` | `readMeta`: an index that cannot be read (`EMFILE`, `EACCES`, `EIO`) is one without names |
| `Begin`, `ReadVault`, `ListItems`, `ReadItem`, `Consolidate`, `CleanItem` | `ensureMigrated` |
| `AskToList`, `ReadIndex`, `Publish`, `WriteVault`, `Audit` | `setSecret` after migration |
| `Drop`, `ReadIndex`, `Publish`, `Audit` | `deleteSecret` after migration |
| `...Denied`, `...Refused`, `PublishFails` | keychain refusals and failed writes |
| `Restart`, `OtherAccounts` | the process dies and starts again; calls about other accounts trip or clear the shared `hardError` |

Assumptions. A native keychain call is one step, at its completion; calls on one
item complete in the order in which they take effect. Callers that share one read
promise get what the first got, which is what a later cache hit gets too. A blob
with no name is an absent item: the code deletes the item rather than write it.
Legacy items are read in any order. Metadata other than the name, a blob
or index that is read and found corrupt (every call throws), and reads that change
nothing are left out.

The abstract specification, `SecretStore`, is what a caller may rely on: a map from
names to values. A set or a delete changes its own name and no other, in one step;
one that reports success has done it; one that fails may or may not have. Old items
are shadows that can only fade, and may surface under a name that has no value. A call
may be *blind*, unable to look up which old items there are; while every value there is
is an old item's, such a call may hide them for good. That is what an unreadable index
costs: migration is skipped, and the vault that the set then writes hides the rest.
`Vault!StoreImplemented` is the refinement: the store is what a caller would find
for each name (the vault's value, or the legacy item's while the vault is empty),
and a client asks what its call is about. It is claimed of every step in which no call
overlaps another (`Undisturbed`), and again once those that did have ended.

The properties: `StoreImplemented`; `NoHiddenValue` (no value is stored under a name
that the index does not show); `IndexKeepsNames` (overlapping calls lose no name,
but to its own delete, or to a call that itself found the index unreadable, which
rewrites it with one name); `CacheTruthful`. `ValuesSurvive` (a value is lost to nobody's
call about another name) is claimed of all calls and is violated (section 12). Only safety is stated: native calls
and file writes are answered or the process dies.

## 6. DevServer: managed dev servers

A project has at most one managed dev server. To start it, main checks that none is
active, reads the config, perhaps guesses a command, and sends `start_dev_server` to
the focused window with a five-second timer; the renderer opens a terminal in the
caller's tab, waits at most five seconds for its pty, registers it with the manager
and answers. From then on an interval looks for the port the terminal's processes
listen on, slows down once it is found, and notices when the shell is alone again.

| In the model | In the code |
|---|---|
| `states`, `rootToPty`, `pollTimers` | the maps of `main/devserver/manager.ts` |
| `intervals` | the `setInterval`s that tick, with the `settled` flag of their closure |
| `call[c]` | `startDevServer` or `setDevServerCommand` in one of its awaits |
| `pending`, `lastCommand` | the pending map of `main/agent-commands.ts`, with its timers |
| `task[k]` | a command in `renderer/lib/useAgentCommands.ts` and `devServer.ts` |
| `term[t]` | a terminal: its tab, its shell, the server that runs in it |
| `tabs`, `window` | the projects with a tab, and whether there is a window |
| `StartDevServer`, `SetDevServerCommand`, `FinishSaving`, `ReadProjectConfig`, `ResolveCommand` | the two entries and their continuations |
| `TakeCommand`, `AttachPty`, `GiveUpWaiting`, `Answer`, `TimeOut` | the renderer's steps and the two time-outs |
| `RegisterDevServer`, `StopDevServer`, `OnPtyExit`, `Tick` | the functions of the manager; `Tick` is one pass of the poll, each of whose probes may fail |
| `ServerListens`, `ServerDies`, `RunAgain`, `PtyExit`, `LoseWindow`, `OpenWindow` | what happens outside main |

Assumptions. A terminal and its pty are one, and each is used once. Time is left
out: a time-out may come at any moment while its timer is armed. The interrupt that
a stop types may be ignored. Two servers never listen on one port.

The properties: `ActiveIsWatched` (an active server is the one in the managed
terminal and is polled; an idle project has neither; no interval outlives its
server), `RunningHasShell`, `StartsInOwnTab`, of steps `PortIsOwn` (a port that is
found is listened on in the project's own managed terminal), and of behaviours
`EveryStartReturns` and `StatusCatchesUp` (a server that crashed does not stay
"running", a port that is listened on is found). Two overlapping starts of one
project are reachable: the second terminal is opened and never recorded, and the
properties say what remains true of the recorded one. A pty that exits before its
registration arrives leaves a project that stays "starting"; `RunningHasShell` is about
"running".

Fairness (`FairSpec`): main's reads resolve, its command timers fire, and each
project's poll ticks, with probes that work, as long as it has an interval. Nothing is assumed of renderers,
windows, users, shells or servers: a call returns because its timer fires.

## 7. LocalApps: notices about long-running apps

Every ten minutes, and after each Stop, a poll lists the processes that have listened
on a port for longer than a threshold, and makes the bell's notices agree with the
list. A poll awaits the preferences, the projects and docker, so polls overlap each
other, a Stop and an Ignore, and the one that scanned first may reconcile last.

| In the model | In `main/localapps/` and `main/agent-requests.ts` |
|---|---|
| `started`, `ended`, `managed` | the machine: processes, and ports that the dev-server manager calls its own |
| `Elapsed`, `StartedAt`, `IsOverThreshold`, `OwnsPort`, `AppOf` | `detect.ts`: whole seconds of `ps`, start as now less elapsed, one owner for each port |
| `polls[s]` | a poll in one of its awaits, with the list it holds |
| `pidForApp` | the pids of the last list, which Stop looks up |
| `notices`, `acknowledged` | `longRunningApp` entries, `acknowledgedApps` |
| `StartPoll`, `ReadPrefs`, `Scan`, `ScanThrows`, `FinishPoll` | `pollLocalApps` between its awaits |
| `StopLocalApp`, `Ignore` | `stopLocalApp`, `dismissAgentRequest` |

Assumptions. A process listens on one port; pids are not reused; containers, whose
age docker keeps, are left out. The clock ticks twice a second, so a start time computed
from whole seconds differs from poll to poll, as it does in the code.

The properties: `OneCardPerPort`, `StopsOnlyLongRunning` (Stop signals one process,
over the threshold, however old the list is that its card came from) and, of
behaviours, `EndedStaysRetired` (a card about a process that ended goes for good).
`IgnoredStaysAway` is violated (section 12).
Fairness: the interval fires and what a poll awaits is answered (weak), and not
every scan throws (strong, on `FinishPoll`).

## 8. EslintPool: linting in a child process

A unit's worker is started by the first lint that the user's grant allows. A file
has one lint under way and at most one waiting, the newest. The worker is dropped,
and everything that waits on it answered, when a request times out, when it exits,
when it idles, when its project closes or its grant is taken back.

| In the model | In `main/eslint/` |
|---|---|
| `worker`, `nextId`, `inflight`, `queued` | `Unit` of `pool.ts` |
| `proc`, `wire` | the children there have been, and the lines written to each that it has not answered |
| `trust` | the grant of `service.ts`; "failed" when the store forgot it but could not be written |
| `lint[c]` | the promise of the c-th lint: pending, or how it was settled, and about which text |
| `RunLint`, `Refuse` | `lint` of the service and the pool, with `ensure` and `send` |
| `Line`, `TimeOut`, `Exit`, `Idle` | `onLine`, the request's timer, `exit`/`error`, the idle timer |
| `Grant`, `Revoke`, `RevokeFails`, `Close` | `setTrust`, `disposeUnit`, `disposeUnder`, `retainOnly`, `disposeAll` |

Assumptions. One unit, with the workers it has had one after another. A lint's number
stands for its text. What a worker has printed may be read at any later time, from a
killed worker too, and a worker may answer its requests in any order or never. The grant is kept by the
unit's real path and the pool by the path it was asked with: with one unit the two are
the same, and a unit reached by two paths is left out.

The properties: `AnswersOwnText` (ids start anew with each worker, and an old one's
lines may still come), `NoStrayProcess` (but after a revoke that could not be stored, which
leaves the worker running), `LatestWins` (the newest lint of a file is
never dropped, an older text's messages never come after a newer one's) and, of
behaviours, `EveryLintSettles`. Fairness: only the request timers fire.

## 9. Atlas: debrief, chat and registry over a database process

Main sends one request per database call to a host process, which carries them out in
the order they came. A call is answered, or refused with an error, or times out while its request stays
with the host, or fails because the host died; the next call starts another host,
which marks the chat turns it finds pending as interrupted.

| In the model | In `main/atlas/` |
|---|---|
| `host`, `queue`, `db` | the utility process and its messages (`dbClient.ts`, `dbHost.ts`), the tables (`store.ts`) |
| `Answered`, `TimeOut`, `Refused`, `RunsLate`, `HostDies` | what can become of a call |
| `Effect` | the store's functions, as far as the properties tell them apart |
| `Throws`, `Remains` | what a request that fails leaves behind: nothing, if the file cannot be opened or a transaction is undone; a brief or the reports, whole or cut short, if reading them back failed or showed less than was written (`verifyWrite.ts`) |
| `composing`, `dayOf` | the slot and the day of `wire.ts` |
| `Trigger`, `Arrive`, `Decide` | `start.ts`, `maybeCompose`, `shouldCompose` |
| `Merge`, `Collected`, `Refreshed`, `seen` | `refreshPortfolio` (`refresh.ts`) and what it read of the registry |
| `ReadReports`, `StandUp`, `SavedReports`, `Composed`, `RunFails`, `SavedBrief` | the rest of an arrival |
| `Send`, `Cancel`, `BeginTurn`, `Begun`, `ModelEnds`, `TurnEnded` | a chat turn (`conversation.ts`) |
| `SetProjectEnabled`, `ForgetProject`, `ListProjects` | the IPC handlers (`ipc.ts`) |

Assumptions. One project is followed. Calls whose answers only go into a prompt,
and the concerns and snapshots, are left out: they fail as their neighbours do. The
models, the collectors and the reporters end or fail, each when its own time is up.

The properties: `RepliesSettle` (a reply that was stored settles its question for
good, although a host started meanwhile took it for interrupted), of steps `SpentOnce`
(a day's reports and its brief are paid for once, whatever times out and is carried
out later; results that were paid for and whose save failed are made again, which it
allows) and of behaviours `SlotIsFreed`. `ChoiceStands` is violated (section 12).
Fairness: for each arrival, its timers fire, the preferences are read and the
programs it runs end. The host need not answer, nor live.

## 10. Runs

| Run | Question | Instance | Distinct states |
|---|---|---|---|
| `requests` | are cards ever lost, doubled, answered twice; does the cap hold; does every call return? | 2 agents, 1 project, 1 secret, 1 pty, 1 app, 2 windows, 2 cards, cap 1 | 194 k |
| `devserver` | is the active server the polled one, is a port its own, does every start return, does the status catch up? | 2 projects, 2 terminals, 1 port, 1 caller, 2 commands | 255 k |
| `local_apps` | do overlapping polls double a card, stop a young process, or keep a card about nothing? | 2 processes on one port, 2 ticks a second, clock to 3, 2 polls | 261 k |
| `eslint` | is a lint answered with its own messages, newest last, and always; is no worker left running? | 2 files, 3 lints, 3 workers | 184 k |
| `atlas` | is a day paid for once, the slot freed, a stored reply final? | 2 arrivals, 1 call of the user, 2 days | 486 k |
| `tab_move` | is the tab in one place and every shell spared, there and back? | 2 windows, 1 terminal, 2 moves | 610 k |
| `tab_move_live` | does every pane get its shell or go? | 2 windows, 1 terminal, 1 move | 35 k |
| `vault` | is the vault one map while calls do not overlap, is nothing hidden, and is no name lost when they do? | 2 callers, 2 names, 1 value, both may have legacy items | 2.2 M |
| `atlas_choice`, `local_apps_ignored`, `tab_move_shells`, `vault_lost` | a promise of the code's own comments that it does not keep (section 12) | the smallest instance that shows it | |

Why these bounds are enough to be interesting:

- *Registry.* Two agents are what sharing a card, racing for one, and typing into
  one terminal take. A cap of 1 below 2 cards makes every second registration evict
  or spare. Two windows give a card a place to move to and a place to be lost in; ids
  (`MaxId`) and windows (`MaxWindow`) are the only counters. `VIEW WithoutIdle`
  forgets what steers nothing: the result of a call that has returned, what was typed
  before the Enter, whether a card is in the stack or in the bell, and whether nothing
  has the focus or the first window.
- *Dev servers.* Two projects tell one's port from the other's; two terminals let an
  old one outlive its server while a new one starts; two commands let one that timed
  out be carried out while its successor waits. One caller at a time already overlaps
  with its own timed-out commands, with the user's stops and with everything outside.
- *Local apps.* Two processes of one port are a supervisor and its worker, or a server
  and its successor; two polls can end in either order; three ticks of half a second make
  a process older between scan and reconciliation and its start time uneven. The threshold is 0: a process is reported from its
  first tick on.
- *ESLint.* Three lints are one under way, one waiting and one that takes its place;
  three workers let the lines of two dropped ones be read after a third has started.
- *Atlas.* Two arrivals race for the slot; two days let the second come while the first
  one's requests are late; one call of the user overlaps with both refreshes.
- *Tabs.* Two moves let a tab return before its first move has settled, and two
  windows let both ends close or reload in between. Creates, closes, exits and
  reloads are unbounded in number but for the panes, one for each copy of the
  terminal. `VIEW WithoutSpentPanes` forgets the window and pty of a pane that has
  unmounted and has no request under way.
- *Vault.* A second name is what a blob can lose, and a second caller what can come
  between a read and a write; either may call again and again. One value tells one that
  is there from one that is lost; that none is exchanged for another is proved
  (`StoreSafe`). No counter is bounded: the state space is finite. Names and clients are
  interchangeable (`SYMMETRY`), and these runs check no liveness. `VIEW WithoutAudit`
  forgets what the audit log says, which no step reads.

Deadlock is not checked in `tab_move` (the user may close every window) and `atlas`
(arrivals and calls are used up, and the last day never ends).

## 11. Proofs

TLAPS checks the theorems for every value of the constants, under the modules'
named assumptions: bounds are naturals, `None` is none of the values it stands
beside, sorts are disjoint.

Liveness has the form `FairSpec /\ []H => P`. `H` says that a step that fairness names can be
taken wherever the argument needs it: a request's timer can fire while its answer is
awaited (`TimersArmed`), the head of a queue can be handled (`LoopsRun`), a poll can go on
(`PollsGoOn`), and so on (`LoopRuns`, `MainRuns`, `ArrivalsGoOn`). Each is `ENABLED` of an
action whose guard it repeats. It holds in every reachable state, as one reads off the guards and
TLC confirms on the instances of section 10, and is a hypothesis only because tlapm has no rule
for `ENABLED`. The fairness is that of section 10's liveness runs. Each proof shows that a
step either keeps what is awaited at its stage or moves it to a later one, that the
fair step moves it, and chains the stages. A chain is as long as the number of stages;
tlapm has no temporal induction, so where that number is a parameter the theorem has a
bound (`EndedRetired`, `PanesSettled`).

**`AgentRequestsProofs`.** One theorem for each property of the registry:

| Theorem | Property | Inductive invariant, and why it is needed |
|---|---|---|
| `TypeCorrect` | `TypeOK` | itself |
| `AgentsNeverStranded` | `NoStrandedAgent` | `Holding`, entry by entry: `HeldRight`, a card holds only agents that wait on that very thing, and only while it is pending; `HeldOnce`, no agent is in two cards; `NobodyLost`, a waiting agent is in some card |
| `RequestsAlwaysOnScreen` | `CardsOnScreen` | itself, over `TypeOK` |
| `SecretAskedOnce` | `OneCardPerSecret` | itself, over `TypeOK` |
| `NoTypingUnapproved` | `ApprovedBeforeTyping` | `Permitted`: it, and `NotYetAsked`, a call still reading the preference has not asked; rests on `Holding`, which says whom an approval reaches |
| `FateShared` | `SharedFate` | a step property, from `Holding` |
| `CallsReturn` | `EveryCallReturns` | under fairness; `NoStrandedAgent`, and `Numbered`: every card has an id within the bound, so its timer is one the fairness names |
| `CapEnforced` | `CapHolds` | a step property, from `TypeOK` and a fact about `EnforceCap`: the oldest unawaited card it spares had, by its own rule, at least as many unawaited cards before it as there were too many, and those went |

The lemmas say what `EnforceCap`, `Settle` and `Register` keep; the key one is
that an entry someone awaits is never in `Evicted`.

**`VaultProofs`.** `TypeCorrect`, `CacheSafe` and `IndexSafe` for any number of
overlapping callers. `IndexSafe` rests on `InOrder`: the queue holds exactly the
calls in line, each once, and a call that has read the index is the first in it
and its base is the index, unless it could not read it. So the baseline of a
read-modify-write is never stale.

The rest is about steps of calls that do not overlap (`Undisturbed`). Its invariant,
`Knows(c)` of every client, says what the caller's map says of the vault and the legacy
items at each stage; a step of a client finds every other one idle (`OthersIdle`), of
which `Knows` says nothing, and it holds anew when calls that overlapped have ended
(`AllEnded`). `KnowsAndKeeps` is what such steps cost: nothing, through migration,
refusals, failed writes and restarts, or old items while every value there is is one and
the call could not read the index. From it, `VaultKept`: once the vault holds something
nothing is lost, readable or not. `ValuesSafe`: nothing at all is lost (`ValuesSurvive`)
if no calls ever overlap and the index can always be read (`Readable`). Neither
hypothesis can be dropped: `vault_lost` shows two overlapping calls losing a value, and a
single set that cannot read the index skips migration and hides the old items behind
the vault it writes.
`NothingHidden` proves `NoHiddenValue`, from `Knows` and `Listed`: a call that is about to
write has its name in the index. It speaks of steps that do not overlap because a delete that runs
between the listing and the write of a set leaves a value no name shows.

**`SecretStoreProofs`.** `StoreSafe`: `Spec => StoreImplemented`, for any number of clients.
Each step of a call is shown to leave what callers would find alone (`Internal`), to
end the call (`Finishes`) or to change its own name only (`Changes`), and each of these
is a step of `SecretStore` or a stutter. It needs `Knows(c)`, `CacheTruthful` and one
fact more, `Told(c)`: a delete that will report itself clean has left no value.

**`DevServerProofs`.** `TypeCorrect`, `WatchSafe`, `ShellSafe`, `OwnTabSafe`, `PortSafe`. The three
invariants are inductive together once it is known that what is under way names its
project and its terminal (`UnderWay`) and that a project's interval and managed
terminal are its own (`Owned`): without `Owned` a stop could clear another project's
interval. Type correctness is not a theorem of the types alone: a registration
types the manager's state only because its task names a terminal. `PortSafe` is read off
one step: a port comes only with a tick (`PortFound`), and the invariant says whose
terminal that tick looks at.

`StartsReturn` (`EveryStartReturns`) follows a start from its files to its command, which
`Timely` says is pending and so has a timer. `StatusFollows` (`StatusCatchesUp`) needs
`Timely` too: a project that starts shows no port yet and a server runs in a living shell, so
that a tick has news (`HasNews`) exactly while the status is behind.

**`LocalAppsProofs`.** `TypeCorrect`, `CardsSafe`, `StopsSafe`. The invariant speaks of
every list, those that polls still hold included (`ReportsHold`): one app per port,
each of a process over the threshold. It survives however late a list is used,
because a process only grows older. `NoticesAreListed` ties the bell to the pids that
Stop looks up: both are replaced by one step.

`EndedRetired` (`EndedStaysRetired`): a poll that started after a process ended cannot see it,
and one that saw it alive holds it only while it asks docker (`HeldAtDocker`). Once each poll
has let go (`PollLetsGo`), the next poll to end takes the card off for good (`PollClears`). That
*all* polls have let go for good from some moment on takes one step for each poll, so the theorem is for
`MaxPolls` up to four; the two lemmas are for any number.

**`EslintPoolProofs`.** `TypeCorrect`, `AnswersSafe`, `ProcessesSafe`, `LatestSafe`. The
invariant is the pool's bookkeeping: `Alive` (only the registered worker's process is
up), `Numbered` (an id of the registered worker stands for one lint or none, so a
line it prints is about the lint that is looked up), `Tracked` (one lint of a file under
way, a newer one behind it, no other waits). That ids never run out is counted:
`nextId` is at most the number of lints handed to workers. `LintsSettle`
(`EveryLintSettles`): a lint under way has its timer, and one that waits is behind a lint of its
file under way (`Tracked`), whose end starts it.

**`AtlasProofs`.** `TypeCorrect`, `RepliesSafe`, `SpentSafe`. `Ordered` says how the host's
queue stands to the processes: each awaits one request at most, and no late request of
an arrival stands behind the one an arrival awaits, since the queue is first-in
first-out and late requests were sent before. So whatever a decided arrival reads has
seen every late write (`BriefDue`): that is why a day is not paid for twice although
calls time out and are carried out later. A brief that was refused may be stored all the same (`Remains`); the arrival that sent
it is then the one that is under way, and has nothing left to decide. `OneActive` is
the slot, `TurnsOver` leaves no
request about a turn that was answered.

`SlotFreed` (`SlotIsFreed`): while the slot is taken, an arrival is at one of the nine
stations of its course (`Claimed`), and from each it goes on to a later one or frees the
slot, if only by its call timing out. The host's answers are nowhere assumed.

**`TabMoveProofs`.** `TypeCorrect`, `PlaceSafe`, `SessionSafe`, `ShellsSafe`.
The invariant looks through the channels:
`OnePlace` says that at most one window `Holds` the tab (keeps it with no word to let go
on its way, or has ended a drag main has not heard of) or `Gets` it (parked for it, or
on its way), and never both. It needs the order of the channels (`Tidy`: a tab that
arrives is the last word about the tab, a drag is ended once, a renderer that does not
listen has nothing under way) and, for the types, that what is under way for a pane is
between main and the pane's own window (`Addressed`) and that the copy on its way
is in no use yet (`Fresh`). A step either says nothing about the tab (`Quiet`), or moves
it (`Leaves`, `Arrives`), or loses it (`Shrinks`).

`SessionSafe` needs `Sessions` on top of it. `Kept` is the property with the answers that
are still on their way counted in: a pane that is up, or will be by the next answer, has
its session unless its window is about to let go. An adoption re-points a session, and
leaves no other pane with it because of `Adopters`: while a window asks to adopt, no other
window holds the tab or gets it (a renderer asks to adopt before it can end the next
drag, `MainOrdered`), and a mounted pane is in a window that shows the tab (`InTab`). A
shell that starts is in no other pane because of `Born` and `OneSpawn`: until its pane is
told of it, a pty is in no pane and no load and has no ticket, and no pane is told of two.
Most steps are calm: `Plain` says they invent no pty, `Still` that they bring no pane
nearer to a session.

`ShellsSafe` is about steps, and is read off one step from the invariant `Spared`
(`KillsSpare`). `Blamed` says what a kill under way can be of: a pty that is born and that
a pane of the asking window closed on, or one that no pane knows and no ticket names.
`Unshown` says that no pane of that window shows the pty, or will by its next answer, and
`Timely`, which looks into the order of the channel, that no kill stands behind an
adoption of the same pty by a pane that still waits: else an adoption answered in between
would show a shell that is about to be killed. Both rest on `Sole` and `LoadsDistinct`: panes mounted in one
window show different ptys, and so do the terminals of a tab that is moving, so that
closing one pane condemns no other pane's shell. Most steps are `SparedCalm`: they send
no kill and bring no pane nearer to a session.

`PanesAreAwaited` is the invariant behind `PanesSettle`: a pane that waits has a request
to main (`Asked`), a shell that main is starting (`Made`) or an answer (`Answered`) under way,
between main and its own window (`Awaited`). It holds because both loops take only the head of a
queue and everybody else appends (`WaitsOn`: a pane's message stays where it is,
moves up one place, or is the one that was handled), and a reload or close that empties a window's queues
takes its panes with them. `PanesSettled` (`PanesSettle`) follows the message: from any place in
main's queue it moves up one place (`MovesUp`, for every place), from the first it is handled
(`HeadIsHandled`), and the same in the window's queue. Putting the places together is an
induction that tlapm lacks, so the theorem supposes queues of at most eight messages (`Short`);
on the instance of `tab_move_live` TLC finds none longer than four.

Only model-checked: `EndedStaysRetired` for more than four polls that overlap and
`PanesSettle` for longer queues would need temporal induction; `ENABLED` as said above.

## 12. What the models found

Each is a run that TLC ends with a counterexample, listed in `PROJECT.json` under
`findings` with the line of the code and the promise it breaks.

| Run | Behaviour |
|---|---|
| `atlas_choice` | a refresh reads the registry, minutes of collecting pass, and it replaces the table: what the user switched or forgot meanwhile is undone |
| `local_apps_ignored` | the user ignores a notice; half a second of phase later the next poll computes another start time for the same process, which makes it another app, and the notice is back |
| `tab_move_shells` | a window closes while `pty:create` awaits: the shell starts with no pane |
| `vault_lost` | two `setSecret` calls overlap: the second to write drops the first one's value |

The models also reach behaviours that no property claims to exclude, because nothing in
the code is meant to; the hazards of `PROJECT.json` name them:

- two sends to one terminal: the second body lands between the first one's body and
  its Enter (`AgentRequests`, two calls in phase `typing`);
- the pty exits while the preference is being read: its approval card opens afterwards
  and cannot be honoured (`AgentRequests`);
- the receiving window closes before it claims a tab: its tickets stay, and its shells
  are exempt from every later reaping (`TabMove`);
- a legacy item that migration could not delete outlives a delete recorded as clean
  (`Vault`);
- the index cannot be read for a moment: a set skips migration and hides the old items
  behind the vault it writes, or a rewrite of the index keeps one name (`Vault`, `Found`);
- two calls migrate at once: one reads items that the other has deleted, and writes a
  blob without them (`Vault`, with legacy items);
- a rejected attach of a pane that is gone closes the one that came back (`TabMove`);
- a pty exits before its registration arrives: its project stays "starting" (`DevServer`);
- a revoke that cannot be stored leaves the worker running (`EslintPool`);
- `beginTurn` times out and is carried out later: the question stays pending with
  nobody at work on it (`Atlas`).

## 13. Not modelled

- *Audit log.* Appends are serialised by a lock and the chain is text and hashes;
  `Vault` models what the log last says of each name.
- *Journal, project config, session store.* Read-modify-write of one file. The config's
  chained writes are those of the secret index, which `Vault` models; the journal has no
  queue at all, so there is nothing that could hold (see its hazard).
- *Atlas concerns, presentation, briefs and ledgers.* Pure functions over collected
  data; `Atlas` has what a refresh reads, merges and writes back.
- *LSP client, command runner.* One process per project or command; the JSON-RPC library
  settles requests.
- *Account-level and session secrets.* Single writes.
- *Secret scan, git, redaction, integrations, databases, hosts, GitHub, Slack, OAuth.*
  Pure functions or remote I/O.
- *MCP server.* Stateless; its handlers are the components above.
- *Files and editor, quota and status watchers, menus, updates, preferences, React views.*
  Display and application shell, except for the tab and terminal state that `TabMove`
  and `DevServer` take from the renderer.

The models cover the code whose correctness depends on order, overlap and failure. That
is a small part of the lines: most of the program draws, parses, formats or talks
to remote services.
