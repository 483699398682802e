# Verification of ScumNeDjin

ScumNeDjin adds a web panel, shops and admin commands to a SCUM dedicated
server.  This directory holds TLA+ models of the parts of it where orders,
processes and files interact, the TLC runs that check them and proofs checked
by TLAPS.  The core is the part where mistakes cost players money, **the delivery
of paid GameStores orders**; below it are **the file bridge** that carries every
command into the game and **the queues of the Lua script** in which commands of
players and changes of the world wait for the game thread; above it is **the web
panel**, a page that keeps copies of what other programs change.

## 1. The system

Three runtimes work on the same server directory and talk through files:

| runtime | code | keeps |
|---|---|---|
| panel, a .NET service | `src/ScumWarden.Server/` | configuration, web API, workers that poll the shops |
| native DLL in the game process | `src/native/src/` | its own web API, the same shop workers again, the managed module host |
| Lua bridge inside the game | `src/ue4ss/Mods/ScumNeDjinBridge/scripts/main.lua` | everything that touches the world of the game |

Panel and native DLL share the directory `state/` (rows, logs, journal, lease);
both reach the Lua bridge through one command file and one result file.  None
of the three trusts that the others are alive.

### Components

| component | state | operations | talks to |
|---|---|---|---|
| GameStores delivery journal (`GameStoresDeliveryJournal.cs`, `http_server.cpp` 5700-6600) | up to four marker files per order, `operation.lock` | inspect, reserve, mark dispatching / delivered / uncertain, list delivered, take the lease | used by the two services below |
| GameStores delivery service, panel (`GameStoresDeliveryService.cs`, `GameStoresShopService.cs`) | pending, delivered, confirmed, attempts | sync, deliver, confirm, process, claim | shop API, command router, journal |
| GameStores module, native (`http_server.cpp`) | the same files | the same, with other failure handling | shop API, RCON, bridge, hosting panel, SCUM.db |
| GameStores request worker and signals (`GameStoresRequestWorker.cs`, `http_server.cpp` 12519-12547) | signal files, poll time | poll, process a signal, answer a claim | Lua chat commands write the signals |
| Module configuration and state files (`PluginConfigStore.cs`, `path_utils.cpp`) | `configs/*.json`, `state/*.json`, live overlays | read, write, append, cap | all services |
| File bridge (`FileBridgeExecutor.cs`, `bridge_client.cpp`, command poll in `main.lua`) | `command.json`, `result.json`, heartbeat | send, wait, time out and delete, answer | panel and native to Lua |
| Command router, local RCON (`CommandRouter.cs`, `LocalRconService.cs`) | RCON session | choose a transport, send | services to the bridge or to RCON |
| Lua mutation queue (`main.lua` 19957-20204) | queue of at most 120 mutations, one active, nesting depth | enqueue, drain, run, finish, time out | command poll and player commands to the engine |
| Lua player commands (`main.lua` 30088-30564) | queue of at most 160 commands, one active | enqueue, drain, run, finish, time out | chat hooks to the mutation queue |
| Lua gameplay (`main.lua`: rentals, battlepass, rewards, schedules) | per feature state files | per feature | engine |
| Wargm shop delivery (`WargmDeliveryService.cs`, `http_server.cpp` 9578-9682) | pending, delivered, no journal | sync, deliver, confirm | shop API, command router |
| Native HTTP server | client slots | parse, route, answer | everything native |
| Managed module host and loader | queue of managed commands | load, invoke | modules |
| Logs, events, Discord | read positions, sent messages | tail, parse, post | log files, Discord |
| Web panel (`wwwroot/app.js`, the same file in both web servers) | `state`: lists, drafts, open dialogs, what it last read of each | read again, edit, save after a check, act on a player, show | HTTP API of the panel or of the native DLL; other administrators' panels write the same data |
| Database readers, server configuration, catalogues, simulator, hosting panel client | none that others write | read, edit text | files, HTTP |

### What is hard in it

- *Two owners of the same files.*  Panel and native DLL rewrite the whole pending
  file from what they read when they began.  A lock file held open, the lease,
  is all that keeps them apart, and the native worker takes it three times for
  one poll.
- *A grant is not idempotent*, and its answer can be lost, late, wrong (a
  failure although the grant took effect) or early (success when it is only queued).
- *Any process may stop anywhere*: the game server restarts daily, and takes
  the native DLL with it.
- *Partial failure*: five files and one API have to agree about an order, and each
  write can fail alone.
- *Stale snapshots*: attempts, settled orders and online players are read once
  and used during a pass that takes minutes.
- *One slot, several writers*: panel and native DLL overwrite, read and delete one
  command file and one result file without a lock between them.
- *Functions that end twice or never*: a mutation gives its turn up in a callback,
  by itself, or is cancelled while it goes on; it may enqueue others meanwhile.
- *Several versions of the service* wrote these files; older ones had no journal.
- *A page over a server it shares*: the panel sends requests from buttons and timers,
  which overlap, fail and are answered in any order, while its user goes on
  clicking; what an answer finds is not what its request left.
- *One rule, three readers*: command words and shop rules are edited in the panel, checked
  by one server and not by the other, and applied by C#, C++ and Lua code that
  has been written three times.

### What makes each component correct

- Delivery (journal and both services): an order is granted at most once; what
  is called delivered was granted in full; the shop is told only of delivered
  orders; an order with unknown outcome keeps its row and is never lost; every
  open order of a player who stays online is attempted; every delivered order is
  confirmed in the end.
- File bridge: a success is told only of what happened, and to its own caller; no
  command runs twice; what was refused or not written never runs; every call ends.
- Queues of the script: one mutation and one command at a time; a late end does not
  free another's slot; what was taken off does not start (it may: section 5); the
  limits per player hold; everything queued gets its turn.
- Signals and worker: a player's claim is answered once, and not lost when both
  runtimes see the signal.
- State files: a reader sees the old or the new content, never half of it.
- Wargm: the same as for GameStores, as far as it can be kept without a journal.
- Web panel: a save replaces nothing its author has not seen; an action reaches the
  player whom the dialog names and the row that was clicked; what was cleared,
  given or removed does not come back with an old answer; every text ends up in the
  chosen language; what the panel shows of a word or a rule is what the game does.

## 2. Modules

| module | what it is | code |
|---|---|---|
| `DeliveryJournal` | marker files: writes that never replace, reads that may miss or be damaged | `GameStoresDeliveryJournal.cs`, its twin in `http_server.cpp` |
| `GameStoresDelivery` | both runtimes with lease, files, shop, game, crashes; extends the journal | `GameStoresDeliveryService.cs`, the GameStores part of `http_server.cpp` |
| `OneGrantPerOrder` | abstract promise: waiting, attempted, delivered, told | what the code's comments promise |
| `GameStoresGrants` | refinement mapping from `GameStoresDelivery` to `OneGrantPerOrder` | |
| `GameStoresInvariant` | the inductive invariants `FilesInv` and `GrantInv` in named parts, and both as `DeliveryInv` | |
| `MCGameStoresDelivery` | constants of the TLC runs | |
| `GameStoresFilesProofs` | proofs: type correctness, rows, panel and native files | |
| `GameStoresGrantProofs` | proofs: grants, write-ahead rule, refinement | |
| `FileBridge` | both client processes, the two files, the poll loop | `FileBridgeExecutor.cs`, `bridge_client.cpp`, `path_utils.cpp`, command poll in `main.lua` |
| `OneShotCalls` | abstract promise: a call is sent or refused, its command runs at most once, a success is true | |
| `BridgeCalls` | refinement mapping from `FileBridge` to `OneShotCalls` | |
| `MCFileBridge` | constants of the TLC runs | |
| `FileBridgeProofs` | proofs: types, invariant, refinement | |
| `MutationQueue` | slot, queue, nesting, callbacks and cancellation of mutations | `main.lua` 19957-20204, 32821-32823 |
| `PlayerCommandQueue` | the commands of players; extends `MutationQueue` | `main.lua` 30088-30094, 30370-30564, 32825-32827 |
| `MCPlayerCommandQueue` | constants of the TLC runs | |
| `PlayerCommandQueueProofs` | proofs: types, slots, nesting, limits, cancellation | |
| `PanelTranslation` | the scan that translates the page, its observer, flags and frames | `queuePanelTranslations` and around, `app.js` 523-690 |
| `ServerConfigEditor` | list, text area, loads and checked saves of server files | `app.js` 2273-2421 |
| `PlayerDialog` | list of players, open dialog, target of its actions, inventory | `app.js` 2441-2661, 9932-10340 |
| `WelcomePack` | who has the welcome pack: reads of the server against what was just given | `app.js` 4400-4571, 11297-11313 |
| `ModuleConfigs` | configurations of all modules, the draft, the verified save | `app.js` 4111-4383, 8777-8870 |
| `ModuleDraft` | the rows of a draft, known by index to the editor and to the buttons | `app.js` 5058-5131, 6301-6341, 8842-8870, 11583-11875 |
| `ChatLines` | the editor of the chat answers at its limit | `app.js` 7781-8057 |
| `KillFeed` | one kill from several rows of two logs; statistics | `app.js` 3339-3745 |
| `PanelLogs` | copies of three logs, shared reads, clearing | `app.js` 3029-3064, 3253-3297, 10627-10695 |
| `CutAnswer` | the rows saved of an answer that was cut | `app.js` 705-779 |
| `CommandAliases` | words of the commands in the panel, its server and the Lua bridge | `app.js` 8793-8840, `PluginConfigStore.cs` 914-1030, `http_server.cpp` 11215-11243, `main.lua` 25918-26146 |
| `ShopRules` | rules of a shop in the panel and in both runtimes | `app.js` 5133-5697, 8705-8745, `GameStoresDeliveryService.cs` 517-750, its twins |
| `PanelCommon` | what the parts share: players, the value of what is missing, whether the user waits | |
| `MCWebPanel` | the twelve parts in one run | |
| `MCEventLoops` | the queues and the translation of the page in one run, for liveness | |
| `WebPanelProofs` | proofs: translation, welcome pack, command words, logs, shop rules; all the parts together, with the proofs of the next modules | |
| `PanelEditorsProofs` | proofs: dialog, server files, module configurations, draft rows, chat answers | |
| `PanelAnswersProofs` | proofs: kill feed, cut answers | |
| `PanelLemmas` | what those need: induction on numbers, existence of recursive functions, sequences | |

### State and actions of `GameStoresDelivery`

| variable | code |
|---|---|
| `markers` | files `<key>.<state>.json` of the journal directory |
| `pending`, `deliveredLog`, `confirmedLog` | `gamestores-pending`, `-delivered`, `-confirmed`, as sets of orders |
| `attemptLog` | `gamestores-attempts` as `AttemptIndex` sums it up: dispatched, exhausted |
| `timers` | `DeliverAfterUtc` and the retry delay of an old attempt, not yet over |
| `lease` | the holder of `operation.lock` |
| `run[h]` | the operation in progress in runtime `h`: its place and local variables |
| `shop` | the status of the order at the API |
| `online`, `inflight`, `applied`, `answer` | the game: players, commands sent and not yet run, grants made, last result |
| `stops` | counts early stops, for the bound |

`run[h].at` is the program counter: `stage` (between the stages of an operation),
`fetch` (in sync), `rows` (between rows of the deliver pass), `reserved`, `marked`,
`sending`, `waiting`, `acked`, `nacked`, `logging` (the steps of one grant, which
are the points where a crash leaves different files), `confirm` and `confirmed`.

| actions | code (panel; the native twin is named in the map) |
|---|---|
| `Start`, `Stop`, `Release` | `SerializeOperationAsync`, the lease, exceptions, crashes |
| `SyncBegin`, `Fetch`, `SyncEnd` | `SyncPendingCoreAsync` |
| `Listings`, `Present` | what `GetOnlinePlayersAsync` of the panel, whose `list_players` may fail, and the native reader of SCUM.log take for the players online; chosen by `SyncBegin` and `DeliverBegin` |
| `DeliverBegin`, `DropRow`, `KeepRow`, `BlockLegacy`, `Reserve`, ..., `DeliverEnd` | `DeliverPendingCoreAsync`, one action per outcome of a row |
| `MarkDispatching`, `LogAttempt`, `SendCall`, `CallOk`, ..., `WriteUncertain` | the grant of one row, up to its outcome |
| `ConfirmBegin`, `Confirm`, `LogConfirmed`, `ConfirmEnd` | `ConfirmDeliveredCoreAsync` |
| `GameQueues`, `GameRuns`, `GameRejects`, `Buy`, `ComeOrGo`, `TimerEnds` | the environment |

Where the runtimes differ, the action says so with `h \in Panel` or `h \in Native`:
ignored write failures, the limits on a claim, offline players, several
transports (`Routes`), one command for all skills (`Units`), the database look-up
after money and fame (`Verified`).

### State and actions of `FileBridge`

| variable | code |
|---|---|
| `command`, `result` | `command.json` and `result.json`, each one slot |
| `at[r]`, `got[r]` | program counter of the call `r` and the result text it has read |
| `poll` | the poll loop: `COMMAND_POLL_BUSY` and the command it has read |
| `queued[r]`, `ran[r]` | mutations of `r` that wait, and how often its command took effect |
| `fresh` | the heartbeat file is younger than 15 s |

| actions | code |
|---|---|
| `PanelCheck`, `PanelLock` | `ExecuteAsync`: status, then wait for the semaphore |
| `NativeLock` | `BridgeExecute`: `try_lock`, then the heartbeat |
| `Clear`, `Write`, `CloseFile` | old files deleted, command written (rename in the panel, in place or `.live` in the native runtime) |
| `Find`, `Read`, `Take`, `Timeout` | the loop that waits for a result with the id of the request |
| `PollRead`, `PollRemove`, `RouteOnly`, `RouteSync`, `RouteQueued`, `Mutate` | the poll loop `command-poll`, `routeReadOnlyCommand`, `route` and the mutations they enqueue |
| `Heartbeat`, `PanelStops`, `GameStops` | time, and the ends of the two processes |

A command is of one of four kinds: `direct` (reads only), `sync` (runs in one go),
`queued` (answers when its mutation has run), `early` (answers when it is queued).

### State and actions of `MutationQueue` and `PlayerCommandQueue`

| variable | code |
|---|---|
| `queue`, `current`, `depth` | `MUTATION_QUEUE`, `MUTATION_QUEUE_CURRENT` (and `_BUSY`, which is set with it), `MUTATION_QUEUE_REENTRANT_DEPTH` |
| `due` | the time `MUTATION_QUEUE_NEXT_AT` has come |
| `at[m]` | where the item is: queue, game thread, being executed, waiting for a callback |
| `cancelled`, `ended` | `item.cancelled`; the items that gave the slot back themselves |
| `frames` | the Lua functions being executed, innermost first |
| `typed`, `serving`, `cat[c]`, `takenOff` | the same for `PLAYER_COMMAND_QUEUE` |

| actions | code |
|---|---|
| `EnqueueInline`, `Enqueue` | `enqueueMutation` inside a running mutation, and otherwise |
| `Pump`, `PumpTimeout`, `Drain` | `drainMutationQueue`, from the loop and from the ends below |
| `RunItem`, `ReturnInline`, `ReturnStale`, `ReturnPending`, `ReturnDone` | `runItem`: start, and the four ways in which the function of an item comes back |
| `Finish` | `finishMutationQueueAsync` |
| `Type`, `ServePump`, `ServeTimeout`, `ServeItem`, `Served` | `enqueuePlayerCommand`, `drainPlayerCommandQueue`, its `runItem` and `finish` |

### State and actions of the web panel

Each part has the state that one page or helper of `app.js` keeps, the server's
data it copies, and the requests under way.  A request is a record with a stage
(`sent`, `served`, answered when it disappears): the server reads or writes at
`Serve...`, the panel goes on at `...Answered` or `...Failed`, and everything that the
user or another writer does may come in between.

| part | variables | actions |
|---|---|---|
| `PanelTranslation` | text on the page, remembered original, `queued`, `forced`, `observing`, `changed` (records of the observer) | `RenderNode`, `SetAttr`, `ShowResult` (any code that writes a text), `Observe`, `Frame`, `SetPanelLanguage` |
| `ServerConfigEditor` | files, list, chosen file, loading flag and version, text area, loads, saves | `Select`, `OpenPage`, `EditText`, `SaveServerConfig` and its check, write and answers, `OtherWrites` |
| `PlayerDialog` | list, selected player, target field, dialog, inventory by key, requests, what is shown | `RefreshPlayers`, `OpenDialog`, `CloseDialog`, `ReloadInventory`, `ReloadSoon` (the timer, for the player it was set for), answers |
| `WelcomePack` | records of the server, `welcomeTimers`, `welcomeOptimisticTimers`, reads | `Refresh`, `Claim`, `Reset`, answers and refusals |
| `ModuleConfigs` | server's configurations, `modules`, `moduleConfigBaselines`, selected draft, open editor, reads, saves | `EnsureModulesLoaded`, `RefreshModules`, `Hydrate`, `SelectModule`, `EditDraft`, `OpenSetting`, `CloseSetting`, `SaveSelectedModule` and its check (`ConfigCheckPassed`, with `FlushEditor`) and write, `ServerChanges` |
| `ModuleDraft` | rows on the server, loaded, in the draft; the open editor; a save; a reload | `OpenEditor`, `Add`, `TakeOut`, `CloseEditor`, `LeaveAndReturn`, `Run`, `SaveModule`, `SaveEditor`, `ReloadDraft`, answers |
| `ChatLines` | lines, limit | `AppendChatLines`, `Retype`, `RemoveLine`, `MoveLine`, `SetLimit`, `SaveLines` |
| `KillFeed` | kills that happened, rows in the logs, clock difference | `Happen`, `LogKill`; feed and statistics are operators: `NormalizeKillEvents` is the loops of `normalizeKillEvents`, one operator each |
| `PanelLogs` | logs of the server, the panel's copies, shared reads, the clear under way | `LogRow`, `RefreshLog` (also the reads of `loadPlayerStats`), `ChooseChannel`, `Clear`, `ServeRead`, `ServeClear`, answers |
| `CutAnswer` | the answer as far as it has arrived | the writer's tokens; `Salvaged` is the panel's search, and `After`, `Ends` are one turn of its inner loop over a `ScanState` |
| `CommandAliases` | the words; who has kept or loaded them | `Edit`, `EditFile`, `SaveByPanelServer`, `SaveByNativeServer`, `TurnOff`, `GameStarts` |
| `ShopRules` | a rule, in the draft or kept; the order served last | `AddRule`, `EditId`, `SetMode`, `EditCommand`, `Save`, `Order` by either runtime |

### Abstractions

Of the delivery:

- An order is its canonical key, its journal directory entry and its basket in
  one: there is one shop and one server id, and rows with empty ids are filtered
  out as the code does.
- Rows are visited in any order; the code's order is one of them.
- State files change all at once and are read without error.  The panel writes
  through a temporary file; the native runtime does not always, so this is an
  assumption there, to be lifted by the planned `StateFiles`.
- The repair of the delivered log from the journal (`Reconciled`) is one step.
- The last 500 confirmations and the 5000 row cap of the logs are larger than
  the runs; the 1000 row window of the attempts is modelled by `LogRolls`.
- The switches Enabled and HasCredentials only turn operations into no-ops.
- The bridge is a set of commands in flight: a command is run, refused or
  withdrawn in any order.  A late answer of an older command is not told apart
  from the present one's.  A batch of items is one grant, so success in part is a
  failure after which the grant took effect.
- The look-up of a balance in SCUM.db is exact: nobody else changes that balance
  in those seconds.
- Orders found at the start have one of the histories in `History`: unsold,
  dispatched without a marker by the version before the journal, waiting for a
  retry or out of retries (nothing was granted), delivered, confirmed.

Of the bridge:

- Every call has an id of its own that is not empty (both clients generate one;
  an answer without an id is not modelled).  The result file is read complete,
  because the script renames it into place.
- A mutation takes effect and answers in one step.
- `SlowClose` says whether the script may read a native command file before its
  writer has closed it, when it cannot be removed.  `MaxStops` bounds the stops.

Of the queues:

- Whether the game thread takes an item later or the script runs it at once
  (`deferGame` with a stalled scheduler, or no scheduler) is a choice at each drain.
- Time is a choice: a time limit may be over at each run of the loop, and the
  spacing after a mutation ends at once or later.
- Each mutation and each command is enqueued once; a refusal changes nothing, so
  it is no step.  The limits are constants, although the script reads them again
  from its configuration.  A second call of `finishMutationQueueAsync` for the same
  item is ignored by the code and is no step either.
- The script's callbacks do not interrupt each other (`Idle`), and an error in a
  mutation is an end like any other.

Of the web panel:

- A content, a row, a line is a number that is fresh whenever one is made; only whether two
  are the same matters.  A configuration of a module is a record: the modules whose settings
  it holds, and their value.  Byte limits, forms, layout and the catalogues of items are left
  out.
- A player's SteamID and name are both written as the player himself, either may be
  missing in a row, and no two players have one name.
- `Waits` (server files and draft rows only) says that the user waits for a save to end before
  he edits or chooses again, which the panel does not enforce.  Without it the properties of
  these two parts do not hold: section 5.  The module page is modelled without it.
- In `ModuleDraft` nobody else writes the rows between a save and the request that runs one by
  its index, and `normalizeSchedulerConfigForSave`, which fills in the fields of each row and
  keeps the rows and their order, is left out.
- Kills happen at any times, and a kill has up to three rows: a bare line of SCUM.log, and a
  text and a JSON row of a kill_ log, which carry the same stamp.  The panel takes two kills of
  one victim for one when some of their rows look like duplicates (within thirty seconds, or
  three hours apart to five minutes).  That no kill in detail is dropped (`OneEventPerKill`)
  holds of all kills; that none is shown twice or merged with another is asked when the stamps
  tell them apart (`ToldApart`), which is all the panel has to go by.  `StatsAreTrue` asks in
  addition that the answer has every kill in detail and that the difference of the clocks
  leaves them in their order (`InOrder`): closer ones may change places in the feed when a row
  of SCUM.log comes first, and a streak then ends at the wrong kill.
- In `ClearedStaysCleared`, a log whose copy is of an answer that a clear overtook
  (`raced`) is left out, as nothing in the panel orders the two.

## 3. Runs

The runs of the delivery take two orders `a` and `b` unless said otherwise.  `MaxStops = 1` allows
one crash or exception, at any step; failed writes, failed reads, damaged
markers, timeouts, refusals and late answers are not bounded.

| run | configuration | checks | shows |
|---|---|---|---|
| `safety` | panel and native, one player who claims, `a` takes two calls, limit 2, one transport; orders new, dispatched before, out of retries or delivered | `DeliveryInv`, `AtMostOnce`, `UnresolvedStaysPending`, `WriteAhead`, `DeliveredIsGranted`, `PendingKeepsUndelivered`, `ImplementsPromise` | no double grant, no false delivery, no lost row, no command before its marker; the code implements `OneGrantPerOrder`; the invariants of the proofs hold |
| `recovery` | both runtimes, both polling, one money order whose balance shows too late, two transports, limit 1, a delivery delay, players that come and go, fairness | `DeliveredIsConfirmed`, `OpenIsAttempted` | the shop is told in the end; an order whose player stays online is attempted, however often the panel's list of players fails |
| `forgotten` | violation, `LogRolls` | `AtMostOnce` | section 5 |
| `resend` | violation, two transports | `AtMostOnce` | section 5 |
| `early` | violation, a money order of the panel | `GivenIsGranted` | section 5 |
| `bridge_safety` | one call of the panel (queued), two of the native runtime (sync, early), one stop | `RunsAtMostOnce`, `OkIsEarned`, `RefusedNeverRuns`, `BridgeInv`, `ImplementsCalls` | two processes in the single-slot files are as good as one-shot calls |
| `bridge_ends` | two calls of the panel, one of the native runtime, all direct, `SlowClose`, fairness | `CallsEnd` | every call ends and gives its lock back, whether or not the script answers |
| `run_twice` | violation, `SlowClose` | `RunsAtMostOnce` | section 5 |
| `event_loops` | the queues of the script: three mutations, two commands, two players, queue of two, one mutation per player; the translation: two text nodes, an attribute, a result block, a label without translation; fairness | `TypeOK`, `SlotIsHeld`, `NestedInHolder`, `PlayerLimit`, `CommandSlotIsHeld`, `CancelledNeverStarts`, `MutationsGetTurn`, `CommandsGetTurn`, `TranslationArrives` | both slots have one holder, nothing queued waits for ever, and every text is translated in the end |
| `late_command` | violation | `TakenOffStaysOff` | section 5 |
| `unchecked_save` | violation, the module page | `LoadedBeforeSaved` | section 5 |
| `web_panel` | the twelve parts of the panel, one at a time | the properties below | the page keeps to its copies whatever order the answers come in |

| property of `web_panel` | part | says |
|---|---|---|
| `EnglishIsComplete` | `PanelTranslation` | no text escapes the scan |
| `NoLostUpdate` | `ServerConfigEditor` | a save replaces no version that its author has not seen |
| `ActionsReachTitled`, `DeletesOwnItems` | `PlayerDialog` | an action goes to the player in the title; a delete button names his item |
| `GivenIsNotOffered` | `WelcomePack` | a pack just given is not offered again after an old or failed answer |
| `NoForeignConfig` | `ModuleConfigs` | the settings made for one module are never kept under the name of another |
| `IndexKeepsItsRow`, `RowsAppearOnce` | `ModuleDraft` | an index means the row it was taken for; no row is appended twice |
| `NoLineLost` | `ChatLines` | no step loses a line but the one it is to take away |
| `OneEventPerKill` | `KillFeed` | no kill in detail is dropped; those the stamps tell apart are shown once each |
| `StatsAreTrue` | `KillFeed` | kills, deaths and streaks are those of the kills that happened, if the stamps tell them apart and in order |
| `ClearedStaysCleared` | `PanelLogs` | cleared rows do not come back |
| `WholeRowsAreSaved` | `CutAnswer` | of a cut answer exactly the whole rows are saved |
| `CheckedIsCalled` | `CommandAliases` | checked words mean the same to panel, server and script |
| `OrderGetsWhatIsShown` | `ShopRules` | a saved rule is matched and served as the panel shows it |
| `PanelTypeOK` | all | types |

`event_loops` and `web_panel` may stop (all mutations and commands are finished; the bound on
new contents is reached), so they do not check for deadlock.  The parts of the
panel share no variables: `part` is chosen at the start, and the others stay in one
initial state, so the run explores their sum, not their product; `loop` does the same for the
queues of the script and the translation, which `event_loops` checks for liveness.

Why these bounds are enough to be interesting: two runtimes are what a server has
(the lease allows one at a time, so a third adds no new pair of steps); two orders
make one wait for the other's grant, limit or claim; two calls are the
smallest delivery that can fail in the middle; one crash reaches every crash
point, and the recovery after it is done by the same or the other runtime.  A
second crash is left to the proofs, which have no bounds.  In the bridge, three calls
are two that share a lock and one that does not; a fourth would only wait.  In the
queues, three mutations are one in the slot, one that waits behind it and one
that is refused by either limit or nested; the limits of the code (120 and 2, 160
and 8) are scaled down so that they are reached.  In the panel, two reads of a kind
overlap, two players, files and modules are confused if they can be, three draft
rows give an index something to slip to, and two kills at one time, ten minutes or more than
five hours apart, with up to four rows and logs that differ by seconds or by three hours, reach
each rule that joins rows, are told apart or not and are in order or not.  The module page has
two refreshes and one save at a time: the check of a save is already too old when the selected
module changes once; overlapping saves are left to the theorem `ConfigsStayOwn`.  `recovery` has
one order: two orders behind a limit are within TLC's reach only without the panel, and then
hold too.

**Fairness of the delivery** (`FairSpec`, only in `recovery`).  `WF(Step(h))`: a
thread that is not blocked goes on.  Panel: `SF(Start(h, Stage, NoPlayer))`, as
`GameStoresRequestWorker` polls again and again, waits in a semaphore queue and retries the
lease every 50 ms, so that it gets it when it is free again and again; `SF` of a complete
`ConfirmBegin` and of an accepted `Confirm`.  That its `list_players` succeeds is not assumed:
with the shipped script it never does (`main.lua:16299-16308`), and the panel takes that for
nobody online (`GameStoresDeliveryService.cs:565-572`).  Native runtime: `SF` of its polls for
sync and deliver, of finding a player who is online in SCUM.log (`FindsOnline`), of a `Fetch`
that succeeds, of a sync that keeps its row, and of a `Reserve` that can be written: API, disk
and journal do not fail for ever.  `WF(TimerEnds)`: time passes.  Nothing is assumed about the
game, whose answers may be missing always.  Automatic polling needs `PollIntervalSeconds > 0`
and `RequirePlayerClaim` off; without them a player has to ask.

**Fairness of the bridge** (`bridge_ends`).  `WF(Call(r))`: a client thread that is not
blocked goes on.  `SF(Timeout(r))`: its deadline passes once and for all and is looked at
before each look at the result file, so a call that is again and again between
two looks ends.  The script is not assumed to do anything.

**Fairness of the queues** (`event_loops`).  `WF` of the returns: a function that is executed
comes back (Lua code is not preempted, and a loop in it would hang the game).  `WF` of
both loops and of the end of the spacing: timers fire.  The game thread is not
assumed to take anything (`RunItem`, `ServeItem`), nor a callback to come (`Finish`).

**Fairness of the panel** (`event_loops`).  `WF` of `Observe` and `Frame`: the browser calls a
`MutationObserver` with its records, and `requestAnimationFrame` callbacks of a visible
page.  No request is assumed to be answered.

## 4. Proofs

`ConstantsOK` is the only assumption on the constants of the delivery: any number of
orders, players, panels and native runtimes, any number of calls, transports and
stops.  `BridgeConstantsOK` is the one of the bridge: any calls of either process, of
any kinds, any number of stops.  The queues assume `MutationConstantsOK` and
`CommandConstantsOK` (any items, players and limits), the parts of the panel the
`...ConstantsOK` of their modules, which ask for little more than that the markers of
"none" are not players, files or words, that bounds and times are numbers, and that the
default words of a command are finitely many and fit into `ListMax`.

| theorem | states | under |
|---|---|---|
| `TypeCorrect` | `Spec => []TypeOK` | |
| `FilesCorrect` | `Spec => []FilesInv` | |
| `UnresolvedKept` | `Spec => []UnresolvedStaysPending` | |
| `PendingKept` | `Spec => PendingKeepsUndelivered` | |
| `WrittenAhead` | `Spec => []WriteAhead` | |
| `GrantsCorrect` | `Spec => []GrantInv` | `~LogRolls`, `SingleRoute` |
| `DeliveryCorrect` | `Spec => []DeliveryInv` | `~LogRolls`, `SingleRoute` |
| `GrantedAtMostOnce` | `Spec => []AtMostOnce` | `~LogRolls`, `SingleRoute` |
| `DeliveredMeansGranted` | `Spec => []DeliveredIsGranted` | `~LogRolls`, `SingleRoute` |
| `KeepsPromise` | `Spec => ImplementsPromise` | `~LogRolls`, `SingleRoute` |
| `BridgeTypeCorrect` | `Spec => []BridgeTypeOK` | |
| `BridgeCorrect` | `Spec => []BridgeInv` | `~SlowClose` |
| `CommandRunsOnce` | `Spec => []RunsAtMostOnce` | `~SlowClose` |
| `SuccessIsEarned` | `Spec => []OkIsEarned` | `~SlowClose` |
| `RefusedIsSafe` | `Spec => []RefusedNeverRuns` | `~SlowClose` |
| `CallsImplemented` | `Spec => ImplementsCalls` | `~SlowClose` |
| `QueuesTyped` | `Spec => []TypeOK` | |
| `SlotHeld` | `Spec => []SlotIsHeld` | |
| `NestedHeld` | `Spec => []NestedInHolder` | |
| `PlayerLimited` | `Spec => []PlayerLimit` | |
| `CommandSlotHeld` | `Spec => []CommandSlotIsHeld` | |
| `CancelledStays` | `Spec => CancelledNeverStarts` | |
| `CheckedWordsCall` | `AliasesSpec => []CheckedIsCalled` | |
| `PackIsGivenOnce` | `WelcomeSpec => []GivenIsNotOffered` | |
| `EnglishComplete` | `TranslationSpec => []EnglishIsComplete` | |
| `ActionsReach` | `DialogSpec => []ActionsReachTitled` | `DialogConstantsOK` |
| `DeletesOwn` | `DialogSpec => []DeletesOwnItems` | `DialogConstantsOK` |
| `SavesWhatWasSeen` | `ConfigSpec => []NoLostUpdate` | `Waits` |
| `ConfigsStayOwn` | `ModuleSpec => []NoForeignConfig` | |
| `IndicesKeepRows` | `DraftSpec => []IndexKeepsItsRow` | `Waits` |
| `RowsStaySingle` | `DraftSpec => []RowsAppearOnce` | `Waits` |
| `LinesAreKept` | `LinesSpec => NoLineLost` | |
| `KillsAreShownOnce` | `FeedSpec => []OneEventPerKill` | |
| `StatsAreRight` | `FeedSpec => []StatsAreTrue` | |
| `RowsAreSaved` | `CutSpec => []WholeRowsAreSaved` | |
| `ClearedStays` | `LogsSpec => []ClearedStaysCleared` | `LogsConstantsOK` |
| `ShownIsServed` | `ShopSpec => []OrderGetsWhatIsShown` | `ShopConstantsOK` |
| `PanelTyped` | `PanelSpec => []PanelTypeOK` | |
| `PanelIsSafe` | `PanelSpec =>` the properties of `web_panel` but `PanelTypeOK` and those of `EditsAreSafe` | |
| `EditsAreSafe` | `PanelSpec => [](NoLostUpdate /\ IndexKeepsItsRow /\ RowsAppearOnce)` | `Waits` |

The conditions `~LogRolls`, `SingleRoute` and `~SlowClose` are the negations of what
`forgotten`, `resend` and `run_twice` show to break the property: the theorems say that
nothing else does.  `Waits` is the negation of what section 5 shows to break the editors of
files and rows: of a user who waits, they hold for any number of files, rows, requests and
other writers.

*Why the invariants.*  `UnresolvedStaysPending` is not inductive: a row in the file
says nothing about what a runtime in the middle of a pass is about to write over
it.  `FilesInv` adds that a runtime at work holds the lease (`LeaseHeld`), that its
order is reserved and among its rows (`OrderHeld`), and that its rows in memory
account for every undelivered row in the file (`RowsAccounted`).  With the lease,
the file does not change under it; without it, one step of the other runtime
breaks `RowsAccounted`, and that is how the mutant `LeaseIgnored` fails.

`AtMostOnce` needs more: that whatever was sent left a trace (`GrantLeavesTrace`:
a marker, an attempt row or a delivered row), that the snapshot of a pass shows
those traces that are not markers (`SnapshotHolds`), how far the grant under way
has come (`GrantProgress`), and that what is delivered is finished
(`DeliveredIsSettled`).  A dispatch starts only without markers, so without
traces, so with nothing granted or in flight.

`BridgeInv` says where a command may be (`InOnePlace`: in the file, with the poll loop,
in the queue or carried out, in two places only between the read and the removal)
and that every success in the result file, or read from it by any client, is
earned.  `RunsAtMostOnce` alone is not inductive: a command in the file may be
taken although it has run.  `OkIsEarned` needs the second part, because a client
may read the result long before it looks at the id.

The queues need three invariants.  `SlotIsHeld` is not inductive: that the slot is taken
says nothing of what the functions on the stack will do when they return.
`Held` says that the queue and the frames hold each item once and what its place says,
that the mutation in the slot is the one that was started and is neither ended nor
cancelled, that it is the innermost of those being run (`Topmost`: what returns above
it has given its turn up before), and what the nesting depth is; `Serving` says the same
of the commands; `Bounded` counts per player the items in the queue and in the slot.

In the panel, each property is too weak by itself because it speaks of what is shown
and not of what is on its way.  `AliasInv`: a checked configuration has been accepted
and has no word with a slash of its own, which the three programs would read
differently.  `WelcomeInv`: whoever was given the pack is remembered beside the
server's answers as well as among the rows.  `TranslationInv`: in English a scan is
queued, or the observer has records that will queue one, or nothing is left to
translate; and what the scan takes for the original of a text is that label in one
of its languages.  `DialogInv`: title, field, selected player and shown inventory name
one player, whatever a list completes.  `LogsInv`: a read that was served before a clear
holds no row that a later copy may bring back unseen.  `ShopInv`: a saved rule is in
`NormalForm`, in which the fields that the two runtimes prefer agree.

The editors need the whole way of a save.  `ConfigInv`: the newest load is the one that fills
the text area, what is loaded is what the text was edited from, and a save is of what is
loaded until its check is answered, and of what the check has found afterwards; neither an
older load nor another writer is in the way.  `ModulesInv`: what the server, the list, a read
on its way and a baseline hold for a module was made for that module (`OwnConfig`); the draft,
and an editor left open, are of the selected module (`PageIsOwn`); and the name and the
configuration of a write under way belong together (`SaveIsOwn`), although neither need be
the one that was checked.  `DraftInv`: the open editor's index
means its row, a new item is nowhere in the draft until its editor adds it, a save that has
been posted equals the draft, and a reload changes the rows only while no index is kept.

Two parts of the panel are loops over a sequence.  `NormalizeChatLines`, the loops of the
kill feed, `ObjectEnd` and `Salvaged` are recursive functions, `f[x \in D] == e`, which stand for some `f`
that satisfies the equation if there is one: `Recursion` (any ranked recursion) and `Loop`
show that there is, from `NatInd`, a form of induction over a set instead of an operator.

`FeedInv` says that the rows in the answer are good (`RowsGood`): each stands for one kill, with
its victim and one of its time stamps, and one in detail has the second of the kill.  That no
kill is dropped (`ShownAtAll`) follows from each loop of `normalizeKillEvents` alone, whatever it
takes for a duplicate: joining keeps the details of both (`JoinCovers`), sorting moves events
(`AddsCovers`), and the filter takes out bare lines only (`UsefulCovers`).  When the stamps tell
the kills apart, the first loop also brings the detailed rows of a kill together
(`RowsGrouped`), and the later ones keep a list of one detail for each kill (`Good`): what looks
like the same kill is the same (`LikeIsSame`), so joining adds nothing but a detail
(`MergedGood`).
`StatsAreTrue` needs the order as well: an insertion keeps a list ascending (`InsertAscends`), so
under `InOrder` the events, one for each kill, are the kills one by one (`EventsAreKills`, which
maps a rising list onto `1..n`).  Then the loop of `buildPlayerCombatStats` is at every turn at the
counts of an interval: a kill adds one to `KillsOf` and `DeathsOf` of every stretch that ends
at it (`IntervalStep`), and the maximum over the stretches moves as `Count` moves the
streaks (`CurrentStep`, `BestStep`).

`CutInv` has a trace `tr` of the scan's state behind each token of the answer, as if no object
had ended it (`Follows`); the rows are the stretches in which an object was open (`RowsFound`),
and behind the last one there is no brace or an object that is open still (`Rest`).  The
trace is what relates the writer's few variables to where `findJsonObjectEnd` gets, which
`WholeRowsAreSaved` alone does not: that a quote begins or ends a string depends on all
that was written before it.

`PanelTypeOK` follows from a lemma for each part (`AliasTypes`, ..., `CutTypes`).  Most parts need
more than their type invariant: `ModulesTyped` says also what a save has at each stage and that
a module that is selected has a draft, since otherwise an answer would write what is no
configuration; the places in `CutTypeOK` are in the answer by `CutInv`.  The types of the editors hold of a user
who waits for nothing too, so that they have invariants of their own, without `Waits`.  The
parts share no variable: a behaviour of `PanelSpec` is one of the specification of each part
(`PartsRun`), and `PanelTyped` and `PanelIsSafe` carry over to the whole what is proved of one.

*Layout.*  One lemma for each action or group of actions that touches the same
files, each a conjunction of named facts; a lemma on `Next` splits on the
disjuncts and cites them; PTL joins initial state, step and consequence.
`KeepsPromise` shows for each action that the phases of the mapping move as an
action of `OneGrantPerOrder` allows, or stay.

*Proved only:* the safety of money orders (`Deferred`), which the passing runs have only in
`recovery`, and of orders delivered without a claim with two of them open; above all
that a native runtime without a panel delivers money orders exactly (`Verified` with the
order in `Deferred`, where `Early` is empty).

`BridgeTypeOK` is proved and in no run.

*Model-checked only:* `DeliveredIsConfirmed`, `OpenIsAttempted`, `CallsEnd`,
`MutationsGetTurn`, `CommandsGetTurn` and `TranslationArrives` (liveness under fairness, which is
out of the prover's reach), and the six violations.  Every safety property and action
property of a passing run is stated by a theorem.

## 5. Findings

1. **A forgotten dispatch is sent again** (`forgotten`; needs rows from before the
   journal).  `AttemptIndex` reads the last 1000 attempt rows
   (`GameStoresDeliveryService.cs:1009`).  A row that waits behind the run limit,
   another player's claim or the delay is kept before the check that would
   write its blocking marker; if its "delivering" row leaves the window meanwhile,
   the order is dispatched a second time.
2. **The native runtime sends a grant again over the next transport**
   (`resend`; `http_server.cpp:9118-9148`, `7205-7240`) when the answer of the first
   was lost or said failure, although it may have taken effect.  The comment at
   `http_server.cpp:7202` forbids exactly that, but only callers that ask for a
   strict transport get it, and `ShopManualDeliver` does not.  It takes RCON or the
   hosting console to be switched on; with one transport the theorem applies.
3. **A queued money command counts as given** (`early`).  The bridge answers
   `change_money`, `set_fame` and `change_fame` when the mutation is queued
   (`main.lua:6025-6072`) and may drop it later; the panel writes the delivered marker
   and tells the shop.  The native runtime looks the balance up; its "allskills"
   command has the same gap.  `Early` names the orders concerned; the other properties leave only
   those out.
4. **A command may run twice** (`run_twice`).  The poll loop does not look at whether
   `command.json` could be removed (`main.lua:32871`).  The native `WriteTextFile` fills
   the file in place and keeps it open while it deletes the `.live` file
   (`path_utils.cpp:128-138`); a poll at that moment reads a complete command, cannot
   remove it, and reads it again 1.5 s later.  The panel renames a finished file.
5. **A command that was taken off the queue runs all the same** (`late_command`).  When
   the game thread does not get to a player's command within 25 s, the player is told
   that it is off the queue and should be repeated; the function that waits for
   the game thread does not check `item.cancelled`, as that of the mutation queue
   does, so that the first command and its repetition both run.
6. **A save writes a module that was never checked** (`unchecked_save`).
   `saveSelectedModule` looks whether the selected module was loaded, and compares it with the
   server, before and at its first request (`app.js:8843-8854`); after the answer it takes the
   module selected by then and the text of the editor (8856-8866).  When the administrator has
   chosen another card meanwhile, that module is posted under its own name
   (`NoForeignConfig` holds), be it the panel's fallback for a module that was never loaded,
   which the message at 8847 says is blocked; and the message at 8853, that a save is stopped
   when the configuration has changed, does not hold of it either.

Observations without a run.

- A comment of the translation (`app.js:605-608`) says that the forced scan, back in
  Russian, restores the original labels.  It restores attributes, but no text: a text
  node that still shows English differs from its original, and the scan then takes the
  English for the new original (`app.js:574-577`).  TLC refutes `LabelsRestored` of
  `PanelTranslation` in four states; `EnglishIsComplete` is about the other direction.
- The panel's delivery service says of a VIP rule that it skips it
  (`GameStoresDeliveryService.cs:542`); an automatic delivery never gets there, because
  `BuildPendingRow` (from 692) makes an item row of every type it does not know, so that
  the order is answered with the items of the rule (`VipIsSkipped` in `ShopRules`).
- The messages of the file editor (`app.js:2389`, `2404`) say that a save is stopped when the
  file was not loaded or has changed.  That holds of a user who waits (`Waits`).  With
  `Waits = FALSE` a file that is chosen again during its save's check is compared with the
  newer load, and the older text overwrites it.
- A panel that polls alone never attempts an order with the shipped script: its list of players
  comes from `list_players`, which the script always refuses (`CommandRouter.cs:18-28`,
  `main.lua:16299-16308`), and a failed list is an empty one
  (`GameStoresDeliveryService.cs:565-572`).  Without a native runtime `OpenIsAttempted` is
  violated; orders that a player claims are delivered all the same.
- After a save of a module and a failed read of the list, a module chosen again shows its old
  configuration beside the new baseline, and a second save writes the old one back
  (`app.js:8867-8868`).
- A block pasted over a line of a text that is longer than a limit lowered since deletes the
  line and brings nothing in its place (`app.js:8019-8022`); `NoLineLost` speaks of texts within
  their limit.  A read that was answered before a log was cleared brings the rows back when it
  arrives after it (`raced` in `PanelLogs`).
- `bridge_client.cpp:105-109` speaks of the bridge as having a single writer, but the
  panel writes the same file.  `bridge_safety` and `BridgeCorrect` show that this costs
  answers (a call may fail although its command ran), and, as long as finding 4 does
  not strike, never a wrong success or a second run.

## 6. Not modelled, and the plan

Left out for good: text parsing, JSON assembly, catalogues, log parsing, Discord,
database readers and INI editing (no shared state to get wrong), and the
internals of the engine.

Of the web panel, which is by far the longest file and exists twice, the parts that
keep state across requests and clicks are modelled.  The rest of its 12105 lines draws
tables, forms and maps from that state, holds the dictionary and the catalogues of
items, or sends one request and shows the answer: a definition that stood for them
would say nothing that a property could tell apart.  Not modelled yet, though stateful:
the batch of items (its clearing on the answer loses items added meanwhile, and
nothing guards it), the normalisation of scheduled jobs and fast-travel points, squads, the
editor of world options.

Planned, in this order:

1. `RequestWorkers`: signal files, both workers, one answer per claim.
2. `StateFiles`: temporary file and rename against in-place write, live overlay,
   append caps, `AppendModuleStateRecord` of the native runtime.
3. `WargmDelivery`: delivery without a journal, against `OneGrantPerOrder`.
4. `ManagedCommands`, `HttpSlots`: queues at their limits.
5. The bridge composed with `GameStoresDelivery`, in place of `inflight` and `answer`.
6. A key of an order that changes with the configuration (`OrderKey`).

Abstract specifications to state: an atomic register for a state file, a bounded queue
for the mutations; `OneGrantPerOrder` and `OneShotCalls` are done.  Theorems to prove
next: a state file reads as some value written; a claim is
answered once; native-only and panel-only corollaries of `GrantedAtMostOnce`.
