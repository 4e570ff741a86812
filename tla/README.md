# A TLA+ model of Vörsight

Vörsight watches over Windows machines. A **service** runs on each machine, short-lived
**agents** capture activity and screenshots inside the user's session, a Node **server** keeps
the database and passes messages on, and a web **dashboard** shows and configures everything.
Screenshots go from the machine straight to Google Drive; the server only learns their ids.

This directory holds TLA+ modules that model parts of that system, TLC configurations that
check them on small instances, and theorems about them that TLAPS proves for every instance.
Every definition is a translation of the code; `PROJECT.json` names the lines each one stands
for, the hazards of the code, and for each checked property a mutation of the code it catches.

    tlc  -workers 2 -config MCUploadPipeline.cfg MCUploadPipeline.tla     # check an instance
    tlapm UploadPipeline_proofs.tla                                       # check the proofs

## The system and what makes it hard

Paths are relative to `src/`; `dotnet/Vorsight.Service/` is abbreviated `Service/`,
`dotnet/Vorsight.Infrastructure/` `Infra/`, `node/server/src/` `server/`.

| Component | State it keeps | Operations | What is hard | What makes it correct |
|---|---|---|---|---|
| Upload pipeline (`Service/Agents/ScreenshotHandler.cs`, `Service/Storage/*`, `ShutdownCoordinator.cs`) | temp files, upload queue, tracked paths, one semaphore permit, shutdown flag | handle a screenshot, retry old files, process the queue, notify, delete, stop | handler, retry timer and processor on the same file; lost replies; crash between upload, row and deletion; stop with a full queue | a file is deleted only when it is on Drive; no row without a file; one upload at a time; the queue drains and the stop ends |
| Pipe server and agents (`Infra/IPC/NamedPipeServer.cs`, `Vorsight.Agent/`) | registry of sessions, pipe instances and their security | accept, register, read, raise, unregister, stop | two agents of one session; a client gone before it is read; stop beside running handlers | a registration belongs to a served connection; what a registered agent sent is raised |
| Settings (`Service/Worker.cs`, `Infra/Settings`, `server/routes/web/settings.ts`, `server/routes/machine/configuration.ts`) | server row, applied row, current settings, `settings.json` | save, adopt, push, fetch and apply, report | every push starts one more concurrent fetch; torn file; lost push | machine and server agree when all is quiet; the file is never left torn |
| Schedule enforcement (`Infra/Scheduling/ScheduleManager.cs`) | schedule, running flag, token source, loop task | start, stop, update, the loop | start and stop by concurrent fetches; midnight windows | an enabled schedule is enforced, a stop ends |
| Audit (`Infra/Audit`, `Service/Auditing`, `server/websocket/socketHandler.ts`) | watchers, recent-event hashes, rows | watch, filter, forward, store, acknowledge | duplicates, offline events, dedupe on the server by kind of event | each kind reported has its row, and nothing is announced without one |
| Server connection (`Service/Server`, `FileCredentialStore.cs`, `MachineIdentity.cs`) | id, key, credential file, socket, authenticated flag | register, connect, recover credentials, watchdog | two recoveries at once; server restored from a backup; name-based recovery | id and key belong together; the service gets back online |
| Activity (`ActivityCoordinator.cs`, `socketHandler.ts`) | current window and start, sessions | window change, report, aggregate, list | concurrent read-modify-write; clock steps; pages that shift while they are read | what is reported lies in one session and is counted once; the log has no holes |
| Health, uptime, session summary | counters, interval file, lock file | record, report, recover | crash inside a rewrite | no interval is lost |
| Commands, launcher, interop | none | dispatch, launch as user | the two ends name different commands | every accepted command is executed |
| Local HTTP API (`ApiEndpoints.cs`) | none of its own | settings and schedule from the machine | one more writer of the settings | as settings |
| Machine lifecycle (`server/services/machineService.ts`) | id, key, name, status | register, authenticate, adopt, archive, unarchive, rename | three statements per registration; check-then-act on status behind a late list | a key opens the account it was given out with; nothing is active without adoption |
| Socket handlers (`server/websocket/socketHandler.ts`) | rooms, rows | connect, heartbeat, activity, audit, screenshot, disconnect | every `await` is an interleaving point | no report is lost or counted twice by the next one |
| Status, ping job (`statusHelper.ts`, `pingMonitor.ts`, `machine_state`) | health, last ping, settings of one row | heartbeat, ping, save | three writers of one row, each reading first | settings are never overwritten; the status ends up true |
| Retention (`jobs/cleanup.ts`, `heartbeatCleanup.ts`) | settings, rows | delete by age, edit, run now | settings read once, table after table, a step that fails | nothing younger than its period goes, everything older does |
| Drive and OAuth on the server (`server/routes/*/oauth.ts`, `googleDriveService.ts`) | one token row | consent, refresh, disconnect | a refresh across a disconnect and a new consent | a disconnect sticks; a revoked consent goes |
| Log sink, queries, startup, deployment, Windows interop | – | I/O | – | – |
| Dashboard (`node/client/src`) | machine list, gallery, logs, copies of the settings, token | load, edit, post, listen, sign in | answers in any order, a stale page posts all it shows, tabs share storage | a view ends up with the server's rows; what a user typed or chose is what is stored |

Interactions: agents write to the service over the named pipe, one message per connection. The
service calls the server over HTTP (registration, configuration, applied report, Drive tokens)
and exchanges socket.io messages with it (connect, heartbeat, activity, audit and screenshot one
way; settings, commands and archive notices the other). Dashboards call the server over HTTP
and listen on the same socket server. Inside the service everything is callbacks and pool
threads; almost no class has a lock.

## Modules

| Module | Models | Checked by | Proofs |
|---|---|---|---|
| `UploadPipeline` | screenshot handlers, temp files and retries, queue, processor, Drive semaphore, server rows, stop sequence, crash and restart | `MCUploadPipeline` | `UploadPipeline_proofs` |
| `PipeSessions` | pipe listener, connection handlers, registry, `StopAsync`, agents | `MCPipeSessions` | `PipeSessions_proofs` |
| `SettingsSync` | dashboard pages, adoption, server row, push, concurrent fetch-and-apply, `settings.json`, audit watchers, enforcement start and stop, applied report, crash | `MCSettingsSync` | `SettingsSync_proofs` |
| `ServerConnection` | registration on both ends, credential file, concurrent recoveries, watchdog, socket, `machine:connect` and its answers, restored database, crash | `MCServerConnection` | `ServerConnection_proofs` |
| `ScreenshotDelivery` | what the service promises about a screenshot: the abstract specification that `UploadPipeline` implements | `MCUploadPipeline` | `UploadPipeline_proofs` |
| `MachineList` | adopt, archive, unarchive, rename, the machines' connections and heartbeats, and the machine list of one dashboard | `MCVorsightServer` | `MachineList_proofs` |
| `MachineState` | the `machine_state` row under heartbeats, pings and saves, and the status shown | `MCVorsightServer` | `VorsightServer_proofs` |
| `Retention` | scheduled and requested cleanups, heartbeat cleanup, the retention page | `MCVorsightServer` | `VorsightServer_proofs` |
| `DriveTokens` | consent, refresh, revocation, disconnect, the Drive card | `MCVorsightServer` | `VorsightServer_proofs` |
| `MachineAccounts` | registration statement by statement, API keys, `machine:connect` | `MCVorsightPages` | `VorsightPages_proofs` |
| `MachineIngest` | handlers of activity, audit and screenshot reports | `MCVorsightPages` | `VorsightPages_proofs` |
| `Gallery` | cursor pages of screenshots, the cache of `useSWRInfinite` | `MCVorsightPages` | `VorsightPages_proofs` |
| `AuditLog` | alert card and audit table, alerts, acknowledgement | `MCVorsightPages` | `VorsightPages_proofs` |
| `ActivityLog` | offset pages of sessions, the merged list | `MCVorsightPages` | `DashboardPages_proofs` |
| `TimePicker` | typing, arrows and AM/PM of a time field | `MCVorsightPages` | `DashboardPages_proofs` |
| `ScheduleEditor` | the schedule's editor and printed summary | `MCVorsightPages` | `DashboardPages_proofs` |
| `SettingsPages` | features page, feature pages, navigation, the settings routes | `MCVorsightPages` | `DashboardPages_proofs` |
| `AuthSession` | sign-in, verification and sign-out of the tabs of a browser | `MCVorsightPages` | `DashboardPages_proofs` |
| `VorsightServer`, `VorsightPages` | the four modules, and the nine, that one run checks side by side | `MCVorsightServer`, `MCVorsightPages` | `VorsightServer_proofs`, `VorsightPages_proofs` |

The last two compose modules that have no variable in common. A property that speaks of one part
is violated by a behaviour of all parts exactly when it is violated by that part alone, so a
behaviour picks its `part` at the start and lets only that one move. Where parts do share state
they are one module: the machine's room and the list in `MachineList`, the three writers of one
row in `MachineState`, both routes into the sessions in `MachineIngest`.

### UploadPipeline

| Variable | Code |
|---|---|
| `disk[f]` | temp file of screenshot `f`: absent, fresh (< 5 min), retryable, stale (> 24 h), gone |
| `copies[f]`, `rows[f]` | Drive files made of it; screenshot rows on the server |
| `hpc[f]` | its `HandleScreenshotMessageAsync` invocation |
| `retryList` | the snapshot `RetryFailedUploadsAsync` iterates over |
| `tracked`, `queue`, `orphans`, `completing` | `_queuedFiles`, the `BufferBlock`'s items, receives abandoned by a timeout but still linked, `Complete()` called |
| `ppc`, `pfile` | `ProcessUploadsAsync` and its file |
| `sem` | `_uploadSemaphore.CurrentCount` |
| `shuttingDown`, `cancelled`, `spc` | `_isShuttingDown`, the processor's token, `Worker.StopServiceAsync` |
| `stolen` | history: in this session a wait that was given up released a permit it did not hold |

`H*` actions are the handler, `P*` the processor, `Retry*`, `Age` and `CleanupOldFile` the temp
folder; `BeginShutdown` to `StopFinish` the stop sequence. One Drive request is one step that
either creates a file and returns its id (`*UploadOk`), or does not (`*UploadFail`, which also
covers a file that was created and whose reply was lost). `ServiceRestart` ends the process
anywhere: the memory is gone, disk, Drive and rows remain, and requests in flight may still
reach Drive. The comparison with the previous screenshot is a choice (`DropScreenshot`).
`UploadFileAsync` reads `_isShuttingDown` on entry (`UploadSkipped`) and again before it waits
(`WaitKind`): a call that passed the first test and meets the shutdown at the second waits two
seconds at most (`"timed"`). A wait that is given up - by that limit or by the processor's token
- goes through the `finally` block, which releases the permit whoever holds it (`GiveUpWait`).

`ScreenshotDelivery` says what remains when handlers, queue, permits and threads are forgotten:
a screenshot is saved once and never comes back, reaches Drive only while its file is there, is
announced at most as often as Drive holds it, and its file goes only when Drive has a copy, when
it is too old, or while the service closes. The refinement maps `disk` to `file` (`FileOf`: fresh
and retryable files are kept, stale ones expired) and `shuttingDown` to `closing`.

### PipeSessions

A connection is named by the agent process behind it. `lpc` is the accept loop,
`acl` the security it uses for new instances, `hpc[a]` the handler of `a`'s connection,
`sessions` the registry, `disposed` the pipes `StopAsync` closed, `raised` the
connections whose message reached `MessageReceived`; the agent's side is its launch, its one
write and its exit. Windows refuses an instance whose security differs from the ones that
exist, which `WorldDenied` and `CreateDefault` take from how the code handles it.

### SettingsSync

Main is `Worker.ExecuteAsync`; a member of `Tasks` is one running
`FetchAndApplySettingsAsync`. A step is the code between two accesses to fields that another
thread also uses: reading the answer, setting `_currentSettings`, opening and closing
`settings.json`, each half of the audit stop and start, each assignment of the enforcement's
start and stop, the report. Of the settings only the two switches the service acts on are kept
(audit and access control). `live` and `cancelled` name enforcement loops by their token
source; a token nothing refers to is reused, so the model stays finite. `lone`, `ver` and
`seen` are history variables that only properties read. The server's row and the push are one
step each; a push that finds the machine's room empty is lost, as in socket.io.

What may fail is bounded by `MaxFailures` (and, together with the crashes, by `MaxFaults`): a call, the load or save of the file (`LoadFails`,
`SaveFails`), the stop of the watchers (`ClearFails`) and the creation of one (`AddFails`). A watcher
that cannot be created is logged and the flag set as if it were there, or the start ends with the
flag off and some watchers added (`GiveUp`). `unsaved` and `unwatched` remember a save and a start
that failed; the code keeps neither, and reports the settings as applied all the same.

### ServerConnection

`machineId`, `apiKey` and `isConnected` are the fields of `ServerConnection`, `file` is
`credentials.json` (`Nothing` when absent or torn, which `LoadCredentialsAsync` treats alike)
and `writer` who has it open. Main is `Worker.ExecuteAsync` with `InitializeAsync` and the
watchdog; a member of `Recoveries` is one running `HandleCredentialFailureAsync`. `arg[t]` is
what a thread carries across an `await`: the request, the answer, the data being written, or
the arguments of `ConnectAsync`. `sent` and `replies` are the two directions of the socket in
order, `confirming` the server's handlers between finding the machine and confirming it,
`rows` the machine table's rows of this computer. Every connection is authenticated twice, as
in the code: by `OnConnected` with the fields of the moment (`Open`) and by the caller of
`ConnectAsync` with what it was called with (`Emit`). `unsaved` is a history variable: it remembers
that the last save could not open the file, which `SaveCredentialsAsync` logs and goes on from. From
then until the next save the file may name an older row than the memory, and `DiskMatchesMemory`
excepts exactly that.

Assumptions of the model, each where the code or its environment gives it: a database is
restored while the server is down, and that takes longer than saving an answer that has arrived
(`Restore`); the watchdog, which runs every 10 seconds, does not repeat a handshake while
`MaxInFlight` are under way; recoveries beyond the number of `Recoveries` wait for one to end;
deleting or opening a file that another thread writes fails, as on Windows.

### MachineList, MachineState, MachineAccounts

These three share the machine's row, and each keeps the columns its properties need.

`MachineList` has the rows (`row[m]`: status, age of `lastSeen`, whether named), the room of each
machine (`sockets`), and of the dashboard `shown`, `waiting` (pending machines), `selected` (a copy
of an entry, as `MachineContext` keeps it), `showArchived` and the socket `ws`. Every request,
handler and answer under way is a record of `work`, moved on by one action per `await`; a list is
read in one step and arrives in another, so lists and HTTP answers overtake each other, each
handled with the `showArchived` its closure saw. Buttons are offered by the *displayed* status.
A request may fail at either statement (`RequestFails`); `halfAdopted` remembers the machines whose
adoption failed between the status and the settings.

`MachineState` has the row's writers: `beat` is the heartbeat handler and `probe` the ping monitor,
both holding what they read when they write; adoption and the settings route store settings
directly, and `saved` remembers the last. `power` and `silence` are the machine and the age of its
last sign, from which `getConnectionStatus` and `getStatusText` compute both statuses.

`MachineAccounts` lets computers share ids or names (a cloned image, a renamed machine); `asking[a]`
is a registration between its look-up by id, its look-up by name and its `create`.

### MachineIngest

`running` holds one record per handler in progress: socket.io does not wait for the previous one.
Times are in units of ten seconds, with the two grace periods the two routes use. `overlapped`
remembers that two handlers of the same rows ran at once: activities can then really be lost or
doubled, and `SessionsCoverActivity` says what holds as long as it did not happen: each activity lies
in a session of its program, and a session's count is the number of activities that lie in it.
`heartbeats` is the history they are counted in. Audit events have no such exception. `EventIds` are
kinds of event, which is all the code compares; `due` remembers the kinds reported to an active
machine, and a row its report and how many there had been when it was stored (`upto`), so that
`OneRowPerKind` can say which report a second row may come from. `StatusChanges` archives the
machine, possibly between a handler's check and its write.

### Retention, DriveTokens

In `Retention` a run is a record with the periods it read and the table it has come to; `due` are the
scheduled jobs, `form`, `fetched`, `editing` and `asked` the page, which refills its form with every
answer, edited or not. `seen` is a history of the periods that were ever in force.

In `DriveTokens` a consent is a number that stands for its refresh token and all access tokens from
it. `calls` are the two callers that refresh (machine credentials and media), `consent` the OAuth
callback, `card` the dashboard; each holds the row it has read while Google answers. `kept` is a
history of the consents stored since the last disconnect.

### Gallery, AuditLog, ActivityLog

Rows are named by their position in time, so an order and the holes in it can be stated. `Gallery`
keeps the cache by cursor beside the pages shown, and the run of requests that replaces one by the
other: a refresh asks for all pages, scrolling only for those that the cache lacks. `ActivityLog` is
the same with offsets, which a new session shifts; its rows merge the listed sessions one after the
other (`MergedTo[n]` are the rows of the first `n`), and a session fetched twice is one session in
them, since only its duration is counted twice. `AuditLog` has two views of one log, the alerts
under way, and the room, joined by two components and left by one of them. A view that is opened
again may show its cached rows without a request. A patch keeps its `sender`, since `mutate()` is bound
to the key of the view that sent it: answered after a change of view it refetches nothing. `unheard`
remembers a change the open view was not told of, those sent from the other view included.

### TimePicker, ScheduleEditor, SettingsPages, AuthSession

`TimePicker` works on numbers in place of the two-digit strings and keeps what was `typed` beside
what is shown. `ScheduleEditor` is the copy the editor makes of the settings it is `given`, in both
modes; settings are a mode, `enabled` and a schedule, which is a function from days to windows (a save
always stores `enabled` as true), and the summary a sequence of groups of days, one day
added after the other (`GroupsTo`). In
`SettingsPages` every page has a `copy` of all settings, `loads`, `saves` and `navLoads` are requests
under way, and `careful` remembers that no step was taken while one was; a new machine list makes
the open page load again (`ListRenews`). There is one dashboard with one page open at a time, and only the
features and access control pages hide their controls while they load (`HidesWhileLoading`). In
`AuthSession` the tabs share `storedToken`, and each keeps a token and a verification of its own;
`orphaned` remembers that a tab removed a stored token other than the one the server had refused.

## Runs

| Run | Instance | Shows |
|---|---|---|
| `upload_safety` | 2 screenshots, any number of sessions and crashes, 1 Drive file each, no abandoned receive | types; `ExclusiveUpload`; `RowsHaveFiles`; `DeliversScreenshots` |
| `upload_session` | one short session over 2 files, each left over or new, 1 abandoned receive, with fairness | `NoDoubleQueue`; `UploadsEnd`, `StopTerminatesOrStuck` |
| `pipe_sessions` | 2 agents of one session, one message too long, stop at any time, with fairness | types; `NoMixedSecurity`; `NoStaleRegistration`; `ConnectionsEnd`; `RegisteredIsHeard` |
| `settings_safety` | main thread and 2 tasks, 1 page, 1 save of either switch, and 1 crash or 1 failed call, save or watcher | types; `LoneFetchConverges`; `TornIsTransient` |
| `settings_live` | main thread and 1 task, an adoption, 1 save, 1 lost socket, 1 crash, no failed call, with fairness | `EveryChangeIsFetched` |
| `connection` | one known computer with or without its file, 2 ids, watchdog and 2 recoveries, 2 faults of any kind, with fairness | types; `OnlineIsReal`; `DiskMatchesMemory`; `ComesOnline` |
| `server` | 1 machine, pending at first, 2 operations, 1 list under way; 2 saves, 3 power changes; periods 0, 1 and 2, 1 row, 1 edit; 2 consents; with fairness | types; `ActiveMeansAdopted`; `ListConverges`; `SettingsSurvive`; `StatusSettles`; `OnlyExpiredRowsGo`; `OldRowsGo`; `DisconnectSticks`; `RevokedConsentGoes` |
| `pages` | 2 computers, ids and names; 3 reports, 2 at once; 5 screenshots on 3 pages of 1; 3 audit events, 1 change; sessions on 3 pages of 2; every field of the picker; 3 days, 2 windows, 1 edit between two loads; 2 machines, 2 features, 3 acts; 2 tabs, 2 logins, 2 reloads | types; `CredentialsWork`; `SessionsCoverActivity`; `OneRowPerKind`; `OnlyCursorsAreMissed`; `ViewIsCurrent`; `LogHasNoHoles`; `TypedIsShown`; `EditorIsFaithful`; `CarefulEditsStick`; `TabsAreSound` |
| `upload_tracked_swallowed` | one session | violated: "Track queued files" |
| `upload_deleted_at_shutdown` | one session | violated: "Only delete the file if upload was successful" |
| `pipe_duplicate` | 2 agents of one session | violated: a connected agent is registered |
| `settings_not_enforced` | main thread and 2 tasks, 2 saves | violated: an enabled schedule is enforced |

Why the bounds are enough. Two screenshots are the fewest that can compete for the permit and
stand in one queue; a second Drive file of one screenshot changes no guard. One abandoned
receive takes one item, and a second one the next in the same way; it only matters to the queue,
and is left out where the queue is not asked about. Two agents are what a
duplicate session takes. Two tasks are what an overlap of fetches takes, in
each manager and in the file; one save is what makes them differ, and one fault (`MaxFaults`) what
each exception of the properties names. Two recoveries are what the
doubled `machine:connect` starts; two faults let one hit the repair of the other, a lost file
beside a changed id included; three keys are all that two restored databases lead to. A first
registration is not an instance of its own, since a restored database leads to it. The safety
properties of all modules are proved for all values of all bounds, so what rests on the instances
alone is liveness; for safety they check the models and the proofs' hypotheses.

In `server`, entries of different machines do not interact in a list (what a list does to one entry
does not depend on the others, and `ActiveMeansAdopted` is proved for any number), so one machine
and two operations are enough for a late list to meet a changed row; two saves separate "the
last" from "an earlier" one, and three power changes let a machine go off, come back and go off while
a probe is out. Ages up to 3 pass every period; the row's kind and the periods of the
tables are chosen freely, so one row meets every run. Two consents are an old and a new one. In
`pages`, pages of one or two rows put every boundary where it can be crossed, and three of them give
a page in the middle; two reports at once are the fewest that overlap, two tabs the fewest that
share a token, two features the fewest whose copies can be posted over each other, and three days the fewest
with a gap in a range. All keys of all fields of the time picker are tried; its two starting hours
are midnight and an afternoon, and `TypingShows` covers the others.

`CHECK_DEADLOCK FALSE` stands where the modelled system may come to rest: a session that has
ended, agents that have all exited, no change left within the bounds.

Fairness. In `UploadPipeline` started operations return (HTTP requests have a timeout, file
operations end) and the semaphore is handed to its waiters in turn (`SemaphoreSlim` queues
asynchronous waiters), hence strong fairness for acquiring it; new screenshots, ageing, the
5 s timeout and the shutdown are never forced. In `PipeSessions` threads run and a process
that exits closes its handles. In `SettingsSync` threads and loops run, the socket library and
the watchdog reconnect, what was sent on a live socket arrives; saving, adoption, losses,
crashes and failures are never forced. In `ServerConnection` threads run, the server handles
what it receives and the events of a socket are raised; the library's own reconnection is
not forced, since the watchdog does the same. `ComesOnline` holds although a recovery
may delete what another one has just obtained, because the watchdog starts over.

In `server`, requests are answered, handlers go on and the dashboard's 10 s timer ticks while its
socket is up; the ping job runs, a running service reports; scheduled jobs start again for ever,
statements return and time passes; access tokens expire, machines ask for credentials again, and
Google does not answer with a transient error for ever (strong fairness of `GoogleAnswers`).
Users, faults and power changes are never forced. A list converges *if* the socket stays up at
the end, because the client switches the library's reconnection off (`ListConverges` says so). `pages` claims no
liveness.

What the violations say. *Swallowed file:* the receive that lost against the 5 s delay stays
linked and takes the next file, which is then tracked but never processed. *Deleted at
shutdown:* an upload that is skipped because of the shutdown looks successful to the processor.
*Duplicate:* the rejected second connection of a session removes the first one's registration.
*Not enforced:* a stop that was decided on old settings is carried out after new settings
were applied. Two relatives have no run: `ShutdownCoordinator` waits without its timeout when
a cancelled processor leaves items behind (the exception in `StopTerminatesOrStuck`), and
`StopEnforcementAsync` may cancel a new loop and wait for the old one for ever.

Noticed while modelling, and modelled as the code has it, without a run of their own:

- The history of activities goes after the heartbeat period (48 hours by default) whatever the
  retention page says about it, and `deleteDriveFiles` is stored but nothing acts on it.
- Windows event ids name a kind of event, and the server stores an id once per machine:
  of later events of the kind nothing is kept ("persistent log of all security events", `src/README.md:28`).
- `web/status.ts` builds its text without a connection status: every machine is "Offline" there.
- "HTTP fallback handles everything" (`socket.ts:16`): nothing polls while the socket is down.
- The gallery takes the extra row off a page and then skips it as the cursor: it is never shown.
- Undo of an acknowledgement clears the flag of the event like an acknowledgement.
- The Drive card reads `isExpired`, the server sends `expired`. `machine:adopted` has no
  listener in the dashboard.
- An acknowledgement answered after a change of view refetches nothing: the view open by then may keep
  the old status until something else makes it fetch.
- Saving an untouched schedule editor switches enforcement on, also of a schedule that was disabled
  (`AccessControlConfig.tsx:111`).
- An adoption that fails after its first statement leaves an active machine without settings, for
  which Adopt is offered no more (`machineService.ts:183`).
- A watcher that cannot be created is only logged, and the settings are reported as applied.
- Choosing the half of the day that is shown already toggles it.

What some properties do not say, since the code does not do it. `DiskMatchesMemory` excepts a save that
could not open the file. `OnlyExpiredRowsGo` asks for a period that was once stored for the table, so
the activity history going after the heartbeat period passes. `LogHasNoHoles` speaks of the sessions
there were when the log was opened: those begun since may be missing until a page is fetched again.
`CarefulEditsStick` is about one dashboard: a copy loaded in a second tab still overwrites what the
first one saved. `TabsAreSound` excepts the removal of a token another tab has stored.

## Proofs

Every safety property that a run checks is a theorem: it holds for every value of the constants
under the modules' named assumptions. These say that bounds are naturals (pages, limits and
the grace period, which is twice the heartbeat interval in the code, at least 1), that the special values (no
request, no page, unset, unknown) differ from the ordinary ones, that the sets of tokens are finite
sets of numbers, and that the sessions of the activity log are numbered from 1.

Two helpers are recursive: the groups of the schedule's summary and the rows of the activity log. They
are recursive functions over an interval of numbers, and what they compute for every input is
proved by least counterexamples: `LeastDay` (every non-empty set of naturals has a least element,
from the well-foundedness of `<`) is applied first to the lengths up to which the recursion has no
solution (`GroupsDefined`, `MergedDefined`) and then to those at which the result is wrong
(`AllGrouped`, `AllMerged`); one day or one session more is a lemma of its own (`DayAdded`,
`SessionMerged`).

**UploadPipeline.** `ExclusiveUpload` is not inductive. `Invariant` proves `IInv`: the type
invariant; `ProcFile` (the processor has a file exactly in the states that use it);
`RowsBacked` (rows plus the notifications still to be sent never exceed the copies);
`DeleteBacked` (a handler or processor about to delete has a copy, or a shutdown has begun);
`StopOrder` (the flags of the stop sequence follow its position, and waits with a limit begin only
in it); and `PermitHeld` (until a permit is `stolen`, an active upload means it is taken, and by
nobody else). From it
follow `TypeCorrect`, `UploadsAreExclusive` and `RowsAreBacked`. `ScreenshotsAreDelivered` is the
refinement: initial states map to initial states, and each step maps to a step of
`ScreenshotDelivery` or a stutter. Four lemmas say what a copy, an announcement, a removal and a
step that touches nothing of it map to; one lemma per group of actions (handler, temp files,
processor, stop) names the one that applies, with `IInv` where it takes a copy to exist before a
deletion. `QueueHasNoDuplicates` has an invariant of its own about sequences.

**PipeSessions.** `TypeCorrect`; `RegistrationsAreLive`, from an invariant that says which
handler positions can be registered and that no one has registered before its turn;
`SecurityIsUniform`, from one that ties the listener's flag to the instances.

**SettingsSync.** `TypeCorrect`; `TornFilesAreRepaired`, from one about who may have the file
open; and `LoneFetchesConverge`: `LoneInv` says, for each position of a fetch that runs alone,
what already agrees with what it fetched, and that no other thread is past its resting
positions. This is the property that matters most about the settings: whatever concurrent
fetches have left behind, one undisturbed fetch puts right. The two things that can keep it from
that are named in the property: a save that failed, whose older or torn file remains, and
watchers that could not be started.

**ServerConnection.** `TypeCorrect`, from `TInv`: what is stored or answered is a row with an
id and a key (`Carried`), before its start the service has no socket and no recovery
(`Started`), and nothing is under way on a socket that is not up (`LinkEmpty`). All actions of
a thread go through one lemma, `MoveTInv`, about a thread that moves on and what it may touch.
`OnlineMeansAccepted` (`OnlineIsReal`) adds `Promised`: a confirmation under way belongs to a
socket the server has accepted. `DiskFollowsMemory` (`DiskMatchesMemory`) needs to know of every
thread what it carries: the server has at most one row of this computer, and a row on its way into
memory or into the file is that one (`OneRow`); a file that is open is empty and belongs to the one
thread that writes it, and who is about to save saves the current row (`Saving`).

**MachineList.** `ActiveMeansAdopted` depends on what the dashboard may be shown, however late: a
pending machine must not be archived, since unarchiving would activate it. `AInv` therefore says
that a status other than pending is stored (`RowsKnown`), displayed (`Known`) or queued in a list
or request (`WorkFine`) only for adopted machines, and that an adopted one has settings, or its
adoption is still running, or failed between its two statements (`Settled`).

**MachineState, DriveTokens, Retention** (`VorsightServer_proofs`). `SettingsAreKept` needs no more
than the types: no writer's stale copy of the settings reaches an existing row, whatever it has read.
`DisconnectIsFinal` rests on row ids, which are never reused: whoever read a row before the disconnect
finds none of that id afterwards, and whoever read the one that is there carries a consent stored in
it (`TokensKept`). `NothingGoesEarly`, an action property, needs that the periods a run works with,
also those of a settings row replaced since, were once stored for their table (`PoliciesSeen`).
`ServerTypes` and `ServerPartsAreSafe` carry all this over to the composition, in which each part takes
only steps of its own specification, so that the invariants of all of them hold together.

**MachineAccounts.** `CredentialsOpenTheirAccount`, from `GivenOut`: what was given out carries
the key of its id, and rows are never deleted.

**MachineIngest** (`VorsightPages_proofs`). `KindsAreStored` (`OneRowPerKind`) holds whatever
overlaps. The invariant (`StoredOnce`) adds that a handler about to store an event had arrived before
every row of its kind was stored, since it found none, and that one about to announce has its row.
`SessionsCover` speaks of activities whose handlers do not overlap, which the invariant turns into
`Alone`: at most one of them is in progress. Then everything stored ended before the
activity in progress began, and the session its handler has read is unchanged (`Timeline`); all other
activities are covered (`Covered`) and counted (`Counted`). The step that matters is the one that
extends a session or begins one: the activities covered are those covered before and the new
one, so cardinality and count grow together.

**AuditLog, Gallery** (`VorsightPages_proofs`). `ViewKeepsUp`: as long as the open view was told of
all changes, what it shows, or what its request has read, are the current rows, unless a change sent
from this very view is written and its answer, which makes it fetch again, still to come (`AuditInv`).
`GalleryHasNoOtherHoles`: a cached page has no hole below the cursor it was requested under
(`PageFine`), pages follow each other downwards (`InOrder`), and what lies above the end of a page is
on it, on an earlier one, or an earlier one's cursor (`WithoutHole`). This holds of the pages shown
and of the run of requests that replaces them, and survives rows that are added or deleted between
two requests.

**AuthSession, TimePicker** (`DashboardPages_proofs`). `TabsStaySound` needs `TokensInOrder` (the
oldest token expires first, and what is stored is the newest or nothing) and `OneVerification` (a
tab verifies one token at a time, and an invalid one stays invalid). `TypingShows` adds to the
property the shape of a typed pair: none, a first digit within its two seconds, or both.

**SettingsPages, ScheduleEditor, ActivityLog** (`DashboardPages_proofs`).
`CarefulUsersGetWhatTheyChose`: while a user waits for every answer, there is at most one save, it
posts exactly what was chosen, and what is not written yet is all the stored settings lack
(`OneSave`); every answer under way is for the selected machine and current (`FreshAnswers`); without a
save nothing is missing (`AtRest`). `EditorMeansSchedule` has two halves: the fields of an unedited
editor are the copy of what it was given (`EditorIInv`), so that a save stores the same schedule,
enforced; and the printed summary lists each day under
its window (`SummaryOfSchedule`), because every group holds days of one window and every day with a
window is in a group (`Grouped`), and days that follow each other are the range their label prints.
`NoSessionIsPassedOver`: an older session is on a cached page or has at least as many newer ones as
those pages have places (`LogIsCovered`), so that pages fetched at different times leave no hole
(`PagesHaveNoHoles`); and the merged rows hold each listed session once, under its window, in the
order of time (`RowsUpTo`).

**VorsightPages.** `DashboardTypes` and `PagesPartsAreSafe`: the nine parts keep their invariants
also when they are composed.

Only model-checked: liveness (`UploadsEnd`, `StopTerminatesOrStuck`, `ConnectionsEnd`,
`RegisteredIsHeard`, `EveryChangeIsFetched`, `ComesOnline`, `ListConverges`, `StatusSettles`,
`OldRowsGo`, `RevokedConsentGoes`), since fairness and `ENABLED` are beyond the prover; and the
violations, which are single behaviours.

## Not modelled

Pure I/O and wrappers, whose behaviour is that of their libraries: Windows interop, screen capture,
Drive folders and file streams, log batches, installers and workflows. Stateless code: command
dispatch, the analytics, log and system routes, charts, the screenshot viewer and formatting. Of the
machine: the window watcher and the audit filters in front of what `MachineIngest` receives, the uptime and
summary files (one writer each), the minute arithmetic of one access window, the local HTTP API (one
more writer of the settings, of the kind `SettingsSync` has), and clocks that step back: a report's
times never precede the previous report's. `PROJECT.json` says for each hazard without a property why.

What would come next: an abstract specification of the enforcement (at most one loop, alive while the
schedule is enabled) for a `ScheduleManager` whose calls do not overlap; and the window watcher joined
to `MachineIngest`, so that one property reaches from the focused window to the stored session.
