# TLA+ models of the Avira Phantom VPN service

The repository holds the decompiled C# sources of Avira Phantom VPN for Windows: a
Windows service that runs OpenVPN and blocks the traffic outside the tunnel, a web user
interface (JavaScript) in a host window and a notifier that talk to it over pipes, and the ACP library, by which the
service talks to Avira's launcher and its backend. It has no tests and next to no
documentation, so everything below is translated from the code. Paths are given from
`src/`; `VpnService/X.cs` is short for `src/Avira.VpnService/Avira/VpnService/X.cs`, and
`vpn-1.0.0.js` for `src/References/App/js/vpn-1.0.0.js`.

Contents: [inventory](#1-inventory), [modules](#2-the-modules-and-the-code),
[runs](#3-the-runs), [fairness](#4-fairness), [proofs](#5-the-proofs),
[left out](#6-what-is-not-modelled), [plan](#7-plan), [use](#8-use).

## 1. Inventory

### How the parts interact

```
 page (MessageBus) --> host window (HostRouter, PipeMessenger)
                              |
                              +--pipes--> VpnService --Connect / Disconnect--> OpenVpn
                                        ^    \                              |
                     StateChanged       |     \ Block / Unblock             | one Session per attempt
                     (on the thread     |      v                            v
                      that changed it)  |   NetworkBlocker              Session --> OpenVpnExe --> openvpn.exe
                                        |                                   |                         |
                                        +-----------------------------------+                         | TCP
                                                                            ^                         v
                                                        NotificationSource  +---- ManagementEndpoint (reader thread)

 OeAuthenticator (access token, AsyncLock) --requests--> ACP broker of the service
 ACP broker of the service <==== duplex named pipe ====> ACP broker of the launcher
```

There is no central event loop. A call from a client runs on a thread of the pool, what
OpenVPN says on the reader thread of its session, the end of a process on another thread
of the pool, and every one of them changes the session's state and runs all the handlers
of that change, up to the network blocker, on its own stack. One lock
(`OpenVpn.sessionWriteLock`) is taken by two methods, `Connect` and `Disconnect`.

### The components

| Component | State | Operations | What is hard | What makes it correct | Status |
|---|---|---|---|---|---|
| Connection engine (`OpenVpn`, `Session`, `OpenVpnExe`, `NotificationSource`, `AbandonedProcess`) | session, its state and error, the process, the reconnect counter, the region | Connect, Disconnect, reconnect after an error, fallback from udp to tcp, exit of the process, every notification | a reconnect in the pool against the user; exit handler against reader; `WaitForExit` raises `Exited` on the thread that waits; waits without a timeout under the lock | one process; a dead session ends up Disconnected; Disconnect returns; reconnects end; clients see the state | partly: without traffic counting and tracking |
| Kill switch (`VpnService` status handler, `NetworkBlocker`, `AppSettings`, `VpnNotifier`) | setting, `disconnectWasRequested`, block | block after Connected (500 ms later), keep or lift the block after Disconnected, toggle, unblock, stop of the service | a flag set on one thread and erased by any Disconnected on another; the blocker is a process that is waited for between a decision and what follows it | a drop stays blocked; a requested disconnect does not; off means no block left | partly: no failing blocker, no licence without the kill switch |
| Management interface (`ManagementEndpoint`, `OpenVpnClient`) | queue of commands, reader | Request, Dequeue, notification, reply, end of stream | replies carry no number; a reader that dies without `StreamClosed` | a reply belongs to the head; a command never waits behind an idle connection | modelled |
| ACP broker and remote endpoints (`AcpMessageBroker`, `RemoteMessageProcessor`, `ResponseMessageHandler`, `NamedPipeAdapter`) | ids, response handlers, pool, pending requests | initialise, forward, serve, return a response, not found, failed forward | both sides number from 1; both initialise at once; the pool reorders | a response meets its request; both initialise; every request is answered | partly: no subscriptions, no reconnect of the pipe |
| Asynchronous lock (`AsyncSemaphore`, `AsyncLock`) | count, queue of waiters | WaitAsync, Release | the count is handed over after the lock has been left | no count lost; no overtaking; everybody is served | modelled |
| Access token (`OeAuthenticator`) | token, its time, stored token | AccessToken, Refresh, UpdateAccessTokenIfNecessary | Refresh takes no lock; the token may be null at every further read | a valid token is kept; stored and announced token agree; a changed user gets a token | partly: polling appears as Refresh |
| Wi-Fi autoconnect (`WifiManager`, `WifiNetworkManager`, `InternetConnectionMonitor`, `KnownWifis`) | known networks, connected network, checker thread | StatusChanged, Trust, Untrust, Delete, checker | events of the system against the checker; `AutoconnectId` is set after the event it belongs to | leave a Wi-Fi and its autoconnect ends | planned |
| Resources and subscriptions of a broker (`ResourceHandlersMap`, `SequentialDispatcher`, `RemoteResourceRegistrator`) | providers, substitutes, subscriptions | subscribe, unsubscribe, dispatch a notification | one work item per notification, on a pool without order, while the list changes | each subscription is told everything once, in order, one call at a time | partly: no providers, no substitutes |
| ACP client (`AcpCommunicator`, `ResourceClient`) | connection to the launcher | connect, request with a timeout, retry | late answers, no timeout for POST | a request ends | planned |
| Client messaging (`HostRouter`, `PipeMessenger`, `Router`, `ReflectionService`) | connection state of three values, streams, subscribers | send (connects when needed), close, subscribe, request | every envelope is sent from the pool; what is sent while another thread connects, or while the pipe closes, is dropped; a service that stops before it has connected back is never noticed | nothing the page needs is lost for good | partly: the host's end, and what the service does with an envelope |
| Message bus of the page (`MessageBus`) | callbacks by topic, callbacks by request id, tasks of `$timeout` | request, subscribe, trigger, reestablishConnection, dispatch | ids drawn at random; a reply may never come; the service forgets its subscribers | a reply reaches its own callback; requests settle; topics are subscribed again | partly |
| Connecting in the page (`VpnService`, status directive, region list, traffic) | the status three times, the region twice, the limit three times, the callback of a switch | button, tray icon, choice of a region, notifications | the service's messages arrive in any order; the parts tell each other by tasks; a switch waits for a Disconnected that may mean something else | the parts agree; a stopped connection stays stopped; a switch does not hang | partly |
| Settings in the page | three copies of the service's settings | toggle, "don't show again", consent, refresh | a part sends its whole copy to change one field | what the page shows is what the service does | partly |
| Views and header of the page | the view, the way back, the title, the header | links, back, header, first requests | first answers in any order, each of which may change the view | the user can always get back to the main view | partly |
| Periodic work and remote data (`PersistentTimer`, `Traffic`, API clients) | stored time, counters, cached answers | start, fire, count | overflow of the delay; an exception ends the loop | it fires again | planned |
| Portable engine (`OpenVpnManager`, `VpnController`) | like the engine | like the engine | like the engine | like the engine | not modelled: nothing in the tree creates it |
| ACP cache (`SmartCache`) | cached resources | proxy of the broker | | | not modelled: nothing in the tree switches it on |
| Settings and storage; notifier; OS access | files; windows; none | read and write; show; P/Invoke | | | not modelled: I/O without control of their own |
| Sign-in library, bundled libraries, first run page | | | | | not modelled, see section 6 |

`PROJECT.json` lists the hazards found in the code, at their lines, with the properties that
would catch them, or the reason why none does.

## 2. The modules and the code

```
ConnectionStatus <- KillSwitch <- OpenVpn <- MCOpenVpn, OpenVpn_proofs <- OpenVpnReconnects_proofs
ManagementEndpoint <- MCManagementEndpoint, ManagementEndpoint_proofs
   Channel == INSTANCE CommandChannel              (abstract specification)
AsyncSemaphore <- MCAsyncSemaphore, AsyncSemaphore_proofs
   Promise == INSTANCE Semaphore                   (abstract specification)
OeAuthenticator <- MCOeAuthenticator, OeAuthenticator_proofs
   Lock == INSTANCE AsyncSemaphore WITH InitialCount <- 1
AcpEndpoints <- MCAcpEndpoints, MCAcpBroker <- AcpBroker_proofs
   Subs == INSTANCE Subscriptions                  (in MCAcpBroker)
Subscriptions
   Promise == INSTANCE Delivery                    (abstract specification)
MessageBus <- MCWebUi <- WebUi_proofs
   Gui == INSTANCE GuiConnection, Pages == INSTANCE GuiViews      (in MCWebUi)
GuiConnection <- GuiConnection_proofs
   GuiProof == INSTANCE GuiConnection_proofs       (in WebUi_proofs)
GuiSettings
```

An MC module only adds the symmetry sets, or nothing but the place for TLC to start. `MCWebUi`
puts three modules of the page into one run: `part` says which of them a behaviour
is about, the variables of the others stay as they start, so the states of the parts add up
instead of multiplying. `MCAcpBroker` does the same for the endpoints and the subscriptions.

### OpenVpn (with KillSwitch and ConnectionStatus)

*Threads.* `Workers` stand for the threads of the pool, on which clients' calls and
queued reconnects run; every session `s` has `Reader(s)`, the thread of its
`ManagementEndpoint`, and `ExitThread(s)`, the pool thread that raises
`Process.Exited`. The control state of a thread is a stack of frames, `stack[t]`, as the
code nests: a reader that handles `FATAL` calls `Disconnect`, whose `WaitForExit` may call
`OnOpenVpnExit`, which changes the state, and so on down to the handler of the kill switch.
One step runs up to the next point where another thread can come in: a lock, a wait, a
sleep, the raising of an event, or the start or end of a process. `note[t]` is the status a
thread is propagating, `arg[t]` the arguments of its `Connect`.

*Sessions.* `session` is the current `Session`, `sess[k]` all of them (older ones live on
in handlers), and session k owns the process `process[k]`: whether it runs, whether its exit
has been raised and whether `Bind` had subscribed by then, the notifications written and not
read, and `closed`: `NotificationSource.SourceClosed` set (`yes`), not yet (`no`), or never to
be set as the reader died on the way (`never`). `quitEvent` is the event
(`AviraVPNOpenVpnQuitEvent`) by which `Stop` asks the process to end.

*Regions.* A region is an object that a call of `Connect` brings (`regions`, one per call, each with
the protocol it has now) and that later steps refer to: `latestSelectedRegion` and the
`region` of `arg[t]` are indices into `regions`. This matters, since `RetryWithFallbackProtocol` writes
tcp into the object itself, and whoever holds it connects with tcp from then on.
`OfferedProtocols` are the protocols a call may bring.

*Kill switch.* `KillSwitch` holds the four variables of `VpnService` and its neighbours and
the pieces that its handler and `AppSettings.Set` fall into at their blocking points; `OpenVpn` calls them from
frames of its threads. `NetworkBlocker.Disable` runs a process and waits for it, so it is always a step of its own
(`DisableBlocker`): the handler of Disconnected reads the flag and the setting (`invoke`), then the blocker
runs (`unblock`), then the flag is erased (`forget`); the handler of Connected decides, sleeps and blocks (`enable`);
switching the kill switch off lifts the block (`switchOff`) and then stores the setting (`storeOff`), while switching it on only
stores it. Every other thread may come in between. Two history variables say where that leads: `late` is the
set of threads that decided to unblock before the kill switch was switched on, `reblocked` that a block was there again when
"off" was stored. `ConnectionStatus` has the pure decisions: what is retried, what falls back to tcp.

*A service that stops or dies.* `CallStop` is `OnStop`: it disconnects as a client does, while everything else goes on, and then the process
ends. `Restart` is that end, or that of a service killed at any point, a crash included, and
the start of a new one: nothing in memory survives, the setting, the filters and an OpenVPN process do. So a stop
with the kill switch on lifts the block if its disconnect gets so far.
`CleanupEnvironment` decides about the filters; the process may take longer to quit than it is waited
for, so the next `Connect` may still find it.

*What the code's surroundings guarantee.* The command line
(`VpnService/CommandLineParametersBuilder.cs:8`) has `--remap-usr1 SIGTERM`,
`--management-hold` and a quit event, so OpenVPN ends where it would otherwise restart by itself;
the handler of `RECONNECTING` is there all the same and is in the model. Setting the state
property and the decision in `TryReconnecting` are atomic; `CleanRunningInstances` and
the network blocker's process succeed; the null dereference in `TrackConnectionError` is swallowed by
its caller. `EnableNetworkBlockerOnConnect` is on, as in `app.config:68`.

### ManagementEndpoint, CommandChannel

The reader thread of `ManagementEndpoint`, `requestQueue` with its `active` flags, the
commands that `Session` gives from within the handlers of notifications (hold, user name,
password and so on; what each kind of notification asks for is `CommandsOf`), and OpenVPN as the other end of the wire: it executes what it reads, in order,
answers SUCCESS or ERROR, writes notifications at any time and may exit at any time. A
payload is a number: the command's place in the order of requests. The lock on the queue
has no contention, since only the reader's thread calls `Request`. `CommandChannel` says what this promises: commands are executed in order,
one at a time, and none is executed that was not given.

### AcpEndpoints

Two brokers, each with its pool of work items (a set: the pool keeps no order), its id
counter, `responseHandlers` and a reader thread for its end of the pipe, which is two sequences.
Each peer initialises by asking the other one for its lists, registers the proxies, and then
processes the requests that its reader held back in `pendingRequests`. Each client's request is given an id by its own broker and another one when it is forwarded,
and both processes count from 1. The window between the reader's test of `initialized` and its
`AddPendingRequest` is two steps, as in `RemoteMessageProcessor.cs:86`.

### Subscriptions, Delivery

`subscriptions` is the list of `RegisteredSubscriptionHandlers`; a notification is dispatched
by a thread that copies what matches (`handlers`), then enqueues it at one dispatcher after the other and asks the
pool for a work item each time, with `calling` the moment in between. `workItems` counts what the pool has
been given, since the items of a dispatcher are all the same: they take the lock on the
handler, then the first of the queue. `enqueued` and `handled` are history variables. A subscription that is removed
still gets what was enqueued, or is going to be, from copies of the list: this is what the code does.
`Delivery` is the promise: told once, in the order of sending, and never while the call before is running.

### AsyncSemaphore, Semaphore

`WaitAsync` is one step (all of it is under the lock). `Release` is two: what it does under
the lock (count, or take the first of the queue) and `SetResult`, which runs outside. `woken` are the tasks in between.
`Semaphore` is the abstract one: a set of holders, never more than the count.

### OeAuthenticator

`pc[t]` follows `UpdateAccessTokenIfNecessary` through the lock, the request with the
refresh token, the one with the device, and the assignment, storing and announcing of the
answer. The steps are as fine as the reads of `authentificationData`, since `Refresh`
sets it to null without taking the lock. A task is a slot of the pool: the property's getter starts an update of its own and does
not wait for it; inside an update the getter starts another one only while a slot is free
(bound `Tasks`). A token is a user and a number; `Expire` makes it old, `UserChanges` signs
somebody else in. `known` is a history variable: whether the last change of the user was followed by
a `Refresh`, and whether that one overtook a request under way (`OeAuthenticator.cs:326`), the case in which the
answer for the former user is found valid and kept until it expires.

### MessageBus

The page's `MessageBus` with the path of its envelopes. `callbacks` and `requestCallbacks` are
the page's tables, `timeouts` the tasks it has given to `$timeout`. `work` counts the work items
by which `HostRouter.Send` sends; `pipe` is the state of the `PipeMessenger`: none yet, `down` (0),
`opening` (1, no stream yet), `half` (1, with streams: the host writes, and waits for the service to connect back),
`up` (2, the host reads), `closing` (streams gone, state not yet 0), and `lost`: the service stopped at `half`. Nothing
resets the state then, since only `Connected` does (`PipeMessenger.cs:101`), which runs when the service connects back: all that the host sends from
now on fails. The service reads from the pipe only once it has connected back (`PipeCommunicatorServer.cs:77`). A work item
that finds `opening` or `closing` drops its envelope (`outMessageStream?.WriteMessage`). The one that
finds `down` connects, and in `Opened` reports `connectionReestablished` and sends its own envelope. Both this event
and the start event of the service lead to `reestablishConnection`. Ids are drawn from `Ids`, equal ones
and zero included. The service stops and starts; what is in the pipes at that time
may be lost, subscriptions are. Assumption, named at `ServiceStarts`: starting takes longer than the host
needs to notice the end of the old pipe.

### GuiConnection

`VpnService` (the page's service of that name), the status directive, the region list and the flags
of the traffic limit. A request is an item of a pool in the host (`HostRouter.cs:57`), again in the service
(`PipeMessenger.cs:80`), and a connect a third time (`VpnService.cs:520`); a reply or notification is one in the host. So
`toService` and `toPage` are bags, from which any message may arrive next, equal ones counted. From there on
there is an order: every message and every `MessageBus.trigger` is a task in `timeouts`, run one at a time, first in first
out. The service is reduced to its status and what it answers to
connect and disconnect; `OpenVpn.tla` is about the rest. A region's host is not in the state: another region may have
the same one, and then it is selected without a new connection (`SameHost`).

Four history variables name what the order of messages does to the page. `wish` is what the user last asked
for. `overwritten`: a reply to one of the two requests for the status came too early or too late to show it. `newest`: what became of the
service's newest notification of its status, which the page shows unless an older one arrived after it (`overtaken`).
`misled`: the last switch of region closes a connection that is closed already, with no news of that under way.

### GuiSettings

The service's settings as one record and the page's three copies: the switches, `VpnController`,
and the question about diagnostic data. Each part sends its whole copy.

### GuiViews

`currentView`, `back`, the title of the settings directive (the view it is of, and whether it was
written in the user's language), the header, and the requests that the page makes when it is loaded, answered in any order.
This is the build "phantom" on Windows: `showThemeSelection`
is on, there is no forced login, the licence counts as Pro (`vpn-1.0.0.js:6904`) and the page is not
sandboxed. Answers whose callbacks change no view by a task arrive when they run (`Silent`), and a
click falls between two bursts of tasks. `late` is the history of
answers that came after what they are for.

## 3. The runs

Sizes and times are for two workers.

| Run | Question | Bounds | States |
|---|---|---|---|
| `engine` | Can calls, readers and exits in any order, or a service that is killed, give two processes, or a dead session that is not Disconnected? | 2 workers, 2 sessions, 2 calls, 1 restart, 2 notifications per process of CONNECTED, FATAL, ERROR reply | 2.20 million, 110 s |
| `reconnects` | Do automatic reconnects end? | 2 workers, 3 sessions, 2 calls, by the user or automatic, for a udp or a tcp region, 1 notification per process: CONNECTED or an error in the log | 2.84 million, 125 s |
| `drops` | Do the clients see the state, and does the kill switch do its work when connections drop and the service stops or dies? | 2 calls, 2 sessions, 1 restart, 1 notification per process of CONNECTED, error in the log; connect, toggle, unblock, stop; no Disconnect | 2.12 million, 110 s |
| `returns` | Does Disconnect return, and is the exit of a process noticed? | 1 session, 2 calls, 2 notifications of seven kinds, fair | 139 000, 45 s |
| `commands` | Are replies taken for the right commands, and every command answered? Is it a `CommandChannel`? | 3 notifications, up to 4 commands each, fair | 13 200, 2 s |
| `replies` | Do responses meet their requests through two brokers, and does a peer that serves know the resources? | both peers make a request, the pipe may break | 4.4 million, 67 s |
| `initialize` | Do both sides initialise, and is every request answered? Are subscriptions told everything, once and in order? | endpoints: one peer makes a request, the pipe holds; subscriptions: 2, with 3 notifications, one of which is for one of them; fair | 107 000, 1 min |
| `count2` | Is it a semaphore, does nobody wait for nothing, is everybody served? | 4 tasks, count 2, fair | 129, 1 s |
| `token` | Is a valid token kept, storage and listeners up to date, every update ends? | 2 tasks, 2 users (one anonymous), 3 tokens, fair | 473 000, 30 s |
| `web_ui` | Bus: do replies reach their callbacks, do requests settle, are topics subscribed at last? Connection: do the parts of the page agree, does a stopped connection stay stopped, does a switch end? Views: can the user always get back? | bus: 2 requests, 1 topic, ids 0 to 2, 2 stops of the service (the second with one request at most); connection: 2 regions, 2 acts of the user, 1 change by itself, 3 different messages and tasks under way, 2 of them tasks; views: 4 clicks; fair | 675 000, 130 s |
| `drop_unblocks` | The first disagreement below | 1 session, 2 calls | violated |
| `kill_switch_lost` | The second one | 2 acts of the user, 1 change of the licence | violated |

*Why these bounds are enough.* The races of the engine are between one call, one reader,
one exit handler and one other call; two workers, two sessions and two calls have all of
them, and two sessions have what an old session can still do to the new one. A retry after an error is counted twice and a fallback to tcp happens once per call, so one
call alone makes three sessions at most: `reconnects` has three, and a second call whose region
the first one's reconnect may pick up. Two notifications are enough to connect and fail.
Three notifications to the management interface fill the queue with several commands, so
that replies and notifications mix. One request per peer is enough to have
equal ids on both sides under way at once. Four tasks on a count of two have two
holders, a woken one and a waiter. Three notifications to one subscription can be in the queue, handled and on the way at once, and a second
subscription lets one thread be between two dispatchers. In the page, two requests are enough for a shared id; two stops of the service are needed for a
connection that fails while it is being made. Two acts of the user are a switch of region and a cancel, or a
limit and its removal; one change by itself is a drop. `MaxUnderWay` and `MaxTasks` hold a message or task back, they lose none: what
is held back comes later, in any order. Three under way are the two replies and a notification, or two
notifications and a request, in every order. Four
clicks go through the whole diagnosis, the longest way from the main view. Two tasks are one in the
middle of an update and one that calls Refresh, waits for the lock or reads the
token; three tokens let a refreshed token be refreshed again.

`CHECK_DEADLOCK FALSE` is used where the system may really stop: all calls made, the
process gone, the pipe broken, or no token left to issue (the bound).

*Exempted cases.* Some promises do not hold in corners that the model reaches; the
properties name these instead of leaving them out of the model. The bounds of the runs reach them: a property
without its exemption is violated.
- `NeverCloses` (in `DisconnectReturns`, `ExitIsNoticed`): the reader of a session dies of a
  command it could not send, or disconnects and then waits for what only itself can do.
  `OnOpenVpnExit` then waits for `SourceClosed` for ever, and `Stop`, under the lock, for the process.
- `ClientsSeeTheState` is about the first session and the statuses since the service started: an older session's exit handler may
  publish its Disconnected after the next one published Connected.
- `Stranded` (in `RequestsAnswered`): the request that the reader was about to add to
  `pendingRequests` when these were processed.
- `TokenOfCurrentUser` is not about a Refresh that overtook a request.
- `Unlucky` (in `RepliesReachTheirCallback`, `RequestsSettle`): two requests drew the same id, or one
  drew zero, which counts as none: the callback of the first is lost, or runs with the other's reply.
- `reblocked` (in `DroppedLeavesNoBlock`): while the kill switch is being switched off, a Connected handler blocks after
  `AppSettings.Set` has lifted the block and before it stores the setting. If the connection drops in that moment too, its
  handler still finds the kill switch on, and the block stays.
- `late` of `KillSwitch` and `stopping` (in `DropStaysBlocked`): a handler that decided to unblock before the kill switch was
  switched on does so after; a service that is told to stop disconnects.
- `lost` (in `SubscribedAtLast`): the service stopped before it had connected back to the host.
- `overwritten` (in `PartsAgree`): the callback of the status request shows
  `vpnService.status` instead of the reply (`vpn-1.0.0.js:5466`), which may be older than what is shown, or undefined
  if this reply overtakes the one to `VpnService`.
- `newest` (in `PartsAgree`): a notification was overtaken by an older one, which the page then shows.
- `misled` (in `SwitchesSettle`): a page that shows a closed connection as open, because of such an overtaking, asks to close
  it when the user chooses another region. The service says nothing to that, and the switch hangs until something else happens.
- `PartsAgree` asks of the traffic limit only that the list does not refuse what the button offers. The
  converse is false: `removeTrafficLimit` (`vpn-1.0.0.js:5512`) clears the button's flag at once and the others' by a task,
  and a second notification of the limit may run in between (a run needs `MaxClicks = 3` to get there).
- `late` of `GuiViews` (in `NeverStranded`). Without it TLC strands the page in four ways: the language arrives after a
  title was written, so the back button of the settings no longer recognises them and goes to a view
  that was never set; the host's wish to show the settings arrives after the theme selection has been shown; the header's
  answer arrives after the theme has been chosen and disables the header for good; and
  `showThemeSelectionIfNeeded` repeats a view that another task is about to change (`vpn-1.0.0.js:6266`).

### Disagreements between the code and what it says

1. `drop_unblocks`: `DisconnectOpenVpn` (`VpnService/VpnService.cs:1531`) sets
   `disconnectWasRequested` even when there is nothing to disconnect, hence no status that
   resets it; a later drop then lifts the block the user was promised
   (`ResourcesVpnService.resx:40`).
2. `kill_switch_lost`: `VpnController` answers "don't show again" by sending the settings it has had
   since the start (`vpn-1.0.0.js:6412`). A kill switch switched on since then is switched off at the service, and the
   page goes on showing "Block all internet traffic if VPN connection drops" as on
   (`features.html:88`). The same happens to a consent to send diagnostic data that was
   refused, and in the other direction.

Two more formulas of `OpenVpn.tla` do not hold, and no run checks them:
`RequestedDisconnectUnblocks`, the converse of the first (the handler of a drop keeps the block and then
erases the flag a Disconnect has set meanwhile), and `StopWasNotRequested` (`Session.cs:92` remembers a
stop only for a session that was Connected). Put in the place of the property in
`OpenVpn_drop_unblocks.cfg` they show their counterexamples.

Met on the way, and not the subject of a property: the handler of `connectionReestablished` in the
settings calls a function of another scope and throws (`vpn-1.0.0.js:2887`), which keeps it from
sending the settings.

Every property of a passing run has a mutant in `PROJECT.json`: a definition changed as a
plausible bug would change it (the `Mutant:` operators in the modules), under which the run finds the
property violated.

## 4. Fairness

- `OpenVpn`: a thread that can run does, queued reconnects are taken by a free worker,
  readers read what was written, the system raises `Exited`, and OpenVPN exits when
  `quitEvent` is set. The first ones are Windows and the thread pool; the last is what
  the quit event is for. Nothing makes a client call, OpenVPN write, or
  OpenVPN exit by itself.
- `ManagementEndpoint`: the reader is scheduled, and OpenVPN executes what it is sent while
  it runs (it may exit instead).
- `AcpEndpoints`: the pool runs every item and the reader reads what has arrived; no
  client need make a request and no pipe need break.
- `Subscriptions`: a thread that has enqueued asks for the work item, the pool runs its items, and handlers return.
- `AsyncSemaphore`: the releasing thread gets to `SetResult`, and holders release (a `using` block).
- `OeAuthenticator`: updates are run and the backend answers or fails. The second is an
  assumption: `AcpCommunicator.cs:161` gives a POST no timeout.

- `MCWebUi`: the pool runs the host's work items, the service answers, `$timeout` fires, the end of a pipe is noticed, a
  disconnect completes, and a service that stopped is started again (by Windows' service
  control, or by the user). The views need none. Each condition binds the behaviours of its part only.

All of these are weak fairness: no lock, queue or scheduler of the system is assumed to
favour a step that is enabled only now and then.

## 5. The proofs

`tlapm` checks these for every value of the constants. The assumptions are the ASSUMEs of the
modules: bounds are naturals (`MaxNotifications`, `MaxTokens` of at least 1, `InitialCount`), users are naturals with
`Anonymous` among them, `None` is no request, no topic, no id, no subscription and no notification; the sets of tasks, subscriptions and notifications are arbitrary, and may be
infinite. `GuiConnection` and `Subscriptions` are only instantiated for TLC, so what the proofs suppose of their constants is an
operator, `Sensible`. For `GuiConnection` (the bounds are naturals, no region is one of the values for "no callback") it is a
hypothesis of its theorems, and `MCWebUi` assumes it, with `NoView` no view (`WebUiAssumption`); for `Subscriptions`
`MCAcpBroker` assumes it (`SubscriptionsAssumption`).
`AcpEndpoints` has two peers, and clients' requests have other names than the two that initialise. `OpenVpn` has at least one
session and any finite set of pool threads, none of which is a reader or an exit thread or
`NoThread`; notifications, calls, offered protocols, the error of a SIGTERM and the settings of
the kill switch come from the sets of the code.

- **`ManagementEndpoint_proofs`**: `TypeCorrect`, `RepliesMatchHolds`, `HeadIsActiveHolds`,
  `ReaderDiesWithOpenVpnHolds`, `EndpointImplementsChannel`. None of these is inductive,
  because a reply in `stream` says nothing about the queue that awaits it. `Inv` follows the
  one command under way: `QueueInv` numbers the queue consecutively, `CountInv` bounds the commands executed by
  those answered and given, `WireInv` and `StreamInv` say that the wire holds at most one
  command and the stream at most one reply, each of them for the head of the queue, and
  `ErrorInv` what holds between an ERROR and its Dequeue. The refinement uses the
  same invariant: `Request`, `Execute` and the reading of a reply are the steps of the channel, all others stutter.
- **`AsyncSemaphore_proofs`**: `Invariant`, `TypeCorrect`, `CountIsConserved`,
  `NobodyWaits`, `Implementation`, and `MutualExclusion` (a count of 1 has one holder).
  `CountConserved` is not inductive: a task counted in two places would be subtracted twice. `IInv` adds that
  holders and woken tasks are finite sets and that a task is in one place at most and only once in
  the queue.
- **`OeAuthenticator_proofs`**: `Invariant`, `TypeCorrect`, `OneQueryAtATime`,
  `ValidTokenStays`, `StoredStaysCurrent`, `ListenersAreTold`, `RefreshServesCurrentUser`.
  Every step is a step of `AsyncSemaphore` or leaves it alone (`LockStep`), so the lock's
  theorems hold here by `LockProof == INSTANCE AsyncSemaphore_proofs WITH InitialCount <- 1`.
  `IInv` says that only the holder is inside (`InsideHolds`), that until the holder assigns there is
  no valid token (`InvalidUntilAssigned`, from which `ValidTokenIsKept`), what the holder
  remembers of the previous token (`PreviousIsStored`, `PreviousIsKnown`), and that the
  reply in hand is of the current user unless somebody signed in since (`ReplyOfCurrentUser`).
- **`AcpBroker_proofs`**, the subscriptions: `DispatcherTypeCorrect`, `WorkIsConserved` (`WorkMatchesQueue`), `DispatcherImplementsDelivery`
  (`ImplementsDelivery`). A `Call` is one of the abstract one because what is in a queue is what has been enqueued and not yet handled
  (`OrderInv`), and an `Enqueue` sends something new because a notification still to be given to a subscription is not in what it was
  given (`OnceInv`). `WorkInv` needs in addition that a notification has one thread.
- **`WebUi_proofs`**, the bus: `TypeCorrect`, `CallbacksRunOnce` (`RepliesReachTheirCallback`). The
  property compares two states, and which step may run a callback depends on where the callback has been: it is in
  the table under the id its request drew (`EntriesInv`), or scheduled (`TasksInv`) and then once (`OnceInv`), or
  it has run and is in neither place (`RanInv`). `RequestedInv` says that nothing is under way about
  a request before it is made, so that a reply looks its callback up under an id that was drawn. The host and the service change
  only what is under way, so one lemma (`HostAndServiceInv`) covers all their steps, the faults included.

  The views: `UsersFindBack` (`NeverStranded`). The property is about a quiet page, so `ViewsInv` says what is owed to one that
  is not. The title is that of the view shown (`TitlesInv`), and a titled view is reached with the way back set
  (`BackInv`, `QueuedInv`). The header is the hard part: `vpn-1.0.0.js` asks the service twice whether the themes have been shown,
  once to switch the header off and once, by way of the sandbox's answer, to show them, and nothing in the code relates the two answers. `AskedOnceInv`
  follows the second question, of which one form is under way at a time and which comes before any choice of a theme.
  `HeaderInv` says that when the header is switched off, or will be, the second answer will lead to the theme selection
  (`Awaited`), or it is the view shown at last, or the task that enables the header is due (`Selecting`); and that no
  diagnosis has begun (`NoDiagnosis`), whose late result would take the selection away.

  The page: `PageTypesHold` (`TypesOK`), `PageAgrees` (`PartsAgree`), `PageStaysStopped` (`StoppedStaysStopped`). Every behaviour of
  `MCWebUi` is one of each part (`BehavioursOfTheParts`), so what is proved of `GuiConnection` holds here by
  `GuiProof == INSTANCE GuiConnection_proofs`. `WebUiAssumption` is what the proofs need of the constants.
- **`GuiConnection_proofs`**: `TypeCorrect`, `StoppedPageStaysStopped` (`StoppedStaysStopped`),
  `PartsOfThePageAgree` (`PartsAgree`). A page
  that has been told to stop could still connect from `disconnectCallback`, which an earlier choice of a region
  has left; `NoSwitchPending` says that the stop has cleared it. `PartsAgree` is about a page with nothing under way, so
  `Agreement` gives an account of what is, in whichever order it arrives: whenever two parts of the page differ, a task in `timeouts` will tell the
  one that is behind, since each part tells the next by a task and the tasks keep their order (`StatusPassedOn`, `ListKnown`, `RegionKnown`,
  `LimitKnown`). Between the service and the page there is no order, so `StatusShown` follows the newest notification alone: it is in the bag,
  or is the last task about the status, or is what the directive shows, or `newest` or `overwritten` says what happened
  to it. Before any notification nobody has heard of another status than the service's (`FirstStatus`), and the directive shows it
  once its own request is answered, or `overwritten` says why not (`FirstShown`).
  The lemmas are about bags, and about queues: what an appended or a taken task does to the last one of a kind.

- **`AcpBroker_proofs`**, the endpoints: `TypeCorrect`, `ResponsesMeetRequests` (`RepliesMatch`), `ServesWhenItKnows`
  (`InitializedKnowsResources`). An id of a broker travels: it is in a request of the pool, on the wire, held by the remote's
  reader, in the remote's pool, among the handlers there, and comes back with the response. `Chain`
  says that each id is at one of these places at a time (`Apart`), and wherever it is, registered for the request it
  came with (`Matches`); the places of an id of `p` are those of both brokers, so every step disturbs the
  chains of both peers. `Phases` follows the initialisation, as a peer becomes initialized by a
  response that proves nothing about the earlier ones: the second GET is sent when the first has been answered with the resource, or the pipe is broken.
- **`OpenVpn_proofs`**: `TypeCorrect`, `OneProcessAtATime` (`OneProcess`), `DropsStayBlocked` (`DropStaysBlocked`),
  `DeadSessionsSettle` (`DeadSessionSettles`), `DropsLeaveNoBlock` (`DroppedLeavesNoBlock`), `ClientsAreTold` (`ClientsSeeTheState`),
  and, in **`OpenVpnReconnects_proofs`**, `ReconnectsStayBounded` (`ReconnectsBounded`),
  for any number of threads, sessions, calls, notifications and restarts.
  Since a thread is a stack of frames, the invariants speak of what is in a stack, and the lemmas of
  what a step pushes.
  - `OneProcess` is not inductive: `Launch` starts a process without looking. `Exclusive` adds that only the owner of
    the lock is inside it and no stack enters it twice (`Discipline`, for which frames that end a method must
    be the last of it, `Ordered`), and that nothing runs while a stack is between `Clean` and `Launch` (`Prepared`).
  - `DropStaysBlocked` needs the hypothesis that no client calls Disconnect, as run `drops` does:
    with such a call it is false, which is the first disagreement of section 3. Since deciding and unblocking are two steps, `Decided` speaks
    of the threads in between: one that is about to unblock decided so when nobody wanted the block, so the kill
    switch is off, or it is in `late`, or the service has been told to stop, which is also the only reason for
    `disconnectWasRequested` to be set.
  - `DeadSessionSettles` is about what nobody does any more, so `Settling` has to say who will. Lines are
    written once, so that CONNECTED is read once and a session that was stopped cannot connect again (`LinesInv`); a session's
    reader and its exit thread start once and end once (`ReadersInv`); a session whose stop was
    requested is Disconnected, or `Session.Disconnect` is still on the stack of the thread with the lock
    (`StopInv`); an exit that was heard is still being handled, was handled when the
    source was closed, or was silenced by such a stop (`ExitInv`).
  - `DroppedLeavesNoBlock` and `ClientsSeeTheState` are proved under `NoRequests`: no client calls Disconnect, Windows does not stop the service and no ERROR
    reply makes a reader do it (run `drops`, which has the stop as well). Otherwise two threads tell statuses of one session at once: a Connected handler that sleeps before it
    blocks may end after the Disconnected of somebody else's stop, and `SetState` publishes
    without a lock. Without requests a session ends only with its process. `Course` follows each
    session on that way, from the thread that opens it to its reader to its exit thread, and says
    that it reports one outcome and ends once (`OutcomesInv`, `FinalInv`), and that only the newest goes on (`OpenInv`, `OldInv`), so that statuses are told one after the other.
    `Show` follows each status to its end: a thread tells one at a time (`TopInv`); one
    that goes on tells the state that the session is in, which nobody else changes meanwhile (`TellInv`); a
    block that nobody wants (`Unwanted`) of a session that ended is about to be lifted, by a Disconnected not yet told or decided upon, or by a reconnect that
    was counted, queued or begun (`LiftInv`, `AfterInv`); what the service shows is the state, or
    is about to be corrected (`ShowInv`). A quiet engine tells nothing, so both follow.
  - `ReconnectsBounded` is about a counter, and what the counter says is not what bounds it: a reconnect can
    be on its way in any stack. `Bounded` collects everything that can still come to a reconnect in one set, tagged by
    its kind (`Chances`): a status that asks for one, a reconnect in the queue, a Connect that has not started its session, and a session of
    which it has not been decided what follows its end (`Live`). Each step exchanges one element for another or loses
    some; only a call adds one, so there are no more than calls (`ChancesInv`). For this a session must die
    once and for good: what its reader could still read after that does not connect it again or leads to no
    reconnect (`DyingInv`, `Over`), and nobody ends a session whose reader has not been
    started (`StartingInv`, `UnlockInv`). The counter grows when a retry is decided and once more when it is queued, and a
    fallback to tcp uses up a udp region: the statuses and the regions that can still raise it are `Raises`, and
    `reconnectAttempts + Cardinality(Raises)` stays within two more than the calls (`AttemptsInv`), two because the first
    retry is counted twice. A Connected sets the counter to 0, when `Raises` has to be within the calls again: each of its elements
    then comes from a chance of its own, the region in use from the session that reports the connection (`RaisesPaid`). `Counted` states the
    facts on cardinalities, from the library's.

*Only model-checked:* liveness under fairness (out of the prover's reach: `DisconnectReturns`,
`ExitIsNoticed`, `CommandsAreAnswered`, `PeersInitialize`, `RequestsAnswered`,
`AllDelivered`, `WaitersAreServed`, `UpdatesEnd`, `RequestsSettle`, `SubscribedAtLast`, `SwitchesSettle`).
Every safety and action property of a passing run is proved.

## 6. What is not modelled

- Engine: traffic counters, tracking events, the choice of a server; a process that cannot
  be killed. Kill switch: a blocker process that fails, `NetworkBlocker.Enabled` (which decides about a
  notification only), and a change of the licence that takes the feature `kill_switch` away while the
  block is on (`NetworkBlocker.cs:32` then lifts nothing).
- ACP: `POST /subscriptions` and the notifications of the peer's changes in `AcpEndpoints`; the map of the providers
  (nothing in the tree registers a substitute); a pipe that is connected again (late
  responses of an earlier connection), the entry that a failed forward leaves in `responseHandlers`. Both directions of the pipe break at once.
- Token: the retries of `PollForRegisteredUser` (they appear as calls of Refresh), answers
  that cannot be read, listeners that throw.
- Page: `unsubscribe` (called only when it closes), requests to the host itself, telemetry, texts, the display settings,
  the list of Wi-Fi networks and its latencies, feedback dialogs, and the views of other builds. Two
  builds share the file; on Windows the sign-in library is replaced by a mock (`vpn-1.0.0.js:7240`), so its
  token handling never runs there.
- The bundled libraries: `vpn-vendor-1.0.0.js` is jQuery, AngularJS and their plug-ins, 51551 of the
  62115 lines of JavaScript in the tree, and a good part of `vpn-1.0.0.js` is
  tables of translations. A share of the JavaScript measured in lines stays small for that
  reason: what can be modelled is the page's own control.
- `ftu.js`, the slide show of the first run: one index and no messages.
- All components marked planned or not modelled in section 1.

## 7. Plan

Order of work; the first six, most of the eighth and the last are done.

1. `OpenVpn`, `KillSwitch`, `ConnectionStatus`: the connection and the block.
2. `ManagementEndpoint` against `CommandChannel`, with proofs.
3. `AcpEndpoints`.
4. `AsyncSemaphore` against `Semaphore`, with proofs.
5. `OeAuthenticator` over the lock, with proofs.
6. The page: `MessageBus` with its host and pipe, `GuiConnection`, `GuiSettings`, `GuiViews`.
7. `WifiAutoconnect`: `WifiNetworkManager`, its checker thread, `WifiManager.AutoconnectId`;
   when a Wi-Fi has been left and everything settled, its autoconnect is over; no checker
   survives its network. It gives the calls Autoconnect and Disconnect that `OpenVpn` accepts in any order.
   Needs `OpenVpn`'s statuses next to it: every Disconnected, that of a reconnect included, clears `AutoconnectId`
   (`VpnService/VpnService.cs:250`), and the connection it asked for starts later on a thread of the pool.
8. `Subscriptions` against `Delivery`, with proofs (done); next to it `RemoteResourceRegistrator`, which
   subscribes at the peer when somebody here subscribes.
9. `AcpCommunicator` (states, timeouts, retries) and a reconnect of the pipe in
   `AcpEndpoints`, so that ids of two connections meet.
10. The server's end of `PipeMessenger`, `Router` with several clients; `PersistentTimer` and `Traffic` with their integer widths.
11. Proofs: every safety and action property has its theorem; new modules bring theirs.

New components share runs where their questions allow it: small modules join as one MC
module with independent parts.

## 8. Use

    cd tla
    tlc -workers 2 -config OpenVpn_engine.cfg MCOpenVpn     # any run: its cfg and MC module
    tlapm ManagementEndpoint_proofs.tla                     # any *_proofs module

A cfg is named after its module and run: `OpenVpn_engine.cfg` is run `engine` of `MCOpenVpn`.
