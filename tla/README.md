# TLA+ models of WarpMesh

WarpMesh is a relay server (`src/internal/server`), an agent on each device (`src/internal/agent`)
and a web client (`src/web`). Agents hold one control connection (a WebSocket) to the server. Through
it the server relays TCP tunnels between two devices, and terminals, desktops and file transfers
between a browser and a device. Tunnels, terminals and screens may move to a direct WebRTC path.

This directory models the parts whose correctness depends on the order in which goroutines,
connections, timers and restarts interleave. `PROJECT.json` lists every part of the system, the lines
each definition translates, the runs, the mutants, the theorems and the hazards.

## Modules

| module | models | runs | proofs |
|---|---|---|---|
| `ForwardConn`, abstract: `ByteStream` | one end of a relayed tunnel in the agent | `forward_conn` | `ForwardConnProofs` |
| `ForwardSession` | one tunnel in the relay server and its accounting row | `forward_session`, `forward_teardown` | `ForwardConnProofs` |
| `DirectPath` | the direct path of a tunnel on both agents, next to the relay it competes with | `direct_path` | `DirectPathProofs` |
| `Presence` | the control connections of one device, its online flag, and the shutdown of the server | `presence`, `presence_offline` | `EnrollmentProofs` |
| `LoginGuard` | the login throttle of one key | `login_guard` | `AccountsProofs` |
| `Accounts` | users, login sessions, WebSocket tickets | `accounts` | `AccountsProofs` |
| `Enrollment` (run through `MCEnrollment`) | invites, device keys, devices, forward policy and grants | `enrollment` | `EnrollmentProofs` |
| `Transfer` | one upload, download or request of the file manager, from the browser to the device's files | `transfer` | `TransferUploadProofs`, `TransferProofs` |
| `Terminal` | one console terminal, from the browser's view to the device's shell, with the direct path and the fallback | `terminal` | `TerminalProofs` |
| `Desktop` | one console desktop, from noVNC to the device's VNC server, with the direct path and the screen link | `desktop` | `DesktopProofs` |
| `SessionStage` | the stages both views show (`sessionStage.ts`), used by `Terminal` and `Desktop` | | |

In all of them one step is one critical section of a lock, one channel operation, one database
statement or one call that can block: whatever the code reads before it releases a lock and uses
afterwards is old when another thread has run in between. Definitions whose comment begins with
"Faulty variant" are not part of a specification. Each is the code with a plausible mistake, and
shows that the property it belongs to can fail.

### ForwardConn

State: the fields of `forwardConn` (`conn`, `closed`, `writes`, `writing`, `draining`), its entry in
`a.forwards`, and the program counter of each goroutine: the control loop (`RecvData`, `Enqueue`,
`RecvClose`, `GracefulClose`, `CleanupSessions`, ...), the owner (`handleForwardClient` or the target's
goroutine, then `readForward` and `finishForward`), up to two `writeLoop`s and the drain timer.
`CallClose` and `Release` are the two halves of `Close`: the flag under the mutex, the rest outside.
Chunks are numbered in order of arrival. The auxiliary variables are `arrived`, `written`, `owed`
and `cause`.

`ByteStream` is what a tunnel end promises: it delivers a gap-free prefix, and the whole stream when
it is ended cleanly. `ForwardConn` implements it (`ImplementsByteStream`).

### ForwardSession

State: `s.agents`, the session and its map entry, the timer, the `connection_sessions` row, the
recorder, where each read loop and the timer callback are, and the two agents' own view as far as it
decides which messages they send. `ConnectAccepted`, `InsertForward` and `ArmTimer` are
`handleForwardConnect`; `TimerFires`, `MarkRelay`, `SetRelay` and `StartRelayFallback` the callback;
`RelayLookup`, `CountData`, `Routed` and `RouteFails` the relay; `CloseForward` and `FinishClose` the
ordinary end; `LoopEnds`, `Teardown`, `TeardownRecord` and `TeardownNotify` the end of a connection.

### DirectPath

The source's `handleForwardClient` (`Connect`, `StartDirectOffer`, the four arms of its select, then
`CopyChunk` or the relay's `readForward`), the target's `handleDirectOffer`, `bridgeTargetChannel`
(`BridgeDial`, `BridgeFlush`, `BridgeStart`, `BridgeChunk`, ...; the callbacks before it are `OnDataChannel` and
`TargetOpens`) and `handleForwardTarget`, the messages
of both over the server, and the loss and cleanup of either control connection. The maps `a.forwards`,
`a.localConns`, `a.dataChannels` and `a.pendingData` are variables of each side, because the two paths
meet in them. It composes what `ForwardConn` and `ForwardSession` show in detail, each as single steps: a
relay connection drains at once, and a session has no row. Whether and when the peers connect is
external, and the candidates are part of that. `raced` and `fell` are history.

### Presence

Each connection of a device has a handler: `HelloAccepted` (Upsert), `Register`, `FrameDue` and `Touch`
(`touchAgent`), `FrameConnect` and `OpenTunnel` (a `forward:connect` from the check of its frame to the insertion
of its session), `LoopEnds`, `RemoveAgent`, `SetOffline`, `Teardown`. The registry row is written outside
`agentsMu`, so handlers of successive connections race for it.

Shutdown runs against them at any point: `StopListening` (`shutdownServers`), `closeWebSockets`, and
`Drained` or `DrainTimeout` (`waitForHandlers`), after which the database is closed and a write has no
effect. `Upgrade` and `Count` are separate because a handler leaves the sight of `http.Server.Shutdown`
before it joins `wsWG`. A handler between its upgrade and its hello is not closed by `closeWebSockets`
and has no read deadline, so it can hold the drain for its five seconds: `CloseUnblocks` speaks of the
handlers that have registered, `NoLateWrite` of a drain that finished.

### LoginGuard and Accounts

`LoginGuard` has the entry of one key and requests that pass `Allow`, `Validate` and then
`RecordFailure` or `Clear`, each a critical section of its own. The code's count goes on above the
limit; the model stops it one above, which no comparison in the code can tell apart.

`Accounts` has the users table, `s.sessions`, the ticket store and requests that carry what they read
from step to step. `ReadSession`, `GetUser` and `DropSession` are `validSession`; `CheckGrant` and `Issue`
are `handleWSTicket`; `Consume` and `Upgrade` are `authorizeWS`; `ReadUser`, `CountAdmins` and
`DeleteUser` are one DELETE. `Restart` loses sessions, tickets and requests and keeps the table.

### Enrollment

The tables `invite_codes`, `device_keys`, `devices` and `forward_grants`, enrollments in three steps
(`ValidateInvite`, `EnrollKey`, `UseInvite`), the admin operations, and the hello of an agent
(`Hello`, `Upsert`). A token is its number among the rotations of a key. A grant, in the code a target
and a range of ports, is the set of endpoints it covers. `restrained` and `redeemed` are history.

### Transfer

The browser's promise, the frames on its socket, `handleFileWS`, `routeAgentMessage`, and the agent's
control loop and download goroutine. The deferred calls of the handler and the three actions of the
router on a final message are separate steps, because both close the same recorder. `LinkLost`
drops what is under way to the agent and any suffix of what is under way to the server; `Reconnect`
makes a new connection that the work of the old one must not use. Frames that the web client never
sends (its own `file:error`, data after the end of an upload, a type the file manager refuses) are left out.

A request of the file manager uses the same browser promise, agent connection and router. `op` says which
it is: `change` stands for mkdir, delete and rename, `list` for list and roots. `handleFilesWS` is
`StartManager`, `ReadRequest` and `ManagerLeaves`, and there is no row. What `pathAllowed` decides is a free choice.

### Terminal

The record `b` holds the variables of `TerminalView` (`requested`, `acked`, `directActive`, `relayActive`,
`live`, the two deadlines, the stage, peer, channel and socket), and one action is one event handler or
timer of it. `handleTerminalWS` is `StartTerminal` to `HangUp`, with its deferred calls as steps (`Unlist`, `EndHandler`,
`HangUp`); a final message of the shell is `RouteOutcome`, `RecordOutcome` and `EndSession`; the router is `RouteOutput` to `WriteRTC`, and holds `sessionsMu` (`Locked`) from its look-up to its write.
The agent has its control loop (`TermStart`, `RTCOffer`, `RTCICE`, `RTCRelay`, ...), the goroutine of
`handleBrowserOffer` (`OfferLook` to `OfferAnswer`), the channel's `OnOpen` and `OnClose`, and the
shell's `readLoop`. The WebRTC library is external: both ends may open when both descriptions are in
place, a path may fail at any time, and a closed end is noticed by the other one.

Consecutive steps of one thread are merged where a pause between them has the effect of a message that
arrives later or is lost: the relay's row and the messages
that announce it, unlisting a session and `rtc:stop`. `gaveUp` is history: the handler left because a write
of a signal failed or the read deadline passed. Frames are
kinds without content. Input on the channel, the device's candidates, window sizes and traffic counts
are left out, and variables of the view that no handler reads any more are reset when its socket closes.

### Desktop

The same composition for a desktop, in the same style. A desktop has no stream before it has a path, and
the relay is a second socket: `HandleFallback`, `RecordRelay`, then `LinkReady` or `LinkTimeout` of
`handleScreenWS` wait for `handleScreenLinkWS` (`LinkLook`, `LinkEnd`), which the device opens in
`startScreenLink` (`ScreenStart`, `LinkDial`, `VncDial`, `LinkFrame`, `BridgeEnds`). From `LinkReady` on
`relayScreen` copies frames (`CopyUp`, `CopyDown`, `RelayEnds`) and the browser's socket carries the remote
framebuffer protocol (RFB) instead of messages. `DesktopView` has two deadlines and attaches noVNC to the channel or to the socket
(`attachRFB`); the direct stream starts when it says `rtc:ready` (`RTCReady`). noVNC, the VNC server and
the peer connection are external.

## Runs

| run | shows | bounds | distinct states |
|---|---|---|---|
| `forward_conn` | the marker's slot, refinement of the byte stream, shutdown completes, a target's failure reaches the relay | channel of 3, 4 chunks | 164,848 |
| `forward_session` | a closed row has every counted byte, direct suppresses the relay fallback, negotiation and row end, a lost device ends its session | 2 chunks, the source may return | 153,868 |
| `direct_path` | the service gets every chunk, the client hears one service connection, a lost device frees its sockets, the service's end reaches the client | 2 chunks each way, 1 relayed chunk, 1 event | 340,704 |
| `presence` | an entry has a live handler, a healthy entry is never evicted, a live device is shown online again and again, tunnels end, a drained server writes no more, closing unblocks the handlers | 3 connections | 249,955 |
| `login_guard` | failures are bounded across concurrent requests, lockouts are forgotten | 4 requests, limit 3 | 1,791 |
| `accounts` | tickets admit once, no request restores a deleted session entry, the last admin is lost only by an overlap | 2 requests, 2 names, 1 token, 1 ticket | 419,216 |
| `enrollment` | one key per invite, retired tokens stay retired, a restriction survives every hello and restart | 2 enrollments, 1 invite, 2 ids, 2 endpoints, 1 rotation | 364,843 |
| `terminal` | the recorded path and outcome are what the user saw, the overlay never covers a live session, no output goes to an abandoned channel, the console never waits for ever, everything is freed | 1 output, 1 event | 514,769 |
| `desktop` | the socket never mixes messages and framebuffer data, the recorded path is the live one, the greeting is not lost, the console never waits for ever, everything is freed | 2 frames, 1 event | 358,353 |
| `transfer` | a success the browser sees is a whole file or a change that was made, recorded as such; every operation ends for all parties | 3 chunks, browser buffer of 2, 2 device connections | 116,388 |

Why these are enough to meet the interesting cases:

- `forward_conn`: a channel of 3 has two ordinary slots and the marker's. Four chunks fill it with one
  in a writer's hands and one that overflows.
- `forward_session`: two epochs per device are needed for a late message of a replaced connection.
- `presence`: three connections give a stale handler, a current one and a successor.
- `login_guard`: four requests against a limit of three leave one more than the limit in flight.
- `accounts`: two requests overlap in every pair of operations, both names can be admins, and a token
  or ticket can be presented by both.
- `enrollment`: two enrollments share one invite; ids are symmetric, as are enrollments.
- `terminal`: an event is a candidate, an input, a departure, the shell's exit, a passed read deadline or a failure. Deadlines, the
  fallback and noticing a closed or broken connection are not counted, so each event meets every
  interleaving of the negotiation, the fallback and the teardown. The safety properties were also
  checked with 2 events (3,309,768 states); the exception of `OutcomeRecorded` needs two.
- `desktop`: events are counted in the same way; two frames are the VNC server's greeting and one more.
- `direct_path`: two chunks can be reordered, and a relayed chunk can meet a direct one. An event is the end of
  the client or of a service, a failed step, a broken channel or a lost control connection.
- `transfer`: empty files, files below, at and above the browser's limit, and a reconnect at every point.

Two runs show a disagreement between the code and what the repository says of it
(`findings` in `PROJECT.json`):

- `forward_teardown`: the fallback asks the target to dial for a session that was just torn down, and
  nothing ends the target's stream.
- `presence_offline`: `touchAgent` of a stalled handler marks a device online after it went offline.

Other behaviours the models reach, which the passing properties name as their exceptions or leave open:

- `Accounts`: a DELETE that has counted the admins and a PATCH or DELETE of the other one overlap, and no
  admin is left (`AdminLostOnlyByOverlap` says that only this does it). A session entry outlives its account until
  a request checks it: under a name that is deleted and created again before, the token stays valid.
- `Presence`: a handler that was replaced after the check of a `forward:connect` lists its session later, also
  after the last teardown. `TunnelsEnd` is about the sessions a teardown can still find.
- `ForwardConn`: a local failure of the source before `readForward` runs is not reported to the relay
  (`TargetFailureNotifiesRelay` is about the target).
- `ForwardSession`: a late `direct-ok` marks a tunnel direct that runs over the relay.
- `DirectPath`: chunks that reach the source before its socket is handed over stay in `pendingData`; a chunk
  that reaches the target during the flush overtakes the pending ones; a failed `handleDirectOffer` ends
  the tunnel and not just the direct path; and a `forward:close` ends the target's relay connection but not
  its direct bridge, which stays until its service speaks or ends, or the control connection is lost. A channel
  that `OnDataChannel` enters after `cleanupSessions` is found by its bridge, which keeps the service's socket
  until the service speaks or ends (the exception of `CleanupFrees`).
- `Transfer`: an error the device reported can be recorded as closed when the browser leaves first.
- `Terminal`: a device that is lost leaves an idle relayed terminal shown as connected. A handler that gives up
  by itself between the router's look-up of an error and its record writes `closed`, and the user may
  still be told the error (the exception of `OutcomeRecorded`).
- `Desktop`: an offer that is still dialling when `rtc:stop` arrives makes a peer connection and a VNC
  connection that only the failure of ICE frees. An `OnOpen` pending at `rtc:stop` enters a closed channel in
  `a.browserChannels` and `a.browserDirect`, where it stays (`Gone` allows these entries). The agent never sends `screen:error`, which
  `docs/architecture.md` lists; the console ends by its own deadlines.

`CHECK_DEADLOCK FALSE` is used for `ForwardConn`, `ForwardSession`, `DirectPath`, `Presence`, `Terminal` and
`Desktop`: a tunnel, a session and the finite set of connections really come to an end. The other runs
check deadlock; `Transfer` has a final stutter step, enabled only when handler and browser are done.

## Fairness

- `ForwardConn`: goroutines with work run, timers fire, and calls on a closed socket return. Nothing is
  assumed of the peers: a socket may block writes for ever, and no message need arrive.
- `ForwardSession`: threads with work run, the timer fires, the read loop of a replaced connection ends
  (its socket is closed), and a target that was asked to dial answers or loses its connection.
- `DirectPath`: goroutines, timers and message loops run. Clients, services and the network owe nothing: the
  channel need not open, and nobody need read or write.
- `Presence`: handlers run, a connected agent keeps sending its status every 15 seconds, and `Close` runs
  to its end once it has begun.
- `LoginGuard`: requests are handled, the lockout minute passes, the janitor runs.
- `Transfer`: the threads run, the browser's idle timer fires, and the agent notices a lost connection,
  because its periodic status cannot be written. Connections need neither break nor come back.
- `Accounts` and `Enrollment` have safety properties only.
- `Terminal` and `Desktop`: event loops, goroutines and deadlines run, and broken connections, closed peers and closed
  shells are noticed. Users, shells, VNC servers and networks owe nothing. None of these steps can repeat for ever,
  so one weak fairness condition over all of them gives each its turn.

## Proofs

The theorems hold for every value of the constants under the assumptions named in the modules, which
TLC evaluates in the runs.

Three proof modules are about two components of one part of the system each: `ForwardConnProofs` extends
`ForwardConn` and `ForwardSession`, `AccountsProofs` `Accounts` and `LoginGuard`, `EnrollmentProofs` `Enrollment` and
`Presence`. The second of each pair has names of its own for that (`SessionSpec`, `GuardSpec`, `PresenceSpec`).
The proofs about `Transfer` are in two modules because of their length.

- **ForwardConnProofs** (capacity at least 2). `InOrder` is not inductive: it needs to be known what
  the channel and the writer hold. `IInv` adds that one `writeLoop` runs at most (`WriterInv`), that
  `closed`, `cause`, `cancelled` and the goroutine inside `Close` agree (`CloseInv`), and that while no
  writer has failed the channel holds the chunks that follow what was written, consecutively, with the
  marker behind them (`StreamInv`). From it follow in-order delivery, clean close, the free slot for
  the marker, the absence of socket leaks and, step by step, the refinement of `ByteStream`.
- **ForwardConnProofs, `ForwardSession`** (any number of data messages, any set of returning devices). `RelayCount`: while
  the recorder is open, the bytes of the row and those pending in the recorder are the bytes counted,
  unless the server has crashed and no thread is left to close it; closing moves the pending ones over
  once. `RelayCloseInv` and `RelayFresh` say what a closing thread carries and that nothing is closed before the
  tunnel was asked for. They give `ClosedRowComplete` and, as a step property, that a closed row never
  changes its state or bytes again. `DirectSuppressesRelay` is a stability argument: `direct` stays set, and
  `MarkRelay` looks at it under the lock, so the callback cannot pass that point any more.
- **AccountsProofs** (any requests, names, tokens, tickets). `TicketInv`: a ticket that is stored or
  still to be drawn has admitted nobody, and at most one request holds one that was consumed.
  `AdminInv`: without an overlap a counted admin leaves another one behind. `EndedForever` is a step
  property: a token is stored once, when it is drawn.
- **AccountsProofs, `LoginGuard`** (any limit, any finite set of requests). During a lockout, failures plus the
  requests already let in never exceed the limit plus the other requests (`CountInv`).
- **EnrollmentProofs** (any requests, invites, ids, endpoints, scopes). `InviteInv`: an invite that was
  redeemed once is gone. `PolicyInv`: every restrained device has a restricted row. `KeyStep`: the
  number of a key's token only grows, and a revoked key is not drawn again.
- **EnrollmentProofs, `Presence`** (any set of connections). `EntryHasHandler` together with "a read loop that ended
  while current has lost its socket" is inductive; no healthy entry is evicted. With "only a handler that
  had upgraded and was not counted is at work once the server is drained" it also carries `NoLateWrite`.
- **TransferUploadProofs, TransferProofs** (files of any size, any browser limit, any number of device connections).
  `UploadDelivered` is far from inductive, because a success is decided on the device and travels through
  three queues. The invariant follows it. Every queue holds only the kinds its operation sends (`KindInv`),
  and only the first connection carries requests (`LinkInv`). The frames the browser has sent and the
  handler has not read are consecutive (`UpInv`). While the upload may still succeed, what is on its way
  to the device continues what is in the file (`PendingInv`, `FileInv`), and after a success the file is
  whole (`UploadDone`). A download is the same in the other direction (`StreamInv`, `GotInv`). `RowInv` says
  that a success under way is neither miscounted nor closed as failed. `ManagerInv` says that a change is
  sent once and made at most once.
- **DirectPathProofs** (any number of chunks, relayed chunks and failures). Before the fallback no queue
  holds a message of the relay (`QueueInv`), so only the channel writes to the client. Chunks on the channel
  follow those the source has, heard or pending (`HeardInv`), and nothing of the channel is heard before
  the socket is handed over (`ClientInv`). At the target, chunks written, being flushed, pending and on the
  channel are consecutive (`ServiceInv`). Once a chunk was written during the flush the first two are only
  complete as a set. A socket the bridge has opened is known to `OnMessage`, so that nothing is pending
  (`BridgeInv`). From these follow `ServiceGetsAll` and `ClientHearsOne`.
- **TerminalProofs** (any amount of output, any number of failures). All three theorems rest on the life of
  one fallback. The console asks for it at most once and closes its peer as it does (`ViewInv`, `PeerInv`).
  The server grants it at most once under `sessionsMu` and records it before it tells the console
  (`RelayInv`: while the handler records, no `relay` is on its way; once one is, the row says `relay`).
  A row that is closed while the server can still reach the console was closed by the router for an exit or by
  a handler that gave up: any other end of the handler follows a frame or a failure with which the console's
  socket had gone, so that an error the console hears was recorded first (`RowInv`). They give `OutcomeRecorded` and `WaitingNeverCoversLive`.
  `NoDirectOutputAfterRelay` is a step property and needs `PathInv` besides: an agent that was told to relay
  has no open channel, and the console that asked for it has no peer to open another with.
- **DesktopProofs** (any number of frames and of events). `StreamsUnmixed` speaks of the moment a side switches to
  framebuffer data, and what it finds in its queue then was sent earlier, so the invariant orders the queues. The
  console sends only the stream and its goodbye behind `rtc:fallback`, and no stream before it was told of the link
  (`UpInv`). A server that has handled the fallback therefore has no message left to read, and its router
  is idle, because the router forwards nothing once the session is relayed. The server writes only the stream
  and the end of the socket behind `rtc:relay` (`DownInv`). A path is recorded before the console hears of it
  (`PathInv`), and a console that asked for the relay has given up its peer (`ViewInv`); that gives
  `PathRecorded`. `GreetingHeard` is a step property and needs `ReadyInv`: from `rtc:ready` on, noVNC listens to the
  channel or the channel is closed for good.

The inductive invariants of the larger ones were checked with TLC before they were proved: 153,868
states for `ForwardSession`, 117,311 for `Transfer`, 2,392,948 for `DirectPath` (with two events), 3,309,768
for `Terminal` (with two events) and 238,212 for `Desktop` (with one frame and one event).

Only model-checked:

- the liveness properties of every module, because the prover has no reasoning about fairness;
- `ByteStream`'s bounds.

## Not modelled

- The agent's connection loop and its forward listeners (`Run`, `StartForward`, `StopForward`): a retry
  delay and a map of listeners, changed in sequence under one lock. The losses, cleanups and reconnects it
  causes are actions of the modules above.
- A browser that keeps its connection and stops reading for good while `routeBrowserRTC` writes to it with
  `sessionsMu` held. The sockets of `Terminal` and `Desktop` accept a frame or fail.
- Order of terminal output across the change from relay to channel: nothing numbers the frames, so none holds.
- The shutdown of browser sockets: their handlers join the same group and are closed the same way as
  those of `Presence`.
- Rendering and fetch calls of the web client, reports, downloads and the request log, operating-system
  back ends for desktops, command line and TLS set-up. They have no state that outlives a call, or are
  calls into the system.
