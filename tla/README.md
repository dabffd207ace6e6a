# A TLA+ model of MolidoVPN

MolidoVPN is an Android VPN client (Kotlin service, Rust tunnel core, bundled
xray, sing-box, Psiphon and Tor), a Windows client (Flutter) and the servers
that feed both with node lists.  This directory holds TLA+ modules translated
from its source, TLC configurations that check them on small instances, and
TLAPS proofs of the results that hold for every instance.

The modelled core is what a user relies on when pressing Connect and
Disconnect: the lifecycle of the native tunnel behind its C interface and the
reconnect loops, identity and TCP stack inside it; the session lifecycle of the
Android service with its retries and its kill switch; the owner of the xray
process behind a SHARD session; and the controller of the Windows client with
its hold on the system proxy.

## 1. The system

### 1.1 Components

| Component | State it keeps | Operations | Modelled in |
|---|---|---|---|
| Native core, C interface (`core/aether/src/ffi.rs`) | `RUNNING`, `READY`, `STOP_REQUESTED`, a tokio `Notify` | `aether_start_json(_with_tun)`, `aether_stop`, `wait_for_stop`, `mark_ready`, `RunningGuard::drop` | `AetherCore` |
| Android service (`MolidoVpnService.kt`) | `connected`, `sessionGeneration`, `stopRequested`, `userInitiatedStop`, `reconnectRequested`, `killSwitchSealed`, `tun`, `storedConfig`, timers | intents, `startTunnel`, `stopTunnel`, `failAndStop`, `onTunnelLost`, watchdog, auto and quick reconnect, `onRevoke`, `onDestroy` | `VpnSession` |
| SHARD node process owner (`ShardManager.kt`) | `process`, `running`, `activeNode`, `standbyNode`, `stopRequestedDuringStart` | `start`, `startSmartSplit`, `race`, `rotate`, `switchToStandby`, `prewarm`, `refreshStandbyInBackground`, `stop`, `killProcess` | `ShardManager` |
| Auto transport selection (`MolidoVpnService.kt`, `beginAutoSelection` ff.) | candidate list, winner, the reconnect latch | trial, next trial, finish | planned |
| Chained tunnels (`startChainTunnel`, `raiseOuterLeg`, `stopOuterLeg`, `awaitOuterProxy`) | the rungs' threads, `chainOuterCommitted`, the core's flags | walk, start, poll, commit, stop, judge an end | `OuterLeg` (Psiphon over WARP) |
| Psiphon strategy ladder (`escalateLadder`, `armLadderTimer`, callbacks) | rung, timer, attribution | escalate, connected, exiting | planned |
| Tor session and SOCKS front (`TorManager.kt`, `TorSocksFront.kt`) | process, bootstrap percentage | start, stop, relay | no |
| SHARD UDP front, configuration writer, probe | per-connection buffers | relay, write, probe | no |
| Node health memory, subscriptions, edges | scores and caches | rank, diversify, parse | planned (functional) |
| Background jobs, remote policy, updater, reports | caches | fetch, store | no |
| Android interface, tile, widget | views | send the service's intents | no |
| MASQUE loop (`main.rs`: `run_masque` ff., `masque_h2.rs`) | the candidates, `last_good_peer`, `H2_FALLBACK`, lastconn, the tunnel task and its local side | two dial passes, renewal, retry, scan, HTTP/2 check, raise, lose | `MasqueLoop` |
| Device identity (`account.rs`, `config.rs`, `load_or_provision_*`) | the identity in memory and in its file, the service's registrations | register, enrol, fetch, renew, save, quarantine | `Identity` |
| WireGuard loop (`run_wireguard`, `wireguard.rs`) | last good endpoint, failure count, cooldowns, the session's tasks | team, cached, retry, imported list, forced, scan, validate, health | `WireGuardLoop` |
| Two-hop tunnels (`run_gool`, `run_mim` and their sessions) | outer edge, failure count, tasks, forwarder, TUN bridge | pick, select, raise outer, try inner, serve, tear down | `TwoHop` |
| User-space TCP stack (`netstack.rs`, relay of `socks.rs`) | sockets, `TcpState`, four channels | open, write, half close, read, poll, service, forget | `NetStack` (outgoing TCP) |
| Data planes and scanner (`quic.rs`, `masque_h2.rs`, `prober.rs`, `tun.rs`, `dns.rs`...) | connections, packets | handshake, relay, measure | as checks and tunnels of the loops |
| Vendored QUIC library (`core/quiche`) | connections | third party | no |
| Windows controller (`vpn_controller.dart`, `smart_connect.dart`, `main.dart`) | state, `_cancel`, `_connectRun`, `_switchingAway`, `_watching` | connect, cancel, disconnect, switch away, watch, exit | `WinController` |
| Windows engine (`windows_engine.dart`, `singbox_core.dart`) | sing-box process, system proxy, `win_proxy_owned` | connect, disconnect, failover, release, init | `WinController` |
| Windows scanner, remote configuration, updater | caches | fetch | no |
| Subscription worker (`cloudflare/sub-worker.js`) | KV/D1 records, counters | subscribe, admin login, rate limit | planned |
| Aggregator (`aggregator/`) | files | fetch, probe, publish | no |

### 1.2 How they interact

The interface sends intents to the service.  `startTunnel` queues a session on
a single worker thread.  For a *native* transport (MASQUE, WireGuard, WoW) the
worker prepares, establishes the TUN interface and then blocks inside
`aether_start_json_with_tun` until the core ends; cleaning up happens in the
worker's `finally`.  For SHARD the worker establishes the TUN, blocks inside
`ShardManager.start` until a node has been found, starts tun2socks and returns;
cleaning up happens in `stopTunnel`, on whichever thread calls it.  A second
single thread, the ladder scheduler, runs the watchdog, the backoff timer and
the quick reconnect, and calls `ShardManager.rotate` when a node stops
answering.  A network callback can bring a retry forward.  When a tunnel drops
with the kill switch on, the service replaces the interface by a blocking one.

Inside the core, `start` loads or registers the device identity and then runs
one reconnect loop (MASQUE, WireGuard, or one of the two-hop loops) until the
future is dropped by `aether_stop`.  A loop chooses a gateway, raises a tunnel
with a local side, either a bridge to the TUN file descriptor or the user-space
stack with a SOCKS server, and starts over when one of its tasks ends.  It
tells the app "connected" through `mark_ready`.

The Windows client is one Dart isolate: `connect`, `disconnect`, the watchdog and
the handlers of the core's exit are coroutines over the same fields, and each
`await` is a point where another may run.  `WindowsEngine` owns a sing-box
process and, while a tunnel is up, the Windows proxy setting, which outlives the
app; a flag in the preferences file tells the next start whether to undo it.

### 1.3 What is hard about it

* Three threads share a dozen unsynchronised fields, and what one of them
  decided is carried out seconds later by another.
* Every teardown has two shapes (worker's `finally`, or inline), and four
  different paths may schedule the next attempt.
* `stop` of the core and `stop` of ShardManager take no lock and may fall
  anywhere into a start.
* A service that called `stopSelf()` goes on running until `onDestroy`.
* Processes end when they like; ports are taken while they linger.
* The transport flag of the core is process-wide: a check reads it, a failed pass
  changes it, and the tunnel reads it again.
* A registration request can be applied without its answer arriving, and the
  process can die before the answer is on disk.
* The first task of a session to end decides which of the others are aborted,
  joined or left to end with their channels.
* On Windows a run that was cancelled, or has overrun its budget, unwinds in the
  background while the next one is started.

`PROJECT.json` lists these as hazards, each at the line where it bites and with
the properties that would notice it going wrong.

### 1.4 What makes each part correct

* Native core: one run at a time; `READY` never outlives its run; a stop is
  neither slept through nor forgotten.
* Service: what the user switched off ends, and stays off; a drop comes back; the
  reconnect latch is always somebody's; the seal is up exactly from the drop to the next verified
  connect; destruction ends all work; the status line is honest.
* Chained tunnels: a rung is accepted on its own merits; a ladder that ends lets the
  core go; an accepted rung that drops is reported.
* ShardManager: no process is orphaned or forgotten while it runs; a stopped
  session leaves none behind; calls give the monitor back; `activeNode` is the
  node that runs; pre-warming never disturbs a session.
* The loops of the core: an endpoint carries traffic only after a check accepted
  it over the same transport; "connected" means a validated session; every
  failure has a time limit and leads back to a gateway that answers.
* Identity: no saved registration is given up without cause, a refused one is replaced,
  and any damage is repaired by further starts.
* TCP stack: a close never overtakes data; no caller and no socket is forgotten.
* Windows client: one run at a time; the proxy can always be taken back; at rest
  nothing is left running.

## 2. The modules

### 2.1 AetherCore

Every atomic access of `ffi.rs` is a step of its own.  `pc[c]` walks a calling
thread through `aether_start_json_inner`: `claim` is the `compare_exchange`,
`clearStop` and `clearReady` the two stores behind it, `build` the construction
of the runtime, `select` the `block_on`, `dropRuntime`, `dropRunning` and
`dropReady` the drops in Rust's order.  `waiter[c]` and `signalled[c]` are the
`wait_for_stop` future polled in that select and its `Notified`.  `spc[s]` is a
thread in `aether_stop`: load, store, notify.

The transport is whatever `crate::start` does: `TunnelEnds` may happen at any
time with any result, and `MarkReady` may be called by a task for as long as the
runtime exists.  `NotifyWaiters` is tokio's (external): it reaches every
`Notified` created before the call, awaited or not, and stores no permit.

### 2.2 VpnSession

`svc` is the record of the service's fields, `worker` the session the worker
thread is executing, `kill` and `auto` the two preferences.  Each method of the
service is an operator from fields to fields (`StopTunnel`, `FailAndStop`,
`OnTunnelLost`, `StartTunnel`...), so that a handler's action is the composition
of the methods it calls, in order.  An action is what one thread does between
two calls that block or hand over to another thread; the phases of `worker` are
the calls it blocks in.  Main-thread actions: `Connect`, `AlwaysOn`,
`Disconnect`, `Reconnect`, `OnRevoke`, `OnDestroy`.  Scheduler: `Watchdog`,
`RotateBegin`, `RotateEnd`, `RetryFires`, `QuickRestart`, `QuickTimeout`,
`LadderStart`.  A retry and a quick restart test `userInitiatedStop` without a lock and
call `startTunnel` afterwards: `RetryFires` and `QuickRestart` end with the test, `due`
holds what is then about to be started, and `LadderStart` starts it, whatever the main
thread did in between.  The scheduler is one thread, so that its other steps wait for it
(`LadderFree`).  Network callback: `NetworkBack`.  Worker: the rest.

What is abstracted:

* A protocol is its shape, `native` or `front`; the configuration is the
  protocol.  Interfaces are `none`, `vpn` or `block`.
* Whether a tunnel carries traffic is not modelled: a VPN session may be judged
  dead at any tick, a proxy session only when its core is off, as
  `tunnelIsDead` does.
* `stopSelf()` marks the service as stopping; `onDestroy` follows.  Intents that
  arrive in between go to a new instance of the service and are not modelled.
* The shortest backoff is five seconds; a retry that was scheduled after
  `stopSelf()` is taken to be cancelled by `onDestroy` before it fires.  A retry
  brought forward by the network callback is not.
* `nativeExitWasUnexpected` is kept with the worker's session, which is the only
  one that writes and reads it.
* `rebuildKillSwitchVpn` fails only for want of the VPN consent.
* A `startTunnel` that throws inside a retry, and is rescheduled, is left out.

### 2.3 ShardManager

`op` is the call that holds the monitor, with a program counter (`pc`), what it
is launching (`mode`), the slice or profile it is at, the winner (`node`) and,
for a rotation, the node it leaves (`prev`).  `procs` lists every xray process
ever launched (alive, told to end, dead); `process` is the field, `port` the
process that owns the listening port.  `stops` are the threads `stop()` leaves
behind.  They take no lock, so that each has three steps: the test whether the field
still holds the process it waited for (`StopThreadTest`), the null (`StopThreadNull`)
and the resetting of `running` and `activeNode` (`StopThreadReset`).  A launch may write
the field between the first two; the history `dropped` has the processes that were put
out of the field in this way, alive and known to nobody.  `bg` is the background race
for a standby, with a step per access to a shared field.  `client`, `owed` and `count`
are the service's side: it calls `start` once the previous session is unwound,
`rotate` while a session is up, `stop` at any time, and once more from the catch
block of `startShardTunnel` when the start failed (`WorkerStop`).

What is abstracted: waiting for the monitor (a call begins when it gets it); the
probe and detached ports of a race; the order of candidates; the REALITY retry
(one more slice); the thirty-minute limit and job conditions of `prewarm`.  A
launch may fail at any time.  `KillDone` waits until the process is gone, which
`killProcess` guarantees by SIGKILL after three seconds.

### 2.4 Supervisor, MasqueLoop and WireGuardLoop

`Supervisor` is the abstract contract of a reconnect loop: it selects, raises one
session on an endpoint that a check of this round accepted (or that the user
fixed), announces "connected" in the step that validates the session, and starts
over with nothing proven when the session ends.  Both loops are shown to
implement it (`LoopSpec`, a refinement mapping in each module).  MASQUE uses a
forced gateway unprobed (`Trusted <- Forcible`); WireGuard has no such exception
(`Trusted <- {}`).

`MasqueLoop`: `run` is the record of `run_masque`'s locals; `pc` names the pass
(`pass1`, `again1` over HTTP/3, `pass2`, `again2` over HTTP/2), the renewals
between them and the parts of the loop.  `edge` is what the network and the
gateways would answer now, `flags` the two atomics of `masque_h2.rs`, `store` what
survives the process, `tun` the tunnel task with its local side.  `evidence` and
`refusers` are history: which check accepted the chosen gateway, and who refused
the current certificate.  `quic::run` and `masque_h2::run` are abstracted to:
becomes ready if the gateway serves, ends at any time, ends for certain when the
outbound channel closes or, over QUIC only, when the gateway goes silent (over
HTTP/2 a missed PONG is logged and the tunnel retained).  `AETHER_MASQUE_HTTP2`
is the user's preference like `H2_PREFERRED`.  `Ladder` is pass 2's truncated list of
gateways, `Gateways` the full one (`masque_gateway_peers()`) that the hunt scans over
HTTP/2.

`WireGuardLoop`: an endpoint works with a set of obfuscation profiles, which
changes at any moment (`works`).  `Top` is the head of the loop with the failure
count and the cooldown, `TryTeam` to `Hunt` the sources of an endpoint in their
order, `Validate` and `Expose` `run_wireguard_tunnel`, `Receive` and `Health` the
tasks of `WgTunnel::run`, with time counted in health intervals.

### 2.5 Identity

The registration service (`server`), the file (`disk`), the identity in the
process (`mem`) and the call in progress.  `Attempt` is one request: the service
may apply it, and independently the answer may be lost, cut off, a refusal (401,
404, 410), a 403, or worth retrying; `send_with_retry` on the direct route is
followed by one call on the camouflaged route.  `Outcome` is what
`load_or_provision_warp`, `load_or_provision_masque` and
`refresh_refused_masque_identity` do with the result.  The history `saved` has the
registrations the file has held and that no damage to it has cost since.  Keys are model values: one
that neither side knows is fresh.  `CalmDown` ends all faults, so that `Repairs`
can say what repeated starts achieve afterwards.

### 2.6 TwoHop

`run_gool` (WireGuard in WireGuard) and `run_mim` (MASQUE in MASQUE) share their
shape and one module; `mode` tells them apart where they differ: the inner
candidates, when the TUN bridge is started, who pays for a failure, and how a
session is torn down.  `live` are the tasks that run, `forwarders` and `bridges`
count what nobody has aborted.  `run.ironclad` is the Ironclad scan mode of `run_mim`, whose
ping raises a tunnel that announces itself (`IroncladPing`).  `GoolSessionEnds` is what the code does: it ends
the run with a panic (3.2).

### 2.7 NetStack

One turn of the task (`Turn`) services every connection: flush, half close,
deliver, close, forget, as one function per part of `service_tcp`.  Then the
biased select takes inbound packets, commands, data or the tick, in this order.
The two `try_recv` loops of the select are steps of their own, since the senders go on
while they run: `Ingest` takes one packet, up to `MaxIngest` (`MAX_INGEST_PER_TICK`)
after the first (`extra` counts them), and `IngestDone` ends the loop; `Data` and
`DataDone` do the same for `data_in`, which is read until it is empty.  A packet is
handed to its socket when it is taken; the code puts it into the device's queue, which
the next poll empties before anything else looks at a socket.
A smoltcp socket is its TCP state and the byte counts of its two buffers
(external); retransmission and windows are not modelled.  The applications are the
CONNECT relays of `socks.rs`.

### 2.8 WinController

A coroutine is a record in `task`; its `pc` is the wait on the outside world it
is in.  Waits that the microtask queue serves at once are in `Immediate`: no event
of the user, a timer or a process runs while one is pending (`Settled`), but the
app may be killed there.  `eng.process` is the field of SingboxCore, `eng.alive`
the processes that run; `proxy` is the Windows setting and the ownership flag in
memory and on disk.  `Overrun` leaves an attempt behind as a coroutine of its own
(`late`).  `Verified` may count an answer although the run was cancelled or the
process has just ended: `verifyThroughProxy` looks at its stop every 200 ms only.  The ranked, direct and Smart Connect attempts are one loop of
`MaxAttempts`; the retry of a configuration without backups is one more attempt
of it.  Scope: sing-box routes in system-proxy mode.

### 2.9 OuterLeg

`OuterLeg` extends AetherCore and drives it the way the service does.  `leg` is the
worker: free, in a native session's call of the core, or at a place of
`raiseOuterLeg` (`top` is the head of its loop with the test of `RUNNING`, `await` and
`probe` are `awaitOuterProxy`, `stop` and `grace` are `stopOuterLeg`).  `thread[t]` is
a bare "chain-outer" thread; its call of the core is AetherCore's `StartJson(t)` and
the steps after it.  `td[s]` is a thread in `stopTunnel` (the main thread or the
scheduler, the worker's catch block, a rung's thread), whose call of the core is
AetherCore's `StopLoad(s)`.  `committed`, `connected`, `stopRequested` and
`psiphonVpnMode` are the service's fields; `StopEnds` reads `psiphonVpnMode` as it is
then, so that the end of a late teardown acts on the session that has begun since.

What is abstracted: time, but for one assumption, `Started`: a rung's thread has
reached the core by the time `OUTER_START_GRACE_MS` (three seconds) is over, and by
the time the user starts another session.  The port of the chain accepts while some
rung's runtime is alive.  The inner leg (Psiphon) may fail at any time after the
commit.  Which rung is tried first, the memory of it, the notification and the
kill-switch half of `failAndStop` (`VpnSession` has it) are left out, and so are
SOCKS mode and Tor over WARP, which share `raiseOuterLeg`.

### 2.10 Modules around them

* `MCAetherStop` adds to `AetherCore` a history of which run each `aether_stop`
  saw.
* `MCVpnSession` adds whether any session has been reported connected.
* `MCShardSplit` adds who called `stop()` since the latch was cleared.
* `MCMasqueLoop`, `MCWireGuardLoop`, `MCTwoHop` and `MCWinController` give the constants that are sequences or sets of model values.  The other
  modules are run as they stand.
* `OuterLegProofs` (which includes AetherCore's), `VpnSessionProofs`,
  `ShardManagerProofs`, `MasqueLoopProofs` (which includes Identity's),
  `WireGuardLoopProofs`, `TwoHopProofs`, `NetStackProofs` and `WinControllerProofs` hold
  the theorems.  Because MasqueLoopProofs extends both modules, Identity's names that
  MasqueLoop has too are prefixed (`IdentitySpec`, `IdentityTypeOK`, `Absent` for no
  value; its start and end are `LoadOrProvision` and `EndProcess`).

`VpnSession` sees ShardManager as two blocking calls, `race` and the rotation,
which end as they like; `ShardManager` sees the service as `client`.  Both are
over-approximations of the other side, so a safety property of either holds of
the two together.  In the same way `VpnSession` sees the core as a call that
returns at some point once it was asked to stop; `AetherCore` shows when that is
justified (`StopEndsRun`) and when it is not (`AnsweredStopEndsRun`), and `OuterLeg`
puts the two sides together, step by atomic step, where they are entangled most: the
core called from threads the service does not join.  The loops
see `aether_stop` as the dropping of their future at any await (`Stop`), which is
what `AetherCore`'s select does; `MasqueLoop` sees the identity as a certificate
that can be renewed, `Identity` sees the loop as a gateway that refuses.

Each mutant operator (`ClaimBySwap`, `OnDestroyNoStop`...) stands before the
definition it replaces and is a plausible slip in that code; every checked
property is violated by one of them.

## 3. The runs

### 3.1 Passing

| Run | Module, configuration | Checks | Instance |
|---|---|---|---|
| `outer_leg` | OuterLeg, OuterLeg.cfg | SingleRun, NoStaleReady, NoLostWakeup, JudgesOwnRung, LadderReleasesCore, DropReported | the worker and 2 rung threads, 3 stoppers, 2 sessions, 1 stop: 584,797 states |
| `session_all` | VpnSession, VpnSessionAll.cfg | LatchOwned, SealOnlyVpn, DestroyEndsWork | both shapes, all preferences, 3 sessions, 1 quick reconnect: 252,785 states |
| `session_front_seal` | VpnSession, VpnSessionFrontSeal.cfg | SealHolds, HonestStatus, DisconnectEnds | SHARD, all preferences, no quick reconnect, 8 sessions: 2,885 states |
| `shard_start` | ShardManager, ShardStart.cfg | PrewarmAlone, CallsReturn, StopLeavesNothing | 1 node, 2 slices, 2 profiles, 3 processes, 2 starts, 1 stop: 504,170 states |
| `shard_rotate` | ShardManager, ShardRotate.cfg | ActiveNodeServes, CallsReturn | 2 nodes, 4 processes, 2 rotations, 1 start, 1 stop: 573,839 states |
| `masque_loop` | MCMasqueLoop, MasqueLoop.cfg | EvidenceHolds, RenewalJustified, Recovers, LoopSpec | 2 gateways, 1 revocation, limit 2: 152,640 states |
| `identity` | Identity, Identity.cfg | NoChurn, RefusalReplaced, Repairs | 3 registrations, 4 keys, 2 attempts: 1,134,278 states |
| `wireguard_loop` | MCWireGuardLoop, WireGuardLoop.cfg | CooldownKept, SilenceNoticed, Recovers, LoopSpec | 2 endpoints, 2 profiles: 326,384 states |
| `two_hop` | MCTwoHop, TwoHop.cfg | NoLeftovers, RescanEarned, ReadyMeansBothHops, Recovers | 3 edges, 2 of them inner candidates: 660,992 states |
| `netstack` | NetStack, NetStack.cfg | UploadIntact, DownloadIntact, Reclaimed | 1 connection among others, 2 bytes each way, queues of 1 and 2, 1 further packet per turn: 839,238 states |
| `win_controller` | MCWinController, WinController.cfg | ProxyOwned, SingleRun, RestReleases, DeadTunnelNoticed | 2 coroutines, 2 cores, 2 attempts, 1 crash, 3 settings: 343,878 states |

The modules state a few more properties that hold on the same instances, and are
checked by adding their names to the configuration: the type invariant `TypeOK` of
each module (proved, where section 4 says so), `NoOrphan` of ShardManager (in
ShardStart.cfg), `FallbackEarned` and `ConnectedMeansUp` of MasqueLoop,
`NoFakeConnect` of WireGuardLoop, `GivenUpMeansAsked` and `DeafSessionEnds` of
TwoHop, `Answered` and `Drained` of NetStack, `Settles` of WinController.
AetherCore.cfg checks the core by itself under callers and stoppers that do as they
like (2 each, 9,168 states), `StopEndsRun` included.

What the runs show:

* **outer_leg.**  Two runs never overlap although `RUNNING` is cleared before
  `READY` (`SingleRun`); a `mark_ready` of a dying run cannot make the next one look
  ready, because the runtime is dropped before the guard (`NoStaleReady`); creating
  the `Notified` before testing the flag closes the window for a lost wake-up
  (`NoLostWakeup`), so that a stop that finds a run in its select ends it.  Above
  that: `READY` and the port belong to no rung in particular, and yet the ladder never
  accepts a rung on another one's, thanks to its refusal of a busy core
  (`JudgesOwnRung`); a ladder that found nothing leaves the core free even when the
  grace of `stopOuterLeg` ran out (`LadderReleasesCore`); and an accepted rung that
  fails ends the session, whichever stop it races (`DropReported`).
* **session_all.**  The latch `reconnectRequested`,
  set on two threads and consumed on three, never keeps a service alive for
  nothing (`LatchOwned`).  The exception is a service the user has just disconnected:
  a rotation that outlives its session calls `onTunnelLost`, which latches and then
  declines to schedule (`RetryIsCertain`, section 3.2).  It takes four sessions, so the
  run did not meet it; the proof of `LatchOwned` did.  A proxy session is never sealed although its teardown
  clears `proxyMode` (`SealOnlyVpn`).  `onDestroy` in any phase ends the core and
  the worker (`DestroyEndsWork`).
* **session_front_seal.**  The SHARD shape holds the seal through failing retries
  (`SealHolds`) and never leaves a stale "connecting" behind (`HonestStatus`).  A
  Disconnect, in whatever phase of the start it arrives, ends the session and frees the
  interface unless the kill switch sealed it or the user connects again
  (`DisconnectEnds`), and so it does for the session that a retry may still start after
  it (VpnStaysOff.cfg): that one finds the service stopping.  The run is restricted to
  SHARD without quick reconnects because the properties do not hold beyond that: a native
  session loses its seal (VpnSealLost.cfg), outlives a Disconnect (VpnDisconnectLost.cfg)
  and leaves a stale status behind, and with a quick reconnect in flight the teardown it
  asked for drops the seal and the worker may report "connected" after it
  (`DisconnectEnds` holds there too).  No comment of the source promises otherwise for
  the stale status and the last case, so they are not listed as divergences.
* **shard_start.**  A stop that falls anywhere, with the worker's own stop after it,
  leaves no process (`StopLeavesNothing`); pre-warming never holds the monitor under a
  session that is up (`PrewarmAlone`); every call returns (`CallsReturn`).  The first two
  have one exception, the process that a late stop thread dropped (ShardForgets.cfg):
  it stays although the session was stopped, and while it carries the session the test of
  `process` lets `prewarm` in.  The properties show that nothing else leads there.
  `MaxRotations = 0`: a rotation can leave a process that no field holds, for the
  reason RotateServesAnother shows (3.2).
* **shard_rotate.**  Rotations that fail half-way, background races and late stop
  threads: between calls `activeNode`, which decides what a rotation leaves and which
  standby it may take, is null or the node of the process in the field
  (`ActiveNodeServes`), and rotations give the monitor back (`CallsReturn`).
* **masque_loop.**  However the fallback flag is set and cleared on the way, a
  tunnel is raised over the transport and with the certificate that the check used
  (`EvidenceHolds`); a certificate is renewed only after enough *different*
  gateways refused it (`RenewalJustified`); and from every mix of failed passes, renewals, scans and
  time-outs the run comes up again once a gateway serves (`Recovers`).
* **identity.**  A registration that was saved and that the service still honours stays
  in the file until the file itself is damaged: no 403, 5xx or silence, no lost answer,
  failed write or death of the process costs it (`NoChurn`).  One that was never saved has
  no such protection: a fresh registration is dropped when its answer is lost, and also
  when the enrolment that follows it fails, since `?` returns before `config::save`
  (main.rs:773-777).  A refusal seen on either route of an enrolment is acted
  upon (`RefusalReplaced`).  `Repairs` is restricted to team accounts or to
  registrations that are still live: IdentityDead.cfg shows why.
* **wireguard_loop.**  Forgetting an endpoint and cooling it go together
  (`CooldownKept`), and only the health task ends a session with a silent peer
  (`SilenceNoticed`).
* **two_hop.**  The first "connected" of a run has two validated hops of the same
  session behind it, over different edges for MASQUE, except for a `run_mim` that scans
  in Ironclad mode, whose ping announces (`ReadyMeansBothHops`; `HopsStaySilent` in 3.2);
  refused inner candidates leave no forwarder or bridge (`NoLeftovers`); `run_mim`
  rescans only for failures of the outer hop (`RescanEarned`).
* **netstack.**  `UploadIntact` and `DownloadIntact` are about closes overtaking
  data; `Reclaimed` says that an abandoned socket is closed and forgotten although
  nothing wakes the stack for it.  It assumes that the tunnel falls quiet at some time (`Quiet`): the select is
  biased, see NetStackStarve.cfg.
* **win_controller.**  Cancels, late processes, drops and a crash in any order
  leave no proxy that the next start would not undo (`ProxyOwned`) and, at rest,
  neither a core in the field nor a proxy pointing at one (`RestReleases`);
  `_connectRun` keeps runs apart (`SingleRun`); and the watchdog survives whatever happens during its awaits (`DeadTunnelNoticed`).
  `SingleRun` and `RestReleases` exclude the automatic transport, where they fail
  (WinDouble.cfg); `crash.torn` excludes a kill between the proxy write and the
  flag write, which the next start cannot see (it stays a divergence, 3.2).

### 3.2 Where a comment and the code disagree

`two_hop_panic` (MCTwoHop, TwoHopPanic.cfg) checks `NoPanic` and finds it violated:
when a WARP-in-WARP session ends by itself, `run_warp_in_warp` awaits all three join
handles, the one its `select!` has just consumed included, and tokio panics; the
run ends with -3 instead of reconnecting.  `run_masque_in_masque` avoids exactly
that and says so in a comment.

#### Further divergences

Each of these configurations checks one statement that a comment, a log line or a
test of the source makes and finds it violated
(`tlc -config <file>.cfg <module>`).  Where a row names constants or a property
besides its configuration, they replace those of the file.

| Configuration | Module | Property | What happens |
|---|---|---|---|
| MCAetherStop.cfg | MCAetherStop | AnsweredStopEndsRun | A stop between the `compare_exchange` and the clearing of `STOP_REQUESTED` answers 1 and is wiped; the run goes on (ffi.rs:391, against :612). |
| VpnSealLost.cfg | VpnSession | SealHolds | `onTunnelLost` seals while the native core unwinds; the worker's `finally` then closes the blocking interface (MolidoVpnService.kt:5015, against :362). |
| VpnStaysOff.cfg | VpnSession | StaysOff | A retry (:3523, :3557) and a quick restart (:2135) test `userInitiatedStop` and call `startTunnel` without a lock; a Disconnect between the two is followed by a session (against :318 "one the user switched off must stay off"). |
| VpnDisconnectLost.cfg | VpnSession | DisconnectReleases | A Disconnect while the worker is in `prepare` finds no core to stop, and the worker starts one afterwards (:4962, against :318). |
| OuterLeg.cfg, `PROPERTY CancelReleasesCore` alone | OuterLeg | CancelReleasesCore | A Disconnect between the start of a rung's thread and its `compare_exchange` finds no core to stop; `raiseOuterLeg` leaves without another look and the rung's run stays (:3811, against :2631 "Left running it would hold the core"). |
| VpnRetryDestroyed.cfg | VpnSession | RetryKeepsService | `failAndStop` of a SHARD session calls `stopSelf()` before it schedules the retry it means to keep the service for (:1940, against :1997). |
| ShardRotateStop.cfg, `PROPERTY RotateServesAnother` | ShardManager | RotateServesAnother | A rotation without a standby never destroys the old process, which keeps the port and makes the rotation look successful (ShardManager.kt:739, against :726). |
| ShardForgets.cfg | ShardManager | ForgetsOnlyEnded | `launch` writes the field (ShardManager.kt:191) between the stop thread's test (:309) and its null (:310); the fresh process is forgotten while it runs (against :307). |
| ShardSplit.cfg | MCShardSplit | SplitFallsBack | A failed Smart Split profile is cleared away with `stop()`, whose latch cancels the fallback (:641, against :410). |
| VpnSealLost.cfg, `INVARIANT DisconnectUnseals` | VpnSession | DisconnectUnseals | Disconnect after a native session's drop was sealed closes no interface. |
| VpnSealLost.cfg, `Protocols = {"front"}` | VpnSession | VerifiedConnectUnseals | A verified connect does not clear `killSwitchSealed`. |
| VpnRetryDestroyed.cfg, `KillSwitches = {TRUE}`, `AutoReconnects = {FALSE}` | VpnSession | SealKeepsService | Without auto-reconnect a SHARD drop is sealed after `stopSelf()`. |
| VpnUnsupervised.cfg | VpnSession | SupervisedSession | A late `finally` clears `connected` of the session after it. |
| VpnDropSealed.cfg | VpnSession | DropComesBack | The kill-switch branch of `finally` comes before the auto-reconnect branch and schedules nothing. |
| VpnFirstConnect.cfg | MCVpnSession | FirstConnectNeverSeals | A native first connect that fails seals the device. |
| VpnDisconnectLost.cfg, `Protocols = {"front"}`, `KillSwitches = {TRUE}` | VpnSession | DisconnectReleases | A Disconnect during a rotation is followed by `onTunnelLost`, which seals. |
| VpnRetryDestroyed.cfg, `MaxQuick = 1` | VpnSession | QuickKeepsService | A SHARD failure during a quick reconnect stops the service first. |
| VpnSealLost.cfg, `Protocols = {"native", "front"}`, `MaxSessions = 4`, `MaxQuick = 1` | VpnSession | RetryIsCertain | A SHARD rotation that outlives its session and a Disconnect reports the loss of a later, native session: `onTunnelLost` sets the latch and schedules nothing (:3448, against :3443 "Latched only now that a retry is certain"). |
| ShardRotateStop.cfg | ShardManager | RotateObeysStop | `switchToStandby` clears a stop that arrived while it waited. |
| ShardRotateStop.cfg, `MaxStops = 2`, `MaxStarts = 2`, `MaxRotations = 0` | ShardManager | FreshSessionRuns | A late stop thread resets `running` of the next session. |
| MasqueIronclad.cfg | MCMasqueLoop | ProbesStaySilent | The ping of the Ironclad scan mode raises a tunnel with `announce: true` (tunnelping.rs:135), so the app reads "connected" during a scan; prober.rs:561 says a probe must not. |
| TwoHop.cfg, `SPECIFICATION Spec`, `PROPERTY HopsStaySilent` alone | MCTwoHop | HopsStaySilent | The same ping, reached from `select_peer` of `run_mim`, announces before either hop stands (tunnelping.rs:135, :164); main.rs:3233 says that `run_masque_in_masque` announces once both hops validated. |
| MasqueRescan.cfg | MCMasqueLoop | RescanStartsOnH3 | After a session over the HTTP/2 fallback nothing clears the flag, and later rescans begin on HTTP/2; main.rs:1782 says "Every rescan now starts on HTTP/3." |
| IdentityDead.cfg | Identity | DeadDeviceReplaced | On a personal account a dropped registration with an unexpired certificate is never asked about at start; the renewal that the gateways' refusal leads to is refused, and the run fails the same way at every start. |
| IdentityErased.cfg | Identity | RefusalIsTheFinding | `fetch_device` reports only the second route's error, so a refusal on the first is lost; `enroll_key` (account.rs:623) says it is the finding. |
| NetStackStarve.cfg | NetStack | EveryArmProgresses | The select is biased towards inbound packets; commands and data wait for ever behind a steady download.  quic.rs:439 explains why its own select is not biased. |
| NetStackStarve.cfg, `SPECIFICATION Spec` | NetStack | SlowDownloadIntact | A reader whose queue is full when the socket closes loses the rest of the download. |
| WinKillSwitch.cfg | MCWinController | DeadProxyOwned | The dead proxy of the kill switch may be set without the ownership flag, and then neither a reconnect's failure nor a disconnect undoes it (windows_engine.dart:425). |
| WinKillSwitch.cfg | MCWinController | ExitReleases | Closing the window while disconnected, with the kill switch's dead proxy set, leaves the proxy on (main.dart:60). |
| WinCancel.cfg | MCWinController | CancelHolds | Smart Connect tests `_cancel` before the exit check only; a cancel during it comes up as connected (vpn_controller.dart:798). |
| WinDouble.cfg | MCWinController | RunsSerialized | In the automatic transport two waiters read the remote configuration and both start a run (vpn_controller.dart:1603, against :420). |

Observed in the same code and not stated as properties: a peer's FIN followed by
`close` drops pending upload; an opener that gives up before the SYN is answered is
noticed only then; `pending` has no bound and `alloc_port` wraps unchecked; pass 2 of
MASQUE renews after a single refusal; a certificate refused inside the loop never
leads to a renewal; a MASQUE-in-MASQUE session never counts as good, so its failure
count is reset by a rescan only; WireGuard, gool and mim do not retract "connected"
between sessions; an imported WireGuard endpoint is tried even while it is cooling; a
Disconnect during the watchdog's failover followed by a Connect is switched away from;
a kill of the Windows app between the proxy write and the flag write leaves a proxy that
the next start does not take back; an overrun attempt can leave a sing-box process that no field holds; `RunningGuard`
clears `RUNNING` before `READY`, so that the late half of its drop can wipe the `READY`
of the next rung; a rung that dies between the port check and `chainOuterCommitted =
true` is reported to nobody; the catch blocks of the chain clear `chainMode` before
`failAndStop`.

### 3.3 Bounds

* `OuterLeg`: two rungs are one that is rejected and its successor, two rung threads
  let the second start while the first unwinds (a rung beyond them is one that could
  not be prepared), two sessions are a chain before or after a native session or
  another chain.  One stop from outside comes on top of the ladder's, the worker's and
  the rungs' own.  JudgesOwnRung and the core's invariants are proved for any number.
* `MaxSessions`: three sessions give a predecessor that is still unwinding, a
  current one and a successor, which is what generation numbers tell apart.  The
  restricted SHARD run affords eight.
* `MaxQuick = 1`: one restart pending.  A second Reconnect is accepted only while
  `connected` still holds, that is while a native session unwinds, and its restart
  then finds a session connected and returns.
* `MaxProcs`: a start uses up to two probes and three tunnel launches, so three or
  four processes let a session run out of profiles or slices, or be followed by
  another.  A launch beyond the bound is one that failed, which the code handles.
* `Slices`, `Profiles`: two each for the loops to be taken more than once.
* `MaxStops`, `MaxStarts`, `MaxRotations`: `stop()` is also called by start itself
  and by the worker, so that one unprompted stop already gives three stop threads
  in flight; two rotations leave a node and come back to it.
* Two nodes in `shard_rotate` are the active node and a standby.
* Two gateways, with different places in the lists (one assigned by the
  organization and cached, one the account's and on the HTTP/2 ladder), let the passes
  disagree and repeat a gateway; `Limit = 2` is the code's.  `MaxRevocations = 1`
  gives one refused certificate and one renewal, which `cert` then tells apart.
* Two endpoints and two profiles let one pair fail while another works;
  `StaleTicks = 2` is the smallest count that is not one.
* Three registrations: the one in use, one lost and one fresh.  Four keys: on disk,
  in memory, enrolled and fresh.  `Attempts = 2` retries once.
* Three edges: an outer edge, two candidates of which one may be the outer edge.
* `NetStack`: one connection, and `Noise` for the rest of the traffic.  Connections
  share only the task and its channels, which `Noise` fills as another would.  Two
  bytes against queues and buffers of one make every queue overflow.  `MaxIngest = 1`
  with an inbound queue of two makes the drain end both ways, by an empty queue and by
  its limit.
* Two coroutines (a run and a waiter, or a run and a late attempt), two processes
  (the current and the leftover one), three settings that differ in what they enable.

No symmetry is used; runs with liveness properties would not allow it.
`CHECK_DEADLOCK FALSE` stands where the system may come to rest: a destroyed
service, a chain that was given up, or a manager whose bounds are used up.  AetherCore
by itself never rests and is checked for deadlock.

### 3.4 Fairness

* AetherCore, OuterLeg: a thread that has entered one of the two functions goes on,
  and so do the worker, the rungs' threads and a thread in `stopTunnel`.
  Nothing is assumed of the tunnel: a run that is never stopped may last for ever.
* VpnSession: the worker and the scheduler run what they were given (both are
  single-thread executors), `onDestroy` follows `stopSelf()`, and a core that was
  asked to stop returns.  Nothing is assumed of the user, the network, the
  watchdog's verdict or a core nobody asked to stop.
* ShardManager: the holder of the monitor goes on, since `race` and
  `awaitListener` have deadlines; stop threads, the worker's catch block and the
  background race go on; a process that was sent SIGTERM ends, by SIGKILL if need
  be.  A process nobody signalled may run for ever.
* MasqueLoop, WireGuardLoop, TwoHop: the future is polled and every wait in it has a
  deadline (probe timeouts, `masque_startup_timeout`, the validation timeout), so a
  step of the core that is possible is taken.  A tunnel ends for certain only for the
  reasons `TunnelDoomed` and the health task name.  Nothing is assumed of the user;
  the network is required to settle by the property itself, not by the specification.
* Identity: the process goes on with what it began; a user whose run carries nothing
  ends it and starts again, which `Repairs` needs.
* NetStack: the task and the relays are polled; a peer answers a SYN, takes what it
  is sent and closes after it was closed.  An opener need not give up.
* WinController: timers and coroutines run, so that attempts end by their time limits;
  the preference write reaches the disk; nothing is assumed of the user or the core.

## 4. The proofs

All proofs are of safety and hold for every value of the constants that the named
assumptions allow.  Each inductive invariant was checked by TLC on the run of its module
before it was proved.  The modules' assumptions say that "none" values are not elements
of the sets they stand apart from and that limits are natural numbers, positive where
the code's are.

**AetherCore** (first part of `OuterLegProofs`, for any sets of callers and stoppers;
`ThreadsAssumption` of OuterLeg is not used there).  The
conjunction of TypeOK, SingleRun, NoStaleReady and NoLostWakeup is inductive as
it stands (`Safety`), from which `TypeCorrect`, `MutualExclusion`,
`ReadyEndsWithRun` and `WakeupNotLost` follow.  The work is in one lemma per
property and one step per action.

**OuterLeg** (`OuterLegProofs`, for any sets of threads and any bounds;
`ThreadsAssumption`).  `ImplementsCore`: every step of the composition is a step of
AetherCore or leaves its variables alone, so `ChainSpec => Spec`, and the core's
invariants hold under the service (`CoreSafety`).  `RungJudgedAlone` (JudgesOwnRung)
rests on them: `LegInv` says that no thread holds or will take a run at `prepare`
(`QuietBefore`), that none but the rung in question does while it is judged
(`QuietOthers`), and that the worker leaves a thread behind that has not yet reached
the core only after a stop, which keeps the ladder from going on until a new session
begins, when the thread has arrived (`StartedOrStopped`).  At `top` the last part and
SingleRun turn "`RUNNING` is false" into `QuietBefore`.  The theorem rests on the
timing assumption `Started`, a guard of `StartTunnel` and `Await`.

**VpnSession** (`VpnSessionProofs`, for any subsets of protocols, modes and
preferences and any number of sessions; `SessionAssumption`).  Each method gets
one lemma: its result is again a `Service`, and it keeps `sessionGeneration`,
`userInitiatedStop` and the queue and never sets `proxyMode`.  The inductive
invariant adds to TypeOK that a pending retry has a stored configuration
(otherwise a retry would start nothing), that no queued session is newer than
`sessionGeneration`, and the shape of the worker's record.  Results:
`TypeCorrect`, `SealOnlyAfterVpn` (SealOnlyVpn, an action property) and `LatchSafe`
(LatchOwned).
LatchOwned is not inductive: an idle worker says nothing about who will consume the
latch.  `LatchHeld` does: a quick reconnect, a session of the *current* generation on
the worker or in its queue (an older session's `finally` leaves the latch alone), or,
while not connected, a pending retry or a user stop, after which the next Connect
consumes it.  Most methods are `Calm`, which means that they set no latch and drop
nothing one may be waiting for; calm methods compose, so that the lemmas about the
handlers reduce to the few methods that are not.

`ShardSealHolds` (SealHolds) and `ShardHonestStatus` (HonestStatus) have the hypothesis
`FrontScope`: SHARD sessions and no quick reconnect, which is the scope of the run
session_front_seal.  Outside of it the two are false (section 3.1), and inside of it
nothing else is restricted: the preferences, proxy or VPN mode, and the number of
sessions, drops, rotations and stops are arbitrary.  Neither is inductive: whether a seal
holds between sessions depends on how the last session ended, which happened while the
properties say nothing.  `FrontInv` says of a live service (`Live`) that there is one
session at a time, `connected` from the moment it is claimed until it has failed or was
lost, with the watchdog and its rotation only after the start (`OneSession`); that at
rest the blocking TUN is up where the seal is latched (`Blocked`) and the status line
matches what is pending (`Told`).  The work is a lemma per way a session ends
(`Dropped` is what they have in common: no session, no latch or consent touched, the
block in place, a retry pending or "failed" shown).

**ShardManager** (`ShardManagerProofs`, for any pool and any bounds;
`ShardAssumption`).  PrewarmAlone is not inductive: `prewarm` looks only at
`process` and `running`, so one has to know where the process of a session that is up
is.  `Covered` says it: the newest tunnel process is the field's, or a stop thread has
dropped it, and *no stop thread on its way to the null has captured it*, so that only an
overwritten test, never a matching one, can put it out of the field.  `ShardInv` adds
the positions each kind of call can be in (`OpShape`), what the call says about the
session (`ClientShape`) and that the worker owes a stop only for a session that is off.
A launch makes a session carried, because the new process has an index no stop thread
has captured; the session then becomes live without the field changing.  Results:
`Invariance`, `TypeCorrect`, `PrewarmNeverUnderSession` (PrewarmAlone) and
`ActiveNodeTrue` (ActiveNodeServes).  The last needs `NodesAgree`: a call past
`killProcess` has no active node, and what it launches is of the node it will name when
it serves, so that a stop thread that clears the one field without the other leaves null
behind and never a wrong node.  `OneProcess` (NoOrphan) takes `MaxRotations = 0`, the
scope of the run shard_start, as its hypothesis, since a rotation does leave processes
behind (RotateServesAnother).  `Alone` is its strengthening: no process but a dropped one
is alive at any point from which a launch can come, that is all along a call but for the
time its own process is in use, and between the sessions once the worker owes no stop;
`NullGone` adds that a stop thread past its test captured a process that is gone.  All
three of PrewarmAlone, NoOrphan and StopLeavesNothing except the dropped processes, which
is what the code does (ShardForgets.cfg).

**MasqueLoop** (`MasqueLoopProofs`, for any gateways, ladders, caches and limit).
`MasqueInv` has two independent halves.  `Evidenced`: evidence exists exactly while a
gateway is chosen, agrees with the transport and the certificate until the tunnel is
raised, and a tunnel exists exactly while the loop waits for it; `EvidenceSafe`
(EvidenceHolds) is read off it.  `Counting`: in pass 1 the number of rejections is the
number of *different* gateways that refused, all of them before the current position,
since a gateway that comes up again is passed over: that makes `RenewalSafe`
(RenewalJustified) more than a statement about a counter; pass 2 counts on and only keeps "somebody refused".  The
work is split along the shapes of a step (the search goes on, a check accepts, the
forced gateway is taken, the run ends, the tunnel moves).  `MasqueImplementsLoop`: each
shape is a step of `Supervisor` under the mapping of `LoopSpec`, or a stutter.
`FallbackSafe` (FallbackEarned) needs `Earned`: the HTTP/3 passes run with the flag
off, and a tunnel that was raised with it on runs over HTTP/2, so that a loop that comes
back from one may keep it.  `ConnectedSafe` is ConnectedMeansUp.

**WireGuardLoop** (`WireGuardLoopProofs`, for any endpoints, profiles, imported list
and limits).  `WireGuardInv`: the pair in use is the evidence, the session's socket is
the proved one (`ConnectHonest`, NoFakeConnect), and, for `CooldownSafe` (CooldownKept),
an unpinned run has no list or forced endpoint to take without looking, nothing cools
before the loop is entered, and what is about to be used is not cooling.
`WireGuardImplementsLoop` is the second refinement of `Supervisor`.

**TwoHop** (`TwoHopProofs`, for any edges, pool and failure limit).  `Hops`: which hop
is proved at which point and that the inner edge in the making is a candidate; with it
`NothingLeftOver` (NoLeftovers) and `ReadySafe` (ReadyMeansBothHops, an action
property, about every run but a `run_mim` in Ironclad mode).  `Rescans`: the failures `run_mim` counts are failures of the outer hop, where
a dead outer hop of a session that is still up is one more that is not counted yet
(`DeathUncounted`); with it `RescanSafe` (RescanEarned) and `GivenUpSafe`
(GivenUpMeansAsked).

**Identity** (last part of `MasqueLoopProofs`, for any devices, keys and attempts).  NoChurn, which
speaks of the registrations that were `saved`, is not inductive: `save` overwrites the file, so one has to know that the registration in it
is the one in memory or gone from the service.  `Gone` says so, and rests on the fact
that a refusal is only received of a device the service no longer has and that device
ids are not given out twice while the client holds them; `Held` says what file and
process hold at each position.  `Asked` carries RefusalReplaced from the refusal, which may have
come by the first route while the second one failed otherwise, to the registration that
replaces the device.  Results: `IdentityInvariant`, `NoneGivenUp` (NoChurn),
`RefusedIsReplaced` (RefusalReplaced).

**NetStack** (`NetStackProofs`, for any number of connections and any sizes of buffers,
queues and drains; `ConstantsAssumption`).  UploadIntact and DownloadIntact speak of the
moment an end is seen; the invariant (`StackInvariant`) accounts for every byte until
then.  How often a message occurs in a channel (`Count`) and how many bytes the chunks of
`to_app` hold (`Bytes`) are cardinalities of sets of positions, not recursive sums, so
that what a send and a receive do to them follows from the library's theorems on finite
sets.  Per connection: `Born` (an id is used once, so that nothing of it exists before
its command), `Said` (a close is the last thing an application says, in `data_in` and in
the socket), `Agreed` (the socket and its peer), `Upload` (written = in `data_in` +
pending + in the socket + taken, and our FIN stands behind all of it) and `Download`
(sent = in flight + in the socket + in `to_app` + read, nothing follows the peer's FIN,
and a connection that closed without a reset has received it).  The steps are proved on
these parts for one connection, with the channels as parameters; `OneStep` and a few
lemmas like it lift them to all connections.  Results: `UploadSafe` (UploadIntact) and
`DownloadSafe` (DownloadIntact, even without its premise that the peer has closed).

**WinController** (`WinControllerProofs`, for any number of coroutines, processes,
attempts and crashes; `WinAssumption`).  Every step has one of seven shapes (`StepShape`):
connect() lands somewhere, a run is over, an attempt is dropped or advances, a
disconnect begins, the app ends, or no coroutine moves.  `Queue` holds in every mode: the
microtask queue has one continuation or several callers resumed by the same run, an
attempt left behind never gets past `waitApi`, and a proxy that points at a core is
accounted for; `ProxyTakenBack` (ProxyOwned) follows.  `Serial` holds outside the
automatic transport: `_connectRun` is the only run, resumed callers find none or a state
that turns them away, and a core or an owned proxy belongs to a connected client or to an
attempt; `OneRun` (SingleRun) and `RestIsClean` (RestReleases) follow.

**Only model-checked.**  The liveness properties (LadderReleasesCore, DropReported,
StopEndsRun, DestroyEndsWork, DisconnectEnds, CallsReturn, StopLeavesNothing, Recovers,
Repairs, SilenceNoticed, Reclaimed, DeadTunnelNoticed), which need fairness.
Every safety property of the runs is proved.  What a theorem restricts is in its
hypothesis: SealHolds and HonestStatus to SHARD without a quick reconnect, NoOrphan to no
rotation.  NetStack's type invariant is proved as far as the theorems need it (`Typed`
leaves some counters and the queues' lengths unbounded); TLC checks the rest.

## 5. Not modelled, and the plan

Left out for good: byte handling (SOCKS parsing, the data planes of the transports,
packet relays, DNS), the construction of xray and sing-box configurations,
fetch-and-cache jobs, views, and the batch aggregator.  `core/quiche` is a third-party
copy of a QUIC library: 84 % of the repository's Rust lines (114,000 of 136,000), none
of them this project's logic, so that a count of mapped lines over the whole tree says
little; of `main.rs`, the native core's own control, 42 % is mapped, and most of the
rest is parsing of options, formatting and tests.

Not modelled yet:

* Tor over WARP and the chain in SOCKS mode, which share the ladder of `OuterLeg`;
* Auto selection, whose trials borrow the reconnect latch;
* the Psiphon ladder, a timer against late callbacks;
* the subscription worker's counters;
* UDP associations and incoming connections of the TCP stack;
* TUN mode, the free routes and AmneziaWG of the Windows client;
* the ranking of `ShardHealth`, a functional module.

Proofs that could follow: the same seal for native sessions, once the `finally` of an
older session leaves the interface of a newer one alone (VpnSealLost.cfg); liveness, with
a prover that has it.
