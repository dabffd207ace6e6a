----------------------------- MODULE VpnSession -----------------------------
(***************************************************************************)
(* The session lifecycle of the Android service, MolidoVpnService.kt: what *)
(* Connect, Disconnect, Reconnect, a dropped tunnel, a failed start, the   *)
(* retry timers and the kill switch do to each other.                      *)
(*                                                                         *)
(* Three threads share the service's fields: the main thread (intents,     *)
(* onRevoke, onDestroy), the single `worker` thread (one session after the *)
(* other), and the single `ladderScheduler` thread (watchdog, retries,     *)
(* quick reconnect).  A step is what a thread does between two calls that  *)
(* block or hand over to another thread.                                   *)
(*                                                                         *)
(* A session has one of two shapes.  "native" (MASQUE, WireGuard, WoW):    *)
(* the worker blocks in NativeCore.start until the core exits and cleans   *)
(* up in its `finally`.  "front" (SHARD): the worker brings up TUN, node   *)
(* process and tun2socks and returns; teardown is inline in stopTunnel.    *)
(***************************************************************************)
EXTENDS Naturals, Sequences

CONSTANTS
    Protocols,     \* the transports the user picks from, a subset of {"native", "front"}
    ProxyModes,    \* values CoreConfig.proxyOnly may have, a subset of BOOLEAN
    KillSwitches,  \* values of the "kill_switch" preference
    AutoReconnects,\* values of the auto-reconnect preference
    MaxSessions,   \* bound: startTunnel calls that get past the compareAndSet
    MaxQuick       \* bound: quick reconnects pending at once

ASSUME SessionAssumption ==
    /\ Protocols \subseteq {"native", "front"}
    /\ ProxyModes \subseteq BOOLEAN
    /\ KillSwitches \subseteq BOOLEAN
    /\ AutoReconnects \subseteq BOOLEAN
    /\ MaxSessions \in Nat
    /\ MaxQuick \in Nat

VARIABLES
    svc,     \* the fields of the service and what they drive
    worker,  \* the session the worker thread is executing
    due,     \* what a task of ladderScheduler is about to start, past its last test
    kill,    \* the "kill_switch" preference
    auto     \* the auto-reconnect preference

vars == <<svc, worker, due, kill, auto>>

Session == [gen : Nat, proto : Protocols]

NoSession == [phase |-> "idle"]

\* Phases of the worker: a session taken from the queue ("begin"); native:
\* inside NativeCore.prepare ("prepare"), inside NativeCore.start ("core"),
\* `finally` due ("exited"), its lifecycle decision due ("closed"); front: TUN
\* up, ShardManager.start due ("tun"), inside ShardManager.start ("race").
Phases == {"begin", "prepare", "core", "exited", "closed", "tun", "race"}

WorkerState ==
    {NoSession} \cup
    [phase : Phases, of : Session,
     proxy : BOOLEAN,         \* proxyMode as the worker read it
     unexpected : BOOLEAN,    \* nativeExitWasUnexpected
     armed : BOOLEAN]         \* killSwitch as `finally` read it

Service ==
    [connected : BOOLEAN,        \* connected
     gen : Nat,                  \* sessionGeneration
     stopReq : BOOLEAN,          \* stopRequested
     userStop : BOOLEAN,         \* userInitiatedStop
     latch : BOOLEAN,            \* reconnectRequested
     sealed : BOOLEAN,           \* killSwitchSealed
     proto : Protocols \cup {"none"},   \* currentProtocol
     proxy : BOOLEAN,            \* proxyMode
     stored : Protocols \cup {"none"},  \* storedConfig
     tun : {"none", "vpn", "block"},    \* the interface that is up
     consent : BOOLEAN,          \* establish() succeeds
     core : {"off", "running", "stopping"},  \* NativeCore
     watchdog : BOOLEAN,         \* watchdogTask armed
     rotating : BOOLEAN,         \* its tick is inside ShardManager.rotate
     retry : {"none", "backoff", "now"},  \* reconnectTask pending, and its delay
     callback : BOOLEAN,         \* connectivityCallback registered
     quick : Seq(Protocols),     \* scheduled quick reconnects
     queue : Seq(Session),       \* the worker's queue
     life : {"up", "stopping", "down"},      \* stopSelf() called, onDestroy() done
     ui : {"off", "connecting", "connected", "failed", "disconnected"}] \* last status sent

TypeOK ==
    /\ svc \in Service
    /\ worker \in WorkerState
    /\ due \in Protocols \cup {"none"}
    /\ kill \in BOOLEAN
    /\ auto \in BOOLEAN

Init ==
    /\ svc = [connected |-> FALSE, gen |-> 0, stopReq |-> FALSE, userStop |-> FALSE,
              latch |-> FALSE, sealed |-> FALSE, proto |-> "none", proxy |-> FALSE,
              stored |-> "none", tun |-> "none", consent |-> TRUE, core |-> "off",
              watchdog |-> FALSE, rotating |-> FALSE,
              retry |-> "none", callback |-> FALSE, quick |-> << >>, queue |-> << >>, life |-> "up",
              ui |-> "off"]
    /\ worker = NoSession
    /\ due = "none"
    /\ kill \in KillSwitches
    /\ auto \in AutoReconnects

-----------------------------------------------------------------------------
(* The service's methods, as functions from its fields to its fields.      *)

KillSwitchArmed(s) == ~s.proxy /\ kill

WillAutoReconnect(s) == auto /\ ~s.userStop /\ s.stored # "none"

StopSelf(s) == [s EXCEPT !.life = IF @ = "up" THEN "stopping" ELSE @]

\* sendStatus: CONNECTED is also the normal end of the reconnect latch.
SendStatus(s, status) ==
    IF status = "connected" THEN [s EXCEPT !.ui = status, !.latch = FALSE]
    ELSE [s EXCEPT !.ui = status]

\* establish() answers null once the consent is gone.
RebuildKillSwitchVpn(s) == [s EXCEPT !.tun = IF s.consent THEN "block" ELSE "none"]

SealWithKillSwitch(s, armed) ==
    IF armed THEN RebuildKillSwitchVpn([s EXCEPT !.sealed = TRUE]) ELSE s

\* Teardown common to every transport; NativeCore.stop() only reaches a core
\* that is running.
StopDataPath(s) ==
    [s EXCEPT !.stopReq = TRUE, !.watchdog = FALSE,
              !.core = IF @ = "running" THEN "stopping" ELSE @]

\* Only proxy and front sessions are unwound here; a native VPN session is left
\* to the worker's `finally`.
StopTunnel(s, notify, teardown) ==
    LET t == StopDataPath(s)
        inline == [t EXCEPT !.proxy = FALSE, !.tun = "none", !.connected = FALSE]
        told == IF notify THEN SendStatus(inline, "disconnected") ELSE inline
    IN  IF s.proxy \/ s.proto = "front"
          THEN IF teardown THEN StopSelf(told) ELSE told
          ELSE IF notify /\ ~s.connected THEN SendStatus(t, "disconnected") ELSE t

\* The scheduler is shut down in onDestroy.
ScheduleAutoReconnect(s) ==
    IF s.userStop \/ s.life = "down" \/ s.stored = "none" THEN s
    ELSE [SendStatus(s, "connecting") EXCEPT !.retry = "backoff"]

\* Mutant: a failure behind the seal is treated like any other.
FailAndStopUnsealed(s) ==
    LET t == StopTunnel([SendStatus(s, "failed") EXCEPT !.connected = FALSE], FALSE, FALSE)
    IN  IF t.latch THEN [t EXCEPT !.latch = FALSE]
        ELSE IF WillAutoReconnect(t) THEN ScheduleAutoReconnect(t)
        ELSE StopSelf(t)

FailAndStop(s) ==
    LET keepSeal == s.sealed /\ ~s.userStop /\ KillSwitchArmed(s)
        reported == IF keepSeal /\ WillAutoReconnect(s) THEN s ELSE SendStatus(s, "failed")
        t == StopTunnel([reported EXCEPT !.connected = FALSE], FALSE, ~keepSeal)
        resealed == RebuildKillSwitchVpn(t)
    IN  IF t.latch THEN [t EXCEPT !.latch = FALSE]
        ELSE IF keepSeal
          THEN IF WillAutoReconnect(t) THEN ScheduleAutoReconnect(resealed)
               ELSE SendStatus(resealed, "failed")
        ELSE IF WillAutoReconnect(t) THEN ScheduleAutoReconnect(t)
        ELSE StopSelf(t)

\* startTunnel returns silently while a session is connected.  SHARD is
\* refused in proxy mode; everything else is queued for the worker.
StartTunnel(s, p, px) ==
    LET t == [s EXCEPT !.connected = TRUE, !.gen = @ + 1, !.retry = "none", !.stored = p,
                       !.proto = p, !.stopReq = FALSE, !.proxy = px]
    IN  IF s.connected THEN s
        ELSE IF px /\ p = "front" THEN FailAndStop([t EXCEPT !.connected = FALSE])
        ELSE [t EXCEPT !.queue = Append(@, [gen |-> t.gen, proto |-> p])]

\* Mutant: the switch is consulted after the teardown.
OnTunnelLostLateRead(s) ==
    LET kept == StopTunnel([s EXCEPT !.connected = FALSE], FALSE, FALSE)
        armed == KillSwitchArmed(kept)
    IN  IF s.latch THEN s
        ELSE [ScheduleAutoReconnect(SealWithKillSwitch(kept, armed)) EXCEPT !.callback = TRUE]

\* Mutant: the retry is left to the network callback.
OnTunnelLostWaits(s) ==
    LET armed == KillSwitchArmed(s)
        kept == StopTunnel([s EXCEPT !.connected = FALSE], FALSE, FALSE)
    IN  IF s.latch THEN s
        ELSE [SealWithKillSwitch(kept, armed) EXCEPT !.callback = TRUE]

OnTunnelLost(s) ==
    LET armed == KillSwitchArmed(s)
        nativeCoreSession == ~s.proxy /\ s.proto = "native"
        given == StopTunnel([SendStatus(s, "failed") EXCEPT !.connected = FALSE], FALSE, TRUE)
        latched == IF nativeCoreSession THEN [s EXCEPT !.latch = TRUE] ELSE s
        kept == StopTunnel([latched EXCEPT !.connected = FALSE], FALSE, FALSE)
    IN  IF s.latch THEN s
        ELSE IF ~auto
          THEN IF armed THEN SendStatus(SealWithKillSwitch(given, armed), "failed")
               ELSE StopSelf(given)
        ELSE [ScheduleAutoReconnect(SealWithKillSwitch(kept, armed)) EXCEPT !.callback = TRUE]

CancelAutoReconnect(s) ==
    [s EXCEPT !.retry = "none", !.watchdog = FALSE, !.callback = FALSE]

\* ACTION_DISCONNECT and onRevoke.
UserStop(s) ==
    StopTunnel(CancelAutoReconnect([s EXCEPT !.userStop = TRUE, !.latch = FALSE,
                                             !.sealed = FALSE]), TRUE, TRUE)

-----------------------------------------------------------------------------
(* Main thread.  Once stopSelf() has been called, the next intent goes to  *)
(* a new instance of the service.                                          *)

CanStart == svc.gen < MaxSessions

Connect ==
    /\ svc.life = "up" /\ CanStart
    /\ \E p \in Protocols, px \in ProxyModes :
         svc' = StartTunnel([svc EXCEPT !.userStop = FALSE, !.sealed = FALSE], p, px)
    /\ UNCHANGED <<worker, due, kill, auto>>

\* Always-on VPN, or the system restarting the service with a null intent.
AlwaysOn ==
    /\ svc.life = "up" /\ CanStart
    /\ ~svc.connected
    /\ \E p \in Protocols, px \in ProxyModes :
         svc' = StartTunnel([svc EXCEPT !.userStop = FALSE, !.sealed = FALSE], p, px)
    /\ UNCHANGED <<worker, due, kill, auto>>

Disconnect ==
    /\ svc.life = "up"
    /\ svc' = UserStop(svc)
    /\ UNCHANGED <<worker, due, kill, auto>>

Reconnect ==
    /\ svc.life = "up"
    /\ svc.stored # "none" /\ svc.connected
    /\ Len(svc.quick) < MaxQuick
    /\ svc' = [StopTunnel([svc EXCEPT !.latch = TRUE], FALSE, FALSE)
                 EXCEPT !.quick = Append(@, svc.stored)]
    /\ UNCHANGED <<worker, due, kill, auto>>

\* The interface is already gone; super.onRevoke() calls stopSelf().
OnRevoke ==
    /\ svc.life = "up" /\ svc.consent
    /\ svc' = StopSelf(UserStop([svc EXCEPT !.consent = FALSE, !.tun = "none"]))
    /\ UNCHANGED <<worker, due, kill, auto>>

\* Mutant: the executors are shut down but the tunnel is not stopped.
OnDestroyNoStop ==
    /\ svc.life = "stopping"
    /\ svc' = [CancelAutoReconnect(svc)
                 EXCEPT !.life = "down", !.queue = << >>, !.quick = << >>]
    /\ UNCHANGED <<worker, due, kill, auto>>

OnDestroy ==
    /\ svc.life = "stopping"
    /\ svc' = [StopTunnel(CancelAutoReconnect(svc), FALSE, TRUE)
                 EXCEPT !.life = "down", !.queue = << >>, !.quick = << >>]
    /\ UNCHANGED <<worker, due, kill, auto>>

-----------------------------------------------------------------------------
(* The ladderScheduler thread: nothing else runs on it during a rotation,  *)
(* or between the tests of a retry and its startTunnel.                    *)

LadderFree == ~svc.rotating /\ due = "none"

\* tunnelIsDead: a native tunnel that moves no bytes, a node that answers no
\* probe or whose process, front-end or routing is gone.  A proxy session is
\* judged on its core alone.
TunnelIsDead == svc.proxy => svc.core = "off"

Watchdog ==
    /\ svc.watchdog /\ LadderFree
    /\ ~svc.stopReq /\ ~svc.userStop /\ svc.connected
    /\ TunnelIsDead
    /\ svc' = OnTunnelLost(svc)
    /\ UNCHANGED <<worker, due, kill, auto>>

\* rotateShardNode: the tick of a front session, or watchShardFreeze, tries to
\* replace the node under it, a blocking call that holds ShardManager's lock.
RotateBegin ==
    /\ svc.watchdog /\ LadderFree
    /\ ~svc.stopReq /\ ~svc.userStop /\ svc.connected
    /\ TunnelIsDead
    /\ svc.proto = "front" /\ worker.phase # "race"
    /\ svc' = [SendStatus(svc, "connecting") EXCEPT !.rotating = TRUE]
    /\ UNCHANGED <<worker, due, kill, auto>>

\* Another node serves the port, or the tick goes on to onTunnelLost, or a
\* freeze's rotation just ends.  The conditions it started under are not looked
\* at again.
RotateEnd ==
    /\ svc.rotating
    /\ LET s == [svc EXCEPT !.rotating = FALSE]
       IN  svc' \in {SendStatus(s, "connected"), OnTunnelLost(s), s}
    /\ UNCHANGED <<worker, due, kill, auto>>

\* The shortest backoff is 5 s, and onDestroy cancels the task within that.
RetryFires ==
    /\ svc.retry = "now" \/ (svc.retry = "backoff" /\ svc.life = "up")
    /\ CanStart /\ LadderFree
    /\ svc' = [svc EXCEPT !.retry = "none"]
    /\ due' = IF svc.userStop \/ svc.connected THEN "none" ELSE svc.stored
    /\ UNCHANGED <<worker, kill, auto>>

\* onAvailable replaces the pending retry by an immediate one.
NetworkBack ==
    /\ svc.callback
    /\ WillAutoReconnect(svc) /\ ~svc.connected /\ svc.life # "down"
    /\ svc' = [svc EXCEPT !.retry = "now"]
    /\ UNCHANGED <<worker, due, kill, auto>>

StillShuttingDown == svc.core # "off" \/ svc.connected

QuickRestart ==
    /\ svc.quick # << >> /\ ~StillShuttingDown /\ LadderFree
    /\ svc.userStop \/ CanStart
    /\ svc' = [svc EXCEPT !.quick = Tail(@), !.latch = @ /\ ~svc.userStop]
    /\ due' = IF svc.userStop THEN "none" ELSE Head(svc.quick)
    /\ UNCHANGED <<worker, kill, auto>>

\* The task calls startTunnel; nothing it has tested need hold any more.  Past
\* onDestroy the worker rejects the session.
LadderStart ==
    /\ due # "none"
    /\ CanStart \/ svc.connected
    /\ \E px \in ProxyModes :
         LET s == StartTunnel(svc, due, px)
         IN  svc' = IF svc.life = "down" THEN [s EXCEPT !.queue = << >>] ELSE s
    /\ due' = "none"
    /\ UNCHANGED <<worker, kill, auto>>

\* RECONNECT_CORE_WAIT_MS have passed and the old session is still there.
QuickTimeout ==
    /\ svc.quick # << >> /\ StillShuttingDown /\ LadderFree
    /\ svc' = [SendStatus(svc, "failed") EXCEPT !.quick = Tail(@), !.latch = FALSE]
    /\ UNCHANGED <<worker, due, kill, auto>>

-----------------------------------------------------------------------------
(* The worker thread.                                                      *)

TakeSession ==
    /\ worker = NoSession
    /\ svc.queue # << >>
    /\ worker' = [phase |-> "begin", of |-> Head(svc.queue), proxy |-> FALSE,
                  unexpected |-> FALSE, armed |-> FALSE]
    /\ svc' = [svc EXCEPT !.queue = Tail(@)]
    /\ UNCHANGED <<due, kill, auto>>

\* proxyMode decides between startProxy and a TUN, then prepare blocks.
NativePrepare ==
    /\ worker.phase = "begin" /\ worker.of.proto = "native"
    /\ worker' = [worker EXCEPT !.phase = "prepare", !.proxy = svc.proxy]
    /\ UNCHANGED <<svc, due, kill, auto>>

\* In VPN mode the interface is established; the watchdog is armed and the
\* worker blocks in NativeCore.start.
NativeStart ==
    /\ worker.phase = "prepare"
    /\ worker.proxy \/ svc.consent
    /\ svc.life # "down"
    /\ svc' = [SendStatus(svc, "connecting")
                 EXCEPT !.tun = IF worker.proxy THEN @ ELSE "vpn",
                        !.watchdog = TRUE, !.core = "running"]
    /\ worker' = [worker EXCEPT !.phase = "core"]
    /\ UNCHANGED <<due, kill, auto>>

\* prepare, establish or arming the watchdog threw: reported, never retried.
NativeSetupFails ==
    /\ worker.phase = "prepare"
    /\ svc' = SendStatus(svc, "failed")
    /\ worker' = [worker EXCEPT !.phase = "exited"]
    /\ UNCHANGED <<due, kill, auto>>

\* A mark_ready of the core reaches onEvent; the core may call it repeatedly.
CoreReady ==
    /\ worker.phase = "core"
    /\ svc' = LET s == SendStatus(svc, "connected")
              IN  IF svc.proxy THEN [s EXCEPT !.connected = TRUE] ELSE s
    /\ UNCHANGED <<worker, due, kill, auto>>

\* The core reconnects on its own and says so.
CoreConnecting ==
    /\ worker.phase = "core"
    /\ svc' = SendStatus(svc, "connecting")
    /\ UNCHANGED <<worker, due, kill, auto>>

\* NativeCore.start returned, asked to or not.
CoreExits ==
    /\ worker.phase = "core"
    /\ worker' = [worker EXCEPT !.phase = "exited", !.unexpected = ~svc.stopReq]
    /\ svc' = LET s == [svc EXCEPT !.core = "off"]
              IN  IF s.stopReq THEN SendStatus(s, IF s.latch THEN "connecting" ELSE "disconnected")
                  ELSE IF WillAutoReconnect(s) THEN s
                  ELSE SendStatus(s, "failed")
    /\ UNCHANGED <<due, kill, auto>>

\* `finally`, first part: the interface and `connected` go, whoever owns them.
WorkerClose ==
    /\ worker.phase = "exited"
    /\ worker' = [worker EXCEPT !.phase = "closed", !.armed = KillSwitchArmed(svc)]
    /\ svc' = [svc EXCEPT !.tun = "none", !.connected = FALSE]
    /\ UNCHANGED <<due, kill, auto>>

\* Mutant: the latch is read but not consumed.
WorkerFinallyKeepsLatch ==
    /\ worker.phase = "closed"
    /\ svc' = IF svc.latch THEN svc ELSE StopSelf(svc)
    /\ worker' = NoSession
    /\ UNCHANGED <<due, kill, auto>>

\* `finally`, second part: the ladder of lifecycle decisions.
WorkerFinally ==
    /\ worker.phase = "closed"
    /\ svc' = IF worker.of.gen # svc.gen THEN svc
              ELSE IF svc.latch THEN [svc EXCEPT !.latch = FALSE]
              ELSE IF worker.armed /\ ~svc.stopReq
                THEN SealWithKillSwitch(SendStatus(svc, "failed"), worker.armed)
              ELSE IF worker.unexpected /\ WillAutoReconnect(svc) THEN ScheduleAutoReconnect(svc)
              ELSE StopSelf(svc)
    /\ worker' = NoSession
    /\ UNCHANGED <<due, kill, auto>>

\* startShardTunnel: the TUN comes first.
FrontEstablish ==
    /\ worker.phase = "begin" /\ worker.of.proto = "front"
    /\ svc.consent
    /\ svc' = [SendStatus(svc, "connecting") EXCEPT !.tun = "vpn"]
    /\ worker' = [worker EXCEPT !.phase = "tun"]
    /\ UNCHANGED <<due, kill, auto>>

\* ShardManager.start takes its lock and races the pool (module ShardManager).
FrontRace ==
    /\ worker.phase = "tun"
    /\ ~svc.rotating
    /\ worker' = [worker EXCEPT !.phase = "race"]
    /\ UNCHANGED <<svc, due, kill, auto>>

\* A node won, the front-end and tun2socks are up.  A stop during the race has
\* left no TUN to route.
FrontConnects ==
    /\ worker.phase = "race"
    /\ svc.tun # "none" /\ svc.life # "down"
    /\ svc' = [SendStatus(svc, "connected") EXCEPT !.watchdog = TRUE]
    /\ worker' = NoSession
    /\ UNCHANGED <<due, kill, auto>>

\* Mutant: the failure is reported and the session abandoned as it stands.
FrontFailsOpen ==
    /\ worker.phase \in {"begin", "tun", "race"} /\ worker.of.proto = "front"
    /\ svc' = SendStatus(svc, "failed")
    /\ worker' = NoSession
    /\ UNCHANGED <<due, kill, auto>>

FrontFails ==
    /\ worker.phase \in {"begin", "tun", "race"} /\ worker.of.proto = "front"
    /\ svc' = FailAndStop(svc)
    /\ worker' = NoSession
    /\ UNCHANGED <<due, kill, auto>>

-----------------------------------------------------------------------------
MainStep == Connect \/ AlwaysOn \/ Disconnect \/ Reconnect \/ OnRevoke
LadderStep == RetryFires \/ QuickRestart \/ QuickTimeout \/ LadderStart \/ RotateEnd
CoreStops == svc.core = "stopping" /\ CoreExits
WorkerStep ==
    TakeSession \/ NativePrepare \/ NativeStart \/ NativeSetupFails \/ CoreStops
    \/ WorkerClose \/ WorkerFinally \/ FrontEstablish \/ FrontRace \/ FrontConnects \/ FrontFails

Next ==
    \/ MainStep \/ OnDestroy
    \/ LadderStep \/ Watchdog \/ RotateBegin \/ NetworkBack
    \/ WorkerStep \/ CoreReady \/ CoreConnecting \/ CoreExits

Spec == Init /\ [][Next]_vars

(* The worker and the scheduler run what they were given, the main thread  *)
(* gets to onDestroy, and a core that was told to stop returns.            *)
FairSpec ==
    /\ Spec
    /\ WF_vars(WorkerStep)
    /\ WF_vars(LadderStep)
    /\ WF_vars(OnDestroy)
-----------------------------------------------------------------------------
\* No session is queued or on the worker.
Idle == worker = NoSession /\ svc.queue = << >>

\* The blocking TUN is only ever put up for a session that had a TUN: every
\* drop path decides before stopTunnel clears proxyMode.
SealOnlyVpn == [][svc.tun # "block" /\ svc'.tun = "block" => ~svc.proxy]_vars

\* The reconnect latch never outlives what it protects: while it keeps a live
\* service from being stopped, a session is still unwinding or starting, or a
\* restart is scheduled.  A latch left behind makes the service unstoppable.
\* After a Disconnect nothing needs to come: the next Connect starts a session.
LatchOwned ==
    svc.latch /\ svc.life = "up" /\ ~svc.userStop
      => ~Idle \/ svc.quick # << >> \/ svc.retry # "none" \/ due # "none"

\* onDestroy leaves nothing behind that still runs: whatever the worker was
\* doing, the core ends and the worker comes to rest.
DestroyEndsWork == svc.life = "down" ~> (Idle /\ svc.core = "off")

\* Disconnect ends the session and takes every interface down, in whatever
\* phase of the start it arrives.
DisconnectReleases == svc.userStop ~> (~svc.userStop \/ (Idle /\ svc.tun = "none"))

\* The part of it that the SHARD sessions keep: the session ends and, without the
\* kill switch, no interface is left behind.  That holds as well for a session
\* which a retry still starts after the Disconnect it did not see (StaysOff).
DisconnectEnds ==
    svc.userStop ~> (~svc.userStop \/ (Idle /\ (kill \/ svc.tun = "none")))

\* While killSwitchSealed is latched and the switch is on, a live service that
\* is between sessions has an interface up, so that no traffic leaves the device
\* around it.
SealHolds ==
    svc.sealed /\ kill /\ ~svc.userStop /\ svc.life = "up" /\ Idle => svc.tun # "none"

\* The status line is honest: a service with no session, no retry and no restart
\* pending does not claim to be connecting or connected.
HonestStatus ==
    Idle /\ svc.quick = << >> /\ svc.retry = "none" /\ due = "none" /\ svc.life = "up" /\ ~svc.connected
      => svc.ui \notin {"connecting", "connected"}

-----------------------------------------------------------------------------
(* What the comments of MolidoVpnService.kt say and the code does not do.  *)

\* "one the user switched off must stay off": between Disconnect (or a revoked
\* consent) and the next Connect nothing starts a session.  A retry or a quick
\* reconnect that has tested userInitiatedStop just before goes on to startTunnel.
StaysOff == [][svc.userStop /\ svc'.userStop => svc'.gen = svc.gen]_vars

\* killSwitchSealed is "Cleared on a verified connect and on a user
\* disconnect": sendStatus(CONNECTED) does not clear it.
VerifiedConnectUnseals == svc.ui = "connected" => ~svc.sealed

\* "Disconnect must take the blocking TUN down with the session": stopTunnel
\* closes no interface of a native session, and no `finally` is left to do it.
DisconnectUnseals == svc.userStop /\ Idle => svc.tun # "block"

\* failAndStop: "keep the service alive and schedule another attempt".  It has
\* already passed teardownService = true to stopTunnel.
RetryKeepsService == svc.retry # "none" => svc.life = "up"

\* failAndStop: "A quick reconnect owns the service ... killing the service would
\* strand the restart".  The latch is looked at after stopTunnel called stopSelf.
QuickKeepsService == svc.quick # << >> /\ ~svc.userStop => svc.life = "up"

\* onTunnelLost: the latch is set "only now that a retry is certain".  A rotation
\* that outlives its session and a Disconnect latches and schedules nothing.
RetryIsCertain ==
    svc.latch /\ svc.life = "up"
      => ~Idle \/ svc.quick # << >> \/ svc.retry # "none" \/ due # "none"

\* The kill switch is honoured when auto-reconnect is off as well: a sealed
\* device's service is not told to stop, which would release the seal.
SealKeepsService == svc.sealed /\ ~svc.userStop => svc.life = "up"

\* The watchdog supervises the session that owns the service: while the core of
\* the newest session runs and nobody asked it to stop, `connected` holds, or
\* every tick returns early and Reconnect is ignored.
SupervisedSession ==
    worker.phase = "core" /\ worker.of.gen = svc.gen /\ ~svc.stopReq => svc.connected

\* "A tunnel that dies on its own must come back": with auto-reconnect on, the
\* unexpected exit of the current core is followed by another session.
DropComesBack ==
    \A g \in 1..(MaxSessions - 1) :
        (/\ worker.phase \in {"exited", "closed"} /\ worker.unexpected
         /\ worker.of.gen = g /\ svc.gen = g
         /\ auto /\ ~svc.userStop)
          ~> (svc.gen > g \/ svc.userStop)
=============================================================================
