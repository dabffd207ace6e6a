--------------------------- MODULE WinController ---------------------------
(***************************************************************************)
(* The Windows client: VpnController (lib/core/vpn_controller.dart) over   *)
(* WindowsEngine (windows_engine.dart) and SingboxCore (singbox_core.dart) *)
(* for the sing-box routes in system-proxy mode.  Everything runs on one   *)
(* isolate: a step here is what runs between two waits on the outside      *)
(* world (a socket, a process, a timer, the user), so each wait is a pc.   *)
(* Waits that the microtask queue serves at once are no interleaving       *)
(* points, but the app can be killed there: `Settled` and `Crash`.         *)
(***************************************************************************)
EXTENDS Naturals, FiniteSets

CONSTANTS
    Tasks,          \* bound: coroutines alive at once
    Procs,          \* bound: sing-box processes alive at once
    Prefs,          \* the settings a user may have
    MaxAttempts,    \* _directAttempts / _connectAttempts
    MaxCrashes      \* bound: how often the app is killed

ASSUME WinAssumption ==
    /\ 0 \notin Tasks \cup Procs
    /\ {"off", "dead"} \cap Procs = {}
    /\ Prefs \subseteq [auto : BOOLEAN, smart : BOOLEAN, kill : BOOLEAN, reconnect : BOOLEAN]
    /\ MaxAttempts \in Nat \ {0} /\ MaxCrashes \in Nat

VARIABLES
    pref,       \* settings: automatic transport, Smart Connect, kill switch, auto-reconnect
    ui,         \* VpnController.state; "closed" while the app is not running
    ctl,        \* _cancel, _switchingAway, _userStopping, _connectRun, the watchdog
    task,       \* the coroutines of connect, disconnect and _switchAway
    eng,        \* SingboxCore.process (0: null) and the sing-box processes that run
    proxy,      \* the Windows proxy, and win_proxy_owned in memory and on disk
    crash       \* how often the app was killed, and whether inside WinSystemProxy.enable .. setBool

vars == <<pref, ui, ctl, task, eng, proxy, crash>>

Running == {"prepare", "ports", "spawn", "api", "verify", "own", "exit", "failed", "ending"}
NoTask == [pc |-> "none", by |-> "user", manual |-> FALSE, prev |-> 0, proc |-> 0, left |-> 0]
Fresh == [cancel |-> FALSE, switching |-> FALSE, stopping |-> FALSE, run |-> 0, watch |-> "idle"]

TypeOK ==
    /\ pref \in Prefs
    /\ ui \in {"disconnected", "connecting", "connected", "disconnecting", "closed"}
    /\ ctl \in [cancel : BOOLEAN, switching : BOOLEAN, stopping : BOOLEAN,
                run : Tasks \cup {0}, watch : {"idle", "failover", "switching"}]
    /\ task \in [Tasks -> [pc : Running \cup {"none", "closing", "await", "resume", "config"},
                           by : {"user", "switch", "watch", "exit", "late"}, manual : BOOLEAN,
                           prev : Tasks \cup {0}, proc : Procs \cup {0}, left : 0 .. MaxAttempts]]
    /\ eng \in [process : Procs \cup {0}, alive : SUBSET Procs]
    /\ proxy \in [at : Procs \cup {"off", "dead"}, owned : BOOLEAN, disk : BOOLEAN]
    /\ crash \in [n : 0 .. MaxCrashes, torn : BOOLEAN]

Init ==
    /\ pref \in Prefs
    /\ ui = "disconnected"
    /\ ctl = Fresh
    /\ task = [t \in Tasks |-> NoTask]
    /\ eng = [process |-> 0, alive |-> {}]
    /\ proxy = [at |-> "off", owned |-> FALSE, disk |-> FALSE]
    /\ crash = [n |-> 0, torn |-> FALSE]

-----------------------------------------------------------------------------
(* The microtask queue: what was resumed runs before the next event.       *)

Written == ui # "closed" /\ proxy.disk = proxy.owned
Immediate == {"own", "resume", "failed", "ending", "closing"}

Settled == Written /\ \A t \in Tasks : task[t].pc \notin Immediate

Free(t) == task[t].pc = "none"

At(t, pc) == task[t].pc = pc /\ (IF pc \in Immediate THEN Written ELSE Settled)

\* Mutant: the flag goes, the proxy stays.
ReleaseFlagOnly == [proxy EXCEPT !.owned = FALSE]

\* _releaseProxy, up to the write of the preference file (Flush).
Release == IF proxy.owned THEN [proxy EXCEPT !.at = "off", !.owned = FALSE] ELSE proxy

\* SingboxCore.stop: whatever process is in the field is killed.
CoreStop == eng' = [process |-> 0, alive |-> eng.alive \ {eng.process}]

\* WindowsEngine.disconnect.
EngineDisconnect == CoreStop /\ proxy' = Release

\* The write of win_proxy_owned reaches the disk.
Flush ==
    /\ ui # "closed"
    /\ proxy.disk # proxy.owned
    /\ proxy' = [proxy EXCEPT !.disk = proxy.owned]
    /\ UNCHANGED <<pref, ui, ctl, task, eng, crash>>

-----------------------------------------------------------------------------
(* connect().                                                              *)

\* Mutant: connect() does not wait for a run that is still unwinding.
LandingAtOnce(u, c, manual) ==
    IF u # "disconnected" THEN "none"
    ELSE IF pref.auto /\ ~manual THEN "config" ELSE "prepare"

\* Where connect() goes from its first line, given the state and _connectRun.
Landing(u, c, manual) ==
    IF c.run # 0 THEN "await"
    ELSE IF u # "disconnected" THEN "none"
    ELSE IF pref.auto /\ ~manual THEN "config" ELSE "prepare"

\* Mutant: _watching is not cleared in `finally`.
ClearedKeepsWatch(c, t) ==
    [c EXCEPT !.run = IF c.run = t THEN 0 ELSE @,
              !.switching = IF task[t].by \in {"switch", "watch"} THEN FALSE ELSE @]

\* What finishing task t leaves of the controller's flags: _switchingAway and
\* _watching are cleared in `finally`, _connectRun if it is still this run.
Cleared(c, t) ==
    [c EXCEPT !.run = IF c.run = t THEN 0 ELSE @,
              !.switching = IF task[t].by \in {"switch", "watch"} THEN FALSE ELSE @,
              !.watch = IF task[t].by = "watch" THEN "idle" ELSE @]

\* The coroutine goes to pc; reaching "prepare" is the synchronous head of _connect.
Goes(t, tk, pc, u, c) ==
    /\ task' = [task EXCEPT ![t] = IF pc = "none" THEN NoTask
                                   ELSE [tk EXCEPT !.pc = pc, !.left = MaxAttempts, !.prev = c.run]]
    /\ ui' = IF pc = "prepare" THEN "connecting" ELSE u
    /\ ctl' = IF pc = "prepare" THEN [c EXCEPT !.cancel = FALSE, !.run = t]
              ELSE IF pc = "none" THEN Cleared(c, t) ELSE c

\* A caller whose `await previous` is over tests the state and goes on.
Resume(t) ==
    /\ At(t, "resume")
    /\ Goes(t, task[t], Landing(ui, [ctl EXCEPT !.run = 0], task[t].manual), ui, ctl)
    /\ UNCHANGED <<pref, eng, proxy, crash>>

\* The remote configuration arrived or timed out; the state is not tested again.
ConfigRead(t) ==
    /\ At(t, "config")
    /\ Goes(t, task[t], "prepare", ui, ctl)
    /\ UNCHANGED <<pref, eng, proxy, crash>>

\* A tap on the button of a disconnected client, the schedule, a launch: connect().
\* A tap on a server of the list is connectTo, which disconnects first if connected.
Connect(t, manual) ==
    /\ Settled /\ Free(t)
    /\ manual \/ ui = "disconnected"
    /\ LET tk == [NoTask EXCEPT !.manual = manual] IN
       IF manual /\ ui = "connected"
       THEN /\ ui' = "disconnecting"
            /\ ctl' = [ctl EXCEPT !.stopping = TRUE]
            /\ task' = [task EXCEPT ![t] = [tk EXCEPT !.pc = "closing"]]
            /\ EngineDisconnect
       ELSE /\ Goes(t, tk, Landing(ui, ctl, manual), ui, ctl)
            /\ UNCHANGED <<eng, proxy>>
    /\ UNCHANGED <<pref, crash>>

\* The coroutine of a run ends; those that wait for it are resumed.
RunOver(t, u) ==
    /\ ui' = u
    /\ ctl' = Cleared(ctl, t)
    /\ task' = [s \in Tasks |->
                  IF s = t THEN NoTask
                  ELSE IF task[s].pc = "await" /\ task[s].prev = t THEN [task[s] EXCEPT !.pc = "resume"]
                  ELSE task[s]]

-----------------------------------------------------------------------------
(* _connect: its attempts are calls of WindowsEngine.connect.              *)

Move(t, pc) == task' = [task EXCEPT ![t].pc = pc]

\* on _Cancelled, or an unexpected error: engine.disconnect, then the state.
Abandon(t) == EngineDisconnect /\ Move(t, "ending") /\ UNCHANGED <<pref, ui, ctl, crash>>

\* The next attempt begins with engine.connect's own disconnect; without one left
\* a _UserError ends the run.
NextAttempt(t) ==
    IF task[t].left > 0
    THEN /\ EngineDisconnect
         /\ task' = [task EXCEPT ![t].pc = "ports", ![t].left = @ - 1, ![t].proc = 0]
         /\ UNCHANGED <<pref, ui, ctl, crash>>
    ELSE RunOver(t, "disconnected") /\ UNCHANGED <<pref, eng, proxy, crash>>

\* Permission, server list, WARP identity and probes are behind, or an attempt is.
Attempt(t) ==
    /\ At(t, "prepare") \/ At(t, "failed")
    /\ IF ctl.cancel THEN Abandon(t) ELSE NextAttempt(t)

\* The pool is empty, permission or account is refused: the run ends with an error.
NothingToTry(t) ==
    /\ At(t, "prepare")
    /\ RunOver(t, "disconnected")
    /\ UNCHANGED <<pref, eng, proxy, crash>>

\* SingboxCore.start: stop, then the configuration file and the process.
CoreStart(t) ==
    /\ At(t, "ports")
    /\ CoreStop
    /\ Move(t, "spawn")
    /\ UNCHANGED <<pref, ui, ctl, proxy, crash>>

\* Process.start returned: the field is set, whatever it holds by now.
Spawned(t) ==
    /\ At(t, "spawn")
    /\ \E p \in {q \in Procs \ (eng.alive \cup {proxy.at}) : \A s \in Tasks : task[s].proc # q} :
         /\ eng' = [process |-> p, alive |-> eng.alive \cup {p}]
         /\ task' = [task EXCEPT ![t].pc = "api", ![t].proc = p]
    /\ UNCHANGED <<pref, ui, ctl, proxy, crash>>

\* Process.start threw: the catch-all of _connect; a late attempt is just over.
SpawnFails(t) ==
    /\ At(t, "spawn")
    /\ IF task[t].by = "late"
       THEN task' = [task EXCEPT ![t] = NoTask] /\ UNCHANGED <<pref, ui, ctl, eng, proxy, crash>>
       ELSE Abandon(t)

\* waitApi, and the tunnel check when it begins, give up if they see _cancel; a late
\* attempt is over its deadline.
Wanted(t) == ~ctl.cancel /\ task[t].by # "late"

\* waitApi.
ApiUp(t) ==
    /\ At(t, "api")
    /\ Wanted(t)
    /\ task[t].proc \in eng.alive
    /\ Move(t, "verify")
    /\ UNCHANGED <<pref, ui, ctl, eng, proxy, crash>>

\* Mutant: an attempt that failed leaves its core running.
AttemptFailsKeepsCore(t) ==
    /\ At(t, "api") \/ At(t, "verify") \/ At(t, "exit")
    /\ task' = [task EXCEPT ![t] = IF @.by = "late" THEN NoTask ELSE [@ EXCEPT !.pc = "failed"]]
    /\ UNCHANGED <<pref, ui, ctl, eng, proxy, crash>>

\* waitApi or the tunnel check failed, timed out or saw the cancellation, or the
\* exit is in the wrong country: disconnect, and false to the caller.
AttemptFails(t) ==
    /\ At(t, "api") \/ At(t, "verify") \/ At(t, "exit")
    /\ EngineDisconnect
    /\ task' = [task EXCEPT ![t] = IF @.by = "late" THEN NoTask ELSE [@ EXCEPT !.pc = "failed"]]
    /\ UNCHANGED <<pref, ui, ctl, crash>>

\* The safety net of _directConnect: the budget is over while the files or the
\* process are still on their way.  The run goes on; the attempt is left behind
\* and finds itself over its deadline after the spawn.
Overrun(t, late) ==
    /\ At(t, "ports") \/ At(t, "spawn")
    /\ task[t].by # "late" /\ ~task[t].manual /\ Free(late)
    /\ EngineDisconnect
    /\ task' = [task EXCEPT ![t].pc = "failed", ![late] = [NoTask EXCEPT !.pc = task[t].pc, !.by = "late"]]
    /\ UNCHANGED <<pref, ui, ctl, crash>>

\* The tunnel carried traffic: WinSystemProxy.enable ...  The check polls its stop
\* every 200 ms, so an answer that is already in counts after a cancellation, and
\* after the attempt's process has gone.
Verified(t) ==
    /\ At(t, "verify")
    /\ task[t].proc # 0 /\ task[t].by # "late"
    /\ proxy' = [proxy EXCEPT !.at = task[t].proc]
    /\ Move(t, "own")
    /\ UNCHANGED <<pref, ui, ctl, eng, crash>>

\* ... and setBool(win_proxy_owned).
Own(t) ==
    /\ At(t, "own")
    /\ proxy' = [proxy EXCEPT !.owned = TRUE]
    /\ crash' = [crash EXCEPT !.torn = FALSE]
    /\ Move(t, "exit")
    /\ UNCHANGED <<pref, ui, ctl, eng>>

\* exitOk, and the state becomes connected.  _smartConnect tests _cancel before
\* exitOk only, the direct path after it.
Connected(t) ==
    /\ At(t, "exit")
    /\ IF ctl.cancel /\ ~pref.smart
       THEN Abandon(t)
       ELSE RunOver(t, "connected") /\ UNCHANGED <<pref, eng, proxy, crash>>

\* _markDisconnected behind the disconnect of an abandoned run.
Ended(t) ==
    /\ At(t, "ending")
    /\ RunOver(t, "disconnected")
    /\ UNCHANGED <<pref, eng, proxy, crash>>

-----------------------------------------------------------------------------
(* toggle() and disconnect().                                              *)

\* A tap on a connected client, the schedule, a disabled account: disconnect();
\* `by` is "exit" when the window is closed.
Disconnect(t, by) ==
    /\ Settled /\ Free(t)
    /\ ui = "connected" \/ (by = "exit" /\ ui \in {"connecting", "disconnecting"})
    /\ ui' = "disconnecting"
    /\ ctl' = [ctl EXCEPT !.stopping = TRUE]
    /\ task' = [task EXCEPT ![t] = [NoTask EXCEPT !.pc = "closing", !.by = by]]
    /\ EngineDisconnect
    /\ UNCHANGED <<pref, crash>>

\* The app is gone; its sing-box processes are detached and stay.
Gone ==
    /\ ui' = "closed"
    /\ ctl' = Fresh
    /\ task' = [t \in Tasks |-> NoTask]
    /\ eng' = [eng EXCEPT !.process = 0]

\* engine.disconnect is over: _markDisconnected, and connect() if it was connectTo
\* or _switchAway that closed, or the end of the app.
Closed(t) ==
    /\ At(t, "closing")
    /\ LET c == [ctl EXCEPT !.stopping = FALSE]
           next == IF task[t].manual \/ task[t].by # "user"
                   THEN Landing("disconnected", c, task[t].manual) ELSE "none" IN
       IF task[t].by = "exit" THEN Gone
       ELSE Goes(t, task[t], next, "disconnected", c) /\ UNCHANGED eng
    /\ UNCHANGED <<pref, proxy, crash>>

\* A tap while connecting: stop the core now, let the attempt unwind.
Cancel ==
    /\ Settled /\ ui = "connecting"
    /\ ctl' = [ctl EXCEPT !.cancel = TRUE]
    /\ EngineDisconnect
    /\ ui' = "disconnected"
    /\ UNCHANGED <<pref, task, crash>>

-----------------------------------------------------------------------------
(* A core that exits, and the watchdog.                                    *)

\* _switchAway from an engine event (already disconnected).
SwitchAway(t) ==
    LET c == [ctl EXCEPT !.switching = TRUE] IN
    Goes(t, [NoTask EXCEPT !.by = "switch"], Landing("disconnected", c, FALSE), "disconnected", c)

\* The process exits: the stdout handler, and the listener of the engine's states.
CoreExits(p) ==
    /\ Settled /\ p \in eng.alive
    /\ eng' = [process |-> IF eng.process = p THEN 0 ELSE eng.process, alive |-> eng.alive \ {p}]
    /\ proxy' = IF eng.process # p THEN proxy
                ELSE IF pref.kill THEN [proxy EXCEPT !.at = "dead"] ELSE Release
    /\ IF eng.process = p /\ ui = "connected" /\ ~ctl.stopping
       THEN IF pref.reconnect /\ ~ctl.switching
            THEN \E t \in Tasks : Free(t) /\ SwitchAway(t)
            ELSE ui' = "disconnected" /\ UNCHANGED <<ctl, task>>
       ELSE UNCHANGED <<ui, ctl, task>>
    /\ UNCHANGED <<pref, crash>>

\* Two checks failed: the watchdog asks the core for a backup and waits.
HealthFails ==
    /\ Settled /\ ui = "connected" /\ pref.reconnect /\ ctl.watch = "idle"
    /\ ctl' = [ctl EXCEPT !.watch = "failover"]
    /\ UNCHANGED <<pref, ui, task, eng, proxy, crash>>

\* A backup answered, or it is too early to give the server up (without a core
\* the next check fails as well).
Failover ==
    /\ Settled /\ ctl.watch = "failover"
    /\ eng.process # 0
    /\ ctl' = [ctl EXCEPT !.watch = "idle"]
    /\ UNCHANGED <<pref, ui, task, eng, proxy, crash>>

\* No backup: _switchAway from whatever the state is by now.
GiveServerUp(t) ==
    /\ Settled /\ ctl.watch = "failover" /\ Free(t)
    /\ LET c == [ctl EXCEPT !.watch = "switching", !.switching = TRUE] IN
       \/ /\ ctl.switching
          /\ ctl' = [ctl EXCEPT !.watch = "idle"]
          /\ UNCHANGED <<ui, task, eng, proxy>>
       \/ /\ ~ctl.switching /\ ui = "disconnected"
          /\ Goes(t, [NoTask EXCEPT !.by = "watch"], Landing(ui, c, FALSE), ui, c)
          /\ UNCHANGED <<eng, proxy>>
       \/ /\ ~ctl.switching /\ ui # "disconnected"
          /\ ctl' = [c EXCEPT !.stopping = TRUE]
          /\ ui' = "disconnecting"
          /\ task' = [task EXCEPT ![t] = [NoTask EXCEPT !.pc = "closing", !.by = "watch"]]
          /\ EngineDisconnect
    /\ UNCHANGED <<pref, crash>>

-----------------------------------------------------------------------------
(* The end of the app and its next start.                                  *)

\* The window is closed while disconnected: disconnect() returns at once.
Exit ==
    /\ Settled /\ ui = "disconnected"
    /\ Gone
    /\ UNCHANGED <<pref, proxy, crash>>

\* The app is killed anywhere, between two microtasks too.
Crash ==
    /\ ui # "closed" /\ crash.n < MaxCrashes
    /\ Gone
    /\ proxy' = [proxy EXCEPT !.owned = proxy.disk]
    /\ crash' = [n |-> crash.n + 1, torn |-> crash.torn \/ (proxy.at \in Procs /\ ~proxy.disk)]
    /\ UNCHANGED pref

\* main and WindowsEngine.init: what the last run left behind is released.
Launch ==
    /\ ui = "closed"
    /\ ui' = "disconnected"
    /\ proxy' = Release
    /\ UNCHANGED <<pref, ctl, task, eng, crash>>

RunStep(t) ==
    \/ Resume(t) \/ ConfigRead(t) \/ Attempt(t) \/ NothingToTry(t) \/ CoreStart(t)
    \/ Spawned(t) \/ SpawnFails(t) \/ ApiUp(t) \/ AttemptFails(t) \/ Verified(t) \/ Own(t)
    \/ Connected(t) \/ Ended(t) \/ Closed(t)

Watch == HealthFails \/ Failover \/ \E t \in Tasks : GiveServerUp(t)

Next ==
    \/ Flush \/ Cancel \/ HealthFails \/ Failover \/ Exit \/ Crash \/ Launch
    \/ \E t \in Tasks :
         \/ RunStep(t) \/ GiveServerUp(t)
         \/ \E manual \in BOOLEAN : Connect(t, manual)
         \/ \E by \in {"user", "exit"} : Disconnect(t, by)
         \/ \E late \in Tasks : Overrun(t, late)
    \/ \E p \in Procs : CoreExits(p)

Spec == Init /\ [][Next]_vars

FairSpec ==
    /\ Spec
    /\ WF_vars(Flush)
    /\ WF_vars(Watch)
    /\ \A t \in Tasks : WF_vars(RunStep(t))

-----------------------------------------------------------------------------
(* Properties.                                                             *)

\* Nothing is under way.
Quiet == ui = "disconnected" /\ Settled /\ \A t \in Tasks : Free(t)

\* The Windows proxy points at a core of ours only while the flag that lets the
\* next start take it back is on disk or on its way there.
ProxyOwned ==
    proxy.at \in Procs =>
        \/ proxy.disk \/ crash.torn
        \/ proxy.owned /\ ui # "closed"
        \/ \E t \in Tasks : task[t].pc = "own"

\* Outside the automatic transport there is never a second run of _connect: whoever
\* comes while one unwinds waits for it and tests the state again.
SingleRun ==
    ~pref.auto => Cardinality({t \in Tasks : task[t].pc \in Running /\ task[t].by # "late"}) <= 1

\* When the client has come to rest disconnected, after whatever mix of cancels,
\* failed attempts, late answers, drops and crashes, no core is left in the field
\* and the Windows proxy does not point at one.
RestReleases ==
    Quiet /\ ~pref.auto /\ ~crash.torn => eng.process = 0 /\ proxy.at \notin Procs

\* Connecting never lasts for ever.
Settles == ui = "connecting" ~> ui # "connecting"

\* With auto-reconnect on, a client that says connected over a core that is gone
\* does not stay so.
DeadTunnelNoticed ==
    pref.reconnect /\ ui = "connected" /\ eng.process = 0 ~> ui # "connected" \/ eng.process # 0

-----------------------------------------------------------------------------
(* What comments of the client say and the code does not do.               *)

\* "Kill switch: point browsers at a dead proxy so nothing leaks until reconnect
\* or disconnect": a dead proxy that the app does not own is undone by neither.
DeadProxyOwned == proxy.at = "dead" /\ Settled => proxy.owned

\* "Closing the window must turn the Windows system proxy off again."
ExitReleases == ui = "closed" /\ crash.n = 0 => proxy.at = "off"

\* "Cancel at once": a cancelled attempt does not come up as connected.
CancelHolds == [][ui = "disconnected" /\ ctl.cancel => ui' # "connected"]_vars

\* "two reconnect runs cannot race": of the automatic transport too.
RunsSerialized == Cardinality({t \in Tasks : task[t].pc \in Running /\ task[t].by # "late"}) <= 1
=============================================================================
