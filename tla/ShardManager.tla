---------------------------- MODULE ShardManager ----------------------------
(***************************************************************************)
(* ShardManager.kt: the owner of the xray process behind a SHARD session.  *)
(* start, rotate and prewarm hold one monitor and block for seconds; stop  *)
(* is called from any thread without it, latches a flag, destroys the      *)
(* process it sees and leaves the rest to a thread of its own.  A race for *)
(* a standby node runs beside all of them.                                 *)
(*                                                                         *)
(* Waiting for the monitor is not modelled: a call begins when it gets it. *)
(***************************************************************************)
EXTENDS Naturals, Sequences

CONSTANTS
    Nodes,         \* the nodes of the pool
    None,          \* Kotlin's null, for a node
    Slices,        \* MAX_RACE_SLICES
    Profiles,      \* Smart Split candidates; 0 when the feature is off
    MaxProcs,      \* bound: processes launched
    MaxStops,      \* bound: stop() calls the service makes unprompted
    MaxStarts,     \* bound: start() calls
    MaxRotations   \* bound: rotate() calls

ASSUME ShardAssumption ==
    /\ None \notin Nodes
    /\ Slices \in Nat /\ Profiles \in Nat
    /\ MaxProcs \in Nat /\ MaxStops \in Nat /\ MaxStarts \in Nat /\ MaxRotations \in Nat

VARIABLES
    op,        \* the call that holds the monitor
    stopReq,   \* stopRequestedDuringStart
    process,   \* process: an index of procs, or 0 for null
    running,   \* running
    active,    \* activeNode
    standby,   \* standbyNode
    procs,     \* every xray process launched
    port,      \* the process listening on listenPort, or 0
    stops,     \* the "shard-stop" threads
    bg,        \* the "shard-standby" thread
    client,    \* the service's session: off, starting, up, lost by a failed rotation
    owed,      \* the worker's catch block has yet to call stop()
    count,     \* calls made so far, for the bounds
    dropped    \* history: processes a "shard-stop" thread put out of the field in
               \* place of the one it captured

vars == <<op, stopReq, process, running, active, standby, procs, port, stops, bg,
          client, owed, count, dropped>>

service == <<client, owed, count>>

NodeOrNone == Nodes \cup {None}

\* pc: at the head of start ("enter"), before a race slice ("slice"), inside
\* race ("race"), inside killProcess ("kill"), past the race ("won"), before the
\* checkpoint of a launch ("check"), past it ("commit"), inside awaitListener
\* ("await"), past it ("serve").  mode says what is being launched.
Op == [call : {"none", "start", "rotate", "prewarm"},
       pc : {"none", "enter", "slice", "race", "kill", "won", "check", "commit",
             "await", "serve"},
       mode : {"none", "split", "node", "standby"},
       n : Nat,                   \* race slice, or Smart Split profile
       node : NodeOrNone,         \* winner, or the standby being launched
       prev : NodeOrNone,         \* rotate's `previous`
       victim : Nat,              \* the process killProcess waits for
       then : {"none", "enter", "slice", "won", "commit", "done"}] \* after killProcess

Idle == [call |-> "none", pc |-> "none", mode |-> "none", n |-> 0, node |-> None,
         prev |-> None, victim |-> 0, then |-> "none"]

\* A process forwards to one node, or is the probe process of a race.
Proc == [state : {"alive", "dying", "dead"}, probe : BOOLEAN, node : NodeOrNone]

Background == [pc : {"none", "init", "ready", "race", "store", "assign"},
               active : NodeOrNone, found : NodeOrNone]

NoBackground == [pc |-> "none", active |-> None, found |-> None]

TypeOK ==
    /\ op \in Op
    /\ stopReq \in BOOLEAN /\ running \in BOOLEAN /\ owed \in BOOLEAN
    /\ active \in NodeOrNone /\ standby \in NodeOrNone
    /\ procs \in Seq(Proc)
    /\ process \in 0..Len(procs) /\ port \in 0..Len(procs)
    /\ stops \in Seq([proc : 0..Len(procs), pc : {"wait", "null", "reset", "done"}])
    /\ dropped \subseteq 1..Len(procs)
    /\ bg \in Background
    /\ client \in {"off", "starting", "up", "lost"}
    /\ count \in [start : Nat, rotate : Nat, stop : Nat]

Init ==
    /\ op = Idle
    /\ stopReq = FALSE /\ running = FALSE /\ owed = FALSE
    /\ active = None /\ standby = None
    /\ procs = << >> /\ process = 0 /\ port = 0
    /\ stops = << >> /\ dropped = {}
    /\ bg = NoBackground
    /\ client = "off" /\ count = [start |-> 0, rotate |-> 0, stop |-> 0]

Gone(p) == p # 0 => procs[p].state = "dead"

IsRunning == running /\ ~Gone(process)

-----------------------------------------------------------------------------
(* The xray processes.                                                     *)

\* Process.destroy(): SIGTERM, not waited for.
Destroyed(p) ==
    [q \in 1..Len(procs) |->
        IF q = p /\ procs[q].state = "alive" THEN [procs[q] EXCEPT !.state = "dying"] ELSE procs[q]]

Dead(p) == [procs EXCEPT ![p].state = "dead"]

\* A tunnel process binds listenPort, or finds it taken and exits.
Bind(p) ==
    /\ procs[p].state = "alive" /\ ~procs[p].probe /\ port # p
    /\ IF port = 0 THEN port' = p /\ UNCHANGED procs
       ELSE procs' = Dead(p) /\ UNCHANGED port
    /\ UNCHANGED <<op, stopReq, process, running, active, standby, stops, bg, service, dropped>>

\* It exits: by itself, on SIGTERM, or on the SIGKILL after three seconds.
Exit(p) ==
    /\ procs[p].state # "dead"
    /\ procs' = Dead(p)
    /\ port' = IF port = p THEN 0 ELSE port
    /\ UNCHANGED <<op, stopReq, process, running, active, standby, stops, bg, service, dropped>>

ExitsOnSignal(p) == p \in 1..Len(procs) /\ procs[p].state = "dying" /\ Exit(p)

\* launch: the field is overwritten, whatever it held.
Launch(probe, node) ==
    /\ Len(procs) < MaxProcs
    /\ procs' = Append(procs, [state |-> "alive", probe |-> probe, node |-> node])
    /\ process' = Len(procs) + 1
    /\ UNCHANGED port

NoLaunch == UNCHANGED <<procs, process, port>>

\* Mutant: activeNode is left to the next start.
KillProcessKeepsActive(next) ==
    /\ running' = FALSE /\ UNCHANGED active
    /\ procs' = Destroyed(process)
    /\ op' = [next EXCEPT !.pc = "kill", !.victim = process]
    /\ UNCHANGED <<process, port>>

\* killProcess, up to its waitFor; KillDone is the rest.
KillProcess(next) ==
    /\ running' = FALSE /\ active' = None
    /\ procs' = Destroyed(process)
    /\ op' = [next EXCEPT !.pc = "kill", !.victim = process]
    /\ UNCHANGED <<process, port>>

KillDone ==
    /\ op.pc = "kill" /\ Gone(op.victim)
    /\ process' = 0
    /\ op' = IF op.then = "done" THEN Idle
             ELSE [op EXCEPT !.pc = op.then, !.victim = 0, !.then = "none"]
    /\ stopReq' = IF op.then = "commit" THEN FALSE ELSE stopReq
    /\ UNCHANGED <<running, active, standby, procs, port, stops, bg, service, dropped>>

-----------------------------------------------------------------------------
(* stop().                                                                 *)

StopCall ==
    /\ stopReq' = TRUE
    /\ procs' = Destroyed(process)
    /\ stops' = Append(stops, [proc |-> process, pc |-> "wait"])
    /\ UNCHANGED <<process, port>>

\* stopTunnel: Disconnect, a failure, a drop.
ServiceStop ==
    /\ count.stop < MaxStops
    /\ count' = [count EXCEPT !.stop = @ + 1]
    /\ StopCall
    /\ client' = "off"
    /\ UNCHANGED <<op, running, active, standby, bg, owed, dropped>>

\* Mutant: the catch block leaves the process to the next stop.
WorkerStopNothing ==
    /\ owed /\ op.call # "start"
    /\ owed' = FALSE
    /\ UNCHANGED <<op, stopReq, process, running, active, standby, procs, port, stops, bg,
                   client, count, dropped>>

\* The catch block of startShardTunnel.
WorkerStop ==
    /\ owed /\ op.call # "start"
    /\ StopCall
    /\ owed' = FALSE
    /\ UNCHANGED <<op, running, active, standby, bg, client, count, dropped>>

\* "shard-stop": the process it captured is gone; is it still the field's?
StopThreadTest(i) ==
    /\ stops[i].pc = "wait" /\ Gone(stops[i].proc)
    /\ stops' = [stops EXCEPT ![i].pc = IF process = stops[i].proc THEN "null" ELSE "reset"]
    /\ UNCHANGED <<op, stopReq, process, running, active, standby, procs, port, bg, service, dropped>>

\* It was: the field is cleared, of whatever launch has put there since.
StopThreadNull(i) ==
    /\ stops[i].pc = "null"
    /\ process' = 0
    /\ dropped' = dropped \cup ({process} \ {0, stops[i].proc})
    /\ stops' = [stops EXCEPT ![i].pc = "reset"]
    /\ UNCHANGED <<op, stopReq, running, active, standby, procs, port, bg, service>>

\* running.set(false), activeNode = null: of whichever session it is.
StopThreadReset(i) ==
    /\ stops[i].pc = "reset"
    /\ running' = FALSE /\ active' = None
    /\ stops' = [stops EXCEPT ![i] = [proc |-> 0, pc |-> "done"]]
    /\ UNCHANGED <<op, stopReq, process, standby, procs, port, bg, service, dropped>>

StopThread(i) == 
    i \in 1..Len(stops) /\ (StopThreadTest(i) \/ StopThreadNull(i) \/ StopThreadReset(i))

-----------------------------------------------------------------------------
(* start().                                                                *)

\* What the service makes of the answer.  A tunnel for a session that was
\* stopped meanwhile has no TUN, which ends in the worker's catch block.
Return(ok) ==
    /\ op' = Idle
    /\ client' = IF client = "off" \/ (op.call = "start" /\ ~ok) THEN "off"
                 ELSE IF ok THEN "up" ELSE "lost"
    /\ owed' = (owed \/ (op.call = "start" /\ (~ok \/ client = "off")))
    /\ UNCHANGED count

\* startShardTunnel: the worker calls start once the last session is unwound.
StartCall ==
    /\ op = Idle /\ client = "off" /\ ~owed
    /\ count.start < MaxStarts
    /\ count' = [count EXCEPT !.start = @ + 1]
    /\ op' = [Idle EXCEPT !.call = "start", !.pc = "enter"]
    /\ client' = "starting"
    /\ UNCHANGED <<stopReq, process, running, active, standby, procs, port, stops, bg, owed, dropped>>

\* A latched stop is taken for one aimed at the session before.
EnterStart ==
    /\ op.pc = "enter"
    /\ stopReq' = FALSE
    /\ \/ op' = [op EXCEPT !.pc = "slice", !.mode = "none", !.n = 0] /\ UNCHANGED service
       \/ Return(FALSE)      \* the pool is empty
    /\ UNCHANGED <<process, running, active, standby, procs, port, stops, bg, dropped>>

\* The checkpoint between slices, and no slice left.
SlicesEnd ==
    /\ op.pc = "slice" /\ op.call # "prewarm"
    /\ stopReq \/ op.n > 0
    /\ Return(FALSE)
    /\ UNCHANGED <<stopReq, process, running, active, standby, procs, port, stops, bg, dropped>>

\* Mutant: a slice that could not be launched does not count.
RaceSliceUncounted ==
    /\ op.pc = "slice"
    /\ op.call = "prewarm" \/ (~stopReq /\ op.n < Slices)
    /\ \/ Launch(TRUE, None) /\ op' = [op EXCEPT !.pc = "race"]
       \/ NoLaunch /\ op' = op
    /\ UNCHANGED <<stopReq, running, active, standby, stops, bg, service, dropped>>

\* race: the probe process is launched, or could not be.
RaceSlice ==
    /\ op.pc = "slice"
    /\ op.call = "prewarm" \/ (~stopReq /\ op.n < Slices)
    /\ \/ Launch(TRUE, None) /\ op' = [op EXCEPT !.pc = "race"]
       \/ /\ NoLaunch
          /\ op' = IF op.call = "prewarm" THEN Idle ELSE [op EXCEPT !.n = @ + 1]
    /\ UNCHANGED <<stopReq, running, active, standby, stops, bg, service, dropped>>

\* The first two nodes to answer out of C, if any do.
Outcome(C) ==
    {o \in (C \cup {None}) \X (C \cup {None}) : o[2] # None => o[1] # None /\ o[1] # o[2]}

\* race comes back: with a winner and perhaps a runner-up, with nothing, or
\* early (cancelled, the probe listeners never bound) and the standby untouched.
RaceEnds ==
    /\ op.pc = "race"
    /\ \E o \in Outcome(Nodes) :
         LET next == IF op.call = "prewarm" THEN [op EXCEPT !.then = "done"]
                     ELSE IF o[1] # None THEN [op EXCEPT !.then = "won", !.node = o[1]]
                     ELSE [op EXCEPT !.then = "slice", !.n = @ + 1]
         IN  /\ KillProcess(next)
             /\ standby' \in {o[2]} \cup (IF o[1] = None THEN {standby} ELSE {})
    /\ UNCHANGED <<stopReq, stops, bg, service, dropped>>

\* A winner: with Smart Split if it is on and there is a profile, else plain.
RaceWon ==
    /\ op.pc = "won"
    /\ IF stopReq THEN Return(FALSE)
       ELSE /\ \/ Profiles > 0 /\ op' = [op EXCEPT !.pc = "check", !.mode = "split", !.n = 1]
               \/ op' = [op EXCEPT !.pc = "check", !.mode = "node"]
            /\ UNCHANGED service
    /\ UNCHANGED <<stopReq, process, running, active, standby, procs, port, stops, bg, dropped>>

\* The checkpoint before a launch.  startSmartSplit answers false when it is
\* cancelled or out of profiles, and start goes on to the node-only launch.
Check ==
    /\ op.pc = "check"
    /\ \/ /\ op.mode = "split"
          /\ op' = IF stopReq \/ op.n > Profiles THEN [op EXCEPT !.mode = "node"]
                   ELSE [op EXCEPT !.pc = "commit"]
          /\ UNCHANGED service
       \/ /\ op.mode = "node" /\ stopReq
          /\ Return(FALSE)
       \/ /\ op.mode = "node" /\ ~stopReq
          /\ op' = [op EXCEPT !.pc = "commit"]
          /\ UNCHANGED service
    /\ UNCHANGED <<stopReq, process, running, active, standby, procs, port, stops, bg, dropped>>

Commit ==
    /\ op.pc = "commit"
    /\ Launch(FALSE, op.node)
    /\ op' = [op EXCEPT !.pc = "await"]
    /\ UNCHANGED <<stopReq, running, active, standby, stops, bg, service, dropped>>

\* launch answers false: the next profile, no tunnel, or on from
\* switchToStandby to a full start.
CommitFails ==
    /\ op.pc = "commit"
    /\ \/ op.mode = "split" /\ op' = [op EXCEPT !.pc = "check", !.n = @ + 1] /\ UNCHANGED service
       \/ op.mode = "node" /\ Return(FALSE)
       \/ op.mode = "standby" /\ op' = [op EXCEPT !.pc = "enter"] /\ UNCHANGED service
    /\ UNCHANGED <<stopReq, process, running, active, standby, procs, port, stops, bg, dropped>>

\* awaitListener: somebody accepts on the port.
ListenerUp ==
    /\ op.pc = "await" /\ port # 0
    /\ op' = [op EXCEPT !.pc = "serve"]
    /\ UNCHANGED <<stopReq, process, running, active, standby, procs, port, stops, bg, service, dropped>>

\* awaitListener gave up (dead process, six seconds), or the request put through
\* a split or standby tunnel got no answer.
LaunchUseless ==
    /\ op.pc = "await" \/ (op.pc = "serve" /\ op.mode # "node")
    /\ \/ /\ op.mode = "split"
          /\ StopCall
          /\ op' = [op EXCEPT !.pc = "check", !.n = @ + 1]
          /\ UNCHANGED <<running, active, service>>
       \/ /\ op.mode = "node"
          /\ StopCall
          /\ Return(FALSE)
          /\ UNCHANGED <<running, active>>
       \/ /\ op.mode = "standby"
          /\ KillProcess([op EXCEPT !.then = "enter"])
          /\ UNCHANGED <<stopReq, stops, service>>
    /\ UNCHANGED <<standby, bg, dropped>>

Serve ==
    /\ op.pc = "serve"
    /\ running' = TRUE /\ active' = op.node
    /\ bg' = IF op.mode = "standby" /\ bg = NoBackground
               THEN [NoBackground EXCEPT !.pc = "init"] ELSE bg
    /\ Return(TRUE)
    /\ UNCHANGED <<stopReq, process, standby, procs, port, stops, dropped>>

-----------------------------------------------------------------------------
(* rotate(), prewarm() and the background race.                            *)

CanRotate == op = Idle /\ client \in {"up", "lost"} /\ count.rotate < MaxRotations

\* switchToStandby takes the standby and kills the process, or start re-races
\* with the process in place.
RotateCall ==
    /\ CanRotate
    /\ count' = [count EXCEPT !.rotate = @ + 1]
    /\ standby' = None
    /\ LET next == [Idle EXCEPT !.call = "rotate", !.prev = active]
       IN  IF standby # None /\ standby # active
             THEN KillProcess([next EXCEPT !.mode = "standby", !.node = standby, !.then = "commit"])
             ELSE /\ op' = [next EXCEPT !.pc = "enter"]
                  /\ UNCHANGED <<running, active, procs, process, port>>
    /\ UNCHANGED <<stopReq, stops, bg, client, owed, dropped>>

\* Mutant: a process that is not running any more is overlooked.
PrewarmCallRunningOnly ==
    /\ op = Idle /\ ~IsRunning
    /\ stopReq' = FALSE
    /\ op' = [Idle EXCEPT !.call = "prewarm", !.pc = "slice"]
    /\ UNCHANGED <<process, running, active, standby, procs, port, stops, bg, service, dropped>>

PrewarmCall ==
    /\ op = Idle /\ ~IsRunning /\ process = 0
    /\ stopReq' = FALSE
    /\ op' = [Idle EXCEPT !.call = "prewarm", !.pc = "slice"]
    /\ UNCHANGED <<process, running, active, standby, procs, port, stops, bg, service, dropped>>

\* refreshStandbyInBackground, on its own thread and its own processes.
BackgroundInit ==
    /\ bg.pc = "init"
    /\ bg' = [bg EXCEPT !.pc = "ready", !.active = active]
    /\ UNCHANGED <<op, stopReq, process, running, active, standby, procs, port, stops, service, dropped>>

BackgroundReady ==
    /\ bg.pc = "ready"
    /\ bg' = IF bg.active # None /\ IsRunning THEN [bg EXCEPT !.pc = "race"] ELSE NoBackground
    /\ UNCHANGED <<op, stopReq, process, running, active, standby, procs, port, stops, service, dropped>>

\* The detached race stores its runner-up like any other.
BackgroundRace ==
    /\ bg.pc = "race"
    /\ \E o \in Outcome(Nodes \ {bg.active}) :
         /\ bg' = [bg EXCEPT !.pc = "store", !.found = o[1]]
         /\ standby' \in {o[2]} \cup (IF o[1] = None THEN {standby} ELSE {})
    /\ UNCHANGED <<op, stopReq, process, running, active, procs, port, stops, service, dropped>>

\* Is the tunnel still the one a standby was looked for?
BackgroundTest ==
    /\ bg.pc = "store"
    /\ bg' = IF IsRunning /\ bg.found # None /\ active = bg.active
             THEN [bg EXCEPT !.pc = "assign"] ELSE NoBackground
    /\ UNCHANGED <<op, stopReq, process, running, active, standby, procs, port, stops, service, dropped>>

BackgroundStore ==
    /\ bg.pc = "assign"
    /\ standby' = bg.found
    /\ bg' = NoBackground
    /\ UNCHANGED <<op, stopReq, process, running, active, procs, port, stops, service, dropped>>

-----------------------------------------------------------------------------
\* What the holder of the monitor does by itself.
OpStep ==
    \/ EnterStart \/ SlicesEnd \/ RaceSlice \/ RaceEnds \/ KillDone \/ RaceWon
    \/ Check \/ Commit \/ CommitFails \/ ListenerUp \/ LaunchUseless \/ Serve

BackgroundStep ==
    BackgroundInit \/ BackgroundReady \/ BackgroundRace \/ BackgroundTest \/ BackgroundStore

Next ==
    \/ StartCall \/ RotateCall \/ PrewarmCall \/ ServiceStop
    \/ OpStep \/ WorkerStop \/ BackgroundStep
    \/ \E i \in 1..Len(stops) : StopThread(i)
    \/ \E p \in 1..Len(procs) : Bind(p) \/ Exit(p)

Spec == Init /\ [][Next]_vars

(* Every thread goes on, race and awaitListener have their deadlines, and  *)
(* a process that was sent SIGTERM ends, at the latest by SIGKILL.         *)
FairSpec ==
    /\ Spec
    /\ WF_vars(OpStep) /\ WF_vars(WorkerStop) /\ WF_vars(BackgroundStep)
    /\ \A i \in 1..(MaxStops + MaxProcs + 1) : WF_vars(StopThread(i))
    /\ \A p \in 1..MaxProcs : WF_vars(ExitsOnSignal(p))

-----------------------------------------------------------------------------
\* Every call comes back and releases the monitor, however many stops arrive:
\* start of the next session waits for it.
CallsReturn == op # Idle ~> op = Idle

\* Without a rotation, the process of the field is the only one left running,
\* but for those a "shard-stop" thread dropped: every other launch finds the
\* process before it destroyed.
NoOrphan ==
    \A p \in 1..Len(procs) : procs[p].state = "alive" => p = process \/ p \in dropped

\* Once the service has stopped a session that never rotated, the only xray
\* processes left are those a "shard-stop" thread dropped, in whatever phase of
\* the start the stop came.
StopLeavesNothing ==
    client = "off" /\ count.rotate = 0
      ~> (client # "off" \/ \A p \in 1..Len(procs) : procs[p].state = "dead" \/ p \in dropped)

Tunnels == {p \in 1..Len(procs) : ~procs[p].probe}

\* The newest tunnel process is one of those dropped.
SessionDropped == \E p \in dropped \cap Tunnels : \A q \in Tunnels : q <= p

\* prewarm "can never run under a live session", whose process its race would
\* replace: the tests it makes let it in only if a "shard-stop" thread has
\* dropped the session's process.
PrewarmAlone == op.call = "prewarm" /\ client = "up" => SessionDropped

\* activeNode, which rotate leaves and the background race avoids, is the node
\* of the process in the field, whatever rotations failed half-way and whichever
\* "shard-stop" threads came late: between calls it is that node or null.
ActiveNodeServes ==
    op = Idle /\ active # None /\ process # 0 => procs[process].node = active

-----------------------------------------------------------------------------
(* What the comments of ShardManager.kt say and the code does not do.      *)

\* "Null the field ONLY if it is still the process we killed: the null must not
\* race a fresh session that already launched".  The "shard-stop" thread takes no
\* lock, and launch may write the field between its test and its null.
ForgetsOnlyEnded ==
    [][process # 0 /\ process' = 0 => procs[process].state # "alive"]_vars

\* rotate: "true when a different node is now serving the port".  When there is
\* no standby the old process is never destroyed and keeps the port.
RotateServesAnother ==
    [][op.call = "rotate" /\ op.pc = "serve" /\ op' = Idle /\ port # 0
         => procs[port].node # op.prev]_vars

\* stop() is seen "between slices and before every launch": a rotation of a
\* session that was stopped meanwhile brings no tunnel up.  switchToStandby
\* clears the latch after killProcess.
RotateObeysStop ==
    [][op.call = "rotate" /\ running' /\ ~running => client # "off"]_vars

\* The late half of stop() "must not race a fresh session that already
\* launched": it resets running and activeNode of whichever session is up.
FreshSessionRuns ==
    client = "up" /\ op = Idle /\ process # 0 /\ procs[process].state = "alive" => running
=============================================================================
