------------------------- MODULE ShardManagerProofs -------------------------
(***************************************************************************)
(* Proofs about ShardManager: who may hold the monitor under a live        *)
(* session, and which node activeNode names, for any pool, any number of   *)
(* processes, stops and rotations.                                         *)
(***************************************************************************)
EXTENDS ShardManager, SequenceTheorems, TLAPS

\* Where the holder of the monitor can be, per call and per kind of launch.
OpShape(o) ==
    /\ o.call = "none" => o.pc = "none"
    /\ o.call = "prewarm" => o.pc \in {"slice", "race"} \/ (o.pc = "kill" /\ o.then = "done")
    /\ o.pc = "kill" /\ o.then = "done" => o.call = "prewarm"
    /\ o.mode = "standby" =>
         \/ o.pc \in {"commit", "await", "serve", "enter"}
         \/ o.pc = "kill" /\ o.then \in {"commit", "enter"}

\* What the holder of the monitor says about the service's session.
ClientShape(o, c) == o.call = "start" => c \in {"off", "starting"}

\* A live session has a tunnel process, and so has a launch for a session nobody
\* stopped.
Carried(o, c) ==
    \/ c = "up" /\ o.call # "rotate"
    \/ c # "off" /\ o.pc \in {"await", "serve"}

Newest(x, T) == x \in T /\ \A q \in T : q <= x

\* The newest tunnel process is the field's or was dropped out of it, and no
\* "shard-stop" thread captured it.
Held(T, p, d, st) ==
    \E x \in T :
        /\ Newest(x, T)
        /\ (p = x \/ x \in d)
        /\ \A i \in 1..Len(st) : st[i].pc \in {"wait", "null"} => st[i].proc # x

\* It was dropped.
Lost(T, d) == \E x \in T : Newest(x, T) /\ x \in d

\* What carries the session, and what prewarm's race may find in its place.
Covered(o, c, T, p, d, st) ==
    /\ Carried(o, c) => Held(T, p, d, st)
    /\ o.call = "prewarm" /\ c = "up" => Lost(T, d)

\* The inductive invariant.
ShardInv ==
    /\ TypeOK
    /\ OpShape(op)
    /\ ClientShape(op, client)
    /\ owed => client = "off"
    /\ Covered(op, client, Tunnels, process, dropped, stops)

Stop(n) == [proc : 0..n, pc : {"wait", "null", "reset", "done"}]

\* The part of TypeOK that speaks of processes.
ProcOK(ps, p, q, st, d) ==
    /\ ps \in Seq(Proc) /\ d \subseteq 1..Len(ps)
    /\ p \in 0..Len(ps) /\ q \in 0..Len(ps)
    /\ st \in Seq(Stop(Len(ps)))

\* The invariant in the terms of the lemmas.
LEMMA InvUnfold ==
  ASSUME ShardInv
  PROVE  /\ ProcOK(procs, process, port, stops, dropped)
         /\ op \in Op /\ standby \in NodeOrNone /\ active \in NodeOrNone /\ bg \in Background
         /\ stopReq \in BOOLEAN /\ running \in BOOLEAN /\ owed \in BOOLEAN
         /\ client \in {"off", "starting", "up", "lost"}
         /\ count \in [start : Nat, rotate : Nat, stop : Nat]
         /\ OpShape(op) /\ ClientShape(op, client) /\ (owed => client = "off")
         /\ Covered(op, client, Tunnels, process, dropped, stops)
  BY DEF ShardInv, TypeOK, ProcOK, Stop

\* The invariant of the next state, conjunct by conjunct.
LEMMA InvFold ==
  ASSUME ProcOK(procs', process', port', stops', dropped'), op' \in Op, standby' \in NodeOrNone,
         active' \in NodeOrNone, bg' \in Background, stopReq' \in BOOLEAN, running' \in BOOLEAN,
         owed' \in BOOLEAN, client' \in {"off", "starting", "up", "lost"},
         count' \in [start : Nat, rotate : Nat, stop : Nat],
         OpShape(op'), ClientShape(op', client'), owed' => client' = "off",
         Covered(op', client', Tunnels', process', dropped', stops')
  PROVE  ShardInv'
  BY DEF ShardInv, TypeOK, ProcOK, Stop

\* destroy() changes the state of a process, never the list of processes.
LEMMA DestroyedLemma ==
  ASSUME procs \in Seq(Proc), NEW p
  PROVE  /\ Destroyed(p) \in Seq(Proc) /\ Len(Destroyed(p)) = Len(procs)
         /\ \A q \in 1..Len(procs) : /\ Destroyed(p)[q].probe = procs[q].probe
                                    /\ Destroyed(p)[q].node = procs[q].node
<1>1. \A q \in 1..Len(procs) : procs[q] \in Proc
  OBVIOUS
<1>2. \A q \in 1..Len(procs) : [procs[q] EXCEPT !.state = "dying"] \in Proc
  BY <1>1 DEF Proc
<1>3. Destroyed(p) \in [1..Len(procs) -> Proc]
  BY <1>1, <1>2 DEF Destroyed
<1>4. \A q \in 1..Len(procs) : /\ [procs[q] EXCEPT !.state = "dying"].probe = procs[q].probe
                              /\ [procs[q] EXCEPT !.state = "dying"].node = procs[q].node
  BY <1>1 DEF Proc
<1>5. \A q \in 1..Len(procs) : /\ Destroyed(p)[q].probe = procs[q].probe
                              /\ Destroyed(p)[q].node = procs[q].node
  BY <1>4 DEF Destroyed
<1>6. Destroyed(p) \in Seq(Proc) /\ Len(Destroyed(p)) = Len(procs)
  BY <1>3
<1> QED  BY <1>5, <1>6

\* Nor does the end of a process.
LEMMA DeadLemma ==
  ASSUME procs \in Seq(Proc), NEW p \in 1..Len(procs)
  PROVE  /\ Dead(p) \in Seq(Proc) /\ Len(Dead(p)) = Len(procs)
         /\ \A q \in 1..Len(procs) : Dead(p)[q].probe = procs[q].probe /\ Dead(p)[q].node = procs[q].node
<1>1. procs[p] \in Proc
  OBVIOUS
<1>2. /\ [procs[p] EXCEPT !.state = "dead"] \in Proc
      /\ [procs[p] EXCEPT !.state = "dead"].probe = procs[p].probe
      /\ [procs[p] EXCEPT !.state = "dead"].node = procs[p].node
  BY <1>1 DEF Proc
<1>3. Dead(p) \in Seq(Proc) /\ Len(Dead(p)) = Len(procs)
  BY <1>2 DEF Dead
<1>4. ASSUME NEW q \in 1..Len(procs)
      PROVE  Dead(p)[q].probe = procs[q].probe /\ Dead(p)[q].node = procs[q].node
  <2>1. CASE q = p
    BY <1>2, <2>1 DEF Dead
  <2>2. CASE q # p
    BY <2>2 DEF Dead
  <2> QED  BY <2>1, <2>2
<1> QED  BY <1>3, <1>4

\* A step that leaves every process what it was keeps the tunnels.
LEMMA TunnelsKept ==
  ASSUME procs \in Seq(Proc), Len(procs') = Len(procs),
         \A q \in 1..Len(procs) : procs'[q].probe = procs[q].probe
  PROVE  Tunnels' = Tunnels
  BY DEF Tunnels

\* A stop thread's captured process stays one of the processes when more are
\* launched.
LEMMA StopsGrow ==
  ASSUME NEW m \in Nat, NEW n \in Nat, m <= n, NEW st \in Seq(Stop(m))
  PROVE  st \in Seq(Stop(n))
<1>1. Stop(m) \subseteq Stop(n)
  BY DEF Stop
<1> QED  BY <1>1

\* launch: a probe process is no tunnel; the process of a tunnel is the newest,
\* and no stop thread captured it.
LEMMA LaunchLemma ==
  ASSUME ProcOK(procs, process, port, stops, dropped), NEW probe \in BOOLEAN,
         NEW node \in NodeOrNone, Launch(probe, node), UNCHANGED <<stops, dropped>>
  PROVE  /\ ProcOK(procs', process', port', stops', dropped')
         /\ probe => Tunnels' = Tunnels
         /\ ~probe => Held(Tunnels', process', dropped', stops')
<1> DEFINE r == [state |-> "alive", probe |-> probe, node |-> node]
<1>1. r \in Proc /\ r.probe = probe
  BY DEF Proc
<1>2. /\ procs' = Append(procs, r) /\ process' = Len(procs) + 1 /\ port' = port
      /\ stops' = stops /\ dropped' = dropped
  BY DEF Launch
<1> HIDE DEF r
<1>3. procs' \in Seq(Proc) /\ Len(procs') = Len(procs) + 1 /\ Len(procs) \in Nat
  BY <1>1, <1>2 DEF ProcOK
<1>4. stops' \in Seq(Stop(Len(procs')))
  BY <1>2, <1>3, StopsGrow DEF ProcOK
<1>5. \A i \in 1..Len(stops) : stops[i].proc # process'
  <2>1. \A i \in 1..Len(stops) : stops[i] \in Stop(Len(procs))
    BY DEF ProcOK
  <2> QED  BY <1>2, <1>3, <2>1 DEF Stop
<1>6. ProcOK(procs', process', port', stops', dropped')
  BY <1>2, <1>3, <1>4 DEF ProcOK
<1>7. procs'[Len(procs) + 1] = r /\ \A q \in 1..Len(procs) : procs'[q] = procs[q]
  BY <1>1, <1>2, <1>3 DEF ProcOK
<1>8. Tunnels' = {q \in 1..(Len(procs) + 1) : ~procs'[q].probe}
  BY <1>3 DEF Tunnels
<1>9. ASSUME probe PROVE Tunnels' = Tunnels
  <2>1. procs'[Len(procs) + 1].probe
    BY <1>1, <1>7, <1>9
  <2>2. \A q \in 1..(Len(procs) + 1) : q \in 1..Len(procs) \/ q = Len(procs) + 1
    BY <1>3
  <2>3. \A q \in 1..Len(procs) : q \in 1..(Len(procs) + 1)
    BY <1>3
  <2>4. \A q : q \in Tunnels' <=> q \in 1..(Len(procs) + 1) /\ ~procs'[q].probe
    BY <1>8
  <2>5. \A q : q \in Tunnels <=> q \in 1..Len(procs) /\ ~procs[q].probe
    BY DEF Tunnels
  <2>6. \A q : q \in Tunnels' <=> q \in Tunnels
    BY <1>7, <2>1, <2>2, <2>3, <2>4, <2>5
  <2> QED  BY <2>6
<1>10. ASSUME ~probe PROVE Held(Tunnels', process', dropped', stops')
  <2>1. process' \in Tunnels'
    BY <1>1, <1>2, <1>3, <1>7, <1>8, <1>10
  <2>2. \A q \in Tunnels' : q <= process'
    BY <1>2, <1>3, <1>8
  <2>3. \A i \in 1..Len(stops') : stops'[i].proc # process'
    BY <1>2, <1>5
  <2> QED  BY <2>1, <2>2, <2>3 DEF Held, Newest
<1> QED  BY <1>6, <1>9, <1>10

\* stop(): the process it sees is told to end, and one more thread waits for it.
LEMMA StopCallLemma ==
  ASSUME ProcOK(procs, process, port, stops, dropped), StopCall, UNCHANGED dropped
  PROVE  ProcOK(procs', process', port', stops', dropped') /\ process' = process
<1> DEFINE t == [proc |-> process, pc |-> "wait"]
<1>1. procs' \in Seq(Proc) /\ Len(procs') = Len(procs)
  BY DestroyedLemma DEF ProcOK, StopCall
<1>2. t \in Stop(Len(procs))
  BY DEF Stop, ProcOK
<1>3. stops' = Append(stops, t) /\ process' = process /\ port' = port
  BY DEF StopCall
<1> HIDE DEF t
<1>4. stops' \in Seq(Stop(Len(procs)))
  BY <1>2, <1>3 DEF ProcOK
<1> QED  BY <1>1, <1>3, <1>4 DEF ProcOK

\* killProcess waits with the process it destroyed still in the field.
LEMMA KillProcessLemma ==
  ASSUME ProcOK(procs, process, port, stops, dropped), NEW next \in Op, KillProcess(next),
         UNCHANGED <<stops, dropped>>
  PROVE  /\ ProcOK(procs', process', port', stops', dropped') /\ process' = process
         /\ running' = FALSE /\ active' = None
         /\ op' \in Op /\ op'.call = next.call /\ op'.pc = "kill" /\ op'.mode = next.mode
         /\ op'.node = next.node /\ op'.then = next.then /\ Tunnels' = Tunnels
<1>1. /\ procs' \in Seq(Proc) /\ Len(procs') = Len(procs)
      /\ \A q \in 1..Len(procs) : procs'[q].probe = procs[q].probe
  BY DestroyedLemma DEF ProcOK, KillProcess
<1>5. Tunnels' = Tunnels
  BY <1>1, TunnelsKept DEF ProcOK
<1>2. ProcOK(procs', process', port', stops', dropped')
  BY <1>1 DEF ProcOK, KillProcess
<1>3. process \in Nat
  BY DEF ProcOK
<1>4. op' = [next EXCEPT !.pc = "kill", !.victim = process]
  BY DEF KillProcess
<1> QED  BY <1>2, <1>3, <1>4, <1>5 DEF KillProcess, Op

\* A call that answers leaves the monitor free; a live session comes of a launch
\* that was being carried.
LEMMA ReturnLemma ==
  ASSUME ShardInv, NEW ok \in BOOLEAN, Return(ok), op.call \in {"start", "rotate"},
         UNCHANGED <<process, procs, stops, dropped>>, ok => op.pc = "serve"
  PROVE  /\ op' \in Op /\ OpShape(op') /\ ClientShape(op', client')
         /\ owed' \in BOOLEAN /\ (owed' => client' = "off")
         /\ client' \in {"off", "starting", "up", "lost"} /\ count' = count
         /\ Covered(op', client', Tunnels', process', dropped', stops')
<1>1. /\ op' = Idle /\ count' = count
      /\ client' = IF client = "off" \/ (op.call = "start" /\ ~ok) THEN "off"
                   ELSE IF ok THEN "up" ELSE "lost"
      /\ owed' = (owed \/ (op.call = "start" /\ (~ok \/ client = "off")))
  BY DEF Return
<1>2. op' \in Op /\ OpShape(op') /\ ClientShape(op', client')
  BY <1>1 DEF Idle, Op, OpShape, ClientShape, NodeOrNone
<1>3. client' \in {"off", "starting", "up", "lost"} /\ owed' \in BOOLEAN
  BY <1>1
<1>4. owed' => client' = "off"
  BY <1>1 DEF ShardInv
<1>5. Tunnels' = Tunnels
  BY DEF Tunnels
<1>6. ASSUME Carried(op', client') PROVE Held(Tunnels', process', dropped', stops')
  <2>1. ok /\ client # "off"
    BY <1>1, <1>6 DEF Carried, Idle
  <2>2. Held(Tunnels, process, dropped, stops)
    BY <2>1 DEF Carried, Covered, ShardInv
  <2> QED  BY <1>5, <2>2
<1>7. op'.call # "prewarm"
  BY <1>1 DEF Idle
<1> QED  BY <1>1, <1>2, <1>3, <1>4, <1>6, <1>7 DEF Covered

-----------------------------------------------------------------------------
(* The processes and the "shard-stop" threads.                             *)

\* A process binds the port or exits; nobody's bookkeeping moves.
LEMMA ProcessSteps ==
  ASSUME ShardInv, NEW p \in 1..Len(procs), Bind(p) \/ Exit(p)
  PROVE  ShardInv'
<1>1. ProcOK(procs, process, port, stops, dropped)
  BY InvUnfold
<1>2. /\ Dead(p) \in Seq(Proc) /\ Len(Dead(p)) = Len(procs)
      /\ \A q \in 1..Len(procs) : Dead(p)[q].probe = procs[q].probe
  BY <1>1, DeadLemma DEF ProcOK
<1>3. ProcOK(procs', process', port', stops', dropped')
  <2>1. CASE Bind(p)
    BY <1>1, <1>2, <2>1 DEF Bind, ProcOK
  <2>2. CASE Exit(p)
    BY <1>1, <1>2, <2>2 DEF Exit, ProcOK
  <2> QED  BY <2>1, <2>2
<1>4. UNCHANGED <<op, stopReq, process, running, active, standby, stops, bg, client, owed, count, dropped>>
  BY DEF Bind, Exit, service
<1>5. Tunnels' = Tunnels
  <2>1. CASE procs' = procs
    BY <2>1 DEF Tunnels
  <2>2. CASE procs' = Dead(p)
    BY <1>1, <1>2, <2>2, TunnelsKept DEF ProcOK
  <2> QED  BY <2>1, <2>2 DEF Bind, Exit
<1> QED  BY <1>3, <1>4, <1>5, InvUnfold, InvFold

\* The thread that waited clears the field of whatever is in it; a process other
\* than the one it captured counts as dropped from then on.
LEMMA StopThreadSteps ==
  ASSUME ShardInv, NEW i \in 1..Len(stops), StopThread(i)
  PROVE  ShardInv'
<1>1. ProcOK(procs, process, port, stops, dropped)
  BY InvUnfold
<1>2. \A j \in 1..Len(stops) : stops[j] \in Stop(Len(procs))
  BY <1>1 DEF ProcOK
<1>3. ASSUME NEW t \in Stop(Len(procs)), stops' = [stops EXCEPT ![i] = t],
             process' \in {0, process}, process' = 0 => stops[i].pc = "null" \/ process = 0,
             dropped' = IF process' = process THEN dropped
                        ELSE dropped \cup ({process} \ {0, stops[i].proc}),
             t.pc \in {"wait", "null"} => stops[i].pc \in {"wait", "null"} /\ t.proc = stops[i].proc,
             UNCHANGED <<op, stopReq, standby, procs, port, bg, client, owed, count>>,
             running' \in BOOLEAN, active' \in NodeOrNone
      PROVE  ShardInv'
  <2>1. stops' \in Seq(Stop(Len(procs))) /\ Len(stops') = Len(stops)
    BY <1>1, <1>3 DEF ProcOK
  <2>2. \A j \in 1..Len(stops) : stops'[j] = IF j = i THEN t ELSE stops[j]
    BY <1>1, <1>3 DEF ProcOK
  <2>3. process \in 0..Len(procs) /\ Len(procs) \in Nat
    BY <1>1 DEF ProcOK
  <2>4. dropped \subseteq dropped' /\ dropped' \subseteq 1..Len(procs)
    <3>1. dropped \subseteq 1..Len(procs)
      BY <1>1 DEF ProcOK
    <3>2. process # 0 => process \in 1..Len(procs)
      BY <2>3
    <3>3. CASE process' = process
      BY <1>3, <3>1, <3>3
    <3>4. CASE process' # process
      BY <1>3, <3>1, <3>2, <3>4
    <3> QED  BY <3>3, <3>4
  <2>5. ProcOK(procs', process', port', stops', dropped')
    BY <1>1, <1>3, <2>1, <2>3, <2>4 DEF ProcOK
  <2>6. Tunnels' = Tunnels /\ \A x \in Tunnels : x # 0
    BY <1>3, <2>3 DEF Tunnels
  <2>7. ASSUME Held(Tunnels, process, dropped, stops)
        PROVE  Held(Tunnels', process', dropped', stops')
    <3>1. PICK x \in Tunnels : /\ Newest(x, Tunnels)
                               /\ (process = x \/ x \in dropped)
                               /\ \A j \in 1..Len(stops) :
                                     stops[j].pc \in {"wait", "null"} => stops[j].proc # x
      BY <2>7 DEF Held
    <3>2. \A j \in 1..Len(stops') : stops'[j].pc \in {"wait", "null"} => stops'[j].proc # x
      BY <1>3, <2>1, <2>2, <3>1
    <3>3. process' = x \/ x \in dropped'
      BY <1>3, <2>4, <2>6, <3>1
    <3> QED  BY <2>6, <3>1, <3>2, <3>3 DEF Held
  <2>8. Lost(Tunnels, dropped) => Lost(Tunnels', dropped')
    BY <2>4, <2>6 DEF Lost
  <2>9. Covered(op', client', Tunnels', process', dropped', stops')
    BY <1>3, <2>7, <2>8, InvUnfold DEF Covered
  <2> QED  BY <1>3, <2>5, <2>9, InvUnfold, InvFold
<1>4. CASE StopThreadTest(i)
  <2> DEFINE t == [stops[i] EXCEPT !.pc = IF process = stops[i].proc THEN "null" ELSE "reset"]
  <2>1. /\ stops' = [stops EXCEPT ![i] = t] /\ stops[i].pc = "wait"
        /\ UNCHANGED <<op, stopReq, process, running, active, standby, procs, port, bg,
                       client, owed, count, dropped>>
    BY <1>1, <1>4 DEF StopThreadTest, service, ProcOK
  <2>2. t \in Stop(Len(procs)) /\ t.proc = stops[i].proc
    BY <1>2 DEF Stop
  <2> HIDE DEF t
  <2>3. running' \in BOOLEAN /\ active' \in NodeOrNone
    BY <2>1, InvUnfold
  <2>4. process' = process /\ dropped' = dropped
    BY <2>1
  <2>5. process' = 0 => stops[i].pc = "null" \/ process = 0
    BY <2>4
  <2> QED  BY <1>3, <2>1, <2>2, <2>3, <2>4, <2>5
<1>5. CASE StopThreadNull(i)
  <2> DEFINE t == [stops[i] EXCEPT !.pc = "reset"]
  <2>1. /\ stops' = [stops EXCEPT ![i] = t] /\ stops[i].pc = "null" /\ process' = 0
        /\ dropped' = dropped \cup ({process} \ {0, stops[i].proc})
        /\ UNCHANGED <<op, stopReq, running, active, standby, procs, port, bg,
                       client, owed, count>>
    BY <1>1, <1>5 DEF StopThreadNull, service, ProcOK
  <2>2. t \in Stop(Len(procs)) /\ t.pc = "reset"
    BY <1>2 DEF Stop
  <2> HIDE DEF t
  <2>3. running' \in BOOLEAN /\ active' \in NodeOrNone
    BY <2>1, InvUnfold
  <2>4. dropped' = IF process' = process THEN dropped
                   ELSE dropped \cup ({process} \ {0, stops[i].proc})
    BY <2>1
  <2> QED  BY <1>3, <2>1, <2>2, <2>3, <2>4
<1>6. CASE StopThreadReset(i)
  <2> DEFINE t == [proc |-> 0, pc |-> "done"]
  <2>1. /\ running' = FALSE /\ active' = None
        /\ stops' = [stops EXCEPT ![i] = t]
        /\ UNCHANGED <<op, stopReq, process, standby, procs, port, bg, client, owed, count, dropped>>
    BY <1>6 DEF StopThreadReset, service
  <2>2. t \in Stop(Len(procs)) /\ t.pc = "done"
    BY <1>1 DEF Stop, ProcOK
  <2> HIDE DEF t
  <2>3. running' \in BOOLEAN /\ active' \in NodeOrNone
    BY <2>1 DEF NodeOrNone
  <2>4. process' = process /\ dropped' = dropped
    BY <2>1
  <2>5. process' = 0 => stops[i].pc = "null" \/ process = 0
    BY <2>4
  <2> QED  BY <1>3, <2>1, <2>2, <2>3, <2>4, <2>5
<1> QED  BY <1>4, <1>5, <1>6 DEF StopThread

-----------------------------------------------------------------------------
(* The calls of the service.                                               *)

\* stop() comes with the session off, so nothing is carried any more.
LEMMA StopSteps ==
  ASSUME ShardInv, ServiceStop \/ WorkerStop
  PROVE  ShardInv'
<1>1. ProcOK(procs', process', port', stops', dropped')
  BY InvUnfold, StopCallLemma DEF ServiceStop, WorkerStop
<1>2. stopReq' = TRUE /\ UNCHANGED <<op, running, active, standby, bg>>
  BY DEF ServiceStop, WorkerStop, StopCall
<1>3. client' = "off"
  BY InvUnfold DEF ServiceStop, WorkerStop
<1>4. owed' \in BOOLEAN
  BY InvUnfold DEF ServiceStop, WorkerStop
<1>5. count' \in [start : Nat, rotate : Nat, stop : Nat]
  BY InvUnfold DEF ServiceStop, WorkerStop
<1>6. ClientShape(op', client')
  BY <1>2, <1>3 DEF ClientShape
<1>7. Covered(op', client', Tunnels', process', dropped', stops')
  BY <1>3 DEF Carried, Covered
<1> QED  BY <1>1, <1>2, <1>3, <1>4, <1>5, <1>6, <1>7, InvUnfold, InvFold

\* start() is called for a session that is off.
LEMMA StartCallStep ==
  ASSUME ShardInv, StartCall
  PROVE  ShardInv'
<1>1. /\ op' = [Idle EXCEPT !.call = "start", !.pc = "enter"]
      /\ client' = "starting" /\ ~owed
      /\ count' = [count EXCEPT !.start = @ + 1]
      /\ UNCHANGED <<stopReq, process, running, active, standby, procs, port, stops, bg, owed, dropped>>
  BY DEF StartCall
<1>2. op' \in Op /\ op'.call = "start" /\ op'.pc = "enter" /\ op'.mode = "none"
  BY <1>1 DEF Idle, Op, NodeOrNone
<1>3. /\ OpShape(op') /\ ClientShape(op', client')
      /\ Covered(op', client', Tunnels', process', dropped', stops')
  BY <1>1, <1>2 DEF OpShape, ClientShape, Carried, Covered
<1>4. count' \in [start : Nat, rotate : Nat, stop : Nat]
  BY <1>1, InvUnfold
<1> QED  BY <1>1, <1>2, <1>3, <1>4, InvUnfold, InvFold

\* prewarm() finds no process in the field: if a session is up, its process was
\* dropped out of it.
LEMMA PrewarmCallStep ==
  ASSUME ShardInv, PrewarmCall
  PROVE  ShardInv'
<1>1. /\ op = Idle /\ process = 0 /\ stopReq' = FALSE
      /\ op' = [Idle EXCEPT !.call = "prewarm", !.pc = "slice"]
      /\ UNCHANGED <<process, running, active, standby, procs, port, stops, bg, client, owed, count,
                     dropped>>
  BY DEF PrewarmCall, service
<1>2. op' \in Op /\ op'.call = "prewarm" /\ op'.pc = "slice" /\ op'.mode = "none"
  BY <1>1 DEF Idle, Op, NodeOrNone
<1>3. Tunnels' = Tunnels /\ \A x \in Tunnels : x # 0
  BY <1>1, InvUnfold DEF Tunnels, ProcOK
<1>4. ASSUME client' = "up"
      PROVE  /\ Held(Tunnels', process', dropped', stops')
             /\ Lost(Tunnels', dropped')
  <2>1. Held(Tunnels, process, dropped, stops)
    BY <1>1, <1>4, InvUnfold DEF Carried, Covered, Idle
  <2>2. Lost(Tunnels, dropped)
    BY <1>1, <1>3, <2>1 DEF Held, Lost
  <2> QED  BY <1>1, <1>3, <2>1, <2>2
<1>5. Carried(op', client') => client' = "up"
  BY <1>2 DEF Carried
<1>6. Covered(op', client', Tunnels', process', dropped', stops')
  BY <1>4, <1>5 DEF Covered
<1>7. OpShape(op') /\ ClientShape(op', client')
  BY <1>2 DEF OpShape, ClientShape
<1>8. ProcOK(procs', process', port', stops', dropped')
  BY <1>1, InvUnfold
<1> QED  BY <1>1, <1>2, <1>6, <1>7, <1>8, InvUnfold, InvFold

\* rotate() gives the session up until a new launch carries it.
LEMMA RotateCallStep ==
  ASSUME ShardInv, RotateCall
  PROVE  ShardInv'
<1> DEFINE next == [Idle EXCEPT !.call = "rotate", !.prev = active]
           next2 == [next EXCEPT !.mode = "standby", !.node = standby, !.then = "commit"]
<1>1. /\ client \in {"up", "lost"} /\ count' = [count EXCEPT !.rotate = @ + 1] /\ standby' = None
      /\ UNCHANGED <<stopReq, stops, bg, client, owed, dropped>>
  BY DEF RotateCall, CanRotate
<1>2. count' \in [start : Nat, rotate : Nat, stop : Nat] /\ standby' \in NodeOrNone
  BY <1>1, InvUnfold DEF NodeOrNone
<1>3. CASE standby # None /\ standby # active
  <2>1. KillProcess(next2)
    BY <1>3 DEF RotateCall
  <2>2. /\ next2 \in Op /\ next2.call = "rotate" /\ next2.mode = "standby"
        /\ next2.then = "commit"
    BY InvUnfold DEF Idle, Op, NodeOrNone
  <2> HIDE DEF next2
  <2>3. /\ ProcOK(procs', process', port', stops', dropped') /\ running' = FALSE /\ active' = None
        /\ op' \in Op /\ op'.call = "rotate" /\ op'.pc = "kill" /\ op'.mode = "standby"
        /\ op'.then = "commit"
    BY <1>1, <2>1, <2>2, KillProcessLemma, InvUnfold
  <2>4. /\ OpShape(op') /\ ClientShape(op', client')
        /\ Covered(op', client', Tunnels', process', dropped', stops')
    BY <1>3, <2>3 DEF OpShape, ClientShape, Carried, Covered
  <2>5. active' \in NodeOrNone
    BY <2>3 DEF NodeOrNone
  <2> QED  BY <1>1, <1>2, <2>3, <2>4, <2>5, InvUnfold, InvFold
<1>4. CASE ~(standby # None /\ standby # active)
  <2>1. /\ op' = [next EXCEPT !.pc = "enter"]
        /\ UNCHANGED <<running, active, procs, process, port>>
    BY <1>4 DEF RotateCall
  <2>2. op' \in Op /\ op'.call = "rotate" /\ op'.pc = "enter" /\ op'.mode = "none"
    BY <2>1, InvUnfold DEF Idle, Op, NodeOrNone
  <2>3. /\ OpShape(op') /\ ClientShape(op', client')
        /\ Covered(op', client', Tunnels', process', dropped', stops')
    BY <2>2 DEF OpShape, ClientShape, Carried, Covered
  <2> QED  BY <1>1, <1>2, <2>1, <2>2, <2>3, InvUnfold, InvFold
<1> QED  BY <1>3, <1>4

\* The background race touches nothing but its own record and the standby.
LEMMA BackgroundSteps ==
  ASSUME ShardInv, BackgroundStep
  PROVE  ShardInv'
<1>1. UNCHANGED <<op, stopReq, process, running, active, procs, port, stops, client, owed, count,
                  dropped>>
  BY DEF BackgroundStep, BackgroundInit, BackgroundReady, BackgroundRace, BackgroundTest,
         BackgroundStore, service
<1>2. bg' \in Background /\ standby' \in NodeOrNone
  <2>1. CASE BackgroundInit
    BY <2>1, InvUnfold DEF BackgroundInit, Background, NodeOrNone
  <2>4. CASE BackgroundReady
    BY <2>4, InvUnfold DEF BackgroundReady, Background, NoBackground, NodeOrNone
  <2>5. CASE BackgroundTest
    BY <2>5, InvUnfold DEF BackgroundTest, Background, NoBackground, NodeOrNone
  <2>2. CASE BackgroundRace
    BY <2>2, InvUnfold DEF BackgroundRace, Background, NodeOrNone, Outcome
  <2>3. CASE BackgroundStore
    BY <2>3, InvUnfold DEF BackgroundStore, Background, NoBackground, NodeOrNone
  <2> QED  BY <2>1, <2>2, <2>3, <2>4, <2>5 DEF BackgroundStep
<1>3. Tunnels' = Tunnels
  BY <1>1 DEF Tunnels
<1> QED  BY <1>1, <1>2, <1>3, InvUnfold, InvFold

-----------------------------------------------------------------------------
(* The steps of the call that holds the monitor.                           *)

\* A call that goes on, in start or rotate and outside a launch, carries nothing.
LEMMA MoveLemma ==
  ASSUME ShardInv, UNCHANGED <<client, owed, count>>, op'.call = op.call,
         op.call \in {"start", "rotate"}, op'.pc \notin {"await", "serve"}
  PROVE  /\ ClientShape(op', client') /\ (owed' => client' = "off")
         /\ Covered(op', client', Tunnels', process', dropped', stops')
         /\ owed' \in BOOLEAN /\ client' \in {"off", "starting", "up", "lost"}
         /\ count' \in [start : Nat, rotate : Nat, stop : Nat]
<1>1. ClientShape(op, client) /\ (owed => client = "off")
  BY InvUnfold
<1> QED  BY <1>1, InvUnfold DEF ClientShape, Carried, Covered

\* prewarm moves no tunnel and drops no process: the session's was dropped when
\* it came, and stays so.
LEMMA PrewarmMove ==
  ASSUME ShardInv, UNCHANGED <<client, owed, count, stops, dropped>>, op.call = "prewarm",
         op'.call \in {"prewarm", "none"}, op'.pc \notin {"await", "serve"}, Tunnels' = Tunnels
  PROVE  /\ ClientShape(op', client') /\ (owed' => client' = "off")
         /\ Covered(op', client', Tunnels', process', dropped', stops')
         /\ owed' \in BOOLEAN /\ client' \in {"off", "starting", "up", "lost"}
         /\ count' \in [start : Nat, rotate : Nat, stop : Nat]
<1>1. ClientShape(op', client') /\ (owed' => client' = "off")
  BY InvUnfold DEF ClientShape
<1>2. ASSUME client' = "up"
      PROVE  Held(Tunnels', process', dropped', stops') /\ Lost(Tunnels', dropped')
  <2>1. Held(Tunnels, process, dropped, stops) /\ Lost(Tunnels, dropped)
    BY <1>2, InvUnfold DEF Covered, Carried
  <2>2. PICK x \in Tunnels : /\ Newest(x, Tunnels)
                             /\ \A j \in 1..Len(stops) :
                                   stops[j].pc \in {"wait", "null"} => stops[j].proc # x
    BY <2>1 DEF Held
  <2>3. PICK y \in Tunnels : Newest(y, Tunnels) /\ y \in dropped
    BY <2>1 DEF Lost
  <2>4. \A q \in Tunnels : q \in Int
    BY InvUnfold DEF Tunnels, ProcOK
  <2>5. x = y
    BY <2>2, <2>3, <2>4 DEF Newest
  <2>6. Held(Tunnels, process', dropped, stops)
    BY <2>2, <2>3, <2>5 DEF Held
  <2> QED  BY <2>1, <2>6
<1>3. Carried(op', client') => client' = "up"
  BY DEF Carried
<1>4. Covered(op', client', Tunnels', process', dropped', stops')
  BY <1>2, <1>3 DEF Covered
<1> QED  BY <1>1, <1>4, InvUnfold

\* Only start and rotate get past the race.
LEMMA CallerLemma ==
  ASSUME ShardInv, op.pc \in {"enter", "won", "check", "commit", "await", "serve"}
  PROVE  op.call \in {"start", "rotate"}
<1>1. op.call \in {"none", "start", "rotate", "prewarm"}
  BY InvUnfold DEF Op
<1> QED  BY <1>1, InvUnfold DEF OpShape

\* An answer of the call, with the processes as they were.
LEMMA AnswerLemma ==
  ASSUME ShardInv, NEW ok \in BOOLEAN, Return(ok), op.call \in {"start", "rotate"},
         UNCHANGED <<process, procs, port, stops, standby, dropped>>, ok => op.pc = "serve",
         stopReq' \in BOOLEAN, running' \in BOOLEAN, active' \in NodeOrNone, bg' \in Background
  PROVE  ShardInv'
<1>1. ProcOK(procs', process', port', stops', dropped')
  BY InvUnfold
<1> QED  BY <1>1, ReturnLemma, InvUnfold, InvFold

\* The head of start: the latch is cleared, a standby launch given up is forgotten.
LEMMA EnterStartStep ==
  ASSUME ShardInv, EnterStart
  PROVE  ShardInv'
<1>1. /\ op.pc = "enter" /\ stopReq' = FALSE
      /\ UNCHANGED <<process, running, active, standby, procs, port, stops, bg, dropped>>
  BY DEF EnterStart
<1>2. op.call \in {"start", "rotate"}
  BY <1>1, CallerLemma
<1>3. CASE Return(FALSE)
  BY <1>1, <1>2, <1>3, AnswerLemma, InvUnfold
<1>4. CASE op' = [op EXCEPT !.pc = "slice", !.mode = "none", !.n = 0] /\ UNCHANGED service
  <2>1. op' \in Op /\ op'.call = op.call /\ op'.pc = "slice" /\ op'.mode = "none"
    BY <1>4, InvUnfold DEF Op
  <2>2. OpShape(op')
    BY <1>2, <2>1 DEF OpShape
  <2> QED  BY <1>1, <1>2, <1>4, <2>1, <2>2, MoveLemma, InvUnfold, InvFold DEF service
<1> QED  BY <1>3, <1>4 DEF EnterStart

\* A start that was stopped between slices, or ran out of them, answers false.
LEMMA SlicesEndStep ==
  ASSUME ShardInv, SlicesEnd
  PROVE  ShardInv'
<1>1. op.call \in {"start", "rotate"}
  BY InvUnfold DEF SlicesEnd, Op, OpShape
<1> QED  BY <1>1, AnswerLemma, InvUnfold DEF SlicesEnd

\* race launches its probe, for a call that carries nothing yet, or for prewarm.
LEMMA RaceSliceStep ==
  ASSUME ShardInv, RaceSlice
  PROVE  ShardInv'
<1>1. /\ op.pc = "slice" /\ op.call # "none" /\ op.mode # "standby"
      /\ UNCHANGED <<stopReq, running, active, standby, stops, bg, client, owed, count, dropped>>
  BY InvUnfold DEF RaceSlice, service, OpShape
<1>2. op.call \in {"start", "rotate", "prewarm"}
  BY <1>1, InvUnfold DEF Op
<1>3. CASE Launch(TRUE, None) /\ op' = [op EXCEPT !.pc = "race"]
  <2>1. ProcOK(procs', process', port', stops', dropped') /\ Tunnels' = Tunnels
    BY <1>1, <1>3, LaunchLemma, InvUnfold DEF NodeOrNone
  <2>2. op' \in Op /\ op'.call = op.call /\ op'.pc = "race" /\ op'.mode = op.mode
    BY <1>3, InvUnfold DEF Op
  <2>3. OpShape(op')
    BY <1>1, <2>2 DEF OpShape
  <2>4. CASE op.call = "prewarm"
    BY <1>1, <2>1, <2>2, <2>3, <2>4, PrewarmMove, InvUnfold, InvFold
  <2>5. CASE op.call \in {"start", "rotate"}
    BY <1>1, <2>1, <2>2, <2>3, <2>5, MoveLemma, InvUnfold, InvFold
  <2> QED  BY <1>2, <2>4, <2>5
<1>4. CASE NoLaunch /\ op.call # "prewarm" /\ op' = [op EXCEPT !.n = @ + 1]
  <2>1. op' \in Op /\ op'.call = op.call /\ op'.pc = "slice" /\ op'.mode = op.mode
    BY <1>1, <1>4, InvUnfold DEF Op
  <2>2. OpShape(op')
    BY <1>1, <2>1 DEF OpShape
  <2>3. ProcOK(procs', process', port', stops', dropped')
    BY <1>1, <1>4, InvUnfold DEF NoLaunch
  <2> QED  BY <1>1, <1>2, <1>4, <2>1, <2>2, <2>3, MoveLemma, InvUnfold, InvFold
<1>5. CASE NoLaunch /\ op.call = "prewarm" /\ op' = Idle
  <2>1. op' \in Op /\ op'.call = "none" /\ op'.pc = "none" /\ op'.mode = "none"
    BY <1>5 DEF Idle, Op, NodeOrNone
  <2>2. OpShape(op')
    BY <2>1 DEF OpShape
  <2>3. ProcOK(procs', process', port', stops', dropped') /\ Tunnels' = Tunnels
    BY <1>1, <1>5, InvUnfold DEF NoLaunch, Tunnels
  <2> QED  BY <1>1, <1>5, <2>1, <2>2, <2>3, PrewarmMove, InvUnfold, InvFold
<1> QED  BY <1>3, <1>4, <1>5 DEF RaceSlice

\* race comes back through killProcess; only prewarm's ends the call there.
LEMMA RaceEndsStep ==
  ASSUME ShardInv, RaceEnds
  PROVE  ShardInv'
<1> DEFINE nxt(o) == IF op.call = "prewarm" THEN [op EXCEPT !.then = "done"]
                     ELSE IF o[1] # None THEN [op EXCEPT !.then = "won", !.node = o[1]]
                     ELSE [op EXCEPT !.then = "slice", !.n = @ + 1]
<1>1. PICK o \in Outcome(Nodes) :
         KillProcess(nxt(o)) /\ standby' \in {o[2]} \cup (IF o[1] = None THEN {standby} ELSE {})
  BY DEF RaceEnds
<1>2. /\ op.pc = "race" /\ op.call # "none" /\ op.mode # "standby"
      /\ UNCHANGED <<stopReq, stops, bg, client, owed, count, dropped>>
  BY InvUnfold DEF RaceEnds, service, OpShape
<1>3. o[1] \in NodeOrNone /\ o[2] \in NodeOrNone /\ standby' \in NodeOrNone
  BY <1>1, InvUnfold DEF Outcome, NodeOrNone
<1>4. /\ nxt(o) \in Op /\ nxt(o).call = op.call /\ nxt(o).mode = op.mode
      /\ (nxt(o).then = "done" <=> op.call = "prewarm")
  <2>1. op \in Op /\ op.n + 1 \in Nat
    BY InvUnfold DEF Op
  <2>2. CASE op.call = "prewarm"
    BY <2>1, <2>2 DEF Op
  <2>3. CASE op.call # "prewarm" /\ o[1] # None
    BY <1>3, <2>1, <2>3 DEF Op
  <2>4. CASE op.call # "prewarm" /\ o[1] = None
    <3>1. nxt(o) = [op EXCEPT !.then = "slice", !.n = op.n + 1]
      BY <2>4
    <3> QED  BY <2>1, <2>4, <3>1 DEF Op
  <2> QED  BY <2>2, <2>3, <2>4
<1> HIDE DEF nxt
<1>5. /\ ProcOK(procs', process', port', stops', dropped') /\ running' = FALSE /\ active' = None
      /\ op' \in Op /\ op'.call = op.call /\ op'.pc = "kill" /\ op'.mode = op.mode
      /\ (op'.then = "done" <=> op.call = "prewarm") /\ Tunnels' = Tunnels
  BY <1>1, <1>2, <1>4, KillProcessLemma, InvUnfold
<1>6. OpShape(op')
  BY <1>2, <1>5 DEF OpShape
<1>7. active' \in NodeOrNone
  BY <1>5 DEF NodeOrNone
<1>8. CASE op.call = "prewarm"
  BY <1>2, <1>3, <1>5, <1>6, <1>7, <1>8, PrewarmMove, InvUnfold, InvFold
<1>9. CASE op.call \in {"start", "rotate"}
  BY <1>2, <1>3, <1>5, <1>6, <1>7, <1>9, MoveLemma, InvUnfold, InvFold
<1>10. op.call \in {"start", "rotate", "prewarm"}
  BY <1>2, InvUnfold DEF Op
<1> QED  BY <1>8, <1>9, <1>10

\* killProcess clears the field: a start or a rotation carries nothing then, and
\* the session prewarm came under has its process elsewhere.
LEMMA KillDoneStep ==
  ASSUME ShardInv, KillDone
  PROVE  ShardInv'
<1>1. /\ op.pc = "kill" /\ op.call # "none" /\ process' = 0
      /\ UNCHANGED <<running, active, standby, procs, port, stops, bg, client, owed, count, dropped>>
  BY InvUnfold DEF KillDone, service, OpShape
<1>2. stopReq' \in BOOLEAN
  BY InvUnfold DEF KillDone
<1>3. ProcOK(procs', process', port', stops', dropped')
  BY <1>1, InvUnfold DEF ProcOK
<1>4. CASE op.then = "done"
  <2>1. op' = Idle
    BY <1>4 DEF KillDone
  <2>2. op' \in Op /\ op'.call = "none" /\ op'.pc = "none" /\ op'.mode = "none"
    BY <2>1 DEF Idle, Op, NodeOrNone
  <2>3. op.call = "prewarm" /\ Tunnels' = Tunnels
    BY <1>1, <1>4, InvUnfold DEF OpShape, Tunnels
  <2>4. OpShape(op')
    BY <2>2 DEF OpShape
  <2> QED  BY <1>1, <1>2, <1>3, <2>2, <2>3, <2>4, PrewarmMove, InvUnfold, InvFold
<1>5. CASE op.then # "done"
  <2>1. op' = [op EXCEPT !.pc = op.then, !.victim = 0, !.then = "none"]
    BY <1>5 DEF KillDone
  <2>2. op' \in Op /\ op'.call = op.call /\ op'.pc = op.then /\ op'.mode = op.mode
    BY <1>5, <2>1, InvUnfold DEF Op
  <2>3. /\ op'.pc \in {"none", "enter", "slice", "won", "commit"}
        /\ op.call \in {"start", "rotate"}
    BY <1>1, <1>5, <2>2, InvUnfold DEF Op, OpShape
  <2>4. OpShape(op')
    BY <1>1, <2>2, <2>3, InvUnfold DEF OpShape
  <2> QED  BY <1>1, <1>2, <1>3, <2>2, <2>3, <2>4, MoveLemma, InvUnfold, InvFold
<1> QED  BY <1>4, <1>5

\* Past the race the launch is a split or a node launch, never a standby's.
LEMMA RaceWonStep ==
  ASSUME ShardInv, RaceWon
  PROVE  ShardInv'
<1>1. /\ op.pc = "won" /\ op.call \in {"start", "rotate"} 
      /\ UNCHANGED <<stopReq, process, running, active, standby, procs, port, stops, bg, dropped>>
  BY CallerLemma DEF RaceWon
<1>2. CASE Return(FALSE)
  BY <1>1, <1>2, AnswerLemma, InvUnfold
<1>3. ASSUME NEW m \in {"split", "node"}, NEW k \in Nat, UNCHANGED service,
             op' = [op EXCEPT !.pc = "check", !.mode = m, !.n = k]
      PROVE  ShardInv'
  <2>1. op' \in Op /\ op'.call = op.call /\ op'.pc = "check" /\ op'.mode = m
    BY <1>3, InvUnfold DEF Op
  <2>2. OpShape(op')
    BY <1>1, <2>1 DEF OpShape
  <2> QED  BY <1>1, <1>3, <2>1, <2>2, MoveLemma, InvUnfold, InvFold DEF service
<1>4. CASE op' = [op EXCEPT !.pc = "check", !.mode = "split", !.n = 1] /\ UNCHANGED service
  BY <1>3, <1>4
<1>5. CASE op' = [op EXCEPT !.pc = "check", !.mode = "node"] /\ UNCHANGED service
  <2>1. op' = [op EXCEPT !.pc = "check", !.mode = "node", !.n = op.n] /\ op.n \in Nat
    BY <1>5, InvUnfold DEF Op
  <2> QED  BY <1>3, <1>5, <2>1
<1> QED  BY <1>2, <1>4, <1>5 DEF RaceWon

\* The checkpoint before a launch leaves the kind of launch to start's order.
LEMMA CheckStep ==
  ASSUME ShardInv, Check
  PROVE  ShardInv'
<1>1. /\ op.pc = "check" /\ op.call \in {"start", "rotate"}
      /\ UNCHANGED <<stopReq, process, running, active, standby, procs, port, stops, bg, dropped>>
  BY CallerLemma DEF Check
<1>2. CASE Return(FALSE)
  BY <1>1, <1>2, AnswerLemma, InvUnfold
<1>3. CASE ~Return(FALSE)
  <2>1. op.mode \in {"split", "node"} /\ UNCHANGED <<client, owed, count>>
    BY <1>3 DEF Check, service
  <2>2. op' = [op EXCEPT !.mode = "node"] \/ op' = [op EXCEPT !.pc = "commit"]
    BY <1>3 DEF Check
  <2>3. /\ op' \in Op /\ op'.call = op.call /\ op'.pc \in {"check", "commit"}
        /\ op'.mode \in {"split", "node"}
    BY <1>1, <2>1, <2>2, InvUnfold DEF Op
  <2>4. OpShape(op')
    BY <1>1, <2>3 DEF OpShape
  <2> QED  BY <1>1, <2>1, <2>3, <2>4, MoveLemma, InvUnfold, InvFold
<1> QED  BY <1>2, <1>3

\* The launch of a tunnel is what a session is carried by.
LEMMA CommitStep ==
  ASSUME ShardInv, Commit
  PROVE  ShardInv'
<1>1. /\ op.pc = "commit" /\ op.call \in {"start", "rotate"} /\ Launch(FALSE, op.node)
      /\ op' = [op EXCEPT !.pc = "await"]
      /\ UNCHANGED <<stopReq, running, active, standby, stops, bg, client, owed, count, dropped>>
  BY CallerLemma DEF Commit, service
<1>2. /\ ProcOK(procs', process', port', stops', dropped')
      /\ Held(Tunnels', process', dropped', stops')
  BY <1>1, LaunchLemma, InvUnfold DEF Op
<1>3. op' \in Op /\ op'.call = op.call /\ op'.pc = "await" /\ op'.mode = op.mode
  BY <1>1, InvUnfold DEF Op
<1>5. Covered(op', client', Tunnels', process', dropped', stops')
  BY <1>1, <1>2, <1>3 DEF Covered
<1>4. OpShape(op') /\ ClientShape(op', client')
  BY <1>1, <1>3, InvUnfold DEF OpShape, ClientShape
<1> QED  BY <1>1, <1>2, <1>3, <1>4, <1>5, InvUnfold, InvFold

\* A launch that fails carries nothing.
LEMMA CommitFailsStep ==
  ASSUME ShardInv, CommitFails
  PROVE  ShardInv'
<1>1. /\ op.pc = "commit" /\ op.call \in {"start", "rotate"}
      /\ UNCHANGED <<stopReq, process, running, active, standby, procs, port, stops, bg, dropped>>
  BY CallerLemma DEF CommitFails
<1>2. CASE Return(FALSE)
  BY <1>1, <1>2, AnswerLemma, InvUnfold
<1>3. CASE ~Return(FALSE)
  <2>1. UNCHANGED <<client, owed, count>>
    BY <1>3 DEF CommitFails, service
  <2>2. \/ op.mode = "split" /\ op' = [op EXCEPT !.pc = "check", !.n = @ + 1]
        \/ op.mode = "standby" /\ op' = [op EXCEPT !.pc = "enter"]
    BY <1>3 DEF CommitFails
  <2>3. /\ op' \in Op /\ op'.call = op.call /\ op'.mode = op.mode
        /\ op'.pc = IF op.mode = "split" THEN "check" ELSE "enter"
    <3>1. op \in Op /\ op.n + 1 \in Nat
      BY InvUnfold DEF Op
    <3>2. CASE op.mode = "split" /\ op' = [op EXCEPT !.pc = "check", !.n = op.n + 1]
      BY <3>1, <3>2 DEF Op
    <3>3. CASE op.mode = "standby" /\ op' = [op EXCEPT !.pc = "enter"]
      BY <3>1, <3>3 DEF Op
    <3> QED  BY <2>2, <3>2, <3>3
  <2>4. OpShape(op')
    BY <1>1, <2>2, <2>3, InvUnfold DEF OpShape
  <2> QED  BY <1>1, <2>1, <2>3, <2>4, MoveLemma, InvUnfold, InvFold
<1> QED  BY <1>2, <1>3

\* The listener is up: the launch goes on being carried.
LEMMA ListenerUpStep ==
  ASSUME ShardInv, ListenerUp
  PROVE  ShardInv'
<1>1. /\ op.pc = "await" /\ op.call \in {"start", "rotate"} /\ op' = [op EXCEPT !.pc = "serve"]
      /\ UNCHANGED <<stopReq, process, running, active, standby, procs, port, stops, bg,
                     client, owed, count, dropped>>
  BY CallerLemma DEF ListenerUp, service
<1>2. op' \in Op /\ op'.call = op.call /\ op'.pc = "serve" /\ op'.mode = op.mode
  BY <1>1, InvUnfold DEF Op
<1>3. OpShape(op') /\ ClientShape(op', client')
  BY <1>1, <1>2, InvUnfold DEF OpShape, ClientShape
<1>4. Covered(op', client', Tunnels', process', dropped', stops')
  <2>1. Tunnels' = Tunnels
    BY <1>1 DEF Tunnels
  <2>2. Carried(op', client') => Carried(op, client)
    BY <1>1, <1>2 DEF Carried
  <2> QED  BY <1>1, <1>2, <2>1, <2>2, InvUnfold DEF Covered
<1> QED  BY <1>1, <1>2, <1>3, <1>4, InvUnfold, InvFold

\* stop() or killProcess from inside the call: what it launched is given up.
LEMMA LaunchUselessStep ==
  ASSUME ShardInv, LaunchUseless
  PROVE  ShardInv'
<1>1. /\ op.pc \in {"await", "serve"} /\ op.call \in {"start", "rotate"}
      /\ UNCHANGED <<standby, bg, dropped>>
  BY CallerLemma DEF LaunchUseless
<1>2. CASE /\ op.mode = "split" /\ StopCall /\ op' = [op EXCEPT !.pc = "check", !.n = @ + 1]
           /\ UNCHANGED <<running, active, service>>
  <2>1. ProcOK(procs', process', port', stops', dropped') /\ stopReq' = TRUE
    BY <1>1, <1>2, StopCallLemma, InvUnfold DEF StopCall
  <2>2. op' \in Op /\ op'.call = op.call /\ op'.pc = "check" /\ op'.mode = "split"
    <3>1. op \in Op /\ op.n + 1 \in Nat
      BY InvUnfold DEF Op
    <3>2. op' = [op EXCEPT !.pc = "check", !.n = op.n + 1] /\ op.mode = "split"
      BY <1>2
    <3> QED  BY <3>1, <3>2 DEF Op
  <2>3. OpShape(op')
    BY <1>1, <2>2 DEF OpShape
  <2> QED  BY <1>1, <1>2, <2>1, <2>2, <2>3, MoveLemma, InvUnfold, InvFold DEF service
<1>3. CASE op.mode = "node" /\ StopCall /\ Return(FALSE) /\ UNCHANGED <<running, active>>
  <2>1. ProcOK(procs', process', port', stops', dropped') /\ stopReq' = TRUE
    BY <1>1, <1>3, StopCallLemma, InvUnfold DEF StopCall
  <2>2. /\ op' = Idle /\ count' = count
        /\ client' = IF client = "off" \/ op.call = "start" THEN "off" ELSE "lost"
        /\ owed' = (owed \/ op.call = "start")
    BY <1>3 DEF Return
  <2>3. op' \in Op /\ op'.call = "none" /\ op'.pc = "none" /\ op'.mode = "none"
    BY <2>2 DEF Idle, Op, NodeOrNone
  <2>4. /\ OpShape(op') /\ ClientShape(op', client')
        /\ Covered(op', client', Tunnels', process', dropped', stops')
        /\ client' \in {"off", "starting", "up", "lost"}
    BY <2>2, <2>3 DEF OpShape, ClientShape, Carried, Covered
  <2>5. owed' \in BOOLEAN /\ (owed' => client' = "off")
    BY <2>2, InvUnfold
  <2> QED  BY <1>1, <1>3, <2>1, <2>2, <2>3, <2>4, <2>5, InvUnfold, InvFold
<1>4. CASE /\ op.mode = "standby" /\ KillProcess([op EXCEPT !.then = "enter"])
           /\ UNCHANGED <<stopReq, stops, service>>
  <2> DEFINE next == [op EXCEPT !.then = "enter"]
  <2>1. next \in Op /\ next.call = op.call /\ next.mode = op.mode /\ next.then = "enter"
    BY InvUnfold DEF Op
  <2>2. KillProcess(next)
    BY <1>4
  <2> HIDE DEF next
  <2>3. /\ ProcOK(procs', process', port', stops', dropped') /\ running' = FALSE /\ active' = None
        /\ op' \in Op /\ op'.call = op.call /\ op'.pc = "kill" /\ op'.mode = op.mode
        /\ op'.then = "enter"
    BY <1>1, <1>4, <2>1, <2>2, KillProcessLemma, InvUnfold
  <2>4. OpShape(op')
    BY <1>1, <1>4, <2>3, InvUnfold DEF OpShape
  <2>5. active' \in NodeOrNone
    BY <2>3 DEF NodeOrNone
  <2> QED  BY <1>1, <1>4, <2>3, <2>4, <2>5, MoveLemma, InvUnfold, InvFold DEF service
<1> QED  BY <1>2, <1>3, <1>4 DEF LaunchUseless

\* The answer that makes a session live comes of a launch still in the field.
LEMMA ServeStep ==
  ASSUME ShardInv, Serve
  PROVE  ShardInv'
<1>1. /\ op.pc = "serve" /\ op.call \in {"start", "rotate"} /\ Return(TRUE)
      /\ running' = TRUE /\ active' = op.node
      /\ UNCHANGED <<stopReq, process, standby, procs, port, stops, dropped>>
  BY CallerLemma DEF Serve
<1>2. active' \in NodeOrNone
  BY <1>1, InvUnfold DEF Op
<1>3. bg' \in Background
  BY InvUnfold DEF Serve, Background, NoBackground
<1> QED  BY <1>1, <1>2, <1>3, AnswerLemma, InvUnfold

-----------------------------------------------------------------------------
\* Every step keeps the invariant.
LEMMA StepInv ==
  ASSUME ShardInv, [Next]_vars
  PROVE  ShardInv'
<1>1. CASE UNCHANGED vars
  <2>1. UNCHANGED <<op, stopReq, process, running, active, standby, procs, port, stops, bg,
                    client, owed, count, dropped>>
    BY <1>1 DEF vars, service
  <2>2. Tunnels' = Tunnels
    BY <2>1 DEF Tunnels
  <2> QED  BY <2>1, <2>2, InvUnfold, InvFold
<1>2. CASE OpStep
  BY <1>2, EnterStartStep, SlicesEndStep, RaceSliceStep, RaceEndsStep, KillDoneStep, RaceWonStep,
     CheckStep, CommitStep, CommitFailsStep, ListenerUpStep, LaunchUselessStep, ServeStep
     DEF OpStep
<1>3. CASE StartCall \/ RotateCall \/ PrewarmCall \/ ServiceStop \/ WorkerStop \/ BackgroundStep
  BY <1>3, StartCallStep, RotateCallStep, PrewarmCallStep, StopSteps, BackgroundSteps
<1>4. CASE \E i \in 1..Len(stops) : StopThread(i)
  BY <1>4, StopThreadSteps
<1>5. CASE \E p \in 1..Len(procs) : Bind(p) \/ Exit(p)
  BY <1>5, ProcessSteps
<1> QED  BY <1>1, <1>2, <1>3, <1>4, <1>5 DEF Next

\* The fields of a fresh ShardManager satisfy it.
LEMMA InitInv ==
  ASSUME Init
  PROVE  ShardInv
<1>1. op \in Op /\ op.call = "none" /\ op.pc = "none" /\ op.mode = "none"
  BY DEF Init, Idle, Op, NodeOrNone
<1>2. bg \in Background /\ active \in NodeOrNone /\ standby \in NodeOrNone
  BY DEF Init, Background, NoBackground, NodeOrNone
<1>3. count \in [start : Nat, rotate : Nat, stop : Nat]
  BY DEF Init
<1>4. procs \in Seq(Proc) /\ Len(procs) = 0 /\ process \in 0..Len(procs) /\ port \in 0..Len(procs)
  BY DEF Init
<1>5. stops \in Seq([proc : 0..Len(procs), pc : {"wait", "null", "reset", "done"}])
  BY DEF Init
<1>6. TypeOK
  BY <1>1, <1>2, <1>3, <1>4, <1>5 DEF Init, TypeOK
<1>7. /\ OpShape(op) /\ ClientShape(op, client)
      /\ Covered(op, client, Tunnels, process, dropped, stops)
  BY <1>1 DEF OpShape, ClientShape, Carried, Covered, Init
<1> QED  BY <1>6, <1>7 DEF ShardInv, Init

\* The invariant, for any pool, any number of processes, stops and rotations.
THEOREM Invariance == Spec => []ShardInv
<1>1. Init => ShardInv
  BY InitInv
<1>2. ShardInv /\ [Next]_vars => ShardInv'
  BY StepInv
<1> QED  BY <1>1, <1>2, PTL DEF Spec

\* The fields of ShardManager keep their types: in particular the field, the port
\* and every "shard-stop" thread name a process that was launched.
THEOREM TypeCorrect == Spec => []TypeOK
<1>1. ShardInv => TypeOK
  BY DEF ShardInv
<1> QED  BY <1>1, Invariance, PTL

\* prewarm() holds the monitor while a session is up only if a "shard-stop" thread
\* put the session's process out of the field between its test and its null: every
\* other session that is up has its process in the field, where no "shard-stop"
\* thread waits for it, and the test `process != null` keeps prewarm out.
THEOREM PrewarmNeverUnderSession == Spec => []PrewarmAlone
<1>1. ShardInv => PrewarmAlone
  BY DEF ShardInv, Covered, Lost, Newest, SessionDropped, PrewarmAlone
<1> QED  BY <1>1, Invariance, PTL

-----------------------------------------------------------------------------
(* The node activeNode names.                                              *)

\* A call past killProcess has no active node yet; the process of a launch is one
\* of its node; and outside a race the field's process is one of activeNode.
NodesAgree(o, ac, pr, ps) ==
    /\ o.pc \in {"kill", "won", "check", "commit", "await", "serve"} => ac = None
    /\ o.pc \in {"await", "serve"} /\ pr # 0 => ps[pr].node = o.node
    /\ o.pc # "race" /\ ac # None /\ pr # 0 => ps[pr].node = ac

\* A step that leaves every process its node, moves the call within the stages
\* where it may have no node, and at most clears the field and activeNode.
LEMMA AgreeKept ==
  ASSUME ShardInv, NodesAgree(op, active, process, procs), op.pc # "race" \/ op'.pc = "race",
         \A q \in 1..Len(procs) : procs'[q].node = procs[q].node,
         process' \in {0, process}, active' \in {None, active},
         \/ op'.pc = op.pc /\ op'.node = op.node
         \/ op'.pc \in {"none", "enter", "slice"}
         \/ op'.pc \in {"kill", "won", "check", "commit"} /\ active' = None
         \/ op'.pc \in {"kill", "won", "check", "commit"}
              /\ op.pc \in {"kill", "won", "check", "commit", "await", "serve"}
         \/ op.pc = "await" /\ op'.pc = "serve" /\ op'.node = op.node
  PROVE  NodesAgree(op', active', process', procs')
<1>1. process \in 0..Len(procs) /\ Len(procs) \in Nat
  BY InvUnfold DEF ProcOK
<1>2. process' # 0 => process' = process /\ process \in 1..Len(procs)
  BY <1>1
<1>3. process' # 0 => procs'[process'].node = procs[process].node
  BY <1>2
<1>4. active' # None => active' = active
  OBVIOUS
<1> QED  BY <1>3, <1>4, <1>2 DEF NodesAgree

\* Every step keeps the names in agreement.
LEMMA AgreeStep ==
  ASSUME ShardInv, NodesAgree(op, active, process, procs), [Next]_vars
  PROVE  NodesAgree(op', active', process', procs')
<1>1. op \in Op /\ procs \in Seq(Proc) /\ Len(procs) \in Nat
  BY InvUnfold DEF ProcOK
<1>2. Idle.pc = "none"
  BY DEF Idle
<1>3. ASSUME NEW nxt \in Op, KillProcess(nxt) PROVE NodesAgree(op', active', process', procs')
  <2>1. op' = [nxt EXCEPT !.pc = "kill", !.victim = process] /\ active' = None
    BY <1>3 DEF KillProcess
  <2>2. op'.pc = "kill"
    BY <2>1 DEF Op
  <2> QED  BY <2>1, <2>2 DEF NodesAgree
<1>4. ASSUME StopCall
      PROVE  process' = process /\ \A q \in 1..Len(procs) : procs'[q].node = procs[q].node
  BY <1>1, <1>4, DestroyedLemma DEF StopCall
<1>5. ASSUME op' = op, UNCHANGED procs, process' \in {0, process}, active' \in {None, active}
      PROVE  NodesAgree(op', active', process', procs')
  BY <1>5, AgreeKept
<1>6. ASSUME UNCHANGED <<process, procs, active>>, op.pc # "race",
             op'.pc \in {"none", "enter", "slice"}
      PROVE  NodesAgree(op', active', process', procs')
  BY <1>6, AgreeKept
<1>7. ASSUME UNCHANGED <<process, procs, active>>, op'.pc \in {"check", "commit"},
             op.pc \in {"won", "check", "commit"}
      PROVE  NodesAgree(op', active', process', procs')
  BY <1>7, AgreeKept
<1>8. CASE OpStep
  <2>1. CASE EnterStart \/ SlicesEnd
    <3>1. UNCHANGED <<process, procs, active>> /\ op.pc \in {"enter", "slice"}
      BY <2>1 DEF EnterStart, SlicesEnd
    <3>2. op'.pc \in {"none", "slice"}
      BY <1>1, <1>2, <2>1 DEF EnterStart, SlicesEnd, Return, Op
    <3> QED  BY <1>6, <3>1, <3>2
  <2>2. CASE RaceSlice
    <3>1. active' = active /\ op.pc = "slice"
      BY <2>2 DEF RaceSlice
    <3>2. CASE Launch(TRUE, None) /\ op' = [op EXCEPT !.pc = "race"]
      <4>1. op'.pc = "race"
        BY <1>1, <3>2 DEF Op
      <4> QED  BY <4>1 DEF NodesAgree
    <3>3. CASE NoLaunch /\ op' \in {Idle, [op EXCEPT !.n = @ + 1]}
      <4>1. op'.pc \in {"none", "slice"}
        BY <1>1, <1>2, <3>1, <3>3 DEF Op
      <4> QED  BY <1>6, <3>1, <3>3, <4>1 DEF NoLaunch
    <3> QED  BY <2>2, <3>2, <3>3 DEF RaceSlice
  <2>3. CASE RaceEnds
    <3> DEFINE nxt(o) == IF op.call = "prewarm" THEN [op EXCEPT !.then = "done"]
                         ELSE IF o[1] # None THEN [op EXCEPT !.then = "won", !.node = o[1]]
                         ELSE [op EXCEPT !.then = "slice", !.n = @ + 1]
    <3>1. PICK o \in Outcome(Nodes) : KillProcess(nxt(o))
      BY <2>3 DEF RaceEnds
    <3>2. op' = [nxt(o) EXCEPT !.pc = "kill", !.victim = process] /\ active' = None
      BY <3>1 DEF KillProcess
    <3>3. "pc" \in DOMAIN nxt(o)
      BY <1>1 DEF Op
    <3>4. op'.pc = "kill"
      BY <3>2, <3>3
    <3> QED  BY <3>2, <3>4 DEF NodesAgree
  <2>4. CASE KillDone
    BY <2>4 DEF KillDone, NodesAgree, Idle, Op, TypeOK, ShardInv
  <2>5. CASE RaceWon
    <3>1. UNCHANGED <<process, procs, active>> /\ op.pc = "won"
      BY <2>5 DEF RaceWon
    <3>2. op'.pc \in {"none", "check"}
      BY <1>1, <1>2, <2>5 DEF RaceWon, Return, Op
    <3> QED  BY <1>6, <1>7, <3>1, <3>2
  <2>6. CASE Check
    <3>1. UNCHANGED <<process, procs, active>> /\ op.pc = "check"
      BY <2>6 DEF Check
    <3>2. \/ op' = Idle
          \/ op' = [op EXCEPT !.mode = "node"]
          \/ op' = [op EXCEPT !.pc = "commit"]
      BY <2>6 DEF Check, Return
    <3>3. [op EXCEPT !.mode = "node"].pc = op.pc /\ [op EXCEPT !.pc = "commit"].pc = "commit"
      BY <1>1 DEF Op
    <3>4. op'.pc \in {"none", "check", "commit"}
      BY <1>2, <3>1, <3>2, <3>3
    <3> QED  BY <1>6, <1>7, <3>1, <3>4
  <2>7. CASE Commit
    <3> DEFINE r == [state |-> "alive", probe |-> FALSE, node |-> op.node]
    <3>1. /\ procs' = Append(procs, r) /\ process' = Len(procs) + 1 /\ r.node = op.node
          /\ op' = [op EXCEPT !.pc = "await"] /\ op.pc = "commit" /\ active' = active
      BY <2>7 DEF Commit, Launch
    <3> HIDE DEF r
    <3>2. procs'[process'].node = op.node
      BY <1>1, <3>1
    <3>3. op'.pc = "await" /\ op'.node = op.node
      BY <1>1, <3>1 DEF Op
    <3> QED  BY <3>1, <3>2, <3>3 DEF NodesAgree
  <2>8. CASE CommitFails
    <3>1. UNCHANGED <<process, procs, active>> /\ op.pc = "commit"
      BY <2>8 DEF CommitFails
    <3>2. \/ op' = Idle
          \/ op' = [op EXCEPT !.pc = "check", !.n = op.n + 1]
          \/ op' = [op EXCEPT !.pc = "enter"]
      BY <2>8 DEF CommitFails, Return
    <3>3. /\ [op EXCEPT !.pc = "check", !.n = op.n + 1].pc = "check"
          /\ [op EXCEPT !.pc = "enter"].pc = "enter"
      BY <1>1 DEF Op
    <3>4. op'.pc \in {"none", "check", "enter"}
      BY <1>2, <3>2, <3>3
    <3> QED  BY <1>6, <1>7, <3>1, <3>4
  <2>9. CASE ListenerUp
    <3>1. op' = [op EXCEPT !.pc = "serve"] /\ op.pc = "await" /\ UNCHANGED <<process, procs, active>>
      BY <2>9 DEF ListenerUp
    <3>2. op'.pc = "serve" /\ op'.node = op.node
      BY <1>1, <3>1 DEF Op
    <3> QED  BY <3>1, <3>2, AgreeKept
  <2>10. CASE LaunchUseless
    <3>1. op.pc \in {"await", "serve"}
      BY <2>10 DEF LaunchUseless
    <3>2. CASE StopCall /\ active' = active /\ op' \in {Idle, [op EXCEPT !.pc = "check", !.n = op.n + 1]}
      <4>1. [op EXCEPT !.pc = "check", !.n = op.n + 1].pc = "check"
        BY <1>1 DEF Op
      <4>2. op'.pc \in {"none", "check"}
        BY <1>2, <3>2, <4>1
      <4>3. process' = process /\ \A q \in 1..Len(procs) : procs'[q].node = procs[q].node
        BY <1>4, <3>2
      <4> QED  BY <3>1, <3>2, <4>2, <4>3, AgreeKept
    <3>3. CASE KillProcess([op EXCEPT !.then = "enter"])
      <4>1. [op EXCEPT !.then = "enter"] \in Op
        BY <1>1 DEF Op
      <4> QED  BY <1>3, <3>3, <4>1
    <3> QED  BY <2>10, <3>2, <3>3 DEF LaunchUseless, Return
  <2>11. CASE Serve
    <3>1. /\ op.pc = "serve" /\ op' = Idle /\ active' = op.node
          /\ UNCHANGED <<process, procs>>
      BY <2>11 DEF Serve, Return
    <3> QED  BY <1>2, <3>1 DEF NodesAgree
  <2> QED  BY <1>8, <2>1, <2>2, <2>3, <2>4, <2>5, <2>6, <2>7, <2>8, <2>9, <2>10, <2>11 DEF OpStep
<1>9. CASE StartCall \/ PrewarmCall
  <2>1. op = Idle /\ UNCHANGED <<process, procs, active>> /\ op'.pc \in {"enter", "slice"}
    BY <1>9 DEF StartCall, PrewarmCall, Idle
  <2> QED  BY <1>2, <1>6, <2>1
<1>10. CASE RotateCall
  <2> DEFINE nxt == [Idle EXCEPT !.call = "rotate", !.prev = active]
             nxt2 == [nxt EXCEPT !.mode = "standby", !.node = standby, !.then = "commit"]
  <2>1. nxt2 \in Op
    BY InvUnfold DEF Idle, Op, NodeOrNone
  <2>2. CASE KillProcess(nxt2)
    BY <1>3, <2>1, <2>2
  <2>3. CASE op' = [nxt EXCEPT !.pc = "enter"] /\ UNCHANGED <<active, procs, process>>
    <3>1. op'.pc = "enter" /\ op.pc = "none"
      BY <1>2, <1>10, <2>3 DEF Idle, RotateCall, CanRotate
    <3> QED  BY <1>6, <2>3, <3>1
  <2> QED  BY <1>10, <2>2, <2>3 DEF RotateCall
<1>11. CASE ServiceStop \/ WorkerStop
  <2>1. StopCall /\ op' = op /\ active' = active
    BY <1>11 DEF ServiceStop, WorkerStop
  <2>2. process' = process /\ \A q \in 1..Len(procs) : procs'[q].node = procs[q].node
    BY <1>4, <2>1
  <2> QED  BY <2>1, <2>2, AgreeKept
<1>12. CASE BackgroundStep \/ UNCHANGED vars
  BY <1>5, <1>12 DEF BackgroundStep, BackgroundInit, BackgroundReady, BackgroundRace,
                     BackgroundTest, BackgroundStore, vars
<1>13. CASE \E i \in 1..Len(stops) : StopThread(i)
  BY <1>5, <1>13 DEF StopThread, StopThreadTest, StopThreadNull, StopThreadReset
<1>14. CASE \E p \in 1..Len(procs) : Bind(p) \/ Exit(p)
  <2> PICK p \in 1..Len(procs) : Bind(p) \/ Exit(p)
    BY <1>14
  <2>1. UNCHANGED <<op, process, active>> /\ (procs' = procs \/ procs' = Dead(p))
    BY DEF Bind, Exit
  <2>2. \A q \in 1..Len(procs) : procs'[q].node = procs[q].node
    BY <1>1, <2>1, DeadLemma
  <2> QED  BY <2>1, <2>2, AgreeKept
<1> QED  BY <1>8, <1>9, <1>10, <1>11, <1>12, <1>13, <1>14 DEF Next

\* Whatever rotations failed half-way, whichever processes were dropped and however
\* late the "shard-stop" threads come, activeNode is null between calls or the node
\* of the process in the field.
THEOREM ActiveNodeTrue == Spec => []ActiveNodeServes
<1> DEFINE Agree == NodesAgree(op, active, process, procs)
<1>1. Init => Agree
  BY DEF Init, Idle, NodesAgree
<1>2. ShardInv /\ Agree /\ [Next]_vars => Agree'
  BY AgreeStep
<1>3. Agree => ActiveNodeServes
  BY DEF NodesAgree, ActiveNodeServes, Idle
<1> HIDE DEF Agree
<1> QED  BY <1>1, <1>2, <1>3, Invariance, PTL DEF Spec

-----------------------------------------------------------------------------
(* Without a rotation.                                                     *)

NoneAlive(ps, d) == \A p \in 1..Len(ps) : ps[p].state = "alive" => p \in d

\* A "shard-stop" thread about to clear the field captured a process that is gone.
NullGone(ps, st) ==
    \A i \in 1..Len(st) : st[i].pc = "null" /\ st[i].proc # 0 => ps[st[i].proc].state = "dead"

\* Nothing but what was dropped is left running when a launch can come: all along a
\* call but for the time its own process is in use, and between the sessions.
Alone ==
    /\ op.call # "rotate"
    /\ NoOrphan
    /\ op.pc \notin {"race", "await", "serve"} /\ (op.pc # "none" \/ (client = "off" /\ ~owed))
         => NoneAlive(procs, dropped)

\* SIGTERM to the process of the field leaves none alive.
LEMMA Silenced ==
  ASSUME TypeOK, NoOrphan, procs' = Destroyed(process), UNCHANGED dropped
  PROVE  NoneAlive(procs', dropped')
<1>1. Len(procs) \in Nat /\ procs \in Seq(Proc)
  BY DEF TypeOK
<1>2. Len(procs') = Len(procs)
  BY <1>1 DEF Destroyed
<1>3. ASSUME NEW p \in 1..Len(procs) PROVE procs'[p].state = "alive" => p \in dropped
  <2>1. procs[p] \in Proc
    BY <1>1
  <2>2. CASE p = process /\ procs[p].state = "alive"
    <3>1. procs'[p] = [procs[p] EXCEPT !.state = "dying"]
      BY <2>2 DEF Destroyed
    <3> QED  BY <2>1, <3>1 DEF Proc
  <2>3. CASE ~(p = process /\ procs[p].state = "alive")
    <3>1. procs'[p] = procs[p]
      BY <2>3 DEF Destroyed
    <3>2. procs[p].state = "alive" => p \in dropped
      BY <2>3 DEF NoOrphan
    <3> QED  BY <3>1, <3>2
  <2> QED  BY <2>2, <2>3
<1> QED  BY <1>2, <1>3 DEF NoneAlive

\* An end or a failed bind wakes nothing up.
LEMMA DeadAlone ==
  ASSUME TypeOK, NEW p \in 1..Len(procs), procs' = Dead(p)
  PROVE  /\ Len(procs') = Len(procs)
         /\ \A q \in 1..Len(procs) : procs'[q].state = "alive" => procs[q].state = "alive"
<1>1. procs \in Seq(Proc)
  BY DEF TypeOK
<1>2. Len(procs') = Len(procs)
  BY <1>1 DEF Dead
<1>3. ASSUME NEW q \in 1..Len(procs), procs'[q].state = "alive" PROVE procs[q].state = "alive"
  <2>1. procs[q] \in Proc
    BY <1>1
  <2>2. CASE q = p
    <3>1. procs'[q] = [procs[q] EXCEPT !.state = "dead"]
      BY <1>1, <2>2 DEF Dead
    <3> QED  BY <1>3, <2>1, <3>1 DEF Proc
  <2>3. CASE q # p
    BY <1>1, <1>3, <2>3 DEF Dead
  <2> QED  BY <2>2, <2>3
<1> QED  BY <1>2, <1>3

\* A launch that finds nothing alive leaves its own process the only one.
LEMMA LaunchedAlone ==
  ASSUME TypeOK, NoneAlive(procs, dropped), NEW probe, NEW node, Launch(probe, node),
         UNCHANGED dropped
  PROVE  NoOrphan'
<1>1. procs \in Seq(Proc) /\ Len(procs) \in Nat
  BY DEF TypeOK
<1> DEFINE e == [state |-> "alive", probe |-> probe, node |-> node]
<1>2. procs' = Append(procs, e) /\ process' = Len(procs) + 1
  BY DEF Launch
<1>3. Len(procs') = Len(procs) + 1 /\ \A p \in 1..Len(procs) : procs'[p] = procs[p]
  BY <1>1, <1>2
<1> QED  BY <1>1, <1>2, <1>3 DEF NoOrphan, NoneAlive

\* With nothing alive every part of Alone holds.
LEMMA SilentAlone ==
  ASSUME NoneAlive(procs', dropped'), op'.call # "rotate"
  PROVE  Alone'
  BY DEF Alone, NoneAlive, NoOrphan

\* A step of the call that touches no process.
LEMMA QuietAlone ==
  ASSUME Alone, UNCHANGED <<procs, process, dropped>>, op'.call # "rotate",
         \/ op'.pc \in {"race", "await", "serve"}
         \/ op'.pc = "none" /\ ~(client' = "off" /\ ~owed')
         \/ op' = op /\ client' = client /\ owed' = owed
  PROVE  Alone'
<1>1. NoOrphan'
  BY DEF Alone, NoOrphan
<1> QED  BY <1>1 DEF Alone

\* The calls and the checkpoints between launches.
LEMMA BetweenAlone ==
  ASSUME TypeOK, ShardInv, Alone,
         StartCall \/ PrewarmCall \/ EnterStart \/ SlicesEnd \/ RaceWon \/ Check \/ CommitFails
  PROVE  Alone'
<1>1. procs' = procs /\ dropped' = dropped
  BY DEF StartCall, PrewarmCall, EnterStart, SlicesEnd, RaceWon, Check, CommitFails
<1>2. op'.call # "rotate"
  <2>1. op \in Op /\ op.call # "rotate"
    BY DEF TypeOK, Alone
  <2>2. CASE StartCall \/ PrewarmCall
    BY <2>2 DEF StartCall, PrewarmCall, Idle
  <2>3. ASSUME \/ op' = Idle
               \/ op' = [op EXCEPT !.pc = "slice", !.mode = "none", !.n = 0]
               \/ op' = [op EXCEPT !.pc = "check", !.mode = "split", !.n = 1]
               \/ op' = [op EXCEPT !.pc = "check", !.mode = "node"]
               \/ op' = [op EXCEPT !.pc = "check", !.n = op.n + 1]
               \/ op' = [op EXCEPT !.pc = "enter"]
        PROVE  op'.call # "rotate"
    <3>1. Idle.call = "none"
      BY DEF Idle
    <3>2. [op EXCEPT !.pc = "slice", !.mode = "none", !.n = 0].call = op.call
      BY <2>1 DEF Op
    <3>3. [op EXCEPT !.pc = "check", !.mode = "split", !.n = 1].call = op.call
      BY <2>1 DEF Op
    <3>4. [op EXCEPT !.pc = "check", !.mode = "node"].call = op.call
      BY <2>1 DEF Op
    <3>5. [op EXCEPT !.pc = "check", !.n = op.n + 1].call = op.call
      BY <2>1 DEF Op
    <3>6. [op EXCEPT !.pc = "enter"].call = op.call
      BY <2>1 DEF Op
    <3> QED  BY <2>1, <2>3, <3>1, <3>2, <3>3, <3>4, <3>5, <3>6
  <2>4. CASE EnterStart \/ SlicesEnd
    BY <2>3, <2>4 DEF EnterStart, SlicesEnd, Return
  <2>5. CASE Check
    BY <2>1, <2>5 DEF Check, Return, Idle, Op
  <2>6. CASE RaceWon \/ CommitFails
    BY <2>3, <2>6 DEF RaceWon, CommitFails, Return
  <2> QED  BY <2>2, <2>4, <2>5, <2>6
<1>3. NoneAlive(procs, dropped)
  <2>1. CASE StartCall
    BY <2>1 DEF StartCall, Idle, Alone
  <2>2. CASE PrewarmCall
    BY <2>2 DEF PrewarmCall, Alone, NoOrphan, NoneAlive
  <2>3. CASE EnterStart \/ SlicesEnd \/ RaceWon \/ Check \/ CommitFails
    BY <2>3 DEF EnterStart, SlicesEnd, RaceWon, Check, CommitFails, Alone
  <2> QED  BY <2>1, <2>2, <2>3
<1>4. NoneAlive(procs', dropped')
  BY <1>1, <1>3
<1> QED  BY <1>2, <1>4, SilentAlone

\* A launch, or the failure to launch a probe process.
LEMMA LaunchAlone ==
  ASSUME TypeOK, ShardInv, Alone, RaceSlice \/ Commit
  PROVE  Alone'
<1>1. NoneAlive(procs, dropped)
  BY DEF RaceSlice, Commit, Alone
<1>2. op \in Op /\ op.call # "rotate"
  BY DEF TypeOK, Alone
<1>7. dropped' = dropped
  BY DEF RaceSlice, Commit
<1>3. CASE procs' = procs /\ op'.call # "rotate"
  <2>1. NoneAlive(procs', dropped')
    BY <1>1, <1>3, <1>7
  <2> QED  BY <1>3, <2>1, SilentAlone
<1>4. ASSUME NEW probe, NEW node, Launch(probe, node), op'.pc \in {"race", "await"}, op'.call # "rotate"
      PROVE  Alone'
  <2>1. NoOrphan'
    BY <1>1, <1>4, <1>7, LaunchedAlone
  <2> QED  BY <1>4, <2>1 DEF Alone
<1>5. CASE RaceSlice
  <2>1. CASE Launch(TRUE, None) /\ op' = [op EXCEPT !.pc = "race"]
    <3>1. op'.pc = "race" /\ op'.call # "rotate"
      BY <1>2, <2>1 DEF Op
    <3> QED  BY <1>4, <2>1, <3>1
  <2>2. CASE NoLaunch /\ op' \in {Idle, [op EXCEPT !.n = @ + 1]}
    <3>1. procs' = procs /\ op'.call # "rotate"
      BY <1>2, <2>2 DEF NoLaunch, Idle, Op
    <3> QED  BY <1>3, <3>1
  <2> QED  BY <1>5, <2>1, <2>2 DEF RaceSlice
<1>6. CASE Commit
  <2>1. op'.pc = "await" /\ op'.call # "rotate" /\ Launch(FALSE, op.node)
    BY <1>2, <1>6 DEF Commit, Op
  <2> QED  BY <1>4, <2>1
<1> QED  BY <1>5, <1>6

\* A process that is told to end, by the call itself or by a stop.
LEMMA EndedAlone ==
  ASSUME TypeOK, ShardInv, Alone, RaceEnds \/ LaunchUseless \/ ServiceStop \/ WorkerStop
  PROVE  Alone'
<1>1. procs' = Destroyed(process) /\ dropped' = dropped
  BY DEF RaceEnds, LaunchUseless, ServiceStop, WorkerStop, KillProcess, StopCall
<1>2. NoneAlive(procs', dropped')
  BY <1>1, Silenced DEF Alone
<1>3. op \in Op /\ op.call # "rotate"
  BY DEF TypeOK, Alone
<1>4. op'.call # "rotate"
  <2>1. CASE RaceEnds
    BY <1>3, <2>1 DEF RaceEnds, KillProcess, Op
  <2>2. CASE LaunchUseless
    <3>1. \/ op' = [op EXCEPT !.pc = "check", !.n = @ + 1]
          \/ op' = Idle
          \/ KillProcess([op EXCEPT !.then = "enter"])
      BY <2>2 DEF LaunchUseless, Return
    <3>2. CASE op' = [op EXCEPT !.pc = "check", !.n = @ + 1]
      BY <1>3, <3>2 DEF Op
    <3>3. CASE op' = Idle
      BY <3>3 DEF Idle
    <3>4. CASE KillProcess([op EXCEPT !.then = "enter"])
      BY <1>3, <3>4 DEF KillProcess, Op
    <3> QED  BY <3>1, <3>2, <3>3, <3>4
  <2>3. CASE ServiceStop \/ WorkerStop
    BY <1>3, <2>3 DEF ServiceStop, WorkerStop
  <2> QED  BY <2>1, <2>2, <2>3
<1> QED  BY <1>2, <1>4, SilentAlone

\* killProcess has waited: the field is empty and so is the machine.
LEMMA KilledAlone ==
  ASSUME TypeOK, ShardInv, Alone, KillDone
  PROVE  Alone'
<1>1. NoneAlive(procs, dropped) /\ procs' = procs /\ dropped' = dropped
  BY DEF KillDone, Alone
<1>2. op'.call # "rotate"
  BY DEF KillDone, Idle, Alone, TypeOK, Op
<1>3. NoneAlive(procs', dropped')
  BY <1>1
<1> QED  BY <1>2, <1>3, SilentAlone

\* The tunnel is up; one that nobody wants any more is the catch block's to end.
LEMMA ServedAlone ==
  ASSUME TypeOK, ShardInv, Alone, Serve
  PROVE  Alone'
<1>1. op.call = "start"
  BY DEF ShardInv, OpShape, Serve, Alone, TypeOK, Op
<1>2. op' = Idle /\ ~(client' = "off" /\ ~owed')
  BY <1>1 DEF Serve, Return
<1>3. UNCHANGED <<procs, process, dropped>> /\ op'.pc = "none" /\ op'.call # "rotate"
  BY <1>2 DEF Serve, Idle
<1> QED  BY <1>2, <1>3, QuietAlone

\* The steps that leave the call alone.
LEMMA OthersAlone ==
  ASSUME TypeOK, ShardInv, Alone, NullGone(procs, stops),
         \/ ListenerUp \/ BackgroundStep \/ UNCHANGED vars
         \/ \E i \in 1..Len(stops) : StopThread(i)
         \/ \E p \in 1..Len(procs) : Bind(p) \/ Exit(p)
  PROVE  Alone'
<1>1. CASE ListenerUp
  <2>1. UNCHANGED <<procs, process, dropped>> /\ op'.pc = "serve" /\ op'.call # "rotate"
    BY <1>1 DEF ListenerUp, Alone, TypeOK, Op
  <2> QED  BY <2>1, QuietAlone
<1>2. CASE BackgroundStep \/ UNCHANGED vars
  <2>1. UNCHANGED <<procs, process, dropped, op, client, owed>>
    BY <1>2 DEF BackgroundStep, BackgroundInit, BackgroundReady, BackgroundRace, BackgroundTest,
                BackgroundStore, service, vars
  <2>2. op'.call # "rotate"
    BY <2>1 DEF Alone
  <2> QED  BY <2>1, <2>2, QuietAlone
<1>3. CASE \E i \in 1..Len(stops) : StopThread(i)
  <2> PICK i \in 1..Len(stops) : StopThread(i)
    BY <1>3
  <2>1. UNCHANGED <<procs, op, client, owed>> /\ dropped \subseteq dropped'
    BY DEF StopThread, StopThreadTest, StopThreadNull, StopThreadReset, service
  <2>2. \/ process' = process
        \/ process' = 0 /\ process \in dropped' \cup {0}
        \/ process' = 0 /\ process # 0 /\ procs[process].state = "dead"
    BY DEF StopThread, StopThreadTest, StopThreadNull, StopThreadReset, NullGone
  <2>3. NoOrphan'
    BY <2>1, <2>2 DEF Alone, NoOrphan
  <2>4. NoneAlive(procs, dropped) => NoneAlive(procs', dropped')
    BY <2>1 DEF NoneAlive
  <2> QED  BY <2>1, <2>3, <2>4 DEF Alone
<1>4. CASE \E p \in 1..Len(procs) : Bind(p) \/ Exit(p)
  <2> PICK p \in 1..Len(procs) : Bind(p) \/ Exit(p)
    BY <1>4
  <2>1. /\ UNCHANGED <<op, process, client, owed, dropped>>
        /\ procs' = procs \/ procs' = Dead(p)
    BY DEF Bind, Exit, service
  <2>2. CASE procs' = procs
    <3>1. op'.call # "rotate"
      BY <2>1 DEF Alone
    <3> QED  BY <2>1, <2>2, <3>1, QuietAlone
  <2>3. CASE procs' = Dead(p)
    <3>1. /\ Len(procs') = Len(procs)
          /\ \A q \in 1..Len(procs) : procs'[q].state = "alive" => procs[q].state = "alive"
      BY <2>3, DeadAlone
    <3>2. NoOrphan' /\ (NoneAlive(procs, dropped) => NoneAlive(procs', dropped'))
      BY <2>1, <3>1 DEF Alone, NoOrphan, NoneAlive
    <3> QED  BY <2>1, <3>2 DEF Alone
  <2> QED  BY <2>1, <2>2, <2>3
<1> QED  BY <1>1, <1>2, <1>3, <1>4

\* A thread that has found its process gone stays right about it: no process comes
\* back.
LEMMA NullGoneStep ==
  ASSUME ShardInv, NullGone(procs, stops), [Next]_vars
  PROVE  NullGone(procs', stops')
<1>1. ProcOK(procs, process, port, stops, dropped)
  BY InvUnfold
<1>2. /\ \A i \in 1..Len(stops) : stops[i] \in Stop(Len(procs))
      /\ Len(procs) \in Nat /\ Len(stops) \in Nat /\ procs \in Seq(Proc)
  BY <1>1 DEF ProcOK
<1>3. ASSUME \A p \in 1..Len(procs) : procs[p].state = "dead" => procs'[p].state = "dead",
             UNCHANGED stops
      PROVE  NullGone(procs', stops')
  BY <1>2, <1>3 DEF NullGone, Stop
<1>4. ASSUME NEW p, procs' = Destroyed(p)
      PROVE  \A q \in 1..Len(procs) : procs[q].state = "dead" => procs'[q].state = "dead"
  BY <1>4 DEF Destroyed
<1>5. ASSUME StopCall PROVE NullGone(procs', stops')
  <2> DEFINE t == [proc |-> process, pc |-> "wait"]
  <2>1. stops' = Append(stops, t) /\ t.pc = "wait"
    BY <1>5 DEF StopCall
  <2> HIDE DEF t
  <2>2. \A q \in 1..Len(procs) : procs[q].state = "dead" => procs'[q].state = "dead"
    BY <1>4, <1>5 DEF StopCall
  <2>3. /\ Len(stops') = Len(stops) + 1 /\ stops'[Len(stops) + 1] = t
        /\ \A i \in 1..Len(stops) : stops'[i] = stops[i]
    BY <1>1, <2>1 DEF ProcOK
  <2>4. \A i \in 1..Len(stops') : i \in 1..Len(stops) \/ stops'[i].pc = "wait"
    BY <1>2, <2>1, <2>3
  <2> QED  BY <1>2, <2>2, <2>3, <2>4 DEF NullGone, Stop
<1>6. ASSUME NEW nxt, KillProcess(nxt), UNCHANGED stops PROVE NullGone(procs', stops')
  BY <1>3, <1>4, <1>6 DEF KillProcess
<1>7. ASSUME UNCHANGED <<procs, stops>> PROVE NullGone(procs', stops')
  BY <1>7
<1>8. ASSUME NEW probe, NEW node, Launch(probe, node), UNCHANGED stops PROVE NullGone(procs', stops')
  BY <1>2, <1>3, <1>8 DEF Launch
<1>9. CASE OpStep
  <2>1. CASE EnterStart \/ SlicesEnd \/ KillDone \/ RaceWon \/ Check \/ CommitFails \/ ListenerUp \/ Serve
    BY <1>7, <2>1 DEF EnterStart, SlicesEnd, KillDone, RaceWon, Check, CommitFails, ListenerUp, Serve
  <2>2. CASE RaceSlice \/ Commit
    BY <1>7, <1>8, <2>2 DEF RaceSlice, Commit, NoLaunch
  <2>3. CASE RaceEnds
    BY <1>6, <2>3 DEF RaceEnds
  <2>4. CASE LaunchUseless
    BY <1>5, <1>6, <2>4 DEF LaunchUseless
  <2> QED  BY <1>9, <2>1, <2>2, <2>3, <2>4 DEF OpStep
<1>10. CASE StartCall \/ PrewarmCall \/ BackgroundStep \/ UNCHANGED vars
  BY <1>7, <1>10 DEF StartCall, PrewarmCall, BackgroundStep, BackgroundInit, BackgroundReady,
                     BackgroundRace, BackgroundTest, BackgroundStore, vars
<1>11. CASE RotateCall
  BY <1>6, <1>7, <1>11 DEF RotateCall
<1>12. CASE ServiceStop \/ WorkerStop
  BY <1>5, <1>12 DEF ServiceStop, WorkerStop
<1>13. CASE \E i \in 1..Len(stops) : StopThread(i)
  <2> PICK i \in 1..Len(stops) : StopThread(i)
    BY <1>13
  <2>1. procs' = procs
    BY DEF StopThread, StopThreadTest, StopThreadNull, StopThreadReset
  <2>2. ASSUME NEW t, stops' = [stops EXCEPT ![i] = t],
               t.pc = "null" /\ t.proc # 0 => procs[t.proc].state = "dead"
        PROVE  NullGone(procs', stops')
    <3>1. Len(stops') = Len(stops)
      BY <1>1, <2>2 DEF ProcOK
    <3>2. \A j \in 1..Len(stops) : stops'[j] = IF j = i THEN t ELSE stops[j]
      BY <1>1, <2>2 DEF ProcOK
    <3> QED  BY <2>1, <2>2, <3>1, <3>2 DEF NullGone
  <2>3. CASE StopThreadTest(i)
    <3> DEFINE t == [stops[i] EXCEPT !.pc = IF process = stops[i].proc THEN "null" ELSE "reset"]
    <3>1. stops' = [stops EXCEPT ![i] = t] /\ Gone(stops[i].proc)
      BY <1>1, <2>3 DEF StopThreadTest, ProcOK
    <3>2. t.proc = stops[i].proc
      BY <1>2 DEF Stop
    <3> HIDE DEF t
    <3> QED  BY <2>2, <3>1, <3>2 DEF Gone
  <2>4. CASE StopThreadNull(i)
    <3> DEFINE t == [stops[i] EXCEPT !.pc = "reset"]
    <3>1. stops' = [stops EXCEPT ![i] = t]
      BY <1>1, <2>4 DEF StopThreadNull, ProcOK
    <3>2. t.pc = "reset"
      BY <1>2 DEF Stop
    <3> HIDE DEF t
    <3> QED  BY <2>2, <3>1, <3>2
  <2>5. CASE StopThreadReset(i)
    BY <2>2, <2>5 DEF StopThreadReset
  <2> QED  BY <2>3, <2>4, <2>5 DEF StopThread
<1>14. CASE \E p \in 1..Len(procs) : Bind(p) \/ Exit(p)
  <2> PICK p \in 1..Len(procs) : Bind(p) \/ Exit(p)
    BY <1>14
  <2>1. stops' = stops /\ (procs' = procs \/ procs' = Dead(p))
    BY DEF Bind, Exit
  <2>2. ASSUME procs' = Dead(p)
        PROVE  \A q \in 1..Len(procs) : procs[q].state = "dead" => procs'[q].state = "dead"
    <3>1. \A q \in 1..Len(procs) : procs[q] \in Proc
      BY <1>2
    <3>2. [procs[p] EXCEPT !.state = "dead"].state = "dead"
      BY <3>1 DEF Proc
    <3>3. \A q \in 1..Len(procs) : procs'[q] = IF q = p THEN [procs[p] EXCEPT !.state = "dead"] ELSE procs[q]
      BY <1>2, <2>2 DEF Dead
    <3> QED  BY <3>2, <3>3
  <2> QED  BY <1>3, <1>7, <2>1, <2>2
<1> QED  BY <1>9, <1>10, <1>11, <1>12, <1>13, <1>14 DEF Next

\* As long as nobody rotates, every launch finds the process before it told to end,
\* however the stops fall, unless a "shard-stop" thread dropped it: but for those,
\* the one in the field is the only one alive.  With rotations that is false, as
\* ShardRotateStop.cfg with the property RotateServesAnother shows.
THEOREM OneProcess ==
  ASSUME MaxRotations = 0
  PROVE  Spec => []NoOrphan
<1> DEFINE J == Alone /\ NullGone(procs, stops)
<1>1. Init => J
  BY DEF Init, Idle, Alone, NoOrphan, NoneAlive, NullGone
<1>2. ShardInv /\ J /\ [Next]_vars => J'
  <2> SUFFICES ASSUME ShardInv, Alone, NullGone(procs, stops), [Next]_vars PROVE J'
    OBVIOUS
  <2>1. TypeOK
    BY DEF ShardInv
  <2>2. ~RotateCall
    BY <2>1 DEF RotateCall, CanRotate, TypeOK
  <2>3. Alone'
    BY <2>1, <2>2, BetweenAlone, LaunchAlone, EndedAlone, KilledAlone, ServedAlone, OthersAlone
    DEF Next, OpStep
  <2>4. NullGone(procs', stops')
    BY NullGoneStep
  <2> QED  BY <2>3, <2>4
<1>3. J => NoOrphan
  BY DEF Alone
<1> HIDE DEF J
<1> QED  BY <1>1, <1>2, <1>3, Invariance, PTL DEF Spec
=============================================================================
