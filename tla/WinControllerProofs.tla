------------------------ MODULE WinControllerProofs -------------------------
(***************************************************************************)
(* The Windows client, for any number of coroutines, processes, attempts   *)
(* and crashes: one run of _connect at a time, a Windows proxy that the    *)
(* next start can take back, and nothing left behind at rest.              *)
(***************************************************************************)
EXTENDS WinController, FiniteSetTheorems, TLAPS

\* A run of _connect that is not an attempt left behind by the safety net.
InRun(t) == task[t].pc \in Running /\ task[t].by # "late"

\* An attempt left behind never gets past waitApi.
LateEarly == \A t \in Tasks : task[t].by = "late" => task[t].pc \in {"none", "ports", "spawn", "api"}

\* What the microtask queue has to run is one continuation, or several callers of
\* connect() that waited for the same run.
OneImmediate ==
    \A s, t \in Tasks :
        task[s].pc \in Immediate \ {"resume"} /\ task[t].pc \in Immediate => s = t

ClosingShows == \A t \in Tasks : task[t].pc = "closing" => ui = "disconnecting"

\* A closed app has no coroutines and knows what its disk says.
ClosedMeansGone ==
    ui = "closed" => proxy.owned = proxy.disk /\ \A t \in Tasks : task[t].pc = "none"

\* A proxy that points at a core is owned, or about to be, or a crash tore it.
ProxyAccounted ==
    proxy.at \in Procs => proxy.owned \/ crash.torn \/ \E t \in Tasks : task[t].pc = "own"

Queue == LateEarly /\ OneImmediate /\ ClosingShows /\ ClosedMeansGone /\ ProxyAccounted

\* Outside the automatic transport connect() never waits for the configuration.
NoConfig == \A t \in Tasks : task[t].pc # "config"

\* _connectRun is the run, so there is one.
RunIsCurrent == \A t \in Tasks : InRun(t) => ctl.run = t

\* Callers that are resumed find no run, or a state that sends them away.
ResumeIsSafe ==
    (\E t \in Tasks : task[t].pc = "resume") => ctl.run = 0 \/ ui # "disconnected"

\* A run that goes on has not reported success.
NotYetConnected == \A t \in Tasks : InRun(t) => ui # "connected"

\* A core in the field belongs to a connected client or to an attempt.
CoreAccounted ==
    eng.process # 0 =>
        ui = "connected" \/ \E t \in Tasks : task[t].pc \in {"api", "verify", "own", "exit"}

\* So does an owned proxy that points at a core.
OwnedAccounted ==
    proxy.owned /\ proxy.at \in Procs =>
        ui \in {"connected", "closed"} \/ \E t \in Tasks : task[t].pc \in {"own", "exit"}

Serial ==
    ~pref.auto =>
        /\ NoConfig /\ RunIsCurrent /\ ResumeIsSafe /\ NotYetConnected
        /\ CoreAccounted /\ OwnedAccounted

WinInv == TypeOK /\ Queue /\ Serial

-----------------------------------------------------------------------------
(* Types, one part per variable.                                           *)

Uis == {"disconnected", "connecting", "connected", "disconnecting", "closed"}
Pcs == Running \cup {"none", "closing", "await", "resume", "config"}
CtlRec == [cancel : BOOLEAN, switching : BOOLEAN, stopping : BOOLEAN,
           run : Tasks \cup {0}, watch : {"idle", "failover", "switching"}]
TaskRec == [pc : Pcs, by : {"user", "switch", "watch", "exit", "late"}, manual : BOOLEAN,
            prev : Tasks \cup {0}, proc : Procs \cup {0}, left : 0 .. MaxAttempts]

TaskOK == task \in [Tasks -> TaskRec]
EngOK == eng \in [process : Procs \cup {0}, alive : SUBSET Procs]
ProxyOK == proxy \in [at : Procs \cup {"off", "dead"}, owned : BOOLEAN, disk : BOOLEAN]
CrashOK == crash \in [n : 0 .. MaxCrashes, torn : BOOLEAN]
SessionOK == pref \in Prefs /\ ui \in Uis /\ ctl \in CtlRec /\ TaskOK

\* The type invariant, part by part.
LEMMA TypeParts == TypeOK <=> SessionOK /\ EngOK /\ ProxyOK /\ CrashOK
BY DEF TypeOK, SessionOK, EngOK, ProxyOK, CrashOK, TaskOK, TaskRec, CtlRec, Uis, Pcs

\* The same of the next state.
LEMMA TypePartsNext == TypeOK' <=> SessionOK' /\ EngOK' /\ ProxyOK' /\ CrashOK'
BY DEF TypeOK, SessionOK, EngOK, ProxyOK, CrashOK, TaskOK, TaskRec, CtlRec, Uis, Pcs

\* A coroutine that has ended and a controller just built have their types.
LEMMA Blank ==
    /\ NoTask \in TaskRec /\ Fresh \in CtlRec
    /\ NoTask.pc = "none" /\ NoTask.by = "user"
    /\ MaxAttempts \in 0 .. MaxAttempts
BY WinAssumption DEF NoTask, Fresh, TaskRec, CtlRec, Pcs

\* Where a step of one coroutine leaves the record of that coroutine.
LEMMA OneTask ==
    ASSUME TaskOK, NEW t \in Tasks, NEW r \in TaskRec, task' = [task EXCEPT ![t] = r]
    PROVE  TaskOK' /\ task'[t] = r /\ \A s \in Tasks \ {t} : task'[s] = task[s]
BY DEF TaskOK

\* A coroutine that moves on changes nothing of the others.
LEMMA MoveTypes ==
    ASSUME TaskOK, NEW t \in Tasks, NEW pc \in Pcs, Move(t, pc)
    PROVE  /\ TaskOK' /\ task'[t].pc = pc /\ task'[t].by = task[t].by
           /\ \A s \in Tasks \ {t} : task'[s] = task[s]
<1>1. task[t] \in TaskRec BY DEF TaskOK
<1>2. [task[t] EXCEPT !.pc = pc] \in TaskRec BY <1>1 DEF TaskRec
<1>3. task' = [task EXCEPT ![t] = [task[t] EXCEPT !.pc = pc]] BY DEF Move, TaskOK
<1>4. /\ [task[t] EXCEPT !.pc = pc].pc = pc
      /\ [task[t] EXCEPT !.pc = pc].by = task[t].by
  BY <1>1 DEF TaskRec
<1> QED BY <1>2, <1>3, <1>4, OneTask

\* Stopping the engine empties the field; a proxy that is owned is switched off.
LEMMA DisconnectTypes ==
    ASSUME EngOK, ProxyOK, EngineDisconnect
    PROVE  /\ EngOK' /\ ProxyOK' /\ eng'.process = 0
           /\ ~proxy'.owned
           /\ proxy'.at \in Procs => proxy' = proxy
<1>1. EngOK' /\ eng'.process = 0 BY DEF EngOK, EngineDisconnect, CoreStop
<1>2. ProxyOK' /\ ~proxy'.owned BY DEF ProxyOK, EngineDisconnect, Release
<1>3. proxy'.at \in Procs => proxy' = proxy
  BY WinAssumption DEF ProxyOK, EngineDisconnect, Release
<1> QED BY <1>1, <1>2, <1>3
\* The records that connect() and the end of a run leave.
LEMMA GoesTypes ==
    ASSUME TaskOK, NEW t \in Tasks, NEW tk \in TaskRec, NEW c \in CtlRec, NEW u \in Uis,
           NEW pc \in {"none", "await", "config", "prepare"}, Goes(t, tk, pc, u, c)
    PROVE  /\ TaskOK' /\ ctl' \in CtlRec /\ ui' \in Uis
           /\ task'[t].pc = pc
           /\ task'[t].by = IF pc = "none" THEN "user" ELSE tk.by
           /\ \A s \in Tasks \ {t} : task'[s] = task[s]
           /\ ui' = IF pc = "prepare" THEN "connecting" ELSE u
           /\ pc = "prepare" => ctl'.run = t
           /\ pc # "prepare" => ctl'.run = c.run \/ (c.run = t /\ ctl'.run = 0)
<1>1. PICK r \in TaskRec :
         /\ task' = [task EXCEPT ![t] = r]
         /\ r.pc = pc /\ r.by = IF pc = "none" THEN "user" ELSE tk.by
  <2>1. CASE pc = "none" BY <2>1, Blank DEF Goes
  <2>2. CASE pc # "none"
    <3>1. pc \in Pcs /\ c.run \in Tasks \cup {0} BY DEF Pcs, Running, CtlRec
    <3>2. [tk EXCEPT !.pc = pc, !.left = MaxAttempts, !.prev = c.run] \in TaskRec
      BY <3>1, Blank DEF TaskRec
    <3>3. /\ [tk EXCEPT !.pc = pc, !.left = MaxAttempts, !.prev = c.run].pc = pc
          /\ [tk EXCEPT !.pc = pc, !.left = MaxAttempts, !.prev = c.run].by = tk.by
      BY DEF TaskRec
    <3> QED BY <2>2, <3>2, <3>3 DEF Goes
  <2> QED BY <2>1, <2>2
<1>2. TaskOK' /\ task'[t] = r /\ \A s \in Tasks \ {t} : task'[s] = task[s]
  BY <1>1, OneTask
<1>3. ui' = (IF pc = "prepare" THEN "connecting" ELSE u) /\ ui' \in Uis BY DEF Goes, Uis
<1>4. CASE pc = "prepare"
  <2>1. ctl' = [c EXCEPT !.cancel = FALSE, !.run = t] BY <1>4 DEF Goes
  <2>2. ctl' \in CtlRec /\ ctl'.run = t BY <2>1 DEF CtlRec
  <2> QED BY <1>1, <1>2, <1>3, <1>4, <2>2
<1>5. CASE pc = "none"
  <2>1. ctl' = Cleared(c, t) BY <1>5 DEF Goes
  <2>2. ctl' \in CtlRec BY <2>1 DEF CtlRec, Cleared
  <2>3. ctl'.run = c.run \/ (c.run = t /\ ctl'.run = 0) BY <2>1 DEF CtlRec, Cleared
  <2> QED BY <1>1, <1>2, <1>3, <1>5, <2>2, <2>3
<1>6. CASE pc \notin {"prepare", "none"}
  <2>1. ctl' = c BY <1>6 DEF Goes
  <2> QED BY <1>1, <1>2, <1>3, <1>6, <2>1
<1> QED BY <1>4, <1>5, <1>6

\* The end of a run frees its coroutine and resumes those that waited for it.
LEMMA RunOverTypes ==
    ASSUME TaskOK, ctl \in CtlRec, NEW t \in Tasks, NEW u \in Uis, RunOver(t, u)
    PROVE  /\ TaskOK' /\ ctl' \in CtlRec /\ ui' \in Uis
           /\ ui' = u
           /\ task'[t].pc = "none" /\ task'[t].by = "user"
           /\ \A s \in Tasks \ {t} :
                \/ task'[s] = task[s]
                \/ task[s].pc = "await" /\ task'[s].pc = "resume" /\ task'[s].by = task[s].by
           /\ ctl'.run = IF ctl.run = t THEN 0 ELSE ctl.run
<1>1. ASSUME NEW s \in Tasks
      PROVE  [task[s] EXCEPT !.pc = "resume"] \in TaskRec
             /\ [task[s] EXCEPT !.pc = "resume"].pc = "resume"
             /\ [task[s] EXCEPT !.pc = "resume"].by = task[s].by
  BY DEF TaskOK, TaskRec, Pcs
<1>2. TaskOK' BY <1>1, Blank DEF RunOver, TaskOK
<1>3. task'[t] = NoTask BY DEF RunOver
<1>4. \A s \in Tasks \ {t} :
        \/ task'[s] = task[s]
        \/ task[s].pc = "await" /\ task'[s].pc = "resume" /\ task'[s].by = task[s].by
  BY <1>1 DEF RunOver
<1>5. ctl' \in CtlRec BY DEF RunOver, Cleared, CtlRec
<1>6. ctl'.run = IF ctl.run = t THEN 0 ELSE ctl.run BY DEF RunOver, Cleared, CtlRec
<1>7. ui' = u BY DEF RunOver
<1> QED BY <1>2, <1>3, <1>4, <1>5, <1>6, <1>7, Blank

-----------------------------------------------------------------------------
(* The shapes of a step.                                                   *)

\* No core is added behind the proxy, and none comes into the field.
NothingNew ==
    /\ proxy'.at \in Procs => proxy'.at = proxy.at /\ proxy'.owned = proxy.owned
    /\ eng'.process # 0 => eng'.process = eng.process
    /\ crash' = crash /\ pref' = pref

\* The core is out of the field and no owned proxy points at one.
Dropped == eng'.process = 0 /\ ~(proxy'.owned /\ proxy'.at \in Procs)

Others(t) == \A s \in Tasks \ {t} : task'[s] = task[s]

\* Coroutine t has the microtask queue for itself.
Alone(t) == ui # "closed" /\ (Settled \/ task[t].pc \in Immediate \ {"resume"})

\* connect() is called, or goes on behind a wait.
Land(t) ==
    /\ ui # "closed"
    /\ Settled \/ task[t].pc \in {"resume", "closing"}
    /\ task[t].pc \in {"none", "resume", "config", "closing"}
    /\ task'[t].pc \in {"none", "await", "config", "prepare"} /\ task'[t].by # "late"
    /\ Others(t)
    /\ NothingNew
    /\ ui' \in {"connecting", "disconnected", ui}
    /\ task'[t].pc = "prepare" => ui' = "connecting"
    /\ task[t].pc = "resume" => ui' \in {"connecting", ui}
    /\ ~pref.auto =>
         /\ Dropped \/ ui # "connected" \/ ui' = ui
         /\ task'[t].pc # "config"
         /\ task'[t].pc = "prepare" => ctl.run = 0 /\ ctl'.run = t
         /\ task'[t].pc # "prepare" => ctl'.run = ctl.run \/ (ctl.run = t /\ ctl'.run = 0)

\* A run is over.
Over(t) ==
    /\ Alone(t)
    /\ InRun(t) /\ task[t].pc # "own"
    /\ task[t].pc \in {"api", "verify", "exit"} => ui' = "connected"
    /\ ui' \in {"connected", "disconnected"}
    /\ task'[t].pc = "none" /\ task'[t].by = "user"
    /\ \A s \in Tasks \ {t} :
         \/ task'[s] = task[s]
         \/ task[s].pc = "await" /\ task'[s].pc = "resume" /\ task'[s].by = task[s].by
    /\ ctl'.run = IF ctl.run = t THEN 0 ELSE ctl.run
    /\ NothingNew

\* The engine is disconnected from inside a run; a late attempt may end or be left.
Drop(t) ==
    /\ Alone(t)
    /\ task[t].pc \in Running \ {"own"}
    /\ task'[t].pc \in {"ending", "failed", "ports", "none"}
    /\ task'[t].pc # "none" => task[t].by # "late" /\ task'[t].by = task[t].by
    /\ task'[t].pc = "none" => task'[t].by = "user"
    /\ \A s \in Tasks \ {t} :
         \/ task'[s] = task[s]
         \/ task[s].pc = "none" /\ task'[s].pc \in {"ports", "spawn"} /\ task'[s].by = "late"
    /\ ui' = ui /\ ctl' = ctl
    /\ NothingNew
    /\ Dropped \/ (task'[t].pc = "none" /\ task[t].pc = "spawn")

\* An attempt goes one step further.
Advance(t) ==
    /\ Alone(t)
    /\ task[t].pc \in {"ports", "spawn", "api", "verify", "own"}
    /\ task'[t].pc \in {"spawn", "api", "verify", "own", "exit"}
    /\ task[t].pc \in {"api", "verify", "own"} => task'[t].pc \in {"verify", "own", "exit"}
    /\ task'[t].by = task[t].by
    /\ task'[t].by = "late" => task'[t].pc \in {"spawn", "api"}
    /\ Others(t)
    /\ ui' = ui /\ ctl' = ctl /\ pref' = pref
    /\ eng'.process # 0 => eng'.process = eng.process \/ task'[t].pc = "api"
    /\ proxy'.at \in Procs =>
         \/ task[t].pc # "own" /\ proxy'.at = proxy.at /\ proxy'.owned = proxy.owned /\ crash' = crash
         \/ task'[t].pc = "own"
         \/ task'[t].pc = "exit" /\ proxy'.owned

\* disconnect() begins.
Close(t) ==
    /\ Settled
    /\ task[t].pc = "none" /\ task'[t].pc = "closing" /\ task'[t].by # "late"
    /\ Others(t)
    /\ ui' = "disconnecting" /\ ctl'.run = ctl.run
    /\ NothingNew /\ Dropped

\* The app is gone.
Leave ==
    /\ ui' = "closed" /\ pref' = pref
    /\ \A t \in Tasks : task'[t] = NoTask
    /\ eng'.process = 0 /\ ctl'.run = 0
    /\ proxy'.owned = proxy'.disk
    /\ proxy'.at \in Procs => proxy'.owned \/ crash'.torn

\* No coroutine moves.
Aside ==
    /\ task' = task /\ ctl'.run = ctl.run
    /\ NothingNew
    /\ ui' # "closed"
    /\ \/ ui' = ui
       \/ ui' = "disconnected" /\ Settled /\ Dropped
       \/ ui' = "disconnected" /\ ui = "closed" /\ ~(proxy'.owned /\ proxy'.at \in Procs)

Shaped ==
    \/ Leave \/ Aside
    \/ \E t \in Tasks : Land(t) \/ Over(t) \/ Drop(t) \/ Advance(t) \/ Close(t)

-----------------------------------------------------------------------------
(* Every shape keeps the invariant.                                        *)

\* Every shape of a step keeps the microtask queue and the proxy accounted for.
LEMMA ShapesKeepQueue ==
    ASSUME TypeOK, Queue, Shaped
    PROVE  Queue'
<1>1. LateEarly'
  <2>1. CASE Leave BY <2>1, Blank DEF Leave, LateEarly
  <2>2. CASE Aside BY <2>2 DEF Queue, Aside, LateEarly
  <2>3. ASSUME NEW t \in Tasks, Land(t) \/ Over(t) \/ Drop(t) \/ Advance(t) \/ Close(t)
        PROVE  LateEarly'
    <3>1. CASE Land(t) BY <3>1 DEF Queue, Land, Others, LateEarly
    <3>2. CASE Over(t) BY <3>2 DEF Queue, Over, LateEarly
    <3>3. CASE Drop(t) BY <3>3 DEF Queue, Drop, LateEarly
    <3>4. CASE Advance(t) BY <3>4 DEF Queue, Advance, Others, LateEarly
    <3>5. CASE Close(t) BY <3>5 DEF Queue, Close, Others, LateEarly
    <3> QED BY <2>3, <3>1, <3>2, <3>3, <3>4, <3>5
  <2> QED BY <2>1, <2>2, <2>3 DEF Shaped
<1>2. OneImmediate'
  <2>1. CASE Leave BY <2>1, Blank DEF Leave, OneImmediate, Immediate
  <2>2. CASE Aside BY <2>2 DEF Queue, Aside, OneImmediate
  <2>3. ASSUME NEW t \in Tasks, Land(t) \/ Over(t) \/ Drop(t) \/ Advance(t) \/ Close(t)
        PROVE  OneImmediate'
    <3>1. CASE Land(t) BY <3>1 DEF Queue, Land, Others, OneImmediate, Immediate
    <3>2. CASE Over(t)
      <4>1. \A s \in Tasks \ {t} : task[s].pc \notin Immediate
        BY <3>2 DEF Queue, Over, Alone, Settled, OneImmediate
      <4>2. \A s \in Tasks : task'[s].pc \notin Immediate \ {"resume"}
        BY <3>2, <4>1 DEF Over, Immediate
      <4> QED BY <4>2 DEF OneImmediate
    <3>3. CASE Drop(t)
      <4>1. \A s \in Tasks \ {t} : task[s].pc \notin Immediate
        BY <3>3 DEF Queue, Drop, Alone, Settled, OneImmediate
      <4>2. \A s \in Tasks \ {t} : task'[s].pc \notin Immediate
        BY <3>3, <4>1 DEF Drop, Immediate
      <4> QED BY <4>2 DEF OneImmediate
    <3>4. CASE Advance(t)
      <4>1. \A s \in Tasks \ {t} : task[s].pc \notin Immediate
        BY <3>4 DEF Queue, Advance, Alone, Settled, OneImmediate
      <4>2. \A s \in Tasks \ {t} : task'[s].pc \notin Immediate
        BY <3>4, <4>1 DEF Advance, Others
      <4> QED BY <4>2 DEF OneImmediate
    <3>5. CASE Close(t)
      <4>1. \A s \in Tasks \ {t} : task'[s].pc \notin Immediate
        BY <3>5 DEF Close, Settled, Others
      <4> QED BY <4>1 DEF OneImmediate
    <3> QED BY <2>3, <3>1, <3>2, <3>3, <3>4, <3>5
  <2> QED BY <2>1, <2>2, <2>3 DEF Shaped
<1>3. ClosingShows'
  <2>1. CASE Leave BY <2>1, Blank DEF Leave, ClosingShows
  <2>2. CASE Aside
    <3>1. ui' = ui \/ \A s \in Tasks : task[s].pc # "closing"
      BY <2>2 DEF Aside, Settled, Immediate, Queue, ClosedMeansGone
    <3> QED BY <2>2, <3>1 DEF Queue, Aside, ClosingShows
  <2>3. ASSUME NEW t \in Tasks, Land(t) \/ Over(t) \/ Drop(t) \/ Advance(t) \/ Close(t)
        PROVE  ClosingShows'
    <3>1. CASE Land(t)
      <4>1. \A s \in Tasks \ {t} : task[s].pc # "closing"
        BY <3>1 DEF Queue, Land, Settled, OneImmediate, Immediate
      <4> QED BY <3>1, <4>1 DEF Land, Others, ClosingShows
    <3>2. CASE Over(t)
      <4>1. \A s \in Tasks \ {t} : task[s].pc # "closing"
        BY <3>2 DEF Queue, Over, Alone, Settled, OneImmediate, Immediate
      <4> QED BY <3>2, <4>1 DEF Over, ClosingShows
    <3>3. CASE Drop(t) BY <3>3 DEF Queue, Drop, ClosingShows
    <3>4. CASE Advance(t) BY <3>4 DEF Queue, Advance, Others, ClosingShows
    <3>5. CASE Close(t) BY <3>5 DEF Close, ClosingShows
    <3> QED BY <2>3, <3>1, <3>2, <3>3, <3>4, <3>5
  <2> QED BY <2>1, <2>2, <2>3 DEF Shaped
<1>4. ClosedMeansGone'
  <2>1. CASE Leave BY <2>1, Blank DEF Leave, ClosedMeansGone
  <2>2. CASE Aside BY <2>2 DEF Aside, ClosedMeansGone
  <2>3. ASSUME NEW t \in Tasks, Land(t) \/ Over(t) \/ Drop(t) \/ Advance(t) \/ Close(t)
        PROVE  ui' # "closed"
    BY <2>3 DEF Land, Over, Drop, Advance, Close, Alone, Settled, Written
  <2> QED BY <2>1, <2>2, <2>3 DEF Shaped, ClosedMeansGone
<1>5. ProxyAccounted'
  <2>1. CASE Leave BY <2>1 DEF Leave, ProxyAccounted
  <2>2. CASE Aside BY <2>2 DEF Queue, Aside, NothingNew, ProxyAccounted
  <2>3. ASSUME NEW t \in Tasks, Land(t) \/ Over(t) \/ Drop(t) \/ Advance(t) \/ Close(t)
        PROVE  ProxyAccounted'
    <3>1. CASE Land(t) BY <3>1 DEF Queue, Land, Others, NothingNew, ProxyAccounted
    <3>2. CASE Over(t) BY <3>2 DEF Queue, Over, NothingNew, ProxyAccounted
    <3>3. CASE Drop(t) BY <3>3 DEF Queue, Drop, NothingNew, ProxyAccounted
    <3>4. CASE Advance(t) BY <3>4 DEF Queue, Advance, Others, ProxyAccounted
    <3>5. CASE Close(t) BY <3>5 DEF Queue, Close, Others, NothingNew, ProxyAccounted
    <3> QED BY <2>3, <3>1, <3>2, <3>3, <3>4, <3>5
  <2> QED BY <2>1, <2>2, <2>3 DEF Shaped
<1> QED BY <1>1, <1>2, <1>3, <1>4, <1>5 DEF Queue

\* A coroutine that is resumed was in the queue before, or its run is just over.
LEMMA ShapesKeepSerial ==
    ASSUME TypeOK, Queue, Serial, Shaped, ~pref'.auto
    PROVE  /\ NoConfig' /\ RunIsCurrent' /\ ResumeIsSafe' /\ NotYetConnected'
           /\ CoreAccounted' /\ OwnedAccounted'
<1> DEFINE S == /\ NoConfig' /\ RunIsCurrent' /\ ResumeIsSafe' /\ NotYetConnected'
                /\ CoreAccounted' /\ OwnedAccounted'
<1>p. pref' = pref
  BY DEF Shaped, Leave, Aside, Land, Over, Drop, Advance, Close, NothingNew
<1>s. NoConfig /\ RunIsCurrent /\ ResumeIsSafe /\ NotYetConnected /\ CoreAccounted /\ OwnedAccounted
  BY <1>p DEF Serial
<1>z. 0 \notin Tasks BY WinAssumption
<1>1. CASE Leave
  <2>1. \A s \in Tasks : task'[s].pc = "none" BY <1>1, Blank DEF Leave
  <2> QED BY <1>1, <2>1 DEF Leave, NoConfig, RunIsCurrent, ResumeIsSafe, NotYetConnected, InRun,
                            Running, CoreAccounted, OwnedAccounted
<1>2. CASE Aside
  <2>1. NoConfig' /\ RunIsCurrent' BY <1>2, <1>s DEF Aside, NoConfig, RunIsCurrent, InRun
  <2>2. ui' = ui \/ \A s \in Tasks : task[s].pc # "resume"
    BY <1>2 DEF Aside, Settled, Immediate, Queue, ClosedMeansGone
  <2>3. ResumeIsSafe' BY <1>2, <1>s, <2>2 DEF Aside, ResumeIsSafe
  <2>4. NotYetConnected' BY <1>2, <1>s DEF Aside, NotYetConnected, InRun
  <2>5. CoreAccounted'
    BY <1>2, <1>s DEF Aside, NothingNew, Dropped, CoreAccounted, Queue, ClosedMeansGone
  <2>6. OwnedAccounted'
    BY <1>2, <1>s DEF Aside, NothingNew, Dropped, OwnedAccounted, Queue, ClosedMeansGone
  <2> QED BY <2>1, <2>3, <2>4, <2>5, <2>6
<1>3. ASSUME NEW t \in Tasks, Land(t) PROVE S
  <2>a. ~pref.auto BY <1>p
  <2>1. NoConfig' BY <1>3, <1>s, <2>a DEF Land, Others, NoConfig
  <2>2. ASSUME NEW s \in Tasks, task'[s].pc \in Running, task'[s].by # "late"
        PROVE  ctl'.run = s /\ ui' # "connected"
    <3>1. CASE s = t BY <1>3, <2>2, <2>a, <3>1 DEF Land, Running
    <3>2. CASE s # t
      <4>1. task'[s] = task[s] /\ InRun(s) BY <1>3, <2>2, <3>2 DEF Land, Others, InRun
      <4>2. ctl.run = s /\ ui # "connected"
        BY <4>1, <1>s DEF RunIsCurrent, NotYetConnected
      <4> QED BY <1>3, <1>z, <2>a, <3>2, <4>2 DEF Land
    <3> QED BY <3>1, <3>2
  <2>3. RunIsCurrent' /\ NotYetConnected' BY <2>2 DEF RunIsCurrent, NotYetConnected, InRun
  <2>4. ResumeIsSafe'
    <3>1. SUFFICES ASSUME NEW s \in Tasks, task'[s].pc = "resume"
                   PROVE  ctl'.run = 0 \/ ui' # "disconnected"
      BY DEF ResumeIsSafe
    <3>2. s # t /\ task[s].pc = "resume" BY <1>3, <3>1 DEF Land, Others
    <3>3. task[t].pc = "resume"
      BY <1>3, <3>2 DEF Land, Settled, Immediate, Queue, OneImmediate
    <3>4. ctl.run = 0 \/ ui # "disconnected" BY <3>2, <1>s DEF ResumeIsSafe
    <3> QED BY <1>3, <2>a, <3>3, <3>4 DEF Land
  <2>5. CoreAccounted'
    BY <1>3, <1>s, <2>a DEF Land, Others, NothingNew, Dropped, CoreAccounted
  <2>6. OwnedAccounted'
    BY <1>3, <1>s, <2>a DEF Land, Others, NothingNew, Dropped, OwnedAccounted
  <2> QED BY <2>1, <2>3, <2>4, <2>5, <2>6
<1>4. ASSUME NEW t \in Tasks, Over(t) PROVE S
  <2>1. ctl.run = t /\ ui # "connected" /\ ctl'.run = 0
    BY <1>4, <1>s DEF Over, RunIsCurrent, NotYetConnected
  <2>2. NoConfig' BY <1>4, <1>s DEF Over, NoConfig
  <2>3. \A s \in Tasks : ~(task'[s].pc \in Running /\ task'[s].by # "late")
    BY <1>4, <1>s, <2>1 DEF Over, RunIsCurrent, InRun, Running
  <2>4. RunIsCurrent' /\ NotYetConnected' BY <2>3 DEF RunIsCurrent, NotYetConnected, InRun
  <2>5. ResumeIsSafe' BY <2>1 DEF ResumeIsSafe
  <2>6. CoreAccounted' BY <1>4, <1>s, <2>1 DEF Over, NothingNew, CoreAccounted
  <2>7. OwnedAccounted'
    BY <1>4, <1>s, <2>1 DEF Over, Alone, NothingNew, OwnedAccounted
  <2> QED BY <2>2, <2>4, <2>5, <2>6, <2>7
<1>5. ASSUME NEW t \in Tasks, Drop(t) PROVE S
  <2>1. NoConfig' BY <1>5, <1>s DEF Drop, NoConfig
  <2>2. RunIsCurrent' /\ NotYetConnected'
    BY <1>5, <1>s DEF Drop, RunIsCurrent, NotYetConnected, InRun, Running
  <2>3. ResumeIsSafe' BY <1>5, <1>s DEF Drop, ResumeIsSafe
  <2>4. CoreAccounted' BY <1>5, <1>s DEF Drop, NothingNew, Dropped, CoreAccounted
  <2>5. OwnedAccounted' BY <1>5, <1>s DEF Drop, NothingNew, Dropped, OwnedAccounted
  <2> QED BY <2>1, <2>2, <2>3, <2>4, <2>5
<1>6. ASSUME NEW t \in Tasks, Advance(t) PROVE S
  <2>1. NoConfig' BY <1>6, <1>s DEF Advance, Others, NoConfig
  <2>2. RunIsCurrent' /\ NotYetConnected'
    BY <1>6, <1>s DEF Advance, Others, RunIsCurrent, NotYetConnected, InRun, Running
  <2>3. ResumeIsSafe' BY <1>6, <1>s DEF Advance, Others, ResumeIsSafe
  <2>4. CoreAccounted' BY <1>6, <1>s DEF Advance, Others, CoreAccounted
  <2>5. OwnedAccounted' BY <1>6, <1>s DEF Advance, Others, OwnedAccounted
  <2> QED BY <2>1, <2>2, <2>3, <2>4, <2>5
<1>7. ASSUME NEW t \in Tasks, Close(t) PROVE S
  <2>1. NoConfig' BY <1>7, <1>s DEF Close, Others, NoConfig
  <2>2. RunIsCurrent' /\ NotYetConnected'
    BY <1>7, <1>s DEF Close, Others, RunIsCurrent, NotYetConnected, InRun, Running
  <2>3. ResumeIsSafe' BY <1>7 DEF Close, ResumeIsSafe
  <2>4. CoreAccounted' /\ OwnedAccounted'
    BY <1>7 DEF Close, Dropped, CoreAccounted, OwnedAccounted
  <2> QED BY <2>1, <2>2, <2>3, <2>4
<1> QED BY <1>1, <1>2, <1>3, <1>4, <1>5, <1>6, <1>7 DEF Shaped

-----------------------------------------------------------------------------
(* Every action has one of the shapes, and keeps the types.                *)

\* _releaseProxy gives up ownership, and with it a proxy that points at a core.
LEMMA ReleaseTypes ==
    ASSUME ProxyOK, proxy' = Release
    PROVE  ProxyOK' /\ ~proxy'.owned /\ (proxy'.at \in Procs => proxy' = proxy)
<1>1. ProxyOK' /\ ~proxy'.owned BY DEF ProxyOK, Release
<1>2. proxy'.at \in Procs => proxy' = proxy BY WinAssumption DEF ProxyOK, Release
<1> QED BY <1>1, <1>2

\* Where connect() lands: a run is started only from a disconnected client, and
\* only when the caller sees no other.
LEMMA LandingLands ==
    ASSUME NEW u, NEW c, NEW manual
    PROVE  /\ Landing(u, c, manual) \in {"none", "await", "config", "prepare"}
           /\ Landing(u, c, manual) \in {"config", "prepare"} => u = "disconnected" /\ c.run = 0
           /\ ~pref.auto => Landing(u, c, manual) # "config"
           /\ c.run = 0 => Landing(u, c, manual) # "await"
BY DEF Landing

\* A caller of connect() goes on after the run it waited for.
LEMMA ResumeShape ==
    ASSUME TypeOK, Queue, Serial, NEW t \in Tasks, Resume(t)
    PROVE  TypeOK' /\ Land(t)
<1>t. SessionOK /\ EngOK /\ ProxyOK /\ CrashOK BY TypeParts
<1> DEFINE c == [ctl EXCEPT !.run = 0]
           pc == Landing(ui, c, task[t].manual)
<1>1. task[t].pc = "resume" /\ ui # "closed" BY DEF Resume, At, Immediate, Written
<1>2. task[t] \in TaskRec /\ ctl \in CtlRec /\ ui \in Uis /\ TaskOK BY <1>t DEF SessionOK, TaskOK
<1>3. pc \in {"none", "await", "config", "prepare"} /\ Goes(t, task[t], pc, ui, ctl)
  BY LandingLands DEF Resume
<1>4. /\ pc \in {"config", "prepare"} => ui = "disconnected"
      /\ ~pref.auto => pc # "config"
  BY LandingLands
<1> HIDE DEF pc
<1>5. /\ TaskOK' /\ ctl' \in CtlRec /\ ui' \in Uis
      /\ task'[t].pc = pc
      /\ task'[t].by = IF pc = "none" THEN "user" ELSE task[t].by
      /\ Others(t)
      /\ ui' = IF pc = "prepare" THEN "connecting" ELSE ui
      /\ pc = "prepare" => ctl'.run = t
      /\ pc # "prepare" => ctl'.run = ctl.run \/ (ctl.run = t /\ ctl'.run = 0)
  BY <1>2, <1>3, GoesTypes DEF Others
<1>6. UNCHANGED <<pref, eng, proxy, crash>> BY DEF Resume
<1>7. TypeOK'
  BY <1>t, <1>5, <1>6, TypePartsNext DEF SessionOK, EngOK, ProxyOK, CrashOK
<1>8. ~pref.auto /\ pc = "prepare" => ctl.run = 0
  BY <1>1, <1>4 DEF Serial, ResumeIsSafe
<1>9. task[t].by # "late" BY <1>1 DEF Queue, LateEarly
<1>10. NothingNew BY <1>6 DEF NothingNew
<1> QED BY <1>1, <1>3, <1>4, <1>5, <1>7, <1>8, <1>9, <1>10 DEF Land

\* connect() goes on with the remote configuration.
LEMMA ConfigReadShape ==
    ASSUME TypeOK, Queue, Serial, NEW t \in Tasks, ConfigRead(t)
    PROVE  TypeOK' /\ Land(t)
<1>t. SessionOK /\ EngOK /\ ProxyOK /\ CrashOK BY TypeParts
<1>1. task[t].pc = "config" /\ Settled /\ ui # "closed"
  BY DEF ConfigRead, At, Immediate, Settled, Written
<1>2. task[t] \in TaskRec /\ ctl \in CtlRec /\ ui \in Uis /\ TaskOK BY <1>t DEF SessionOK, TaskOK
<1>3. /\ TaskOK' /\ ctl' \in CtlRec /\ ui' \in Uis
      /\ task'[t].pc = "prepare" /\ task'[t].by = task[t].by
      /\ Others(t) /\ ui' = "connecting" /\ ctl'.run = t
  BY <1>2, GoesTypes DEF ConfigRead, Others
<1>4. UNCHANGED <<pref, eng, proxy, crash>> BY DEF ConfigRead
<1>5. TypeOK'
  BY <1>t, <1>3, <1>4, TypePartsNext DEF SessionOK, EngOK, ProxyOK, CrashOK
<1>6. pref.auto BY <1>1 DEF Serial, NoConfig
<1>7. task[t].by # "late" BY <1>1 DEF Queue, LateEarly
<1>8. NothingNew BY <1>4 DEF NothingNew
<1> QED BY <1>1, <1>3, <1>5, <1>6, <1>7, <1>8 DEF Land

\* A call of connect() by a coroutine that is new or has just closed the tunnel.
LEMMA CallShape ==
    ASSUME TypeOK, NEW t \in Tasks, NEW tk \in TaskRec, NEW c \in CtlRec, NEW u \in Uis,
           NEW pc \in {"none", "await", "config", "prepare"}, Goes(t, tk, pc, u, c),
           EngOK', ProxyOK', NothingNew, ui # "closed",
           task[t].pc \in {"none", "closing"}, Settled \/ task[t].pc = "closing",
           tk.by # "late", c.run = ctl.run, u \in {ui, "disconnected"},
           pc \in {"config", "prepare"} => u = "disconnected" /\ c.run = 0,
           ~pref.auto => pc # "config",
           u = ui \/ ui # "connected" \/ Dropped
    PROVE  TypeOK' /\ Land(t)
<1>t. SessionOK /\ EngOK /\ ProxyOK /\ CrashOK BY TypeParts
<1>1. TaskOK BY <1>t DEF SessionOK
<1>2. /\ TaskOK' /\ ctl' \in CtlRec /\ ui' \in Uis
      /\ task'[t].pc = pc
      /\ task'[t].by = IF pc = "none" THEN "user" ELSE tk.by
      /\ Others(t)
      /\ ui' = IF pc = "prepare" THEN "connecting" ELSE u
      /\ pc = "prepare" => ctl'.run = t
      /\ pc # "prepare" => ctl'.run = c.run \/ (c.run = t /\ ctl'.run = 0)
  BY <1>1, GoesTypes DEF Others
<1>3. pref' = pref /\ crash' = crash BY DEF NothingNew
<1>4. TypeOK' BY <1>t, <1>2, <1>3, TypePartsNext DEF SessionOK, CrashOK
<1>5. Dropped \/ ui # "connected" \/ ui' = ui
  BY <1>2
<1> QED BY <1>2, <1>4, <1>5 DEF Land

\* disconnect() begins, whoever calls it.
LEMMA CloseShape ==
    ASSUME TypeOK, NEW t \in Tasks, NEW r \in TaskRec, Settled, Free(t), EngineDisconnect,
           r.pc = "closing", r.by # "late", task' = [task EXCEPT ![t] = r],
           ui' = "disconnecting", ctl' \in CtlRec, ctl'.run = ctl.run,
           UNCHANGED <<pref, crash>>
    PROVE  TypeOK' /\ Close(t)
<1>t. SessionOK /\ EngOK /\ ProxyOK /\ CrashOK BY TypeParts
<1>1. TaskOK' /\ task'[t] = r /\ Others(t) BY <1>t, OneTask DEF SessionOK, Others
<1>2. /\ EngOK' /\ ProxyOK' /\ eng'.process = 0 /\ ~proxy'.owned
      /\ proxy'.at \in Procs => proxy' = proxy
  BY <1>t, DisconnectTypes
<1>3. TypeOK' BY <1>t, <1>1, <1>2, TypePartsNext DEF SessionOK, CrashOK, Uis
<1>4. NothingNew /\ Dropped BY <1>2 DEF NothingNew, Dropped
<1> QED BY <1>1, <1>3, <1>4 DEF Close, Free

\* connect() is called: a new run, a wait, or a disconnect first.
LEMMA ConnectShape ==
    ASSUME TypeOK, NEW t \in Tasks, NEW manual \in BOOLEAN, Connect(t, manual)
    PROVE  TypeOK' /\ (Land(t) \/ Close(t))
<1>t. SessionOK /\ EngOK /\ ProxyOK /\ CrashOK BY TypeParts
<1> DEFINE tk == [NoTask EXCEPT !.manual = manual]
<1>0. Settled /\ Free(t) /\ ui # "closed" /\ UNCHANGED <<pref, crash>>
  BY DEF Connect, Settled, Written
<1>1. tk \in TaskRec /\ tk.by = "user" BY Blank DEF TaskRec
<1>2. ctl \in CtlRec /\ ui \in Uis BY <1>t DEF SessionOK
<1>3. CASE manual /\ ui = "connected"
  <2> DEFINE r == [tk EXCEPT !.pc = "closing"]
  <2>1. r \in TaskRec /\ r.pc = "closing" /\ r.by = "user" BY <1>1 DEF TaskRec, Pcs
  <2>2. /\ ui' = "disconnecting" /\ EngineDisconnect
        /\ ctl' = [ctl EXCEPT !.stopping = TRUE]
        /\ task' = [task EXCEPT ![t] = r]
    BY <1>3 DEF Connect
  <2>3. ctl' \in CtlRec /\ ctl'.run = ctl.run BY <1>2, <2>2 DEF CtlRec
  <2> HIDE DEF r
  <2> QED BY <1>0, <2>1, <2>2, <2>3, CloseShape
<1>4. CASE ~(manual /\ ui = "connected")
  <2> DEFINE pc == Landing(ui, ctl, manual)
  <2>1. Goes(t, tk, pc, ui, ctl) /\ UNCHANGED <<eng, proxy>> BY <1>4 DEF Connect
  <2>2. /\ pc \in {"none", "await", "config", "prepare"}
        /\ pc \in {"config", "prepare"} => ui = "disconnected" /\ ctl.run = 0
        /\ ~pref.auto => pc # "config"
    BY LandingLands
  <2>3. NothingNew /\ EngOK' /\ ProxyOK' BY <1>0, <1>t, <2>1 DEF NothingNew, EngOK, ProxyOK
  <2>4. task[t].pc = "none" BY <1>0 DEF Free
  <2> HIDE DEF pc, tk
  <2> QED BY <1>0, <1>1, <1>2, <2>1, <2>2, <2>3, <2>4, CallShape
<1> QED BY <1>3, <1>4

\* disconnect() empties the engine before it waits.
LEMMA DisconnectShape ==
    ASSUME TypeOK, NEW t \in Tasks, NEW by \in {"user", "exit"}, Disconnect(t, by)
    PROVE  TypeOK' /\ Close(t)
<1>1. ctl \in CtlRec BY TypeParts DEF SessionOK
<1> DEFINE r == [NoTask EXCEPT !.pc = "closing", !.by = by]
<1>2. r \in TaskRec /\ r.pc = "closing" /\ r.by = by BY Blank DEF TaskRec, Pcs
<1>3. /\ Settled /\ Free(t) /\ EngineDisconnect /\ UNCHANGED <<pref, crash>>
      /\ ui' = "disconnecting" /\ task' = [task EXCEPT ![t] = r]
      /\ ctl' = [ctl EXCEPT !.stopping = TRUE]
  BY DEF Disconnect
<1>4. ctl' \in CtlRec /\ ctl'.run = ctl.run BY <1>1, <1>3 DEF CtlRec
<1> HIDE DEF r
<1> QED BY <1>2, <1>3, <1>4, CloseShape

\* The app is gone: nothing is left but the proxy and its flag.
LEMMA GoneTypes ==
    ASSUME SessionOK, EngOK, pref' = pref, Gone
    PROVE  /\ SessionOK' /\ EngOK'
           /\ ui' = "closed" /\ eng'.process = 0 /\ ctl'.run = 0
           /\ \A t \in Tasks : task'[t] = NoTask
<1>1. TaskOK' /\ \A t \in Tasks : task'[t] = NoTask BY Blank DEF Gone, TaskOK
<1>2. ctl' = Fresh /\ ui' = "closed" BY DEF Gone
<1>3. ctl'.run = 0 BY <1>2 DEF Fresh
<1>4. EngOK' /\ eng'.process = 0 BY DEF Gone, EngOK
<1> QED BY <1>1, <1>2, <1>3, <1>4, Blank DEF SessionOK, Uis

\* disconnect() ends, and with it the app if the window is closing.
LEMMA ClosedShape ==
    ASSUME TypeOK, Queue, NEW t \in Tasks, Closed(t)
    PROVE  TypeOK' /\ (Land(t) \/ Leave)
<1>t. SessionOK /\ EngOK /\ ProxyOK /\ CrashOK BY TypeParts
<1> DEFINE c == [ctl EXCEPT !.stopping = FALSE]
           pc == IF task[t].manual \/ task[t].by # "user"
                 THEN Landing("disconnected", c, task[t].manual) ELSE "none"
<1>1. task[t].pc = "closing" /\ Written /\ UNCHANGED <<pref, proxy, crash>>
  BY DEF Closed, At, Immediate
<1>2. task[t].by # "late" /\ ui = "disconnecting" BY <1>1 DEF Queue, LateEarly, ClosingShows
<1>3. ctl \in CtlRec /\ task[t] \in TaskRec BY <1>t DEF SessionOK, TaskOK
<1>4. CASE task[t].by = "exit"
  <2>1. Gone BY <1>4 DEF Closed
  <2>2. /\ SessionOK' /\ EngOK'
        /\ ui' = "closed" /\ eng'.process = 0 /\ ctl'.run = 0
        /\ \A s \in Tasks : task'[s] = NoTask
    BY <1>t, <1>1, <2>1, GoneTypes
  <2>3. TypeOK' BY <1>t, <1>1, <2>2, TypePartsNext DEF ProxyOK, CrashOK
  <2>4. proxy.at \in Procs => proxy.owned \/ crash.torn
    BY <1>1 DEF Queue, ProxyAccounted, OneImmediate, Immediate
  <2>5. proxy'.owned = proxy'.disk BY <1>1, <1>t DEF Written, ProxyOK
  <2>6. proxy'.at \in Procs => proxy'.owned \/ crash'.torn BY <1>1, <2>4
  <2> QED BY <1>1, <2>2, <2>3, <2>5, <2>6 DEF Leave
<1>5. CASE task[t].by # "exit"
  <2>1. c \in CtlRec /\ c.run = ctl.run BY <1>3 DEF CtlRec
  <2>2. Goes(t, task[t], pc, "disconnected", c) /\ UNCHANGED eng BY <1>5 DEF Closed
  <2>3. /\ pc \in {"none", "await", "config", "prepare"}
        /\ pc \in {"config", "prepare"} => c.run = 0
        /\ ~pref.auto => pc # "config"
    BY LandingLands
  <2>4. NothingNew /\ EngOK' /\ ProxyOK' BY <1>1, <1>t, <2>2 DEF NothingNew, EngOK, ProxyOK
  <2>5. "disconnected" \in Uis BY DEF Uis
  <2> HIDE DEF pc, c
  <2> QED BY <1>1, <1>2, <1>3, <2>1, <2>2, <2>3, <2>4, <2>5, CallShape
<1> QED BY <1>4, <1>5

\* A core that exits is noticed, or was nobody's.
LEMMA CoreExitsShape ==
    ASSUME TypeOK, NEW p \in Procs, CoreExits(p)
    PROVE  TypeOK' /\ (Aside \/ \E t \in Tasks : Land(t))
<1>t. SessionOK /\ EngOK /\ ProxyOK /\ CrashOK BY TypeParts
<1>1. Settled /\ ui # "closed" /\ UNCHANGED <<pref, crash>> BY DEF CoreExits, Settled, Written
<1>2. /\ EngOK'
      /\ eng'.process # 0 => eng'.process = eng.process
      /\ eng.process = p => eng'.process = 0
  BY <1>t DEF CoreExits, EngOK
<1>3. /\ ProxyOK'
      /\ proxy'.at \in Procs => proxy' = proxy
      /\ eng.process = p => ~(proxy'.owned /\ proxy'.at \in Procs)
  <2>1. CASE eng.process # p
    <3>1. proxy' = proxy BY <2>1 DEF CoreExits
    <3> QED BY <1>t, <2>1, <3>1 DEF ProxyOK
  <2>2. CASE eng.process = p /\ pref.kill
    <3>1. proxy' = [proxy EXCEPT !.at = "dead"] BY <2>2 DEF CoreExits
    <3>2. ProxyOK' BY <1>t, <3>1 DEF ProxyOK
    <3>3. proxy'.at \notin Procs BY <1>t, <3>1, WinAssumption DEF ProxyOK
    <3> QED BY <3>2, <3>3
  <2>3. CASE eng.process = p /\ ~pref.kill
    <3>1. proxy' = Release BY <2>3 DEF CoreExits
    <3> QED BY <1>t, <3>1, ReleaseTypes
  <2> QED BY <2>1, <2>2, <2>3
<1>4. NothingNew BY <1>1, <1>2, <1>3 DEF NothingNew
<1>5. CASE eng.process = p /\ ui = "connected" /\ ~ctl.stopping /\ pref.reconnect /\ ~ctl.switching
  <2>1. PICK t \in Tasks : Free(t) /\ SwitchAway(t) BY <1>5 DEF CoreExits
  <2> DEFINE c == [ctl EXCEPT !.switching = TRUE]
             tk == [NoTask EXCEPT !.by = "switch"]
             pc == Landing("disconnected", c, FALSE)
  <2>2. c \in CtlRec /\ c.run = ctl.run BY <1>t DEF SessionOK, CtlRec
  <2>3. tk \in TaskRec /\ tk.by = "switch" BY Blank DEF TaskRec
  <2>4. Goes(t, tk, pc, "disconnected", c) BY <2>1 DEF SwitchAway
  <2>5. /\ pc \in {"none", "await", "config", "prepare"}
        /\ pc \in {"config", "prepare"} => c.run = 0
        /\ ~pref.auto => pc # "config"
    BY LandingLands
  <2>6. "disconnected" \in Uis /\ task[t].pc = "none" BY <2>1 DEF Uis, Free
  <2>7. Dropped BY <1>2, <1>3, <1>5 DEF Dropped
  <2> HIDE DEF pc, c, tk
  <2>8. TypeOK' /\ Land(t)
    BY <1>1, <1>2, <1>3, <1>4, <2>2, <2>3, <2>4, <2>5, <2>6, <2>7, CallShape
  <2> QED BY <2>8
<1>6. CASE ~(eng.process = p /\ ui = "connected" /\ ~ctl.stopping /\ pref.reconnect /\ ~ctl.switching)
  <2>1. /\ UNCHANGED <<ctl, task>>
        /\ ui' = ui \/ (eng.process = p /\ ui' = "disconnected")
    BY <1>6 DEF CoreExits
  <2>2. TypeOK'
    BY <1>t, <1>1, <1>2, <1>3, <2>1, TypePartsNext DEF SessionOK, TaskOK, CrashOK, Uis
  <2>3. eng.process = p => Dropped BY <1>2, <1>3 DEF Dropped
  <2>4. Aside BY <1>1, <1>4, <2>1, <2>3 DEF Aside
  <2> QED BY <2>2, <2>4
<1> QED BY <1>5, <1>6

\* The watchdog gives the server up and may reconnect.
LEMMA GiveServerUpShape ==
    ASSUME TypeOK, NEW t \in Tasks, GiveServerUp(t)
    PROVE  TypeOK' /\ (Aside \/ Land(t) \/ Close(t))
<1>t. SessionOK /\ EngOK /\ ProxyOK /\ CrashOK BY TypeParts
<1> DEFINE c == [ctl EXCEPT !.watch = "switching", !.switching = TRUE]
<1>1. Settled /\ Free(t) /\ ui # "closed" /\ UNCHANGED <<pref, crash>>
  BY DEF GiveServerUp, Settled, Written
<1>2. ctl \in CtlRec /\ ui \in Uis BY <1>t DEF SessionOK
<1>3. c \in CtlRec /\ c.run = ctl.run BY <1>2 DEF CtlRec
<1>4. CASE ctl' = [ctl EXCEPT !.watch = "idle"] /\ UNCHANGED <<ui, task, eng, proxy>>
  <2>1. ctl' \in CtlRec /\ ctl'.run = ctl.run BY <1>2, <1>4 DEF CtlRec
  <2>2. TypeOK'
    BY <1>t, <1>1, <1>4, <2>1, TypePartsNext
       DEF SessionOK, TaskOK, EngOK, ProxyOK, CrashOK
  <2>3. Aside BY <1>1, <1>4, <2>1 DEF Aside, NothingNew
  <2> QED BY <2>2, <2>3
<1>5. CASE /\ ui = "disconnected" /\ UNCHANGED <<eng, proxy>>
           /\ Goes(t, [NoTask EXCEPT !.by = "watch"], Landing(ui, c, FALSE), ui, c)
  <2> DEFINE tk == [NoTask EXCEPT !.by = "watch"]
             pc == Landing(ui, c, FALSE)
  <2>1. tk \in TaskRec /\ tk.by = "watch" BY Blank DEF TaskRec
  <2> HIDE DEF c
  <2>2. /\ pc \in {"none", "await", "config", "prepare"}
        /\ pc \in {"config", "prepare"} => c.run = 0
        /\ ~pref.auto => pc # "config"
    BY LandingLands
  <2>3. NothingNew /\ EngOK' /\ ProxyOK' BY <1>1, <1>t, <1>5 DEF NothingNew, EngOK, ProxyOK
  <2>4. Goes(t, tk, pc, ui, c) /\ task[t].pc = "none" BY <1>1, <1>5 DEF Free
  <2> HIDE DEF pc, tk
  <2> QED BY <1>1, <1>2, <1>3, <1>5, <2>1, <2>2, <2>3, <2>4, CallShape
<1>6. CASE /\ ctl' = [c EXCEPT !.stopping = TRUE] /\ ui' = "disconnecting"
           /\ task' = [task EXCEPT ![t] = [NoTask EXCEPT !.pc = "closing", !.by = "watch"]]
           /\ EngineDisconnect
  <2> DEFINE r == [NoTask EXCEPT !.pc = "closing", !.by = "watch"]
  <2>1. r \in TaskRec /\ r.pc = "closing" /\ r.by = "watch" BY Blank DEF TaskRec, Pcs
  <2>2. ctl' \in CtlRec /\ ctl'.run = ctl.run BY <1>3, <1>6 DEF CtlRec
  <2>3. task' = [task EXCEPT ![t] = r] BY <1>6
  <2> HIDE DEF r
  <2> QED BY <1>1, <1>6, <2>1, <2>2, <2>3, CloseShape
<1> QED BY <1>4, <1>5, <1>6 DEF GiveServerUp

\* The steps that move no coroutine.
LEMMA AsideShape ==
    ASSUME TypeOK, Queue, Flush \/ Cancel \/ HealthFails \/ Failover \/ Launch
    PROVE  TypeOK' /\ Aside
<1>t. SessionOK /\ EngOK /\ ProxyOK /\ CrashOK BY TypeParts
<1>1. CASE Flush
  <2>1. /\ ui # "closed" /\ UNCHANGED <<pref, ui, ctl, task, eng, crash>>
        /\ ProxyOK' /\ proxy'.at = proxy.at /\ proxy'.owned = proxy.owned
    BY <1>t, <1>1 DEF Flush, ProxyOK
  <2>2. TypeOK' BY <1>t, <2>1, TypePartsNext DEF SessionOK, TaskOK, EngOK, CrashOK
  <2> QED BY <2>1, <2>2 DEF Aside, NothingNew
<1>2. CASE Cancel
  <2>1. /\ ctl' \in CtlRec /\ ctl'.run = ctl.run
        /\ Settled /\ ui' = "disconnected" /\ UNCHANGED <<pref, task, crash>>
    BY <1>t, <1>2 DEF Cancel, SessionOK, CtlRec
  <2>2. /\ EngOK' /\ ProxyOK' /\ eng'.process = 0 /\ ~proxy'.owned
        /\ proxy'.at \in Procs => proxy' = proxy
    BY <1>t, <1>2, DisconnectTypes DEF Cancel
  <2>3. TypeOK' BY <1>t, <2>1, <2>2, TypePartsNext DEF SessionOK, TaskOK, CrashOK, Uis
  <2>4. NothingNew /\ Dropped BY <2>1, <2>2 DEF NothingNew, Dropped
  <2> QED BY <2>1, <2>3, <2>4 DEF Aside
<1>3. CASE HealthFails \/ Failover
  <2>1. /\ ctl' \in CtlRec /\ ctl'.run = ctl.run
        /\ Settled /\ UNCHANGED <<pref, ui, task, eng, proxy, crash>>
    BY <1>t, <1>3 DEF HealthFails, Failover, SessionOK, CtlRec
  <2>2. TypeOK'
    BY <1>t, <2>1, TypePartsNext DEF SessionOK, TaskOK, EngOK, ProxyOK, CrashOK
  <2> QED BY <2>1, <2>2 DEF Aside, NothingNew, Settled, Written
<1>4. CASE Launch
  <2>1. ui = "closed" /\ ui' = "disconnected" /\ UNCHANGED <<pref, ctl, task, eng, crash>>
    BY <1>4 DEF Launch
  <2>2. ProxyOK' /\ ~proxy'.owned /\ (proxy'.at \in Procs => proxy' = proxy)
    BY <1>t, <1>4, ReleaseTypes DEF Launch
  <2>3. TypeOK' BY <1>t, <2>1, <2>2, TypePartsNext DEF SessionOK, TaskOK, EngOK, CrashOK, Uis
  <2> QED BY <2>1, <2>2, <2>3 DEF Aside, NothingNew
<1> QED BY <1>1, <1>2, <1>3, <1>4

\* The app ends, by itself or by a crash.
LEMMA LeaveShape ==
    ASSUME TypeOK, Queue, Exit \/ Crash
    PROVE  TypeOK' /\ Leave
<1>t. SessionOK /\ EngOK /\ ProxyOK /\ CrashOK BY TypeParts
<1>1. pref' = pref /\ Gone BY DEF Exit, Crash
<1>2. /\ SessionOK' /\ EngOK'
      /\ ui' = "closed" /\ eng'.process = 0 /\ ctl'.run = 0
      /\ \A t \in Tasks : task'[t] = NoTask
  BY <1>t, <1>1, GoneTypes
<1>3. CASE Exit
  <2>1. UNCHANGED <<proxy, crash>> /\ Settled BY <1>3 DEF Exit
  <2>2. proxy.at \in Procs => proxy.owned \/ crash.torn
    BY <2>1 DEF Settled, Immediate, Queue, ProxyAccounted
  <2>3. TypeOK' BY <1>t, <1>2, <2>1, TypePartsNext DEF ProxyOK, CrashOK
  <2> QED BY <1>1, <1>2, <2>1, <2>2, <2>3 DEF Leave, Settled, Written
<1>4. CASE Crash
  <2>1. /\ ProxyOK' /\ proxy'.at = proxy.at
        /\ proxy'.owned = proxy.disk /\ proxy'.disk = proxy.disk
    BY <1>t, <1>4 DEF Crash, ProxyOK
  <2>2. crash' = [n |-> crash.n + 1, torn |-> crash.torn \/ (proxy.at \in Procs /\ ~proxy.disk)]
        /\ crash.n < MaxCrashes
    BY <1>4 DEF Crash
  <2>3. crash.n + 1 \in 0 .. MaxCrashes BY <1>t, <2>2, WinAssumption DEF CrashOK
  <2>4. crash'.torn = (crash.torn \/ (proxy.at \in Procs /\ ~proxy.disk)) BY <2>2
  <2>5. (crash.torn \/ (proxy.at \in Procs /\ ~proxy.disk)) \in BOOLEAN BY Zenon
  <2>6. CrashOK' BY <2>2, <2>3, <2>5 DEF CrashOK
  <2>7. TypeOK' BY <1>2, <2>1, <2>6, TypePartsNext
  <2>8. proxy'.at \in Procs => proxy'.owned \/ crash'.torn BY <2>1, <2>4
  <2> QED BY <1>1, <1>2, <2>1, <2>7, <2>8 DEF Leave
<1> QED BY <1>3, <1>4

\* A run ends: the callers that wait for it are resumed.
LEMMA OverShape ==
    ASSUME TypeOK, Queue, NEW t \in Tasks, NEW u \in {"connected", "disconnected"},
           RunOver(t, u), UNCHANGED <<pref, eng, proxy, crash>>,
           \/ task[t].pc \in {"prepare", "exit"} /\ Settled
           \/ task[t].pc \in {"failed", "ending"} /\ Written,
           task[t].pc = "exit" => u = "connected"
    PROVE  TypeOK' /\ Over(t)
<1>t. SessionOK /\ EngOK /\ ProxyOK /\ CrashOK BY TypeParts
<1>1. /\ TaskOK' /\ ctl' \in CtlRec /\ ui' \in Uis /\ ui' = u
      /\ task'[t].pc = "none" /\ task'[t].by = "user"
      /\ \A s \in Tasks \ {t} :
           \/ task'[s] = task[s]
           \/ task[s].pc = "await" /\ task'[s].pc = "resume" /\ task'[s].by = task[s].by
      /\ ctl'.run = IF ctl.run = t THEN 0 ELSE ctl.run
  BY <1>t, RunOverTypes DEF SessionOK, Uis
<1>2. TypeOK' BY <1>t, <1>1, TypePartsNext DEF SessionOK, EngOK, ProxyOK, CrashOK
<1>3. InRun(t) BY DEF InRun, Running, Queue, LateEarly
<1>4. Alone(t) BY DEF Alone, Settled, Written, Immediate
<1>5. NothingNew BY DEF NothingNew
<1> QED BY <1>1, <1>2, <1>3, <1>4, <1>5 DEF Over

\* The engine is disconnected and the coroutine goes on, or a late attempt is over.
LEMMA DropShape ==
    ASSUME TypeOK, NEW t \in Tasks, NEW r \in TaskRec, task' = [task EXCEPT ![t] = r],
           EngineDisconnect, UNCHANGED <<pref, ui, ctl, crash>>, Alone(t),
           task[t].pc \in Running \ {"own"},
           r.pc \in {"ending", "failed", "ports", "none"},
           r.pc # "none" => task[t].by # "late" /\ r.by = task[t].by,
           r.pc = "none" => r.by = "user"
    PROVE  TypeOK' /\ Drop(t)
<1>t. SessionOK /\ EngOK /\ ProxyOK /\ CrashOK BY TypeParts
<1>1. TaskOK' /\ task'[t] = r /\ \A s \in Tasks \ {t} : task'[s] = task[s]
  BY <1>t, OneTask DEF SessionOK
<1>2. /\ EngOK' /\ ProxyOK' /\ eng'.process = 0 /\ ~proxy'.owned
      /\ proxy'.at \in Procs => proxy' = proxy
  BY <1>t, DisconnectTypes
<1>3. TypeOK' BY <1>t, <1>1, <1>2, TypePartsNext DEF SessionOK, CrashOK
<1>4. NothingNew /\ Dropped BY <1>2 DEF NothingNew, Dropped
<1> QED BY <1>1, <1>3, <1>4 DEF Drop

\* A run that was cancelled is on its way to its end.
LEMMA AbandonShape ==
    ASSUME TypeOK, NEW t \in Tasks, Abandon(t), Alone(t), task[t].by # "late",
           task[t].pc \in Running \ {"own"}
    PROVE  TypeOK' /\ Drop(t)
<1>1. task[t] \in TaskRec /\ TaskOK BY TypeParts DEF SessionOK, TaskOK
<1> DEFINE r == [task[t] EXCEPT !.pc = "ending"]
<1>2. r \in TaskRec /\ r.pc = "ending" /\ r.by = task[t].by BY <1>1 DEF TaskRec, Pcs, Running
<1>3. /\ task' = [task EXCEPT ![t] = r] /\ EngineDisconnect
      /\ UNCHANGED <<pref, ui, ctl, crash>>
  BY <1>1 DEF Abandon, Move, TaskOK
<1> HIDE DEF r
<1> QED BY <1>2, <1>3, DropShape

\* The next attempt of a run, or its end for want of one.
LEMMA AttemptShape ==
    ASSUME TypeOK, Queue, NEW t \in Tasks, Attempt(t)
    PROVE  TypeOK' /\ (Drop(t) \/ Over(t))
<1>1. task[t] \in TaskRec /\ TaskOK BY TypeParts DEF SessionOK, TaskOK
<1>2. \/ task[t].pc = "prepare" /\ Settled
      \/ task[t].pc = "failed" /\ Written
  BY DEF Attempt, At, Immediate
<1>3. /\ Alone(t) /\ task[t].by # "late" /\ task[t].pc \in Running \ {"own"}
  BY <1>2 DEF Alone, Settled, Written, Immediate, Queue, LateEarly, Running
<1>4. CASE ctl.cancel BY <1>3, <1>4, AbandonShape DEF Attempt
<1>5. CASE ~ctl.cancel /\ task[t].left > 0
  <2> DEFINE r == [task[t] EXCEPT !.pc = "ports", !.left = @ - 1, !.proc = 0]
  <2>1. /\ EngineDisconnect /\ UNCHANGED <<pref, ui, ctl, crash>>
        /\ task' = [task EXCEPT ![t].pc = "ports", ![t].left = @ - 1, ![t].proc = 0]
    BY <1>5 DEF Attempt, NextAttempt
  <2>2. task' = [task EXCEPT ![t] = r] BY <1>1, <2>1 DEF TaskOK, TaskRec
  <2>3. task[t].left - 1 \in 0 .. MaxAttempts BY <1>1, <1>5, WinAssumption DEF TaskRec
  <2>4. r \in TaskRec /\ r.pc = "ports" /\ r.by = task[t].by
    BY <1>1, <2>3 DEF TaskRec, Pcs, Running
  <2> HIDE DEF r
  <2> QED BY <1>3, <2>1, <2>2, <2>4, DropShape
<1>6. CASE ~ctl.cancel /\ ~(task[t].left > 0)
  <2>1. RunOver(t, "disconnected") /\ UNCHANGED <<pref, eng, proxy, crash>>
    BY <1>6 DEF Attempt, NextAttempt
  <2> QED BY <1>2, <2>1, OverShape
<1> QED BY <1>4, <1>5, <1>6

\* A run without candidates ends.
LEMMA NothingToTryShape ==
    ASSUME TypeOK, Queue, NEW t \in Tasks, NothingToTry(t)
    PROVE  TypeOK' /\ Over(t)
BY OverShape DEF NothingToTry, At, Immediate

\* A run that was abandoned ends.
LEMMA EndedShape ==
    ASSUME TypeOK, Queue, NEW t \in Tasks, Ended(t)
    PROVE  TypeOK' /\ Over(t)
BY OverShape DEF Ended, At, Immediate

\* The exit check answers: the run succeeds, or was cancelled meanwhile.
LEMMA ConnectedShape ==
    ASSUME TypeOK, Queue, NEW t \in Tasks, Connected(t)
    PROVE  TypeOK' /\ (Drop(t) \/ Over(t))
<1>1. task[t].pc = "exit" /\ Settled BY DEF Connected, At, Immediate
<1>2. Alone(t) /\ task[t].by # "late" /\ task[t].pc \in Running \ {"own"}
  BY <1>1 DEF Alone, Settled, Written, Queue, LateEarly, Running
<1>3. CASE ctl.cancel /\ ~pref.smart BY <1>2, <1>3, AbandonShape DEF Connected
<1>4. CASE ~(ctl.cancel /\ ~pref.smart)
  <2>1. RunOver(t, "connected") /\ UNCHANGED <<pref, eng, proxy, crash>> BY <1>4 DEF Connected
  <2> QED BY <1>1, <2>1, OverShape
<1> QED BY <1>3, <1>4

\* An attempt that fails stops its core.
LEMMA AttemptFailsShape ==
    ASSUME TypeOK, NEW t \in Tasks, AttemptFails(t)
    PROVE  TypeOK' /\ Drop(t)
<1>1. task[t] \in TaskRec /\ TaskOK BY TypeParts DEF SessionOK, TaskOK
<1>2. task[t].pc \in {"api", "verify", "exit"} /\ Settled BY DEF AttemptFails, At, Immediate
<1>3. Alone(t) /\ task[t].pc \in Running \ {"own"}
  BY <1>2 DEF Alone, Settled, Written, Running
<1> DEFINE r == IF task[t].by = "late" THEN NoTask ELSE [task[t] EXCEPT !.pc = "failed"]
<1>4. /\ r \in TaskRec
      /\ task[t].by = "late" => r = NoTask
      /\ task[t].by # "late" => r.pc = "failed" /\ r.by = task[t].by
  BY <1>1, Blank DEF TaskRec, Pcs, Running
<1>5. /\ task' = [task EXCEPT ![t] = r] /\ EngineDisconnect
      /\ UNCHANGED <<pref, ui, ctl, crash>>
  BY <1>1 DEF AttemptFails, TaskOK
<1> HIDE DEF r
<1> QED BY <1>3, <1>4, <1>5, Blank, DropShape

\* A core that does not start leaves nothing.
LEMMA SpawnFailsShape ==
    ASSUME TypeOK, NEW t \in Tasks, SpawnFails(t)
    PROVE  TypeOK' /\ Drop(t)
<1>t. SessionOK /\ EngOK /\ ProxyOK /\ CrashOK BY TypeParts
<1>1. task[t].pc = "spawn" /\ Settled BY DEF SpawnFails, At, Immediate
<1>2. Alone(t) /\ task[t].pc \in Running \ {"own"}
  BY <1>1 DEF Alone, Settled, Written, Running
<1>3. CASE task[t].by = "late"
  <2>1. task' = [task EXCEPT ![t] = NoTask] /\ UNCHANGED <<pref, ui, ctl, eng, proxy, crash>>
    BY <1>3 DEF SpawnFails
  <2>2. TaskOK' /\ task'[t] = NoTask /\ \A s \in Tasks \ {t} : task'[s] = task[s]
    BY <1>t, <2>1, Blank, OneTask DEF SessionOK
  <2>3. TypeOK'
    BY <1>t, <2>1, <2>2, TypePartsNext DEF SessionOK, EngOK, ProxyOK, CrashOK
  <2>4. NothingNew BY <2>1 DEF NothingNew
  <2> QED BY <1>1, <1>2, <2>1, <2>2, <2>3, <2>4, Blank DEF Drop
<1>4. CASE task[t].by # "late" BY <1>2, <1>4, AbandonShape DEF SpawnFails
<1> QED BY <1>3, <1>4

\* The safety net ends an attempt and leaves its coroutine behind.
LEMMA OverrunShape ==
    ASSUME TypeOK, NEW t \in Tasks, NEW late \in Tasks, Overrun(t, late)
    PROVE  TypeOK' /\ Drop(t)
<1>t. SessionOK /\ EngOK /\ ProxyOK /\ CrashOK BY TypeParts
<1>1. task[t] \in TaskRec /\ TaskOK BY <1>t DEF SessionOK, TaskOK
<1>2. /\ task[t].pc \in {"ports", "spawn"} /\ Settled /\ task[t].by # "late"
      /\ task[late].pc = "none" /\ EngineDisconnect /\ UNCHANGED <<pref, ui, ctl, crash>>
  BY DEF Overrun, At, Immediate, Free
<1>3. t # late BY <1>2
<1> DEFINE r == [task[t] EXCEPT !.pc = "failed"]
           q == [NoTask EXCEPT !.pc = task[t].pc, !.by = "late"]
<1>4. r \in TaskRec /\ r.pc = "failed" /\ r.by = task[t].by BY <1>1 DEF TaskRec, Pcs, Running
<1>5. q \in TaskRec /\ q.pc = task[t].pc /\ q.by = "late"
  BY <1>1, Blank DEF TaskRec
<1>6. task' = [task EXCEPT ![t] = r, ![late] = q] BY <1>1, <1>3 DEF Overrun, TaskOK
<1> HIDE DEF r, q
<1>7. /\ TaskOK' /\ task'[t] = r /\ task'[late] = q
      /\ \A s \in Tasks \ {t, late} : task'[s] = task[s]
  BY <1>1, <1>3, <1>4, <1>5, <1>6 DEF TaskOK
<1>8. /\ EngOK' /\ ProxyOK' /\ eng'.process = 0 /\ ~proxy'.owned
      /\ proxy'.at \in Procs => proxy' = proxy
  BY <1>t, <1>2, DisconnectTypes
<1>9. TypeOK' BY <1>t, <1>2, <1>7, <1>8, TypePartsNext DEF SessionOK, CrashOK
<1>10. NothingNew /\ Dropped BY <1>2, <1>8 DEF NothingNew, Dropped
<1>11. Alone(t) /\ task[t].pc \in Running \ {"own"}
  BY <1>2 DEF Alone, Settled, Written, Running
<1> QED BY <1>2, <1>4, <1>5, <1>7, <1>9, <1>10, <1>11 DEF Drop

\* An attempt goes one step further.
LEMMA AdvanceShape ==
    ASSUME TypeOK, Queue, NEW t \in Tasks,
           CoreStart(t) \/ Spawned(t) \/ ApiUp(t) \/ Verified(t) \/ Own(t)
    PROVE  TypeOK' /\ Advance(t)
<1>t. SessionOK /\ EngOK /\ ProxyOK /\ CrashOK BY TypeParts
<1>1. task[t] \in TaskRec /\ TaskOK BY <1>t DEF SessionOK, TaskOK
<1>2. CASE CoreStart(t)
  <2>1. /\ task[t].pc = "ports" /\ Settled /\ Move(t, "spawn")
        /\ UNCHANGED <<pref, ui, ctl, proxy, crash>>
    BY <1>2 DEF CoreStart, At, Immediate
  <2>2. /\ TaskOK' /\ task'[t].pc = "spawn" /\ task'[t].by = task[t].by /\ Others(t)
    BY <1>1, <2>1, MoveTypes DEF Pcs, Running, Others
  <2>3. EngOK' /\ eng'.process = 0 BY <1>t, <1>2 DEF CoreStart, CoreStop, EngOK
  <2>4. TypeOK' BY <1>t, <2>1, <2>2, <2>3, TypePartsNext DEF SessionOK, ProxyOK, CrashOK
  <2>5. Alone(t) BY <2>1 DEF Alone, Settled, Written
  <2> QED BY <2>1, <2>2, <2>3, <2>4, <2>5 DEF Advance
<1>3. CASE Spawned(t)
  <2>1. task[t].pc = "spawn" /\ Settled /\ UNCHANGED <<pref, ui, ctl, proxy, crash>>
    BY <1>3 DEF Spawned, At, Immediate
  <2>2. PICK p \in Procs :
          /\ eng' = [process |-> p, alive |-> eng.alive \cup {p}]
          /\ task' = [task EXCEPT ![t].pc = "api", ![t].proc = p]
    BY <1>3 DEF Spawned
  <2> DEFINE r == [task[t] EXCEPT !.pc = "api", !.proc = p]
  <2>3. r \in TaskRec /\ r.pc = "api" /\ r.by = task[t].by BY <1>1 DEF TaskRec, Pcs, Running
  <2>4. task' = [task EXCEPT ![t] = r] BY <1>1, <2>2 DEF TaskOK
  <2> HIDE DEF r
  <2>5. TaskOK' /\ task'[t] = r /\ Others(t) BY <1>1, <2>3, <2>4, OneTask DEF Others
  <2>6. EngOK' BY <1>t, <2>2 DEF EngOK
  <2>7. TypeOK' BY <1>t, <2>1, <2>5, <2>6, TypePartsNext DEF SessionOK, ProxyOK, CrashOK
  <2>8. Alone(t) BY <2>1 DEF Alone, Settled, Written
  <2> QED BY <2>1, <2>3, <2>5, <2>7, <2>8 DEF Advance
<1>4. CASE ApiUp(t)
  <2>1. /\ task[t].pc = "api" /\ Settled /\ Move(t, "verify") /\ task[t].by # "late"
        /\ UNCHANGED <<pref, ui, ctl, eng, proxy, crash>>
    BY <1>4 DEF ApiUp, At, Immediate, Wanted
  <2>2. /\ TaskOK' /\ task'[t].pc = "verify" /\ task'[t].by = task[t].by /\ Others(t)
    BY <1>1, <2>1, MoveTypes DEF Pcs, Running, Others
  <2>3. TypeOK' BY <1>t, <2>1, <2>2, TypePartsNext DEF SessionOK, EngOK, ProxyOK, CrashOK
  <2>4. Alone(t) BY <2>1 DEF Alone, Settled, Written
  <2> QED BY <2>1, <2>2, <2>3, <2>4 DEF Advance
<1>5. CASE Verified(t)
  <2>1. /\ task[t].pc = "verify" /\ Settled /\ Move(t, "own") /\ task[t].by # "late"
        /\ task[t].proc # 0 /\ proxy' = [proxy EXCEPT !.at = task[t].proc]
        /\ UNCHANGED <<pref, ui, ctl, eng, crash>>
    BY <1>5 DEF Verified, At, Immediate
  <2>2. /\ TaskOK' /\ task'[t].pc = "own" /\ task'[t].by = task[t].by /\ Others(t)
    BY <1>1, <2>1, MoveTypes DEF Pcs, Running, Others
  <2>3. task[t].proc \in Procs BY <1>1, <2>1 DEF TaskRec
  <2>4. ProxyOK' BY <1>t, <2>1, <2>3 DEF ProxyOK
  <2>5. TypeOK' BY <1>t, <2>1, <2>2, <2>4, TypePartsNext DEF SessionOK, EngOK, CrashOK
  <2>6. Alone(t) BY <2>1 DEF Alone, Settled, Written
  <2> QED BY <2>1, <2>2, <2>5, <2>6 DEF Advance
<1>6. CASE Own(t)
  <2>1. /\ task[t].pc = "own" /\ Written /\ Move(t, "exit")
        /\ proxy' = [proxy EXCEPT !.owned = TRUE] /\ crash' = [crash EXCEPT !.torn = FALSE]
        /\ UNCHANGED <<pref, ui, ctl, eng>>
    BY <1>6 DEF Own, At, Immediate
  <2>2. /\ TaskOK' /\ task'[t].pc = "exit" /\ task'[t].by = task[t].by /\ Others(t)
    BY <1>1, <2>1, MoveTypes DEF Pcs, Running, Others
  <2>3. ProxyOK' /\ proxy'.owned /\ CrashOK' BY <1>t, <2>1 DEF ProxyOK, CrashOK
  <2>4. TypeOK' BY <1>t, <2>1, <2>2, <2>3, TypePartsNext DEF SessionOK, EngOK
  <2>5. Alone(t) BY <2>1 DEF Alone, Written, Immediate
  <2>6. task[t].by # "late" BY <2>1 DEF Queue, LateEarly
  <2> QED BY <2>1, <2>2, <2>3, <2>4, <2>5, <2>6 DEF Advance
<1> QED BY <1>2, <1>3, <1>4, <1>5, <1>6

\* Every step of the client has one of the seven shapes.
LEMMA StepShape ==
    ASSUME WinInv, Next
    PROVE  TypeOK' /\ Shaped
<1>0. TypeOK /\ Queue /\ Serial BY DEF WinInv
<1>1. CASE Flush \/ Cancel \/ HealthFails \/ Failover \/ Launch
  BY <1>0, <1>1, AsideShape DEF Shaped
<1>2. CASE Exit \/ Crash BY <1>0, <1>2, LeaveShape DEF Shaped
<1>3. ASSUME NEW p \in Procs, CoreExits(p) PROVE TypeOK' /\ Shaped
  BY <1>0, <1>3, CoreExitsShape DEF Shaped
<1>4. ASSUME NEW t \in Tasks, RunStep(t) PROVE TypeOK' /\ Shaped
  <2>1. CASE Resume(t) BY <1>0, <2>1, ResumeShape DEF Shaped
  <2>2. CASE ConfigRead(t) BY <1>0, <2>2, ConfigReadShape DEF Shaped
  <2>3. CASE Attempt(t) BY <1>0, <2>3, AttemptShape DEF Shaped
  <2>4. CASE NothingToTry(t) BY <1>0, <2>4, NothingToTryShape DEF Shaped
  <2>5. CASE CoreStart(t) \/ Spawned(t) \/ ApiUp(t) \/ Verified(t) \/ Own(t)
    BY <1>0, <2>5, AdvanceShape DEF Shaped
  <2>6. CASE SpawnFails(t) BY <1>0, <2>6, SpawnFailsShape DEF Shaped
  <2>7. CASE AttemptFails(t) BY <1>0, <2>7, AttemptFailsShape DEF Shaped
  <2>8. CASE Connected(t) BY <1>0, <2>8, ConnectedShape DEF Shaped
  <2>9. CASE Ended(t) BY <1>0, <2>9, EndedShape DEF Shaped
  <2>10. CASE Closed(t) BY <1>0, <2>10, ClosedShape DEF Shaped
  <2> QED
    BY <1>4, <2>1, <2>2, <2>3, <2>4, <2>5, <2>6, <2>7, <2>8, <2>9, <2>10 DEF RunStep
<1>5. ASSUME NEW t \in Tasks, GiveServerUp(t) PROVE TypeOK' /\ Shaped
  BY <1>0, <1>5, GiveServerUpShape DEF Shaped
<1>6. ASSUME NEW t \in Tasks, NEW manual \in BOOLEAN, Connect(t, manual) PROVE TypeOK' /\ Shaped
  BY <1>0, <1>6, ConnectShape DEF Shaped
<1>7. ASSUME NEW t \in Tasks, NEW by \in {"user", "exit"}, Disconnect(t, by)
      PROVE  TypeOK' /\ Shaped
  BY <1>0, <1>7, DisconnectShape DEF Shaped
<1>8. ASSUME NEW t \in Tasks, NEW late \in Tasks, Overrun(t, late) PROVE TypeOK' /\ Shaped
  BY <1>0, <1>8, OverrunShape DEF Shaped
<1> QED BY <1>1, <1>2, <1>3, <1>4, <1>5, <1>6, <1>7, <1>8 DEF Next

-----------------------------------------------------------------------------
(* The theorems.                                                           *)

\* A client that has just been opened.
LEMMA WinInvInit == Init => WinInv
<1> SUFFICES ASSUME Init PROVE WinInv OBVIOUS
<1>1. /\ TaskOK /\ \A t \in Tasks : task[t].pc = "none" /\ task[t].by = "user"
  BY Blank DEF Init, TaskOK
<1>2. SessionOK BY <1>1, Blank DEF Init, SessionOK, Uis
<1>3. EngOK /\ ProxyOK /\ CrashOK BY WinAssumption DEF Init, EngOK, ProxyOK, CrashOK
<1>4. TypeOK BY <1>2, <1>3, TypeParts
<1>5. proxy.at \notin Procs /\ ~proxy.owned /\ eng.process = 0 /\ ui = "disconnected"
  BY WinAssumption DEF Init
<1>6. LateEarly /\ OneImmediate /\ ClosingShows /\ ClosedMeansGone /\ ProxyAccounted
  BY <1>1, <1>5 DEF LateEarly, OneImmediate, Immediate, ClosingShows, ClosedMeansGone,
                    ProxyAccounted
<1>7. /\ NoConfig /\ RunIsCurrent /\ ResumeIsSafe /\ NotYetConnected
      /\ CoreAccounted /\ OwnedAccounted
  BY <1>1, <1>5 DEF NoConfig, RunIsCurrent, ResumeIsSafe, NotYetConnected, InRun, Running,
                    CoreAccounted, OwnedAccounted
<1> QED BY <1>4, <1>6, <1>7 DEF WinInv, Queue, Serial

\* Whatever the coroutines, the processes, the user and the crashes do, the queue
\* holds one continuation at a time, every proxy that points at a core is accounted
\* for, and outside the automatic transport _connectRun is the one run there is.
THEOREM WinInvariant == Spec => []WinInv
<1>1. WinInv /\ [Next]_vars => WinInv'
  <2>1. ASSUME WinInv, Next PROVE WinInv'
    <3>1. TypeOK' /\ Shaped BY <2>1, StepShape
    <3>2. TypeOK /\ Queue /\ Serial BY <2>1 DEF WinInv
    <3>3. Queue' BY <3>1, <3>2, ShapesKeepQueue
    <3>4. Serial' BY <3>1, <3>2, ShapesKeepSerial DEF Serial
    <3> QED BY <3>1, <3>3, <3>4 DEF WinInv
  <2>2. ASSUME WinInv, UNCHANGED vars PROVE WinInv'
    BY <2>2 DEF vars, WinInv, TypeOK, Queue, Serial, LateEarly, OneImmediate, ClosingShows,
                ClosedMeansGone, ProxyAccounted, NoConfig, RunIsCurrent, ResumeIsSafe,
                NotYetConnected, InRun, CoreAccounted, OwnedAccounted
  <2> QED BY <2>1, <2>2
<1> QED BY <1>1, WinInvInit, PTL DEF Spec

\* The Windows proxy points at a core of ours only while the flag that lets the next
\* start take it back (win_proxy_owned) is on disk or on its way there; the one
\* window left is a kill between WinSystemProxy.enable and the write.
THEOREM ProxyTakenBack == Spec => []ProxyOwned
<1>1. WinInv => ProxyOwned
  BY DEF WinInv, Queue, ProxyAccounted, ClosedMeansGone, ProxyOwned
<1> QED BY <1>1, WinInvariant, PTL

\* Outside the automatic transport two runs of _connect never overlap: a second
\* connect() waits for _connectRun and tests the state again.
THEOREM OneRun == Spec => []SingleRun
<1>1. ASSUME WinInv, ~pref.auto
      PROVE  Cardinality({t \in Tasks : task[t].pc \in Running /\ task[t].by # "late"}) <= 1
  <2> DEFINE R == {t \in Tasks : task[t].pc \in Running /\ task[t].by # "late"}
  <2>1. R \subseteq {ctl.run} BY <1>1 DEF WinInv, Serial, RunIsCurrent, InRun
  <2>2. IsFiniteSet({ctl.run}) /\ Cardinality({ctl.run}) = 1 BY FS_Singleton
  <2>3. Cardinality(R) <= Cardinality({ctl.run}) BY <2>1, <2>2, FS_Subset
  <2> QED BY <2>2, <2>3
<1>2. WinInv => SingleRun BY <1>1 DEF SingleRun
<1> QED BY <1>2, WinInvariant, PTL

\* A client at rest has no core in the field and no proxy that points at one, after
\* whatever mix of cancels, failures, late answers, drops and crashes.
THEOREM RestIsClean == Spec => []RestReleases
<1>1. ASSUME WinInv, Quiet, ~pref.auto, ~crash.torn
      PROVE  eng.process = 0 /\ proxy.at \notin Procs
  <2>1. ui = "disconnected" /\ \A t \in Tasks : task[t].pc = "none" BY <1>1 DEF Quiet, Free
  <2>2. CoreAccounted /\ OwnedAccounted /\ ProxyAccounted BY <1>1 DEF WinInv, Queue, Serial
  <2>3. eng.process = 0 BY <2>1, <2>2 DEF CoreAccounted
  <2>4. proxy.at \notin Procs BY <1>1, <2>1, <2>2 DEF OwnedAccounted, ProxyAccounted
  <2> QED BY <2>3, <2>4
<1>2. WinInv => RestReleases BY <1>1 DEF RestReleases
<1> QED BY <1>2, WinInvariant, PTL
=============================================================================
