--------------------------- MODULE OuterLegProofs ---------------------------
(***************************************************************************)
(* AetherCore's safety properties, for any number of calling and stopping  *)
(* threads; the composition of OuterLeg implements AetherCore, so that the *)
(* core's safety holds under the chain and the native sessions; and a rung *)
(* is judged by its own runtime, for any number of rungs, threads,         *)
(* sessions and stops.                                                     *)
(***************************************************************************)
EXTENDS OuterLeg, TLAPS

-----------------------------------------------------------------------------
(* The core by itself.  The conjunction Inv is inductive as it stands, for *)
(* any Callers and Stoppers: ThreadsAssumption is used only further down.  *)

Inv == TypeOK /\ SingleRun /\ NoStaleReady /\ NoLostWakeup

\* The statics' initial values satisfy the invariant.
LEMMA InitInv == Init => Inv
<1> SUFFICES ASSUME Init PROVE Inv
  OBVIOUS
<1> USE DEF Init
<1>1. TypeOK
  BY DEF TypeOK
<1>2. SingleRun
  BY DEF SingleRun, Owning
<1>3. NoStaleReady
  BY DEF NoStaleReady
<1>4. NoLostWakeup
  BY DEF NoLostWakeup
<1> QED
  BY <1>1, <1>2, <1>3, <1>4 DEF Inv

\* Every step keeps the variables in their types.
LEMMA TypeStep == TypeOK /\ [Next]_vars => TypeOK'
<1> SUFFICES ASSUME TypeOK, [Next]_vars PROVE TypeOK'
  OBVIOUS
<1> USE DEF TypeOK, Owning, RuntimeAlive, runVars
<1>1. CASE UNCHANGED vars
  BY <1>1 DEF vars
<1>2. ASSUME NEW c \in Callers, StartJson(c) PROVE TypeOK'
  BY <1>2 DEF StartJson
<1>3. ASSUME NEW c \in Callers, CallerStep(c) PROVE TypeOK'
  <2>1. CASE Claim(c)
    BY <2>1 DEF Claim
  <2>2. CASE ClearStop(c)
    BY <2>2 DEF ClearStop
  <2>3. CASE ClearReady(c)
    BY <2>3 DEF ClearReady
  <2>4. CASE BuildRuntime(c)
    BY <2>4 DEF BuildRuntime
  <2>5. CASE Subscribe(c)
    BY <2>5 DEF Subscribe
  <2>6. CASE CheckStop(c)
    BY <2>6 DEF CheckStop, LeaveSelect
  <2>7. CASE Wake(c)
    BY <2>7 DEF Wake
  <2>8. CASE DropRuntime(c)
    BY <2>8 DEF DropRuntime
  <2>9. CASE DropRunning(c)
    BY <2>9 DEF DropRunning
  <2>10. CASE DropReady(c)
    BY <2>10 DEF DropReady
  <2> QED
    BY <1>3, <2>1, <2>2, <2>3, <2>4, <2>5, <2>6, <2>7, <2>8, <2>9, <2>10
    DEF CallerStep, WaitForStop
<1>4. ASSUME NEW c \in Callers, TunnelEnds(c) PROVE TypeOK'
  BY <1>4 DEF TunnelEnds, LeaveSelect
<1>5. ASSUME NEW c \in Callers, MarkReady(c) PROVE TypeOK'
  BY <1>5 DEF MarkReady
<1>6. ASSUME NEW s \in Stoppers, StopLoad(s) PROVE TypeOK'
  BY <1>6 DEF StopLoad
<1>7. ASSUME NEW s \in Stoppers, StopStore(s) PROVE TypeOK'
  BY <1>7 DEF StopStore
<1>8. ASSUME NEW s \in Stoppers, StopNotify(s) PROVE TypeOK'
  BY <1>8 DEF StopNotify, NotifyWaiters
<1> QED
  BY <1>1, <1>2, <1>3, <1>4, <1>5, <1>6, <1>7, <1>8 DEF Next, StopperStep

\* A caller enters a run only over RUNNING = FALSE, and only the owner clears it.
LEMMA SingleRunStep == TypeOK /\ SingleRun /\ [Next]_vars => SingleRun'
<1> SUFFICES ASSUME TypeOK, SingleRun, [Next]_vars PROVE SingleRun'
  OBVIOUS
<1> USE DEF SingleRun, TypeOK, Owning, RuntimeAlive, runVars
<1>1. CASE UNCHANGED vars
  BY <1>1 DEF vars
<1>2. ASSUME NEW c \in Callers, StartJson(c) PROVE SingleRun'
  BY <1>2 DEF StartJson
<1>3. ASSUME NEW c \in Callers, CallerStep(c) PROVE SingleRun'
  <2>1. CASE Claim(c)
    BY <2>1 DEF Claim
  <2>2. CASE ClearStop(c)
    BY <2>2 DEF ClearStop
  <2>3. CASE ClearReady(c)
    BY <2>3 DEF ClearReady
  <2>4. CASE BuildRuntime(c)
    BY <2>4 DEF BuildRuntime
  <2>5. CASE Subscribe(c)
    BY <2>5 DEF Subscribe
  <2>6. CASE CheckStop(c)
    BY <2>6 DEF CheckStop, LeaveSelect
  <2>7. CASE Wake(c)
    BY <2>7 DEF Wake
  <2>8. CASE DropRuntime(c)
    BY <2>8 DEF DropRuntime
  <2>9. CASE DropRunning(c)
    BY <2>9 DEF DropRunning
  <2>10. CASE DropReady(c)
    BY <2>10 DEF DropReady
  <2> QED
    BY <1>3, <2>1, <2>2, <2>3, <2>4, <2>5, <2>6, <2>7, <2>8, <2>9, <2>10
    DEF CallerStep, WaitForStop
<1>4. ASSUME NEW c \in Callers, TunnelEnds(c) PROVE SingleRun'
  BY <1>4 DEF TunnelEnds, LeaveSelect
<1>5. ASSUME NEW c \in Callers, MarkReady(c) PROVE SingleRun'
  BY <1>5 DEF MarkReady
<1>6. ASSUME NEW s \in Stoppers, StopLoad(s) PROVE SingleRun'
  BY <1>6 DEF StopLoad
<1>7. ASSUME NEW s \in Stoppers, StopStore(s) PROVE SingleRun'
  BY <1>7 DEF StopStore
<1>8. ASSUME NEW s \in Stoppers, StopNotify(s) PROVE SingleRun'
  BY <1>8 DEF StopNotify, NotifyWaiters
<1> QED
  BY <1>1, <1>2, <1>3, <1>4, <1>5, <1>6, <1>7, <1>8 DEF Next, StopperStep

\* Whoever raises READY has the guard's second store still ahead of it.
LEMMA NoStaleReadyStep == TypeOK /\ NoStaleReady /\ [Next]_vars => NoStaleReady'
<1> SUFFICES ASSUME TypeOK, NoStaleReady, [Next]_vars PROVE NoStaleReady'
  OBVIOUS
<1> USE DEF NoStaleReady, TypeOK, Owning, RuntimeAlive, runVars
<1>1. CASE UNCHANGED vars
  BY <1>1 DEF vars
<1>2. ASSUME NEW c \in Callers, StartJson(c) PROVE NoStaleReady'
  BY <1>2 DEF StartJson
<1>3. ASSUME NEW c \in Callers, CallerStep(c) PROVE NoStaleReady'
  <2>1. CASE Claim(c)
    BY <2>1 DEF Claim
  <2>2. CASE ClearStop(c)
    BY <2>2 DEF ClearStop
  <2>3. CASE ClearReady(c)
    BY <2>3 DEF ClearReady
  <2>4. CASE BuildRuntime(c)
    BY <2>4 DEF BuildRuntime
  <2>5. CASE Subscribe(c)
    BY <2>5 DEF Subscribe
  <2>6. CASE CheckStop(c)
    BY <2>6 DEF CheckStop, LeaveSelect
  <2>7. CASE Wake(c)
    BY <2>7 DEF Wake
  <2>8. CASE DropRuntime(c)
    BY <2>8 DEF DropRuntime
  <2>9. CASE DropRunning(c)
    BY <2>9 DEF DropRunning
  <2>10. CASE DropReady(c)
    BY <2>10 DEF DropReady
  <2> QED
    BY <1>3, <2>1, <2>2, <2>3, <2>4, <2>5, <2>6, <2>7, <2>8, <2>9, <2>10
    DEF CallerStep, WaitForStop
<1>4. ASSUME NEW c \in Callers, TunnelEnds(c) PROVE NoStaleReady'
  BY <1>4 DEF TunnelEnds, LeaveSelect
<1>5. ASSUME NEW c \in Callers, MarkReady(c) PROVE NoStaleReady'
  BY <1>5 DEF MarkReady
<1>6. ASSUME NEW s \in Stoppers, StopLoad(s) PROVE NoStaleReady'
  BY <1>6 DEF StopLoad
<1>7. ASSUME NEW s \in Stoppers, StopStore(s) PROVE NoStaleReady'
  BY <1>7 DEF StopStore
<1>8. ASSUME NEW s \in Stoppers, StopNotify(s) PROVE NoStaleReady'
  BY <1>8 DEF StopNotify, NotifyWaiters
<1> QED
  BY <1>1, <1>2, <1>3, <1>4, <1>5, <1>6, <1>7, <1>8 DEF Next, StopperStep

\* The Notified exists before the flag is tested, so a later notify reaches it.
LEMMA NoLostWakeupStep == TypeOK /\ NoLostWakeup /\ [Next]_vars => NoLostWakeup'
<1> SUFFICES ASSUME TypeOK, NoLostWakeup, [Next]_vars PROVE NoLostWakeup'
  OBVIOUS
<1> USE DEF NoLostWakeup, TypeOK, Owning, RuntimeAlive, runVars
<1>1. CASE UNCHANGED vars
  BY <1>1 DEF vars
<1>2. ASSUME NEW c \in Callers, StartJson(c) PROVE NoLostWakeup'
  BY <1>2 DEF StartJson
<1>3. ASSUME NEW c \in Callers, CallerStep(c) PROVE NoLostWakeup'
  <2>1. CASE Claim(c)
    BY <2>1 DEF Claim
  <2>2. CASE ClearStop(c)
    BY <2>2 DEF ClearStop
  <2>3. CASE ClearReady(c)
    BY <2>3 DEF ClearReady
  <2>4. CASE BuildRuntime(c)
    BY <2>4 DEF BuildRuntime
  <2>5. CASE Subscribe(c)
    BY <2>5 DEF Subscribe
  <2>6. CASE CheckStop(c)
    BY <2>6 DEF CheckStop, LeaveSelect
  <2>7. CASE Wake(c)
    BY <2>7 DEF Wake
  <2>8. CASE DropRuntime(c)
    BY <2>8 DEF DropRuntime
  <2>9. CASE DropRunning(c)
    BY <2>9 DEF DropRunning
  <2>10. CASE DropReady(c)
    BY <2>10 DEF DropReady
  <2> QED
    BY <1>3, <2>1, <2>2, <2>3, <2>4, <2>5, <2>6, <2>7, <2>8, <2>9, <2>10
    DEF CallerStep, WaitForStop
<1>4. ASSUME NEW c \in Callers, TunnelEnds(c) PROVE NoLostWakeup'
  BY <1>4 DEF TunnelEnds, LeaveSelect
<1>5. ASSUME NEW c \in Callers, MarkReady(c) PROVE NoLostWakeup'
  BY <1>5 DEF MarkReady
<1>6. ASSUME NEW s \in Stoppers, StopLoad(s) PROVE NoLostWakeup'
  BY <1>6 DEF StopLoad
<1>7. ASSUME NEW s \in Stoppers, StopStore(s) PROVE NoLostWakeup'
  BY <1>7 DEF StopStore
<1>8. ASSUME NEW s \in Stoppers, StopNotify(s) PROVE NoLostWakeup'
  BY <1>8 DEF StopNotify, NotifyWaiters
<1> QED
  BY <1>1, <1>2, <1>3, <1>4, <1>5, <1>6, <1>7, <1>8 DEF Next, StopperStep

\* Every atomic access of every thread keeps the invariant.
LEMMA StepInv == Inv /\ [Next]_vars => Inv'
  BY TypeStep, SingleRunStep, NoStaleReadyStep, NoLostWakeupStep DEF Inv

\* The four invariants together are inductive, so they hold for any number of
\* threads inside aether_start_json and aether_stop.
THEOREM Safety == Spec => []Inv
<1>1. Inv /\ [Next]_vars => Inv'
  BY StepInv
<1> QED
  BY InitInv, <1>1, PTL DEF Spec

\* RUNNING, READY, STOP_REQUESTED and every thread's position keep their types.
THEOREM TypeCorrect == Spec => []TypeOK
<1>1. Inv => TypeOK
  BY DEF Inv
<1> QED
  BY Safety, <1>1, PTL

\* However many threads call aether_start_json, at most one tunnel run exists,
\* and RUNNING is true exactly while one does.
THEOREM MutualExclusion == Spec => []SingleRun
<1>1. Inv => SingleRun
  BY DEF Inv
<1> QED
  BY Safety, <1>1, PTL

\* READY is down whenever no run can still take it down.
THEOREM ReadyEndsWithRun == Spec => []NoStaleReady
<1>1. Inv => NoStaleReady
  BY DEF Inv
<1> QED
  BY Safety, <1>1, PTL

\* wait_for_stop never sleeps on a raised STOP_REQUESTED that nobody is about
\* to announce.
THEOREM WakeupNotLost == Spec => []NoLostWakeup
<1>1. Inv => NoLostWakeup
  BY DEF Inv
<1> QED
  BY Safety, <1>1, PTL

-----------------------------------------------------------------------------
(* Every step of the composition is a step of the core or leaves it alone. *)

\* What the service does about the core is one of the core's own steps.
LEMMA StepRefines == [ChainNext]_allVars => [Next]_vars
<1> SUFFICES ASSUME [ChainNext]_allVars PROVE [Next]_vars
  OBVIOUS
<1>t. Worker \in Callers /\ Worker \in Stoppers /\ Main \in Stoppers /\ Rung \in Stoppers
  BY ThreadsAssumption
<1>1. CASE UNCHANGED allVars
  BY <1>1 DEF allVars
<1>2. ASSUME NEW p \in {"chain", "native"}, StartTunnel(p) PROVE UNCHANGED vars
  BY <1>2 DEF StartTunnel
<1>3. CASE Disconnect \/ InnerFails
  BY <1>3 DEF Disconnect, InnerFails, FailAndStop, StopTunnel
<1>4. CASE LegStep
  <2>1. CASE NativeEnters
    BY <1>t, <2>1 DEF NativeEnters, Next
  <2>2. CASE StopOuterLeg
    BY <1>t, <2>2 DEF StopOuterLeg, Next
  <2>3. CASE Begin \/ NativeReturns \/ Top \/ Prepare \/ Await \/ Probe \/ Commit \/ Rejected \/ NextRung
    BY <2>3 DEF Begin, NativeReturns, Top, Prepare, Await, Probe, Commit, Rejected, NextRung
  <2>4. CASE GiveUp \/ GivenUp
    BY <2>4 DEF GiveUp, GivenUp, FailAndStop, StopTunnel
  <2> QED
    BY <1>4, <2>1, <2>2, <2>3, <2>4 DEF LegStep
<1>5. ASSUME NEW t \in Threads, ThreadStep(t) PROVE [Next]_vars
  <2>1. CASE ThreadEnters(t)
    BY <2>1 DEF ThreadEnters, Threads, Next
  <2>2. CASE ThreadReturns(t)
    BY <2>2 DEF ThreadReturns
  <2>3. CASE ThreadJudges(t)
    BY <2>3 DEF ThreadJudges, FailAndStop, StopTunnel
  <2> QED
    BY <1>5, <2>1, <2>2, <2>3 DEF ThreadStep
<1>6. ASSUME NEW s \in Stoppers, StopStep(s) \/ CoreStops(s) PROVE [Next]_vars
  BY <1>6 DEF StopStep, StopCore, StopEnds, CoreStops, Next
<1>7. ASSUME NEW c \in Callers, CoreRuns(c) \/ TunnelEnds(c) \/ MarkReady(c) PROVE [Next]_vars
  BY <1>7 DEF CoreRuns, Next
<1> QED
  BY <1>1, <1>2, <1>3, <1>4, <1>5, <1>6, <1>7 DEF ChainNext

\* The service uses the core only as its C interface allows: every behaviour of
\* the composition is one of AetherCore's.
THEOREM ImplementsCore == ChainSpec => Spec
<1>1. ChainInit => Init
  BY DEF ChainInit
<1> QED
  BY <1>1, StepRefines, PTL DEF ChainSpec, Spec

\* The invariants of the core hold under every interleaving of the ladder, the
\* rungs' threads, the native sessions and the stops.
THEOREM CoreSafety == ChainSpec => []Inv
<1> QED
  BY ImplementsCore, Safety, PTL

-----------------------------------------------------------------------------
(* A rung is judged by its own runtime.                                    *)

LegPlaces ==
    {"free", "native", "core", "top", "prepare", "await", "probe", "commit", "rejected",
     "stop", "grace", "cancelled", "exhausted", "failing"}

LegOK == leg \in [pc : LegPlaces, tries : Nat, cur : Callers]

ThreadOK == thread \in [Threads -> {"new", "spawned", "calling", "ended", "gone"}]

\* A thread that is not inside startProxy is not inside the core.
Outside == \A t \in Threads : thread[t] # "calling" => pc[t] = "idle"

\* A thread that holds no run and will not take one.
Quiet(t) == thread[t] # "spawned" /\ pc[t] \in {"idle", "dropReady"}

\* From the test of RUNNING until the next rung is started no thread runs ...
QuietBefore == leg.pc = "prepare" => \A t \in Threads : Quiet(t)

\* ... and from then on only the rung that is being judged.
QuietOthers == leg.pc \in {"await", "probe", "commit"} => \A t \in Threads \ {leg.cur} : Quiet(t)

\* The ladder is only left behind a thread that was started but is not in the
\* core yet when the session was stopped, and then it cannot go on.
StartedOrStopped ==
    leg.pc \notin {"await", "probe"} => stopRequested \/ \A t \in Threads : Started(t)

LegInv == LegOK /\ ThreadOK /\ Outside /\ QuietBefore /\ QuietOthers /\ StartedOrStopped

NotYet == {"claim", "clearStop", "clearReady", "build"}

\* What a step of a run does to its caller's position: nobody else moves, an
\* idle thread does not move by itself, and the start of a run is not repeated.
LEMMA RunMoves ==
    ASSUME TypeOK, NEW c \in Callers, CallerStep(c) \/ TunnelEnds(c) \/ MarkReady(c)
    PROVE  /\ \A t \in Callers : t # c => pc'[t] = pc[t]
           /\ pc[c] # "idle"
           /\ pc[c] = "dropReady" => pc'[c] = "idle"
           /\ pc[c] \notin NotYet => pc'[c] \notin NotYet
<1> USE DEF TypeOK, NotYet
<1>1. CASE Claim(c) \/ ClearStop(c) \/ ClearReady(c) \/ BuildRuntime(c)
  BY <1>1 DEF Claim, ClearStop, ClearReady, BuildRuntime
<1>2. CASE WaitForStop(c) \/ TunnelEnds(c)
  BY <1>2 DEF WaitForStop, Subscribe, CheckStop, Wake, TunnelEnds, LeaveSelect
<1>3. CASE DropRuntime(c) \/ DropRunning(c) \/ DropReady(c)
  BY <1>3 DEF DropRuntime, DropRunning, DropReady
<1>4. CASE MarkReady(c)
  BY <1>4 DEF MarkReady, RuntimeAlive
<1> QED
  BY <1>1, <1>2, <1>3, <1>4 DEF CallerStep

\* A step of a run keeps the invariant: it can only make its thread quieter.
LEMMA RunStep ==
    ASSUME TypeOK, LegInv, NEW c \in Callers, CallerStep(c) \/ TunnelEnds(c) \/ MarkReady(c),
           UNCHANGED chainVars
    PROVE  LegInv'
<1>1. UNCHANGED <<leg, thread, stopRequested>>
  BY DEF chainVars, service
<1>2. /\ \A t \in Callers : t # c => pc'[t] = pc[t]
      /\ pc[c] # "idle"
      /\ pc[c] = "dropReady" => pc'[c] = "idle"
      /\ pc[c] \notin NotYet => pc'[c] \notin NotYet
  BY RunMoves
<1>3. \A t \in Threads : t \in Callers
  BY DEF Threads
<1>4. \A t \in Threads : Quiet(t) => Quiet(t)'
  BY <1>1, <1>2, <1>3 DEF Quiet
<1>5. \A t \in Threads : Started(t) => Started(t)'
  BY <1>1, <1>2, <1>3 DEF Started, NotYet
<1>6. LegOK' /\ ThreadOK'
  BY <1>1 DEF LegInv, LegOK, ThreadOK
<1>7. Outside'
  BY <1>1, <1>2, <1>3 DEF LegInv, Outside
<1>8. QuietBefore' /\ QuietOthers'
  BY <1>1, <1>4 DEF LegInv, QuietBefore, QuietOthers
<1>9. StartedOrStopped'
  BY <1>1, <1>5 DEF LegInv, StartedOrStopped
<1> QED
  BY <1>6, <1>7, <1>8, <1>9 DEF LegInv

\* A step that moves neither the worker nor a thread keeps the invariant,
\* unless it takes a stop back while a thread is still on its way.
LEMMA ServiceStep ==
    ASSUME LegInv, UNCHANGED <<pc, leg, thread>>,
           stopRequested' = stopRequested \/ stopRequested' = TRUE \/ \A t \in Threads : Started(t)
    PROVE  LegInv'
<1>1. \A t \in Threads : Started(t) => Started(t)'
  BY DEF Started
<1>2. StartedOrStopped'
  BY <1>1 DEF LegInv, StartedOrStopped
<1>3. LegOK' /\ ThreadOK' /\ Outside'
  BY DEF LegInv, LegOK, ThreadOK, Outside
<1>4. QuietBefore' /\ QuietOthers'
  BY DEF LegInv, QuietBefore, QuietOthers, Quiet
<1> QED
  BY <1>2, <1>3, <1>4 DEF LegInv

\* The ladder moves on: what it has to know at its new place.
LEMMA LegMoves ==
    ASSUME LegInv, UNCHANGED <<pc, thread>>, LegOK',
           stopRequested' = stopRequested \/ stopRequested' = TRUE,
           leg'.pc = "prepare" => \A t \in Threads : Quiet(t),
           leg'.pc \in {"await", "probe", "commit"} => \A t \in Threads \ {leg'.cur} : Quiet(t),
           leg'.pc \notin {"await", "probe"} => stopRequested' \/ \A t \in Threads : Started(t)
    PROVE  LegInv'
<1>1. \A t \in Threads : (Started(t) => Started(t)') /\ (Quiet(t) => Quiet(t)')
  BY DEF Started, Quiet
<1>2. ThreadOK' /\ Outside'
  BY DEF LegInv, ThreadOK, Outside
<1>3. QuietBefore' /\ QuietOthers'
  BY <1>1 DEF QuietBefore, QuietOthers
<1>4. StartedOrStopped'
  BY <1>1 DEF StartedOrStopped
<1> QED
  BY <1>2, <1>3, <1>4 DEF LegInv

\* The worker's steps, one by one.
LEMMA WorkerStep == TypeOK /\ SingleRun /\ LegInv /\ LegStep => LegInv'
<1> SUFFICES ASSUME TypeOK, SingleRun, LegInv, LegStep PROVE LegInv'
  OBVIOUS
<1>w. Worker \in Callers /\ Worker \notin Threads
  BY ThreadsAssumption DEF Threads
<1>l. LegOK
  BY DEF LegInv
<1> USE DEF Goto
<1>1. CASE Begin
  <2>1. leg.pc = "free" /\ leg'.pc \in {"native", "top", "exhausted"} /\ LegOK'
    BY <1>1, <1>l DEF Begin, LegOK, LegPlaces
  <2>2. UNCHANGED <<pc, thread, stopRequested>>
    BY <1>1 DEF Begin, vars
  <2> QED
    BY <2>1, <2>2, LegMoves DEF LegInv, StartedOrStopped
<1>2. CASE NativeEnters
  <2>1. leg.pc = "native" /\ leg'.pc = "core" /\ LegOK'
    BY <1>2, <1>l DEF NativeEnters, LegOK, LegPlaces
  <2>2. UNCHANGED <<thread, stopRequested>> /\ \A t \in Threads : pc'[t] = pc[t]
    BY <1>2, <1>w DEF NativeEnters, StartJson, TypeOK, service, Threads
  <2>3. ThreadOK' /\ Outside'
    BY <2>2 DEF LegInv, ThreadOK, Outside
  <2>4. QuietBefore' /\ QuietOthers'
    BY <2>1 DEF QuietBefore, QuietOthers
  <2>5. StartedOrStopped'
    BY <2>1, <2>2 DEF LegInv, StartedOrStopped, Started
  <2> QED
    BY <2>1, <2>3, <2>4, <2>5 DEF LegInv
<1>3. CASE NativeReturns
  <2>1. leg.pc = "core" /\ leg'.pc = "free" /\ LegOK'
    BY <1>3, <1>l DEF NativeReturns, LegOK, LegPlaces
  <2>2. UNCHANGED <<pc, thread, stopRequested>>
    BY <1>3 DEF NativeReturns, vars
  <2> QED
    BY <2>1, <2>2, LegMoves DEF LegInv, StartedOrStopped
<1>4. CASE Top
  <2>1. leg.pc = "top" /\ UNCHANGED <<pc, thread, stopRequested>>
    BY <1>4 DEF Top, vars, service
  <2>2. leg'.pc \in {"exhausted", "cancelled", "prepare"} /\ LegOK'
    BY <1>4, <1>l DEF Top, LegOK, LegPlaces
  <2>3. leg'.pc = "prepare" => ~stopRequested /\ ~running
    BY <1>4, <1>l DEF Top, LegOK
  <2>4. ASSUME leg'.pc = "prepare", NEW t \in Threads PROVE Quiet(t)
    <3>1. Started(t)
      BY <2>1, <2>3, <2>4 DEF LegInv, StartedOrStopped
    <3>2. t \in Callers /\ pc[t] \notin Owning
      BY <2>3, <2>4 DEF SingleRun, Threads
    <3> QED
      BY <3>1, <3>2 DEF Started, Quiet, TypeOK
  <2> QED
    BY <2>1, <2>2, <2>4, LegMoves DEF LegInv, StartedOrStopped
<1>5. CASE Prepare
  <2>1. leg.pc = "prepare" /\ UNCHANGED <<pc, stopRequested>> /\ \A t \in Threads : Quiet(t)
    BY <1>5 DEF Prepare, vars, service, LegInv, QuietBefore
  <2>2. CASE leg'.pc = "stop" /\ UNCHANGED thread /\ LegOK'
    <3>1. \A t \in Threads : Started(t)
      BY <2>1 DEF Quiet, Started
    <3> QED
      BY <2>1, <2>2, <3>1, LegMoves
  <2>3. ASSUME NEW t \in NewThreads, thread' = [thread EXCEPT ![t] = "spawned"],
               leg' = [leg EXCEPT !.pc = "await", !.cur = t]
        PROVE  LegInv'
    <3>1. t \in Threads /\ t \in Callers /\ thread[t] = "new"
      BY DEF NewThreads, Threads
    <3>2. leg'.pc = "await" /\ leg'.cur = t /\ LegOK'
      BY <2>3, <3>1, <1>l DEF LegOK, LegPlaces
    <3>3. ThreadOK' /\ Outside'
      BY <2>1, <2>3, <3>1 DEF LegInv, ThreadOK, Outside
    <3>4. QuietBefore' /\ QuietOthers'
      BY <2>1, <2>3, <3>2 DEF LegInv, ThreadOK, QuietBefore, QuietOthers, Quiet
    <3>5. StartedOrStopped'
      BY <3>2 DEF StartedOrStopped
    <3> QED
      BY <3>2, <3>3, <3>4, <3>5 DEF LegInv
  <2>4. (leg' = [leg EXCEPT !.pc = "stop"]) => leg'.pc = "stop" /\ LegOK'
    BY <1>l DEF LegOK, LegPlaces
  <2>5. NewThreads # {} => (CHOOSE u \in NewThreads : TRUE) \in NewThreads
    OBVIOUS
  <2> QED
    BY <1>5, <2>2, <2>3, <2>4, <2>5 DEF Prepare
<1>6. CASE Await
  <2>1. leg.pc = "await" /\ UNCHANGED <<pc, thread, stopRequested>>
    BY <1>6 DEF Await, vars, service
  <2>2. leg'.pc \in {"rejected", "probe"} /\ leg'.cur = leg.cur /\ LegOK'
    BY <1>6, <1>l DEF Await, LegOK, LegPlaces
  <2>3. \A t \in Threads \ {leg.cur} : Quiet(t)
    BY <2>1 DEF LegInv, QuietOthers
  <2>4. leg'.pc = "rejected" => stopRequested \/ Started(leg.cur)
    BY <1>6, <1>l DEF Await, LegOK
  <2>5. \A t \in Threads : Quiet(t) => Started(t)
    BY DEF Quiet, Started
  <2> QED
    BY <2>1, <2>2, <2>3, <2>4, <2>5, LegMoves
<1>7. CASE Probe
  <2>1. leg.pc = "probe" /\ UNCHANGED <<pc, thread, stopRequested>>
    BY <1>7 DEF Probe, vars, service
  <2>2. leg'.pc \in {"await", "commit"} /\ leg'.cur = leg.cur /\ LegOK'
    BY <1>7, <1>l DEF Probe, LegOK, LegPlaces
  <2>3. \A t \in Threads \ {leg.cur} : Quiet(t)
    BY <2>1 DEF LegInv, QuietOthers
  <2>4. leg'.pc = "commit" => \E t \in Threads : pc[t] \in RuntimeAlive
    BY <1>7, <1>l DEF Probe, LegOK
  <2>5. \A t \in Threads : pc[t] \in RuntimeAlive => ~Quiet(t) /\ Started(t)
    BY DEF RuntimeAlive, Quiet, Started, LegInv, Outside
  <2>6. \A t \in Threads : Quiet(t) => Started(t)
    BY DEF Quiet, Started
  <2> QED
    BY <2>1, <2>2, <2>3, <2>4, <2>5, <2>6, LegMoves
<1>8. CASE Commit
  <2>1. leg.pc = "commit" /\ leg'.pc = "free" /\ LegOK'
    BY <1>8, <1>l DEF Commit, LegOK, LegPlaces
  <2>2. UNCHANGED <<pc, thread, stopRequested>>
    BY <1>8 DEF Commit, vars
  <2> QED
    BY <2>1, <2>2, LegMoves DEF LegInv, StartedOrStopped
<1>9. CASE Rejected
  <2>1. leg.pc = "rejected" /\ leg'.pc \in {"cancelled", "stop"} /\ LegOK'
    BY <1>9, <1>l DEF Rejected, LegOK, LegPlaces
  <2>2. UNCHANGED <<pc, thread, stopRequested>>
    BY <1>9 DEF Rejected, vars, service
  <2> QED
    BY <2>1, <2>2, LegMoves DEF LegInv, StartedOrStopped
<1>10. CASE StopOuterLeg
  <2>1. leg.pc = "stop" /\ leg'.pc = "grace" /\ LegOK'
    BY <1>10, <1>l DEF StopOuterLeg, LegOK, LegPlaces
  <2>2. UNCHANGED <<pc, thread, stopRequested>>
    BY <1>10 DEF StopOuterLeg, StopLoad, service
  <2> QED
    BY <2>1, <2>2, LegMoves DEF LegInv, StartedOrStopped
<1>11. CASE NextRung
  <2>0. leg.pc = "grace" /\ leg' = [leg EXCEPT !.pc = "top", !.tries = leg.tries + 1]
    BY <1>11 DEF NextRung
  <2>a. leg.tries + 1 \in Nat
    BY <1>l DEF LegOK
  <2>1. leg.pc = "grace" /\ leg'.pc = "top" /\ LegOK'
    BY <2>0, <2>a, <1>l DEF LegOK, LegPlaces
  <2>2. UNCHANGED <<pc, thread, stopRequested>>
    BY <1>11 DEF NextRung, vars, service
  <2> QED
    BY <2>1, <2>2, LegMoves DEF LegInv, StartedOrStopped
<1>12. CASE GiveUp
  <2>1. leg'.pc = "failing" /\ LegOK'
    BY <1>12, <1>l DEF GiveUp, LegOK, LegPlaces
  <2>2. UNCHANGED <<pc, thread>> /\ stopRequested' = TRUE
    BY <1>12 DEF GiveUp, FailAndStop, StopTunnel, vars
  <2> QED
    BY <2>1, <2>2, LegMoves
<1>13. CASE GivenUp
  <2>1. leg.pc = "failing" /\ leg'.pc = "free" /\ LegOK'
    BY <1>13, <1>l DEF GivenUp, LegOK, LegPlaces
  <2>2. UNCHANGED <<pc, thread, stopRequested>>
    BY <1>13 DEF GivenUp, vars, service
  <2> QED
    BY <2>1, <2>2, LegMoves DEF LegInv, StartedOrStopped
<1> QED
  BY <1>1, <1>2, <1>3, <1>4, <1>5, <1>6, <1>7, <1>8, <1>9, <1>10, <1>11, <1>12, <1>13 DEF LegStep

\* The steps of a rung's thread: only the rung being judged is ever on its way.
LEMMA ThreadStepInv ==
    ASSUME TypeOK, LegInv, NEW t \in Threads, ThreadStep(t)
    PROVE  LegInv'
<1>c. t \in Callers /\ ThreadOK
  BY DEF Threads, LegInv
<1>1. CASE ThreadEnters(t)
  <2>1. /\ thread[t] = "spawned" /\ thread' = [thread EXCEPT ![t] = "calling"]
        /\ UNCHANGED <<leg, stopRequested>>
    BY <1>1 DEF ThreadEnters, service
  <2>2. \A u \in Threads : u # t => pc'[u] = pc[u] /\ thread'[u] = thread[u]
    BY <1>1, <2>1, <1>c DEF ThreadEnters, StartJson, TypeOK, Threads, ThreadOK
  <2>3. thread'[t] = "calling" /\ ThreadOK'
    BY <2>1, <1>c DEF ThreadOK
  <2>4. LegOK' /\ Outside'
    BY <2>1, <2>2, <2>3 DEF LegInv, LegOK, Outside
  <2>5. ~Quiet(t) /\ ~Started(t) /\ \A u \in Threads : u # t => (Quiet(u) => Quiet(u)')
    BY <2>1, <2>2 DEF Quiet, Started
  <2>6. QuietBefore'
    BY <2>1, <2>5 DEF LegInv, QuietBefore
  <2>7. QuietOthers'
    BY <2>1, <2>5 DEF LegInv, QuietOthers
  <2>8. StartedOrStopped'
    BY <2>1, <2>5 DEF LegInv, StartedOrStopped
  <2> QED
    BY <2>3, <2>4, <2>6, <2>7, <2>8 DEF LegInv
<1>2. CASE ThreadReturns(t) \/ ThreadJudges(t)
  <2>1. UNCHANGED <<leg, pc>> /\ (stopRequested' = stopRequested \/ stopRequested' = TRUE)
    BY <1>2 DEF ThreadReturns, ThreadJudges, FailAndStop, StopTunnel, vars, service
  <2>2. \E x \in {"ended", "gone"} : thread' = [thread EXCEPT ![t] = x]
    BY <1>2 DEF ThreadReturns, ThreadJudges
  <2>3. ThreadOK' /\ \A u \in Threads : thread'[u] = thread[u] \/ thread'[u] \in {"ended", "gone"}
    BY <2>2, <1>c DEF ThreadOK
  <2>4. pc[t] = "idle"
    BY <1>2 DEF ThreadReturns, ThreadJudges, LegInv, Outside
  <2>5. LegOK' /\ Outside'
    BY <2>1, <2>2, <2>4, <1>c DEF LegInv, LegOK, Outside, ThreadOK
  <2>6. \A u \in Threads : (Quiet(u) => Quiet(u)') /\ (Started(u) => Started(u)')
    BY <2>1, <2>3 DEF Quiet, Started
  <2>7. QuietBefore' /\ QuietOthers'
    BY <2>1, <2>6 DEF LegInv, QuietBefore, QuietOthers
  <2>8. StartedOrStopped'
    BY <2>1, <2>6 DEF LegInv, StartedOrStopped
  <2> QED
    BY <2>3, <2>5, <2>7, <2>8 DEF LegInv
<1> QED
  BY <1>1, <1>2 DEF ThreadStep

\* Every step keeps the invariant, given the core's.
LEMMA LegInvStep == TypeOK /\ SingleRun /\ LegInv /\ [ChainNext]_allVars => LegInv'
<1> SUFFICES ASSUME TypeOK, SingleRun, LegInv, [ChainNext]_allVars PROVE LegInv'
  OBVIOUS
<1>1. CASE UNCHANGED allVars
  BY <1>1, ServiceStep DEF allVars, vars, chainVars, service
<1>2. ASSUME NEW p \in {"chain", "native"}, StartTunnel(p) PROVE LegInv'
  BY <1>2, ServiceStep DEF StartTunnel, vars
<1>3. CASE Disconnect \/ InnerFails
  BY <1>3, ServiceStep DEF Disconnect, InnerFails, FailAndStop, StopTunnel, vars
<1>4. CASE LegStep
  BY <1>4, WorkerStep
<1>5. ASSUME NEW t \in Threads, ThreadStep(t) PROVE LegInv'
  BY <1>5, ThreadStepInv
<1>6. ASSUME NEW s \in Stoppers, StopStep(s) \/ CoreStops(s) PROVE LegInv'
  <2>1. UNCHANGED <<pc, leg, thread, stopRequested>>
    BY <1>6 DEF StopStep, StopCore, StopEnds, StopLoad, CoreStops, StopperStep, StopStore, StopNotify,
       vars, chainVars, service
  <2> QED
    BY <2>1, ServiceStep
<1>7. ASSUME NEW c \in Callers, CoreRuns(c) \/ ((TunnelEnds(c) \/ MarkReady(c)) /\ UNCHANGED chainVars)
      PROVE  LegInv'
  BY <1>7, RunStep DEF CoreRuns
<1> QED
  BY <1>1, <1>2, <1>3, <1>4, <1>5, <1>6, <1>7 DEF ChainNext

\* The ladder starts with every thread unborn.
LEMMA LegInvInit == ChainInit => LegInv
<1> SUFFICES ASSUME ChainInit PROVE LegInv
  OBVIOUS
<1> USE DEF ChainInit, Init, Threads
<1>1. LegOK /\ ThreadOK
  BY ThreadsAssumption DEF LegOK, LegPlaces, ThreadOK
<1>2. Outside /\ StartedOrStopped
  BY DEF Outside, StartedOrStopped, Started
<1>3. QuietBefore /\ QuietOthers
  BY DEF QuietBefore, QuietOthers
<1> QED
  BY <1>1, <1>2, <1>3 DEF LegInv

\* raiseOuterLeg never takes READY or the port of another rung for the one it is
\* judging, whatever sessions and stops come in between.
THEOREM RungJudgedAlone == ChainSpec => []JudgesOwnRung
<1>1. LegInv => JudgesOwnRung
  BY DEF LegInv, QuietOthers, JudgesOwnRung, Quiet, RuntimeAlive
<1>2. Inv => TypeOK /\ SingleRun
  BY DEF Inv
<1> QED
  BY <1>1, <1>2, LegInvInit, LegInvStep, CoreSafety, PTL DEF ChainSpec

=============================================================================
