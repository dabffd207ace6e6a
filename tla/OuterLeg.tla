------------------------------ MODULE OuterLeg ------------------------------
(***************************************************************************)
(* Psiphon over WARP: the native core of AetherCore together with the part *)
(* of android-app/.../MolidoVpnService.kt that drives it from two sides.   *)
(* The service's worker walks the outer transports (raiseOuterLeg), each   *)
(* started on a bare thread of its own and judged by polling aether_is_    *)
(* running and aether_is_ready; native sessions call the core from the     *)
(* worker itself; stopTunnel and failAndStop stop it from any thread.      *)
(* The core's steps are those of AetherCore, atomic access by access.      *)
(***************************************************************************)
EXTENDS AetherCore

CONSTANTS
    Worker,     \* the service's single worker thread: a caller and a stopper
    Main,       \* the main thread and the scheduler, which stop sessions
    Rung,       \* a rung's thread in failAndStop
    Rungs,      \* the number of transports in the ladder
    MaxStarts,  \* bound: sessions
    MaxStops    \* bound: stops from outside the chain

ASSUME ThreadsAssumption ==
    /\ Worker \in Callers
    /\ Stoppers = {Worker, Main, Rung}
    /\ Rungs \in Nat \ {0}
    /\ {MaxStarts, MaxStops} \subseteq Nat

VARIABLES
    leg,            \* the worker: where it is, rungs tried, the thread of the current one
    thread,         \* thread[t]: a "chain-outer" thread
    td,             \* td[s]: where stopper s is in stopTunnel
    committed,      \* chainOuterCommitted
    connected,      \* connected
    stopRequested,  \* stopRequested of the service
    psiphonVpnMode, \* psiphonVpnMode: the session is a chain
    queue,          \* what startTunnel has handed to the worker
    starts,         \* sessions started so far
    stops           \* and stopped from outside

service == <<td, committed, connected, stopRequested, psiphonVpnMode, queue, starts, stops>>
chainVars == <<leg, thread, service>>
allVars == <<vars, chainVars>>

Threads == Callers \ {Worker}

ChainTypeOK ==
    /\ leg \in [pc : {"free", "native", "core", "top", "prepare", "await", "probe", "commit", "rejected",
                      "stop", "grace", "cancelled", "exhausted", "failing"},
                tries : 0..Rungs, cur : Callers]
    /\ thread \in [Threads -> {"new", "spawned", "calling", "ended", "gone"}]
    /\ td \in [Stoppers -> {"none", "begun", "asked"}]
    /\ {committed, connected, stopRequested, psiphonVpnMode} \subseteq BOOLEAN
    /\ queue \in {"none", "chain", "native"}
    /\ starts \in 0..MaxStarts /\ stops \in 0..MaxStops

ChainInit ==
    /\ Init
    /\ leg = [pc |-> "free", tries |-> 0, cur |-> Worker]
    /\ thread = [t \in Threads |-> "new"]
    /\ td = [s \in Stoppers |-> "none"]
    /\ committed = FALSE /\ connected = FALSE /\ stopRequested = FALSE
    /\ psiphonVpnMode = FALSE /\ queue = "none" /\ starts = 0 /\ stops = 0

Goto(p) == leg' = [leg EXCEPT !.pc = p]

\* Timing: a thread that was started reaches the compare_exchange of the core
\* before OUTER_START_GRACE_MS is over or the user starts the next session.
Started(t) == thread[t] # "spawned" /\ pc[t] \notin {"claim", "clearStop", "clearReady", "build"}

-----------------------------------------------------------------------------
(* Sessions.                                                               *)

\* startTunnel: nothing while `connected`; else the session is queued.
StartTunnel(p) ==
    /\ ~connected /\ queue = "none" /\ starts < MaxStarts
    /\ starts' = starts + 1
    /\ \A t \in Threads : Started(t)
    /\ connected' = TRUE /\ stopRequested' = FALSE
    /\ psiphonVpnMode' = (p = "chain") /\ queue' = p
    /\ committed' = (committed /\ p # "chain")
    /\ UNCHANGED <<vars, leg, thread, td, stops>>

\* The worker takes the session; without the TUN a chain fails at once.
Begin ==
    /\ leg.pc = "free" /\ queue # "none"
    /\ queue' = "none"
    /\ \E p \in IF queue = "native" THEN {"native"} ELSE {"top", "exhausted"} :
         Goto(p)
    /\ UNCHANGED <<vars, thread, td, committed, connected, stopRequested, psiphonVpnMode, starts, stops>>

NativeEnters == leg.pc = "native" /\ StartJson(Worker) /\ Goto("core") /\ UNCHANGED <<thread, service>>

NativeReturns ==
    /\ leg.pc = "core" /\ pc[Worker] = "idle"
    /\ connected' = FALSE
    /\ Goto("free")
    /\ UNCHANGED <<vars, thread, td, committed, stopRequested, psiphonVpnMode, queue, starts, stops>>

\* stopTunnel, up to NativeCore.stop(), and failAndStop, which also clears
\* `connected` first.
StopTunnel(s) ==
    /\ td[s] = "none"
    /\ td' = [td EXCEPT ![s] = "begun"]
    /\ stopRequested' = TRUE
    /\ UNCHANGED <<vars, committed, psiphonVpnMode, queue, starts>>

FailAndStop(s) == StopTunnel(s) /\ connected' = FALSE

\* Disconnect, or Reconnect's teardown.
Disconnect ==
    /\ stops < MaxStops /\ stops' = stops + 1
    /\ StopTunnel(Main)
    /\ UNCHANGED <<leg, thread, connected>>

\* The inner leg gave up.
InnerFails ==
    /\ committed
    /\ stops < MaxStops /\ stops' = stops + 1
    /\ FailAndStop(Main)
    /\ UNCHANGED <<leg, thread>>

StopCore(s) ==
    /\ td[s] = "begun"
    /\ StopLoad(s)
    /\ td' = [td EXCEPT ![s] = "asked"]
    /\ UNCHANGED <<leg, thread, committed, connected, stopRequested, psiphonVpnMode, queue, starts, stops>>

\* The rest of stopTunnel, by the flag as it is now: it clears the chain's
\* state; a native session is left to its worker.
StopEnds(s) ==
    /\ td[s] = "asked" /\ spc[s] = "idle"
    /\ td' = [td EXCEPT ![s] = "none"]
    /\ committed' = (committed /\ ~psiphonVpnMode)
    /\ connected' = (connected /\ ~psiphonVpnMode)
    /\ psiphonVpnMode' = FALSE
    /\ UNCHANGED <<vars, leg, thread, stopRequested, queue, starts, stops>>

-----------------------------------------------------------------------------
(* raiseOuterLeg.                                                          *)

\* Mutant: the core is not asked whether it is idle.
TopUnchecked ==
    /\ leg.pc = "top"
    /\ Goto(IF leg.tries = Rungs THEN "exhausted" ELSE IF stopRequested THEN "cancelled" ELSE "prepare")
    /\ UNCHANGED <<vars, thread, service>>

\* The head of the loop: the ladder is used up, the session was stopped, or the
\* core is still busy.
Top ==
    /\ leg.pc = "top"
    /\ \/ leg.tries = Rungs /\ Goto("exhausted")
       \/ leg.tries < Rungs /\ stopRequested /\ Goto("cancelled")
       \/ leg.tries < Rungs /\ ~stopRequested /\ Goto(IF running THEN "exhausted" ELSE "prepare")
    /\ UNCHANGED <<vars, thread, service>>

\* Thread() makes a new one; which of the unused ids it gets does not matter.  A
\* rung beyond the bound that Callers sets is one that could not be prepared.
NewThreads == {t \in Threads : thread[t] = "new"}

\* NativeCore.prepare, and the rung's thread.
Prepare ==
    /\ leg.pc = "prepare"
    /\ \/ Goto("stop") /\ UNCHANGED thread
       \/ /\ NewThreads # {}
          /\ LET t == CHOOSE u \in NewThreads : TRUE IN
             /\ thread' = [thread EXCEPT ![t] = "spawned"]
             /\ leg' = [leg EXCEPT !.pc = "await", !.cur = t]
    /\ UNCHANGED <<vars, service>>

\* awaitOuterProxy: stopped; dead or out of time; ready.
Await ==
    /\ leg.pc = "await"
    /\ \/ stopRequested /\ Goto("rejected")
       \/ Started(leg.cur) /\ Goto("rejected")
       \/ ~stopRequested /\ ready /\ Goto("probe")
    /\ UNCHANGED <<vars, thread, service>>

\* outerProxyAccepts: the listener of a core's runtime may be bound by now.
Probe ==
    /\ leg.pc = "probe"
    /\ \/ Goto("await")
       \/ (\E t \in Threads : pc[t] \in RuntimeAlive) /\ Goto("commit")
    /\ UNCHANGED <<vars, thread, service>>

\* The rung carries the chain; Psiphon is started and the worker is free.
Commit ==
    /\ leg.pc = "commit"
    /\ committed' = TRUE
    /\ leg' = [leg EXCEPT !.pc = "free", !.tries = 0]
    /\ UNCHANGED <<vars, thread, td, connected, stopRequested, psiphonVpnMode, queue, starts, stops>>

Rejected ==
    /\ leg.pc = "rejected"
    /\ Goto(IF stopRequested THEN "cancelled" ELSE "stop")
    /\ UNCHANGED <<vars, thread, service>>

\* stopOuterLeg: the stop, then a wait for the core that may run out.
StopOuterLeg == leg.pc = "stop" /\ StopLoad(Worker) /\ Goto("grace") /\ UNCHANGED <<thread, service>>

NextRung ==
    /\ leg.pc = "grace" /\ spc[Worker] = "idle"
    /\ leg' = [leg EXCEPT !.pc = "top", !.tries = @ + 1]
    /\ UNCHANGED <<vars, thread, service>>

\* The catch block of startChainTunnel.
GiveUp ==
    /\ leg.pc \in {"cancelled", "exhausted"}
    /\ FailAndStop(Worker)
    /\ leg' = [leg EXCEPT !.pc = "failing", !.tries = 0]
    /\ UNCHANGED <<thread, stops>>

GivenUp ==
    /\ leg.pc = "failing" /\ td[Worker] = "none"
    /\ Goto("free")
    /\ UNCHANGED <<vars, thread, service>>

LegStep ==
    \/ Begin \/ NativeEnters \/ NativeReturns
    \/ Top \/ Prepare \/ Await \/ Probe \/ Commit \/ Rejected
    \/ StopOuterLeg \/ NextRung \/ GiveUp \/ GivenUp

-----------------------------------------------------------------------------
(* A rung's thread.                                                        *)

ThreadEnters(t) ==
    /\ thread[t] = "spawned"
    /\ StartJson(t)
    /\ thread' = [thread EXCEPT ![t] = "calling"]
    /\ UNCHANGED <<leg, service>>

\* startProxy came back: an error matters unless the session was stopped.
ThreadReturns(t) ==
    /\ thread[t] = "calling" /\ pc[t] = "idle"
    /\ thread' = [thread EXCEPT ![t] = IF code[t] # 0 /\ ~stopRequested THEN "ended" ELSE "gone"]
    /\ UNCHANGED <<vars, leg, service>>

\* Mutant: the end of a rung is always left to the ladder.
ThreadJudgesNever(t) ==
    /\ thread[t] = "ended"
    /\ thread' = [thread EXCEPT ![t] = "gone"]
    /\ UNCHANGED <<vars, leg, service>>

\* It is the chain's failure only once the rung was the accepted one.
ThreadJudges(t) ==
    /\ thread[t] = "ended"
    /\ thread' = [thread EXCEPT ![t] = "gone"]
    /\ IF committed THEN FailAndStop(Rung) /\ UNCHANGED stops ELSE UNCHANGED <<vars, service>>
    /\ UNCHANGED leg

ThreadStep(t) == ThreadEnters(t) \/ ThreadReturns(t) \/ ThreadJudges(t)

-----------------------------------------------------------------------------
CoreRuns(c) == CallerStep(c) /\ UNCHANGED chainVars
CoreStops(s) == StopperStep(s) /\ UNCHANGED chainVars
StopStep(s) == StopCore(s) \/ StopEnds(s)

ChainNext ==
    \/ \E p \in {"chain", "native"} : StartTunnel(p)
    \/ Disconnect \/ InnerFails
    \/ LegStep
    \/ \E t \in Threads : ThreadStep(t)
    \/ \E s \in Stoppers : StopStep(s) \/ CoreStops(s)
    \/ \E c \in Callers : CoreRuns(c) \/ ((TunnelEnds(c) \/ MarkReady(c)) /\ UNCHANGED chainVars)

ChainSpec == ChainInit /\ [][ChainNext]_allVars

(* The threads of the service and of the core go on; nothing is assumed of *)
(* the user, of the inner leg or of a tunnel nobody asked to stop.         *)
ChainFairSpec ==
    /\ ChainSpec
    /\ WF_allVars(LegStep)
    /\ \A t \in Threads : WF_allVars(ThreadStep(t))
    /\ \A s \in Stoppers : WF_allVars(StopStep(s)) /\ WF_allVars(CoreStops(s))
    /\ \A c \in Callers : WF_allVars(CoreRuns(c))

-----------------------------------------------------------------------------
\* A rung is judged by READY and by the port, which belong to no rung in
\* particular: while they are read no other rung's runtime may be alive, or
\* Psiphon is handed "a proxy backed by a tunnel that is being torn down"
\* (raiseOuterLeg's refusal of a busy core).
JudgesOwnRung ==
    leg.pc \in {"probe", "commit"} => \A t \in Threads \ {leg.cur} : pc[t] \notin RuntimeAlive

\* A ladder that found nothing leaves no core behind: the rung it stopped, or
\* was still stopping, lets go of RUNNING, so that the next session can start.
LadderReleasesCore == leg.pc = "exhausted" ~> ~running

\* A rung that fails under a committed chain ends the session (the thread's
\* failAndStop), however the stop requests of the service fall around it.
DropReported ==
    connected /\ psiphonVpnMode /\ committed /\ pc[leg.cur] = "dropRuntime" /\ code[leg.cur] # 0
        ~> ~connected

\* A session that was stopped while its ladder was being walked leaves no core
\* behind ("Left running it would hold the core"): it may, since a stop that
\* comes between the start of the rung's thread and its compare_exchange finds
\* nothing to stop, and the ladder leaves without another look.
CancelReleasesCore == leg.pc = "cancelled" ~> ~running
=============================================================================
