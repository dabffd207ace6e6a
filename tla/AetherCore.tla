----------------------------- MODULE AetherCore -----------------------------
(***************************************************************************)
(* The lifecycle of the native tunnel behind the C interface of            *)
(* android-app/core/aether/src/ffi.rs: aether_start_json(_with_tun) blocks *)
(* its caller for the length of a tunnel run, aether_stop asks the run to  *)
(* end, and three process-wide atomics (RUNNING, READY, STOP_REQUESTED)    *)
(* and one tokio Notify are all that the callers share.  Every atomic      *)
(* access is a step of its own.                                            *)
(***************************************************************************)
EXTENDS Naturals

CONSTANTS
    Callers,    \* threads that call aether_start_json / aether_start_json_with_tun
    Stoppers    \* threads that call aether_stop

VARIABLES
    running,    \* RUNNING
    ready,      \* READY
    stopReq,    \* STOP_REQUESTED
    pc,         \* pc[c]: where caller c is in aether_start_json_inner
    waiter,     \* waiter[c]: where the run's wait_for_stop future is
    signalled,  \* signalled[c]: its current Notified has been notified
    code,       \* code[c]: 0 or an error, what aether_start_json returns or returned last
    spc         \* spc[s]: where stopper s is in aether_stop

vars == <<running, ready, stopReq, pc, waiter, signalled, code, spc>>

runVars == <<waiter, signalled>>

\* Between the compare_exchange and the guard's first store.
Owning == {"clearStop", "clearReady", "build", "select", "dropRuntime", "dropRunning"}

\* While the tokio runtime exists, so that spawned transport tasks can run.
RuntimeAlive == {"select", "dropRuntime"}

TypeOK ==
    /\ running \in BOOLEAN
    /\ ready \in BOOLEAN
    /\ stopReq \in BOOLEAN
    /\ pc \in [Callers -> Owning \cup {"idle", "claim", "dropReady"}]
    /\ waiter \in [Callers -> {"none", "subscribe", "check", "await"}]
    /\ signalled \in [Callers -> BOOLEAN]
    /\ code \in [Callers -> {0, 1}]
    /\ spc \in [Stoppers -> {"idle", "store", "notify"}]

Init ==
    /\ running = FALSE
    /\ ready = FALSE
    /\ stopReq = FALSE
    /\ pc = [c \in Callers |-> "idle"]
    /\ waiter = [c \in Callers |-> "none"]
    /\ signalled = [c \in Callers |-> FALSE]
    /\ code = [c \in Callers |-> 0]
    /\ spc = [s \in Stoppers |-> "idle"]

-----------------------------------------------------------------------------
(* aether_start_json_inner.  Code 1 stands for the codes -1, -2 and -3.    *)

\* options_from_json and the tun_fd test: -1, or on to the compare_exchange.
StartJson(c) ==
    /\ pc[c] = "idle"
    /\ \/ pc' = [pc EXCEPT ![c] = "claim"] /\ UNCHANGED code
       \/ code' = [code EXCEPT ![c] = 1] /\ UNCHANGED pc
    /\ UNCHANGED <<running, ready, stopReq, runVars, spc>>

\* Mutant: RUNNING.swap(true) with its result ignored.
ClaimBySwap(c) ==
    /\ pc[c] = "claim"
    /\ pc' = [pc EXCEPT ![c] = "clearStop"]
    /\ running' = TRUE
    /\ UNCHANGED <<ready, stopReq, code, runVars, spc>>

\* RUNNING.compare_exchange(false, true).
Claim(c) ==
    /\ pc[c] = "claim"
    /\ IF running
         THEN /\ pc' = [pc EXCEPT ![c] = "idle"]
              /\ code' = [code EXCEPT ![c] = 1]
              /\ UNCHANGED running
         ELSE /\ pc' = [pc EXCEPT ![c] = "clearStop"]
              /\ running' = TRUE
              /\ UNCHANGED code
    /\ UNCHANGED <<ready, stopReq, runVars, spc>>

ClearStop(c) ==
    /\ pc[c] = "clearStop"
    /\ stopReq' = FALSE
    /\ pc' = [pc EXCEPT ![c] = "clearReady"]
    /\ UNCHANGED <<running, ready, runVars, code, spc>>

ClearReady(c) ==
    /\ pc[c] = "clearReady"
    /\ ready' = FALSE
    /\ pc' = [pc EXCEPT ![c] = "build"]
    /\ UNCHANGED <<running, stopReq, runVars, code, spc>>

\* Building the tokio runtime may fail; the guard then drops at once.
BuildRuntime(c) ==
    /\ pc[c] = "build"
    /\ \/ /\ pc' = [pc EXCEPT ![c] = "select"]
          /\ waiter' = [waiter EXCEPT ![c] = "subscribe"]
          /\ UNCHANGED code
       \/ /\ pc' = [pc EXCEPT ![c] = "dropRunning"]
          /\ code' = [code EXCEPT ![c] = 1]
          /\ UNCHANGED waiter
    /\ UNCHANGED <<running, ready, stopReq, signalled, spc>>

\* block_on returned r, or unwound: the select's futures are dropped.
LeaveSelect(c, r) ==
    /\ pc' = [pc EXCEPT ![c] = "dropRuntime"]
    /\ waiter' = [waiter EXCEPT ![c] = "none"]
    /\ signalled' = [signalled EXCEPT ![c] = FALSE]
    /\ code' = [code EXCEPT ![c] = r]
    /\ UNCHANGED <<running, ready, stopReq, spc>>

\* crate::start came back: Ok is 0, Err is -2, a contained panic is -3.
TunnelEnds(c) ==
    /\ pc[c] = "select"
    /\ \E r \in {0, 1} : LeaveSelect(c, r)

\* wait_for_stop: `let notified = stop_notify().notified()`.
Subscribe(c) ==
    /\ pc[c] = "select"
    /\ waiter[c] = "subscribe"
    /\ waiter' = [waiter EXCEPT ![c] = "check"]
    /\ signalled' = [signalled EXCEPT ![c] = FALSE]
    /\ UNCHANGED <<running, ready, stopReq, pc, code, spc>>

\* wait_for_stop: `if STOP_REQUESTED.load() { return }`, else await.
CheckStop(c) ==
    /\ pc[c] = "select"
    /\ waiter[c] = "check"
    /\ \/ stopReq /\ LeaveSelect(c, 0)
       \/ /\ ~stopReq
          /\ waiter' = [waiter EXCEPT ![c] = "await"]
          /\ UNCHANGED <<running, ready, stopReq, pc, signalled, code, spc>>

\* wait_for_stop: `notified.await` completes and the loop goes round.
Wake(c) ==
    /\ pc[c] = "select"
    /\ waiter[c] = "await"
    /\ signalled[c]
    /\ waiter' = [waiter EXCEPT ![c] = "subscribe"]
    /\ UNCHANGED <<running, ready, stopReq, pc, signalled, code, spc>>

\* Mutant: the flag is tested first and the Notified created after the test.
WaitForStopTestFirst(c) ==
    /\ pc[c] = "select"
    /\ \/ waiter[c] = "subscribe" /\ stopReq /\ LeaveSelect(c, 0)
       \/ /\ \/ waiter[c] = "subscribe" /\ ~stopReq /\ waiter' = [waiter EXCEPT ![c] = "check"]
             \/ waiter[c] = "check" /\ waiter' = [waiter EXCEPT ![c] = "await"]
             \/ waiter[c] = "await" /\ signalled[c] /\ waiter' = [waiter EXCEPT ![c] = "subscribe"]
          /\ signalled' = [signalled EXCEPT ![c] = FALSE]
          /\ UNCHANGED <<running, ready, stopReq, pc, code, spc>>

WaitForStop(c) == Subscribe(c) \/ CheckStop(c) \/ Wake(c)

\* Mutant: the runtime is shut down in the background, its tasks outlive the run.
MarkReadyDetached(c) ==
    /\ pc[c] \in RuntimeAlive \cup {"idle"}
    /\ ready' = TRUE
    /\ UNCHANGED <<running, stopReq, pc, runVars, code, spc>>

\* A transport task of c's runtime calls mark_ready.
MarkReady(c) ==
    /\ pc[c] \in RuntimeAlive
    /\ ready' = TRUE
    /\ UNCHANGED <<running, stopReq, pc, runVars, code, spc>>

\* The runtime is dropped before the guard: its tasks are gone from here on.
DropRuntime(c) ==
    /\ pc[c] = "dropRuntime"
    /\ pc' = [pc EXCEPT ![c] = "dropRunning"]
    /\ UNCHANGED <<running, ready, stopReq, runVars, code, spc>>

\* RunningGuard::drop, first store.
DropRunning(c) ==
    /\ pc[c] = "dropRunning"
    /\ running' = FALSE
    /\ pc' = [pc EXCEPT ![c] = "dropReady"]
    /\ UNCHANGED <<ready, stopReq, runVars, code, spc>>

\* RunningGuard::drop, second store; aether_start_json returns.
DropReady(c) ==
    /\ pc[c] = "dropReady"
    /\ ready' = FALSE
    /\ pc' = [pc EXCEPT ![c] = "idle"]
    /\ UNCHANGED <<running, stopReq, runVars, code, spc>>

-----------------------------------------------------------------------------
(* aether_stop.  RUNNING is read, the flag raised and the waiters notified *)
(* in three steps.                                                         *)

StopLoad(s) ==
    /\ spc[s] = "idle"
    /\ IF running
         THEN spc' = [spc EXCEPT ![s] = "store"]
         ELSE UNCHANGED spc
    /\ UNCHANGED <<running, ready, stopReq, pc, runVars, code>>

\* Mutant: the flag is raised but notify_waiters is not called.
StopStoreSilent(s) ==
    /\ spc[s] = "store"
    /\ stopReq' = TRUE
    /\ spc' = [spc EXCEPT ![s] = "idle"]
    /\ UNCHANGED <<running, ready, pc, runVars, code>>

StopStore(s) ==
    /\ spc[s] = "store"
    /\ stopReq' = TRUE
    /\ spc' = [spc EXCEPT ![s] = "notify"]
    /\ UNCHANGED <<running, ready, pc, runVars, code>>

\* Notify::notify_waiters reaches every Notified that exists, awaited or not.
NotifyWaiters ==
    signalled' = [c \in Callers |-> signalled[c] \/ waiter[c] \in {"check", "await"}]

StopNotify(s) ==
    /\ spc[s] = "notify"
    /\ NotifyWaiters
    /\ spc' = [spc EXCEPT ![s] = "idle"]
    /\ UNCHANGED <<running, ready, stopReq, pc, waiter, code>>

-----------------------------------------------------------------------------
\* What a caller's thread does by itself once it has entered the function.
CallerStep(c) ==
    \/ Claim(c) \/ ClearStop(c) \/ ClearReady(c) \/ BuildRuntime(c)
    \/ WaitForStop(c)
    \/ DropRuntime(c) \/ DropRunning(c) \/ DropReady(c)

StopperStep(s) == StopStore(s) \/ StopNotify(s)

Next ==
    \/ \E c \in Callers : StartJson(c) \/ CallerStep(c) \/ TunnelEnds(c) \/ MarkReady(c)
    \/ \E s \in Stoppers : StopLoad(s) \/ StopperStep(s)

Spec == Init /\ [][Next]_vars

(* A thread inside either function is not suspended for ever.  Nothing is  *)
(* assumed of the tunnel (TunnelEnds, MarkReady) or of anyone calling in.  *)
FairSpec ==
    /\ Spec
    /\ \A c \in Callers : WF_vars(CallerStep(c))
    /\ \A s \in Stoppers : WF_vars(StopperStep(s))

-----------------------------------------------------------------------------
\* Two tunnel runs never overlap, and RUNNING says exactly whether there is
\* one: compare_exchange in aether_start_json_inner, RunningGuard::drop.
SingleRun ==
    /\ \A c, d \in Callers : pc[c] \in Owning /\ pc[d] \in Owning => c = d
    /\ running <=> \E c \in Callers : pc[c] \in Owning

\* READY never outlives the run that raised it: once no caller is between
\* block_on and the end of the guard's drop, aether_is_ready answers 0, even
\* though mark_ready is called by tasks nobody joins explicitly.
NoStaleReady ==
    ready => \E c \in Callers : pc[c] \in RuntimeAlive \cup {"dropRunning", "dropReady"}

\* wait_for_stop cannot sleep through a stop: if the flag is up and the run is
\* parked on a Notified nobody notified, some aether_stop is still to notify.
NoLostWakeup ==
    \A c \in Callers :
        stopReq /\ waiter[c] = "await" /\ ~signalled[c]
            => \E s \in Stoppers : spc[s] = "notify"

\* A stop request that reaches a run in its select ends the run, whatever the
\* tunnel itself is doing.
StopEndsRun ==
    \A c \in Callers : (stopReq /\ pc[c] = "select") ~> (pc[c] # "select")
=============================================================================
