------------------------------- MODULE TwoHop -------------------------------
(***************************************************************************)
(* The two tunnels inside a tunnel of the native core (main.rs):           *)
(* run_gool with run_warp_in_warp, WireGuard inside WireGuard, and run_mim *)
(* with run_masque_in_masque, MASQUE inside MASQUE.  Both raise an outer   *)
(* hop, forward a loopback port through it, raise an inner hop over the    *)
(* port, serve the device through the inner hop, and tear everything down  *)
(* when the first of their tasks ends.  They differ in who pays for a      *)
(* failure.  Which edge answers is the environment's choice at any moment. *)
(***************************************************************************)
EXTENDS Naturals, Sequences

CONSTANTS
    Peers,      \* edges
    None,
    Pool,       \* inner_masque_candidates before the outer edge is taken out
    Forcible,   \* edges the user may force
    MaxFails    \* MAX_CONSECUTIVE_FAILS, MAX_OUTER_FAILS

ASSUME ConstantsAssumption ==
    /\ None \notin Peers
    /\ Pool \in Seq(Peers)
    /\ Forcible \subseteq Peers
    /\ MaxFails \in Nat \ {0}

VARIABLES
    net,        \* outer: edges that answer; through: edges that answer from inside a tunnel
    run,        \* the locals of run_gool or run_mim
    store,      \* lastconn
    live,       \* the tasks of the session that run: "outer", "inner", "local"
    forwarders, \* loopback forwarders that nobody aborted
    bridges,    \* TUN bridges that nobody aborted
    status,     \* the last status the app was given
    proof,      \* history: the hops this session validated
    asked,      \* history: the outer edge a check accepted since the last was given up
    outages     \* history: outer-hop failures since the outer edge was selected

vars == <<net, run, store, live, forwarders, bridges, status, proof, asked, outages>>
tasks == <<live, forwarders, bridges>>
history == <<proof, asked, outages>>

Modes == {"gool", "mim"}
Raising == {"outer", "inner", "wait"}

TypeOK ==
    /\ net \in [outer : SUBSET Peers, through : SUBSET Peers]
    /\ run \in [pc : {"off", "cache", "pick", "select", "use", "session"} \cup Raising,
                mode : Modes, ironclad : BOOLEAN, tun : BOOLEAN, forced : Peers \cup {None},
                cached : Peers \cup {None}, last : Peers \cup {None}, peer : Peers \cup {None},
                at : Nat \ {0}, fails : 0 .. MaxFails]
    /\ store \in Peers \cup {None}
    /\ live \in SUBSET {"outer", "inner", "local"}
    /\ forwarders \in Nat
    /\ bridges \in Nat
    /\ status \in {"ended", "starting", "connected", "panicked"}
    /\ proof \in SUBSET ({"outer", "inner"} \X Peers)
    /\ asked \in Peers \cup {None}
    /\ outages \in 0 .. MaxFails

Init ==
    /\ net \in [outer : SUBSET Peers, through : SUBSET Peers]
    /\ run = [pc |-> "off", mode |-> "gool", ironclad |-> FALSE, tun |-> FALSE, forced |-> None,
              cached |-> None, last |-> None, peer |-> None, at |-> 1, fails |-> 0]
    /\ store = None
    /\ live = {}
    /\ forwarders = 0
    /\ bridges = 0
    /\ status = "ended"
    /\ proof = {}
    /\ asked = None
    /\ outages = 0

-----------------------------------------------------------------------------
(* run_gool and run_mim: the outer edge.                                   *)

\* start: the mode decides the loop, tun_fd the local side; scan_mode matters to
\* run_mim only.
Start(mode, ironclad, tun, forced) ==
    /\ run.pc = "off"
    /\ run' = [pc |-> IF forced = None THEN "cache" ELSE "pick", mode |-> mode,
               ironclad |-> (mode = "mim" /\ ironclad), tun |-> tun, forced |-> forced,
               cached |-> None, last |-> None,
               peer |-> None, at |-> 1, fails |-> 0]
    /\ status' = "starting"
    /\ proof' = {} /\ asked' = None /\ outages' = 0
    /\ UNCHANGED <<net, store, tasks>>

\* load_cached_gool_peer, load_cached_mim_peer: reused only if wanted and verified.
LoadCached ==
    /\ run.pc = "cache"
    /\ \/ /\ store \in net.outer
          /\ run' = [run EXCEPT !.pc = "pick", !.cached = store]
          /\ asked' = store
       \/ run' = [run EXCEPT !.pc = "pick"] /\ UNCHANGED asked
    /\ UNCHANGED <<net, store, tasks, status, proof, outages>>

\* The top of the loop: the last edge, or the cached one, unless it has failed
\* MaxFails times; then the cached one is forgotten as well.
Pick ==
    /\ run.pc = "pick"
    /\ LET known == IF run.last # None THEN run.last ELSE run.cached IN
       IF run.fails < MaxFails
       THEN /\ run' = [run EXCEPT !.pc = IF known = None THEN "select" ELSE "use", !.peer = known]
            /\ UNCHANGED asked
       ELSE /\ run' = [run EXCEPT !.pc = "select", !.cached = None, !.peer = None]
            /\ asked' = None
    /\ UNCHANGED <<net, store, tasks, status, proof, outages>>

\* select_peer: the forced edge unprobed, else a scan; nothing found is an error,
\* a sleep and the top of the loop.
Select ==
    /\ run.pc = "select"
    /\ \/ \E p \in IF run.forced = None THEN net.outer ELSE {run.forced} :
            /\ run' = [run EXCEPT !.pc = "use", !.peer = p, !.fails = 0]
            /\ asked' = p
            /\ outages' = 0
       \/ /\ run.forced = None /\ net.outer = {}
          /\ run' = [run EXCEPT !.pc = "pick"]
          /\ UNCHANGED <<asked, outages>>
    /\ UNCHANGED <<net, store, tasks, status, proof>>

\* An Ironclad scan for run_mim pings an edge through a MASQUE tunnel of its own,
\* and that tunnel announces itself (announce: true) once it validates, whether or
\* not the edge is then selected.  The scan's other checks, those of the cached
\* gateways among them, and the WireGuard pings of run_gool are silent.
IroncladPing ==
    /\ run.pc = "select" /\ run.ironclad
    /\ run.forced = None /\ net.outer # {}
    /\ status' = "connected"
    /\ UNCHANGED <<net, run, store, tasks, history>>

\* The inner edges to try: the outer endpoint itself, or the pool without it.  (The
\* inner edge run_mim would put first is never set: join_outcome has no success.)
Candidates(mode, outer) ==
    IF mode = "gool" THEN {outer} ELSE {Pool[i] : i \in DOMAIN Pool} \ {outer}

\* Their order; the outer edge is passed over when its turn comes.
Tries == IF run.mode = "gool" THEN <<run.peer>> ELSE Pool

\* lastconn::save unless forced, last_peer; without a second edge run_mim fails.
Use ==
    /\ run.pc = "use"
    /\ store' = IF run.forced = None THEN run.peer ELSE store
    /\ IF Candidates(run.mode, run.peer) = {}
       THEN run' = [run EXCEPT !.pc = "off", !.peer = None] /\ status' = "ended"
       ELSE /\ run' = [run EXCEPT !.pc = "outer", !.last = run.peer, !.at = 1]
            /\ UNCHANGED status
    /\ UNCHANGED <<net, tasks, history>>

-----------------------------------------------------------------------------
(* run_warp_in_warp and run_masque_in_masque.                              *)

AtMost(n) == IF n > MaxFails THEN MaxFails ELSE n

\* Back to the loop with every task joined, aborted or left to end with its
\* channels; `paid` says whether the failure counts against the outer edge.
Lost(paid) ==
    /\ run' = [run EXCEPT !.pc = "pick", !.peer = None, !.fails = IF paid THEN @ + 1 ELSE @]
    /\ live' = {} /\ forwarders' = 0 /\ bridges' = 0
    /\ proof' = {}
    /\ UNCHANGED <<net, store, status, asked>>

\* Mutant: the outer hop announces itself as a plain MASQUE tunnel does.
RaiseOuterAnnounces ==
    /\ run.pc = "outer"
    /\ run.peer \in net.outer
    /\ live' = {"outer"}
    /\ proof' = {<<"outer", run.peer>>}
    /\ run' = [run EXCEPT !.pc = "inner"]
    /\ status' = "connected"
    /\ UNCHANGED <<net, store, forwarders, bridges, asked, outages>>

\* establish_wg or establish_masque of the outer hop.
RaiseOuter ==
    /\ run.pc = "outer"
    /\ run.peer \in net.outer
    /\ live' = {"outer"}
    /\ proof' = {<<"outer", run.peer>>}
    /\ run' = [run EXCEPT !.pc = "inner"]
    /\ UNCHANGED <<net, store, forwarders, bridges, status, asked, outages>>

\* Mutant: the outer hop's validation has no deadline.
OuterUntimed == FALSE /\ outages' = outages /\ Lost(TRUE)

\* The deadline of the outer hop's validation.
OuterFails ==
    /\ run.pc = "outer"
    /\ run.peer \notin net.outer
    /\ outages' = AtMost(outages + 1)
    /\ Lost(TRUE)

\* A forwarder for the next candidate, which needs the outer hop's stack; a TUN
\* bridge is part of a MASQUE hop from its start.
StartInner ==
    /\ run.pc = "inner"
    /\ run.at <= Len(Tries)
    /\ IF "outer" \in live /\ Tries[run.at] \in Candidates(run.mode, run.peer)
       THEN /\ forwarders' = forwarders + 1
            /\ bridges' = IF run.mode = "mim" /\ run.tun THEN bridges + 1 ELSE bridges
            /\ run' = [run EXCEPT !.pc = "wait"]
       ELSE /\ run' = [run EXCEPT !.at = @ + 1]
            /\ UNCHANGED <<forwarders, bridges>>
    /\ UNCHANGED <<net, store, live, status, history>>

\* Mutant: the refused hop's guard does not hold its TUN bridge.
InnerRefusedKeepsBridge ==
    /\ run.pc = "wait"
    /\ ~("outer" \in live /\ Tries[run.at] \in net.through)
    /\ run' = [run EXCEPT !.pc = "inner", !.at = @ + 1]
    /\ forwarders' = forwarders - 1
    /\ UNCHANGED <<net, store, live, bridges, status, history>>

\* The inner hop did not validate in time; the guards of the hop and of the
\* forwarder abort their tasks.
InnerRefused ==
    /\ run.pc = "wait"
    /\ ~("outer" \in live /\ Tries[run.at] \in net.through)
    /\ run' = [run EXCEPT !.pc = "inner", !.at = @ + 1]
    /\ forwarders' = forwarders - 1
    /\ bridges' = IF run.mode = "mim" /\ run.tun THEN bridges - 1 ELSE bridges
    /\ UNCHANGED <<net, store, live, status, history>>

\* Mutant: the candidates' failure is charged to the outer edge.
NoInnerCharged ==
    /\ run.pc = "inner"
    /\ run.at > Len(Tries)
    /\ Lost(TRUE)
    /\ UNCHANGED outages

\* Every candidate refused: MimHopFailure::Inner, or the error run_gool counts.
NoInner ==
    /\ run.pc = "inner"
    /\ run.at > Len(Tries)
    /\ Lost(run.mode = "gool")
    /\ UNCHANGED outages

\* The inner hop validated: the rest of the local side, then mark_ready.
Ready ==
    /\ run.pc = "wait"
    /\ "outer" \in live
    /\ Tries[run.at] \in net.through
    /\ live' = {"outer", "inner", "local"}
    /\ bridges' = IF run.tun THEN 1 ELSE 0
    /\ proof' = proof \cup {<<"inner", Tries[run.at]>>}
    /\ status' = "connected"
    /\ run' = [run EXCEPT !.pc = "session"]
    /\ UNCHANGED <<net, store, forwarders, asked, outages>>

\* A task of the session ends: the network, the edge or the local side.
Dies(t) ==
    /\ t \in live
    /\ live' = live \ {t}
    /\ outages' = IF t = "outer" THEN AtMost(outages + 1) ELSE outages
    /\ UNCHANGED <<net, run, store, forwarders, bridges, status, proof, asked>>

\* The select of run_masque_in_masque returns a task that ended (it does not watch
\* the TUN bridge); the others are aborted and joined, the hop that died pays.
SessionEnds(t) ==
    /\ run.pc = "session"
    /\ run.mode = "mim"
    /\ t \notin live
    /\ t = "local" => ~run.tun
    /\ Lost(t = "outer")
    /\ UNCHANGED outages

\* The select of run_warp_in_warp returns a task that ended; all three handles are
\* awaited again, the finished one too, and that panics.  aether_start returns -3.
GoolSessionEnds ==
    /\ run.pc = "session"
    /\ run.mode = "gool"
    /\ live # {"outer", "inner", "local"}
    /\ run' = [run EXCEPT !.pc = "off", !.peer = None]
    /\ live' = {} /\ forwarders' = 0 /\ bridges' = 0
    /\ proof' = {}
    /\ status' = "panicked"
    /\ UNCHANGED <<net, store, asked, outages>>

\* aether_stop: the future is dropped wherever it is, and the runtime with it.
Stop ==
    /\ run.pc # "off"
    /\ run' = [run EXCEPT !.pc = "off", !.peer = None]
    /\ live' = {} /\ forwarders' = 0 /\ bridges' = 0
    /\ proof' = {}
    /\ status' = "ended"
    /\ UNCHANGED <<net, store, asked, outages>>

\* An edge starts or stops answering, directly or from inside a tunnel.
Network ==
    /\ \E p \in Peers, side \in {"outer", "through"} :
         net' = [net EXCEPT ![side] = IF p \in @ THEN @ \ {p} ELSE @ \cup {p}]
    /\ UNCHANGED <<run, store, tasks, status, history>>

-----------------------------------------------------------------------------
\* The inner hop's task ends once the TUN bridge has dropped its channel.
InnerStarves == "local" \notin live /\ Dies("inner")

CoreStep ==
    \/ LoadCached \/ Pick \/ Select \/ IroncladPing \/ Use
    \/ RaiseOuter \/ OuterFails \/ StartInner \/ InnerRefused \/ NoInner \/ Ready
    \/ (\E t \in {"outer", "inner", "local"} : SessionEnds(t)) \/ GoolSessionEnds

Next ==
    \/ CoreStep
    \/ \E mode \in Modes, ironclad \in BOOLEAN, tun \in BOOLEAN, forced \in Forcible \cup {None} :
         Start(mode, ironclad, tun, forced)
    \/ \E t \in {"outer", "inner", "local"} : Dies(t)
    \/ Stop \/ Network

Spec == Init /\ [][Next]_vars

FairSpec ==
    /\ Spec
    /\ WF_vars(CoreStep)
    /\ WF_vars(run.pc = "session" /\ InnerStarves)

-----------------------------------------------------------------------------
(* Properties.                                                             *)

\* This step shows the app two validated hops of one session, over two different
\* edges in MASQUE-in-MASQUE.
BothHopsStand ==
    \E c \in Peers : /\ proof' = {<<"outer", run.peer>>, <<"inner", c>>}
                     /\ run.mode = "mim" => c # run.peer

\* A run first says "connected" when both of its hops stand, unless it is a run_mim
\* that scans in Ironclad mode (HopsStaySilent).
ReadyMeansBothHops ==
    [][status # "connected" /\ status' = "connected" /\ ~run.ironclad
        => BothHopsStand]_vars

\* What the comment in establish_masque says of every run: only run_masque_in_masque announces,
\* after both hops validated.  An Ironclad scan breaks it (IroncladPing).
HopsStaySilent ==
    [][status # "connected" /\ status' = "connected" => BothHopsStand]_vars

\* However many candidates were refused on the way, one forwarder carries the inner
\* hop and one bridge reads the TUN; between sessions there is neither.
NoLeftovers ==
    /\ forwarders = IF run.pc \in {"wait", "session"} THEN 1 ELSE 0
    /\ bridges = IF run.tun /\ (run.pc = "session" \/ (run.pc = "wait" /\ run.mode = "mim")) THEN 1 ELSE 0

\* A healthy outer edge is not rescanned because of the inner one: run_mim gives
\* an outer edge up only after MaxFails failures of the outer hop itself.
RescanEarned ==
    run.pc = "select" /\ run.mode = "mim" /\ run.last # None => outages >= MaxFails

\* An outer edge that was given up is not used again before a check, made after
\* that, has accepted it.
GivenUpMeansAsked ==
    run.pc \in {"use", "session"} \cup Raising => asked = run.peer

\* Some edge answers; every edge that does leads to a candidate that answers from
\* inside it; a forced edge is such an edge.
Healthy ==
    LET good == {p \in net.outer : Candidates(run.mode, p) \cap net.through # {}} IN
    /\ good # {} /\ good = net.outer
    /\ run.forced # None => run.forced \in good

\* Once the network has settled and is healthy, and the outer hop no longer dies
\* under the inner one's handshake, the run keeps coming up until it ends.
Recovers ==
    <>[][FALSE]_net /\ <>[]Healthy /\ <>[](run.pc \in {"inner", "wait"} => "outer" \in live)
        => []<>(run.pc \in {"session", "off"})

\* A two-hop session whose TUN bridge died does not stay up.
DeafSessionEnds ==
    run.pc = "session" /\ "local" \notin live ~> run.pc # "session"

\* What the join in run_masque_in_masque takes care of and its comment explains:
\* no session ends in a panic.
NoPanic == status # "panicked"
=============================================================================
