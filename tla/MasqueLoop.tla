----------------------------- MODULE MasqueLoop -----------------------------
(***************************************************************************)
(* run_masque and what it calls (core/aether/src/main.rs): the two passes  *)
(* over the known gateways, the renewal of a refused certificate, the      *)
(* reconnect loop with its scan, and the process-wide HTTP/2 fallback flag *)
(* of masque_h2.rs that all of them read and write.  quic::run and         *)
(* masque_h2::run are one step here (ready, or not).  The edge, the        *)
(* network and the registration service are the environment and may change *)
(* between any two steps.                                                  *)
(***************************************************************************)
EXTENDS Naturals, Sequences, FiniteSets

CONSTANTS
    Peers,              \* gateway addresses
    None,               \* no address
    Team,               \* AETHER_TEAM_ENDPOINT, or None
    Account,            \* the address the account names, or None
    Cached,             \* cached_masque_gateways, in order
    Gateways,           \* masque_gateway_peers()
    Ladder,             \* masque_gateway_peers().take(MASQUE_H3_PROBE_LIMIT)
    LadderH2,           \* masque_h2_gateway_peers().take(MASQUE_H2_PROBE_LIMIT)
    Forcible,           \* addresses the user may force
    Limit,              \* IDENTITY_REJECTED_LIMIT
    MaxRevocations      \* bound: how often the edge stops accepting a certificate

ASSUME ConstantsAssumption ==
    /\ None \notin Peers
    /\ {Team, Account} \subseteq Peers \cup {None}
    /\ Cached \in Seq(Peers)
    /\ Gateways \subseteq Peers
    /\ Ladder \in Seq(Gateways)
    /\ LadderH2 \in Seq(Peers)
    /\ Forcible \subseteq Peers
    /\ Limit \in Nat \ {0}
    /\ MaxRevocations \in Nat

VARIABLES
    edge,       \* serves[t]: who answers and carries traffic over t in time; cert: the only one accepted
    flags,      \* H2_PREFERRED and H2_FALLBACK
    run,        \* the locals of run_masque
    store,      \* what survives the process: the identity's certificate, lastconn
    tun,        \* the tunnel task and its local side (TUN bridge or netstack and SOCKS)
    status,     \* the last status the app was given; "ended" once aether_start returned
    evidence,   \* history: the check that accepted run.chosen
    refusers    \* history: the gateways that refused run.cert

vars == <<edge, flags, run, store, tun, status, evidence, refusers>>

Transports == {"h3", "h2"}
Certs == 0 .. MaxRevocations
Passes == {"pass1", "again1", "pass2", "again2"}
Looping == {"retry", "select", "hunt", "huntH2"}
NoEvidence == [peer |-> None, via |-> "h3", cert |-> 0]

TypeOK ==
    /\ edge \in [serves : [Transports -> SUBSET Peers], cert : Certs]
    /\ flags \in [preferred : BOOLEAN, fallback : BOOLEAN]
    /\ run \in [pc : {"off", "refresh1", "refresh2", "use", "tunnel"} \cup Passes \cup Looping,
                known : Seq(Peers), list : Seq(Peers), at : Nat \ {0}, rejects : Nat, cert : Certs,
                forced : Peers \cup {None}, chosen : Peers \cup {None},
                lastGood : Peers \cup {None}]
    /\ store \in [cert : Certs, peer : Peers \cup {None}]
    /\ tun \in [phase : {"none", "starting", "up"}, via : Transports, local : BOOLEAN]
    /\ status \in {"ended", "starting", "connecting", "connected"}
    /\ evidence \in [peer : Peers \cup {None}, via : Transports, cert : Certs]
    /\ refusers \in SUBSET Peers

Init ==
    /\ edge \in [serves : [Transports -> SUBSET Peers], cert : {0}]
    /\ flags = [preferred |-> FALSE, fallback |-> FALSE]
    /\ run = [pc |-> "off", known |-> <<>>, list |-> <<>>, at |-> 1, rejects |-> 0, cert |-> 0,
              forced |-> None, chosen |-> None, lastGood |-> None]
    /\ store = [cert |-> 0, peer |-> None]
    /\ tun = [phase |-> "none", via |-> "h3", local |-> FALSE]
    /\ status = "ended"
    /\ evidence = NoEvidence
    /\ refusers = {}

-----------------------------------------------------------------------------
\* masque_h2::enabled(), as the transport it stands for.
Transport == IF flags.preferred \/ flags.fallback THEN "h2" ELSE "h3"

\* What try_masque_peer reports of p.
Verdict(p) ==
    IF p \notin edge.serves[Transport] THEN "Unreachable"
    ELSE IF run.cert = edge.cert THEN "Accepted" ELSE "IdentityRejected"

Some(p) == IF p = None THEN <<>> ELSE <<p>>

\* The `known` list, with the addresses a run remembers (`quick`: the user wants
\* the last one) or without; one that repeats is skipped when its turn comes.
Known(cache, quick) ==
    Some(Team) \o (IF cache /\ quick THEN Some(store.peer) ELSE <<>>)
        \o Some(Account) \o (IF cache THEN Cached ELSE <<>>)

\* Mutant: `seen` is not consulted when the candidates are listed.
NeverRepeated == FALSE

\* `seen` already holds the candidate whose turn it is.
Repeated == \E j \in 1 .. run.at - 1 : run.list[j] = run.list[run.at]

\* A check accepted p: it is what the loop uses next.
Choose(p) == evidence' = [peer |-> p, via |-> Transport, cert |-> run.cert]

-----------------------------------------------------------------------------
(* start and run_masque up to its loop.                                    *)

\* start: set_preferred clears the fallback, the identity comes from disk, and
\* without a forced peer pass 1 begins over `known` and the gateway ladder.
Start(preferred, forced, cache, quick) ==
    /\ run.pc = "off"
    /\ flags' = [preferred |-> preferred, fallback |-> FALSE]
    /\ LET known == IF forced = None THEN Known(cache, quick) ELSE <<>> IN
       run' = [pc |-> IF forced = None THEN "pass1" ELSE "select", known |-> known,
               list |-> IF forced = None THEN known \o Ladder ELSE <<>>,
               at |-> 1, rejects |-> 0, cert |-> store.cert,
               forced |-> forced, chosen |-> None, lastGood |-> None]
    /\ status' = "starting"
    /\ refusers' = {}
    /\ UNCHANGED <<edge, store, tun, evidence>>

PassOver == run.at > Len(run.list) \/ run.rejects >= Limit

\* Mutant: an accepted pass 2 hands HTTP/3 back like a failed one.
DialClears ==
    /\ run.pc \in Passes
    /\ ~PassOver
    /\ LET p == run.list[run.at] IN
       IF Verdict(p) = "Accepted"
       THEN /\ run' = [run EXCEPT !.pc = "use", !.chosen = p]
            /\ flags' = [flags EXCEPT !.fallback = FALSE]
            /\ Choose(p)
            /\ UNCHANGED refusers
       ELSE /\ run' = [run EXCEPT !.at = @ + 1]
            /\ UNCHANGED <<flags, evidence, refusers>>
    /\ UNCHANGED <<edge, store, tun, status>>

\* One turn of dial_masque_pass_from.
Dial ==
    /\ run.pc \in Passes
    /\ ~PassOver
    /\ LET p == run.list[run.at] IN
       \/ /\ ~Repeated /\ Verdict(p) = "Accepted"
          /\ run' = [run EXCEPT !.pc = "use", !.chosen = p]
          /\ Choose(p)
          /\ UNCHANGED refusers
       \/ /\ ~Repeated /\ Verdict(p) = "IdentityRejected"
          /\ run' = [run EXCEPT !.at = @ + 1, !.rejects = @ + 1]
          /\ refusers' = refusers \cup {p}
          /\ UNCHANGED evidence
       \/ /\ Repeated \/ Verdict(p) = "Unreachable"
          /\ run' = [run EXCEPT !.at = @ + 1]
          /\ UNCHANGED <<evidence, refusers>>
    /\ UNCHANGED <<edge, flags, store, tun, status>>

\* return Err(identity_rejected_error(..)): the run is over.
GiveUp ==
    /\ run' = [run EXCEPT !.pc = "off"]
    /\ status' = "ended"

Passing(pc, list, rejects) ==
    run' = [run EXCEPT !.pc = pc, !.list = list, !.at = 1, !.rejects = rejects]

\* Pass 2 if HTTP/2 is not on already: switch it on and dial `known` and the
\* HTTP/2 ladder, counting on from the rejections of pass 1.
SecondPass(rejects) ==
    /\ IF Transport = "h2"
       THEN run' = [run EXCEPT !.pc = "select"] /\ UNCHANGED flags
       ELSE /\ flags' = [flags EXCEPT !.fallback = TRUE]
            /\ Passing("pass2", run.known \o LadderH2, rejects)
    /\ UNCHANGED status

\* The HTTP/3 passes ended without a gateway.
EndPass1 ==
    /\ run.pc = "pass1"
    /\ PassOver
    /\ IF run.rejects >= Limit
       THEN run' = [run EXCEPT !.pc = "refresh1"] /\ UNCHANGED <<flags, status>>
       ELSE SecondPass(run.rejects)
    /\ UNCHANGED <<edge, store, tun, evidence, refusers>>

EndAgain1 ==
    /\ run.pc = "again1"
    /\ PassOver
    /\ IF run.rejects > 0
       THEN GiveUp /\ UNCHANGED flags
       ELSE SecondPass(0)
    /\ UNCHANGED <<edge, store, tun, evidence, refusers>>

\* The HTTP/2 passes ended without a gateway: back to HTTP/3 unless refused.
EndPass2 ==
    /\ run.pc \in {"pass2", "again2"}
    /\ PassOver
    /\ \/ /\ run.rejects = 0
          /\ flags' = [flags EXCEPT !.fallback = FALSE]
          /\ run' = [run EXCEPT !.pc = "select"]
          /\ UNCHANGED status
       \/ /\ run.rejects > 0 /\ run.pc = "pass2"
          /\ run' = [run EXCEPT !.pc = "refresh2"]
          /\ UNCHANGED <<flags, status>>
       \/ run.rejects > 0 /\ run.pc = "again2" /\ GiveUp /\ UNCHANGED flags
    /\ UNCHANGED <<edge, store, tun, evidence, refusers>>

\* refresh_refused_masque_identity: a fresh certificate (written to disk if the
\* write succeeds) and the same list again, or nothing and the run is over.
Refresh ==
    /\ run.pc \in {"refresh1", "refresh2"}
    /\ \/ /\ run' = [run EXCEPT !.pc = IF run.pc = "refresh1" THEN "again1" ELSE "again2",
                                !.at = 1, !.rejects = 0, !.cert = edge.cert]
          /\ store' \in {store, [store EXCEPT !.cert = edge.cert]}
          /\ refusers' = {}
          /\ UNCHANGED status
       \/ GiveUp /\ UNCHANGED <<store, refusers>>
    /\ UNCHANGED <<edge, flags, tun, evidence>>

-----------------------------------------------------------------------------
(* The loop of run_masque.                                                 *)

\* Mutant: the last good gateway is used again without being asked.
RetryUnchecked ==
    /\ run.pc = "retry"
    /\ run' = [run EXCEPT !.pc = "use", !.chosen = run.lastGood]
    /\ UNCHANGED <<edge, flags, store, tun, status, evidence, refusers>>

\* The last good gateway is asked first.
Retry ==
    /\ run.pc = "retry"
    /\ IF Verdict(run.lastGood) = "Accepted"
       THEN run' = [run EXCEPT !.pc = "use", !.chosen = run.lastGood] /\ Choose(run.lastGood)
       ELSE run' = [run EXCEPT !.pc = "select"] /\ UNCHANGED evidence
    /\ UNCHANGED <<edge, flags, store, tun, status, refusers>>

\* A forced peer is used unprobed; otherwise scan.
Select ==
    /\ run.pc = "select"
    /\ run' = IF run.forced = None THEN [run EXCEPT !.pc = "hunt"]
              ELSE [run EXCEPT !.pc = "use", !.chosen = run.forced]
    /\ UNCHANGED <<edge, flags, store, tun, status, evidence, refusers>>

\* continue, after the sleep: back to the top of the loop.
TopOfLoop == IF run.lastGood = None THEN "select" ELSE "retry"

\* hunt_masque_peer on the transport in force: any gateway that is accepted, or
\* the bounded HTTP/2 check if that transport was HTTP/3, or an error.
Hunt ==
    /\ run.pc = "hunt"
    /\ \/ \E p \in Peers :
            /\ Verdict(p) = "Accepted"
            /\ run' = [run EXCEPT !.pc = "use", !.chosen = p]
            /\ Choose(p)
            /\ UNCHANGED flags
       \/ /\ \A p \in Peers : Verdict(p) # "Accepted"
          /\ IF Transport = "h3"
             THEN /\ flags' = [flags EXCEPT !.fallback = TRUE]
                  /\ run' = [run EXCEPT !.pc = "huntH2"]
             ELSE run' = [run EXCEPT !.pc = TopOfLoop] /\ UNCHANGED flags
          /\ UNCHANGED evidence
    /\ UNCHANGED <<edge, store, tun, status, refusers>>

\* In the Ironclad scan mode a candidate is pinged through a tunnel of its own,
\* and that tunnel announces itself like a session (tunnelping.rs).
ProbeAnnounces ==
    /\ run.pc = "hunt"
    /\ \E p \in Peers : Verdict(p) = "Accepted"
    /\ status' = "connected"
    /\ UNCHANGED <<edge, flags, run, store, tun, evidence, refusers>>

\* verify_cached_gateways over the ladder on HTTP/2; clear_fallback if none.
HuntH2 ==
    /\ run.pc = "huntH2"
    /\ \/ \E p \in Gateways :
            /\ Verdict(p) = "Accepted"
            /\ run' = [run EXCEPT !.pc = "use", !.chosen = p]
            /\ Choose(p)
            /\ UNCHANGED flags
       \/ /\ \A p \in Gateways : Verdict(p) # "Accepted"
          /\ flags' = [flags EXCEPT !.fallback = FALSE]
          /\ run' = [run EXCEPT !.pc = TopOfLoop]
          /\ UNCHANGED evidence
    /\ UNCHANGED <<edge, store, tun, status, refusers>>

\* lastconn::save unless forced, last_good_peer, and the start of
\* run_masque_tunnel: the local side, then the tunnel task on the transport the
\* flags name now.
Use ==
    /\ run.pc = "use"
    /\ store' = IF run.forced = None THEN [store EXCEPT !.peer = run.chosen] ELSE store
    /\ run' = [run EXCEPT !.pc = "tunnel", !.lastGood = run.chosen]
    /\ tun' = [phase |-> "starting", via |-> Transport, local |-> TRUE]
    /\ UNCHANGED <<edge, flags, status, evidence, refusers>>

-----------------------------------------------------------------------------
(* run_masque_tunnel.                                                      *)

TunnelServed == run.chosen \in edge.serves[tun.via] /\ run.cert = edge.cert

\* The tunnel task validated its data plane: mark_ready, then the oneshot.
TunnelReady ==
    /\ tun.phase = "starting"
    /\ tun.local
    /\ TunnelServed
    /\ tun' = [tun EXCEPT !.phase = "up"]
    /\ status' = "connected"
    /\ UNCHANGED <<edge, flags, run, store, evidence, refusers>>

\* The tunnel task is joined or aborted, the local side is aborted, and the loop
\* reports "connecting" before it sleeps.
TunnelOver ==
    /\ tun.phase # "none"
    /\ tun' = [tun EXCEPT !.phase = "none", !.local = FALSE]
    /\ run' = [run EXCEPT !.pc = "retry", !.chosen = None]
    /\ status' = "connecting"
    /\ evidence' = NoEvidence
    /\ UNCHANGED <<edge, flags, store, refusers>>

\* Mutant: no masque_startup_timeout, only a dropped ready_rx is noticed.
TunnelFailsUntimed == tun.phase = "starting" /\ ~tun.local /\ TunnelOver

\* ready_rx dropped, or masque_startup_timeout.
TunnelFails == tun.phase = "starting" /\ ~(TunnelServed /\ tun.local) /\ TunnelOver

\* An established tunnel ends: the edge closes it at any time; over QUIC the idle
\* timeout and over both the closed outbound channel end it for certain.
TunnelEnds == tun.phase = "up" /\ TunnelOver

TunnelDoomed == ~tun.local \/ (tun.via = "h3" /\ ~TunnelServed)

\* The TUN bridge or the SOCKS server ends; nobody joins it, its channel closes.
LocalDies ==
    /\ tun.phase # "none"
    /\ tun.local
    /\ tun' = [tun EXCEPT !.local = FALSE]
    /\ UNCHANGED <<edge, flags, run, store, status, evidence, refusers>>

\* aether_stop: the future is dropped wherever it is.
Stop ==
    /\ run.pc # "off"
    /\ run' = [run EXCEPT !.pc = "off", !.chosen = None]
    /\ tun' = [tun EXCEPT !.phase = "none", !.local = FALSE]
    /\ status' = "ended"
    /\ evidence' = NoEvidence
    /\ UNCHANGED <<edge, flags, store, refusers>>

-----------------------------------------------------------------------------
\* The paths to the gateways change, or the edge stops accepting a certificate.
Network ==
    /\ \E t \in Transports, p \in Peers :
         edge' = [edge EXCEPT !.serves[t] = IF p \in @ THEN @ \ {p} ELSE @ \cup {p}]
    /\ UNCHANGED <<flags, run, store, tun, status, evidence, refusers>>

Revoke ==
    /\ edge.cert < MaxRevocations
    /\ edge' = [edge EXCEPT !.cert = @ + 1]
    /\ UNCHANGED <<flags, run, store, tun, status, evidence, refusers>>

CoreStep ==
    \/ Dial \/ EndPass1 \/ EndAgain1 \/ EndPass2 \/ Refresh
    \/ Retry \/ Select \/ Hunt \/ HuntH2 \/ Use \/ TunnelReady \/ TunnelFails

Next ==
    \/ CoreStep
    \/ \E preferred, cache, quick \in BOOLEAN, forced \in Forcible \cup {None} :
         Start(preferred, forced, cache, quick)
    \/ TunnelEnds \/ LocalDies \/ Stop \/ Network \/ Revoke

Spec == Init /\ [][Next]_vars

\* With the Ironclad scan mode selected.
IroncladSpec == Init /\ [][Next \/ ProbeAnnounces]_vars

FairSpec ==
    /\ Spec
    /\ WF_vars(CoreStep)
    /\ WF_vars(TunnelEnds /\ TunnelDoomed)
-----------------------------------------------------------------------------
(* Properties.                                                             *)

\* A tunnel to a gateway nobody forced is raised over the very transport, and
\* with the very certificate, of the check that accepted the gateway this round:
\* the fallback flag is read by the check and read again by run_masque_tunnel.
EvidenceHolds ==
    run.pc = "tunnel" /\ run.forced = None =>
        evidence = [peer |-> run.chosen, via |-> tun.via, cert |-> run.cert]

\* The app reads "connected" only while a validated tunnel of this run is up.
ConnectedMeansUp == status = "connected" => tun.phase = "up"

\* HTTP/2 stays on in the reconnect loop only when it was earned: the last tunnel
\* ran over it.  A check over HTTP/2 that found nothing hands HTTP/3 back.
FallbackEarned ==
    flags.fallback /\ run.pc \in {"retry", "select", "hunt"} =>
        run.lastGood # None /\ tun.via = "h2"

\* The registration is asked for another certificate only after the gateways
\* refused the one in use: after pass 1, Limit different gateways.
RenewalJustified ==
    /\ run.pc = "refresh1" => \E S \in SUBSET refusers : Cardinality(S) = Limit
    /\ run.pc = "refresh2" => refusers # {}

\* What the comment in the loop says: every rescan starts on HTTP/3.
RescanStartsOnH3 == run.pc = "hunt" /\ ~flags.preferred => Transport = "h3"

\* What the prober says of its own probes: none announces "connected" while the
\* real tunnel is still being chosen.
ProbesStaySilent == run.pc \in Passes \cup Looping => status # "connected"

\* Some gateway (the forced one) answers on HTTP/3, HTTP/3 is in use and the
\* edge accepts the certificate the run holds; the local side stays alive.
Healthy ==
    /\ tun.phase = "none" \/ tun.local
    /\ Transport = "h3"
    /\ run.cert = edge.cert
    /\ IF run.forced = None THEN edge.serves["h3"] # {} ELSE run.forced \in edge.serves["h3"]

\* Once the network has settled and is healthy, the run keeps coming up until it
\* ends: no verdict, scan or timeout along the way leaves it stuck.
Recovers ==
    <>[][FALSE]_edge /\ <>[]Healthy => []<>(tun.phase = "up" \/ run.pc = "off")

Loop == INSTANCE Supervisor WITH
    Trusted <- Forcible,
    phase <- IF run.pc = "off" THEN "off"
             ELSE IF run.pc # "tunnel" THEN "select"
             ELSE IF tun.phase = "up" THEN "up" ELSE "raise",
    peer <- IF run.pc = "tunnel" THEN run.chosen ELSE None,
    proven <- IF evidence.peer = None THEN {} ELSE {evidence.peer},
    connected <- status = "connected"

\* run_masque implements the contract of a reconnect loop.
LoopSpec == Loop!Spec
=============================================================================
