---------------------------- MODULE WireGuardLoop ----------------------------
(***************************************************************************)
(* run_wireguard and run_wireguard_tunnel (core/aether/src/main.rs) with   *)
(* the tasks of WgTunnel::run (wireguard.rs): which endpoint is used next, *)
(* how two bad sessions put it on a cooldown, and how a silent peer is     *)
(* noticed.  verify_endpoint is one step.  Which endpoint and obfuscation  *)
(* profile get through is the environment's choice at every moment.        *)
(***************************************************************************)
EXTENDS Naturals, Sequences

CONSTANTS
    Peers,          \* endpoints
    Profiles,       \* wg_profile_candidates
    None,
    Teams,          \* endpoints an organization may assign (AETHER_TEAM_ENDPOINT)
    Imported,       \* the endpoints of an imported configuration, in file order
    Forcible,       \* endpoints the user may force
    MaxFails,       \* MAX_CONSECUTIVE_FAILS
    StaleTicks      \* health checks without valid data before the tunnel is stale

ASSUME ConstantsAssumption ==
    /\ None \notin Peers
    /\ Teams \subseteq Peers
    /\ Imported \in Seq(Peers)
    /\ Forcible \subseteq Peers
    /\ MaxFails \in Nat \ {0}
    /\ StaleTicks \in Nat \ {0}

VARIABLES
    works,      \* the endpoint and profile pairs that pass handshake and data check
    run,        \* the locals of run_wireguard
    cooling,    \* endpoint_cooldowns that have not run out
    store,      \* lastconn
    sess,       \* the session: its local side and the health of its peer
    status,     \* the last status the app was given
    evidence    \* history: the pair the last check of this round accepted

vars == <<works, run, cooling, store, sess, status, evidence>>

Pairs == Peers \X Profiles
NoPair == <<None, None>>
NoSession == [phase |-> "none", local |-> "none", quiet |-> 0, sock |-> NoPair]

TypeOK ==
    /\ works \in SUBSET Pairs
    /\ run \in [pc : {"off", "team", "cached", "top", "retry", "list", "forced", "hunt",
                      "use", "tunnel"},
                list : Seq(Peers), at : Nat \ {0}, forced : Peers \cup {None},
                pinned : BOOLEAN, fallback : BOOLEAN,
                chosen : Pairs \cup {NoPair}, lastGood : Pairs \cup {NoPair}, fails : Nat]
    /\ cooling \in SUBSET Peers
    /\ store \in Pairs \cup {NoPair}
    /\ sess \in [phase : {"none", "validating", "ready", "up"}, local : {"none", "alive", "dead"},
                 quiet : 0 .. StaleTicks, sock : Pairs \cup {NoPair}]
    /\ status \in {"ended", "starting", "connected"}
    /\ evidence \in Pairs \cup {NoPair}

Init ==
    /\ works \in SUBSET Pairs
    /\ run = [pc |-> "off", list |-> <<>>, at |-> 1, forced |-> None, pinned |-> FALSE, fallback |-> FALSE,
              chosen |-> NoPair, lastGood |-> NoPair, fails |-> 0]
    /\ cooling = {}
    /\ store = NoPair
    /\ sess = NoSession
    /\ status = "ended"
    /\ evidence = NoPair

-----------------------------------------------------------------------------
(* Choosing an endpoint.                                                   *)

Goto(pc) == run' = [run EXCEPT !.pc = pc] /\ UNCHANGED evidence

\* verify_endpoint accepted the pair: it is used next.
Accept(pair) ==
    /\ pair \in works
    /\ run' = [run EXCEPT !.pc = "use", !.chosen = pair]
    /\ evidence' = pair

\* The profiles in order, the first that passes.
AcceptPeer(p) == \E f \in Profiles : Accept(<<p, f>>)
NothingAt(p) == \A f \in Profiles : <<p, f>> \notin works

idle == <<works, cooling, store, sess, status>>

\* start and run_wireguard: the imported list with the remembered endpoint first.
Start(forced, imported, fallback) ==
    /\ run.pc = "off"
    /\ LET remembered == \E i \in DOMAIN imported : imported[i] = store[1]
           list == IF remembered THEN <<store[1]>> \o imported ELSE imported IN
       run' = [pc |-> IF forced = None /\ imported = <<>> THEN "team" ELSE "top",
               list |-> list, at |-> 1, forced |-> forced,
               pinned |-> forced # None \/ imported # <<>>, fallback |-> fallback,
               chosen |-> NoPair, lastGood |-> NoPair, fails |-> 0]
    /\ cooling' = {}
    /\ status' = "starting"
    /\ UNCHANGED <<works, store, sess, evidence>>

\* The endpoint the organization assigned, if there is one and it passes.
TryTeam ==
    /\ run.pc = "team"
    /\ \/ \E t \in Teams : AcceptPeer(t)
       \/ Goto("cached")
    /\ UNCHANGED idle

\* The cached endpoint, if there is one and the user wants it.
TryCached ==
    /\ run.pc = "cached"
    /\ \/ store # NoPair /\ Accept(store)
       \/ Goto("top")
    /\ UNCHANGED idle

\* Mutant: the failed endpoint goes on a cooldown but stays the last good one.
TopKeepsLastGood ==
    /\ run.pc = "top"
    /\ LET out == run.fails >= MaxFails IN
       /\ cooling' = IF out /\ run.lastGood # NoPair THEN cooling \cup {run.lastGood[1]} ELSE cooling
       /\ run' = [run EXCEPT !.pc = IF run.lastGood = NoPair THEN "list" ELSE "retry",
                             !.fails = IF out THEN 0 ELSE @]
    /\ UNCHANGED <<works, store, sess, status, evidence>>

\* The top of the loop: an endpoint that ended MaxFails sessions in a row is
\* forgotten and put on a cooldown.
Top ==
    /\ run.pc = "top"
    /\ LET out == run.fails >= MaxFails
           last == IF out THEN NoPair ELSE run.lastGood IN
       /\ cooling' = IF out /\ run.lastGood # NoPair THEN cooling \cup {run.lastGood[1]} ELSE cooling
       /\ run' = [run EXCEPT !.pc = IF last = NoPair THEN "list" ELSE "retry",
                             !.lastGood = last, !.at = 1, !.fails = IF out THEN 0 ELSE @]
    /\ UNCHANGED <<works, store, sess, status, evidence>>

\* Mutant: the last good endpoint is used again without being asked.
RetryUnchecked ==
    /\ run.pc = "retry"
    /\ run' = [run EXCEPT !.pc = "use", !.chosen = run.lastGood]
    /\ UNCHANGED <<evidence, idle>>

Retry ==
    /\ run.pc = "retry"
    /\ \/ Accept(run.lastGood)
       \/ run.lastGood \notin works /\ Goto("list")
    /\ UNCHANGED idle

\* The remembered endpoint was moved to the front, not copied.
Repeated == \E j \in 1 .. run.at - 1 : run.list[j] = run.list[run.at]

\* The imported endpoints in turn; if none passes, give the list up for a scan,
\* or end the run.
TryList ==
    /\ run.pc = "list"
    /\ \/ run.list = <<>> /\ Goto("forced") /\ UNCHANGED status
       \/ /\ run.at <= Len(run.list)
          /\ UNCHANGED status
          /\ \/ ~Repeated /\ AcceptPeer(run.list[run.at])
             \/ /\ Repeated \/ NothingAt(run.list[run.at])
                /\ run' = [run EXCEPT !.at = @ + 1]
                /\ UNCHANGED evidence
       \/ /\ run.list # <<>>
          /\ run.at > Len(run.list)
          /\ IF run.fallback /\ run.forced = None
             THEN run' = [run EXCEPT !.pc = "top", !.list = <<>>] /\ UNCHANGED status
             ELSE run' = [run EXCEPT !.pc = "off"] /\ status' = "ended"
          /\ UNCHANGED evidence
    /\ UNCHANGED <<works, cooling, store, sess>>

\* A forced endpoint is verified like any other; if it fails the run is over.
TryForced ==
    /\ run.pc = "forced"
    /\ \/ run.forced = None /\ Goto("hunt") /\ UNCHANGED status
       \/ run.forced # None /\ AcceptPeer(run.forced) /\ UNCHANGED status
       \/ /\ run.forced # None
          /\ NothingAt(run.forced)
          /\ run' = [run EXCEPT !.pc = "off"]
          /\ status' = "ended"
          /\ UNCHANGED evidence
    /\ UNCHANGED <<works, cooling, store, sess>>

\* hunt_wg_peer: any endpoint that passes and is not cooling, or an error, a
\* sleep and the top of the loop.
Hunt ==
    /\ run.pc = "hunt"
    /\ \/ \E p \in Peers \ cooling : AcceptPeer(p)
       \/ (\A p \in Peers \ cooling : NothingAt(p)) /\ Goto("top")
    /\ UNCHANGED idle

\* lastconn::save unless forced; the count starts over on another endpoint; then
\* run_wireguard_tunnel begins its own validation.
Use ==
    /\ run.pc = "use"
    /\ store' = IF run.forced = None THEN run.chosen ELSE store
    /\ run' = [run EXCEPT !.pc = "tunnel", !.lastGood = run.chosen,
                          !.fails = IF run.lastGood[1] = run.chosen[1] THEN @ ELSE 0]
    /\ sess' = [NoSession EXCEPT !.phase = "validating"]
    /\ UNCHANGED <<works, cooling, status, evidence>>

-----------------------------------------------------------------------------
(* One session.                                                            *)

\* verify_endpoint_keep_session: the session that proved the data plane is kept.
Validate ==
    /\ sess.phase = "validating"
    /\ run.chosen \in works
    /\ sess' = [sess EXCEPT !.phase = "ready", !.sock = run.chosen]
    /\ UNCHANGED <<works, run, cooling, store, status, evidence>>

\* The local side is spawned, then mark_ready, then the tasks of WgTunnel::run.
Expose ==
    /\ sess.phase = "ready"
    /\ sess' = [sess EXCEPT !.phase = "up", !.local = "alive"]
    /\ status' = "connected"
    /\ UNCHANGED <<works, run, cooling, store, evidence>>

\* Every way out of run_wireguard_tunnel: whatever its result, one more failure
\* of this endpoint, a sleep and the top of the loop.  The app is told nothing.
Over ==
    /\ sess' = NoSession
    /\ run' = [run EXCEPT !.pc = "top", !.chosen = NoPair, !.fails = @ + 1]
    /\ evidence' = NoPair
    /\ UNCHANGED <<works, cooling, store, status>>

\* Mutant: the validation has no deadline.
ValidationUntimed == FALSE /\ Over

\* The deadline of the validation.
ValidationFails == sess.phase = "validating" /\ run.chosen \notin works /\ Over

\* recv_task: the peer's answer to a probe, or its data, refreshes last_valid_rx.
Receive ==
    /\ sess.phase = "up"
    /\ sess.sock \in works
    /\ sess' = [sess EXCEPT !.quiet = 0]
    /\ UNCHANGED <<works, run, cooling, store, status, evidence>>

\* Mutant: the health task only counts.
HealthNeverStale ==
    /\ sess.phase = "up"
    /\ sess' = [sess EXCEPT !.quiet = IF @ < StaleTicks THEN @ + 1 ELSE @]
    /\ UNCHANGED <<works, run, cooling, store, status, evidence>>

\* health_task: another interval without valid data, or the tunnel is stale.
Health ==
    /\ sess.phase = "up"
    /\ IF sess.quiet >= StaleTicks
       THEN Over
       ELSE /\ sess' = [sess EXCEPT !.quiet = @ + 1]
            /\ UNCHANGED <<works, run, cooling, store, status, evidence>>

\* The TUN bridge or the SOCKS server ends and with it the outbound channel.
LocalDies ==
    /\ sess.phase = "up"
    /\ sess.local = "alive"
    /\ sess' = [sess EXCEPT !.local = "dead"]
    /\ UNCHANGED <<works, run, cooling, store, status, evidence>>

\* send_task ends with the outbound channel.
SendTaskEnds == sess.phase = "up" /\ sess.local = "dead" /\ Over

\* recv_task gives up on the socket after MAX_TRANSIENT_RECV_ERRORS.
RecvTaskEnds == sess.phase = "up" /\ sess.sock \notin works /\ Over

-----------------------------------------------------------------------------
Network ==
    /\ \E pair \in Pairs : works' = IF pair \in works THEN works \ {pair} ELSE works \cup {pair}
    /\ UNCHANGED <<run, cooling, store, sess, status, evidence>>

\* wg_endpoint_cooldown has passed.
CooldownEnds ==
    /\ \E p \in cooling : cooling' = cooling \ {p}
    /\ UNCHANGED <<works, run, store, sess, status, evidence>>

Stop ==
    /\ run.pc # "off"
    /\ run' = [run EXCEPT !.pc = "off", !.chosen = NoPair]
    /\ sess' = NoSession
    /\ status' = "ended"
    /\ evidence' = NoPair
    /\ UNCHANGED <<works, cooling, store>>

Choosing == TryTeam \/ TryCached \/ Top \/ Retry \/ TryList \/ TryForced \/ Hunt \/ Use
Session == Validate \/ Expose \/ ValidationFails \/ SendTaskEnds

Next ==
    \/ Choosing \/ Session \/ Receive \/ Health \/ LocalDies \/ RecvTaskEnds
    \/ \E forced \in Forcible \cup {None}, imported \in {<<>>, Imported}, fallback \in BOOLEAN :
         Start(forced, imported, fallback)
    \/ Network \/ CooldownEnds \/ Stop

Spec == Init /\ [][Next]_vars

FairSpec ==
    /\ Spec
    /\ WF_vars(Choosing) /\ WF_vars(Session)
    /\ WF_vars(Health) /\ WF_vars(CooldownEnds)

-----------------------------------------------------------------------------
(* Properties.                                                             *)

\* An endpoint on a cooldown is neither used nor about to be retried, unless the
\* user pinned the endpoints: two bad sessions keep the loop off it.
CooldownKept ==
    ~run.pinned /\ run.lastGood # NoPair /\ run.pc # "off" => run.lastGood[1] \notin cooling

\* "connected" is announced for the session whose own socket passed the data
\* check, once its local side exists.
NoFakeConnect ==
    sess.phase = "up" => /\ sess.sock = run.chosen
                         /\ sess.local # "none"
                         /\ status = "connected"

\* A peer that has fallen silent does not hold the run up.
SilenceNoticed == sess.phase = "up" /\ sess.sock \notin works ~> sess.phase # "up" \/ sess.sock \in works

\* Once some pair works for good and nothing else changes, the run keeps coming
\* up until it ends: cooldowns, retries and rescans never leave it stuck.
Recovers ==
    <>[][FALSE]_works /\ <>[](works # {}) => []<>(sess.phase = "up" \/ run.pc = "off")

Loop == INSTANCE Supervisor WITH
    Trusted <- {},
    phase <- IF run.pc = "off" THEN "off"
             ELSE IF run.pc # "tunnel" THEN "select"
             ELSE IF sess.phase = "up" THEN "up" ELSE "raise",
    peer <- IF run.pc = "tunnel" THEN run.chosen[1] ELSE None,
    proven <- IF evidence = NoPair THEN {} ELSE {evidence[1]},
    connected <- status = "connected"

\* run_wireguard implements the contract of a reconnect loop, with no exception
\* for a forced endpoint.
LoopSpec == Loop!Spec
=============================================================================
