-------------------------- MODULE MasqueLoopProofs --------------------------
(***************************************************************************)
(* run_masque, for any gateways, ladders, caches and rejection limit: the  *)
(* tunnel it raises is the one the last check accepted, a renewal is asked *)
(* for only after enough different gateways refused, and the loop          *)
(* implements the contract of a reconnect loop.  And the identity it runs  *)
(* with (Identity): a saved registration that works is kept, and a         *)
(* refused one is replaced.                                                *)
(***************************************************************************)
EXTENDS MasqueLoop, Identity, FiniteSetTheorems, SequenceTheorems, TLAPS

Chosen == {"use", "tunnel"}

\* Evidence lives from the check that accepts a gateway to the end of the round.
NoEarlyEvidence == run.pc \notin Chosen => evidence = NoEvidence

\* What is used was forced by the user, or accepted by the last check.
ChosenBacked ==
    run.pc \in Chosen =>
        /\ run.chosen \in Peers
        /\ run.chosen = run.forced \/ run.chosen = evidence.peer

ForcedAllowed == run.forced \in Forcible \cup {None}

\* Between the check and the tunnel nobody touches the transport or the
\* certificate the check was made with.
EvidenceFresh ==
    run.pc = "use" /\ run.forced = None =>
        evidence = [peer |-> run.chosen, via |-> Transport, cert |-> run.cert]

\* A tunnel task exists exactly while the loop waits for it.
TunnelWhenWaiting == run.pc = "tunnel" <=> tun.phase # "none"

\* The rejections of the HTTP/3 passes come from as many gateways, all of them
\* before the one whose turn it is.
RefusersCounted ==
    run.pc \in {"pass1", "again1"} =>
        /\ IsFiniteSet(refusers)
        /\ Cardinality(refusers) = run.rejects
        /\ refusers \subseteq {run.list[j] : j \in 1 .. run.at - 1}
        /\ run.rejects <= Limit

\* Pass 2 counts on from pass 1 and may ask a gateway again: a positive count
\* still means that somebody refused.
RefusedBySomebody == run.rejects > 0 => refusers # {}

Counting ==
    /\ RefusersCounted
    /\ RefusedBySomebody
    /\ RenewalJustified
    /\ run.pc = "refresh2" => run.rejects > 0

Evidenced ==
    /\ NoEarlyEvidence
    /\ ChosenBacked
    /\ ForcedAllowed
    /\ EvidenceFresh
    /\ EvidenceHolds
    /\ TunnelWhenWaiting
    /\ ConnectedMeansUp

MasqueInv == TypeOK /\ Evidenced /\ Counting
-----------------------------------------------------------------------------
(* Types.                                                                  *)

\* The candidates of a run are gateways.
LEMMA KnownType == ASSUME TypeOK, NEW cache \in BOOLEAN, NEW quick \in BOOLEAN
                   PROVE  Known(cache, quick) \in Seq(Peers)
<1>1. \A p \in Peers \cup {None} : Some(p) \in Seq(Peers)
  BY DEF Some
<1>2. store.peer \in Peers \cup {None}
  BY DEF TypeOK
<1>3. Some(Team) \in Seq(Peers) /\ Some(store.peer) \in Seq(Peers) /\ Some(Account) \in Seq(Peers)
  BY <1>1, <1>2, ConstantsAssumption
<1> QED
  BY <1>3, ConstantsAssumption DEF Known

Places == {"off", "refresh1", "refresh2", "use", "tunnel"} \cup Passes \cup Looping

RunOK ==
    run \in [pc : Places, known : Seq(Peers), list : Seq(Peers), at : Nat \ {0}, rejects : Nat, cert : Certs,
             forced : Peers \cup {None}, chosen : Peers \cup {None}, lastGood : Peers \cup {None}]
EdgeOK == edge \in [serves : [Transports -> SUBSET Peers], cert : Certs]
FlagsOK == flags \in [preferred : BOOLEAN, fallback : BOOLEAN]
StoreOK == store \in [cert : Certs, peer : Peers \cup {None}]
TunOK == tun \in [phase : {"none", "starting", "up"}, via : Transports, local : BOOLEAN]
EvidenceOK == evidence \in [peer : Peers \cup {None}, via : Transports, cert : Certs]
RestOK == status \in {"ended", "starting", "connecting", "connected"} /\ refusers \in SUBSET Peers

\* The type invariant, part by part.
LEMMA TypeParts ==
    TypeOK <=> RunOK /\ EdgeOK /\ FlagsOK /\ StoreOK /\ TunOK /\ EvidenceOK /\ RestOK
<1> QED
  BY DEF TypeOK, RunOK, EdgeOK, FlagsOK, StoreOK, TunOK, EvidenceOK, RestOK, Places

Begun ==
    \E preferred, cache, quick \in BOOLEAN, forced \in Forcible \cup {None} :
        Start(preferred, forced, cache, quick)

\* A check accepted p: what Dial, Retry, Hunt and HuntH2 have in common.
Accepts(p) ==
    /\ run.pc \in Passes \cup Looping
    /\ run' = [run EXCEPT !.pc = "use", !.chosen = p]
    /\ Choose(p)
    /\ UNCHANGED <<edge, flags, store, tun, status, refusers>>

\* The candidate whose turn it is in a pass is a gateway.
LEMMA CandidateType == ASSUME RunOK, ~PassOver PROVE run.list[run.at] \in Peers
<1>1. run.list \in Seq(Peers) /\ run.at \in Nat \ {0}
  BY DEF RunOK
<1>2. run.at <= Len(run.list)
  BY <1>1 DEF PassOver
<1> QED
  BY <1>1, <1>2

\* A turn of a pass accepts a gateway, or adds it to the refusers, or goes on.
LEMMA DialCases ==
    ASSUME RunOK, Dial
    PROVE  \/ \E p \in Peers : Accepts(p)
           \/ /\ ~Repeated /\ run.list[run.at] \in Peers
              /\ run' = [run EXCEPT !.at = @ + 1, !.rejects = @ + 1]
              /\ refusers' = refusers \cup {run.list[run.at]}
              /\ UNCHANGED <<edge, flags, store, tun, status, evidence>>
           \/ /\ run' = [run EXCEPT !.at = @ + 1]
              /\ UNCHANGED <<edge, flags, store, tun, status, evidence, refusers>>
<1>1. run.list[run.at] \in Peers
  BY CandidateType DEF Dial
<1> QED
  BY <1>1 DEF Dial, Accepts

\* The last good gateway is taken again, or a selection begins.
LEMMA RetryCases ==
    ASSUME TypeOK, Retry
    PROVE  \/ \E p \in Peers : Accepts(p)
           \/ /\ run' = [run EXCEPT !.pc = "select"]
              /\ UNCHANGED <<edge, flags, store, tun, status, evidence, refusers>>
<1>1. Verdict(run.lastGood) = "Accepted" => run.lastGood \in Peers
  <2>1. edge.serves[Transport] \in SUBSET Peers
    BY DEF TypeOK, Transport, Transports
  <2> QED
    BY <2>1 DEF Verdict
<1> QED
  BY <1>1 DEF Retry, Accepts, Looping

\* Both scans accept a gateway or turn back, the first one perhaps to the second.
LEMMA HuntCases ==
    ASSUME Hunt \/ HuntH2
    PROVE  \/ \E p \in Peers : Accepts(p)
           \/ /\ \E next \in {"huntH2", "select", "retry"} : run' = [run EXCEPT !.pc = next]
              /\ \E b \in BOOLEAN : flags' \in {flags, [flags EXCEPT !.fallback = b]}
              /\ UNCHANGED <<edge, store, tun, status, evidence, refusers>>
<1>1. CASE Hunt
  BY <1>1 DEF Hunt, Accepts, Looping, TopOfLoop
<1>2. CASE HuntH2
  <2>1. Gateways \subseteq Peers
    BY ConstantsAssumption
  <2> QED
    BY <1>2, <2>1 DEF HuntH2, Accepts, Looping, TopOfLoop
<1> QED
  BY <1>1, <1>2

\* The lists stay lists of gateways and the positions stay positions.
LEMMA RunStep == ASSUME TypeOK, Next PROVE RunOK'
<1>t. RunOK /\ EdgeOK /\ StoreOK
  BY TypeParts
<1>a. ASSUME NEW p \in Peers, Accepts(p) PROVE RunOK'
  BY <1>t, <1>a DEF Accepts, RunOK, Places
<1>1. CASE Begun
  <2> PICK preferred \in BOOLEAN, cache \in BOOLEAN, quick \in BOOLEAN, forced \in Forcible \cup {None} :
          Start(preferred, forced, cache, quick)
    BY <1>1 DEF Begun
  <2>1. Known(cache, quick) \in Seq(Peers)
    BY KnownType
  <2> QED
    BY <1>t, <2>1, ConstantsAssumption DEF Start, RunOK, StoreOK, Places, Passes, Looping
<1>2. CASE Dial
  <2>1. run.at + 1 \in Nat \ {0} /\ run.rejects + 1 \in Nat
    BY <1>t DEF RunOK
  <2> QED
    BY <1>t, <1>2, <1>a, <2>1, DialCases DEF RunOK
<1>3. CASE EndPass1 \/ EndAgain1
  <2>1. run.known \o LadderH2 \in Seq(Peers)
    BY <1>t, ConstantsAssumption DEF RunOK
  <2>2. CASE GiveUp
    BY <1>t, <2>2 DEF GiveUp, RunOK, Places
  <2>3. ASSUME NEW r \in Nat, SecondPass(r) PROVE RunOK'
    <3>1. \/ run' = [run EXCEPT !.pc = "select"]
          \/ run' = [run EXCEPT !.pc = "pass2", !.list = run.known \o LadderH2, !.at = 1, !.rejects = r]
      BY <2>3 DEF SecondPass, Passing
    <3>2. CASE run' = [run EXCEPT !.pc = "select"]
      BY <1>t, <3>2 DEF RunOK, Places, Looping
    <3>3. CASE run' = [run EXCEPT !.pc = "pass2", !.list = run.known \o LadderH2, !.at = 1, !.rejects = r]
      <4>1. "pass2" \in Places /\ 1 \in Nat \ {0}
        BY DEF Places, Passes
      <4> QED
        BY <1>t, <2>1, <3>3, <4>1 DEF RunOK
    <3> QED
      BY <3>1, <3>2, <3>3
  <2>4. CASE run' = [run EXCEPT !.pc = "refresh1"]
    BY <1>t, <2>4 DEF RunOK, Places
  <2>5. run.rejects \in Nat /\ 0 \in Nat
    BY <1>t DEF RunOK
  <2> QED
    BY <1>3, <2>2, <2>3, <2>4, <2>5 DEF EndPass1, EndAgain1
<1>4. CASE EndPass2
  BY <1>t, <1>4 DEF EndPass2, GiveUp, RunOK, Places, Looping
<1>5. CASE Refresh
  <2>1. edge.cert \in Certs
    BY <1>t DEF EdgeOK
  <2> QED
    <3>1. CASE run' = [run EXCEPT !.pc = "off"]
      BY <1>t, <3>1 DEF RunOK, Places
    <3>2. ASSUME NEW next \in {"again1", "again2"},
                 run' = [run EXCEPT !.pc = next, !.at = 1, !.rejects = 0, !.cert = edge.cert]
          PROVE  RunOK'
      <4>1. next \in Places /\ 1 \in Nat \ {0} /\ 0 \in Nat
        BY DEF Places, Passes
      <4> QED
        BY <1>t, <2>1, <3>2, <4>1 DEF RunOK
    <3> QED
      BY <1>5, <3>1, <3>2 DEF Refresh, GiveUp
<1>6. CASE Retry
  BY <1>t, <1>6, <1>a, RetryCases DEF RunOK, Places, Looping
<1>7. CASE Hunt \/ HuntH2
  BY <1>t, <1>7, <1>a, HuntCases DEF RunOK, Places, Looping
<1>8. CASE Select \/ Use
  BY <1>t, <1>8 DEF Select, Use, RunOK, Places, Looping
<1>9. CASE TunnelFails \/ TunnelEnds \/ Stop
  BY <1>t, <1>9 DEF TunnelFails, TunnelEnds, TunnelOver, Stop, RunOK, Places, Looping
<1>10. CASE TunnelReady \/ LocalDies \/ Network \/ Revoke
  BY <1>t, <1>10 DEF TunnelReady, LocalDies, Network, Revoke, RunOK
<1> QED
  BY <1>1, <1>2, <1>3, <1>4, <1>5, <1>6, <1>7, <1>8, <1>9, <1>10 DEF Next, CoreStep, Begun

\* What the environment and the process keep stays well formed.
LEMMA WorldStep == ASSUME TypeOK, Next PROVE EdgeOK' /\ FlagsOK' /\ StoreOK'
<1>t. RunOK /\ EdgeOK /\ FlagsOK /\ StoreOK
  BY TypeParts
<1>a. ASSUME NEW p \in Peers, Accepts(p) PROVE EdgeOK' /\ FlagsOK' /\ StoreOK'
  BY <1>t, <1>a DEF Accepts, EdgeOK, FlagsOK, StoreOK
<1>1. CASE Begun
  BY <1>t, <1>1 DEF Begun, Start, EdgeOK, FlagsOK, StoreOK
<1>2. CASE Dial \/ Retry
  BY <1>t, <1>2, <1>a, DialCases, RetryCases DEF EdgeOK, FlagsOK, StoreOK
<1>3. CASE EndPass1 \/ EndAgain1 \/ EndPass2
  BY <1>t, <1>3 DEF EndPass1, EndAgain1, EndPass2, SecondPass, EdgeOK, FlagsOK, StoreOK
<1>4. CASE Refresh
  BY <1>t, <1>4 DEF Refresh, EdgeOK, FlagsOK, StoreOK
<1>5. CASE Hunt \/ HuntH2
  BY <1>t, <1>5, <1>a, HuntCases DEF EdgeOK, FlagsOK, StoreOK
<1>6. CASE Use
  BY <1>t, <1>6 DEF Use, RunOK, EdgeOK, FlagsOK, StoreOK
<1>7. CASE Select \/ TunnelFails \/ TunnelEnds \/ Stop \/ TunnelReady \/ LocalDies
  BY <1>t, <1>7 DEF Select, TunnelFails, TunnelEnds, TunnelOver, Stop, TunnelReady, LocalDies,
                    EdgeOK, FlagsOK, StoreOK
<1>8. CASE Network
  <2> PICK t \in Transports, p \in Peers :
          edge' = [edge EXCEPT !.serves[t] = IF p \in @ THEN @ \ {p} ELSE @ \cup {p}]
    BY <1>8 DEF Network
  <2>1. edge.serves \in [Transports -> SUBSET Peers]
    BY <1>t DEF EdgeOK
  <2> DEFINE new == IF p \in edge.serves[t] THEN edge.serves[t] \ {p} ELSE edge.serves[t] \cup {p}
  <2>2. new \in SUBSET Peers
    BY <2>1
  <2>3. [edge.serves EXCEPT ![t] = new] \in [Transports -> SUBSET Peers]
    BY <2>1, <2>2
  <2>4. edge' = [edge EXCEPT !.serves = [edge.serves EXCEPT ![t] = new]]
    OBVIOUS
  <2> HIDE DEF new
  <2> QED
    BY <1>t, <1>8, <2>3, <2>4 DEF Network, EdgeOK, FlagsOK, StoreOK
<1>9. CASE Revoke
  <2>1. edge.cert + 1 \in Certs
    BY <1>t, <1>9, ConstantsAssumption DEF Revoke, EdgeOK, Certs
  <2> QED
    BY <1>t, <1>9, <2>1 DEF Revoke, EdgeOK, FlagsOK, StoreOK
<1> QED
  BY <1>1, <1>2, <1>3, <1>4, <1>5, <1>6, <1>7, <1>8, <1>9 DEF Next, CoreStep, Begun

\* So do the tunnel, the status and the history.
LEMMA SessionStep == ASSUME TypeOK, Next PROVE TunOK' /\ EvidenceOK' /\ RestOK'
<1>t. RunOK /\ TunOK /\ EvidenceOK /\ RestOK /\ Transport \in Transports
  BY TypeParts DEF Transport, Transports
<1>a. ASSUME NEW p \in Peers, Accepts(p) PROVE TunOK' /\ EvidenceOK' /\ RestOK'
  BY <1>t, <1>a DEF Accepts, Choose, RunOK, TunOK, EvidenceOK, RestOK
<1>1. CASE Begun
  BY <1>t, <1>1 DEF Begun, Start, TunOK, EvidenceOK, RestOK
<1>2. CASE Dial
  BY <1>t, <1>2, <1>a, DialCases DEF TunOK, EvidenceOK, RestOK
<1>3. CASE EndPass1 \/ EndAgain1 \/ EndPass2 \/ Refresh
  BY <1>t, <1>3 DEF EndPass1, EndAgain1, EndPass2, Refresh, SecondPass, GiveUp, TunOK, EvidenceOK, RestOK
<1>4. CASE Retry \/ Hunt \/ HuntH2
  BY <1>t, <1>4, <1>a, RetryCases, HuntCases DEF TunOK, EvidenceOK, RestOK
<1>5. CASE Select
  BY <1>t, <1>5 DEF Select, TunOK, EvidenceOK, RestOK
<1>9. CASE Use
  BY <1>t, <1>9 DEF Use, TunOK, EvidenceOK, RestOK
<1>8. CASE TunnelReady \/ LocalDies
  BY <1>t, <1>8 DEF TunnelReady, LocalDies, TunOK, EvidenceOK, RestOK
<1>6. CASE TunnelFails \/ TunnelEnds \/ Stop
  <2>1. NoEvidence \in [peer : Peers \cup {None}, via : Transports, cert : Certs]
    BY ConstantsAssumption DEF NoEvidence, Transports, Certs
  <2> QED
    BY <1>t, <1>6, <2>1 DEF TunnelFails, TunnelEnds, TunnelOver, Stop, TunOK, EvidenceOK, RestOK
<1>7. CASE Network \/ Revoke
  BY <1>t, <1>7 DEF Network, Revoke, TunOK, EvidenceOK, RestOK
<1> QED
  BY <1>1, <1>2, <1>3, <1>4, <1>5, <1>6, <1>7, <1>8, <1>9 DEF Next, CoreStep, Begun

\* run_masque keeps its types whatever the edge, the network and the user do.
LEMMA TypeStep == TypeOK /\ [Next]_vars => TypeOK'
<1>1. TypeOK /\ Next => TypeOK'
  <2>1. RunOK' /\ EdgeOK' /\ FlagsOK' /\ StoreOK' /\ TunOK' /\ EvidenceOK' /\ RestOK' => TypeOK'
    BY DEF TypeOK, RunOK, EdgeOK, FlagsOK, StoreOK, TunOK, EvidenceOK, RestOK, Places
  <2> QED
    BY <2>1, RunStep, WorldStep, SessionStep
<1>2. TypeOK /\ UNCHANGED vars => TypeOK'
  BY DEF TypeOK, vars
<1> QED
  BY <1>1, <1>2

-----------------------------------------------------------------------------
(* The tunnel is the one the last check accepted.                          *)

Searching == Passes \cup Looping \cup {"refresh1", "refresh2"}

\* The search for a gateway goes on: whatever pass, renewal or scan is next,
\* neither the tunnel nor the evidence nor the status is touched.
Searches ==
    /\ run.pc \in Searching
    /\ run'.pc \in Searching
    /\ run'.forced = run.forced
    /\ UNCHANGED <<tun, evidence, status>>

\* The forced gateway is used unprobed.
Forces ==
    /\ run.pc \in Searching
    /\ run.forced \in Peers
    /\ run' = [run EXCEPT !.pc = "use", !.chosen = run.forced]
    /\ UNCHANGED <<tun, evidence, status>>

\* The run ends with a refused identity.
Abandons ==
    /\ run.pc \in Searching
    /\ GiveUp
    /\ UNCHANGED <<tun, evidence>>

\* Nothing of the loop itself moves.
Outside ==
    /\ UNCHANGED <<flags, run, status, evidence>>
    /\ tun'.phase = tun.phase /\ tun'.via = tun.via

\* Every step has one of ten shapes, and only one of them raises a tunnel.
LEMMA Shapes ==
    ASSUME TypeOK, Next
    PROVE  \/ Begun \/ (\E p \in Peers : Accepts(p)) \/ Searches \/ Forces \/ Abandons
           \/ Use \/ TunnelReady \/ (tun.phase # "none" /\ TunnelOver) \/ Stop \/ Outside
<1>t. RunOK /\ TunOK
  BY TypeParts
<1> USE DEF Searching
<1>1. CASE Dial
  <2>1. run.pc \in Passes
    BY <1>1 DEF Dial
  <2>2. CASE \E p \in Peers : Accepts(p)
    BY <2>2
  <2>3. CASE run' = [run EXCEPT !.at = @ + 1, !.rejects = @ + 1] /\ UNCHANGED <<tun, status, evidence>>
    BY <1>t, <2>1, <2>3 DEF Searches, RunOK
  <2>4. CASE run' = [run EXCEPT !.at = @ + 1] /\ UNCHANGED <<tun, status, evidence>>
    BY <1>t, <2>1, <2>4 DEF Searches, RunOK
  <2> QED
    BY <1>t, <1>1, <2>2, <2>3, <2>4, DialCases
<1>2. CASE EndPass1 \/ EndAgain1
  BY <1>t, <1>2 DEF EndPass1, EndAgain1, SecondPass, Passing, Searches, Abandons, RunOK, Passes, Looping
<1>3. CASE EndPass2
  BY <1>t, <1>3 DEF EndPass2, GiveUp, Searches, Abandons, RunOK, Passes, Looping
<1>4. CASE Refresh
  BY <1>t, <1>4 DEF Refresh, Searches, Abandons, RunOK, Passes
<1>5. CASE Retry
  <2>1. run.pc \in Looping
    BY <1>5 DEF Retry, Looping
  <2> QED
    BY <1>t, <1>5, <2>1, RetryCases DEF Searches, RunOK, Looping
<1>6. CASE Hunt \/ HuntH2
  <2>1. run.pc \in Looping
    BY <1>6 DEF Hunt, HuntH2, Looping
  <2> QED
    BY <1>t, <1>6, <2>1, HuntCases DEF Searches, RunOK, Looping
<1>7. CASE Select
  BY <1>t, <1>7 DEF Select, Searches, Forces, RunOK, Looping
<1>8. CASE TunnelFails \/ TunnelEnds
  BY <1>8 DEF TunnelFails, TunnelEnds
<1>9. CASE LocalDies \/ Network \/ Revoke
  BY <1>t, <1>9 DEF LocalDies, Network, Revoke, Outside, TunOK
<1> QED
  BY <1>1, <1>2, <1>3, <1>4, <1>5, <1>6, <1>7, <1>8, <1>9 DEF Next, CoreStep, Begun

\* Between the check and the tunnel nothing changes what the check relied on.
LEMMA EvidencedStep == ASSUME TypeOK, Evidenced, Next PROVE Evidenced'
<1>t. RunOK /\ TunOK
  BY TypeParts
<1> USE DEF Evidenced, NoEarlyEvidence, ChosenBacked, ForcedAllowed, EvidenceFresh, EvidenceHolds,
            TunnelWhenWaiting, ConnectedMeansUp, Chosen
<1>1. CASE Begun
  BY <1>t, <1>1 DEF Begun, Start, RunOK, TunOK
<1>2. ASSUME NEW p \in Peers, Accepts(p) PROVE Evidenced'
  <2>1. /\ run.pc \notin Chosen
        /\ run'.pc = "use" /\ run'.chosen = p
        /\ run'.forced = run.forced /\ run'.cert = run.cert
    BY <1>t, <1>2 DEF Accepts, RunOK, Passes, Looping
  <2>2. evidence' = [peer |-> p, via |-> Transport', cert |-> run'.cert]
    BY <1>2, <2>1 DEF Accepts, Choose, Transport
  <2>3. UNCHANGED <<tun, status>>
    BY <1>2 DEF Accepts
  <2> QED
    BY <2>1, <2>2, <2>3
<1>3. CASE Searches
  BY <1>t, <1>3 DEF Searches, Searching, Passes, Looping
<1>4. CASE Forces
  <2>1. /\ run.pc \notin Chosen
        /\ run'.pc = "use" /\ run'.chosen = run.forced /\ run'.forced = run.forced
    BY <1>t, <1>4 DEF Forces, RunOK, Searching, Passes, Looping
  <2>2. run.forced \in Peers /\ run.forced # None /\ UNCHANGED <<tun, evidence, status>>
    BY <1>4, ConstantsAssumption DEF Forces
  <2> QED
    BY <2>1, <2>2
<1>5. CASE Abandons
  <2>1. run.pc \notin Chosen /\ run'.pc = "off" /\ run'.forced = run.forced
    BY <1>t, <1>5 DEF Abandons, GiveUp, RunOK, Searching, Passes, Looping
  <2> QED
    BY <1>5, <2>1 DEF Abandons, GiveUp
<1>6. CASE Use
  <2>1. /\ run.pc = "use" /\ run'.pc = "tunnel" /\ run'.chosen = run.chosen
        /\ run'.forced = run.forced /\ run'.cert = run.cert
    BY <1>t, <1>6 DEF Use, RunOK
  <2>2. tun'.phase = "starting" /\ tun'.via = Transport /\ UNCHANGED <<evidence, status>>
    BY <1>6 DEF Use
  <2> QED
    BY <2>1, <2>2
<1>7. CASE TunnelReady
  <2>1. tun.phase = "starting" /\ tun'.phase = "up" /\ tun'.via = tun.via
    BY <1>t, <1>7 DEF TunnelReady, TunOK
  <2>2. UNCHANGED <<run, flags, evidence>>
    BY <1>7 DEF TunnelReady
  <2> QED
    BY <2>1, <2>2 DEF Transport
<1>8. CASE tun.phase # "none" /\ TunnelOver
  <2>1. run'.pc = "retry" /\ run'.forced = run.forced /\ tun'.phase = "none"
    BY <1>t, <1>8 DEF TunnelOver, RunOK, TunOK
  <2>2. evidence' = NoEvidence /\ status' = "connecting"
    BY <1>8 DEF TunnelOver
  <2> QED
    BY <2>1, <2>2
<1>9. CASE Stop
  <2>1. run'.pc = "off" /\ run'.forced = run.forced /\ tun'.phase = "none"
    BY <1>t, <1>9 DEF Stop, RunOK, TunOK
  <2>2. evidence' = NoEvidence /\ status' = "ended"
    BY <1>9 DEF Stop
  <2> QED
    BY <2>1, <2>2
<1>10. CASE Outside
  BY <1>10 DEF Outside, Transport
<1> QED
  BY <1>1, <1>2, <1>3, <1>4, <1>5, <1>6, <1>7, <1>8, <1>9, <1>10, Shapes

-----------------------------------------------------------------------------
(* A renewal is justified by the gateways that refused.                    *)

\* A step out of the HTTP/3 passes to anywhere but a renewal keeps the count.
LEMMA CountKept ==
    ASSUME Counting, run'.pc \notin {"pass1", "again1", "refresh1", "refresh2"},
           run'.rejects = run.rejects, UNCHANGED refusers
    PROVE  Counting'
<1> QED
  BY DEF Counting, RefusersCounted, RefusedBySomebody, RenewalJustified

\* A fresh count, of a run or of a renewed certificate, starts from nobody.
LEMMA CountStarts ==
    ASSUME refusers' = {}, run'.rejects = 0, run'.pc \notin {"refresh1", "refresh2"}
    PROVE  Counting'
<1>1. IsFiniteSet({}) /\ Cardinality({}) = 0
  BY FS_EmptySet
<1> QED
  BY <1>1, ConstantsAssumption DEF Counting, RefusersCounted, RefusedBySomebody, RenewalJustified

\* A turn of a pass counts a refusal together with the gateway it came from: one
\* that was asked before is skipped, so the gateway is a new one.
LEMMA DialCounts == ASSUME TypeOK, Counting, Dial PROVE Counting'
<1>t. RunOK
  BY TypeParts
<1>p. run.pc \in Passes /\ run.rejects < Limit /\ run.at \in Nat \ {0} /\ run.rejects \in Nat
  BY <1>t, ConstantsAssumption DEF Dial, PassOver, RunOK
<1>1. ASSUME NEW p \in Peers, Accepts(p) PROVE Counting'
  <2>1. run'.pc = "use" /\ run'.rejects = run.rejects /\ UNCHANGED refusers
    BY <1>t, <1>1 DEF Accepts, RunOK
  <2> QED
    BY <2>1, CountKept
<1>2. CASE /\ ~Repeated /\ run.list[run.at] \in Peers
           /\ run' = [run EXCEPT !.at = @ + 1, !.rejects = @ + 1]
           /\ refusers' = refusers \cup {run.list[run.at]}
  <2>1. /\ run'.pc = run.pc /\ run'.list = run.list
        /\ run'.at = run.at + 1 /\ run'.rejects = run.rejects + 1
    BY <1>t, <1>2 DEF RunOK
  <2>2. RefusersCounted'
    <3> SUFFICES ASSUME run.pc \in {"pass1", "again1"}
                 PROVE  /\ IsFiniteSet(refusers') /\ Cardinality(refusers') = run'.rejects
                        /\ refusers' \subseteq {run'.list[j] : j \in 1 .. run'.at - 1}
                        /\ run'.rejects <= Limit
      BY <2>1 DEF RefusersCounted
    <3>1. /\ IsFiniteSet(refusers) /\ Cardinality(refusers) = run.rejects
          /\ refusers \subseteq {run.list[j] : j \in 1 .. run.at - 1}
      BY DEF Counting, RefusersCounted
    <3>2. run.list[run.at] \notin refusers
      BY <1>2, <3>1 DEF Repeated
    <3>3. IsFiniteSet(refusers') /\ Cardinality(refusers') = run.rejects + 1
      BY <1>2, <3>1, <3>2, FS_AddElement
    <3>4. 1 .. run'.at - 1 = (1 .. run.at - 1) \cup {run.at}
      BY <1>p, <2>1
    <3>5. refusers' \subseteq {run'.list[j] : j \in 1 .. run'.at - 1}
      BY <1>2, <2>1, <3>1, <3>4
    <3>6. run'.rejects <= Limit
      BY <1>p, <2>1, ConstantsAssumption
    <3> QED
      BY <2>1, <3>3, <3>5, <3>6
  <2>3. refusers' # {} /\ run'.pc \notin {"refresh1", "refresh2"}
    BY <1>p, <1>2, <2>1 DEF Passes
  <2> QED
    BY <2>2, <2>3 DEF Counting, RefusedBySomebody, RenewalJustified
<1>3. CASE run' = [run EXCEPT !.at = @ + 1] /\ UNCHANGED refusers
  <2>1. /\ run'.pc = run.pc /\ run'.list = run.list
        /\ run'.at = run.at + 1 /\ run'.rejects = run.rejects
    BY <1>t, <1>3 DEF RunOK
  <2>2. 1 .. run.at - 1 \subseteq 1 .. run'.at - 1
    BY <1>p, <2>1
  <2> QED
    BY <1>p, <1>3, <2>1, <2>2 DEF Counting, RefusersCounted, RefusedBySomebody, RenewalJustified, Passes
<1> QED
  BY <1>t, <1>1, <1>2, <1>3, DialCases

\* A renewal begins only on a count that has reached the limit, or in pass 2 on
\* any refusal at all.
LEMMA CountingStep == ASSUME TypeOK, Counting, Next PROVE Counting'
<1>t. RunOK
  BY TypeParts
<1>1. CASE Begun
  BY <1>1, CountStarts DEF Begun, Start
<1>2. CASE EndPass1
  <2>1. CASE run.rejects >= Limit
    <3>1. run'.pc = "refresh1" /\ run'.rejects = run.rejects /\ UNCHANGED refusers
      BY <1>t, <1>2, <2>1 DEF EndPass1, RunOK
    <3>2. Cardinality(refusers) = Limit
      BY <1>t, <1>2, <2>1, ConstantsAssumption DEF EndPass1, Counting, RefusersCounted, RunOK
    <3> QED
      BY <3>1, <3>2 DEF Counting, RefusersCounted, RefusedBySomebody, RenewalJustified
  <2>2. CASE ~(run.rejects >= Limit)
    <3>1. /\ run'.pc \in {"select", "pass2"} /\ run'.rejects = run.rejects
          /\ UNCHANGED refusers
      BY <1>t, <1>2, <2>2 DEF EndPass1, SecondPass, Passing, RunOK
    <3> QED
      BY <3>1, CountKept
  <2> QED
    BY <2>1, <2>2
<1>3. CASE EndAgain1
  <2>1. run.rejects \in Nat
    BY <1>t DEF RunOK
  <2>2. UNCHANGED refusers
    BY <1>3 DEF EndAgain1
  <2>3. CASE GiveUp
    <3>1. run'.pc = "off" /\ run'.rejects = run.rejects
      BY <1>t, <2>3 DEF GiveUp, RunOK
    <3> QED
      BY <2>2, <3>1, CountKept
  <2>4. CASE run.rejects = 0 /\ SecondPass(0)
    <3>1. run'.pc \in {"select", "pass2"} /\ run'.rejects = run.rejects
      BY <1>t, <2>4 DEF SecondPass, Passing, RunOK
    <3> QED
      BY <2>2, <3>1, CountKept
  <2> QED
    BY <1>3, <2>1, <2>3, <2>4 DEF EndAgain1
<1>4. CASE EndPass2
  <2>1. /\ run'.pc \in {"select", "refresh2", "off"} /\ run'.rejects = run.rejects
        /\ run'.pc = "refresh2" => run.rejects > 0
        /\ UNCHANGED refusers
    BY <1>t, <1>4 DEF EndPass2, GiveUp, RunOK
  <2> QED
    BY <2>1 DEF Counting, RefusersCounted, RefusedBySomebody, RenewalJustified
<1>5. CASE Refresh
  <2>1. CASE GiveUp /\ UNCHANGED refusers
    <3>1. run'.pc = "off" /\ run'.rejects = run.rejects
      BY <1>t, <2>1 DEF GiveUp, RunOK
    <3> QED
      BY <2>1, <3>1, CountKept
  <2>2. CASE ~(GiveUp /\ UNCHANGED refusers)
    <3>1. run'.pc \in {"again1", "again2"} /\ run'.rejects = 0 /\ refusers' = {}
      BY <1>t, <1>5, <2>2 DEF Refresh, RunOK
    <3> QED
      BY <3>1, CountStarts
  <2> QED
    BY <2>1, <2>2
<1>6. CASE Retry \/ Hunt \/ HuntH2
  <2>1. /\ run'.pc \in {"use", "select", "huntH2", "retry"} /\ run'.rejects = run.rejects
        /\ UNCHANGED refusers
    BY <1>t, <1>6, RetryCases, HuntCases DEF Accepts, RunOK
  <2> QED
    BY <2>1, CountKept
<1>7. CASE Select \/ Use \/ TunnelFails \/ TunnelEnds \/ Stop
  <2>1. /\ run'.pc \in {"use", "hunt", "tunnel", "retry", "off"} /\ run'.rejects = run.rejects
        /\ UNCHANGED refusers
    BY <1>t, <1>7 DEF Select, Use, TunnelFails, TunnelEnds, TunnelOver, Stop, RunOK
  <2> QED
    BY <2>1, CountKept
<1>8. CASE TunnelReady \/ LocalDies \/ Network \/ Revoke
  BY <1>8 DEF TunnelReady, LocalDies, Network, Revoke, Counting, RefusersCounted, RefusedBySomebody,
              RenewalJustified
<1>9. CASE Dial
  BY <1>9, DialCounts
<1> QED
  BY <1>1, <1>2, <1>3, <1>4, <1>5, <1>6, <1>7, <1>8, <1>9 DEF Next, CoreStep, Begun

-----------------------------------------------------------------------------
(* The theorems.                                                           *)

\* No run, no tunnel, no evidence and no refusal at first.
LEMMA MasqueInit == Init => MasqueInv
<1> SUFFICES ASSUME Init PROVE MasqueInv
  OBVIOUS
<1>1. TypeOK
  <2>1. 0 \in Certs /\ <<>> \in Seq(Peers)
    BY ConstantsAssumption DEF Certs
  <2>2. RunOK
    BY <2>1 DEF Init, RunOK, Places
  <2>3. EdgeOK /\ FlagsOK /\ StoreOK /\ TunOK /\ EvidenceOK /\ RestOK
    BY <2>1 DEF Init, EdgeOK, FlagsOK, StoreOK, TunOK, EvidenceOK, RestOK, NoEvidence, Transports
  <2> QED
    BY <2>2, <2>3, TypeParts
<1>2. Evidenced
  BY DEF Init, Evidenced, NoEarlyEvidence, ChosenBacked, ForcedAllowed, EvidenceFresh, EvidenceHolds,
         TunnelWhenWaiting, ConnectedMeansUp, Chosen
<1>3. Counting
  BY DEF Init, Counting, RefusersCounted, RefusedBySomebody, RenewalJustified
<1> QED
  BY <1>1, <1>2, <1>3 DEF MasqueInv

\* The inductive invariant of run_masque.
THEOREM MasqueInvariant == Spec => []MasqueInv
<1>1. MasqueInv /\ [Next]_vars => MasqueInv'
  <2>1. ASSUME MasqueInv, Next PROVE MasqueInv'
    BY <2>1, TypeStep, EvidencedStep, CountingStep DEF MasqueInv
  <2>2. ASSUME MasqueInv, UNCHANGED vars PROVE MasqueInv'
    <3>1. TypeOK'
      BY <2>2, TypeStep DEF MasqueInv
    <3>2. Evidenced'
      BY <2>2 DEF MasqueInv, vars, Evidenced, NoEarlyEvidence, ChosenBacked, ForcedAllowed, EvidenceFresh,
                  EvidenceHolds, TunnelWhenWaiting, ConnectedMeansUp, Transport
    <3>3. Counting'
      BY <2>2 DEF MasqueInv, vars, Counting, RefusersCounted, RefusedBySomebody, RenewalJustified
    <3> QED
      BY <3>1, <3>2, <3>3 DEF MasqueInv
  <2> QED
    BY <2>1, <2>2
<1> QED
  BY <1>1, MasqueInit, PTL DEF Spec

\* run_masque_tunnel reads the HTTP/2 flag again, and still raises the tunnel over
\* the transport and with the certificate of the check that chose the gateway.
THEOREM EvidenceSafe == Spec => []EvidenceHolds
<1>1. MasqueInv => EvidenceHolds
  BY DEF MasqueInv, Evidenced
<1> QED
  BY <1>1, MasqueInvariant, PTL

\* refresh_refused_masque_identity is reached only after Limit different gateways
\* (in pass 2: at least one) refused the certificate, however the lists repeat.
THEOREM RenewalSafe == Spec => []RenewalJustified
<1>1. MasqueInv => RenewalJustified
  BY DEF MasqueInv, Counting
<1> QED
  BY <1>1, MasqueInvariant, PTL

\* HTTP/2 comes on only after the HTTP/3 passes, and whoever leaves a search with
\* it on has a tunnel over it.
Earned ==
    /\ run.pc \in {"pass1", "again1", "refresh1"} => ~flags.fallback
    /\ flags.fallback /\ run.pc \in {"retry", "select", "hunt", "tunnel"} =>
          run.lastGood # None /\ tun.via = "h2"

\* Where a step leaves the flag, the last good gateway and the tunnel alone, Earned
\* is kept if the loop is in a place of which it says no more than before.
LEMMA EarnedKept ==
    ASSUME TypeOK, Earned, flags' = flags, tun'.via = tun.via, run'.lastGood = run.lastGood,
           \/ run'.pc \in {"off", "use", "huntH2", "pass2", "again2", "refresh2"}
           \/ run'.pc = run.pc
           \/ run'.pc \in {"refresh1", "again1"} /\ run.pc \in {"pass1", "refresh1"}
           \/ /\ run'.pc \in {"retry", "select", "hunt"}
              /\ run.pc \in {"pass1", "again1", "retry", "select", "hunt", "tunnel"}
    PROVE  Earned'
<1>1. CASE run'.pc \in {"off", "use", "huntH2", "pass2", "again2", "refresh2"}
  BY <1>1 DEF Earned
<1>2. CASE run'.pc = run.pc
  BY <1>2 DEF Earned
<1>3. CASE run'.pc \in {"refresh1", "again1"} /\ run.pc \in {"pass1", "refresh1"}
  BY <1>3 DEF Earned
<1>4. CASE /\ run'.pc \in {"retry", "select", "hunt"}
           /\ run.pc \in {"pass1", "again1", "retry", "select", "hunt", "tunnel"}
  BY <1>4 DEF Earned
<1> QED
  BY <1>1, <1>2, <1>3, <1>4

\* A pass or a scan that hands HTTP/3 back leaves nothing to be earned.
LEMMA EarnedCleared == ASSUME flags'.fallback = FALSE PROVE Earned'
  BY DEF Earned

\* The HTTP/3 passes are over: HTTP/2 is on by preference, or comes on for pass 2.
LEMMA SecondPassEarned ==
    ASSUME TypeOK, Earned, run.pc \in {"pass1", "again1"}, NEW rejects, SecondPass(rejects), tun' = tun
    PROVE  Earned'
<1>1. run \in [pc : Places, known : Seq(Peers), list : Seq(Peers), at : Nat \ {0}, rejects : Nat, cert : Certs,
               forced : Peers \cup {None}, chosen : Peers \cup {None}, lastGood : Peers \cup {None}]
  BY TypeParts DEF RunOK
<1>2. CASE run' = [run EXCEPT !.pc = "select"] /\ flags' = flags
  <2>1. run'.pc = "select" /\ run'.lastGood = run.lastGood
    BY <1>1, <1>2
  <2> QED
    BY <1>2, <2>1, EarnedKept
<1>3. CASE Passing("pass2", run.known \o LadderH2, rejects)
  <2>1. run'.pc = "pass2"
    BY <1>1, <1>3 DEF Passing
  <2> QED
    BY <2>1 DEF Earned
<1> QED
  BY <1>2, <1>3 DEF SecondPass

\* Every step of the loop keeps the flag earned.
LEMMA EarnedStep == ASSUME TypeOK, Evidenced, Earned, Next PROVE Earned'
<1>t. /\ run \in [pc : Places, known : Seq(Peers), list : Seq(Peers), at : Nat \ {0}, rejects : Nat, cert : Certs,
                  forced : Peers \cup {None}, chosen : Peers \cup {None}, lastGood : Peers \cup {None}]
      /\ flags \in [preferred : BOOLEAN, fallback : BOOLEAN]
      /\ tun \in [phase : {"none", "starting", "up"}, via : Transports, local : BOOLEAN]
  BY TypeParts DEF RunOK, FlagsOK, TunOK
<1>r. RunOK
  BY TypeParts
<1>a. ASSUME NEW p \in Peers, Accepts(p) PROVE Earned'
  <2>1. run'.pc = "use"
    BY <1>t, <1>a DEF Accepts
  <2> QED
    BY <2>1 DEF Earned
<1>o. ASSUME run'.pc = "off" PROVE Earned'
  BY <1>o DEF Earned
<1>1. CASE Begun
  <2>1. flags'.fallback = FALSE
    BY <1>1 DEF Begun, Start
  <2> QED
    BY <2>1, EarnedCleared
<1>2. CASE Dial
  <2>1. CASE flags' = flags /\ tun' = tun /\ run'.pc = run.pc /\ run'.lastGood = run.lastGood
    BY <2>1, EarnedKept
  <2>2. CASE run' \in {[run EXCEPT !.at = @ + 1, !.rejects = @ + 1], [run EXCEPT !.at = @ + 1]}
    <3>1. run'.pc = run.pc /\ run'.lastGood = run.lastGood
      BY <1>t, <2>2
    <3>2. flags' = flags /\ tun' = tun
      BY <1>2 DEF Dial
    <3> QED
      BY <2>1, <3>1, <3>2
  <2> QED
    BY <1>2, <1>r, <1>a, <2>2, DialCases
<1>3. CASE EndPass1
  <2>1. CASE run' = [run EXCEPT !.pc = "refresh1"] /\ flags' = flags
    <3>1. run'.pc = "refresh1" /\ run'.lastGood = run.lastGood /\ run.pc = "pass1" /\ tun' = tun
      BY <1>t, <1>3, <2>1 DEF EndPass1
    <3> QED
      BY <2>1, <3>1, EarnedKept
  <2>2. CASE SecondPass(run.rejects)
    BY <1>3, <2>2, SecondPassEarned DEF EndPass1
  <2> QED
    BY <1>3, <2>1, <2>2 DEF EndPass1
<1>4. CASE EndAgain1
  <2>1. CASE GiveUp
    BY <1>t, <1>o, <2>1 DEF GiveUp
  <2>2. CASE SecondPass(0)
    BY <1>4, <2>2, SecondPassEarned DEF EndAgain1
  <2> QED
    BY <1>4, <2>1, <2>2 DEF EndAgain1
<1>5. CASE EndPass2
  <2>1. CASE flags' = [flags EXCEPT !.fallback = FALSE]
    BY <1>t, <2>1, EarnedCleared
  <2>2. CASE run' = [run EXCEPT !.pc = "refresh2"]
    <3>1. run'.pc = "refresh2"
      BY <1>t, <2>2
    <3> QED
      BY <3>1 DEF Earned
  <2>3. CASE GiveUp
    BY <1>t, <1>o, <2>3 DEF GiveUp
  <2> QED
    BY <1>5, <2>1, <2>2, <2>3 DEF EndPass2
<1>6. CASE Refresh
  <2>1. CASE run' = [run EXCEPT !.pc = IF run.pc = "refresh1" THEN "again1" ELSE "again2",
                                !.at = 1, !.rejects = 0, !.cert = edge.cert]
    <3>1. /\ run'.pc = IF run.pc = "refresh1" THEN "again1" ELSE "again2"
          /\ run'.lastGood = run.lastGood /\ flags' = flags /\ tun' = tun
      BY <1>t, <1>6, <2>1 DEF Refresh
    <3> QED
      BY <3>1, EarnedKept
  <2>2. CASE GiveUp
    BY <1>t, <1>o, <2>2 DEF GiveUp
  <2> QED
    BY <1>6, <2>1, <2>2 DEF Refresh
<1>7. CASE Retry
  <2>1. CASE run' = [run EXCEPT !.pc = "select"]
    <3>1. /\ run'.pc = "select" /\ run.pc = "retry" /\ run'.lastGood = run.lastGood
          /\ flags' = flags /\ tun' = tun
      BY <1>t, <1>7, <2>1 DEF Retry
    <3> QED
      BY <3>1, EarnedKept
  <2> QED
    BY <1>7, <1>a, <2>1, RetryCases
<1>8. CASE Select
  <2>1. /\ run'.pc \in {"hunt", "use"} /\ run.pc = "select" /\ run'.lastGood = run.lastGood
        /\ flags' = flags /\ tun' = tun
    BY <1>t, <1>8 DEF Select
  <2> QED
    BY <2>1, EarnedKept
<1>9. CASE Hunt
  <2>1. CASE run' = [run EXCEPT !.pc = "huntH2"]
    <3>1. run'.pc = "huntH2"
      BY <1>t, <2>1
    <3> QED
      BY <3>1 DEF Earned
  <2>2. CASE run' = [run EXCEPT !.pc = TopOfLoop] /\ flags' = flags
    <3>1. /\ run'.pc \in {"retry", "select"} /\ run.pc = "hunt" /\ run'.lastGood = run.lastGood
          /\ tun' = tun
      BY <1>t, <1>9, <2>2 DEF Hunt, TopOfLoop
    <3> QED
      BY <2>2, <3>1, EarnedKept
  <2>3. CASE \E p \in Peers : run' = [run EXCEPT !.pc = "use", !.chosen = p]
    <3>1. run'.pc = "use"
      BY <1>t, <2>3
    <3> QED
      BY <3>1 DEF Earned
  <2> QED
    BY <1>9, <2>1, <2>2, <2>3 DEF Hunt
<1>10. CASE HuntH2
  <2>1. CASE flags' = [flags EXCEPT !.fallback = FALSE]
    BY <1>t, <2>1, EarnedCleared
  <2>2. CASE \E p \in Gateways : run' = [run EXCEPT !.pc = "use", !.chosen = p]
    <3>1. run'.pc = "use"
      BY <1>t, <2>2
    <3> QED
      BY <3>1 DEF Earned
  <2> QED
    BY <1>10, <2>1, <2>2 DEF HuntH2
<1>11. CASE Use
  <2>1. run.chosen \in Peers
    BY <1>11 DEF Use, Evidenced, ChosenBacked, Chosen
  <2>2. run'.pc = "tunnel" /\ run'.lastGood = run.chosen /\ flags' = flags /\ tun'.via = Transport
    BY <1>t, <1>11 DEF Use
  <2>3. flags.fallback => Transport = "h2"
    BY DEF Transport
  <2> QED
    BY <2>1, <2>2, <2>3, ConstantsAssumption DEF Earned
<1>12. CASE TunnelFails \/ TunnelEnds
  <2>1. run.pc = "tunnel"
    BY <1>12 DEF TunnelFails, TunnelEnds, Evidenced, TunnelWhenWaiting
  <2>2. run'.pc = "retry" /\ run'.lastGood = run.lastGood /\ flags' = flags /\ tun'.via = tun.via
    BY <1>t, <1>12 DEF TunnelFails, TunnelEnds, TunnelOver
  <2> QED
    BY <2>1, <2>2, EarnedKept
<1>13. CASE TunnelReady \/ LocalDies
  <2>1. run' = run /\ flags' = flags /\ tun'.via = tun.via
    BY <1>t, <1>13 DEF TunnelReady, LocalDies
  <2> QED
    BY <2>1, EarnedKept
<1>14. CASE Network \/ Revoke
  BY <1>14, EarnedKept DEF Network, Revoke
<1>15. CASE Stop
  BY <1>t, <1>o, <1>15 DEF Stop
<1> QED
  BY <1>1, <1>2, <1>3, <1>4, <1>5, <1>6, <1>7, <1>8, <1>9, <1>10, <1>11, <1>12, <1>13, <1>14, <1>15
  DEF Next, CoreStep, Begun

\* HTTP/2 is on in the reconnect loop only when the last tunnel ran over it: every
\* pass and scan that switches it on and finds nothing switches it off again.
THEOREM FallbackSafe == Spec => []FallbackEarned
<1>1. Init => Earned
  BY DEF Init, Earned
<1>2. MasqueInv /\ Earned /\ [Next]_vars => Earned'
  <2>1. CASE Next
    BY <2>1, EarnedStep DEF MasqueInv
  <2>2. CASE UNCHANGED vars
    BY <2>2 DEF vars, Earned
  <2> QED
    BY <2>1, <2>2
<1>3. Earned => FallbackEarned
  BY DEF Earned, FallbackEarned
<1> QED
  BY <1>1, <1>2, <1>3, MasqueInvariant, PTL DEF Spec

\* The app reads "connected" only while a tunnel of this run that was validated is
\* up: every way out of a tunnel tells it so.
THEOREM ConnectedSafe == Spec => []ConnectedMeansUp
<1>1. MasqueInv => ConnectedMeansUp
  BY DEF MasqueInv, Evidenced
<1> QED
  BY <1>1, MasqueInvariant, PTL

\* The step of the contract that each shape of step is.
LEMMA LoopStep == ASSUME MasqueInv, Next PROVE [Loop!Next]_(Loop!vars)
<1>t. RunOK /\ TunOK
  BY TypeParts DEF MasqueInv
<1>e. Evidenced
  BY DEF MasqueInv
<1>n. None \notin Peers
  BY ConstantsAssumption
<1> USE DEF Evidenced, NoEarlyEvidence, ChosenBacked, ForcedAllowed, TunnelWhenWaiting,
            ConnectedMeansUp, Chosen
<1>1. CASE Begun
  BY <1>t, <1>e, <1>1 DEF Begun, Start, Loop!Next, Loop!Begin, NoEvidence
<1>2. ASSUME NEW p \in Peers, Accepts(p) PROVE Loop!Check(p)
  <2>1. run.pc \in Passes \cup Looping /\ run'.pc = "use"
    BY <1>t, <1>2 DEF Accepts, RunOK
  <2>2. evidence.peer = None /\ evidence'.peer = p /\ UNCHANGED status
    BY <1>e, <1>2, <2>1 DEF Accepts, Choose, NoEvidence, Passes, Looping
  <2> QED
    BY <1>n, <2>1, <2>2 DEF Loop!Check, Passes, Looping
<1>3. CASE Searches
  BY <1>3 DEF Searches, Searching, Passes, Looping, Loop!vars
<1>4. CASE Forces
  <2>1. run.pc \in Searching /\ run'.pc = "use" /\ UNCHANGED <<evidence, status>>
    BY <1>t, <1>4 DEF Forces, RunOK
  <2> QED
    BY <2>1 DEF Searching, Passes, Looping, Loop!vars
<1>5. CASE Abandons
  <2>1. run.pc \in Searching /\ run'.pc = "off" /\ UNCHANGED evidence /\ status' = "ended"
    BY <1>t, <1>5 DEF Abandons, GiveUp, RunOK
  <2> QED
    BY <1>e, <1>n, <2>1 DEF Searching, Passes, Looping, Loop!Next, Loop!End, NoEvidence
<1>6. CASE Use
  <2>1. run.pc = "use" /\ run'.pc = "tunnel" /\ run'.chosen = run.chosen
    BY <1>t, <1>6 DEF Use, RunOK
  <2>2. tun'.phase = "starting" /\ UNCHANGED <<evidence, status>>
    BY <1>6 DEF Use
  <2>3. run.chosen \in Peers
    BY <1>e, <2>1
  <2>4. run.chosen \in Forcible \/ run.chosen = evidence.peer
    BY <1>e, <1>n, <2>1, <2>3
  <2>5. Loop!Raise(run.chosen)
    BY <1>n, <2>1, <2>2, <2>3, <2>4 DEF Loop!Raise
  <2> QED
    BY <2>3, <2>5 DEF Loop!Next
<1>7. CASE TunnelReady
  <2>1. tun.phase = "starting" /\ tun'.phase = "up" /\ status' = "connected" /\ UNCHANGED <<run, evidence>>
    BY <1>t, <1>7 DEF TunnelReady, TunOK
  <2> QED
    BY <1>e, <2>1 DEF Loop!Next, Loop!Validate
<1>8. CASE tun.phase # "none" /\ TunnelOver
  <2>1. run.pc = "tunnel" /\ run'.pc = "retry" /\ evidence'.peer = None /\ status' = "connecting"
    BY <1>t, <1>e, <1>8 DEF TunnelOver, RunOK, NoEvidence
  <2> QED
    BY <1>n, <2>1 DEF Loop!Next, Loop!Lose
<1>9. CASE Stop
  <2>1. run.pc # "off" /\ run'.pc = "off" /\ evidence'.peer = None /\ status' = "ended"
    BY <1>t, <1>9 DEF Stop, RunOK, NoEvidence
  <2> QED
    BY <1>n, <2>1 DEF Loop!Next, Loop!End
<1>10. CASE Outside
  BY <1>10 DEF Outside, Loop!vars
<1>11. TypeOK
  BY DEF MasqueInv
<1> QED
  BY <1>1, <1>2, <1>3, <1>4, <1>5, <1>6, <1>7, <1>8, <1>9, <1>10, <1>11, Shapes DEF Loop!Next

\* run_masque implements the contract of a reconnect loop: only a gateway checked
\* in this round, or forced by the user, gets a tunnel, and only the step that
\* validates the tunnel announces "connected".
THEOREM MasqueImplementsLoop == Spec => LoopSpec
<1>1. Init => Loop!Init
  BY ConstantsAssumption DEF Init, Loop!Init, NoEvidence
<1>2. MasqueInv /\ [Next]_vars => [Loop!Next]_(Loop!vars)
  <2>1. UNCHANGED vars => UNCHANGED Loop!vars
    BY DEF vars, Loop!vars
  <2> QED
    BY <2>1, LoopStep
<1> QED
  BY <1>1, <1>2, MasqueInvariant, PTL DEF Spec, LoopSpec, Loop!Spec

-----------------------------------------------------------------------------
(* The identity run_masque renews: a saved registration that still works   *)
(* is kept, and a refused enrolment never ends with the refused one        *)
(* in use, for any number of devices, keys and attempts.                   *)

\* Which request each position waits for, and what the process and the file hold
\* there: the saved identity until a registration replaces it.
Position ==
    /\ pc \in {"off", "save", "resave", "ready"} => call.op = "none"
    /\ pc \in {"fetchSaved", "fetchNew"} => call.op = "fetch"
    /\ pc \in {"enrolSaved", "enrolNew", "renew"} => call.op = "enrol"
    /\ pc = "register" => call.op = "register"

Held ==
    /\ pc = "off" => mem = Absent
    /\ pc # "off" => disk # Damaged
    /\ pc \in {"fetchSaved", "enrolSaved", "register"} => mem = disk
    /\ pc \notin {"off", "register"} => mem \in Identities
    /\ pc \in {"ready", "renew", "resave"} => DeviceOf(disk) = DeviceOf(mem)

\* A device that was refused is gone from the service, and so is one that a
\* registration is about to replace in the file.
Gone ==
    /\ call.refused => call.route = "front" /\ call.op # "register" /\ DeviceOf(mem) \cap server.live = {}
    /\ pc = "register" => DeviceOf(disk) \cap server.live = {}
    /\ pc \in {"enrolNew", "fetchNew", "save"} =>
          DeviceOf(disk) \cap server.live \subseteq DeviceOf(mem)

\* Every refusal of an enrolment is of the identity still held, which is then on
\* its way to be replaced.
Asked ==
    opt.reprovision /\ pc # "off" =>
        \A x \in Devices : <<x, "enrol">> \in refusals =>
            /\ pc \in {"fetchSaved", "enrolSaved", "register"} => x \in DeviceOf(mem)
            /\ pc # "register" /\ x \in DeviceOf(mem) => call.op = "enrol" /\ call.refused

Inv == IdentityTypeOK /\ Position /\ Held /\ Gone /\ Asked /\ NoChurn

-----------------------------------------------------------------------------
(* The shapes of a step of Attempt.                                        *)

CallType == [op : {"none", "register", "enrol", "fetch"}, route : {"direct", "front"},
             tries : 0 .. Attempts - 1, refused : BOOLEAN, key : Keys \cup {Absent}]
Waiting(c, op) == c \in CallType /\ c.op = op /\ ~c.refused

\* What the service and the two histories make of a request about d.
Served(d, applied, answer) ==
    /\ call.op # "none"
    /\ applied => d \in Devices
    /\ applied /\ call.op # "register" => d \in server.live
    /\ answer = "ok" => applied
    /\ answer = "refused" => call.op # "register" /\ d \in Devices /\ d \notin server.live
    /\ call.op # "register" => mem \in Identities /\ d = mem.dev
    /\ call.op = "register" => d \in FreeDevices \cup {Absent}
    /\ server'.live = server.live \cup (IF applied /\ call.op = "register" THEN {d} ELSE {})
    /\ refusals' = IF answer = "refused" THEN refusals \cup {<<d, call.op>>} ELSE refusals
    /\ saved' = saved \ (IF applied /\ call.op = "register" THEN {d} ELSE {})
    /\ UNCHANGED <<opt, disk, calm>>

\* The request is repeated, or goes by the other route.
Again(answer) ==
    /\ answer # "ok"
    /\ call' \in CallType
    /\ call'.op = call.op
    /\ call'.refused <=> (call.refused \/ answer = "refused")
    /\ call'.refused => call'.route = "front"
    /\ mem' = mem /\ pc' = pc

\* The call is over: the identity is kept, given up, or new.
Kept(res) ==
    /\ pc' = "save" \/ (pc = "enrolNew" /\ pc' = "fetchNew") \/ (pc = "renew" /\ pc' = "resave")
    /\ pc \in {"fetchSaved", "enrolSaved", "enrolNew", "fetchNew", "renew"}
    /\ pc' = "save" => pc # "renew"
    /\ pc \in {"enrolSaved", "enrolNew", "renew"} => res # "refused"
    /\ mem' \in Identities /\ mem'.dev = mem.dev
    /\ IF pc' = "fetchNew" THEN Waiting(call', "fetch") ELSE call' = NoCall
Replaced(res) ==
    /\ pc \in {"fetchSaved", "enrolSaved"} /\ res = "refused" /\ mem' = mem
    /\ IF opt.reprovision THEN pc' = "register" /\ Waiting(call', "register")
       ELSE pc' = "ready" /\ call' = NoCall
Failed(res) == res # "ok" /\ pc' = "off" /\ call' = NoCall /\ mem' = Absent
Registered(res, d) ==
    /\ pc = "register" /\ res = "ok"
    /\ mem' \in Identities /\ mem'.dev = d
    /\ \/ pc' = "enrolNew" /\ Waiting(call', "enrol")
       \/ pc' = "fetchNew" /\ Waiting(call', "fetch")
       \/ pc' = "save" /\ call' = NoCall
Over(res, d) == Kept(res) \/ Replaced(res) \/ Failed(res) \/ Registered(res, d)

\* No request is in progress.
LEMMA NoCallType == NoCall \in CallType /\ NoCall.op = "none" /\ ~NoCall.refused
BY IdentityAssumption DEF NoCall, CallType

\* A new request starts unrefused on the direct route.
LEMMA CallWaits ==
  ASSUME IdentityTypeOK, NEW op \in {"register", "enrol", "fetch"}, NEW next, Call(op, next)
  PROVE  pc' = next /\ Waiting(call', op)
<1>1. CASE op = "enrol"
  <2>1. PICK k \in FreshKeys : call' = [NoCall EXCEPT !.op = op, !.key = k]
    BY <1>1 DEF Call
  <2>2. k \in Keys
    BY DEF FreshKeys
  <2>3. Waiting(call', op)
    BY <2>1, <2>2, NoCallType DEF Waiting, CallType
  <2> QED
    BY <2>3 DEF Call
<1>2. CASE op # "enrol"
  <2>1. call' = [NoCall EXCEPT !.op = op]
    BY <1>2 DEF Call
  <2>3. Waiting(call', op)
    BY <2>1, NoCallType DEF Waiting, CallType
  <2> QED
    BY <2>3 DEF Call
<1> QED
  BY <1>1, <1>2

\* How a call ends is one of the continuations above.
LEMMA OutcomeOver ==
  ASSUME IdentityTypeOK, Position, Held, NEW d \in Devices \cup {Absent}, NEW res \in {"ok", "refused", "error"},
         call.op # "none", Outcome(res, d), res = "ok" => d \in Devices
  PROVE  Over(res, d)
<1>t. /\ pc \notin {"off", "register"} => mem \in Identities
      /\ call.key \in Keys \cup {Absent}
  BY DEF IdentityTypeOK, Held
<1>e. mem \in Identities => Enrolled \in Identities /\ Enrolled.dev = mem.dev
  BY <1>t DEF Enrolled, Identities, Ages
<1>r. Replace => IF opt.reprovision THEN pc' = "register" /\ Waiting(call', "register")
                 ELSE pc' = "ready" /\ call' = NoCall
  BY CallWaits DEF Replace
<1>1. CASE pc = "fetchSaved"
  <2>1. CASE res = "refused"
    BY <1>1, <1>r, <2>1 DEF Outcome, Over, Replaced
  <2>2. CASE res # "refused"
    BY <1>1, <1>t, <2>2 DEF Outcome, Over, Kept, Save
  <2> QED
    BY <2>1, <2>2
<1>2. CASE pc = "enrolSaved"
  <2>1. CASE res = "refused"
    BY <1>2, <1>r, <2>1 DEF Outcome, Over, Replaced
  <2>2. CASE res = "ok"
    BY <1>2, <1>t, <1>e, <2>2 DEF Outcome, Over, Kept, Save
  <2>3. CASE res = "error"
    BY <1>2, <1>t, <2>3 DEF Outcome, Over, Kept, Save, Fail, Failed
  <2> QED
    BY <2>1, <2>2, <2>3
<1>3. CASE pc \in {"register", "enrolNew", "renew"} /\ res # "ok"
  BY <1>3 DEF Outcome, Over, Fail, Failed
<1>4. CASE pc = "register" /\ res = "ok"
  <2>1. mem' = [dev |-> d, cert |-> Absent, age |-> "expired"]
    BY <1>4 DEF Outcome
  <2>2. mem' \in Identities /\ mem'.dev = d
    BY <1>4, <2>1 DEF Identities, Ages
  <2>3. \/ Call("enrol", "enrolNew")
        \/ Call("fetch", "fetchNew")
        \/ Save
    BY <1>4 DEF Outcome
  <2>4. \/ pc' = "enrolNew" /\ Waiting(call', "enrol")
        \/ pc' = "fetchNew" /\ Waiting(call', "fetch")
        \/ pc' = "save" /\ call' = NoCall
    BY <2>3, CallWaits DEF Save
  <2> QED
    BY <1>4, <2>2, <2>4 DEF Over, Registered
<1>5. CASE pc = "enrolNew" /\ res = "ok"
  <2>1. mem' = Enrolled /\ (Call("fetch", "fetchNew") \/ Save)
    BY <1>5 DEF Outcome
  <2>2. \/ pc' = "fetchNew" /\ Waiting(call', "fetch")
        \/ pc' = "save" /\ call' = NoCall
    BY <2>1, CallWaits DEF Save
  <2> QED
    BY <1>5, <1>t, <1>e, <2>1, <2>2 DEF Over, Kept
<1>6. CASE pc = "fetchNew"
  BY <1>6, <1>t DEF Outcome, Over, Kept, Save
<1>7. CASE pc = "renew" /\ res = "ok"
  BY <1>7, <1>t, <1>e DEF Outcome, Over, Kept
<1> QED
  BY <1>1, <1>2, <1>3, <1>4, <1>5, <1>6, <1>7 DEF Outcome

Replies == {"ok", "lost", "cut", "busy", "forbidden", "refused"}

\* The body of Attempt: one request about d, applied or not, and its answer.
Alive(d) == call.op = "register" \/ d \in server.live
Request(d, applied, answer) ==
    /\ calm => answer \in {"ok", "refused"}
    /\ IF applied THEN Apply(d) ELSE UNCHANGED server
    /\ refusals' = IF answer = "refused" THEN refusals \cup {<<d, call.op>>} ELSE refusals
    /\ IF answer # "ok" /\ call.route = "direct"
       THEN /\ call' = IF answer \in Retryable /\ MayRetry
                       THEN [call EXCEPT !.tries = @ + 1]
                       ELSE [call EXCEPT !.route = "front", !.refused = answer \in Refuses]
            /\ UNCHANGED <<mem, pc>>
       ELSE Outcome(Combined(answer), d)
    /\ saved' = saved \ (IF applied /\ call.op = "register" THEN {d} ELSE {})

\* A step of Attempt is a request served in one of these ways.
LEMMA AttemptShape ==
  ASSUME IdentityTypeOK, Position, Held, Gone, Attempt
  PROVE  \E d \in Devices \cup {Absent}, applied \in BOOLEAN, answer \in Replies : \E res \in {"ok", "refused", "error"} :
            /\ Served(d, applied, answer)
            /\ server' \in [live : SUBSET Devices, key : [Devices -> Keys \cup {Absent}]]
            /\ Again(answer) \/ (res = Combined(answer) /\ Over(res, d))
<1>0. call.op # "none"
  BY DEF Attempt
<1>t. /\ server \in [live : SUBSET Devices, key : [Devices -> Keys \cup {Absent}]]
      /\ call \in CallType
  BY DEF IdentityTypeOK, CallType
<1>m. call.op # "register" => mem \in Identities
  BY <1>0 DEF Position, Held, IdentityTypeOK
<1>1. PICK d \in IF call.op = "register" THEN FreeDevices \cup {Absent} ELSE {mem.dev} :
        \E applied \in IF Alive(d) /\ d # Absent THEN BOOLEAN ELSE {FALSE} :
        \E answer \in Answers(applied, Alive(d)) : Request(d, applied, answer)
  BY Zenon DEF Attempt, Alive, Request
<1>2. PICK applied \in IF Alive(d) /\ d # Absent THEN BOOLEAN ELSE {FALSE} :
        \E answer \in Answers(applied, Alive(d)) : Request(d, applied, answer)
  BY <1>1
<1>3. PICK answer \in Answers(applied, Alive(d)) : Request(d, applied, answer)
  BY <1>2
<1>4. /\ applied \in BOOLEAN
      /\ applied => Alive(d) /\ d # Absent
  BY <1>2
<1>5. /\ answer = "ok" => applied
      /\ answer = "refused" => ~applied /\ ~Alive(d)
  BY <1>3, <1>4 DEF Answers
<1>a. answer \in Replies
  BY <1>3, <1>4 DEF Answers, Replies
<1>6. d \in Devices \cup {Absent} /\ (call.op # "register" => d \in Devices)
  BY <1>1, <1>m DEF FreeDevices, Identities
<1>7. server' \in [live : SUBSET Devices, key : [Devices -> Keys \cup {Absent}]]
  <2>1. CASE ~applied
    BY <1>t, <1>3, <2>1 DEF Request
  <2>2. CASE applied /\ call.op = "register"
    BY <1>t, <1>3, <1>4, <1>6, <2>2 DEF Request, Apply
  <2>3. CASE applied /\ call.op = "enrol"
    <3>1. server' = [server EXCEPT !.key = [@ EXCEPT ![d] = call.key]]
      BY <1>3, <2>3 DEF Request, Apply
    <3>2. call.key \in Keys \cup {Absent}
      BY <1>t DEF CallType
    <3> QED
      BY <1>t, <3>1, <3>2
  <2>4. CASE applied /\ call.op = "fetch"
    BY <1>t, <1>3, <2>4 DEF Request, Apply
  <2> QED
    BY <1>0, <1>t, <1>4, <2>1, <2>2, <2>3, <2>4 DEF CallType
<1>8. server'.live = server.live \cup (IF applied /\ call.op = "register" THEN {d} ELSE {})
  <2>1. CASE ~applied
    BY <1>3, <2>1 DEF Request
  <2>2. CASE applied
    BY <1>t, <1>3, <2>2 DEF Request, Apply
  <2> QED
    BY <1>4, <2>1, <2>2
<1>9. Served(d, applied, answer)
  <2>1. call.op = "register" => d \in FreeDevices \cup {Absent}
    BY <1>1
  <2>2. applied => d \in Devices
    BY <1>4, <1>6
  <2>3. applied /\ call.op # "register" => d \in server.live
    BY <1>4 DEF Alive
  <2>4. answer = "refused" => call.op # "register" /\ d \in Devices /\ d \notin server.live
    BY <1>5, <1>6 DEF Alive
  <2>5. call.op # "register" => mem \in Identities /\ d = mem.dev
    BY <1>1, <1>m
  <2>6. UNCHANGED <<opt, disk, calm>>
    BY DEF Attempt
  <2> QED
    BY <1>0, <1>3, <1>5, <1>8, <2>1, <2>2, <2>3, <2>4, <2>5, <2>6 DEF Served, Request
<1>10. CASE answer # "ok" /\ call.route = "direct"
  <2>1. ~call.refused /\ call.tries \in 0 .. Attempts - 1
    BY <1>t, <1>10 DEF Gone, CallType
  <2>2. ASSUME answer \in Retryable, MayRetry PROVE Again(answer)
    <3>1. call' = [call EXCEPT !.tries = @ + 1] /\ mem' = mem /\ pc' = pc
      BY <1>3, <1>10, <2>2 DEF Request
    <3>2. call.tries + 1 \in 0 .. Attempts - 1
      BY <2>1, <2>2, IdentityAssumption DEF MayRetry
    <3>3. answer # "refused"
      BY <2>2 DEF Retryable
    <3> QED
      BY <1>t, <1>10, <2>1, <3>1, <3>2, <3>3 DEF Again, CallType
  <2>3. ASSUME ~(answer \in Retryable /\ MayRetry) PROVE Again(answer)
    <3>1. call' = [call EXCEPT !.route = "front", !.refused = answer \in Refuses] /\ mem' = mem /\ pc' = pc
      BY <1>3, <1>10, <2>3 DEF Request
    <3>2. CASE answer = "refused"
      <4>1. call' = [call EXCEPT !.route = "front", !.refused = TRUE]
        BY <3>1, <3>2 DEF Refuses
      <4> QED
        BY <1>t, <1>10, <3>1, <3>2, <4>1 DEF Again, CallType
    <3>3. CASE answer # "refused"
      <4>0. (answer \in Refuses) = FALSE
        BY <3>3 DEF Refuses
      <4>1. call' = [call EXCEPT !.route = "front", !.refused = FALSE]
        BY <3>1, <4>0
      <4> QED
        BY <1>t, <1>10, <2>1, <3>1, <3>3, <4>1 DEF Again, CallType
    <3> QED
      BY <3>2, <3>3
  <2>4. Again(answer)
    BY <2>2, <2>3
  <2> QED
    BY <1>4, <1>a, <1>6, <1>7, <1>9, <2>4
<1>11. CASE ~(answer # "ok" /\ call.route = "direct")
  <2>1. Outcome(Combined(answer), d)
    BY <1>3, <1>11 DEF Request
  <2>2. Combined(answer) \in {"ok", "refused", "error"} /\ (Combined(answer) = "ok" => answer = "ok")
    BY DEF Combined
  <2>3. Over(Combined(answer), d)
    BY <1>0, <1>4, <1>5, <1>6, <2>1, <2>2, OutcomeOver
  <2> QED
    BY <1>4, <1>a, <1>6, <1>7, <1>9, <2>2, <2>3
<1> QED
  BY <1>10, <1>11

-----------------------------------------------------------------------------
(* Attempt keeps the invariant.                                            *)

\* The devices an identity names.
LEMMA DevicesOf ==
  /\ DeviceOf(Absent) = {} /\ DeviceOf(Damaged) = {}
  /\ \A id \in Identities : DeviceOf(id) = {id.dev} /\ id.dev \in Devices
BY IdentityAssumption DEF DeviceOf, Identities

\* What the shapes say of the types.
LEMMA AttemptTypes == ASSUME Inv, Attempt PROVE IdentityTypeOK'
<1>i. IdentityTypeOK /\ Position /\ Held /\ Gone
  BY DEF Inv
<1>1. PICK d \in Devices \cup {Absent}, applied \in BOOLEAN, answer \in Replies : \E res \in {"ok", "refused", "error"} :
        /\ Served(d, applied, answer)
        /\ server' \in [live : SUBSET Devices, key : [Devices -> Keys \cup {Absent}]]
        /\ Again(answer) \/ (res = Combined(answer) /\ Over(res, d))
  BY <1>i, AttemptShape
<1>2. PICK res \in {"ok", "refused", "error"} : Again(answer) \/ Over(res, d)
  BY <1>1
<1>t. /\ mem \in Identities \cup {Absent} /\ disk \in Identities \cup {Absent, Damaged}
      /\ pc \in {"off", "fetchSaved", "enrolSaved", "register", "enrolNew", "fetchNew",
                 "save", "ready", "renew", "resave"}
      /\ call \in CallType
  BY <1>i DEF IdentityTypeOK, CallType
<1>3. opt' = opt /\ disk' = disk /\ calm' = calm
  BY <1>1 DEF Served
<1>4. mem' \in Identities \cup {Absent}
  BY <1>t, <1>2 DEF Again, Over, Kept, Replaced, Failed, Registered
<1>5. pc' \in {"off", "fetchSaved", "enrolSaved", "register", "enrolNew", "fetchNew",
               "save", "ready", "renew", "resave"}
  BY <1>t, <1>2 DEF Again, Over, Kept, Replaced, Failed, Registered
<1>6. call' \in CallType
  BY <1>2, NoCallType DEF Again, Over, Kept, Replaced, Failed, Registered, Waiting
<1>7. saved' \in SUBSET Devices
  BY <1>i, <1>1 DEF IdentityTypeOK, Served
<1>8. refusals' \in SUBSET (Devices \X {"enrol", "fetch"})
  <2>1. answer = "refused" => d \in Devices /\ call.op \in {"enrol", "fetch"}
    BY <1>1, <1>t DEF Served, CallType
  <2>2. refusals' = IF answer = "refused" THEN refusals \cup {<<d, call.op>>} ELSE refusals
    BY <1>1 DEF Served
  <2> QED
    BY <1>i, <2>1, <2>2 DEF IdentityTypeOK
<1> QED
  BY <1>i, <1>1, <1>3, <1>4, <1>5, <1>6, <1>7, <1>8 DEF IdentityTypeOK, CallType

\* What the shapes say of the rest.
LEMMA AttemptKeeps ==
  ASSUME Inv, Attempt PROVE Position' /\ Held' /\ Gone' /\ Asked' /\ NoChurn'
<1>i. IdentityTypeOK /\ Position /\ Held /\ Gone /\ Asked /\ NoChurn
  BY DEF Inv
<1>1. PICK d \in Devices \cup {Absent}, applied \in BOOLEAN, answer \in Replies : \E res \in {"ok", "refused", "error"} :
        /\ Served(d, applied, answer)
        /\ Again(answer) \/ (res = Combined(answer) /\ Over(res, d))
  BY <1>i, AttemptShape
<1>2. PICK res \in {"ok", "refused", "error"} : Again(answer) \/ (res = Combined(answer) /\ Over(res, d))
  BY <1>1
<1>s. Served(d, applied, answer)
  BY <1>1
<1>t. /\ mem \in Identities \cup {Absent} /\ disk \in Identities \cup {Absent, Damaged}
      /\ call \in CallType
  BY <1>i DEF IdentityTypeOK, CallType
<1>d. /\ DeviceOf(mem) \subseteq Devices /\ DeviceOf(disk) \subseteq Devices
      /\ mem \in Identities => DeviceOf(mem) = {mem.dev}
      /\ mem' \in Identities => DeviceOf(mem') = {mem'.dev}
      /\ DeviceOf(Absent) = {} /\ disk' = disk
  BY <1>t, <1>s, DevicesOf DEF Served
<1>r. \* A refusal seen by either route means the device is gone.
      /\ res = Combined(answer) /\ res = "refused" => DeviceOf(mem) \cap server.live = {}
      /\ answer = "refused" => DeviceOf(mem) = {d} /\ d \notin server.live /\ call.op # "register"
      /\ res = Combined(answer) /\ res = "ok" => answer = "ok"
      /\ res = Combined(answer) /\ call.op = "enrol" /\ res # "refused" /\ res # "ok" =>
            ~call.refused /\ answer # "refused"
  <2>1. answer = "refused" => DeviceOf(mem) = {d} /\ d \notin server.live /\ call.op # "register"
    BY <1>s, <1>d DEF Served
  <2>2. res = Combined(answer) /\ res = "refused" => call.refused \/ answer = "refused"
    BY DEF Combined, Refuses
  <2>3. call.refused => DeviceOf(mem) \cap server.live = {}
    BY <1>i DEF Gone
  <2>4. res = Combined(answer) /\ res = "ok" => answer = "ok"
    BY DEF Combined
  <2>5. res = Combined(answer) /\ call.op = "enrol" /\ res # "refused" /\ res # "ok" =>
            ~call.refused /\ answer # "refused"
    BY DEF Combined, Refuses
  <2> QED
    BY <2>1, <2>2, <2>3, <2>4, <2>5
<1>3. Position'
  BY <1>i, <1>2, NoCallType DEF Position, Again, Over, Kept, Replaced, Failed, Registered, Waiting
<1>4. Held'
  BY <1>i, <1>2, <1>d, <1>s DEF Held, Again, Over, Kept, Replaced, Failed, Registered, Waiting, IdentityTypeOK
<1>l. /\ (DeviceOf(disk) \cup DeviceOf(mem)) \cap server'.live \subseteq server.live
      /\ call.op # "register" => server'.live = server.live
      /\ call.op = "register" => pc = "register"
      /\ applied /\ call.op = "register" => d \notin DeviceOf(disk) \cup DeviceOf(mem)
  <2>1. call.op = "register" => pc = "register"
    BY <1>i DEF IdentityTypeOK, Position
  <2>2. applied /\ call.op = "register" => d \notin DeviceOf(disk) \cup DeviceOf(mem)
    BY <1>s, IdentityAssumption DEF Served, FreeDevices
  <2> QED
    BY <1>s, <2>1, <2>2 DEF Served
<1>k. \/ Again(answer)
      \/ Kept(res) /\ DeviceOf(mem') = DeviceOf(mem) /\ res = Combined(answer)
      \/ Replaced(res) /\ res = Combined(answer)
      \/ Failed(res) /\ res = Combined(answer)
      \/ Registered(res, d) /\ res = Combined(answer)
  <2>1. Kept(res) => DeviceOf(mem') = DeviceOf(mem)
    BY <1>i, <1>d DEF Kept, Held
  <2> QED
    BY <1>2, <2>1 DEF Over
<1>5. Gone'
  <2>1. CASE Again(answer)
    BY <1>i, <1>d, <1>l, <1>r, <2>1 DEF Gone, Again
  <2>2. CASE Kept(res) /\ DeviceOf(mem') = DeviceOf(mem)
    BY <1>i, <1>d, <1>l, <2>2, NoCallType DEF Gone, Held, Kept, Waiting
  <2>3. CASE Replaced(res) /\ res = Combined(answer)
    BY <1>i, <1>d, <1>l, <1>r, <2>3, NoCallType DEF Gone, Held, Replaced, Waiting
  <2>4. CASE Failed(res)
    BY <2>4, NoCallType DEF Gone, Failed
  <2>5. CASE Registered(res, d)
    BY <1>i, <1>d, <1>l, <2>5, NoCallType DEF Gone, Registered, Waiting
  <2> QED
    BY <1>k, <2>1, <2>2, <2>3, <2>4, <2>5
<1>6. Asked'
  <2> SUFFICES ASSUME opt.reprovision, pc' # "off",
                      NEW x \in Devices, <<x, "enrol">> \in refusals'
               PROVE  /\ pc' \in {"fetchSaved", "enrolSaved", "register"} => x \in DeviceOf(mem')
                      /\ pc' # "register" /\ x \in DeviceOf(mem') => call'.op = "enrol" /\ call'.refused
    BY <1>s DEF Asked, Served
  <2>n. \/ <<x, "enrol">> \in refusals
        \/ answer = "refused" /\ x = d /\ call.op = "enrol"
    BY <1>s DEF Served
  <2>p. pc # "off"
    BY <1>i, <1>s DEF Position, Served
  <2>o. <<x, "enrol">> \in refusals =>
            /\ pc \in {"fetchSaved", "enrolSaved", "register"} => x \in DeviceOf(mem)
            /\ pc # "register" /\ x \in DeviceOf(mem) => call.op = "enrol" /\ call.refused
    BY <1>i, <2>p DEF Asked
  <2>1. CASE Again(answer)
    BY <1>r, <2>n, <2>o, <2>1 DEF Again
  <2>2. CASE Kept(res) /\ DeviceOf(mem') = DeviceOf(mem) /\ res = Combined(answer)
    <3>1. pc' \notin {"fetchSaved", "enrolSaved", "register"} /\ pc # "register"
      BY <2>2 DEF Kept
    <3>2. call.op = "enrol" => res # "refused"
      BY <1>i, <2>2 DEF Kept, Position
    <3>3. call.refused /\ call.op = "enrol" => res # "ok"
      <4>1. res = "ok" /\ call.op = "enrol" => d \in server.live /\ DeviceOf(mem) = {d}
        BY <1>s, <1>d, <1>r, <2>2 DEF Served
      <4> QED
        BY <1>i, <4>1 DEF Gone
    <3>4. answer = "refused" => res # "ok"
      BY <1>r, <2>2
    <3>5. call.op = "enrol" => ~call.refused /\ answer # "refused"
      BY <1>r, <2>2, <3>2, <3>3, <3>4
    <3>6. x \notin DeviceOf(mem')
      BY <2>2, <2>n, <2>o, <3>1, <3>5
    <3> QED
      BY <3>1, <3>6
  <2>3. CASE Replaced(res)
    BY <1>r, <2>n, <2>o, <2>3 DEF Replaced
  <2>4. CASE Registered(res, d) /\ res = Combined(answer)
    <3>1. answer = "ok" /\ applied /\ pc = "register" /\ call.op = "register"
      BY <1>i, <1>r, <1>s, <2>4 DEF Registered, Served, Position
    <3>2. x \in DeviceOf(mem)
      BY <2>n, <2>o, <3>1
    <3>3. DeviceOf(mem') = {d}
      BY <1>d, <2>4 DEF Registered
    <3>4. pc' \notin {"fetchSaved", "enrolSaved", "register"}
      BY <2>4 DEF Registered
    <3> QED
      BY <1>l, <3>1, <3>2, <3>3, <3>4
  <2>5. CASE Failed(res)
    BY <2>5 DEF Failed
  <2> QED
    BY <1>k, <2>1, <2>2, <2>3, <2>4, <2>5
<1>7. NoChurn'
  <2>1. /\ saved' = saved \ (IF applied /\ call.op = "register" THEN {d} ELSE {})
        /\ server'.live = server.live \cup (IF applied /\ call.op = "register" THEN {d} ELSE {})
    BY <1>s DEF Served
  <2> QED
    BY <1>d, <1>i, <2>1 DEF NoChurn
<1> QED
  BY <1>3, <1>4, <1>5, <1>6, <1>7

-----------------------------------------------------------------------------
(* The other actions.                                                      *)

\* Nothing is registered or saved at first.
LEMMA InitInv == IdentityInit => Inv
<1> SUFFICES ASSUME IdentityInit PROVE Inv
  OBVIOUS
<1>1. IdentityTypeOK
  BY NoCallType DEF IdentityInit, IdentityTypeOK, CallType
<1>2. Position /\ Held /\ Gone /\ Asked /\ NoChurn
  BY NoCallType DEF IdentityInit, Position, Held, Gone, Asked, NoChurn
<1> QED
  BY <1>1, <1>2 DEF Inv

\* A start takes up the saved identity, or sets out to register.
LEMMA StartKeeps == ASSUME Inv, LoadOrProvision PROVE Inv'
<1>i. /\ IdentityTypeOK /\ Position /\ Held /\ Gone /\ Asked /\ NoChurn
      /\ pc = "off" /\ mem = Absent /\ refusals' = {}
      /\ opt' = opt /\ server' = server /\ calm' = calm /\ saved' = saved
  BY DEF Inv, Held, LoadOrProvision
<1>t. disk \in Identities \cup {Absent, Damaged} /\ call \in CallType /\ call.op = "none"
  BY <1>i DEF IdentityTypeOK, CallType, Position
<1>1. \/ /\ disk = Absent /\ disk' = disk /\ mem' = mem
         /\ pc' = "register" /\ Waiting(call', "register")
      \/ /\ disk = Damaged /\ disk' \in {Absent, Damaged} /\ mem' = mem /\ pc' = pc /\ call' = call
      \/ /\ disk \in Identities /\ disk' = disk /\ mem' = disk
         /\ \/ pc' = "enrolSaved" /\ Waiting(call', "enrol")
            \/ pc' = "fetchSaved" /\ Waiting(call', "fetch")
            \/ pc' = "save" /\ call' = NoCall
  <2>1. CASE disk = Absent /\ Call("register", "register") /\ UNCHANGED <<mem, disk>>
    BY <1>i, <2>1, CallWaits
  <2>2. CASE disk = Damaged /\ disk' \in {Absent, Damaged} /\ UNCHANGED <<mem, pc, call>>
    BY <2>2
  <2>3. CASE /\ disk \notin {Absent, Damaged} /\ mem' = disk /\ UNCHANGED disk
             /\ Call("enrol", "enrolSaved") \/ Call("fetch", "fetchSaved") \/ Save
    BY <1>i, <1>t, <2>3, CallWaits DEF Save
  <2> QED
    BY <2>1, <2>2, <2>3 DEF LoadOrProvision
<1>2. IdentityTypeOK'
  BY <1>i, <1>t, <1>1, NoCallType DEF IdentityTypeOK, CallType, Waiting
<1>3. Position'
  BY <1>i, <1>t, <1>1, NoCallType DEF Position, Waiting
<1>4. Held'
  BY <1>i, <1>1, IdentityAssumption DEF Held
<1>5. Gone'
  BY <1>i, <1>1, NoCallType, DevicesOf DEF Gone, Waiting
<1>6. Asked'
  BY <1>i DEF Asked
<1>7. NoChurn'
  BY <1>i, <1>1, DevicesOf DEF NoChurn
<1> QED
  BY <1>2, <1>3, <1>4, <1>5, <1>6, <1>7 DEF Inv

\* A run that ends, or fails to save, leaves the file as it was.
LEMMA FailKeeps ==
  ASSUME Inv, Fail, UNCHANGED <<opt, server, disk, calm, saved, refusals>>
  PROVE  Inv'
<1>i. IdentityTypeOK /\ Position /\ Held /\ Gone /\ Asked /\ NoChurn
  BY DEF Inv
<1>1. pc' = "off" /\ call' = NoCall /\ mem' = Absent
  BY DEF Fail
<1>3. IdentityTypeOK'
  BY <1>i, <1>1, NoCallType DEF IdentityTypeOK, CallType
<1>4. Position' /\ Held' /\ Gone' /\ Asked'
  BY <1>1, NoCallType DEF Position, Held, Gone, Asked
<1>5. NoChurn'
  BY <1>i DEF NoChurn
<1> QED
  BY <1>3, <1>4, <1>5 DEF Inv

\* What the file forgets when it is overwritten is gone from the service.
LEMMA WriteKeeps == ASSUME Inv, Write PROVE Inv'
<1>i. IdentityTypeOK /\ Position /\ Held /\ Gone /\ Asked /\ NoChurn
  BY DEF Inv
<1>0. /\ pc \in {"save", "resave"} /\ call.op = "none" /\ mem \in Identities
      /\ UNCHANGED <<opt, server, calm, refusals>>
  BY <1>i DEF Write, Position, Held
<1>1. CASE /\ pc' = "ready" /\ UNCHANGED <<mem, call>>
           /\ \/ disk' = mem /\ saved' = saved \cup DeviceOf(mem)
              \/ pc = "resave" /\ disk' = disk /\ saved' = saved
  <2>0. DeviceOf(disk') = DeviceOf(mem) /\ disk' # Damaged /\ disk' \in Identities \cup {Absent, Damaged}
    BY <1>i, <1>0, <1>1, IdentityAssumption DEF Held, IdentityTypeOK
  <2>1. IdentityTypeOK'
    BY <1>i, <1>0, <1>1, <2>0, DevicesOf DEF IdentityTypeOK
  <2>2. Position' /\ Held'
    BY <1>0, <1>1, <2>0 DEF Position, Held
  <2>3. Gone'
    BY <1>i, <1>0, <1>1 DEF Gone
  <2>4. Asked'
    BY <1>i, <1>0, <1>1 DEF Asked
  <2>5. NoChurn'
    <3>1. saved' \subseteq saved \cup DeviceOf(mem)
      BY <1>1
    <3>2. DeviceOf(disk) \cap server.live \subseteq DeviceOf(mem)
      BY <1>i, <1>0 DEF Gone, Held
    <3> QED
      BY <1>i, <1>0, <2>0, <3>1, <3>2 DEF NoChurn
  <2> QED
    BY <2>1, <2>2, <2>3, <2>4, <2>5 DEF Inv
<1>2. CASE Fail /\ UNCHANGED <<disk, saved>>
  BY <1>0, <1>2, FailKeeps
<1> QED
  BY <1>1, <1>2 DEF Write

\* The renewal of a refused certificate starts with the identity in use.
LEMMA GatewaysRefuseKeeps == ASSUME Inv, GatewaysRefuse PROVE Inv'
<1>i. IdentityTypeOK /\ Position /\ Held /\ Gone /\ Asked /\ NoChurn
  BY DEF Inv
<1>1. /\ pc = "ready" /\ pc' = "renew" /\ Waiting(call', "enrol")
      /\ UNCHANGED <<opt, server, disk, mem, calm, saved, refusals>>
  BY <1>i, CallWaits DEF GatewaysRefuse
<1>2. IdentityTypeOK'
  BY <1>i, <1>1 DEF IdentityTypeOK, Waiting, CallType
<1>3. Position' /\ Held' /\ Gone'
  BY <1>i, <1>1 DEF Position, Held, Gone, Waiting
<1>4. Asked'
  BY <1>i, <1>1 DEF Asked, Position
<1>5. NoChurn'
  BY <1>i, <1>1 DEF NoChurn
<1> QED
  BY <1>2, <1>3, <1>4, <1>5 DEF Inv

\* Damage to the file, age, a dropped registration, the end of the faults.
LEMMA WorldKeeps ==
  ASSUME Inv, Corrupt \/ Age \/ CalmDown \/ \E d \in Devices : Delete(d) PROVE Inv'
<1>i. IdentityTypeOK /\ Position /\ Held /\ Gone /\ Asked /\ NoChurn
  BY DEF Inv
<1>1. CASE Corrupt
  <2>1. /\ pc = "off" /\ disk \in Identities /\ disk' = Damaged /\ saved' = saved \ DeviceOf(disk)
        /\ UNCHANGED <<opt, server, mem, pc, call, calm, refusals>>
    BY <1>i, <1>1 DEF Corrupt, IdentityTypeOK
  <2>2. IdentityTypeOK'
    BY <1>i, <2>1, DevicesOf DEF IdentityTypeOK
  <2>3. Position' /\ Held' /\ Gone' /\ Asked'
    BY <1>i, <2>1 DEF Position, Held, Gone, Asked
  <2>4. NoChurn'
    BY <1>i, <2>1 DEF NoChurn
  <2> QED
    BY <2>2, <2>3, <2>4 DEF Inv
<1>2. CASE Age
  <2>1. /\ pc = "off" /\ disk \in Identities
        /\ UNCHANGED <<opt, server, mem, pc, call, calm, saved, refusals>>
    BY <1>i, <1>2 DEF Age, IdentityTypeOK
  <2>2. disk' \in Identities /\ disk'.dev = disk.dev
    BY <1>2, <2>1 DEF Age, Identities, Ages
  <2>3. IdentityTypeOK'
    BY <1>i, <2>1, <2>2 DEF IdentityTypeOK
  <2>4. Position' /\ Held' /\ Gone' /\ Asked'
    BY <1>i, <2>1 DEF Position, Held, Gone, Asked
  <2>5. NoChurn'
    BY <1>i, <2>1, <2>2, DevicesOf DEF NoChurn
  <2> QED
    BY <2>3, <2>4, <2>5 DEF Inv
<1>3. CASE CalmDown
  <2>1. calm' = TRUE /\ UNCHANGED <<opt, server, disk, mem, pc, call, saved, refusals>>
    BY <1>3 DEF CalmDown
  <2>2. IdentityTypeOK'
    BY <1>i, <2>1 DEF IdentityTypeOK
  <2>3. Position' /\ Held' /\ Gone' /\ Asked' /\ NoChurn'
    BY <1>i, <2>1 DEF Position, Held, Gone, Asked, NoChurn
  <2> QED
    BY <2>2, <2>3 DEF Inv
<1>4. ASSUME NEW d \in Devices, Delete(d) PROVE Inv'
  <2>1. /\ server' = [live |-> server.live \ {d}, key |-> [server.key EXCEPT ![d] = Absent]]
        /\ UNCHANGED <<opt, disk, mem, pc, call, calm, saved, refusals>>
    BY <1>4 DEF Delete
  <2>2. server'.live \subseteq server.live
    BY <2>1
  <2>3. IdentityTypeOK'
    BY <1>i, <2>1 DEF IdentityTypeOK
  <2>4. Position' /\ Held' /\ Asked'
    BY <1>i, <2>1 DEF Position, Held, Asked
  <2>5. Gone' /\ NoChurn'
    <3>1. mem' = mem /\ disk' = disk /\ pc' = pc /\ call' = call /\ saved' = saved
      BY <2>1
    <3> QED
      BY <1>i, <2>2, <3>1 DEF Gone, NoChurn
  <2> QED
    BY <2>3, <2>4, <2>5 DEF Inv
<1> QED
  BY <1>1, <1>2, <1>3, <1>4

\* The invariant is inductive: a registration is replaced in the file only when the
\* service has dropped it, and a refused one is on its way out.
THEOREM IdentityInvariant == IdentitySpec => []Inv
<1>1. Inv /\ [IdentityNext]_identityVars => Inv'
  <2>1. ASSUME Inv, IdentityNext PROVE Inv'
    <3>1. CASE Attempt
      BY <2>1, <3>1, AttemptTypes, AttemptKeeps DEF Inv
    <3>2. CASE LoadOrProvision \/ Write \/ GatewaysRefuse
      BY <2>1, <3>2, StartKeeps, WriteKeeps, GatewaysRefuseKeeps
    <3>3. CASE EndProcess
      BY <2>1, <3>3, FailKeeps DEF EndProcess
    <3>4. CASE Corrupt \/ Age \/ CalmDown \/ \E d \in Devices : Delete(d)
      BY <2>1, <3>4, WorldKeeps
    <3> QED
      BY <2>1, <3>1, <3>2, <3>3, <3>4 DEF IdentityNext, Work
  <2>2. ASSUME Inv, UNCHANGED identityVars PROVE Inv'
    BY <2>2 DEF Inv, IdentityTypeOK, Position, Held, Gone, Asked, NoChurn, identityVars
  <2> QED
    BY <2>1, <2>2
<1> QED
  BY <1>1, InitInv, PTL DEF IdentitySpec

\* A registration that was saved and that the service honours stays in the file
\* until the file itself is damaged, however often requests are applied unanswered,
\* answered with 403 or 5xx, writes fail and processes are killed.
THEOREM NoneGivenUp == IdentitySpec => []NoChurn
<1>1. Inv => NoChurn
  BY DEF Inv
<1> QED
  BY <1>1, IdentityInvariant, PTL

\* An enrolment that either route of enroll_key saw refused never ends with the
\* refused registration saved or in use, unless AETHER_REPROVISION=0.
THEOREM RefusedIsReplaced == IdentitySpec => []RefusalReplaced
<1>1. Inv => RefusalReplaced
  <2> SUFFICES ASSUME Inv, pc \in {"save", "ready"}, opt.reprovision, <<mem.dev, "enrol">> \in refusals
               PROVE  FALSE
    BY DEF RefusalReplaced
  <2>1. mem \in Identities /\ call.op = "none"
    BY DEF Inv, Held, Position
  <2>2. mem.dev \in Devices /\ mem.dev \in DeviceOf(mem)
    BY <2>1, DevicesOf
  <2> QED
    BY <2>1, <2>2 DEF Inv, Asked
<1> QED
  BY <1>1, IdentityInvariant, PTL
=============================================================================
