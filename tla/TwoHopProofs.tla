---------------------------- MODULE TwoHopProofs ----------------------------
(***************************************************************************)
(* run_gool and run_mim, for any edges, pool and failure limit: no task is *)
(* left behind, an outer edge is given up only for failures of its own and *)
(* not used again unasked, and "connected" means two validated hops unless *)
(* an Ironclad scan said it.                                               *)
(***************************************************************************)
EXTENDS TwoHop, TLAPS

Placed == {"use", "session"} \cup Raising

\* An edge in use is an edge, and one that has not failed too often.
PeerUsable == run.pc \in Placed => run.peer \in Peers /\ run.fails < MaxFails

\* Once the outer hop stands and until the inner one does, only it is proved.
OuterProved == run.pc \in {"inner", "wait"} => proof = {<<"outer", run.peer>>}

\* The inner edge being raised is a candidate: not the outer edge, in run_mim.
TryIsCandidate == run.pc = "wait" => Tries[run.at] \in Candidates(run.mode, run.peer)

Hops == PeerUsable /\ OuterProved /\ TryIsCandidate /\ NoLeftovers

\* The failures run_mim counts are failures of the outer hop ...
FailsAreOutages == run.mode = "mim" => run.fails <= outages

\* ... and one that killed the session's outer hop is still to be counted.
DeathUncounted ==
    run.mode = "mim" /\ run.pc \in {"inner", "wait", "session"} /\ "outer" \notin live =>
        run.fails < outages

\* A scan is on only with the edge given up, or with none known.
SelectReason == run.pc = "select" => run.fails = MaxFails \/ (run.last = None /\ run.cached = None)

\* The edge the top of the loop would use is one that was asked.
KnownAsked ==
    run.pc = "pick" /\ run.fails < MaxFails =>
        /\ run.last # None => asked = run.last
        /\ run.last = None /\ run.cached # None => asked = run.cached

LastIsPeer == run.pc \in {"session"} \cup Raising => run.last = run.peer
Fresh == run.pc = "cache" => run.last = None /\ run.cached = None /\ run.fails = 0

Rescans ==
    /\ FailsAreOutages /\ DeathUncounted
    /\ SelectReason /\ RescanEarned
    /\ KnownAsked /\ GivenUpMeansAsked /\ LastIsPeer /\ Fresh

TwoHopInv == TypeOK /\ Hops /\ Rescans

-----------------------------------------------------------------------------
(* Types.                                                                  *)

Places == {"off", "cache", "pick", "select", "use", "session"} \cup Raising

RunOK ==
    run \in [pc : Places, mode : Modes, ironclad : BOOLEAN, tun : BOOLEAN, forced : Peers \cup {None},
             cached : Peers \cup {None}, last : Peers \cup {None}, peer : Peers \cup {None},
             at : Nat \ {0}, fails : 0 .. MaxFails]
TasksOK == live \in SUBSET {"outer", "inner", "local"} /\ forwarders \in Nat /\ bridges \in Nat
WorldOK ==
    /\ net \in [outer : SUBSET Peers, through : SUBSET Peers]
    /\ store \in Peers \cup {None}
    /\ status \in {"ended", "starting", "connected", "panicked"}
HistoryOK ==
    /\ proof \in SUBSET ({"outer", "inner"} \X Peers)
    /\ asked \in Peers \cup {None}
    /\ outages \in 0 .. MaxFails

\* The type invariant, part by part.
LEMMA TypeParts == TypeOK <=> RunOK /\ TasksOK /\ WorldOK /\ HistoryOK
<1> QED
  BY DEF TypeOK, RunOK, TasksOK, WorldOK, HistoryOK, Places

\* The same after a step.
LEMMA TypePartsNext == RunOK' /\ TasksOK' /\ WorldOK' /\ HistoryOK' => TypeOK'
<1> QED
  BY DEF TypeOK, RunOK, TasksOK, WorldOK, HistoryOK, Places

\* An inner candidate is an edge, and in run_mim not the outer one.
LEMMA CandidateFacts ==
    ASSUME NEW mode \in Modes, NEW outer \in Peers, NEW c \in Candidates(mode, outer)
    PROVE  c \in Peers /\ (mode = "mim" => c # outer)
<1>1. {Pool[i] : i \in DOMAIN Pool} \subseteq Peers
  BY ConstantsAssumption
<1> QED
  BY <1>1 DEF Candidates, Modes

\* The capped count of outages.
LEMMA AtMostFacts ==
    ASSUME NEW n \in 0 .. MaxFails
    PROVE  /\ AtMost(n + 1) \in 0 .. MaxFails
           /\ n <= AtMost(n + 1)
           /\ \A m \in 0 .. MaxFails : m < MaxFails /\ m <= n => m < AtMost(n + 1)
           /\ \A m \in 0 .. MaxFails : m < MaxFails /\ m <= n => m + 1 <= AtMost(n + 1)
<1> QED
  BY ConstantsAssumption DEF AtMost

\* A step that leaves a session, or a place outside any, with nothing running: the
\* hops hold trivially.
LEMMA NothingRuns ==
    ASSUME run'.pc \in {"off", "cache", "pick", "select"}, forwarders' = 0, bridges' = 0
    PROVE  Hops'
<1> QED
  BY DEF Hops, PeerUsable, OuterProved, TryIsCandidate, NoLeftovers, Placed, Raising

-----------------------------------------------------------------------------
(* Choosing the outer edge.                                                *)

\* A run begins with no edge known and no failure counted.
LEMMA StartKeeps ==
    ASSUME TwoHopInv, NEW mode \in Modes, NEW ironclad \in BOOLEAN, NEW tun \in BOOLEAN,
           NEW forced \in Forcible \cup {None}, Start(mode, ironclad, tun, forced)
    PROVE  TwoHopInv'
<1>t. RunOK /\ TasksOK /\ WorldOK /\ HistoryOK
  BY TypeParts DEF TwoHopInv
<1>1. /\ run.pc = "off" /\ run'.pc \in {"cache", "pick"}
      /\ run'.last = None /\ run'.cached = None /\ run'.fails = 0 /\ run'.mode = mode
      /\ UNCHANGED <<net, store, live, forwarders, bridges>>
      /\ status' = "starting" /\ proof' = {} /\ asked' = None /\ outages' = 0
  BY DEF Start, tasks
<1>2. RunOK'
  BY ConstantsAssumption DEF Start, RunOK, Places
<1>3. TasksOK' /\ WorldOK' /\ HistoryOK'
  BY <1>t, <1>1, ConstantsAssumption DEF TasksOK, WorldOK, HistoryOK
<1>4. Hops'
  <2>1. forwarders = 0 /\ bridges = 0
    BY <1>1 DEF TwoHopInv, Hops, NoLeftovers
  <2> QED
    BY <1>1, <2>1, NothingRuns
<1>5. Rescans'
  BY <1>1 DEF Rescans, FailsAreOutages, DeathUncounted, SelectReason, RescanEarned, KnownAsked,
              GivenUpMeansAsked, LastIsPeer, Fresh, Raising
<1> QED
  BY <1>2, <1>3, <1>4, <1>5, TypePartsNext DEF TwoHopInv

\* The cached edge, if there is one, is one the loop will ask.
LEMMA LoadCachedKeeps == ASSUME TwoHopInv, LoadCached PROVE TwoHopInv'
<1>t. RunOK /\ TasksOK /\ WorldOK /\ HistoryOK
  BY TypeParts DEF TwoHopInv
<1>1. /\ run.pc = "cache" /\ run'.pc = "pick" /\ run'.mode = run.mode
      /\ run'.last = run.last /\ run'.fails = run.fails
      /\ \/ run'.cached = store /\ asked' = store /\ store \in Peers
         \/ run'.cached = run.cached /\ asked' = asked
      /\ UNCHANGED <<net, store, live, forwarders, bridges, status, proof, outages>>
  BY <1>t DEF LoadCached, RunOK, WorldOK, tasks
<1>2. RunOK'
  <2>1. \E c \in Peers \cup {None} : run' = [run EXCEPT !.pc = "pick", !.cached = c]
    <3>1. CASE run' = [run EXCEPT !.pc = "pick", !.cached = store]
      BY <1>t, <3>1 DEF WorldOK
    <3>2. CASE run' = [run EXCEPT !.pc = "pick"]
      <4>1. run.cached \in Peers \cup {None} /\ run' = [run EXCEPT !.pc = "pick", !.cached = run.cached]
        BY <1>t, <3>2 DEF RunOK
      <4> QED
        BY <4>1
    <3> QED
      BY <3>1, <3>2 DEF LoadCached
  <2> QED
    BY <1>t, <2>1 DEF RunOK, Places
<1>3. TasksOK' /\ WorldOK' /\ HistoryOK'
  BY <1>t, <1>1 DEF TasksOK, WorldOK, HistoryOK
<1>4. Hops'
  <2>1. forwarders = 0 /\ bridges = 0
    BY <1>1 DEF TwoHopInv, Hops, NoLeftovers
  <2> QED
    BY <1>1, <2>1, NothingRuns
<1>5. Rescans'
  BY <1>1, ConstantsAssumption
     DEF TwoHopInv, Rescans, FailsAreOutages, DeathUncounted, SelectReason, RescanEarned, KnownAsked,
         GivenUpMeansAsked, LastIsPeer, Fresh, Raising
<1> QED
  BY <1>2, <1>3, <1>4, <1>5, TypePartsNext DEF TwoHopInv

\* The top of the loop uses a known edge with failures to spare, or scans.
LEMMA PickKeeps == ASSUME TwoHopInv, Pick PROVE TwoHopInv'
<1>t. RunOK /\ TasksOK /\ WorldOK /\ HistoryOK
  BY TypeParts DEF TwoHopInv
<1>0. /\ run.pc = "pick" /\ run.fails \in 0 .. MaxFails /\ outages \in 0 .. MaxFails
      /\ forwarders = 0 /\ bridges = 0
  BY <1>t DEF Pick, RunOK, HistoryOK, TwoHopInv, Hops, NoLeftovers
<1>u. UNCHANGED <<net, store, live, forwarders, bridges, status, proof, outages>>
  BY DEF Pick, tasks
<1> DEFINE known == IF run.last # None THEN run.last ELSE run.cached
<1>1. CASE run.fails < MaxFails /\ known # None
  <2>1. run' = [run EXCEPT !.pc = "use", !.peer = known] /\ UNCHANGED asked
    BY <1>1 DEF Pick
  <2>2. /\ run'.pc = "use" /\ run'.peer = known /\ run'.mode = run.mode /\ run'.fails = run.fails
        /\ run'.last = run.last
    BY <1>t, <2>1 DEF RunOK
  <2>3. known \in Peers /\ asked = known
    BY <1>t, <1>0, <1>1 DEF RunOK, TwoHopInv, Rescans, KnownAsked
  <2>4. RunOK'
    BY <1>t, <2>1, <2>3 DEF RunOK, Places
  <2>5. TasksOK' /\ WorldOK' /\ HistoryOK'
    BY <1>t, <1>u, <2>1 DEF TasksOK, WorldOK, HistoryOK
  <2>6. Hops'
    BY <1>0, <1>1, <1>u, <2>2, <2>3
       DEF Hops, PeerUsable, OuterProved, TryIsCandidate, NoLeftovers, Placed, Raising
  <2>7. Rescans'
    BY <1>0, <1>u, <2>1, <2>2, <2>3
       DEF TwoHopInv, Rescans, FailsAreOutages, DeathUncounted, SelectReason, RescanEarned, KnownAsked,
           GivenUpMeansAsked, LastIsPeer, Fresh, Raising
  <2> QED
    BY <2>4, <2>5, <2>6, <2>7, TypePartsNext DEF TwoHopInv
<1>2. CASE run.fails < MaxFails /\ known = None
  <2>1. run' = [run EXCEPT !.pc = "select", !.peer = None] /\ UNCHANGED asked
    BY <1>2 DEF Pick
  <2>2. /\ run'.pc = "select" /\ run'.mode = run.mode /\ run'.fails = run.fails
        /\ run'.last = run.last /\ run'.cached = run.cached
    BY <1>t, <2>1 DEF RunOK
  <2>3. run.last = None /\ run.cached = None
    BY <1>2
  <2>4. RunOK'
    BY <1>t, <2>1 DEF RunOK, Places
  <2>5. TasksOK' /\ WorldOK' /\ HistoryOK'
    BY <1>t, <1>u, <2>1 DEF TasksOK, WorldOK, HistoryOK
  <2>6. Hops'
    BY <1>0, <1>u, <2>2, NothingRuns
  <2>7. Rescans'
    BY <1>0, <1>u, <2>1, <2>2, <2>3
       DEF TwoHopInv, Rescans, FailsAreOutages, DeathUncounted, SelectReason, RescanEarned, KnownAsked,
           GivenUpMeansAsked, LastIsPeer, Fresh, Raising
  <2> QED
    BY <2>4, <2>5, <2>6, <2>7, TypePartsNext DEF TwoHopInv
<1>3. CASE ~(run.fails < MaxFails)
  <2>1. run' = [run EXCEPT !.pc = "select", !.cached = None, !.peer = None] /\ asked' = None
    BY <1>3 DEF Pick
  <2>2. /\ run'.pc = "select" /\ run'.mode = run.mode /\ run'.fails = run.fails
        /\ run'.last = run.last
    BY <1>t, <2>1 DEF RunOK
  <2>3. run.fails = MaxFails
    BY <1>0, <1>3, ConstantsAssumption
  <2>4. RunOK'
    BY <1>t, <2>1 DEF RunOK, Places
  <2>5. TasksOK' /\ WorldOK' /\ HistoryOK'
    BY <1>t, <1>u, <2>1 DEF TasksOK, WorldOK, HistoryOK
  <2>6. Hops'
    BY <1>0, <1>u, <2>2, NothingRuns
  <2>7. run.mode = "mim" => run.fails <= outages
    BY DEF TwoHopInv, Rescans, FailsAreOutages
  <2>8. Rescans'
    BY <1>0, <1>u, <2>2, <2>3, <2>7, ConstantsAssumption
       DEF Rescans, FailsAreOutages, DeathUncounted, SelectReason, RescanEarned, KnownAsked,
           GivenUpMeansAsked, LastIsPeer, Fresh, Raising
  <2> QED
    BY <2>4, <2>5, <2>6, <2>8, TypePartsNext DEF TwoHopInv
<1> QED
  BY <1>1, <1>2, <1>3

\* A scan resets the count and what it finds has been asked.
LEMMA SelectKeeps == ASSUME TwoHopInv, Select PROVE TwoHopInv'
<1>t. RunOK /\ TasksOK /\ WorldOK /\ HistoryOK
  BY TypeParts DEF TwoHopInv
<1>0. run.pc = "select" /\ forwarders = 0 /\ bridges = 0 /\ 0 \in 0 .. MaxFails /\ 0 < MaxFails
  <2>1. 0 \in 0 .. MaxFails /\ 0 < MaxFails
    BY ConstantsAssumption
  <2>2. run.pc = "select"
    BY DEF Select
  <2> QED
    BY <2>1, <2>2 DEF TwoHopInv, Hops, NoLeftovers
<1>u. UNCHANGED <<net, store, live, forwarders, bridges, status, proof>>
  BY DEF Select, tasks
<1>1. ASSUME NEW p \in Peers, run' = [run EXCEPT !.pc = "use", !.peer = p, !.fails = 0],
             asked' = p, outages' = 0
      PROVE  TwoHopInv'
  <2>1. run'.pc = "use" /\ run'.peer = p /\ run'.fails = 0
    BY <1>t, <1>1 DEF RunOK
  <2>2. RunOK'
    BY <1>t, <1>0, <1>1 DEF RunOK, Places
  <2>3. TasksOK' /\ WorldOK' /\ HistoryOK'
    BY <1>t, <1>0, <1>1, <1>u DEF TasksOK, WorldOK, HistoryOK
  <2>4. Hops'
    BY <1>0, <1>u, <2>1
       DEF Hops, PeerUsable, OuterProved, TryIsCandidate, NoLeftovers, Placed, Raising
  <2>5. Rescans'
    BY <1>1, <2>1
       DEF Rescans, FailsAreOutages, DeathUncounted, SelectReason, RescanEarned, KnownAsked,
           GivenUpMeansAsked, LastIsPeer, Fresh, Raising
  <2> QED
    BY <2>2, <2>3, <2>4, <2>5, TypePartsNext DEF TwoHopInv
<1>2. CASE run' = [run EXCEPT !.pc = "pick"] /\ UNCHANGED <<asked, outages>>
  <2>1. /\ run'.pc = "pick" /\ run'.mode = run.mode /\ run'.fails = run.fails
        /\ run'.last = run.last /\ run'.cached = run.cached
    BY <1>t, <1>2 DEF RunOK
  <2>2. RunOK'
    BY <1>t, <1>2 DEF RunOK, Places
  <2>3. TasksOK' /\ WorldOK' /\ HistoryOK'
    BY <1>t, <1>2, <1>u DEF TasksOK, WorldOK, HistoryOK
  <2>4. Hops'
    BY <1>0, <1>u, <2>1, NothingRuns
  <2>5. run.fails < MaxFails => run.last = None /\ run.cached = None
    BY <1>0, ConstantsAssumption DEF TwoHopInv, Rescans, SelectReason
  <2>6. Rescans'
    BY <1>2, <2>1, <2>5
       DEF TwoHopInv, Rescans, FailsAreOutages, DeathUncounted, SelectReason, RescanEarned, KnownAsked,
           GivenUpMeansAsked, LastIsPeer, Fresh, Raising
  <2> QED
    BY <2>2, <2>3, <2>4, <2>6, TypePartsNext DEF TwoHopInv
<1>3. net.outer \subseteq Peers /\ (run.forced # None => run.forced \in Peers)
  BY <1>t DEF WorldOK, RunOK
<1> QED
  BY <1>1, <1>2, <1>3 DEF Select

\* A ping changes nothing but what the app is told.
LEMMA IroncladPingKeeps == ASSUME TwoHopInv, IroncladPing PROVE TwoHopInv'
<1>t. RunOK /\ TasksOK /\ WorldOK /\ HistoryOK
  BY TypeParts DEF TwoHopInv
<1>1. /\ UNCHANGED <<net, run, store, live, forwarders, bridges, proof, asked, outages>>
      /\ status' = "connected"
  BY DEF IroncladPing, tasks, history
<1>2. RunOK' /\ TasksOK' /\ WorldOK' /\ HistoryOK'
  BY <1>t, <1>1 DEF RunOK, TasksOK, WorldOK, HistoryOK
<1>3. Hops'
  BY <1>1 DEF TwoHopInv, Hops, PeerUsable, OuterProved, TryIsCandidate, NoLeftovers, Tries
<1>4. Rescans'
  BY <1>1
     DEF TwoHopInv, Rescans, FailsAreOutages, DeathUncounted, SelectReason, RescanEarned, KnownAsked,
         GivenUpMeansAsked, LastIsPeer, Fresh
<1> QED
  BY <1>2, <1>3, <1>4, TypePartsNext DEF TwoHopInv

\* A session begins with the edge that was picked, or run_mim ends without a second one.
LEMMA UseKeeps == ASSUME TwoHopInv, Use PROVE TwoHopInv'
<1>t. RunOK /\ TasksOK /\ WorldOK /\ HistoryOK
  BY TypeParts DEF TwoHopInv
<1>0. run.pc = "use" /\ run.peer \in Peers /\ run.fails < MaxFails /\ asked = run.peer
  <2>1. run.pc = "use"
    BY DEF Use
  <2> QED
    BY <2>1 DEF TwoHopInv, Hops, PeerUsable, Placed, Rescans, GivenUpMeansAsked
<1>z. forwarders = 0 /\ bridges = 0
  BY <1>0 DEF TwoHopInv, Hops, NoLeftovers
<1>u. UNCHANGED <<net, live, forwarders, bridges, proof, asked, outages>>
  BY DEF Use, tasks, history
<1>s. TasksOK' /\ WorldOK' /\ HistoryOK'
  <2>1. store' \in Peers \cup {None} /\ status' \in {status, "ended"}
    BY <1>t, <1>0 DEF Use, WorldOK
  <2> QED
    BY <1>t, <1>u, <2>1 DEF TasksOK, WorldOK, HistoryOK
<1>1. CASE run' = [run EXCEPT !.pc = "off", !.peer = None]
  <2>1. run'.pc = "off" /\ run'.mode = run.mode /\ run'.fails = run.fails
    BY <1>t, <1>1 DEF RunOK
  <2>2. RunOK'
    BY <1>t, <1>1 DEF RunOK, Places
  <2>3. Hops'
    BY <1>z, <1>u, <2>1, NothingRuns
  <2>4. Rescans'
    BY <1>u, <2>1
       DEF TwoHopInv, Rescans, FailsAreOutages, DeathUncounted, SelectReason, RescanEarned, KnownAsked,
           GivenUpMeansAsked, LastIsPeer, Fresh, Raising
  <2> QED
    BY <1>s, <2>2, <2>3, <2>4, TypePartsNext DEF TwoHopInv
<1>2. CASE run' = [run EXCEPT !.pc = "outer", !.last = run.peer, !.at = 1]
  <2>1. /\ run'.pc = "outer" /\ run'.mode = run.mode /\ run'.fails = run.fails
        /\ run'.peer = run.peer /\ run'.last = run.peer
    BY <1>t, <1>2 DEF RunOK
  <2>2. RunOK'
    <3>1. "outer" \in Places /\ 1 \in Nat \ {0}
      BY DEF Places, Raising
    <3> QED
      BY <1>t, <1>0, <1>2, <3>1 DEF RunOK
  <2>3. Hops'
    BY <1>0, <1>z, <1>u, <2>1
       DEF Hops, PeerUsable, OuterProved, TryIsCandidate, NoLeftovers, Placed, Raising
  <2>4. Rescans'
    BY <1>0, <1>u, <2>1
       DEF TwoHopInv, Rescans, FailsAreOutages, DeathUncounted, SelectReason, RescanEarned, KnownAsked,
           GivenUpMeansAsked, LastIsPeer, Fresh, Raising
  <2> QED
    BY <1>s, <2>2, <2>3, <2>4, TypePartsNext DEF TwoHopInv
<1> QED
  BY <1>1, <1>2 DEF Use

-----------------------------------------------------------------------------
(* One session.                                                            *)

\* Inside a session: where the run is, what it uses, what it has counted.
LEMMA PlacedFacts ==
    ASSUME TwoHopInv, run.pc \in {"session"} \cup Raising
    PROVE  /\ run.peer \in Peers /\ run.fails < MaxFails /\ run.fails \in 0 .. MaxFails
           /\ asked = run.peer /\ run.last = run.peer
           /\ run.mode = "mim" => run.fails <= outages
           /\ outages \in 0 .. MaxFails /\ run.mode \in Modes
<1>1. RunOK /\ HistoryOK
  BY TypeParts DEF TwoHopInv
<1> QED
  BY <1>1 DEF RunOK, HistoryOK, TwoHopInv, Hops, PeerUsable, Placed, Rescans, GivenUpMeansAsked,
              LastIsPeer, FailsAreOutages

\* A failure that is paid for was one of the outer hop, in run_mim: back at the
\* top of the loop the count is still covered by outages.
LEMMA LostKeeps ==
    ASSUME TwoHopInv, NEW paid \in BOOLEAN, Lost(paid), run.pc \in {"session"} \cup Raising,
           outages' \in 0 .. MaxFails,
           run.mode = "mim" => run.fails <= outages',
           run.mode = "mim" /\ paid => run.fails + 1 <= outages'
    PROVE  TwoHopInv'
<1>t. RunOK /\ TasksOK /\ WorldOK /\ HistoryOK
  BY TypeParts DEF TwoHopInv
<1>0. /\ run.fails < MaxFails /\ run.fails \in 0 .. MaxFails /\ asked = run.peer
      /\ run.last = run.peer
  BY PlacedFacts
<1>1. PICK n \in 0 .. MaxFails : /\ run' = [run EXCEPT !.pc = "pick", !.peer = None, !.fails = n]
                                 /\ n = IF paid THEN run.fails + 1 ELSE run.fails
  <2>1. (IF paid THEN run.fails + 1 ELSE run.fails) \in 0 .. MaxFails
    BY <1>0, ConstantsAssumption
  <2> QED
    BY <2>1 DEF Lost
<1>2. /\ run'.pc = "pick" /\ run'.mode = run.mode /\ run'.fails = n /\ run'.last = run.last
  BY <1>t, <1>1 DEF RunOK
<1>3. RunOK'
  BY <1>t, <1>1 DEF RunOK, Places
<1>4. /\ live' = {} /\ forwarders' = 0 /\ bridges' = 0 /\ proof' = {}
      /\ UNCHANGED <<net, store, status, asked>>
  BY DEF Lost
<1>5. TasksOK' /\ WorldOK' /\ HistoryOK'
  BY <1>t, <1>4 DEF TasksOK, WorldOK, HistoryOK
<1>6. Hops'
  BY <1>2, <1>4, NothingRuns
<1>7. run'.mode = "mim" => run'.fails <= outages'
  BY <1>0, <1>1, <1>2
<1>8. run'.last # None
  BY <1>0, <1>2, PlacedFacts, ConstantsAssumption
<1>9. Rescans'
  BY <1>0, <1>2, <1>4, <1>7, <1>8
     DEF Rescans, FailsAreOutages, DeathUncounted, SelectReason, RescanEarned, KnownAsked,
         GivenUpMeansAsked, LastIsPeer, Fresh, Raising
<1> QED
  BY <1>3, <1>5, <1>6, <1>9, TypePartsNext DEF TwoHopInv

\* The three ways a session is lost count alike and leave no task behind.
LEMMA LosesKeep ==
    ASSUME TwoHopInv,
           OuterFails \/ NoInner \/ \E t \in {"outer", "inner", "local"} : SessionEnds(t)
    PROVE  TwoHopInv'
<1>1. CASE OuterFails
  <2>1. /\ run.pc \in {"session"} \cup Raising
        /\ outages' = AtMost(outages + 1) /\ Lost(TRUE)
    BY <1>1 DEF OuterFails, Raising
  <2>2. /\ outages' \in 0 .. MaxFails
        /\ run.mode = "mim" => run.fails + 1 <= outages'
    BY <2>1, PlacedFacts, AtMostFacts
  <2>3. run.mode = "mim" => run.fails <= outages'
    BY <2>1, <2>2, PlacedFacts, ConstantsAssumption
  <2> QED
    BY <2>1, <2>2, <2>3, LostKeeps
<1>2. CASE NoInner
  <2>1. /\ run.pc \in {"session"} \cup Raising
        /\ UNCHANGED outages /\ Lost(run.mode = "gool")
    BY <1>2 DEF NoInner, Raising
  <2>2. (run.mode = "gool") \in BOOLEAN /\ ~(run.mode = "mim" /\ run.mode = "gool")
    OBVIOUS
  <2> QED
    BY <2>1, <2>2, PlacedFacts, LostKeeps
<1>3. ASSUME NEW t \in {"outer", "inner", "local"}, SessionEnds(t) PROVE TwoHopInv'
  <2>1. /\ run.pc = "session" /\ run.mode = "mim" /\ t \notin live
        /\ UNCHANGED outages /\ Lost(t = "outer")
    BY <1>3 DEF SessionEnds
  <2>2. t = "outer" => run.fails < outages
    BY <2>1 DEF TwoHopInv, Rescans, DeathUncounted
  <2>3. t = "outer" => run.fails + 1 <= outages
    BY <2>1, <2>2, PlacedFacts, ConstantsAssumption
  <2>4. (t = "outer") \in BOOLEAN
    OBVIOUS
  <2> QED
    BY <2>1, <2>3, <2>4, PlacedFacts, LostKeeps
<1> QED
  BY <1>1, <1>2, <1>3

\* The outer hop stands: it is proved, and it alone.
LEMMA RaiseOuterKeeps == ASSUME TwoHopInv, RaiseOuter PROVE TwoHopInv'
<1>t. RunOK /\ TasksOK /\ WorldOK /\ HistoryOK
  BY TypeParts DEF TwoHopInv
<1>0. run.pc = "outer" /\ run.peer \in Peers /\ run.fails < MaxFails
  <2>1. run.pc = "outer"
    BY DEF RaiseOuter
  <2> QED
    BY <2>1, PlacedFacts DEF Raising
<1>z. forwarders = 0 /\ bridges = 0
  BY <1>0 DEF TwoHopInv, Hops, NoLeftovers
<1>1. /\ run'.pc = "inner" /\ run'.mode = run.mode /\ run'.fails = run.fails
      /\ run'.peer = run.peer /\ run'.last = run.last
      /\ live' = {"outer"} /\ proof' = {<<"outer", run.peer>>}
      /\ UNCHANGED <<net, store, forwarders, bridges, status, asked, outages>>
  BY <1>t DEF RaiseOuter, RunOK
<1>2. RunOK'
  BY <1>t DEF RaiseOuter, RunOK, Places, Raising
<1>3. TasksOK' /\ WorldOK' /\ HistoryOK'
  BY <1>t, <1>0, <1>1 DEF TasksOK, WorldOK, HistoryOK
<1>4. Hops'
  BY <1>0, <1>z, <1>1
     DEF Hops, PeerUsable, OuterProved, TryIsCandidate, NoLeftovers, Placed, Raising
<1>5. Rescans'
  BY <1>0, <1>1
     DEF TwoHopInv, Rescans, FailsAreOutages, DeathUncounted, SelectReason, RescanEarned, KnownAsked,
         GivenUpMeansAsked, LastIsPeer, Fresh, Raising
<1> QED
  BY <1>2, <1>3, <1>4, <1>5, TypePartsNext DEF TwoHopInv

\* The next inner candidate is tried behind a forwarder of its own, or passed over.
LEMMA StartInnerKeeps == ASSUME TwoHopInv, StartInner PROVE TwoHopInv'
<1>t. RunOK /\ TasksOK /\ WorldOK /\ HistoryOK
  BY TypeParts DEF TwoHopInv
<1>0. run.pc = "inner" /\ run.peer \in Peers /\ run.fails < MaxFails /\ proof = {<<"outer", run.peer>>}
  <2>1. run.pc = "inner"
    BY DEF StartInner
  <2> QED
    BY <2>1, PlacedFacts DEF Raising, TwoHopInv, Hops, OuterProved
<1>z. forwarders = 0 /\ bridges = 0
  BY <1>0 DEF TwoHopInv, Hops, NoLeftovers
<1>u. UNCHANGED <<net, store, live, status, proof, asked, outages>>
  BY DEF StartInner, history
<1>1. CASE "outer" \in live /\ Tries[run.at] \in Candidates(run.mode, run.peer)
  <2>1. /\ run' = [run EXCEPT !.pc = "wait"] /\ forwarders' = forwarders + 1
        /\ bridges' = IF run.mode = "mim" /\ run.tun THEN bridges + 1 ELSE bridges
    BY <1>1 DEF StartInner
  <2>2. /\ run'.pc = "wait" /\ run'.mode = run.mode /\ run'.fails = run.fails /\ run'.at = run.at
        /\ run'.peer = run.peer /\ run'.last = run.last /\ run'.tun = run.tun
    BY <1>t, <2>1 DEF RunOK
  <2>3. RunOK'
    BY <1>t, <2>1 DEF RunOK, Places, Raising
  <2>4. forwarders' = 1 /\ bridges' = IF run.mode = "mim" /\ run.tun THEN 1 ELSE 0
    BY <1>z, <2>1
  <2>5. TasksOK' /\ WorldOK' /\ HistoryOK'
    BY <1>t, <1>u, <2>4 DEF TasksOK, WorldOK, HistoryOK
  <2>6. Tries' = Tries
    BY <2>2 DEF Tries
  <2>7. Hops'
    <3>1. PeerUsable' /\ OuterProved'
      BY <1>0, <1>u, <2>2 DEF PeerUsable, OuterProved
    <3>2. TryIsCandidate'
      BY <1>1, <2>2, <2>6 DEF TryIsCandidate, Candidates
    <3>3. NoLeftovers'
      BY <2>2, <2>4 DEF NoLeftovers
    <3> QED
      BY <3>1, <3>2, <3>3 DEF Hops
  <2>8. Rescans'
    BY <1>0, <1>u, <2>2
       DEF TwoHopInv, Rescans, FailsAreOutages, DeathUncounted, SelectReason, RescanEarned, KnownAsked,
           GivenUpMeansAsked, LastIsPeer, Fresh, Raising
  <2> QED
    BY <2>3, <2>5, <2>7, <2>8, TypePartsNext DEF TwoHopInv
<1>2. CASE ~("outer" \in live /\ Tries[run.at] \in Candidates(run.mode, run.peer))
  <2>1. run' = [run EXCEPT !.at = @ + 1] /\ UNCHANGED <<forwarders, bridges>>
    BY <1>2 DEF StartInner
  <2>2. /\ run'.pc = "inner" /\ run'.mode = run.mode /\ run'.fails = run.fails
        /\ run'.peer = run.peer /\ run'.last = run.last
    BY <1>t, <1>0, <2>1 DEF RunOK
  <2>3. RunOK'
    <3>1. run.at + 1 \in Nat \ {0}
      BY <1>t DEF RunOK
    <3> QED
      BY <1>t, <2>1, <3>1 DEF RunOK
  <2>4. TasksOK' /\ WorldOK' /\ HistoryOK'
    BY <1>t, <1>u, <2>1 DEF TasksOK, WorldOK, HistoryOK
  <2>5. Hops'
    BY <1>0, <1>z, <1>u, <2>1, <2>2
       DEF Hops, PeerUsable, OuterProved, TryIsCandidate, NoLeftovers, Placed, Raising
  <2>6. Rescans'
    BY <1>0, <1>u, <2>2
       DEF TwoHopInv, Rescans, FailsAreOutages, DeathUncounted, SelectReason, RescanEarned, KnownAsked,
           GivenUpMeansAsked, LastIsPeer, Fresh, Raising
  <2> QED
    BY <2>3, <2>4, <2>5, <2>6, TypePartsNext DEF TwoHopInv
<1> QED
  BY <1>1, <1>2

\* A refused inner hop takes its forwarder, and its TUN bridge, with it.
LEMMA InnerRefusedKeeps == ASSUME TwoHopInv, InnerRefused PROVE TwoHopInv'
<1>t. RunOK /\ TasksOK /\ WorldOK /\ HistoryOK
  BY TypeParts DEF TwoHopInv
<1>0. run.pc = "wait" /\ run.peer \in Peers /\ run.fails < MaxFails /\ proof = {<<"outer", run.peer>>}
  <2>1. run.pc = "wait"
    BY DEF InnerRefused
  <2> QED
    BY <2>1, PlacedFacts DEF Raising, TwoHopInv, Hops, OuterProved
<1>z. forwarders = 1 /\ bridges = IF run.tun /\ run.mode = "mim" THEN 1 ELSE 0
  BY <1>0 DEF TwoHopInv, Hops, NoLeftovers
<1>u. UNCHANGED <<net, store, live, status, proof, asked, outages>>
  BY DEF InnerRefused, history
<1>1. run' = [run EXCEPT !.pc = "inner", !.at = @ + 1]
  BY DEF InnerRefused
<1>2. forwarders' = 0 /\ bridges' = 0
  BY <1>z DEF InnerRefused
<1>3. /\ run'.pc = "inner" /\ run'.mode = run.mode /\ run'.fails = run.fails
      /\ run'.peer = run.peer /\ run'.last = run.last
  BY <1>t, <1>1 DEF RunOK
<1>4. RunOK'
  <2>1. run.at + 1 \in Nat \ {0} /\ "inner" \in Places
    BY <1>t DEF RunOK, Places, Raising
  <2> QED
    BY <1>t, <1>1, <2>1 DEF RunOK
<1>5. TasksOK' /\ WorldOK' /\ HistoryOK'
  BY <1>t, <1>u, <1>2 DEF TasksOK, WorldOK, HistoryOK
<1>6. Hops'
  BY <1>0, <1>u, <1>2, <1>3
     DEF Hops, PeerUsable, OuterProved, TryIsCandidate, NoLeftovers, Placed, Raising
<1>7. Rescans'
  BY <1>0, <1>u, <1>3
     DEF TwoHopInv, Rescans, FailsAreOutages, DeathUncounted, SelectReason, RescanEarned, KnownAsked,
         GivenUpMeansAsked, LastIsPeer, Fresh, Raising
<1> QED
  BY <1>4, <1>5, <1>6, <1>7, TypePartsNext DEF TwoHopInv

\* Both hops stand: what Ready proves, and what it leaves running.
LEMMA ReadyKeeps ==
    ASSUME TwoHopInv, Ready
    PROVE  /\ TwoHopInv'
           /\ \E c \in Peers : /\ proof' = {<<"outer", run.peer>>, <<"inner", c>>}
                               /\ run.mode = "mim" => c # run.peer
<1>t. RunOK /\ TasksOK /\ WorldOK /\ HistoryOK
  BY TypeParts DEF TwoHopInv
<1>0. run.pc = "wait" /\ run.peer \in Peers /\ run.fails < MaxFails /\ proof = {<<"outer", run.peer>>}
  <2>1. run.pc = "wait"
    BY DEF Ready
  <2> QED
    BY <2>1, PlacedFacts DEF Raising, TwoHopInv, Hops, OuterProved
<1>z. forwarders = 1
  BY <1>0 DEF TwoHopInv, Hops, NoLeftovers
<1> DEFINE c == Tries[run.at]
<1>c. c \in Peers /\ (run.mode = "mim" => c # run.peer)
  <2>1. c \in Candidates(run.mode, run.peer) /\ run.mode \in Modes
    BY <1>t, <1>0 DEF TwoHopInv, Hops, TryIsCandidate, RunOK
  <2> QED
    BY <1>0, <2>1, CandidateFacts
<1>1. /\ run' = [run EXCEPT !.pc = "session"]
      /\ live' = {"outer", "inner", "local"} /\ bridges' = (IF run.tun THEN 1 ELSE 0)
      /\ proof' = proof \cup {<<"inner", c>>} /\ status' = "connected"
      /\ UNCHANGED <<net, store, forwarders, asked, outages>>
  BY DEF Ready
<1> HIDE DEF c
<1>2. /\ run'.pc = "session" /\ run'.mode = run.mode /\ run'.fails = run.fails
      /\ run'.peer = run.peer /\ run'.last = run.last /\ run'.tun = run.tun
  BY <1>t, <1>1 DEF RunOK
<1>3. RunOK'
  BY <1>t, <1>1 DEF RunOK, Places
<1>4. proof' = {<<"outer", run.peer>>, <<"inner", c>>}
  BY <1>0, <1>1
<1>5. TasksOK' /\ WorldOK' /\ HistoryOK'
  BY <1>t, <1>0, <1>z, <1>c, <1>1, <1>4 DEF TasksOK, WorldOK, HistoryOK
<1>6. Hops'
  BY <1>0, <1>z, <1>1, <1>2
     DEF Hops, PeerUsable, OuterProved, TryIsCandidate, NoLeftovers, Placed, Raising
<1>7. Rescans'
  BY <1>0, <1>1, <1>2
     DEF TwoHopInv, Rescans, FailsAreOutages, DeathUncounted, SelectReason, RescanEarned, KnownAsked,
         GivenUpMeansAsked, LastIsPeer, Fresh, Raising
<1>8. TwoHopInv'
  BY <1>3, <1>5, <1>6, <1>7, TypePartsNext DEF TwoHopInv
<1> QED
  BY <1>c, <1>4, <1>8

\* A death of the outer hop is an outage before the loop counts it as a failure.
LEMMA DiesKeeps ==
    ASSUME TwoHopInv, NEW t \in {"outer", "inner", "local"}, Dies(t) PROVE TwoHopInv'
<1>t. RunOK /\ TasksOK /\ WorldOK /\ HistoryOK
  BY TypeParts DEF TwoHopInv
<1>1. /\ live' = live \ {t}
      /\ outages' = IF t = "outer" THEN AtMost(outages + 1) ELSE outages
      /\ UNCHANGED <<net, run, store, forwarders, bridges, status, proof, asked>>
  BY DEF Dies
<1>2. outages' \in 0 .. MaxFails /\ outages <= outages'
  BY <1>t, <1>1, AtMostFacts, ConstantsAssumption DEF HistoryOK
<1>3. RunOK' /\ TasksOK' /\ WorldOK' /\ HistoryOK'
  BY <1>t, <1>1, <1>2 DEF RunOK, TasksOK, WorldOK, HistoryOK
<1>4. Hops'
  BY <1>1 DEF TwoHopInv, Hops, PeerUsable, OuterProved, TryIsCandidate, NoLeftovers, Tries
<1>5. run.fails \in 0 .. MaxFails /\ outages \in 0 .. MaxFails
  BY <1>t DEF RunOK, HistoryOK
<1>6. FailsAreOutages'
  BY <1>1, <1>2, <1>5, ConstantsAssumption DEF TwoHopInv, Rescans, FailsAreOutages
<1>7. DeathUncounted'
  <2> SUFFICES ASSUME run.mode = "mim", run.pc \in {"inner", "wait", "session"}, "outer" \notin live'
               PROVE  run.fails < outages'
    BY <1>1 DEF DeathUncounted
  <2>1. CASE t = "outer"
    <3>1. run.fails < MaxFails /\ run.fails <= outages
      BY PlacedFacts DEF Raising
    <3> QED
      BY <1>1, <1>5, <2>1, <3>1, AtMostFacts
  <2>2. CASE t # "outer"
    <3>1. run.fails < outages
      BY <1>1, <2>2 DEF TwoHopInv, Rescans, DeathUncounted
    <3> QED
      BY <1>1, <2>2, <3>1
  <2> QED
    BY <2>1, <2>2
<1>8. RescanEarned'
  BY <1>1, <1>2, <1>5, ConstantsAssumption DEF TwoHopInv, Rescans, RescanEarned
<1>9. Rescans'
  BY <1>1, <1>6, <1>7, <1>8
     DEF TwoHopInv, Rescans, SelectReason, KnownAsked, GivenUpMeansAsked, LastIsPeer, Fresh
<1> QED
  BY <1>3, <1>4, <1>9, TypePartsNext DEF TwoHopInv

\* A panic or a stop leaves nothing behind.
LEMMA EndKeeps == ASSUME TwoHopInv, GoolSessionEnds \/ Stop PROVE TwoHopInv'
<1>t. RunOK /\ TasksOK /\ WorldOK /\ HistoryOK
  BY TypeParts DEF TwoHopInv
<1>1. /\ run' = [run EXCEPT !.pc = "off", !.peer = None]
      /\ live' = {} /\ forwarders' = 0 /\ bridges' = 0 /\ proof' = {}
      /\ status' \in {"ended", "panicked"}
      /\ UNCHANGED <<net, store, asked, outages>>
  BY DEF GoolSessionEnds, Stop
<1>2. run'.pc = "off" /\ run'.mode = run.mode /\ run'.fails = run.fails
  BY <1>t, <1>1 DEF RunOK
<1>3. RunOK'
  BY <1>t, <1>1 DEF RunOK, Places
<1>4. TasksOK' /\ WorldOK' /\ HistoryOK'
  BY <1>t, <1>1 DEF TasksOK, WorldOK, HistoryOK
<1>5. Hops'
  BY <1>1, <1>2, NothingRuns
<1>6. Rescans'
  BY <1>1, <1>2
     DEF TwoHopInv, Rescans, FailsAreOutages, DeathUncounted, SelectReason, RescanEarned, KnownAsked,
         GivenUpMeansAsked, LastIsPeer, Fresh, Raising
<1> QED
  BY <1>3, <1>4, <1>5, <1>6, TypePartsNext DEF TwoHopInv

\* What the network does touches neither the run nor its tasks.
LEMMA NetworkKeeps == ASSUME TwoHopInv, Network PROVE TwoHopInv'
<1>t. RunOK /\ TasksOK /\ WorldOK /\ HistoryOK
  BY TypeParts DEF TwoHopInv
<1>1. UNCHANGED <<run, store, live, forwarders, bridges, status, proof, asked, outages>>
  BY DEF Network, tasks, history
<1>2. net' \in [outer : SUBSET Peers, through : SUBSET Peers]
  <2> PICK p \in Peers, side \in {"outer", "through"} :
          net' = [net EXCEPT ![side] = IF p \in @ THEN @ \ {p} ELSE @ \cup {p}]
    BY DEF Network
  <2>1. CASE side = "outer"
    BY <1>t, <2>1 DEF WorldOK
  <2>2. CASE side = "through"
    BY <1>t, <2>2 DEF WorldOK
  <2> QED
    BY <2>1, <2>2
<1>3. RunOK' /\ TasksOK' /\ WorldOK' /\ HistoryOK'
  BY <1>t, <1>1, <1>2 DEF RunOK, TasksOK, WorldOK, HistoryOK
<1>4. Hops'
  BY <1>1 DEF TwoHopInv, Hops, PeerUsable, OuterProved, TryIsCandidate, NoLeftovers, Tries
<1>5. Rescans'
  BY <1>1
     DEF TwoHopInv, Rescans, FailsAreOutages, DeathUncounted, SelectReason, RescanEarned, KnownAsked,
         GivenUpMeansAsked, LastIsPeer, Fresh
<1> QED
  BY <1>3, <1>4, <1>5, TypePartsNext DEF TwoHopInv

-----------------------------------------------------------------------------
(* The theorems.                                                           *)

\* No run, no task and no history at first.
LEMMA TwoHopInit == Init => TwoHopInv
<1> SUFFICES ASSUME Init PROVE TwoHopInv
  OBVIOUS
<1>1. 0 \in 0 .. MaxFails
  BY ConstantsAssumption
<1>2. RunOK
  BY <1>1 DEF Init, RunOK, Places, Modes
<1>3. TasksOK /\ WorldOK /\ HistoryOK
  BY <1>1 DEF Init, TasksOK, WorldOK, HistoryOK
<1>4. Hops
  BY DEF Init, Hops, PeerUsable, OuterProved, TryIsCandidate, NoLeftovers, Placed, Raising
<1>5. Rescans
  BY DEF Init, Rescans, FailsAreOutages, DeathUncounted, SelectReason, RescanEarned, KnownAsked,
         GivenUpMeansAsked, LastIsPeer, Fresh, Raising
<1> QED
  BY <1>2, <1>3, <1>4, <1>5, TypeParts DEF TwoHopInv

\* Every step keeps the inductive invariant.
LEMMA TwoHopStep == TwoHopInv /\ [Next]_vars => TwoHopInv'
<1>1. ASSUME TwoHopInv, Next PROVE TwoHopInv'
  BY <1>1, StartKeeps, LoadCachedKeeps, PickKeeps, SelectKeeps, IroncladPingKeeps, UseKeeps, RaiseOuterKeeps, LosesKeep,
     StartInnerKeeps, InnerRefusedKeeps, ReadyKeeps, DiesKeeps, EndKeeps, NetworkKeeps DEF Next, CoreStep
<1>2. ASSUME TwoHopInv, UNCHANGED vars PROVE TwoHopInv'
  <2>1. TypeOK'
    BY <1>2 DEF TwoHopInv, TypeOK, vars
  <2>2. Hops'
    BY <1>2 DEF TwoHopInv, vars, Hops, PeerUsable, OuterProved, TryIsCandidate, NoLeftovers, Tries
  <2>3. Rescans'
    BY <1>2
       DEF TwoHopInv, vars, Rescans, FailsAreOutages, DeathUncounted, SelectReason, RescanEarned,
           KnownAsked, GivenUpMeansAsked, LastIsPeer, Fresh
  <2> QED
    BY <2>1, <2>2, <2>3 DEF TwoHopInv
<1> QED
  BY <1>1, <1>2

\* The inductive invariant of run_gool and run_mim.
THEOREM TwoHopInvariant == Spec => []TwoHopInv
<1> QED
  BY TwoHopInit, TwoHopStep, PTL DEF Spec

\* run_warp_in_warp and run_masque_in_masque leave no forwarder and no TUN bridge
\* behind, however many inner edges were refused and however the session ended.
THEOREM NothingLeftOver == Spec => []NoLeftovers
<1>1. TwoHopInv => NoLeftovers
  BY DEF TwoHopInv, Hops
<1> QED
  BY <1>1, TwoHopInvariant, PTL

\* run_mim gives an outer edge up only after MAX_OUTER_FAILS failures of the outer
\* hop itself: refusals of inner edges never cost a healthy outer one.
THEOREM RescanSafe == Spec => []RescanEarned
<1>1. TwoHopInv => RescanEarned
  BY DEF TwoHopInv, Rescans
<1> QED
  BY <1>1, TwoHopInvariant, PTL

\* Neither loop uses an outer edge it gave up before a later check accepted it.
THEOREM GivenUpSafe == Spec => []GivenUpMeansAsked
<1>1. TwoHopInv => GivenUpMeansAsked
  BY DEF TwoHopInv, Rescans
<1> QED
  BY <1>1, TwoHopInvariant, PTL

\* Outside a run_mim that scans in Ironclad mode, mark_ready is called only over two
\* validated hops of the same session, over two different edges in run_mim.
THEOREM ReadySafe == Spec => ReadyMeansBothHops
<1> DEFINE Announces ==
             status # "connected" /\ status' = "connected" /\ ~run.ironclad => BothHopsStand
<1>1. ASSUME TwoHopInv, Next PROVE Announces
  <2> SUFFICES ASSUME status # "connected", status' = "connected", ~run.ironclad
               PROVE  BothHopsStand
    OBVIOUS
  <2>1. ASSUME NEW mode \in Modes, NEW ironclad \in BOOLEAN, NEW tun \in BOOLEAN,
               NEW forced \in Forcible \cup {None}, Start(mode, ironclad, tun, forced)
        PROVE  FALSE
    BY <1>1, <2>1 DEF Start
  <2>2. CASE LoadCached \/ Pick \/ Select \/ Use \/ Network
    BY <1>1, <2>2 DEF LoadCached, Pick, Select, Use, Network
  <2>3. CASE RaiseOuter \/ StartInner \/ InnerRefused
    BY <1>1, <2>3 DEF RaiseOuter, StartInner, InnerRefused
  <2>4. CASE OuterFails \/ NoInner \/ GoolSessionEnds \/ Stop
    BY <1>1, <2>4 DEF OuterFails, NoInner, Lost, GoolSessionEnds, Stop
  <2>5. ASSUME NEW t \in {"outer", "inner", "local"}, Dies(t) \/ SessionEnds(t) PROVE FALSE
    BY <1>1, <2>5 DEF Dies, SessionEnds, Lost
  <2>6. CASE Ready
    BY <1>1, <2>6, ReadyKeeps DEF BothHopsStand
  <2>7. CASE IroncladPing
    BY <1>1, <2>7 DEF IroncladPing
  <2> QED
    BY <1>1, <2>1, <2>2, <2>3, <2>4, <2>5, <2>6, <2>7 DEF Next, CoreStep
<1>2. TwoHopInv /\ [Next]_vars => [Announces]_vars
  BY <1>1
<1> HIDE DEF Announces
<1>3. Spec => [][Announces]_vars
  BY <1>2, TwoHopInvariant, PTL DEF Spec
<1> QED
  BY <1>3 DEF ReadyMeansBothHops, Announces
=============================================================================
