------------------------ MODULE WireGuardLoopProofs -------------------------
(***************************************************************************)
(* run_wireguard, for any endpoints, profiles, imported configuration and  *)
(* limits: the loop stays off an endpoint on a cooldown, "connected" is    *)
(* told for a session that proved its own socket, and the loop implements  *)
(* the contract of a reconnect loop without trusting any endpoint.         *)
(***************************************************************************)
EXTENDS WireGuardLoop, SequenceTheorems, TLAPS

Searching == {"team", "cached", "top", "retry", "list", "forced", "hunt"}
Places == {"off", "use", "tunnel"} \cup Searching

RunOK ==
    run \in [pc : Places, list : Seq(Peers), at : Nat \ {0}, forced : Peers \cup {None},
             pinned : BOOLEAN, fallback : BOOLEAN,
             chosen : Pairs \cup {NoPair}, lastGood : Pairs \cup {NoPair}, fails : Nat]
SessOK ==
    sess \in [phase : {"none", "validating", "ready", "up"}, local : {"none", "alive", "dead"},
              quiet : 0 .. StaleTicks, sock : Pairs \cup {NoPair}]
RestOK ==
    /\ works \in SUBSET Pairs
    /\ cooling \in SUBSET Peers
    /\ store \in Pairs \cup {NoPair}
    /\ status \in {"ended", "starting", "connected"}
    /\ evidence \in Pairs \cup {NoPair}

\* Evidence is the pair in use, and lives as long as it is in use.
EvidenceIsChosen ==
    IF run.pc \in {"use", "tunnel"} THEN run.chosen \in Pairs /\ evidence = run.chosen
                                    ELSE evidence = NoPair

SessionWhenWaiting == run.pc = "tunnel" <=> sess.phase # "none"

\* The socket that is kept is the one whose data plane was proved.
SocketProved == sess.phase = "ready" => sess.sock = run.chosen

Evidenced == EvidenceIsChosen /\ SessionWhenWaiting /\ SocketProved /\ NoFakeConnect

\* Without a pinned endpoint there is no list and no forced endpoint to try.
PinnedLists == ~run.pinned => run.list = <<>> /\ run.forced = None

\* The first endpoints are tried before any cooldown can exist.
NothingCoolsYet == run.pc \in {"team", "cached"} => cooling = {}

\* The endpoint about to be used is not on a cooldown.
ChosenNotCooling == ~run.pinned /\ run.pc = "use" => run.chosen[1] \notin cooling

Cooled == PinnedLists /\ NothingCoolsYet /\ ChosenNotCooling /\ CooldownKept

WireGuardInv == TypeOK /\ Evidenced /\ Cooled

-----------------------------------------------------------------------------
(* Types, and the shapes a step can have.                                  *)

\* The type invariant, part by part.
LEMMA TypeParts == TypeOK <=> RunOK /\ SessOK /\ RestOK
<1> QED
  BY DEF TypeOK, RunOK, SessOK, RestOK, Places, Searching

\* An endpoint is never mistaken for "none", nor a pair for "no pair".
LEMMA PairFacts ==
    /\ NoPair \notin Pairs
    /\ NoPair[1] = None
    /\ \A pair \in Pairs : pair[1] \in Peers /\ pair[1] # None
<1> QED
  BY ConstantsAssumption DEF Pairs, NoPair

Begun ==
    \E forced \in Forcible \cup {None}, imported \in {<<>>, Imported}, fallback \in BOOLEAN :
        Start(forced, imported, fallback)

\* A check accepted the pair.
Accepts(pair) ==
    /\ run.pc \in Searching
    /\ run' = [run EXCEPT !.pc = "use", !.chosen = pair]
    /\ evidence' = pair
    /\ UNCHANGED idle

\* The search goes on.
Goes(pc) ==
    /\ run.pc \in Searching
    /\ run' = [run EXCEPT !.pc = pc]
    /\ UNCHANGED <<evidence, idle>>

\* The imported list moves on, or is given up.
Advances ==
    /\ run.pc = "list"
    /\ run' \in {[run EXCEPT !.at = @ + 1], [run EXCEPT !.pc = "top", !.list = <<>>]}
    /\ UNCHANGED <<evidence, idle>>

\* The run ends because what the user pinned does not work.
Abandons ==
    /\ run.pc \in Searching
    /\ run' = [run EXCEPT !.pc = "off"]
    /\ status' = "ended"
    /\ UNCHANGED <<evidence, works, cooling, store, sess>>

\* The session lives on.
Beats ==
    /\ sess.phase = "up"
    /\ \/ \E q \in 0 .. StaleTicks : sess' = [sess EXCEPT !.quiet = q]
       \/ sess' = [sess EXCEPT !.local = "dead"]
    /\ UNCHANGED <<works, run, cooling, store, status, evidence>>

\* Where a check can succeed: an unpinned run only accepts an endpoint before any
\* cooldown, the last good one, or one the scan found outside the cooldowns.
Fresh(pair) ==
    \/ run.pc \in {"team", "cached"}
    \/ run.pc = "retry" /\ pair = run.lastGood
    \/ run.pc = "list" /\ run.list # <<>>
    \/ run.pc = "forced" /\ run.forced # None
    \/ pair[1] \notin cooling

\* What one step of the choice of an endpoint does.
LEMMA ChoosingShapes ==
    ASSUME TypeOK, Choosing
    PROVE  \/ \E pair \in Pairs : Accepts(pair) /\ Fresh(pair)
           \/ \E pc \in Searching \ {"team", "cached", "retry"} : Goes(pc)
           \/ run.pc = "team" /\ Goes("cached")
           \/ Advances \/ Abandons \/ Top \/ Use
<1>w. works \subseteq Pairs
  BY DEF TypeOK
<1>p. \A q \in Peers, f \in Profiles : <<q, f>>[1] = q
  OBVIOUS
<1> USE DEF Searching, Goto, Accept, AcceptPeer, idle
<1>1. CASE TryTeam
  BY <1>w, <1>1 DEF TryTeam, Goes, Accepts, Fresh
<1>2. CASE TryCached
  BY <1>w, <1>2 DEF TryCached, Goes, Accepts, Fresh
<1>3. CASE Retry
  BY <1>w, <1>3 DEF Retry, Goes, Accepts, Fresh
<1>4. CASE TryList
  <2>1. CASE run.list = <<>> /\ Goto("forced") /\ UNCHANGED status
    BY <1>4, <2>1 DEF TryList, Goes
  <2>2. CASE run.at <= Len(run.list) /\ ~Repeated /\ AcceptPeer(run.list[run.at]) /\ UNCHANGED status
    <3>1. run.list # <<>>
      BY <2>2 DEF TypeOK
    <3> QED
      BY <1>w, <1>4, <2>2, <3>1 DEF TryList, Accepts, Fresh
  <2>3. CASE run' = [run EXCEPT !.at = @ + 1] /\ UNCHANGED <<evidence, status>>
    BY <1>4, <2>3 DEF TryList, Advances
  <2>4. CASE run' = [run EXCEPT !.pc = "top", !.list = <<>>] /\ UNCHANGED <<evidence, status>>
    BY <1>4, <2>4 DEF TryList, Advances
  <2>5. CASE run' = [run EXCEPT !.pc = "off"] /\ status' = "ended" /\ UNCHANGED evidence
    BY <1>4, <2>5 DEF TryList, Abandons
  <2> QED
    BY <1>4, <2>1, <2>2, <2>3, <2>4, <2>5 DEF TryList
<1>5. CASE TryForced
  BY <1>w, <1>5 DEF TryForced, Goes, Accepts, Abandons, Fresh
<1>6. CASE Hunt
  BY <1>w, <1>p, <1>6 DEF Hunt, Goes, Accepts, Fresh
<1> QED
  BY <1>1, <1>2, <1>3, <1>4, <1>5, <1>6 DEF Choosing

\* Every step of the loop.
LEMMA Shapes ==
    ASSUME TypeOK, Next
    PROVE  \/ Begun \/ Choosing \/ Validate \/ Expose \/ (sess.phase # "none" /\ Over)
           \/ Beats \/ Network \/ CooldownEnds \/ Stop
<1>1. CASE Session
  BY <1>1 DEF Session, ValidationFails, SendTaskEnds
<1>2. CASE RecvTaskEnds
  BY <1>2 DEF RecvTaskEnds
<1>3. sess.quiet \in 0 .. StaleTicks /\ 0 \in 0 .. StaleTicks
  BY ConstantsAssumption DEF TypeOK
<1>4. CASE Receive \/ LocalDies
  BY <1>3, <1>4 DEF Receive, LocalDies, Beats
<1>5. CASE Health
  <2>1. CASE sess.quiet >= StaleTicks
    BY <1>5, <2>1 DEF Health
  <2>2. CASE ~(sess.quiet >= StaleTicks)
    <3>1. sess.quiet + 1 \in 0 .. StaleTicks
      BY <1>3, <2>2, ConstantsAssumption
    <3> QED
      BY <1>5, <2>2, <3>1 DEF Health, Beats
  <2> QED
    BY <2>1, <2>2
<1> QED
  BY <1>1, <1>2, <1>4, <1>5 DEF Next, Begun

\* run_wireguard keeps its types.
LEMMA TypeStep == TypeOK /\ [Next]_vars => TypeOK'
<1>p. RunOK' /\ SessOK' /\ RestOK' => TypeOK'
  BY DEF TypeOK, RunOK, SessOK, RestOK, Places, Searching
<1>0. ASSUME TypeOK, UNCHANGED vars PROVE TypeOK'
  BY <1>0 DEF TypeOK, vars
<1> SUFFICES ASSUME TypeOK, Next PROVE RunOK' /\ SessOK' /\ RestOK'
  BY <1>p, <1>0
<1>t. RunOK /\ SessOK /\ RestOK
  BY TypeParts
<1>s. NoSession \in [phase : {"none", "validating", "ready", "up"}, local : {"none", "alive", "dead"},
                      quiet : 0 .. StaleTicks, sock : Pairs \cup {NoPair}]
  BY ConstantsAssumption DEF NoSession
<1>1. CASE Begun
  <2> PICK forced \in Forcible \cup {None}, imported \in {<<>>, Imported}, fallback \in BOOLEAN :
          Start(forced, imported, fallback)
    BY <1>1 DEF Begun
  <2> DEFINE list == IF \E i \in DOMAIN imported : imported[i] = store[1]
                     THEN <<store[1]>> \o imported ELSE imported
  <2>1. imported \in Seq(Peers) /\ forced \in Peers \cup {None}
    <3>1. <<>> \in Seq(Peers) /\ Imported \in Seq(Peers) /\ Forcible \subseteq Peers
      BY ConstantsAssumption
    <3> QED
      BY <3>1
  <2>2. list \in Seq(Peers)
    <3>1. CASE \E i \in DOMAIN imported : imported[i] = store[1]
      <4>1. store[1] \in Peers
        BY <2>1, <3>1
      <4>2. <<store[1]>> \in Seq(Peers)
        BY <4>1
      <4> QED
        BY <2>1, <3>1, <4>2
    <3> QED
      BY <2>1, <3>1
  <2>3. run' = [pc |-> IF forced = None /\ imported = <<>> THEN "team" ELSE "top",
                list |-> list, at |-> 1, forced |-> forced,
                pinned |-> forced # None \/ imported # <<>>, fallback |-> fallback,
                chosen |-> NoPair, lastGood |-> NoPair, fails |-> 0]
    BY DEF Start
  <2> HIDE DEF list
  <2>4. RunOK'
    BY <2>1, <2>2, <2>3 DEF RunOK, Places, Searching
  <2>5. SessOK' /\ RestOK'
    BY <1>t DEF Start, SessOK, RestOK
  <2> QED
    BY <2>4, <2>5
<1>2. CASE Choosing
  <2>1. ASSUME NEW pair \in Pairs, Accepts(pair) PROVE RunOK' /\ SessOK' /\ RestOK'
    BY <1>t, <2>1 DEF Accepts, idle, RunOK, SessOK, RestOK, Places
  <2>2. ASSUME NEW pc \in Searching, Goes(pc) PROVE RunOK' /\ SessOK' /\ RestOK'
    BY <1>t, <2>2 DEF Goes, idle, RunOK, SessOK, RestOK, Places
  <2>3. CASE Advances
    <3>1. run.at + 1 \in Nat \ {0} /\ <<>> \in Seq(Peers) /\ "top" \in Places
      BY <1>t DEF RunOK, Places, Searching
    <3>2. RunOK'
      BY <1>t, <2>3, <3>1 DEF Advances, RunOK
    <3> QED
      BY <1>t, <2>3, <3>2 DEF Advances, idle, SessOK, RestOK
  <2>4. CASE Abandons
    BY <1>t, <2>4 DEF Abandons, RunOK, SessOK, RestOK, Places
  <2>5. CASE Top
    <3>1. \E pc \in {"list", "retry"}, last \in Pairs \cup {NoPair}, n \in Nat :
            run' = [run EXCEPT !.pc = pc, !.lastGood = last, !.at = 1, !.fails = n]
      BY <1>t, <2>5 DEF Top, RunOK
    <3>2. RunOK'
      <4> PICK pc \in {"list", "retry"}, last \in Pairs \cup {NoPair}, n \in Nat :
            run' = [run EXCEPT !.pc = pc, !.lastGood = last, !.at = 1, !.fails = n]
        BY <3>1
      <4>1. pc \in Places /\ 1 \in Nat \ {0}
        BY DEF Places, Searching
      <4> QED
        BY <1>t, <4>1 DEF RunOK
    <3>3. run.lastGood # NoPair => run.lastGood[1] \in Peers
      BY <1>t, PairFacts DEF RunOK
    <3> QED
      BY <1>t, <2>5, <3>2, <3>3 DEF Top, SessOK, RestOK
  <2>6. CASE Use
    <3>1. \E n \in Nat : run' = [run EXCEPT !.pc = "tunnel", !.lastGood = run.chosen, !.fails = n]
      BY <1>t, <2>6 DEF Use, RunOK
    <3>2. RunOK'
      BY <1>t, <3>1 DEF RunOK, Places
    <3>3. SessOK'
      BY <1>s, <2>6 DEF Use, SessOK
    <3>4. RestOK'
      BY <1>t, <2>6 DEF Use, RestOK, RunOK
    <3> QED
      BY <3>2, <3>3, <3>4
  <2>7. "cached" \in Searching
    BY DEF Searching
  <2> QED
    BY <1>2, <2>1, <2>2, <2>3, <2>4, <2>5, <2>6, <2>7, ChoosingShapes
<1>3. CASE Validate
  BY <1>t, <1>3 DEF Validate, RunOK, SessOK, RestOK
<1>4. CASE Expose
  BY <1>t, <1>4 DEF Expose, RunOK, SessOK, RestOK
<1>5. CASE Over
  <2>1. run.fails + 1 \in Nat
    BY <1>t DEF RunOK
  <2>2. RunOK'
    BY <1>t, <1>5, <2>1 DEF Over, RunOK, Places, Searching
  <2> QED
    BY <1>t, <1>s, <1>5, <2>2 DEF Over, SessOK, RestOK
<1>6. CASE Beats
  BY <1>t, <1>6 DEF Beats, RunOK, SessOK, RestOK
<1>7. CASE Network \/ CooldownEnds
  BY <1>t, <1>7 DEF Network, CooldownEnds, RunOK, SessOK, RestOK
<1>8. CASE Stop
  BY <1>t, <1>s, <1>8 DEF Stop, RunOK, SessOK, RestOK, Places
<1> QED
  BY <1>1, <1>2, <1>3, <1>4, <1>5, <1>6, <1>7, <1>8, Shapes

-----------------------------------------------------------------------------
(* The session is the one that was checked.                                *)

\* Every step keeps the evidence, the session and its socket together.
LEMMA EvidencedStep == ASSUME TypeOK, Evidenced, Next PROVE Evidenced'
<1>t. RunOK /\ SessOK
  BY TypeParts
<1> USE DEF Evidenced, EvidenceIsChosen, SessionWhenWaiting, SocketProved, NoFakeConnect
<1>1. CASE Begun
  BY <1>t, <1>1 DEF Begun, Start
<1>2. CASE Choosing
  <2>1. ASSUME NEW pair \in Pairs, Accepts(pair) PROVE Evidenced'
    <3>1. run.pc \in Searching /\ run'.pc = "use" /\ run'.chosen = pair
      BY <1>t, <2>1 DEF Accepts, RunOK
    <3> QED
      BY <2>1, <3>1 DEF Accepts, idle, Searching
  <2>2. ASSUME NEW pc \in Searching, Goes(pc) PROVE Evidenced'
    <3>1. run.pc \in Searching /\ run'.pc = pc /\ run'.chosen = run.chosen
      BY <1>t, <2>2 DEF Goes, RunOK
    <3> QED
      BY <2>2, <3>1 DEF Goes, idle, Searching
  <2>3. CASE Advances
    <3>1. run.pc = "list" /\ run'.pc \in {"list", "top"} /\ run'.chosen = run.chosen
      BY <1>t, <2>3 DEF Advances, RunOK
    <3> QED
      BY <2>3, <3>1 DEF Advances, idle
  <2>4. CASE Abandons
    <3>1. run.pc \in Searching /\ run'.pc = "off"
      BY <1>t, <2>4 DEF Abandons, RunOK
    <3> QED
      BY <2>4, <3>1 DEF Abandons, Searching
  <2>5. CASE Top
    <3>1. run.pc = "top" /\ run'.pc \in {"list", "retry"}
      BY <1>t, <2>5 DEF Top, RunOK
    <3> QED
      BY <2>5, <3>1 DEF Top
  <2>6. CASE Use
    <3>1. run.pc = "use" /\ run'.pc = "tunnel" /\ run'.chosen = run.chosen
      BY <1>t, <2>6 DEF Use, RunOK
    <3>2. sess'.phase = "validating" /\ UNCHANGED evidence
      BY <2>6 DEF Use, NoSession
    <3> QED
      BY <3>1, <3>2
  <2>7. "cached" \in Searching
    BY DEF Searching
  <2> QED
    BY <1>2, <2>1, <2>2, <2>3, <2>4, <2>5, <2>6, <2>7, ChoosingShapes
<1>3. CASE Validate
  <2>1. sess.phase = "validating" /\ sess'.phase = "ready" /\ sess'.sock = run.chosen
    BY <1>t, <1>3 DEF Validate, SessOK
  <2> QED
    BY <1>3, <2>1 DEF Validate
<1>4. CASE Expose
  <2>1. /\ sess.phase = "ready" /\ sess'.phase = "up" /\ sess'.sock = sess.sock
        /\ sess'.local = "alive"
    BY <1>t, <1>4 DEF Expose, SessOK
  <2> QED
    BY <1>4, <2>1 DEF Expose
<1>5. CASE Over
  <2>1. run'.pc = "top" /\ sess'.phase = "none" /\ evidence' = NoPair
    BY <1>t, <1>5 DEF Over, RunOK, NoSession
  <2> QED
    BY <2>1
<1>6. CASE Beats
  <2>1. /\ sess.phase = "up" /\ sess'.phase = "up" /\ sess'.sock = sess.sock
        /\ sess'.local \in {sess.local, "dead"}
    BY <1>t, <1>6 DEF Beats, SessOK
  <2> QED
    BY <1>6, <2>1 DEF Beats
<1>7. CASE Network \/ CooldownEnds
  BY <1>7 DEF Network, CooldownEnds
<1>8. CASE Stop
  <2>1. run'.pc = "off" /\ sess'.phase = "none" /\ evidence' = NoPair
    BY <1>t, <1>8 DEF Stop, RunOK, NoSession
  <2> QED
    BY <2>1
<1> QED
  BY <1>1, <1>2, <1>3, <1>4, <1>5, <1>6, <1>7, <1>8, Shapes

-----------------------------------------------------------------------------
(* The loop stays off an endpoint on a cooldown.                           *)

\* Every step keeps an unpinned run off the endpoints on a cooldown.
LEMMA CooledStep == ASSUME TypeOK, Evidenced, Cooled, Next PROVE Cooled'
<1>t. RunOK
  BY TypeParts
<1> USE DEF Cooled, PinnedLists, NothingCoolsYet, ChosenNotCooling, CooldownKept
<1>1. CASE Begun
  <2> PICK forced \in Forcible \cup {None}, imported \in {<<>>, Imported}, fallback \in BOOLEAN :
          Start(forced, imported, fallback)
    BY <1>1 DEF Begun
  <2>1. /\ cooling' = {} /\ run'.forced = forced /\ run'.lastGood = NoPair
        /\ run'.pinned = (forced # None \/ imported # <<>>)
        /\ run'.pc \in {"team", "top"}
    BY DEF Start
  <2>2. imported = <<>> => run'.list = <<>>
    BY DEF Start
  <2> QED
    BY <2>1, <2>2
<1>2. CASE Choosing
  <2>1. ASSUME NEW pair \in Pairs, Accepts(pair), Fresh(pair) PROVE Cooled'
    <3>1. /\ run.pc \in Searching
          /\ run'.pc = "use" /\ run'.chosen = pair /\ run'.lastGood = run.lastGood
          /\ run'.pinned = run.pinned /\ run'.list = run.list /\ run'.forced = run.forced
      BY <1>t, <2>1 DEF Accepts, RunOK
    <3>2. UNCHANGED cooling
      BY <2>1 DEF Accepts, idle
    <3>3. ~run.pinned => pair[1] \notin cooling
      BY <2>1, PairFacts DEF Fresh
    <3> QED
      BY <3>1, <3>2, <3>3 DEF Searching
  <2>2. ASSUME NEW pc \in Searching, Goes(pc), pc \in {"team", "cached"} => run.pc = "team"
        PROVE  Cooled'
    <3>1. /\ run.pc \in Searching /\ run'.pc = pc /\ run'.lastGood = run.lastGood
          /\ run'.pinned = run.pinned /\ run'.list = run.list /\ run'.forced = run.forced
      BY <1>t, <2>2 DEF Goes, RunOK
    <3>2. UNCHANGED cooling
      BY <2>2 DEF Goes, idle
    <3> QED
      BY <2>2, <3>1, <3>2 DEF Searching
  <2>3. CASE Advances
    <3>1. /\ run.pc = "list" /\ run'.pc \in {"list", "top"} /\ run'.lastGood = run.lastGood
          /\ run'.pinned = run.pinned /\ run'.list \in {run.list, <<>>} /\ run'.forced = run.forced
      <4>1. CASE run' = [run EXCEPT !.at = @ + 1]
        BY <1>t, <2>3, <4>1 DEF Advances, RunOK
      <4>2. CASE run' = [run EXCEPT !.pc = "top", !.list = <<>>]
        BY <1>t, <2>3, <4>2 DEF Advances, RunOK
      <4> QED
        BY <2>3, <4>1, <4>2 DEF Advances
    <3>2. UNCHANGED cooling
      BY <2>3 DEF Advances, idle
    <3> QED
      BY <3>1, <3>2
  <2>4. CASE Abandons
    <3>1. /\ run'.pc = "off"
          /\ run'.pinned = run.pinned /\ run'.list = run.list /\ run'.forced = run.forced
      BY <1>t, <2>4 DEF Abandons, RunOK
    <3> QED
      BY <3>1
  <2>5. CASE Top
    <3>1. /\ run.pc = "top" /\ run'.pc \in {"list", "retry"}
          /\ run'.pinned = run.pinned /\ run'.list = run.list /\ run'.forced = run.forced
      BY <1>t, <2>5 DEF Top, RunOK
    <3>2. run'.lastGood = NoPair \/ (run'.lastGood = run.lastGood /\ UNCHANGED cooling)
      BY <1>t, <2>5 DEF Top, RunOK
    <3> QED
      BY <3>1, <3>2
  <2>6. CASE Use
    <3>1. /\ run.pc = "use" /\ run'.pc = "tunnel" /\ run'.lastGood = run.chosen
          /\ run'.pinned = run.pinned /\ run'.list = run.list /\ run'.forced = run.forced
      BY <1>t, <2>6 DEF Use, RunOK
    <3> QED
      BY <2>6, <3>1 DEF Use
  <2>7. "cached" \in Searching
    BY DEF Searching
  <2> QED
    BY <1>2, <2>1, <2>2, <2>3, <2>4, <2>5, <2>6, <2>7, ChoosingShapes
<1>3. CASE sess.phase # "none" /\ Over
  <2>1. /\ run.pc = "tunnel" /\ run'.pc = "top" /\ run'.lastGood = run.lastGood
        /\ run'.pinned = run.pinned /\ run'.list = run.list /\ run'.forced = run.forced
    BY <1>t, <1>3 DEF Over, RunOK, Evidenced, SessionWhenWaiting
  <2> QED
    BY <1>3, <2>1 DEF Over
<1>4. CASE Stop
  <2>1. /\ run'.pc = "off"
        /\ run'.pinned = run.pinned /\ run'.list = run.list /\ run'.forced = run.forced
    BY <1>t, <1>4 DEF Stop, RunOK
  <2> QED
    BY <2>1
<1>5. CASE Validate \/ Expose \/ Beats \/ Network
  BY <1>5 DEF Validate, Expose, Beats, Network
<1>6. CASE CooldownEnds
  BY <1>6 DEF CooldownEnds
<1> QED
  BY <1>1, <1>2, <1>3, <1>4, <1>5, <1>6, Shapes

-----------------------------------------------------------------------------
(* The theorems.                                                           *)

\* No run, no session and no cooldown at first.
LEMMA WireGuardInit == Init => WireGuardInv
<1> SUFFICES ASSUME Init PROVE WireGuardInv
  OBVIOUS
<1>1. TypeOK
  <2>1. <<>> \in Seq(Peers) /\ 0 \in 0 .. StaleTicks
    BY ConstantsAssumption
  <2>2. RunOK
    BY <2>1 DEF Init, RunOK, Places
  <2>3. SessOK /\ RestOK
    BY <2>1 DEF Init, SessOK, RestOK, NoSession
  <2> QED
    BY <2>2, <2>3, TypeParts
<1>2. Evidenced
  BY DEF Init, NoSession, Evidenced, EvidenceIsChosen, SessionWhenWaiting, SocketProved, NoFakeConnect
<1>3. Cooled
  BY DEF Init, Cooled, PinnedLists, NothingCoolsYet, ChosenNotCooling, CooldownKept
<1> QED
  BY <1>1, <1>2, <1>3 DEF WireGuardInv

\* The inductive invariant of run_wireguard.
THEOREM WireGuardInvariant == Spec => []WireGuardInv
<1>1. WireGuardInv /\ [Next]_vars => WireGuardInv'
  <2>1. ASSUME WireGuardInv, Next PROVE WireGuardInv'
    BY <2>1, TypeStep, EvidencedStep, CooledStep DEF WireGuardInv
  <2>2. ASSUME WireGuardInv, UNCHANGED vars PROVE WireGuardInv'
    <3>1. TypeOK'
      BY <2>2, TypeStep DEF WireGuardInv
    <3>2. Evidenced'
      BY <2>2 DEF WireGuardInv, vars, Evidenced, EvidenceIsChosen, SessionWhenWaiting, SocketProved,
                  NoFakeConnect
    <3>3. Cooled'
      BY <2>2 DEF WireGuardInv, vars, Cooled, PinnedLists, NothingCoolsYet, ChosenNotCooling, CooldownKept
    <3> QED
      BY <3>1, <3>2, <3>3 DEF WireGuardInv
  <2> QED
    BY <2>1, <2>2
<1> QED
  BY <1>1, WireGuardInit, PTL DEF Spec

\* An endpoint that ended MaxFails sessions in a row is neither used nor retried by
\* run_wireguard while its cooldown lasts, unless the user pinned the endpoints.
THEOREM CooldownSafe == Spec => []CooldownKept
<1>1. WireGuardInv => CooldownKept
  BY DEF WireGuardInv, Cooled
<1> QED
  BY <1>1, WireGuardInvariant, PTL

\* mark_ready is only reached with a socket that proved the data plane of the
\* chosen endpoint and with the local side spawned.
THEOREM ConnectHonest == Spec => []NoFakeConnect
<1>1. WireGuardInv => NoFakeConnect
  BY DEF WireGuardInv, Evidenced
<1> QED
  BY <1>1, WireGuardInvariant, PTL

\* Each step of run_wireguard is a step of the contract or leaves it alone.
LEMMA LoopStep == ASSUME WireGuardInv, Next PROVE [Loop!Next]_(Loop!vars)
<1>t. RunOK /\ SessOK /\ TypeOK
  BY TypeParts DEF WireGuardInv
<1>e. Evidenced
  BY DEF WireGuardInv
<1>n. None \notin Peers
  BY ConstantsAssumption
<1> USE DEF Evidenced, EvidenceIsChosen, SessionWhenWaiting
<1>1. CASE Begun
  BY <1>t, <1>e, <1>1 DEF Begun, Start, Loop!Next, Loop!Begin
<1>2. CASE Choosing
  <2>1. ASSUME NEW pair \in Pairs, Accepts(pair) PROVE Loop!Next
    <3>1. run.pc \in Searching /\ run'.pc = "use" /\ UNCHANGED status /\ evidence' = pair
      BY <1>t, <2>1 DEF Accepts, RunOK, idle
    <3>2. evidence = NoPair /\ pair # NoPair /\ pair[1] \in Peers
      BY <1>e, <3>1, PairFacts DEF Searching
    <3>3. Loop!Check(pair[1])
      BY <3>1, <3>2 DEF Loop!Check, Searching
    <3> QED
      BY <3>2, <3>3 DEF Loop!Next
  <2>2. ASSUME NEW pc \in Searching, Goes(pc) PROVE UNCHANGED Loop!vars
    <3>1. run.pc \in Searching /\ run'.pc \in Searching /\ UNCHANGED <<evidence, status>>
      BY <1>t, <2>2 DEF Goes, RunOK, idle
    <3> QED
      BY <3>1 DEF Loop!vars, Searching
  <2>3. CASE Advances
    <3>1. run.pc \in Searching /\ run'.pc \in Searching /\ UNCHANGED <<evidence, status>>
      <4>1. CASE run' = [run EXCEPT !.at = @ + 1]
        BY <1>t, <2>3, <4>1 DEF Advances, RunOK, idle, Searching
      <4>2. CASE run' = [run EXCEPT !.pc = "top", !.list = <<>>]
        BY <1>t, <2>3, <4>2 DEF Advances, RunOK, idle, Searching
      <4> QED
        BY <2>3, <4>1, <4>2 DEF Advances
    <3> QED
      BY <3>1 DEF Loop!vars, Searching
  <2>4. CASE Abandons
    <3>1. run.pc \in Searching /\ run'.pc = "off" /\ UNCHANGED evidence /\ status' = "ended"
      BY <1>t, <2>4 DEF Abandons, RunOK
    <3> QED
      BY <1>e, <1>n, <3>1 DEF Loop!Next, Loop!End, Searching
  <2>5. CASE Top
    <3>1. run.pc = "top" /\ run'.pc \in {"list", "retry"} /\ UNCHANGED <<evidence, status>>
      BY <1>t, <2>5 DEF Top, RunOK
    <3> QED
      BY <3>1 DEF Loop!vars
  <2>6. CASE Use
    <3>1. /\ run.pc = "use" /\ run'.pc = "tunnel" /\ run'.chosen = run.chosen
          /\ UNCHANGED <<evidence, status>>
      BY <1>t, <2>6 DEF Use, RunOK
    <3>2. sess'.phase = "validating"
      BY <2>6 DEF Use, NoSession
    <3>3. evidence = run.chosen /\ evidence # NoPair /\ run.chosen[1] \in Peers
      BY <1>e, <3>1, PairFacts
    <3>4. Loop!Raise(run.chosen[1])
      BY <3>1, <3>2, <3>3 DEF Loop!Raise
    <3> QED
      BY <3>3, <3>4 DEF Loop!Next
  <2>7. "cached" \in Searching
    BY DEF Searching
  <2> QED
    BY <1>t, <1>2, <2>1, <2>2, <2>3, <2>4, <2>5, <2>6, <2>7, ChoosingShapes
<1>3. CASE Validate
  <2>1. /\ sess.phase = "validating" /\ sess'.phase = "ready"
        /\ UNCHANGED <<run, evidence, status>>
    BY <1>t, <1>3 DEF Validate, SessOK
  <2> QED
    BY <2>1 DEF Loop!vars
<1>4. CASE Expose
  <2>1. /\ sess.phase = "ready" /\ sess'.phase = "up" /\ status' = "connected"
        /\ UNCHANGED <<run, evidence>>
    BY <1>t, <1>4 DEF Expose, SessOK
  <2> QED
    BY <1>e, <2>1 DEF Loop!Next, Loop!Validate
<1>5. CASE sess.phase # "none" /\ Over
  <2>1. run.pc = "tunnel" /\ run'.pc = "top" /\ evidence' = NoPair /\ UNCHANGED status
    BY <1>t, <1>e, <1>5 DEF Over, RunOK
  <2> QED
    BY <1>n, <2>1 DEF Loop!Next, Loop!Lose
<1>6. CASE Beats
  <2>1. sess.phase = "up" /\ sess'.phase = "up" /\ UNCHANGED <<run, evidence, status>>
    BY <1>t, <1>6 DEF Beats, SessOK
  <2> QED
    BY <2>1 DEF Loop!vars
<1>7. CASE Network \/ CooldownEnds
  BY <1>7 DEF Network, CooldownEnds, Loop!vars
<1>8. CASE Stop
  <2>1. run.pc # "off" /\ run'.pc = "off" /\ evidence' = NoPair /\ status' = "ended"
    BY <1>t, <1>8 DEF Stop, RunOK
  <2> QED
    BY <1>n, <2>1 DEF Loop!Next, Loop!End
<1> QED
  BY <1>t, <1>1, <1>2, <1>3, <1>4, <1>5, <1>6, <1>7, <1>8, Shapes

\* run_wireguard implements the contract of a reconnect loop, and trusts no
\* endpoint: a forced one is checked like any other.
THEOREM WireGuardImplementsLoop == Spec => LoopSpec
<1>1. Init => Loop!Init
  BY ConstantsAssumption DEF Init, Loop!Init
<1>2. WireGuardInv /\ [Next]_vars => [Loop!Next]_(Loop!vars)
  <2>1. UNCHANGED vars => UNCHANGED Loop!vars
    BY DEF vars, Loop!vars
  <2> QED
    BY <2>1, LoopStep
<1> QED
  BY <1>1, <1>2, WireGuardInvariant, PTL DEF Spec, LoopSpec, Loop!Spec
=============================================================================
