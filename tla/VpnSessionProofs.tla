-------------------------- MODULE VpnSessionProofs --------------------------
(***************************************************************************)
(* Proofs about VpnSession.  Each method of the service is a function on   *)
(* its fields, so each gets one lemma: the result is again a Service, and  *)
(* what it keeps of the fields the properties speak of.                    *)
(***************************************************************************)
EXTENDS VpnSession, SequenceTheorems, TLAPS

Status == {"off", "connecting", "connected", "failed", "disconnected"}

\* A retry always has a stored configuration to start from.
RetryHasConfig(s) == s.retry # "none" => s.stored # "none"

\* No queued session is newer than sessionGeneration.
QueueBound(s) == s.queue \in Seq([gen : 0..s.gen, proto : Protocols])

Good(s) == s \in Service /\ RetryHasConfig(s) /\ QueueBound(s)

\* What no method but startTunnel and the intents may change; proxyMode may be
\* cleared but not set.
Keeps(s, t) ==
    /\ t.gen = s.gen /\ t.userStop = s.userStop /\ t.queue = s.queue
    /\ t.proxy => s.proxy

Same(s, t) == Keeps(s, t) /\ t.stored = s.stored /\ t.retry \in {s.retry, "none"}

\* A typed result that keeps configuration and queue is good again.
LEMMA GoodSame ==
  ASSUME NEW s, NEW t \in Service, Good(s), Same(s, t)
  PROVE  Good(t) /\ Keeps(s, t)
<1>1. RetryHasConfig(t)
  BY DEF Good, Same, RetryHasConfig
<1>2. QueueBound(t)
  BY DEF Good, Same, Keeps, QueueBound
<1> QED  BY <1>1, <1>2 DEF Good, Same

\* What two methods in a row keep, their sequence keeps.
LEMMA KeepsTrans ==
  ASSUME NEW s, NEW t, NEW u, Keeps(s, t), Keeps(t, u)
  PROVE  Keeps(s, u)
  BY DEF Keeps

\* A method that returns early keeps everything.
LEMMA KeepsSelf ==
  ASSUME NEW s
  PROVE  Keeps(s, s)
  BY DEF Keeps

\* stopSelf() touches nothing but the service's own life.
LEMMA StopSelfLemma ==
  ASSUME NEW s, Good(s)
  PROVE  /\ Good(StopSelf(s)) /\ Keeps(s, StopSelf(s))
         /\ StopSelf(s).tun = s.tun
<1>1. s \in Service
  BY DEF Good
<1>2. StopSelf(s) \in Service
  <2>1. CASE s.life = "up"
    BY <1>1, <2>1 DEF Service, StopSelf
  <2>2. CASE s.life # "up"
    BY <1>1, <2>2 DEF Service, StopSelf
  <2> QED  BY <2>1, <2>2
<1>3. Same(s, StopSelf(s))
  BY <1>1 DEF Service, Same, Keeps, StopSelf
<1>4. StopSelf(s).tun = s.tun
  BY <1>1 DEF Service, StopSelf
<1> QED  BY <1>2, <1>3, GoodSame, <1>4

\* sendStatus touches the status line and the reconnect latch only.
LEMMA SendStatusLemma ==
  ASSUME NEW s, Good(s), NEW status \in Status
  PROVE  /\ Good(SendStatus(s, status)) /\ Keeps(s, SendStatus(s, status))
         /\ SendStatus(s, status).tun = s.tun
         /\ SendStatus(s, status).stored = s.stored
         /\ SendStatus(s, status).quick = s.quick
<1>1. s \in Service
  BY DEF Good
<1>2. SendStatus(s, status) \in Service
  <2> DEFINE t == [s EXCEPT !.ui = status]
  <2>1. t \in Service
    BY <1>1 DEF Service, Status
  <2>2. SendStatus(s, status) \in {t, [t EXCEPT !.latch = FALSE]}
    BY DEF SendStatus
  <2> HIDE DEF t
  <2>3. [t EXCEPT !.latch = FALSE] \in Service
    BY <2>1 DEF Service
  <2> QED  BY <2>1, <2>2, <2>3
<1>3. Same(s, SendStatus(s, status))
  BY <1>1 DEF Service, Same, Keeps, SendStatus, Status
<1>4. /\ SendStatus(s, status).tun = s.tun
      /\ SendStatus(s, status).stored = s.stored
      /\ SendStatus(s, status).quick = s.quick
  BY <1>1 DEF Service, SendStatus, Status
<1> QED  BY <1>2, <1>3, GoodSame, <1>4

\* Setting or consuming reconnectRequested changes nothing else.
LEMMA SetLatchLemma ==
  ASSUME NEW s, Good(s), NEW b \in BOOLEAN
  PROVE  /\ Good([s EXCEPT !.latch = b]) /\ Keeps(s, [s EXCEPT !.latch = b])
         /\ [s EXCEPT !.latch = b].tun = s.tun
<1>1. s \in Service
  BY DEF Good
<1>2. [s EXCEPT !.latch = b] \in Service
  BY <1>1 DEF Service
<1>3. Same(s, [s EXCEPT !.latch = b])
  BY <1>1 DEF Service, Same, Keeps
<1>4. [s EXCEPT !.latch = b].tun = s.tun
  BY <1>1 DEF Service
<1> QED  BY <1>2, <1>3, GoodSame, <1>4

\* Clearing `connected` changes nothing else.
LEMMA ClearConnectedLemma ==
  ASSUME NEW s, Good(s)
  PROVE  /\ Good([s EXCEPT !.connected = FALSE]) /\ Keeps(s, [s EXCEPT !.connected = FALSE])
         /\ [s EXCEPT !.connected = FALSE].tun = s.tun
<1>1. s \in Service
  BY DEF Good
<1>2. [s EXCEPT !.connected = FALSE] \in Service
  BY <1>1 DEF Service
<1>3. Same(s, [s EXCEPT !.connected = FALSE])
  BY <1>1 DEF Service, Same, Keeps
<1>4. [s EXCEPT !.connected = FALSE].tun = s.tun
  BY <1>1 DEF Service
<1> QED  BY <1>2, <1>3, GoodSame, <1>4

\* cancelAutoReconnect drops the retry and keeps session and interface.
LEMMA CancelLemma ==
  ASSUME NEW s, Good(s)
  PROVE  /\ Good(CancelAutoReconnect(s)) /\ Keeps(s, CancelAutoReconnect(s))
         /\ CancelAutoReconnect(s).tun = s.tun
<1>1. s \in Service
  BY DEF Good
<1>2. CancelAutoReconnect(s) \in Service
  BY <1>1 DEF Service, CancelAutoReconnect
<1>3. Same(s, CancelAutoReconnect(s))
  BY <1>1 DEF Service, Same, Keeps, CancelAutoReconnect
<1>4. CancelAutoReconnect(s).tun = s.tun
  BY <1>1 DEF Service, CancelAutoReconnect
<1> QED  BY <1>2, <1>3, GoodSame, <1>4

\* The part of stopTunnel common to every transport closes no interface.
LEMMA StopDataPathLemma ==
  ASSUME NEW s, Good(s)
  PROVE  /\ Good(StopDataPath(s)) /\ Keeps(s, StopDataPath(s))
         /\ StopDataPath(s).tun = s.tun
<1>1. s \in Service
  BY DEF Good
<1>2. StopDataPath(s) \in Service
  <2>1. CASE s.core = "running"
    BY <1>1, <2>1 DEF Service, StopDataPath
  <2>2. CASE s.core # "running"
    BY <1>1, <2>2 DEF Service, StopDataPath
  <2> QED  BY <2>1, <2>2
<1>3. Same(s, StopDataPath(s))
  BY <1>1 DEF Service, Same, Keeps, StopDataPath
<1>4. StopDataPath(s).tun = s.tun
  BY <1>1 DEF Service, StopDataPath
<1> QED  BY <1>2, <1>3, GoodSame, <1>4

\* The inline teardown of stopTunnel keeps generation and queue.
LEMMA InlineLemma ==
  ASSUME NEW s, Good(s)
  PROVE  /\ Good([s EXCEPT !.proxy = FALSE, !.tun = "none", !.connected = FALSE]) /\ Keeps(s, [s EXCEPT !.proxy = FALSE, !.tun = "none", !.connected = FALSE])
<1>1. s \in Service
  BY DEF Good
<1>2. [s EXCEPT !.proxy = FALSE, !.tun = "none", !.connected = FALSE] \in Service
  BY <1>1 DEF Service
<1>3. Same(s, [s EXCEPT !.proxy = FALSE, !.tun = "none", !.connected = FALSE])
  BY <1>1 DEF Service, Same, Keeps
<1> QED  BY <1>2, <1>3, GoodSame

\* rebuildKillSwitchVpn changes nothing but the interface.
LEMMA RebuildLemma ==
  ASSUME NEW s, Good(s)
  PROVE  /\ Good(RebuildKillSwitchVpn(s)) /\ Keeps(s, RebuildKillSwitchVpn(s))
<1>1. s \in Service
  BY DEF Good
<1>2. RebuildKillSwitchVpn(s) \in Service
  <2>1. CASE s.consent
    BY <1>1, <2>1 DEF Service, RebuildKillSwitchVpn
  <2>2. CASE ~s.consent
    BY <1>1, <2>2 DEF Service, RebuildKillSwitchVpn
  <2> QED  BY <2>1, <2>2
<1>3. Same(s, RebuildKillSwitchVpn(s))
  BY <1>1 DEF Service, Same, Keeps, RebuildKillSwitchVpn
<1> QED  BY <1>2, <1>3, GoodSame

\* Stopping a tunnel never raises an interface.
LEMMA StopTunnelLemma ==
  ASSUME NEW s, Good(s), NEW notify \in BOOLEAN, NEW teardown \in BOOLEAN
  PROVE  /\ Good(StopTunnel(s, notify, teardown))
         /\ Keeps(s, StopTunnel(s, notify, teardown))
         /\ StopTunnel(s, notify, teardown).tun \in {s.tun, "none"}
<1> DEFINE t == StopDataPath(s)
           inline == [t EXCEPT !.proxy = FALSE, !.tun = "none", !.connected = FALSE]
           told == IF notify THEN SendStatus(inline, "disconnected") ELSE inline
<1>1. Good(t) /\ Keeps(s, t) /\ t.tun = s.tun
  BY StopDataPathLemma
<1>2. StopTunnel(s, notify, teardown) \in
        {told, StopSelf(told), t, SendStatus(t, "disconnected")}
  BY DEF StopTunnel
<1> HIDE DEF t
<1>4. t \in Service
  BY <1>1 DEF Good
<1>5. Good(inline) /\ Keeps(s, inline)
  BY <1>1, InlineLemma, KeepsTrans
<1>6. inline.tun = "none"
  BY <1>4 DEF Service
<1> HIDE DEF inline
<1>7. Good(told) /\ Keeps(s, told) /\ told.tun = "none"
  <2>1. /\ Good(SendStatus(inline, "disconnected")) /\ Keeps(s, SendStatus(inline, "disconnected"))
        /\ SendStatus(inline, "disconnected").tun = "none"
    BY <1>5, <1>6, SendStatusLemma, KeepsTrans DEF Status
  <2> QED  BY <1>5, <1>6, <2>1
<1> HIDE DEF told
<1>8. Good(StopSelf(told)) /\ Keeps(s, StopSelf(told)) /\ StopSelf(told).tun = "none"
  BY <1>7, StopSelfLemma, KeepsTrans
<1>9. /\ Good(SendStatus(t, "disconnected")) /\ Keeps(s, SendStatus(t, "disconnected"))
      /\ SendStatus(t, "disconnected").tun = s.tun
  BY <1>1, SendStatusLemma, KeepsTrans DEF Status
<1> QED  BY <1>1, <1>2, <1>7, <1>8, <1>9

\* sealWithKillSwitch does nothing unless it is armed.
LEMMA SealLemma ==
  ASSUME NEW s, Good(s), NEW armed \in BOOLEAN
  PROVE  /\ Good(SealWithKillSwitch(s, armed)) /\ Keeps(s, SealWithKillSwitch(s, armed))
         /\ ~armed => SealWithKillSwitch(s, armed) = s
<1> DEFINE t == [s EXCEPT !.sealed = TRUE]
<1>1. s \in Service
  BY DEF Good
<1>2. t \in Service
  BY <1>1 DEF Service
<1>3. Same(s, t)
  BY <1>1 DEF Service, Same, Keeps
<1>4. SealWithKillSwitch(s, armed) = IF armed THEN RebuildKillSwitchVpn(t) ELSE s
  BY DEF SealWithKillSwitch
<1> HIDE DEF t
<1>5. Good(t) /\ Keeps(s, t)
  BY <1>2, <1>3, GoodSame
<1>6. Good(RebuildKillSwitchVpn(t)) /\ Keeps(s, RebuildKillSwitchVpn(t))
  BY <1>5, RebuildLemma, KeepsTrans
<1> QED  BY <1>4, <1>6, KeepsSelf

\* scheduleAutoReconnect leaves the interface alone, and only schedules
\* a retry when there is a stored configuration.
LEMMA ScheduleLemma ==
  ASSUME NEW s, Good(s)
  PROVE  /\ Good(ScheduleAutoReconnect(s)) /\ Keeps(s, ScheduleAutoReconnect(s))
         /\ ScheduleAutoReconnect(s).tun = s.tun
<1> DEFINE t == SendStatus(s, "connecting")
           u == [t EXCEPT !.retry = "backoff"]
<1>1. Good(t) /\ Keeps(s, t) /\ t.tun = s.tun /\ t.stored = s.stored
  BY SendStatusLemma DEF Status
<1>2. ScheduleAutoReconnect(s) = s \/ (s.stored # "none" /\ ScheduleAutoReconnect(s) = u)
  BY DEF ScheduleAutoReconnect
<1>3. CASE ScheduleAutoReconnect(s) = s
  BY <1>3, KeepsSelf
<1>4. CASE s.stored # "none" /\ ScheduleAutoReconnect(s) = u
  <2> HIDE DEF t
  <2>1. t \in Service /\ QueueBound(t)
    BY <1>1 DEF Good
  <2>2. u \in Service
    BY <2>1 DEF Service
  <2>3. /\ u.gen = t.gen /\ u.queue = t.queue /\ u.stored = t.stored /\ u.tun = t.tun
        /\ u.userStop = t.userStop /\ u.proxy = t.proxy
    BY <2>1 DEF Service
  <2> HIDE DEF u
  <2>4. Good(u)
    BY <1>1, <1>4, <2>1, <2>2, <2>3 DEF Good, RetryHasConfig, QueueBound
  <2>5. Keeps(s, u) /\ u.tun = s.tun
    BY <1>1, <2>3 DEF Keeps
  <2> QED  BY <1>4, <2>4, <2>5
<1> QED  BY <1>2, <1>3, <1>4

\* failAndStop puts the blocking TUN back only for a session that had a TUN.
LEMMA FailAndStopLemma ==
  ASSUME NEW s, Good(s), kill \in BOOLEAN, auto \in BOOLEAN
  PROVE  /\ Good(FailAndStop(s)) /\ Keeps(s, FailAndStop(s))
         /\ FailAndStop(s).tun = "block" => s.tun = "block" \/ ~s.proxy
<1> DEFINE keepSeal == s.sealed /\ ~s.userStop /\ KillSwitchArmed(s)
           reported == IF keepSeal /\ WillAutoReconnect(s) THEN s ELSE SendStatus(s, "failed")
           u == [reported EXCEPT !.connected = FALSE]
           t == StopTunnel(u, FALSE, ~keepSeal)
           resealed == RebuildKillSwitchVpn(t)
<1>1. \/ FailAndStop(s) \in {[t EXCEPT !.latch = FALSE], ScheduleAutoReconnect(t), StopSelf(t)}
      \/ /\ keepSeal
         /\ FailAndStop(s) \in {ScheduleAutoReconnect(resealed), SendStatus(resealed, "failed")}
  BY DEF FailAndStop
<1>2. keepSeal \in BOOLEAN /\ (keepSeal => ~s.proxy)
  BY DEF KillSwitchArmed
<1> HIDE DEF keepSeal
<1>3. Good(reported) /\ Keeps(s, reported) /\ reported.tun = s.tun
  <2>1. /\ Good(SendStatus(s, "failed")) /\ Keeps(s, SendStatus(s, "failed"))
        /\ SendStatus(s, "failed").tun = s.tun
    BY SendStatusLemma DEF Status
  <2> QED  BY <2>1, KeepsSelf
<1> HIDE DEF reported
<1>4. Good(u) /\ Keeps(s, u) /\ u.tun = s.tun
  BY <1>3, ClearConnectedLemma, KeepsTrans
<1> HIDE DEF u
<1>5. Good(t) /\ Keeps(s, t) /\ t.tun \in {s.tun, "none"}
  <2>1. (~keepSeal) \in BOOLEAN
    OBVIOUS
  <2>2. Good(t) /\ Keeps(u, t) /\ t.tun \in {u.tun, "none"}
    BY <1>4, <2>1, StopTunnelLemma
  <2> QED  BY <1>4, <2>2, KeepsTrans
<1> HIDE DEF t
<1>6. Good(resealed) /\ Keeps(s, resealed)
  BY <1>5, RebuildLemma, KeepsTrans
<1> HIDE DEF resealed
<1>7. /\ Good([t EXCEPT !.latch = FALSE]) /\ Keeps(s, [t EXCEPT !.latch = FALSE])
      /\ [t EXCEPT !.latch = FALSE].tun = t.tun
  BY <1>5, SetLatchLemma, KeepsTrans
<1>8. Good(ScheduleAutoReconnect(resealed)) /\ Keeps(s, ScheduleAutoReconnect(resealed))
  BY <1>6, ScheduleLemma, KeepsTrans
<1>9. Good(SendStatus(resealed, "failed")) /\ Keeps(s, SendStatus(resealed, "failed"))
  BY <1>6, SendStatusLemma, KeepsTrans DEF Status
<1>10. /\ Good(ScheduleAutoReconnect(t)) /\ Keeps(s, ScheduleAutoReconnect(t))
       /\ ScheduleAutoReconnect(t).tun = t.tun
  BY <1>5, ScheduleLemma, KeepsTrans
<1>11. Good(StopSelf(t)) /\ Keeps(s, StopSelf(t)) /\ StopSelf(t).tun = t.tun
  BY <1>5, StopSelfLemma, KeepsTrans
<1> QED  BY <1>1, <1>2, <1>5, <1>7, <1>8, <1>9, <1>10, <1>11

\* startTunnel leaves the service alone or claims a new generation, and never
\* puts the blocking TUN up.
LEMMA StartTunnelLemma ==
  ASSUME NEW s, Good(s), NEW p \in Protocols, NEW px \in BOOLEAN,
         kill \in BOOLEAN, auto \in BOOLEAN
  PROVE  /\ Good(StartTunnel(s, p, px))
         /\ StartTunnel(s, p, px).userStop = s.userStop
         /\ StartTunnel(s, p, px).tun = "block" => s.tun = "block"
         /\ StartTunnel(s, p, px) = s \/ StartTunnel(s, p, px).gen = s.gen + 1
<1> DEFINE t == [s EXCEPT !.connected = TRUE, !.gen = @ + 1, !.retry = "none", !.stored = p,
                          !.proto = p, !.stopReq = FALSE, !.proxy = px]
           u == [t EXCEPT !.connected = FALSE]
           q == [t EXCEPT !.queue = Append(t.queue, [gen |-> t.gen, proto |-> p])]
<1>1. \/ StartTunnel(s, p, px) \in {s, q}
      \/ px /\ StartTunnel(s, p, px) = FailAndStop(u)
  BY DEF StartTunnel
<1>2. /\ s \in Service /\ s.gen \in Nat /\ s.gen + 1 \in Nat /\ p \in Protocols \cup {"none"}
      /\ s.queue \in Seq([gen : 0..s.gen, proto : Protocols])
  BY DEF Good, Service, QueueBound
<1>3. t \in Service
  BY <1>2 DEF Service
<1>4. /\ t.userStop = s.userStop /\ t.tun = s.tun /\ t.retry = "none" /\ t.proxy = px
      /\ t.gen = s.gen + 1 /\ t.queue = s.queue
  BY <1>2 DEF Service
<1> HIDE DEF t
<1>5. [gen : 0..s.gen, proto : Protocols] \subseteq [gen : 0..t.gen, proto : Protocols]
  BY <1>2, <1>4
<1>6. t.queue \in Seq([gen : 0..t.gen, proto : Protocols])
  BY <1>2, <1>4, <1>5, SeqMonotonic
<1>7. Good(t)
  BY <1>3, <1>4, <1>6 DEF Good, RetryHasConfig, QueueBound
<1>8. Good(u) /\ u.userStop = s.userStop /\ u.tun = s.tun /\ u.gen = s.gen + 1
  BY <1>4, <1>7, ClearConnectedLemma DEF Keeps
<1>9. u.proxy = px
  BY <1>3, <1>4 DEF Service
<1>10. Good(q) /\ q.userStop = s.userStop /\ q.tun = s.tun /\ q.gen = s.gen + 1
  <2>1. [gen |-> t.gen, proto |-> p] \in [gen : 0..t.gen, proto : Protocols]
    BY <1>2, <1>4
  <2>2. [gen |-> t.gen, proto |-> p] \in Session
    BY <1>2, <1>4 DEF Session
  <2>3. Append(t.queue, [gen |-> t.gen, proto |-> p]) \in Seq(Session)
    BY <1>3, <2>2 DEF Service
  <2>4. Append(t.queue, [gen |-> t.gen, proto |-> p]) \in Seq([gen : 0..t.gen, proto : Protocols])
    BY <1>6, <2>1
  <2>5. q \in Service
    BY <1>3, <2>3 DEF Service
  <2>6. /\ q.userStop = t.userStop /\ q.tun = t.tun /\ q.gen = t.gen /\ q.retry = t.retry
        /\ q.queue = Append(t.queue, [gen |-> t.gen, proto |-> p])
    BY <1>3 DEF Service
  <2> HIDE DEF q
  <2>7. QueueBound(q)
    BY <2>4, <2>6 DEF QueueBound
  <2> QED  BY <1>4, <2>5, <2>6, <2>7 DEF Good, RetryHasConfig
<1> HIDE DEF u, q
<1>11. /\ Good(FailAndStop(u)) /\ Keeps(u, FailAndStop(u))
       /\ FailAndStop(u).tun = "block" => u.tun = "block" \/ ~u.proxy
  BY <1>8, FailAndStopLemma
<1> QED  BY <1>1, <1>8, <1>9, <1>10, <1>11 DEF Keeps

\* onTunnelLost raises the blocking interface only for a session that was
\* not in proxy mode when it was called.
LEMMA OnTunnelLostLemma ==
  ASSUME NEW s, Good(s), kill \in BOOLEAN, auto \in BOOLEAN
  PROVE  /\ Good(OnTunnelLost(s)) /\ Keeps(s, OnTunnelLost(s))
         /\ OnTunnelLost(s).tun = "block" => s.tun = "block" \/ ~s.proxy
<1> DEFINE armed == KillSwitchArmed(s)
           nativeCoreSession == ~s.proxy /\ s.proto = "native"
           g == SendStatus(s, "failed")
           f == [g EXCEPT !.connected = FALSE]
           given == StopTunnel(f, FALSE, TRUE)
           latched == IF nativeCoreSession THEN [s EXCEPT !.latch = TRUE] ELSE s
           k == [latched EXCEPT !.connected = FALSE]
           kept == StopTunnel(k, FALSE, FALSE)
           sg == SealWithKillSwitch(given, armed)
           sk == SealWithKillSwitch(kept, armed)
           r == ScheduleAutoReconnect(sk)
<1>1. \/ OnTunnelLost(s) \in {s, StopSelf(given), [r EXCEPT !.callback = TRUE]}
      \/ armed /\ OnTunnelLost(s) = SendStatus(sg, "failed")
  BY DEF OnTunnelLost
<1>2. armed \in BOOLEAN /\ (armed => ~s.proxy)
  BY DEF KillSwitchArmed
<1> HIDE DEF armed
<1>3. Good(g) /\ Keeps(s, g) /\ g.tun = s.tun
  BY SendStatusLemma DEF Status
<1> HIDE DEF g
<1>4. Good(f) /\ Keeps(s, f) /\ f.tun = s.tun
  BY <1>3, ClearConnectedLemma, KeepsTrans
<1> HIDE DEF f
<1>5. Good(given) /\ Keeps(s, given) /\ given.tun \in {s.tun, "none"}
  BY <1>4, StopTunnelLemma, KeepsTrans
<1>6. Good(latched) /\ Keeps(s, latched) /\ latched.tun = s.tun
  BY SetLatchLemma, KeepsSelf
<1> HIDE DEF latched
<1>7. Good(k) /\ Keeps(s, k) /\ k.tun = s.tun
  BY <1>6, ClearConnectedLemma, KeepsTrans
<1> HIDE DEF k
<1>8. Good(kept) /\ Keeps(s, kept) /\ kept.tun \in {s.tun, "none"}
  BY <1>7, StopTunnelLemma, KeepsTrans
<1> HIDE DEF given, kept
<1>9. Good(sg) /\ Keeps(s, sg)
  BY <1>2, <1>5, SealLemma, KeepsTrans
<1>10. Good(sk) /\ Keeps(s, sk) /\ (~armed => sk = kept)
  BY <1>2, <1>8, SealLemma, KeepsTrans
<1> HIDE DEF sg, sk
<1>11. Good(SendStatus(sg, "failed")) /\ Keeps(s, SendStatus(sg, "failed"))
  BY <1>9, SendStatusLemma, KeepsTrans DEF Status
<1>12. Good(StopSelf(given)) /\ Keeps(s, StopSelf(given)) /\ StopSelf(given).tun = given.tun
  BY <1>5, StopSelfLemma, KeepsTrans
<1>13. Good(r) /\ Keeps(s, r) /\ r.tun = sk.tun
  BY <1>10, ScheduleLemma, KeepsTrans
<1> HIDE DEF r
<1>14. /\ Good([r EXCEPT !.callback = TRUE]) /\ Keeps(s, [r EXCEPT !.callback = TRUE])
       /\ [r EXCEPT !.callback = TRUE].tun = sk.tun
  <2>1. r \in Service
    BY <1>13 DEF Good
  <2>2. [r EXCEPT !.callback = TRUE] \in Service /\ [r EXCEPT !.callback = TRUE].tun = r.tun
    BY <2>1 DEF Service
  <2>3. Same(r, [r EXCEPT !.callback = TRUE])
    BY <2>1 DEF Service, Same, Keeps
  <2> QED  BY <1>13, <2>2, <2>3, GoodSame, KeepsTrans
<1> QED  BY <1>1, <1>2, <1>5, <1>8, <1>10, <1>11, <1>12, <1>14, KeepsSelf

\* Disconnect and onRevoke raise no interface and start no session.
LEMMA UserStopLemma ==
  ASSUME NEW s, Good(s)
  PROVE  /\ Good(UserStop(s)) /\ UserStop(s).tun \in {s.tun, "none"}
         /\ UserStop(s).gen = s.gen /\ (UserStop(s).proxy => s.proxy)
<1> DEFINE t == [s EXCEPT !.userStop = TRUE, !.latch = FALSE, !.sealed = FALSE]
           c == CancelAutoReconnect(t)
<1>0. UserStop(s) = StopTunnel(c, TRUE, TRUE)
  BY DEF UserStop
<1>1. s \in Service /\ RetryHasConfig(s) /\ QueueBound(s)
  BY DEF Good
<1>2. t \in Service
  BY <1>1 DEF Service
<1>3. /\ t.gen = s.gen /\ t.tun = s.tun /\ t.queue = s.queue /\ t.proxy = s.proxy
      /\ t.retry = s.retry /\ t.stored = s.stored
  BY <1>1 DEF Service
<1> HIDE DEF t
<1>4. Good(t)
  BY <1>1, <1>2, <1>3 DEF Good, RetryHasConfig, QueueBound
<1>5. Good(c) /\ Keeps(t, c) /\ c.tun = s.tun
  BY <1>3, <1>4, CancelLemma
<1> HIDE DEF c
<1>6. /\ Good(StopTunnel(c, TRUE, TRUE)) /\ Keeps(t, StopTunnel(c, TRUE, TRUE))
      /\ StopTunnel(c, TRUE, TRUE).tun \in {c.tun, "none"}
  BY <1>5, StopTunnelLemma, KeepsTrans
<1> QED  BY <1>0, <1>3, <1>5, <1>6 DEF Keeps

-----------------------------------------------------------------------------
\* The session the worker holds is no newer than the service's; and if it has
\* read "armed" and still owns the service, proxyMode has not been set since.
WorkerOK(w, s) ==
    /\ w.phase # "idle" => w.of.gen \in 0..s.gen
    /\ w.phase = "closed" /\ w.armed /\ w.of.gen = s.gen => ~s.proxy

\* The inductive invariant: the type invariant, RetryHasConfig, without which a
\* retry could start a session of no transport, and the two bounds that tie the
\* generation a worker captured to the fields it decides on.
Inv == TypeOK /\ RetryHasConfig(svc) /\ QueueBound(svc) /\ WorkerOK(worker, svc)

\* What a step may not do: the body of SealOnlyVpn.
SafeStep == svc.tun # "block" /\ svc'.tun = "block" => ~svc.proxy

\* The shape every action's proof obligation is brought into.
Preserved ==
    /\ Good(svc') /\ worker' \in WorkerState /\ WorkerOK(worker', svc')
    /\ kill' = kill /\ auto' = auto
    /\ SafeStep

\* An action in the common shape keeps the invariant and is a safe step.
LEMMA PreservedLemma ==
  ASSUME Inv, Preserved, due' \in Protocols \cup {"none"}
  PROVE  Inv' /\ SafeStep
  BY DEF Inv, Preserved, TypeOK, Good

\* The invariant in the terms of the method lemmas.
LEMMA InvUnfold ==
  ASSUME Inv
  PROVE  /\ Good(svc) /\ worker \in WorkerState /\ kill \in BOOLEAN /\ auto \in BOOLEAN
         /\ WorkerOK(worker, svc) /\ ProxyModes \subseteq BOOLEAN
  BY SessionAssumption DEF Inv, TypeOK, Good, SessionAssumption

\* Where a method keeps the generation and sets no proxyMode, or claims the next
\* generation, WorkerOK carries over.
LEMMA WorkerKept ==
  ASSUME NEW w \in WorkerState, NEW s \in Service, NEW t \in Service, WorkerOK(w, s),
         \/ t.gen = s.gen /\ (t.proxy => s.proxy)
         \/ t.gen = s.gen + 1
  PROVE  WorkerOK(w, t)
<1>1. s.gen \in Nat
  BY DEF Service
<1>2. CASE t.gen = s.gen /\ (t.proxy => s.proxy)
  BY <1>2 DEF WorkerOK
<1>3. CASE t.gen = s.gen + 1
  <2>1. CASE w.phase = "idle"
    BY <2>1 DEF WorkerOK
  <2>2. CASE w.phase # "idle"
    <3>1. w.of.gen \in 0..s.gen
      BY <2>2 DEF WorkerOK
    <3>2. w.of.gen \in 0..t.gen /\ w.of.gen # t.gen
      BY <1>1, <1>3, <3>1
    <3> QED  BY <3>2 DEF WorkerOK
  <2> QED  BY <2>1, <2>2
<1> QED  BY <1>2, <1>3

\* The common case: the worker does not move and the service keeps what it must.
LEMMA KeptStep ==
  ASSUME Inv, UNCHANGED <<worker, kill, auto>>, Good(svc'), Keeps(svc, svc'),
         svc'.tun = "block" => svc.tun = "block" \/ ~svc.proxy
  PROVE  Preserved
<1>1. Good(svc) /\ worker \in WorkerState /\ WorkerOK(worker, svc)
  BY InvUnfold
<1>2. WorkerOK(worker, svc')
  BY <1>1, WorkerKept DEF Good, Keeps
<1> QED  BY <1>1, <1>2 DEF Preserved, SafeStep, Keeps

\* A step of the worker changes the phase of the session it holds, and may fix
\* one of its flags.
LEMMA PhaseLemma ==
  ASSUME NEW w \in WorkerState, w.phase # "idle", NEW ph \in Phases, NEW b \in BOOLEAN
  PROVE  /\ [w EXCEPT !.phase = ph] \in WorkerState
         /\ [w EXCEPT !.phase = ph, !.proxy = b] \in WorkerState
         /\ [w EXCEPT !.phase = ph, !.unexpected = b] \in WorkerState
         /\ [w EXCEPT !.phase = ph, !.armed = b] \in WorkerState
<1>1. w # NoSession
  BY DEF NoSession
<1>2. w \in [phase : Phases, of : Session, proxy : BOOLEAN, unexpected : BOOLEAN,
             armed : BOOLEAN]
  BY <1>1 DEF WorkerState
<1> QED  BY <1>2 DEF WorkerState

\* The worker moves to a phase other than "closed" and the service keeps what it
\* must.
LEMMA WorkerStepLemma ==
  ASSUME Inv, UNCHANGED <<kill, auto>>, Good(svc'), Keeps(svc, svc'),
         svc'.tun = "block" => svc.tun = "block" \/ ~svc.proxy,
         worker' \in WorkerState, worker'.phase # "closed",
         worker'.phase # "idle" => worker.phase # "idle" /\ worker'.of = worker.of
  PROVE  Preserved
<1>1. WorkerOK(worker, svc)
  BY InvUnfold
<1>2. WorkerOK(worker', svc')
  BY <1>1 DEF WorkerOK, Keeps
<1> QED  BY <1>2 DEF Preserved, SafeStep, Keeps

\* The fields of a fresh service satisfy the invariant.
LEMMA InitInv == Init => Inv
<1> SUFFICES ASSUME Init PROVE Inv
  OBVIOUS
<1>1. svc \in Service
  <2>1. << >> \in Seq(Protocols) /\ << >> \in Seq(Session)
    OBVIOUS
  <2> QED  BY <2>1 DEF Init, Service
<1>2. RetryHasConfig(svc) /\ svc.queue = << >>
  BY DEF Init, RetryHasConfig
<1>3. QueueBound(svc)
  BY <1>2 DEF QueueBound
<1>4. worker \in WorkerState /\ WorkerOK(worker, svc)
  BY DEF Init, WorkerState, WorkerOK, NoSession
<1>5. kill \in BOOLEAN /\ auto \in BOOLEAN /\ due \in Protocols \cup {"none"}
  BY SessionAssumption DEF Init, SessionAssumption
<1> QED  BY <1>1, <1>2, <1>3, <1>4, <1>5 DEF Inv, TypeOK

\* A worker that rejects its task leaves the queue empty and nothing else changed.
LEMMA ClearQueueLemma ==
  ASSUME NEW s, Good(s)
  PROVE  LET t == [s EXCEPT !.queue = << >>]
         IN  /\ Good(t) /\ t.gen = s.gen /\ t.userStop = s.userStop /\ t.tun = s.tun
             /\ t.proxy = s.proxy /\ t.life = s.life /\ t.proto = s.proto /\ t.stored = s.stored
<1> DEFINE t == [s EXCEPT !.queue = << >>]
<1>1. s \in Service /\ << >> \in Seq(Session)
  BY DEF Good
<1>2. t \in Service
  BY <1>1 DEF Service
<1>3. /\ t.gen = s.gen /\ t.userStop = s.userStop /\ t.tun = s.tun /\ t.queue = << >>
      /\ t.proxy = s.proxy /\ t.life = s.life /\ t.proto = s.proto /\ t.stored = s.stored
      /\ t.retry = s.retry
  BY <1>1 DEF Service
<1> HIDE DEF t
<1>4. << >> \in Seq([gen : 0..t.gen, proto : Protocols])
  OBVIOUS
<1>5. Good(t)
  BY <1>2, <1>3, <1>4 DEF Good, RetryHasConfig, QueueBound
<1> QED  BY <1>3, <1>5 DEF t

\* The intents, onRevoke and onDestroy.
LEMMA MainLemma ==
  ASSUME Inv, MainStep \/ OnDestroy
  PROVE  Preserved
<1>0. /\ Good(svc) /\ worker \in WorkerState /\ kill \in BOOLEAN /\ auto \in BOOLEAN
      /\ WorkerOK(worker, svc) /\ ProxyModes \subseteq BOOLEAN /\ svc \in Service
  BY InvUnfold DEF Good
<1>1. CASE Connect \/ AlwaysOn
  <2> DEFINE s == [svc EXCEPT !.userStop = FALSE, !.sealed = FALSE]
  <2>1. PICK p \in Protocols, px \in ProxyModes : svc' = StartTunnel(s, p, px)
    BY <1>1 DEF Connect, AlwaysOn
  <2>2. s \in Service
    BY <1>0 DEF Service
  <2>3. /\ s.userStop = FALSE /\ s.tun = svc.tun /\ s.gen = svc.gen /\ s.queue = svc.queue
        /\ s.proxy = svc.proxy /\ s.retry = svc.retry /\ s.stored = svc.stored
    BY <1>0 DEF Service
  <2> HIDE DEF s
  <2>4. Good(s)
    BY <1>0, <2>2, <2>3 DEF Good, RetryHasConfig, QueueBound
  <2>5. px \in BOOLEAN
    BY <1>0
  <2>6. /\ Good(svc') /\ svc'.userStop = FALSE /\ (svc'.tun = "block" => svc.tun = "block")
        /\ svc' = s \/ svc'.gen = s.gen + 1
    BY <1>0, <2>1, <2>3, <2>4, <2>5, StartTunnelLemma
  <2>7. WorkerOK(worker, svc')
    BY <1>0, <2>2, <2>3, <2>6, WorkerKept DEF Good
  <2> QED  BY <1>0, <1>1, <2>6, <2>7 DEF Connect, AlwaysOn, Preserved, SafeStep
<1>2. CASE Disconnect
  <2>1. /\ Good(svc') /\ svc'.gen = svc.gen /\ svc'.tun \in {svc.tun, "none"}
        /\ svc'.proxy => svc.proxy
    BY <1>0, <1>2, UserStopLemma DEF Disconnect
  <2>2. WorkerOK(worker, svc')
    BY <1>0, <2>1, WorkerKept DEF Good
  <2> QED  BY <1>0, <1>2, <2>1, <2>2 DEF Disconnect, Preserved, SafeStep
<1>3. CASE Reconnect
  <2> DEFINE s == [svc EXCEPT !.latch = TRUE]
             t == StopTunnel(s, FALSE, FALSE)
  <2>1. Good(s) /\ Keeps(svc, s) /\ s.tun = svc.tun
    BY <1>0, SetLatchLemma
  <2>2. svc' = [t EXCEPT !.quick = Append(t.quick, svc.stored)] /\ svc.stored # "none"
    BY <1>3 DEF Reconnect
  <2> HIDE DEF s
  <2>3. Good(t) /\ Keeps(svc, t) /\ t.tun \in {svc.tun, "none"}
    BY <2>1, StopTunnelLemma, KeepsTrans
  <2> HIDE DEF t
  <2>4. svc.stored \in Protocols /\ t.quick \in Seq(Protocols) /\ t \in Service
    BY <1>0, <2>2, <2>3 DEF Good, Service
  <2>5. Append(t.quick, svc.stored) \in Seq(Protocols)
    BY <2>4
  <2>6. svc' \in Service
    BY <2>2, <2>4, <2>5 DEF Service
  <2>7. Same(t, svc') /\ svc'.tun = t.tun
    BY <2>2, <2>4 DEF Service, Same, Keeps
  <2>8. Good(svc') /\ Keeps(svc, svc')
    BY <2>3, <2>6, <2>7, GoodSame, KeepsTrans
  <2> QED  BY <1>3, <2>3, <2>7, <2>8, KeptStep DEF Reconnect
<1>4. CASE OnRevoke
  <2> DEFINE s == [svc EXCEPT !.consent = FALSE, !.tun = "none"]
             t == UserStop(s)
  <2>0. svc' = StopSelf(t)
    BY <1>4 DEF OnRevoke
  <2>1. s \in Service /\ Same(svc, s) /\ s.tun = "none"
    BY <1>0 DEF Service, Same, Keeps
  <2> HIDE DEF s
  <2>2. Good(s) /\ Keeps(svc, s)
    BY <1>0, <2>1, GoodSame
  <2>3. Good(t) /\ t.gen = svc.gen /\ t.tun = "none" /\ (t.proxy => svc.proxy)
    BY <2>1, <2>2, UserStopLemma DEF Keeps
  <2> HIDE DEF t
  <2>4. /\ Good(svc') /\ svc'.gen = svc.gen /\ svc'.tun = "none"
        /\ svc'.proxy => svc.proxy
    BY <2>0, <2>3, StopSelfLemma DEF Keeps
  <2>5. WorkerOK(worker, svc')
    BY <1>0, <2>4, WorkerKept DEF Good
  <2> QED  BY <1>0, <1>4, <2>4, <2>5 DEF OnRevoke, Preserved, SafeStep
<1>5. CASE OnDestroy
  <2> DEFINE c == CancelAutoReconnect(svc)
             t == StopTunnel(c, FALSE, TRUE)
  <2>0. svc' = [t EXCEPT !.life = "down", !.queue = << >>, !.quick = << >>]
    BY <1>5 DEF OnDestroy
  <2>1. Good(c) /\ Keeps(svc, c) /\ c.tun = svc.tun
    BY <1>0, CancelLemma
  <2> HIDE DEF c
  <2>2. Good(t) /\ Keeps(svc, t) /\ t.tun \in {svc.tun, "none"}
    BY <2>1, StopTunnelLemma, KeepsTrans
  <2> HIDE DEF t
  <2>3. /\ << >> \in Seq(Protocols) /\ << >> \in Seq(Session) /\ t \in Service
        /\ << >> \in Seq([gen : 0..t.gen, proto : Protocols])
    BY <2>2 DEF Good
  <2>4. svc' \in Service
    BY <2>0, <2>3 DEF Service
  <2>5. /\ svc'.gen = t.gen /\ svc'.userStop = t.userStop /\ svc'.proxy = t.proxy
        /\ svc'.tun = t.tun /\ svc'.retry = t.retry /\ svc'.stored = t.stored
        /\ svc'.queue = << >>
    BY <2>0, <2>3 DEF Service
  <2>6. QueueBound(svc')
    BY <2>3, <2>5 DEF QueueBound
  <2>7. RetryHasConfig(svc')
    BY <2>2, <2>5 DEF Good, RetryHasConfig
  <2>8. Good(svc')
    BY <2>4, <2>6, <2>7 DEF Good
  <2>9. svc'.gen = svc.gen /\ (svc'.proxy => svc.proxy) /\ svc'.tun \in {svc.tun, "none"}
    BY <2>2, <2>5 DEF Keeps
  <2>10. WorkerOK(worker, svc')
    BY <1>0, <2>4, <2>9, WorkerKept
  <2> QED  BY <1>0, <1>5, <2>8, <2>9, <2>10 DEF OnDestroy, Preserved, SafeStep
<1> QED  BY <1>1, <1>2, <1>3, <1>4, <1>5 DEF MainStep

\* The watchdog, the rotation, the retries and the quick reconnect.
LEMMA LadderLemma ==
  ASSUME Inv, LadderStep \/ Watchdog \/ RotateBegin \/ NetworkBack
  PROVE  Preserved
<1>0. /\ Good(svc) /\ worker \in WorkerState /\ kill \in BOOLEAN /\ auto \in BOOLEAN
      /\ WorkerOK(worker, svc) /\ ProxyModes \subseteq BOOLEAN
      /\ svc \in Service /\ RetryHasConfig(svc) /\ QueueBound(svc)
  BY InvUnfold DEF Good
<1>1. CASE Watchdog
  <2>1. /\ Good(svc') /\ Keeps(svc, svc')
        /\ svc'.tun = "block" => svc.tun = "block" \/ ~svc.proxy
    BY <1>0, <1>1, OnTunnelLostLemma DEF Watchdog
  <2> QED  BY <1>1, <2>1, KeptStep DEF Watchdog
<1>2. CASE RotateBegin
  <2> DEFINE s == SendStatus(svc, "connecting")
  <2>0. svc' = [s EXCEPT !.rotating = TRUE]
    BY <1>2 DEF RotateBegin
  <2>1. Good(s) /\ Keeps(svc, s) /\ s.tun = svc.tun
    BY <1>0, SendStatusLemma DEF Status
  <2> HIDE DEF s
  <2>2. s \in Service
    BY <2>1 DEF Good
  <2>3. svc' \in Service
    BY <2>0, <2>2 DEF Service
  <2>4. Same(s, svc') /\ svc'.tun = s.tun
    BY <2>0, <2>2 DEF Service, Same, Keeps
  <2>5. Good(svc') /\ Keeps(svc, svc')
    BY <2>1, <2>3, <2>4, GoodSame, KeepsTrans
  <2> QED  BY <1>2, <2>1, <2>4, <2>5, KeptStep DEF RotateBegin
<1>3. CASE RotateEnd
  <2> DEFINE s == [svc EXCEPT !.rotating = FALSE]
  <2>0. svc' \in {SendStatus(s, "connected"), OnTunnelLost(s), s}
    BY <1>3 DEF RotateEnd
  <2>1. s \in Service
    BY <1>0 DEF Service
  <2>2. Same(svc, s) /\ s.tun = svc.tun /\ s.proxy = svc.proxy
    BY <1>0 DEF Service, Same, Keeps
  <2> HIDE DEF s
  <2>3. Good(s) /\ Keeps(svc, s)
    BY <1>0, <2>1, <2>2, GoodSame
  <2>4. /\ Good(SendStatus(s, "connected")) /\ Keeps(svc, SendStatus(s, "connected"))
        /\ SendStatus(s, "connected").tun = svc.tun
    BY <2>2, <2>3, SendStatusLemma, KeepsTrans DEF Status
  <2>5. /\ Good(OnTunnelLost(s)) /\ Keeps(svc, OnTunnelLost(s))
        /\ OnTunnelLost(s).tun = "block" => svc.tun = "block" \/ ~svc.proxy
    BY <1>0, <2>2, <2>3, OnTunnelLostLemma, KeepsTrans
  <2> QED  BY <1>3, <2>0, <2>2, <2>3, <2>4, <2>5, KeptStep DEF RotateEnd
<1>4. CASE RetryFires
  <2>1. svc' = [svc EXCEPT !.retry = "none"]
    BY <1>4 DEF RetryFires
  <2>2. svc' \in Service
    BY <1>0, <2>1 DEF Service
  <2>3. Same(svc, svc') /\ svc'.tun = svc.tun
    BY <1>0, <2>1 DEF Service, Same, Keeps
  <2>4. Good(svc') /\ Keeps(svc, svc')
    BY <1>0, <2>2, <2>3, GoodSame
  <2> QED  BY <1>4, <2>3, <2>4, KeptStep DEF RetryFires
<1>5. CASE NetworkBack
  <2>1. svc' = [svc EXCEPT !.retry = "now"] /\ svc.stored # "none"
    BY <1>5 DEF NetworkBack, WillAutoReconnect
  <2>2. svc' \in Service
    BY <1>0, <2>1 DEF Service
  <2>3. Keeps(svc, svc') /\ svc'.tun = svc.tun /\ svc'.stored = svc.stored
    BY <1>0, <2>1 DEF Service, Keeps
  <2>4. Good(svc')
    BY <1>0, <2>1, <2>2, <2>3 DEF Good, RetryHasConfig, QueueBound, Keeps
  <2> QED  BY <1>5, <2>3, <2>4, KeptStep DEF NetworkBack
<1>6. CASE QuickRestart
  <2>0. svc.quick \in Seq(Protocols) /\ svc.quick # << >>
    BY <1>0, <1>6 DEF QuickRestart, Service
  <2>1. Tail(svc.quick) \in Seq(Protocols) /\ svc.latch \in BOOLEAN /\ svc.userStop \in BOOLEAN
    BY <1>0, <2>0 DEF Service
  <2>2. svc' = [svc EXCEPT !.quick = Tail(svc.quick), !.latch = svc.latch /\ ~svc.userStop]
    BY <1>6 DEF QuickRestart
  <2>3. svc' \in Service
    BY <1>0, <2>1, <2>2 DEF Service
  <2>4. Same(svc, svc') /\ svc'.tun = svc.tun
    BY <1>0, <2>2 DEF Service, Same, Keeps
  <2>5. Good(svc') /\ Keeps(svc, svc')
    BY <1>0, <2>3, <2>4, GoodSame
  <2> QED  BY <1>6, <2>4, <2>5, KeptStep DEF QuickRestart
<1>7. CASE QuickTimeout
  <2> DEFINE f == SendStatus(svc, "failed")
  <2>1. Good(f) /\ Keeps(svc, f) /\ f.tun = svc.tun /\ f.quick = svc.quick
    BY <1>0, SendStatusLemma DEF Status
  <2>2. svc' = [f EXCEPT !.quick = Tail(f.quick), !.latch = FALSE] /\ svc.quick # << >>
    BY <1>7 DEF QuickTimeout
  <2> HIDE DEF f
  <2>3. f \in Service /\ Tail(f.quick) \in Seq(Protocols)
    BY <2>1, <2>2 DEF Good, Service
  <2>4. svc' \in Service
    BY <2>2, <2>3 DEF Service
  <2>5. Same(f, svc') /\ svc'.tun = f.tun
    BY <2>2, <2>3 DEF Service, Same, Keeps
  <2>6. Good(svc') /\ Keeps(svc, svc')
    BY <2>1, <2>4, <2>5, GoodSame, KeepsTrans
  <2> QED  BY <1>7, <2>1, <2>5, <2>6, KeptStep DEF QuickTimeout
<1>8. CASE LadderStart
  <2>1. due \in Protocols
    BY <1>8 DEF LadderStart, Inv, TypeOK
  <2>2. PICK px \in ProxyModes :
          LET s == StartTunnel(svc, due, px)
          IN  svc' = IF svc.life = "down" THEN [s EXCEPT !.queue = << >>] ELSE s
    BY <1>8 DEF LadderStart
  <2> DEFINE s == StartTunnel(svc, due, px)
  <2>3. px \in BOOLEAN
    BY <1>0
  <2>4. /\ Good(s) /\ (s.tun = "block" => svc.tun = "block")
        /\ s = svc \/ s.gen = svc.gen + 1
    BY <1>0, <2>1, <2>3, StartTunnelLemma
  <2>5. svc' \in {s, [s EXCEPT !.queue = << >>]}
    BY <2>2
  <2> HIDE DEF s
  <2>6. /\ Good(svc') /\ svc'.gen = s.gen /\ svc'.tun = s.tun /\ svc'.proxy = s.proxy
    BY <2>4, <2>5, ClearQueueLemma
  <2>7. \/ svc'.gen = svc.gen /\ (svc'.proxy => svc.proxy)
        \/ svc'.gen = svc.gen + 1
    BY <2>4, <2>6
  <2>8. WorkerOK(worker, svc')
    BY <1>0, <2>6, <2>7, WorkerKept DEF Good
  <2> QED  BY <1>0, <1>8, <2>4, <2>6, <2>8 DEF LadderStart, Preserved, SafeStep
<1> QED  BY <1>1, <1>2, <1>3, <1>4, <1>5, <1>6, <1>7, <1>8 DEF LadderStep

\* The worker thread, native sessions.
LEMMA NativeLemma ==
  ASSUME Inv,
         TakeSession \/ NativePrepare \/ NativeStart \/ NativeSetupFails \/ CoreReady
         \/ CoreConnecting \/ CoreExits \/ WorkerClose \/ WorkerFinally
  PROVE  Preserved
<1>0. /\ Good(svc) /\ worker \in WorkerState /\ kill \in BOOLEAN /\ auto \in BOOLEAN
      /\ WorkerOK(worker, svc) /\ svc \in Service /\ RetryHasConfig(svc) /\ QueueBound(svc)
  BY InvUnfold DEF Good
<1>1. CASE TakeSession
  <2> DEFINE h == Head(svc.queue)
  <2>0. /\ svc' = [svc EXCEPT !.queue = Tail(svc.queue)] /\ svc.queue # << >>
        /\ worker' = [phase |-> "begin", of |-> h, proxy |-> FALSE, unexpected |-> FALSE,
                      armed |-> FALSE]
    BY <1>1 DEF TakeSession
  <2>1. h \in Session /\ Tail(svc.queue) \in Seq(Session)
    BY <1>0, <2>0 DEF Service
  <2>2. /\ h \in [gen : 0..svc.gen, proto : Protocols]
        /\ Tail(svc.queue) \in Seq([gen : 0..svc.gen, proto : Protocols])
    <3> DEFINE S == [gen : 0..svc.gen, proto : Protocols]
               q == svc.queue
    <3>1. q \in Seq(S) /\ q # << >>
      BY <1>0, <2>0 DEF QueueBound
    <3> HIDE DEF S, q
    <3>2. Head(q) \in S /\ Tail(q) \in Seq(S)
      BY <3>1
    <3> QED  BY <3>2 DEF S, q
  <2> HIDE DEF h
  <2>3. svc' \in Service
    BY <1>0, <2>0, <2>1 DEF Service
  <2>4. /\ svc'.gen = svc.gen /\ svc'.tun = svc.tun /\ svc'.retry = svc.retry
        /\ svc'.stored = svc.stored /\ svc'.queue = Tail(svc.queue)
    BY <1>0, <2>0 DEF Service
  <2>5. Good(svc')
    BY <1>0, <2>2, <2>3, <2>4 DEF Good, RetryHasConfig, QueueBound
  <2>6. worker' \in WorkerState
    BY <2>0, <2>1 DEF WorkerState, Phases
  <2>7. WorkerOK(worker', svc')
    BY <2>0, <2>2, <2>4 DEF WorkerOK
  <2> QED  BY <1>1, <2>4, <2>5, <2>6, <2>7 DEF TakeSession, Preserved, SafeStep
<1>2. CASE NativePrepare
  <2>1. svc.proxy \in BOOLEAN
    BY <1>0 DEF Service
  <2>2. worker' = [worker EXCEPT !.phase = "prepare", !.proxy = svc.proxy] /\ worker.phase = "begin"
    BY <1>2 DEF NativePrepare
  <2>3. worker' \in WorkerState
    BY <1>0, <2>1, <2>2, PhaseLemma DEF Phases
  <2>4. worker'.phase = "prepare" /\ worker'.of = worker.of
    BY <1>0, <2>2 DEF WorkerState, NoSession
  <2>5. Good(svc') /\ Keeps(svc, svc') /\ svc'.tun = svc.tun
    BY <1>0, <1>2, KeepsSelf DEF NativePrepare
  <2> QED  BY <1>2, <2>2, <2>3, <2>4, <2>5, WorkerStepLemma DEF NativePrepare
<1>3. CASE NativeStart
  <2> DEFINE s == SendStatus(svc, "connecting")
             i == IF worker.proxy THEN s.tun ELSE "vpn"
  <2>1. Good(s) /\ Keeps(svc, s) /\ s.tun = svc.tun
    BY <1>0, SendStatusLemma DEF Status
  <2>2. /\ svc' = [s EXCEPT !.tun = i, !.watchdog = TRUE, !.core = "running"]
        /\ worker' = [worker EXCEPT !.phase = "core"] /\ worker.phase = "prepare"
    BY <1>3 DEF NativeStart
  <2> HIDE DEF s
  <2>3. s \in Service /\ i \in {svc.tun, "vpn"}
    BY <2>1 DEF Good
  <2>4. i \in {"none", "vpn", "block"}
    BY <1>0, <2>3 DEF Service
  <2> HIDE DEF i
  <2>5. svc' \in Service
    BY <2>2, <2>3, <2>4 DEF Service
  <2>6. Same(s, svc') /\ svc'.tun \in {svc.tun, "vpn"}
    BY <2>2, <2>3 DEF Service, Same, Keeps
  <2>7. Good(svc') /\ Keeps(svc, svc')
    BY <2>1, <2>5, <2>6, GoodSame, KeepsTrans
  <2>8. worker' \in WorkerState
    BY <1>0, <2>2, PhaseLemma DEF Phases
  <2>9. worker'.phase = "core" /\ worker'.of = worker.of
    BY <1>0, <2>2 DEF WorkerState, NoSession
  <2> QED  BY <1>3, <2>2, <2>6, <2>7, <2>8, <2>9, WorkerStepLemma DEF NativeStart
<1>4. CASE NativeSetupFails
  <2>1. Good(svc') /\ Keeps(svc, svc') /\ svc'.tun = svc.tun
    BY <1>0, <1>4, SendStatusLemma DEF NativeSetupFails, Status
  <2>2. worker' = [worker EXCEPT !.phase = "exited"] /\ worker.phase = "prepare"
    BY <1>4 DEF NativeSetupFails
  <2>3. worker' \in WorkerState
    BY <1>0, <2>2, PhaseLemma DEF Phases
  <2>4. worker'.phase = "exited" /\ worker'.of = worker.of
    BY <1>0, <2>2 DEF WorkerState, NoSession
  <2> QED  BY <1>4, <2>1, <2>2, <2>3, <2>4, WorkerStepLemma DEF NativeSetupFails
<1>5. CASE CoreReady
  <2> DEFINE s == SendStatus(svc, "connected")
  <2>1. Good(s) /\ Keeps(svc, s) /\ s.tun = svc.tun
    BY <1>0, SendStatusLemma DEF Status
  <2>2. svc' = s \/ svc' = [s EXCEPT !.connected = TRUE]
    BY <1>5 DEF CoreReady
  <2> HIDE DEF s
  <2>3. s \in Service
    BY <2>1 DEF Good
  <2>4. [s EXCEPT !.connected = TRUE] \in Service
    BY <2>3 DEF Service
  <2>5. Same(s, [s EXCEPT !.connected = TRUE]) /\ [s EXCEPT !.connected = TRUE].tun = s.tun
    BY <2>3 DEF Service, Same, Keeps
  <2>6. Good(svc') /\ Keeps(svc, svc') /\ svc'.tun = svc.tun
    BY <2>1, <2>2, <2>4, <2>5, GoodSame, KeepsTrans
  <2> QED  BY <1>5, <2>6, KeptStep DEF CoreReady
<1>6. CASE CoreConnecting
  <2>1. Good(svc') /\ Keeps(svc, svc') /\ svc'.tun = svc.tun
    BY <1>0, <1>6, SendStatusLemma DEF CoreConnecting, Status
  <2> QED  BY <1>6, <2>1, KeptStep DEF CoreConnecting
<1>7. CASE CoreExits
  <2> DEFINE s == [svc EXCEPT !.core = "off"]
  <2>0. svc' \in {s, SendStatus(s, "connecting"), SendStatus(s, "disconnected"),
                  SendStatus(s, "failed")}
    BY <1>7 DEF CoreExits
  <2>1. s \in Service
    BY <1>0 DEF Service
  <2>2. Same(svc, s) /\ s.tun = svc.tun
    BY <1>0 DEF Service, Same, Keeps
  <2> HIDE DEF s
  <2>3. Good(s) /\ Keeps(svc, s)
    BY <1>0, <2>1, <2>2, GoodSame
  <2>4. Good(svc') /\ Keeps(svc, svc') /\ svc'.tun = svc.tun
    BY <2>0, <2>2, <2>3, SendStatusLemma, KeepsTrans DEF Status
  <2>5. PICK b \in BOOLEAN : worker' = [worker EXCEPT !.phase = "exited", !.unexpected = b]
    <3>1. (~svc.stopReq) \in BOOLEAN
      OBVIOUS
    <3> QED  BY <1>7, <3>1 DEF CoreExits
  <2>6. worker.phase = "core"
    BY <1>7 DEF CoreExits
  <2>7. worker' \in WorkerState
    BY <1>0, <2>5, <2>6, PhaseLemma DEF Phases
  <2>8. worker'.phase = "exited" /\ worker'.of = worker.of
    BY <1>0, <2>5, <2>6 DEF WorkerState, NoSession
  <2> QED  BY <1>7, <2>4, <2>6, <2>7, <2>8, WorkerStepLemma DEF CoreExits
<1>8. CASE WorkerClose
  <2> DEFINE armed == KillSwitchArmed(svc)
  <2>0. /\ svc' = [svc EXCEPT !.tun = "none", !.connected = FALSE]
        /\ worker' = [worker EXCEPT !.phase = "closed", !.armed = armed]
        /\ worker.phase = "exited"
    BY <1>8 DEF WorkerClose
  <2>1. armed \in BOOLEAN /\ (armed => ~svc.proxy)
    BY <1>0 DEF KillSwitchArmed
  <2> HIDE DEF armed
  <2>2. svc' \in Service
    BY <1>0, <2>0 DEF Service
  <2>3. Same(svc, svc') /\ svc'.tun = "none" /\ svc'.proxy = svc.proxy
    BY <1>0, <2>0 DEF Service, Same, Keeps
  <2>4. Good(svc') /\ Keeps(svc, svc')
    BY <1>0, <2>2, <2>3, GoodSame
  <2>5. worker' \in WorkerState
    BY <1>0, <2>0, <2>1, PhaseLemma DEF Phases
  <2>6. worker'.phase = "closed" /\ worker'.of = worker.of /\ worker'.armed = armed
    BY <1>0, <2>0 DEF WorkerState, NoSession
  <2>7. WorkerOK(worker', svc')
    BY <1>0, <2>0, <2>1, <2>3, <2>4, <2>6 DEF WorkerOK, Keeps
  <2> QED  BY <1>8, <2>3, <2>4, <2>5, <2>7 DEF WorkerClose, Preserved, SafeStep, Keeps
<1>9. CASE WorkerFinally
  <2> DEFINE f == SendStatus(svc, "failed")
             k == SealWithKillSwitch(f, worker.armed)
  <2>0. /\ worker.phase = "closed" /\ worker' = NoSession
        /\ \/ svc' \in {svc, [svc EXCEPT !.latch = FALSE], ScheduleAutoReconnect(svc),
                        StopSelf(svc)}
           \/ worker.armed /\ worker.of.gen = svc.gen /\ svc' = k
    BY <1>9 DEF WorkerFinally
  <2>1. worker.armed \in BOOLEAN
    BY <1>0, <2>0 DEF WorkerState, NoSession
  <2>2. Good(f) /\ Keeps(svc, f)
    BY <1>0, SendStatusLemma DEF Status
  <2> HIDE DEF f
  <2>3. Good(k) /\ Keeps(svc, k)
    BY <2>1, <2>2, SealLemma, KeepsTrans
  <2> HIDE DEF k
  <2>4. /\ Good([svc EXCEPT !.latch = FALSE]) /\ Keeps(svc, [svc EXCEPT !.latch = FALSE])
        /\ [svc EXCEPT !.latch = FALSE].tun = svc.tun
    BY <1>0, SetLatchLemma
  <2>5. /\ Good(ScheduleAutoReconnect(svc)) /\ Keeps(svc, ScheduleAutoReconnect(svc))
        /\ ScheduleAutoReconnect(svc).tun = svc.tun
    BY <1>0, ScheduleLemma
  <2>6. Good(StopSelf(svc)) /\ Keeps(svc, StopSelf(svc)) /\ StopSelf(svc).tun = svc.tun
    BY <1>0, StopSelfLemma
  <2>7. /\ Good(svc') /\ Keeps(svc, svc')
        /\ svc'.tun = "block" => svc.tun = "block" \/ ~svc.proxy
    <3>1. worker.armed /\ worker.of.gen = svc.gen => ~svc.proxy
      BY <1>0, <2>0 DEF WorkerOK
    <3> QED  BY <1>0, <2>0, <2>3, <2>4, <2>5, <2>6, <3>1, KeepsSelf
  <2>8. worker' \in WorkerState /\ worker'.phase = "idle"
    BY <2>0 DEF WorkerState, NoSession
  <2> QED  BY <1>9, <2>7, <2>8, WorkerStepLemma DEF WorkerFinally
<1> QED  BY <1>1, <1>2, <1>3, <1>4, <1>5, <1>6, <1>7, <1>8, <1>9

\* The worker thread, front sessions.
LEMMA FrontLemma ==
  ASSUME Inv, FrontEstablish \/ FrontRace \/ FrontConnects \/ FrontFails
  PROVE  Preserved
<1>0. /\ Good(svc) /\ worker \in WorkerState /\ kill \in BOOLEAN /\ auto \in BOOLEAN
      /\ svc \in Service
  BY InvUnfold DEF Good
<1>1. CASE FrontEstablish
  <2> DEFINE s == SendStatus(svc, "connecting")
  <2>0. /\ svc' = [s EXCEPT !.tun = "vpn"] /\ worker.phase = "begin"
        /\ worker' = [worker EXCEPT !.phase = "tun"]
    BY <1>1 DEF FrontEstablish
  <2>1. Good(s) /\ Keeps(svc, s)
    BY <1>0, SendStatusLemma DEF Status
  <2> HIDE DEF s
  <2>2. s \in Service
    BY <2>1 DEF Good
  <2>3. svc' \in Service
    BY <2>0, <2>2 DEF Service
  <2>4. Same(s, svc') /\ svc'.tun = "vpn"
    BY <2>0, <2>2 DEF Service, Same, Keeps
  <2>5. Good(svc') /\ Keeps(svc, svc')
    BY <2>1, <2>3, <2>4, GoodSame, KeepsTrans
  <2>6. worker' \in WorkerState
    BY <1>0, <2>0, PhaseLemma DEF Phases
  <2>7. worker'.phase = "tun" /\ worker'.of = worker.of
    BY <1>0, <2>0 DEF WorkerState, NoSession
  <2> QED  BY <1>1, <2>0, <2>4, <2>5, <2>6, <2>7, WorkerStepLemma DEF FrontEstablish
<1>2. CASE FrontRace
  <2>0. /\ svc' = svc /\ worker.phase = "tun"
        /\ worker' = [worker EXCEPT !.phase = "race"]
    BY <1>2 DEF FrontRace
  <2>3. Good(svc') /\ Keeps(svc, svc') /\ svc'.tun = svc.tun
    BY <1>0, <2>0, KeepsSelf
  <2>4. worker' \in WorkerState
    BY <1>0, <2>0, PhaseLemma DEF Phases
  <2>5. worker'.phase = "race" /\ worker'.of = worker.of
    BY <1>0, <2>0 DEF WorkerState, NoSession
  <2> QED  BY <1>2, <2>0, <2>3, <2>4, <2>5, WorkerStepLemma DEF FrontRace
<1>3. CASE FrontConnects
  <2> DEFINE s == SendStatus(svc, "connected")
  <2>0. svc' = [s EXCEPT !.watchdog = TRUE] /\ worker' = NoSession
    BY <1>3 DEF FrontConnects
  <2>1. Good(s) /\ Keeps(svc, s) /\ s.tun = svc.tun
    BY <1>0, SendStatusLemma DEF Status
  <2> HIDE DEF s
  <2>2. s \in Service
    BY <2>1 DEF Good
  <2>3. svc' \in Service
    BY <2>0, <2>2 DEF Service
  <2>4. Same(s, svc') /\ svc'.tun = s.tun
    BY <2>0, <2>2 DEF Service, Same, Keeps
  <2>5. Good(svc') /\ Keeps(svc, svc')
    BY <2>1, <2>3, <2>4, GoodSame, KeepsTrans
  <2>6. worker' \in WorkerState /\ worker'.phase = "idle"
    BY <2>0 DEF WorkerState, NoSession
  <2> QED  BY <1>3, <2>1, <2>4, <2>5, <2>6, WorkerStepLemma DEF FrontConnects
<1>4. CASE FrontFails
  <2>1. /\ Good(svc') /\ Keeps(svc, svc')
        /\ svc'.tun = "block" => svc.tun = "block" \/ ~svc.proxy
    BY <1>0, <1>4, FailAndStopLemma DEF FrontFails
  <2>2. worker' \in WorkerState /\ worker'.phase = "idle"
    BY <1>4 DEF FrontFails, WorkerState, NoSession
  <2> QED  BY <1>4, <2>1, <2>2, WorkerStepLemma DEF FrontFails
<1> QED  BY <1>1, <1>2, <1>3, <1>4

\* No other step decides on a start.
LEMMA DueKept ==
  ASSUME Next, ~RetryFires, ~QuickRestart, ~LadderStart
  PROVE  due' = due
<1>1. CASE MainStep \/ OnDestroy
  BY <1>1 DEF MainStep, Connect, AlwaysOn, Disconnect, Reconnect, OnRevoke, OnDestroy
<1>2. CASE LadderStep \/ Watchdog \/ RotateBegin \/ NetworkBack
  BY <1>2 DEF LadderStep, QuickTimeout, RotateEnd, Watchdog, RotateBegin, NetworkBack
<1>3. CASE WorkerStep \/ CoreReady \/ CoreConnecting \/ CoreExits
  BY <1>3 DEF WorkerStep, CoreStops, TakeSession, NativePrepare, NativeStart, NativeSetupFails,
              CoreReady, CoreConnecting, CoreExits, WorkerClose, WorkerFinally, FrontEstablish,
              FrontRace, FrontConnects, FrontFails
<1> QED  BY <1>1, <1>2, <1>3 DEF Next

\* The two tasks that decide on a start decide on a configured transport.
LEMMA DueTyped ==
  ASSUME Inv, Next
  PROVE  due' \in Protocols \cup {"none"}
<1>0. /\ svc \in Service /\ RetryHasConfig(svc) /\ due \in Protocols \cup {"none"}
  BY DEF Inv, TypeOK
<1>1. CASE RetryFires
  <2>1. due' \in {"none", svc.stored}
    BY <1>1 DEF RetryFires
  <2> QED  BY <1>0, <2>1 DEF Service
<1>2. CASE QuickRestart
  <2>1. svc.quick \in Seq(Protocols) /\ svc.quick # << >>
    BY <1>0, <1>2 DEF QuickRestart, Service
  <2>2. Head(svc.quick) \in Protocols /\ due' \in {"none", Head(svc.quick)}
    BY <1>2, <2>1 DEF QuickRestart
  <2> QED  BY <2>2
<1>3. CASE LadderStart
  BY <1>3 DEF LadderStart
<1>4. CASE ~RetryFires /\ ~QuickRestart /\ ~LadderStart
  <2>1. due' = due
    BY <1>4, DueKept
  <2> QED  BY <1>0, <2>1
<1> QED  BY <1>1, <1>2, <1>3, <1>4

\* Every step of the service, stuttering included, keeps the invariant and is
\* a safe step.
LEMMA StepInv == Inv /\ [Next]_vars => Inv' /\ SafeStep
<1> SUFFICES ASSUME Inv, [Next]_vars PROVE Inv' /\ SafeStep
  OBVIOUS
<1>1. CASE Next
  <2>1. Preserved
    BY <1>1, MainLemma, LadderLemma, NativeLemma, FrontLemma DEF Next, WorkerStep, CoreStops
  <2> QED  BY <1>1, <2>1, DueTyped, PreservedLemma
<1>2. CASE UNCHANGED vars
  BY <1>2 DEF vars, Inv, TypeOK, RetryHasConfig, QueueBound, WorkerOK, SafeStep
<1> QED  BY <1>1, <1>2

\* Every reachable state of the service is well typed; a pending retry has a
\* stored configuration to start (scheduleAutoReconnect, onAvailable).
THEOREM TypeCorrect == Spec => []TypeOK
<1>1. Spec => []Inv
  BY InitInv, StepInv, PTL DEF Spec
<1>2. Inv => TypeOK
  BY DEF Inv
<1> QED  BY <1>1, <1>2, PTL

\* No path through failAndStop, onTunnelLost or the worker's `finally` seals a
\* proxy-mode session, which never had an interface.
THEOREM SealOnlyAfterVpn == Spec => SealOnlyVpn
<1>1. Inv /\ [Next]_vars => [svc.tun # "block" /\ svc'.tun = "block" => ~svc.proxy]_vars
  BY StepInv DEF SafeStep
<1> QED  BY InitInv, StepInv, <1>1, PTL DEF Spec, SealOnlyVpn

-----------------------------------------------------------------------------
(* The reconnect latch.  The two bounds on the queue are not needed here:  *)
(* whichever session is the newest, its end consumes the latch.            *)

\* The newest session has not come to its end.
Pending(s, w) ==
    \/ w # NoSession /\ w.of.gen = s.gen
    \/ \E i \in 1 .. Len(s.queue) : s.queue[i].gen = s.gen

\* Who is going to consume a latch that is set: a scheduled quick reconnect, the
\* newest session, a retry that will not be dropped, a start already decided, or
\* the next Connect.
LatchHeld(s, w, d) ==
    s.latch /\ s.life = "up" =>
        \/ s.quick # << >>
        \/ Pending(s, w)
        \/ ~s.connected /\ (s.userStop \/ s.retry # "none" \/ d # "none")

ConfigKnown(s) == s.proto # "none" => s.stored # "none"

\* A method that sets no latch and drops nothing a latch waits for.
Calm(s, t) ==
    /\ t.latch => s.latch
    /\ t.connected => s.connected
    /\ t.life = "up" => s.life = "up"
    /\ s.retry # "none" => t.retry # "none"
    /\ t.quick = s.quick /\ t.gen = s.gen /\ t.queue = s.queue /\ t.userStop = s.userStop
    /\ t.proto = s.proto /\ t.stored = s.stored

\* Calm methods can follow one another.
LEMMA CalmTrans ==
  ASSUME NEW s, NEW t, NEW u, Calm(s, t), Calm(t, u)
  PROVE  Calm(s, u)
  BY DEF Calm

\* Doing nothing is calm.
LEMMA CalmSelf ==
  ASSUME NEW s
  PROVE  Calm(s, s)
  BY DEF Calm

\* Across a calm method a latch keeps whatever it is waiting for.
LEMMA CalmHeld ==
  ASSUME NEW s, NEW t, NEW w, NEW v, NEW d, LatchHeld(s, w, d), ConfigKnown(s), Calm(s, t),
         w # NoSession => v # NoSession /\ v.of = w.of
  PROVE  LatchHeld(t, v, d) /\ ConfigKnown(t)
<1>1. Pending(s, w) => Pending(t, v)
  BY DEF Pending, Calm
<1>2. ConfigKnown(t)
  BY DEF ConfigKnown, Calm
<1> QED  BY <1>1, <1>2 DEF LatchHeld, Calm

\* The small methods are calm.
LEMMA CalmMethods ==
  ASSUME NEW s \in Service, NEW status \in Status, NEW armed \in BOOLEAN
  PROVE  /\ Calm(s, StopSelf(s))
         /\ Calm(s, SendStatus(s, status))
         /\ status = "connected" => ~SendStatus(s, status).latch
         /\ Calm(s, StopDataPath(s))
         /\ Calm(s, RebuildKillSwitchVpn(s))
         /\ Calm(s, SealWithKillSwitch(s, armed))
         /\ Calm(s, [s EXCEPT !.connected = FALSE]) /\ ~[s EXCEPT !.connected = FALSE].connected
         /\ Calm(s, [s EXCEPT !.latch = FALSE]) /\ ~[s EXCEPT !.latch = FALSE].latch
<1>1. Calm(s, StopSelf(s))
  BY DEF Service, StopSelf, Calm
<1>2. Calm(s, SendStatus(s, status)) /\ (status = "connected" => ~SendStatus(s, status).latch)
  BY DEF Service, SendStatus, Status, Calm
<1>3. Calm(s, StopDataPath(s))
  BY DEF Service, StopDataPath, Calm
<1>4. Calm(s, RebuildKillSwitchVpn(s))
  BY DEF Service, RebuildKillSwitchVpn, Calm
<1>5. Calm(s, SealWithKillSwitch(s, armed))
  BY DEF Service, SealWithKillSwitch, RebuildKillSwitchVpn, Calm
<1>6. Calm(s, [s EXCEPT !.connected = FALSE]) /\ ~[s EXCEPT !.connected = FALSE].connected
  BY DEF Service, Calm
<1>7. Calm(s, [s EXCEPT !.latch = FALSE]) /\ ~[s EXCEPT !.latch = FALSE].latch
  BY DEF Service, Calm
<1> QED  BY <1>1, <1>2, <1>3, <1>4, <1>5, <1>6, <1>7

\* stopTunnel is calm; it sets neither `connected` nor the latch.
LEMMA CalmStop ==
  ASSUME NEW s, Good(s), NEW notify \in BOOLEAN, NEW teardown \in BOOLEAN
  PROVE  /\ Calm(s, StopTunnel(s, notify, teardown))
         /\ StopTunnel(s, notify, teardown).latch = s.latch
<1> DEFINE t == StopDataPath(s)
           inline == [t EXCEPT !.proxy = FALSE, !.tun = "none", !.connected = FALSE]
           told == IF notify THEN SendStatus(inline, "disconnected") ELSE inline
<1>1. Good(t) /\ t \in Service
  BY StopDataPathLemma DEF Good
<1>2. Calm(s, t) /\ t.latch = s.latch
  BY CalmMethods DEF Good, Service, StopDataPath, Status
<1>3. StopTunnel(s, notify, teardown) \in
        {told, StopSelf(told), t, SendStatus(t, "disconnected")}
  BY DEF StopTunnel
<1> HIDE DEF t
<1>4. inline \in Service
  BY <1>1, InlineLemma DEF Good
<1>5. Calm(t, inline) /\ inline.latch = t.latch
  BY <1>1 DEF Service, Calm
<1> HIDE DEF inline
<1>6. /\ Calm(inline, SendStatus(inline, "disconnected"))
      /\ SendStatus(inline, "disconnected").latch = inline.latch
      /\ SendStatus(inline, "disconnected") \in Service
  BY <1>4 DEF Service, SendStatus, Calm
<1>7. Calm(s, told) /\ told.latch = s.latch /\ told \in Service
  BY <1>2, <1>4, <1>5, <1>6, CalmTrans
<1> HIDE DEF told
<1>8. Calm(told, StopSelf(told)) /\ StopSelf(told).latch = told.latch
  BY <1>7 DEF Service, StopSelf, Calm
<1>9. /\ Calm(t, SendStatus(t, "disconnected"))
      /\ SendStatus(t, "disconnected").latch = t.latch
  BY <1>1 DEF Service, SendStatus, Calm
<1> QED  BY <1>2, <1>3, <1>7, <1>8, <1>9, CalmTrans

\* scheduleAutoReconnect is calm, and schedules unless the user stopped, the
\* service is gone or there is nothing to start.
LEMMA CalmSchedule ==
  ASSUME NEW s \in Service
  PROVE  /\ Calm(s, ScheduleAutoReconnect(s))
         /\ ScheduleAutoReconnect(s).latch = s.latch
         /\ \/ s.userStop \/ s.life = "down" \/ s.stored = "none"
            \/ ScheduleAutoReconnect(s).retry # "none"
  BY DEF Service, ScheduleAutoReconnect, SendStatus, Calm

\* failAndStop consumes the latch.
LEMMA FailConsumes ==
  ASSUME NEW s, Good(s), kill \in BOOLEAN, auto \in BOOLEAN
  PROVE  Calm(s, FailAndStop(s)) /\ ~FailAndStop(s).latch
<1> DEFINE keepSeal == s.sealed /\ ~s.userStop /\ KillSwitchArmed(s)
           reported == IF keepSeal /\ WillAutoReconnect(s) THEN s ELSE SendStatus(s, "failed")
           u == [reported EXCEPT !.connected = FALSE]
           t == StopTunnel(u, FALSE, ~keepSeal)
           resealed == RebuildKillSwitchVpn(t)
<1>1. \/ FailAndStop(s) = [t EXCEPT !.latch = FALSE]
      \/ /\ ~t.latch
         /\ FailAndStop(s) \in {ScheduleAutoReconnect(t), StopSelf(t),
                                ScheduleAutoReconnect(resealed), SendStatus(resealed, "failed")}
  BY DEF FailAndStop
<1>2. (~keepSeal) \in BOOLEAN
  OBVIOUS
<1> HIDE DEF keepSeal
<1>3. Good(reported) /\ Calm(s, reported)
  <2>1. Good(SendStatus(s, "failed"))
    BY SendStatusLemma DEF Status
  <2>2. Calm(s, SendStatus(s, "failed"))
    BY CalmMethods DEF Status, Good
  <2> QED  BY <2>1, <2>2, CalmSelf
<1> HIDE DEF reported
<1>4. Good(u) /\ Calm(s, u)
  <2>1. Good(u)
    BY <1>3, ClearConnectedLemma
  <2>2. Calm(reported, u)
    BY <1>3, CalmMethods DEF Good, Status
  <2> QED  BY <1>3, <2>1, <2>2, CalmTrans
<1> HIDE DEF u
<1>5. Good(t) /\ t \in Service /\ Calm(s, t)
  BY <1>2, <1>4, StopTunnelLemma, CalmStop, CalmTrans DEF Good
<1> HIDE DEF t
<1>6. resealed \in Service /\ Calm(t, resealed)
  BY <1>5, RebuildLemma, CalmMethods DEF Good, Status
<1> HIDE DEF resealed
<1>7. Calm(t, [t EXCEPT !.latch = FALSE]) /\ ~[t EXCEPT !.latch = FALSE].latch
  BY <1>5, CalmMethods DEF Status
<1>8. Calm(t, ScheduleAutoReconnect(t)) /\ Calm(t, StopSelf(t))
  BY <1>5, CalmSchedule, CalmMethods DEF Status
<1>9. /\ Calm(t, ScheduleAutoReconnect(resealed)) /\ Calm(t, SendStatus(resealed, "failed"))
  <2>1. Calm(resealed, ScheduleAutoReconnect(resealed))
    BY <1>6, CalmSchedule
  <2>2. Calm(resealed, SendStatus(resealed, "failed"))
    BY <1>6, CalmMethods DEF Status
  <2> QED  BY <1>6, <2>1, <2>2, CalmTrans
<1>10. Calm(t, FailAndStop(s)) /\ ~FailAndStop(s).latch
  BY <1>1, <1>7, <1>8, <1>9 DEF Calm
<1> QED  BY <1>5, <1>10, CalmTrans

\* A startTunnel that gets past the compareAndSet queues the newest session or
\* ends in failAndStop.
LEMMA StartHeld ==
  ASSUME NEW s, Good(s), ~s.connected, NEW p \in Protocols, NEW px \in BOOLEAN, NEW w, NEW d,
         kill \in BOOLEAN, auto \in BOOLEAN
  PROVE  LatchHeld(StartTunnel(s, p, px), w, d) /\ ConfigKnown(StartTunnel(s, p, px))
<1> DEFINE t == [s EXCEPT !.connected = TRUE, !.gen = @ + 1, !.retry = "none", !.stored = p,
                          !.proto = p, !.stopReq = FALSE, !.proxy = px]
           u == [t EXCEPT !.connected = FALSE]
           x == [gen |-> t.gen, proto |-> p]
           q == [t EXCEPT !.queue = Append(t.queue, x)]
<1>1. StartTunnel(s, p, px) \in {FailAndStop(u), q}
  BY DEF StartTunnel
<1>2. /\ s \in Service /\ s.gen \in Nat /\ s.gen + 1 \in Nat /\ p \in Protocols \cup {"none"}
      /\ s.queue \in Seq([gen : 0..s.gen, proto : Protocols]) /\ p # "none"
  BY SessionAssumption DEF Good, Service, QueueBound
<1>3. t \in Service
  BY <1>2 DEF Service
<1>4. /\ t.retry = "none" /\ t.gen = s.gen + 1 /\ t.queue = s.queue /\ t.stored = p
  BY <1>2 DEF Service
<1>5. x.gen = t.gen
  OBVIOUS
<1> HIDE DEF t, x
<1>6. LatchHeld(q, w, d) /\ ConfigKnown(q)
  <2>1. q.gen = t.gen /\ q.queue = Append(t.queue, x) /\ q.stored = t.stored
    BY <1>3 DEF Service
  <2>2. t.queue \in Seq(Session)
    BY <1>3 DEF Service
  <2>3. /\ Len(t.queue) + 1 \in 1 .. Len(Append(t.queue, x))
        /\ Append(t.queue, x)[Len(t.queue) + 1] = x
    BY <2>2
  <2> HIDE DEF q
  <2>4. Pending(q, w)
    BY <1>5, <2>1, <2>3 DEF Pending
  <2> QED  BY <1>2, <1>4, <2>1, <2>4 DEF LatchHeld, ConfigKnown
<1>7. LatchHeld(FailAndStop(u), w, d) /\ ConfigKnown(FailAndStop(u))
  <2>1. [gen : 0..s.gen, proto : Protocols] \subseteq [gen : 0..t.gen, proto : Protocols]
    BY <1>2, <1>4
  <2>2. t.queue \in Seq([gen : 0..t.gen, proto : Protocols])
    BY <1>2, <1>4, <2>1, SeqMonotonic
  <2>3. Good(t)
    BY <1>3, <1>4, <2>2 DEF Good, RetryHasConfig, QueueBound
  <2>4. Good(u)
    BY <2>3, ClearConnectedLemma
  <2>5. u.stored = p
    BY <1>3, <1>4 DEF Service
  <2> HIDE DEF u
  <2>6. ~FailAndStop(u).latch /\ FailAndStop(u).stored = p
    BY <2>4, <2>5, FailConsumes DEF Calm
  <2> QED  BY <1>2, <2>6 DEF LatchHeld, ConfigKnown
<1> QED  BY <1>1, <1>6, <1>7

\* onTunnelLost sets the latch only where a retry follows, or the user has
\* stopped the service and nothing will consume it before the next Connect.
LEMMA LostHeld ==
  ASSUME NEW s, Good(s), NEW w, NEW d, LatchHeld(s, w, d), ConfigKnown(s),
         kill \in BOOLEAN, auto \in BOOLEAN
  PROVE  LatchHeld(OnTunnelLost(s), w, d) /\ ConfigKnown(OnTunnelLost(s))
<1> DEFINE armed == KillSwitchArmed(s)
           nativeCoreSession == ~s.proxy /\ s.proto = "native"
           g == SendStatus(s, "failed")
           f == [g EXCEPT !.connected = FALSE]
           given == StopTunnel(f, FALSE, TRUE)
           latched == IF nativeCoreSession THEN [s EXCEPT !.latch = TRUE] ELSE s
           k == [latched EXCEPT !.connected = FALSE]
           kept == StopTunnel(k, FALSE, FALSE)
           sg == SealWithKillSwitch(given, armed)
           sk == SealWithKillSwitch(kept, armed)
           r == ScheduleAutoReconnect(sk)
<1>1. OnTunnelLost(s) \in {s, StopSelf(given), [r EXCEPT !.callback = TRUE],
                           SendStatus(sg, "failed")}
  BY DEF OnTunnelLost
<1>2. armed \in BOOLEAN /\ s \in Service
  BY DEF KillSwitchArmed, Good
<1> HIDE DEF armed
<1>3. Good(g) /\ Calm(s, g)
  BY <1>2, SendStatusLemma, CalmMethods DEF Status
<1> HIDE DEF g
<1>4. Good(f) /\ Calm(s, f)
  <2>1. Good(f) /\ Calm(g, f)
    BY <1>3, ClearConnectedLemma, CalmMethods DEF Good, Status
  <2> QED  BY <1>3, <2>1, CalmTrans
<1> HIDE DEF f
<1>5. Good(given) /\ given \in Service /\ Calm(s, given)
  BY <1>4, StopTunnelLemma, CalmStop, CalmTrans DEF Good
<1> HIDE DEF given
<1>6. Good(latched)
  BY SetLatchLemma
<1>7. /\ latched.life = s.life /\ latched.quick = s.quick /\ latched.userStop = s.userStop
      /\ latched.stored = s.stored /\ latched.proto = s.proto
      /\ latched.latch => s.latch \/ s.proto = "native"
  BY <1>2 DEF Service
<1> HIDE DEF latched
<1>8. Good(k) /\ Calm(latched, k) /\ ~k.connected
  BY <1>6, ClearConnectedLemma, CalmMethods DEF Good, Status
<1> HIDE DEF k
<1>9. Good(kept) /\ kept \in Service /\ Calm(latched, kept) /\ ~kept.connected
  BY <1>8, StopTunnelLemma, CalmStop, CalmTrans DEF Good, Calm
<1> HIDE DEF kept
<1>10. sg \in Service /\ Calm(s, sg)
  <2>1. sg \in Service /\ Calm(given, sg)
    BY <1>2, <1>5, SealLemma, CalmMethods DEF Good, Status
  <2> QED  BY <1>5, <2>1, CalmTrans
<1>11. Good(sk) /\ sk \in Service /\ Calm(latched, sk) /\ ~sk.connected
  <2>1. Good(sk) /\ Calm(kept, sk)
    BY <1>2, <1>9, SealLemma, CalmMethods DEF Status
  <2> QED  BY <1>9, <2>1, CalmTrans DEF Good, Calm
<1> HIDE DEF sg, sk
<1>12. CASE OnTunnelLost(s) = s
  BY <1>12
<1>13. CASE OnTunnelLost(s) = StopSelf(given)
  <2>1. Calm(s, StopSelf(given))
    BY <1>5, CalmMethods, CalmTrans DEF Status
  <2> QED  BY <1>13, <2>1, CalmHeld
<1>14. CASE OnTunnelLost(s) = SendStatus(sg, "failed")
  <2>1. Calm(s, SendStatus(sg, "failed"))
    BY <1>10, CalmMethods, CalmTrans DEF Status
  <2> QED  BY <1>14, <2>1, CalmHeld
<1>15. CASE OnTunnelLost(s) = [r EXCEPT !.callback = TRUE] /\ ~s.latch
  <2>1. /\ r \in Service /\ Calm(sk, r) /\ r.latch = sk.latch
        /\ sk.userStop \/ sk.life = "down" \/ sk.stored = "none" \/ r.retry # "none"
    BY <1>11, ScheduleLemma, CalmSchedule DEF Good
  <2>2. Calm(latched, r) /\ ~r.connected
    BY <1>11, <2>1, CalmTrans DEF Calm
  <2>3. r.latch => s.proto = "native"
    BY <1>7, <1>15, <2>2 DEF Calm
  <2>4. r.latch => r.stored # "none"
    BY <1>7, <2>2, <2>3 DEF Calm, ConfigKnown
  <2>5. r.latch /\ r.life = "up" => r.userStop \/ r.retry # "none"
    BY <1>11, <2>1, <2>4 DEF Calm
  <2> DEFINE c == [r EXCEPT !.callback = TRUE]
  <2>6. /\ c.latch = r.latch /\ c.life = r.life /\ c.userStop = r.userStop
        /\ c.retry = r.retry /\ c.connected = r.connected
        /\ c.proto = r.proto /\ c.stored = r.stored
    BY <2>1 DEF Service
  <2> HIDE DEF c
  <2>7. LatchHeld(c, w, d)
    BY <2>2, <2>5, <2>6 DEF LatchHeld
  <2>8. ConfigKnown(c)
    BY <1>7, <2>2, <2>6 DEF ConfigKnown, Calm
  <2> QED  BY <1>15, <2>7, <2>8 DEF c
<1>16. s.latch => OnTunnelLost(s) = s
  BY DEF OnTunnelLost
<1> QED  BY <1>1, <1>12, <1>13, <1>14, <1>15, <1>16

\* The invariant of the latch, on top of the one above.
LatchInv == Inv /\ LatchHeld(svc, worker, due) /\ ConfigKnown(svc)

\* A step that sets no latch and moves the worker at most from phase to phase.
LEMMA CalmStep ==
  ASSUME LatchInv, Calm(svc, svc'),
         \/ worker' = worker
         \/ worker' # NoSession /\ worker'.of = worker.of
  PROVE  LatchHeld(svc', worker', due) /\ ConfigKnown(svc')
  BY CalmHeld DEF LatchInv

\* A step after which the latch is clear.
LEMMA ClearStep ==
  ASSUME LatchInv, ~svc'.latch, svc'.proto = svc.proto, svc'.stored = svc.stored
  PROVE  LatchHeld(svc', worker', due) /\ ConfigKnown(svc')
  BY DEF LatchInv, LatchHeld, ConfigKnown

\* Disconnect and onRevoke clear the latch.
LEMMA UserStopClears ==
  ASSUME NEW s, Good(s)
  PROVE  ~UserStop(s).latch /\ UserStop(s).proto = s.proto /\ UserStop(s).stored = s.stored
<1> DEFINE t == [s EXCEPT !.userStop = TRUE, !.latch = FALSE, !.sealed = FALSE]
           c == CancelAutoReconnect(t)
<1>0. UserStop(s) = StopTunnel(c, TRUE, TRUE)
  BY DEF UserStop
<1>1. s \in Service /\ RetryHasConfig(s) /\ QueueBound(s)
  BY DEF Good
<1>2. t \in Service
  BY <1>1 DEF Service
<1>3. /\ t.gen = s.gen /\ t.queue = s.queue /\ t.retry = s.retry
      /\ t.stored = s.stored /\ t.proto = s.proto /\ ~t.latch
  BY <1>1 DEF Service
<1> HIDE DEF t
<1>4. Good(t)
  BY <1>1, <1>2, <1>3 DEF Good, RetryHasConfig, QueueBound
<1>5. Good(c)
  BY <1>4, CancelLemma
<1>6. ~c.latch /\ c.stored = s.stored /\ c.proto = s.proto
  BY <1>2, <1>3 DEF CancelAutoReconnect, Service
<1> HIDE DEF c
<1>7. /\ Calm(c, StopTunnel(c, TRUE, TRUE)) /\ StopTunnel(c, TRUE, TRUE).latch = c.latch
  BY <1>5, CalmStop
<1> QED  BY <1>0, <1>6, <1>7 DEF Calm

\* The intents, onRevoke and onDestroy.
LEMMA LatchMain ==
  ASSUME LatchInv, MainStep \/ OnDestroy
  PROVE  LatchHeld(svc', worker', due) /\ ConfigKnown(svc')
<1>0. /\ Good(svc) /\ svc \in Service /\ kill \in BOOLEAN /\ auto \in BOOLEAN
      /\ ProxyModes \subseteq BOOLEAN
      /\ LatchHeld(svc, worker, due) /\ ConfigKnown(svc)
  BY InvUnfold DEF LatchInv, Good
<1>1. CASE Connect \/ AlwaysOn
  <2> DEFINE s == [svc EXCEPT !.userStop = FALSE, !.sealed = FALSE]
  <2>1. PICK p \in Protocols, px \in ProxyModes : svc' = StartTunnel(s, p, px)
    BY <1>1 DEF Connect, AlwaysOn
  <2>2. s \in Service
    BY <1>0 DEF Service
  <2>3. /\ s.gen = svc.gen /\ s.queue = svc.queue /\ s.connected = svc.connected
        /\ s.retry = svc.retry /\ s.stored = svc.stored /\ s.proto = svc.proto
        /\ s.quick = svc.quick /\ s.latch = svc.latch /\ s.life = svc.life
    BY <1>0 DEF Service
  <2>4. StartTunnel(s, p, px) = s \/ ~s.connected
    BY DEF StartTunnel
  <2> HIDE DEF s
  <2>5. Good(s)
    BY <1>0, <2>2, <2>3 DEF Good, RetryHasConfig, QueueBound
  <2>6. worker' = worker /\ px \in BOOLEAN
    BY <1>0, <1>1 DEF Connect, AlwaysOn
  <2>7. CASE ~s.connected
    BY <1>0, <2>1, <2>5, <2>6, <2>7, StartHeld
  <2>8. CASE s.connected
    <3>1. svc' = s
      BY <2>1, <2>4, <2>8
    <3>2. Pending(svc, worker) => Pending(s, worker)
      BY <2>3 DEF Pending
    <3> QED  BY <1>0, <2>3, <2>6, <2>8, <3>1, <3>2 DEF LatchHeld, ConfigKnown
  <2> QED  BY <2>7, <2>8
<1>2. CASE Disconnect
  BY <1>0, <1>2, UserStopClears, ClearStep DEF Disconnect
<1>3. CASE Reconnect
  <2> DEFINE s == [svc EXCEPT !.latch = TRUE]
             t == StopTunnel(s, FALSE, FALSE)
  <2>1. Good(s) /\ s.proto = svc.proto /\ s.stored = svc.stored
    BY <1>0, SetLatchLemma DEF Service
  <2>2. svc' = [t EXCEPT !.quick = Append(t.quick, svc.stored)]
    BY <1>3 DEF Reconnect
  <2> HIDE DEF s
  <2>3. Good(t) /\ Calm(s, t)
    BY <2>1, StopTunnelLemma, CalmStop
  <2> HIDE DEF t
  <2>4. t \in Service /\ t.quick \in Seq(Protocols)
    BY <2>3 DEF Good, Service
  <2>5. svc'.quick = Append(t.quick, svc.stored) /\ svc'.proto = t.proto /\ svc'.stored = t.stored
    BY <2>2, <2>4 DEF Service
  <2>6. svc'.quick # << >>
    BY <2>4, <2>5
  <2> QED  BY <1>0, <2>1, <2>3, <2>5, <2>6 DEF LatchHeld, ConfigKnown, Calm
<1>4. CASE OnRevoke
  <2> DEFINE s == [svc EXCEPT !.consent = FALSE, !.tun = "none"]
             t == UserStop(s)
  <2>0. svc' = StopSelf(t)
    BY <1>4 DEF OnRevoke
  <2>1. s \in Service /\ Same(svc, s) /\ s.proto = svc.proto /\ s.stored = svc.stored
    BY <1>0 DEF Service, Same, Keeps
  <2> HIDE DEF s
  <2>2. Good(s)
    BY <1>0, <2>1, GoodSame
  <2>3. t \in Service /\ ~t.latch /\ t.proto = svc.proto /\ t.stored = svc.stored
    BY <2>1, <2>2, UserStopLemma, UserStopClears DEF Good
  <2> HIDE DEF t
  <2>4. Calm(t, svc')
    BY <2>0, <2>3, CalmMethods DEF Status
  <2> QED  BY <2>3, <2>4, ClearStep DEF Calm
<1>5. CASE OnDestroy
  <2> DEFINE c == CancelAutoReconnect(svc)
             t == StopTunnel(c, FALSE, TRUE)
  <2>0. svc' = [t EXCEPT !.life = "down", !.queue = << >>, !.quick = << >>]
    BY <1>5 DEF OnDestroy
  <2>1. Good(c) /\ c.proto = svc.proto /\ c.stored = svc.stored
    BY <1>0, CancelLemma DEF CancelAutoReconnect, Service
  <2> HIDE DEF c
  <2>2. t \in Service /\ Calm(c, t)
    BY <2>1, StopTunnelLemma, CalmStop DEF Good
  <2> HIDE DEF t
  <2>3. svc'.life = "down" /\ svc'.proto = t.proto /\ svc'.stored = t.stored
    BY <2>0, <2>2 DEF Service
  <2> QED  BY <1>0, <2>1, <2>2, <2>3 DEF LatchHeld, ConfigKnown, Calm
<1> QED  BY <1>1, <1>2, <1>3, <1>4, <1>5 DEF MainStep

\* The watchdog, the rotation, the network callback and an expired quick reconnect.
LEMMA LatchLadder ==
  ASSUME LatchInv, Watchdog \/ RotateBegin \/ RotateEnd \/ NetworkBack \/ QuickTimeout
  PROVE  LatchHeld(svc', worker', due) /\ ConfigKnown(svc')
<1>0. /\ Good(svc) /\ svc \in Service /\ kill \in BOOLEAN /\ auto \in BOOLEAN
      /\ ProxyModes \subseteq BOOLEAN /\ RetryHasConfig(svc)
      /\ LatchHeld(svc, worker, due) /\ ConfigKnown(svc)
  BY InvUnfold DEF LatchInv, Good
<1>w. worker' = worker
  BY DEF Watchdog, RotateBegin, NetworkBack, QuickTimeout, RotateEnd
<1>1. CASE Watchdog
  BY <1>0, <1>1, <1>w, LostHeld DEF Watchdog
<1>2. CASE RotateBegin
  <2>1. Calm(svc, svc')
    BY <1>0, <1>2 DEF RotateBegin, SendStatus, Service, Calm
  <2> QED  BY <1>w, <2>1, CalmStep
<1>3. CASE RotateEnd
  <2> DEFINE s == [svc EXCEPT !.rotating = FALSE]
  <2>0. svc' \in {SendStatus(s, "connected"), OnTunnelLost(s), s}
    BY <1>3 DEF RotateEnd
  <2>1. s \in Service /\ Same(svc, s) /\ Calm(svc, s)
    <3>1. s \in Service
      BY <1>0 DEF Service
    <3>2. Same(svc, s)
      BY <1>0 DEF Service, Same, Keeps
    <3>3. Calm(svc, s)
      BY <1>0 DEF Service, Calm
    <3> QED  BY <3>1, <3>2, <3>3
  <2> HIDE DEF s
  <2>2. Good(s)
    BY <1>0, <2>1, GoodSame
  <2>3. LatchHeld(s, worker, due) /\ ConfigKnown(s)
    BY <1>0, <2>1, CalmHeld
  <2>4. Calm(svc, SendStatus(s, "connected"))
    BY <2>1, CalmMethods, CalmTrans DEF Status
  <2>5. LatchHeld(OnTunnelLost(s), worker, due) /\ ConfigKnown(OnTunnelLost(s))
    BY <1>0, <2>2, <2>3, LostHeld
  <2>6. LatchHeld(SendStatus(s, "connected"), worker, due) /\ ConfigKnown(SendStatus(s, "connected"))
    BY <1>0, <2>4, CalmHeld
  <2> QED  BY <1>w, <2>0, <2>3, <2>5, <2>6
<1>4. CASE NetworkBack
  <2>1. Calm(svc, svc')
    BY <1>0, <1>4 DEF NetworkBack, Service, Calm
  <2> QED  BY <1>w, <2>1, CalmStep
<1>5. CASE QuickTimeout
  <2>1. ~svc'.latch /\ svc'.proto = svc.proto /\ svc'.stored = svc.stored
    BY <1>0, <1>5 DEF QuickTimeout, SendStatus, Service
  <2> QED  BY <2>1, ClearStep
<1> QED  BY <1>1, <1>2, <1>3, <1>4, <1>5

\* startTunnel does not revive a service that has called stopSelf(), whether it
\* queues a session or fails.
LEMMA StartEnds ==
  ASSUME NEW s, Good(s), s.life # "up", NEW p \in Protocols, NEW px \in BOOLEAN,
         kill \in BOOLEAN, auto \in BOOLEAN
  PROVE  StartTunnel(s, p, px).life # "up"
<1> DEFINE t == [s EXCEPT !.connected = TRUE, !.gen = @ + 1, !.retry = "none", !.stored = p,
                          !.proto = p, !.stopReq = FALSE, !.proxy = px]
           u == [t EXCEPT !.connected = FALSE]
           q == [t EXCEPT !.queue = Append(t.queue, [gen |-> t.gen, proto |-> p])]
<1>1. StartTunnel(s, p, px) \in {s, q, FailAndStop(u)}
  BY DEF StartTunnel
<1>2. /\ s \in Service /\ s.gen \in Nat /\ s.gen + 1 \in Nat /\ p \in Protocols \cup {"none"}
      /\ s.queue \in Seq([gen : 0..s.gen, proto : Protocols])
  BY DEF Good, Service, QueueBound
<1>3. t \in Service
  BY <1>2 DEF Service
<1>4. /\ t.life = s.life /\ t.retry = "none" /\ t.gen = s.gen + 1 /\ t.queue = s.queue
  BY <1>2 DEF Service
<1> HIDE DEF t
<1>5. [gen : 0..s.gen, proto : Protocols] \subseteq [gen : 0..t.gen, proto : Protocols]
  BY <1>2, <1>4
<1>6. t.queue \in Seq([gen : 0..t.gen, proto : Protocols])
  BY <1>2, <1>4, <1>5, SeqMonotonic
<1>7. Good(t)
  BY <1>3, <1>4, <1>6 DEF Good, RetryHasConfig, QueueBound
<1>8. Good(u) /\ u.life # "up"
  BY <1>3, <1>4, <1>7, ClearConnectedLemma DEF Service
<1>9. q.life # "up"
  BY <1>3, <1>4 DEF Service
<1> HIDE DEF u, q
<1>10. FailAndStop(u).life # "up"
  BY <1>8, FailConsumes DEF Calm
<1> QED  BY <1>1, <1>9, <1>10

\* The tasks that decide on a start, and the start: the latch passes from what
\* was scheduled to the start that is due, and from there to the new session.
LEMMA LatchDue ==
  ASSUME LatchInv, RetryFires \/ QuickRestart \/ LadderStart
  PROVE  LatchHeld(svc', worker', due') /\ ConfigKnown(svc')
<1>0. /\ Good(svc) /\ svc \in Service /\ kill \in BOOLEAN /\ auto \in BOOLEAN
      /\ ProxyModes \subseteq BOOLEAN /\ RetryHasConfig(svc)
      /\ LatchHeld(svc, worker, due) /\ ConfigKnown(svc)
  BY InvUnfold DEF LatchInv, Good
<1>w. worker' = worker
  BY DEF RetryFires, QuickRestart, LadderStart
<1>1. CASE RetryFires
  <2>1. svc' = [svc EXCEPT !.retry = "none"] /\ svc.retry # "none" /\ due = "none"
    BY <1>1 DEF RetryFires, LadderFree
  <2>2. svc.userStop \/ svc.connected \/ due' = svc.stored
    BY <1>1 DEF RetryFires
  <2>3. /\ svc'.latch = svc.latch /\ svc'.life = svc.life /\ svc'.quick = svc.quick
        /\ svc'.gen = svc.gen /\ svc'.queue = svc.queue /\ svc'.connected = svc.connected
        /\ svc'.userStop = svc.userStop /\ svc'.proto = svc.proto /\ svc'.stored = svc.stored
    BY <1>0, <2>1 DEF Service
  <2>4. svc.stored # "none"
    BY <1>0, <2>1 DEF RetryHasConfig
  <2>5. Pending(svc, worker) => Pending(svc', worker')
    BY <1>w, <2>3 DEF Pending
  <2> QED  BY <1>0, <2>2, <2>3, <2>4, <2>5 DEF LatchHeld, ConfigKnown
<1>2. CASE QuickRestart
  <2>1. svc.quick \in Seq(Protocols) /\ svc.quick # << >> /\ ~svc.connected
    BY <1>0, <1>2 DEF QuickRestart, StillShuttingDown, Service
  <2>2. Head(svc.quick) \in Protocols
    BY <2>1
  <2>3. Head(svc.quick) # "none"
    BY <2>2, SessionAssumption DEF SessionAssumption
  <2>4. svc' = [svc EXCEPT !.quick = Tail(svc.quick), !.latch = svc.latch /\ ~svc.userStop]
    BY <1>2 DEF QuickRestart
  <2>5. svc.userStop \/ due' = Head(svc.quick)
    BY <1>2 DEF QuickRestart
  <2>6. /\ svc'.latch = (svc.latch /\ ~svc.userStop) /\ svc'.connected = svc.connected
        /\ svc'.proto = svc.proto /\ svc'.stored = svc.stored
    BY <1>0, <2>4 DEF Service
  <2> QED  BY <1>0, <2>1, <2>3, <2>5, <2>6 DEF LatchHeld, ConfigKnown
<1>3. CASE LadderStart
  <2>1. due \in Protocols /\ due' = "none"
    BY <1>3 DEF LadderStart, LatchInv, Inv, TypeOK
  <2>2. PICK px \in ProxyModes :
          LET s == StartTunnel(svc, due, px)
          IN  svc' = IF svc.life = "down" THEN [s EXCEPT !.queue = << >>] ELSE s
    BY <1>3 DEF LadderStart
  <2> DEFINE s == StartTunnel(svc, due, px)
  <2>3. px \in BOOLEAN
    BY <1>0
  <2>4. Good(s)
    BY <1>0, <2>1, <2>3, StartTunnelLemma
  <2>5. LatchHeld(s, worker, "none") /\ ConfigKnown(s)
    <3>1. CASE svc.connected
      <4>1. s = svc
        BY <3>1 DEF StartTunnel
      <4> HIDE DEF s
      <4> QED  BY <1>0, <3>1, <4>1 DEF LatchHeld
    <3>2. CASE ~svc.connected
      BY <1>0, <2>1, <2>3, <3>2, StartHeld
    <3> QED  BY <3>1, <3>2
  <2>6. svc.life # "up" => s.life # "up"
    BY <1>0, <2>1, <2>3, StartEnds
  <2>7. svc' = IF svc.life = "down" THEN [s EXCEPT !.queue = << >>] ELSE s
    BY <2>2
  <2> HIDE DEF s
  <2>8. CASE svc.life = "down"
    <3>1. svc'.life = s.life /\ svc'.proto = s.proto /\ svc'.stored = s.stored
      BY <2>4, <2>7, <2>8, ClearQueueLemma
    <3>2. svc'.life # "up"
      BY <2>6, <2>8, <3>1
    <3> QED  BY <2>5, <3>1, <3>2 DEF LatchHeld, ConfigKnown
  <2>9. CASE svc.life # "down"
    BY <1>w, <2>1, <2>5, <2>7, <2>9
  <2> QED  BY <2>8, <2>9
<1> QED  BY <1>1, <1>2, <1>3

\* The worker thread: only the end of the newest session consumes the latch, and
\* while an older one ends the newest waits in the queue.
LEMMA LatchWorker ==
  ASSUME LatchInv, WorkerStep \/ CoreReady \/ CoreConnecting \/ CoreExits
  PROVE  LatchHeld(svc', worker', due) /\ ConfigKnown(svc')
<1>0. /\ Good(svc) /\ svc \in Service /\ kill \in BOOLEAN /\ auto \in BOOLEAN
      /\ worker \in WorkerState /\ LatchHeld(svc, worker, due) /\ ConfigKnown(svc)
  BY InvUnfold DEF LatchInv, Good
<1>1. CASE TakeSession
  <2> DEFINE h == Head(svc.queue)
  <2>0. /\ svc' = [svc EXCEPT !.queue = Tail(svc.queue)] /\ svc.queue # << >>
        /\ worker' = [phase |-> "begin", of |-> h, proxy |-> FALSE, unexpected |-> FALSE,
                      armed |-> FALSE]
        /\ worker = NoSession
    BY <1>1 DEF TakeSession
  <2>1. worker' # NoSession /\ worker'.of = h
    BY <2>0 DEF NoSession
  <2>2. /\ svc'.queue = Tail(svc.queue) /\ svc'.gen = svc.gen /\ svc'.latch = svc.latch
        /\ svc'.life = svc.life /\ svc'.quick = svc.quick /\ svc'.connected = svc.connected
        /\ svc'.userStop = svc.userStop /\ svc'.retry = svc.retry
        /\ svc'.proto = svc.proto /\ svc'.stored = svc.stored
    BY <1>0, <2>0 DEF Service
  <2>3. Pending(svc, worker) => Pending(svc', worker')
    <3>1. SUFFICES ASSUME NEW i \in 1 .. Len(svc.queue), svc.queue[i].gen = svc.gen
                   PROVE  Pending(svc', worker')
      BY <2>0 DEF Pending
    <3>2. svc.queue \in Seq(Session)
      BY <1>0 DEF Service
    <3>3. CASE i = 1
      <4>1. h = svc.queue[1]
        BY <2>0, <3>2
      <4> QED  BY <2>1, <2>2, <3>1, <3>3, <4>1 DEF Pending
    <3>4. CASE i # 1
      <4>1. i - 1 \in 1 .. Len(Tail(svc.queue)) /\ Tail(svc.queue)[i - 1] = svc.queue[i]
        BY <2>0, <3>2, <3>4
      <4> QED  BY <2>2, <3>1, <4>1 DEF Pending
    <3> QED  BY <3>3, <3>4
  <2> QED  BY <1>0, <2>2, <2>3 DEF LatchHeld, ConfigKnown
<1>2. CASE NativePrepare \/ NativeStart \/ NativeSetupFails \/ WorkerClose \/ FrontEstablish
           \/ FrontRace \/ CoreExits
  <2>1. worker' # NoSession /\ worker'.of = worker.of
    <3>1. worker.phase # "idle"
      BY <1>2 DEF NativePrepare, NativeStart, NativeSetupFails, WorkerClose, FrontEstablish,
                  FrontRace, CoreExits
    <3>2. worker \in [phase : Phases, of : Session, proxy : BOOLEAN, unexpected : BOOLEAN,
                      armed : BOOLEAN]
      BY <1>0, <3>1 DEF WorkerState, NoSession
    <3>3. worker'.of = worker.of /\ worker'.phase # "idle"
      BY <1>2, <3>2 DEF NativePrepare, NativeStart, NativeSetupFails, WorkerClose,
                        FrontEstablish, FrontRace, CoreExits
    <3> QED  BY <3>3 DEF NoSession
  <2>2. Calm(svc, svc')
    <3>1. CASE NativePrepare \/ FrontRace
      BY <3>1, CalmSelf DEF NativePrepare, FrontRace
    <3>2. CASE NativeStart
      BY <1>0, <3>2 DEF NativeStart, SendStatus, Service, Calm
    <3>3. CASE NativeSetupFails
      BY <1>0, <3>3, CalmMethods DEF NativeSetupFails, Status
    <3>4. CASE WorkerClose
      BY <1>0, <3>4 DEF WorkerClose, Service, Calm
    <3>5. CASE FrontEstablish
      BY <1>0, <3>5 DEF FrontEstablish, SendStatus, Service, Calm
    <3>6. CASE CoreExits
      <4> DEFINE s == [svc EXCEPT !.core = "off"]
      <4>1. svc' \in {s, SendStatus(s, "connecting"), SendStatus(s, "disconnected"),
                      SendStatus(s, "failed")}
        BY <3>6 DEF CoreExits
      <4>2. s \in Service
        BY <1>0 DEF Service
      <4>3. Calm(svc, s)
        BY <1>0 DEF Service, Calm
      <4> HIDE DEF s
      <4>4. /\ Calm(s, SendStatus(s, "connecting")) /\ Calm(s, SendStatus(s, "disconnected"))
            /\ Calm(s, SendStatus(s, "failed"))
        BY <4>2, CalmMethods DEF Status
      <4> QED  BY <4>1, <4>3, <4>4, CalmTrans
    <3> QED  BY <1>2, <3>1, <3>2, <3>3, <3>4, <3>5, <3>6
  <2> QED  BY <2>1, <2>2, CalmStep
<1>3. CASE CoreReady
  <2> DEFINE s == SendStatus(svc, "connected")
  <2>1. s \in Service /\ ~s.latch /\ s.proto = svc.proto /\ s.stored = svc.stored
    BY <1>0, SendStatusLemma, CalmMethods DEF Status, Calm, Good
  <2>2. svc' = s \/ svc' = [s EXCEPT !.connected = TRUE]
    BY <1>3 DEF CoreReady
  <2> HIDE DEF s
  <2>3. ~svc'.latch /\ svc'.proto = svc.proto /\ svc'.stored = svc.stored
    BY <2>1, <2>2 DEF Service
  <2> QED  BY <2>3, ClearStep
<1>4. CASE CoreConnecting
  <2>1. Calm(svc, svc') /\ worker' = worker
    BY <1>0, <1>4, CalmMethods DEF CoreConnecting, Status
  <2> QED  BY <2>1, CalmStep
<1>5. CASE FrontConnects
  <2> DEFINE s == SendStatus(svc, "connected")
  <2>1. s \in Service /\ ~s.latch /\ s.proto = svc.proto /\ s.stored = svc.stored
    BY <1>0, SendStatusLemma, CalmMethods DEF Status, Calm, Good
  <2>2. svc' = [s EXCEPT !.watchdog = TRUE]
    BY <1>5 DEF FrontConnects
  <2> HIDE DEF s
  <2>3. ~svc'.latch /\ svc'.proto = svc.proto /\ svc'.stored = svc.stored
    BY <2>1, <2>2 DEF Service
  <2> QED  BY <2>3, ClearStep
<1>6. CASE FrontFails
  <2>1. ~svc'.latch /\ Calm(svc, svc')
    BY <1>0, <1>6, FailConsumes DEF FrontFails
  <2> QED  BY <2>1, ClearStep DEF Calm
<1>7. CASE WorkerFinally
  <2>0. worker.phase = "closed" /\ worker' = NoSession
    BY <1>7 DEF WorkerFinally
  <2>1. CASE worker.of.gen # svc.gen
    <3>1. svc' = svc
      BY <1>7, <2>1 DEF WorkerFinally
    <3>2. Pending(svc, worker) => Pending(svc, NoSession)
      BY <2>1 DEF Pending
    <3> QED  BY <1>0, <2>0, <3>1, <3>2 DEF LatchHeld
  <2>2. CASE worker.of.gen = svc.gen /\ svc.latch
    <3>1. svc' = [svc EXCEPT !.latch = FALSE]
      BY <1>7, <2>2 DEF WorkerFinally
    <3>2. ~svc'.latch /\ Calm(svc, svc')
      BY <1>0, <3>1, CalmMethods DEF Status
    <3> QED  BY <3>2, ClearStep DEF Calm
  <2>3. CASE worker.of.gen = svc.gen /\ ~svc.latch
    <3> DEFINE f == SendStatus(svc, "failed")
    <3>1. svc' \in {SealWithKillSwitch(f, worker.armed), ScheduleAutoReconnect(svc), StopSelf(svc)}
      BY <1>7, <2>3 DEF WorkerFinally
    <3>a. f \in Service
      BY <1>0, SendStatusLemma DEF Status, Good
    <3>b. Calm(svc, f)
      BY <1>0, CalmMethods DEF Status
    <3>c. worker.armed \in BOOLEAN
      BY <1>0, <2>0 DEF WorkerState, NoSession
    <3>2. f \in Service /\ Calm(svc, f) /\ worker.armed \in BOOLEAN
      BY <3>a, <3>b, <3>c
    <3> HIDE DEF f
    <3>3. Calm(svc, SealWithKillSwitch(f, worker.armed))
      BY <3>2, CalmMethods, CalmTrans DEF Status
    <3>4. Calm(svc, ScheduleAutoReconnect(svc)) /\ Calm(svc, StopSelf(svc))
      BY <1>0, CalmSchedule, CalmMethods DEF Status
    <3>5. Calm(svc, svc')
      BY <3>1, <3>3, <3>4
    <3>6. ~svc'.latch
      BY <2>3, <3>5 DEF Calm
    <3> QED  BY <3>5, <3>6, ClearStep DEF Calm
  <2> QED  BY <2>1, <2>2, <2>3
<1> QED  BY <1>1, <1>2, <1>3, <1>4, <1>5, <1>6, <1>7 DEF WorkerStep, CoreStops

\* The latch keeps a live service up only while something that will consume it is
\* under way: reconnectRequested is set on two threads and consumed on three, and
\* neither an older session's `finally` nor a failed start leaves it behind.
THEOREM LatchSafe == Spec => []LatchOwned
<1>1. Init => LatchInv
  <2>1. Init => LatchHeld(svc, worker, due) /\ ConfigKnown(svc)
    BY DEF Init, LatchHeld, ConfigKnown
  <2> QED  BY <2>1, InitInv DEF LatchInv
<1>2. LatchInv /\ [Next]_vars => LatchInv'
  <2>1. ASSUME LatchInv, Next PROVE LatchInv'
    <3>1. Inv'
      BY <2>1, StepInv DEF LatchInv
    <3>2. CASE RetryFires \/ QuickRestart \/ LadderStart
      BY <2>1, <3>1, <3>2, LatchDue DEF LatchInv
    <3>3. CASE ~RetryFires /\ ~QuickRestart /\ ~LadderStart
      <4>1. due' = due
        BY <2>1, <3>3, DueKept
      <4>2. LatchHeld(svc', worker', due) /\ ConfigKnown(svc')
        BY <2>1, <3>3, LatchMain, LatchLadder, LatchWorker DEF Next, LadderStep
      <4> QED  BY <3>1, <4>1, <4>2 DEF LatchInv
    <3> QED  BY <3>2, <3>3
  <2>2. ASSUME LatchInv, UNCHANGED vars PROVE LatchInv'
    <3>1. Inv'
      BY <2>2, StepInv DEF LatchInv
    <3> QED  BY <2>2, <3>1 DEF vars, LatchInv
  <2> QED  BY <2>1, <2>2
<1>3. LatchInv => LatchOwned
  <2>1. Pending(svc, worker) => ~Idle
    BY DEF Pending, Idle
  <2> QED  BY <2>1 DEF LatchInv, LatchHeld, LatchOwned
<1> QED  BY <1>1, <1>2, <1>3, PTL DEF Spec
-----------------------------------------------------------------------------
(* The seal and the status line of a service that runs only SHARD sessions *)
(* and is not asked for quick reconnects.                                  *)

AtRest(s, w) == w = NoSession /\ s.queue = << >>

Blocked(s) == s.sealed /\ kill /\ ~s.userStop => s.tun # "none"

Told(s, d) ==
    s.quick = << >> /\ s.retry = "none" /\ d = "none" /\ ~s.connected
      => s.ui \notin {"connecting", "connected"}

\* One session at a time, `connected` from the moment it is claimed until it has
\* failed or was lost; the watchdog and its rotation belong to a session whose
\* start is over.
OneSession(s, w) ==
    /\ w # NoSession => w.phase \in {"begin", "tun", "race"}
    /\ s.queue # << >> => w = NoSession /\ Len(s.queue) = 1
    /\ ~AtRest(s, w) => s.connected /\ ~s.rotating /\ ~s.watchdog
    /\ s.rotating \/ s.watchdog => s.connected

\* A live service has its consent, is not in proxy mode, and a user's stop is
\* seen only by a service that never started a session: the stop of a front
\* session ends in stopSelf().
Front(s) ==
    /\ ~s.latch /\ s.quick = << >> /\ ~s.proxy /\ s.consent
    /\ s.stored = s.proto
    /\ s.connected => s.proto = "front"
    /\ s.userStop => s.proto = "none"

\* A start that is due belongs to a service that has had a session.
Live(s, w, d) ==
    /\ Front(s) /\ OneSession(s, w)
    /\ AtRest(s, w) => Blocked(s) /\ Told(s, d)
    /\ d # "none" => s.proto # "none"

\* t is s after its session was lost or failed, with the service kept alive: the
\* session's fields are cleared, and either the blocking TUN is back or the
\* device is not sealed, and either a retry is scheduled or the failure was told.
Dropped(s, t) ==
    /\ t.connected = FALSE /\ t.proxy = FALSE /\ t.watchdog = FALSE
    /\ t.latch = s.latch /\ t.quick = s.quick /\ t.consent = s.consent /\ t.queue = s.queue
    /\ t.stored = s.stored /\ t.proto = s.proto /\ t.userStop = s.userStop
    /\ t.rotating = s.rotating
    /\ Blocked(t)
    /\ t.retry # "none" \/ t.ui = "failed"

\* After such a drop a service with nothing queued is live and at rest.
LEMMA DroppedLive ==
  ASSUME NEW s, NEW t, NEW d, Front(s), Dropped(s, t), ~s.rotating, s.queue = << >>,
         d # "none" => s.proto # "none"
  PROVE  Live(t, NoSession, d)
<1>1. Front(t)
  BY DEF Front, Dropped
<1>2. OneSession(t, NoSession)
  BY DEF Dropped, OneSession, AtRest
<1>3. Blocked(t) /\ Told(t, d) /\ t.proto = s.proto
  BY DEF Dropped, Told
<1> QED  BY <1>1, <1>2, <1>3 DEF Live

\* stopTunnel of a front session clears it inline; with teardownService the
\* service ends.
LEMMA StopFront ==
  ASSUME NEW s, Good(s), s.proto = "front", NEW notify \in BOOLEAN
  PROVE  /\ StopTunnel(s, notify, TRUE).life # "up"
         /\ LET t == StopTunnel(s, FALSE, FALSE)
            IN  /\ Good(t)
                /\ t.connected = FALSE /\ t.proxy = FALSE /\ t.watchdog = FALSE
                /\ t.latch = s.latch /\ t.quick = s.quick /\ t.consent = s.consent
                /\ t.queue = s.queue /\ t.stored = s.stored /\ t.proto = s.proto
                /\ t.userStop = s.userStop /\ t.rotating = s.rotating /\ t.sealed = s.sealed
                /\ t.retry = s.retry /\ t.life = s.life /\ t.ui = s.ui
<1> DEFINE d == StopDataPath(s)
           i == [d EXCEPT !.proxy = FALSE, !.tun = "none", !.connected = FALSE]
           told == IF notify THEN SendStatus(i, "disconnected") ELSE i
<1>1. /\ StopTunnel(s, notify, TRUE) = StopSelf(told)
      /\ StopTunnel(s, FALSE, FALSE) = i
  BY DEF StopTunnel
<1>2. Good(d) /\ d \in Service /\ s \in Service
  BY StopDataPathLemma DEF Good
<1>3. /\ d.watchdog = FALSE /\ d.latch = s.latch /\ d.quick = s.quick /\ d.consent = s.consent
      /\ d.queue = s.queue /\ d.stored = s.stored /\ d.proto = s.proto
      /\ d.userStop = s.userStop /\ d.rotating = s.rotating /\ d.sealed = s.sealed
      /\ d.retry = s.retry /\ d.life = s.life /\ d.ui = s.ui
  BY <1>2 DEF Service, StopDataPath
<1> HIDE DEF d
<1>4. Good(i)
  BY <1>2, InlineLemma
<1>5. /\ i.connected = FALSE /\ i.proxy = FALSE /\ i.watchdog = FALSE
      /\ i.latch = s.latch /\ i.quick = s.quick /\ i.consent = s.consent
      /\ i.queue = s.queue /\ i.stored = s.stored /\ i.proto = s.proto
      /\ i.userStop = s.userStop /\ i.rotating = s.rotating /\ i.sealed = s.sealed
      /\ i.retry = s.retry /\ i.life = s.life /\ i.ui = s.ui
  BY <1>2, <1>3 DEF Service
<1> HIDE DEF i
<1>6. told \in Service
  BY <1>4, SendStatusLemma DEF Good, Status
<1> HIDE DEF told
<1>7. StopSelf(told).life # "up"
  BY <1>6 DEF Service, StopSelf
<1> QED  BY <1>1, <1>4, <1>5, <1>7

\* rebuildKillSwitchVpn and scheduleAutoReconnect after the teardown of a front
\* session with consent: the blocking TUN is up, the retry pending.
LEMMA Resealed ==
  ASSUME NEW s, NEW t \in Service, t.consent, t.userStop = s.userStop,
         t.connected = FALSE, t.proxy = FALSE, t.watchdog = FALSE,
         t.latch = s.latch, t.quick = s.quick, t.consent = s.consent, t.queue = s.queue,
         t.stored = s.stored, t.proto = s.proto, t.rotating = s.rotating,
         t.stored # "none"
  PROVE  LET r == RebuildKillSwitchVpn(t)
         IN  /\ Dropped(s, SendStatus(r, "failed"))
             /\ ~t.userStop /\ t.life # "down" => Dropped(s, ScheduleAutoReconnect(r))
<1> DEFINE r == RebuildKillSwitchVpn(t)
<1>1. r \in Service
  BY DEF RebuildKillSwitchVpn, Service
<1>2. /\ r.tun = "block" /\ r.connected = FALSE /\ r.proxy = FALSE /\ r.watchdog = FALSE
      /\ r.latch = s.latch /\ r.quick = s.quick /\ r.consent = s.consent /\ r.queue = s.queue
      /\ r.stored = s.stored /\ r.proto = s.proto /\ r.rotating = s.rotating
      /\ r.userStop = s.userStop /\ r.life = t.life
  BY DEF RebuildKillSwitchVpn, Service
<1> HIDE DEF r
<1>3. Dropped(s, SendStatus(r, "failed"))
  BY <1>1, <1>2 DEF Dropped, Blocked, SendStatus, Service
<1>4. ASSUME ~t.userStop, t.life # "down" PROVE Dropped(s, ScheduleAutoReconnect(r))
  <2>1. ScheduleAutoReconnect(r) = [[r EXCEPT !.ui = "connecting"] EXCEPT !.retry = "backoff"]
    BY <1>2, <1>4 DEF ScheduleAutoReconnect, SendStatus
  <2> QED  BY <1>1, <1>2, <2>1 DEF Dropped, Blocked, Service
<1> QED  BY <1>3, <1>4 DEF r

\* What follows a teardown that called stopSelf() does not revive the service.
LEMMA StaysStopped ==
  ASSUME NEW s, Good(s), s.life # "up", NEW status \in Status, NEW armed \in BOOLEAN
  PROVE  /\ [s EXCEPT !.latch = FALSE].life # "up"
         /\ SendStatus(s, status).life # "up" /\ StopSelf(s).life # "up"
         /\ RebuildKillSwitchVpn(s).life # "up"
         /\ ScheduleAutoReconnect(s).life # "up" /\ SealWithKillSwitch(s, armed).life # "up"
<1>1. s \in Service
  BY DEF Good
<1>2. [s EXCEPT !.latch = FALSE].life # "up"
  BY <1>1 DEF Service
<1>3. SendStatus(s, status).life # "up"
  BY <1>1 DEF Service, SendStatus
<1>4. StopSelf(s).life # "up"
  BY <1>1 DEF Service, StopSelf
<1>5. RebuildKillSwitchVpn(s).life # "up"
  BY <1>1 DEF Service, RebuildKillSwitchVpn
<1>6. ScheduleAutoReconnect(s).life # "up"
  BY <1>1 DEF Service, ScheduleAutoReconnect, SendStatus
<1>7. SealWithKillSwitch(s, armed).life # "up"
  BY <1>1 DEF Service, SealWithKillSwitch, RebuildKillSwitchVpn
<1> QED  BY <1>2, <1>3, <1>4, <1>5, <1>6, <1>7

\* failAndStop of a front session either ends the service or puts the blocking
\* TUN back and retries or tells.
LEMMA FailFront ==
  ASSUME NEW s, Good(s), kill \in BOOLEAN, auto \in BOOLEAN, s.proto = "front",
         s.stored # "none", ~s.latch, s.consent
  PROVE  FailAndStop(s).life = "up" => ~s.proxy /\ Dropped(s, FailAndStop(s))
<1> DEFINE keepSeal == s.sealed /\ ~s.userStop /\ KillSwitchArmed(s)
           reported == IF keepSeal /\ WillAutoReconnect(s) THEN s ELSE SendStatus(s, "failed")
           u == [reported EXCEPT !.connected = FALSE]
           t == StopTunnel(u, FALSE, ~keepSeal)
           resealed == RebuildKillSwitchVpn(t)
<1>1. /\ FailAndStop(s) \in {[t EXCEPT !.latch = FALSE], ScheduleAutoReconnect(t), StopSelf(t),
                              ScheduleAutoReconnect(resealed), SendStatus(resealed, "failed")}
      /\ keepSeal /\ ~t.latch => 
           FailAndStop(s) = IF WillAutoReconnect(t) THEN ScheduleAutoReconnect(resealed)
                            ELSE SendStatus(resealed, "failed")
  BY DEF FailAndStop
<1>2. keepSeal \in BOOLEAN /\ (keepSeal => ~s.proxy /\ ~s.userStop)
  BY DEF KillSwitchArmed
<1> HIDE DEF keepSeal
<1>3. /\ Good(reported) /\ reported.proto = s.proto /\ reported.latch = s.latch
      /\ reported.quick = s.quick /\ reported.consent = s.consent /\ reported.queue = s.queue
      /\ reported.stored = s.stored /\ reported.userStop = s.userStop
      /\ reported.rotating = s.rotating
  <2>1. CASE reported = s
    BY <2>1
  <2>2. CASE reported = SendStatus(s, "failed")
    <3>1. Good(SendStatus(s, "failed")) /\ s \in Service
      BY SendStatusLemma DEF Status, Good
    <3> QED  BY <2>2, <3>1 DEF SendStatus, Service
  <2> QED  BY <2>1, <2>2
<1> HIDE DEF reported
<1>4. /\ Good(u) /\ u.proto = s.proto /\ u.latch = s.latch
      /\ u.quick = s.quick /\ u.consent = s.consent /\ u.queue = s.queue
      /\ u.stored = s.stored /\ u.userStop = s.userStop /\ u.rotating = s.rotating
  <2>1. Good(u) /\ reported \in Service
    BY <1>3, ClearConnectedLemma DEF Good
  <2> QED  BY <1>3, <2>1 DEF Service
<1> HIDE DEF u
<1>5. CASE ~keepSeal
  <2>1. Good(t) /\ t.life # "up"
    <3>1. t = StopTunnel(u, FALSE, TRUE)
      BY <1>5
    <3> HIDE DEF t
    <3>a. Good(u) /\ u.proto = "front" /\ FALSE \in BOOLEAN
      BY <1>4
    <3>b. StopTunnel(u, FALSE, TRUE).life # "up"
      BY <3>a, StopFront
    <3>2. t.life # "up"
      BY <3>1, <3>b
    <3>3. Good(t)
      BY <1>4, <3>1, StopTunnelLemma
    <3> QED  BY <3>2, <3>3
  <2> HIDE DEF t
  <2>2. Good(resealed) /\ resealed.life # "up"
    BY <2>1, RebuildLemma, StaysStopped DEF Status
  <2> HIDE DEF resealed
  <2> QED  BY <1>1, <2>1, <2>2, StaysStopped DEF Status
<1>6. CASE keepSeal
  <2>1. t = StopTunnel(u, FALSE, FALSE)
    BY <1>6
  <2> HIDE DEF t
  <2>2. /\ Good(t) /\ t.connected = FALSE /\ t.proxy = FALSE /\ t.watchdog = FALSE
        /\ t.latch = s.latch /\ t.quick = s.quick /\ t.consent = s.consent
        /\ t.queue = s.queue /\ t.stored = s.stored /\ t.proto = s.proto
        /\ t.userStop = s.userStop /\ t.rotating = s.rotating
    BY <1>4, <2>1, StopFront
  <2>3. t \in Service
    BY <2>2 DEF Good
  <2>4. CASE t.life = "up"
    <3>1. /\ Dropped(s, SendStatus(resealed, "failed"))
          /\ Dropped(s, ScheduleAutoReconnect(resealed))
      BY <1>2, <1>6, <2>2, <2>3, <2>4, Resealed
    <3> QED  BY <1>1, <1>2, <1>6, <2>2, <3>1
  <2>5. CASE t.life # "up"
    <3>1. Good(resealed) /\ resealed.life # "up"
      BY <2>2, <2>5, RebuildLemma, StaysStopped DEF Status
    <3> HIDE DEF resealed
    <3> QED  BY <1>1, <2>2, <2>5, <3>1, StaysStopped DEF Status
  <2> QED  BY <2>4, <2>5
<1> QED  BY <1>5, <1>6

\* The callback that onTunnelLost leaves behind is no part of the drop.
LEMMA CalledBack ==
  ASSUME NEW s, NEW c \in Service, Dropped(s, c)
  PROVE  Dropped(s, [c EXCEPT !.callback = TRUE])
<1> DEFINE d == [c EXCEPT !.callback = TRUE]
<1>1. /\ d.connected = c.connected /\ d.proxy = c.proxy /\ d.watchdog = c.watchdog
      /\ d.latch = c.latch /\ d.quick = c.quick /\ d.consent = c.consent
      /\ d.queue = c.queue /\ d.stored = c.stored /\ d.proto = c.proto
      /\ d.userStop = c.userStop /\ d.rotating = c.rotating
      /\ d.sealed = c.sealed /\ d.tun = c.tun /\ d.retry = c.retry /\ d.ui = c.ui
  BY DEF Service
<1> HIDE DEF d
<1>2. Dropped(s, d)
  BY <1>1 DEF Dropped, Blocked
<1> QED  BY <1>2 DEF d

\* onTunnelLost of a front session either ends the service or puts the blocking
\* TUN up where the switch is on, and retries.
LEMMA LostFront ==
  ASSUME NEW s, Good(s), kill \in BOOLEAN, auto \in BOOLEAN, s.proto = "front",
         s.stored # "none", ~s.latch, s.consent, ~s.proxy, ~s.userStop
  PROVE  OnTunnelLost(s).life = "up" => Dropped(s, OnTunnelLost(s))
<1> DEFINE armed == KillSwitchArmed(s)
           f == SendStatus(s, "failed")
           g == [f EXCEPT !.connected = FALSE]
           given == StopTunnel(g, FALSE, TRUE)
           u == [s EXCEPT !.connected = FALSE]
           kept == StopTunnel(u, FALSE, FALSE)
<1>0. s \in Service
  BY DEF Good
<1>1. /\ auto => OnTunnelLost(s) =
                  [ScheduleAutoReconnect(SealWithKillSwitch(kept, armed)) EXCEPT !.callback = TRUE]
      /\ ~auto => OnTunnelLost(s) \in {SendStatus(SealWithKillSwitch(given, armed), "failed"),
                                       StopSelf(given)}
  BY DEF OnTunnelLost
<1>2. armed = kill
  BY DEF KillSwitchArmed
<1> HIDE DEF armed
<1>3. CASE ~auto
  <2>1. Good(f) /\ f.proto = "front"
    BY <1>0, SendStatusLemma DEF Status, SendStatus, Service
  <2> HIDE DEF f
  <2>2. Good(g) /\ g.proto = "front"
    BY <2>1, ClearConnectedLemma DEF Good, Service
  <2> HIDE DEF g
  <2>3. Good(given) /\ given.life # "up"
    BY <2>2, StopFront, StopTunnelLemma
  <2> HIDE DEF given
  <2>4. Good(SealWithKillSwitch(given, armed)) /\ SealWithKillSwitch(given, armed).life # "up"
    BY <1>2, <2>3, SealLemma, StaysStopped DEF Status
  <2> QED  BY <1>1, <1>3, <2>3, <2>4, StaysStopped DEF Status
<1>4. CASE auto
  <2>1. /\ Good(u) /\ u.proto = s.proto /\ u.latch = s.latch
        /\ u.quick = s.quick /\ u.consent = s.consent /\ u.queue = s.queue
        /\ u.stored = s.stored /\ u.userStop = s.userStop /\ u.rotating = s.rotating
        /\ u.life = s.life
    BY <1>0, ClearConnectedLemma DEF Service
  <2> HIDE DEF u
  <2>2. /\ Good(kept) /\ kept.connected = FALSE /\ kept.proxy = FALSE /\ kept.watchdog = FALSE
        /\ kept.latch = s.latch /\ kept.quick = s.quick /\ kept.consent = s.consent
        /\ kept.queue = s.queue /\ kept.stored = s.stored /\ kept.proto = s.proto
        /\ kept.userStop = s.userStop /\ kept.rotating = s.rotating /\ kept.life = s.life
    <3>1. Good(u) /\ u.proto = "front" /\ FALSE \in BOOLEAN
      BY <2>1
    <3>2. /\ Good(kept) /\ kept.connected = FALSE /\ kept.proxy = FALSE /\ kept.watchdog = FALSE
          /\ kept.latch = u.latch /\ kept.quick = u.quick /\ kept.consent = u.consent
          /\ kept.queue = u.queue /\ kept.stored = u.stored /\ kept.proto = u.proto
          /\ kept.userStop = u.userStop /\ kept.rotating = u.rotating /\ kept.life = u.life
      BY ONLY <3>1, StopFront
    <3> HIDE DEF kept
    <3> QED  BY ONLY <2>1, <3>2
  <2> HIDE DEF kept
  <2> DEFINE q == [kept EXCEPT !.sealed = TRUE]
             r == SealWithKillSwitch(kept, armed)
             c == ScheduleAutoReconnect(r)
  <2>3. c \in Service
    BY <1>2, <2>2, SealLemma, ScheduleLemma DEF Good
  <2>4. OnTunnelLost(s) = [c EXCEPT !.callback = TRUE]
    BY <1>1, <1>4
  <2>5. ASSUME Dropped(s, c) PROVE Dropped(s, OnTunnelLost(s))
    <3> HIDE DEF c
    <3> QED  BY ONLY <2>3, <2>4, <2>5, CalledBack
  <2>6. OnTunnelLost(s).life = c.life
    <3> HIDE DEF c
    <3> QED  BY <2>3, <2>4 DEF Service
  <2>7. CASE s.life = "up" /\ kill
    <3>1. r = RebuildKillSwitchVpn(q)
      BY <1>2, <2>7 DEF SealWithKillSwitch
    <3>2. q \in Service
      BY <2>2 DEF Good, Service
    <3>3. /\ q.connected = FALSE /\ q.proxy = FALSE /\ q.watchdog = FALSE
          /\ q.latch = s.latch /\ q.quick = s.quick /\ q.consent = s.consent
          /\ q.queue = s.queue /\ q.stored = s.stored /\ q.proto = s.proto
          /\ q.userStop = s.userStop /\ q.rotating = s.rotating /\ q.life = s.life
      BY <2>2 DEF Good, Service
    <3> HIDE DEF q, r
    <3>4. Dropped(s, ScheduleAutoReconnect(RebuildKillSwitchVpn(q)))
      BY <2>7, <3>2, <3>3, Resealed
    <3> QED  BY <2>5, <3>1, <3>4
  <2>8. CASE s.life = "up" /\ ~kill
    <3>1. r = kept
      BY <1>2, <2>8 DEF SealWithKillSwitch
    <3> HIDE DEF r
    <3>2. c = [[kept EXCEPT !.ui = "connecting"] EXCEPT !.retry = "backoff"]
      BY <2>2, <2>8, <3>1 DEF ScheduleAutoReconnect, SendStatus
    <3> HIDE DEF c
    <3>3. kept \in Service
      BY <2>2 DEF Good
    <3>4. /\ c.connected = FALSE /\ c.proxy = FALSE /\ c.watchdog = FALSE
          /\ c.latch = s.latch /\ c.quick = s.quick /\ c.consent = s.consent
          /\ c.queue = s.queue /\ c.stored = s.stored /\ c.proto = s.proto
          /\ c.userStop = s.userStop /\ c.rotating = s.rotating /\ c.retry = "backoff"
      BY <2>2, <3>2, <3>3 DEF Service
    <3>5. Dropped(s, c)
      BY <2>8, <3>4 DEF Dropped, Blocked
    <3> QED  BY <2>5, <3>5
  <2>9. CASE s.life # "up"
    <3>1. Good(r) /\ r.life # "up"
      BY <1>2, <2>2, <2>9, SealLemma, StaysStopped DEF Status
    <3> HIDE DEF r
    <3>2. c.life # "up"
      BY <3>1, StaysStopped DEF Status
    <3> QED  BY <2>6, <3>2
  <2> QED  BY <2>7, <2>8, <2>9
<1> QED  BY <1>3, <1>4

\* What startTunnel writes when it claims the service, seen as a value.
LEMMA ClaimLemma ==
  ASSUME NEW s, Good(s), s.queue = << >>, NEW p \in Protocols, NEW px \in BOOLEAN
  PROVE  Good([s EXCEPT !.connected = TRUE, !.gen = @ + 1, !.retry = "none", !.stored = p,
                        !.proto = p, !.stopReq = FALSE, !.proxy = px])
<1> DEFINE t == [s EXCEPT !.connected = TRUE, !.gen = @ + 1, !.retry = "none", !.stored = p,
                          !.proto = p, !.stopReq = FALSE, !.proxy = px]
<1>1. s \in Service /\ s.gen \in Nat /\ s.gen + 1 \in Nat /\ p \in Protocols \cup {"none"}
  BY DEF Good, Service
<1>2. t \in Service
  BY <1>1 DEF Service
<1>3. t.retry = "none" /\ t.queue = << >> /\ << >> \in Seq([gen : 0..t.gen, proto : Protocols])
  BY <1>1 DEF Service
<1> HIDE DEF t
<1>4. Good(t)
  BY <1>2, <1>3 DEF Good, RetryHasConfig, QueueBound
<1> QED  BY <1>4 DEF t

\* startTunnel on a live service without a session queues exactly one, or, in
\* proxy mode, ends the service.
LEMMA StartLive ==
  ASSUME NEW s, NEW w, NEW d, Good(s), Front(s), OneSession(s, w), ~s.connected, ~s.userStop,
         NEW p \in Protocols, Protocols = {"front"}, NEW px \in BOOLEAN,
         kill \in BOOLEAN, auto \in BOOLEAN
  PROVE  StartTunnel(s, p, px).life = "up" => Live(StartTunnel(s, p, px), w, d)
<1> DEFINE t == [s EXCEPT !.connected = TRUE, !.gen = @ + 1, !.retry = "none", !.stored = p,
                          !.proto = p, !.stopReq = FALSE, !.proxy = px]
           u == [t EXCEPT !.connected = FALSE]
           q == [t EXCEPT !.queue = Append(t.queue, [gen |-> t.gen, proto |-> p])]
<1>0. s \in Service /\ p = "front" /\ w = NoSession /\ s.queue = << >>
  BY DEF Good, OneSession, AtRest
<1>1. StartTunnel(s, p, px) = IF px THEN FailAndStop(u) ELSE q
  BY <1>0 DEF StartTunnel
<1>2. Good(t) /\ Good(u)
  BY <1>0, ClaimLemma, ClearConnectedLemma
<1>3. /\ t.connected = TRUE /\ t.stored = "front" /\ t.proto = "front" /\ t.proxy = px
      /\ t.latch = s.latch /\ t.quick = s.quick /\ t.consent = s.consent /\ t.queue = << >>
      /\ t.userStop = s.userStop /\ t.rotating = s.rotating /\ t.watchdog = s.watchdog
  BY <1>0 DEF Service
<1> HIDE DEF t
<1>4. CASE px
  <2>1. /\ u.stored = "front" /\ u.proto = "front" /\ u.proxy = px
        /\ u.latch = s.latch /\ u.consent = s.consent
    BY <1>2, <1>3 DEF Good, Service
  <2> HIDE DEF u
  <2>2. ~u.latch /\ u.consent
    BY <2>1 DEF Front
  <2>3. FailAndStop(u).life # "up"
    BY <1>2, <1>4, <2>1, <2>2, FailFront
  <2> QED  BY <1>1, <1>4, <2>3
<1>5. CASE ~px
  <2> DEFINE n == [gen |-> t.gen, proto |-> p]
  <2>1. /\ q.connected = TRUE /\ q.stored = "front" /\ q.proto = "front" /\ q.proxy = px
        /\ q.latch = s.latch /\ q.quick = s.quick /\ q.consent = s.consent
        /\ q.queue = Append(<< >>, n)
        /\ q.userStop = s.userStop /\ q.rotating = s.rotating /\ q.watchdog = s.watchdog
    BY <1>2, <1>3 DEF Good, Service
  <2>2. Append(<< >>, n) # << >> /\ Len(Append(<< >>, n)) = 1
    OBVIOUS
  <2> HIDE DEF q, n
  <2>3. Front(q)
    BY <1>5, <2>1 DEF Front
  <2>4. OneSession(q, w) /\ ~AtRest(q, w)
    BY <1>0, <2>1, <2>2 DEF OneSession, AtRest
  <2>5. q.proto # "none"
    BY <2>1
  <2> QED  BY <1>1, <1>5, <2>3, <2>4, <2>5 DEF Live
<1> QED  BY <1>4, <1>5

\* The scope of the run session_front_seal: SHARD sessions, and no quick
\* reconnect (whose teardown drops the interface without asking the switch).
FrontScope == Protocols = {"front"} /\ MaxQuick = 0

FrontInv == Inv /\ (svc.life = "up" => Live(svc, worker, due))

\* The fields of which Front and OneSession speak are the same.
Alike(s, t) ==
    /\ t.latch = s.latch /\ t.quick = s.quick /\ t.proxy = s.proxy /\ t.consent = s.consent
    /\ t.stored = s.stored /\ t.proto = s.proto /\ t.userStop = s.userStop
    /\ t.connected = s.connected /\ t.queue = s.queue

\* A step that leaves those fields alone only has to answer for the interface
\* and the status line.
LEMMA AlikeLive ==
  ASSUME NEW s, NEW t, NEW w, NEW d, Live(s, w, d), Alike(s, t),
         t.rotating => s.rotating \/ s.watchdog, t.watchdog => s.watchdog,
         AtRest(t, w) => Blocked(t) /\ Told(t, d)
  PROVE  Live(t, w, d)
<1>1. Front(t)
  BY DEF Live, Front, Alike
<1>2. OneSession(t, w)
  BY DEF Live, OneSession, AtRest, Alike
<1>3. d # "none" => t.proto # "none"
  BY DEF Live, Alike
<1> QED  BY <1>1, <1>2, <1>3 DEF Live

\* Connect and the system's own start.
LEMMA ConnectLive ==
  ASSUME FrontScope, Inv, svc.life = "up", Live(svc, worker, due), Connect \/ AlwaysOn,
         svc'.life = "up"
  PROVE  Live(svc', worker', due)
<1> DEFINE s == [svc EXCEPT !.userStop = FALSE, !.sealed = FALSE]
<1>0. /\ Good(svc) /\ svc \in Service /\ kill \in BOOLEAN /\ auto \in BOOLEAN
      /\ ProxyModes \subseteq BOOLEAN
  BY InvUnfold DEF Good
<1>1. PICK p \in Protocols, px \in ProxyModes : svc' = StartTunnel(s, p, px)
  BY DEF Connect, AlwaysOn
<1>2. worker' = worker /\ px \in BOOLEAN
  BY <1>0 DEF Connect, AlwaysOn
<1>3. s \in Service
  BY <1>0 DEF Service
<1>4. /\ s.latch = svc.latch /\ s.quick = svc.quick /\ s.proxy = svc.proxy
      /\ s.consent = svc.consent /\ s.stored = svc.stored /\ s.proto = svc.proto
      /\ s.connected = svc.connected /\ s.queue = svc.queue /\ s.gen = svc.gen
      /\ s.rotating = svc.rotating /\ s.watchdog = svc.watchdog /\ s.retry = svc.retry
      /\ s.userStop = FALSE /\ s.sealed = FALSE
  BY <1>0 DEF Service
<1> HIDE DEF s
<1>5. Good(s)
  BY <1>0, <1>3, <1>4 DEF Good, RetryHasConfig, QueueBound
<1>6. Front(s) /\ OneSession(s, worker)
  BY <1>4 DEF Live, Front, OneSession, AtRest
<1>7. CASE s.connected
  <2>1. svc' = s
    BY <1>1, <1>7 DEF StartTunnel
  <2>2. Blocked(s) /\ Told(s, due)
    BY <1>4, <1>7 DEF Blocked, Told
  <2> QED  BY <1>2, <1>4, <1>6, <2>1, <2>2 DEF Live
<1>8. CASE ~s.connected
  <2>1. ~s.userStop /\ Protocols = {"front"}
    BY <1>4 DEF FrontScope
  <2>2. StartTunnel(s, p, px).life = "up" => Live(StartTunnel(s, p, px), worker, due)
    BY <1>0, <1>2, <1>5, <1>6, <1>8, <2>1, StartLive
  <2> QED  BY <1>1, <1>2, <2>2
<1> QED  BY <1>7, <1>8

\* Disconnect ends a service that has started a session; one that has not only
\* says that it is disconnected.
LEMMA DisconnectLive ==
  ASSUME Protocols = {"front"}, Inv, svc.life = "up", Live(svc, worker, due), Disconnect, svc'.life = "up"
  PROVE  Live(svc', worker', due)
<1> DEFINE a == [svc EXCEPT !.userStop = TRUE, !.latch = FALSE, !.sealed = FALSE]
           c == CancelAutoReconnect(a)
           d == StopDataPath(c)
<1>0. Good(svc) /\ svc \in Service
  BY InvUnfold DEF Good
<1>1. svc' = StopTunnel(c, TRUE, TRUE) /\ worker' = worker
  BY DEF Disconnect, UserStop
<1>2. a \in Service
  BY <1>0 DEF Service
<1>3. /\ a.latch = FALSE /\ a.quick = svc.quick /\ a.proxy = svc.proxy
      /\ a.consent = svc.consent /\ a.stored = svc.stored /\ a.proto = svc.proto
      /\ a.connected = svc.connected /\ a.queue = svc.queue /\ a.gen = svc.gen
      /\ a.rotating = svc.rotating /\ a.retry = svc.retry
      /\ a.userStop = TRUE /\ a.sealed = FALSE
  BY <1>0 DEF Service
<1> HIDE DEF a
<1>4. Good(a)
  BY <1>0, <1>2, <1>3 DEF Good, RetryHasConfig, QueueBound
<1>5. Good(c)
  BY <1>4, CancelLemma
<1>6. /\ c.latch = FALSE /\ c.quick = svc.quick /\ c.proxy = svc.proxy
      /\ c.consent = svc.consent /\ c.stored = svc.stored /\ c.proto = svc.proto
      /\ c.connected = svc.connected /\ c.queue = svc.queue
      /\ c.rotating = svc.rotating /\ c.watchdog = FALSE
      /\ c.userStop = TRUE /\ c.sealed = FALSE
  BY <1>2, <1>3 DEF CancelAutoReconnect, Service
<1> HIDE DEF c
<1>7. svc.proto \in {"none", "front"}
  BY <1>0 DEF Service
<1>8. CASE svc.proto = "front"
  <2>1. c.proto = "front" /\ TRUE \in BOOLEAN
    BY <1>6, <1>8
  <2>2. StopTunnel(c, TRUE, TRUE).life # "up"
    BY <1>5, <2>1, StopFront
  <2> QED  BY <1>1, <2>2
<1>9. CASE svc.proto = "none"
  <2>1. ~svc.proxy /\ ~svc.connected /\ AtRest(svc, worker) /\ ~svc.rotating
    BY <1>9 DEF Live, Front, OneSession
  <2>2. svc' = SendStatus(d, "disconnected")
    BY <1>1, <1>6, <1>9, <2>1 DEF StopTunnel
  <2>3. d \in Service /\ c \in Service
    BY <1>5, StopDataPathLemma DEF Good
  <2>4. /\ d.latch = FALSE /\ d.quick = svc.quick /\ d.proxy = svc.proxy
        /\ d.consent = svc.consent /\ d.stored = svc.stored /\ d.proto = svc.proto
        /\ d.connected = svc.connected /\ d.queue = svc.queue
        /\ d.rotating = svc.rotating /\ d.watchdog = FALSE
        /\ d.userStop = TRUE /\ d.sealed = FALSE
    BY <1>6, <2>3 DEF StopDataPath, Service
  <2> HIDE DEF d
  <2>5. /\ svc'.latch = FALSE /\ svc'.quick = svc.quick /\ svc'.proxy = svc.proxy
        /\ svc'.consent = svc.consent /\ svc'.stored = svc.stored /\ svc'.proto = svc.proto
        /\ svc'.connected = svc.connected /\ svc'.queue = svc.queue
        /\ svc'.rotating = svc.rotating /\ svc'.watchdog = FALSE
        /\ svc'.sealed = FALSE /\ svc'.ui = "disconnected"
    BY <2>2, <2>3, <2>4 DEF SendStatus, Service
  <2>6. Front(svc') /\ OneSession(svc', worker)
    BY <1>9, <2>1, <2>5 DEF Live, Front, OneSession, AtRest
  <2>7. Blocked(svc') /\ Told(svc', due)
    BY <2>5 DEF Blocked, Told
  <2> QED  BY <1>1, <2>5, <2>6, <2>7 DEF Live
<1> QED  BY <1>7, <1>8, <1>9

\* The main thread.
LEMMA FrontMainStep ==
  ASSUME FrontScope, Inv, svc.life = "up", Live(svc, worker, due), MainStep \/ OnDestroy,
         svc'.life = "up"
  PROVE  Live(svc', worker', due)
<1>0. Good(svc) /\ svc \in Service
  BY InvUnfold DEF Good
<1>1. CASE Connect \/ AlwaysOn
  BY <1>1, ConnectLive
<1>2. CASE Disconnect
  BY <1>2, DisconnectLive DEF FrontScope
<1>3. CASE Reconnect
  <2>1. Len(svc.quick) < 0 /\ svc.quick \in Seq(Protocols)
    BY <1>0, <1>3 DEF Reconnect, FrontScope, Service
  <2> QED  BY <2>1
<1>4. CASE OnRevoke
  <2> DEFINE s == [svc EXCEPT !.consent = FALSE, !.tun = "none"]
             t == UserStop(s)
  <2>1. svc' = StopSelf(t)
    BY <1>4 DEF OnRevoke
  <2>2. s \in Service /\ Same(svc, s)
    BY <1>0 DEF Service, Same, Keeps
  <2> HIDE DEF s
  <2>3. t \in Service
    BY <1>0, <2>2, GoodSame, UserStopLemma DEF Good
  <2> HIDE DEF t
  <2> QED  BY <2>1, <2>3 DEF StopSelf, Service
<1>5. CASE OnDestroy
  BY <1>5 DEF OnDestroy
<1> QED  BY <1>1, <1>2, <1>3, <1>4, <1>5 DEF MainStep

\* The scheduler's thread and the network callback.
LEMMA FrontLadderStep ==
  ASSUME FrontScope, Inv, svc.life = "up", Live(svc, worker, due),
         Watchdog \/ RotateBegin \/ RotateEnd \/ NetworkBack \/ QuickTimeout, svc'.life = "up"
  PROVE  Live(svc', worker', due)
<1>0. /\ Good(svc) /\ svc \in Service /\ kill \in BOOLEAN /\ auto \in BOOLEAN
      /\ ProxyModes \subseteq BOOLEAN /\ Front(svc) /\ OneSession(svc, worker)
  BY InvUnfold DEF Good, Live
<1>w. worker' = worker
  BY DEF Watchdog, RotateBegin, NetworkBack, QuickTimeout, RotateEnd
<1>1. ASSUME NEW s, Good(s), Front(s), s.connected, ~s.rotating, AtRest(s, worker),
             OnTunnelLost(s).life = "up"
      PROVE  Live(OnTunnelLost(s), worker, due)
  <2>1. s.proto = "front" /\ s.stored # "none" /\ ~s.latch /\ s.consent /\ ~s.proxy /\ ~s.userStop
    BY <1>1 DEF Front
  <2>2. Dropped(s, OnTunnelLost(s))
    BY <1>0, <1>1, <2>1, LostFront
  <2> QED  BY <1>1, <2>1, <2>2, DroppedLive DEF AtRest
<1>2. CASE Watchdog
  <2>1. svc' = OnTunnelLost(svc) /\ svc.connected /\ ~svc.rotating /\ AtRest(svc, worker)
    BY <1>0, <1>2 DEF Watchdog, LadderFree, OneSession
  <2> QED  BY <1>0, <1>1, <1>w, <2>1
<1>3. CASE RotateBegin
  <2>1. /\ Alike(svc, svc') /\ svc'.watchdog = svc.watchdog /\ svc.watchdog /\ svc.connected
        /\ svc'.sealed = svc.sealed /\ svc'.tun = svc.tun
    BY <1>0, <1>3 DEF RotateBegin, SendStatus, Service, Alike
  <2>2. AtRest(svc', worker) => Blocked(svc') /\ Told(svc', due)
    BY <2>1 DEF Alike, Blocked, Told, AtRest, Live
  <2> QED  BY <1>w, <2>1, <2>2, AlikeLive
<1>4. CASE RotateEnd
  <2> DEFINE s == [svc EXCEPT !.rotating = FALSE]
             c == SendStatus(s, "connected")
  <2>1. svc' \in {c, OnTunnelLost(s), s} /\ svc.rotating
    BY <1>4 DEF RotateEnd
  <2>2. svc.connected /\ AtRest(svc, worker)
    BY <1>0, <2>1 DEF OneSession
  <2>3. s \in Service /\ Same(svc, s)
    BY <1>0 DEF Service, Same, Keeps
  <2>4. /\ Alike(svc, s) /\ s.rotating = FALSE /\ s.watchdog = svc.watchdog
        /\ s.sealed = svc.sealed /\ s.tun = svc.tun
    BY <1>0 DEF Service, Alike
  <2>5. /\ Alike(svc, c) /\ c.rotating = FALSE /\ c.watchdog = svc.watchdog
        /\ c.sealed = svc.sealed /\ c.tun = svc.tun
    BY <1>0 DEF Service, Alike, SendStatus, Front
  <2> HIDE DEF s, c
  <2>6. Good(s) /\ Front(s) /\ AtRest(s, worker) /\ s.connected
    BY <1>0, <2>2, <2>3, <2>4, GoodSame DEF Alike, Front, AtRest
  <2>7. /\ Blocked(s) /\ Told(s, due) /\ Blocked(c) /\ Told(c, due)
    BY <2>2, <2>4, <2>5 DEF Alike, Blocked, Told, Live
  <2>8. Live(s, worker, due) /\ Live(c, worker, due)
    BY <2>4, <2>5, <2>7, AlikeLive
  <2> QED  BY <1>1, <1>w, <2>1, <2>4, <2>6, <2>8
<1>5. CASE NetworkBack
  <2>1. /\ Alike(svc, svc') /\ svc'.watchdog = svc.watchdog /\ svc'.rotating = svc.rotating
        /\ svc'.sealed = svc.sealed /\ svc'.tun = svc.tun /\ svc'.retry = "now"
    BY <1>0, <1>5 DEF NetworkBack, Service, Alike
  <2>2. AtRest(svc', worker) => Blocked(svc') /\ Told(svc', due)
    BY <2>1 DEF Alike, Blocked, Told, AtRest, Live
  <2> QED  BY <1>w, <2>1, <2>2, AlikeLive
<1>6. CASE QuickTimeout
  BY <1>0, <1>6 DEF QuickTimeout, Front
<1> QED  BY <1>2, <1>3, <1>4, <1>5, <1>6

\* The decision to retry, and the start it leads to.
LEMMA FrontDueStep ==
  ASSUME FrontScope, Inv, svc.life = "up", Live(svc, worker, due),
         RetryFires \/ QuickRestart \/ LadderStart, svc'.life = "up"
  PROVE  Live(svc', worker', due')
<1>0. /\ Good(svc) /\ svc \in Service /\ kill \in BOOLEAN /\ auto \in BOOLEAN
      /\ ProxyModes \subseteq BOOLEAN /\ Front(svc) /\ OneSession(svc, worker)
  BY InvUnfold DEF Good, Live
<1>w. worker' = worker
  BY DEF RetryFires, QuickRestart, LadderStart
<1>1. CASE RetryFires
  <2>1. svc' = [svc EXCEPT !.retry = "none"] /\ svc.retry # "none" /\ due = "none"
    BY <1>1 DEF RetryFires, LadderFree
  <2>2. svc.stored # "none" /\ svc.proto # "none" /\ ~svc.userStop
    BY <1>0, <2>1 DEF Good, RetryHasConfig, Front
  <2>3. /\ Alike(svc, svc') /\ svc'.rotating = svc.rotating /\ svc'.watchdog = svc.watchdog
        /\ svc'.sealed = svc.sealed /\ svc'.tun = svc.tun
    BY <1>0, <2>1 DEF Service, Alike
  <2>4. svc.connected \/ due' # "none"
    BY <1>1, <2>2 DEF RetryFires
  <2>5. AtRest(svc', worker) => Blocked(svc') /\ Told(svc', due')
    BY <2>3, <2>4 DEF Alike, Blocked, Told, AtRest, Live
  <2>6. Front(svc')
    BY <1>0, <2>3 DEF Front, Alike
  <2>7. OneSession(svc', worker)
    BY <1>0, <2>3 DEF OneSession, AtRest, Alike
  <2>8. svc'.proto # "none"
    BY <2>2, <2>3 DEF Alike
  <2> QED  BY <1>w, <2>5, <2>6, <2>7, <2>8 DEF Live
<1>2. CASE QuickRestart
  BY <1>0, <1>2 DEF QuickRestart, Front
<1>3. CASE LadderStart
  <2>1. due \in Protocols /\ due # "none" /\ due' = "none"
    BY <1>3 DEF LadderStart, Inv, TypeOK
  <2>2. PICK px \in ProxyModes : svc' = StartTunnel(svc, due, px)
    BY <1>3 DEF LadderStart
  <2>3. px \in BOOLEAN /\ ~svc.userStop
    BY <1>0, <2>1 DEF Live, Front
  <2>4. CASE svc.connected
    <3>1. svc' = svc
      BY <2>2, <2>4 DEF StartTunnel
    <3>2. AtRest(svc, worker) => Blocked(svc) /\ Told(svc, "none")
      BY <2>4 DEF Live, Told
    <3> QED  BY <1>0, <1>w, <2>1, <3>1, <3>2 DEF Live
  <2>5. CASE ~svc.connected
    <3>1. Protocols = {"front"}
      BY DEF FrontScope
    <3>2. StartTunnel(svc, due, px).life = "up" => Live(StartTunnel(svc, due, px), worker, "none")
      BY <1>0, <2>1, <2>3, <2>5, <3>1, StartLive
    <3> QED  BY <1>w, <2>1, <2>2, <3>2
  <2> QED  BY <2>4, <2>5
<1> QED  BY <1>1, <1>2, <1>3

\* The worker: a session is taken, gets its TUN, races, and connects or fails;
\* nothing of the native path is enabled.
LEMMA FrontWorkerStep ==
  ASSUME FrontScope, Inv, svc.life = "up", Live(svc, worker, due),
         WorkerStep \/ CoreReady \/ CoreConnecting \/ CoreExits, svc'.life = "up"
  PROVE  Live(svc', worker', due)
<1>0. /\ Good(svc) /\ svc \in Service /\ kill \in BOOLEAN /\ auto \in BOOLEAN
      /\ worker \in WorkerState /\ Front(svc) /\ OneSession(svc, worker)
  BY InvUnfold DEF Good, Live
<1>1. CASE TakeSession
  <2>1. /\ svc' = [svc EXCEPT !.queue = Tail(svc.queue)] /\ svc.queue # << >>
        /\ worker'.phase = "begin"
    BY <1>1 DEF TakeSession
  <2>2. svc.connected /\ ~svc.rotating /\ ~svc.watchdog /\ Len(svc.queue) = 1
    BY <1>0, <2>1 DEF OneSession, AtRest
  <2>3. Tail(svc.queue) = << >>
    <3>1. svc.queue \in Seq(Session)
      BY <1>0 DEF Service
    <3>2. Tail(svc.queue) \in Seq(Session) /\ Len(Tail(svc.queue)) = 0
      BY <2>1, <2>2, <3>1
    <3> QED  BY <3>2, EmptySeq
  <2>4. /\ svc'.latch = svc.latch /\ svc'.quick = svc.quick /\ svc'.proxy = svc.proxy
        /\ svc'.consent = svc.consent /\ svc'.stored = svc.stored /\ svc'.proto = svc.proto
        /\ svc'.userStop = svc.userStop /\ svc'.connected = svc.connected
        /\ svc'.rotating = svc.rotating /\ svc'.watchdog = svc.watchdog /\ svc'.queue = << >>
    BY <1>0, <2>1, <2>3 DEF Service
  <2>5. Front(svc')
    BY <1>0, <2>4 DEF Front
  <2>6. worker' # NoSession
    BY <2>1 DEF NoSession
  <2>7. OneSession(svc', worker') /\ ~AtRest(svc', worker')
    BY <2>1, <2>2, <2>4, <2>6 DEF OneSession, AtRest
  <2> QED  BY <2>4, <2>5, <2>7 DEF Live
<1>2. ASSUME worker.phase # "idle"
      PROVE  /\ worker.phase \in {"begin", "tun", "race"} /\ worker.of.proto = "front"
             /\ svc.connected /\ ~svc.rotating /\ ~svc.watchdog /\ svc.queue = << >>
             /\ worker # NoSession
  <2>1. worker # NoSession
    BY <1>2 DEF NoSession
  <2>2. worker.of.proto \in Protocols
    BY <1>0, <2>1 DEF WorkerState, Session
  <2> QED  BY <1>0, <2>1, <2>2 DEF OneSession, AtRest, FrontScope
<1>3. CASE NativePrepare \/ NativeStart \/ NativeSetupFails \/ WorkerClose \/ WorkerFinally
           \/ CoreReady \/ CoreConnecting \/ CoreExits
  <2>1. worker.phase # "idle"
    BY <1>3 DEF NativePrepare, NativeStart, NativeSetupFails, WorkerClose, WorkerFinally,
                CoreReady, CoreConnecting, CoreExits
  <2> QED
    BY <1>2, <1>3, <2>1 DEF NativePrepare, NativeStart, NativeSetupFails, WorkerClose,
                            WorkerFinally, CoreReady, CoreConnecting, CoreExits
<1>4. CASE FrontEstablish \/ FrontRace
  <2>0. worker.phase # "idle"
    BY <1>4 DEF FrontEstablish, FrontRace
  <2>1. worker \in [phase : Phases, of : Session, proxy : BOOLEAN, unexpected : BOOLEAN,
                    armed : BOOLEAN]
    BY <1>0, <2>0 DEF WorkerState, NoSession
  <2>2. worker'.phase \in {"tun", "race"}
    BY <1>4, <2>1 DEF FrontEstablish, FrontRace
  <2>3. Alike(svc, svc') /\ svc'.watchdog = svc.watchdog /\ svc'.rotating = svc.rotating
    BY <1>0, <1>4 DEF FrontEstablish, FrontRace, SendStatus, Service, Alike
  <2>4. Front(svc')
    BY <1>0, <2>3 DEF Alike, Front
  <2>5. worker' # NoSession
    BY <2>2 DEF NoSession
  <2>6. OneSession(svc', worker') /\ ~AtRest(svc', worker')
    BY <1>2, <2>0, <2>2, <2>3, <2>5 DEF OneSession, AtRest, Alike
  <2> QED  BY <2>3, <2>4, <2>6 DEF Live, Alike
<1>5. CASE FrontConnects
  <2>0. worker.phase # "idle" /\ worker' = NoSession /\ svc.tun # "none"
    BY <1>5 DEF FrontConnects
  <2>1. Alike(svc, svc') /\ svc'.rotating = svc.rotating /\ svc'.tun = svc.tun
    BY <1>0, <1>5 DEF FrontConnects, SendStatus, Service, Alike, Front
  <2>2. Front(svc')
    BY <1>0, <2>1 DEF Alike, Front
  <2>3. OneSession(svc', worker')
    BY <1>2, <2>0, <2>1 DEF OneSession, AtRest, Alike
  <2>4. Blocked(svc') /\ Told(svc', due)
    BY <1>2, <2>0, <2>1 DEF Alike, Blocked, Told
  <2> QED  BY <2>1, <2>2, <2>3, <2>4 DEF Live, Alike
<1>6. CASE FrontFails
  <2>0. worker.phase # "idle" /\ worker' = NoSession /\ svc' = FailAndStop(svc)
    BY <1>6 DEF FrontFails
  <2>1. svc.proto = "front" /\ svc.stored # "none" /\ ~svc.latch /\ svc.consent
    BY <1>0, <1>2, <2>0 DEF Front
  <2>2. Dropped(svc, FailAndStop(svc))
    BY <1>0, <2>0, <2>1, FailFront
  <2> QED  BY <1>0, <1>2, <2>0, <2>1, <2>2, DroppedLive
<1> QED  BY <1>1, <1>3, <1>4, <1>5, <1>6 DEF WorkerStep, CoreStops

\* onTunnelLost does not revive a service that has called stopSelf() either.
LEMMA LostEnds ==
  ASSUME NEW s, Good(s), s.life # "up", kill \in BOOLEAN, auto \in BOOLEAN
  PROVE  OnTunnelLost(s).life # "up"
<1> DEFINE armed == KillSwitchArmed(s)
           f == SendStatus(s, "failed")
           g == [f EXCEPT !.connected = FALSE]
           given == StopTunnel(g, FALSE, TRUE)
           l == [s EXCEPT !.latch = TRUE]
           k == StopTunnel([s EXCEPT !.connected = FALSE], FALSE, FALSE)
           m == StopTunnel([l EXCEPT !.connected = FALSE], FALSE, FALSE)
           c(t) == ScheduleAutoReconnect(SealWithKillSwitch(t, armed))
<1>1. OnTunnelLost(s) \in {s, SendStatus(SealWithKillSwitch(given, armed), "failed"), StopSelf(given),
                           [c(k) EXCEPT !.callback = TRUE], [c(m) EXCEPT !.callback = TRUE]}
  BY DEF OnTunnelLost
<1>2. armed \in BOOLEAN /\ s \in Service
  BY DEF KillSwitchArmed, Good, Service
<1> HIDE DEF armed
<1>3. ASSUME NEW t, Good(t), t.life # "up", NEW tear \in BOOLEAN
      PROVE  LET v == StopTunnel([t EXCEPT !.connected = FALSE], FALSE, tear)
             IN  Good(v) /\ v.life # "up"
  <2> DEFINE x == [t EXCEPT !.connected = FALSE]
  <2>a. t \in Service
    BY <1>3 DEF Good
  <2>b. x.life = t.life
    BY <2>a DEF Service
  <2>c. Good(x)
    BY <1>3, ClearConnectedLemma
  <2>1. Good(x) /\ x.life # "up"
    BY <1>3, <2>b, <2>c
  <2> HIDE DEF x
  <2>2. Good(StopTunnel(x, FALSE, tear)) /\ Calm(x, StopTunnel(x, FALSE, tear))
    BY <1>3, <2>1, StopTunnelLemma, CalmStop
  <2> QED  BY <2>1, <2>2 DEF Calm, x
<1>4. Good(f) /\ f.life # "up"
  BY SendStatusLemma, StaysStopped DEF Status
<1>5. Good(l) /\ l.life # "up"
  BY <1>2, SetLatchLemma DEF Service
<1> HIDE DEF f, l
<1>6. /\ Good(given) /\ given.life # "up" /\ Good(k) /\ k.life # "up" /\ Good(m) /\ m.life # "up"
  BY <1>3, <1>4, <1>5
<1> HIDE DEF given, k, m
<1>7. ASSUME NEW t, Good(t), t.life # "up"
      PROVE  [c(t) EXCEPT !.callback = TRUE].life # "up"
  <2> DEFINE x == SealWithKillSwitch(t, armed)
             y == ScheduleAutoReconnect(x)
  <2>1. Good(x) /\ x.life # "up"
    BY <1>2, <1>7, SealLemma, StaysStopped DEF Status
  <2> HIDE DEF x
  <2>2. y \in Service /\ y.life # "up"
    BY <2>1, ScheduleLemma, StaysStopped DEF Status, Good
  <2> HIDE DEF y
  <2>3. [y EXCEPT !.callback = TRUE].life # "up"
    BY <2>2 DEF Service
  <2> QED  BY <2>3 DEF x, y
<1>8. Good(SealWithKillSwitch(given, armed)) /\ SealWithKillSwitch(given, armed).life # "up"
  BY <1>2, <1>6, SealLemma, StaysStopped DEF Status
<1>9. SendStatus(SealWithKillSwitch(given, armed), "failed").life # "up" /\ StopSelf(given).life # "up"
  BY <1>2, <1>6, <1>8, StaysStopped DEF Status
<1>10. [c(k) EXCEPT !.callback = TRUE].life # "up" /\ [c(m) EXCEPT !.callback = TRUE].life # "up"
  BY <1>6, <1>7
<1> HIDE DEF c
<1> QED  BY <1>1, <1>9, <1>10

\* A service that has called stopSelf() stays stopped.
LEMMA LifeEnds ==
  ASSUME Inv, Next, svc.life # "up"
  PROVE  svc'.life # "up"
<1>0. /\ Good(svc) /\ svc \in Service /\ kill \in BOOLEAN /\ auto \in BOOLEAN
      /\ ProxyModes \subseteq BOOLEAN /\ worker \in WorkerState
  BY InvUnfold DEF Good
<1>1. CASE MainStep
  BY <1>1 DEF MainStep, Connect, AlwaysOn, Disconnect, Reconnect, OnRevoke
<1>2. CASE OnDestroy
  <2> DEFINE t == StopTunnel(CancelAutoReconnect(svc), FALSE, TRUE)
  <2>1. t \in Service
    BY <1>0, CancelLemma, StopTunnelLemma DEF Good
  <2>2. svc' = [t EXCEPT !.life = "down", !.queue = << >>, !.quick = << >>]
    BY <1>2 DEF OnDestroy
  <2> HIDE DEF t
  <2> QED  BY <2>1, <2>2 DEF Service
<1>3. CASE Watchdog
  BY <1>0, <1>3, LostEnds DEF Watchdog
<1>4. CASE RotateEnd
  <2> DEFINE s == [svc EXCEPT !.rotating = FALSE]
  <2>1. svc' \in {SendStatus(s, "connected"), OnTunnelLost(s), s}
    BY <1>4 DEF RotateEnd
  <2>2. s \in Service /\ Same(svc, s) /\ s.life = svc.life
    BY <1>0 DEF Service, Same, Keeps
  <2> HIDE DEF s
  <2>3. Good(s)
    BY <1>0, <2>2, GoodSame
  <2> QED  BY <1>0, <2>1, <2>2, <2>3, LostEnds, StaysStopped DEF Status
<1>5. CASE RetryFires \/ QuickRestart
  BY <1>0, <1>5 DEF RetryFires, QuickRestart, Service
<1>6. CASE LadderStart
  <2>1. due \in Protocols
    BY <1>6 DEF LadderStart, Inv, TypeOK
  <2>2. PICK px \in ProxyModes :
          LET s == StartTunnel(svc, due, px)
          IN  svc' = IF svc.life = "down" THEN [s EXCEPT !.queue = << >>] ELSE s
    BY <1>6 DEF LadderStart
  <2> DEFINE s == StartTunnel(svc, due, px)
  <2>3. Good(s) /\ s.life # "up"
    BY <1>0, <2>1, StartTunnelLemma, StartEnds
  <2>4. svc' \in {s, [s EXCEPT !.queue = << >>]}
    BY <2>2
  <2> HIDE DEF s
  <2> QED  BY <2>3, <2>4, ClearQueueLemma
<1>7. CASE RotateBegin \/ NetworkBack \/ QuickTimeout
  BY <1>0, <1>7 DEF RotateBegin, NetworkBack, QuickTimeout, SendStatus, Service
<1>8. CASE TakeSession \/ NativePrepare \/ FrontRace \/ WorkerClose
  BY <1>0, <1>8 DEF TakeSession, NativePrepare, FrontRace, WorkerClose, Service
<1>9. CASE NativeStart \/ NativeSetupFails \/ CoreConnecting \/ FrontEstablish
  BY <1>0, <1>9 DEF NativeStart, NativeSetupFails, CoreConnecting, FrontEstablish, SendStatus, Service
<1>10. CASE CoreReady \/ FrontConnects
  BY <1>0, <1>10 DEF CoreReady, FrontConnects, SendStatus, Service
<1>11. CASE CoreExits
  BY <1>0, <1>11 DEF CoreExits, SendStatus, Service
<1>12. CASE FrontFails
  BY <1>0, <1>12, FailConsumes DEF FrontFails, Calm
<1>13. CASE WorkerFinally
  <2> DEFINE f == SendStatus(svc, "failed")
  <2>1. svc' \in {svc, [svc EXCEPT !.latch = FALSE], SealWithKillSwitch(f, TRUE), f,
                  ScheduleAutoReconnect(svc), StopSelf(svc)}
    BY <1>13 DEF WorkerFinally, SealWithKillSwitch
  <2>2. Good(f) /\ f.life # "up"
    BY <1>0, SendStatusLemma, StaysStopped DEF Status
  <2> HIDE DEF f
  <2>3. SealWithKillSwitch(f, TRUE).life # "up"
    BY <2>2, StaysStopped DEF Status
  <2>4. /\ [svc EXCEPT !.latch = FALSE].life # "up"
        /\ ScheduleAutoReconnect(svc).life # "up" /\ StopSelf(svc).life # "up"
    BY <1>0, StaysStopped DEF Status
  <2> QED  BY <2>1, <2>2, <2>3, <2>4
<1> QED
  BY <1>1, <1>2, <1>3, <1>4, <1>5, <1>6, <1>7, <1>8, <1>9, <1>10, <1>11, <1>12, <1>13
  DEF Next, LadderStep, WorkerStep, CoreStops

\* No step changes the preferences.
LEMMA PreferencesKept ==
  ASSUME Next
  PROVE  kill' = kill /\ auto' = auto
  BY DEF Next, MainStep, LadderStep, WorkerStep, CoreStops, Connect, AlwaysOn, Disconnect, Reconnect,
         OnRevoke, OnDestroy, Watchdog, RotateBegin, RotateEnd, RetryFires, NetworkBack,
         QuickRestart, QuickTimeout, LadderStart, TakeSession, NativePrepare, NativeStart,
         NativeSetupFails, CoreReady, CoreConnecting, CoreExits, WorkerClose, WorkerFinally,
         FrontEstablish, FrontRace, FrontConnects, FrontFails

\* FrontInv is inductive in that scope.
LEMMA FrontStep ==
  ASSUME FrontScope, FrontInv, [Next]_vars
  PROVE  FrontInv'
<1>1. Inv'
  BY StepInv DEF FrontInv
<1>2. CASE UNCHANGED vars
  BY <1>1, <1>2 DEF vars, FrontInv, Live, Front, OneSession, AtRest, Blocked, Told
<1>3. CASE Next
  <2>1. SUFFICES ASSUME svc'.life = "up" PROVE Live(svc, worker, due)'
    BY <1>1 DEF FrontInv
  <2>2. svc.life = "up" /\ Inv /\ Live(svc, worker, due)
    BY <1>3, <2>1, LifeEnds DEF FrontInv
  <2>3. Live(svc', worker', due')
    <3>1. CASE RetryFires \/ QuickRestart \/ LadderStart
      BY <2>1, <2>2, <3>1, FrontDueStep
    <3>2. CASE ~RetryFires /\ ~QuickRestart /\ ~LadderStart
      <4>1. due' = due
        BY <1>3, <3>2, DueKept
      <4>2. Live(svc', worker', due)
        BY <1>3, <2>1, <2>2, <3>2, FrontMainStep, FrontLadderStep, FrontWorkerStep
        DEF Next, LadderStep
      <4> QED  BY <4>1, <4>2
    <3> QED  BY <3>1, <3>2
  <2>4. kill' = kill
    BY <1>3, PreferencesKept
  <2> QED  BY <2>3, <2>4 DEF Live, Front, OneSession, AtRest, Blocked, Told
<1> QED  BY <1>2, <1>3

\* Both invariants of a SHARD service together, for every number of sessions and
\* whatever the two preferences and the proxy setting are.
LEMMA FrontAlways ==
  ASSUME FrontScope
  PROVE  Spec => []FrontInv
<1>1. Init => FrontInv
  <2>1. Init => Live(svc, worker, due)
    BY DEF Init, Live, Front, OneSession, AtRest, Blocked, Told, NoSession
  <2> QED  BY <2>1, InitInv DEF FrontInv
<1>2. FrontInv /\ [Next]_vars => FrontInv'
  BY FrontStep
<1> QED  BY <1>1, <1>2, PTL DEF Spec

\* The seal of a SHARD service: from a drop to the user's next intent, through
\* every failed retry, a live service between sessions has an interface up.
\* Without the scope's two conditions SealHolds is false: VpnSealLost.cfg shows
\* the native session whose stale `finally` takes the blocking TUN down.
THEOREM ShardSealHolds ==
  ASSUME FrontScope
  PROVE  Spec => []SealHolds
<1>1. FrontInv => SealHolds
  BY DEF FrontInv, Live, Blocked, AtRest, Idle, SealHolds
<1> QED  BY <1>1, FrontAlways, PTL

\* The status line of a SHARD service: one that has no session, no retry and no
\* restart pending does not claim to be connecting or connected.
THEOREM ShardHonestStatus ==
  ASSUME FrontScope
  PROVE  Spec => []HonestStatus
<1>1. FrontInv => HonestStatus
  BY DEF FrontInv, Live, Told, AtRest, Idle, HonestStatus
<1> QED  BY <1>1, FrontAlways, PTL
=============================================================================
