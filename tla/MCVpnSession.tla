---------------------------- MODULE MCVpnSession ----------------------------
(***************************************************************************)
(* VpnSession with the one fact its history must remember: whether any     *)
(* session of this service has reported CONNECTED.                         *)
(***************************************************************************)
EXTENDS VpnSession

VARIABLE carried

HInit == Init /\ carried = FALSE

HNext == Next /\ carried' = (carried \/ svc'.ui = "connected")

HSpec == HInit /\ [][HNext]_<<vars, carried>>

\* sealWithKillSwitch: "Only a drop arms this - never a first connect that
\* failed".  The native worker's `finally` seals after a failed setup as well.
FirstConnectNeverSeals == svc.tun = "block" => carried
=============================================================================
