---------------------------- MODULE MCShardSplit ----------------------------
(***************************************************************************)
(* ShardManager with the one fact its history must remember: whether the   *)
(* service, rather than start() itself, has called stop() since the latch  *)
(* was last cleared.                                                       *)
(***************************************************************************)
EXTENDS ShardManager

VARIABLE asked

HInit == Init /\ asked = FALSE

HNext ==
    /\ Next
    /\ asked' = (stopReq' /\ (asked \/ ServiceStop \/ WorkerStop))

HSpec == HInit /\ [][HNext]_<<vars, asked>>

\* "If neither profile carries a blocked SNI ... the fallback is the historical
\* node-only config": start abandons its winner before the node-only launch only
\* if the service has asked it to.  startSmartSplit clears a failed profile away
\* with stop(), whose latch cancels the start that is calling it.
SplitFallsBack ==
    [][op.mode = "node" /\ op.pc = "check" /\ op' = Idle => asked]_<<vars, asked>>
=============================================================================
