---------------------------- MODULE MCAetherStop ----------------------------
(***************************************************************************)
(* AetherCore with a history of the stop requests: which run each          *)
(* aether_stop saw when it read RUNNING, and which runs have been told to  *)
(* stop by a call that answered 1.                                         *)
(***************************************************************************)
EXTENDS AetherCore

VARIABLES saw, asked

hvars == <<vars, saw, asked>>

Live(C) == {c \in C : pc[c] \in Owning}

HInit ==
    /\ Init
    /\ saw = [s \in Stoppers |-> {}]
    /\ asked = {}

HNext ==
    /\ Next
    /\ saw' = [s \in Stoppers |->
                  IF spc[s] = "idle" THEN Live(Callers)
                  ELSE {c \in saw[s] : pc'[c] \in Owning}]
    /\ asked' = {c \in asked \cup UNION {saw[s] : s \in {t \in Stoppers :
                          spc[t] = "notify" /\ spc'[t] = "idle"}} : pc'[c] \in Owning}

HSpec ==
    /\ HInit
    /\ [][HNext]_hvars
    /\ \A c \in Callers : WF_hvars(HNext /\ CallerStep(c))
    /\ \A s \in Stoppers : WF_hvars(HNext /\ StopperStep(s))

\* aether_stop "Requests shutdown of the active native tunnel. Returns 1 if
\* running": a run that was active when a stop answering 1 looked comes to an
\* end.  It need not: aether_start_json_inner clears STOP_REQUESTED after the
\* compare_exchange, and a request that falls between the two is wiped.
AnsweredStopEndsRun == \A c \in Callers : c \in asked ~> c \notin asked
=============================================================================
