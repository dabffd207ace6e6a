----------------------------- MODULE Supervisor -----------------------------
(***************************************************************************)
(* What a reconnect loop of the native core promises to the app, whatever  *)
(* transport it drives.  A run selects an endpoint, raises one session on  *)
(* it and starts over when the session ends.  Two promises matter:         *)
(*   - an endpoint carries a session only when a check of this round       *)
(*     accepted it, or when the user fixed it (Trusted);                   *)
(*   - "connected" is announced only by the step that validates a session. *)
(* MasqueLoop and WireGuardLoop implement this specification.              *)
(***************************************************************************)
CONSTANTS
    Peers,      \* endpoints
    Trusted     \* endpoints that need no check

VARIABLES
    phase,      \* "off", "select", "raise", "up"
    peer,       \* the endpoint of the session being raised or up
    proven,     \* endpoints accepted by a check since the last session ended
    connected   \* the app has been told "connected" and nothing since

vars == <<phase, peer, proven, connected>>

Init ==
    /\ phase = "off"
    /\ peer \notin Peers
    /\ proven = {}
    /\ connected = FALSE

Begin ==
    /\ phase = "off"
    /\ phase' = "select"
    /\ proven' = {}
    /\ connected' = FALSE
    /\ UNCHANGED peer

Check(p) ==
    /\ phase = "select"
    /\ proven' = proven \cup {p}
    /\ UNCHANGED <<phase, peer, connected>>

Raise(p) ==
    /\ phase = "select"
    /\ p \in proven \cup Trusted
    /\ phase' = "raise"
    /\ peer' = p
    /\ UNCHANGED <<proven, connected>>

Validate ==
    /\ phase = "raise"
    /\ phase' = "up"
    /\ connected' = TRUE
    /\ UNCHANGED <<peer, proven>>

\* A session that ended, or never came up, takes its evidence with it.
Lose ==
    /\ phase \in {"raise", "up"}
    /\ phase' = "select"
    /\ peer' \notin Peers
    /\ proven' = {}
    /\ connected' \in {connected, FALSE}

End ==
    /\ phase # "off"
    /\ phase' = "off"
    /\ peer' \notin Peers
    /\ proven' = {}
    /\ connected' = FALSE

Next ==
    \/ Begin \/ Validate \/ Lose \/ End
    \/ \E p \in Peers : Check(p) \/ Raise(p)

Spec == Init /\ [][Next]_vars
=============================================================================
