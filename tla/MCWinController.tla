-------------------------- MODULE MCWinController --------------------------
(* The settings that differ in what they let happen. *)
EXTENDS WinController

Set(auto, smart, kill, reconnect) ==
    [auto |-> auto, smart |-> smart, kill |-> kill, reconnect |-> reconnect]

MCPrefs == {Set(FALSE, FALSE, FALSE, TRUE), Set(FALSE, TRUE, TRUE, FALSE),
            Set(TRUE, FALSE, FALSE, FALSE)}
=============================================================================
