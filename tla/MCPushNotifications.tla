------------------------- MODULE MCPushNotifications -------------------------
(* Small instances of PushNotifications for TLC.                            *)
EXTENDS PushNotifications

\* Two versions of the configuration without an id, and one with an id.
MCGiven == {[id |-> "", url |-> "u1"], [id |-> "", url |-> "u2"], [id |-> "own", url |-> "u1"]}
=============================================================================
