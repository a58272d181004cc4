-------------------------------- MODULE Link --------------------------------
(* The connection as Trade meets it through s_ and is_valid: "open", a request
   goes out; "connecting", emit throws; "closed", there is no valid WebSocket.  *)
VARIABLE conn

LinkInit == conn = "closed"

\* RunThread's next WebSocket, and what becomes of it: on_open, on_fail, on_close.
Reconnect == conn = "closed" /\ conn' = "connecting"
OnOpen    == conn = "connecting" /\ conn' = "open"
OnFail    == conn = "connecting" /\ conn' = "closed"
Lose      == conn = "open" /\ conn' = "closed"

LinkNext == Reconnect \/ OnOpen \/ OnFail \/ Lose

LinkSpec == LinkInit /\ [][LinkNext]_conn
=============================================================================
