------------------------ MODULE ConnectionLifecycle ------------------------
(* What the shared contract promises about the state of a market-data       *)
(* connection: transitionMarketDataConnection, the table of allowed steps.  *)
(* The scripted adapter applies the table; the real stream never calls it,  *)
(* so that it moves along the table is shown in MarketStream.               *)

VARIABLE state

ConnectionState == {"disabled", "connecting", "authenticating", "subscribed",
                    "reconnecting", "stopped", "terminal_failure"}

(* The runtime starts out as connecting, an adapter as disabled.            *)
Init == state \in {"disabled", "connecting"}

Table ==
  {<<"disabled", "connecting">>, <<"connecting", "authenticating">>,
   <<"authenticating", "subscribed">>, <<"connecting", "reconnecting">>,
   <<"authenticating", "reconnecting">>, <<"subscribed", "reconnecting">>,
   <<"reconnecting", "connecting">>}

Move ==
  \/ <<state, state'>> \in Table
  \/ state # "stopped" /\ state' = "stopped"
  \/ state \notin {"stopped", "terminal_failure"} /\ state' = "terminal_failure"

Spec == Init /\ [][Move]_state
=============================================================================
