---------------------------- MODULE MCDecisions -----------------------------
(* A phone in Indonesia on its carrier's network, and every visit that     *)
(* differs from it in one or two of the listed points.                     *)
EXTENDS Decisions

Phone ==
  [webdriver |-> FALSE, headless |-> FALSE, trusted |-> TRUE, software |-> FALSE, globals |-> 0,
   viewport |-> FALSE, malformed |-> FALSE, moves |-> 0, velocity |-> 0, taps |-> 2, gestures |-> 0,
   interactions |-> 1, webview |-> "none", ua |-> {"Android", "Mobile", "Linux"}, chMobile |-> TRUE,
   chPlatform |-> NULL, platform |-> "arm", gpu |-> "mobile", maxTouch |-> 5, audio |-> TRUE,
   fonts |-> 3, colorDepth |-> 24, tz |-> "Asia", country |-> "ID", continent |-> "AS",
   asn |-> "carrier", isp |-> {}, proxy |-> "", usage |-> "", home |-> "ID",
   expectCarrier |-> TRUE, countries |-> {}, cluster |-> 1]

Desktop == [Phone EXCEPT !.ua = {"Windows"}, !.chMobile = FALSE, !.platform = "desktop", !.gpu = "other",
                         !.maxTouch = 0, !.moves = 1, !.velocity = 1, !.asn = "other",
                         !.expectCarrier = FALSE]

(* where the visits differ from the phone: each point alone and each pair  *)
Point ==
  {<<"webdriver", TRUE>>, <<"trusted", FALSE>>, <<"globals", 2>>,
   <<"viewport", TRUE>>, <<"malformed", TRUE>>, <<"taps", 0>>, <<"interactions", 0>>,
   <<"webview", "known">>, <<"gpu", "apple">>, <<"maxTouch", 0>>,
   <<"audio", FALSE>>, <<"fonts", 0>>, <<"country", NULL>>, <<"asn", "hosting">>,
   <<"countries", {"ID"}>>, <<"cluster", 3>>}

MorePoint ==
  {<<"trusted", NULL>>, <<"webview", "other">>, <<"moves", 1>>,
   <<"ua", {"Mac OS", "iPhone", "Mobile"}>>, <<"colorDepth", 16>>, <<"tz", "Europe">>,
   <<"country", "US">>, <<"proxy", "VPN">>, <<"usage", "DCH">>, <<"maxTouch", 5>>, <<"gpu", "mobile">>}

MCVisit ==
  {[Phone EXCEPT ![p[1]] = p[2], ![q[1]] = q[2]] : p \in Point, q \in Point}
  \cup {[base EXCEPT ![p[1]] = p[2]] : base \in {Phone, Desktop}, p \in Point \cup MorePoint}

W(r, i, l) == [rules |-> r, isolation_forest |-> i, lightgbm |-> l]

MCConfig ==
  {[threshold |-> 40, weights |-> W(50, 20, 30), params |-> {"webdriver"}],
   [threshold |-> 60, weights |-> W(0, 0, 100), params |-> NULL],
   [threshold |-> 90, weights |-> W(-50, 0, 100), params |-> NULL],
   [threshold |-> 50, weights |-> MALFORMED, params |-> MALFORMED]}

MCPrediction == {NULL, [isolation_forest |-> 20, lightgbm |-> 90]}
=============================================================================
