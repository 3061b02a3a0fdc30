------------------------------- MODULE Gateway -------------------------------
(***************************************************************************)
(* The browser telemetry gateway: a route per signal that the application  *)
(* exports and the browser may send, the checks a batch passes on its way  *)
(* to the collector, and the request limit the routes share.               *)
(*                                                                         *)
(* The limit has one window per remote address, kept in the serving        *)
(* process.  A window lasts 60 seconds from its first request; an address  *)
(* that has none while the table is full shares the "overflow" window.     *)
(* Windows that have ended are dropped only when the table has grown past  *)
(* its capacity.                                                           *)
(***************************************************************************)
EXTENDS Naturals, FiniteSets, Functions

CONSTANTS
  Addresses,          \* remote addresses
  Capacity,           \* windows the table holds before it is full (1,024 in the code)
  RequestsPerMinute,  \* requests a window admits
  Minute,             \* a minute, in steps of the model's clock
  AllowedOrigins      \* origins the configuration allows besides the UI's own

ASSUME GatewayAssumption ==
  /\ Capacity \in Nat \ {0} /\ RequestsPerMinute \in Nat \ {0} /\ Minute \in Nat \ {0}
  /\ "overflow" \notin Addresses

(***************************************************************************)
(* Which signals have a route.  A telemetry configuration says which       *)
(* signals are switched off in the options and for the browser, which the  *)
(* environment exports by OTLP, and where an endpoint is configured: for   *)
(* all signals by the base endpoint of the options, for some by an option  *)
(* or a variable of their own.                                             *)
(***************************************************************************)
SignalNames == {"traces", "metrics", "logs"}

\* The options override the environment.
Environment(telemetry) ==
  [exporters |-> telemetry.exporters \ telemetry.off,
   endpoints |-> IF telemetry.endpoint THEN SignalNames ELSE telemetry.endpoints]

SignalTransports(telemetry) ==
  Environment(telemetry).exporters \cap Environment(telemetry).endpoints

BrowserSignals(telemetry) ==
  (SignalNames \ (telemetry.off \cup telemetry.browserOff)) \cap SignalTransports(telemetry)

GatewayRoutes(telemetry) ==
  {<<<<"otel", "v1", signal>>, signal>> : signal \in BrowserSignals(telemetry)}

(***************************************************************************)
(* The request limit.                                                      *)
(***************************************************************************)
\* Clock readings start at Minute, so that `now - Minute` is a natural number.
Fresh(window, now) == window.startedAt >= now - Minute

ActiveWindows(windows, now) ==
  IF Cardinality(DOMAIN windows) > Capacity
  THEN Restrict(windows, {key \in DOMAIN windows : Fresh(windows[key], now)})
  ELSE windows

WindowKey(windows, address) ==
  IF Cardinality(DOMAIN windows) >= Capacity /\ address \notin DOMAIN windows
  THEN "overflow" ELSE address

\* Fault: a window is not restarted when it has ended.
FaultNextWindow(windows, key, now) ==
  IF key \in DOMAIN windows
  THEN [windows[key] EXCEPT !.count = @ + 1]
  ELSE [startedAt |-> now, count |-> 1]

NextWindow(windows, key, now) ==
  IF key \in DOMAIN windows /\ Fresh(windows[key], now)
  THEN [windows[key] EXCEPT !.count = @ + 1]
  ELSE [startedAt |-> now, count |-> 1]

\* The table after a request from `address`, and whether it is refused.
UpdateRateLimit(windows, address, now) ==
  LET active == ActiveWindows(windows, now)
      key    == WindowKey(active, address)
      next   == NextWindow(active, key, now)
  IN [windows |-> [k \in DOMAIN active \cup {key} |-> IF k = key THEN next ELSE active[k]],
      limited |-> next.count > RequestsPerMinute]

(***************************************************************************)
(* A batch: the headers that are looked at, and its body.                  *)
(***************************************************************************)
Trusted(batch) ==
  /\ batch.fetchSite # "cross-site"
  /\ batch.origin \in {"none", "same"} \cup AllowedOrigins

\* 0 when the headers pass.
ValidateRequestHeaders(batch) ==
  IF batch.encoding \notin {"absent", "identity"} \/ batch.type \notin {"protobuf", "json"} THEN 415
  ELSE IF batch.declared = "too large" THEN 413
  ELSE 0

\* The answer to a trusted batch.  What is left of the limit does not depend
\* on it: a batch is counted before anything else of it is looked at.
Forward(batch, limited, collector) ==
  IF limited THEN 429
  ELSE IF ValidateRequestHeaders(batch) # 0 THEN ValidateRequestHeaders(batch)
  ELSE IF batch.body = "broken" THEN 400
  ELSE IF batch.body = "too large" THEN 413
  ELSE IF collector = "down" THEN 502
  ELSE 200
=============================================================================
