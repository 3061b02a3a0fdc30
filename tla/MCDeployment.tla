---------------------------- MODULE MCDeployment ----------------------------
(* Small sites: providers and the local host with many designs, the local   *)
(* host with two binaries of a clustered application, and with a gateway.   *)
EXTENDS Deployment

\* Designs: the options of HTTP, of the database, and other parts.
Http(rpc, mcp, ui) == [rpc |-> rpc, mcp |-> mcp, ui |-> ui]
Plain == Http(On, On, On)

Design(http, durability, removal, backups) ==
  [http |-> http, public |-> On, execution |-> "absent", durability |-> durability,
   transactions |-> "absent", topology |-> "absent", removal |-> removal, backups |-> backups,
   bindings |-> <<>>, parts |-> <<>>]
Standard == Design(Plain, "absent", "absent", "absent")

Https ==
  {Http(rpc, mcp, ui) :
     rpc \in {Absent, Off, Given, At(<<"api">>), At(<<"admin", "api", "call">>)},
     mcp \in {Absent, On, At(<<"rpc", "v1">>), At(<<>>)},
     ui  \in {Absent, Off, On, At(<<"admin">>), At(<<"admin", "">>)}}

Storage ==
  {Design(Plain, durability, removal, backups) :
     durability \in {"absent", "persistent", "ephemeral"},
     removal \in {"absent", "retain", "destroy"}, backups \in {"absent", "daily"}}

Queue  == [tag |-> "Queue", id |-> "jobs", copy |-> 0]
Secret == [tag |-> "Secret", id |-> " key", copy |-> 0]
Worker == [tag |-> "BackgroundRuntime", id |-> "worker", execution |-> "process",
           bindings |-> <<>>, copy |-> 0]
Copy   == [Database(Standard) EXCEPT !.copy = 1]

Others ==
  {[Standard EXCEPT !.execution = "request", !.transactions = "batch"],
   [Standard EXCEPT !.topology = "multiple"],
   [Standard EXCEPT !.parts = <<Queue>>],
   [Standard EXCEPT !.parts = <<Worker>>],
   [Standard EXCEPT !.parts = <<Secret>>],
   [Standard EXCEPT !.parts = <<[Queue EXCEPT !.id = "api"]>>],
   [Standard EXCEPT !.parts = <<[Copy EXCEPT !.id = "second"]>>],
   [Standard EXCEPT !.parts = <<[Runtime(Standard) EXCEPT !.id = "other"]>>],
   [Standard EXCEPT !.parts = <<[tag |-> "PublicEndpoint", id |-> "second",
                                 target |-> Runtime(Standard), copy |-> 0]>>],
   [Standard EXCEPT !.public = Off,
                    !.parts = <<[tag |-> "PublicEndpoint", id |-> "only",
                                 target |-> [Runtime(Standard) EXCEPT !.copy = 1], copy |-> 0]>>],
   [Standard EXCEPT !.bindings = <<[tag |-> "ReadWriteSqlite", target |-> Copy]>>],
   [Standard EXCEPT !.bindings = <<[tag |-> "ReadWriteSqlite", target |-> Database(Standard)]>>],
   [Standard EXCEPT !.bindings = <<[tag |-> "ProduceQueue", target |-> Queue]>>]}

\* Telemetry: none for the browser, traces only, and other mixtures.
Quiet == [off |-> {}, browserOff |-> SignalNames, exporters |-> SignalNames, endpoint |-> TRUE,
          endpoints |-> {}]
Traces == [Quiet EXCEPT !.browserOff = {"metrics", "logs"}]
Telemetries ==
  {[Quiet EXCEPT !.browserOff = {}],
   [Quiet EXCEPT !.browserOff = {}, !.off = {"logs"}, !.exporters = {"metrics", "logs"}],
   [Quiet EXCEPT !.browserOff = {"traces"}, !.endpoint = FALSE, !.endpoints = {"traces", "logs"}]}

\* Batches: one that passes, and one for each check that it may not pass.
Batch == [signal |-> "traces", fetchSite |-> "same-origin", origin |-> "same",
          encoding |-> "absent", type |-> "protobuf", declared |-> "small", body |-> "small"]
Untrusted  == [Batch EXCEPT !.origin = "other"]
Compressed == [Batch EXCEPT !.encoding = "gzip"]
MCBatches ==
  UNION {{[b EXCEPT !.signal = signal] : signal \in SignalNames} :
    b \in {Batch, Untrusted, Compressed,
           [Batch EXCEPT !.origin = "allowed", !.encoding = "identity", !.type = "json"],
           [Batch EXCEPT !.fetchSite = "cross-site", !.origin = "none"],
           [Batch EXCEPT !.type = "text"], [Batch EXCEPT !.declared = "too large"],
           [Batch EXCEPT !.body = "broken"], [Batch EXCEPT !.body = "too large"]}}

Traffic(addresses, batches, collectors, most) ==
  [addresses |-> addresses, batches |-> batches, collectors |-> collectors, most |-> most]

Site(backend, stage, store, designs) ==
  [backend |-> backend, stage |-> stage, store |-> store, filename |-> FALSE,
   cluster |-> FALSE, telemetry |-> Quiet, processes |-> {"serve"}, designs |-> designs,
   binaries |-> {[version |-> 1, shape |-> 64]}, rows |-> {"r1", "r2"},
   traffic |-> Traffic({}, {}, {}, 0), faults |-> 2]

Few == {Standard, Design(Http(Absent, Off, At(<<"admin">>)), "persistent", "destroy", "none"),
        Design(Http(Given, Absent, Absent), "ephemeral", "absent", "absent")}

MCSites ==
  {Site("Fly", "production", "provided", {d}) : d \in Storage \cup Others}
  \cup {Site("Railway", "production", "provided", {d}) : d \in Storage \cup Others}
  \cup {Site("Fly", "production", "provided", Few), Site("Railway", "production", "provided", Few),
        Site("Fly", "staging", "local", Few), Site("Railway", "production", "local", Few)}
  \cup {Site("Cloudflare", "staging", "local", {d}) : d \in Others}
  \cup {Site("Bun", "local", "local", {Design(h, "absent", "absent", "absent")}) : h \in Https}
  \cup {[Site("Bun", "local", "local", Few) EXCEPT !.filename = TRUE]}
  \cup {[Site("Bun", "local", "local", {Standard}) EXCEPT
           !.cluster = TRUE, !.processes = {"serve", "worker"}, !.rows = {}, !.faults = 4,
           !.binaries = {[version |-> 1, shape |-> 64], [version |-> 2, shape |-> 64],
                         [version |-> 2, shape |-> 128]}]}
  \cup {[Site("Bun", "local", "local", {Standard}) EXCEPT
           !.telemetry = Traces, !.rows = {}, !.faults = 1, !.traffic = t] :
             t \in {Traffic(Addresses, {Batch, Untrusted}, {"up"}, 5),
                   Traffic({CHOOSE a \in Addresses : TRUE}, {Batch, Compressed}, {"up", "down"}, 5)}}
  \cup {[Site("Bun", "local", "local", {Standard, Design(Http(On, On, Off), "absent", "absent", "absent")})
           EXCEPT !.telemetry = t, !.rows = {}, !.faults = 0,
                  !.traffic = Traffic({CHOOSE a \in Addresses : TRUE}, MCBatches, {"up", "down"}, 2)] :
             t \in Telemetries}

MCMalformedIds == {"", " key"}
=============================================================================
