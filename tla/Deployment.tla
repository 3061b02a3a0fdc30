----------------------------- MODULE Deployment -----------------------------
(***************************************************************************)
(* An application deployed from its infrastructure definition, and the     *)
(* processes that serve it.  A deployment compiles the design, resolves    *)
(* the backend's plan and replaces the process of the stack; on the local  *)
(* Bun host the processes `serve` and `worker` are started by hand.  A     *)
(* process opens the database and prepares it, builds its services (among  *)
(* them, for the applications that use it, the cluster runtime, which      *)
(* compares its topology with the one the execution store records),        *)
(* starts its background and then its routes; it may fail or be killed at  *)
(* every point, and what it holds in memory is then gone.  The telemetry   *)
(* gateway is part of a process that serves the UI.                        *)
(*                                                                         *)
(* A site is where it is deployed: its backend, its stage, the store of    *)
(* the deployment state, whether a database filename is configured, whether *)
(* the application uses the cluster runtime or a telemetry gateway, and    *)
(* what is tried there: the designs, the topologies of the binaries, the   *)
(* rows that clients write, the traffic of a gateway (who sends what, what  *)
(* becomes of the collector and the most requests that are answered), and  *)
(* how many failures, kills and upgrades.                                  *)
(***************************************************************************)
EXTENDS Infrastructure, Gateway

CONSTANTS
  Sites,       \* records [backend, stage, store, filename, cluster, telemetry, processes,
               \*   designs, binaries, rows, traffic, faults]; a binary is the topology
               \*   [version, shape] it is built for, its shape the shards and groups
  MaxTime,     \* bound of the clock
  None,        \* no design, no topology
  Removed      \* the design of a stack that was destroyed

\* The cluster runtime is used on the local host; a provider runs one process.
ASSUME SitesAssumption ==
  \A s \in Sites :
    /\ s.binaries \subseteq [version : Nat, shape : Nat] /\ None \notin s.binaries
    /\ s.traffic.addresses \subseteq Addresses
    /\ \A d \in s.designs : d.durability \in {"absent", "persistent", "ephemeral"}
    /\ s.cluster => s.backend = "Bun"

\* The options of HTTP and the parts of a design, as the definition takes them.
ASSUME DesignsAssumption ==
  \A s \in Sites : \A d \in s.designs :
    /\ \A kind \in Kinds :
         \/ d.http[kind] \in {Absent, Off, On, Given}
         \/ d.http[kind] = At(d.http[kind].path) /\ d.http[kind].path \in Seq(STRING)
    /\ d.parts \in Seq(ToSet(d.parts))

VARIABLES
  site,      \* the site, chosen once
  design,    \* the design in force, None before the first deployment
  stack,     \* the resources of a provider's stack
  disk,      \* rows in the database file, on the volume or the local disk
  process,   \* per process: its stage, topology, design, rows in memory and routes
  topology,  \* the execution store's record of the topology, None before the first start
  acked,     \* rows whose write was acknowledged by a process of a persistent design
  faults,    \* failures and upgrades so far
  now,       \* clock
  windows,   \* the gateway's table
  requests   \* what the running gateway answered to trusted pages: records
             \*   [address, at, status]

vars == <<site, design, stack, disk, process, topology, acked, faults, now, windows, requests>>
gateway == <<now, windows, requests>>

Down == [stage |-> "down", topology |-> None, design |-> None, memory |-> {}, routes |-> {}]
NoWindows == [key \in {} |-> 0]

Init ==
  /\ site \in Sites
  /\ design = None
  /\ stack = {}
  /\ disk = {}
  /\ process = [p \in site.processes |-> Down]
  /\ topology = None
  /\ acked = {}
  /\ faults = 0
  /\ now = Minute
  /\ windows = NoWindows
  /\ requests = <<>>

Local == site.backend = "Bun"

(***************************************************************************)
(* Deploying and removing.                                                 *)
(***************************************************************************)
Accepted(d) ==
  /\ Compiles(d)
  /\ CASE site.backend = "Fly"        -> FlyPlan(d)
       [] site.backend = "Railway"    -> RailwayPlan(d)
       [] site.backend = "Cloudflare" -> CloudflarePlan(d)
       [] site.backend = "Bun"        -> BunPlan(d, site.filename)

Resources(d) == IF site.backend = "Fly" THEN FlyResources(d) ELSE RailwayResources(d)

\* A redeployment keeps the durability of the one in force, and a destroyed
\* stack is not deployed again: what a provider does with a volume its stack
\* does not name is not in this repository.  There is nothing Cloudflare deploys.
Deployable(d) ==
  /\ site.backend # "Cloudflare" /\ Accepted(d)
  /\ design # Removed
  /\ design # None => Persistent(d) = Persistent(design)

\* A provider's stack is made or updated, and its service replaced.
Deploy(d) ==
  /\ ~Local /\ Deployable(d)
  /\ ValidateDeploymentState(site.stage, site.store)
  /\ design' = d
  /\ stack' = Resources(d)
  /\ process' = [p \in site.processes |-> [Down EXCEPT !.stage = "starting", !.design = d]]
  /\ UNCHANGED <<site, disk, topology, acked, faults, gateway>>

\* On the local host a design is what the next process is started with.
Edit(d) ==
  /\ Local /\ Deployable(d)
  /\ design' = d
  /\ UNCHANGED <<site, stack, disk, process, topology, acked, faults, gateway>>

Kept == IF site.backend = "Fly" THEN FlyKept(design, site.stage) ELSE RailwayKept(design, site.stage)

\* A service that is kept goes on; a volume that is not takes its rows along.
Destroy ==
  /\ ~Local /\ design \notin {None, Removed}
  /\ design' = Removed
  /\ stack' = stack \cap Kept
  /\ process' = IF "service" \in Kept THEN process ELSE [p \in site.processes |-> Down]
  /\ disk' = IF "volume" \in Kept THEN disk ELSE {}
  /\ acked' = IF site.stage = "production" /\ design.removal \in {"absent", "retain"} THEN acked ELSE {}
  /\ UNCHANGED <<site, topology, faults, gateway>>

(***************************************************************************)
(* A process starts.                                                       *)
(***************************************************************************)
Goes(p, stage) == process' = [process EXCEPT ![p].stage = stage]

\* By hand on the local host, with the binary at hand; by the provider, once
\* a process it runs is down.
Start(p, binary) ==
  /\ process[p].stage = "down" /\ design \notin {None, Removed}
  /\ process' = [process EXCEPT ![p] = [Down EXCEPT !.stage = "starting", !.topology = binary,
                                                    !.design = design]]
  /\ UNCHANGED <<site, design, stack, disk, topology, acked, faults, gateway>>

\* The UI's assets are read, the database opened and its migrations applied.
Prepare(p) ==
  /\ process[p].stage = "starting"
  /\ Goes(p, "prepared")
  /\ UNCHANGED <<site, design, stack, disk, topology, acked, faults, gateway>>

\* The cluster runtime records its topology unless one is recorded, then
\* compares with what it reads back.
RecordTopology(p) ==
  /\ process[p].stage = "prepared" /\ site.cluster
  /\ topology' = IF topology = None THEN process[p].topology ELSE topology
  /\ Goes(p, "recorded")
  /\ UNCHANGED <<site, design, stack, disk, acked, faults, gateway>>

\* Fault: only the version is compared.
FaultTopologyMatches(mine, stored) == stored.version = mine.version

TopologyMatches(mine, stored) ==
  /\ stored.version = mine.version
  /\ stored.shape = mine.shape

CompareTopology(p) ==
  /\ process[p].stage = "recorded"
  /\ IF TopologyMatches(process[p].topology, topology)
     THEN Goes(p, "services")
     ELSE process' = [process EXCEPT ![p] = Down]
  /\ UNCHANGED <<site, design, stack, disk, topology, acked, faults, gateway>>

\* The other services, the initialization and the background, which the
\* process runs from here on.
StartBackground(p) ==
  /\ process[p].stage = (IF site.cluster THEN "services" ELSE "prepared")
  /\ Goes(p, "background")
  /\ UNCHANGED <<site, design, stack, disk, topology, acked, faults, gateway>>

\* The gateway is a part of the UI.
UiGateway(options) ==
  IF ResolveEndpoint("ui", options["ui"]) = {} THEN {} ELSE GatewayRoutes(site.telemetry)

\* The routes are built last; a worker has none.
Serve(p) ==
  LET options == HttpOptions(Runtime(process[p].design))
  IN /\ process[p].stage = "background" /\ p # "worker"
     /\ process' = [process EXCEPT ![p] = IF Servable(options)
                      THEN [@ EXCEPT !.stage = "serving",
                                     !.routes = BuildHttpLayer(options) \cup UiGateway(options)]
                      ELSE Down]
     /\ UNCHANGED <<site, design, stack, disk, topology, acked, faults, gateway>>

\* A failed step of the start, or a kill.
Fail(p) ==
  /\ process[p].stage # "down"
  /\ faults < site.faults
  /\ faults' = faults + 1
  /\ process' = [process EXCEPT ![p] = Down]
  /\ IF process[p].stage = "serving"
     THEN windows' = NoWindows /\ requests' = <<>>
     ELSE UNCHANGED <<windows, requests>>
  /\ UNCHANGED <<site, design, stack, disk, topology, acked, now>>

\* The one-use upgrade, run as a compare-and-set in the maintenance window:
\* every client and runner is stopped.
AdvanceTopology(from, to) ==
  /\ site.cluster
  /\ \A p \in site.processes : process[p].stage = "down"
  /\ faults < site.faults
  /\ faults' = faults + 1
  /\ topology' = IF topology # None /\ topology.version = from /\ to.version > from
                 THEN to ELSE topology
  /\ UNCHANGED <<site, design, stack, disk, process, acked, gateway>>

(***************************************************************************)
(* A serving process at work.                                              *)
(***************************************************************************)
Write(p, row) ==
  /\ process[p].stage = "serving"
  /\ \E route \in process[p].routes : route[2] \in {"rpc", "mcp", "call"}
  /\ IF DatabaseFile(process[p].design) = "file"
     THEN disk' = disk \cup {row} /\ UNCHANGED process
     ELSE /\ process' = [process EXCEPT ![p].memory = @ \cup {row}]
          /\ UNCHANGED disk
  /\ acked' = IF process[p].design.durability \in {"absent", "persistent"} THEN acked \cup {row} ELSE acked
  /\ UNCHANGED <<site, design, stack, topology, faults, gateway>>

\* One step of the clock.
Tick ==
  /\ site.traffic.most > 0 /\ now < MaxTime
  /\ now' = now + 1
  /\ UNCHANGED <<site, design, stack, disk, process, topology, acked, faults, windows, requests>>

\* A page sends a batch to the route of a signal, and the collector is asked
\* when it passes.  A page that is not trusted is answered 403 and not counted.
Receive(p, address, batch, collector) ==
  LET next == UpdateRateLimit(windows, address, now)
  IN /\ process[p].stage = "serving"
     /\ \E route \in process[p].routes : route[2] = batch.signal
     /\ IF Trusted(batch)
        THEN /\ Len(requests) < site.traffic.most
             /\ windows' = next.windows
             /\ requests' = Append(requests, [address |-> address, at |-> now,
                                              status |-> Forward(batch, next.limited, collector)])
        ELSE UNCHANGED <<windows, requests>>
     /\ UNCHANGED <<site, design, stack, disk, process, topology, acked, faults, now>>

Next ==
  \/ \E d \in site.designs : Deploy(d) \/ Edit(d)
  \/ Destroy
  \/ \E p \in site.processes, binary \in site.binaries : Start(p, binary)
  \/ \E p \in site.processes :
       \/ Prepare(p) \/ RecordTopology(p) \/ CompareTopology(p)
       \/ StartBackground(p) \/ Serve(p) \/ Fail(p)
  \/ \E from \in {t.version : t \in site.binaries}, to \in site.binaries : AdvanceTopology(from, to)
  \/ \E p \in site.processes, row \in site.rows : Write(p, row)
  \/ Tick
  \/ \E p \in site.processes, address \in site.traffic.addresses,
        batch \in site.traffic.batches, collector \in site.traffic.collectors :
          Receive(p, address, batch, collector)

Spec == Init /\ [][Next]_vars
-----------------------------------------------------------------------------
(***************************************************************************)
(* Properties.                                                             *)
(***************************************************************************)
Serving(p) == process[p].stage = "serving"

\* A process that serves has a route for what its design publishes and for
\* nothing else: an option left out or switched off publishes nothing, though
\* the runtime by itself takes an absent RPC or MCP option for an endpoint.  No
\* two handlers share a path, so no publication hides another.
Declared(d) ==
  (IF d.http["ui"].is \in {"absent", "off"} THEN {} ELSE GatewayRoutes(site.telemetry)) \cup
  UNION {Routes(kind, IF d.http[kind].is = "at" THEN d.http[kind].path ELSE DefaultPath[kind]) :
           kind \in {k \in Kinds : d.http[k].is \notin {"absent", "off"}}}

ServedAsDeclared ==
  \A p \in site.processes : Serving(p) =>
    /\ process[p].routes = Declared(process[p].design)
    /\ \A r, s \in process[p].routes : r[1] = s[1] => r = s

\* A row acknowledged under a persistent design outlives failed starts, kills,
\* redeployments and, in production, a removal whose lifecycle does not say to
\* destroy it; and every process that serves such a design has it.
Visible(p) == IF DatabaseFile(process[p].design) = "file" THEN disk ELSE process[p].memory

AcknowledgedRowsLast ==
  /\ acked \subseteq disk
  /\ \A p \in site.processes :
       Serving(p) /\ process[p].design.durability # "ephemeral" => acked \subseteq Visible(p)

\* Every process that got past the comparison runs the topology the execution
\* store records, so two processes that run background work at the same time
\* run one topology: whichever started first, was killed half-way, or was
\* upgraded between by an effect run twice or out of order.
RunnersAgree ==
  \A p \in site.processes :
    site.cluster /\ process[p].stage \in {"services", "background", "serving"} =>
      process[p].topology = topology

\* The gateway refuses an address for its rate only when it, or, with the table
\* full, the addresses without a window, sent more than the limit within a
\* minute, whatever became of those batches; it passes on at most twice the
\* limit of one address within a minute, over all its routes, as long as the
\* table is not full; and its table does not grow past one window more than its
\* capacity.
Within(minute, i) == {j \in 1..i : requests[j].at >= requests[i].at - minute}
From(address) == {i \in DOMAIN requests : requests[i].address = address}
Senders == {requests[i].address : i \in DOMAIN requests}

GatewayLimits ==
  /\ Cardinality(DOMAIN windows) <= Capacity + 1
  /\ \A i \in DOMAIN requests :
       LET address == requests[i].address
           recent  == Within(Minute, i)
           passed  == {j \in recent : requests[j].status \in {200, 502}}
       IN /\ requests[i].status = 429 =>
               \/ Cardinality(recent \cap From(address)) > RequestsPerMinute
               \/ /\ Cardinality(Senders) > Capacity
                  /\ Cardinality(recent) > RequestsPerMinute
          /\ Cardinality(Senders) <= Capacity =>
               Cardinality(passed \cap From(address)) <= 2 * RequestsPerMinute
=============================================================================
