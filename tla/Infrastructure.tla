--------------------------- MODULE Infrastructure ---------------------------
(***************************************************************************)
(* How a deployment is described and turned into a plan: the design of an  *)
(* application's infrastructure, the resources it defines, the compiler's  *)
(* checks, the capabilities a backend must have, the plan every            *)
(* interpreter resolves, and the HTTP options it hands to the runtime.     *)
(*                                                                         *)
(* A path is the sequence of its segments, "/" the empty one, and a        *)
(* trailing slash an empty last segment.  A resource is a record; `copy`   *)
(* stands for its identity, which the code compares, so a descriptor built *)
(* twice is two resources.  An option is absent, off, on, an object that   *)
(* names no path, or an object with a path.  A resource is built from      *)
(* those it refers to, so the compiler's search for cycles never finds one *)
(* and is not repeated here.                                               *)
(***************************************************************************)
EXTENDS Naturals, Sequences, SequencesExt

CONSTANT MalformedIds   \* the IDs that are empty or padded with blanks

Absent   == [is |-> "absent"]
Off      == [is |-> "off"]
On       == [is |-> "on"]
Given    == [is |-> "given"]
At(path) == [is |-> "at", path |-> path]

Kinds == {"rpc", "mcp", "ui"}
DefaultPath == [rpc |-> <<"rpc", "v1">>, mcp |-> <<"mcp">>, ui |-> <<>>]
Default(value, fallback) == IF value = "absent" THEN fallback ELSE value

(***************************************************************************)
(* The definition.                                                         *)
(***************************************************************************)
Enabled(option, fallback) ==
  CASE option.is \in {"absent", "off"} -> <<>>
    [] option.is = "at"                -> <<option.path>>
    [] OTHER                           -> <<fallback>>

Published(http, kind) ==
  LET paths == Enabled(http[kind], DefaultPath[kind])
  IN [i \in DOMAIN paths |-> [kind |-> kind, path |-> paths[i]]]

Publications(http) ==
  Published(http, "rpc") \o Published(http, "mcp") \o Published(http, "ui")

Database(design) ==
  [tag          |-> "SqliteStore",
   id           |-> "application",
   durability   |-> Default(design.durability, "persistent"),
   transactions |-> Default(design.transactions, "interactive"),
   topology     |-> Default(design.topology, "single"),
   removal      |-> Default(design.removal, "retain"),
   backups      |-> Default(design.backups, "none"),
   copy         |-> 0]

Runtime(design) ==
  [tag          |-> "HttpRuntime",
   id           |-> "api",
   execution    |-> Default(design.execution, "process"),
   bindings     |-> <<[tag |-> "ReadWriteSqlite", target |-> Database(design)]>> \o design.bindings,
   publications |-> Publications(design.http),
   copy         |-> 0]

PublicEndpoint(design) ==
  IF design.public.is \in {"absent", "off"} THEN <<>>
  ELSE <<[tag |-> "PublicEndpoint", id |-> "public", target |-> Runtime(design), copy |-> 0]>>

Parts(design) ==
  <<Database(design), Runtime(design)>> \o PublicEndpoint(design) \o design.parts

(***************************************************************************)
(* The compiler: what it refuses, and the capabilities it derives.         *)
(***************************************************************************)
RuntimeTags == {"HttpRuntime", "BackgroundRuntime", "ScheduledRuntime"}

Dependencies(resource) ==
  CASE resource.tag \in RuntimeTags -> {resource.bindings[i].target : i \in DOMAIN resource.bindings}
    [] resource.tag \in {"PublicEndpoint", "Domain"} -> {resource.target}
    [] OTHER -> {}

ApplicationUiPaths(path) ==
  <<path, path \o <<"client.js">>, path \o <<"style.css">>,
    path \o <<"api">>, path \o <<"api", "call">>>>

PublicationPaths(publication) ==
  IF publication.kind = "ui" THEN ApplicationUiPaths(publication.path) ELSE <<publication.path>>

ValidIds(parts) ==
  /\ \A i \in DOMAIN parts : parts[i].id \notin MalformedIds
  /\ \A i, j \in DOMAIN parts : parts[i].id = parts[j].id => i = j

ValidDependencies(parts) ==
  \A i \in DOMAIN parts : Dependencies(parts[i]) \subseteq ToSet(parts)

\* Only an HTTP runtime publishes: each kind once, and no path of one kind
\* among the paths of another.
ValidPublications(resource) ==
  resource.tag = "HttpRuntime" =>
    \A i, j \in DOMAIN resource.publications :
      LET p == resource.publications[i]
          q == resource.publications[j]
      IN i # j => /\ p.kind # q.kind
                  /\ ToSet(PublicationPaths(p)) \cap ToSet(PublicationPaths(q)) = {}

Compiles(design) ==
  /\ ValidIds(Parts(design))
  /\ ValidDependencies(Parts(design))
  /\ \A i \in DOMAIN Parts(design) : ValidPublications(Parts(design)[i])

BindingCapabilities(binding) ==
  CASE binding.tag \in {"ReadObjectStore", "WriteObjectStore"} -> {"storage:object"}
    [] binding.tag \in {"ProduceQueue", "ConsumeQueue"}        -> {"queue:at-least-once"}
    [] binding.tag = "UseSecret"                               -> {"configuration:secret"}
    [] binding.tag = "EmitTelemetry"                           -> {"observability:otlp"}
    [] binding.tag \in {"ReadWriteSqlite", "UseVariable"}      -> {}

ResourceCapabilities(resource) ==
  CASE resource.tag \in RuntimeTags ->
         UNION {BindingCapabilities(resource.bindings[i]) : i \in DOMAIN resource.bindings}
         \cup {resource.execution}
         \cup (CASE resource.tag = "BackgroundRuntime" -> {"runtime:background"}
                 [] resource.tag = "ScheduledRuntime"  -> {"runtime:scheduled"}
                 [] OTHER                              -> {})
    [] resource.tag = "SqliteStore" ->
         {resource.transactions, resource.topology, resource.backups}
         \cup (IF resource.durability = "persistent" THEN {"filesystem:durable"} ELSE {})
    [] resource.tag = "DurableFilesystem" -> {"filesystem:durable"}
    [] resource.tag = "ObjectStore"       -> {"storage:object"}
    [] resource.tag = "Queue"             -> {"queue:at-least-once"}
    [] resource.tag = "Secret"            -> {"configuration:secret"}
    [] resource.tag = "PublicEndpoint"    -> {"network:public-http"}
    [] resource.tag = "Domain"            -> {"network:domain"}
    [] resource.tag = "OtlpDestination"   -> {"observability:otlp"}
    [] resource.tag = "Extension"         -> {"extension"}
    [] resource.tag = "Variable"          -> {}

Capabilities(design) ==
  UNION {ResourceCapabilities(Parts(design)[i]) : i \in DOMAIN Parts(design)}

(***************************************************************************)
(* The backends' capabilities.  The local Bun host asks for none of them.  *)
(* "none", "daily" and "weekly" are backup schedules.                      *)
(***************************************************************************)
Railway    == {"process", "batch", "interactive", "filesystem:durable", "single", "none",
               "network:public-http"}
Fly        == Railway \cup {"daily", "weekly"}
Cloudflare == {"request", "batch", "single", "none", "runtime:scheduled", "storage:object",
               "queue:at-least-once", "configuration:secret", "network:public-http",
               "network:domain", "observability:otlp"}

ValidateCapabilities(backend, design) == Capabilities(design) \subseteq backend

(***************************************************************************)
(* The application plan: one runtime, one store it binds exactly once, at  *)
(* most one endpoint, and that of this runtime; nothing else.              *)
(***************************************************************************)
ResourcesWithTag(parts, tag) == SelectSeq(parts, LAMBDA r : r.tag = tag)

ResolvesPlan(design) ==
  LET parts     == Parts(design)
      runtimes  == ResourcesWithTag(parts, "HttpRuntime")
      stores    == ResourcesWithTag(parts, "SqliteStore")
      endpoints == ResourcesWithTag(parts, "PublicEndpoint")
      sqlite    == ResourcesWithTag(runtimes[1].bindings, "ReadWriteSqlite")
  IN /\ {parts[i].tag : i \in DOMAIN parts} \subseteq {"HttpRuntime", "SqliteStore", "PublicEndpoint"}
     /\ Len(runtimes) = 1
     /\ Len(stores) = 1
     /\ Len(endpoints) <= 1
     /\ Len(sqlite) = 1
     /\ sqlite[1].target = stores[1]
     /\ \A i \in DOMAIN endpoints : endpoints[i].target = runtimes[1]

(***************************************************************************)
(* What each interpreter of a compiled design accepts.  Cloudflare only    *)
(* validates; the local host refuses a filename for an ephemeral database. *)
(***************************************************************************)
Persistent(design) == Database(design).durability = "persistent"

FlyPlan(design)        == ValidateCapabilities(Fly, design) /\ ResolvesPlan(design)
RailwayPlan(design)    == ValidateCapabilities(Railway, design) /\ ResolvesPlan(design)
CloudflarePlan(design) == ValidateCapabilities(Cloudflare, design)
BunPlan(design, filename) == ResolvesPlan(design) /\ (filename => Persistent(design))

(***************************************************************************)
(* What a provider's stack is made of, and what of it a removal keeps.  On *)
(* Fly the volume belongs to the service's machine; on Railway the project *)
(* is never kept.  A public endpoint is an address on Fly and an attribute *)
(* of the service on Railway.                                              *)
(***************************************************************************)
\* Fault: the production stage has another name.
FaultRetainedInProduction(database, stage) ==
  stage = "prod" /\ database.removal = "retain"

\* A database is retained when the stage is production and its lifecycle says so.
RetainedInProduction(database, stage) ==
  stage = "production" /\ database.removal = "retain"

FlyResources(design) ==
  {"app", "service"} \cup (IF Persistent(design) THEN {"volume"} ELSE {})
    \cup (IF PublicEndpoint(design) = <<>> THEN {} ELSE {"address"})

FlyKept(design, stage) ==
  IF RetainedInProduction(Database(design), stage) THEN {"app", "service", "volume"} ELSE {}

RailwayResources(design) ==
  {"project", "service"} \cup (IF Persistent(design) THEN {"volume"} ELSE {})

RailwayKept(design, stage) ==
  IF RetainedInProduction(Database(design), stage) THEN {"volume"} ELSE {}

\* The database of a process: a file on the volume, or its memory.
DatabaseFile(design) == IF Persistent(design) THEN "file" ELSE ":memory:"

\* No stack is deployed to production with its state in a local store.
ValidateDeploymentState(stage, store) == ~(stage = "production" /\ store = "local")

(***************************************************************************)
(* From the plan to what the HTTP runtime serves.  `HttpOptions` says what *)
(* the runtime is given, `ResolveEndpoint` what it makes of an option:     *)
(* there an absent RPC or MCP option is an endpoint at the default path.   *)
(***************************************************************************)
FirstOf(indices) == CHOOSE i \in indices : \A j \in indices : i <= j

\* Fault: a kind that is not published is left out of the options.
FaultPublicationPath(publications, kind) ==
  LET found == {i \in DOMAIN publications : publications[i].kind = kind}
  IN IF found = {} THEN Absent ELSE At(publications[FirstOf(found)].path)

PublicationPath(publications, kind) ==
  LET found == {i \in DOMAIN publications : publications[i].kind = kind}
  IN IF found = {} THEN Off ELSE At(publications[FirstOf(found)].path)

HttpOptions(runtime) == [kind \in Kinds |-> PublicationPath(runtime.publications, kind)]

ResolveEndpoint(kind, option) ==
  CASE option.is = "at"     -> {option.path}
    [] option.is = "absent" -> IF kind = "ui" THEN {} ELSE {DefaultPath[kind]}
    [] option.is = "on"     -> {DefaultPath[kind]}
    [] option.is = "off"    -> {}

\* The routes of one kind: the UI's five, in the order it registers them.
Routes(kind, path) ==
  IF kind # "ui" THEN {<<path, kind>>}
  ELSE LET names == <<"document", "javascript", "stylesheet", "api", "call">>
       IN {<<ApplicationUiPaths(path)[i], names[i]>> : i \in 1..5}

BuildHttpLayer(options) ==
  UNION {UNION {Routes(kind, path) : path \in ResolveEndpoint(kind, options[kind])} :
           kind \in Kinds}

\* The UI refuses, when it is started, a path with an empty segment.
Servable(options) ==
  \A path \in ResolveEndpoint("ui", options["ui"]) : "" \notin ToSet(path)

=============================================================================
