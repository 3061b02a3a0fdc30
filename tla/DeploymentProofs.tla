-------------------------- MODULE DeploymentProofs --------------------------
(***************************************************************************)
(* For any sites, processes, binaries, designs and traffic:                *)
(*   - processes that run background work at the same time run the         *)
(*     topology the execution store records.  `RunnersAgree` alone is not  *)
(*     inductive: between recording a topology and comparing it a process  *)
(*     relies on there being one, and what it compares must be the         *)
(*     topology of a binary;                                               *)
(*   - the rows the execution store acknowledged last as long as the       *)
(*     design that declares them: what a deployment removes from the       *)
(*     volumes is no longer promised either;                               *)
(*   - the gateway limits each sender.  The table of windows and the log   *)
(*     of requests are related by counting: while the table is not full no *)
(*     window is dropped, so a window's count is the number of requests    *)
(*     the log has since the window started;                               *)
(*   - what a process serves is what its design declares: the options of   *)
(*     a design become publications, publications the runtime's options,   *)
(*     and these routes, and the design a process serves has compiled.     *)
(***************************************************************************)
EXTENDS Deployment, FiniteSetTheorems, SequenceTheorems, TLAPS, WellFoundedInduction

Compared == {"services", "background", "serving"}

\* The part of the state that the topology depends on.
Processes ==
  /\ site \in Sites
  /\ DOMAIN process = site.processes
  /\ \A p \in site.processes : {"stage", "topology"} \subseteq DOMAIN process[p]

Binaries ==
  site.cluster =>
    /\ topology \in site.binaries \cup {None}
    /\ \A p \in site.processes : process[p].stage # "down" => process[p].topology \in site.binaries

Recorded ==
  site.cluster =>
    \A p \in site.processes : process[p].stage \in Compared \cup {"recorded"} => topology \in site.binaries

IInv == Processes /\ Binaries /\ Recorded /\ RunnersAgree

LEMMA InitHolds == Init => IInv
  BY SitesAssumption DEF Init, IInv, Processes, Binaries, Recorded, RunnersAgree, Down, Compared

\* A process at its new stage: what the invariant needs of a start that goes on.
LEMMA GoesOn ==
  ASSUME IInv, NEW p \in site.processes, NEW stage, Goes(p, stage),
         process[p].stage # "down",
         stage # "down",
         UNCHANGED <<site, topology>>,
         site.cluster /\ stage \in Compared \cup {"recorded"} => topology \in site.binaries,
         site.cluster /\ stage \in Compared => process[p].topology = topology
  PROVE  IInv'
<1>1. /\ DOMAIN process' = site.processes
      /\ process'[p].stage = stage /\ process'[p].topology = process[p].topology
      /\ DOMAIN process'[p] = DOMAIN process[p]
      /\ \A q \in site.processes : q # p => process'[q] = process[q]
  BY DEF IInv, Processes, Goes
<1>2. Processes' /\ Binaries'
  BY <1>1 DEF IInv, Processes, Binaries
<1>3. Recorded' /\ RunnersAgree'
  BY <1>1 DEF IInv, Recorded, RunnersAgree, Compared
<1> QED
  BY <1>2, <1>3 DEF IInv

\* A process that is down has no part in the invariant.
LEMMA GoesDown ==
  ASSUME IInv, NEW p \in site.processes, process' = [process EXCEPT ![p] = Down],
         UNCHANGED <<site, topology>>
  PROVE  IInv'
<1>1. /\ DOMAIN process' = site.processes
      /\ process'[p].stage = "down" /\ {"stage", "topology"} \subseteq DOMAIN process'[p]
      /\ \A q \in site.processes : q # p => process'[q] = process[q]
  BY DEF IInv, Processes, Down
<1>2. Processes' /\ Binaries' /\ Recorded' /\ RunnersAgree'
  BY <1>1 DEF IInv, Processes, Binaries, Recorded, RunnersAgree, Compared
<1> QED
  BY <1>2 DEF IInv

LEMMA StepHolds == IInv /\ [Next]_vars => IInv'
<1> SUFFICES ASSUME IInv, [Next]_vars PROVE IInv'
  OBVIOUS
<1>1. ASSUME NEW d \in site.designs, Deploy(d) PROVE IInv'
  <2>1. ~site.cluster
    BY <1>1, SitesAssumption DEF Deploy, Local, IInv, Processes
  <2>2. Processes'
    BY <1>1 DEF Deploy, IInv, Processes, Down
  <2> QED
    BY <1>1, <2>1, <2>2 DEF Deploy, IInv, Binaries, Recorded, RunnersAgree
<1>2. ASSUME NEW d \in site.designs, Edit(d) PROVE IInv'
  BY <1>2 DEF Edit, IInv, Processes, Binaries, Recorded, RunnersAgree
<1>3. CASE Destroy
  <2>1. ~site.cluster
    BY <1>3, SitesAssumption DEF Destroy, Local, IInv, Processes
  <2>2. Processes'
    BY <1>3 DEF Destroy, IInv, Processes, Down
  <2> QED
    BY <1>3, <2>1, <2>2 DEF Destroy, IInv, Binaries, Recorded, RunnersAgree
<1>4. ASSUME NEW p \in site.processes, NEW binary \in site.binaries, Start(p, binary) PROVE IInv'
  <2>1. /\ DOMAIN process' = site.processes
        /\ process'[p].stage = "starting" /\ process'[p].topology = binary
        /\ {"stage", "topology"} \subseteq DOMAIN process'[p]
        /\ \A q \in site.processes : q # p => process'[q] = process[q]
        /\ UNCHANGED <<site, topology>>
    BY <1>4 DEF Start, IInv, Processes, Down
  <2>2. Processes' /\ Binaries' /\ Recorded' /\ RunnersAgree'
    BY <2>1 DEF IInv, Processes, Binaries, Recorded, RunnersAgree, Compared
  <2> QED
    BY <2>2 DEF IInv
<1>5. ASSUME NEW p \in site.processes, Prepare(p) PROVE IInv'
  BY <1>5, GoesOn DEF Prepare, Compared
<1>6. ASSUME NEW p \in site.processes, RecordTopology(p) PROVE IInv'
  <2>1. /\ DOMAIN process' = site.processes
        /\ process'[p].stage = "recorded" /\ process'[p].topology = process[p].topology
        /\ DOMAIN process'[p] = DOMAIN process[p]
        /\ \A q \in site.processes : q # p => process'[q] = process[q]
        /\ UNCHANGED site /\ process[p].stage = "prepared"
    BY <1>6 DEF RecordTopology, Goes, IInv, Processes
  <2>2. topology' \in site.binaries /\ (topology \in site.binaries => topology' = topology)
    BY <1>6, SitesAssumption DEF RecordTopology, IInv, Processes, Binaries
  <2>3. Processes' /\ Binaries'
    BY <2>1, <2>2 DEF IInv, Processes, Binaries
  <2>4. Recorded' /\ RunnersAgree'
    BY <2>1, <2>2 DEF IInv, Recorded, RunnersAgree, Compared
  <2> QED
    BY <2>3, <2>4 DEF IInv
<1>7. ASSUME NEW p \in site.processes, CompareTopology(p) PROVE IInv'
  <2>1. CASE TopologyMatches(process[p].topology, topology)
    <3>1. site.cluster => process[p].topology \in site.binaries /\ topology \in site.binaries
      BY <1>7 DEF CompareTopology, IInv, Binaries, Recorded
    <3>2. site.cluster => process[p].topology = topology
      BY <2>1, <3>1, SitesAssumption DEF TopologyMatches, IInv, Processes
    <3> QED
      BY <1>7, <2>1, <3>1, <3>2, GoesOn DEF CompareTopology
  <2>2. CASE ~TopologyMatches(process[p].topology, topology)
    BY <1>7, <2>2, GoesDown DEF CompareTopology
  <2> QED
    BY <2>1, <2>2
<1>8. ASSUME NEW p \in site.processes, StartBackground(p) PROVE IInv'
  <2>1. site.cluster => topology \in site.binaries /\ process[p].topology = topology
    BY <1>8 DEF StartBackground, IInv, Recorded, RunnersAgree, Compared
  <2>2. process[p].stage # "down"
    BY <1>8 DEF StartBackground
  <2> QED
    BY <1>8, <2>1, <2>2, GoesOn DEF StartBackground
<1>9. ASSUME NEW p \in site.processes, Serve(p) PROVE IInv'
  <2>1. CASE Servable(HttpOptions(Runtime(process[p].design)))
    <3>1. /\ DOMAIN process' = site.processes
          /\ process'[p].stage = "serving" /\ process'[p].topology = process[p].topology
          /\ DOMAIN process'[p] = DOMAIN process[p]
          /\ \A q \in site.processes : q # p => process'[q] = process[q]
          /\ UNCHANGED <<site, topology>>
      BY <1>9, <2>1 DEF Serve, IInv, Processes
    <3>2. process[p].stage = "background"
      BY <1>9 DEF Serve
    <3>3. Processes' /\ Binaries'
      BY <3>1, <3>2 DEF IInv, Processes, Binaries
    <3>4. Recorded' /\ RunnersAgree'
      BY <3>1, <3>2 DEF IInv, Recorded, RunnersAgree, Compared
    <3> QED
      BY <3>3, <3>4 DEF IInv
  <2>2. CASE ~Servable(HttpOptions(Runtime(process[p].design)))
    BY <1>9, <2>2, GoesDown DEF Serve
  <2> QED
    BY <2>1, <2>2
<1>10. ASSUME NEW p \in site.processes, Fail(p) PROVE IInv'
  BY <1>10, GoesDown DEF Fail
<1>11. ASSUME NEW from, NEW to \in site.binaries, AdvanceTopology(from, to) PROVE IInv'
  <2>1. /\ UNCHANGED <<site, process>> /\ \A p \in site.processes : process[p].stage = "down"
        /\ topology' \in {topology, to}
    BY <1>11 DEF AdvanceTopology
  <2> QED
    BY <2>1 DEF IInv, Processes, Binaries, Recorded, RunnersAgree, Compared
<1>12. ASSUME NEW p \in site.processes, NEW row \in site.rows, Write(p, row) PROVE IInv'
  <2>1. /\ DOMAIN process' = site.processes
        /\ process'[p].stage = process[p].stage /\ process'[p].topology = process[p].topology
        /\ DOMAIN process'[p] = DOMAIN process[p]
        /\ \A q \in site.processes : q # p => process'[q] = process[q]
        /\ UNCHANGED <<site, topology>>
    BY <1>12 DEF Write, IInv, Processes
  <2>2. Processes' /\ Binaries' /\ Recorded' /\ RunnersAgree'
    BY <2>1 DEF IInv, Processes, Binaries, Recorded, RunnersAgree, Compared
  <2> QED
    BY <2>2 DEF IInv
<1>13. ASSUME Tick \/ (\E p \in site.processes, address \in site.traffic.addresses,
                   batch \in site.traffic.batches, collector \in site.traffic.collectors :
                     Receive(p, address, batch, collector)) \/ UNCHANGED vars
       PROVE IInv'
  <2>1. UNCHANGED <<site, process, topology>>
    BY <1>13 DEF Tick, Receive, vars
  <2> QED
    BY <2>1 DEF IInv, Processes, Binaries, Recorded, RunnersAgree
<1> QED
  BY <1>1, <1>2, <1>3, <1>4, <1>5, <1>6, <1>7, <1>8, <1>9, <1>10, <1>11, <1>12, <1>13 DEF Next

\* Processes past the comparison share the topology that the execution store
\* records (prepareClusterTopology, advanceClusterTopology).
THEOREM TopologyShared == Spec => []RunnersAgree
<1>1. IInv => RunnersAgree
  BY DEF IInv
<1> QED
  BY InitHolds, StepHolds, <1>1, PTL DEF Spec

(***************************************************************************)
(* Acknowledged rows.  A write is acknowledged as lasting exactly if its   *)
(* process has the database in a file, and what a removal takes away it    *)
(* takes from both sides.                                                  *)
(***************************************************************************)
RowsInv ==
  /\ site \in Sites /\ DOMAIN process = site.processes
  /\ design \in site.designs \cup {None, Removed}
  /\ \A p \in site.processes :
       /\ {"stage", "design"} \subseteq DOMAIN process[p]
       /\ process[p].stage # "down" => process[p].design \in site.designs
  /\ acked \subseteq disk

\* A step that changes no rows and gives a process at most the design in force.
LEMMA NoRowTouched ==
  ASSUME RowsInv, DOMAIN process' = site.processes, UNCHANGED <<site, design, disk, acked>>,
         \A p \in site.processes :
           \/ process'[p] = process[p] \/ process'[p] = Down
           \/ /\ {"stage", "design"} \subseteq DOMAIN process'[p] /\ process[p].stage # "down"
              /\ process'[p].design = process[p].design
           \/ /\ {"stage", "design"} \subseteq DOMAIN process'[p]
              /\ process'[p].design = design /\ design \notin {None, Removed}
  PROVE  RowsInv'
BY DEF RowsInv, Down

\* A removal forgets an acknowledged row only with the volume it is on.
LEMMA RemovalForgets ==
  ASSUME RowsInv, Destroy
  PROVE  acked' \subseteq disk'
<1>1. CASE site.stage = "production" /\ design.removal \in {"absent", "retain"}
  <2>1. RetainedInProduction(Database(design), site.stage)
    BY <1>1 DEF RetainedInProduction, Database, Default
  <2>2. "volume" \in Kept
    BY <2>1 DEF Kept, FlyKept, RailwayKept
  <2> QED
    BY <1>1, <2>2 DEF RowsInv, Destroy
<1>2. CASE ~(site.stage = "production" /\ design.removal \in {"absent", "retain"})
  BY <1>2 DEF Destroy
<1> QED
  BY <1>1, <1>2

LEMMA RowsStep == RowsInv /\ [Next]_vars => RowsInv'
<1> SUFFICES ASSUME RowsInv, [Next]_vars PROVE RowsInv'
  OBVIOUS
<1>1. ASSUME NEW d \in site.designs, Deploy(d) PROVE RowsInv'
  BY <1>1 DEF Deploy, RowsInv, Down
<1>2. ASSUME NEW d \in site.designs, Edit(d) PROVE RowsInv'
  BY <1>2 DEF Edit, RowsInv
<1>3. CASE Destroy
  BY <1>3, RemovalForgets DEF Destroy, RowsInv, Down
<1>4. ASSUME NEW p \in site.processes, NEW binary \in site.binaries, Start(p, binary) PROVE RowsInv'
  BY <1>4, NoRowTouched DEF Start, RowsInv, Down
<1>5. ASSUME NEW p \in site.processes, NEW stage, Goes(p, stage), process[p].stage # "down",
             UNCHANGED <<site, design, disk, acked>>
      PROVE  RowsInv'
  BY <1>5, NoRowTouched DEF Goes, RowsInv
<1>6. ASSUME NEW p \in site.processes, process' = [process EXCEPT ![p] = Down],
             UNCHANGED <<site, design, disk, acked>>
      PROVE  RowsInv'
  BY <1>6, NoRowTouched DEF RowsInv
<1>7. ASSUME NEW p \in site.processes, Prepare(p) PROVE RowsInv'
  BY <1>7, <1>5 DEF Prepare
<1>8. ASSUME NEW p \in site.processes, RecordTopology(p) PROVE RowsInv'
  BY <1>8, <1>5 DEF RecordTopology
<1>9. ASSUME NEW p \in site.processes, CompareTopology(p) PROVE RowsInv'
  BY <1>9, <1>5, <1>6 DEF CompareTopology
<1>10. ASSUME NEW p \in site.processes, StartBackground(p) PROVE RowsInv'
  <2>1. process[p].stage # "down"
    BY <1>10 DEF StartBackground
  <2> QED
    BY <1>10, <2>1, <1>5 DEF StartBackground
<1>11. ASSUME NEW p \in site.processes, Serve(p) PROVE RowsInv'
  <2>1. CASE Servable(HttpOptions(Runtime(process[p].design)))
    <3>1. /\ DOMAIN process' = site.processes
          /\ process'[p].design = process[p].design /\ process[p].stage # "down"
          /\ DOMAIN process'[p] = DOMAIN process[p]
          /\ \A q \in site.processes : q # p => process'[q] = process[q]
      BY <1>11, <2>1 DEF Serve, RowsInv
    <3> QED
      BY <1>11, <3>1, NoRowTouched DEF Serve, RowsInv
  <2>2. CASE ~Servable(HttpOptions(Runtime(process[p].design)))
    BY <1>11, <2>2, <1>6 DEF Serve
  <2> QED
    BY <2>1, <2>2
<1>12. ASSUME NEW p \in site.processes, Fail(p) PROVE RowsInv'
  BY <1>12, <1>6 DEF Fail
<1>13. ASSUME NEW p \in site.processes, NEW row \in site.rows, Write(p, row) PROVE RowsInv'
  <2>1. /\ process[p].stage = "serving" /\ UNCHANGED <<site, design>>
        /\ DOMAIN process' = site.processes
        /\ process'[p].design = process[p].design
        /\ DOMAIN process'[p] = DOMAIN process[p]
        /\ \A q \in site.processes : q # p => process'[q] = process[q]
    BY <1>13 DEF Write, RowsInv
  <2>2. CASE process[p].design.durability \in {"absent", "persistent"}
    <3>1. DatabaseFile(process[p].design) = "file"
      BY <2>2 DEF DatabaseFile, Persistent, Database, Default
    <3> QED
      BY <1>13, <2>1, <2>2, <3>1 DEF Write, RowsInv
  <2>3. CASE process[p].design.durability \notin {"absent", "persistent"}
    BY <1>13, <2>1, <2>3 DEF Write, RowsInv
  <2> QED
    BY <2>2, <2>3
<1>14. ASSUME \/ Tick \/ UNCHANGED vars
              \/ \E from \in {t.version : t \in site.binaries}, to \in site.binaries : AdvanceTopology(from, to)
              \/ \E p \in site.processes, address \in site.traffic.addresses,
                    batch \in site.traffic.batches, collector \in site.traffic.collectors :
                      Receive(p, address, batch, collector)
       PROVE  RowsInv'
  BY <1>14 DEF Tick, Receive, AdvanceTopology, vars, RowsInv
<1> QED
  BY <1>1, <1>2, <1>3, <1>4, <1>7, <1>8, <1>9, <1>10, <1>11, <1>12, <1>13, <1>14 DEF Next

\* Every row that a process of a persistent design acknowledged is on the disk,
\* and every such process that serves shows it (openDatabase, deployCompiled).
THEOREM RowsLast == Spec => []AcknowledgedRowsLast
<1>1. Init => RowsInv
  BY DEF Init, RowsInv, Down
<1>2. RowsInv => AcknowledgedRowsLast
  <2> SUFFICES ASSUME RowsInv, NEW p \in site.processes, Serving(p),
                      process[p].design.durability # "ephemeral"
               PROVE  acked \subseteq Visible(p)
    BY DEF AcknowledgedRowsLast, RowsInv
  <2>1. process[p].design.durability \in {"absent", "persistent"}
    BY SitesAssumption DEF RowsInv, Serving
  <2>2. DatabaseFile(process[p].design) = "file"
    BY <2>1 DEF DatabaseFile, Persistent, Database, Default
  <2> QED
    BY <2>2 DEF Visible, RowsInv
<1> QED
  BY <1>1, <1>2, RowsStep, PTL DEF Spec

(***************************************************************************)
(* The request limit.  A window counts requests of its address since it    *)
(* was started, the shared one of anybody.  As long as the table is not    *)
(* full no window is dropped, so every sender has one; what passed since   *)
(* it was started is within the limit, and so is what passed in the minute *)
(* before.  A minute that ends now meets no third window.                  *)
(***************************************************************************)
Counted(k) == {j \in DOMAIN requests : k = "overflow" \/ requests[j].address = k}
Passed(a) == {j \in From(a) : requests[j].status \in {200, 502}}
Since(S, t) == {j \in S : requests[j].at >= t}
MinuteBefore(S, t) == {j \in S : requests[j].at < t /\ requests[j].at + Minute >= t}

Answers == [address : Addresses, at : Nat, status : Nat]

Log ==
  /\ site \in Sites
  /\ now \in Nat /\ now >= Minute
  /\ requests \in Seq(Answers)
  /\ \A j \in DOMAIN requests :
       requests[j].at \in Nat /\ Minute <= requests[j].at /\ requests[j].at <= now

Table ==
  /\ IsFiniteSet(Senders)
  /\ DOMAIN windows \subseteq Senders \cup {"overflow"}
  /\ Cardinality(DOMAIN windows \ {"overflow"}) <= Capacity
  /\ "overflow" \in DOMAIN windows => Cardinality(Senders) > Capacity
  /\ Cardinality(Senders) <= Capacity => Senders \subseteq DOMAIN windows

WindowOK(k) ==
  /\ windows[k] \in [startedAt : Nat, count : Nat] /\ windows[k].startedAt <= now
  /\ windows[k].count <= Cardinality(Since(Counted(k), windows[k].startedAt))

Paced(a) ==
  /\ Cardinality(Since(Passed(a), windows[a].startedAt)) <= windows[a].count
  /\ Cardinality(Since(Passed(a), windows[a].startedAt)) <= RequestsPerMinute
  /\ Cardinality(MinuteBefore(Passed(a), windows[a].startedAt)) <= RequestsPerMinute
  /\ \A j \in From(a) : requests[j].at <= windows[a].startedAt + Minute

\* The i-th request, which a made.
Refusal(i, a) ==
  requests[i].status = 429 =>
    \/ Cardinality(Within(Minute, i) \cap From(a)) > RequestsPerMinute
    \/ /\ Cardinality(Senders) > Capacity
       /\ Cardinality(Within(Minute, i)) > RequestsPerMinute

Pass(i, a) ==
  Cardinality(Senders) <= Capacity =>
    Cardinality({j \in Within(Minute, i) : requests[j].status \in {200, 502}} \cap From(a))
      <= 2 * RequestsPerMinute

LimitInv ==
  /\ Log
  /\ Table
  /\ \A k \in DOMAIN windows : WindowOK(k)
  /\ Cardinality(Senders) <= Capacity => \A a \in Senders : Paced(a)
  /\ \A i \in DOMAIN requests : \A a : requests[i].address = a => Refusal(i, a) /\ Pass(i, a)

LEMMA Indices ==
  ASSUME Log, NEW S, S \subseteq DOMAIN requests
  PROVE  IsFiniteSet(S) /\ Cardinality(S) \in Nat
<1>1. DOMAIN requests = 1..Len(requests) /\ Len(requests) \in Nat
  BY DEF Log
<1>2. IsFiniteSet(DOMAIN requests)
  BY <1>1, FS_Interval
<1> QED
  BY <1>2, FS_Subset, FS_CardinalityType

LEMMA Bounded ==
  ASSUME Log, NEW S, NEW T, S \subseteq T, T \subseteq DOMAIN requests
  PROVE  /\ Cardinality(S) <= Cardinality(T)
         /\ Cardinality(S) \in Nat /\ Cardinality(T) \in Nat
BY Indices, FS_Subset

LEMMA OneMore ==
  ASSUME NEW S, IsFiniteSet(S), NEW x, x \notin S, NEW T, T = S \cup {x}
  PROVE  Cardinality(T) = Cardinality(S) + 1
BY FS_AddElement

LEMMA AtMostOne ==
  ASSUME NEW x, NEW T, T \subseteq {x}
  PROVE  Cardinality(T) \in Nat /\ Cardinality(T) <= 1
<1>1. CASE T = {}
  BY <1>1, FS_EmptySet
<1>2. CASE T = {x}
  <2>1. Cardinality({x}) = 1
    BY FS_Singleton
  <2> QED
    BY <1>2, <2>1
<1> QED
  BY <1>1, <1>2

\* The table after a request.
LEMMA NextTable ==
  ASSUME LimitInv, NEW address \in Addresses,
         windows' = UpdateRateLimit(windows, address, now).windows
  PROVE  LET active == ActiveWindows(windows, now)
             key    == WindowKey(active, address)
             next   == NextWindow(windows, key, now)
         IN  /\ DOMAIN active \subseteq DOMAIN windows
             /\ DOMAIN windows' = DOMAIN active \cup {key}
             /\ windows'[key] = next
             /\ \A k \in DOMAIN active : k # key => windows'[k] = windows[k]
             /\ UpdateRateLimit(windows, address, now).limited <=> next.count > RequestsPerMinute
             /\ Cardinality(Senders) <= Capacity => active = windows
<1> DEFINE active == ActiveWindows(windows, now)
           key    == WindowKey(active, address)
           next   == NextWindow(active, key, now)
<1>1. /\ DOMAIN active \subseteq DOMAIN windows
      /\ \A k \in DOMAIN active : active[k] = windows[k]
      /\ \A k \in DOMAIN windows : Fresh(windows[k], now) => k \in DOMAIN active
  BY DEF ActiveWindows, Restrict
<1>2. next = NextWindow(windows, key, now)
  BY <1>1 DEF NextWindow
<1>3. windows' = [k \in DOMAIN active \cup {key} |-> IF k = key THEN next ELSE active[k]]
  BY DEF UpdateRateLimit
<1>4. UpdateRateLimit(windows, address, now).limited <=> next.count > RequestsPerMinute
  BY DEF UpdateRateLimit
<1>5. ASSUME Cardinality(Senders) <= Capacity PROVE active = windows
  <2>1. DOMAIN windows \subseteq Senders /\ IsFiniteSet(Senders)
    BY <1>5, GatewayAssumption, FS_CardinalityType DEF LimitInv, Table
  <2>2. Cardinality(DOMAIN windows) <= Cardinality(Senders) /\ Cardinality(DOMAIN windows) \in Nat
        /\ Cardinality(Senders) \in Nat
    BY <2>1, FS_Subset, FS_CardinalityType
  <2> QED
    BY <2>2, <1>5, GatewayAssumption DEF ActiveWindows
<1> HIDE DEF active, key, next
<1>6. /\ DOMAIN windows' = DOMAIN active \cup {key}
      /\ windows'[key] = next
      /\ \A k \in DOMAIN active : k # key => windows'[k] = windows[k]
  BY <1>1, <1>3
<1> QED
  BY <1>1, <1>2, <1>4, <1>5, <1>6 DEF active, key, next

\* A request is logged: what is counted of others stays.
LEMMA Logged ==
  ASSUME LimitInv, NEW address \in Addresses, NEW status \in Nat, NEW n, n = Len(requests) + 1,
         requests' = Append(requests, [address |-> address, at |-> now, status |-> status])
  PROVE  /\ DOMAIN requests' = DOMAIN requests \cup {n} /\ n \notin DOMAIN requests
         /\ requests'[n] = [address |-> address, at |-> now, status |-> status]
         /\ \A j \in DOMAIN requests : requests'[j] = requests[j] /\ requests[j].at \in Nat
         /\ Senders' = Senders \cup {address}
         /\ \A a : From(a)' = From(a) \cup (IF a = address THEN {n} ELSE {})
         /\ \A a : Passed(a)' = Passed(a) \cup
                     (IF a = address /\ status \in {200, 502} THEN {n} ELSE {})
         /\ \A k : Counted(k)' = Counted(k) \cup
                     (IF k = address \/ k = "overflow" THEN {n} ELSE {})
         /\ \A i \in DOMAIN requests : Within(Minute, i)' = Within(Minute, i)
         /\ Within(Minute, n)' = {j \in DOMAIN requests' : requests'[j].at >= now - Minute}
<1> DEFINE r == [address |-> address, at |-> now, status |-> status]
<1>1. requests \in Seq(Answers) /\ r \in Answers
  BY DEF LimitInv, Log, Answers
<1>3. r.address = address /\ r.at = now /\ r.status = status
  OBVIOUS
<1> HIDE DEF r
<1>2. /\ Len(requests) \in Nat /\ n = Len(requests) + 1 /\ n \notin DOMAIN requests
      /\ DOMAIN requests = 1..Len(requests)
      /\ DOMAIN requests' = DOMAIN requests \cup {n}
      /\ requests'[n] = r
      /\ \A j \in DOMAIN requests : requests'[j] = requests[j] /\ requests[j].at \in Nat
  <2>1. requests' = Append(requests, r)
    BY DEF r
  <2>2. Len(requests) \in Nat /\ DOMAIN requests = 1..Len(requests)
    BY <1>1
  <2>3. /\ DOMAIN requests' = 1..n
        /\ requests'[n] = r
        /\ \A j \in DOMAIN requests : requests'[j] = requests[j]
    BY <1>1, <2>1, <2>2
  <2>4. \A j \in DOMAIN requests : requests[j].at \in Nat
    <3>1. \A j \in 1..Len(requests) : requests[j] \in Answers
      BY <1>1
    <3> QED
      BY <2>2, <3>1 DEF Answers
  <2>5. 1..n = 1..Len(requests) \cup {n} /\ n \notin 1..Len(requests)
    BY <2>2
  <2> QED
    BY <2>2, <2>3, <2>4, <2>5
<1>4. Senders' = Senders \cup {address}
  BY <1>2, <1>3 DEF Senders
<1>5. \A a : From(a)' = From(a) \cup (IF a = address THEN {n} ELSE {})
  BY <1>2, <1>3 DEF From
<1>6. \A a : Passed(a)' = Passed(a) \cup (IF a = address /\ status \in {200, 502} THEN {n} ELSE {})
  BY <1>2, <1>3, <1>5 DEF Passed, From
<1>7. \A k : Counted(k)' = Counted(k) \cup (IF k = address \/ k = "overflow" THEN {n} ELSE {})
  BY <1>2, <1>3 DEF Counted
<1>8. \A i \in DOMAIN requests : Within(Minute, i)' = Within(Minute, i)
  <2> SUFFICES ASSUME NEW i \in DOMAIN requests PROVE Within(Minute, i)' = Within(Minute, i)
    OBVIOUS
  <2>1. 1..i \subseteq DOMAIN requests
    BY <1>2
  <2> QED
    BY <1>2, <2>1 DEF Within
<1>9. Within(Minute, n)' = {j \in DOMAIN requests' : requests'[j].at >= now - Minute}
  <2>1. 1..n = DOMAIN requests'
    BY <1>2
  <2> QED
    BY <1>2, <1>3, <2>1 DEF Within
<1> QED
  BY <1>2, <1>3, <1>4, <1>5, <1>6, <1>7, <1>8, <1>9 DEF r

\* The gateway takes a request: the n-th, answered 429 exactly if it is limited.
Takes(n, address, status) ==
  /\ n = Len(requests) + 1 /\ address \in Addresses /\ status \in Nat
  /\ windows' = UpdateRateLimit(windows, address, now).windows
  /\ status = 429 <=> UpdateRateLimit(windows, address, now).limited
  /\ requests' = Append(requests, [address |-> address, at |-> now, status |-> status])
  /\ UNCHANGED <<site, now>>

LEMMA LogStep ==
  ASSUME LimitInv, NEW n, NEW address, NEW status, Takes(n, address, status)
  PROVE  Log'
<1>1. [address |-> address, at |-> now, status |-> status] \in Answers
  BY DEF Takes, LimitInv, Log, Answers
<1>2. requests' \in Seq(Answers)
  BY <1>1 DEF Takes, LimitInv, Log
<1>3. /\ DOMAIN requests' = DOMAIN requests \cup {n} /\ requests'[n].at = now
      /\ \A j \in DOMAIN requests : requests'[j] = requests[j]
  BY Logged DEF Takes
<1> QED
  BY <1>2, <1>3, GatewayAssumption DEF Takes, LimitInv, Log

LEMMA TableStep ==
  ASSUME LimitInv, NEW n, NEW address, NEW status, Takes(n, address, status)
  PROVE  Table'
<1> DEFINE active == ActiveWindows(windows, now)
           key    == WindowKey(active, address)
           W      == DOMAIN active \ {"overflow"}
<1>1. /\ DOMAIN active \subseteq DOMAIN windows
      /\ DOMAIN windows' = DOMAIN active \cup {key}
      /\ Cardinality(Senders) <= Capacity => active = windows
  BY NextTable DEF Takes
<1>2. Senders' = Senders \cup {address}
  BY Logged DEF Takes
<1>3. /\ IsFiniteSet(Senders) /\ IsFiniteSet(Senders')
      /\ Cardinality(Senders) \in Nat /\ Cardinality(Senders') \in Nat
      /\ Cardinality(Senders) <= Cardinality(Senders')
  <2>1. IsFiniteSet(Senders)
    BY DEF LimitInv, Table
  <2>2. IsFiniteSet(Senders') /\ Senders \subseteq Senders'
    BY <1>2, <2>1, FS_AddElement
  <2> QED
    BY <2>1, <2>2, FS_Subset, FS_CardinalityType
<1>4. IsFiniteSet(DOMAIN windows)
  <2>1. IsFiniteSet(Senders \cup {"overflow"})
    BY <1>3, FS_AddElement
  <2> QED
    BY <2>1, FS_Subset DEF LimitInv, Table
<1>5. /\ IsFiniteSet(DOMAIN active) /\ IsFiniteSet(W) /\ Cardinality(W) \in Nat
      /\ Cardinality(DOMAIN active) \in Nat
      /\ Cardinality(W) <= Cardinality(DOMAIN active)
      /\ Cardinality(W) <= Capacity
  <2>1. IsFiniteSet(DOMAIN windows \ {"overflow"}) /\ W \subseteq DOMAIN windows \ {"overflow"}
    BY <1>1, <1>4, FS_Subset
  <2>2. Cardinality(W) <= Cardinality(DOMAIN windows \ {"overflow"}) /\ IsFiniteSet(W)
    BY <2>1, FS_Subset
  <2>3. Cardinality(DOMAIN windows \ {"overflow"}) \in Nat /\ Cardinality(W) \in Nat
    BY <2>1, <2>2, FS_CardinalityType
  <2>4. IsFiniteSet(DOMAIN active) /\ W \subseteq DOMAIN active
    BY <1>1, <1>4, FS_Subset
  <2> QED
    BY <2>2, <2>3, <2>4, FS_Subset, FS_CardinalityType, GatewayAssumption DEF LimitInv, Table
<1> HIDE DEF active
<1>6. key \in {address, "overflow"} /\ address \in Senders' /\ address # "overflow"
  BY <1>2, GatewayAssumption DEF WindowKey, Takes
<1>7. DOMAIN windows' \subseteq Senders' \cup {"overflow"}
  BY <1>1, <1>2, <1>6 DEF LimitInv, Table
<1>8. Cardinality(DOMAIN windows' \ {"overflow"}) <= Capacity
  <2>1. CASE key = "overflow" \/ key \in DOMAIN active
    <3>1. DOMAIN windows' \ {"overflow"} = W
      BY <1>1, <2>1
    <3> QED
      BY <3>1, <1>5
  <2>2. CASE ~(key = "overflow" \/ key \in DOMAIN active)
    <3>1. key = address /\ ~(Cardinality(DOMAIN active) >= Capacity)
      BY <2>2, <1>6 DEF WindowKey
    <3>2. DOMAIN windows' \ {"overflow"} = W \cup {address} /\ address \notin W
      BY <1>1, <1>6, <2>2, <3>1
    <3>3. Cardinality(DOMAIN windows' \ {"overflow"}) = Cardinality(W) + 1
      BY <3>2, <1>5, FS_AddElement
    <3> QED
      BY <3>1, <3>3, <1>5, GatewayAssumption
  <2> QED
    BY <2>1, <2>2
<1>9. ASSUME "overflow" \in DOMAIN windows' PROVE Cardinality(Senders') > Capacity
  <2>1. CASE "overflow" \in DOMAIN windows
    BY <2>1, <1>3, GatewayAssumption DEF LimitInv, Table
  <2>2. CASE "overflow" \notin DOMAIN windows
    <3>1. "overflow" \notin DOMAIN active /\ key = "overflow"
      BY <2>2, <1>1, <1>9
    <3>2. Cardinality(DOMAIN active) >= Capacity /\ address \notin DOMAIN active
      BY <3>1, <1>6 DEF WindowKey
    <3>3. DOMAIN active \cup {address} \subseteq Senders'
      BY <1>1, <1>2, <3>1 DEF LimitInv, Table
    <3>4. /\ Cardinality(DOMAIN active \cup {address}) = Cardinality(DOMAIN active) + 1
          /\ Cardinality(DOMAIN active \cup {address}) <= Cardinality(Senders')
      BY <3>2, <3>3, <1>3, <1>5, FS_AddElement, FS_Subset
    <3> QED
      BY <3>2, <3>4, <1>3, <1>5, GatewayAssumption
  <2> QED
    BY <2>1, <2>2
<1>10. ASSUME Cardinality(Senders') <= Capacity PROVE Senders' \subseteq DOMAIN windows'
  <2>1. Cardinality(Senders) <= Capacity
    BY <1>10, <1>3, GatewayAssumption
  <2>2. Senders \subseteq DOMAIN active
    BY <2>1, <1>1 DEF LimitInv, Table
  <2>3. "overflow" \notin DOMAIN windows'
    BY <1>9, <1>10, <1>3, GatewayAssumption
  <2>4. key = address
    BY <2>3, <1>1, <1>6
  <2> QED
    BY <2>2, <2>4, <1>1, <1>2
<1> QED
  BY <1>3, <1>7, <1>8, <1>9, <1>10 DEF Table

\* The window that counted the request, and what it counts now.
LEMMA WindowStep ==
  ASSUME LimitInv, NEW n, NEW address, NEW status, Takes(n, address, status),
         NEW key, key = WindowKey(ActiveWindows(windows, now), address)
  PROVE  /\ key \in {address, "overflow"} /\ key \in DOMAIN windows'
         /\ windows'[key] \in [startedAt : Nat, count : Nat]
         /\ windows'[key].startedAt <= now /\ now <= windows'[key].startedAt + Minute
         /\ status = 429 <=> windows'[key].count > RequestsPerMinute
         /\ \/ /\ key \in DOMAIN windows
               /\ windows'[key].startedAt = windows[key].startedAt
               /\ windows'[key].count = windows[key].count + 1
            \/ /\ windows'[key].startedAt = now /\ windows'[key].count = 1
               /\ key \in DOMAIN windows => windows[key].startedAt + Minute < now
<1> DEFINE next == NextWindow(windows, key, now)
<1>1. /\ key \in DOMAIN windows' /\ windows'[key] = next
      /\ status = 429 <=> next.count > RequestsPerMinute
  BY NextTable DEF Takes
<1>2. key \in {address, "overflow"}
  BY DEF WindowKey
<1>3. now \in Nat /\ Minute \in Nat /\ now >= Minute
  BY GatewayAssumption DEF LimitInv, Log
<1>4. CASE key \in DOMAIN windows /\ Fresh(windows[key], now)
  <2>1. /\ windows[key] \in [startedAt : Nat, count : Nat] /\ windows[key].startedAt <= now
        /\ next = [windows[key] EXCEPT !.count = @ + 1]
    BY <1>4 DEF LimitInv, WindowOK, NextWindow
  <2>2. next.startedAt = windows[key].startedAt /\ next.count = windows[key].count + 1
        /\ next \in [startedAt : Nat, count : Nat]
    BY <2>1
  <2>3. now <= windows[key].startedAt + Minute
    BY <1>3, <1>4, <2>1 DEF Fresh
  <2> QED
    BY <1>1, <1>2, <1>4, <2>1, <2>2, <2>3
<1>5. CASE ~(key \in DOMAIN windows /\ Fresh(windows[key], now))
  <2>1. next = [startedAt |-> now, count |-> 1]
    BY <1>5 DEF NextWindow
  <2>2. ASSUME key \in DOMAIN windows PROVE windows[key].startedAt + Minute < now
    <3>1. windows[key].startedAt \in Nat
      BY <2>2 DEF LimitInv, WindowOK
    <3> QED
      BY <3>1, <1>3, <1>5, <2>2 DEF Fresh
  <2>3. next.startedAt = now /\ next.count = 1 /\ next \in [startedAt : Nat, count : Nat]
    BY <1>3, <2>1
  <2> QED
    BY <1>1, <1>2, <1>3, <2>2, <2>3
<1> QED
  BY <1>4, <1>5

LEMMA CountsStep ==
  ASSUME LimitInv, NEW n, NEW address, NEW status, Takes(n, address, status)
  PROVE  \A k \in DOMAIN windows' : WindowOK(k)'
<1> SUFFICES ASSUME NEW k \in DOMAIN windows' PROVE WindowOK(k)'
  OBVIOUS
<1> DEFINE key == WindowKey(ActiveWindows(windows, now), address)
           s == windows'[k].startedAt
           old == Since(Counted(k), s)
           new == Since(Counted(k), windows[k].startedAt)'
<1>1. /\ n \notin DOMAIN requests /\ requests'[n].at = now
      /\ \A j \in DOMAIN requests : requests'[j] = requests[j]
      /\ Counted(k)' = Counted(k) \cup (IF k = address \/ k = "overflow" THEN {n} ELSE {})
  BY Logged DEF Takes
<1>2. Counted(k) \subseteq DOMAIN requests
  BY DEF Counted
<1>3. IsFiniteSet(old) /\ Cardinality(old) \in Nat
  <2>1. old \subseteq DOMAIN requests
    BY <1>2 DEF Since
  <2> QED
    BY <2>1, Indices DEF LimitInv
<1>4. now' = now /\ now \in Nat
  BY DEF Takes, LimitInv, Log
<1>5. CASE k = key
  <2>1. /\ k \in {address, "overflow"} /\ windows'[k] \in [startedAt : Nat, count : Nat] /\ s <= now
        /\ \/ /\ k \in DOMAIN windows /\ s = windows[k].startedAt
              /\ windows'[k].count = windows[k].count + 1
           \/ s = now /\ windows'[k].count = 1
    BY <1>5, WindowStep
  <2>2. new = old \cup {n} /\ n \notin old
    BY <1>1, <1>2, <2>1, <1>4 DEF Since
  <2>3. Cardinality(new) = Cardinality(old) + 1
    BY <2>2, <1>3, FS_AddElement
  <2>4. windows'[k].count <= Cardinality(new)
    <3>1. CASE k \in DOMAIN windows /\ s = windows[k].startedAt /\ windows'[k].count = windows[k].count + 1
      <4>1. windows[k].count \in Nat /\ windows[k].count <= Cardinality(old)
        BY <3>1 DEF LimitInv, WindowOK
      <4> QED
        BY <3>1, <4>1, <2>3, <1>3
    <3>2. CASE s = now /\ windows'[k].count = 1
      BY <3>2, <2>3, <1>3
    <3> QED
      BY <3>1, <3>2, <2>1
  <2> QED
    BY <2>1, <2>4, <1>4 DEF WindowOK
<1>6. CASE k # key
  <2>1. k \in DOMAIN windows /\ windows'[k] = windows[k]
    BY <1>6, NextTable DEF Takes
  <2>2. /\ windows[k] \in [startedAt : Nat, count : Nat] /\ windows[k].startedAt <= now
        /\ windows[k].count <= Cardinality(old)
    BY <2>1 DEF LimitInv, WindowOK
  <2>3. old \subseteq new /\ new \subseteq old \cup {n}
    BY <1>1, <1>2, <2>1 DEF Since
  <2>4. Cardinality(old) <= Cardinality(new) /\ Cardinality(new) \in Nat
    BY <2>3, <1>3, FS_AddElement, FS_Subset, FS_CardinalityType
  <2> QED
    BY <2>1, <2>2, <2>4, <1>3, <1>4 DEF WindowOK
<1> QED
  BY <1>5, <1>6

\* As long as the table is not full, every sender keeps a window of its own.
LEMMA OwnWindow ==
  ASSUME LimitInv, NEW n, NEW address, NEW status, Takes(n, address, status),
         Cardinality(Senders') <= Capacity
  PROVE  /\ Cardinality(Senders) <= Capacity
         /\ ActiveWindows(windows, now) = windows
         /\ WindowKey(windows, address) = address
         /\ DOMAIN windows = Senders
<1>1. Senders' = Senders \cup {address} /\ IsFiniteSet(Senders)
  BY Logged DEF Takes, LimitInv, Table
<1>2. /\ Cardinality(Senders) \in Nat /\ Cardinality(Senders') \in Nat
      /\ Cardinality(Senders) <= Cardinality(Senders')
      /\ address \notin Senders => Cardinality(Senders') = Cardinality(Senders) + 1
  <2>1. IsFiniteSet(Senders') /\ Senders \subseteq Senders'
    BY <1>1, FS_AddElement
  <2> QED
    BY <1>1, <2>1, FS_AddElement, FS_Subset, FS_CardinalityType
<1>3. Cardinality(Senders) <= Capacity
  BY <1>2, GatewayAssumption
<1>4. ActiveWindows(windows, now) = windows
  BY <1>3, NextTable DEF Takes
<1>5. DOMAIN windows = Senders
  BY <1>2, <1>3, GatewayAssumption DEF LimitInv, Table
<1>6. WindowKey(windows, address) = address
  BY <1>2, <1>5, GatewayAssumption DEF WindowKey
<1> QED
  BY <1>3, <1>4, <1>5, <1>6

LEMMA PaceStep ==
  ASSUME LimitInv, NEW n, NEW address, NEW status, Takes(n, address, status),
         Cardinality(Senders') <= Capacity
  PROVE  \A a \in Senders' : Paced(a)'
<1> SUFFICES ASSUME NEW a \in Senders' PROVE Paced(a)'
  OBVIOUS
<1> DEFINE s == windows'[a].startedAt
           old == Since(Passed(a), s)
           new == Since(Passed(a), windows[a].startedAt)'
           before == MinuteBefore(Passed(a), windows[a].startedAt)'
<1>1. /\ n \notin DOMAIN requests /\ requests'[n].at = now
      /\ \A j \in DOMAIN requests : requests'[j] = requests[j] /\ requests[j].at \in Nat
      /\ Passed(a)' = Passed(a) \cup (IF a = address /\ status \in {200, 502} THEN {n} ELSE {})
      /\ From(a)' = From(a) \cup (IF a = address THEN {n} ELSE {})
      /\ Senders' = Senders \cup {address}
  BY Logged DEF Takes
<1>2. Passed(a) \subseteq From(a) /\ From(a) \subseteq DOMAIN requests
  BY DEF Passed, From
<1>3. /\ ActiveWindows(windows, now) = windows /\ WindowKey(windows, address) = address
      /\ DOMAIN windows = Senders /\ Cardinality(Senders) <= Capacity
  BY OwnWindow
<1>4. now' = now /\ now \in Nat /\ Minute \in Nat /\ RequestsPerMinute \in Nat \ {0}
  BY GatewayAssumption DEF Takes, LimitInv, Log
<1>5. ASSUME a \in Senders
      PROVE  /\ windows[a] \in [startedAt : Nat, count : Nat]
             /\ Paced(a)
  BY <1>3, <1>5 DEF LimitInv, WindowOK
<1>6. CASE a # address
  <2>1. a \in Senders /\ windows'[a] = windows[a]
    BY <1>1, <1>3, <1>6, NextTable DEF Takes
  <2>2. new = old /\ before = MinuteBefore(Passed(a), windows[a].startedAt) /\ From(a)' = From(a)
    BY <1>1, <1>2, <1>6, <2>1 DEF Since, MinuteBefore
  <2> QED
    BY <1>1, <1>2, <1>5, <2>1, <2>2 DEF Paced
<1>7. CASE a = address
  <2>1. /\ windows'[a] \in [startedAt : Nat, count : Nat] /\ s <= now /\ now <= s + Minute
        /\ status = 429 <=> windows'[a].count > RequestsPerMinute
        /\ \/ /\ a \in Senders /\ s = windows[a].startedAt
              /\ windows'[a].count = windows[a].count + 1
           \/ /\ s = now /\ windows'[a].count = 1
              /\ a \in Senders => windows[a].startedAt + Minute < now
    BY <1>3, <1>7, WindowStep
  <2>2. CASE a \in Senders /\ s = windows[a].startedAt /\ windows'[a].count = windows[a].count + 1
    <3>1. /\ Cardinality(old) <= windows[a].count /\ Cardinality(old) <= RequestsPerMinute
          /\ Cardinality(MinuteBefore(Passed(a), s)) <= RequestsPerMinute
          /\ \A j \in From(a) : requests[j].at <= s + Minute
          /\ windows[a].count \in Nat
      BY <1>5, <2>2 DEF Paced
    <3>2. old \subseteq DOMAIN requests /\ IsFiniteSet(old) /\ Cardinality(old) \in Nat
      <4>1. old \subseteq DOMAIN requests
        BY <1>2 DEF Since
      <4> QED
        BY <4>1, Indices DEF LimitInv
    <3>3. new = old \cup (IF status \in {200, 502} THEN {n} ELSE {})
      BY <1>1, <1>2, <1>4, <1>7, <2>1, <2>2 DEF Since
    <3>4. Cardinality(new) <= windows'[a].count /\ Cardinality(new) <= RequestsPerMinute
      <4>1. CASE status \in {200, 502}
        <5>1. Cardinality(new) = Cardinality(old) + 1
          BY <1>1, <3>2, <3>3, <4>1, OneMore
        <5>2. windows'[a].count <= RequestsPerMinute
          BY <1>4, <2>1, <4>1
        <5> QED
          BY <1>4, <2>2, <3>1, <3>2, <5>1, <5>2
      <4>2. CASE status \notin {200, 502}
        BY <1>4, <2>2, <3>1, <3>2, <3>3, <4>2
      <4> QED
        BY <4>1, <4>2
    <3>5. before = MinuteBefore(Passed(a), s)
      BY <1>1, <1>2, <1>4, <2>1, <2>2 DEF MinuteBefore
    <3>6. \A j \in From(a)' : requests'[j].at <= s + Minute
      BY <1>1, <1>2, <1>4, <2>1, <3>1
    <3> QED
      BY <3>1, <3>4, <3>5, <3>6 DEF Paced
  <2>3. CASE /\ s = now /\ windows'[a].count = 1
             /\ a \in Senders => windows[a].startedAt + Minute < now
    <3>1. \A j \in From(a) : requests[j].at < now
      <4>1. CASE a \in Senders
        BY <1>1, <1>2, <1>4, <1>5, <2>3, <4>1 DEF Paced
      <4>2. CASE a \notin Senders
        BY <4>2 DEF From, Senders
      <4> QED
        BY <4>1, <4>2
    <3>2. new \subseteq {n}
      BY <1>1, <1>2, <1>4, <2>3, <3>1 DEF Since
    <3>3. Cardinality(new) <= 1 /\ Cardinality(new) \in Nat
      BY <3>2, AtMostOne
    <3>4. Cardinality(before) <= RequestsPerMinute
      <4>1. CASE a \in Senders
        <5>1. before \subseteq Since(Passed(a), windows[a].startedAt)
          BY <1>1, <1>2, <1>4, <1>5, <2>3, <4>1 DEF MinuteBefore, Since
        <5>2. Since(Passed(a), windows[a].startedAt) \subseteq DOMAIN requests
          BY <1>2 DEF Since
        <5> QED
          BY <1>4, <1>5, <4>1, <5>1, <5>2, Bounded DEF Paced, LimitInv
      <4>2. CASE a \notin Senders
        <5>1. before = {}
          BY <1>1, <1>2, <1>4, <2>3, <4>2 DEF MinuteBefore, From, Senders
        <5> QED
          BY <1>4, <5>1, FS_EmptySet
      <4> QED
        BY <4>1, <4>2
    <3>5. \A j \in From(a)' : requests'[j].at <= s + Minute
      BY <1>1, <1>2, <1>4, <2>3, <3>1
    <3> QED
      BY <1>4, <2>3, <3>3, <3>4, <3>5 DEF Paced
  <2> QED
    BY <2>1, <2>2, <2>3
<1> QED
  BY <1>6, <1>7

LEMMA JudgeStep ==
  ASSUME LimitInv, NEW n, NEW address, NEW status, Takes(n, address, status)
  PROVE  \A i \in DOMAIN requests' : \A a : requests'[i].address = a => Refusal(i, a)' /\ Pass(i, a)'
<1>1. /\ n \notin DOMAIN requests /\ DOMAIN requests' = DOMAIN requests \cup {n}
      /\ requests'[n] = [address |-> address, at |-> now, status |-> status]
      /\ \A j \in DOMAIN requests : requests'[j] = requests[j]
      /\ Senders' = Senders \cup {address}
      /\ \A a : From(a)' = From(a) \cup (IF a = address THEN {n} ELSE {})
      /\ \A i \in DOMAIN requests : Within(Minute, i)' = Within(Minute, i)
      /\ Within(Minute, n)' = {j \in DOMAIN requests' : requests'[j].at >= now - Minute}
  BY Logged DEF Takes
<1>2. /\ Cardinality(Senders) \in Nat /\ Cardinality(Senders') \in Nat
      /\ Cardinality(Senders) <= Cardinality(Senders')
  <2>1. IsFiniteSet(Senders) /\ IsFiniteSet(Senders') /\ Senders \subseteq Senders'
    BY <1>1, FS_AddElement DEF LimitInv, Table
  <2> QED
    BY <2>1, FS_Subset, FS_CardinalityType
<1>3. requests'[n].address = address /\ requests'[n].at = now /\ requests'[n].status = status
  BY <1>1
<1>4. /\ Log' /\ Table' /\ \A k \in DOMAIN windows' : WindowOK(k)'
      /\ DOMAIN requests' = 1..Len(requests') /\ Len(requests') \in Nat
  <2>1. Log'
    BY LogStep
  <2> QED
    BY <2>1, TableStep, CountsStep DEF Log
<1>5. now \in Nat /\ Minute \in Nat /\ now >= Minute /\ RequestsPerMinute \in Nat /\ Capacity \in Nat
  BY GatewayAssumption DEF LimitInv, Log
<1>6. ASSUME NEW S, S \subseteq DOMAIN requests' PROVE IsFiniteSet(S) /\ Cardinality(S) \in Nat
  <2>1. IsFiniteSet(DOMAIN requests')
    BY <1>4, FS_Interval
  <2> QED
    BY <1>6, <2>1, FS_Subset, FS_CardinalityType
<1>7. ASSUME NEW i \in DOMAIN requests, NEW b, requests'[i].address = b
      PROVE  Refusal(i, b)' /\ Pass(i, b)'
  <2>1. Within(Minute, i)' \cap From(b)' = Within(Minute, i) \cap From(b)
    <3>1. n \notin Within(Minute, i)
      <4>1. n = Len(requests) + 1 /\ Len(requests) \in Nat /\ DOMAIN requests = 1..Len(requests)
        BY DEF Takes, LimitInv, Log
      <4> QED
        BY <4>1, <1>7 DEF Within
    <3> QED
      BY <1>1, <1>7, <3>1
  <2>2. Within(Minute, i) \subseteq DOMAIN requests
    <3>1. Len(requests) \in Nat /\ DOMAIN requests = 1..Len(requests)
      BY DEF LimitInv, Log
    <3> QED
      BY <1>7, <3>1 DEF Within
  <2>3. Refusal(i, b) /\ Pass(i, b) /\ requests'[i] = requests[i]
    BY <1>1, <1>7 DEF LimitInv
  <2>4. {j \in Within(Minute, i)' : requests'[j].status \in {200, 502}} \cap From(b)'
          = {j \in Within(Minute, i) : requests[j].status \in {200, 502}} \cap From(b)
    BY <1>1, <1>7, <2>1, <2>2
  <2>5. /\ Within(Minute, i)' = Within(Minute, i)
        /\ Cardinality(Senders) > Capacity => Cardinality(Senders') > Capacity
        /\ Cardinality(Senders') <= Capacity => Cardinality(Senders) <= Capacity
    BY <1>1, <1>2, <1>5, <1>7
  <2>6. Refusal(i, b)'
    BY <2>1, <2>3, <2>5 DEF Refusal
  <2>7. Pass(i, b)'
    BY <2>3, <2>4, <2>5 DEF Pass
  <2> QED
    BY <2>6, <2>7
<1>8. Refusal(n, address)'
  <2> SUFFICES ASSUME status = 429
               PROVE  \/ Cardinality(Within(Minute, n)' \cap From(address)') > RequestsPerMinute
                      \/ /\ Cardinality(Senders') > Capacity
                         /\ Cardinality(Within(Minute, n)') > RequestsPerMinute
    BY <1>3 DEF Refusal
  <2> PICK key : key = WindowKey(ActiveWindows(windows, now), address)
    OBVIOUS
  <2> PICK counted : counted = Since(Counted(key), windows[key].startedAt)'
    OBVIOUS
  <2>1. /\ key \in {address, "overflow"} /\ key \in DOMAIN windows'
        /\ windows'[key] \in [startedAt : Nat, count : Nat]
        /\ now <= windows'[key].startedAt + Minute
        /\ windows'[key].count > RequestsPerMinute
    BY WindowStep
  <2>2. windows'[key].count <= Cardinality(counted) /\ counted \subseteq DOMAIN requests'
    BY <1>4, <2>1 DEF WindowOK, Since, Counted
  <2>3. Cardinality(counted) \in Nat /\ Cardinality(counted) > RequestsPerMinute
    BY <1>5, <1>6, <2>1, <2>2
  <2>4. counted \subseteq Within(Minute, n)' /\ Within(Minute, n)' \subseteq DOMAIN requests'
    <3>1. \A j \in DOMAIN requests' : requests'[j].at \in Nat
      BY <1>4 DEF Log
    <3> QED
      BY <1>1, <1>5, <2>1, <2>2, <3>1 DEF Since
  <2>5. CASE key = "overflow"
    <3>1. Cardinality(Senders') > Capacity
      BY <1>4, <2>1, <2>5 DEF Table
    <3>2. Cardinality(counted) <= Cardinality(Within(Minute, n)') /\ Cardinality(Within(Minute, n)') \in Nat
      BY <1>6, <2>4, FS_Subset
    <3> QED
      BY <1>5, <2>3, <3>1, <3>2
  <2>6. CASE key = address /\ key # "overflow"
    <3>1. counted \subseteq Within(Minute, n)' \cap From(address)'
      BY <2>4, <2>6 DEF Since, Counted, From
    <3>2. /\ Cardinality(counted) <= Cardinality(Within(Minute, n)' \cap From(address)')
          /\ Cardinality(Within(Minute, n)' \cap From(address)') \in Nat
      BY <1>6, <2>4, <3>1, FS_Subset
    <3> QED
      BY <1>5, <2>3, <3>2
  <2> QED
    BY <2>1, <2>5, <2>6
<1>9. Pass(n, address)'
  <2> SUFFICES ASSUME Cardinality(Senders') <= Capacity
               PROVE  Cardinality({j \in Within(Minute, n)' : requests'[j].status \in {200, 502}}
                                    \cap From(address)') <= 2 * RequestsPerMinute
    BY DEF Pass
  <2> PICK since : since = Since(Passed(address), windows[address].startedAt)'
    OBVIOUS
  <2> PICK before : before = MinuteBefore(Passed(address), windows[address].startedAt)'
    OBVIOUS
  <2>1. /\ address \in DOMAIN windows' /\ windows'[address].startedAt \in Nat
        /\ windows'[address].startedAt <= now
    BY OwnWindow, WindowStep
  <2>2. Cardinality(since) <= RequestsPerMinute /\ Cardinality(before) <= RequestsPerMinute
    <3>1. address \in Senders'
      BY <1>1
    <3> QED
      BY <3>1, PaceStep DEF Paced
  <2>3. since \subseteq DOMAIN requests' /\ before \subseteq DOMAIN requests'
    BY DEF Since, MinuteBefore, Passed, From
  <2>4. {j \in Within(Minute, n)' : requests'[j].status \in {200, 502}} \cap From(address)'
          \subseteq since \cup before
    <3>1. \A j \in DOMAIN requests' : requests'[j].at \in Nat
      BY <1>4 DEF Log
    <3> QED
      BY <1>1, <1>5, <2>1, <3>1 DEF Since, MinuteBefore, Passed
  <2>5. /\ IsFiniteSet(since \cup before) /\ Cardinality(since \cup before) \in Nat
        /\ Cardinality(since \cup before) <= Cardinality(since) + Cardinality(before)
    <3>1. /\ IsFiniteSet(since) /\ IsFiniteSet(before)
          /\ Cardinality(since) \in Nat /\ Cardinality(before) \in Nat
          /\ Cardinality(since \cap before) \in Nat
      <4>1. since \cap before \subseteq DOMAIN requests'
        BY <2>3
      <4> QED
        BY <1>6, <2>3, <4>1
    <3>2. /\ IsFiniteSet(since \cup before)
          /\ Cardinality(since \cup before)
               = Cardinality(since) + Cardinality(before) - Cardinality(since \cap before)
      BY <3>1, FS_Union
    <3>3. Cardinality(since \cup before) \in Nat
      BY <3>2, FS_CardinalityType
    <3> QED
      BY <3>1, <3>2, <3>3
  <2>6. PICK S : S = {j \in Within(Minute, n)' : requests'[j].status \in {200, 502}} \cap From(address)'
    OBVIOUS
  <2>7. Cardinality(S) <= Cardinality(since \cup before) /\ Cardinality(S) \in Nat
    BY <2>4, <2>5, <2>6, FS_Subset, FS_CardinalityType
  <2> QED
    BY <1>5, <1>6, <2>2, <2>3, <2>5, <2>6, <2>7
<1> QED
  BY <1>1, <1>3, <1>7, <1>8, <1>9

\* A trusted batch is answered 429 exactly if its sender is over the limit.
LEMMA AnsweredByLimit ==
  ASSUME NEW batch, NEW limited \in BOOLEAN, NEW collector
  PROVE  /\ Forward(batch, limited, collector) \in Nat
         /\ Forward(batch, limited, collector) = 429 <=> limited
<1> DEFINE answer == Forward(batch, limited, collector)
           check  == ValidateRequestHeaders(batch)
<1>1. check = 0 \/ check = 413 \/ check = 415
  BY DEF ValidateRequestHeaders
<1>2. CASE limited
  <2>1. answer = 429
    BY <1>2, Zenon DEF Forward
  <2>2. answer \in Nat
    BY <2>1
  <2> QED
    BY <1>2, <2>1, <2>2, Zenon
<1>3. CASE ~limited
  <2> DEFINE exported == IF collector = "down" THEN 502 ELSE 200
             whole    == IF batch.body = "too large" THEN 413 ELSE exported
             read     == IF batch.body = "broken" THEN 400 ELSE whole
  <2>1. answer = IF check # 0 THEN check ELSE read
    BY <1>3, Zenon DEF Forward
  <2>2. exported \in {200, 502}
    OBVIOUS
  <2> HIDE DEF exported
  <2>3. whole = 413 \/ whole = exported
    BY Zenon
  <2> HIDE DEF whole
  <2>4. read \in {200, 400, 413, 502}
    BY <2>2, <2>3
  <2> HIDE DEF answer, check, read
  <2>5. answer \in Nat /\ answer # 429
    BY <1>1, <2>1, <2>4
  <2>6. answer \in Nat /\ (answer = 429 <=> limited)
    BY <1>3, <2>5, Zenon
  <2> QED
    BY <2>6 DEF answer
<1> QED
  BY <1>2, <1>3, Zenon

LEMMA LimitStep ==
  ASSUME LimitInv, [Next]_vars
  PROVE  LimitInv'
<1>1. ASSUME UNCHANGED <<site, windows, requests>>, now' \in Nat, now' >= now PROVE LimitInv'
  <2>1. /\ Senders' = Senders /\ \A a : From(a)' = From(a) /\ Passed(a)' = Passed(a)
        /\ \A k : Counted(k)' = Counted(k)
        /\ \A i \in DOMAIN requests : Within(Minute, i)' = Within(Minute, i)
    BY <1>1 DEF Senders, From, Passed, Counted, Within
  <2>2. Log' /\ Table'
    BY <1>1, <2>1, GatewayAssumption DEF LimitInv, Log, Table
  <2>3. \A k \in DOMAIN windows' : WindowOK(k)'
    <3> SUFFICES ASSUME NEW k \in DOMAIN windows PROVE WindowOK(k)'
      BY <1>1
    <3>1. Since(Counted(k), windows[k].startedAt)' = Since(Counted(k), windows[k].startedAt)
      BY <1>1, <2>1 DEF Since
    <3>2. windows[k].startedAt <= now'
      BY <1>1 DEF LimitInv, Log, WindowOK
    <3> QED
      BY <1>1, <3>1, <3>2 DEF LimitInv, WindowOK
  <2>4. Cardinality(Senders') <= Capacity => \A a \in Senders' : Paced(a)'
    BY <1>1, <2>1 DEF LimitInv, Paced, Since, MinuteBefore
  <2>5. \A i \in DOMAIN requests' : \A a : requests'[i].address = a => Refusal(i, a)' /\ Pass(i, a)'
    BY <1>1, <2>1 DEF LimitInv, Refusal, Pass
  <2> QED
    BY <2>2, <2>3, <2>4, <2>5 DEF LimitInv
<1>2. ASSUME windows' = NoWindows, requests' = <<>>, UNCHANGED <<site, now>> PROVE LimitInv'
  <2>1. DOMAIN requests' = {} /\ Senders' = {} /\ DOMAIN windows' = {}
    BY <1>2 DEF Senders, NoWindows
  <2>2. Log'
    BY <1>2, <2>1 DEF LimitInv, Log
  <2>3. Table'
    <3>1. DOMAIN windows' \ {"overflow"} = {}
      BY <2>1
    <3> QED
      BY <2>1, <3>1, FS_EmptySet, GatewayAssumption DEF Table
  <2> QED
    BY <2>1, <2>2, <2>3 DEF LimitInv
<1>3. ASSUME NEW p \in site.processes, NEW address \in site.traffic.addresses,
             NEW batch \in site.traffic.batches, NEW collector \in site.traffic.collectors,
             Receive(p, address, batch, collector)
      PROVE  LimitInv'
  <2>1. CASE Trusted(batch)
    <3> PICK limited : limited = UpdateRateLimit(windows, address, now).limited
      OBVIOUS
    <3> PICK status : status = Forward(batch, limited, collector)
      OBVIOUS
    <3>1. status \in Nat /\ (status = 429 <=> limited)
      <4>1. limited \in BOOLEAN
        BY DEF UpdateRateLimit
      <4> QED
        BY <4>1, AnsweredByLimit
    <3>2. PICK n : n = Len(requests) + 1
      OBVIOUS
    <3>3. Takes(n, address, status)
      <4>1. address \in Addresses
        BY SitesAssumption DEF LimitInv, Log
      <4> QED
        BY <1>3, <2>1, <3>1, <3>2, <4>1 DEF Receive, Takes
    <3>4. Log' /\ Table' /\ \A k \in DOMAIN windows' : WindowOK(k)'
      BY <3>3, LogStep, TableStep, CountsStep
    <3>5. Cardinality(Senders') <= Capacity => \A a \in Senders' : Paced(a)'
      BY <3>3, PaceStep
    <3>6. \A i \in DOMAIN requests' : \A a : requests'[i].address = a => Refusal(i, a)' /\ Pass(i, a)'
      BY <3>3, JudgeStep
    <3> QED
      BY <3>4, <3>5, <3>6 DEF LimitInv
  <2>2. CASE ~Trusted(batch)
    BY <1>1, <1>3, <2>2 DEF Receive, LimitInv, Log
  <2> QED
    BY <2>1, <2>2
<1>4. CASE Tick
  BY <1>1, <1>4 DEF Tick, LimitInv, Log
<1>5. ASSUME NEW p \in site.processes, Fail(p) PROVE LimitInv'
  BY <1>1, <1>2, <1>5 DEF Fail, LimitInv, Log
<1>6. ASSUME UNCHANGED <<site, gateway>> PROVE LimitInv'
  BY <1>1, <1>6 DEF gateway, LimitInv, Log
<1>7. ASSUME NEW d \in site.designs, Deploy(d) \/ Edit(d) PROVE LimitInv'
  BY <1>6, <1>7 DEF Deploy, Edit
<1>8. CASE Destroy
  BY <1>6, <1>8 DEF Destroy
<1>9. ASSUME NEW p \in site.processes, NEW binary \in site.binaries, Start(p, binary) PROVE LimitInv'
  BY <1>6, <1>9 DEF Start
<1>10. ASSUME NEW p \in site.processes,
              \/ Prepare(p) \/ RecordTopology(p) \/ CompareTopology(p)
              \/ StartBackground(p) \/ Serve(p)
       PROVE  LimitInv'
  BY <1>6, <1>10 DEF Prepare, RecordTopology, CompareTopology, StartBackground, Serve
<1>11. ASSUME NEW from, NEW to, AdvanceTopology(from, to) PROVE LimitInv'
  BY <1>6, <1>11 DEF AdvanceTopology
<1>12. ASSUME NEW p \in site.processes, NEW row \in site.rows, Write(p, row) PROVE LimitInv'
  BY <1>6, <1>12 DEF Write
<1>13. CASE UNCHANGED vars
  BY <1>6, <1>13 DEF vars, gateway
<1> QED
  BY <1>3, <1>4, <1>5, <1>7, <1>8, <1>9, <1>10, <1>11, <1>12, <1>13 DEF Next

\* What the gateway refuses exceeded the limit, what it passes on is at most
\* twice the limit, and its table is bounded (updateRateLimit), for any limit,
\* capacity, addresses, batches and traffic.
THEOREM LimitsHold == Spec => []GatewayLimits
<1>1. Init => LimitInv
  <2> SUFFICES ASSUME Init PROVE LimitInv
    OBVIOUS
  <2>1. DOMAIN requests = {} /\ Senders = {} /\ DOMAIN windows = {}
    BY DEF Init, Senders, NoWindows
  <2>2. Log
    BY <2>1, GatewayAssumption DEF Init, Log
  <2>3. Table
    <3>1. DOMAIN windows \ {"overflow"} = {}
      BY <2>1
    <3> QED
      BY <2>1, <3>1, FS_EmptySet, GatewayAssumption DEF Table
  <2> QED
    BY <2>1, <2>2, <2>3 DEF LimitInv
<1>2. LimitInv => GatewayLimits
  <2> SUFFICES ASSUME LimitInv PROVE GatewayLimits
    OBVIOUS
  <2>1. Cardinality(DOMAIN windows) <= Capacity + 1
    <3> DEFINE own == DOMAIN windows \ {"overflow"}
    <3>1. IsFiniteSet(own)
      <4>1. IsFiniteSet(Senders) /\ own \subseteq Senders
        BY DEF LimitInv, Table
      <4> QED
        BY <4>1, FS_Subset
    <3>2. Cardinality(own) <= Capacity /\ Cardinality(own) \in Nat
      BY <3>1, FS_CardinalityType DEF LimitInv, Table
    <3>3. DOMAIN windows = own \/ DOMAIN windows = own \cup {"overflow"}
      OBVIOUS
    <3> HIDE DEF own
    <3>4. Cardinality(own \cup {"overflow"}) <= Cardinality(own) + 1
          /\ Cardinality(own \cup {"overflow"}) \in Nat
      BY <3>1, <3>2, FS_AddElement
    <3> QED
      BY <3>2, <3>3, <3>4, GatewayAssumption
  <2>2. \A i \in DOMAIN requests : Refusal(i, requests[i].address) /\ Pass(i, requests[i].address)
    BY DEF LimitInv
  <2>3. \A i \in DOMAIN requests :
          {j \in Within(Minute, i) : requests[j].status \in {200, 502}} \cap From(requests[i].address)
            = {j \in Within(Minute, i) : requests[j].status \in {200, 502}} \cap From(requests[i].address)
    OBVIOUS
  <2> QED
    BY <2>1, <2>2 DEF GatewayLimits, Refusal, Pass
<1> QED
  BY <1>1, <1>2, LimitStep, PTL DEF Spec

(***************************************************************************)
(* Routes.  What a design says of HTTP becomes publications, publications  *)
(* the options of the runtime, and options routes; on the way an option    *)
(* that is absent must not turn into an endpoint, and the compiler's       *)
(* comparison of publications must have covered every route.               *)
(***************************************************************************)
Declares(http, kind) == http[kind].is \notin {"absent", "off"}
PathOf(http, kind) == IF http[kind].is = "at" THEN http[kind].path ELSE DefaultPath[kind]

\* The options of HTTP of a design of a site.
IsHttp(http) ==
  \A kind \in Kinds :
    \/ http[kind] \in {Absent, Off, On, Given}
    \/ http[kind] = At(http[kind].path) /\ http[kind].path \in Seq(STRING)

Publication(http, kind) == [kind |-> kind, path |-> PathOf(http, kind)]

LEMMA PathsAreSequences ==
  ASSUME NEW http, IsHttp(http), NEW kind \in Kinds
  PROVE  \E S : PathOf(http, kind) \in Seq(S)
<1>1. DefaultPath[kind] \in Seq({"rpc", "v1", "mcp"})
  <2>1. DefaultPath[kind] \in {<<"rpc", "v1">>, <<"mcp">>, <<>>}
    BY DEF Kinds, DefaultPath
  <2> DEFINE S == {"rpc", "v1", "mcp"}
  <2>2. "rpc" \in S /\ "v1" \in S /\ "mcp" \in S
    OBVIOUS
  <2> HIDE DEF S
  <2>3. <<"rpc", "v1">> \in Seq(S) /\ <<"mcp">> \in Seq(S) /\ <<>> \in Seq(S)
    BY <2>2
  <2>4. DefaultPath[kind] \in Seq(S)
    BY <2>1, <2>3
  <2> QED BY <2>4 DEF S
<1>2. http[kind].is = "at" => http[kind].path \in Seq(STRING)
  BY DEF IsHttp, Absent, Off, On, Given
<1> QED BY <1>1, <1>2 DEF PathOf

LEMMA PublishedIs ==
  ASSUME NEW http, IsHttp(http), NEW kind \in Kinds
  PROVE  Published(http, kind) = IF Declares(http, kind) THEN <<Publication(http, kind)>> ELSE <<>>
<1> DEFINE paths == Enabled(http[kind], DefaultPath[kind])
<1>1. http[kind].is \in {"absent", "off", "on", "given", "at"}
  <2>1. CASE http[kind] = At(http[kind].path)
    <3>1. \A path : At(path).is = "at"
      BY DEF At
    <3> QED BY <2>1, <3>1
  <2>2. CASE http[kind] \in {Absent, Off, On, Given}
    BY <2>2 DEF Absent, Off, On, Given
  <2> QED BY <2>1, <2>2 DEF IsHttp
<1>2. paths = IF Declares(http, kind) THEN <<PathOf(http, kind)>> ELSE <<>>
  BY <1>1 DEF Enabled, Declares, PathOf
<1>3. Published(http, kind) = [i \in DOMAIN paths |-> [kind |-> kind, path |-> paths[i]]]
  BY DEF Published
<1> HIDE DEF paths
<1>4. CASE Declares(http, kind)
  <2>1. DOMAIN paths = 1..1 /\ paths[1] = PathOf(http, kind)
    BY <1>2, <1>4
  <2>2. Published(http, kind) = [i \in 1..1 |-> Publication(http, kind)]
    BY <1>3, <2>1 DEF Publication
  <2> QED BY <1>4, <2>2
<1>5. CASE ~Declares(http, kind)
  <2>1. DOMAIN paths = {}
    BY <1>2, <1>5
  <2>2. Published(http, kind) = <<>>
    BY <1>3, <2>1
  <2> QED BY <1>5, <2>2
<1> QED BY <1>4, <1>5

LEMMA MembersOfConcat ==
  ASSUME NEW S, NEW a \in Seq(S), NEW b \in Seq(S)
  PROVE  a \o b \in Seq(S) /\ ToSet(a \o b) = ToSet(a) \cup ToSet(b)
<1> DEFINE ab == a \o b
<1>1. /\ ab \in Seq(S) /\ Len(ab) = Len(a) + Len(b)
      /\ \A i \in 1..Len(a) + Len(b) : ab[i] = IF i <= Len(a) THEN a[i] ELSE b[i - Len(a)]
  BY ConcatProperties
<1> HIDE DEF ab
<1>2. /\ DOMAIN ab = 1..Len(ab) /\ DOMAIN a = 1..Len(a) /\ DOMAIN b = 1..Len(b)
      /\ Len(a) \in Nat /\ Len(b) \in Nat
  BY <1>1
<1>3. ASSUME NEW i \in DOMAIN a PROVE \E j \in DOMAIN ab : ab[j] = a[i]
  BY <1>1, <1>2
<1>4. ASSUME NEW i \in DOMAIN b PROVE \E j \in DOMAIN ab : ab[j] = b[i]
  <2>1. Len(a) + i \in DOMAIN ab /\ ab[Len(a) + i] = b[i]
    BY <1>1, <1>2
  <2> QED BY <2>1
<1>5. ASSUME NEW i \in DOMAIN ab PROVE ab[i] \in ToSet(a) \cup ToSet(b)
  <2>1. CASE i <= Len(a)
    BY <1>1, <1>2, <2>1 DEF ToSet
  <2>2. CASE ~(i <= Len(a))
    <3>1. i - Len(a) \in DOMAIN b /\ ab[i] = b[i - Len(a)]
      BY <1>1, <1>2, <2>2
    <3> QED BY <3>1 DEF ToSet
  <2> QED BY <2>1, <2>2
<1>6. ToSet(ab) = ToSet(a) \cup ToSet(b)
  BY <1>3, <1>4, <1>5 DEF ToSet
<1> QED BY <1>1, <1>6 DEF ab

\* The publications of a runtime are the declared ones.
LEMMA PublicationsAre ==
  ASSUME NEW http, IsHttp(http)
  PROVE  /\ ToSet(Publications(http)) =
              {Publication(http, kind) : kind \in {k \in Kinds : Declares(http, k)}}
         /\ DOMAIN Publications(http) \subseteq Nat
<1> DEFINE All == {Publication(http, kind) : kind \in Kinds}
           of(kind) == Published(http, kind)
<1>1. ASSUME NEW kind \in Kinds
      PROVE  /\ of(kind) \in Seq(All)
             /\ ToSet(of(kind)) = IF Declares(http, kind) THEN {Publication(http, kind)} ELSE {}
  <2>1. Publication(http, kind) \in All
    OBVIOUS
  <2> HIDE DEF All
  <2>2. of(kind) = IF Declares(http, kind) THEN <<Publication(http, kind)>> ELSE <<>>
    BY PublishedIs
  <2> HIDE DEF of
  <2>3. CASE Declares(http, kind)
    <3>1. of(kind) = <<Publication(http, kind)>>
      BY <2>2, <2>3
    <3>2. of(kind) \in Seq(All) /\ DOMAIN of(kind) = {1} /\ of(kind)[1] = Publication(http, kind)
      BY <2>1, <3>1
    <3> QED BY <2>3, <3>2 DEF ToSet
  <2>4. CASE ~Declares(http, kind)
    BY <2>2, <2>4 DEF ToSet
  <2> QED BY <2>3, <2>4
<1>2. Publications(http) = (of("rpc") \o of("mcp")) \o of("ui")
  BY Zenon DEF Publications
<1>3. Kinds = {"rpc", "mcp", "ui"}
  BY DEF Kinds
<1>4. of("rpc") \in Seq(All) /\ of("mcp") \in Seq(All) /\ of("ui") \in Seq(All)
  BY <1>1, <1>3
<1> HIDE DEF of, All
<1>5. /\ of("rpc") \o of("mcp") \in Seq(All)
      /\ ToSet(of("rpc") \o of("mcp")) = ToSet(of("rpc")) \cup ToSet(of("mcp"))
  BY <1>4, MembersOfConcat
<1> DEFINE two == of("rpc") \o of("mcp")
           ui == of("ui")
<1>9. /\ two \in Seq(All) /\ ui \in Seq(All) /\ ToSet(two) = ToSet(of("rpc")) \cup ToSet(of("mcp"))
      /\ Publications(http) = two \o ui
  BY <1>2, <1>4, <1>5, Zenon
<1> HIDE DEF two
<1>10. ToSet(ui) = ToSet(of("ui"))
  OBVIOUS
<1> HIDE DEF ui
<1>11. two \o ui \in Seq(All) /\ ToSet(two \o ui) = ToSet(two) \cup ToSet(ui)
  BY <1>9, MembersOfConcat
<1>6. /\ Publications(http) \in Seq(All)
      /\ ToSet(Publications(http)) = ToSet(of("rpc")) \cup ToSet(of("mcp")) \cup ToSet(of("ui"))
  BY <1>9, <1>10, <1>11
<1>7. ToSet(Publications(http)) =
        {Publication(http, kind) : kind \in {k \in Kinds : Declares(http, k)}}
  BY <1>1, <1>3, <1>6
<1>8. DOMAIN Publications(http) \subseteq Nat
  BY <1>6
<1> QED BY <1>7, <1>8

LEMMA FirstIsOne ==
  ASSUME NEW S \in SUBSET Nat, S # {}
  PROVE  FirstOf(S) \in S
<1>1. IsWellFoundedOn(OpToRel(<, Nat), Nat)
  BY NatLessThanWellFounded
<1>2. PICK i \in S : \A j \in S : <<j, i>> \notin OpToRel(<, Nat)
  BY <1>1, WFMin
<1>3. \A j \in S : ~(j < i)
  BY <1>2 DEF OpToRel
<1>4. \A j \in S : i <= j
  BY <1>3
<1> QED BY <1>4 DEF FirstOf

\* An option is handed on as its path if it is declared, and as `off` if not.
LEMMA OptionIs ==
  ASSUME NEW http, IsHttp(http), NEW kind \in Kinds
  PROVE  PublicationPath(Publications(http), kind)
           = IF Declares(http, kind) THEN At(PathOf(http, kind)) ELSE Off
<1> DEFINE p == Publications(http)
           found == {i \in DOMAIN p : p[i].kind = kind}
<1>1. \A i \in found : Declares(http, kind) /\ p[i] = Publication(http, kind)
  <2> SUFFICES ASSUME NEW i \in found PROVE Declares(http, kind) /\ p[i] = Publication(http, kind)
    OBVIOUS
  <2>1. p[i] \in ToSet(p)
    BY DEF ToSet
  <2>2. PICK k \in Kinds : Declares(http, k) /\ p[i] = Publication(http, k)
    BY <2>1, PublicationsAre
  <2> QED BY <2>2 DEF Publication
<1>2. Declares(http, kind) => found # {}
  <2> SUFFICES ASSUME Declares(http, kind) PROVE found # {}
    OBVIOUS
  <2>1. Publication(http, kind) \in ToSet(p)
    BY PublicationsAre
  <2>2. PICK i \in DOMAIN p : p[i] = Publication(http, kind)
    BY <2>1 DEF ToSet
  <2> QED BY <2>2 DEF Publication
<1>3. found \in SUBSET Nat
  BY PublicationsAre
<1>4. PublicationPath(p, kind) = IF found = {} THEN Off ELSE At(p[FirstOf(found)].path)
  BY DEF PublicationPath
<1> HIDE DEF p, found
<1>5. CASE found = {}
  BY <1>2, <1>4, <1>5 DEF p
<1>6. CASE found # {}
  <2>1. FirstOf(found) \in found
    BY <1>3, <1>6, FirstIsOne
  <2>2. p[FirstOf(found)] = Publication(http, kind) /\ Declares(http, kind)
    BY <1>1, <2>1
  <2> QED BY <1>4, <1>6, <2>2 DEF Publication, p
<1> QED BY <1>5, <1>6

(***************************************************************************)
(* What is served is what is declared.                                     *)
(***************************************************************************)
LEMMA EndpointsAre ==
  ASSUME NEW d, IsHttp(d.http), NEW kind \in Kinds
  PROVE  ResolveEndpoint(kind, HttpOptions(Runtime(d))[kind])
           = IF Declares(d.http, kind) THEN {PathOf(d.http, kind)} ELSE {}
<1>1. Runtime(d).publications = Publications(d.http)
  BY DEF Runtime
<1>2. HttpOptions(Runtime(d))[kind] = IF Declares(d.http, kind) THEN At(PathOf(d.http, kind)) ELSE Off
  BY <1>1, OptionIs DEF HttpOptions
<1>3. \A path : At(path).is = "at" /\ At(path).path = path
  BY DEF At
<1>4. Off.is = "off"
  BY DEF Off
<1> HIDE DEF At, Off
<1>5. CASE Declares(d.http, kind)
  <2>1. HttpOptions(Runtime(d))[kind] = At(PathOf(d.http, kind))
    BY <1>2, <1>5
  <2>2. ResolveEndpoint(kind, At(PathOf(d.http, kind))) = {PathOf(d.http, kind)}
    BY <1>3 DEF ResolveEndpoint
  <2> QED BY <1>5, <2>1, <2>2
<1>6. CASE ~Declares(d.http, kind)
  <2>1. HttpOptions(Runtime(d))[kind] = Off
    BY <1>2, <1>6
  <2>2. ResolveEndpoint(kind, Off) = {}
    BY <1>4 DEF ResolveEndpoint
  <2> QED BY <1>6, <2>1, <2>2
<1> QED BY <1>5, <1>6

RoutesOf(d) ==
  BuildHttpLayer(HttpOptions(Runtime(d))) \cup UiGateway(HttpOptions(Runtime(d)))

LEMMA RoutesAreDeclared ==
  ASSUME NEW d, IsHttp(d.http)
  PROVE  RoutesOf(d) = Declared(d)
<1> DEFINE options == HttpOptions(Runtime(d))
           at(kind) == ResolveEndpoint(kind, options[kind])
           of(kind) == UNION {Routes(kind, path) : path \in at(kind)}
           shown == {k \in Kinds : d.http[k].is \notin {"absent", "off"}}
           path(kind) == IF d.http[kind].is = "at" THEN d.http[kind].path ELSE DefaultPath[kind]
<1>1. \A kind \in Kinds : at(kind) = IF kind \in shown THEN {path(kind)} ELSE {}
  BY EndpointsAre DEF Declares, PathOf
<1>2. BuildHttpLayer(options) = UNION {of(kind) : kind \in Kinds}
  BY DEF BuildHttpLayer
<1>3. UiGateway(options) = IF at("ui") = {} THEN {} ELSE GatewayRoutes(site.telemetry)
  BY DEF UiGateway
<1>4. "ui" \in Kinds
  BY DEF Kinds
<1>5. "ui" \in shown <=> d.http["ui"].is \notin {"absent", "off"}
  BY <1>4
<1>6. UiGateway(options) =
        IF d.http["ui"].is \in {"absent", "off"} THEN {} ELSE GatewayRoutes(site.telemetry)
  BY <1>1, <1>3, <1>4, <1>5
<1>7. \A kind \in Kinds : of(kind) = IF kind \in shown THEN Routes(kind, path(kind)) ELSE {}
  <2> SUFFICES ASSUME NEW kind \in Kinds
               PROVE  of(kind) = IF kind \in shown THEN Routes(kind, path(kind)) ELSE {}
    OBVIOUS
  <2>1. at(kind) = IF kind \in shown THEN {path(kind)} ELSE {}
    BY <1>1
  <2> HIDE DEF at, shown, path
  <2>2. CASE kind \in shown
    BY <2>1, <2>2
  <2>3. CASE kind \notin shown
    BY <2>1, <2>3
  <2> QED BY <2>2, <2>3
<1>8. Declared(d) =
        (IF d.http["ui"].is \in {"absent", "off"} THEN {} ELSE GatewayRoutes(site.telemetry))
          \cup UNION {Routes(kind, path(kind)) : kind \in shown}
  BY DEF Declared
<1>9. shown \subseteq Kinds
  OBVIOUS
<1> HIDE DEF of, shown, path
<1>10. UNION {of(kind) : kind \in Kinds} = UNION {Routes(kind, path(kind)) : kind \in shown}
  BY <1>7, <1>9
<1>11. RoutesOf(d) = BuildHttpLayer(options) \cup UiGateway(options)
  BY DEF RoutesOf
<1> HIDE DEF options
<1> QED BY <1>2, <1>6, <1>8, <1>10, <1>11

\* A route and its path among the paths that the compiler compares.
LEMMA RoutePaths ==
  ASSUME NEW kind \in Kinds, NEW path, NEW r \in Routes(kind, path)
  PROVE  r[1] \in ToSet(PublicationPaths([kind |-> kind, path |-> path]))
<1> DEFINE publication == [kind |-> kind, path |-> path]
<1>1. publication.kind = kind /\ publication.path = path
  OBVIOUS
<1> HIDE DEF publication
<1>2. CASE kind # "ui"
  <2>1. r = <<path, kind>> /\ PublicationPaths(publication) = <<path>>
    BY <1>1, <1>2 DEF Routes, PublicationPaths
  <2> QED BY <2>1 DEF ToSet, publication
<1>3. CASE kind = "ui"
  <2>1. PublicationPaths(publication) = ApplicationUiPaths(path)
    BY <1>1, <1>3 DEF PublicationPaths
  <2>2. PICK i \in 1..5 : r[1] = ApplicationUiPaths(path)[i]
    BY <1>3 DEF Routes
  <2>3. DOMAIN ApplicationUiPaths(path) = 1..5
    BY DEF ApplicationUiPaths
  <2> QED BY <2>1, <2>2, <2>3 DEF ToSet, publication
<1> QED BY <1>2, <1>3

LEMMA UiPathsApart ==
  ASSUME NEW S, NEW path \in Seq(S), NEW i \in 1..5, NEW j \in 1..5,
         ApplicationUiPaths(path)[i] = ApplicationUiPaths(path)[j]
  PROVE  i = j
<1> DEFINE T == S \cup {"client.js", "style.css", "api", "call"}
           n == Len(path)
<1>1. path \in Seq(T)
  OBVIOUS
<1>2. "client.js" \in T /\ "style.css" \in T /\ "api" \in T /\ "call" \in T
  OBVIOUS
<1> HIDE DEF T
<1>3. <<"client.js">> \in Seq(T) /\ <<"style.css">> \in Seq(T) /\ <<"api">> \in Seq(T)
      /\ <<"api", "call">> \in Seq(T)
  BY <1>2
<1>4. ASSUME NEW s \in T
      PROVE  Len(path \o <<s>>) = n + 1 /\ (path \o <<s>>)[n + 1] = s
  <2>1. <<s>> \in Seq(T) /\ Len(<<s>>) = 1 /\ <<s>>[1] = s
    OBVIOUS
  <2> QED BY <1>1, <2>1, ConcatProperties
<1>5. Len(path \o <<"api", "call">>) = n + 2
  BY <1>1, <1>3, ConcatProperties
<1>6. n \in Nat
  BY <1>1
<1> HIDE DEF n
<1> QED BY <1>2, <1>4, <1>5, <1>6 DEF ApplicationUiPaths, n

\* No two routes of one publication share a path.
LEMMA OwnRoutesApart ==
  ASSUME NEW kind \in Kinds, NEW S, NEW path \in Seq(S), NEW r \in Routes(kind, path),
         NEW s \in Routes(kind, path), r[1] = s[1]
  PROVE  r = s
<1>1. CASE kind # "ui"
  BY <1>1 DEF Routes
<1>2. CASE kind = "ui"
  <2> DEFINE names == <<"document", "javascript", "stylesheet", "api", "call">>
             paths == ApplicationUiPaths(path)
  <2>1. Routes(kind, path) = {<<paths[i], names[i]>> : i \in 1..5}
    BY <1>2 DEF Routes
  <2> HIDE DEF names, paths
  <2>2. PICK i \in 1..5 : r = <<paths[i], names[i]>>
    BY <2>1
  <2>3. PICK j \in 1..5 : s = <<paths[j], names[j]>>
    BY <2>1
  <2>4. paths[i] = paths[j]
    BY <2>2, <2>3
  <2>5. i = j
    BY <2>4, UiPathsApart DEF paths
  <2> QED BY <2>2, <2>3, <2>5
<1> QED BY <1>1, <1>2

LEMMA RuntimeIsPart ==
  ASSUME NEW d, d.parts \in Seq(ToSet(d.parts))
  PROVE  Runtime(d) \in ToSet(Parts(d))
<1> DEFINE own == <<Database(d), Runtime(d)>>
           end == PublicEndpoint(d)
           more == d.parts
           S == {Database(d), Runtime(d)} \cup ToSet(end) \cup ToSet(more)
<1>1. own \in Seq(S)
  <2>1. Database(d) \in S /\ Runtime(d) \in S
    OBVIOUS
  <2> HIDE DEF S
  <2> QED BY <2>1
<1>2. more \in Seq(S)
  <2>1. ToSet(more) \subseteq S
    OBVIOUS
  <2> HIDE DEF S, more
  <2>2. more \in Seq(ToSet(more))
    BY DEF more
  <2> QED BY <2>1, <2>2
<1>3. end \in Seq(S)
  <2>1. ToSet(end) \subseteq S
    OBVIOUS
  <2> DEFINE public == [tag |-> "PublicEndpoint", id |-> "public", target |-> Runtime(d), copy |-> 0]
  <2>2. end = <<>> \/ end = <<public>>
    BY DEF PublicEndpoint
  <2> HIDE DEF S, end, public
  <2>3. CASE end = <<>>
    BY <2>3
  <2>4. CASE end = <<public>>
    <3>1. DOMAIN end = {1} /\ end[1] = public
      BY <2>4
    <3>2. public \in S
      BY <2>1, <3>1 DEF ToSet
    <3> QED BY <2>4, <3>2
  <2> QED BY <2>2, <2>3, <2>4
<1>4. Parts(d) = (own \o end) \o more
  BY Zenon DEF Parts
<1>5. Runtime(d) \in ToSet(own)
  <2>1. DOMAIN own = {1, 2} /\ own[2] = Runtime(d)
    OBVIOUS
  <2> QED BY <2>1 DEF ToSet
<1> HIDE DEF own, end, more, S
<1> DEFINE two == own \o end
<1>6. two \in Seq(S) /\ ToSet(two) = ToSet(own) \cup ToSet(end)
  BY <1>1, <1>3, MembersOfConcat
<1>7. Parts(d) = two \o more
  BY <1>4, Zenon
<1> HIDE DEF two
<1>8. ToSet(two \o more) = ToSet(two) \cup ToSet(more)
  BY <1>2, <1>6, MembersOfConcat
<1> QED BY <1>5, <1>6, <1>7, <1>8

\* A design that compiles publishes no path twice.
LEMMA PublicationsApart ==
  ASSUME NEW d, IsHttp(d.http), d.parts \in Seq(ToSet(d.parts)), Compiles(d),
         NEW k \in Kinds, NEW l \in Kinds, k # l, Declares(d.http, k), Declares(d.http, l)
  PROVE  ToSet(PublicationPaths(Publication(d.http, k)))
           \cap ToSet(PublicationPaths(Publication(d.http, l))) = {}
<1> DEFINE pubs == Publications(d.http)
<1>1. PICK n \in DOMAIN Parts(d) : Parts(d)[n] = Runtime(d)
  BY RuntimeIsPart DEF ToSet
<1>2. ValidPublications(Runtime(d))
  BY <1>1 DEF Compiles
<1>3. Runtime(d).tag = "HttpRuntime" /\ Runtime(d).publications = pubs
  BY DEF Runtime
<1> HIDE DEF pubs
<1>4. \A i, j \in DOMAIN pubs : i # j =>
        ToSet(PublicationPaths(pubs[i])) \cap ToSet(PublicationPaths(pubs[j])) = {}
  BY <1>2, <1>3 DEF ValidPublications
<1>5. Publication(d.http, k) \in ToSet(pubs) /\ Publication(d.http, l) \in ToSet(pubs)
  BY PublicationsAre DEF pubs
<1>6. PICK i \in DOMAIN pubs : pubs[i] = Publication(d.http, k)
  BY <1>5 DEF ToSet
<1>7. PICK j \in DOMAIN pubs : pubs[j] = Publication(d.http, l)
  BY <1>5 DEF ToSet
<1>8. i # j
  <2>1. Publication(d.http, k).kind = k /\ Publication(d.http, l).kind = l
    BY DEF Publication
  <2> QED BY <1>6, <1>7, <2>1
<1> QED BY <1>4, <1>6, <1>7, <1>8

\* The publications of a design stay off the routes of the gateway: the compiler
\* compares the publications with each other, and the gateway's are none.
ApartFromGateway ==
  \A s \in Sites : \A d \in s.designs : \A kind \in Kinds : Declares(d.http, kind) =>
    \A route \in GatewayRoutes(s.telemetry) :
      route[1] \notin ToSet(PublicationPaths(Publication(d.http, kind)))

LEMMA DeclaredRoutesApart ==
  ASSUME ApartFromGateway, site \in Sites, NEW d \in site.designs, Compiles(d),
         NEW r \in Declared(d), NEW s \in Declared(d), r[1] = s[1]
  PROVE  r = s
<1>1. IsHttp(d.http) /\ d.parts \in Seq(ToSet(d.parts))
  BY DesignsAssumption DEF IsHttp
<1> DEFINE shown == {k \in Kinds : Declares(d.http, k)}
           gate == GatewayRoutes(site.telemetry)
           of(kind) == Routes(kind, PathOf(d.http, kind))
<1>2. \A x \in Declared(d) : x \in gate \/ \E kind \in shown : x \in of(kind)
  BY DEF Declared, Declares, PathOf
<1>3. ASSUME NEW kind \in shown, NEW x \in of(kind)
      PROVE  x[1] \in ToSet(PublicationPaths(Publication(d.http, kind)))
  BY RoutePaths DEF Publication
<1>4. ASSUME NEW kind \in shown, NEW x \in of(kind), NEW y \in gate
      PROVE  x[1] # y[1]
  BY <1>3 DEF ApartFromGateway
<1>5. ASSUME NEW x \in gate, NEW y \in gate, x[1] = y[1]
      PROVE  x = y
  <2>1. PICK a : x = <<<<"otel", "v1", a>>, a>>
    BY DEF GatewayRoutes
  <2>2. PICK b : y = <<<<"otel", "v1", b>>, b>>
    BY DEF GatewayRoutes
  <2>3. <<"otel", "v1", a>> = <<"otel", "v1", b>>
    BY <1>5, <2>1, <2>2
  <2>4. a = b
    BY <2>3
  <2> QED BY <2>1, <2>2, <2>4
<1>6. ASSUME NEW k \in shown, NEW l \in shown, NEW x \in of(k), NEW y \in of(l), x[1] = y[1]
      PROVE  x = y
  <2>1. k = l
    BY <1>1, <1>3, <1>6, PublicationsApart
  <2>2. PICK S : PathOf(d.http, k) \in Seq(S)
    BY <1>1, PathsAreSequences
  <2> QED BY <1>6, <2>1, <2>2, OwnRoutesApart
<1> HIDE DEF shown, gate, of
<1> QED BY <1>2, <1>4, <1>5, <1>6

(***************************************************************************)
(* The processes.  A process starts with the design in force, which        *)
(* compiles, and keeps it; its routes are made of that design.             *)
(***************************************************************************)
Right(x) ==
  /\ {"stage", "design", "routes"} \subseteq DOMAIN x
  /\ x.stage # "down" => Compiles(x.design)
  /\ x.stage = "serving" => x.routes = Declared(x.design)

RoutesInv ==
  /\ design \notin {None, Removed} => Compiles(design)
  /\ \A p \in site.processes : Right(process[p])

\* What a step may make of a process.
LEMMA StaysRight ==
  ASSUME RowsInv, RoutesInv, UNCHANGED <<site, design>>,
         \A p \in site.processes :
           \/ process'[p] = process[p] \/ process'[p] = Down
           \/ /\ {"stage", "design", "routes"} \subseteq DOMAIN process'[p]
              /\ process'[p].stage # "serving"
              /\ \/ process[p].stage # "down" /\ process'[p].design = process[p].design
                 \/ process'[p].design = design /\ design \notin {None, Removed}
           \/ /\ {"stage", "design", "routes"} \subseteq DOMAIN process'[p]
              /\ process[p].stage # "down" /\ process'[p].design = process[p].design
              /\ \/ process'[p].routes = Declared(process[p].design)
                 \/ process[p].stage = "serving" /\ process'[p].routes = process[p].routes
  PROVE  RoutesInv'
<1>1. \A d : Declared(d)' = Declared(d)
  BY DEF Declared
<1>2. Right(Down) /\ Right(Down)'
  BY DEF Right, Down
<1>3. \A x : Right(x) => Right(x)'
  BY <1>1 DEF Right
<1>4. ASSUME NEW p \in site.processes PROVE Right(process[p])'
  <2>1. Right(process[p])
    BY DEF RoutesInv
  <2> HIDE DEF Down
  <2> QED BY <1>1, <1>2, <1>3, <2>1 DEF RoutesInv, Right
<1> QED BY <1>4 DEF RoutesInv

LEMMA RoutesStep == RowsInv /\ RoutesInv /\ [Next]_vars => RoutesInv'
<1> SUFFICES ASSUME RowsInv, RoutesInv, [Next]_vars PROVE RoutesInv'
  OBVIOUS
<1> DEFINE Fields(x) == {"stage", "design", "routes"} \subseteq DOMAIN x
<1>1. \A p \in site.processes : Fields(process[p])
  BY DEF RoutesInv, Right
<1>2. Fields(Down)
  BY DEF Down
<1>3. ASSUME NEW d \in site.designs, Deploy(d) PROVE RoutesInv'
  <2> DEFINE new == [Down EXCEPT !.stage = "starting", !.design = d]
  <2>1. Fields(new) /\ new.stage = "starting" /\ new.design = d
    BY DEF Down
  <2>2. Compiles(d) /\ design' = d /\ UNCHANGED site
    BY <1>3 DEF Deploy, Deployable, Accepted
  <2>3. process' = [p \in site.processes |-> new]
    BY <1>3 DEF Deploy
  <2> HIDE DEF new
  <2>4. \A p \in site.processes : process'[p] = new
    BY <2>3
  <2> QED BY <2>1, <2>2, <2>4 DEF RoutesInv, Right
<1>4. ASSUME NEW d \in site.designs, Edit(d) PROVE RoutesInv'
  <2>1. Compiles(d) /\ design' = d /\ UNCHANGED <<site, process>>
    BY <1>4 DEF Edit, Deployable, Accepted
  <2>2. \A x : Declared(x)' = Declared(x)
    BY <2>1 DEF Declared
  <2> QED BY <2>1, <2>2 DEF RoutesInv, Right
<1>5. CASE Destroy
  <2>1. design' = Removed /\ UNCHANGED site
    BY <1>5 DEF Destroy
  <2>2. \A p \in site.processes : process'[p] = process[p] \/ process'[p] = Down
    BY <1>5 DEF Destroy
  <2>3. \A x : Declared(x)' = Declared(x)
    BY <2>1 DEF Declared
  <2>4. Right(Down)'
    BY <1>2 DEF Right, Down
  <2> HIDE DEF Down
  <2> QED BY <2>1, <2>2, <2>3, <2>4 DEF RoutesInv, Right
<1>6. ASSUME NEW p \in site.processes, NEW binary \in site.binaries, Start(p, binary) PROVE RoutesInv'
  <2> DEFINE new == [Down EXCEPT !.stage = "starting", !.topology = binary, !.design = design]
  <2>1. Fields(new) /\ new.stage = "starting" /\ new.design = design
    BY DEF Down
  <2>2. process' = [process EXCEPT ![p] = new] /\ UNCHANGED <<site, design>> /\ design \notin {None, Removed}
    BY <1>6, Zenon DEF Start
  <2> HIDE DEF new
  <2>3. process'[p] = new /\ \A q \in site.processes : q # p => process'[q] = process[q]
    BY <2>2 DEF RowsInv
  <2> QED BY <2>1, <2>2, <2>3, StaysRight
\* A stage short of serving, of a process that is not down.
<1>7. ASSUME NEW p \in site.processes, NEW stage, Goes(p, stage), process[p].stage # "down",
             stage # "serving", UNCHANGED <<site, design>>
      PROVE  RoutesInv'
  <2>1. /\ process'[p].stage = stage /\ process'[p].design = process[p].design
        /\ Fields(process'[p])
        /\ \A q \in site.processes : q # p => process'[q] = process[q]
    BY <1>1, <1>7 DEF Goes, RowsInv
  <2> QED BY <1>7, <2>1, StaysRight
<1>8. ASSUME NEW p \in site.processes, process' = [process EXCEPT ![p] = Down],
             UNCHANGED <<site, design>>
      PROVE  RoutesInv'
  <2>1. process'[p] = Down /\ \A q \in site.processes : q # p => process'[q] = process[q]
    BY <1>8 DEF RowsInv
  <2> QED BY <1>8, <2>1, StaysRight
<1>9. ASSUME NEW p \in site.processes, Prepare(p) PROVE RoutesInv'
  BY <1>7, <1>9 DEF Prepare
<1>10. ASSUME NEW p \in site.processes, RecordTopology(p) PROVE RoutesInv'
  BY <1>7, <1>10 DEF RecordTopology
<1>11. ASSUME NEW p \in site.processes, CompareTopology(p) PROVE RoutesInv'
  BY <1>7, <1>8, <1>11 DEF CompareTopology
<1>12. ASSUME NEW p \in site.processes, StartBackground(p) PROVE RoutesInv'
  <2>1. process[p].stage # "down"
    BY <1>12 DEF StartBackground
  <2> QED BY <1>7, <1>12, <2>1 DEF StartBackground
<1>13. ASSUME NEW p \in site.processes, Serve(p) PROVE RoutesInv'
  <2> DEFINE options == HttpOptions(Runtime(process[p].design))
  <2>1. CASE Servable(options)
    <3> DEFINE served == RoutesOf(process[p].design)
    <3>1. /\ process' = [process EXCEPT ![p] = [@ EXCEPT !.stage = "serving", !.routes = served]]
          /\ UNCHANGED <<site, design>> /\ process[p].stage = "background"
      BY <1>13, <2>1, Zenon DEF Serve, RoutesOf
    <3>2. served = Declared(process[p].design)
      <4>1. process[p].design \in site.designs /\ site \in Sites
        BY <3>1 DEF RowsInv
      <4>2. IsHttp(process[p].design.http)
        BY <4>1, DesignsAssumption DEF IsHttp
      <4> QED BY <4>2, RoutesAreDeclared
    <3> HIDE DEF served
    <3>3. /\ process'[p].routes = served /\ process'[p].design = process[p].design
          /\ Fields(process'[p])
          /\ \A q \in site.processes : q # p => process'[q] = process[q]
      BY <1>1, <3>1 DEF RowsInv
    <3> QED BY <3>1, <3>2, <3>3, StaysRight
  <2>2. CASE ~Servable(options)
    BY <1>8, <1>13, <2>2 DEF Serve
  <2> QED BY <2>1, <2>2
<1>14. ASSUME NEW p \in site.processes, Fail(p) PROVE RoutesInv'
  BY <1>8, <1>14 DEF Fail
<1>15. ASSUME NEW p \in site.processes, NEW row \in site.rows, Write(p, row) PROVE RoutesInv'
  <2>1. /\ process[p].stage = "serving" /\ UNCHANGED <<site, design>>
        /\ process'[p].design = process[p].design /\ process'[p].routes = process[p].routes
        /\ Fields(process'[p])
        /\ \A q \in site.processes : q # p => process'[q] = process[q]
    BY <1>1, <1>15 DEF Write, RowsInv
  <2> QED BY <2>1, StaysRight
<1>16. ASSUME \/ Tick \/ UNCHANGED vars
              \/ \E from \in {t.version : t \in site.binaries}, to \in site.binaries : AdvanceTopology(from, to)
              \/ \E p \in site.processes, address \in site.traffic.addresses,
                    batch \in site.traffic.batches, collector \in site.traffic.collectors :
                      Receive(p, address, batch, collector)
       PROVE  RoutesInv'
  <2>1. UNCHANGED <<site, design, process>>
    BY <1>16 DEF Tick, Receive, AdvanceTopology, vars
  <2> QED BY <2>1, StaysRight
<1> QED
  BY <1>3, <1>4, <1>5, <1>6, <1>9, <1>10, <1>11, <1>12, <1>13, <1>14, <1>15, <1>16 DEF Next

\* A process that serves has a route for what its design publishes and for
\* nothing else, and no two handlers share a path, as long as no design publishes
\* on a route of the telemetry gateway (compileInfrastructure, httpOptions,
\* buildHttpLayer).
THEOREM RoutesAsDeclared ==
  ASSUME ApartFromGateway
  PROVE  Spec => []ServedAsDeclared
<1>1. Init => RowsInv
  BY DEF Init, RowsInv, Down
<1>2. Init => RoutesInv
  BY DEF Init, RoutesInv, Right, Down
<1>3. RowsInv /\ RoutesInv => ServedAsDeclared
  <2> SUFFICES ASSUME RowsInv, RoutesInv, NEW p \in site.processes, Serving(p)
               PROVE  /\ process[p].routes = Declared(process[p].design)
                      /\ \A r, s \in process[p].routes : r[1] = s[1] => r = s
    BY DEF ServedAsDeclared
  <2>1. process[p].routes = Declared(process[p].design) /\ Compiles(process[p].design)
    BY DEF RoutesInv, Right, Serving
  <2>2. process[p].design \in site.designs /\ site \in Sites
    BY DEF RowsInv, Serving
  <2> QED BY <2>1, <2>2, DeclaredRoutesApart
<1> QED BY <1>1, <1>2, <1>3, RowsStep, RoutesStep, PTL DEF Spec
=============================================================================
