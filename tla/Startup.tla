------------------------------- MODULE Startup -------------------------------
(***************************************************************************)
(* The controller's start (run in main.rs), restarts included.  The switch *)
(* outlives the controller: tables, registers, the generator and the gates *)
(* are as the last run left them, and the generator goes on sending while  *)
(* the next run clears the tables, until it is reset.                      *)
(*                                                                         *)
(* Any call may fail and any unwrap may panic, which ends the process; so  *)
(* may the operator.  A table entry is a record of its table, its key and  *)
(* its action data, both as sequences of numbers.                          *)
(***************************************************************************)
EXTENDS Integers, SequencesExt

CONSTANTS Configs,   \* contents configuration.json may have
          NumApps,   \* applications of the packet generator: 16
          MaxRuns,   \* bound: the controller is started this often
          None

\* A configuration maps stream gates to schedules and ports to tGCLs, and gives
\* each of the two its period, after the insertion of the guard bands.  A port
\* that is listed twice has one tGCL: the entries of two would share a batch.
ASSUME StartupAssumption ==
    /\ NumApps \in Nat \ {0} /\ MaxRuns \in Nat
    /\ \A c \in Configs :
         /\ \A s \in DOMAIN c.period : c.period[s] \in Nat
         /\ c.gates \in Seq([id : Nat, schedule : DOMAIN c.period])
         /\ c.ports \in Seq([id : Nat, gcl : DOMAIN c.period])
         /\ \A i, j \in DOMAIN c.ports :
              c.ports[i].id = c.ports[j].id => c.ports[i].gcl = c.ports[j].gcl

App == 0 .. (NumApps - 1)
Gate == UNION {{c.gates[j].id : j \in DOMAIN c.gates} : c \in Configs}
NoPort == 0            \* the metadata of a packet no table gave a port
Port == {NoPort} \union UNION {{c.ports[j].id : j \in DOMAIN c.ports} : c \in Configs}

VARIABLES pc,       \* where run() is; "down": there is no controller
          cleared,  \* number of tables cleared so far
          run,      \* number of the current or last run
          config,   \* the configuration this run, or the one before, has read
          tables,   \* all entries of the tables of the switch
          app,      \* app[a]: application a of the packet generator
          pktgen,   \* generation is enabled on the generator's ports ...
          enabledBy, \* ... by this run
          tasTs,    \* tas_lower/higher_last_ts of a port: enabledBy and timer
          gateTs,   \* of its writing; lower/higher_last_ts of a stream gate
          setting   \* what the last control packet that set a gate went by

controller == <<pc, cleared, run, config>>
generator == <<app, pktgen, enabledBy>>
registers == <<tasTs, gateTs>>
vars == <<controller, tables, generator, registers, setting>>

Entry(t, k, d) == [table |-> t, key |-> k, data |-> d]
EntriesAt(t, k) == {e \in tables : e.table = t /\ e.key = k}
-----------------------------------------------------------------------------
\* Mutant: both kinds of applications are counted from 1.
MutPortAppId(c, j) == j

\* last_configured_app_id starts at 1 and counts stream gates, then ports.
GateAppId(c, j) == j
PortAppId(c, j) == Len(c.gates) + j

GatePeriod(c, j) == c.period[c.gates[j].schedule]
PortPeriod(c, j) == c.period[c.ports[j].gcl]

\* The entries of a schedule go to the first stream gate that has it, those of
\* a tGCL to the first batch of its port.
FirstGate(c, j) ==
    c.gates[CHOOSE i \in DOMAIN c.gates :
              /\ c.gates[i].schedule = c.gates[j].schedule
              /\ \A h \in 1..(i-1) : c.gates[h].schedule # c.gates[j].schedule].id

\* Mutant: the batches are counted from 1.
MutFirstBatch(c, j) == j

FirstBatch(c, j) ==
    (CHOOSE i \in DOMAIN c.ports :
        /\ c.ports[i].id = c.ports[j].id
        /\ \A h \in 1..(i-1) : c.ports[h].id # c.ports[j].id) - 1

Exceeded(period) == Entry("hyperperiod_exceeded_detection", <<period>>, <<period>>)

\* configure_app_ids: two requests for each stream gate, three for each port.
GateAppRequests(c) ==
    [n \in 1 .. (2 * Len(c.gates)) |->
        LET j == (n + 1) \div 2
        IN IF n % 2 = 0 THEN Exceeded(GatePeriod(c, j))
           ELSE Entry("app_id_stream_gate", <<GateAppId(c, j)>>, <<c.gates[j].id>>)]

PortAppRequests(c) ==
    [n \in 1 .. (3 * Len(c.ports)) |->
        LET j    == (n + 2) \div 3
            data == <<c.ports[j].id, PortPeriod(c, j)>>
        IN CASE n % 3 = 1 -> Entry("app_id_tas", <<PortAppId(c, j)>>, data)
             [] n % 3 = 2 -> Entry("batch_id_to_port", <<j - 1>>, data)
             [] n % 3 = 0 -> Exceeded(PortPeriod(c, j))]

\* table_requests in the order they are collected.  All entries of a schedule
\* are one here; so are those that are the same in every run.
Requests(c) ==
    <<Entry("fixed", <<>>, <<>>)>>
    \o [j \in DOMAIN c.gates |-> Entry("stream_gate_instance", <<FirstGate(c, j)>>, <<>>)]
    \o [j \in DOMAIN c.ports |->
          Entry("gate_control_list", <<FirstBatch(c, j)>>, <<c.ports[j].id>>)]
    \o <<Entry("recirculation", <<>>, <<>>)>>
    \o GateAppRequests(c) \o PortAppRequests(c)
    \o [j \in DOMAIN c.gates |->
          Entry("stream_id", <<c.gates[j].id>>, <<c.gates[j].id, GatePeriod(c, j)>>)]

\* Mutant: a table is missing from the list.
MutClearOrder ==
    <<"fixed", "app_id_tas", "batch_id_to_port", "stream_id", "stream_gate_instance",
      "hyperperiod_exceeded_detection", "recirculation", "gate_control_list">>

\* The list of tables in main.rs, those with fixed entries as one.
ClearOrder ==
    <<"fixed", "app_id_tas", "batch_id_to_port", "stream_id", "stream_gate_instance",
      "hyperperiod_exceeded_detection", "app_id_stream_gate", "recirculation",
      "gate_control_list">>

\* One request per application: TAS control, stream gates, ports.
Activation(id, timer, batches) ==
    [app_id |-> id, cfg |-> [app_enable |-> TRUE, timer_nanosec |-> timer,
                             batch_count_cfg |-> batches]]
Activations(c) ==
    <<Activation(0, 1, Len(c.ports) - 1)>>
    \o [j \in DOMAIN c.gates |-> Activation(GateAppId(c, j), GatePeriod(c, j), 0)]
    \o [j \in DOMAIN c.ports |-> Activation(PortAppId(c, j), PortPeriod(c, j), 0)]
-----------------------------------------------------------------------------
\* The switch has been powered up; the controller has never run.
Disabled == [app_enable |-> FALSE, timer_nanosec |-> 0, batch_count_cfg |-> 0]

Init ==
    /\ pc = "down" /\ cleared = 0 /\ run = 0 /\ config = None
    /\ tables = {}
    /\ app = [a \in App |-> Disabled] /\ pktgen = FALSE /\ enabledBy = 0
    /\ tasTs = [p \in Port |-> None] /\ gateTs = [g \in Gate |-> None]
    /\ setting = None

Start ==
    /\ pc = "down" /\ run < MaxRuns
    /\ pc' = "clear" /\ cleared' = 0 /\ run' = run + 1
    /\ UNCHANGED <<config, tables, generator, registers, setting>>

\* Calls fail and operators interfere in every run but the last.
Unlucky == run < MaxRuns

Goto(label) == pc' = label /\ UNCHANGED <<cleared, run, config>>

\* A call returns an error that `?' hands on, an unwrap panics, or the process
\* is killed: it ends with what it has done so far.
Exit ==
    /\ pc # "down" /\ Unlucky
    /\ Goto("down")
    /\ UNCHANGED <<tables, generator, registers, setting>>

\* clear_tables, one table after the other.
ClearTable ==
    /\ pc = "clear"
    /\ tables' = {e \in tables : e.table # ClearOrder[cleared + 1]}
    /\ cleared' = cleared + 1
    /\ pc' = IF cleared' = Len(ClearOrder) THEN "load" ELSE "clear"
    /\ UNCHANGED <<run, config, generator, registers, setting>>

\* Ports are added and the file is read: the unwrap panics if it cannot be.
LoadConfiguration ==
    /\ pc = "load"
    /\ \/ /\ config' \in Configs
          /\ pc' = "reset"
          /\ UNCHANGED <<cleared, run>>
       \/ Goto("down")
    /\ UNCHANGED <<tables, generator, registers, setting>>

\* Mutant: generation is only taken from the applications.
MutDisableGenerator ==
    /\ pc = "reset"
    /\ app' = [a \in App |-> Disabled]
    /\ Goto("registers")
    /\ UNCHANGED <<tables, pktgen, enabledBy, registers, setting>>

\* reset_packet_generator, its first half: one update for the applications and
\* then the ports.  What comes first may have been done when it fails.
DisableGenerator ==
    /\ pc = "reset"
    /\ \/ /\ app' = [a \in App |-> Disabled]
          /\ pktgen' = FALSE
          /\ Goto("registers")
       \/ /\ Unlucky
          /\ \E n \in App : app' = [a \in App |-> IF a <= n THEN Disabled ELSE app[a]]
          /\ Goto("down")
          /\ UNCHANGED pktgen
    /\ UNCHANGED <<tables, enabledBy, registers, setting>>

\* Mutant: the registers of the ports are not in the list.
MutClearRegisters ==
    /\ pc = "registers"
    /\ gateTs' = [g \in Gate |-> None]
    /\ Goto("activate")
    /\ UNCHANGED <<tables, generator, tasTs, setting>>

\* Its second half: the registers of the stream gates, then those of the ports.
ClearRegisters ==
    /\ pc = "registers"
    /\ gateTs' = [g \in Gate |-> None]
    /\ \/ tasTs' = [p \in Port |-> None] /\ Goto("activate")
       \/ Unlucky /\ Goto("down") /\ UNCHANGED tasTs
    /\ UNCHANGED <<tables, generator, setting>>

\* The first n activations have reached the generator.
Activated(n) ==
    app' = [a \in App |->
              LET S == {i \in 1..n : Activations(config)[i].app_id = a}
              IN IF S = {} THEN app[a]
                 ELSE Activations(config)[CHOOSE i \in S : \A j \in S : j <= i].cfg]

\* activate_traffic_gen_applications.  The number of batches less one panics
\* without a tGCL; an application the generator does not have is an error.
ActivateApps ==
    /\ pc = "activate"
    /\ LET n == Len(Activations(config))
           known(m) == \A i \in 1..m : Activations(config)[i].app_id \in App
       IN \/ /\ config.ports = <<>>
             /\ Goto("down") /\ UNCHANGED app
          \/ /\ config.ports # <<>> /\ known(n)
             /\ Activated(n) /\ Goto("write")
          \/ /\ config.ports # <<>> /\ (~known(n) \/ Unlucky)
             /\ \E m \in 0..(n-1) : known(m) /\ Activated(m)
             /\ Goto("down")
    /\ UNCHANGED <<tables, pktgen, enabledBy, registers, setting>>

\* An entry that exists, in its table or among the requests, cannot be added.
Addable(n) ==
    \A i \in 1..n : LET e == Requests(config)[i] IN
        /\ EntriesAt(e.table, e.key) = {}
        /\ \A j \in 1..(i-1) : LET f == Requests(config)[j]
                               IN ~(f.table = e.table /\ f.key = e.key)

Added(n) == tables' = tables \union {Requests(config)[i] : i \in 1..n}

\* Flow control is configured, the remaining requests are collected, and
\* write_table_entries writes them all, or some before it fails.
WriteEntries ==
    /\ pc = "write"
    /\ LET n == Len(Requests(config))
       IN \/ Addable(n) /\ Added(n) /\ Goto("waiting")
          \/ /\ ~Addable(n) \/ Unlucky
             /\ \E m \in 0..(n-1) : Addable(m) /\ Added(m)
             /\ Goto("down")
    /\ UNCHANGED <<generator, registers, setting>>

\* The spawned task has seen the time come: enable_pkt_gen, tried once.
EnablePktGen ==
    /\ pc = "waiting"
    /\ Goto("running")
    /\ \/ pktgen' = TRUE /\ enabledBy' = run
       \/ Unlucky /\ UNCHANGED <<pktgen, enabledBy>>
    /\ UNCHANGED <<tables, app, registers, setting>>
-----------------------------------------------------------------------------
Generates(a) == pktgen /\ app[a].app_enable

\* app_id_stream_gate, and app_id_tas if that misses, name the register.
Stamp(stamp, gates, ports) ==
    \/ /\ gates # {}
       /\ \E e \in gates : gateTs' = [gateTs EXCEPT ![e.data[1]] = stamp]
       /\ UNCHANGED tasTs
    \/ /\ gates = {} /\ ports # {}
       /\ \E e \in ports : tasTs' = [tasTs EXCEPT ![e.data[1]] = stamp]
       /\ UNCHANGED gateTs

\* The timer of application a has fired: a stamp, unless both tables miss.
HyperperiodPacket(a) ==
    /\ a # 0 /\ Generates(a)
    /\ Stamp([run |-> enabledBy, timer |-> app[a].timer_nanosec],
             EntriesAt("app_id_stream_gate", <<a>>), EntriesAt("app_id_tas", <<a>>))
    /\ UNCHANGED <<controller, tables, generator, setting>>

\* Register and duration a control packet of batch b gets; both are the
\* metadata's zeros if batch_id_to_port misses.
Assigned(b) ==
    LET es == EntriesAt("batch_id_to_port", <<b>>)
    IN IF es = {} THEN <<NoPort, 0>> ELSE (CHOOSE e \in es : TRUE).data

\* A control packet that gets as far as an entry of gate_control_list.  Where
\* it is lost, or its position has no entry, nothing changes.
ControlPacket(b) ==
    /\ Generates(0) /\ b <= app[0].batch_count_cfg
    /\ EntriesAt("recirculation", <<>>) # {}
    /\ \E e \in EntriesAt("gate_control_list", <<b>>) :
         setting' = [gate |-> e.data[1], register |-> Assigned(b)[1],
                     duration |-> Assigned(b)[2], stamp |-> tasTs[Assigned(b)[1]]]
    /\ UNCHANGED <<controller, tables, generator, registers>>

Controller ==
    \/ ClearTable \/ LoadConfiguration \/ DisableGenerator \/ ClearRegisters
    \/ ActivateApps \/ WriteEntries \/ EnablePktGen

Packet == (\E a \in App : HyperperiodPacket(a)) \/ (\E b \in App : ControlPacket(b))

Next == Start \/ Exit \/ Controller \/ Packet

\* The controller goes on, and so does every timer.
Spec == Init /\ [][Next]_vars
FairSpec ==
    /\ Spec /\ WF_vars(Controller)
    /\ \A a \in App : WF_vars(HyperperiodPacket(a)) /\ WF_vars(ControlPacket(a))
-----------------------------------------------------------------------------
EntriesOf(c) == ToSet(Requests(c))

\* A configuration the program can serve: a tGCL at least, applications enough
\* and no period twice, whether of a stream gate or of a port.
Valid(c) ==
    LET periods == [j \in DOMAIN c.gates |-> GatePeriod(c, j)]
                   \o [j \in DOMAIN c.ports |-> PortPeriod(c, j)]
    IN /\ c.ports # <<>>
       /\ Len(periods) < NumApps
       /\ IsInjective(periods)

\* When generation is switched on, the switch is as TasGates and Psfp begin:
\* the tables hold the entries of this configuration and no older one, no
\* register has a time stamp, and exactly its applications are enabled; and only
\* a configuration the program can serve comes that far.
StartsClean ==
    [][ pktgen' /\ ~pktgen =>
          /\ Valid(config)
          /\ tables = EntriesOf(config)
          /\ \A p \in Port : tasTs[p] = None
          /\ \A g \in Gate : gateTs[g] = None
          /\ \A a \in App : app[a] =
               IF \E i \in DOMAIN Activations(config) : Activations(config)[i].app_id = a
               THEN Activations(config)[a + 1].cfg ELSE Disabled ]_vars

\* main.rs:311-313: generation starts only when PTP is synchronized and its time
\* has come.  From the reset until then no packet of this or an earlier run
\* stamps a register or sets a gate, whatever the applications are set to.
QuietUntilActivation ==
    [][ (pc \in {"registers", "activate", "write", "waiting"}) =>
          /\ \A p \in Port : tasTs'[p] \in {tasTs[p], None}
          /\ \A g \in Gate : gateTs'[g] \in {gateTs[g], None}
          /\ setting' = setting ]_vars

\* As long as the tables are those of a configuration and generation runs, with
\* its controller or after it has died, ...
Serving == pktgen /\ tables = EntriesOf(config)

OwnStamp(stamp, period) ==
    stamp # None => stamp.run = enabledBy /\ stamp.timer = period

\* ... the time stamps of a port and a stream gate come from its own timer in
\* this run, and what has none of its own keeps none (TSN.p4, apply).
StampsAreOwn ==
    Serving =>
      /\ \A p \in Port : tasTs[p] # None =>
           \E j \in DOMAIN config.ports :
             config.ports[j].id = p /\ OwnStamp(tasTs[p], PortPeriod(config, j))
      /\ \A g \in Gate : gateTs[g] # None =>
           \E j \in DOMAIN config.gates :
             config.gates[j].id = g /\ OwnStamp(gateTs[g], GatePeriod(config, j))

\* ... and a control packet sets a gate by the register and the period of the
\* gate's own port.  While tables are being cleared this does not hold.
SettingsAreOwn ==
    [][ Serving /\ setting' # setting =>
          \E j \in DOMAIN config.ports :
            /\ setting'.gate = config.ports[j].id
            /\ setting'.register = config.ports[j].id
            /\ setting'.duration = PortPeriod(config, j)
            /\ OwnStamp(setting'.stamp, setting'.duration) ]_vars

\* A run that nothing interferes with and that has read a configuration it can
\* serve comes to serve it, whatever state earlier runs died in: every port and
\* every stream gate is stamped in the end, and every port's gates are set.
Serves(c) ==
    /\ \A j \in DOMAIN c.ports : tasTs[c.ports[j].id] # None
    /\ \A j \in DOMAIN c.gates : gateTs[c.gates[j].id] # None

ValidServes ==
    ~Unlucky /\ pc = "reset" /\ Valid(config) ~> pc = "running" /\ Serves(config)
=============================================================================
