---------------------------- MODULE Startup_proofs ----------------------------
(***************************************************************************)
(* A start of the controller leaves nothing behind of the runs before,     *)
(* wherever they ended, for any number of runs, applications, stream gates *)
(* and ports and every set of configurations.                              *)
(*                                                                         *)
(* The invariant says for each place of run() what is done by then, and    *)
(* that as long as the tables are those of the configuration and the       *)
(* generator runs, its applications are those of the configuration too.    *)
(***************************************************************************)
EXTENDS Startup, SequenceTheorems, NumberLemmas

TableEntry == [table : ToSet(ClearOrder), key : Seq(Int), data : Seq(Nat)]
AppConfig == [app_enable : BOOLEAN, timer_nanosec : Nat, batch_count_cfg : Int]
TimeStamp == [run : Nat, timer : Nat] \union {None}

TypeOK ==
    /\ pc \in {"down", "clear", "load", "reset", "registers", "activate", "write",
               "waiting", "running"}
    /\ cleared \in Nat /\ run \in Nat /\ config \in Configs \union {None}
    /\ tables \in SUBSET TableEntry
    /\ app \in [App -> AppConfig] /\ pktgen \in BOOLEAN /\ enabledBy \in Nat
    /\ tasTs \in [Port -> TimeStamp] /\ gateTs \in [Gate -> TimeStamp]

\* The tables are empty from the end of clear_tables until they are written.
TablesCleared ==
    /\ pc = "clear" => /\ cleared < Len(ClearOrder)
                       /\ \A n \in 1..cleared : \A e \in tables : e.table # ClearOrder[n]
    /\ pc \in {"load", "reset", "registers", "activate", "write"} => tables = {}

\* Generation is off from the reset to the activation, ...
GeneratorOff ==
    /\ pc \in {"registers", "activate", "write", "waiting"} => ~pktgen
    /\ pc \in {"registers", "activate"} => \A a \in App : app[a] = Disabled

\* ... so that the registers stay clear.
RegistersClear ==
    pc \in {"activate", "write", "waiting"} =>
      /\ \A p \in Port : tasTs[p] = None
      /\ \A g \in Gate : gateTs[g] = None

ConfigurationRead ==
    pktgen \/ pc \in {"reset", "registers", "activate", "write", "waiting", "running"} =>
      config \in Configs

\* The applications are those of configuration c.
AppsOf(c) ==
    \A a \in App :
        app[a] = IF \E n \in DOMAIN Activations(c) : Activations(c)[n].app_id = a
                 THEN Activations(c)[a + 1].cfg ELSE Disabled

EnoughApps(c) == c.ports # <<>> /\ Len(c.gates) + Len(c.ports) < NumApps

AppsActivated ==
    /\ pc = "write" => AppsOf(config) /\ EnoughApps(config)
    /\ pc = "waiting" => AppsOf(config) /\ Valid(config) /\ tables = EntriesOf(config)
    /\ Serving => AppsOf(config)

IInv == /\ TypeOK
        /\ TablesCleared
        /\ GeneratorOff
        /\ RegistersClear
        /\ ConfigurationRead
        /\ AppsActivated
        /\ StampsAreOwn
-----------------------------------------------------------------------------
\* Lists of table entries.
Same(e, f) == e.table = f.table /\ e.key = f.key
NoTwice(s) == \A i, j \in DOMAIN s : i # j => ~Same(s[i], s[j])

LEMMA Concatenation ==
    ASSUME NEW S, NEW s \in Seq(S), NEW t \in Seq(S)
    PROVE  /\ s \o t \in Seq(S)
           /\ ToSet(s \o t) = ToSet(s) \union ToSet(t)
           /\ NoTwice(s \o t) =>
                /\ NoTwice(s) /\ NoTwice(t)
                /\ \A e \in ToSet(s), f \in ToSet(t) : ~Same(e, f)
<1>1. /\ Len(s) \in Nat /\ DOMAIN s = 1..Len(s)
      /\ Len(t) \in Nat /\ DOMAIN t = 1..Len(t)
  BY LenProperties
<1>2. /\ s \o t \in Seq(S) /\ DOMAIN (s \o t) = 1..(Len(s) + Len(t))
      /\ \A n \in 1..(Len(s) + Len(t)) :
           (s \o t)[n] = IF n <= Len(s) THEN s[n] ELSE t[n - Len(s)]
  BY ConcatProperties, LenProperties
<1>3. \A n \in DOMAIN s : n \in DOMAIN (s \o t) /\ (s \o t)[n] = s[n]
  BY <1>1, <1>2
<1>4. \A n \in DOMAIN t : /\ n + Len(s) \in DOMAIN (s \o t)
                          /\ (s \o t)[n + Len(s)] = t[n]
  BY <1>1, <1>2
<1>5. ToSet(s \o t) \subseteq ToSet(s) \union ToSet(t)
  <2> SUFFICES ASSUME NEW n \in 1..(Len(s) + Len(t))
               PROVE  (s \o t)[n] \in ToSet(s) \union ToSet(t)
    BY <1>2 DEF ToSet
  <2>1. CASE n <= Len(s)
    BY <1>1, <1>2, <2>1 DEF ToSet
  <2>2. CASE ~(n <= Len(s))
    <3>1. n - Len(s) \in DOMAIN t
      BY <1>1, <2>2
    <3> QED BY <1>1, <1>2, <2>2, <3>1 DEF ToSet
  <2> QED BY <2>1, <2>2
<1>6. ToSet(s) \subseteq ToSet(s \o t)
  BY <1>3 DEF ToSet
<1>7. ToSet(t) \subseteq ToSet(s \o t)
  BY <1>4 DEF ToSet
<1>8. ASSUME NoTwice(s \o t)
      PROVE  /\ NoTwice(s) /\ NoTwice(t)
             /\ \A e \in ToSet(s), f \in ToSet(t) : ~Same(e, f)
  <2>1. NoTwice(s)
    BY <1>3, <1>8 DEF NoTwice
  <2>2. ASSUME NEW i \in DOMAIN t, NEW j \in DOMAIN t, i # j PROVE ~Same(t[i], t[j])
    <3>1. i + Len(s) # j + Len(s)
      BY <1>1, <2>2
    <3> QED BY <1>4, <1>8, <3>1 DEF NoTwice
  <2>3. ASSUME NEW i \in DOMAIN s, NEW j \in DOMAIN t PROVE ~Same(s[i], t[j])
    <3>1. i # j + Len(s)
      BY <1>1
    <3> QED BY <1>3, <1>4, <1>8, <3>1 DEF NoTwice
  <2> QED BY <2>1, <2>2, <2>3 DEF NoTwice, ToSet
<1> QED BY <1>2, <1>5, <1>6, <1>7, <1>8

\* The stream gates and the ports of a configuration, and their periods.
LEMMA ConfigTypes ==
    ASSUME NEW c \in Configs
    PROVE  /\ Len(c.gates) \in Nat /\ DOMAIN c.gates = 1..Len(c.gates)
           /\ Len(c.ports) \in Nat /\ DOMAIN c.ports = 1..Len(c.ports)
           /\ c.ports = <<>> <=> Len(c.ports) = 0
           /\ \A j \in DOMAIN c.gates : /\ c.gates[j].id \in Nat /\ c.gates[j].id \in Gate
                                        /\ GatePeriod(c, j) \in Nat
           /\ \A j \in DOMAIN c.ports : /\ c.ports[j].id \in Nat /\ c.ports[j].id \in Port
                                        /\ PortPeriod(c, j) \in Nat
<1>1. /\ c.gates \in Seq([id : Nat, schedule : DOMAIN c.period])
      /\ c.ports \in Seq([id : Nat, gcl : DOMAIN c.period])
      /\ \A s \in DOMAIN c.period : c.period[s] \in Nat
  BY StartupAssumption
<1>2. /\ Len(c.gates) \in Nat /\ DOMAIN c.gates = 1..Len(c.gates)
      /\ Len(c.ports) \in Nat /\ DOMAIN c.ports = 1..Len(c.ports)
      /\ c.ports = <<>> <=> Len(c.ports) = 0
  BY <1>1
<1>3. ASSUME NEW j \in DOMAIN c.gates
      PROVE  c.gates[j].id \in Nat /\ c.gates[j].id \in Gate /\ GatePeriod(c, j) \in Nat
  <2>1. c.gates[j] \in [id : Nat, schedule : DOMAIN c.period]
    BY <1>1, <1>2, ElementOfSeq
  <2> QED BY <1>1, <2>1 DEF GatePeriod, Gate
<1>4. ASSUME NEW j \in DOMAIN c.ports
      PROVE  c.ports[j].id \in Nat /\ c.ports[j].id \in Port /\ PortPeriod(c, j) \in Nat
  <2>1. c.ports[j] \in [id : Nat, gcl : DOMAIN c.period]
    BY <1>1, <1>2, ElementOfSeq
  <2> QED BY <1>1, <2>1 DEF PortPeriod, Port
<1> QED BY <1>2, <1>3, <1>4

\* The first of the places of a list that satisfy a condition.
LEMMA FirstOf ==
    ASSUME NEW n \in Nat, NEW S \in SUBSET (1..n), S # {}
    PROVE  \E m \in S : \A h \in 1..(m-1) : h \notin S
<1>1. S \in SUBSET Nat
  OBVIOUS
<1>2. PICK m \in S : \A h \in S : m <= h
  BY <1>1, LeastElement
<1> QED BY <1>1, <1>2

LEMMA FirstGateType ==
    ASSUME NEW c \in Configs, NEW j \in DOMAIN c.gates
    PROVE  FirstGate(c, j) \in Nat
<1> DEFINE S == {h \in DOMAIN c.gates : c.gates[h].schedule = c.gates[j].schedule}
<1>1. S \in SUBSET (1..Len(c.gates)) /\ S # {} /\ Len(c.gates) \in Nat
      /\ DOMAIN c.gates = 1..Len(c.gates)
  BY ConfigTypes
<1>2. PICK m \in S : \A h \in 1..(m-1) : h \notin S
  <2> HIDE DEF S
  <2> QED BY <1>1, FirstOf
<1>3. \A h \in 1..(m-1) : h \in DOMAIN c.gates
  BY <1>1
<1>4. \E i \in DOMAIN c.gates :
        /\ c.gates[i].schedule = c.gates[j].schedule
        /\ \A h \in 1..(i-1) : c.gates[h].schedule # c.gates[j].schedule
  BY <1>2, <1>3
<1>5. PICK i \in DOMAIN c.gates : FirstGate(c, j) = c.gates[i].id
  BY <1>4 DEF FirstGate
<1> QED BY <1>5, ConfigTypes

\* The first batch of a port is one of the port.
LEMMA FirstBatchIsOwn ==
    ASSUME NEW c \in Configs, NEW j \in DOMAIN c.ports
    PROVE  /\ FirstBatch(c, j) \in Nat /\ FirstBatch(c, j) + 1 \in DOMAIN c.ports
           /\ c.ports[FirstBatch(c, j) + 1].id = c.ports[j].id
<1> DEFINE S == {h \in DOMAIN c.ports : c.ports[h].id = c.ports[j].id}
<1>1. S \in SUBSET (1..Len(c.ports)) /\ S # {} /\ Len(c.ports) \in Nat
      /\ DOMAIN c.ports = 1..Len(c.ports)
  BY ConfigTypes
<1>2. PICK m \in S : \A h \in 1..(m-1) : h \notin S
  <2> HIDE DEF S
  <2> QED BY <1>1, FirstOf
<1>3. \A h \in 1..(m-1) : h \in DOMAIN c.ports
  BY <1>1
<1>4. \E i \in DOMAIN c.ports :
        /\ c.ports[i].id = c.ports[j].id
        /\ \A h \in 1..(i-1) : c.ports[h].id # c.ports[j].id
  BY <1>2, <1>3
<1>5. PICK i \in DOMAIN c.ports : /\ FirstBatch(c, j) = i - 1
                                  /\ c.ports[i].id = c.ports[j].id
  BY <1>4 DEF FirstBatch
<1> QED BY <1>1, <1>5
-----------------------------------------------------------------------------
\* The parts of the list of requests.
FixedRequests == <<Entry("fixed", <<>>, <<>>)>>
ScheduleRequests(c) ==
    [j \in DOMAIN c.gates |-> Entry("stream_gate_instance", <<FirstGate(c, j)>>, <<>>)]
ListRequests(c) ==
    [j \in DOMAIN c.ports |->
        Entry("gate_control_list", <<FirstBatch(c, j)>>, <<c.ports[j].id>>)]
RecirculationRequests == <<Entry("recirculation", <<>>, <<>>)>>
StreamRequests(c) ==
    [j \in DOMAIN c.gates |->
        Entry("stream_id", <<c.gates[j].id>>, <<c.gates[j].id, GatePeriod(c, j)>>)]

LEMMA TableNames ==
    /\ ToSet(ClearOrder) =
         {"fixed", "app_id_tas", "batch_id_to_port", "stream_id", "stream_gate_instance",
          "hyperperiod_exceeded_detection", "app_id_stream_gate", "recirculation",
          "gate_control_list"}
    /\ Len(ClearOrder) = 9 /\ DOMAIN ClearOrder = 1..9 /\ ClearOrder[1] = "fixed"
BY DEF ToSet, ClearOrder

LEMMA EntryFields ==
    ASSUME NEW t, NEW k, NEW d
    PROVE  Entry(t, k, d).table = t /\ Entry(t, k, d).key = k /\ Entry(t, k, d).data = d
BY DEF Entry

LEMMA EntryType ==
    ASSUME NEW t \in ToSet(ClearOrder), NEW k \in Seq(Int), NEW d \in Seq(Nat)
    PROVE  Entry(t, k, d) \in TableEntry
BY DEF Entry, TableEntry

LEMMA KeyType ==
    ASSUME NEW t \in ToSet(ClearOrder), NEW n \in Int
    PROVE  Entry(t, <<n>>, <<>>) \in TableEntry
<1> DEFINE k == <<n>>
           d == <<>>
<1>1. k \in Seq(Int)
  OBVIOUS
<1>2. d \in Seq(Nat)
  OBVIOUS
<1>3. Entry(t, k, d) \in TableEntry
  <2> HIDE DEF k, d
  <2> QED BY <1>1, <1>2, EntryType
<1> QED BY <1>3

LEMMA KeyNumberType ==
    ASSUME NEW t \in ToSet(ClearOrder), NEW n \in Int, NEW x \in Nat
    PROVE  Entry(t, <<n>>, <<x>>) \in TableEntry
<1> DEFINE k == <<n>>
           d == <<x>>
<1>1. k \in Seq(Int)
  OBVIOUS
<1>2. d \in Seq(Nat)
  OBVIOUS
<1>3. Entry(t, k, d) \in TableEntry
  <2> HIDE DEF k, d
  <2> QED BY <1>1, <1>2, EntryType
<1> QED BY <1>3

LEMMA KeyPairType ==
    ASSUME NEW t \in ToSet(ClearOrder), NEW n \in Int, NEW x \in Nat, NEW y \in Nat
    PROVE  Entry(t, <<n>>, <<x, y>>) \in TableEntry
<1> DEFINE k == <<n>>
           d == <<x, y>>
<1>1. k \in Seq(Int)
  OBVIOUS
<1>2. d \in Seq(Nat)
  OBVIOUS
<1>3. Entry(t, k, d) \in TableEntry
  <2> HIDE DEF k, d
  <2> QED BY <1>1, <1>2, EntryType
<1> QED BY <1>3

LEMMA SingleRequest ==
    ASSUME NEW e \in TableEntry
    PROVE  <<e>> \in Seq(TableEntry) /\ ToSet(<<e>>) = {e}
BY DEF ToSet

LEMMA FixedType ==
    /\ FixedRequests \in Seq(TableEntry)
    /\ ToSet(FixedRequests) = {Entry("fixed", <<>>, <<>>)}
    /\ RecirculationRequests \in Seq(TableEntry)
    /\ ToSet(RecirculationRequests) = {Entry("recirculation", <<>>, <<>>)}
<1>1. <<>> \in Seq(Int) /\ <<>> \in Seq(Nat)
  OBVIOUS
<1>2. "fixed" \in ToSet(ClearOrder) /\ "recirculation" \in ToSet(ClearOrder)
  BY TableNames
<1>3. Entry("fixed", <<>>, <<>>) \in TableEntry /\ Entry("recirculation", <<>>, <<>>) \in TableEntry
  BY <1>1, <1>2, EntryType
<1> QED BY <1>3, SingleRequest DEF FixedRequests, RecirculationRequests

\* A list of requests with one element for each of the numbers up to n.
LEMMA ListType ==
    ASSUME NEW n \in Nat, NEW s \in [1..n -> TableEntry]
    PROVE  s \in Seq(TableEntry) /\ DOMAIN s = 1..n /\ ToSet(s) = {s[j] : j \in 1..n}
BY SeqDef DEF ToSet

LEMMA ScheduleType ==
    ASSUME NEW c \in Configs
    PROVE  /\ ScheduleRequests(c) \in Seq(TableEntry)
           /\ \A e \in ToSet(ScheduleRequests(c)) : e.table = "stream_gate_instance"
<1>1. DOMAIN c.gates = 1..Len(c.gates) /\ Len(c.gates) \in Nat
  BY ConfigTypes
<1> DEFINE E(j) == Entry("stream_gate_instance", <<FirstGate(c, j)>>, <<>>)
<1>2. ASSUME NEW j \in DOMAIN c.gates
      PROVE  E(j) \in TableEntry /\ E(j).table = "stream_gate_instance"
  <2>1. FirstGate(c, j) \in Nat /\ "stream_gate_instance" \in ToSet(ClearOrder)
    BY FirstGateType, TableNames
  <2>2. E(j) \in TableEntry
    BY <2>1, KeyType
  <2> QED BY <2>2, EntryFields
<1>3. ScheduleRequests(c) = [j \in DOMAIN c.gates |-> E(j)]
  BY DEF ScheduleRequests
<1> HIDE DEF E
<1>4. ScheduleRequests(c) \in [1..Len(c.gates) -> TableEntry]
  BY <1>1, <1>2, <1>3
<1> QED BY <1>1, <1>2, <1>3, <1>4, ListType

LEMMA ListsType ==
    ASSUME NEW c \in Configs
    PROVE  /\ ListRequests(c) \in Seq(TableEntry)
           /\ \A e \in ToSet(ListRequests(c)) :
                /\ e.table = "gate_control_list"
                /\ \E j \in DOMAIN c.ports :
                     e.key = <<FirstBatch(c, j)>> /\ e.data = <<c.ports[j].id>>
<1>1. DOMAIN c.ports = 1..Len(c.ports) /\ Len(c.ports) \in Nat
  BY ConfigTypes
<1> DEFINE E(j) == Entry("gate_control_list", <<FirstBatch(c, j)>>, <<c.ports[j].id>>)
<1>2. ASSUME NEW j \in DOMAIN c.ports
      PROVE  /\ E(j) \in TableEntry /\ E(j).table = "gate_control_list"
             /\ E(j).key = <<FirstBatch(c, j)>> /\ E(j).data = <<c.ports[j].id>>
  <2>1. FirstBatch(c, j) \in Nat /\ c.ports[j].id \in Nat
    BY FirstBatchIsOwn, ConfigTypes
  <2>2. "gate_control_list" \in ToSet(ClearOrder)
    BY TableNames
  <2>3. E(j) \in TableEntry
    BY <2>1, <2>2, KeyNumberType
  <2> QED BY <2>3, EntryFields
<1>3. ListRequests(c) = [j \in DOMAIN c.ports |-> E(j)]
  BY DEF ListRequests
<1> HIDE DEF E
<1>4. ListRequests(c) \in [1..Len(c.ports) -> TableEntry]
  BY <1>1, <1>2, <1>3
<1>5. /\ ListRequests(c) \in Seq(TableEntry)
      /\ ToSet(ListRequests(c)) = {ListRequests(c)[j] : j \in 1..Len(c.ports)}
  BY <1>1, <1>4, ListType
<1> QED BY <1>1, <1>2, <1>3, <1>5

LEMMA StreamsType ==
    ASSUME NEW c \in Configs
    PROVE  /\ StreamRequests(c) \in Seq(TableEntry)
           /\ \A e \in ToSet(StreamRequests(c)) : e.table = "stream_id"
<1>1. DOMAIN c.gates = 1..Len(c.gates) /\ Len(c.gates) \in Nat
  BY ConfigTypes
<1> DEFINE E(j) ==
      Entry("stream_id", <<c.gates[j].id>>, <<c.gates[j].id, GatePeriod(c, j)>>)
<1>2. ASSUME NEW j \in DOMAIN c.gates
      PROVE  E(j) \in TableEntry /\ E(j).table = "stream_id"
  <2>1. c.gates[j].id \in Nat /\ GatePeriod(c, j) \in Nat
    BY ConfigTypes
  <2>2. "stream_id" \in ToSet(ClearOrder)
    BY TableNames
  <2>3. E(j) \in TableEntry
    BY <2>1, <2>2, KeyPairType
  <2> QED BY <2>3, EntryFields
<1>3. StreamRequests(c) = [j \in DOMAIN c.gates |-> E(j)]
  BY DEF StreamRequests
<1> HIDE DEF E
<1>4. StreamRequests(c) \in [1..Len(c.gates) -> TableEntry]
  BY <1>1, <1>2, <1>3
<1> QED BY <1>1, <1>2, <1>3, <1>4, ListType

LEMMA ExceededType ==
    ASSUME NEW p \in Nat
    PROVE  /\ Exceeded(p) \in TableEntry /\ Exceeded(p).key = <<p>>
           /\ Exceeded(p).table = "hyperperiod_exceeded_detection"
<1>1. "hyperperiod_exceeded_detection" \in ToSet(ClearOrder)
  BY TableNames
<1>2. p \in Int
  OBVIOUS
<1>3. Exceeded(p) \in TableEntry
  BY <1>1, <1>2, KeyNumberType DEF Exceeded
<1> QED BY <1>3, EntryFields DEF Exceeded

\* The requests for a stream gate: the register of its application, and the
\* comparison with its period.
LEMMA GateAppsType ==
    ASSUME NEW c \in Configs
    PROVE  /\ GateAppRequests(c) \in Seq(TableEntry)
           /\ DOMAIN GateAppRequests(c) = 1..(2 * Len(c.gates))
           /\ \A e \in ToSet(GateAppRequests(c)) :
                \/ e.table = "hyperperiod_exceeded_detection"
                \/ /\ e.table = "app_id_stream_gate"
                   /\ \E j \in DOMAIN c.gates : e.key = <<j>> /\ e.data = <<c.gates[j].id>>
           /\ \A j \in DOMAIN c.gates :
                /\ 2 * j \in DOMAIN GateAppRequests(c)
                /\ GateAppRequests(c)[2 * j] = Exceeded(GatePeriod(c, j))
<1>1. DOMAIN c.gates = 1..Len(c.gates) /\ Len(c.gates) \in Nat
  BY ConfigTypes
<1> DEFINE N == 2 * Len(c.gates)
           E(j) == Entry("app_id_stream_gate", <<GateAppId(c, j)>>, <<c.gates[j].id>>)
<1>2. ASSUME NEW j \in DOMAIN c.gates
      PROVE  /\ E(j) \in TableEntry /\ E(j).table = "app_id_stream_gate"
             /\ E(j).key = <<j>> /\ E(j).data = <<c.gates[j].id>>
  <2>1. c.gates[j].id \in Nat /\ GateAppId(c, j) = j /\ j \in Nat
    BY <1>1, ConfigTypes DEF GateAppId
  <2>2. "app_id_stream_gate" \in ToSet(ClearOrder)
    BY TableNames
  <2>3. E(j) \in TableEntry
    BY <2>1, <2>2, KeyNumberType
  <2> QED BY <2>1, <2>3, EntryFields
<1>3. GateAppRequests(c) = [n \in 1..N |->
         IF n % 2 = 0 THEN Exceeded(GatePeriod(c, (n + 1) \div 2)) ELSE E((n + 1) \div 2)]
  BY DEF GateAppRequests
<1> HIDE DEF E
<1>4. ASSUME NEW n \in 1..N PROVE (n + 1) \div 2 \in DOMAIN c.gates
  BY <1>1
<1>5. \A j \in DOMAIN c.gates : GatePeriod(c, j) \in Nat
  BY ConfigTypes
<1>6. ASSUME NEW n \in 1..N
      PROVE  /\ GateAppRequests(c)[n] \in TableEntry
             /\ \/ GateAppRequests(c)[n].table = "hyperperiod_exceeded_detection"
                \/ /\ GateAppRequests(c)[n].table = "app_id_stream_gate"
                   /\ \E j \in DOMAIN c.gates : /\ GateAppRequests(c)[n].key = <<j>>
                                                /\ GateAppRequests(c)[n].data = <<c.gates[j].id>>
  <2>1. PICK j \in DOMAIN c.gates : j = (n + 1) \div 2
    BY <1>4
  <2>2. CASE n % 2 = 0
    <3>1. GateAppRequests(c)[n] = Exceeded(GatePeriod(c, j))
      BY <1>3, <2>1, <2>2
    <3> QED BY <1>5, <3>1, ExceededType
  <2>3. CASE n % 2 # 0
    <3>1. GateAppRequests(c)[n] = E(j)
      BY <1>3, <2>1, <2>3
    <3> QED BY <1>2, <3>1
  <2> QED BY <2>2, <2>3
<1>7. GateAppRequests(c) \in [1..N -> TableEntry]
  <2>1. DOMAIN GateAppRequests(c) = 1..N
    BY <1>3
  <2>2. GateAppRequests(c) = [n \in 1..N |-> GateAppRequests(c)[n]]
    BY <1>3
  <2> QED BY <1>6, <2>2
<1>8. N \in Nat
  BY <1>1
<1>9. ASSUME NEW j \in DOMAIN c.gates
      PROVE  2 * j \in 1..N /\ GateAppRequests(c)[2 * j] = Exceeded(GatePeriod(c, j))
  <2>1. 2 * j \in 1..N /\ (2 * j) % 2 = 0 /\ (2 * j + 1) \div 2 = j
    BY <1>1
  <2> QED BY <1>3, <2>1
<1> HIDE DEF N
<1>10. /\ GateAppRequests(c) \in Seq(TableEntry)
       /\ ToSet(GateAppRequests(c)) = {GateAppRequests(c)[n] : n \in 1..N}
       /\ DOMAIN GateAppRequests(c) = 1..N
  BY <1>7, <1>8, ListType
<1>11. /\ GateAppRequests(c) \in Seq(TableEntry)
       /\ DOMAIN GateAppRequests(c) = 1..(2 * Len(c.gates))
  BY <1>10 DEF N
<1> QED BY <1>6, <1>9, <1>10, <1>11

\* The requests for a port: its application, its batch and the comparison.
LEMMA PortAppsType ==
    ASSUME NEW c \in Configs
    PROVE  /\ PortAppRequests(c) \in Seq(TableEntry)
           /\ DOMAIN PortAppRequests(c) = 1..(3 * Len(c.ports))
           /\ \A e \in ToSet(PortAppRequests(c)) :
                \/ e.table = "hyperperiod_exceeded_detection"
                \/ /\ e.table = "app_id_tas"
                   /\ \E j \in DOMAIN c.ports : /\ e.key = <<Len(c.gates) + j>>
                                                /\ e.data = <<c.ports[j].id, PortPeriod(c, j)>>
                \/ /\ e.table = "batch_id_to_port"
                   /\ \E j \in DOMAIN c.ports : /\ e.key = <<j - 1>>
                                                /\ e.data = <<c.ports[j].id, PortPeriod(c, j)>>
           /\ \A j \in DOMAIN c.ports :
                /\ 3 * j \in DOMAIN PortAppRequests(c)
                /\ PortAppRequests(c)[3 * j] = Exceeded(PortPeriod(c, j))
                /\ Entry("batch_id_to_port", <<j - 1>>, <<c.ports[j].id, PortPeriod(c, j)>>)
                     \in ToSet(PortAppRequests(c))
<1>1. /\ DOMAIN c.ports = 1..Len(c.ports) /\ Len(c.ports) \in Nat /\ Len(c.gates) \in Nat
      /\ \A j \in DOMAIN c.ports : c.ports[j].id \in Nat /\ PortPeriod(c, j) \in Nat
  BY ConfigTypes
<1> DEFINE N == 3 * Len(c.ports)
           A(j) == Entry("app_id_tas", <<PortAppId(c, j)>>, <<c.ports[j].id, PortPeriod(c, j)>>)
           B(j) == Entry("batch_id_to_port", <<j - 1>>, <<c.ports[j].id, PortPeriod(c, j)>>)
<1>2. ASSUME NEW j \in DOMAIN c.ports
      PROVE  /\ A(j) \in TableEntry /\ A(j).table = "app_id_tas"
             /\ A(j).key = <<Len(c.gates) + j>>
             /\ A(j).data = <<c.ports[j].id, PortPeriod(c, j)>>
  <2>1. PortAppId(c, j) \in Int /\ PortAppId(c, j) = Len(c.gates) + j
    BY <1>1 DEF PortAppId
  <2>2. "app_id_tas" \in ToSet(ClearOrder)
    BY TableNames
  <2>3. A(j) \in TableEntry
    BY <1>1, <2>1, <2>2, KeyPairType
  <2> QED BY <2>1, <2>3, EntryFields
<1>3. ASSUME NEW j \in DOMAIN c.ports
      PROVE  /\ B(j) \in TableEntry /\ B(j).table = "batch_id_to_port"
             /\ B(j).key = <<j - 1>> /\ B(j).data = <<c.ports[j].id, PortPeriod(c, j)>>
  <2>1. j - 1 \in Int
    BY <1>1
  <2>2. "batch_id_to_port" \in ToSet(ClearOrder)
    BY TableNames
  <2>3. B(j) \in TableEntry
    BY <1>1, <2>1, <2>2, KeyPairType
  <2> QED BY <2>3, EntryFields
<1>4. PortAppRequests(c) = [n \in 1..N |->
         CASE n % 3 = 1 -> A((n + 2) \div 3)
           [] n % 3 = 2 -> B((n + 2) \div 3)
           [] n % 3 = 0 -> Exceeded(PortPeriod(c, (n + 2) \div 3))]
  BY DEF PortAppRequests
<1> HIDE DEF A, B
<1>5. ASSUME NEW n \in 1..N
      PROVE  (n + 2) \div 3 \in DOMAIN c.ports /\ n % 3 \in {0, 1, 2}
  BY <1>1
<1>6. ASSUME NEW n \in 1..N
      PROVE  /\ PortAppRequests(c)[n] \in TableEntry
             /\ \/ PortAppRequests(c)[n].table = "hyperperiod_exceeded_detection"
                \/ /\ PortAppRequests(c)[n].table = "app_id_tas"
                   /\ \E j \in DOMAIN c.ports :
                        /\ PortAppRequests(c)[n].key = <<Len(c.gates) + j>>
                        /\ PortAppRequests(c)[n].data = <<c.ports[j].id, PortPeriod(c, j)>>
                \/ /\ PortAppRequests(c)[n].table = "batch_id_to_port"
                   /\ \E j \in DOMAIN c.ports :
                        /\ PortAppRequests(c)[n].key = <<j - 1>>
                        /\ PortAppRequests(c)[n].data = <<c.ports[j].id, PortPeriod(c, j)>>
  <2>1. PICK j \in DOMAIN c.ports : j = (n + 2) \div 3
    BY <1>5
  <2>2. CASE n % 3 = 1
    <3>1. PortAppRequests(c)[n] = A(j)
      BY <1>4, <2>1, <2>2
    <3> QED BY <1>2, <3>1
  <2>3. CASE n % 3 = 2
    <3>1. PortAppRequests(c)[n] = B(j)
      BY <1>4, <2>1, <2>3
    <3> QED BY <1>3, <3>1
  <2>4. CASE n % 3 = 0
    <3>1. PortAppRequests(c)[n] = Exceeded(PortPeriod(c, j))
      BY <1>4, <2>1, <2>4
    <3> QED BY <1>1, <3>1, ExceededType
  <2> QED BY <1>5, <2>2, <2>3, <2>4
<1>7. PortAppRequests(c) \in [1..N -> TableEntry]
  <2>1. PortAppRequests(c) = [n \in 1..N |-> PortAppRequests(c)[n]]
    BY <1>4
  <2> QED BY <1>6, <2>1
<1>8. ASSUME NEW j \in DOMAIN c.ports
      PROVE  /\ 3 * j \in 1..N /\ PortAppRequests(c)[3 * j] = Exceeded(PortPeriod(c, j))
             /\ 3 * j - 1 \in 1..N /\ PortAppRequests(c)[3 * j - 1] = B(j)
  <2>1. 3 * j \in 1..N /\ (3 * j) % 3 = 0 /\ (3 * j + 2) \div 3 = j
    <3>1. PICK k \in Nat : k = Len(c.ports) /\ j \in 1..k
      BY <1>1
    <3>2. 3 * j \in 1..(3 * k)
      BY <3>1
    <3>3. (3 * j) % 3 = 0 /\ (3 * j + 2) \div 3 = j
      BY <3>1
    <3> QED BY <3>1, <3>2, <3>3
  <2>2. 3 * j - 1 \in 1..N /\ (3 * j - 1) % 3 = 2 /\ (3 * j - 1 + 2) \div 3 = j
    <3>1. PICK m \in Nat : j = m + 1
      BY <1>1
    <3>2. (3 * m + 2) % 3 = 2
      OBVIOUS
    <3>3. (3 * m + 4) \div 3 = m + 1
      OBVIOUS
    <3>4. 3 * j - 1 = 3 * m + 2 /\ 3 * j - 1 + 2 = 3 * m + 4
      BY <3>1
    <3> QED BY <1>1, <3>1, <3>2, <3>3, <3>4
  <2>3. PortAppRequests(c)[3 * j] = Exceeded(PortPeriod(c, j))
    BY <1>4, <2>1
  <2>4. PortAppRequests(c)[3 * j - 1] = B(j)
    BY <1>4, <2>2
  <2> QED BY <2>1, <2>2, <2>3, <2>4
<1>9. N \in Nat
  BY <1>1
<1> HIDE DEF N
<1>10. /\ PortAppRequests(c) \in Seq(TableEntry)
       /\ ToSet(PortAppRequests(c)) = {PortAppRequests(c)[n] : n \in 1..N}
       /\ DOMAIN PortAppRequests(c) = 1..N
  BY <1>7, <1>9, ListType
<1>11. \A j \in DOMAIN c.ports : B(j) \in ToSet(PortAppRequests(c))
  BY <1>8, <1>10
<1> QED BY <1>6, <1>8, <1>10, <1>11 DEF N, B

\* All requests of a configuration: its entries are those of the parts, and no two
\* of the parts about applications may have the same key.
LEMMA RequestsAre ==
    ASSUME NEW c \in Configs
    PROVE  /\ Requests(c) \in Seq(TableEntry)
           /\ EntriesOf(c) = ToSet(FixedRequests) \union ToSet(ScheduleRequests(c))
                              \union ToSet(ListRequests(c)) \union ToSet(RecirculationRequests)
                              \union ToSet(GateAppRequests(c))
                              \union ToSet(PortAppRequests(c)) \union ToSet(StreamRequests(c))
           /\ NoTwice(Requests(c)) =>
                /\ NoTwice(GateAppRequests(c)) /\ NoTwice(PortAppRequests(c))
                /\ \A e \in ToSet(GateAppRequests(c)), f \in ToSet(PortAppRequests(c)) : ~Same(e, f)
<1> DEFINE A1 == FixedRequests \o ScheduleRequests(c)
           A2 == A1 \o ListRequests(c)
           A3 == A2 \o RecirculationRequests
           A4 == A3 \o GateAppRequests(c)
           A5 == A4 \o PortAppRequests(c)
<1>1. Requests(c) = A5 \o StreamRequests(c)
  BY DEF Requests, FixedRequests, ScheduleRequests, ListRequests, RecirculationRequests,
         StreamRequests
<1>2. /\ FixedRequests \in Seq(TableEntry) /\ ScheduleRequests(c) \in Seq(TableEntry)
      /\ ListRequests(c) \in Seq(TableEntry) /\ RecirculationRequests \in Seq(TableEntry)
      /\ GateAppRequests(c) \in Seq(TableEntry) /\ PortAppRequests(c) \in Seq(TableEntry)
      /\ StreamRequests(c) \in Seq(TableEntry)
  BY FixedType, ScheduleType, ListsType, GateAppsType, PortAppsType, StreamsType
<1>3. A1 \in Seq(TableEntry) /\ ToSet(A1) = ToSet(FixedRequests) \union ToSet(ScheduleRequests(c))
  BY <1>2, Concatenation
<1> HIDE DEF A1
<1>4. A2 \in Seq(TableEntry) /\ ToSet(A2) = ToSet(A1) \union ToSet(ListRequests(c))
  BY <1>2, <1>3, Concatenation
<1> HIDE DEF A2
<1>5. A3 \in Seq(TableEntry) /\ ToSet(A3) = ToSet(A2) \union ToSet(RecirculationRequests)
  BY <1>2, <1>4, Concatenation
<1> HIDE DEF A3
<1>6. /\ A4 \in Seq(TableEntry) /\ ToSet(A4) = ToSet(A3) \union ToSet(GateAppRequests(c))
      /\ NoTwice(A4) => NoTwice(GateAppRequests(c))
  BY <1>2, <1>5, Concatenation
<1> HIDE DEF A4
<1>7. /\ A5 \in Seq(TableEntry) /\ ToSet(A5) = ToSet(A4) \union ToSet(PortAppRequests(c))
      /\ NoTwice(A5) => /\ NoTwice(A4) /\ NoTwice(PortAppRequests(c))
                        /\ \A e \in ToSet(A4), f \in ToSet(PortAppRequests(c)) : ~Same(e, f)
  BY <1>2, <1>6, Concatenation
<1> HIDE DEF A5
<1>8. /\ Requests(c) \in Seq(TableEntry)
      /\ ToSet(Requests(c)) = ToSet(A5) \union ToSet(StreamRequests(c))
      /\ NoTwice(Requests(c)) => NoTwice(A5)
  BY <1>1, <1>2, <1>7, Concatenation
<1>9. EntriesOf(c) = ToSet(Requests(c))
  BY DEF EntriesOf
<1>10. EntriesOf(c) = ToSet(FixedRequests) \union ToSet(ScheduleRequests(c))
                      \union ToSet(ListRequests(c)) \union ToSet(RecirculationRequests)
                      \union ToSet(GateAppRequests(c))
                      \union ToSet(PortAppRequests(c)) \union ToSet(StreamRequests(c))
  BY <1>3, <1>4, <1>5, <1>6, <1>7, <1>8, <1>9
<1>11. ASSUME NoTwice(Requests(c))
       PROVE  /\ NoTwice(GateAppRequests(c)) /\ NoTwice(PortAppRequests(c))
              /\ \A e \in ToSet(GateAppRequests(c)), f \in ToSet(PortAppRequests(c)) : ~Same(e, f)
  BY <1>6, <1>7, <1>8, <1>11
<1> QED BY <1>8, <1>10, <1>11

\* The entries the packets of the generator look up.
LEMMA EntriesByTable ==
    ASSUME NEW c \in Configs, NEW e \in EntriesOf(c)
    PROVE  /\ e.table = "app_id_stream_gate" =>
                \E j \in DOMAIN c.gates : e.key = <<j>> /\ e.data = <<c.gates[j].id>>
           /\ e.table = "app_id_tas" =>
                \E j \in DOMAIN c.ports : /\ e.key = <<Len(c.gates) + j>>
                                          /\ e.data = <<c.ports[j].id, PortPeriod(c, j)>>
           /\ e.table = "batch_id_to_port" =>
                \E j \in DOMAIN c.ports : /\ e.key = <<j - 1>>
                                          /\ e.data = <<c.ports[j].id, PortPeriod(c, j)>>
           /\ e.table = "gate_control_list" =>
                \E j \in DOMAIN c.ports : /\ e.key = <<FirstBatch(c, j)>>
                                          /\ e.data = <<c.ports[j].id>>
<1>1. CASE e \in ToSet(FixedRequests)
  <2>1. e.table = "fixed"
    BY <1>1, FixedType, EntryFields
  <2> QED BY <2>1
<1>2. CASE e \in ToSet(RecirculationRequests)
  <2>1. e.table = "recirculation"
    BY <1>2, FixedType, EntryFields
  <2> QED BY <2>1
<1>3. CASE e \in ToSet(ScheduleRequests(c))
  BY <1>3, ScheduleType
<1>4. CASE e \in ToSet(ListRequests(c))
  BY <1>4, ListsType
<1>5. CASE e \in ToSet(GateAppRequests(c))
  BY <1>5, GateAppsType
<1>6. CASE e \in ToSet(PortAppRequests(c))
  BY <1>6, PortAppsType
<1>7. CASE e \in ToSet(StreamRequests(c))
  BY <1>7, StreamsType
<1> QED BY <1>1, <1>2, <1>3, <1>4, <1>5, <1>6, <1>7, RequestsAre

\* A configuration has an entry among those the start clears first, and its
\* batches are those of its ports.
LEMMA EntriesPresent ==
    ASSUME NEW c \in Configs
    PROVE  /\ EntriesOf(c) \in SUBSET TableEntry
           /\ \E e \in EntriesOf(c) : e.table = "fixed"
           /\ \A j \in DOMAIN c.ports :
                Entry("batch_id_to_port", <<j - 1>>, <<c.ports[j].id, PortPeriod(c, j)>>)
                  \in EntriesOf(c)
<1>1. EntriesOf(c) \in SUBSET TableEntry
  BY RequestsAre, ElementOfSeq DEF EntriesOf, ToSet
<1>2. Entry("fixed", <<>>, <<>>) \in EntriesOf(c)
  BY RequestsAre, FixedType
<1>3. Entry("fixed", <<>>, <<>>).table = "fixed"
  BY EntryFields
<1> QED BY <1>1, <1>2, <1>3, RequestsAre, PortAppsType

\* No period twice: the comparisons with two equal periods have the same key.
LEMMA PeriodsDistinct ==
    ASSUME NEW c \in Configs, NoTwice(Requests(c)), EnoughApps(c)
    PROVE  Valid(c)
<1> DEFINE G == [j \in DOMAIN c.gates |-> GatePeriod(c, j)]
           P == [j \in DOMAIN c.ports |-> PortPeriod(c, j)]
<1>1. /\ DOMAIN c.gates = 1..Len(c.gates) /\ Len(c.gates) \in Nat
      /\ DOMAIN c.ports = 1..Len(c.ports) /\ Len(c.ports) \in Nat
      /\ \A j \in DOMAIN c.gates : GatePeriod(c, j) \in Nat
      /\ \A j \in DOMAIN c.ports : PortPeriod(c, j) \in Nat
  BY ConfigTypes
<1>2. /\ G \in Seq(Nat) /\ Len(G) = Len(c.gates)
      /\ P \in Seq(Nat) /\ Len(P) = Len(c.ports)
  BY <1>1, SeqDef, LenProperties
<1>3. /\ NoTwice(GateAppRequests(c)) /\ NoTwice(PortAppRequests(c))
      /\ \A e \in ToSet(GateAppRequests(c)), f \in ToSet(PortAppRequests(c)) : ~Same(e, f)
  BY RequestsAre
<1>4. \A p, q \in Nat : p = q => Same(Exceeded(p), Exceeded(q))
  BY DEF Same
<1>5. \A i, j \in DOMAIN c.gates : i # j => GatePeriod(c, i) # GatePeriod(c, j)
  <2> SUFFICES ASSUME NEW i \in DOMAIN c.gates, NEW j \in DOMAIN c.gates, i # j
               PROVE  GatePeriod(c, i) # GatePeriod(c, j)
    OBVIOUS
  <2>1. 2 * i # 2 * j
    BY <1>1
  <2>2. ~Same(GateAppRequests(c)[2 * i], GateAppRequests(c)[2 * j])
    BY <1>3, <2>1, GateAppsType DEF NoTwice
  <2> QED BY <1>1, <1>4, <2>2, GateAppsType
<1>6. \A i, j \in DOMAIN c.ports : i # j => PortPeriod(c, i) # PortPeriod(c, j)
  <2> SUFFICES ASSUME NEW i \in DOMAIN c.ports, NEW j \in DOMAIN c.ports, i # j
               PROVE  PortPeriod(c, i) # PortPeriod(c, j)
    OBVIOUS
  <2>1. 3 * i # 3 * j
    BY <1>1
  <2>2. ~Same(PortAppRequests(c)[3 * i], PortAppRequests(c)[3 * j])
    BY <1>3, <2>1, PortAppsType DEF NoTwice
  <2> QED BY <1>1, <1>4, <2>2, PortAppsType
<1>7. \A i \in DOMAIN c.gates, j \in DOMAIN c.ports : GatePeriod(c, i) # PortPeriod(c, j)
  <2> SUFFICES ASSUME NEW i \in DOMAIN c.gates, NEW j \in DOMAIN c.ports
               PROVE  GatePeriod(c, i) # PortPeriod(c, j)
    OBVIOUS
  <2>1. /\ Exceeded(GatePeriod(c, i)) \in ToSet(GateAppRequests(c))
        /\ Exceeded(PortPeriod(c, j)) \in ToSet(PortAppRequests(c))
    <3>1. 2 * i \in DOMAIN GateAppRequests(c) /\ 3 * j \in DOMAIN PortAppRequests(c)
      BY GateAppsType, PortAppsType
    <3>2. /\ GateAppRequests(c)[2 * i] \in ToSet(GateAppRequests(c))
          /\ PortAppRequests(c)[3 * j] \in ToSet(PortAppRequests(c))
      BY <3>1 DEF ToSet
    <3> QED BY <3>2, GateAppsType, PortAppsType
  <2> QED BY <1>1, <1>3, <1>4, <2>1
<1>8. \A i \in DOMAIN G, j \in DOMAIN G : i # j => G[i] # G[j]
  BY <1>5
<1>9. \A i \in DOMAIN P, j \in DOMAIN P : i # j => P[i] # P[j]
  BY <1>6
<1>10. \A i \in DOMAIN G, j \in DOMAIN P : G[i] # P[j]
  BY <1>7
<1>11. DOMAIN G = 1..Len(G) /\ DOMAIN P = 1..Len(P)
  BY <1>1, <1>2
<1> HIDE DEF G, P
<1>12. /\ DOMAIN (G \o P) = 1..(Len(G) + Len(P)) /\ Len(G \o P) = Len(G) + Len(P)
       /\ \A n \in 1..(Len(G) + Len(P)) :
            (G \o P)[n] = IF n <= Len(G) THEN G[n] ELSE P[n - Len(G)]
  <2>1. Len(G \o P) = Len(G) + Len(P) /\ G \o P \in Seq(Nat)
    BY <1>2, ConcatProperties
  <2>2. DOMAIN (G \o P) = 1..(Len(G) + Len(P))
    BY <2>1, LenProperties
  <2> QED BY <1>2, <2>1, <2>2, ConcatProperties
<1>13. ASSUME NEW i \in DOMAIN (G \o P), NEW j \in DOMAIN (G \o P), i < j
       PROVE  (G \o P)[i] # (G \o P)[j]
  <2>1. Len(G) \in Nat /\ Len(P) \in Nat
    BY <1>1, <1>2
  <2>2. CASE j <= Len(G)
    BY <1>8, <1>11, <1>12, <1>13, <2>1, <2>2
  <2>3. CASE i <= Len(G) /\ ~(j <= Len(G))
    <3>1. j - Len(G) \in DOMAIN P /\ i \in DOMAIN G
      BY <1>11, <1>12, <2>1, <2>3
    <3> QED BY <1>10, <1>12, <2>3, <3>1
  <2>4. CASE ~(i <= Len(G))
    <3>1. /\ j - Len(G) \in DOMAIN P /\ i - Len(G) \in DOMAIN P
          /\ i - Len(G) # j - Len(G) /\ ~(j <= Len(G))
      BY <1>11, <1>12, <1>13, <2>1, <2>4
    <3> QED BY <1>9, <1>12, <2>4, <3>1
  <2> QED BY <1>11, <1>12, <1>13, <2>1, <2>2, <2>3, <2>4
<1>14. IsInjective(G \o P)
  <2> SUFFICES ASSUME NEW i \in DOMAIN (G \o P), NEW j \in DOMAIN (G \o P), i # j
               PROVE  (G \o P)[i] # (G \o P)[j]
    BY DEF IsInjective
  <2>1. i \in Int /\ j \in Int
    BY <1>1, <1>2, <1>12
  <2>2. i < j \/ j < i
    BY <2>1
  <2> QED BY <1>13, <2>2
<1>15. Len(G \o P) < NumApps
  BY <1>2, <1>12 DEF EnoughApps
<1> QED BY <1>14, <1>15 DEF Valid, EnoughApps, G, P

\* Three lists one after the other, the first of one element.
LEMMA PlaceOf ==
    ASSUME NEW n \in Nat, NEW m \in Nat, NEW k \in 1..(1 + n + m)
    PROVE  k = 1 \/ (\E j \in 1..n : k = j + 1) \/ (\E j \in 1..m : k = n + j + 1)
<1>1. CASE k > 1 /\ k <= 1 + n
  <2>1. k - 1 \in 1..n /\ k = (k - 1) + 1
    BY <1>1
  <2> QED BY <2>1
<1>2. CASE k > 1 + n
  <2>1. k - n - 1 \in 1..m /\ k = n + (k - n - 1) + 1
    BY <1>2
  <2> QED BY <2>1
<1> QED BY <1>1, <1>2

ThreePart(s, f, g, h, n, m) ==
    /\ Len(s) = 1 + n + m /\ DOMAIN s = 1..(1 + n + m)
    /\ s[1] = f[1]
    /\ \A j \in 1..n : s[j + 1] = g[j]
    /\ \A j \in 1..m : s[n + j + 1] = h[j]

LEMMA ThreeParts ==
    ASSUME NEW S, NEW f \in Seq(S), NEW g \in Seq(S), NEW h \in Seq(S), Len(f) = 1
    PROVE  /\ (f \o g) \o h \in Seq(S)
           /\ ThreePart((f \o g) \o h, f, g, h, Len(g), Len(h))
<1>n. PICK n \in Nat : n = Len(g)
  OBVIOUS
<1>m. PICK m \in Nat : m = Len(h)
  OBVIOUS
<1>1. /\ f \o g \in Seq(S) /\ Len(f \o g) = 1 + n
      /\ \A k \in 1..(1 + n) : (f \o g)[k] = IF k <= 1 THEN f[k] ELSE g[k - 1]
  <2>1. f \o g \in Seq(S) /\ Len(f \o g) = Len(f) + Len(g)
    BY ConcatProperties
  <2>2. ASSUME NEW k \in 1..(1 + n)
        PROVE  (f \o g)[k] = IF k <= 1 THEN f[k] ELSE g[k - 1]
    <3>1. k \in 1..(Len(f) + Len(g))
      BY <1>n
    <3>2. (f \o g)[k] = IF k <= Len(f) THEN f[k] ELSE g[k - Len(f)]
      BY <3>1, ConcatProperties
    <3> QED BY <3>2
  <2> QED BY <1>n, <2>1, <2>2
<1> DEFINE fg == f \o g
<1> HIDE DEF fg
<1>2. fg \in Seq(S) /\ Len(fg) = 1 + n
  BY <1>1 DEF fg
<1>3. /\ fg \o h \in Seq(S) /\ Len(fg \o h) = 1 + n + m
      /\ \A k \in 1..(1 + n + m) : (fg \o h)[k] = IF k <= 1 + n THEN fg[k] ELSE h[k - (1 + n)]
  <2>1. fg \o h \in Seq(S) /\ Len(fg \o h) = Len(fg) + Len(h)
    BY <1>2, ConcatProperties
  <2>2. ASSUME NEW k \in 1..(1 + n + m)
        PROVE  (fg \o h)[k] = IF k <= 1 + n THEN fg[k] ELSE h[k - (1 + n)]
    <3>1. k \in 1..(Len(fg) + Len(h))
      BY <1>2, <1>m
    <3>2. (fg \o h)[k] = IF k <= Len(fg) THEN fg[k] ELSE h[k - Len(fg)]
      BY <1>2, <3>1, ConcatProperties
    <3> QED BY <1>2, <3>2
  <2> QED BY <1>2, <1>m, <2>1, <2>2
<1>4. DOMAIN (fg \o h) = 1..(1 + n + m)
  BY <1>3, LenProperties
<1>5. (fg \o h)[1] = f[1]
  <2>1. 1 \in 1..(1 + n) /\ 1 \in 1..(1 + n + m) /\ 1 <= 1 + n
    OBVIOUS
  <2>2. (fg \o h)[1] = fg[1]
    BY <1>3, <2>1
  <2> QED BY <1>1, <2>1, <2>2 DEF fg
<1>6. ASSUME NEW j \in 1..n PROVE (fg \o h)[j + 1] = g[j]
  <2>1. PICK k \in 1..(1 + n) : /\ k = j + 1 /\ k \in 1..(1 + n + m) /\ k <= 1 + n
                               /\ ~(k <= 1) /\ k - 1 = j
    <3>1. /\ j + 1 \in 1..(1 + n) /\ j + 1 \in 1..(1 + n + m) /\ j + 1 <= 1 + n
          /\ ~(j + 1 <= 1) /\ j + 1 - 1 = j
      OBVIOUS
    <3> QED BY <3>1
  <2>2. (fg \o h)[k] = fg[k]
    BY <1>3, <2>1
  <2>3. fg[k] = g[j]
    BY <1>1, <2>1 DEF fg
  <2> QED BY <2>1, <2>2, <2>3
<1>7. ASSUME NEW j \in 1..m PROVE (fg \o h)[n + j + 1] = h[j]
  <2>1. /\ n + j + 1 \in 1..(1 + n + m) /\ ~(n + j + 1 <= 1 + n)
        /\ n + j + 1 - (1 + n) = j
    OBVIOUS
  <2> QED BY <1>3, <2>1
<1>8. ThreePart(fg \o h, f, g, h, n, m)
  BY <1>3, <1>4, <1>5, <1>6, <1>7 DEF ThreePart
<1>9. ThreePart(fg \o h, f, g, h, Len(g), Len(h))
  BY <1>8, <1>n, <1>m
<1> QED BY <1>3, <1>9 DEF fg

ActivationRequest == [app_id : Int, cfg : AppConfig]

\* The activations: one application each, counted from 0.
LEMMA ActivationsAre ==
    ASSUME NEW c \in Configs
    PROVE  /\ Len(Activations(c)) \in Nat
           /\ Len(Activations(c)) = 1 + Len(c.gates) + Len(c.ports)
           /\ DOMAIN Activations(c) = 1..(1 + Len(c.gates) + Len(c.ports))
           /\ \A n \in 1..(1 + Len(c.gates) + Len(c.ports)) :
                Activations(c)[n].app_id = n - 1 /\ Activations(c)[n].cfg \in AppConfig
           /\ \A j \in DOMAIN c.gates :
                /\ j + 1 \in DOMAIN Activations(c) /\ Activations(c)[j + 1].app_id = j
                /\ Activations(c)[j + 1].cfg.timer_nanosec = GatePeriod(c, j)
           /\ \A j \in DOMAIN c.ports :
                /\ Len(c.gates) + j + 1 \in DOMAIN Activations(c)
                /\ Activations(c)[Len(c.gates) + j + 1].app_id = Len(c.gates) + j
                /\ Activations(c)[Len(c.gates) + j + 1].cfg.timer_nanosec = PortPeriod(c, j)
<1> DEFINE F == <<Activation(0, 1, Len(c.ports) - 1)>>
           G == [j \in DOMAIN c.gates |-> Activation(GateAppId(c, j), GatePeriod(c, j), 0)]
           P == [j \in DOMAIN c.ports |-> Activation(PortAppId(c, j), PortPeriod(c, j), 0)]
<1>l. PICK l \in Nat : l = Len(c.gates)
  BY ConfigTypes
<1>m. PICK m \in Nat : m = Len(c.ports)
  BY ConfigTypes
<1>1. /\ DOMAIN c.gates = 1..l /\ DOMAIN c.ports = 1..m
      /\ \A j \in 1..l : GatePeriod(c, j) \in Nat
      /\ \A j \in 1..m : PortPeriod(c, j) \in Nat
  BY <1>l, <1>m, ConfigTypes
<1>2. \A id \in Int, timer \in Nat, batches \in Int :
        /\ Activation(id, timer, batches) \in ActivationRequest
        /\ Activation(id, timer, batches).app_id = id
        /\ Activation(id, timer, batches).cfg.timer_nanosec = timer
  BY DEF Activation, AppConfig, ActivationRequest
<1>3. F \in Seq(ActivationRequest) /\ Len(F) = 1 /\ F[1].app_id = 0
  <2>1. Len(c.ports) - 1 \in Int
    BY <1>m
  <2>2. /\ Activation(0, 1, Len(c.ports) - 1) \in ActivationRequest
        /\ Activation(0, 1, Len(c.ports) - 1).app_id = 0
    BY <1>2, <2>1
  <2> QED BY <2>2
<1>4. /\ G \in Seq(ActivationRequest) /\ Len(G) = l
      /\ \A j \in 1..l : G[j].app_id = j
      /\ \A j \in 1..l : G[j].cfg.timer_nanosec = GatePeriod(c, j)
  <2>1. \A j \in 1..l : G[j] = Activation(j, GatePeriod(c, j), 0)
    BY <1>1 DEF GateAppId
  <2>2. DOMAIN G = 1..l /\ G = [j \in 1..l |-> G[j]]
    BY <1>1
  <2> HIDE DEF G
  <2>3. ASSUME NEW j \in 1..l
        PROVE  /\ G[j] \in ActivationRequest /\ G[j].app_id = j
               /\ G[j].cfg.timer_nanosec = GatePeriod(c, j)
    BY <1>1, <1>2, <2>1
  <2>4. G \in [1..l -> ActivationRequest]
    BY <2>2, <2>3
  <2>5. G \in Seq(ActivationRequest)
    BY <2>4, SeqDef
  <2>6. Len(G) = l
    BY <2>2, <2>5, LenProperties
  <2> QED BY <2>3, <2>5, <2>6
<1>5. /\ P \in Seq(ActivationRequest) /\ Len(P) = m
      /\ \A j \in 1..m : P[j].app_id = l + j
      /\ \A j \in 1..m : P[j].cfg.timer_nanosec = PortPeriod(c, j)
  <2>1. \A j \in 1..m : P[j] = Activation(l + j, PortPeriod(c, j), 0)
    BY <1>1, <1>l DEF PortAppId
  <2>2. DOMAIN P = 1..m /\ P = [j \in 1..m |-> P[j]]
    BY <1>1
  <2> HIDE DEF P
  <2>3. ASSUME NEW j \in 1..m
        PROVE  /\ P[j] \in ActivationRequest /\ P[j].app_id = l + j
               /\ P[j].cfg.timer_nanosec = PortPeriod(c, j)
    <3>1. l + j \in Int /\ PortPeriod(c, j) \in Int /\ P[j] = Activation(l + j, PortPeriod(c, j), 0)
      BY <1>1, <2>1
    <3>2. PICK id \in Int, t \in Nat : id = l + j /\ t = PortPeriod(c, j)
      BY <1>1, <3>1
    <3>3. P[j] = Activation(id, t, 0)
      BY <3>1, <3>2
    <3> QED BY <1>2, <3>2, <3>3
  <2>4. P \in [1..m -> ActivationRequest]
    BY <2>2, <2>3
  <2>5. P \in Seq(ActivationRequest)
    BY <2>4, SeqDef
  <2>6. Len(P) = m
    BY <2>2, <2>5, LenProperties
  <2> QED BY <2>3, <2>5, <2>6
<1>6. Activations(c) = (F \o G) \o P
  BY DEF Activations
<1> HIDE DEF F, G, P
<1>7. Activations(c) \in Seq(ActivationRequest) /\ ThreePart(Activations(c), F, G, P, l, m)
  BY <1>3, <1>4, <1>5, <1>6, ThreeParts
<1>8. ASSUME NEW k \in 1..(1 + l + m)
      PROVE  Activations(c)[k].app_id = k - 1 /\ Activations(c)[k].cfg \in AppConfig
  <2>1. Activations(c)[k].cfg \in AppConfig
    <3>1. Activations(c)[k] \in ActivationRequest
      BY <1>7, ElementOfSeq DEF ThreePart
    <3> QED BY <3>1 DEF ActivationRequest
  <2>2. CASE k = 1
    BY <1>3, <1>7, <2>1, <2>2 DEF ThreePart
  <2>3. CASE \E j \in 1..l : k = j + 1
    <3>1. PICK j \in 1..l : k = j + 1
      BY <2>3
    <3>2. Activations(c)[k].app_id = j
      BY <1>4, <1>7, <3>1 DEF ThreePart
    <3> QED BY <2>1, <3>1, <3>2
  <2>4. CASE \E j \in 1..m : k = l + j + 1
    <3>1. PICK j \in 1..m : k = l + j + 1
      BY <2>4
    <3>2. Activations(c)[k].app_id = l + j
      BY <1>5, <1>7, <3>1 DEF ThreePart
    <3> QED BY <2>1, <3>1, <3>2
  <2> QED BY <2>2, <2>3, <2>4, PlaceOf
<1>9. /\ \A j \in 1..l : Activations(c)[j + 1].cfg.timer_nanosec = GatePeriod(c, j)
      /\ \A j \in 1..m : Activations(c)[l + j + 1].cfg.timer_nanosec = PortPeriod(c, j)
  BY <1>4, <1>5, <1>7 DEF ThreePart
<1>10. /\ Len(Activations(c)) \in Nat /\ Len(Activations(c)) = 1 + l + m
       /\ DOMAIN Activations(c) = 1..(1 + l + m)
  BY <1>7 DEF ThreePart
<1>11. ASSUME NEW j \in 1..l
       PROVE  j + 1 \in DOMAIN Activations(c) /\ Activations(c)[j + 1].app_id = j
  <2>1. j + 1 \in 1..(1 + l + m) /\ j + 1 - 1 = j
    OBVIOUS
  <2> QED BY <1>8, <1>10, <2>1
<1>12. ASSUME NEW j \in 1..m
       PROVE  l + j + 1 \in DOMAIN Activations(c) /\ Activations(c)[l + j + 1].app_id = l + j
  <2>1. l + j + 1 \in 1..(1 + l + m) /\ l + j + 1 - 1 = l + j
    OBVIOUS
  <2> QED BY <1>8, <1>10, <2>1
<1> QED BY <1>1, <1>l, <1>m, <1>8, <1>9, <1>10, <1>11, <1>12

\* What the first m activations make of the applications.
LEMMA ActivatedApps ==
    ASSUME config \in Configs, NEW m \in 0..Len(Activations(config)), Activated(m)
    PROVE  app' = [a \in App |-> IF a + 1 \in 1..m THEN Activations(config)[a + 1].cfg ELSE app[a]]
<1> DEFINE S(a) == {i \in 1..m : Activations(config)[i].app_id = a}
<1>1. /\ DOMAIN Activations(config) = 1..Len(Activations(config))
      /\ Len(Activations(config)) \in Nat
      /\ \A n \in DOMAIN Activations(config) : Activations(config)[n].app_id = n - 1
  BY ActivationsAre
<1>2. ASSUME NEW a \in App
      PROVE  S(a) = IF a + 1 \in 1..m THEN {a + 1} ELSE {}
  <2>1. a \in Int
    BY StartupAssumption DEF App
  <2>2. \A i \in 1..m : Activations(config)[i].app_id = i - 1
    BY <1>1
  <2>3. \A i \in 1..m : i - 1 = a <=> i = a + 1
    BY <2>1
  <2> QED BY <2>2, <2>3
<1>3. app' = [a \in App |-> IF S(a) = {} THEN app[a]
                            ELSE Activations(config)[CHOOSE i \in S(a) : \A j \in S(a) : j <= i].cfg]
  BY DEF Activated
<1> HIDE DEF S
<1>4. ASSUME NEW a \in App, a + 1 \in 1..m
      PROVE  S(a) # {} /\ (CHOOSE i \in S(a) : \A j \in S(a) : j <= i) = a + 1
  <2>1. S(a) = {a + 1} /\ a + 1 \in Int
    BY <1>2, <1>4
  <2>2. a + 1 \in S(a) /\ \A j \in S(a) : j <= a + 1
    BY <2>1
  <2> QED BY <2>1, <2>2
<1> QED BY <1>2, <1>3, <1>4
-----------------------------------------------------------------------------
\* The invariant holds initially, and each step keeps it.
LEMMA InitIInv == Init => IInv
<1> SUFFICES ASSUME Init PROVE IInv
  OBVIOUS
<1>1. TypeOK
  <2>1. Disabled \in AppConfig /\ None \in TimeStamp
    BY DEF Disabled, AppConfig, TimeStamp
  <2>2. /\ app \in [App -> AppConfig] /\ tasTs \in [Port -> TimeStamp]
        /\ gateTs \in [Gate -> TimeStamp]
    BY <2>1 DEF Init
  <2> QED BY <2>2 DEF Init, TypeOK
<1>2. TablesCleared /\ GeneratorOff /\ RegistersClear /\ ConfigurationRead
  BY DEF Init, TablesCleared, GeneratorOff, RegistersClear, ConfigurationRead
<1>3. AppsActivated /\ StampsAreOwn
  BY DEF Init, AppsActivated, StampsAreOwn, Serving
<1> QED BY <1>1, <1>2, <1>3 DEF IInv

\* With cleared tables nothing is served.
LEMMA NotServing ==
    ASSUME config \in Configs, \A e \in tables : e.table # "fixed"
    PROVE  ~Serving
BY EntriesPresent DEF Serving

\* What a step leaves alone.
LEMMA ServingUnchanged ==
    ASSUME UNCHANGED <<config, tables, app, pktgen, enabledBy, tasTs, gateTs>>
    PROVE  /\ Serving' <=> Serving
           /\ AppsOf(config)' <=> AppsOf(config)
           /\ StampsAreOwn => StampsAreOwn'
<1>1. Serving' <=> Serving
  BY DEF Serving
<1>2. AppsOf(config)' <=> AppsOf(config)
  BY DEF AppsOf
<1>3. StampsAreOwn => StampsAreOwn'
  BY <1>1 DEF StampsAreOwn, OwnStamp
<1> QED BY <1>1, <1>2, <1>3

LEMMA StartStep == IInv /\ Start => IInv'
<1> SUFFICES ASSUME IInv, Start PROVE IInv'
  OBVIOUS
<1>1. TypeOK'
  BY DEF IInv, Start, TypeOK, generator, registers
<1>2. TablesCleared' /\ GeneratorOff' /\ RegistersClear' /\ ConfigurationRead'
  <2>1. cleared' = 0 /\ Len(ClearOrder) = 9
    BY TableNames DEF Start
  <2> QED BY <2>1 DEF IInv, Start, TablesCleared, GeneratorOff, RegistersClear, ConfigurationRead,
                      generator, registers
<1>3. AppsActivated' /\ StampsAreOwn'
  BY ServingUnchanged DEF IInv, Start, AppsActivated, generator, registers
<1> QED BY <1>1, <1>2, <1>3 DEF IInv

LEMMA ExitStep == IInv /\ Exit => IInv'
<1> SUFFICES ASSUME IInv, Exit PROVE IInv'
  OBVIOUS
<1>1. TypeOK'
  BY DEF IInv, Exit, Goto, TypeOK, generator, registers
<1>2. TablesCleared' /\ GeneratorOff' /\ RegistersClear' /\ ConfigurationRead'
  BY DEF IInv, Exit, Goto, TablesCleared, GeneratorOff, RegistersClear, ConfigurationRead,
         generator, registers
<1>3. AppsActivated' /\ StampsAreOwn'
  BY ServingUnchanged DEF IInv, Exit, Goto, AppsActivated, generator, registers
<1> QED BY <1>1, <1>2, <1>3 DEF IInv

LEMMA ClearTableStep == IInv /\ ClearTable => IInv'
<1> SUFFICES ASSUME IInv, ClearTable PROVE IInv'
  OBVIOUS
<1>1. /\ cleared \in Nat /\ cleared < 9 /\ Len(ClearOrder) = 9
      /\ \A n \in 1..cleared : \A e \in tables : e.table # ClearOrder[n]
  BY TableNames DEF IInv, TypeOK, TablesCleared, ClearTable
<1>2. /\ cleared' = cleared + 1 /\ cleared' \in Nat
      /\ \A n \in 1..cleared' : \A e \in tables' : e.table # ClearOrder[n]
  BY <1>1 DEF ClearTable
<1>3. TypeOK'
  BY <1>2 DEF IInv, ClearTable, TypeOK, generator, registers
<1>4. pc' = "load" => tables' = {}
  <2> SUFFICES ASSUME pc' = "load", NEW e \in tables' PROVE FALSE
    OBVIOUS
  <2>1. cleared' = 9
    BY <1>1 DEF ClearTable
  <2>2. e.table \in ToSet(ClearOrder)
    BY <1>3 DEF TypeOK, TableEntry
  <2>3. PICK n \in 1..9 : e.table = ClearOrder[n]
    BY <2>2, TableNames DEF ToSet
  <2> QED BY <1>2, <2>1, <2>3
<1>5. pc' = "clear" => cleared' < 9
  BY <1>1, <1>2 DEF ClearTable
<1>6. pc' \in {"clear", "load"}
  BY DEF ClearTable
<1>7. TablesCleared' /\ GeneratorOff' /\ RegistersClear'
  BY <1>1, <1>2, <1>4, <1>5, <1>6 DEF TablesCleared, GeneratorOff, RegistersClear
<1>8. ConfigurationRead'
  BY <1>6 DEF IInv, ClearTable, ConfigurationRead, generator
<1>9. ~Serving'
  <2> SUFFICES ASSUME pktgen' PROVE ~Serving'
    BY DEF Serving
  <2>1. config' \in Configs
    BY <1>8 DEF ConfigurationRead
  <2>2. 1 \in 1..cleared' /\ ClearOrder[1] = "fixed"
    BY <1>1, <1>2, TableNames
  <2>3. \A e \in tables' : e.table # "fixed"
    BY <1>2, <2>2
  <2>4. \E e \in EntriesOf(config') : e.table = "fixed"
    BY <2>1, EntriesPresent
  <2> QED BY <2>3, <2>4 DEF Serving
<1>10. AppsActivated' /\ StampsAreOwn'
  BY <1>6, <1>9 DEF AppsActivated, StampsAreOwn
<1> QED BY <1>3, <1>7, <1>8, <1>10 DEF IInv

LEMMA LoadConfigurationStep == IInv /\ LoadConfiguration => IInv'
<1> SUFFICES ASSUME IInv, LoadConfiguration PROVE IInv'
  OBVIOUS
<1>1. pc' \in {"reset", "down"} /\ tables = {} /\ tables' = {}
  BY DEF IInv, TablesCleared, LoadConfiguration, Goto
<1>2. TypeOK'
  BY DEF IInv, LoadConfiguration, Goto, TypeOK, generator, registers
<1>3. TablesCleared' /\ GeneratorOff' /\ RegistersClear'
  BY <1>1 DEF TablesCleared, GeneratorOff, RegistersClear
<1>4. ConfigurationRead'
  BY DEF IInv, LoadConfiguration, Goto, ConfigurationRead, generator
<1>5. ~Serving'
  <2> SUFFICES ASSUME pktgen' PROVE ~Serving'
    BY DEF Serving
  <2>1. config' \in Configs
    BY <1>4 DEF ConfigurationRead
  <2>2. \E e \in EntriesOf(config') : e.table = "fixed"
    BY <2>1, EntriesPresent
  <2> QED BY <1>1, <2>2 DEF Serving
<1>6. AppsActivated' /\ StampsAreOwn'
  BY <1>1, <1>5 DEF AppsActivated, StampsAreOwn
<1> QED BY <1>2, <1>3, <1>4, <1>6 DEF IInv

LEMMA DisableGeneratorStep == IInv /\ DisableGenerator => IInv'
<1> SUFFICES ASSUME IInv, DisableGenerator PROVE IInv'
  OBVIOUS
<1>1. /\ tables' = {} /\ config' = config /\ config \in Configs
      /\ pc' \in {"registers", "down"}
  BY DEF IInv, TablesCleared, ConfigurationRead, DisableGenerator, Goto
<1>2. Disabled \in AppConfig
  BY DEF Disabled, AppConfig
<1>3. app' \in [App -> AppConfig]
  BY <1>2 DEF IInv, TypeOK, DisableGenerator
<1>4. TypeOK'
  BY <1>3 DEF IInv, DisableGenerator, Goto, TypeOK, registers
<1>5. TablesCleared' /\ GeneratorOff' /\ RegistersClear' /\ ConfigurationRead'
  BY <1>1 DEF DisableGenerator, Goto, TablesCleared, GeneratorOff, RegistersClear,
              ConfigurationRead
<1>6. ~Serving'
  <2>1. \E e \in EntriesOf(config') : e.table = "fixed"
    BY <1>1, EntriesPresent
  <2> QED BY <1>1, <2>1 DEF Serving
<1>7. AppsActivated' /\ StampsAreOwn'
  BY <1>1, <1>6 DEF AppsActivated, StampsAreOwn
<1> QED BY <1>4, <1>5, <1>7 DEF IInv

LEMMA ClearRegistersStep == IInv /\ ClearRegisters => IInv'
<1> SUFFICES ASSUME IInv, ClearRegisters PROVE IInv'
  OBVIOUS
<1>1. /\ pc = "registers" /\ pc' \in {"activate", "down"} /\ ~pktgen
      /\ UNCHANGED <<tables, app, pktgen, enabledBy, config, cleared, run>>
  BY DEF IInv, GeneratorOff, ClearRegisters, Goto, generator
<1>2. TypeOK'
  <2>1. gateTs' \in [Gate -> TimeStamp] /\ tasTs' \in [Port -> TimeStamp]
    BY DEF IInv, TypeOK, ClearRegisters, TimeStamp
  <2> QED BY <1>1, <2>1 DEF IInv, TypeOK
<1>3. TablesCleared' /\ GeneratorOff' /\ ConfigurationRead'
  BY <1>1 DEF IInv, TablesCleared, GeneratorOff, ConfigurationRead
<1>4. RegistersClear'
  BY <1>1 DEF RegistersClear, ClearRegisters, Goto
<1>5. AppsActivated' /\ StampsAreOwn'
  BY <1>1 DEF AppsActivated, StampsAreOwn, Serving
<1> QED BY <1>2, <1>3, <1>4, <1>5 DEF IInv

LEMMA ActivateAppsStep == IInv /\ ActivateApps => IInv'
<1> SUFFICES ASSUME IInv, ActivateApps PROVE IInv'
  OBVIOUS
<1>1. /\ pc = "activate" /\ pc' \in {"write", "down"} /\ config \in Configs /\ ~pktgen
      /\ tables = {} /\ \A a \in App : app[a] = Disabled
      /\ UNCHANGED <<tables, pktgen, enabledBy, config, cleared, run, tasTs, gateTs>>
  BY DEF IInv, GeneratorOff, TablesCleared, ConfigurationRead, ActivateApps, Goto, registers
<1>2. PICK n \in Nat : n = Len(Activations(config))
  BY <1>1, ActivationsAre
<1>3. /\ \A k \in 1..n : /\ Activations(config)[k].app_id = k - 1
                         /\ Activations(config)[k].cfg \in AppConfig
      /\ DOMAIN Activations(config) = 1..n
  BY <1>1, <1>2, ActivationsAre
<1>4. ASSUME NEW m \in 0..n, Activated(m)
      PROVE  app' = [a \in App |-> IF a + 1 \in 1..m THEN Activations(config)[a + 1].cfg
                                   ELSE app[a]]
  BY <1>1, <1>2, <1>4, ActivatedApps
<1>5. app' \in [App -> AppConfig]
  <2>1. app \in [App -> AppConfig]
    BY DEF IInv, TypeOK
  <2>2. ASSUME NEW m \in 0..n, Activated(m) PROVE app' \in [App -> AppConfig]
    <3>1. \A a \in App : a + 1 \in 1..m => Activations(config)[a + 1].cfg \in AppConfig
      BY <1>3
    <3> QED BY <1>4, <2>1, <2>2, <3>1
  <2>3. n \in 0..n /\ 0..(n-1) \subseteq 0..n
    OBVIOUS
  <2> QED BY <1>2, <2>1, <2>2, <2>3 DEF ActivateApps
<1>6. TypeOK'
  BY <1>1, <1>5 DEF IInv, TypeOK
<1>7. TablesCleared' /\ RegistersClear' /\ ConfigurationRead'
  BY <1>1 DEF IInv, TablesCleared, RegistersClear, ConfigurationRead
<1>8. GeneratorOff'
  BY <1>1 DEF GeneratorOff
<1>9. pc' = "write" => AppsOf(config)' /\ EnoughApps(config)'
  <2> SUFFICES ASSUME pc' = "write" PROVE AppsOf(config)' /\ EnoughApps(config)'
    OBVIOUS
  <2>1. /\ config.ports # <<>> /\ Activated(n)
        /\ \A i \in 1..n : Activations(config)[i].app_id \in App
    BY <1>2 DEF ActivateApps, Goto
  <2>2. app' = [a \in App |-> IF a + 1 \in 1..n THEN Activations(config)[a + 1].cfg ELSE app[a]]
    BY <1>4, <2>1
  <2>3. \A a \in App : a \in Int
    BY StartupAssumption DEF App
  <2>4. \A a \in App : (\E k \in DOMAIN Activations(config) : Activations(config)[k].app_id = a)
                        <=> a + 1 \in 1..n
    <3> SUFFICES ASSUME NEW a \in App
                 PROVE  (\E k \in 1..n : k - 1 = a) <=> a + 1 \in 1..n
      BY <1>3
    <3>1. a \in Int
      BY <2>3
    <3>2. \A k \in 1..n : k - 1 = a <=> k = a + 1
      BY <3>1
    <3> QED BY <3>2
  <2>5. AppsOf(config)'
    BY <1>1, <2>2, <2>4 DEF AppsOf
  <2>6. Len(config.gates) + Len(config.ports) < NumApps
    <3>1. PICK l \in Nat : l = Len(config.gates)
      BY <1>1, ConfigTypes
    <3>2. PICK m \in Nat : m = Len(config.ports)
      BY <1>1, ConfigTypes
    <3>3. n = 1 + l + m
      BY <1>1, <1>2, <3>1, <3>2, ActivationsAre
    <3>4. n \in 1..n
      BY <3>3
    <3>5. NumApps \in Nat /\ n - 1 \in 0..(NumApps - 1)
      BY <1>3, <2>1, <3>4, StartupAssumption DEF App
    <3>6. l + m < NumApps
      BY <3>3, <3>5
    <3> QED BY <3>1, <3>2, <3>6
  <2> QED BY <1>1, <2>1, <2>5, <2>6 DEF EnoughApps
<1>10. AppsActivated' /\ StampsAreOwn'
  BY <1>1, <1>9 DEF AppsActivated, StampsAreOwn, Serving
<1> QED BY <1>6, <1>7, <1>8, <1>10 DEF IInv

LEMMA WriteEntriesStep == IInv /\ WriteEntries => IInv'
<1> SUFFICES ASSUME IInv, WriteEntries PROVE IInv'
  OBVIOUS
<1>1. /\ pc = "write" /\ pc' \in {"waiting", "down"} /\ config \in Configs /\ ~pktgen
      /\ tables = {} /\ AppsOf(config) /\ EnoughApps(config)
      /\ UNCHANGED <<app, pktgen, enabledBy, config, cleared, run, tasTs, gateTs>>
  BY DEF IInv, GeneratorOff, TablesCleared, ConfigurationRead, AppsActivated, WriteEntries, Goto,
         generator, registers
<1>2. Requests(config) \in Seq(TableEntry)
  BY <1>1, RequestsAre
<1>3. PICK n \in Nat : n = Len(Requests(config))
  BY <1>2
<1>4. /\ DOMAIN Requests(config) = 1..n
      /\ \A i \in 1..n : Requests(config)[i] \in TableEntry
  BY <1>2, <1>3, ElementOfSeq
<1>5. tables' \in SUBSET TableEntry
  <2>1. ASSUME NEW m \in 0..n, Added(m) PROVE tables' \in SUBSET TableEntry
    BY <1>1, <1>4, <2>1 DEF Added
  <2>2. n \in 0..n /\ 0..(n-1) \subseteq 0..n
    OBVIOUS
  <2> QED BY <1>3, <2>1, <2>2 DEF WriteEntries
<1>6. TypeOK'
  BY <1>1, <1>5 DEF IInv, TypeOK
<1>7. TablesCleared' /\ GeneratorOff' /\ RegistersClear' /\ ConfigurationRead'
  BY <1>1 DEF IInv, TablesCleared, GeneratorOff, RegistersClear, ConfigurationRead
<1>8. pc' = "waiting" => Valid(config) /\ tables' = EntriesOf(config)
  <2> SUFFICES ASSUME pc' = "waiting" PROVE Valid(config) /\ tables' = EntriesOf(config)
    OBVIOUS
  <2>1. Addable(n) /\ Added(n)
    BY <1>3 DEF WriteEntries, Goto
  <2>2. tables' = EntriesOf(config)
    BY <1>1, <1>4, <2>1 DEF Added, EntriesOf, ToSet
  <2>3. ASSUME NEW i \in 1..n, NEW j \in 1..n, j < i
        PROVE  ~Same(Requests(config)[i], Requests(config)[j])
    <3>1. j \in 1..(i-1)
      BY <2>3
    <3> QED BY <2>1, <3>1 DEF Addable, Same
  <2>4. NoTwice(Requests(config))
    <3> SUFFICES ASSUME NEW i \in 1..n, NEW j \in 1..n, i # j
                 PROVE  ~Same(Requests(config)[i], Requests(config)[j])
      BY <1>4 DEF NoTwice
    <3>1. j < i \/ i < j
      OBVIOUS
    <3> QED BY <2>3, <3>1 DEF Same
  <2> QED BY <1>1, <2>2, <2>4, PeriodsDistinct
<1>9. AppsOf(config)'
  BY <1>1 DEF AppsOf
<1>10. AppsActivated' /\ StampsAreOwn'
  BY <1>1, <1>8, <1>9 DEF AppsActivated, StampsAreOwn, Serving
<1> QED BY <1>6, <1>7, <1>10 DEF IInv

LEMMA EnablePktGenStep == IInv /\ EnablePktGen => IInv'
<1> SUFFICES ASSUME IInv, EnablePktGen PROVE IInv'
  OBVIOUS
<1>1. /\ pc = "waiting" /\ pc' = "running" /\ config \in Configs /\ AppsOf(config)
      /\ \A p \in Port : tasTs[p] = None
      /\ \A g \in Gate : gateTs[g] = None
      /\ UNCHANGED <<tables, app, config, cleared, run, tasTs, gateTs>>
  BY DEF IInv, RegistersClear, ConfigurationRead, AppsActivated, EnablePktGen, Goto, registers
<1>2. TypeOK'
  BY <1>1 DEF IInv, TypeOK, EnablePktGen
<1>3. TablesCleared' /\ GeneratorOff' /\ RegistersClear' /\ ConfigurationRead'
  BY <1>1 DEF IInv, TablesCleared, GeneratorOff, RegistersClear, ConfigurationRead
<1>4. AppsOf(config)'
  BY <1>1 DEF AppsOf
<1>5. AppsActivated' /\ StampsAreOwn'
  BY <1>1, <1>4 DEF AppsActivated, StampsAreOwn
<1> QED BY <1>2, <1>3, <1>5 DEF IInv

LEMMA HyperperiodPacketStep ==
    ASSUME IInv, NEW a \in App, HyperperiodPacket(a)
    PROVE  IInv'
<1> DEFINE stamp == [run |-> enabledBy, timer |-> app[a].timer_nanosec]
           gates == EntriesAt("app_id_stream_gate", <<a>>)
           ports == EntriesAt("app_id_tas", <<a>>)
<1>1. /\ pktgen /\ config \in Configs
      /\ pc \notin {"registers", "activate", "write", "waiting"}
      /\ UNCHANGED <<pc, tables, app, pktgen, enabledBy, config, cleared, run>>
  BY DEF IInv, GeneratorOff, ConfigurationRead, HyperperiodPacket, Generates, controller, generator
<1>2. \/ /\ UNCHANGED tasTs
         /\ \E e \in gates : gateTs' = [gateTs EXCEPT ![e.data[1]] = stamp]
      \/ /\ UNCHANGED gateTs
         /\ \E e \in ports : tasTs' = [tasTs EXCEPT ![e.data[1]] = stamp]
  BY DEF HyperperiodPacket, Stamp
<1>3. stamp \in TimeStamp
  BY DEF IInv, TypeOK, AppConfig, TimeStamp
<1>4. TypeOK'
  <2> HIDE DEF stamp, gates, ports
  <2>1. tasTs' \in [Port -> TimeStamp] /\ gateTs' \in [Gate -> TimeStamp]
    BY <1>2, <1>3 DEF IInv, TypeOK
  <2> QED BY <1>1, <2>1 DEF IInv, TypeOK
<1>5. TablesCleared' /\ GeneratorOff' /\ RegistersClear' /\ ConfigurationRead'
  BY <1>1 DEF IInv, TablesCleared, GeneratorOff, RegistersClear, ConfigurationRead
<1>6. Serving' <=> Serving
  BY <1>1 DEF Serving
<1>7. AppsOf(config)' <=> AppsOf(config)
  BY <1>1 DEF AppsOf
<1>8. AppsActivated'
  BY <1>1, <1>6, <1>7 DEF IInv, AppsActivated
<1>9. ASSUME Serving PROVE StampsAreOwn'
  <2>1. tables = EntriesOf(config) /\ AppsOf(config)
    BY <1>9 DEF IInv, AppsActivated, Serving
  <2>2. /\ \A e \in gates : \E j \in DOMAIN config.gates : a = j /\ e.data[1] = config.gates[j].id
        /\ \A e \in ports : \E j \in DOMAIN config.ports :
             a = Len(config.gates) + j /\ e.data[1] = config.ports[j].id
    BY <1>1, <2>1, EntriesByTable DEF EntriesAt
  <2>3. \A j \in DOMAIN config.gates : a = j => stamp.timer = GatePeriod(config, j)
    <3> SUFFICES ASSUME NEW j \in DOMAIN config.gates, a = j
                 PROVE  app[a].timer_nanosec = GatePeriod(config, j)
      OBVIOUS
    <3>1. /\ j + 1 \in DOMAIN Activations(config) /\ Activations(config)[j + 1].app_id = j
          /\ Activations(config)[j + 1].cfg.timer_nanosec = GatePeriod(config, j)
      BY <1>1, ActivationsAre
    <3>2. app[a] = Activations(config)[a + 1].cfg
      BY <2>1, <3>1 DEF AppsOf
    <3> QED BY <3>1, <3>2
  <2>4. \A j \in DOMAIN config.ports :
          a = Len(config.gates) + j => stamp.timer = PortPeriod(config, j)
    <3> SUFFICES ASSUME NEW j \in DOMAIN config.ports, a = Len(config.gates) + j
                 PROVE  app[a].timer_nanosec = PortPeriod(config, j)
      OBVIOUS
    <3>1. /\ a + 1 \in DOMAIN Activations(config) /\ Activations(config)[a + 1].app_id = a
          /\ Activations(config)[a + 1].cfg.timer_nanosec = PortPeriod(config, j)
      BY <1>1, ActivationsAre
    <3>2. app[a] = Activations(config)[a + 1].cfg
      BY <2>1, <3>1 DEF AppsOf
    <3> QED BY <3>1, <3>2
  <2>5. stamp.run = enabledBy
    OBVIOUS
  <2> HIDE DEF stamp, gates, ports
  <2>6. ASSUME NEW p \in Port, tasTs'[p] # None
        PROVE  \E j \in DOMAIN config.ports :
                 config.ports[j].id = p /\ OwnStamp(tasTs[p], PortPeriod(config, j))'
    <3>1. CASE tasTs'[p] = tasTs[p]
      BY <1>1, <1>9, <2>6, <3>1 DEF IInv, StampsAreOwn, OwnStamp
    <3>2. CASE tasTs'[p] # tasTs[p]
      <4>1. PICK e \in ports : tasTs' = [tasTs EXCEPT ![e.data[1]] = stamp]
        BY <1>2, <3>2
      <4>2. e.data[1] = p /\ tasTs'[p] = stamp
        BY <3>2, <4>1 DEF IInv, TypeOK
      <4>3. PICK j \in DOMAIN config.ports :
              a = Len(config.gates) + j /\ e.data[1] = config.ports[j].id
        BY <2>2
      <4> QED BY <1>1, <2>4, <2>5, <4>2, <4>3 DEF OwnStamp
    <3> QED BY <3>1, <3>2
  <2>7. ASSUME NEW g \in Gate, gateTs'[g] # None
        PROVE  \E j \in DOMAIN config.gates :
                 config.gates[j].id = g /\ OwnStamp(gateTs[g], GatePeriod(config, j))'
    <3>1. CASE gateTs'[g] = gateTs[g]
      BY <1>1, <1>9, <2>7, <3>1 DEF IInv, StampsAreOwn, OwnStamp
    <3>2. CASE gateTs'[g] # gateTs[g]
      <4>1. PICK e \in gates : gateTs' = [gateTs EXCEPT ![e.data[1]] = stamp]
        BY <1>2, <3>2
      <4>2. e.data[1] = g /\ gateTs'[g] = stamp
        BY <3>2, <4>1 DEF IInv, TypeOK
      <4>3. PICK j \in DOMAIN config.gates : a = j /\ e.data[1] = config.gates[j].id
        BY <2>2
      <4> QED BY <1>1, <2>3, <2>5, <4>2, <4>3 DEF OwnStamp
    <3> QED BY <3>1, <3>2
  <2> QED BY <1>1, <2>6, <2>7 DEF StampsAreOwn
<1>10. StampsAreOwn'
  <2>1. CASE Serving
    BY <1>9, <2>1
  <2>2. CASE ~Serving
    BY <1>6, <2>2 DEF StampsAreOwn
  <2> QED BY <2>1, <2>2
<1> QED BY <1>4, <1>5, <1>8, <1>10 DEF IInv

LEMMA ControlPacketStep ==
    ASSUME IInv, NEW b \in App, ControlPacket(b)
    PROVE  IInv'
<1>1. UNCHANGED <<pc, cleared, run, config, tables, app, pktgen, enabledBy, tasTs, gateTs>>
  BY DEF ControlPacket, controller, generator, registers
<1>2. /\ TypeOK' /\ TablesCleared' /\ GeneratorOff' /\ RegistersClear' /\ ConfigurationRead'
  BY <1>1 DEF IInv, TypeOK, TablesCleared, GeneratorOff, RegistersClear, ConfigurationRead
<1>3. AppsActivated' /\ StampsAreOwn'
  BY <1>1, ServingUnchanged DEF IInv, AppsActivated
<1> QED BY <1>2, <1>3 DEF IInv

LEMMA NextIInv == IInv /\ [Next]_vars => IInv'
<1> SUFFICES ASSUME IInv, [Next]_vars PROVE IInv'
  OBVIOUS
<1>1. CASE UNCHANGED vars
  <2>1. UNCHANGED <<pc, cleared, run, config, tables, app, pktgen, enabledBy, tasTs, gateTs>>
    BY <1>1 DEF vars, controller, generator, registers
  <2>2. /\ TypeOK' /\ TablesCleared' /\ GeneratorOff' /\ RegistersClear' /\ ConfigurationRead'
    BY <2>1 DEF IInv, TypeOK, TablesCleared, GeneratorOff, RegistersClear, ConfigurationRead
  <2>3. AppsActivated' /\ StampsAreOwn'
    BY <2>1, ServingUnchanged DEF IInv, AppsActivated
  <2> QED BY <2>2, <2>3 DEF IInv
<1>2. CASE Start
  BY <1>2, StartStep
<1>3. CASE Exit
  BY <1>3, ExitStep
<1>4. CASE Controller
  BY <1>4, ClearTableStep, LoadConfigurationStep, DisableGeneratorStep, ClearRegistersStep,
     ActivateAppsStep, WriteEntriesStep, EnablePktGenStep DEF Controller
<1>5. CASE Packet
  BY <1>5, HyperperiodPacketStep, ControlPacketStep DEF Packet
<1> QED BY <1>1, <1>2, <1>3, <1>4, <1>5 DEF Next

LEMMA Inductive == Spec => []IInv
BY InitIInv, NextIInv, PTL DEF Spec

-----------------------------------------------------------------------------
\* The types of all variables, for every set of configurations.
THEOREM TypeCorrect == Spec => []TypeOK
<1>1. IInv => TypeOK
  BY DEF IInv
<1> QED BY <1>1, Inductive, PTL

\* main.rs, run: as long as a configuration is served, every time stamp is one of
\* the timer of its own port or stream gate, and of the run that enabled
\* generation, whatever runs were started and died before and since.
THEOREM StampsOfThisRun == Spec => []StampsAreOwn
<1>1. IInv => StampsAreOwn
  BY DEF IInv
<1> QED BY <1>1, Inductive, PTL

\* main.rs:311-313: from the reset until the activation nothing is stamped or set,
\* since generation is off on the ports whatever the applications are.
THEOREM Quiet == Spec => QuietUntilActivation
<1>1. ASSUME IInv, [Next]_vars, pc \in {"registers", "activate", "write", "waiting"}
      PROVE  /\ \A p \in Port : tasTs'[p] \in {tasTs[p], None}
             /\ \A g \in Gate : gateTs'[g] \in {gateTs[g], None}
             /\ setting' = setting
  <2>1. ~pktgen
    BY <1>1 DEF IInv, GeneratorOff
  <2>2. CASE ClearRegisters
    BY <2>2 DEF ClearRegisters
  <2>3. CASE UNCHANGED <<registers, setting>>
    BY <2>3 DEF registers
  <2>4. ~Packet
    BY <2>1 DEF Packet, HyperperiodPacket, ControlPacket, Generates
  <2>5. Next \/ UNCHANGED vars
    BY <1>1
  <2> QED BY <2>2, <2>3, <2>4, <2>5
          DEF Next, Controller, Start, Exit, ClearTable, LoadConfiguration, DisableGenerator,
              ActivateApps, WriteEntries, EnablePktGen, vars
<1> QED BY <1>1, Inductive, PTL DEF Spec, QuietUntilActivation

\* write_table_entries, reset_packet_generator and enable_pkt_gen: generation is
\* switched on over the tables, registers and applications of this run's
\* configuration only, and of one the program can serve.
THEOREM CleanStart == Spec => StartsClean
<1>1. ASSUME IInv, [Next]_vars, pktgen', ~pktgen
      PROVE  /\ Valid(config)
             /\ tables = EntriesOf(config)
             /\ \A p \in Port : tasTs[p] = None
             /\ \A g \in Gate : gateTs[g] = None
             /\ \A a \in App : app[a] =
                  IF \E i \in DOMAIN Activations(config) : Activations(config)[i].app_id = a
                  THEN Activations(config)[a + 1].cfg ELSE Disabled
  <2>1. Next \/ UNCHANGED vars
    BY <1>1
  <2>2. EnablePktGen
    BY <1>1, <2>1 DEF Next, Controller, Packet, Start, Exit, ClearTable, LoadConfiguration,
       DisableGenerator, ClearRegisters, ActivateApps, WriteEntries, HyperperiodPacket,
       ControlPacket, Generates, generator, vars
  <2>3. pc = "waiting"
    BY <2>2 DEF EnablePktGen
  <2> QED BY <1>1, <2>3 DEF IInv, AppsActivated, RegistersClear, AppsOf
<1> QED BY <1>1, Inductive, PTL DEF Spec, StartsClean

\* TSN.p4, apply: a gate is set by the register and the period of its own port,
\* under both of the numbers the controller gives a port, its batch and its id.
THEOREM OwnSettings == Spec => SettingsAreOwn
<1>1. ASSUME IInv, [Next]_vars, Serving, setting' # setting
      PROVE  \E j \in DOMAIN config.ports :
               /\ setting'.gate = config.ports[j].id
               /\ setting'.register = config.ports[j].id
               /\ setting'.duration = PortPeriod(config, j)
               /\ OwnStamp(setting'.stamp, setting'.duration)
  <2>1. Next \/ UNCHANGED vars
    BY <1>1
  <2>2. PICK b \in App : ControlPacket(b)
    BY <1>1, <2>1 DEF Next, Controller, Packet, Start, Exit, ClearTable, LoadConfiguration,
       DisableGenerator, ClearRegisters, ActivateApps, WriteEntries, EnablePktGen,
       HyperperiodPacket, vars
  <2>3. tables = EntriesOf(config) /\ config \in Configs
    BY <1>1 DEF IInv, ConfigurationRead, Serving
  <2>4. PICK e \in EntriesAt("gate_control_list", <<b>>) :
          setting' = [gate |-> e.data[1], register |-> Assigned(b)[1],
                      duration |-> Assigned(b)[2], stamp |-> tasTs[Assigned(b)[1]]]
    BY <2>2 DEF ControlPacket
  <2>5. PICK i \in DOMAIN config.ports :
          e.key = <<FirstBatch(config, i)>> /\ e.data = <<config.ports[i].id>>
    BY <2>3, EntriesByTable DEF EntriesAt
  <2>6. /\ b = FirstBatch(config, i) /\ e.data[1] = config.ports[i].id
        /\ b \in Nat /\ b + 1 \in DOMAIN config.ports
        /\ config.ports[b + 1].id = config.ports[i].id
    <3>1. e.key = <<b>>
      BY DEF EntriesAt
    <3>2. b = FirstBatch(config, i)
      BY <2>5, <3>1
    <3> QED BY <2>3, <2>5, <3>2, FirstBatchIsOwn
  <2> DEFINE es == EntriesAt("batch_id_to_port", <<b>>)
             f == CHOOSE x \in es : TRUE
  <2>7. es # {}
    <3>1. b + 1 - 1 = b
      BY <2>6
    <3>2. Entry("batch_id_to_port", <<b>>, <<config.ports[b + 1].id, PortPeriod(config, b + 1)>>)
            \in tables
      BY <2>3, <2>6, <3>1, EntriesPresent
    <3> QED BY <3>2, EntryFields DEF EntriesAt
  <2>8. f \in es /\ Assigned(b) = f.data
    BY <2>7 DEF Assigned
  <2> HIDE DEF f
  <2>9. f.data = <<config.ports[b + 1].id, PortPeriod(config, b + 1)>>
    <3>1. f \in EntriesOf(config) /\ f.table = "batch_id_to_port" /\ f.key = <<b>>
      BY <2>3, <2>8 DEF EntriesAt
    <3>2. PICK j \in DOMAIN config.ports :
            f.key = <<j - 1>> /\ f.data = <<config.ports[j].id, PortPeriod(config, j)>>
      BY <2>3, <3>1, EntriesByTable
    <3>3. j \in Nat
      BY <2>3, ConfigTypes
    <3>4. b = j - 1
      BY <3>1, <3>2
    <3>5. b + 1 = j
      BY <2>6, <3>3, <3>4
    <3> QED BY <3>2, <3>5
  <2>10. PICK j \in DOMAIN config.ports : j = b + 1
    BY <2>6
  <2>11. /\ setting'.gate = config.ports[j].id /\ setting'.register = config.ports[j].id
         /\ setting'.duration = PortPeriod(config, j)
         /\ setting'.stamp = tasTs[config.ports[j].id]
    BY <2>4, <2>6, <2>8, <2>9, <2>10
  <2>12. OwnStamp(tasTs[config.ports[j].id], PortPeriod(config, j))
    <3>1. CASE tasTs[config.ports[j].id] = None
      BY <3>1 DEF OwnStamp
    <3>2. CASE tasTs[config.ports[j].id] # None
      <4>1. config.ports[j].id \in Port
        BY <2>3, ConfigTypes
      <4>2. PICK h \in DOMAIN config.ports :
              /\ config.ports[h].id = config.ports[j].id
              /\ OwnStamp(tasTs[config.ports[j].id], PortPeriod(config, h))
        BY <1>1, <3>2, <4>1 DEF IInv, StampsAreOwn
      <4>3. PortPeriod(config, h) = PortPeriod(config, j)
        BY <2>3, <4>2, StartupAssumption DEF PortPeriod
      <4> QED BY <4>2, <4>3
    <3> QED BY <3>1, <3>2
  <2> QED BY <2>11, <2>12
<1> QED BY <1>1, Inductive, PTL DEF Spec, SettingsAreOwn
=============================================================================
