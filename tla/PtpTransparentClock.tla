------------------------- MODULE PtpTransparentClock -------------------------
(***************************************************************************)
(* A slave behind the switch exchanges PTP messages with the master, and   *)
(* the switch corrects them for the time they spend in it: the tables      *)
(* ingress.ptp_c.ptp and egress.ptp with the entries populate_ptp_table    *)
(* (libs/ptp.rs) writes.  Ingress subtracts the time of arrival from the   *)
(* correction field; the MAC adds the time of departure (ts6).             *)
(***************************************************************************)
EXTENDS Integers

CONSTANTS SlaveOffset,   \* the slave's clock is this far ahead
          LinkDelay,     \* of the two links, in either direction
          Residence,     \* possible times of a message in the switch
          None

VARIABLES now,     \* the time of the master and of the switch
          msg,     \* the message on its way, and whether it is in the switch
          master,  \* when the master sent its Sync
          slave    \* what the slave has noted, and the offset it gets in the end

vars == <<now, msg, master, slave>>

Message(type, identity, to, cf, time) ==
    [type |-> type, clock_identity |-> identity, egress_port |-> to,
     cf |-> cf, time |-> time, inside |-> FALSE]

\* The entries of the two tables, by message type, clock identity and port.
WriteIngressTs == {<<"Follow_Up", "master">>, <<"Delay_Req", "slave">>, <<"Delay_Resp", "master">>}
EnableTs6 == {<<"Follow_Up", "master", "slave">>, <<"Delay_Req", "slave", "master">>,
              <<"Delay_Resp", "master", "slave">>}
TstampCapture == {<<"Delay_Req", "self", "master">>}

\* The master sends its Sync.
Init ==
    /\ now = 0
    /\ msg = Message("Sync", "master", "slave", 0, 0)
    /\ master = [t1 |-> 0]
    /\ slave = [t2 |-> None, t1 |-> None, cf_followup |-> None, t3 |-> None,
                offset |-> None]

\* write_ingress_ts_to_correction_field; add_ingress_ts and a miss leave the
\* field alone.
IngressPtp ==
    /\ msg # None /\ ~msg.inside
    /\ now' = now + LinkDelay
    /\ msg' = [msg EXCEPT
         !.inside = TRUE,
         !.cf = IF <<msg.type, msg.clock_identity>> \in WriteIngressTs THEN @ - now' ELSE @]
    /\ UNCHANGED <<master, slave>>

\* What egress.ptp and the MAC make of the correction field: enable_ts6,
\* enable_tstamp_capture, or the default reset_cf.
EgressCf(departure) ==
    LET key == <<msg.type, msg.clock_identity, msg.egress_port>>
    IN IF key \in EnableTs6 THEN msg.cf + departure
       ELSE IF key \in TstampCapture THEN msg.cf
       ELSE 0

SlaveTime == now' + SlaveOffset

\* The slave notes the times of an exchange; Follow_Up makes it send Delay_Req.
SlaveReceives(cf) ==
    \/ /\ msg.type = "Sync"
       /\ slave' = [slave EXCEPT !.t2 = SlaveTime]
       /\ msg' = Message("Follow_Up", "master", "slave", 0, master.t1)
    \/ /\ msg.type = "Follow_Up"
       /\ slave' = [slave EXCEPT !.t1 = msg.time, !.cf_followup = cf, !.t3 = SlaveTime]
       /\ msg' = Message("Delay_Req", "slave", "master", 0, None)
    \/ /\ msg.type = "Delay_Resp"
       /\ LET forth == slave.t2 - slave.t1 - slave.cf_followup
              back == msg.time - slave.t3 - cf
          IN slave' = [slave EXCEPT !.offset = (forth - back) \div 2]
       /\ msg' = None

\* The master answers Delay_Req; the correction field is handed back.
MasterReceives(cf) ==
    /\ msg.type = "Delay_Req"
    /\ msg' = Message("Delay_Resp", "master", "slave", cf, now')
    /\ UNCHANGED slave

\* A message leaves the switch and arrives.
EgressPtp ==
    /\ msg # None /\ msg.inside
    /\ \E r \in Residence :
         /\ now' = now + r + LinkDelay
         /\ SlaveReceives(EgressCf(now + r)) \/ MasterReceives(EgressCf(now + r))
    /\ UNCHANGED master

Next == IngressPtp \/ EgressPtp

Spec == Init /\ [][Next]_vars
-----------------------------------------------------------------------------
\* For a slave behind a transparent clock the time in the switch does not
\* exist: it measures the offset of its own clock.
TransparentClock == slave.offset # None => slave.offset = SlaveOffset
=============================================================================
