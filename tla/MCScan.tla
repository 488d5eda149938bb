------------------------------- MODULE MCScan -------------------------------
(***************************************************************************)
(* Model-checking harness for Scan: concrete configurations and the        *)
(* packets of strangers that pass the capture filter.                      *)
(***************************************************************************)
EXTENDS Scan

CONSTANTS
  FirstPorts,    \* first source ports tried
  STRANGER       \* a service of the target that was never probed

(* An identifier that wraps between the two echo requests.                 *)
MCConfigs == {[first |-> f, open |-> 80, closed |-> 81, ident |-> UINT16 - 1] :
                f \in FirstPorts}

(* A segment from another service of the target to a port of the scan, and *)
(* the answer to another program's ping.                                   *)
MCForeign ==
  {[proto |-> "TCP", src |-> TARGET_IP, dst |-> SOURCE_IP,
    src_port |-> STRANGER, dst_port |-> 1003],
   [proto |-> "ICMP", src |-> TARGET_IP, dst |-> SOURCE_IP,
    type |-> ICMP_ECHOREPLY, code |-> 0, id |-> 4242, seq |-> 1]}
=============================================================================
