-------------------------------- MODULE UdpIo --------------------------------
(***************************************************************************)
(* The layer "udp" (src/src/sys/unix/io_udp.c) in the processes of a       *)
(* computer: how it gets its two sockets, waits for a network, and reads.  *)
(* The interface of the computer comes and goes with its address; the      *)
(* sockets of the system are external.                                     *)
(***************************************************************************)
EXTENDS Naturals

CONSTANTS
  Process,
  Ip,          \* addresses the interface may get
  NoIp,        \* the interface is down
  IO_TIMEOUT   \* setting->iotimeout: DEFAULT_IO_TIMEMOUT, or the option -W

VARIABLES
  iface,   \* the address of the interface
  udp      \* udp[p]: the layer in the process p, its udp_data

Udp == [at : {"closed", "find", "connect", "open", "failed"},
        timeout : 0 .. IO_TIMEOUT, sockets : SUBSET {"ofd", "ifd"}, addr_list : SUBSET Ip,
        refused : BOOLEAN]

\* refused is a history for the properties: has the system refused the list of its
\* interfaces?
NoUdp ==
  [at |-> "closed", timeout |-> 0, sockets |-> {}, addr_list |-> {}, refused |-> FALSE]

UdpInit == iface \in Ip \cup {NoIp} /\ udp = [p \in Process |-> NoUdp]

Gets(p, u) == udp' = [udp EXCEPT ![p] = u]

-----------------------------------------------------------------------------
(* gxPLUdpOpen                                                             *)

Failed(u, left) == [u EXCEPT !.at = "failed", !.sockets = left]

\* prvMakeBroadcastConnection: the socket, and whether an interface was named.
OpenBroadcast(p, named) ==
  /\ udp[p].at = "closed"
  /\ \/ Gets(p, [NoUdp EXCEPT !.at = IF named THEN "connect" ELSE "find", !.sockets = {"ofd"}])
     \/ Gets(p, Failed(NoUdp, {}))
  /\ UNCHANGED iface

\* One look, and the second of sleep when no interface is up; after the last second
\* nobody looks again.
Looked(u, seconds) ==
  LET slept == [u EXCEPT !.timeout = @ + 1]
  IN  CASE iface # NoIp -> [u EXCEPT !.at = "connect"]
        [] iface = NoIp /\ slept.timeout < seconds -> slept
        [] OTHER -> Failed(slept, {})

\* The interfaces cannot be listed, with another error than ENONET.
Refused(u) == [Failed(u, {}) EXCEPT !.refused = TRUE]

\* Mutants: the search never ends, whatever the error, or ends a second too early or
\* too late.
FindForEver(p) ==
  /\ udp[p].at = "find" /\ iface # NoIp
  /\ Gets(p, [udp[p] EXCEPT !.at = "connect"])
  /\ UNCHANGED iface

FindTooShort(p) ==
  /\ udp[p].at = "find"
  /\ \E u \in {Looked(udp[p], IO_TIMEOUT - 1), Refused(udp[p])} : Gets(p, u)
  /\ UNCHANGED iface

FindTooLong(p) ==
  /\ udp[p].at = "find"
  /\ \E u \in {Looked(udp[p], IO_TIMEOUT + 1), Refused(udp[p])} : Gets(p, u)
  /\ UNCHANGED iface

\* prvFindDefaultIface, once: only ENONET makes the search go on.
FindDefaultIface(p) ==
  /\ udp[p].at = "find"
  /\ \E u \in {Looked(udp[p], IO_TIMEOUT), Refused(udp[p])} : Gets(p, u)
  /\ UNCHANGED iface

\* The address of the interface, without which the layer gives up at once.
HasAddress == iface # NoIp

\* prvMakeBindConnection: a second socket, on the xPL port or on any other.
MakeBindConnection(u) == {[u EXCEPT !.sockets = {"ofd", "ifd"}], Failed(u, {})}

\* prvBuildLocalIpList: the addresses of this moment; a failure leaves both sockets.
BuildLocalIpList(u) ==
  {[u EXCEPT !.at = "open", !.addr_list = {iface}], Failed(u, u.sockets)}

\* The rest of the opening, which waits for nothing.
Connect(p) ==
  /\ udp[p].at = "connect"
  /\ IF HasAddress
       THEN \E u \in MakeBindConnection(udp[p]) :
              \E v \in IF u.at = "failed" THEN {u} ELSE BuildLocalIpList(u) : Gets(p, v)
       ELSE Gets(p, Failed(udp[p], {}))
  /\ UNCHANGED iface

UdpOpening(p, named) == OpenBroadcast(p, named) \/ FindDefaultIface(p) \/ Connect(p)

\* gxPLUdpClose, or the end of the process.  How the search went is kept for the
\* properties.
CloseUdp(p) == Gets(p, [NoUdp EXCEPT !.timeout = udp[p].timeout, !.refused = udp[p].refused])

-----------------------------------------------------------------------------
(* The network of the computer: the interface goes up and down, and may    *)
(* come back with another address.                                         *)
IfaceChanges ==
  /\ iface' \in (Ip \cup {NoIp}) \ {iface}
  /\ UNCHANGED udp
=============================================================================
