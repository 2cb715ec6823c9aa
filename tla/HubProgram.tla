----------------------------- MODULE HubProgram -----------------------------
(***************************************************************************)
(* The hub program with what its hubs do before they serve: each opens the *)
(* UDP layer, which may wait for a network.  It implements the supervisor  *)
(* of module Supervisor, for which a hub opens in one step.                *)
(***************************************************************************)
EXTENDS Supervisor

CONSTANTS Ip, NoIp, IO_TIMEOUT

ASSUME UdpAssumption == NoIp \notin Ip /\ IO_TIMEOUT \in Nat \ {0}

VARIABLES
  iface, udp,   \* the network, and the layer in each hub
  named,        \* named[s]: the option -i names an interface
  met           \* has the computer ever been on the network?

INSTANCE UdpIo WITH Process <- Sup \X Pid

udpVars == <<iface, udp>>
programVars == <<vars, udpVars, named, met>>

ProgramInit ==
  /\ Init /\ UdpInit
  /\ named \in [Sup -> BOOLEAN]
  /\ met = (iface # NoIp)

-----------------------------------------------------------------------------
Ends(s, p) == hub'[s][p] = "zombie"

\* What a process has open goes with it.
WithLayer(s, p) == IF Ends(s, p) THEN CloseUdp(<<s, p>>) /\ UNCHANGED iface
                                 ELSE UNCHANGED udpVars

\* gxPLHubOpen up to its end: the process still counts as one that was just forked.
HubOpening(s, p) ==
  /\ hub[s][p] = "forked" /\ UdpOpening(<<s, p>>, named[s])
  /\ UNCHANGED vars

\* The layer is open, and the hub serves; or it has failed, and prvRunHub returns.
HubOpened(s, p) ==
  /\ \/ udp[<<s, p>>].at = "open" /\ HubOpens(s, p)
     \/ udp[<<s, p>>].at = "failed" /\ HubOpens(s, p) /\ Ends(s, p)
  /\ WithLayer(s, p)

\* A poll fails: select () or recvfrom (), but not when a signal interrupts the one or
\* nothing is left for the other.  A network that is gone does not make them fail.
HubPollFails(s, p) == HubDies(s, p) /\ WithLayer(s, p)

HubStopped(s, p) == HubTerminates(s, p) /\ WithLayer(s, p)

HubGoesOn(s, p) == HubOpening(s, p) \/ HubOpened(s, p) \/ HubStopped(s, p)

ProgramNext ==
  \/ /\ \E s \in Sup :
          \/ (Launch(s) \/ Signal(s) \/ SupervisorStep(s)) /\ UNCHANGED udpVars
          \/ \E p \in Pid : \/ HubGoesOn(s, p) \/ HubPollFails(s, p)
                            \/ SignalHub(s, p) /\ UNCHANGED udpVars
     /\ UNCHANGED <<named, met>>
  \/ IfaceChanges /\ met' = TRUE /\ UNCHANGED <<vars, named>>

\* Nobody has to bring the network back.
ProgramSpec ==
  /\ ProgramInit /\ [][ProgramNext]_programVars
  /\ \A s \in Sup :
       /\ WF_programVars(SupervisorStep(s) /\ UNCHANGED <<udpVars, named, met>>)
       /\ \A p \in Pid : WF_programVars(HubGoesOn(s, p) /\ UNCHANGED <<named, met>>)

-----------------------------------------------------------------------------
\* Type correctness of the layers.
UdpTypeOK ==
  /\ udp \in [Sup \X Pid -> Udp] /\ iface \in Ip \cup {NoIp}
  /\ named \in [Sup -> BOOLEAN] /\ met \in BOOLEAN

\* The program implements its abstraction: the opening of a hub, which may wait for a
\* network that never comes (prvMakeBroadcastConnection), ends for the supervisor in
\* one step, and always ends.
ImplementsSupervisor == FairSpec

\* "set the timeout at the opening of the io layer" (-W): on a computer that never
\* was on the network, a hub that has searched for one and ended by itself has
\* searched for the whole time (prvMakeBroadcastConnection) -- unless the system
\* refused to list the interfaces, which ends the search at any second of it.
SearchedToTheEnd ==
  \A s \in Sup, p \in Pid :
    /\ ~met /\ hub[s][p] \in {"zombie", "reaped"} /\ p \notin term[s]
    /\ ~udp[<<s, p>>].refused
    => udp[<<s, p>>].timeout \in {0, IO_TIMEOUT}
=============================================================================
