------------------------------ MODULE Network ------------------------------
(***************************************************************************)
(* The datagram layer between the xPL applications of one computer and its *)
(* hub, as the UDP layer of the library uses it (src/src/sys/unix/io_udp.c *)
(* over the socket calls of the system).                                   *)
(*                                                                         *)
(* Every sender has a FIFO of its own towards the hub (port 3865), so the  *)
(* datagrams of two senders may overtake each other; every application has *)
(* a FIFO filled by the hub only.  A socket buffer holds QueueLen          *)
(* datagrams: what does not fit is dropped.  With Lossy, any datagram may  *)
(* be lost.                                                                *)
(***************************************************************************)
EXTENDS Naturals, Sequences

CONSTANTS
  App,       \* addresses (ip and port) of the applications of this computer
  Manager,   \* the rest of the network, seen as one sender
  Addr,      \* every address a heartbeat may carry
  Id,        \* device identifiers vendor-device.instance
  QueueLen,  \* bound: datagrams a socket buffer holds
  Lossy,     \* may datagrams be lost?
  Minute,    \* 60 seconds, in ticks of the clock
  MaxAge     \* bound: ages (now - hbeat_last) saturate here

ASSUME NetworkAssumption ==
  /\ App \subseteq Addr
  /\ Manager \notin App
  /\ QueueLen \in Nat \ {0}
  /\ Lossy \in BOOLEAN
  /\ Minute \in Nat \ {0}
  /\ MaxAge \in Nat

VARIABLES
  toHub,     \* toHub[s]: datagrams on their way from s to the hub
  toApp      \* toApp[a]: datagrams queued on the socket of application a

\* A tick makes an age older, up to the bound.
Older(age) == IF age < MaxAge THEN age + 1 ELSE age

Sender == App \cup {Manager}

(***************************************************************************)
(* Messages, cut down to what the components read.  "app" and "end" are    *)
(* the hbeat/config heartbeats, "request" is the broadcast hbeat.request   *)
(* command, "response" the config.response command sent to one device.     *)
(***************************************************************************)
HeartbeatMsg == [kind : {"app", "end"}, class : {"hbeat", "config"},
                 id : Id, addr : Addr, interval : Nat]
RequestMsg   == [kind : {"request"}]
ResponseMsg  == [kind : {"response"}, target : Id, newconf : Id, interval : Nat]
OtherMsg     == [kind : {"other"}]
Msg   == HeartbeatMsg \cup RequestMsg \cup ResponseMsg \cup OtherMsg
NoMsg == [kind |-> "none"]

\* A socket buffer q after the datagrams out reached it: the newest are dropped.
Push(q, out) ==
  IF Len(q) + Len(out) <= QueueLen THEN q \o out ELSE SubSeq(q \o out, 1, QueueLen)

\* s broadcasts the datagrams out.
Broadcast(s, out) == toHub' = [toHub EXCEPT ![s] = Push(@, out)]

\* A datagram disappears on its way to the hub, or in front of an application.
LoseToHub(s) ==
  /\ toHub[s] # << >>
  /\ toHub' = [toHub EXCEPT ![s] = Tail(@)]
  /\ UNCHANGED toApp

LoseToApp(a) ==
  /\ toApp[a] # << >>
  /\ toApp' = [toApp EXCEPT ![a] = Tail(@)]
  /\ UNCHANGED toHub

NetworkInit ==
  /\ toHub = [s \in Sender |-> << >>]
  /\ toApp = [a \in App |-> << >>]

NetworkTypeOK ==
  /\ toHub \in [Sender -> Seq(Msg)]
  /\ toApp \in [App -> Seq(Msg)]
=============================================================================
