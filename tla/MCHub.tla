------------------------------- MODULE MCHub -------------------------------
(***************************************************************************)
(* Three local addresses: a sweep that removes a client skips the next and *)
(* reaches a third.  One of them has a socket in the model, the heartbeats *)
(* of the others come from the Manager, as do those of a remote address.   *)
(***************************************************************************)
EXTENDS HubAlone

CONSTANTS a1, a2, a3, remote, d1

MCLocal == {a1, a2, a3}
MCAddr  == MCLocal \cup {remote}

Beat(kind, a) ==
  [kind |-> kind, class |-> "hbeat", id |-> d1, addr |-> a, interval |-> 0]

MCBroadcasts == {Beat("app", a) : a \in MCAddr} \cup {Beat("end", a) : a \in MCLocal}
=============================================================================
