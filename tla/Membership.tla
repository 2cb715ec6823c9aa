----------------------------- MODULE Membership -----------------------------
(***************************************************************************)
(* What a hub promises, whatever table it keeps: the registered            *)
(* applications, each with the silence it is granted (period) and the time *)
(* since it was last heard (idle).  The datagrams it consumes and whether  *)
(* it runs are its interface.  An application enters or is refreshed by a  *)
(* heartbeat that names it, and goes because its goodbye was heard, because *)
(* it was silent for longer than granted, or because the hub stopped; for  *)
(* no other reason.                                                        *)
(***************************************************************************)
EXTENDS Network

CONSTANT Local   \* the addresses of the computer of the hub

VARIABLES
  up,        \* does the hub run?
  reg        \* a function from the registered addresses to their state

\* The silence granted to an application that promised a beat every i minutes.
Grace(i) == i * Minute * 2 + Minute

Registered == DOMAIN reg
Overdue(a) == a \in Registered /\ reg[a].idle > reg[a].period

MembershipInit == reg = << >>

\* The running hub takes the oldest datagram of s.
Takes(s) == /\ up
            /\ toHub[s] # << >>
            /\ toHub' = [toHub EXCEPT ![s] = Tail(@)]

Drop(a) == reg' = [b \in Registered \ {a} |-> reg[b]]

Announce(s, a) ==
  /\ Takes(s)
  /\ Head(toHub[s]).kind = "app"
  /\ Head(toHub[s]).addr = a
  /\ reg' = [b \in Registered \cup {a} |->
               IF b = a THEN [period |-> Grace(Head(toHub[s]).interval), idle |-> 0]
                        ELSE reg[b]]

Leave(s, a) ==
  /\ Takes(s)
  /\ Head(toHub[s]).kind = "end"
  /\ Head(toHub[s]).addr = a
  /\ Drop(a)

Expire(a) == Overdue(a) /\ Drop(a)

Pass == reg' = [a \in Registered |-> [reg[a] EXCEPT !.idle = Older(@)]]

Stop == up /\ ~up' /\ reg' = << >>

MembershipNext ==
  \/ \E a \in Local : \/ \E s \in Sender : Announce(s, a) \/ Leave(s, a)
                      \/ Expire(a)
  \/ Pass
  \/ Stop

MembershipSpec == MembershipInit /\ [][MembershipNext]_reg

\* An application that has been silent for too long does not stay so forever.
EventuallyExpired == \A a \in Local : Overdue(a) ~> ~Overdue(a)
=============================================================================
