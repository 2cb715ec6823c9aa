------------------------------ MODULE MCHubNet ------------------------------
EXTENDS HubNet

CONSTANTS a1, a2, d1, d2, i1, i2

OneDev   == {d1}
OneAppOf == [d \in OneDev |-> a1]
OneSeq   == [a \in {a1} |-> <<d1>>]
OneId    == [d \in OneDev |-> i1]
OneNewId == [d \in OneDev |-> Id]

TwoDevs  == {d1, d2}
TwoAppOf == [d \in TwoDevs |-> a1]
TwoSeq   == [a \in {a1} |-> <<d1, d2>>]
TwoIds   == [d \in TwoDevs |-> IF d = d1 THEN i1 ELSE i2]
TwoNewId == [d \in TwoDevs |-> {}]

ARequest == [kind |-> "request"]
AResponse(id, new, minutes) ==
  [kind |-> "response", target |-> id, newconf |-> new, interval |-> minutes]

Requests    == {ARequest}
Reconfigure == {AResponse(i1, i1, m) : m \in ConfMinutes}
RequestsAndReconfigure == Requests \cup Reconfigure

\* The run that loses nothing is one of those the theorem about OnlyTheDeadExpire
\* speaks of.
ASSUME TimelyRun == ~Lossy => Timely
=============================================================================
