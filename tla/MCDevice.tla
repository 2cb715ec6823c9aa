------------------------------ MODULE MCDevice ------------------------------
EXTENDS DeviceAlone

CONSTANTS a1, d1, d2, i1, i2, i3

OneDev   == {d1}
OneAppOf == [d \in OneDev |-> a1]
OneSeq   == [a \in {a1} |-> <<d1>>]
OneId    == [d \in OneDev |-> i1]
OneNewId == [d \in OneDev |-> {i1, i2}]

\* d1 may become i2, d2 stays i3: no two devices share an identifier.
TwoDevs  == {d1, d2}
TwoAppOf == [d \in TwoDevs |-> a1]
TwoSeq   == [a \in {a1} |-> <<d1, d2>>]
TwoIds   == [d \in TwoDevs |-> IF d = d1 THEN i1 ELSE i3]
TwoNewId == [d \in TwoDevs |-> IF d = d1 THEN {i1, i2} ELSE {}]

\* Echoes of the hub are left to MCHubNet: they change none of what is kept here.
ARequest == [kind |-> "request"]
Responses ==
  {[kind |-> "response", target |-> i, newconf |-> n, interval |-> m] :
     i \in {i1, i2}, n \in {i1, i2}, m \in ConfMinutes}

Anything     == {ARequest} \cup Responses
JustRequests == {ARequest}
=============================================================================
