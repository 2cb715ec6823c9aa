---------------------------- MODULE BridgeProofs ----------------------------
(***************************************************************************)
(* Proofs about the bridge between its networks, for every set of devices, *)
(* radio modules and outside messages, every limit of hops and every bound.*)
(***************************************************************************)
EXTENDS BridgeNet, SequenceLemmas

-----------------------------------------------------------------------------
(* The inductive invariant.                                                *)

\* What a device inside says: it speaks for itself, and nobody has relayed it.
Spoken == {m \in Message : m.src \in Id /\ m.hop = 1}

\* What comes from outside in the name of a device inside has crossed the bridge.
Crossed == {m \in Message : m.src \in Id => m.hop >= 2}

\* What the radio modules may hear of the devices inside when one hop is the limit.
Heard == {m \in Message : MaxHop = 1 /\ m.src \in Id => m.hop = 1}

LinksOK ==
  /\ toIn \in Seq(Spoken)
  /\ toOut \in Seq(Crossed)
  /\ toNode \in [Place -> SUBSET Heard]

\* The bridge, its table and the devices, without the links.
StateOK ==
  /\ up \in BOOLEAN
  /\ clients \in Seq(Client)
  /\ broadcast \in BOOLEAN /\ allow \in SUBSET Schema
  /\ turn \in {"in", "out"}
  /\ polls \in 0 .. SweepPolls - 1
  /\ sweep \in 0 .. Len(clients) + 2
  /\ on \in [Id -> BOOLEAN] /\ where \in [Id -> Place] /\ mute \in [Id -> BOOLEAN]

IInv == StateOK /\ LinksOK

-----------------------------------------------------------------------------
(* Lemmas about the operators of the model.                                *)

\* A link holds messages of its kind, whatever is pushed into it.
LEMMA PushType ==
  ASSUME NEW S, NEW q \in Seq(S), NEW m \in S
  PROVE  Push(q, m) \in Seq(S)
BY AppendProperties DEF Push

\* Taking the first message of a link leaves messages of its kind.
LEMMA TakeType ==
  ASSUME NEW S, NEW q \in Seq(S), q # << >>
  PROVE  Head(q) \in S /\ Tail(q) \in Seq(S)
BY HeadTailProperties

\* The radio sends one message to some modules, and nothing to the others.
LEMMA RadioType ==
  ASSUME NEW S, NEW places, NEW m, RadioSend(m, places),
         places \cap Place # {} => m \in S
  PROVE  toNode' \in [Place -> SUBSET S]
BY DEF RadioSend

\* A silent radio sends nothing of any kind.
LEMMA SilenceType ==
  ASSUME NEW S
  PROVE  Silence \in [Place -> SUBSET S]
BY DEF Silence

\* The longest time a client may be silent is a number of ticks.
LEMMA PeriodType ==
  ASSUME NEW m \in Message
  PROVE  Period(m) \in Nat
<1>1. m.interval \in Nat /\ Minute \in Nat
  BY BridgeAssumption DEF Message
<1> QED  BY <1>1 DEF Period

\* A message that crosses the bridge is a message with one hop more.
LEMMA HopCounted ==
  ASSUME NEW m \in Message
  PROVE  LET crossed == [m EXCEPT !.hop = @ + 1]
         IN  crossed \in Message /\ crossed.src = m.src /\ crossed.hop = m.hop + 1
BY DEF Message

\* What the links may carry are messages.
LEMMA LinksCarryMessages ==
  ASSUME NEW spoken \in Seq(Spoken), NEW crossed \in Seq(Crossed),
         NEW heard \in [Place -> SUBSET Heard]
  PROVE  /\ spoken \in Seq(Message) /\ crossed \in Seq(Message)
         /\ heard \in [Place -> SUBSET Message]
<1>1. Spoken \subseteq Message /\ Crossed \subseteq Message /\ Heard \subseteq Message
  BY DEF Spoken, Crossed, Heard
<1>2. spoken \in Seq(Message) /\ crossed \in Seq(Message)
  BY <1>1, SeqMonotonic
<1>3. heard \in [Place -> SUBSET Message]
  BY <1>1
<1> QED  BY <1>2, <1>3

-----------------------------------------------------------------------------
(* Type correctness.                                                       *)

\* A slot made of what a device says is a client.
LEMMA SlotType ==
  ASSUME NEW m \in Spoken
  PROVE  [id |-> m.src, place |-> m.place, hbeat_period_max |-> Period(m), idle |-> 0]
           \in Client
<1>1. m \in Message /\ m.src \in Id /\ m.place \in Place \cup {NoPlace}
  BY DEF Spoken, Message
<1>2. Period(m) \in Nat /\ 0 \in 0 .. MaxAge
  BY <1>1, PeriodType, BridgeAssumption
<1> QED  BY <1>1, <1>2 DEF Client

\* A refreshed slot is a client, with the identifier and the address it had.
LEMMA RefreshedSlotType ==
  ASSUME NEW c \in Client, NEW m \in Spoken
  PROVE  LET new == [c EXCEPT !.hbeat_period_max = Period(m), !.idle = 0]
         IN  new \in Client /\ new.id = c.id /\ new.place = c.place
<1>1. Period(m) \in Nat /\ 0 \in 0 .. MaxAge
  BY PeriodType, BridgeAssumption DEF Spoken
<1> QED  BY <1>1 DEF Client

\* The vector after a refresh: one slot has new contents.
LEMMA RefreshChangesOne ==
  ASSUME clients \in Seq(Client), NEW m \in Spoken, RefreshClient(m)
  PROVE  \E i \in 1 .. Len(clients) : \E c \in Client :
           /\ clients' = [clients EXCEPT ![i] = c]
           /\ c.id = clients[i].id /\ c.place = clients[i].place
<1>1. DOMAIN clients = 1 .. Len(clients)
  BY LenProperties
<1>2. PICK i \in DOMAIN clients :
        clients' = [clients EXCEPT ![i].hbeat_period_max = Period(m), ![i].idle = 0]
  BY DEF RefreshClient
<1> DEFINE c == [clients[i] EXCEPT !.hbeat_period_max = Period(m), !.idle = 0]
<1>3. clients[i] \in Client
  BY <1>1, ElementOfSeq
<1>4. c \in Client /\ c.id = clients[i].id /\ c.place = clients[i].place
  BY <1>3, RefreshedSlotType
<1>5. clients' = [clients EXCEPT ![i] = c]
  BY <1>2
<1> QED  BY <1>1, <1>4, <1>5

\* What a message from inside makes of the table is a table.
LEMMA TableType ==
  ASSUME clients \in Seq(Client), NEW m \in Spoken, UpdateClients(m)
  PROVE  clients' \in Seq(Client)
<1>1. CASE AddClient(m)
  BY <1>1, SlotType, AppendProperties DEF AddClient
<1>2. CASE RefreshClient(m)
  BY <1>2, RefreshChangesOne, ExceptSeq
<1>3. CASE RemoveClient(m)
  <2>1. ASSUME NEW i \in DOMAIN clients
        PROVE  RemoveAt(clients, i) \in Seq(Client)
    BY RemoveAtShifts, LenProperties
  <2> QED  BY <1>3, <2>1 DEF RemoveClient
<1>4. CASE UNCHANGED clients
  BY <1>4
<1> QED  BY <1>1, <1>2, <1>3, <1>4 DEF UpdateClients

\* A tick leaves the slots, each with its identifier and address.
LEMMA TickKeepsSlots ==
  ASSUME clients \in Seq(Client), BridgeTick
  PROVE  /\ clients' \in Seq(Client) /\ Len(clients') = Len(clients)
         /\ \A i \in 1 .. Len(clients) :
              clients'[i].id = clients[i].id /\ clients'[i].place = clients[i].place
<1>0. Len(clients) \in Nat /\ DOMAIN clients = 1 .. Len(clients)
  BY LenProperties
<1> DEFINE new(i) == [clients[i] EXCEPT !.idle = Older(@)]
<1>1. ASSUME NEW i \in 1 .. Len(clients)
      PROVE  new(i) \in Client /\ new(i).id = clients[i].id /\ new(i).place = clients[i].place
  <2>1. clients[i] \in Client
    BY ElementOfSeq
  <2>2. Older(clients[i].idle) \in 0 .. MaxAge
    BY <2>1, BridgeAssumption DEF Older, Client
  <2> QED  BY <2>1, <2>2 DEF Client
<1>2. clients' = [i \in 1 .. Len(clients) |-> new(i)]
  BY <1>0 DEF BridgeTick
<1> HIDE DEF new
<1> QED  BY <1>0, <1>1, <1>2

\* Counting a poll leaves the counter below its bound and starts the sweep at
\* the first client, or not at all.
LEMMA CountPollType ==
  ASSUME polls \in 0 .. SweepPolls - 1, CountPoll
  PROVE  polls' \in 0 .. SweepPolls - 1 /\ sweep' \in {0, 1}
BY BridgeAssumption DEF CountPoll

\* The kinds of the messages when m crosses to the outside: it is heard inside as
\* it was said, and has one hop more outside.
LEMMA OutwardKinds ==
  ASSUME LinksOK, NEW m \in Spoken, EchoInside(m), CrossOut(m)
  PROVE  toOut' \in Seq(Crossed) /\ toNode' \in [Place -> SUBSET Heard]
<1> DEFINE crossed == [m EXCEPT !.hop = @ + 1]
<1>1. m \in Message /\ m \in Heard /\ m.hop = 1
  BY DEF Spoken, Heard
<1>2. crossed \in Crossed
  <2>1. crossed \in Message /\ crossed.hop = m.hop + 1
    BY <1>1, HopCounted
  <2> HIDE DEF crossed
  <2> QED  BY <1>1, <2>1 DEF Crossed
<1>3. toOut' \in Seq(Crossed)
  BY <1>2, PushType DEF CrossOut, LinksOK
<1>4. ASSUME NEW places, RadioSend(m, places)
      PROVE  toNode' \in [Place -> SUBSET Heard]
  BY <1>1, <1>4, RadioType
<1> QED  BY <1>3, <1>4 DEF EchoInside

\* The kinds of the messages when m crosses to the inside: with one hop allowed,
\* what was said inside and has crossed before does not pass.
LEMMA InwardKinds ==
  ASSUME NEW m \in Crossed, CrossIn(m)
  PROVE  toNode' \in [Place -> SUBSET Heard]
<1> DEFINE crossed == [m EXCEPT !.hop = @ + 1]
           wanted == {p \in Place : broadcast \/ \E c \in ToSet(clients) : c.place = p /\ Wants(c, m)}
<1>1. /\ m \in Message /\ m.hop \in Nat /\ (m.src \in Id => m.hop >= 2)
      /\ crossed \in Message /\ crossed.src = m.src
  BY HopCounted DEF Crossed, Message
<1>2. RadioSend(crossed, IF m.hop <= MaxHop THEN wanted ELSE {})
  BY DEF CrossIn
<1> HIDE DEF crossed, wanted
<1>3. CASE m.hop <= MaxHop
  <2>1. ~(MaxHop = 1 /\ crossed.src \in Id)
    BY <1>1, <1>3
  <2>2. crossed \in Heard
    BY <1>1, <2>1 DEF Heard
  <2> QED  BY <1>2, <2>2, RadioType
<1>4. CASE ~(m.hop <= MaxHop)
  BY <1>2, <1>4, RadioType
<1> QED  BY <1>3, <1>4

\* What a device says is of the kind that the links inside carry.
LEMMA FromInsideKind ==
  ASSUME StateOK, NEW d \in Id, NEW schema \in Schema
  PROVE  FromInside(d, schema) \in Spoken
<1>1. (IF schema = "basic" /\ ~mute[d] THEN where[d] ELSE NoPlace) \in Place \cup {NoPlace}
  BY DEF StateOK
<1>2. FromInside(d, schema) \in Message
  BY <1>1 DEF FromInside, Message
<1>3. FromInside(d, schema).src = d /\ FromInside(d, schema).hop = 1
  BY DEF FromInside
<1> QED  BY <1>2, <1>3 DEF Spoken

\* The steps of the bridge.
LEMMA BridgeStepInductive ==
  ASSUME IInv, UNCHANGED devices,
         BridgeStep \/ BridgeCrash \/ BridgeStart \/ BridgeTick
  PROVE  IInv'
<1> USE DEF IInv
<1>0. /\ Len(clients) \in Nat /\ DOMAIN clients = 1 .. Len(clients)
      /\ 0 \in 0 .. SweepPolls - 1
      /\ \A S : << >> \in Seq(S)
  BY LenProperties, BridgeAssumption, EmptySeq DEF StateOK
<1>1. CASE PollInMessage
  <2> DEFINE m == Head(toIn)
  <2>1. m \in Spoken /\ toIn' \in Seq(Spoken)
    BY <1>1, TakeType DEF PollInMessage, LinksOK
  <2>2. toOut' \in Seq(Crossed) /\ toNode' \in [Place -> SUBSET Heard]
    BY <1>1, <2>1, OutwardKinds DEF PollInMessage
  <2>3. clients' \in Seq(Client)
    BY <1>1, <2>1, TableType DEF PollInMessage, StateOK
  <2>4. sweep' = 0 /\ sweep' \in 0 .. Len(clients') + 2
    BY <1>1, <2>3, LenProperties DEF PollInMessage
  <2> QED
    BY <1>1, <2>1, <2>2, <2>3, <2>4 DEF PollInMessage, StateOK, LinksOK, devices
<1>2. CASE PollInIdle
  BY <1>2, SilenceType DEF PollInIdle, StateOK, LinksOK, devices
<1>3. CASE PollOutMessage
  <2> DEFINE m == Head(toOut)
  <2>1. m \in Crossed /\ toOut' \in Seq(Crossed)
    BY <1>3, TakeType DEF PollOutMessage, LinksOK
  <2>2. toIn' \in Seq(Spoken) /\ toNode' \in [Place -> SUBSET Heard]
    BY <1>0, <1>3, <2>1, InwardKinds, SilenceType
       DEF PollOutMessage, Configure, NewNetwork, LinksOK
  <2>3. broadcast' \in BOOLEAN /\ allow' \in SUBSET Schema
    BY <1>3, BridgeAssumption DEF PollOutMessage, Configure, StateOK
  <2>4. polls' \in 0 .. SweepPolls - 1 /\ sweep' \in {0, 1}
    BY <1>3, CountPollType DEF PollOutMessage, StateOK
  <2>5. sweep' \in 0 .. Len(clients) + 2
    BY <1>0, <2>4
  <2> QED
    BY <1>3, <2>1, <2>2, <2>3, <2>4, <2>5 DEF PollOutMessage, StateOK, LinksOK, devices
<1>4. CASE PollOutIdle
  <2>1. polls' \in 0 .. SweepPolls - 1 /\ sweep' \in {0, 1}
    BY <1>4, CountPollType DEF PollOutIdle, StateOK
  <2>2. sweep' \in 0 .. Len(clients) + 2
    BY <1>0, <2>1
  <2> QED
    BY <1>4, <2>1, <2>2, SilenceType DEF PollOutIdle, StateOK, LinksOK, devices
<1>5. CASE SweepStep
  <2>1. clients' \in Seq(Client)
    BY <1>0, <1>5, RemoveAtShifts DEF SweepStep, StateOK
  <2>2. sweep' \in 0 .. Len(clients') + 2
    <3>1. sweep \in 1 .. Len(clients) /\ sweep' = sweep + 1
      BY <1>0, <1>5 DEF SweepStep
    <3>2. Len(clients') = Len(clients) \/ Len(clients') = Len(clients) - 1
      BY <1>0, <1>5, RemoveAtShifts DEF SweepStep, StateOK
    <3>3. \A n, k \in Nat : \A i \in 1 .. n :
            (k = n \/ k = n - 1) => i + 1 \in 0 .. k + 2
      OBVIOUS
    <3>4. Len(clients') \in Nat
      BY <2>1, LenProperties
    <3> QED  BY <1>0, <3>1, <3>2, <3>3, <3>4
  <2> QED
    BY <1>5, <2>1, <2>2 DEF SweepStep, StateOK, LinksOK, links, devices
<1>6. CASE SweepEnd
  BY <1>0, <1>6 DEF SweepEnd, StateOK, LinksOK, links, devices
<1>7. CASE BridgeCrash
  <2>1. clients' \in Seq(Client) /\ Len(clients') = 0
    BY <1>7, EmptySeq DEF BridgeCrash
  <2>2. sweep' \in 0 .. Len(clients') + 2
    BY <1>7, <2>1 DEF BridgeCrash
  <2> QED
    BY <1>0, <1>7, <2>1, <2>2, SilenceType DEF BridgeCrash, StateOK, LinksOK, devices
<1>8. CASE BridgeStart
  BY <1>0, <1>8 DEF BridgeStart, StateOK, LinksOK, devices
<1>9. CASE BridgeTick
  <2>1. clients' \in Seq(Client) /\ Len(clients') = Len(clients)
    BY <1>9, TickKeepsSlots DEF StateOK
  <2>2. sweep' \in 0 .. Len(clients') + 2
    BY <1>9, <2>1 DEF BridgeTick, StateOK
  <2> QED
    BY <1>9, <2>1, <2>2 DEF BridgeTick, StateOK, LinksOK, links, devices
<1> QED
  BY <1>1, <1>2, <1>3, <1>4, <1>5, <1>6, <1>7, <1>8, <1>9 DEF BridgeStep

\* The steps of the devices and of the network between them and the bridge.
LEMMA WorldStepInductive ==
  ASSUME IInv,
         \/ \E d \in Id : \/ \E schema \in {"basic", "sensor"} : NodeSends(d, schema)
                          \/ NodeStarts(d) \/ NodeStops(d)
         \/ OutsideSends \/ LoseIn \/ LoseOut
  PROVE  IInv'
<1> USE DEF IInv
<1>1. ASSUME NEW d \in Id, NEW schema \in Schema, Send(d, schema)
      PROVE  toIn' \in Seq(Spoken)
  BY <1>1, FromInsideKind, PushType DEF Send, LinksOK
<1>2. ASSUME NEW d \in Id, NEW schema \in {"basic", "sensor"}, NodeSends(d, schema)
      PROVE  IInv'
  <2>1. toIn' \in Seq(Spoken)
    BY <1>1, <1>2 DEF NodeSends, Schema
  <2> QED  BY <1>2, <2>1 DEF NodeSends, StateOK, LinksOK, bridgeState, devices
<1>3. ASSUME NEW d \in Id, NodeStarts(d)
      PROVE  IInv'
  BY <1>3 DEF NodeStarts, StateOK, LinksOK, bridgeVars
<1>4. ASSUME NEW d \in Id, NodeStops(d)
      PROVE  IInv'
  <2>1. toIn' \in Seq(Spoken)
    BY <1>1, <1>4 DEF NodeStops, LinksOK, Schema
  <2> QED  BY <1>4, <2>1 DEF NodeStops, StateOK, LinksOK, bridgeState
<1>5. CASE OutsideSends
  <2>1. Outside \subseteq Crossed
    BY BridgeNetAssumption DEF Crossed
  <2>2. toOut' \in Seq(Crossed)
    BY <1>5, <2>1, AppendProperties DEF OutsideSends, LinksOK
  <2> QED  BY <1>5, <2>2 DEF OutsideSends, StateOK, LinksOK, bridgeState, devices
<1>6. CASE LoseIn
  <2>1. toIn' \in Seq(Spoken)
    BY <1>6, TakeType DEF LoseIn, LinksOK
  <2> QED  BY <1>6, <2>1 DEF LoseIn, StateOK, LinksOK, bridgeState, devices
<1>7. CASE LoseOut
  <2>1. toOut' \in Seq(Crossed)
    BY <1>7, TakeType DEF LoseOut, LinksOK
  <2> QED  BY <1>7, <2>1 DEF LoseOut, StateOK, LinksOK, bridgeState, devices
<1> QED  BY <1>2, <1>3, <1>4, <1>5, <1>6, <1>7

\* The bridge and its links keep their kinds, forever.
LEMMA Invariance == Spec => []IInv
<1>1. Init => IInv
  <2> SUFFICES ASSUME Init
               PROVE  IInv
    OBVIOUS
  <2>1. /\ \A S : << >> \in Seq(S)
        /\ Len(<< >>) = 0
    BY EmptySeq
  <2>2. LinksOK
    BY <2>1, SilenceType DEF Init, BridgeInit, LinksOK
  <2>3. clients \in Seq(Client) /\ Len(clients) = 0 /\ sweep = 0 /\ polls = 0
    BY <2>1 DEF Init, BridgeInit
  <2>4. sweep \in 0 .. Len(clients) + 2 /\ polls \in 0 .. SweepPolls - 1
    BY <2>3, BridgeAssumption
  <2>5. StateOK
    BY <2>3, <2>4 DEF Init, BridgeInit, StateOK, Schema
  <2> QED  BY <2>2, <2>5 DEF IInv
<1>2. IInv /\ [Next]_vars => IInv'
  <2> SUFFICES ASSUME IInv, [Next]_vars
               PROVE  IInv'
    OBVIOUS
  <2>1. CASE Next
    BY <2>1, BridgeStepInductive, WorldStepInductive DEF Next
  <2>2. CASE UNCHANGED vars
    BY <2>2 DEF vars, IInv, StateOK, LinksOK
  <2> QED  BY <2>1, <2>2
<1> QED  BY <1>1, <1>2, PTL DEF Spec

\* The bridge keeps its table, its counters and its links well typed, forever.
THEOREM BridgeTypeCorrect == Spec => []BridgeTypeOK
<1>1. IInv => BridgeTypeOK
  BY LinksCarryMessages DEF IInv, StateOK, LinksOK, BridgeTypeOK
<1> QED  BY <1>1, Invariance, PTL

-----------------------------------------------------------------------------
(* No reflection.                                                          *)

\* With a limit of one hop, a radio module never hears from the bridge what was
\* said inside and came back from the hub outside: every message there that has
\* a source inside has two hops already.
THEOREM NoReflectionHolds == Spec => []NoReflection
<1>1. IInv => NoReflection
  BY DEF IInv, LinksOK, Heard, NoReflection
<1> QED  BY <1>1, Invariance, PTL

-----------------------------------------------------------------------------
(***************************************************************************)
(* One slot per device and place.  The facts are about any sequence cs of  *)
(* clients, so that they hold of clients and of clients' alike.            *)
(***************************************************************************)
Apart(cs) == \A i, j \in DOMAIN cs : Matches(cs[i].id, cs[i].place, cs[j]) => i = j

\* Two slots match, or not, in both directions.
LEMMA MatchIsSymmetric ==
  ASSUME NEW c, NEW d
  PROVE  Matches(c.id, c.place, d) <=> Matches(d.id, d.place, c)
BY DEF Matches

\* A slot that no slot matches may be appended.
LEMMA AppendApart ==
  ASSUME NEW cs \in Seq(Client), Apart(cs), NEW c \in Client,
         \A i \in DOMAIN cs : ~Matches(c.id, c.place, cs[i])
  PROVE  Apart(Append(cs, c))
<1> DEFINE new == Append(cs, c)
<1>1. /\ Len(cs) \in Nat /\ DOMAIN cs = 1 .. Len(cs)
      /\ DOMAIN new = 1 .. Len(cs) + 1
      /\ \A i \in 1 .. Len(cs) : new[i] = cs[i]
      /\ new[Len(cs) + 1] = c
  BY AppendProperties, LenProperties
<1> HIDE DEF new
<1>2. SUFFICES ASSUME NEW i \in 1 .. Len(cs) + 1, NEW j \in 1 .. Len(cs) + 1,
                      Matches(new[i].id, new[i].place, new[j])
               PROVE  i = j
  BY <1>1 DEF Apart, new
<1>3. CASE i \in 1 .. Len(cs) /\ j \in 1 .. Len(cs)
  BY <1>1, <1>2, <1>3 DEF Apart
<1>4. CASE i = Len(cs) + 1 /\ j \in 1 .. Len(cs)
  BY <1>1, <1>2, <1>4
<1>5. CASE i \in 1 .. Len(cs) /\ j = Len(cs) + 1
  BY <1>1, <1>2, <1>5, MatchIsSymmetric
<1>6. CASE i = Len(cs) + 1 /\ j = Len(cs) + 1
  BY <1>6
<1> QED  BY <1>1, <1>3, <1>4, <1>5, <1>6

\* Slots that keep their identifiers and addresses stay apart.
LEMMA SameKeysApart ==
  ASSUME NEW cs \in Seq(Client), Apart(cs), NEW new \in Seq(Client), Len(new) = Len(cs),
         \A i \in 1 .. Len(cs) : new[i].id = cs[i].id /\ new[i].place = cs[i].place
  PROVE  Apart(new)
<1>1. DOMAIN cs = 1 .. Len(cs) /\ DOMAIN new = 1 .. Len(cs)
  BY LenProperties
<1> QED  BY <1>1 DEF Apart, Matches

\* A slot may be removed.
LEMMA RemoveApart ==
  ASSUME NEW cs \in Seq(Client), Apart(cs), NEW i \in 1 .. Len(cs)
  PROVE  Apart(RemoveAt(cs, i))
<1> DEFINE new == RemoveAt(cs, i)
           old(j) == IF j < i THEN j ELSE j + 1
<1>1. /\ Len(cs) \in Nat /\ DOMAIN cs = 1 .. Len(cs)
      /\ DOMAIN new = 1 .. Len(cs) - 1
      /\ \A j \in 1 .. Len(cs) - 1 : new[j] = cs[old(j)]
  BY RemoveAtShifts, LenProperties
<1> HIDE DEF new
<1>2. SUFFICES ASSUME NEW j \in 1 .. Len(cs) - 1, NEW k \in 1 .. Len(cs) - 1,
                      Matches(new[j].id, new[j].place, new[k])
               PROVE  j = k
  BY <1>1 DEF Apart, new
<1>3. old(j) \in 1 .. Len(cs) /\ old(k) \in 1 .. Len(cs)
  BY <1>1
<1>4. Matches(cs[old(j)].id, cs[old(j)].place, cs[old(k)])
  BY <1>1, <1>2
<1>5. old(j) = old(k)
  BY <1>1, <1>3, <1>4 DEF Apart
<1> QED  BY <1>1, <1>5

\* A message from inside leaves one slot per device and place: the table is
\* searched, with the match that an unknown address has with every other, before a
\* slot is made.
LEMMA UpdateApart ==
  ASSUME clients \in Seq(Client), Apart(clients), NEW m \in Spoken, UpdateClients(m)
  PROVE  Apart(clients')
<1>0. DOMAIN clients = 1 .. Len(clients)
  BY LenProperties
<1>1. CASE AddClient(m)
  <2> DEFINE c == [id |-> m.src, place |-> m.place, hbeat_period_max |-> Period(m), idle |-> 0]
  <2>1. c \in Client /\ \A i \in DOMAIN clients : ~Matches(c.id, c.place, clients[i])
    BY <1>1, SlotType DEF AddClient, IsKnown
  <2>2. clients' = Append(clients, c)
    BY <1>1 DEF AddClient
  <2> HIDE DEF c
  <2> QED  BY <2>1, <2>2, AppendApart
<1>2. CASE RefreshClient(m)
  <2>1. PICK i \in 1 .. Len(clients), c \in Client :
          /\ clients' = [clients EXCEPT ![i] = c]
          /\ c.id = clients[i].id /\ c.place = clients[i].place
    BY <1>2, RefreshChangesOne
  <2>2. /\ clients' \in Seq(Client) /\ Len(clients') = Len(clients)
        /\ \A j \in 1 .. Len(clients) : clients'[j] = IF j = i THEN c ELSE clients[j]
    BY <2>1, ExceptSeq
  <2> QED  BY <2>1, <2>2, SameKeysApart
<1>3. CASE RemoveClient(m)
  BY <1>0, <1>3, RemoveApart DEF RemoveClient
<1>4. CASE UNCHANGED clients
  BY <1>4
<1> QED  BY <1>1, <1>2, <1>3, <1>4 DEF UpdateClients

\* The inductive step of OneSlotPerPlace.
LEMMA OneSlotStep ==
  IInv /\ OneSlotPerPlace /\ [Next]_vars => OneSlotPerPlace'
<1> SUFFICES ASSUME IInv, Apart(clients), [Next]_vars
             PROVE  Apart(clients')
  BY DEF OneSlotPerPlace, Apart, Matches
<1>0. clients \in Seq(Client) /\ DOMAIN clients = 1 .. Len(clients)
  BY LenProperties DEF IInv, StateOK
<1>1. CASE PollInMessage
  <2>1. Head(toIn) \in Spoken
    BY <1>1, TakeType DEF PollInMessage, IInv, LinksOK
  <2> QED  BY <1>0, <1>1, <2>1, UpdateApart DEF PollInMessage
<1>2. CASE SweepStep
  BY <1>0, <1>2, RemoveApart DEF SweepStep
<1>3. CASE BridgeCrash
  BY <1>3 DEF BridgeCrash, Apart
<1>4. CASE BridgeTick
  BY <1>0, <1>4, TickKeepsSlots, SameKeysApart
<1>5. CASE UNCHANGED clients
  BY <1>5
<1>6. ASSUME NEW d \in Id, NEW schema, NodeSends(d, schema) \/ NodeStarts(d) \/ NodeStops(d)
      PROVE  UNCHANGED clients
  BY <1>6 DEF NodeSends, NodeStarts, NodeStops, bridgeState, bridgeVars
<1>7. CASE OutsideSends \/ LoseIn \/ LoseOut
  BY <1>7 DEF OutsideSends, LoseIn, LoseOut, bridgeState
<1> QED
  BY <1>1, <1>2, <1>3, <1>4, <1>5, <1>6, <1>7
     DEF Next, BridgeStep, PollInIdle, PollOutMessage, PollOutIdle, SweepEnd, BridgeStart, vars

\* No device ever has two slots for one place, and none beside a slot whose
\* place is not known, after any sequence of hellos, goodbyes, moves, sweeps,
\* losses and restarts.
THEOREM OneSlotPerPlaceHolds == Spec => []OneSlotPerPlace
<1>1. Init => OneSlotPerPlace
  BY DEF Init, BridgeInit, OneSlotPerPlace
<1> QED  BY <1>1, Invariance, OneSlotStep, PTL DEF Spec
=============================================================================
