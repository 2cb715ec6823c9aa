--------------------------- MODULE DispatchProofs ---------------------------
(***************************************************************************)
(* Proofs about Dispatch, for any devices, identifiers, groups, patterns,  *)
(* functions and messages, and however many calls the program makes while  *)
(* a message is on its way: no listener is called twice for a message, and *)
(* none that is meant is missed when nothing is taken away meanwhile.      *)
(*                                                                         *)
(* And about Reception, for any words, and wherever the layers cut: what   *)
(* is parsed from the text of a message is that message, less what its     *)
(* text does not tell, piece by piece, and a message whose pieces do not   *)
(* fit ends in an error and leaves nothing behind.                         *)
(***************************************************************************)
EXTENDS Dispatch, SequenceLemmas

-----------------------------------------------------------------------------
(* The inductive invariants *)

\* Where the loops may be.  The dispatcher is the first of the message listeners or none.
Place ==
  /\ current # None => at.i > 0
  /\ at.j > 0 => at.i = 1
  /\ at.k > 0 => at.j > 0
  /\ at.j > 0 /\ at.k = 0 => ~at.in
  /\ \A n \in 2 .. Len(listeners) : listeners[n] # Dispatcher

Uncalled(d) == \A n \in DOMAIN dev[d].listener : dev[d].listener[n].heard = 0

\* What lies ahead of the loops has not been called.
Ahead ==
  /\ at.i <= 1 /\ at.j = 0 => \A d \in ToSet(devices) : Uncalled(d)
  /\ at.j > 0 => \A n \in at.j .. Len(devices) :
                   devices[n] # at.d => Uncalled(devices[n])
  /\ at.k > 0 =>
       /\ \A n \in at.j + 1 .. Len(devices) : devices[n] # at.d
       /\ \A n \in DOMAIN dev[at.d].listener :
            n > at.k \/ (n = at.k /\ ~at.in) => dev[at.d].listener[n].heard = 0

IInv == VectorsOK /\ Place /\ Ahead /\ HeardOnce

Decided(d, n) ==
  LET l == dev[d].listener[n]
  IN  ~l.new => (l.heard = 1 <=> Accepts(d) /\ Matches(l.for))

AllDecided(d) == \A n \in DOMAIN dev[d].listener : Decided(d, n)

\* While nothing is taken away, what lies behind the loops has been called if it was meant.
Behind ==
  current # None /\ at.quiet =>
    /\ at.in /\ at.j = 0 => at.i > 1 \/ listeners[1] # Dispatcher
    /\ \A n \in DOMAIN devices : n < at.j => AllDecided(devices[n])
    /\ at.k > 0 =>
         /\ at.j \in DOMAIN devices /\ devices[at.j] = at.d /\ Accepts(at.d)
         /\ \A n \in DOMAIN dev[at.d].listener :
              n < at.k \/ (n = at.k /\ at.in) => Decided(at.d, n)
    /\ at.i > 1 /\ Dispatcher \in ToSet(listeners) => \A d \in ToSet(devices) : AllDecided(d)

-----------------------------------------------------------------------------
(* Identifiers *)

\* What a part of an identifier becomes.
LEMMA StrCpyType ==
  ASSUME NEW part \in Seq(Word), StrCpy(part) # Illegal
  PROVE  StrCpy(part) \in Seq(Word)
<1>1. Len(part) \in Nat /\ DOMAIN part = 1 .. Len(part)
      /\ \A i \in 1 .. Len(part) : part[i] \in Word /\ part[i] \in ToSet(part)
  BY ElementsAreAtIndexes
<1>2. \A w \in ToSet(part) : Lower[w] # Illegal
  BY DEF StrCpy
<1>3. StrCpy(part) = [i \in 1 .. Len(part) |-> Lower[part[i]]]
  BY <1>1, <1>2 DEF StrCpy
<1>4. \A i \in 1 .. Len(part) : Lower[part[i]] \in Word
  BY <1>1, <1>2, IdentifierAssumption
<1>5. StrCpy(part) \in [1 .. Len(part) -> Word]
  BY <1>3, <1>4
<1> QED  BY <1>1, <1>5, SeqDef

\* A part that suits can be set in an identifier.
LEMMA PartSetType ==
  ASSUME NEW id \in Identifier, NEW k \in DOMAIN PartMax, NEW part \in Part, Suits(k, part)
  PROVE  PartSet(id, k, part) \in Identifier
<1>1. k \in {"vendor", "device", "instance"}
  BY IdentifierAssumption
<1> DEFINE p == IF part = Star THEN Star ELSE StrCpy(part)
<1>2. p \in Part
  <2>1. CASE part = Star
    BY <2>1 DEF Part
  <2>2. CASE part # Star
    <3>1. part \in Seq(Word) /\ StrCpy(part) # Illegal
      BY <2>2 DEF Part, Suits
    <3> QED  BY <2>2, <3>1, StrCpyType DEF Part
  <2> QED  BY <2>1, <2>2
<1>3. PartSet(id, k, part) = [id EXCEPT ![k] = p]
  BY DEF PartSet
<1> HIDE DEF p
<1> QED  BY <1>1, <1>2, <1>3 DEF Identifier

\* A copied identifier is one.
LEMMA IdCopyType ==
  ASSUME NEW parts \in Identifier, IdCopy(parts) # Illegal
  PROVE  IdCopy(parts) \in Identifier
<1> DEFINE a == PartSet(NoParts, "vendor", parts.vendor)
           b == PartSet(a, "device", parts.device)
<1>1. DOMAIN PartMax = {"vendor", "device", "instance"}
  BY IdentifierAssumption
<1>2. \A k \in DOMAIN PartMax : Suits(k, parts[k])
  BY DEF IdCopy
<1>3. /\ Suits("vendor", parts.vendor) /\ Suits("device", parts.device)
      /\ Suits("instance", parts.instance)
      /\ parts.vendor \in Part /\ parts.device \in Part /\ parts.instance \in Part
  BY <1>1, <1>2 DEF Identifier
<1>4. NoParts \in Identifier
  <2>1. << >> \in Seq(Word)
    BY EmptySeq
  <2> QED  BY <2>1 DEF NoParts, Identifier, Part
<1>5. a \in Identifier
  BY <1>1, <1>3, <1>4, PartSetType
<1> HIDE DEF a
<1>6. b \in Identifier
  BY <1>1, <1>3, <1>5, PartSetType
<1> HIDE DEF b
<1>7. PartSet(b, "instance", parts.instance) \in Identifier
  BY <1>1, <1>3, <1>6, PartSetType
<1>8. IdCopy(parts) = PartSet(b, "instance", parts.instance)
  BY <1>2 DEF IdCopy, a, b
<1> QED  BY <1>7, <1>8

-----------------------------------------------------------------------------
(* What the actions do to the vectors *)

\* What VectorsOK says of the indexes.
LEMMA Vectors ==
  ASSUME VectorsOK
  PROVE  /\ Len(devices) \in Nat /\ DOMAIN devices = 1 .. Len(devices)
         /\ \A n \in 1 .. Len(devices) : devices[n] \in Device /\ devices[n] \in ToSet(devices)
         /\ ToSet(devices) \subseteq Device
         /\ \A d \in ToSet(devices) : \E n \in 1 .. Len(devices) : devices[n] = d
         /\ \A m, n \in 1 .. Len(devices) : devices[m] = devices[n] => m = n
         /\ Len(listeners) \in Nat
         /\ \A d \in Device :
              /\ dev[d] \in DeviceRecords /\ dev[d].listener \in Seq(Listener)
              /\ Len(dev[d].listener) \in Nat
              /\ DOMAIN dev[d].listener = 1 .. Len(dev[d].listener)
              /\ \A n \in 1 .. Len(dev[d].listener) : dev[d].listener[n] \in Listener
<1>1. /\ Len(devices) \in Nat /\ DOMAIN devices = 1 .. Len(devices)
      /\ \A n \in 1 .. Len(devices) : devices[n] \in Device /\ devices[n] \in ToSet(devices)
      /\ ToSet(devices) \subseteq Device
      /\ \A d \in ToSet(devices) : \E n \in 1 .. Len(devices) : devices[n] = d
  BY ElementsAreAtIndexes DEF VectorsOK
<1>2. \A m, n \in 1 .. Len(devices) : devices[m] = devices[n] => m = n
  BY <1>1 DEF VectorsOK, IsInjective
<1>3. Len(listeners) \in Nat
  BY LenProperties DEF VectorsOK
<1>4. \A d \in Device : dev[d] \in DeviceRecords /\ dev[d].listener \in Seq(Listener)
  BY DEF VectorsOK, DeviceRecords
<1>5. \A d \in Device :
        /\ Len(dev[d].listener) \in Nat
        /\ DOMAIN dev[d].listener = 1 .. Len(dev[d].listener)
        /\ \A n \in 1 .. Len(dev[d].listener) : dev[d].listener[n] \in Listener
  BY <1>4, ElementsAreAtIndexes
<1> QED  BY <1>1, <1>2, <1>3, <1>4, <1>5

\* What the library remembers of a call that takes something away.
LEMMA Disturbs ==
  ASSUME VectorsOK, Disturb
  PROVE  /\ at' \in Positions
         /\ at'.i = at.i /\ at'.j = at.j /\ at'.k = at.k /\ at'.d = at.d /\ (at'.in <=> at.in)
         /\ current # None => ~at'.quiet
         /\ current = None => at' = at
<1>1. CASE current = None
  <2>1. (current = None) = TRUE
    BY <1>1
  <2>2. at' = [at EXCEPT !.quiet = TRUE]
    BY <2>1 DEF Disturb
  <2>3. at' = at
    BY <1>1, <2>2 DEF VectorsOK, Nowhere
  <2> QED  BY <1>1, <2>3 DEF VectorsOK
<1>2. CASE current # None
  <2>1. (current = None) = FALSE
    BY <1>2
  <2>2. at' = [at EXCEPT !.quiet = FALSE]
    BY <2>1 DEF Disturb
  <2> QED  BY <1>2, <2>2 DEF VectorsOK, Positions
<1> QED  BY <1>1, <1>2

\* A new listener has not been called.
LEMMA RegisteredIsFresh ==
  ASSUME NEW f \in Func, NEW p \in Pattern
  PROVE  /\ Registered(f, p) \in Listener /\ Registered(f, p).heard = 0
         /\ current # None => Registered(f, p).new
<1>1. CASE current = None
  <2>1. (current # None) = FALSE
    BY <1>1
  <2>2. Registered(f, p) = [func |-> f, for |-> p, heard |-> 0, new |-> FALSE]
    BY <2>1 DEF Registered
  <2> QED  BY <1>1, <2>2 DEF Listener
<1>2. CASE current # None
  <2>1. (current # None) = TRUE
    BY <1>2
  <2>2. Registered(f, p) = [func |-> f, for |-> p, heard |-> 0, new |-> TRUE]
    BY <2>1 DEF Registered
  <2> QED  BY <1>2, <2>2 DEF Listener
<1> QED  BY <1>1, <1>2

\* gxPLDeviceListenerAdd: the new one is behind the others.
LEMMA ListenerAddEffect ==
  ASSUME VectorsOK, NEW d \in Device, NEW f \in Func, NEW p \in Pattern, ListenerAdd(d, f, p)
  PROVE  /\ d \in ToSet(devices)
         /\ dev' \in [Device -> DeviceRecords]
         /\ \A o \in Device \ {d} : dev'[o] = dev[o]
         /\ dev'[d] = [dev[d] EXCEPT !.listener = dev'[d].listener]
         /\ Len(dev'[d].listener) = Len(dev[d].listener) + 1
         /\ Len(dev'[d].listener) <= ListenerMax
         /\ \A n \in 1 .. Len(dev[d].listener) : dev'[d].listener[n] = dev[d].listener[n]
         /\ dev'[d].listener[Len(dev[d].listener) + 1] = Registered(f, p)
<1> DEFINE l == Append(dev[d].listener, Registered(f, p))
<1>1. /\ l \in Seq(Listener) /\ Len(l) = Len(dev[d].listener) + 1
      /\ \A n \in 1 .. Len(dev[d].listener) : l[n] = dev[d].listener[n]
      /\ l[Len(dev[d].listener) + 1] = Registered(f, p)
  BY Vectors, RegisteredIsFresh, AppendType
<1>2. dev' = [dev EXCEPT ![d] = [dev[d] EXCEPT !.listener = l]]
  BY DEF ListenerAdd
<1> HIDE DEF l
<1>3. [dev[d] EXCEPT !.listener = l] \in DeviceRecords
  BY ZenonT(30), <1>1, Vectors DEF DeviceRecords
<1>4. dev' \in [Device -> DeviceRecords] /\ dev'[d].listener = l
  BY <1>2, <1>3 DEF VectorsOK, DeviceRecords
<1>5. Len(dev[d].listener) < ListenerMax /\ d \in ToSet(devices)
  BY DEF ListenerAdd
<1>6. dev'[d] = [dev[d] EXCEPT !.listener = l] /\ \A o \in Device \ {d} : dev'[o] = dev[o]
  BY <1>2, <1>3 DEF VectorsOK
<1> QED
  <2>1. Len(dev'[d].listener) <= ListenerMax
    BY <1>1, <1>4, <1>5, Vectors, DispatchAssumption
  <2> QED  BY <1>1, <1>4, <1>5, <1>6, <2>1

\* gxPLDeviceListenerRemove: one goes, and those behind it move up.
LEMMA ListenerRemoveEffect ==
  ASSUME VectorsOK, NEW d \in Device, NEW f \in Func, ListenerRemove(d, f)
  PROVE  \E n \in 1 .. Len(dev[d].listener) :
           /\ dev' \in [Device -> DeviceRecords]
           /\ \A o \in Device \ {d} : dev'[o] = dev[o]
           /\ dev'[d] = [dev[d] EXCEPT !.listener = dev'[d].listener]
           /\ Len(dev'[d].listener) = Len(dev[d].listener) - 1
           /\ \A m \in 1 .. Len(dev[d].listener) - 1 :
                dev'[d].listener[m] = dev[d].listener[IF m < n THEN m ELSE m + 1]
<1> DEFINE l == dev[d].listener
           functions == [i \in DOMAIN l |-> l[i].func]
           I == {i \in 1 .. Len(functions) : functions[i] # f}
           n == FindFirst(functions, f)
<1>1. l \in Seq(Listener) /\ Len(l) \in Nat /\ DOMAIN l = 1 .. Len(l)
  BY Vectors
<1>2. Len(functions) = Len(l)
  BY <1>1
<1>3. n > 0 /\ dev' = [dev EXCEPT ![d] = [dev[d] EXCEPT !.listener = RemoveAt(l, n)]]
  BY DEF ListenerRemove
<1>4. n \in 1 .. Len(l)
  <2>1. n = IF I # {} THEN Min(I) ELSE 0
    BY DEF FindFirst, SelectInSeq
  <2>2. I # {} /\ n = Min(I)
    BY <1>3, <2>1
  <2>3. I \in SUBSET Nat /\ I \subseteq 1 .. Len(l)
    BY <1>1, <1>2
  <2>4. Min(I) \in I
    <3> HIDE DEF I
    <3> QED  BY <2>2, <2>3, MinIsLeast
  <2> HIDE DEF I, n
  <2> QED  BY <2>2, <2>3, <2>4
<1> HIDE DEF n
<1>5. /\ RemoveAt(l, n) \in Seq(Listener) /\ Len(RemoveAt(l, n)) = Len(l) - 1
      /\ \A m \in 1 .. Len(l) - 1 : RemoveAt(l, n)[m] = IF m < n THEN l[m] ELSE l[m + 1]
  BY <1>1, <1>4, RemoveAtShifts
<1>6. [dev[d] EXCEPT !.listener = RemoveAt(l, n)] \in DeviceRecords
  BY SMTT(30), <1>5, Vectors DEF DeviceRecords
<1>7. /\ dev' \in [Device -> DeviceRecords] /\ dev'[d].listener = RemoveAt(l, n)
      /\ dev'[d] = [dev[d] EXCEPT !.listener = RemoveAt(l, n)]
      /\ \A o \in Device \ {d} : dev'[o] = dev[o]
  BY <1>3, <1>6 DEF VectorsOK, DeviceRecords
<1>8. \A m \in 1 .. Len(l) - 1 : dev'[d].listener[m] = l[IF m < n THEN m ELSE m + 1]
  BY <1>5, <1>7
<1> QED
  <2>1. Len(dev'[d].listener) = Len(l) - 1
    BY <1>5, <1>7
  <2> QED  BY <1>4, <1>7, <1>8, <2>1

\* gxPLMessageListenerRemove: one goes, and those behind it move up.
LEMMA MessageListenerRemoveEffect ==
  ASSUME VectorsOK, NEW f \in Func, MessageListenerRemove(f)
  PROVE  \E n \in 1 .. Len(listeners) :
           /\ listeners' \in Seq(Func \cup {Dispatcher})
           /\ Len(listeners') = Len(listeners) - 1
           /\ \A m \in 1 .. Len(listeners) - 1 :
                listeners'[m] = listeners[IF m < n THEN m ELSE m + 1]
<1> DEFINE I == {i \in 1 .. Len(listeners) : listeners[i] # f}
           n == FindFirst(listeners, f)
<1>1. Len(listeners) \in Nat /\ listeners \in Seq(Func \cup {Dispatcher})
  BY Vectors DEF VectorsOK
<1>2. n > 0 /\ listeners' = RemoveAt(listeners, n)
  BY DEF MessageListenerRemove
<1>3. n \in 1 .. Len(listeners)
  <2>1. n = IF I # {} THEN Min(I) ELSE 0
    BY DEF FindFirst, SelectInSeq
  <2>2. I # {} /\ n = Min(I)
    BY <1>2, <2>1
  <2>3. I \in SUBSET Nat /\ I \subseteq 1 .. Len(listeners)
    BY <1>1
  <2>4. Min(I) \in I
    <3> HIDE DEF I
    <3> QED  BY <2>2, <2>3, MinIsLeast
  <2> HIDE DEF I, n
  <2> QED  BY <2>2, <2>3, <2>4
<1> HIDE DEF n
<1> QED  BY <1>1, <1>2, <1>3, RemoveAtShifts

\* gxPLAppRemoveDevice: a device that is not listening goes, and those behind it move up.
LEMMA RemoveDeviceEffect ==
  ASSUME VectorsOK, NEW d \in Device, RemoveDevice(d)
  PROVE  \E n \in 1 .. Len(devices) :
           /\ devices[n] # at.d
           /\ dev' = [dev EXCEPT ![devices[n]] = [dev[devices[n]] EXCEPT !.listener = << >>]]
           /\ devices' \in Seq(Device) /\ Len(devices') = Len(devices) - 1
           /\ \A m \in 1 .. Len(devices) - 1 :
                devices'[m] = devices[IF m < n THEN m ELSE m + 1]
<1> DEFINE I == {i \in 1 .. Len(devices) : dev[devices[i]].id = dev[d].id}
           n == SelectInSeq(devices, LAMBDA o : dev[o].id = dev[d].id)
<1>1. Len(devices) \in Nat /\ devices \in Seq(Device)
  BY Vectors DEF VectorsOK
<1>2. /\ d \in ToSet(devices) /\ devices[n] # at.d
      /\ devices' = RemoveAt(devices, n)
      /\ dev' = [dev EXCEPT ![devices[n]] = [dev[devices[n]] EXCEPT !.listener = << >>]]
  BY DEF RemoveDevice
<1>3. n \in 1 .. Len(devices)
  <2>1. n = IF I # {} THEN Min(I) ELSE 0
    BY DEF SelectInSeq
  <2>2. I # {}
    BY <1>2, Vectors
  <2>3. I \in SUBSET Nat /\ I \subseteq 1 .. Len(devices)
    BY <1>1
  <2>4. Min(I) \in I
    <3> HIDE DEF I
    <3> QED  BY <2>2, <2>3, MinIsLeast
  <2> HIDE DEF I, n
  <2> QED  BY <2>1, <2>2, <2>3, <2>4
<1> HIDE DEF n
<1> QED  BY <1>1, <1>2, <1>3, RemoveAtShifts

\* gxPLAppAddDevice: the new one is behind the others, and its listeners have not been called.
LEMMA EnlistEffect ==
  ASSUME VectorsOK, NEW d \in Device, NEW id \in Id,
         AddDevice(d, id) \/ AddConfigurableDevice(d, id)
  PROVE  /\ d \notin ToSet(devices)
         /\ dev' \in [Device -> DeviceRecords]
         /\ \A o \in Device \ {d} : dev'[o] = dev[o]
         /\ Len(dev'[d].listener) <= 1
         /\ \A n \in 1 .. Len(dev'[d].listener) :
              /\ dev'[d].listener[n].heard = 0
              /\ current # None => dev'[d].listener[n].new
         /\ devices' \in Seq(Device) /\ Len(devices') = Len(devices) + 1
         /\ \A n \in 1 .. Len(devices) : devices'[n] = devices[n]
         /\ devices'[Len(devices) + 1] = d
<1> DEFINE r == Registered(ConfigHandler, Configurations)
<1>1. PICK l \in {<< >>, <<r>>} : Enlist(d, id, l)
  BY DEF AddDevice, AddConfigurableDevice
<1>2. r \in Listener /\ r.heard = 0 /\ (current # None => r.new)
  BY RegisteredIsFresh, DispatchAssumption
<1> HIDE DEF r
<1>3. /\ l \in Seq(Listener) /\ Len(l) <= 1
      /\ \A n \in 1 .. Len(l) : l[n].heard = 0 /\ (current # None => l[n].new)
  <2>1. CASE l = << >>
    <3>1. Len(l) = 0
      BY <2>1
    <3> QED  BY <2>1, <3>1, EmptySeq
  <2>2. CASE l = <<r>>
    <3>1. l \in Seq(Listener) /\ Len(l) = 1 /\ l[1] = r
      BY <1>2, <2>2
    <3>2. \A n \in 1 .. Len(l) : n = 1
      BY <3>1
    <3>3. Len(l) <= 1
      BY <3>1
    <3>4. \A n \in 1 .. Len(l) : l[n] = r
      BY <3>1, <3>2
    <3> QED  BY <1>2, <3>1, <3>3, <3>4
  <2> QED  BY <1>1, <2>1, <2>2
<1>4. IdCopy(id) \in Identifier /\ d \notin ToSet(devices)
  <2>1. IdCopy(id) # Illegal /\ id \in Identifier
    BY <1>1, DispatchAssumption DEF Enlist
  <2> QED  BY <1>1, <2>1, IdCopyType DEF Enlist
<1> DEFINE e == [id |-> IdCopy(id), group |-> {}, filter |-> {},
                 isreportownmsg |-> FALSE, listener |-> l]
<1>5. e \in DeviceRecords /\ e.listener = l
  BY <1>3, <1>4 DEF DeviceRecords
<1>6. dev' = [dev EXCEPT ![d] = e] /\ devices' = Append(devices, d)
  BY <1>1 DEF Enlist
<1> HIDE DEF e
<1>7. /\ dev' \in [Device -> DeviceRecords] /\ dev'[d].listener = l
      /\ \A o \in Device \ {d} : dev'[o] = dev[o]
  BY <1>5, <1>6 DEF VectorsOK
<1>8. /\ devices' \in Seq(Device) /\ Len(devices') = Len(devices) + 1
      /\ \A n \in 1 .. Len(devices) : devices'[n] = devices[n]
      /\ devices'[Len(devices) + 1] = d
  BY <1>6, AppendType DEF VectorsOK
<1> QED  BY <1>3, <1>4, <1>7, <1>8

\* The other changes of a device leave its listeners alone.
Retunes(d) ==
  \/ \E id \in Id : IdSet(d, id)
  \/ \E new \in NewPart : PartIdSet(d, new[1], new[2])
  \/ \E g \in GroupName : GroupAdd(d, g)
  \/ \E p \in Pattern : FilterAdd(d, p)
  \/ GroupClear(d) \/ FilterClear(d)
  \/ \E b \in BOOLEAN : ReportOwnMessagesSet(d, b)

\* And leave it a device.
LEMMA RetuneEffect ==
  ASSUME VectorsOK, NEW d \in Device, Retunes(d)
  PROVE  /\ dev' \in [Device -> DeviceRecords]
         /\ \A o \in Device : dev'[o].listener = dev[o].listener
         /\ Disturb /\ UNCHANGED <<receptionVars, devices, listeners>>
<1>1. \A id \in Identifier : [dev[d] EXCEPT !.id = id] \in DeviceRecords
                             /\ [dev[d] EXCEPT !.id = id].listener = dev[d].listener
  BY Vectors DEF DeviceRecords
<1>2. ASSUME NEW new \in DeviceRecords, new.listener = dev[d].listener, Retune(d, new)
      PROVE  /\ dev' \in [Device -> DeviceRecords]
             /\ \A o \in Device : dev'[o].listener = dev[o].listener
             /\ Disturb /\ UNCHANGED <<receptionVars, devices, listeners>>
  BY <1>2 DEF Retune, VectorsOK
<1>3. ASSUME NEW id \in Identifier, IdSet(d, id)
      PROVE  /\ dev' \in [Device -> DeviceRecords]
             /\ \A o \in Device : dev'[o].listener = dev[o].listener
             /\ Disturb /\ UNCHANGED <<receptionVars, devices, listeners>>
  <2>1. IdCopy(id) \in Identifier /\ Retune(d, [dev[d] EXCEPT !.id = IdCopy(id)])
    BY <1>3, IdCopyType DEF IdSet
  <2> QED  BY <1>1, <1>2, <2>1
<1>4. CASE \E id \in Id : IdSet(d, id)
  BY <1>3, <1>4, DispatchAssumption
<1>5. CASE \E new \in NewPart : PartIdSet(d, new[1], new[2])
  <2>1. PICK new \in NewPart : PartIdSet(d, new[1], new[2])
    BY <1>5
  <2>2. new[1] \in DOMAIN PartMax /\ new[2] \in Part
    BY DispatchAssumption
  <2>3. Suits(new[1], new[2]) /\ dev[d].id \in Identifier
    BY <2>1, Vectors DEF PartIdSet, DeviceRecords
  <2>4. PartSet(dev[d].id, new[1], new[2]) \in Identifier
    BY <2>2, <2>3, PartSetType
  <2> QED  BY <1>3, <2>1, <2>4 DEF PartIdSet
<1>6. CASE \E g \in GroupName : GroupAdd(d, g)
  <2>1. PICK g \in GroupName : GroupAdd(d, g)
    BY <1>6
  <2>2. /\ [dev[d] EXCEPT !.group = @ \cup {g}] \in DeviceRecords
        /\ [dev[d] EXCEPT !.group = @ \cup {g}].listener = dev[d].listener
    BY Vectors DEF DeviceRecords
  <2> QED  BY <1>2, <2>1, <2>2 DEF GroupAdd
<1>7. CASE \E p \in Pattern : FilterAdd(d, p)
  <2>1. PICK p \in Pattern : FilterAdd(d, p)
    BY <1>7
  <2>2. /\ [dev[d] EXCEPT !.filter = @ \cup {p}] \in DeviceRecords
        /\ [dev[d] EXCEPT !.filter = @ \cup {p}].listener = dev[d].listener
    BY Vectors DEF DeviceRecords
  <2> QED  BY <1>2, <2>1, <2>2 DEF FilterAdd
<1>8. CASE GroupClear(d)
  <2>1. /\ [dev[d] EXCEPT !.group = {}] \in DeviceRecords
        /\ [dev[d] EXCEPT !.group = {}].listener = dev[d].listener
    BY Vectors DEF DeviceRecords
  <2> QED  BY <1>2, <1>8, <2>1 DEF GroupClear
<1>9. CASE FilterClear(d)
  <2>1. /\ [dev[d] EXCEPT !.filter = {}] \in DeviceRecords
        /\ [dev[d] EXCEPT !.filter = {}].listener = dev[d].listener
    BY Vectors DEF DeviceRecords
  <2> QED  BY <1>2, <1>9, <2>1 DEF FilterClear
<1>10. CASE \E b \in BOOLEAN : ReportOwnMessagesSet(d, b)
  <2>1. PICK b \in BOOLEAN : ReportOwnMessagesSet(d, b)
    BY <1>10
  <2>2. /\ [dev[d] EXCEPT !.isreportownmsg = b] \in DeviceRecords
        /\ [dev[d] EXCEPT !.isreportownmsg = b].listener = dev[d].listener
    BY Vectors DEF DeviceRecords
  <2> QED  BY <1>2, <2>1, <2>2 DEF ReportOwnMessagesSet
<1> QED  BY <1>4, <1>5, <1>6, <1>7, <1>8, <1>9, <1>10 DEF Retunes

\* prvDeviceDispatchEvent calls a listener.
LEMMA CallEffect ==
  ASSUME VectorsOK, at.k > 0, at.k <= Len(dev[at.d].listener),
         dev' = [dev EXCEPT ![at.d].listener[at.k].heard = @ + 1]
  PROVE  /\ dev' \in [Device -> DeviceRecords]
         /\ \A o \in Device \ {at.d} : dev'[o] = dev[o]
         /\ dev'[at.d] = [dev[at.d] EXCEPT !.listener = dev'[at.d].listener]
         /\ Len(dev'[at.d].listener) = Len(dev[at.d].listener)
         /\ \A n \in 1 .. Len(dev[at.d].listener) :
              dev'[at.d].listener[n] =
                IF n = at.k THEN [dev[at.d].listener[n] EXCEPT !.heard = @ + 1]
                            ELSE dev[at.d].listener[n]
<1> DEFINE l == dev[at.d].listener
           m == [l EXCEPT ![at.k] = [l[at.k] EXCEPT !.heard = @ + 1]]
<1>1. at.d \in Device /\ at.k \in Nat
  BY Vectors DEF VectorsOK, Positions
<1>2. /\ l \in Seq(Listener) /\ Len(l) \in Nat /\ DOMAIN l = 1 .. Len(l)
      /\ at.k \in 1 .. Len(l) /\ \A n \in 1 .. Len(l) : l[n] \in Listener
  BY <1>1, Vectors
<1>3. [l[at.k] EXCEPT !.heard = @ + 1] \in Listener
  <2>1. l[at.k] \in Listener /\ l[at.k].heard \in Nat /\ l[at.k].heard + 1 \in Nat
    BY SMTT(30), <1>2 DEF Listener
  <2>2. \A h \in Nat : [l[at.k] EXCEPT !.heard = h] \in Listener
    BY <2>1 DEF Listener
  <2> QED  BY <2>1, <2>2
<1>4. /\ m \in Seq(Listener) /\ Len(m) = Len(l)
      /\ \A n \in 1 .. Len(l) :
           m[n] = IF n = at.k THEN [l[n] EXCEPT !.heard = @ + 1] ELSE l[n]
  <2> HIDE DEF l
  <2>1. l \in [1 .. Len(l) -> Listener]
    BY <1>2
  <2>2. m \in [1 .. Len(l) -> Listener]
    BY <1>3, <2>1
  <2>3. \A n \in 1 .. Len(l) :
          m[n] = IF n = at.k THEN [l[n] EXCEPT !.heard = @ + 1] ELSE l[n]
    BY <1>2, <2>1
  <2> QED  BY <1>2, <2>2, <2>3, FunctionIsSeq
<1>5. dev' = [dev EXCEPT ![at.d] = [dev[at.d] EXCEPT !.listener = m]]
  OBVIOUS
<1> HIDE DEF m
<1>6. [dev[at.d] EXCEPT !.listener = m] \in DeviceRecords
  <2>1. dev[at.d] \in DeviceRecords
    BY <1>1 DEF VectorsOK
  <2> QED  BY <1>4, <2>1 DEF DeviceRecords
<1>7. /\ dev' \in [Device -> DeviceRecords] /\ dev'[at.d].listener = m
      /\ dev'[at.d] = [dev[at.d] EXCEPT !.listener = m]
      /\ \A o \in Device \ {at.d} : dev'[o] = dev[o]
  BY ZenonT(30), <1>1, <1>5, <1>6 DEF VectorsOK, DeviceRecords
<1> QED  BY <1>4, <1>7

\* The end of the loops: nothing has been called for the next message.
LEMMA ForgetEffect ==
  ASSUME VectorsOK, dev' = [d \in Device |-> [dev[d] EXCEPT !.listener = Forget(@)]]
  PROVE  /\ dev' \in [Device -> DeviceRecords]
         /\ \A d \in Device : /\ Len(dev'[d].listener) = Len(dev[d].listener)
                              /\ Uncalled(d)'
<1> SUFFICES ASSUME NEW d \in Device
             PROVE  /\ dev'[d] \in DeviceRecords
                    /\ Len(dev'[d].listener) = Len(dev[d].listener)
                    /\ Uncalled(d)'
  OBVIOUS
<1> DEFINE l == dev[d].listener
           m == Forget(l)
<1>1. /\ l \in Seq(Listener) /\ Len(l) \in Nat /\ DOMAIN l = 1 .. Len(l)
      /\ \A n \in 1 .. Len(l) : l[n] \in Listener
  BY Vectors
<1>2. \A n \in 1 .. Len(l) : [l[n] EXCEPT !.heard = 0, !.new = FALSE] \in Listener
                             /\ [l[n] EXCEPT !.heard = 0, !.new = FALSE].heard = 0
  BY <1>1 DEF Listener
<1>3. m = [n \in 1 .. Len(l) |-> [l[n] EXCEPT !.heard = 0, !.new = FALSE]]
  BY <1>1 DEF Forget
<1>4. /\ m \in Seq(Listener) /\ Len(m) = Len(l)
      /\ \A n \in 1 .. Len(l) : m[n].heard = 0
  <2> HIDE DEF l, m
  <2>1. m \in [1 .. Len(l) -> Listener] /\ \A n \in 1 .. Len(l) : m[n].heard = 0
    BY <1>2, <1>3
  <2> QED  BY <1>1, <2>1, FunctionIsSeq
<1>5. dev'[d] = [dev[d] EXCEPT !.listener = m]
  OBVIOUS
<1> HIDE DEF m
<1>6. dev'[d] \in DeviceRecords /\ dev'[d].listener = m
  BY SMTT(30), <1>4, <1>5, Vectors DEF DeviceRecords
<1> QED  BY <1>1, <1>4, <1>6 DEF Uncalled

-----------------------------------------------------------------------------
(* Every action preserves the first invariant *)

\* A message comes.
LEMMA ReceiveOnce ==
  ASSUME IInv, NEW a \in App, NEW t \in Coming(a), NEW e \in Ends(a, t), Receive(a, t, e)
  PROVE  IInv'
<1>1. /\ at = Nowhere
      /\ UNCHANGED <<dev, devices, listeners>>
      /\ at' = IF current' = None THEN Nowhere ELSE [Nowhere EXCEPT !.i = 1]
  BY DEF Receive, Poll, IInv, VectorsOK
<1>2. /\ at' \in Positions /\ at'.j = 0 /\ at'.k = 0 /\ at'.i <= 1 /\ at'.d = None
      /\ (current' = None => at' = Nowhere) /\ (current' # None => at'.i > 0)
  <2>1. Nowhere \in Positions /\ Nowhere.i = 0 /\ Nowhere.j = 0 /\ Nowhere.k = 0
        /\ Nowhere.d = None
    BY DEF Nowhere, Positions
  <2>2. CASE current' = None
    BY <1>1, <2>1, <2>2
  <2>3. CASE current' # None
    <3>1. at' = [Nowhere EXCEPT !.i = 1]
      BY <1>1, <2>3
    <3>2. at' = [i |-> 1, j |-> 0, k |-> 0, d |-> None, in |-> FALSE, quiet |-> TRUE]
      BY <3>1 DEF Nowhere
    <3> QED  BY <2>3, <3>2 DEF Positions
  <2> QED  BY <2>2, <2>3
<1>3. VectorsOK'
  BY <1>1, <1>2 DEF IInv, VectorsOK
<1>4. Place'
  BY <1>1, <1>2 DEF IInv, Place
<1>5. Ahead'
  BY <1>1, <1>2 DEF IInv, Ahead, Uncalled, Nowhere
<1>6. HeardOnce'
  BY <1>1 DEF IInv, HeardOnce
<1> QED  BY <1>3, <1>4, <1>5, <1>6 DEF IInv

\* A message listener is called, the dispatcher goes to the devices, or the loop ends.
LEMMA NextListenerOnce ==
  ASSUME IInv, NextListener
  PROVE  IInv'
<1>1. CASE at.i > Len(listeners)
  <2>1. /\ current' = None /\ at' = Nowhere /\ UNCHANGED <<devices, listeners>>
        /\ dev' = [d \in Device |-> [dev[d] EXCEPT !.listener = Forget(@)]]
    BY <1>1 DEF NextListener, Release
  <2>2. /\ dev' \in [Device -> DeviceRecords]
        /\ \A d \in Device : Len(dev'[d].listener) = Len(dev[d].listener) /\ Uncalled(d)'
    BY <2>1, ForgetEffect DEF IInv
  <2>3. at' \in Positions /\ at'.j = 0 /\ at'.k = 0 /\ at'.d = None
    BY <2>1 DEF Nowhere, Positions
  <2>4. VectorsOK'
    <3>1. \A d \in Device : Len(dev'[d].listener) <= ListenerMax
      BY <2>2 DEF IInv, VectorsOK
    <3> QED  BY <2>1, <2>2, <2>3, <3>1 DEF IInv, VectorsOK
  <2>5. Place'
    BY <2>1, <2>3 DEF IInv, Place
  <2>6. Ahead'
    BY <2>1, <2>2, <2>3, Vectors DEF IInv, Ahead
  <2>7. HeardOnce'
    BY <2>2 DEF HeardOnce, Uncalled
  <2> QED  BY <2>4, <2>5, <2>6, <2>7 DEF IInv
<1>2. CASE ~(at.i > Len(listeners))
  <2>1. /\ current # None /\ at.j = 0 /\ ~at.in
        /\ UNCHANGED <<current, dev, devices, listeners>>
        /\ at' = IF listeners[at.i] = Dispatcher THEN [at EXCEPT !.j = 1]
                                                 ELSE [at EXCEPT !.in = TRUE]
    BY <1>2 DEF NextListener, receptionVars
  <2>2. at.i \in Nat /\ at.i > 0 /\ at.k = 0 /\ at.d = None /\ at \in Positions
    BY <2>1 DEF IInv, VectorsOK, Place, Positions
  <2>3. CASE listeners[at.i] = Dispatcher
    <3>1. at' = [at EXCEPT !.j = 1]
      BY <2>1, <2>3
    <3>2. at.i = 1
      BY <1>2, <2>2, <2>3, Vectors DEF IInv, Place
    <3>3. at' \in Positions /\ at'.i = 1 /\ at'.j = 1 /\ at'.k = 0 /\ at'.d = None /\ ~at'.in
      BY <2>1, <2>2, <3>1, <3>2 DEF Positions
    <3>4. VectorsOK'
      BY <2>1, <3>3 DEF IInv, VectorsOK
    <3>5. Place'
      BY <2>1, <3>3 DEF IInv, Place
    <3>6. Ahead'
      <4>1. \A d \in ToSet(devices) : Uncalled(d)
        BY <2>1, <3>2 DEF IInv, Ahead
      <4> QED  BY <2>1, <3>3, <4>1, Vectors DEF IInv, Ahead, Uncalled
    <3>7. HeardOnce'
      BY <2>1 DEF IInv, HeardOnce
    <3> QED  BY <3>4, <3>5, <3>6, <3>7 DEF IInv
  <2>4. CASE listeners[at.i] # Dispatcher
    <3>1. at' = [at EXCEPT !.in = TRUE]
      BY <2>1, <2>4
    <3>2. at' \in Positions /\ at'.i = at.i /\ at'.j = 0 /\ at'.k = 0 /\ at'.d = None
      BY <2>1, <2>2, <3>1 DEF Positions
    <3>3. VectorsOK'
      BY <2>1, <3>2 DEF IInv, VectorsOK
    <3>4. Place'
      BY <2>1, <2>2, <3>2 DEF IInv, Place
    <3>5. Ahead'
      BY <2>1, <3>2 DEF IInv, Ahead, Uncalled
    <3>6. HeardOnce'
      BY <2>1 DEF IInv, HeardOnce
    <3> QED  BY <3>3, <3>4, <3>5, <3>6 DEF IInv
  <2> QED  BY <2>3, <2>4
<1> QED  BY <1>1, <1>2

\* The dispatcher comes to a device, or has been with all of them.
LEMMA NextDeviceOnce ==
  ASSUME IInv, NextDevice
  PROVE  IInv'
<1>1. /\ at.j > 0 /\ at.k = 0 /\ UNCHANGED <<current, dev, devices, listeners>>
      /\ at' = IF at.j > Len(devices) THEN [at EXCEPT !.j = 0, !.i = @ + 1]
               ELSE IF Accepts(devices[at.j]) THEN [at EXCEPT !.k = 1, !.d = devices[at.j]]
               ELSE [at EXCEPT !.j = @ + 1]
  BY DEF NextDevice, receptionVars
<1>2. /\ at \in Positions /\ at.i = 1 /\ at.d = None /\ ~at.in /\ current # None
      /\ at.j \in Nat
  BY <1>1 DEF IInv, VectorsOK, Place, Positions, Nowhere
<1>3. HeardOnce'
  BY <1>1 DEF IInv, HeardOnce
<1>4. CASE at.j > Len(devices)
  <2>1. at' = [at EXCEPT !.j = 0, !.i = @ + 1]
    BY <1>1, <1>4
  <2>2. at' \in Positions /\ at'.i = 2 /\ at'.j = 0 /\ at'.k = 0 /\ at'.d = None
    <3>1. at.i + 1 = 2
      BY <1>2
    <3>2. at' = [at EXCEPT !.j = 0, !.i = 2]
      BY <2>1, <3>1
    <3>3. at' \in Positions
      BY <1>2, <3>2 DEF Positions
    <3>4. at'.i = 2 /\ at'.j = 0 /\ at'.k = at.k /\ at'.d = at.d
      BY <1>2, <3>2 DEF Positions
    <3> QED  BY <1>1, <1>2, <3>3, <3>4
  <2>3. VectorsOK'
    BY <1>1, <1>2, <2>2 DEF IInv, VectorsOK
  <2>4. Place'
    BY <1>1, <2>2 DEF IInv, Place
  <2>5. Ahead'
    BY <2>2 DEF Ahead
  <2> QED  BY <1>3, <2>3, <2>4, <2>5 DEF IInv
<1>5. CASE ~(at.j > Len(devices)) /\ Accepts(devices[at.j])
  <2>1. at' = [at EXCEPT !.k = 1, !.d = devices[at.j]]
    BY <1>1, <1>5
  <2>2. at.j \in 1 .. Len(devices)
    BY <1>1, <1>2, <1>5, Vectors DEF IInv
  <2>3. devices[at.j] \in Device /\ devices[at.j] \in ToSet(devices) /\ devices[at.j] # None
    BY <2>2, Vectors, DispatchAssumption DEF IInv
  <2>4. /\ at' \in Positions /\ at'.i = 1 /\ at'.j = at.j /\ at'.k = 1
        /\ at'.d = devices[at.j] /\ ~at'.in
    BY <1>2, <2>1, <2>3 DEF Positions
  <2>5. VectorsOK'
    BY <1>1, <1>2, <2>3, <2>4 DEF IInv, VectorsOK
  <2>6. Place'
    BY <1>1, <2>4 DEF IInv, Place
  <2>7. Ahead'
    <3>1. \A n \in at.j .. Len(devices) : Uncalled(devices[n])
      BY <1>1, <1>2, Vectors, DispatchAssumption DEF IInv, Ahead
    <3>2. \A n \in at.j + 1 .. Len(devices) : devices[n] # devices[at.j]
      <4>1. \A n \in at.j + 1 .. Len(devices) : n \in 1 .. Len(devices) /\ n # at.j
        BY <1>2, <2>2
      <4> QED  BY <2>2, <4>1, Vectors DEF IInv
    <3>3. Uncalled(devices[at.j])
      BY <2>2, <3>1
    <3>4. dev' = dev /\ devices' = devices
      BY <1>1
    <3>5. at'.i = 1 /\ at'.j = at.j /\ at'.k = 1 /\ at'.d = devices[at.j] /\ ~at'.in
      BY <2>4
    <3>6. at'.i <= 1 /\ at'.j = 0 => \A o \in ToSet(devices) : Uncalled(o)
      BY <1>2, <2>2, <3>5
    <3>7. \A n \in at'.j .. Len(devices) : devices[n] # at'.d => Uncalled(devices[n])
      BY <3>1, <3>5
    <3>8. \A n \in at'.j + 1 .. Len(devices) : devices[n] # at'.d
      BY <3>2, <3>5
    <3>9. \A n \in DOMAIN dev[at'.d].listener : dev[at'.d].listener[n].heard = 0
      BY <3>3, <3>5 DEF Uncalled
    <3>10. \A o : Uncalled(o)' <=> Uncalled(o)
      BY <3>4 DEF Uncalled
    <3> QED  BY <3>4, <3>6, <3>7, <3>8, <3>9, <3>10 DEF Ahead
  <2> QED  BY <1>3, <2>5, <2>6, <2>7 DEF IInv
<1>6. CASE ~(at.j > Len(devices)) /\ ~Accepts(devices[at.j])
  <2>1. at' = [at EXCEPT !.j = @ + 1]
    BY <1>1, <1>6
  <2>2. at' \in Positions /\ at'.i = 1 /\ at'.j = at.j + 1 /\ at'.k = 0 /\ at'.d = None /\ ~at'.in
    <3>1. at.j + 1 \in Nat
      BY <1>2
    <3>2. \A j \in Nat : [at EXCEPT !.j = j] \in Positions
      BY <1>2 DEF Positions
    <3> QED  BY <1>1, <1>2, <2>1, <3>1, <3>2 DEF Positions
  <2>3. VectorsOK'
    BY <1>1, <1>2, <2>2 DEF IInv, VectorsOK
  <2>4. Place'
    BY <1>1, <2>2 DEF IInv, Place
  <2>5. Ahead'
    <3>1. \A n \in at.j + 1 .. Len(devices) : n \in at.j .. Len(devices)
      BY <1>2
    <3> QED  BY <1>1, <1>2, <2>2, <3>1 DEF IInv, Ahead, Uncalled
  <2> QED  BY <1>3, <2>3, <2>4, <2>5 DEF IInv
<1> QED  BY <1>4, <1>5, <1>6

\* The next listener of a device, or the end of them.
LEMMA NextDeviceListenerOnce ==
  ASSUME IInv, NextDeviceListener
  PROVE  IInv'
<1> DEFINE l == dev[at.d].listener
<1>1. /\ at.k > 0 /\ ~at.in /\ UNCHANGED <<current, devices, listeners>>
      /\ IF at.k > Len(l)
         THEN at' = [at EXCEPT !.k = 0, !.d = None, !.j = @ + 1] /\ dev' = dev
         ELSE IF Matches(l[at.k].for)
         THEN /\ at' = [at EXCEPT !.in = TRUE]
              /\ dev' = [dev EXCEPT ![at.d].listener[at.k].heard = @ + 1]
         ELSE at' = [at EXCEPT !.k = @ + 1] /\ dev' = dev
  BY DEF NextDeviceListener, receptionVars
<1>2. /\ at \in Positions /\ at.i = 1 /\ at.j > 0 /\ current # None
      /\ at.j \in Nat /\ at.k \in Nat /\ at.d # None
      /\ at.d \in Device /\ at.d \in ToSet(devices)
  BY <1>1, Vectors DEF IInv, VectorsOK, Place, Positions, Nowhere
<1>3. /\ \A n \in at.j .. Len(devices) : devices[n] # at.d => Uncalled(devices[n])
      /\ \A n \in at.j + 1 .. Len(devices) : devices[n] # at.d
      /\ \A n \in 1 .. Len(l) : n >= at.k => l[n].heard = 0
  <2>1. \A n \in DOMAIN l : n > at.k \/ n = at.k => l[n].heard = 0
    BY <1>1 DEF IInv, Ahead
  <2>2. DOMAIN l = 1 .. Len(l) /\ Len(l) \in Nat
    BY <1>2, Vectors DEF IInv
  <2>3. \A n \in 1 .. Len(l) : n >= at.k => n > at.k \/ n = at.k
    BY <1>2
  <2> HIDE DEF l
  <2> QED  BY <1>1, <1>2, <2>1, <2>2, <2>3 DEF IInv, Ahead
<1>4. \A n \in at.j + 1 .. Len(devices) : n \in at.j .. Len(devices)
  BY <1>2
<1>5. CASE at.k > Len(l)
  <2>1. at' = [at EXCEPT !.k = 0, !.d = None, !.j = @ + 1] /\ dev' = dev
    BY <1>1, <1>5
  <2>2. at' \in Positions /\ at'.i = 1 /\ at'.j = at.j + 1 /\ at'.k = 0 /\ at'.d = None /\ ~at'.in
    <3>1. at.j + 1 \in Nat
      BY <1>2
    <3>2. \A j \in Nat : [at EXCEPT !.k = 0, !.d = None, !.j = j] \in Positions
      BY <1>2 DEF Positions
    <3>3. at'.i = at.i /\ at'.j = at.j + 1 /\ at'.k = 0 /\ at'.d = None
      BY <1>2, <2>1 DEF Positions
    <3>4. at'.in <=> at.in
      BY <1>2, <2>1 DEF Positions
    <3> QED  BY <1>1, <1>2, <2>1, <3>1, <3>2, <3>3, <3>4
  <2>3. VectorsOK'
    BY <1>1, <1>2, <2>1, <2>2 DEF IInv, VectorsOK
  <2>4. Place'
    BY <1>1, <1>2, <2>2 DEF IInv, Place
  <2>5. Ahead'
    BY <1>1, <1>2, <1>3, <1>4, <2>1, <2>2 DEF Ahead, Uncalled
  <2>6. HeardOnce'
    BY <2>1 DEF IInv, HeardOnce
  <2> QED  BY <2>3, <2>4, <2>5, <2>6 DEF IInv
<1>6. CASE ~(at.k > Len(l)) /\ Matches(l[at.k].for)
  <2>1. /\ at' = [at EXCEPT !.in = TRUE]
        /\ dev' = [dev EXCEPT ![at.d].listener[at.k].heard = @ + 1]
    BY <1>1, <1>6
  <2>2. /\ at' \in Positions /\ at'.i = at.i /\ at'.j = at.j /\ at'.k = at.k /\ at'.d = at.d
        /\ at'.in
    BY <1>2, <2>1 DEF Positions
  <2>3. Len(l) \in Nat /\ DOMAIN l = 1 .. Len(l) /\ at.k \in 1 .. Len(l)
        /\ \A n \in 1 .. Len(l) : l[n] \in Listener
    BY <1>1, <1>2, <1>6, Vectors DEF IInv
  <2>4. /\ dev' \in [Device -> DeviceRecords]
        /\ \A o \in Device \ {at.d} : dev'[o] = dev[o]
        /\ Len(dev'[at.d].listener) = Len(l)
        /\ \A n \in 1 .. Len(l) :
             dev'[at.d].listener[n] = IF n = at.k THEN [l[n] EXCEPT !.heard = @ + 1] ELSE l[n]
    <3>1. VectorsOK /\ at.k > 0 /\ at.k <= Len(dev[at.d].listener)
      BY <1>1, <1>2, <2>3 DEF IInv
    <3> QED  BY <2>1, <3>1, CallEffect
  <2>5. VectorsOK'
    <3>1. \A o \in Device : Len(dev'[o].listener) <= ListenerMax
      BY <1>2, <2>4 DEF IInv, VectorsOK
    <3> QED  BY <1>1, <1>2, <2>2, <2>4, <3>1 DEF IInv, VectorsOK
  <2>6. DOMAIN dev'[at.d].listener = 1 .. Len(l)
    BY <1>2, <2>2, <2>4, <2>5, ElementsAreAtIndexes DEF VectorsOK, DeviceRecords
  <2>7. Place'
    BY <1>1, <1>2, <2>2 DEF IInv, Place
  <2>8. Ahead'
    <3>1. \A n \in at.j .. Len(devices) : devices[n] # at.d => Uncalled(devices[n])'
      <4> SUFFICES ASSUME NEW n \in at.j .. Len(devices), devices[n] # at.d
                   PROVE  Uncalled(devices[n])'
        OBVIOUS
      <4>1. n \in 1 .. Len(devices)
        BY <1>2
      <4>2. devices[n] \in Device \ {at.d}
        BY <4>1, Vectors DEF IInv
      <4> QED  BY <1>1, <1>3, <2>4, <4>2 DEF Uncalled
    <3>2. ASSUME NEW n \in 1 .. Len(l), n > at.k
          PROVE  dev'[at.d].listener[n].heard = 0
      <4>1. n # at.k /\ n >= at.k
        BY <1>2, <2>3, <3>2
      <4>2. dev'[at.d].listener[n] = l[n] /\ l[n].heard = 0
        <5> HIDE DEF l
        <5> QED  BY <1>3, <2>4, <4>1
      <4> QED  BY <4>2
    <3> QED  BY <1>1, <1>2, <1>3, <2>2, <2>6, <3>1, <3>2 DEF Ahead
  <2>9. HeardOnce'
    <3>1. \A n \in 1 .. Len(l) : dev'[at.d].listener[n].heard <= 1
      <4>1. [l[at.k] EXCEPT !.heard = @ + 1].heard = 1
        <5>1. l[at.k] \in Listener /\ l[at.k].heard = 0
          BY <1>2, <1>3, <2>3
        <5> QED  BY <5>1 DEF Listener
      <4>2. \A n \in 1 .. Len(l) : l[n].heard <= 1
        BY <1>2, <2>3 DEF IInv, HeardOnce
      <4>3. dev'[at.d].listener[at.k].heard = 1
        BY <2>3, <2>4, <4>1
      <4>4. \A n \in 1 .. Len(l) : n # at.k => dev'[at.d].listener[n] = l[n]
        BY <2>4
      <4> HIDE DEF l
      <4> QED  BY <2>3, <4>2, <4>3, <4>4
    <3> QED  BY <1>2, <2>4, <2>6, <3>1 DEF IInv, HeardOnce
  <2> QED  BY <2>5, <2>7, <2>8, <2>9 DEF IInv
<1>7. CASE ~(at.k > Len(l)) /\ ~Matches(l[at.k].for)
  <2>1. at' = [at EXCEPT !.k = @ + 1] /\ dev' = dev
    BY <1>1, <1>7
  <2>2. /\ at' \in Positions /\ at'.i = at.i /\ at'.j = at.j /\ at'.k = at.k + 1 /\ at'.d = at.d
        /\ ~at'.in
    <3>1. \A k \in Nat : [at EXCEPT !.k = k] \in Positions
      BY <1>2 DEF Positions
    <3> QED  BY <1>1, <1>2, <2>1, <3>1 DEF Positions
  <2>3. VectorsOK'
    BY <1>1, <1>2, <2>1, <2>2 DEF IInv, VectorsOK
  <2>4. Place'
    BY <1>1, <1>2, <2>2 DEF IInv, Place
  <2>5. Ahead'
    <3>1. DOMAIN l = 1 .. Len(l) /\ Len(l) \in Nat
      BY <1>2, Vectors DEF IInv
    <3>2. ASSUME NEW n \in DOMAIN l, n > at.k + 1 \/ n = at.k + 1
          PROVE  l[n].heard = 0
      <4>1. n \in 1 .. Len(l)
        BY <3>1
      <4>2. n >= at.k
        BY <1>2, <3>1, <3>2, <4>1
      <4> HIDE DEF l
      <4> QED  BY <1>3, <4>1, <4>2
    <3> QED  BY SMTT(30), <1>1, <1>2, <1>3, <2>1, <2>2, <3>2 DEF Ahead, Uncalled
  <2>6. HeardOnce'
    BY <2>1 DEF IInv, HeardOnce
  <2> QED  BY <2>3, <2>4, <2>5, <2>6 DEF IInv
<1> QED  BY <1>5, <1>6, <1>7

\* A function of the program returns.
LEMMA ReturnOnce ==
  ASSUME IInv, Return
  PROVE  IInv'
<1>1. /\ at.in /\ UNCHANGED <<current, dev, devices, listeners>>
      /\ at' = IF at.k > 0 THEN [at EXCEPT !.in = FALSE, !.k = @ + 1]
                           ELSE [at EXCEPT !.in = FALSE, !.i = @ + 1]
  BY DEF Return, receptionVars
<1>2. /\ at \in Positions /\ at.i \in Nat /\ at.j \in Nat /\ at.k \in Nat
      /\ current # None /\ at.i > 0
  BY <1>1 DEF IInv, VectorsOK, Place, Positions, Nowhere
<1>3. \A m \in Nat : /\ [at EXCEPT !.in = FALSE, !.k = m] \in Positions
                     /\ [at EXCEPT !.in = FALSE, !.i = m] \in Positions
  BY <1>2 DEF Positions
<1>4. HeardOnce'
  BY <1>1 DEF IInv, HeardOnce
<1>5. CASE at.k > 0
  <2>1. at' = [at EXCEPT !.in = FALSE, !.k = @ + 1]
    BY <1>1, <1>5
  <2>2. /\ at' \in Positions /\ at'.i = at.i /\ at'.j = at.j /\ at'.k = at.k + 1 /\ at'.d = at.d
        /\ ~at'.in
    <3>1. at'.i = at.i /\ at'.j = at.j /\ at'.k = at.k + 1 /\ at'.d = at.d
      BY <1>2, <2>1 DEF Positions
    <3>2. at'.in = FALSE
      BY <1>2, <2>1 DEF Positions
    <3>3. at.k + 1 \in Nat
      BY <1>2
    <3>4. at' \in Positions
      BY <1>3, <2>1, <3>3
    <3>5. ~at'.in
      BY <3>2
    <3> QED  BY <3>1, <3>4, <3>5
  <2>3. VectorsOK'
    BY <1>1, <1>2, <1>5, <2>2 DEF IInv, VectorsOK
  <2>4. Place'
    BY <1>1, <1>2, <1>5, <2>2 DEF IInv, Place
  <2>5. Ahead'
    <3>1. at.d \in Device
      BY <1>5, Vectors DEF IInv, VectorsOK
    <3>2. /\ DOMAIN dev[at.d].listener \subseteq Nat
          /\ \A n \in Nat : n > at.k + 1 \/ n = at.k + 1 => n > at.k
      BY <1>2, <3>1, Vectors DEF IInv
    <3>3. /\ \A n \in at.j .. Len(devices) : devices[n] # at.d => Uncalled(devices[n])
          /\ \A n \in at.j + 1 .. Len(devices) : devices[n] # at.d
          /\ at.j > 0
          /\ \A n \in DOMAIN dev[at.d].listener : n > at.k => dev[at.d].listener[n].heard = 0
      BY <1>5 DEF IInv, Ahead, Place
    <3> QED  BY <1>1, <1>2, <2>2, <3>2, <3>3 DEF Ahead, Uncalled
  <2> QED  BY <1>4, <2>3, <2>4, <2>5 DEF IInv
<1>6. CASE ~(at.k > 0)
  <2>1. at' = [at EXCEPT !.in = FALSE, !.i = @ + 1]
    BY <1>1, <1>6
  <2>2. at.k = 0 /\ at.j = 0 /\ at.d = None
    BY <1>1, <1>2, <1>6 DEF IInv, Place, VectorsOK
  <2>3. at' \in Positions /\ at'.i = at.i + 1 /\ at'.j = 0 /\ at'.k = 0 /\ at'.d = None
    <3>1. at'.i = at.i + 1 /\ at'.j = at.j /\ at'.k = at.k /\ at'.d = at.d
      BY <1>2, <2>1 DEF Positions
    <3>2. at.i + 1 \in Nat
      BY <1>2
    <3>3. at' \in Positions
      BY <1>3, <2>1, <3>2
    <3> QED  BY <2>2, <3>1, <3>3
  <2>4. VectorsOK'
    BY <1>1, <1>2, <2>3 DEF IInv, VectorsOK
  <2>5. Place'
    BY <1>1, <1>2, <2>3 DEF IInv, Place
  <2>6. Ahead'
    BY <1>2, <2>3 DEF Ahead
  <2> QED  BY <1>4, <2>4, <2>5, <2>6 DEF IInv
<1> QED  BY <1>5, <1>6

\* The program calls the library between two messages or from a function of its own.
LEMMA CallTime ==
  ASSUME VectorsOK, MayCall
  PROVE  (current = None /\ at.k = 0) \/ at.in
BY DEF VectorsOK, MayCall, Nowhere

\* A listener that is added has not been called.
LEMMA ListenerAddOnce ==
  ASSUME IInv, NEW d \in Device, NEW f \in Func, NEW p \in Pattern, ListenerAdd(d, f, p)
  PROVE  IInv'
<1> DEFINE l == dev[d].listener
           m == dev'[d].listener
<1>1. UNCHANGED <<current, devices, listeners, at>>
  BY DEF ListenerAdd, receptionVars
<1>2. /\ dev' \in [Device -> DeviceRecords]
      /\ \A o \in Device \ {d} : dev'[o] = dev[o]
      /\ Len(m) = Len(l) + 1 /\ Len(m) <= ListenerMax
      /\ \A n \in 1 .. Len(l) : m[n] = l[n]
      /\ m[Len(l) + 1].heard = 0
  <2>1. /\ dev' \in [Device -> DeviceRecords]
        /\ \A o \in Device \ {d} : dev'[o] = dev[o]
        /\ Len(m) = Len(l) + 1 /\ Len(m) <= ListenerMax
        /\ \A n \in 1 .. Len(l) : m[n] = l[n]
        /\ m[Len(l) + 1] = Registered(f, p)
    BY ListenerAddEffect DEF IInv
  <2>2. Registered(f, p).heard = 0
    BY RegisteredIsFresh
  <2> QED  BY <2>1, <2>2
<1>3. /\ Len(l) \in Nat /\ DOMAIN l = 1 .. Len(l)
      /\ DOMAIN m = 1 .. Len(m)
  BY <1>2, Vectors, ElementsAreAtIndexes DEF IInv, DeviceRecords
<1>4. VectorsOK'
  <2>1. \A o \in Device : Len(dev'[o].listener) <= ListenerMax
    BY <1>2 DEF IInv, VectorsOK
  <2> QED  BY <1>1, <1>2, <2>1 DEF IInv, VectorsOK
<1>5. Place'
  BY <1>1 DEF IInv, Place
<1>6. \A n \in DOMAIN m : n \in 1 .. Len(l) \/ n = Len(l) + 1
  BY <1>2, <1>3
<1>7. \A o \in Device : Uncalled(o) => Uncalled(o)'
  <2>1. Uncalled(d) => Uncalled(d)'
    BY <1>2, <1>3, <1>6 DEF Uncalled
  <2> QED  BY <1>2, <2>1 DEF Uncalled
<1>8. Ahead'
  <2>1. \A n \in 1 .. Len(devices) : devices[n] \in Device
    BY Vectors DEF IInv
  <2>2. ASSUME at.j > 0, NEW n \in at.j .. Len(devices), devices[n] # at.d
        PROVE  Uncalled(devices[n])'
    <3>1. n \in 1 .. Len(devices)
      BY <2>2 DEF IInv, VectorsOK, Positions
    <3>2. devices[n] \in Device /\ Uncalled(devices[n]) /\ devices'[n] = devices[n]
      BY <1>1, <2>1, <2>2, <3>1 DEF IInv, Ahead
    <3> QED  BY <1>7, <3>2 DEF Uncalled
  <2>3. ASSUME at.k > 0, NEW n \in DOMAIN dev'[at.d].listener, n > at.k \/ (n = at.k /\ ~at.in)
        PROVE  dev'[at.d].listener[n].heard = 0
    <3>1. at.d \in Device
      BY <2>3, Vectors DEF IInv, VectorsOK
    <3>2. CASE at.d # d
      BY <1>2, <2>3, <3>1, <3>2 DEF IInv, Ahead
    <3>3. CASE at.d = d
      BY SMTT(30), <1>2, <1>3, <1>6, <2>3, <3>3 DEF IInv, Ahead
    <3> QED  BY <3>2, <3>3
  <2>4. at.i <= 1 /\ at.j = 0 => \A o \in ToSet(devices) : Uncalled(o)'
    BY <1>7, Vectors DEF IInv, Ahead
  <2>5. at.k > 0 => \A n \in at.j + 1 .. Len(devices) : devices[n] # at.d
    BY DEF IInv, Ahead
  <2> QED  BY <1>1, <2>2, <2>3, <2>4, <2>5 DEF Ahead
<1>9. HeardOnce'
  <2>1. \A n \in DOMAIN m : m[n].heard <= 1
    BY <1>2, <1>3, <1>6 DEF IInv, HeardOnce
  <2> QED  BY <1>2, <2>1 DEF IInv, HeardOnce
<1> QED  BY <1>4, <1>5, <1>8, <1>9 DEF IInv

\* A listener is removed: those that move up were behind it.
LEMMA ListenerRemoveOnce ==
  ASSUME IInv, NEW d \in Device, NEW f \in Func, ListenerRemove(d, f)
  PROVE  IInv'
<1> DEFINE l == dev[d].listener
           m == dev'[d].listener
<1>1. UNCHANGED <<current, devices, listeners>> /\ Disturb /\ MayCall
  BY DEF ListenerRemove, Call, receptionVars
<1>2. /\ at' \in Positions
      /\ at'.i = at.i /\ at'.j = at.j /\ at'.k = at.k /\ at'.d = at.d /\ (at'.in <=> at.in)
      /\ current = None => at' = at
  BY <1>1, Disturbs DEF IInv
<1>3. PICK r \in 1 .. Len(l) :
        /\ dev' \in [Device -> DeviceRecords]
        /\ \A o \in Device \ {d} : dev'[o] = dev[o]
        /\ Len(m) = Len(l) - 1
        /\ \A n \in 1 .. Len(l) - 1 : m[n] = l[IF n < r THEN n ELSE n + 1]
  BY ListenerRemoveEffect DEF IInv
<1>4. /\ Len(l) \in Nat /\ DOMAIN l = 1 .. Len(l) /\ DOMAIN m = 1 .. Len(m)
  BY <1>3, Vectors, ElementsAreAtIndexes DEF IInv, DeviceRecords
<1>5. VectorsOK'
  <2>1. Len(m) <= ListenerMax
    BY <1>3, <1>4, DispatchAssumption DEF IInv, VectorsOK
  <2>2. \A o \in Device : Len(dev'[o].listener) <= ListenerMax
    BY <1>3, <2>1 DEF IInv, VectorsOK
  <2>3. (current = None => at' = Nowhere) /\ (at'.k > 0 <=> at'.d # None)
        /\ (at'.d # None => at'.d \in ToSet(devices))
    BY <1>2 DEF IInv, VectorsOK
  <2> QED  BY <1>1, <1>2, <1>3, <2>2, <2>3 DEF IInv, VectorsOK
<1>6. Place'
  BY <1>1, <1>2 DEF IInv, Place
<1>7. ASSUME NEW n \in DOMAIN m
      PROVE  \E o \in DOMAIN l : o >= n /\ m[n] = l[o]
  <2>1. n \in 1 .. Len(l) - 1
    BY <1>3, <1>4
  <2>2. CASE n < r
    BY <1>3, <1>4, <2>1, <2>2
  <2>3. CASE ~(n < r)
    <3>1. n + 1 \in DOMAIN l /\ n + 1 >= n
      BY <1>4, <2>1
    <3> QED  BY <1>3, <2>1, <2>3, <3>1
  <2> QED  BY <2>2, <2>3
<1>8. \A o \in Device : Uncalled(o) => Uncalled(o)'
  <2>1. Uncalled(d) => Uncalled(d)'
    BY <1>7 DEF Uncalled
  <2> QED  BY <1>3, <2>1 DEF Uncalled
<1>9. Ahead'
  <2>1. \A n \in 1 .. Len(devices) : devices[n] \in Device
    BY Vectors DEF IInv
  <2>2. ASSUME at.j > 0, NEW n \in at.j .. Len(devices), devices[n] # at.d
        PROVE  Uncalled(devices[n])'
    <3>1. n \in 1 .. Len(devices)
      BY <2>2 DEF IInv, VectorsOK, Positions
    <3>2. devices[n] \in Device /\ Uncalled(devices[n]) /\ devices'[n] = devices[n]
      BY <1>1, <2>1, <2>2, <3>1 DEF IInv, Ahead
    <3> QED  BY <1>8, <3>2 DEF Uncalled
  <2>3. ASSUME at.k > 0, NEW n \in DOMAIN dev'[at.d].listener, n > at.k \/ (n = at.k /\ ~at.in)
        PROVE  dev'[at.d].listener[n].heard = 0
    <3>1. at.d \in Device /\ at.in /\ n > at.k /\ at.k \in Nat
      BY <1>1, <2>3, Vectors, CallTime DEF IInv, VectorsOK, Positions
    <3>2. CASE at.d # d
      BY <1>3, <2>3, <3>1, <3>2 DEF IInv, Ahead
    <3>3. CASE at.d = d
      <4>1. PICK o \in DOMAIN l : o >= n /\ m[n] = l[o]
        BY <1>7, <2>3, <3>3
      <4>2. o > at.k
        BY SMTT(30), <1>3, <1>4, <2>3, <3>1, <3>3, <4>1
      <4> QED  BY <2>3, <3>3, <4>1, <4>2 DEF IInv, Ahead
    <3> QED  BY <3>2, <3>3
  <2>4. at.i <= 1 /\ at.j = 0 => \A o \in ToSet(devices) : Uncalled(o)'
    BY <1>8, Vectors DEF IInv, Ahead
  <2>5. at.k > 0 => \A n \in at.j + 1 .. Len(devices) : devices[n] # at.d
    BY DEF IInv, Ahead
  <2> QED  BY <1>1, <1>2, <2>2, <2>3, <2>4, <2>5 DEF Ahead
<1>10. HeardOnce'
  <2>1. \A n \in DOMAIN m : m[n].heard <= 1
    BY <1>7 DEF IInv, HeardOnce
  <2> QED  BY <1>3, <2>1 DEF IInv, HeardOnce
<1> QED  BY <1>5, <1>6, <1>9, <1>10 DEF IInv

\* A message listener is added: it is not the dispatcher.
LEMMA MessageListenerAddOnce ==
  ASSUME IInv, NEW f \in Func, MessageListenerAdd(f)
  PROVE  IInv'
<1>1. /\ UNCHANGED <<current, dev, devices, at>>
      /\ listeners' = Append(listeners, f) /\ Len(listeners) < ListenerMax
  BY DEF MessageListenerAdd, receptionVars
<1>2. /\ listeners' \in Seq(Func \cup {Dispatcher}) /\ Len(listeners') = Len(listeners) + 1
      /\ \A n \in 1 .. Len(listeners) : listeners'[n] = listeners[n]
      /\ listeners'[Len(listeners) + 1] = f
  BY <1>1, AppendType DEF IInv, VectorsOK
<1>3. Len(listeners) \in Nat /\ ListenerMax \in Nat
  BY Vectors, DispatchAssumption DEF IInv
<1>4. VectorsOK'
  <2>1. Len(listeners') <= ListenerMax
    BY <1>1, <1>2, <1>3
  <2> QED  BY <1>1, <1>2, <2>1 DEF IInv, VectorsOK
<1>5. Place'
  <2>1. ASSUME NEW n \in 2 .. Len(listeners')
        PROVE  listeners'[n] # Dispatcher
    <3>1. n \in 2 .. Len(listeners) \/ n = Len(listeners) + 1
      BY <1>2, <1>3
    <3>2. n \in 2 .. Len(listeners) => listeners'[n] = listeners[n]
      BY <1>2, <1>3
    <3> QED  BY <1>2, <3>1, <3>2, DispatchAssumption DEF IInv, Place
  <2> QED  BY <1>1, <2>1 DEF IInv, Place
<1>6. Ahead' /\ HeardOnce'
  BY <1>1 DEF IInv, Ahead, Uncalled, HeardOnce
<1> QED  BY <1>4, <1>5, <1>6 DEF IInv

\* A message listener is removed: the dispatcher is first or gone.
LEMMA MessageListenerRemoveOnce ==
  ASSUME IInv, NEW f \in Func, MessageListenerRemove(f)
  PROVE  IInv'
<1>1. UNCHANGED <<current, dev, devices>> /\ Disturb
  BY DEF MessageListenerRemove, receptionVars
<1>2. /\ at' \in Positions
      /\ at'.i = at.i /\ at'.j = at.j /\ at'.k = at.k /\ at'.d = at.d /\ (at'.in <=> at.in)
      /\ current = None => at' = at
  BY <1>1, Disturbs DEF IInv
<1>3. PICK r \in 1 .. Len(listeners) :
        /\ listeners' \in Seq(Func \cup {Dispatcher})
        /\ Len(listeners') = Len(listeners) - 1
        /\ \A m \in 1 .. Len(listeners) - 1 :
             listeners'[m] = listeners[IF m < r THEN m ELSE m + 1]
  BY MessageListenerRemoveEffect DEF IInv
<1>4. Len(listeners) \in Nat /\ ListenerMax \in Nat
  BY Vectors, DispatchAssumption DEF IInv
<1>5. VectorsOK'
  <2>1. Len(listeners') <= ListenerMax
    BY <1>3, <1>4 DEF IInv, VectorsOK
  <2>2. (current = None => at' = Nowhere) /\ (at'.k > 0 <=> at'.d # None)
        /\ (at'.d # None => at'.d \in ToSet(devices))
    BY <1>2 DEF IInv, VectorsOK
  <2> QED  BY <1>1, <1>2, <1>3, <2>1, <2>2 DEF IInv, VectorsOK
<1>6. Place'
  <2>1. ASSUME NEW n \in 2 .. Len(listeners')
        PROVE  listeners'[n] # Dispatcher
    <3>1. n \in 1 .. Len(listeners) - 1 /\ n \in 2 .. Len(listeners) /\ n + 1 \in 2 .. Len(listeners)
      BY <1>3, <1>4
    <3> QED  BY <1>3, <3>1 DEF IInv, Place
  <2> QED  BY <1>1, <1>2, <2>1 DEF IInv, Place
<1>7. Ahead' /\ HeardOnce'
  BY <1>1, <1>2 DEF IInv, Ahead, Uncalled, HeardOnce
<1> QED  BY <1>5, <1>6, <1>7 DEF IInv

\* A device that is added has listeners that have not been called.
LEMMA AddDeviceOnce ==
  ASSUME IInv, NEW d \in Device, NEW id \in Id,
         AddDevice(d, id) \/ AddConfigurableDevice(d, id)
  PROVE  IInv'
<1>1. UNCHANGED <<current, listeners, at>>
  BY DEF AddDevice, AddConfigurableDevice, Enlist, receptionVars
<1>2. /\ d \notin ToSet(devices)
      /\ dev' \in [Device -> DeviceRecords]
      /\ \A o \in Device \ {d} : dev'[o] = dev[o]
      /\ Len(dev'[d].listener) <= 1
      /\ \A n \in 1 .. Len(dev'[d].listener) : dev'[d].listener[n].heard = 0
      /\ devices' \in Seq(Device) /\ Len(devices') = Len(devices) + 1
      /\ \A n \in 1 .. Len(devices) : devices'[n] = devices[n]
      /\ devices'[Len(devices) + 1] = d
  BY EnlistEffect DEF IInv
<1>3. /\ Len(devices) \in Nat /\ DOMAIN devices' = 1 .. Len(devices')
      /\ \A n \in 1 .. Len(devices') : devices'[n] \in ToSet(devices')
      /\ \A o \in ToSet(devices') : \E n \in 1 .. Len(devices') : devices'[n] = o
  BY <1>2, Vectors, ElementsAreAtIndexes DEF IInv
<1>4. \A n \in 1 .. Len(devices') :
        \/ n \in 1 .. Len(devices) /\ devices'[n] = devices[n] /\ devices[n] \in Device \ {d}
        \/ n = Len(devices) + 1 /\ devices'[n] = d
  <2>1. \A n \in 1 .. Len(devices) : devices[n] \in Device \ {d}
    BY <1>2, Vectors DEF IInv
  <2>2. \A n \in 1 .. Len(devices') : n \in 1 .. Len(devices) \/ n = Len(devices) + 1
    BY <1>2, <1>3
  <2> QED  BY <1>2, <2>1, <2>2
<1>5. \A o \in ToSet(devices) : o \in ToSet(devices') /\ o # d
  <2>1. \A n \in 1 .. Len(devices) : n \in 1 .. Len(devices')
    BY <1>2, <1>3
  <2> QED  BY <1>2, <1>3, <2>1, Vectors DEF IInv
<1>6. DOMAIN dev'[d].listener = 1 .. Len(dev'[d].listener) /\ Len(dev'[d].listener) \in Nat
  BY <1>2, ElementsAreAtIndexes DEF DeviceRecords
<1>7. VectorsOK'
  <2>1. \A o \in Device : Len(dev'[o].listener) <= ListenerMax
    <3>1. Len(dev'[d].listener) <= ListenerMax
      BY <1>2, <1>6, DispatchAssumption
    <3> QED  BY <1>2, <3>1 DEF IInv, VectorsOK
  <2>2. IsInjective(devices')
    <3>1. \A m, n \in 1 .. Len(devices') : devices'[m] = devices'[n] => m = n
      BY <1>4, Vectors DEF IInv
    <3> QED  BY <1>3, <3>1 DEF IsInjective
  <2> QED  BY <1>1, <1>2, <1>5, <2>1, <2>2 DEF IInv, VectorsOK
<1>8. Place'
  BY <1>1 DEF IInv, Place
<1>9. Uncalled(d)' /\ \A o \in Device \ {d} : Uncalled(o) => Uncalled(o)'
  BY <1>2, <1>6 DEF Uncalled
<1>10. Ahead'
  <2>1. at.i <= 1 /\ at.j = 0 => \A o \in ToSet(devices') : Uncalled(o)'
    BY <1>3, <1>4, <1>9, Vectors DEF IInv, Ahead
  <2>2. ASSUME at.j > 0, NEW n \in at.j .. Len(devices'), devices'[n] # at.d
        PROVE  Uncalled(devices[n])'
    <3>1. n \in 1 .. Len(devices')
      BY <1>2, <1>3, <2>2 DEF IInv, VectorsOK, Positions
    <3>2. CASE n \in 1 .. Len(devices) /\ devices'[n] = devices[n] /\ devices[n] \in Device \ {d}
      <4>1. n \in at.j .. Len(devices)
        BY <2>2, <3>2 DEF IInv, VectorsOK, Positions
      <4>2. Uncalled(devices[n])
        BY <2>2, <3>2, <4>1 DEF IInv, Ahead
      <4> QED  BY <1>9, <3>2, <4>2 DEF Uncalled
    <3>3. CASE n = Len(devices) + 1 /\ devices'[n] = d
      BY <1>9, <3>3 DEF Uncalled
    <3> QED  BY <1>4, <3>1, <3>2, <3>3
  <2>3. ASSUME at.k > 0
        PROVE  /\ \A n \in at.j + 1 .. Len(devices') : devices'[n] # at.d
               /\ at.d # d /\ at.d \in Device
    <3>1. at.d \in ToSet(devices) /\ at.d \in Device /\ at.d # d /\ at.j > 0 /\ at.j \in Nat
      BY <1>5, <2>3, Vectors DEF IInv, VectorsOK, Place, Positions
    <3>2. ASSUME NEW n \in at.j + 1 .. Len(devices')
          PROVE  devices'[n] # at.d
      <4>1. n \in 1 .. Len(devices') /\ (n \in at.j + 1 .. Len(devices) \/ n = Len(devices) + 1)
        BY <1>2, <1>3, <3>1, <3>2
      <4> QED  BY <1>2, <1>4, <2>3, <3>1, <4>1 DEF IInv, Ahead
    <3> QED  BY <3>1, <3>2
  <2>4. ASSUME at.k > 0, NEW n \in DOMAIN dev'[at.d].listener, n > at.k \/ (n = at.k /\ ~at.in)
        PROVE  dev'[at.d].listener[n].heard = 0
    BY <1>2, <2>3, <2>4 DEF IInv, Ahead
  <2> QED  BY <1>1, <2>1, <2>2, <2>3, <2>4 DEF Ahead
<1>11. HeardOnce'
  <2>1. \A n \in DOMAIN dev'[d].listener : dev'[d].listener[n].heard <= 1
    BY <1>2, <1>6
  <2> QED  BY <1>2, <2>1 DEF IInv, HeardOnce
<1> QED  BY <1>7, <1>8, <1>10, <1>11 DEF IInv

\* A device is removed: those that move up were behind it.
LEMMA RemoveDeviceOnce ==
  ASSUME IInv, NEW d \in Device, RemoveDevice(d)
  PROVE  IInv'
<1>1. UNCHANGED <<current, listeners>> /\ Disturb
  BY DEF RemoveDevice, receptionVars
<1>2. /\ at' \in Positions
      /\ at'.i = at.i /\ at'.j = at.j /\ at'.k = at.k /\ at'.d = at.d /\ (at'.in <=> at.in)
      /\ current = None => at' = at
  BY <1>1, Disturbs DEF IInv
<1>3. PICK r \in 1 .. Len(devices) :
        /\ devices[r] # at.d
        /\ dev' = [dev EXCEPT ![devices[r]] = [dev[devices[r]] EXCEPT !.listener = << >>]]
        /\ devices' \in Seq(Device) /\ Len(devices') = Len(devices) - 1
        /\ \A m \in 1 .. Len(devices) - 1 :
             devices'[m] = devices[IF m < r THEN m ELSE m + 1]
  BY RemoveDeviceEffect DEF IInv
<1> DEFINE g == devices[r]
<1>4. /\ Len(devices) \in Nat /\ DOMAIN devices' = 1 .. Len(devices')
      /\ \A n \in 1 .. Len(devices') : devices'[n] \in ToSet(devices')
      /\ \A o \in ToSet(devices') : \E n \in 1 .. Len(devices') : devices'[n] = o
  BY <1>3, Vectors, ElementsAreAtIndexes DEF IInv
<1>5. /\ g \in Device
      /\ dev' \in [Device -> DeviceRecords] /\ dev'[g].listener = << >>
      /\ \A o \in Device \ {g} : dev'[o] = dev[o]
  <2>1. g \in Device /\ dev[g] \in DeviceRecords
    BY Vectors DEF IInv
  <2>2. << >> \in Seq(Listener)
    BY EmptySeq
  <2>3. /\ [dev[g] EXCEPT !.listener = << >>] \in DeviceRecords
        /\ [dev[g] EXCEPT !.listener = << >>].listener = << >>
    BY <2>1, <2>2 DEF DeviceRecords
  <2> QED  BY <1>3, <2>1, <2>3 DEF IInv, VectorsOK
<1>6. ASSUME NEW n \in 1 .. Len(devices')
      PROVE  \E o \in 1 .. Len(devices) :
               o >= n /\ devices'[n] = devices[o] /\ o = IF n < r THEN n ELSE n + 1
  <2>1. n \in 1 .. Len(devices) - 1
    BY <1>3, <1>4
  <2>2. CASE n < r
    BY <1>3, <1>4, <2>1, <2>2
  <2>3. CASE ~(n < r)
    <3>1. n + 1 \in 1 .. Len(devices) /\ n + 1 >= n
      BY <1>4, <2>1
    <3> QED  BY <1>3, <2>1, <2>3, <3>1
  <2> QED  BY <2>2, <2>3
<1>7. \A o \in ToSet(devices) : o # g => o \in ToSet(devices')
  <2> SUFFICES ASSUME NEW o \in ToSet(devices), o # g
               PROVE  o \in ToSet(devices')
    OBVIOUS
  <2>1. PICK n \in 1 .. Len(devices) : devices[n] = o
    BY Vectors DEF IInv
  <2>2. CASE n < r
    <3>1. n \in 1 .. Len(devices) - 1 /\ n \in 1 .. Len(devices')
      BY <1>3, <1>4, <2>2
    <3> QED  BY <1>3, <1>4, <2>1, <2>2, <3>1
  <2>3. CASE n > r
    <3>1. /\ n - 1 \in 1 .. Len(devices) - 1 /\ n - 1 \in 1 .. Len(devices')
          /\ ~(n - 1 < r) /\ n - 1 + 1 = n
      BY <1>3, <1>4, <2>3
    <3> QED  BY <1>3, <1>4, <2>1, <3>1
  <2> QED  BY <2>1, <2>2, <2>3
<1>8. VectorsOK'
  <2>1. \A o \in Device : Len(dev'[o].listener) <= ListenerMax
    <3>1. Len(dev'[g].listener) = 0
      BY <1>5
    <3>2. Len(dev'[g].listener) <= ListenerMax
      BY <3>1, DispatchAssumption
    <3> QED  BY <1>5, <3>2 DEF IInv, VectorsOK
  <2>2. IsInjective(devices')
    <3>1. ASSUME NEW m \in 1 .. Len(devices'), NEW n \in 1 .. Len(devices'),
                 devices'[m] = devices'[n]
          PROVE  m = n
      <4>1. PICK p \in 1 .. Len(devices) :
              devices'[m] = devices[p] /\ p = IF m < r THEN m ELSE m + 1
        BY <1>6
      <4>2. PICK q \in 1 .. Len(devices) :
              devices'[n] = devices[q] /\ q = IF n < r THEN n ELSE n + 1
        BY <1>6
      <4>3. p = q
        BY <3>1, <4>1, <4>2, Vectors DEF IInv
      <4> QED  BY <4>1, <4>2, <4>3
    <3> QED  BY <1>4, <3>1 DEF IsInjective
  <2>3. (current = None => at' = Nowhere) /\ (at'.k > 0 <=> at'.d # None)
        /\ (at'.d # None => at'.d \in ToSet(devices'))
    BY <1>2, <1>3, <1>7 DEF IInv, VectorsOK
  <2> QED  BY <1>1, <1>2, <1>3, <1>5, <2>1, <2>2, <2>3 DEF IInv, VectorsOK
<1>9. Place'
  BY <1>1, <1>2 DEF IInv, Place
<1>10. \A o \in Device : Uncalled(o) => Uncalled(o)'
  <2>1. \A n \in DOMAIN dev'[g].listener : dev'[g].listener[n].heard = 0
    BY <1>5
  <2> QED  BY <1>5, <2>1 DEF Uncalled
<1>11. Ahead'
  <2>1. at.i <= 1 /\ at.j = 0 => \A o \in ToSet(devices') : Uncalled(o)'
    BY <1>4, <1>6, <1>10, Vectors DEF IInv, Ahead
  <2>2. ASSUME at.j > 0, NEW n \in at.j .. Len(devices'), devices'[n] # at.d
        PROVE  Uncalled(devices[n])'
    <3>1. n \in 1 .. Len(devices') /\ at.j \in Nat
      BY <1>3, <1>4, <2>2 DEF IInv, VectorsOK, Positions
    <3>2. PICK o \in 1 .. Len(devices) : o >= n /\ devices'[n] = devices[o]
      BY <1>6, <3>1
    <3>3. o \in at.j .. Len(devices) /\ devices[o] \in Device
      BY <2>2, <3>1, <3>2, Vectors DEF IInv
    <3>4. Uncalled(devices[o])
      BY <2>2, <3>2, <3>3 DEF IInv, Ahead
    <3> QED  BY <1>10, <3>2, <3>3, <3>4 DEF Uncalled
  <2>3. ASSUME at.k > 0, NEW n \in at.j + 1 .. Len(devices')
        PROVE  devices'[n] # at.d
    <3>1. n \in 1 .. Len(devices') /\ at.j \in Nat
      BY <1>3, <1>4, <2>3 DEF IInv, VectorsOK, Positions
    <3>2. PICK o \in 1 .. Len(devices) : o >= n /\ devices'[n] = devices[o]
      BY <1>6, <3>1
    <3>3. o \in at.j + 1 .. Len(devices)
      BY <2>3, <3>1, <3>2
    <3> QED  BY <2>3, <3>2, <3>3 DEF IInv, Ahead
  <2>4. ASSUME at.k > 0, NEW n \in DOMAIN dev'[at.d].listener, n > at.k \/ (n = at.k /\ ~at.in)
        PROVE  dev'[at.d].listener[n].heard = 0
    <3>1. at.d \in Device \ {g}
      BY <1>3, <2>4, Vectors DEF IInv, VectorsOK
    <3> QED  BY <1>5, <2>4, <3>1 DEF IInv, Ahead
  <2> QED  BY <1>2, <2>1, <2>2, <2>3, <2>4 DEF Ahead
<1>12. HeardOnce'
  <2>1. \A n \in DOMAIN dev'[g].listener : dev'[g].listener[n].heard <= 1
    BY <1>5
  <2> QED  BY <1>5, <2>1 DEF IInv, HeardOnce
<1> QED  BY <1>8, <1>9, <1>11, <1>12 DEF IInv

\* A device changes otherwise.
LEMMA RetuneOnce ==
  ASSUME IInv, NEW d \in Device, Retunes(d)
  PROVE  IInv'
<1>1. /\ UNCHANGED <<current, devices, listeners>> /\ Disturb
      /\ dev' \in [Device -> DeviceRecords]
      /\ \A o \in Device : dev'[o].listener = dev[o].listener
  BY RetuneEffect DEF IInv, receptionVars
<1>2. /\ at' \in Positions
      /\ at'.i = at.i /\ at'.j = at.j /\ at'.k = at.k /\ at'.d = at.d /\ (at'.in <=> at.in)
      /\ current = None => at' = at
  BY <1>1, Disturbs DEF IInv
<1>3. VectorsOK'
  <2>1. \A o \in Device : Len(dev'[o].listener) <= ListenerMax
    BY <1>1 DEF IInv, VectorsOK
  <2>2. (current = None => at' = Nowhere) /\ (at'.k > 0 <=> at'.d # None)
        /\ (at'.d # None => at'.d \in ToSet(devices))
    BY <1>2 DEF IInv, VectorsOK
  <2> QED  BY <1>1, <1>2, <2>1, <2>2 DEF IInv, VectorsOK
<1>4. Place'
  BY <1>1, <1>2 DEF IInv, Place
<1>5. \A o \in Device : Uncalled(o) => Uncalled(o)'
  BY <1>1 DEF Uncalled
<1>6. Ahead'
  <2>1. at.i <= 1 /\ at.j = 0 => \A o \in ToSet(devices) : Uncalled(o)'
    BY <1>5, Vectors DEF IInv, Ahead
  <2>2. ASSUME at.j > 0, NEW n \in at.j .. Len(devices), devices[n] # at.d
        PROVE  Uncalled(devices[n])'
    <3>1. n \in 1 .. Len(devices)
      BY <2>2 DEF IInv, VectorsOK, Positions
    <3>2. devices[n] \in Device /\ Uncalled(devices[n])
      BY <2>2, <3>1, Vectors DEF IInv, Ahead
    <3> QED  BY <1>1, <1>5, <3>2 DEF Uncalled
  <2>3. at.k > 0 => at.d \in Device
    BY Vectors DEF IInv, VectorsOK
  <2> QED  BY <1>1, <1>2, <2>1, <2>2, <2>3 DEF IInv, Ahead
<1>7. HeardOnce'
  BY <1>1 DEF IInv, HeardOnce
<1> QED  BY <1>3, <1>4, <1>6, <1>7 DEF IInv

-----------------------------------------------------------------------------
(* The first theorem *)

\* The steps of the system, the quiet ones included.
LEMMA StepOnce ==
  ASSUME IInv, [Next]_vars
  PROVE  IInv'
<1>1. CASE UNCHANGED vars
  BY <1>1 DEF vars, receptionVars, dispatchVars, IInv, VectorsOK, Place, Ahead, Uncalled, HeardOnce
<1>2. CASE \E a \in App : \E t \in Coming(a) : \E n \in Ends(a, t) : Receive(a, t, n)
  BY <1>2, ReceiveOnce
<1>3. CASE NextListener
  BY <1>3, NextListenerOnce
<1>4. CASE NextDevice
  BY <1>4, NextDeviceOnce
<1>5. CASE NextDeviceListener
  BY <1>5, NextDeviceListenerOnce
<1>6. CASE Return
  BY <1>6, ReturnOnce
<1>7. CASE \E f \in Func : MessageListenerAdd(f) \/ MessageListenerRemove(f)
  BY <1>7, MessageListenerAddOnce, MessageListenerRemoveOnce
<1>8. CASE \E d \in Device : \E f \in Func : ListenerRemove(d, f) \/ \E p \in Pattern : ListenerAdd(d, f, p)
  BY <1>8, ListenerAddOnce, ListenerRemoveOnce
<1>9. CASE \E d \in Device : \E id \in Id : AddDevice(d, id) \/ AddConfigurableDevice(d, id)
  BY <1>9, AddDeviceOnce
<1>10. CASE \E d \in Device : RemoveDevice(d)
  BY <1>10, RemoveDeviceOnce
<1>11. CASE \E d \in Device : Retunes(d)
  BY <1>11, RetuneOnce
<1> QED  BY <1>1, <1>2, <1>3, <1>4, <1>5, <1>6, <1>7, <1>8, <1>9, <1>10, <1>11 DEF Next, Retunes

\* Nothing has come yet.
LEMMA InitOnce == Init => IInv
<1> SUFFICES ASSUME Init
             PROVE  IInv
  OBVIOUS
<1>1. /\ dev \in Arrangement /\ devices = SetToSeq(Device) /\ listeners = <<Dispatcher>>
      /\ at = Nowhere /\ current = None
  BY DEF Init, ReceptionInit
<1>2. at \in Positions /\ at.i = 0 /\ at.j = 0 /\ at.k = 0 /\ at.d = None
  BY <1>1 DEF Nowhere, Positions
<1>3. dev \in [Device -> DeviceRecords]
  BY <1>1, DispatchAssumption
<1>4. \A d \in Device : /\ Len(dev[d].listener) <= ListenerMax
                        /\ \A l \in ToSet(dev[d].listener) : l.heard = 0
  BY <1>1, DispatchAssumption
<1>5. \A d \in Device : Uncalled(d)
  <2> SUFFICES ASSUME NEW d \in Device, NEW n \in DOMAIN dev[d].listener
               PROVE  dev[d].listener[n].heard = 0
    BY DEF Uncalled
  <2>1. dev[d].listener \in Seq(Listener)
    BY <1>3 DEF DeviceRecords
  <2>2. dev[d].listener[n] \in ToSet(dev[d].listener)
    BY <2>1, ElementsAreAtIndexes
  <2> QED  BY <1>4, <2>2
<1>6. VectorsOK
  <2>1. devices \in Seq(Device) /\ IsInjective(devices)
    BY <1>1, SetToSeqListsAll, DispatchAssumption
  <2>2. listeners \in Seq(Func \cup {Dispatcher}) /\ Len(listeners) = 1
    BY <1>1
  <2>3. Len(listeners) <= ListenerMax
    BY <2>2, DispatchAssumption
  <2> QED  BY <1>1, <1>2, <1>3, <1>4, <2>1, <2>2, <2>3 DEF VectorsOK
<1>7. Place
  BY <1>1, <1>2 DEF Place
<1>8. Ahead
  <2>1. ToSet(devices) \subseteq Device
    BY <1>6, Vectors
  <2> QED  BY <1>2, <1>5, <2>1 DEF Ahead
<1>9. HeardOnce
  BY <1>5 DEF HeardOnce, Uncalled
<1> QED  BY <1>6, <1>7, <1>8, <1>9 DEF IInv

\* VectorsOK, the part of DispatchTypeOK about devices and listeners: every device keeps
\* an identifier, groups, filters and listeners of their kinds, none is in app->device twice,
\* and gxPLAppRemoveDevice never takes away the one that is listening.
THEOREM VectorsCorrect == Spec => []VectorsOK
<1>1. Init => IInv
  BY InitOnce
<1>2. IInv /\ [Next]_vars => IInv'
  BY StepOnce
<1>3. IInv => VectorsOK
  BY DEF IInv
<1> QED  BY <1>1, <1>2, <1>3, PTL DEF Spec

\* HeardOnce of the run: whatever the functions of the program add, remove and retune
\* while gxPLAppPoll, prvDeviceMessageDispatcher and prvDeviceDispatchEvent go over the
\* vectors, no listener is called twice for a message.
THEOREM HeardOnceHolds == Spec => []HeardOnce
<1>1. Init => IInv
  BY InitOnce
<1>2. IInv /\ [Next]_vars => IInv'
  BY StepOnce
<1>3. IInv => HeardOnce
  BY DEF IInv
<1> QED  BY <1>1, <1>2, <1>3, PTL DEF Spec

-----------------------------------------------------------------------------
(* Every action preserves the second invariant *)

\* Is d what it was, its listeners aside?
Kept(d) ==
  /\ dev'[d].id = dev[d].id /\ dev'[d].group = dev[d].group /\ dev'[d].filter = dev[d].filter
  /\ dev'[d].isreportownmsg <=> dev[d].isreportownmsg

\* Then it accepts the message or not, as before.
LEMMA AcceptsAsBefore ==
  ASSUME UNCHANGED current, NEW d \in Device, Kept(d)
  PROVE  Accepts(d)' <=> Accepts(d)
BY DEF Kept, Accepts, FilterMatch, Matches

\* And what has been decided about a listener that is left alone stays.
LEMMA DecidedAsBefore ==
  ASSUME UNCHANGED current, NEW d \in Device, Kept(d), NEW n,
         dev'[d].listener[n] = dev[d].listener[n], Decided(d, n)
  PROVE  Decided(d, n)'
BY AcceptsAsBefore DEF Decided, Matches

\* A device that is left alone.
LEMMA LeftAlone ==
  ASSUME UNCHANGED current, NEW d \in Device, dev'[d] = dev[d]
  PROVE  /\ Accepts(d)' <=> Accepts(d)
         /\ AllDecided(d) => AllDecided(d)'
         /\ \A n : Decided(d, n) => Decided(d, n)'
<1>1. Kept(d)
  BY DEF Kept
<1> QED  BY <1>1, AcceptsAsBefore, DecidedAsBefore DEF AllDecided

\* A message that comes has been nowhere.
LEMMA ReceiveBehind ==
  ASSUME IInv, NEW a \in App, NEW t \in Coming(a), NEW e \in Ends(a, t), Receive(a, t, e)
  PROVE  Behind'
<1>1. at' = IF current' = None THEN Nowhere ELSE [Nowhere EXCEPT !.i = 1]
  BY DEF Receive
<1>2. CASE current' = None
  BY <1>2 DEF Behind
<1>3. CASE current' # None
  <2>1. at' = [i |-> 1, j |-> 0, k |-> 0, d |-> None, in |-> FALSE, quiet |-> TRUE]
    BY <1>1, <1>3 DEF Nowhere
  <2>2. at'.i = 1 /\ at'.j = 0 /\ at'.k = 0 /\ ~at'.in
    BY <2>1
  <2>3. devices' = devices
    BY DEF Receive
  <2>4. \A n \in DOMAIN devices' : ~(n < at'.j)
    BY <2>2, <2>3, Vectors DEF IInv
  <2> QED  BY <2>2, <2>4 DEF Behind
<1> QED  BY <1>2, <1>3

\* The dispatcher begins with the first device.
LEMMA NextListenerBehind ==
  ASSUME IInv, Behind, NextListener
  PROVE  Behind'
<1>1. CASE at.i > Len(listeners)
  BY <1>1 DEF NextListener, Release, Behind
<1>2. CASE ~(at.i > Len(listeners))
  <2>1. /\ current # None /\ at.j = 0 /\ ~at.in
        /\ UNCHANGED <<current, dev, devices, listeners>>
        /\ at' = IF listeners[at.i] = Dispatcher THEN [at EXCEPT !.j = 1]
                                                 ELSE [at EXCEPT !.in = TRUE]
    BY <1>2 DEF NextListener, receptionVars
  <2>2. at.i \in Nat /\ at.i > 0 /\ at.k = 0 /\ at \in Positions
    BY <2>1 DEF IInv, VectorsOK, Place, Positions
  <2>3. DOMAIN devices' \subseteq 1 .. Len(devices) /\ Len(devices) \in Nat
    BY <2>1, Vectors DEF IInv
  <2>4. CASE listeners[at.i] = Dispatcher
    <3>1. at' = [at EXCEPT !.j = 1] /\ at.i = 1
      BY <1>2, <2>1, <2>2, <2>4, Vectors DEF IInv, Place
    <3>2. at'.i = 1 /\ at'.j = 1 /\ at'.k = 0 /\ (at'.in <=> at.in)
      BY <2>2, <3>1 DEF Positions
    <3>3. \A n \in DOMAIN devices' : ~(n < at'.j)
      BY <2>3, <3>2
    <3> QED  BY <2>1, <3>2, <3>3 DEF Behind
  <2>5. CASE listeners[at.i] # Dispatcher
    <3>1. at' = [at EXCEPT !.in = TRUE]
      BY <2>1, <2>5
    <3>2. at'.i = at.i /\ at'.j = 0 /\ at'.k = 0 /\ (at'.quiet <=> at.quiet)
      BY <2>1, <2>2, <3>1 DEF Positions
    <3>3. at.i > 1 \/ listeners[1] # Dispatcher
      BY <2>2, <2>5
    <3>4. \A n \in DOMAIN devices' : ~(n < at'.j)
      BY <2>3, <3>2
    <3>5. \A d \in Device : AllDecided(d) => AllDecided(d)'
      BY <2>1, LeftAlone
    <3>6. ToSet(devices) \subseteq Device
      BY Vectors DEF IInv
    <3> QED  BY <2>1, <3>2, <3>3, <3>4, <3>5, <3>6 DEF Behind
  <2> QED  BY <2>4, <2>5
<1> QED  BY <1>1, <1>2

\* A device that does not accept the message is left with listeners that have not been called.
LEMMA NextDeviceBehind ==
  ASSUME IInv, Behind, NextDevice
  PROVE  Behind'
<1>1. /\ at.j > 0 /\ at.k = 0 /\ UNCHANGED <<current, dev, devices, listeners>>
      /\ at' = IF at.j > Len(devices) THEN [at EXCEPT !.j = 0, !.i = @ + 1]
               ELSE IF Accepts(devices[at.j]) THEN [at EXCEPT !.k = 1, !.d = devices[at.j]]
               ELSE [at EXCEPT !.j = @ + 1]
  BY DEF NextDevice, receptionVars
<1>2. /\ at \in Positions /\ at.i = 1 /\ ~at.in /\ at.j \in Nat /\ at.d = None
  BY <1>1 DEF IInv, VectorsOK, Place, Positions
<1>3. \A d \in Device : /\ Accepts(d)' <=> Accepts(d)
                        /\ AllDecided(d) => AllDecided(d)'
  BY <1>1, LeftAlone
<1>4. SUFFICES ASSUME current' # None, at'.quiet
               PROVE  /\ at'.in /\ at'.j = 0 => at'.i > 1 \/ listeners'[1] # Dispatcher
                      /\ \A n \in DOMAIN devices' : n < at'.j => AllDecided(devices[n])'
                      /\ at'.k > 0 =>
                           /\ at'.j \in DOMAIN devices' /\ devices'[at'.j] = at'.d /\ Accepts(at.d)'
                           /\ \A n \in DOMAIN dev'[at'.d].listener :
                                n < at'.k \/ (n = at'.k /\ at'.in) => Decided(at.d, n)'
                      /\ at'.i > 1 /\ Dispatcher \in ToSet(listeners') =>
                           \A d \in ToSet(devices') : AllDecided(d)'
  BY DEF Behind
<1>5. at.quiet
  BY <1>1, <1>2, <1>4 DEF Positions
<1>6. \A n \in 1 .. Len(devices) : n < at.j => AllDecided(devices[n])
  BY <1>1, <1>4, <1>5, Vectors DEF IInv, Behind
<1>7. Len(devices) \in Nat /\ DOMAIN devices' = 1 .. Len(devices)
      /\ \A n \in 1 .. Len(devices) : devices[n] \in Device /\ devices'[n] = devices[n]
  BY <1>1, Vectors DEF IInv
<1>8. CASE at.j > Len(devices)
  <2>1. at' = [at EXCEPT !.j = 0, !.i = @ + 1]
    BY <1>1, <1>8
  <2>2. at'.j = 0 /\ at'.k = 0 /\ (at'.in <=> at.in)
    BY <1>1, <1>2, <2>1 DEF Positions
  <2>3. \A d \in ToSet(devices) : AllDecided(d)'
    <3>1. \A n \in 1 .. Len(devices) : n < at.j
      BY <1>2, <1>7, <1>8
    <3>2. \A d \in ToSet(devices) : d \in Device /\ AllDecided(d)
      BY <1>6, <3>1, Vectors DEF IInv
    <3> QED  BY <1>3, <3>2
  <2>4. \A n \in DOMAIN devices' : ~(n < at'.j)
    BY <1>7, <2>2
  <2> QED  BY <1>1, <1>2, <2>2, <2>3, <2>4
<1>9. CASE ~(at.j > Len(devices)) /\ Accepts(devices[at.j])
  <2>1. at' = [at EXCEPT !.k = 1, !.d = devices[at.j]]
    BY <1>1, <1>9
  <2>2. at.j \in 1 .. Len(devices) /\ devices[at.j] \in Device
    BY <1>1, <1>2, <1>7, <1>9
  <2>3. /\ at'.i = 1 /\ at'.j = at.j /\ at'.k = 1
        /\ at'.d = devices[at.j] /\ (at'.in <=> at.in)
    BY <1>2, <2>1 DEF Positions
  <2>4. \A n \in DOMAIN devices' : n < at'.j => AllDecided(devices[n])'
    <3> SUFFICES ASSUME NEW n \in DOMAIN devices', n < at'.j
                 PROVE  AllDecided(devices[n])'
      OBVIOUS
    <3>1. AllDecided(devices[n]) /\ devices[n] \in Device
      BY <1>6, <1>7, <2>3
    <3> QED  BY <1>1, <1>3, <3>1 DEF AllDecided, Decided, Accepts, FilterMatch, Matches
  <2>5. Accepts(at.d)'
    <3>1. PICK d \in Device : d = devices[at.j] /\ Accepts(d)
      BY <1>9, <2>2
    <3>2. Accepts(d)' /\ at'.d = d
      BY <1>3, <2>3, <3>1
    <3> QED  BY <3>2 DEF Accepts, FilterMatch, Matches
  <2>6. \A n \in DOMAIN dev'[at'.d].listener : ~(n < at'.k) /\ ~at'.in
    BY <1>1, <1>2, <2>2, <2>3, Vectors DEF IInv
  <2>7. at'.j \in DOMAIN devices' /\ devices'[at'.j] = at'.d
    BY <1>7, <2>2, <2>3
  <2> QED  BY <1>2, <2>3, <2>4, <2>5, <2>6, <2>7
<1>10. CASE ~(at.j > Len(devices)) /\ ~Accepts(devices[at.j])
  <2>1. at' = [at EXCEPT !.j = @ + 1]
    BY <1>1, <1>10
  <2>2. at.j \in 1 .. Len(devices) /\ devices[at.j] \in Device
    BY <1>1, <1>2, <1>7, <1>10
  <2>3. at'.i = 1 /\ at'.j = at.j + 1 /\ at'.k = 0 /\ (at'.in <=> at.in)
    BY <1>1, <1>2, <2>1 DEF Positions
  <2>4. AllDecided(devices[at.j])
    <3>1. Uncalled(devices[at.j])
      <4>1. at.j \in at.j .. Len(devices) /\ devices[at.j] # None
        BY <1>7, <2>2, DispatchAssumption
      <4> QED  BY <1>1, <1>2, <4>1 DEF IInv, Ahead
    <3> QED  BY <1>10, <3>1 DEF AllDecided, Decided, Uncalled
  <2>5. \A n \in DOMAIN devices' : n < at'.j => AllDecided(devices[n])'
    <3> SUFFICES ASSUME NEW n \in DOMAIN devices', n < at'.j
                 PROVE  AllDecided(devices[n])'
      OBVIOUS
    <3>1. n \in 1 .. Len(devices) /\ (n < at.j \/ n = at.j)
      BY <1>2, <1>7, <2>3
    <3>2. AllDecided(devices[n]) /\ devices[n] \in Device
      BY <1>6, <1>7, <2>4, <3>1
    <3> QED  BY <1>1, <3>2 DEF AllDecided, Decided, Accepts, FilterMatch, Matches
  <2> QED  BY <1>2, <2>3, <2>5
<1> QED  BY <1>8, <1>9, <1>10

\* Behind', part by part, for a message that stays.
LEMMA BehindPrime ==
  ASSUME /\ at'.in /\ at'.j = 0 => at'.i > 1 \/ listeners'[1] # Dispatcher
         /\ \A n \in DOMAIN devices' : n < at'.j => \E d : d = devices'[n] /\ AllDecided(d)'
         /\ at'.k > 0 =>
              /\ at'.j \in DOMAIN devices' /\ devices'[at'.j] = at'.d
              /\ \E d : /\ d = at'.d /\ Accepts(d)'
                        /\ \A n \in DOMAIN dev'[d].listener :
                             n < at'.k \/ (n = at'.k /\ at'.in) => Decided(d, n)'
         /\ at'.i > 1 /\ Dispatcher \in ToSet(listeners') =>
              \A d \in ToSet(devices') : AllDecided(d)'
  PROVE  Behind'
<1>1. ASSUME NEW n \in DOMAIN devices', n < at'.j
      PROVE  AllDecided(devices[n])'
  <2>1. PICK d : d = devices'[n] /\ AllDecided(d)'
    BY <1>1
  <2> QED  BY <2>1 DEF AllDecided, Decided, Accepts, FilterMatch, Matches
<1>2. ASSUME at'.k > 0
      PROVE  /\ Accepts(at.d)'
             /\ \A n \in DOMAIN dev'[at'.d].listener :
                  n < at'.k \/ (n = at'.k /\ at'.in) => Decided(at.d, n)'
  <2>1. PICK d : /\ d = at'.d /\ Accepts(d)'
                 /\ \A n \in DOMAIN dev'[d].listener :
                      n < at'.k \/ (n = at'.k /\ at'.in) => Decided(d, n)'
    BY <1>2
  <2> QED  BY <2>1 DEF Decided, Accepts, FilterMatch, Matches
<1> QED  BY <1>1, <1>2 DEF Behind

\* A listener of a device that is meant is called if its pattern matches.
LEMMA NextDeviceListenerBehind ==
  ASSUME IInv, Behind, NextDeviceListener
  PROVE  Behind'
<1> DEFINE d == at.d
           l == dev[d].listener
<1>1. /\ at.k > 0 /\ ~at.in /\ UNCHANGED <<current, devices, listeners>>
      /\ IF at.k > Len(l)
         THEN at' = [at EXCEPT !.k = 0, !.d = None, !.j = @ + 1] /\ dev' = dev
         ELSE IF Matches(l[at.k].for)
         THEN /\ at' = [at EXCEPT !.in = TRUE]
              /\ dev' = [dev EXCEPT ![d].listener[at.k].heard = @ + 1]
         ELSE at' = [at EXCEPT !.k = @ + 1] /\ dev' = dev
  BY DEF NextDeviceListener, receptionVars
<1>2. /\ at \in Positions /\ at.i = 1 /\ at.j > 0 /\ current # None
      /\ at.j \in Nat /\ at.k \in Nat /\ d # None
      /\ d \in Device /\ d \in ToSet(devices)
  BY <1>1, Vectors DEF IInv, VectorsOK, Place, Positions, Nowhere
<1>3. at'.i = 1 /\ (at'.quiet <=> at.quiet)
  BY <1>1, <1>2 DEF Positions
<1>4. SUFFICES ASSUME at.quiet
               PROVE  Behind'
  BY <1>3 DEF Behind
<1>5. /\ at.j \in 1 .. Len(devices) /\ devices[at.j] = d /\ Accepts(d)
      /\ \A n \in 1 .. Len(l) : n < at.k => Decided(d, n)
      /\ \A n \in 1 .. Len(devices) : n < at.j => AllDecided(devices[n])
  BY <1>1, <1>2, <1>4, Vectors DEF IInv, Behind
<1>6. /\ Len(l) \in Nat /\ DOMAIN l = 1 .. Len(l)
      /\ \A n \in 1 .. Len(l) : l[n] \in Listener
      /\ Len(devices) \in Nat /\ DOMAIN devices' = 1 .. Len(devices)
      /\ \A n \in 1 .. Len(devices) : devices[n] \in Device /\ devices'[n] = devices[n]
  BY <1>1, <1>2, Vectors DEF IInv
<1>7. at.k \in 1 .. Len(l) => l[at.k].heard = 0
  BY <1>1, <1>6 DEF IInv, Ahead
<1>8. CASE at.k > Len(l)
  <2>1. at' = [at EXCEPT !.k = 0, !.d = None, !.j = @ + 1] /\ dev' = dev
    BY <1>1, <1>8
  <2>2. at'.j = at.j + 1 /\ at'.k = 0
    BY <1>2, <2>1 DEF Positions
  <2>3. AllDecided(d)
    <3>1. \A n \in 1 .. Len(l) : n < at.k
      BY <1>2, <1>6, <1>8
    <3> QED  BY <1>5, <1>6, <3>1 DEF AllDecided
  <2>4. ASSUME NEW n \in DOMAIN devices', n < at'.j
        PROVE  \E o : o = devices'[n] /\ AllDecided(o)'
    <3>1. n \in 1 .. Len(devices) /\ (n < at.j \/ n = at.j)
      BY <1>2, <1>6, <2>2, <2>4
    <3>2. AllDecided(devices[n])
      BY <1>5, <2>3, <3>1
    <3>3. PICK o \in Device : o = devices[n] /\ AllDecided(o)
      BY <1>6, <3>1, <3>2
    <3>4. AllDecided(o)'
      BY <1>1, <2>1, <3>3, LeftAlone
    <3> QED  BY <1>6, <3>1, <3>3, <3>4
  <2> QED  BY <1>2, <1>3, <2>2, <2>4, BehindPrime
<1>9. CASE ~(at.k > Len(l)) /\ Matches(l[at.k].for)
  <2>1. /\ at' = [at EXCEPT !.in = TRUE]
        /\ dev' = [dev EXCEPT ![d].listener[at.k].heard = @ + 1]
    BY <1>1, <1>9
  <2>2. at'.j = at.j /\ at'.k = at.k /\ at'.d = d
    BY <1>2, <2>1 DEF Positions
  <2>3. at.k \in 1 .. Len(l)
    BY <1>1, <1>2, <1>6, <1>9
  <2>4. PICK c \in Device : c = d
    BY <1>2
  <2>5. /\ dev' \in [Device -> DeviceRecords]
        /\ \A o \in Device \ {c} : dev'[o] = dev[o]
        /\ dev'[c] = [dev[c] EXCEPT !.listener = dev'[c].listener]
        /\ Len(dev'[c].listener) = Len(l)
        /\ \A n \in 1 .. Len(l) :
             dev'[c].listener[n] = IF n = at.k THEN [l[n] EXCEPT !.heard = @ + 1] ELSE l[n]
    <3>1. VectorsOK /\ at.k > 0 /\ at.k <= Len(dev[at.d].listener)
      BY <1>1, <1>2, <2>3 DEF IInv
    <3> QED  BY <2>1, <2>4, <3>1, CallEffect
  <2>6. Kept(c)
    BY <2>5, Vectors DEF IInv, Kept, DeviceRecords
  <2>7. Accepts(c) /\ Accepts(c)'
    BY <1>1, <1>5, <2>4, <2>6, AcceptsAsBefore
  <2>8. DOMAIN dev'[c].listener = 1 .. Len(l)
    BY <1>2, <2>4, <2>5, ElementsAreAtIndexes DEF DeviceRecords
  <2>9. ASSUME NEW n \in 1 .. Len(l), n < at.k
        PROVE  Decided(c, n)'
    <3>1. n # at.k
      BY <1>2, <1>6, <2>9
    <3>2. dev'[c].listener[n] = dev[c].listener[n]
      BY <2>4, <2>5, <3>1
    <3>3. Decided(c, n)
      BY <1>5, <2>4, <2>9
    <3> QED  BY <1>1, <2>6, <3>2, <3>3, DecidedAsBefore
  <2>10. Decided(c, at.k)'
    <3>1. PICK k \in 1 .. Len(l) : k = at.k
      BY <2>3
    <3>2. l[k] \in Listener /\ l[k].heard = 0 /\ Matches(l[k].for)
      BY <1>6, <1>7, <1>9, <3>1
    <3>3. dev'[c].listener[k] = [l[k] EXCEPT !.heard = @ + 1]
      BY <2>5, <3>1
    <3>4. dev'[c].listener[k].heard = 1 /\ dev'[c].listener[k].for = l[k].for
      BY <3>2, <3>3 DEF Listener
    <3>5. Decided(c, k)'
      BY <1>1, <2>7, <3>2, <3>4 DEF Decided, Matches
    <3> QED  BY <2>2, <3>1, <3>5 DEF Decided, Accepts, FilterMatch, Matches
  <2>11. ASSUME NEW n \in DOMAIN dev'[c].listener, n < at.k \/ n = at.k
         PROVE  Decided(c, n)'
    <3>1. CASE n < at.k
      BY <2>8, <2>9, <3>1
    <3>2. CASE n = at.k
      BY <2>2, <2>10, <3>2 DEF Decided, Accepts, FilterMatch, Matches
    <3> QED  BY <2>11, <3>1, <3>2
  <2>12. ASSUME NEW n \in DOMAIN devices', n < at'.j
         PROVE  \E o : o = devices'[n] /\ AllDecided(o)'
    <3>1. n \in 1 .. Len(devices) /\ n < at.j /\ n # at.j
      BY <1>2, <1>6, <2>2, <2>12
    <3>2. PICK o \in Device : o = devices[n] /\ AllDecided(o)
      BY <1>5, <1>6, <3>1
    <3>3. o # c
      BY <1>5, <2>4, <3>1, <3>2, Vectors DEF IInv
    <3>4. AllDecided(o)'
      BY <1>1, <2>5, <3>2, <3>3, LeftAlone
    <3> QED  BY <1>6, <3>1, <3>2, <3>4
  <2>13. \E o : /\ o = at'.d /\ Accepts(o)'
                /\ \A n \in DOMAIN dev'[o].listener :
                     n < at'.k \/ (n = at'.k /\ at'.in) => Decided(o, n)'
    <3>1. c = at'.d
      BY <2>2, <2>4
    <3>2. \A n \in DOMAIN dev'[c].listener :
            n < at'.k \/ (n = at'.k /\ at'.in) => Decided(c, n)'
      BY <2>2, <2>11
    <3> QED  BY <2>7, <3>1, <3>2
  <2> QED
    <3>1. at'.j \in DOMAIN devices' /\ devices'[at'.j] = at'.d
      BY <1>1, <1>5, <1>6, <2>2
    <3> QED  BY <1>2, <1>3, <2>2, <2>12, <2>13, <3>1, BehindPrime
<1>10. CASE ~(at.k > Len(l)) /\ ~Matches(l[at.k].for)
  <2>1. at' = [at EXCEPT !.k = @ + 1] /\ dev' = dev
    BY <1>1, <1>10
  <2>2. at'.j = at.j /\ at'.k = at.k + 1 /\ at'.d = d /\ (at'.in <=> at.in)
    BY <1>2, <2>1 DEF Positions
  <2>3. at.k \in 1 .. Len(l)
    BY <1>1, <1>2, <1>6, <1>10
  <2>4. PICK c \in Device : c = d
    BY <1>2
  <2>5. Accepts(c)' /\ (\A n : Decided(c, n) => Decided(c, n)')
    BY <1>1, <1>5, <2>1, <2>4, LeftAlone
  <2>6. Decided(c, at.k)
    BY <1>7, <1>10, <2>3, <2>4 DEF Decided
  <2>7. ASSUME NEW n \in DOMAIN dev'[c].listener, n < at'.k
        PROVE  Decided(c, n)'
    <3>1. n \in 1 .. Len(l) /\ (n < at.k \/ n = at.k)
      BY <1>2, <1>6, <2>1, <2>2, <2>4, <2>7
    <3>2. Decided(c, n)
      BY <1>5, <2>4, <2>6, <3>1
    <3> QED  BY <2>5, <3>2
  <2>8. ASSUME NEW n \in DOMAIN devices', n < at'.j
        PROVE  \E o : o = devices'[n] /\ AllDecided(o)'
    <3>1. n \in 1 .. Len(devices) /\ n < at.j
      BY <1>6, <2>2, <2>8
    <3>2. PICK o \in Device : o = devices[n] /\ AllDecided(o)
      BY <1>5, <1>6, <3>1
    <3>3. AllDecided(o)'
      BY <1>1, <2>1, <3>2, LeftAlone
    <3> QED  BY <1>6, <3>1, <3>2, <3>3
  <2>9. \E o : /\ o = at'.d /\ Accepts(o)'
               /\ \A n \in DOMAIN dev'[o].listener :
                    n < at'.k \/ (n = at'.k /\ at'.in) => Decided(o, n)'
    BY <1>1, <2>2, <2>4, <2>5, <2>7
  <2> QED
    <3>1. at'.j \in DOMAIN devices' /\ devices'[at'.j] = at'.d
      BY <1>1, <1>5, <1>6, <2>2
    <3> QED  BY <1>2, <1>3, <2>2, <2>8, <2>9, <3>1, BehindPrime
<1> QED  BY <1>8, <1>9, <1>10

\* A function of the program returns.
LEMMA ReturnBehind ==
  ASSUME IInv, Behind, Return
  PROVE  Behind'
<1>1. /\ at.in /\ UNCHANGED <<current, dev, devices, listeners>>
      /\ at' = IF at.k > 0 THEN [at EXCEPT !.in = FALSE, !.k = @ + 1]
                           ELSE [at EXCEPT !.in = FALSE, !.i = @ + 1]
  BY DEF Return, receptionVars
<1>2. /\ at \in Positions /\ at.i \in Nat /\ at.j \in Nat /\ at.k \in Nat
      /\ current # None /\ at.i > 0
  BY <1>1 DEF IInv, VectorsOK, Place, Positions, Nowhere
<1>3. at'.quiet <=> at.quiet
  BY <1>1, <1>2 DEF Positions
<1>4. SUFFICES ASSUME at.quiet
               PROVE  Behind'
  BY <1>3 DEF Behind
<1>5. /\ Len(devices) \in Nat /\ DOMAIN devices = 1 .. Len(devices)
      /\ \A n \in 1 .. Len(devices) : devices[n] \in Device
      /\ ToSet(devices) \subseteq Device
  BY Vectors DEF IInv
<1>6. \A o \in Device : /\ Accepts(o)' <=> Accepts(o)
                        /\ AllDecided(o) => AllDecided(o)'
                        /\ \A n : Decided(o, n) => Decided(o, n)'
  BY <1>1, LeftAlone
<1>7. ASSUME NEW n \in DOMAIN devices, n < at.j
      PROVE  \E o : o = devices[n] /\ AllDecided(o)'
  BY <1>2, <1>4, <1>5, <1>6, <1>7 DEF Behind
<1>8. CASE at.k > 0
  <2>1. at' = [at EXCEPT !.in = FALSE, !.k = @ + 1]
    BY <1>1, <1>8
  <2>2. at'.i = at.i /\ at'.j = at.j /\ at'.k = at.k + 1 /\ at'.d = at.d
    BY <1>2, <2>1 DEF Positions
  <2>3. at'.in = FALSE
    BY <1>2, <2>1 DEF Positions
  <2>4. /\ at.j \in DOMAIN devices /\ devices[at.j] = at.d /\ Accepts(at.d)
        /\ \A n \in DOMAIN dev[at.d].listener : n < at.k \/ n = at.k => Decided(at.d, n)
    BY <1>1, <1>2, <1>4, <1>8 DEF Behind
  <2>5. PICK c \in Device : c = at.d
    BY <1>5, <2>4
  <2>6. Accepts(c)'
    BY <1>6, <2>4, <2>5
  <2>7. ASSUME NEW n \in DOMAIN dev'[c].listener, n < at'.k
        PROVE  Decided(c, n)'
    <3>1. n \in DOMAIN dev[c].listener /\ n \in Nat
      BY <1>1, <2>5, <2>7, Vectors DEF IInv
    <3>2. n < at.k \/ n = at.k
      BY <1>2, <2>2, <2>7, <3>1
    <3>3. Decided(c, n)
      BY <2>4, <2>5, <3>1, <3>2
    <3> QED  BY <1>6, <3>3
  <2>8. \E o : /\ o = at'.d /\ Accepts(o)'
               /\ \A n \in DOMAIN dev'[o].listener :
                    n < at'.k \/ (n = at'.k /\ at'.in) => Decided(o, n)'
    BY <2>2, <2>3, <2>5, <2>6, <2>7
  <2>9. at.i = 1
    BY <1>2, <1>8 DEF IInv, Place
  <2> QED  BY <1>1, <1>7, <2>2, <2>3, <2>4, <2>8, <2>9, BehindPrime
<1>9. CASE ~(at.k > 0)
  <2>1. at' = [at EXCEPT !.in = FALSE, !.i = @ + 1]
    BY <1>1, <1>9
  <2>2. at.k = 0 /\ at.j = 0
    BY <1>1, <1>2, <1>9 DEF IInv, Place
  <2>3. at'.i = at.i + 1 /\ at'.j = 0 /\ at'.k = 0
    <3>1. at'.i = at.i + 1 /\ at'.j = at.j /\ at'.k = at.k
      BY <1>2, <2>1 DEF Positions
    <3> QED  BY <2>2, <3>1
  <2>4. at'.in = FALSE
    BY <1>2, <2>1 DEF Positions
  <2>5. ASSUME Dispatcher \in ToSet(listeners)
        PROVE  at.i > 1
    <3>1. PICK n \in 1 .. Len(listeners) : listeners[n] = Dispatcher
      BY <2>5, ElementsAreAtIndexes DEF IInv, VectorsOK
    <3>2. n = 1
      BY <3>1, Vectors DEF IInv, Place
    <3> QED  BY <1>1, <1>2, <1>4, <2>2, <3>1, <3>2 DEF Behind
  <2>6. Dispatcher \in ToSet(listeners) => \A o \in ToSet(devices) : AllDecided(o)'
    BY <1>2, <1>4, <1>5, <1>6, <2>5 DEF Behind
  <2>7. \A n \in DOMAIN devices' : ~(n < at'.j)
    BY <1>1, <1>5, <2>3
  <2> QED  BY <1>1, <2>3, <2>4, <2>6, <2>7, BehindPrime
<1> QED  BY <1>8, <1>9

\* A listener that is added while the message is on its way need not be called.
LEMMA ListenerAddBehind ==
  ASSUME IInv, Behind, NEW d \in Device, NEW f \in Func, NEW p \in Pattern, ListenerAdd(d, f, p)
  PROVE  Behind'
<1> DEFINE l == dev[d].listener
           m == dev'[d].listener
<1>1. UNCHANGED <<current, devices, listeners, at>>
  BY DEF ListenerAdd, receptionVars
<1>2. SUFFICES ASSUME current # None, at.quiet
               PROVE  Behind'
  BY <1>1 DEF Behind
<1>3. /\ dev' \in [Device -> DeviceRecords]
      /\ \A o \in Device \ {d} : dev'[o] = dev[o]
      /\ dev'[d] = [dev[d] EXCEPT !.listener = m]
      /\ Len(m) = Len(l) + 1
      /\ \A n \in 1 .. Len(l) : m[n] = l[n]
      /\ m[Len(l) + 1] = Registered(f, p)
  BY ListenerAddEffect DEF IInv
<1>4. m[Len(l) + 1].new
  BY <1>2, <1>3, RegisteredIsFresh
<1>5. /\ Len(l) \in Nat /\ DOMAIN l = 1 .. Len(l) /\ DOMAIN m = 1 .. Len(m)
  BY <1>3, Vectors, ElementsAreAtIndexes DEF IInv, DeviceRecords
<1>6. \A n \in DOMAIN m : n \in DOMAIN l \/ n = Len(l) + 1
  BY <1>3, <1>5
<1>7. Kept(d)
  BY <1>3, Vectors DEF IInv, Kept, DeviceRecords
<1>8. ASSUME NEW n \in DOMAIN m, n \in DOMAIN l => Decided(d, n)
      PROVE  Decided(d, n)'
  <2>1. CASE n \in DOMAIN l
    <3>1. m[n] = l[n] /\ Decided(d, n)
      BY <1>3, <1>5, <1>8, <2>1
    <3> QED  BY <1>1, <1>7, <3>1, DecidedAsBefore
  <2>2. CASE n = Len(l) + 1
    BY <1>4, <2>2 DEF Decided
  <2> QED  BY <1>6, <2>1, <2>2
<1>9. \A o \in Device : Accepts(o)' <=> Accepts(o)
  BY <1>1, <1>3, <1>7, AcceptsAsBefore, LeftAlone
<1>10. ASSUME NEW o \in Device, AllDecided(o)
       PROVE  AllDecided(o)'
  <2>1. CASE o = d
    BY <1>8, <1>10, <2>1 DEF AllDecided
  <2>2. CASE o # d
    BY <1>1, <1>3, <1>10, <2>2, LeftAlone
  <2> QED  BY <2>1, <2>2
<1>11. /\ Len(devices) \in Nat /\ DOMAIN devices = 1 .. Len(devices)
       /\ \A n \in 1 .. Len(devices) : devices[n] \in Device
       /\ ToSet(devices) \subseteq Device
  BY Vectors DEF IInv
<1>12. ASSUME NEW n \in DOMAIN devices, n < at.j
       PROVE  \E o : o = devices[n] /\ AllDecided(o)'
  BY <1>2, <1>10, <1>11, <1>12 DEF Behind
<1>13. ASSUME at.k > 0
       PROVE  /\ at.j \in DOMAIN devices /\ devices[at.j] = at.d
              /\ \E o : /\ o = at.d /\ Accepts(o)'
                        /\ \A n \in DOMAIN dev'[o].listener :
                             n < at.k \/ (n = at.k /\ at.in) => Decided(o, n)'
  <2>1. /\ at.j \in DOMAIN devices /\ devices[at.j] = at.d /\ Accepts(at.d)
        /\ \A n \in DOMAIN dev[at.d].listener :
             n < at.k \/ (n = at.k /\ at.in) => Decided(at.d, n)
    BY <1>2, <1>13 DEF Behind
  <2>2. PICK c \in Device : c = at.d
    BY <1>11, <2>1
  <2>3. ASSUME NEW n \in DOMAIN dev'[c].listener, n < at.k \/ (n = at.k /\ at.in)
        PROVE  Decided(c, n)'
    <3>1. CASE c = d
      BY <1>8, <2>1, <2>2, <2>3, <3>1
    <3>2. CASE c # d
      <4>1. dev'[c] = dev[c]
        BY <1>3, <3>2
      <4>2. Decided(c, n)
        BY <2>1, <2>2, <2>3, <4>1
      <4> QED  BY <1>1, <4>1, <4>2, LeftAlone
    <3> QED  BY <3>1, <3>2
  <2> QED  BY <1>9, <2>1, <2>2, <2>3
<1>14. at.i > 1 /\ Dispatcher \in ToSet(listeners) => \A o \in ToSet(devices) : AllDecided(o)'
  BY <1>2, <1>10, <1>11 DEF Behind
<1>15. at.in /\ at.j = 0 => at.i > 1 \/ listeners[1] # Dispatcher
  BY <1>2 DEF Behind
<1> QED  BY <1>1, <1>12, <1>13, <1>14, <1>15, BehindPrime

\* A message listener that is added is not the dispatcher.
LEMMA MessageListenerAddBehind ==
  ASSUME IInv, Behind, NEW f \in Func, MessageListenerAdd(f)
  PROVE  Behind'
<1>1. /\ UNCHANGED <<current, dev, devices, at>> /\ listeners' = Append(listeners, f)
  BY DEF MessageListenerAdd, receptionVars
<1>2. SUFFICES ASSUME current # None, at.quiet
               PROVE  Behind'
  BY <1>1 DEF Behind
<1>3. /\ listeners \in Seq(Func \cup {Dispatcher}) /\ Len(listeners) \in Nat
      /\ listeners' \in Seq(Func \cup {Dispatcher}) /\ Len(listeners') = Len(listeners) + 1
      /\ \A n \in 1 .. Len(listeners) : listeners'[n] = listeners[n]
      /\ listeners'[Len(listeners) + 1] = f /\ f # Dispatcher
  BY <1>1, Vectors, AppendType, DispatchAssumption DEF IInv, VectorsOK
<1>4. Dispatcher \in ToSet(listeners') => Dispatcher \in ToSet(listeners)
  <2> SUFFICES ASSUME Dispatcher \in ToSet(listeners')
               PROVE  Dispatcher \in ToSet(listeners)
    OBVIOUS
  <2>1. PICK n \in 1 .. Len(listeners') : listeners'[n] = Dispatcher
    BY <1>3, ElementsAreAtIndexes
  <2>2. n \in 1 .. Len(listeners)
    BY <1>3, <2>1
  <2> QED  BY <1>3, <2>1, <2>2, ElementsAreAtIndexes
<1>5. listeners[1] # Dispatcher => listeners'[1] # Dispatcher
  <2>1. CASE Len(listeners) = 0
    BY <1>3, <2>1
  <2>2. CASE Len(listeners) > 0
    BY <1>3, <2>2
  <2> QED  BY <1>3, <2>1, <2>2
<1>6. /\ \A o \in Device : /\ Accepts(o)' <=> Accepts(o)
                           /\ AllDecided(o) => AllDecided(o)'
                           /\ \A n : Decided(o, n) => Decided(o, n)'
  BY <1>1, LeftAlone
<1>7. /\ Len(devices) \in Nat /\ DOMAIN devices = 1 .. Len(devices)
      /\ \A n \in 1 .. Len(devices) : devices[n] \in Device
      /\ ToSet(devices) \subseteq Device
  BY Vectors DEF IInv
<1>8. ASSUME NEW n \in DOMAIN devices, n < at.j
      PROVE  \E o : o = devices[n] /\ AllDecided(o)'
  BY <1>2, <1>6, <1>7, <1>8 DEF Behind
<1>9. ASSUME at.k > 0
      PROVE  /\ at.j \in DOMAIN devices /\ devices[at.j] = at.d
             /\ \E o : /\ o = at.d /\ Accepts(o)'
                       /\ \A n \in DOMAIN dev[o].listener :
                            n < at.k \/ (n = at.k /\ at.in) => Decided(o, n)'
  <2>1. /\ at.j \in DOMAIN devices /\ devices[at.j] = at.d /\ Accepts(at.d)
        /\ \A n \in DOMAIN dev[at.d].listener :
             n < at.k \/ (n = at.k /\ at.in) => Decided(at.d, n)
    BY <1>2, <1>9 DEF Behind
  <2> QED  BY <1>6, <1>7, <2>1
<1>10. at.i > 1 /\ Dispatcher \in ToSet(listeners') => \A o \in ToSet(devices) : AllDecided(o)'
  BY <1>2, <1>4, <1>6, <1>7 DEF Behind
<1>11. at.in /\ at.j = 0 => at.i > 1 \/ listeners'[1] # Dispatcher
  BY <1>2, <1>5 DEF Behind
<1> QED  BY <1>1, <1>8, <1>9, <1>10, <1>11, BehindPrime

\* The listeners of a device that is added are new to the message.
LEMMA AddDeviceBehind ==
  ASSUME IInv, Behind, NEW d \in Device, NEW id \in Id,
         AddDevice(d, id) \/ AddConfigurableDevice(d, id)
  PROVE  Behind'
<1>1. UNCHANGED <<current, listeners, at>>
  BY DEF AddDevice, AddConfigurableDevice, Enlist, receptionVars
<1>2. SUFFICES ASSUME current # None, at.quiet
               PROVE  Behind'
  BY <1>1 DEF Behind
<1>3. /\ d \notin ToSet(devices)
      /\ dev' \in [Device -> DeviceRecords]
      /\ \A o \in Device \ {d} : dev'[o] = dev[o]
      /\ \A n \in 1 .. Len(dev'[d].listener) : dev'[d].listener[n].new
      /\ devices' \in Seq(Device) /\ Len(devices') = Len(devices) + 1
      /\ \A n \in 1 .. Len(devices) : devices'[n] = devices[n]
      /\ devices'[Len(devices) + 1] = d
  BY <1>2, EnlistEffect DEF IInv
<1>4. /\ Len(devices) \in Nat /\ DOMAIN devices = 1 .. Len(devices)
      /\ DOMAIN devices' = 1 .. Len(devices')
      /\ \A o \in ToSet(devices') : \E n \in 1 .. Len(devices') : devices'[n] = o
      /\ \A n \in 1 .. Len(devices) : devices[n] \in Device \ {d} /\ devices[n] \in ToSet(devices)
  BY <1>3, Vectors, ElementsAreAtIndexes DEF IInv
<1>5. \A n \in 1 .. Len(devices') :
        \/ n \in 1 .. Len(devices) /\ devices'[n] = devices[n]
        \/ devices'[n] = d
  <2>1. \A n \in 1 .. Len(devices') : n \in 1 .. Len(devices) \/ n = Len(devices) + 1
    BY <1>3, <1>4
  <2> QED  BY <1>3, <2>1
<1>6. AllDecided(d)'
  <2>1. DOMAIN dev'[d].listener = 1 .. Len(dev'[d].listener)
    BY <1>3, ElementsAreAtIndexes DEF DeviceRecords
  <2> QED  BY <1>3, <2>1 DEF AllDecided, Decided
<1>7. \A o \in Device \ {d} : /\ Accepts(o)' <=> Accepts(o)
                              /\ AllDecided(o) => AllDecided(o)'
                              /\ \A n : Decided(o, n) => Decided(o, n)'
  BY <1>1, <1>3, LeftAlone
<1>8. ASSUME NEW n \in DOMAIN devices', n < at.j
      PROVE  \E o : o = devices'[n] /\ AllDecided(o)'
  <2>1. CASE n \in 1 .. Len(devices) /\ devices'[n] = devices[n]
    <3>1. AllDecided(devices[n])
      BY <1>2, <1>4, <1>8, <2>1 DEF Behind
    <3> QED  BY <1>4, <1>7, <2>1, <3>1
  <2>2. CASE devices'[n] = d
    BY <1>6, <2>2
  <2> QED  BY <1>4, <1>5, <2>1, <2>2
<1>9. ASSUME at.k > 0
      PROVE  /\ at.j \in DOMAIN devices' /\ devices'[at.j] = at.d
             /\ \E o : /\ o = at.d /\ Accepts(o)'
                       /\ \A n \in DOMAIN dev'[o].listener :
                            n < at.k \/ (n = at.k /\ at.in) => Decided(o, n)'
  <2>1. /\ at.j \in 1 .. Len(devices) /\ devices[at.j] = at.d /\ Accepts(at.d)
        /\ \A n \in DOMAIN dev[at.d].listener :
             n < at.k \/ (n = at.k /\ at.in) => Decided(at.d, n)
    BY <1>2, <1>4, <1>9 DEF Behind
  <2>2. at.d \in Device \ {d} /\ at.j \in 1 .. Len(devices')
    BY <1>3, <1>4, <2>1
  <2>3. dev'[at.d] = dev[at.d]
    BY <1>3, <2>2
  <2> QED  BY <1>3, <1>4, <1>7, <2>1, <2>2, <2>3
<1>10. at.i > 1 /\ Dispatcher \in ToSet(listeners) => \A o \in ToSet(devices') : AllDecided(o)'
  <2>1. ASSUME at.i > 1, Dispatcher \in ToSet(listeners), NEW o \in ToSet(devices')
        PROVE  AllDecided(o)'
    <3>1. o = d \/ (o \in ToSet(devices) /\ o \in Device \ {d})
      BY <1>4, <1>5
    <3> QED  BY <1>2, <1>6, <1>7, <2>1, <3>1 DEF Behind
  <2> QED  BY <2>1
<1>11. at.in /\ at.j = 0 => at.i > 1 \/ listeners[1] # Dispatcher
  BY <1>2 DEF Behind
<1> QED  BY <1>1, <1>8, <1>9, <1>10, <1>11, BehindPrime

\* Once something is taken away, nothing more is said of the message.
LEMMA DisturbedBehind ==
  ASSUME IInv, UNCHANGED current, Disturb
  PROVE  Behind'
BY Disturbs DEF IInv, Behind

-----------------------------------------------------------------------------
(* The second theorem *)

\* The steps of the system, the quiet ones included.
LEMMA StepBehind ==
  ASSUME IInv, Behind, [Next]_vars
  PROVE  Behind'
<1>1. CASE UNCHANGED vars
  <2>1. /\ current' = current /\ dev' = dev /\ devices' = devices /\ listeners' = listeners
        /\ at' = at
    BY <1>1 DEF vars, receptionVars, dispatchVars
  <2>2. \A d : Accepts(d)' <=> Accepts(d)
    BY <2>1 DEF Accepts, FilterMatch, Matches
  <2>3. \A d : \A n : Decided(d, n)' <=> Decided(d, n)
    BY <2>1, <2>2 DEF Decided, Matches
  <2>4. \A d : AllDecided(d)' <=> AllDecided(d)
    BY <2>1, <2>3 DEF AllDecided
  <2> QED  BY <2>1, <2>2, <2>3, <2>4 DEF Behind
<1>2. CASE \E a \in App : \E t \in Coming(a) : \E n \in Ends(a, t) : Receive(a, t, n)
  BY <1>2, ReceiveBehind
<1>3. CASE NextListener
  BY <1>3, NextListenerBehind
<1>4. CASE NextDevice
  BY <1>4, NextDeviceBehind
<1>5. CASE NextDeviceListener
  BY <1>5, NextDeviceListenerBehind
<1>6. CASE Return
  BY <1>6, ReturnBehind
<1>7. CASE \E f \in Func : MessageListenerAdd(f)
  BY <1>7, MessageListenerAddBehind
<1>8. CASE \E f \in Func : MessageListenerRemove(f)
  BY <1>8, DisturbedBehind DEF MessageListenerRemove, receptionVars
<1>9. CASE \E d \in Device : \E f \in Func : \E p \in Pattern : ListenerAdd(d, f, p)
  BY <1>9, ListenerAddBehind
<1>10. CASE \E d \in Device : \E f \in Func : ListenerRemove(d, f)
  BY <1>10, DisturbedBehind DEF ListenerRemove, receptionVars
<1>11. CASE \E d \in Device : \E id \in Id : AddDevice(d, id) \/ AddConfigurableDevice(d, id)
  BY <1>11, AddDeviceBehind
<1>12. CASE \E d \in Device : RemoveDevice(d)
  BY <1>12, DisturbedBehind DEF RemoveDevice, receptionVars
<1>13. CASE \E d \in Device : Retunes(d)
  BY <1>13, RetuneEffect, DisturbedBehind DEF IInv, receptionVars
<1> QED  BY <1>1, <1>2, <1>3, <1>4, <1>5, <1>6, <1>7, <1>8, <1>9, <1>10, <1>11, <1>12, <1>13
            DEF Next, Retunes

\* NobodyMissed of the run: when a message has made its way and nothing was taken away
\* meanwhile, each listener that was there when it came has been called if gxPLDeviceMessageHandler
\* accepts it for the device and the pattern of the listener matches, and not otherwise.
THEOREM NobodyMissedHolds == Spec => []NobodyMissed
<1>1. Init => IInv /\ Behind
  <2>1. Init => current = None
    BY DEF Init, ReceptionInit
  <2> QED  BY <2>1, InitOnce DEF Behind
<1>2. IInv /\ Behind /\ [Next]_vars => IInv' /\ Behind'
  BY StepOnce, StepBehind
<1>3. IInv /\ Behind => NobodyMissed
  <2> SUFFICES ASSUME IInv, Behind, current # None, at.i > Len(listeners), at.quiet,
                      Dispatcher \in ToSet(listeners),
                      NEW d \in ToSet(devices), NEW n \in DOMAIN dev[d].listener
               PROVE  Decided(d, n)
    BY DEF NobodyMissed, Decided
  <2>1. \E m \in 1 .. Len(listeners) : listeners[m] = Dispatcher
    BY ElementsAreAtIndexes DEF IInv, VectorsOK
  <2>2. at.i > 1
    BY <2>1, Vectors DEF IInv, VectorsOK, Positions
  <2> QED  BY <2>2 DEF Behind, AllDecided
<1> QED  BY <1>1, <1>2, <1>3, PTL DEF Spec
-----------------------------------------------------------------------------
(* The text of a message *)

\* Two sequences, and one more element at the end.
LEMMA TwoAndOne ==
  ASSUME NEW S, NEW s \in Seq(S), NEW t \in Seq(S), NEW e \in S,
         NEW u, u = s \o t \o <<e>>
  PROVE  /\ u \in Seq(S)
         /\ Len(s) \in Nat /\ Len(t) \in Nat
         /\ Len(u) = Len(s) + Len(t) + 1
         /\ \A j \in 1 .. Len(s) : u[j] = s[j]
         /\ \A j \in 1 .. Len(t) : u[Len(s) + j] = t[j]
         /\ u[Len(s) + Len(t) + 1] = e
<1>1. Len(s) \in Nat /\ Len(t) \in Nat
  BY LenProperties
<1>2. <<e>> \in Seq(S) /\ Len(<<e>>) = 1 /\ <<e>>[1] = e
  OBVIOUS
<1>3. /\ s \o t \in Seq(S) /\ Len(s \o t) = Len(s) + Len(t)
      /\ \A i \in 1 .. Len(s) + Len(t) : (s \o t)[i] = IF i <= Len(s) THEN s[i] ELSE t[i - Len(s)]
  BY ConcatProperties
<1>4. \A v \in Seq(S) :
        /\ v \o <<e>> \in Seq(S) /\ Len(v \o <<e>>) = Len(v) + 1
        /\ \A i \in 1 .. Len(v) + 1 : (v \o <<e>>)[i] = IF i <= Len(v) THEN v[i] ELSE <<e>>[i - Len(v)]
  BY <1>2, ConcatProperties
<1>5. /\ s \o t \o <<e>> \in Seq(S) /\ Len(s \o t \o <<e>>) = Len(s) + Len(t) + 1
      /\ \A i \in 1 .. Len(s) + Len(t) + 1 :
           (s \o t \o <<e>>)[i] = IF i <= Len(s) + Len(t) THEN (s \o t)[i]
                                  ELSE <<e>>[i - (Len(s) + Len(t))]
  BY <1>3, <1>4
<1>6. \A j \in 1 .. Len(s) : (s \o t \o <<e>>)[j] = s[j]
  BY <1>1, <1>3, <1>5
<1>7. \A j \in 1 .. Len(t) : (s \o t \o <<e>>)[Len(s) + j] = t[j]
  <2> SUFFICES ASSUME NEW j \in 1 .. Len(t)
               PROVE  (s \o t \o <<e>>)[Len(s) + j] = t[j]
    OBVIOUS
  <2>1. /\ Len(s) + j \in 1 .. Len(s) + Len(t) + 1 /\ Len(s) + j \in 1 .. Len(s) + Len(t)
        /\ ~(Len(s) + j <= Len(s)) /\ (Len(s) + j) - Len(s) = j /\ Len(s) + j <= Len(s) + Len(t)
    BY <1>1
  <2> QED  BY <1>3, <1>5, <2>1
<1>8. (s \o t \o <<e>>)[Len(s) + Len(t) + 1] = e
  <2>1. /\ Len(s) + Len(t) + 1 \in 1 .. Len(s) + Len(t) + 1
        /\ ~(Len(s) + Len(t) + 1 <= Len(s) + Len(t))
        /\ (Len(s) + Len(t) + 1) - (Len(s) + Len(t)) = 1
    BY <1>1
  <2> QED  BY <1>2, <1>5, <2>1
<1> QED  BY <1>1, <1>5, <1>6, <1>7, <1>8

\* The lines of a text, one after the other.
LEMMA TextShape ==
  ASSUME NEW m \in Sendable
  PROVE  /\ Len(m.body) \in Nat /\ DOMAIN m.body = 1 .. Len(m.body)
         /\ Len(Text(m)) = 9 + Len(m.body) /\ DOMAIN Text(m) = 1 .. Len(Text(m))
         /\ Text(m)[1] = Line("type", m.type)
         /\ Text(m)[2] = Line("begin", None)
         /\ Text(m)[3] = Line("hop", m.hop)
         /\ Text(m)[4] = Line("source", IdText(m.source))
         /\ Text(m)[5] = Line("target", IF m.isbroadcast THEN Star ELSE IdText(m.target))
         /\ Text(m)[6] = Line("end", None)
         /\ Text(m)[7] = Line("schema", m.schema)
         /\ Text(m)[8] = Line("begin", None)
         /\ \A j \in 1 .. Len(m.body) : Text(m)[8 + j] = Line("pair", m.body[j])
         /\ Text(m)[9 + Len(m.body)] = Line("end", None)
         /\ Text(m) = [i \in 1 .. Len(Text(m)) |-> Text(m)[i]]
<1> DEFINE target == IF m.isbroadcast THEN Star ELSE IdText(m.target)
           first == <<Line("type", m.type), Line("begin", None), Line("hop", m.hop),
                      Line("source", IdText(m.source)), Line("target", target),
                      Line("end", None), Line("schema", m.schema), Line("begin", None)>>
           pairs == [i \in DOMAIN m.body |-> Line("pair", m.body[i])]
           end == Line("end", None)
           L == {first[i] : i \in 1 .. 8} \cup {pairs[i] : i \in DOMAIN m.body}
<1>1. m.body \in Seq(Pairs) /\ m.type \in Types
  BY DEF Sendable, Messages
<1>2. Len(m.body) \in Nat /\ DOMAIN m.body = 1 .. Len(m.body)
  BY <1>1, LenProperties
<1>3. Text(m) = first \o pairs \o <<end>>
  <2>1. TypeToString(m.type) # Illegal
    BY <1>1, MessageAssumption DEF TypeToString
  <2> QED  BY <2>1 DEF Text
<1>4. /\ first[1] = Line("type", m.type)
      /\ first[2] = Line("begin", None)
      /\ first[3] = Line("hop", m.hop)
      /\ first[4] = Line("source", IdText(m.source))
      /\ first[5] = Line("target", target)
      /\ first[6] = Line("end", None)
      /\ first[7] = Line("schema", m.schema)
      /\ first[8] = Line("begin", None)
  OBVIOUS
<1>5. DOMAIN first = 1 .. 8 /\ first = [i \in DOMAIN first |-> first[i]]
  OBVIOUS
<1>6. \A j \in 1 .. Len(m.body) : pairs[j] = Line("pair", m.body[j])
  BY <1>2
<1>7. pairs \in [1 .. Len(m.body) -> L]
  BY <1>2
<1> HIDE DEF first, pairs, target
<1>8. first \in [1 .. 8 -> L]
  <2>1. \A i \in 1 .. 8 : first[i] \in L
    OBVIOUS
  <2> HIDE DEF L
  <2> QED  BY <1>5, <2>1
<1>9. end \in L
  <2>1. 6 \in 1 .. 8
    OBVIOUS
  <2> QED  BY <1>4, <2>1
<1> HIDE DEF L
<1>10. /\ first \in Seq(L) /\ Len(first) = 8
       /\ pairs \in Seq(L) /\ Len(pairs) = Len(m.body)
  <2>1. \A n \in Nat : \A f \in [1 .. n -> L] : f \in Seq(L) /\ Len(f) = n
    BY FunctionIsSeq
  <2>2. 8 \in Nat
    OBVIOUS
  <2>3. first \in Seq(L) /\ Len(first) = 8
    BY <1>8, <2>1, <2>2
  <2>4. pairs \in Seq(L) /\ Len(pairs) = Len(m.body)
    BY <1>2, <1>7, <2>1
  <2> QED  BY <2>3, <2>4
<1> HIDE DEF end
<1>11. /\ Text(m) \in Seq(L) /\ Len(Text(m)) = 8 + Len(m.body) + 1
       /\ \A j \in 1 .. 8 : Text(m)[j] = first[j]
       /\ \A j \in 1 .. Len(m.body) : Text(m)[8 + j] = pairs[j]
       /\ Text(m)[8 + Len(m.body) + 1] = end
  <2>1. first \in Seq(L) /\ pairs \in Seq(L)
    BY <1>10
  <2>2. Text(m) \in Seq(L) /\ Len(Text(m)) = Len(first) + Len(pairs) + 1
    BY <1>3, <1>9, <2>1, TwoAndOne
  <2>3. \A j \in 1 .. Len(first) : Text(m)[j] = first[j]
    BY <1>3, <1>9, <2>1, TwoAndOne
  <2>4. \A j \in 1 .. Len(pairs) : Text(m)[Len(first) + j] = pairs[j]
    BY <1>3, <1>9, <2>1, TwoAndOne
  <2>5. Text(m)[Len(first) + Len(pairs) + 1] = end
    BY <1>3, <1>9, <2>1, TwoAndOne
  <2> QED  BY <1>10, <2>2, <2>3, <2>4, <2>5
<1>12. 8 + Len(m.body) + 1 = 9 + Len(m.body)
  BY <1>2
<1>13. DOMAIN Text(m) = 1 .. Len(Text(m))
  BY <1>11, LenProperties
<1>14. \A j \in 1 .. Len(m.body) : Text(m)[8 + j] = Line("pair", m.body[j])
  BY <1>6, <1>11
<1>15. \A j \in {1, 2, 3, 4, 5, 6, 7, 8} : Text(m)[j] = first[j]
  BY <1>11
<1>16. Text(m) = [i \in 1 .. Len(Text(m)) |-> Text(m)[i]]
  BY <1>11, LenProperties
<1> QED  BY <1>2, <1>4, <1>11, <1>12, <1>13, <1>14, <1>15, <1>16 DEF end, target

\* Which line of a text says what.
LEMMA TextLines ==
  ASSUME NEW m \in Sendable
  PROVE  /\ Len(m.body) \in Nat /\ DOMAIN m.body = 1 .. Len(m.body)
         /\ Len(Text(m)) = 9 + Len(m.body) /\ DOMAIN Text(m) = 1 .. Len(Text(m))
         /\ Text(m)[1] = Line("type", m.type)
         /\ Text(m)[2] = Line("begin", None)
         /\ Text(m)[3] = Line("hop", m.hop)
         /\ Text(m)[4] = Line("source", IdText(m.source))
         /\ Text(m)[5] = Line("target", IF m.isbroadcast THEN Star ELSE IdText(m.target))
         /\ Text(m)[6] = Line("end", None)
         /\ Text(m)[7] = Line("schema", m.schema)
         /\ Text(m)[8] = Line("begin", None)
         /\ \A j \in 1 .. Len(m.body) : Text(m)[8 + j] = Line("pair", m.body[j])
         /\ Text(m)[9 + Len(m.body)] = Line("end", None)
BY TextShape

-----------------------------------------------------------------------------
(* Identifiers *)

\* Words in small letters are kept.
LEMMA SmallLettersStay ==
  ASSUME NEW p \in Seq(Word), \A w \in ToSet(p) : Lower[w] = w
  PROVE  StrCpy(p) = p
<1>1. /\ \A i \in DOMAIN p : p[i] \in Word /\ Lower[p[i]] = p[i]
      /\ \A w \in ToSet(p) : w \in Word
  BY ElementsAreAtIndexes
<1>2. ~ \E w \in ToSet(p) : Lower[w] = Illegal
  BY <1>1, IdentifierAssumption
<1>3. [i \in DOMAIN p |-> Lower[p[i]]] = [i \in DOMAIN p |-> p[i]]
  BY <1>1
<1>4. p = [i \in DOMAIN p |-> p[i]]
  BY LenProperties
<1> QED  BY <1>2, <1>3, <1>4 DEF StrCpy

\* The setters take the parts as they are, or refuse the identifier.
LEMMA CopiedOrRefused ==
  ASSUME NEW p \in [vendor : Seq(Word), device : Seq(Word), instance : Seq(Word)],
         \A k \in DOMAIN p : \A w \in ToSet(p[k]) : Lower[w] = w
  PROVE  IdCopy(p) = p \/ IdCopy(p) = Illegal
<1> SUFFICES ASSUME IdCopy(p) # Illegal
             PROVE  IdCopy(p) = p
  OBVIOUS
<1>1. DOMAIN PartMax = {"vendor", "device", "instance"}
  BY IdentifierAssumption
<1>2. /\ Suits("vendor", p.vendor) /\ Suits("device", p.device) /\ Suits("instance", p.instance)
      /\ IdCopy(p) = PartSet(PartSet(PartSet(NoParts, "vendor", p.vendor), "device", p.device),
                             "instance", p.instance)
  BY <1>1 DEF IdCopy
<1>3. /\ p.vendor # Star /\ p.device # Star /\ p.instance # Star
      /\ StrCpy(p.vendor) = p.vendor /\ StrCpy(p.device) = p.device
      /\ StrCpy(p.instance) = p.instance
  <2>1. p.vendor \in Seq(Word) /\ p.device \in Seq(Word) /\ p.instance \in Seq(Word)
    OBVIOUS
  <2>2. /\ \A w \in ToSet(p.vendor) : Lower[w] = w
        /\ \A w \in ToSet(p.device) : Lower[w] = w
        /\ \A w \in ToSet(p.instance) : Lower[w] = w
    OBVIOUS
  <2>3. Star \notin Seq(Word)
    BY IdentifierAssumption
  <2> QED  BY <2>1, <2>2, <2>3, SmallLettersStay
<1>4. PartSet(NoParts, "vendor", p.vendor) =
        [vendor |-> p.vendor, device |-> << >>, instance |-> << >>]
  BY <1>2, <1>3 DEF PartSet, NoParts
<1>5. PartSet([vendor |-> p.vendor, device |-> << >>, instance |-> << >>], "device", p.device) =
        [vendor |-> p.vendor, device |-> p.device, instance |-> << >>]
  BY <1>2, <1>3 DEF PartSet
<1>6. PartSet([vendor |-> p.vendor, device |-> p.device, instance |-> << >>],
              "instance", p.instance) =
        [vendor |-> p.vendor, device |-> p.device, instance |-> p.instance]
  BY <1>2, <1>3 DEF PartSet
<1>7. p = [vendor |-> p.vendor, device |-> p.device, instance |-> p.instance]
  OBVIOUS
<1> QED  BY <1>2, <1>4, <1>5, <1>6, <1>7

\* The first element of two sequences put together, and what comes after it.
LEMMA HeadOfTwo ==
  ASSUME NEW S, NEW s \in Seq(S), NEW t \in Seq(S), s # << >>
  PROVE  /\ s \o t # << >>
         /\ Head(s \o t) = Head(s) /\ Head(s) \in ToSet(s) /\ Head(s) \in S
         /\ Tail(s \o t) = Tail(s) \o t
         /\ Tail(s) \in Seq(S) /\ ToSet(Tail(s)) \subseteq ToSet(s)
         /\ ToSet(Tail(s) \o t) \subseteq ToSet(s) \cup ToSet(t)
<1>1. /\ Len(s) \in Nat \ {0} /\ Len(t) \in Nat
      /\ DOMAIN s = 1 .. Len(s) /\ DOMAIN t = 1 .. Len(t)
  BY EmptySeq, LenProperties
<1>2. /\ s \o t \in Seq(S) /\ Len(s \o t) = Len(s) + Len(t)
      /\ \A i \in 1 .. Len(s) + Len(t) : (s \o t)[i] = IF i <= Len(s) THEN s[i] ELSE t[i - Len(s)]
  BY ConcatProperties
<1>3. s \o t # << >> /\ Len(s \o t) > 0
  BY <1>1, <1>2
<1>4. /\ Head(s) \in S /\ Tail(s) \in Seq(S) /\ Len(Tail(s)) = Len(s) - 1
      /\ \A i \in 1 .. Len(Tail(s)) : Tail(s)[i] = s[i + 1]
  BY HeadTailProperties
<1>5. /\ Tail(s \o t) \in Seq(S) /\ Len(Tail(s \o t)) = Len(s \o t) - 1
      /\ \A i \in 1 .. Len(Tail(s \o t)) : Tail(s \o t)[i] = (s \o t)[i + 1]
  BY <1>2, <1>3, HeadTailProperties
<1>6. Head(s) = s[1] /\ Head(s \o t) = (s \o t)[1]
  OBVIOUS
<1>7. Head(s \o t) = Head(s)
  BY <1>1, <1>2, <1>6
<1>8. Head(s) \in ToSet(s)
  BY <1>1, <1>6 DEF ToSet
<1>9. /\ Tail(s) \o t \in Seq(S) /\ Len(Tail(s) \o t) = Len(s) - 1 + Len(t)
      /\ \A i \in 1 .. Len(s) - 1 + Len(t) :
           (Tail(s) \o t)[i] = IF i <= Len(s) - 1 THEN Tail(s)[i] ELSE t[i - (Len(s) - 1)]
  BY <1>4, ConcatProperties
<1>10. \A i \in 1 .. Len(s) - 1 + Len(t) : Tail(s \o t)[i] = (Tail(s) \o t)[i]
  <2> SUFFICES ASSUME NEW i \in 1 .. Len(s) - 1 + Len(t)
               PROVE  Tail(s \o t)[i] = (Tail(s) \o t)[i]
    OBVIOUS
  <2>1. i \in 1 .. Len(Tail(s \o t)) /\ i + 1 \in 1 .. Len(s) + Len(t)
    BY <1>1, <1>2, <1>5
  <2>2. Tail(s \o t)[i] = IF i + 1 <= Len(s) THEN s[i + 1] ELSE t[(i + 1) - Len(s)]
    BY <1>2, <1>5, <2>1
  <2>3. CASE i + 1 <= Len(s)
    BY <1>1, <1>4, <1>9, <2>2, <2>3
  <2>4. CASE ~(i + 1 <= Len(s))
    <3>1. (i + 1) - Len(s) = i - (Len(s) - 1) /\ ~(i <= Len(s) - 1)
      BY <1>1, <2>4
    <3> QED  BY <1>9, <2>2, <2>4, <3>1
  <2> QED  BY <2>3, <2>4
<1>11. Tail(s \o t) = Tail(s) \o t
  <2>1. Len(Tail(s \o t)) = Len(Tail(s) \o t) /\ Len(Tail(s) \o t) = Len(s) - 1 + Len(t)
    BY <1>1, <1>2, <1>5, <1>9
  <2>2. \A i \in 1 .. Len(Tail(s \o t)) : Tail(s \o t)[i] = (Tail(s) \o t)[i]
    BY <1>10, <2>1
  <2> QED  BY <1>5, <1>9, <2>1, <2>2, SeqEqual
<1>12. ToSet(Tail(s)) \subseteq ToSet(s)
  <2>1. DOMAIN Tail(s) = 1 .. Len(Tail(s))
    BY <1>4, LenProperties
  <2>2. \A i \in 1 .. Len(Tail(s)) : Tail(s)[i] = s[i + 1] /\ i + 1 \in 1 .. Len(s)
    BY <1>1, <1>4
  <2> QED  BY <1>1, <2>1, <2>2 DEF ToSet
<1>13. ToSet(Tail(s) \o t) \subseteq ToSet(s) \cup ToSet(t)
  <2> SUFFICES ASSUME NEW i \in 1 .. Len(s) - 1 + Len(t)
               PROVE  (Tail(s) \o t)[i] \in ToSet(s) \cup ToSet(t)
    <3>1. DOMAIN (Tail(s) \o t) = 1 .. Len(s) - 1 + Len(t)
      BY <1>9, LenProperties
    <3> QED  BY <3>1 DEF ToSet
  <2>1. CASE i <= Len(s) - 1
    <3>1. i \in 1 .. Len(Tail(s)) /\ i + 1 \in 1 .. Len(s)
      BY <1>1, <1>4, <2>1
    <3> QED  BY <1>1, <1>4, <1>9, <2>1, <3>1 DEF ToSet
  <2>2. CASE ~(i <= Len(s) - 1)
    <3>1. i - (Len(s) - 1) \in 1 .. Len(t)
      BY <1>1, <2>2
    <3> QED  BY <1>1, <1>9, <2>2, <3>1 DEF ToSet
  <2> QED  BY <2>1, <2>2
<1> QED  BY <1>3, <1>4, <1>7, <1>8, <1>11, <1>12, <1>13

\* The text of an identifier gives the identifier cut at its first hyphen, or nothing.
LEMMA ReadsBack ==
  ASSUME NEW id \in Settled
  PROVE  /\ IdFromString(IdText(id)) \in {Cut(id), Illegal}
         /\ Cut(id) \in Identifier /\ Cut(id) # Star /\ IdText(id) # Star
<1> DEFINE p == [vendor |-> <<Head(IdText(id).before)>>, device |-> Tail(IdText(id).before),
                 instance |-> IdText(id).after]
<1>1. /\ id \in [vendor : Seq(Word), device : Seq(Word), instance : Seq(Word)]
      /\ id.vendor \in Seq(Word) /\ id.device \in Seq(Word) /\ id.instance \in Seq(Word)
      /\ id.vendor # << >>
      /\ \A k \in DOMAIN id : \A w \in ToSet(id[k]) : Lower[w] = w
  BY DEF Settled
<1>2. /\ \A w \in ToSet(id.vendor) : Lower[w] = w
      /\ \A w \in ToSet(id.device) : Lower[w] = w
      /\ \A w \in ToSet(id.instance) : Lower[w] = w
  BY <1>1
<1>3. IdText(id).before = id.vendor \o id.device /\ IdText(id).after = id.instance
  BY DEF IdText
<1>4. /\ IdText(id).before # << >> /\ IdText(id).before \in Seq(Word)
      /\ Head(IdText(id).before) = Head(id.vendor) /\ Head(id.vendor) \in ToSet(id.vendor)
      /\ Head(id.vendor) \in Word
      /\ Tail(IdText(id).before) = Tail(id.vendor) \o id.device
      /\ Tail(id.vendor) \o id.device \in Seq(Word)
      /\ ToSet(Tail(id.vendor) \o id.device) \subseteq ToSet(id.vendor) \cup ToSet(id.device)
  <2>1. id.vendor \o id.device \in Seq(Word)
    BY <1>1, ConcatProperties
  <2>2. Tail(id.vendor) \in Seq(Word)
    BY <1>1, HeadOfTwo
  <2>3. Tail(id.vendor) \o id.device \in Seq(Word)
    BY <1>1, <2>2, ConcatProperties
  <2>4. /\ id.vendor \o id.device # << >>
        /\ Head(id.vendor \o id.device) = Head(id.vendor) /\ Head(id.vendor) \in ToSet(id.vendor)
        /\ Head(id.vendor) \in Word
        /\ Tail(id.vendor \o id.device) = Tail(id.vendor) \o id.device
        /\ ToSet(Tail(id.vendor) \o id.device) \subseteq ToSet(id.vendor) \cup ToSet(id.device)
    BY <1>1, HeadOfTwo
  <2> QED  BY <1>3, <2>1, <2>3, <2>4
<1>5. p = Cut(id)
  <2>1. Cut(id) = [vendor |-> <<Head(id.vendor)>>, device |-> Tail(id.vendor) \o id.device,
                   instance |-> id.instance]
    <3> DEFINE v == <<Head(id.vendor)>>
               d == Tail(id.vendor) \o id.device
    <3>1. id \in [vendor : Seq(Word), device : Seq(Word), instance : Seq(Word)]
      BY <1>1
    <3>2. Cut(id) = [id EXCEPT !.vendor = v, !.device = d]
      BY <3>1 DEF Cut
    <3> HIDE DEF v, d
    <3>3. [id EXCEPT !.vendor = v, !.device = d] =
            [vendor |-> v, device |-> d, instance |-> id.instance]
      <4> DEFINE x == [id EXCEPT !.vendor = v]
      <4>1. id = [vendor |-> id.vendor, device |-> id.device, instance |-> id.instance]
        BY <3>1
      <4>2. x = [vendor |-> v, device |-> id.device, instance |-> id.instance]
        BY <4>1
      <4>3. [id EXCEPT !.vendor = v, !.device = d] = [x EXCEPT !.device = d]
        OBVIOUS
      <4> HIDE DEF x
      <4>4. [x EXCEPT !.device = d] = [vendor |-> v, device |-> d, instance |-> id.instance]
        BY <4>2
      <4> QED  BY <4>3, <4>4
    <3> QED  BY <3>2, <3>3 DEF v, d
  <2> QED  BY <1>3, <1>4, <2>1
<1>6. /\ <<Head(id.vendor)>> \in Seq(Word)
      /\ \A w \in ToSet(<<Head(id.vendor)>>) : Lower[w] = w
  <2>1. ToSet(<<Head(id.vendor)>>) = {Head(id.vendor)}
    BY DEF ToSet
  <2> QED  BY <1>2, <1>4, <2>1
<1>7. /\ p \in [vendor : Seq(Word), device : Seq(Word), instance : Seq(Word)]
      /\ \A k \in DOMAIN p : \A w \in ToSet(p[k]) : Lower[w] = w
  <2>1. p = [vendor |-> <<Head(id.vendor)>>, device |-> Tail(id.vendor) \o id.device,
             instance |-> id.instance]
    BY <1>3, <1>4
  <2>2. \A w \in ToSet(Tail(id.vendor) \o id.device) : Lower[w] = w
    BY <1>2, <1>4
  <2> HIDE DEF p
  <2>3. /\ p \in [vendor : Seq(Word), device : Seq(Word), instance : Seq(Word)]
        /\ DOMAIN p = {"vendor", "device", "instance"}
    BY <1>1, <1>4, <1>6, <2>1
  <2>4. /\ \A w \in ToSet(p.vendor) : Lower[w] = w
        /\ \A w \in ToSet(p.device) : Lower[w] = w
        /\ \A w \in ToSet(p.instance) : Lower[w] = w
    <3>1. /\ p.vendor = <<Head(id.vendor)>> /\ p.device = Tail(id.vendor) \o id.device
          /\ p.instance = id.instance
      BY <2>1
    <3> QED  BY <1>2, <1>6, <2>2, <3>1
  <2> QED  BY <2>3, <2>4
<1>8. IdFromString(IdText(id)) = IdCopy(p)
  BY <1>4 DEF IdFromString
<1> HIDE DEF p
<1>9. IdCopy(p) = p \/ IdCopy(p) = Illegal
  BY <1>7, CopiedOrRefused
<1>10. p \in Identifier /\ p # Star
  BY <1>7, IdentifierAssumption DEF Identifier, Part
<1>11. IdText(id) # Star
  <2>1. IdText(id) \in [before : Seq(Word), after : Seq(Word)]
    BY <1>1, <1>3, <1>4 DEF IdText
  <2> QED  BY <2>1, IdentifierAssumption
<1> QED  BY <1>5, <1>8, <1>9, <1>10, <1>11

-----------------------------------------------------------------------------
(* The parser reads a text line by line *)

\* The target that the text of m names.
Aim(m) == IF m.isbroadcast THEN Star ELSE Cut(m.target)

\* Where the parser is after k lines of m, and what it has put together by then.
Reached(m, k) ==
  CASE k = 0 -> "Init" [] k = 1 -> "Header" [] k = 2 -> "HeaderHop" [] k = 3 -> "HeaderSource"
    [] k = 4 -> "HeaderTarget" [] k = 5 -> "HeaderEnd" [] k = 6 -> "Schema"
    [] k = 7 -> "BodyBegin" [] k \in 8 .. 8 + Len(m.body) -> "Body" [] OTHER -> "End"

BodyUpto(m, k) ==
  IF k <= 8 THEN << >> ELSE IF k <= 8 + Len(m.body) THEN SubSeq(m.body, 1, k - 8) ELSE m.body

\* The two flags.
ForAll(m, k) == k >= 5 /\ Aim(m) = Star
ForGroup(m, k) == k >= 5 /\ Aim(m) # Star /\ IsGroup(Aim(m))

Parsed(m, k) ==
  [type |-> IF k >= 1 THEN m.type ELSE Star,
   hop |-> IF k >= 3 THEN m.hop ELSE 1,
   source |-> IF k >= 4 THEN Cut(m.source) ELSE None,
   target |-> IF k >= 5 THEN Aim(m) ELSE None,
   isbroadcast |-> ForAll(m, k),
   isgrouped |-> ForGroup(m, k),
   schema |-> IF k >= 7 THEN m.schema ELSE None,
   body |-> BodyUpto(m, k),
   state |-> Reached(m, k)]

\* A line that is wanted, and one that is not.
LEMMA TakesLine ==
  ASSUME NEW x, NEW piece, NEW i, x.state \notin {"End", "Error", "Body"}
  PROVE  /\ (Wants[x.state] = piece[i].is /\ Meaning(piece[i]) # Illegal) =>
              Take(x, piece, i) = [Noted(x, piece[i]) EXCEPT !.state = Then[x.state]]
         /\ (Wants[x.state] = piece[i].is /\ Meaning(piece[i]) = Illegal) =>
              Take(x, piece, i) = IF x.state = "HeaderTarget" THEN x ELSE Failed(x)
         /\ Wants[x.state] # piece[i].is => Take(x, piece, i) = Failed(x)
BY DEF Take, InBody

\* The states of the header.
LEMMA HeaderStates ==
  ASSUME NEW m \in Sendable
  PROVE  /\ Reached(m, 0) = "Init" /\ Reached(m, 1) = "Header" /\ Reached(m, 2) = "HeaderHop"
         /\ Reached(m, 3) = "HeaderSource" /\ Reached(m, 4) = "HeaderTarget"
         /\ Reached(m, 5) = "HeaderEnd" /\ Reached(m, 6) = "Schema"
         /\ Reached(m, 7) = "BodyBegin" /\ Reached(m, 8) = "Body"
<1>1. 8 \in 8 .. 8 + Len(m.body)
  BY TextLines
<1>2. Reached(m, 8) = "Body"
  BY <1>1 DEF Reached
<1> QED  BY <1>2 DEF Reached

\* What the parser has put together in the header.
LEMMA HeaderParsed ==
  ASSUME NEW m \in Sendable
  PROVE  /\ Parsed(m, 0) =
              [type |-> Star, hop |-> 1, source |-> None, target |-> None,
               isbroadcast |-> ForAll(m, 0), isgrouped |-> ForGroup(m, 0),
               schema |-> None, body |-> << >>, state |-> "Init"]
         /\ Parsed(m, 1) =
              [type |-> m.type, hop |-> 1, source |-> None, target |-> None,
               isbroadcast |-> ForAll(m, 1), isgrouped |-> ForGroup(m, 1),
               schema |-> None, body |-> << >>, state |-> "Header"]
         /\ Parsed(m, 2) =
              [type |-> m.type, hop |-> 1, source |-> None, target |-> None,
               isbroadcast |-> ForAll(m, 2), isgrouped |-> ForGroup(m, 2),
               schema |-> None, body |-> << >>, state |-> "HeaderHop"]
         /\ Parsed(m, 3) =
              [type |-> m.type, hop |-> m.hop, source |-> None, target |-> None,
               isbroadcast |-> ForAll(m, 3), isgrouped |-> ForGroup(m, 3),
               schema |-> None, body |-> << >>, state |-> "HeaderSource"]
         /\ Parsed(m, 4) =
              [type |-> m.type, hop |-> m.hop, source |-> Cut(m.source), target |-> None,
               isbroadcast |-> ForAll(m, 4), isgrouped |-> ForGroup(m, 4),
               schema |-> None, body |-> << >>, state |-> "HeaderTarget"]
         /\ Parsed(m, 5) =
              [type |-> m.type, hop |-> m.hop, source |-> Cut(m.source), target |-> Aim(m),
               isbroadcast |-> ForAll(m, 5), isgrouped |-> ForGroup(m, 5),
               schema |-> None, body |-> << >>, state |-> "HeaderEnd"]
         /\ Parsed(m, 6) =
              [type |-> m.type, hop |-> m.hop, source |-> Cut(m.source), target |-> Aim(m),
               isbroadcast |-> ForAll(m, 6), isgrouped |-> ForGroup(m, 6),
               schema |-> None, body |-> << >>, state |-> "Schema"]
         /\ Parsed(m, 7) =
              [type |-> m.type, hop |-> m.hop, source |-> Cut(m.source), target |-> Aim(m),
               isbroadcast |-> ForAll(m, 7), isgrouped |-> ForGroup(m, 7),
               schema |-> m.schema, body |-> << >>, state |-> "BodyBegin"]
         /\ Parsed(m, 8) =
              [type |-> m.type, hop |-> m.hop, source |-> Cut(m.source), target |-> Aim(m),
               isbroadcast |-> ForAll(m, 8), isgrouped |-> ForGroup(m, 8),
               schema |-> m.schema, body |-> << >>, state |-> "Body"]
<1>1. \A n \in 0 .. 8 : BodyUpto(m, n) = << >>
  BY DEF BodyUpto
<1>2. Parsed(m, 0) =
        [type |-> Star, hop |-> 1, source |-> None, target |-> None,
         isbroadcast |-> ForAll(m, 0), isgrouped |-> ForGroup(m, 0),
         schema |-> None, body |-> << >>, state |-> "Init"]
  BY <1>1, HeaderStates DEF Parsed
<1>3. Parsed(m, 1) =
        [type |-> m.type, hop |-> 1, source |-> None, target |-> None,
         isbroadcast |-> ForAll(m, 1), isgrouped |-> ForGroup(m, 1),
         schema |-> None, body |-> << >>, state |-> "Header"]
  BY <1>1, HeaderStates DEF Parsed
<1>4. Parsed(m, 2) =
        [type |-> m.type, hop |-> 1, source |-> None, target |-> None,
         isbroadcast |-> ForAll(m, 2), isgrouped |-> ForGroup(m, 2),
         schema |-> None, body |-> << >>, state |-> "HeaderHop"]
  BY <1>1, HeaderStates DEF Parsed
<1>5. Parsed(m, 3) =
        [type |-> m.type, hop |-> m.hop, source |-> None, target |-> None,
         isbroadcast |-> ForAll(m, 3), isgrouped |-> ForGroup(m, 3),
         schema |-> None, body |-> << >>, state |-> "HeaderSource"]
  BY <1>1, HeaderStates DEF Parsed
<1>6. Parsed(m, 4) =
        [type |-> m.type, hop |-> m.hop, source |-> Cut(m.source), target |-> None,
         isbroadcast |-> ForAll(m, 4), isgrouped |-> ForGroup(m, 4),
         schema |-> None, body |-> << >>, state |-> "HeaderTarget"]
  BY <1>1, HeaderStates DEF Parsed
<1>7. Parsed(m, 5) =
        [type |-> m.type, hop |-> m.hop, source |-> Cut(m.source), target |-> Aim(m),
         isbroadcast |-> ForAll(m, 5), isgrouped |-> ForGroup(m, 5),
         schema |-> None, body |-> << >>, state |-> "HeaderEnd"]
  BY <1>1, HeaderStates DEF Parsed
<1>8. Parsed(m, 6) =
        [type |-> m.type, hop |-> m.hop, source |-> Cut(m.source), target |-> Aim(m),
         isbroadcast |-> ForAll(m, 6), isgrouped |-> ForGroup(m, 6),
         schema |-> None, body |-> << >>, state |-> "Schema"]
  BY <1>1, HeaderStates DEF Parsed
<1>9. Parsed(m, 7) =
        [type |-> m.type, hop |-> m.hop, source |-> Cut(m.source), target |-> Aim(m),
         isbroadcast |-> ForAll(m, 7), isgrouped |-> ForGroup(m, 7),
         schema |-> m.schema, body |-> << >>, state |-> "BodyBegin"]
  BY <1>1, HeaderStates DEF Parsed
<1>10. Parsed(m, 8) =
        [type |-> m.type, hop |-> m.hop, source |-> Cut(m.source), target |-> Aim(m),
         isbroadcast |-> ForAll(m, 8), isgrouped |-> ForGroup(m, 8),
         schema |-> m.schema, body |-> << >>, state |-> "Body"]
  BY <1>1, HeaderStates DEF Parsed
<1> QED  BY <1>2, <1>3, <1>4, <1>5, <1>6, <1>7, <1>8, <1>9, <1>10

\* In the header, a legal line of m takes the parser on, and an illegal one to an
\* error, of which it forgets the one of the target for a line.
LEMMA HeaderStep ==
  ASSUME NEW m \in Sendable, NEW k \in 0 .. 7, NEW piece, NEW i, piece[i] = Text(m)[k + 1]
  PROVE  /\ Meaning(piece[i]) # Illegal => Take(Parsed(m, k), piece, i) = Parsed(m, k + 1)
         /\ Meaning(piece[i]) = Illegal =>
              /\ k = 4 => Take(Parsed(m, k), piece, i) = Parsed(m, 4)
              /\ k # 4 => Take(Parsed(m, k), piece, i) = Failed(Parsed(m, k))
<1> DEFINE x == Parsed(m, k)
           line == piece[i]
           target == IF m.isbroadcast THEN Star ELSE IdText(m.target)
<1>1. /\ m.type \in Types /\ m.schema \in Schema /\ m.hop \in Nat
      /\ m.isbroadcast \in BOOLEAN /\ m.body \in Seq(Pairs)
      /\ m.source \in Settled /\ (~m.isbroadcast => m.target \in Settled)
  BY DEF Sendable, Messages
<1>2. /\ IdFromString(IdText(m.source)) \in {Cut(m.source), Illegal}
      /\ ~m.isbroadcast =>
           /\ IdFromString(IdText(m.target)) \in {Cut(m.target), Illegal}
           /\ Cut(m.target) # Star /\ IdText(m.target) # Star
  BY <1>1, ReadsBack
<1>3. x.state = Reached(m, k)
  BY DEF Parsed
<1>4. line = Text(m)[k + 1]
  OBVIOUS
<1>5. k \in {0, 1, 2, 3, 4, 5, 6, 7}
  OBVIOUS
<1> HIDE DEF x, line, target
<1>6. /\ k = 0 => line = Line("type", m.type)
      /\ k = 1 => line = Line("begin", None)
      /\ k = 2 => line = Line("hop", m.hop)
      /\ k = 3 => line = Line("source", IdText(m.source))
      /\ k = 4 => line = Line("target", target)
      /\ k = 5 => line = Line("end", None)
      /\ k = 6 => line = Line("schema", m.schema)
      /\ k = 7 => line = Line("begin", None)
  BY <1>4, TextLines DEF target
<1>7. Wants[x.state] = line.is
  BY <1>3, <1>5, <1>6, HeaderStates DEF Wants, Line
<1>8. x.state \notin {"End", "Error", "Body"} /\ (x.state = "HeaderTarget" <=> k = 4)
  BY <1>3, <1>5, HeaderStates
<1>9. /\ Meaning(line) = Illegal => Take(x, piece, i) = IF k = 4 THEN x ELSE Failed(x)
      /\ Meaning(line) # Illegal =>
           Take(x, piece, i) = [Noted(x, line) EXCEPT !.state = Then[x.state]]
  BY <1>7, <1>8, TakesLine DEF line
<1>10. ASSUME Meaning(line) # Illegal
       PROVE  Take(x, piece, i) = Parsed(m, k + 1)
  <2> DEFINE noted == Noted(x, line)
  <2>1. CASE k = 0
    <3>1. line.is = "type" /\ line.value = m.type
      BY <1>6, <2>1 DEF Line
    <3>2. x = [type |-> Star, hop |-> 1, source |-> None, target |-> None,
            isbroadcast |-> ForAll(m, 0), isgrouped |-> ForGroup(m, 0),
            schema |-> None, body |-> << >>, state |-> "Init"]
      BY <2>1, HeaderParsed DEF x
    <3>3. Parsed(m, k + 1) =
            [type |-> m.type, hop |-> 1, source |-> None, target |-> None,
            isbroadcast |-> ForAll(m, 1), isgrouped |-> ForGroup(m, 1),
            schema |-> None, body |-> << >>, state |-> "Header"]
      BY <2>1, HeaderParsed
    <3>4. Then[x.state] = "Header"
      BY <1>3, <2>1, HeaderStates DEF Then
    <3>5. Meaning(line) = m.type
      BY <3>1 DEF Meaning
    <3>6. noted = [x EXCEPT !.type = m.type]
      BY <3>1, <3>5 DEF Noted, TypeSet
    <3>70. ForAll(m, k + 1) = ForAll(m, k) /\ ForGroup(m, k + 1) = ForGroup(m, k)
      BY <2>1 DEF ForAll, ForGroup
    <3>7. noted = [type |-> m.type, hop |-> 1, source |-> None, target |-> None,
            isbroadcast |-> ForAll(m, 1), isgrouped |-> ForGroup(m, 1),
            schema |-> None, body |-> << >>, state |-> "Init"]
      BY <2>1, <3>2, <3>6, <3>70
    <3> HIDE DEF noted
    <3>8. Take(x, piece, i) = [noted EXCEPT !.state = "Header"]
      BY <1>9, <1>10, <3>4 DEF noted
    <3> QED  BY <3>3, <3>7, <3>8
  <2>2. CASE k = 1
    <3>1. line.is = "begin" /\ line.value = None
      BY <1>6, <2>2 DEF Line
    <3>2. x = [type |-> m.type, hop |-> 1, source |-> None, target |-> None,
            isbroadcast |-> ForAll(m, 1), isgrouped |-> ForGroup(m, 1),
            schema |-> None, body |-> << >>, state |-> "Header"]
      BY <2>2, HeaderParsed DEF x
    <3>3. Parsed(m, k + 1) =
            [type |-> m.type, hop |-> 1, source |-> None, target |-> None,
            isbroadcast |-> ForAll(m, 2), isgrouped |-> ForGroup(m, 2),
            schema |-> None, body |-> << >>, state |-> "HeaderHop"]
      BY <2>2, HeaderParsed
    <3>4. Then[x.state] = "HeaderHop"
      BY <1>3, <2>2, HeaderStates DEF Then
    <3>5. Meaning(line) = None
      BY <3>1 DEF Meaning
    <3>6. noted = x
      BY <3>1, <3>5 DEF Noted
    <3>70. ForAll(m, k + 1) = ForAll(m, k) /\ ForGroup(m, k + 1) = ForGroup(m, k)
      BY <2>2 DEF ForAll, ForGroup
    <3>7. noted = [type |-> m.type, hop |-> 1, source |-> None, target |-> None,
            isbroadcast |-> ForAll(m, 2), isgrouped |-> ForGroup(m, 2),
            schema |-> None, body |-> << >>, state |-> "Header"]
      BY <2>2, <3>2, <3>6, <3>70
    <3> HIDE DEF noted
    <3>8. Take(x, piece, i) = [noted EXCEPT !.state = "HeaderHop"]
      BY <1>9, <1>10, <3>4 DEF noted
    <3> QED  BY <3>3, <3>7, <3>8
  <2>3. CASE k = 2
    <3>1. line.is = "hop" /\ line.value = m.hop
      BY <1>6, <2>3 DEF Line
    <3>2. x = [type |-> m.type, hop |-> 1, source |-> None, target |-> None,
            isbroadcast |-> ForAll(m, 2), isgrouped |-> ForGroup(m, 2),
            schema |-> None, body |-> << >>, state |-> "HeaderHop"]
      BY <2>3, HeaderParsed DEF x
    <3>3. Parsed(m, k + 1) =
            [type |-> m.type, hop |-> m.hop, source |-> None, target |-> None,
            isbroadcast |-> ForAll(m, 3), isgrouped |-> ForGroup(m, 3),
            schema |-> None, body |-> << >>, state |-> "HeaderSource"]
      BY <2>3, HeaderParsed
    <3>4. Then[x.state] = "HeaderSource"
      BY <1>3, <2>3, HeaderStates DEF Then
    <3>5. Meaning(line) = m.hop
      BY <3>1 DEF Meaning
    <3>6. noted = [x EXCEPT !.hop = m.hop]
      BY <3>1, <3>5 DEF Noted, HopSet
    <3>70. ForAll(m, k + 1) = ForAll(m, k) /\ ForGroup(m, k + 1) = ForGroup(m, k)
      BY <2>3 DEF ForAll, ForGroup
    <3>7. noted = [type |-> m.type, hop |-> m.hop, source |-> None, target |-> None,
            isbroadcast |-> ForAll(m, 3), isgrouped |-> ForGroup(m, 3),
            schema |-> None, body |-> << >>, state |-> "HeaderHop"]
      BY <2>3, <3>2, <3>6, <3>70
    <3> HIDE DEF noted
    <3>8. Take(x, piece, i) = [noted EXCEPT !.state = "HeaderSource"]
      BY <1>9, <1>10, <3>4 DEF noted
    <3> QED  BY <3>3, <3>7, <3>8
  <2>4. CASE k = 3
    <3>1. line.is = "source" /\ line.value = IdText(m.source)
      BY <1>6, <2>4 DEF Line
    <3>2. x = [type |-> m.type, hop |-> m.hop, source |-> None, target |-> None,
            isbroadcast |-> ForAll(m, 3), isgrouped |-> ForGroup(m, 3),
            schema |-> None, body |-> << >>, state |-> "HeaderSource"]
      BY <2>4, HeaderParsed DEF x
    <3>3. Parsed(m, k + 1) =
            [type |-> m.type, hop |-> m.hop, source |-> Cut(m.source), target |-> None,
            isbroadcast |-> ForAll(m, 4), isgrouped |-> ForGroup(m, 4),
            schema |-> None, body |-> << >>, state |-> "HeaderTarget"]
      BY <2>4, HeaderParsed
    <3>4. Then[x.state] = "HeaderTarget"
      BY <1>3, <2>4, HeaderStates DEF Then
    <3>5. Meaning(line) = Cut(m.source)
      BY <1>2, <1>10, <3>1 DEF Meaning
    <3>6. noted = [x EXCEPT !.source = Cut(m.source)]
      BY <3>1, <3>5 DEF Noted
    <3>70. ForAll(m, k + 1) = ForAll(m, k) /\ ForGroup(m, k + 1) = ForGroup(m, k)
      BY <2>4 DEF ForAll, ForGroup
    <3>7. noted = [type |-> m.type, hop |-> m.hop, source |-> Cut(m.source), target |-> None,
            isbroadcast |-> ForAll(m, 4), isgrouped |-> ForGroup(m, 4),
            schema |-> None, body |-> << >>, state |-> "HeaderSource"]
      BY <2>4, <3>2, <3>6, <3>70
    <3> HIDE DEF noted
    <3>8. Take(x, piece, i) = [noted EXCEPT !.state = "HeaderTarget"]
      BY <1>9, <1>10, <3>4 DEF noted
    <3> QED  BY <3>3, <3>7, <3>8
  <2>5. CASE k = 4
    <3>1. line.is = "target" /\ line.value = target
      BY <1>6, <2>5 DEF Line
    <3>2. x = [type |-> m.type, hop |-> m.hop, source |-> Cut(m.source), target |-> None,
            isbroadcast |-> ForAll(m, 4), isgrouped |-> ForGroup(m, 4),
            schema |-> None, body |-> << >>, state |-> "HeaderTarget"]
      BY <2>5, HeaderParsed DEF x
    <3>3. Parsed(m, k + 1) =
            [type |-> m.type, hop |-> m.hop, source |-> Cut(m.source), target |-> Aim(m),
            isbroadcast |-> ForAll(m, 5), isgrouped |-> ForGroup(m, 5),
            schema |-> None, body |-> << >>, state |-> "HeaderEnd"]
      BY <2>5, HeaderParsed
    <3>4. Then[x.state] = "HeaderEnd"
      BY <1>3, <2>5, HeaderStates DEF Then
    <3>5. Meaning(line) = Aim(m)
      BY <1>1, <1>2, <1>10, <3>1 DEF Meaning, Aim, target
    <3> DEFINE aimed == [x EXCEPT !.target = Aim(m)]
               broad == [aimed EXCEPT !.isbroadcast = (Aim(m) = Star)]
    <3>61. noted = [broad EXCEPT !.isgrouped = (Aim(m) # Star /\ IsGroup(Aim(m)))]
      BY <3>1, <3>5 DEF Noted, GroupedSet, BroadcastSet
    <3>62. aimed = [type |-> m.type, hop |-> m.hop, source |-> Cut(m.source), target |-> Aim(m),
                    isbroadcast |-> ForAll(m, 4), isgrouped |-> ForGroup(m, 4), schema |-> None,
                    body |-> << >>, state |-> "HeaderTarget"]
      BY <3>2
    <3> HIDE DEF aimed
    <3>63. broad = [type |-> m.type, hop |-> m.hop, source |-> Cut(m.source), target |-> Aim(m),
                    isbroadcast |-> (Aim(m) = Star), isgrouped |-> ForGroup(m, 4), schema |-> None,
                    body |-> << >>, state |-> "HeaderTarget"]
      BY <3>62
    <3> HIDE DEF noted, broad
    <3>70. ForAll(m, k + 1) = (Aim(m) = Star) /\ ForGroup(m, k + 1) = (Aim(m) # Star /\ IsGroup(Aim(m)))
      BY <2>5 DEF ForAll, ForGroup
    <3>7. noted = [type |-> m.type, hop |-> m.hop, source |-> Cut(m.source), target |-> Aim(m),
            isbroadcast |-> ForAll(m, 5), isgrouped |-> ForGroup(m, 5),
            schema |-> None, body |-> << >>, state |-> "HeaderTarget"]
      BY <2>5, <3>61, <3>63, <3>70
    <3> HIDE DEF noted
    <3>8. Take(x, piece, i) = [noted EXCEPT !.state = "HeaderEnd"]
      BY <1>9, <1>10, <3>4 DEF noted
    <3> QED  BY <3>3, <3>7, <3>8
  <2>6. CASE k = 5
    <3>1. line.is = "end" /\ line.value = None
      BY <1>6, <2>6 DEF Line
    <3>2. x = [type |-> m.type, hop |-> m.hop, source |-> Cut(m.source), target |-> Aim(m),
            isbroadcast |-> ForAll(m, 5), isgrouped |-> ForGroup(m, 5),
            schema |-> None, body |-> << >>, state |-> "HeaderEnd"]
      BY <2>6, HeaderParsed DEF x
    <3>3. Parsed(m, k + 1) =
            [type |-> m.type, hop |-> m.hop, source |-> Cut(m.source), target |-> Aim(m),
            isbroadcast |-> ForAll(m, 6), isgrouped |-> ForGroup(m, 6),
            schema |-> None, body |-> << >>, state |-> "Schema"]
      BY <2>6, HeaderParsed
    <3>4. Then[x.state] = "Schema"
      BY <1>3, <2>6, HeaderStates DEF Then
    <3>5. Meaning(line) = None
      BY <3>1 DEF Meaning
    <3>6. noted = x
      BY <3>1, <3>5 DEF Noted
    <3>70. ForAll(m, k + 1) = ForAll(m, k) /\ ForGroup(m, k + 1) = ForGroup(m, k)
      BY <2>6 DEF ForAll, ForGroup
    <3>7. noted = [type |-> m.type, hop |-> m.hop, source |-> Cut(m.source), target |-> Aim(m),
            isbroadcast |-> ForAll(m, 6), isgrouped |-> ForGroup(m, 6),
            schema |-> None, body |-> << >>, state |-> "HeaderEnd"]
      BY <2>6, <3>2, <3>6, <3>70
    <3> HIDE DEF noted
    <3>8. Take(x, piece, i) = [noted EXCEPT !.state = "Schema"]
      BY <1>9, <1>10, <3>4 DEF noted
    <3> QED  BY <3>3, <3>7, <3>8
  <2>7. CASE k = 6
    <3>1. line.is = "schema" /\ line.value = m.schema
      BY <1>6, <2>7 DEF Line
    <3>2. x = [type |-> m.type, hop |-> m.hop, source |-> Cut(m.source), target |-> Aim(m),
            isbroadcast |-> ForAll(m, 6), isgrouped |-> ForGroup(m, 6),
            schema |-> None, body |-> << >>, state |-> "Schema"]
      BY <2>7, HeaderParsed DEF x
    <3>3. Parsed(m, k + 1) =
            [type |-> m.type, hop |-> m.hop, source |-> Cut(m.source), target |-> Aim(m),
            isbroadcast |-> ForAll(m, 7), isgrouped |-> ForGroup(m, 7),
            schema |-> m.schema, body |-> << >>, state |-> "BodyBegin"]
      BY <2>7, HeaderParsed
    <3>4. Then[x.state] = "BodyBegin"
      BY <1>3, <2>7, HeaderStates DEF Then
    <3>5. Meaning(line) = m.schema
      BY <3>1 DEF Meaning
    <3>6. noted = [x EXCEPT !.schema = m.schema]
      BY <1>1, MessageAssumption, <3>1, <3>5 DEF Noted, SchemaSet
    <3>70. ForAll(m, k + 1) = ForAll(m, k) /\ ForGroup(m, k + 1) = ForGroup(m, k)
      BY <2>7 DEF ForAll, ForGroup
    <3>7. noted = [type |-> m.type, hop |-> m.hop, source |-> Cut(m.source), target |-> Aim(m),
            isbroadcast |-> ForAll(m, 7), isgrouped |-> ForGroup(m, 7),
            schema |-> m.schema, body |-> << >>, state |-> "Schema"]
      BY <2>7, <3>2, <3>6, <3>70
    <3> HIDE DEF noted
    <3>8. Take(x, piece, i) = [noted EXCEPT !.state = "BodyBegin"]
      BY <1>9, <1>10, <3>4 DEF noted
    <3> QED  BY <3>3, <3>7, <3>8
  <2>8. CASE k = 7
    <3>1. line.is = "begin" /\ line.value = None
      BY <1>6, <2>8 DEF Line
    <3>2. x = [type |-> m.type, hop |-> m.hop, source |-> Cut(m.source), target |-> Aim(m),
            isbroadcast |-> ForAll(m, 7), isgrouped |-> ForGroup(m, 7),
            schema |-> m.schema, body |-> << >>, state |-> "BodyBegin"]
      BY <2>8, HeaderParsed DEF x
    <3>3. Parsed(m, k + 1) =
            [type |-> m.type, hop |-> m.hop, source |-> Cut(m.source), target |-> Aim(m),
            isbroadcast |-> ForAll(m, 8), isgrouped |-> ForGroup(m, 8),
            schema |-> m.schema, body |-> << >>, state |-> "Body"]
      BY <2>8, HeaderParsed
    <3>4. Then[x.state] = "Body"
      BY <1>3, <2>8, HeaderStates DEF Then
    <3>5. Meaning(line) = None
      BY <3>1 DEF Meaning
    <3>6. noted = x
      BY <3>1, <3>5 DEF Noted
    <3>70. ForAll(m, k + 1) = ForAll(m, k) /\ ForGroup(m, k + 1) = ForGroup(m, k)
      BY <2>8 DEF ForAll, ForGroup
    <3>7. noted = [type |-> m.type, hop |-> m.hop, source |-> Cut(m.source), target |-> Aim(m),
            isbroadcast |-> ForAll(m, 8), isgrouped |-> ForGroup(m, 8),
            schema |-> m.schema, body |-> << >>, state |-> "BodyBegin"]
      BY <2>8, <3>2, <3>6, <3>70
    <3> HIDE DEF noted
    <3>8. Take(x, piece, i) = [noted EXCEPT !.state = "Body"]
      BY <1>9, <1>10, <3>4 DEF noted
    <3> QED  BY <3>3, <3>7, <3>8
  <2> QED  BY <1>5, <2>1, <2>2, <2>3, <2>4, <2>5, <2>6, <2>7, <2>8
<1> QED  BY <1>9, <1>10 DEF x, line

\* The pairs come one after the other.
LEMMA BodyGrows ==
  ASSUME NEW m \in Sendable, NEW k \in 8 .. 7 + Len(m.body)
  PROVE  BodyUpto(m, k + 1) = Append(BodyUpto(m, k), m.body[k - 7])
<1> DEFINE j == k - 7
<1>1. m.body \in Seq(Pairs) /\ Len(m.body) \in Nat
  BY TextLines DEF Sendable, Messages
<1>2. j \in 1 .. Len(m.body) /\ (k + 1) - 8 = j /\ j - 1 = k - 8 /\ k \in Nat
  BY <1>1
<1>3. BodyUpto(m, k + 1) = SubSeq(m.body, 1, j)
  BY <1>1, <1>2 DEF BodyUpto
<1>4. BodyUpto(m, k) = SubSeq(m.body, 1, j - 1)
  <2>1. CASE k = 8
    <3>1. SubSeq(m.body, 1, 0) = << >>
      BY SubSeqEmpty
    <3> QED  BY <1>2, <2>1, <3>1 DEF BodyUpto
  <2>2. CASE k # 8
    BY <1>1, <1>2, <2>2 DEF BodyUpto
  <2> QED  BY <2>1, <2>2
<1> HIDE DEF j
<1>5. /\ SubSeq(m.body, 1, j) \in Seq(Pairs) /\ Len(SubSeq(m.body, 1, j)) = j
      /\ \A i \in 1 .. j : SubSeq(m.body, 1, j)[i] = m.body[i]
  <2>1. \A i \in 1 .. j : m.body[i] \in Pairs
    BY <1>1, <1>2, ElementOfSeq
  <2> QED  BY <1>2, <2>1, SubSeqProperties
<1>6. /\ SubSeq(m.body, 1, j - 1) \in Seq(Pairs) /\ Len(SubSeq(m.body, 1, j - 1)) = j - 1
      /\ \A i \in 1 .. j - 1 : SubSeq(m.body, 1, j - 1)[i] = m.body[i]
  <2>1. \A i \in 1 .. j - 1 : m.body[i] \in Pairs
    BY <1>1, <1>2, ElementOfSeq
  <2> QED  BY <1>2, <2>1, SubSeqProperties
<1> DEFINE p == SubSeq(m.body, 1, j - 1)
<1>7. m.body[j] \in Pairs
  BY <1>1, <1>2, ElementOfSeq
<1>8. /\ Append(p, m.body[j]) \in Seq(Pairs) /\ Len(Append(p, m.body[j])) = j
      /\ \A i \in 1 .. j : Append(p, m.body[j])[i] = m.body[i]
  <2> HIDE DEF p
  <2>1. p \in Seq(Pairs) /\ Len(p) = j - 1 /\ \A i \in 1 .. j - 1 : p[i] = m.body[i]
    BY <1>6 DEF p
  <2>2. /\ Append(p, m.body[j]) \in Seq(Pairs) /\ Len(Append(p, m.body[j])) = Len(p) + 1
        /\ \A i \in 1 .. Len(p) : Append(p, m.body[j])[i] = p[i]
        /\ Append(p, m.body[j])[Len(p) + 1] = m.body[j]
    BY <1>7, <2>1, AppendType
  <2> QED  BY <1>2, <2>1, <2>2
<1>9. SubSeq(m.body, 1, j) = Append(p, m.body[j])
  <2> DEFINE q == SubSeq(m.body, 1, j)
             r == Append(p, m.body[j])
  <2>1. /\ q \in Seq(Pairs) /\ r \in Seq(Pairs) /\ Len(q) = Len(r)
        /\ \A i \in 1 .. Len(q) : q[i] = r[i]
    BY <1>5, <1>8
  <2> HIDE DEF q, r
  <2>2. q = r
    BY <2>1, SeqEqual
  <2> QED  BY <2>2 DEF q, r
<1> QED  BY <1>3, <1>4, <1>9 DEF j

\* The flags and the other fields stay while the body is read.
LEMMA BodyParsed ==
  ASSUME NEW m \in Sendable, NEW k \in 8 .. 9 + Len(m.body)
  PROVE  Parsed(m, k) =
           [type |-> m.type, hop |-> m.hop, source |-> Cut(m.source), target |-> Aim(m),
            isbroadcast |-> ForAll(m, 8), isgrouped |-> ForGroup(m, 8),
            schema |-> m.schema, body |-> BodyUpto(m, k),
            state |-> IF k <= 8 + Len(m.body) THEN "Body" ELSE "End"]
<1>1. Len(m.body) \in Nat
  BY TextLines
<1>2. Reached(m, k) = IF k <= 8 + Len(m.body) THEN "Body" ELSE "End"
  BY <1>1 DEF Reached
<1>3. ForAll(m, k) = ForAll(m, 8) /\ ForGroup(m, k) = ForGroup(m, 8)
  BY DEF ForAll, ForGroup
<1> QED  BY <1>2, <1>3 DEF Parsed

\* A pair of the body is taken, unless the parser has stopped before it.
LEMMA BodyStep ==
  ASSUME NEW m \in Sendable, NEW k \in 8 .. 7 + Len(m.body), NEW piece,
         NEW i \in 1 .. Len(piece), piece[i] = Text(m)[k + 1]
  PROVE  /\ Take(Parsed(m, k), piece, i) = Parsed(m, k + 1)
         /\ \A x : x.state = "BodyEnd" => Take(x, piece, i) = Failed(x)
<1> DEFINE x == Parsed(m, k)
           line == piece[i]
<1>1. Len(m.body) \in Nat /\ k \in Nat /\ k - 7 \in 1 .. Len(m.body) /\ 8 + (k - 7) = k + 1
  BY TextLines
<1>2. line = Line("pair", m.body[k - 7])
  <2>1. Text(m)[8 + (k - 7)] = Line("pair", m.body[k - 7])
    BY <1>1, TextLines
  <2> QED  BY <1>1, <2>1
<1>3. line.is = "pair" /\ line.value = m.body[k - 7]
  BY <1>2 DEF Line
<1>4. x = [type |-> m.type, hop |-> m.hop, source |-> Cut(m.source), target |-> Aim(m),
           isbroadcast |-> ForAll(m, 8), isgrouped |-> ForGroup(m, 8),
           schema |-> m.schema, body |-> BodyUpto(m, k), state |-> "Body"]
  BY <1>1, BodyParsed
<1>5. Parsed(m, k + 1) =
          [type |-> m.type, hop |-> m.hop, source |-> Cut(m.source), target |-> Aim(m),
           isbroadcast |-> ForAll(m, 8), isgrouped |-> ForGroup(m, 8),
           schema |-> m.schema, body |-> Append(BodyUpto(m, k), m.body[k - 7]),
           state |-> "Body"]
  <2>1. k + 1 \in 8 .. 9 + Len(m.body) /\ k + 1 <= 8 + Len(m.body)
    BY <1>1
  <2> QED  BY <2>1, BodyParsed, BodyGrows
<1>6. IsPair(line)
  BY <1>3 DEF IsPair
<1>7. Len(piece) \in Int => i \in i .. Len(piece)
  OBVIOUS
<1> HIDE DEF x, line
<1>8. x.state = "Body"
  BY <1>4
<1>9. InBody(x, piece, i)
  <2>1. i \in i .. Len(piece)
    OBVIOUS
  <2> QED  BY <1>6, <1>8, <2>1 DEF InBody, line
<1>10. Take(x, piece, i) = [x EXCEPT !.body = Append(@, m.body[k - 7])]
  BY <1>3, <1>6, <1>8, <1>9 DEF Take, InBodyTake, PairFromLine, line
<1>11. [x EXCEPT !.body = Append(@, m.body[k - 7])] = Parsed(m, k + 1)
  <2> DEFINE longer == Append(BodyUpto(m, k), m.body[k - 7])
  <2>1. [x EXCEPT !.body = Append(@, m.body[k - 7])] = [x EXCEPT !.body = longer]
    BY <1>4
  <2>2. Parsed(m, k + 1) =
          [type |-> m.type, hop |-> m.hop, source |-> Cut(m.source), target |-> Aim(m),
           isbroadcast |-> ForAll(m, 8), isgrouped |-> ForGroup(m, 8),
           schema |-> m.schema, body |-> longer, state |-> "Body"]
    BY <1>5
  <2> HIDE DEF longer
  <2> QED  BY SMTT(30), <1>4, <2>1, <2>2
<1>12. \A y : y.state = "BodyEnd" => Take(y, piece, i) = Failed(y)
  <2> SUFFICES ASSUME NEW y, y.state = "BodyEnd"
               PROVE  Take(y, piece, i) = Failed(y)
    OBVIOUS
  <2>1. Wants[y.state] # piece[i].is
    BY <1>3 DEF Wants, line
  <2> QED  BY <2>1, TakesLine
<1> QED  BY <1>10, <1>11, <1>12 DEF x

\* The last line ends the message, also for a parser that has stopped before it.
LEMMA LastStep ==
  ASSUME NEW m \in Sendable, NEW k, k = 8 + Len(m.body), NEW piece,
         NEW i, i = Len(piece), i \in Nat, piece[i] = Text(m)[k + 1]
  PROVE  /\ Take(Parsed(m, k), piece, i) = Parsed(m, k + 1)
         /\ Take([Parsed(m, k) EXCEPT !.state = "BodyEnd"], piece, i) = Parsed(m, k + 1)
<1> DEFINE x == Parsed(m, k)
           y == [x EXCEPT !.state = "BodyEnd"]
           line == piece[i]
<1>1. Len(m.body) \in Nat /\ k \in 8 .. 9 + Len(m.body) /\ k + 1 = 9 + Len(m.body)
      /\ k + 1 \in 8 .. 9 + Len(m.body) /\ k <= 8 + Len(m.body) /\ ~(k + 1 <= 8 + Len(m.body))
  BY TextLines
<1>2. line = Line("end", None)
  BY <1>1, TextLines
<1>3. line.is = "end" /\ line.value = None
  BY <1>2 DEF Line
<1>4. x = [type |-> m.type, hop |-> m.hop, source |-> Cut(m.source), target |-> Aim(m),
           isbroadcast |-> ForAll(m, 8), isgrouped |-> ForGroup(m, 8),
           schema |-> m.schema, body |-> BodyUpto(m, k), state |-> "Body"]
  BY <1>1, BodyParsed
<1>5. y = [type |-> m.type, hop |-> m.hop, source |-> Cut(m.source), target |-> Aim(m),
           isbroadcast |-> ForAll(m, 8), isgrouped |-> ForGroup(m, 8),
           schema |-> m.schema, body |-> BodyUpto(m, k), state |-> "BodyEnd"]
  BY <1>4
<1>6. Parsed(m, k + 1) =
          [type |-> m.type, hop |-> m.hop, source |-> Cut(m.source), target |-> Aim(m),
           isbroadcast |-> ForAll(m, 8), isgrouped |-> ForGroup(m, 8),
           schema |-> m.schema, body |-> BodyUpto(m, k), state |-> "End"]
  <2>1. m.body \in Seq(Pairs)
    BY DEF Sendable, Messages
  <2>2. BodyUpto(m, k) = m.body
    <3>1. CASE k = 8
      BY <1>1, <2>1, <3>1, EmptySeq DEF BodyUpto
    <3>2. CASE k # 8
      <4>1. SubSeq(m.body, 1, Len(m.body)) = m.body
        BY <2>1, SubSeqFull
      <4>2. BodyUpto(m, k) = SubSeq(m.body, 1, k - 8) /\ k - 8 = Len(m.body)
        BY <1>1, <3>2 DEF BodyUpto
      <4> QED  BY <4>1, <4>2
    <3> QED  BY <3>1, <3>2
  <2>3. BodyUpto(m, k + 1) = m.body
    BY <1>1 DEF BodyUpto
  <2> QED  BY <1>1, <2>2, <2>3, BodyParsed
<1>7. Meaning(line) = None /\ Illegal # None /\ ~IsPair(line)
  BY <1>3, IdentifierAssumption DEF Meaning, IsPair
<1> HIDE DEF x, y, line
<1>8. Noted(x, line) = x /\ Noted(y, line) = y
  BY <1>3 DEF Noted
<1>9. Take(x, piece, i) = [x EXCEPT !.state = "End"]
  <2>1. ~InBody(x, piece, i)
    <3>1. \A j \in i .. Len(piece) : j = i
      OBVIOUS
    <3> QED  BY <1>7, <3>1 DEF InBody, line
  <2>2. x.state = "Body"
    BY <1>4
  <2>3. Wants["BodyEnd"] = line.is /\ Then["BodyEnd"] = "End"
    BY <1>3 DEF Wants, Then
  <2> QED  BY <1>7, <1>8, <2>1, <2>2, <2>3 DEF Take, line
<1>10. Take(y, piece, i) = [y EXCEPT !.state = "End"]
  <2>1. y.state = "BodyEnd"
    BY <1>5
  <2>2. Wants["BodyEnd"] = line.is /\ Then["BodyEnd"] = "End"
    BY <1>3 DEF Wants, Then
  <2> QED  BY <1>7, <1>8, <2>1, <2>2, TakesLine DEF line
<1>11. [x EXCEPT !.state = "End"] = Parsed(m, k + 1) /\ [y EXCEPT !.state = "End"] = Parsed(m, k + 1)
  BY <1>4, <1>5, <1>6
<1> QED  BY <1>9, <1>10, <1>11 DEF x, y

-----------------------------------------------------------------------------
(* A piece of a text is read *)

Begun(m) == IF m = None THEN New(Star) ELSE m

\* The parser goes through the lines of the piece.
LEMMA ThereIsARun ==
  ASSUME NEW m, NEW piece, Len(piece) \in Nat
  PROVE  \E run : run = [i \in 0 .. Len(piece) |-> IF i = 0 THEN Begun(m)
                                                   ELSE Take(run[i - 1], piece, i)]
<1> DEFINE Runs(f, k) == f = [i \in 0 .. k |-> IF i = 0 THEN Begun(m)
                                              ELSE Take(f[i - 1], piece, i)]
           Without == {k \in Nat : \A f : ~Runs(f, k)}
<1>1. SUFFICES ASSUME Without # {}
               PROVE  FALSE
  <2>1. Len(piece) \notin Without
    BY <1>1
  <2> QED  BY <2>1
<1>2. PICK k \in Without : \A j \in Without : k <= j
  <2>1. Without \in SUBSET Nat
    OBVIOUS
  <2> HIDE DEF Without
  <2> QED  BY <1>1, <2>1, LeastElement
<1>3. k \in Nat /\ \A f : ~Runs(f, k)
  OBVIOUS
<1>4. CASE k = 0
  <2> DEFINE f == [i \in 0 .. 0 |-> Begun(m)]
  <2>1. f = [i \in 0 .. 0 |-> IF i = 0 THEN Begun(m) ELSE Take(f[i - 1], piece, i)]
    OBVIOUS
  <2> HIDE DEF f
  <2> QED  BY <1>3, <1>4, <2>1
<1>5. CASE k # 0
  <2>1. k - 1 \in Nat /\ k - 1 \notin Without
    <3>1. k - 1 \in Nat /\ ~(k <= k - 1)
      BY <1>3, <1>5
    <3> HIDE DEF Without
    <3> QED  BY <1>2, <3>1
  <2>2. PICK f : Runs(f, k - 1)
    BY <2>1
  <2> DEFINE g == [i \in 0 .. k |-> IF i = k THEN Take(f[k - 1], piece, k) ELSE f[i]]
  <2>3. \A i \in 0 .. k - 1 : f[i] = IF i = 0 THEN Begun(m) ELSE Take(f[i - 1], piece, i)
    BY <2>2
  <2>4. \A i \in 0 .. k - 1 : i \in 0 .. k /\ i # k
    BY <1>3
  <2>5. \A i \in 0 .. k - 1 : g[i] = f[i]
    BY <2>4
  <2>6. g[k] = Take(f[k - 1], piece, k)
    BY <1>3
  <2>7. \A i \in 0 .. k : g[i] = IF i = 0 THEN Begun(m) ELSE Take(g[i - 1], piece, i)
    <3> SUFFICES ASSUME NEW i \in 0 .. k
                 PROVE  g[i] = IF i = 0 THEN Begun(m) ELSE Take(g[i - 1], piece, i)
      OBVIOUS
    <3> HIDE DEF g
    <3>1. CASE i = k
      <4>1. k - 1 \in 0 .. k - 1
        BY <1>3, <1>5
      <4> QED  BY <1>5, <2>5, <2>6, <3>1, <4>1
    <3>2. CASE i # k
      <4>1. i \in 0 .. k - 1 /\ (i # 0 => i - 1 \in 0 .. k - 1)
        BY <1>3, <3>2
      <4> QED  BY <2>3, <2>5, <4>1
    <3> QED  BY <3>1, <3>2
  <2>8. g = [i \in 0 .. k |-> g[i]]
    OBVIOUS
  <2> HIDE DEF g
  <2>9. Runs(g, k)
    BY <2>7, <2>8
  <2> QED  BY <1>3, <2>9
<1> QED  BY <1>4, <1>5

\* What FromString makes of a piece, line by line.
LEMMA ReadByLines ==
  ASSUME NEW m, NEW piece, Len(piece) \in Nat
  PROVE  \E run : /\ run[0] = Begun(m)
                  /\ \A i \in 1 .. Len(piece) : run[i] = Take(run[i - 1], piece, i)
                  /\ FromString(m, piece) = AtEnd(run[Len(piece)])
<1> DEFINE read[i \in 0 .. Len(piece)] ==
             IF i = 0 THEN IF m = None THEN New(Star) ELSE m
             ELSE Take(read[i - 1], piece, i)
<1>1. read = [i \in 0 .. Len(piece) |-> IF i = 0 THEN IF m = None THEN New(Star) ELSE m
                                        ELSE Take(read[i - 1], piece, i)]
  <2>1. \E run : run = [i \in 0 .. Len(piece) |-> IF i = 0 THEN IF m = None THEN New(Star) ELSE m
                                                  ELSE Take(run[i - 1], piece, i)]
    <3>1. \E run : run = [i \in 0 .. Len(piece) |-> IF i = 0 THEN Begun(m)
                                                    ELSE Take(run[i - 1], piece, i)]
      BY ThereIsARun
    <3> QED  BY <3>1 DEF Begun
  <2> QED  BY <2>1
<1>2. FromString(m, piece) = AtEnd(read[Len(piece)])
  BY DEF FromString
<1> HIDE DEF read
<1>3. \A i \in 0 .. Len(piece) :
        read[i] = IF i = 0 THEN IF m = None THEN New(Star) ELSE m
                  ELSE Take(read[i - 1], piece, i)
  BY <1>1
<1>4. read[0] = Begun(m)
  BY <1>3 DEF Begun
<1>5. \A i \in 1 .. Len(piece) : read[i] = Take(read[i - 1], piece, i)
  BY <1>3
<1> QED  BY <1>2, <1>4, <1>5

\* What the parser has put together when a piece ends after line r of m, and when
\* the next one begins.
Paused(m, r) == IF r \in 8 .. 8 + Len(m.body) THEN [Parsed(m, r) EXCEPT !.state = "BodyEnd"]
                ELSE Parsed(m, r)

\* One line of a text that the parser is in step with.
LEMMA NextLine ==
  ASSUME NEW m \in Sendable, NEW k \in 0 .. Len(Text(m)) - 1, NEW piece,
         NEW i \in 1 .. Len(piece), piece[i] = Text(m)[k + 1],
         k = 8 + Len(m.body) => i = Len(piece)
  PROVE  \/ Take(Parsed(m, k), piece, i) = Parsed(m, k + 1)
         \/ /\ ~Legal(Text(m))
            /\ \/ Take(Parsed(m, k), piece, i).state = "Error"
               \/ k = 4 /\ Take(Parsed(m, k), piece, i) = Parsed(m, 4)
<1>1. /\ Len(m.body) \in Nat /\ Len(Text(m)) = 9 + Len(m.body)
      /\ DOMAIN Text(m) = 1 .. Len(Text(m))
  BY TextLines
<1>2. CASE k \in 0 .. 7
  <2>1. CASE Meaning(piece[i]) # Illegal
    BY <1>2, <2>1, HeaderStep
  <2>2. CASE Meaning(piece[i]) = Illegal
    <3>1. ~Legal(Text(m))
      <4>1. k + 1 \in DOMAIN Text(m)
        BY <1>1
      <4> QED  BY <2>2, <4>1 DEF Legal
    <3>2. Failed(Parsed(m, k)).state = "Error"
      BY DEF Failed, Parsed
    <3> QED  BY SMTT(30), <1>2, <2>2, <3>1, <3>2, HeaderStep
  <2> QED  BY <2>1, <2>2
<1>3. CASE k \in 8 .. 7 + Len(m.body)
  BY <1>3, BodyStep
<1>4. CASE k = 8 + Len(m.body)
  <2>1. i = Len(piece) /\ i \in Nat
    BY <1>4
  <2> QED  BY <1>4, <2>1, LastStep
<1> QED  BY <1>1, <1>2, <1>3, <1>4

\* The first line of a piece, when the parser has paused before it.
LEMMA FirstLine ==
  ASSUME NEW m \in Sendable, NEW k \in 8 .. 8 + Len(m.body), NEW piece,
         1 <= Len(piece), Len(piece) \in Nat, piece[1] = Text(m)[k + 1],
         k = 8 + Len(m.body) => Len(piece) = 1
  PROVE  \/ Take(Paused(m, k), piece, 1) = Parsed(m, k + 1)
         \/ Take(Paused(m, k), piece, 1).state = "Error"
<1>1. Len(m.body) \in Nat
  BY TextLines
<1>2. /\ Paused(m, k) = [Parsed(m, k) EXCEPT !.state = "BodyEnd"]
      /\ Paused(m, k).state = "BodyEnd"
      /\ Failed(Paused(m, k)).state = "Error"
  BY DEF Paused, Parsed, Failed
<1>3. CASE k \in 8 .. 7 + Len(m.body)
  <2>1. 1 \in 1 .. Len(piece)
    OBVIOUS
  <2>2. \A x : x.state = "BodyEnd" => Take(x, piece, 1) = Failed(x)
    BY <1>3, <2>1, BodyStep
  <2> QED  BY <1>2, <2>2
<1>4. CASE k = 8 + Len(m.body)
  <2>1. \A i : (i = Len(piece) /\ i \in Nat /\ piece[i] = Text(m)[k + 1]) =>
          Take([Parsed(m, k) EXCEPT !.state = "BodyEnd"], piece, i) = Parsed(m, k + 1)
    BY <1>4, LastStep
  <2>2. 1 = Len(piece) /\ 1 \in Nat
    BY <1>4
  <2> QED  BY <1>2, <2>1, <2>2
<1> QED  BY <1>1, <1>3, <1>4

\* From line r to line n of a text, begun where the parser stands after line r.
LEMMA Reads ==
  ASSUME NEW m \in Sendable, NEW r \in 0 .. Len(Text(m)) - 1, NEW n \in r + 1 .. Len(Text(m)),
         NEW piece, Len(piece) = n - r,
         \A i \in 1 .. Len(piece) : piece[i] = Text(m)[r + i],
         NEW run, run[0] = Paused(m, r),
         \A i \in 1 .. Len(piece) : run[i] = Take(run[i - 1], piece, i)
  PROVE  \/ run[Len(piece)] = Parsed(m, n)
         \/ /\ ~(r = 0 /\ Legal(Text(m)))
            /\ AtEnd(run[Len(piece)]).state = "Error"
<1> DEFINE Bad == ~(r = 0 /\ Legal(Text(m)))
           Good(i) == \/ run[i] = Parsed(m, r + i)
                      \/ i = 0
                      \/ Bad /\ run[i].state = "Error"
                      \/ Bad /\ r + i = 5 /\ run[i] = Parsed(m, 4)
           Without == {i \in 0 .. Len(piece) : ~Good(i)}
<1>1. /\ Len(m.body) \in Nat /\ Len(Text(m)) = 9 + Len(m.body)
      /\ DOMAIN Text(m) = 1 .. Len(Text(m))
  BY TextLines
<1>2. r \in Nat /\ n \in Nat /\ Len(piece) \in Nat \ {0} /\ Len(piece) = n - r
  BY <1>1
<1>3. Failed(Parsed(m, 4)).state = "Error"
  BY DEF Failed, Parsed
<1>4. Parsed(m, 4).state = "HeaderTarget"
  BY HeaderStates DEF Parsed
<1>5. ASSUME NEW i \in 0 .. Len(piece) - 1, Good(i)
      PROVE  Good(i + 1)
  <2>1. /\ i + 1 \in 1 .. Len(piece) /\ (i + 1) - 1 = i /\ r + (i + 1) = (r + i) + 1
        /\ r + i \in 0 .. Len(Text(m)) - 1 /\ i \in Nat
        /\ (r + i = 8 + Len(m.body) => i + 1 = Len(piece))
    <3> DEFINE len == Len(piece)
               all == Len(Text(m))
               of == Len(m.body)
    <3>1. /\ len \in Nat \ {0} /\ len = n - r /\ all = 9 + of /\ of \in Nat
          /\ r \in 0 .. all - 1 /\ n \in r + 1 .. all /\ i \in 0 .. len - 1
      BY <1>1, <1>2
    <3> HIDE DEF len, all, of
    <3>2. /\ i + 1 \in 1 .. len /\ (i + 1) - 1 = i /\ r + (i + 1) = (r + i) + 1
          /\ r + i \in 0 .. all - 1 /\ i \in Nat
      BY <3>1
    <3>3. r + i = 8 + of => i + 1 = len
      BY <3>1
    <3> QED  BY <3>2, <3>3 DEF len, all, of
  <2>2. run[i + 1] = Take(run[i], piece, i + 1) /\ piece[i + 1] = Text(m)[(r + i) + 1]
    BY <2>1
  <2>3. CASE run[i] = Parsed(m, r + i)
    <3> DEFINE k == r + i
    <3>1. k \in 0 .. Len(Text(m)) - 1 /\ i + 1 \in 1 .. Len(piece)
          /\ piece[i + 1] = Text(m)[k + 1] /\ (k = 8 + Len(m.body) => i + 1 = Len(piece))
          /\ run[i + 1] = Take(Parsed(m, k), piece, i + 1) /\ r + (i + 1) = k + 1
      BY <2>1, <2>2, <2>3
    <3> HIDE DEF k
    <3>2. \/ run[i + 1] = Parsed(m, k + 1)
          \/ /\ ~Legal(Text(m))
             /\ run[i + 1].state = "Error" \/ (k = 4 /\ run[i + 1] = Parsed(m, 4))
      BY <3>1, NextLine
    <3>3. k = 4 => r + (i + 1) = 5
      BY <3>1
    <3> QED  BY <3>1, <3>2, <3>3
  <2>4. CASE i = 0 /\ run[i] # Parsed(m, r + i)
    <3>1. r \in 8 .. 8 + Len(m.body) /\ run[0] = Paused(m, r)
      BY <1>2, <2>4 DEF Paused
    <3>2. \/ Take(Paused(m, r), piece, 1) = Parsed(m, r + 1)
          \/ Take(Paused(m, r), piece, 1).state = "Error"
      <4>1. piece[1] = Text(m)[r + 1] /\ 1 <= Len(piece)
            /\ (r = 8 + Len(m.body) => Len(piece) = 1)
        BY <1>2, <2>1, <2>2, <2>4
      <4> QED  BY <1>2, <3>1, <4>1, FirstLine
    <3>3. run[i + 1] = Take(Paused(m, r), piece, 1) /\ r # 0 /\ r + (i + 1) = r + 1
      BY <1>1, <1>2, <2>2, <2>4, <3>1
    <3> QED  BY <3>2, <3>3
  <2>5. CASE Bad /\ run[i].state = "Error"
    <3>1. run[i + 1] = run[i]
      BY <2>2, <2>5 DEF Take
    <3> QED  BY <2>5, <3>1
  <2>6. CASE Bad /\ r + i = 5 /\ run[i] = Parsed(m, 4)
    <3>1. piece[i + 1] = Line("end", None)
      BY <2>2, <2>6, TextLines
    <3>2. Wants[Parsed(m, 4).state] # piece[i + 1].is
      BY <1>4, <3>1 DEF Wants, Line
    <3>3. run[i + 1] = Take(Parsed(m, 4), piece, i + 1)
      BY <2>2, <2>6
    <3>4. Take(Parsed(m, 4), piece, i + 1) = Failed(Parsed(m, 4))
      <4> DEFINE x == Parsed(m, 4)
      <4>1. x.state \notin {"End", "Error", "Body"}
        BY <1>4
      <4> HIDE DEF x
      <4>2. Take(x, piece, i + 1) = Failed(x)
        BY <3>2, <4>1, TakesLine DEF x
      <4> QED  BY <4>2 DEF x
    <3> QED  BY <1>3, <2>6, <3>3, <3>4
  <2> QED  BY <1>5, <2>3, <2>4, <2>5, <2>6
<1>6. Without = {}
  <2> SUFFICES ASSUME Without # {}
               PROVE  FALSE
    OBVIOUS
  <2>1. PICK i \in Without : \A j \in Without : i <= j
    <3>1. Without \in SUBSET Nat
      OBVIOUS
    <3> HIDE DEF Without
    <3> QED  BY <3>1, LeastElement
  <2>2. i \in 0 .. Len(piece) /\ ~Good(i) /\ i # 0
    OBVIOUS
  <2>3. i - 1 \in 0 .. Len(piece) - 1 /\ i - 1 \in 0 .. Len(piece) /\ ~(i <= i - 1)
        /\ (i - 1) + 1 = i
    BY <1>2, <2>2
  <2>4. i - 1 \notin Without
    <3> HIDE DEF Without
    <3> QED  BY <2>1, <2>3
  <2>5. Good(i - 1)
    <3> HIDE DEF Good
    <3> QED  BY <2>3, <2>4
  <2>6. Good((i - 1) + 1)
    <3> HIDE DEF Good
    <3> QED  BY <1>5, <2>3, <2>5
  <2> HIDE DEF Good
  <2> QED  BY <2>2, <2>3, <2>6
<1>7. Good(Len(piece))
  <2>1. Len(piece) \in 0 .. Len(piece)
    BY <1>2
  <2> HIDE DEF Good
  <2> QED  BY <1>6, <2>1
<1>8. r + Len(piece) = n /\ Len(piece) # 0
  BY <1>2
<1>9. CASE Bad /\ run[Len(piece)].state = "Error"
  BY <1>9 DEF AtEnd
<1>10. CASE Bad /\ run[Len(piece)] = Parsed(m, 4)
  BY <1>3, <1>4, <1>10 DEF AtEnd
<1> QED  BY <1>7, <1>8, <1>9, <1>10

\* An error stays one to the end of the piece.
LEMMA ErrorStays ==
  ASSUME NEW m, NEW piece, Len(piece) \in Nat \ {0},
         Take(Begun(m), piece, 1).state = "Error"
  PROVE  FromString(m, piece).state = "Error"
<1>1. PICK run : /\ run[0] = Begun(m)
                 /\ \A i \in 1 .. Len(piece) : run[i] = Take(run[i - 1], piece, i)
                 /\ FromString(m, piece) = AtEnd(run[Len(piece)])
  BY ReadByLines
<1> DEFINE Without == {i \in 1 .. Len(piece) : run[i].state # "Error"}
<1>2. Without = {}
  <2> SUFFICES ASSUME Without # {}
               PROVE  FALSE
    OBVIOUS
  <2>1. PICK i \in Without : \A j \in Without : i <= j
    <3>1. Without \in SUBSET Nat
      OBVIOUS
    <3> HIDE DEF Without
    <3> QED  BY <3>1, LeastElement
  <2>2. i \in 1 .. Len(piece) /\ run[i].state # "Error"
    OBVIOUS
  <2>3. CASE i = 1
    <3>1. run[1] = Take(run[0], piece, 1)
      BY <1>1, <2>2, <2>3
    <3> QED  BY <1>1, <2>2, <2>3, <3>1
  <2>4. CASE i # 1
    <3>1. i - 1 \in 1 .. Len(piece) /\ ~(i <= i - 1)
      BY <2>2, <2>4
    <3>2. i - 1 \notin Without
      <4> HIDE DEF Without
      <4> QED  BY <2>1, <3>1
    <3>3. run[i - 1].state = "Error"
      BY <3>1, <3>2
    <3>4. run[i] = run[i - 1]
      BY <1>1, <2>2, <3>3 DEF Take
    <3> QED  BY <2>2, <3>3, <3>4
  <2> QED  BY <2>3, <2>4
<1>3. run[Len(piece)].state = "Error"
  BY <1>2
<1> QED  BY <1>1, <1>3 DEF AtEnd

\* In the middle of a message.
Midway == {"Header", "HeaderHop", "HeaderSource", "HeaderTarget", "HeaderEnd", "Schema",
           "BodyBegin", "BodyEnd"}

\* What a message is at the end of a piece.
LEMMA AtEndOfPiece ==
  ASSUME NEW m \in Sendable, NEW n \in 1 .. Len(Text(m))
  PROVE  /\ n = Len(Text(m)) => AtEnd(Parsed(m, n)) = Received(m) /\ Received(m).state = "End"
         /\ n < Len(Text(m)) =>
              \/ AtEnd(Parsed(m, n)).state = "Error"
              \/ /\ AtEnd(Parsed(m, n)) = Paused(m, n)
                 /\ Paused(m, n).state \in {"Header", "HeaderEnd", "Schema", "BodyBegin", "BodyEnd"}
<1>1. Len(m.body) \in Nat /\ Len(Text(m)) = 9 + Len(m.body)
  BY TextLines
<1>2. ASSUME n = Len(Text(m))
      PROVE  AtEnd(Parsed(m, n)) = Received(m) /\ Received(m).state = "End"
  <2>1. Parsed(m, n) =
          [type |-> m.type, hop |-> m.hop, source |-> Cut(m.source), target |-> Aim(m),
           isbroadcast |-> ForAll(m, 8), isgrouped |-> ForGroup(m, 8),
           schema |-> m.schema, body |-> m.body, state |-> "End"]
    <3>1. n \in 8 .. 9 + Len(m.body) /\ ~(n <= 8 + Len(m.body)) /\ ~(n <= 8)
      BY <1>1, <1>2
    <3>2. BodyUpto(m, n) = m.body
      BY <3>1 DEF BodyUpto
    <3> QED  BY <3>1, <3>2, BodyParsed
  <2>2. AtEnd(Parsed(m, n)) = Parsed(m, n)
    BY <2>1 DEF AtEnd
  <2>3. ForAll(m, 8) = m.isbroadcast /\ ForGroup(m, 8) = (Aim(m) # Star /\ IsGroup(Aim(m)))
    <3>1. m.isbroadcast \in BOOLEAN /\ (~m.isbroadcast => Cut(m.target) # Star)
      BY ReadsBack DEF Sendable, Messages
    <3>2. (Aim(m) = Star) = m.isbroadcast
      BY <3>1 DEF Aim
    <3> QED  BY <3>2 DEF ForAll, ForGroup
  <2>4. m = [type |-> m.type, hop |-> m.hop, source |-> m.source, target |-> m.target,
             isbroadcast |-> m.isbroadcast, isgrouped |-> m.isgrouped,
             schema |-> m.schema, body |-> m.body, state |-> m.state]
    BY DEF Sendable, Messages
  <2> DEFINE m1 == [m EXCEPT !.state = "End"]
             m2 == [m1 EXCEPT !.source = Cut(m.source)]
             m3 == [m2 EXCEPT !.target = Aim(m)]
             m4 == [m3 EXCEPT !.isgrouped = (Aim(m) # Star /\ IsGroup(Aim(m)))]
  <2>5. Received(m) = m4
    BY <2>4 DEF Received, Aim
  <2>6. m1 = [type |-> m.type, hop |-> m.hop, source |-> m.source, target |-> m.target,
              isbroadcast |-> m.isbroadcast, isgrouped |-> m.isgrouped,
              schema |-> m.schema, body |-> m.body, state |-> "End"]
    BY <2>4
  <2> HIDE DEF m1
  <2>7. m2 = [type |-> m.type, hop |-> m.hop, source |-> Cut(m.source), target |-> m.target,
              isbroadcast |-> m.isbroadcast, isgrouped |-> m.isgrouped,
              schema |-> m.schema, body |-> m.body, state |-> "End"]
    BY <2>6
  <2> HIDE DEF m2
  <2>8. m3 = [type |-> m.type, hop |-> m.hop, source |-> Cut(m.source), target |-> Aim(m),
              isbroadcast |-> m.isbroadcast, isgrouped |-> m.isgrouped,
              schema |-> m.schema, body |-> m.body, state |-> "End"]
    BY <2>7
  <2> HIDE DEF m3
  <2>9. m4 = [type |-> m.type, hop |-> m.hop, source |-> Cut(m.source), target |-> Aim(m),
              isbroadcast |-> m.isbroadcast,
              isgrouped |-> (Aim(m) # Star /\ IsGroup(Aim(m))),
              schema |-> m.schema, body |-> m.body, state |-> "End"]
    BY <2>8
  <2> HIDE DEF m4
  <2>10. m4 = Parsed(m, n)
    BY <2>1, <2>3, <2>9
  <2> QED  BY <2>1, <2>2, <2>5, <2>10
<1>3. ASSUME n < Len(Text(m)), AtEnd(Parsed(m, n)).state # "Error"
      PROVE  /\ AtEnd(Parsed(m, n)) = Paused(m, n)
             /\ Paused(m, n).state \in {"Header", "HeaderEnd", "Schema", "BodyBegin", "BodyEnd"}
  <2>1. CASE n \in 8 .. 8 + Len(m.body)
    <3>1. Parsed(m, n).state = "Body"
      BY <1>1, <2>1, BodyParsed
    <3>2. AtEnd(Parsed(m, n)) = [Parsed(m, n) EXCEPT !.state = "BodyEnd"]
      BY <3>1 DEF AtEnd
    <3> QED  BY <2>1, <3>2 DEF Paused, Parsed
  <2>2. CASE n \in 1 .. 7
    <3>1. Parsed(m, n).state = Reached(m, n) /\ Failed(Parsed(m, n)).state = "Error"
          /\ Paused(m, n) = Parsed(m, n)
      BY <2>2 DEF Parsed, Failed, Paused
    <3>2. Reached(m, n) \in {"Header", "HeaderHop", "HeaderSource", "HeaderTarget", "HeaderEnd",
                             "Schema", "BodyBegin"}
      BY <2>2, HeaderStates
    <3> QED  BY <1>3, <3>1, <3>2 DEF AtEnd
  <2> QED  BY <1>1, <1>3, <2>1, <2>2
<1> QED  BY <1>1, <1>2, <1>3

\* The lines of a piece are lines of the text.
LEMMA PieceLines ==
  ASSUME NEW m \in Sendable, NEW r \in 0 .. Len(Text(m)) - 1, NEW n \in r + 1 .. Len(Text(m)),
         NEW piece, piece = SubSeq(Text(m), r + 1, n)
  PROVE  Len(piece) = n - r /\ \A i \in 1 .. Len(piece) : piece[i] = Text(m)[r + i]
<1> DEFINE L == {Text(m)[i] : i \in 1 .. Len(Text(m))}
<1>1. Len(Text(m)) \in Nat
  BY TextLines
<1>2. \A i \in r + 1 .. n : Text(m)[i] \in L
  BY <1>1
<1> HIDE DEF L
<1>3. r + 1 \in Int /\ n \in Int /\ r + 1 <= n
  BY <1>1
<1>4. /\ Len(SubSeq(Text(m), r + 1, n)) = IF r + 1 <= n THEN n - (r + 1) + 1 ELSE 0
      /\ \A i \in 1 .. n - (r + 1) + 1 : SubSeq(Text(m), r + 1, n)[i] = Text(m)[r + 1 + i - 1]
  BY <1>2, <1>3, SubSeqProperties
<1>5. n - (r + 1) + 1 = n - r /\ \A i \in 1 .. n - r : r + 1 + i - 1 = r + i
  BY <1>1
<1>6. Len(piece) = n - r
  BY <1>3, <1>4, <1>5
<1>7. \A i \in 1 .. n - r : piece[i] = Text(m)[r + i]
  BY <1>4, <1>5
<1> QED  BY <1>6, <1>7

\* What the parser makes of a piece that goes on where it stands.
LEMMA Understood ==
  ASSUME NEW m \in Sendable, NEW r \in 0 .. Len(Text(m)) - 1, NEW n \in r + 1 .. Len(Text(m)),
         NEW piece, piece = SubSeq(Text(m), r + 1, n),
         NEW x, Begun(x) = Paused(m, r)
  PROVE  \/ FromString(x, piece) = AtEnd(Parsed(m, n))
         \/ ~(r = 0 /\ Legal(Text(m))) /\ FromString(x, piece).state = "Error"
<1>1. Len(piece) = n - r /\ \A i \in 1 .. Len(piece) : piece[i] = Text(m)[r + i]
  BY PieceLines
<1>2. Len(piece) \in Nat
  BY <1>1, TextLines
<1>3. PICK run : /\ run[0] = Begun(x)
                 /\ \A i \in 1 .. Len(piece) : run[i] = Take(run[i - 1], piece, i)
                 /\ FromString(x, piece) = AtEnd(run[Len(piece)])
  BY <1>2, ReadByLines
<1>4. \/ run[Len(piece)] = Parsed(m, n)
      \/ ~(r = 0 /\ Legal(Text(m))) /\ AtEnd(run[Len(piece)]).state = "Error"
  BY ZenonT(30), <1>1, <1>3, Reads
<1> QED  BY <1>3, <1>4

\* Only the first line is the type.
LEMMA TypeComesFirst ==
  ASSUME NEW m \in Sendable, NEW r \in 0 .. Len(Text(m)) - 1
  PROVE  Text(m)[r + 1].is = "type" <=> r = 0
<1>1. Len(m.body) \in Nat /\ Len(Text(m)) = 9 + Len(m.body)
  BY TextLines
<1>2. \A s, v : Line(s, v).is = s
  BY DEF Line
<1>3. CASE r \in {0, 1, 2, 3, 4, 5, 6, 7}
  <2>1. /\ Text(m)[1] = Line("type", m.type)
        /\ Text(m)[2] = Line("begin", None)
        /\ Text(m)[3] = Line("hop", m.hop)
        /\ Text(m)[4] = Line("source", IdText(m.source))
        /\ Text(m)[5] = Line("target", IF m.isbroadcast THEN Star ELSE IdText(m.target))
        /\ Text(m)[6] = Line("end", None)
        /\ Text(m)[7] = Line("schema", m.schema)
        /\ Text(m)[8] = Line("begin", None)
    BY TextLines
  <2>2. /\ Text(m)[1].is = "type" /\ Text(m)[2].is = "begin" /\ Text(m)[3].is = "hop"
        /\ Text(m)[4].is = "source" /\ Text(m)[5].is = "target" /\ Text(m)[6].is = "end"
        /\ Text(m)[7].is = "schema" /\ Text(m)[8].is = "begin"
    BY <1>2, <2>1
  <2> QED  BY <1>3, <2>2
<1>4. CASE r \in 8 .. 7 + Len(m.body)
  <2>1. r - 7 \in 1 .. Len(m.body) /\ 8 + (r - 7) = r + 1 /\ r # 0
    BY <1>1, <1>4
  <2>2. Text(m)[8 + (r - 7)] = Line("pair", m.body[r - 7])
    BY <2>1, TextLines
  <2>3. Text(m)[r + 1].is = "pair"
    BY <1>2, <2>1, <2>2
  <2> QED  BY <2>1, <2>3
<1>5. CASE r = 8 + Len(m.body)
  <2>1. r + 1 = 9 + Len(m.body) /\ r # 0
    BY <1>1, <1>5
  <2>2. Text(m)[r + 1] = Line("end", None)
    BY <2>1, TextLines
  <2> QED  BY <1>2, <2>1, <2>2
<1> QED  BY SMTT(30), <1>1, <1>3, <1>4, <1>5

\* A text that is not begun: its line type is missing, or comes in the middle of another.
LEMMA NotUnderstood ==
  ASSUME NEW m \in Sendable, NEW r \in 0 .. Len(Text(m)) - 1, NEW n \in r + 1 .. Len(Text(m)),
         NEW piece, piece = SubSeq(Text(m), r + 1, n),
         NEW x, \/ x = None /\ r # 0
                \/ x # None /\ r = 0 /\ "state" \in DOMAIN x /\ x.state \in Midway
  PROVE  FromString(x, piece).state = "Error"
<1>1. Len(piece) = n - r /\ \A i \in 1 .. Len(piece) : piece[i] = Text(m)[r + i]
  BY PieceLines
<1>2. /\ Len(m.body) \in Nat /\ Len(Text(m)) = 9 + Len(m.body)
      /\ Len(piece) \in Nat \ {0} /\ piece[1] = Text(m)[r + 1] /\ r \in Nat
  BY <1>1, TextLines
<1>3. piece[1].is = "type" <=> r = 0
  BY <1>2, TypeComesFirst
<1>4. /\ "state" \in DOMAIN Begun(x)
      /\ Begun(x).state \in Midway \cup {"Init"}
      /\ Begun(x).state = "Init" <=> r # 0
  BY DEF Begun, New, Midway
<1>5. Wants[Begun(x).state] # piece[1].is
  BY <1>3, <1>4 DEF Wants, Midway
<1>6. Take(Begun(x), piece, 1) = Failed(Begun(x))
  <2> DEFINE y == Begun(x)
  <2>1. y.state \notin {"End", "Error", "Body"}
    BY <1>4 DEF Midway
  <2> HIDE DEF y
  <2>2. Take(y, piece, 1) = Failed(y)
    BY <1>5, <2>1, TakesLine DEF y
  <2> QED  BY <2>2 DEF y
<1>7. Failed(Begun(x)).state = "Error"
  BY <1>4 DEF Failed
<1> QED  BY <1>2, <1>6, <1>7, ErrorStays

-----------------------------------------------------------------------------
(* Messages and their texts, one piece after the other *)

At(m, k) == [lines |-> Text(m), read |-> k]

AirType == air \in [App -> [lines : Seq(Lines), read : Nat]]

\* Only a layer that cuts has a text to go on with.
AirIsText ==
  \A a \in App :
    \/ air[a] = NoText
    \/ /\ Cuts[a] # {}
       /\ \E m \in Msg : \E k \in 1 .. Len(Text(m)) - 1 : air[a] = At(m, k)

\* The message under construction is what the text of one application says so far.
MsgFollowsAir ==
  msg # None =>
    \E a \in App : \E m \in Msg : \E k \in 1 .. Len(Text(m)) - 1 :
      /\ air[a] = At(m, k) /\ msg = Paused(m, k)
      /\ msg.state \in {"Header", "HeaderEnd", "Schema", "BodyBegin", "BodyEnd"}

ReceptionInv ==
  /\ AirType
  /\ AirIsText /\ MsgFollowsAir
  /\ AsSent
  /\ whole \in BOOLEAN /\ missed \in BOOLEAN

\* A text is a sequence of lines, and is not empty.
LEMMA TextType ==
  ASSUME NEW m \in Msg
  PROVE  m \in Sendable /\ Text(m) \in Seq(Lines) /\ Len(Text(m)) \in Nat \ {0, 1}
<1>1. m \in Sendable
  BY ReceptionAssumption
<1>2. Len(Text(m)) \in Nat \ {0, 1} /\ DOMAIN Text(m) = 1 .. Len(Text(m))
  BY <1>1, TextLines
<1>3. ToSet(Text(m)) \subseteq Lines
  BY DEF Lines
<1>4. \A i \in DOMAIN Text(m) : Text(m)[i] \in Lines
  BY <1>3 DEF ToSet
<1>5. Text(m) \in Seq(Lines)
  <2>1. Text(m) = [i \in 1 .. Len(Text(m)) |-> Text(m)[i]]
    BY <1>1, TextShape
  <2>2. Text(m) \in [1 .. Len(Text(m)) -> Lines]
    BY <1>2, <1>4, <2>1
  <2> QED  BY <1>2, <2>2, FunctionIsSeq
<1> QED  BY <1>1, <1>2, <1>5

\* What an application reads next is the text of some message, from some line on.
LEMMA ComingIsText ==
  ASSUME AirIsText, NEW a \in App, NEW t \in Coming(a)
  PROVE  \E m \in Msg : \E r \in 0 .. Len(Text(m)) - 1 :
           t = At(m, r) /\ (r # 0 => air[a] = t /\ Cuts[a] # {})
<1>1. CASE t \in {Fresh(Text(m)) : m \in Msg}
  <2>1. PICK m \in Msg : t = Fresh(Text(m))
    BY <1>1
  <2>2. 0 \in 0 .. Len(Text(m)) - 1
    BY TextType
  <2> QED  BY <2>1, <2>2 DEF Fresh, At
<1>2. CASE t = air[a] /\ air[a] # NoText
  <2>1. PICK m \in Msg : \E k \in 1 .. Len(Text(m)) - 1 : air[a] = At(m, k)
    BY <1>2 DEF AirIsText
  <2>2. PICK k \in 1 .. Len(Text(m)) - 1 : air[a] = At(m, k)
    BY <2>1
  <2>3. k \in 0 .. Len(Text(m)) - 1
    OBVIOUS
  <2>4. Cuts[a] # {}
    BY <1>2 DEF AirIsText
  <2> QED  BY <1>2, <2>2, <2>3, <2>4
<1> QED  BY <1>1, <1>2 DEF Coming

\* A piece that is read: where the text stands afterwards, and what it is.
LEMMA PieceIsRead ==
  ASSUME AirIsText, NEW a \in App, NEW m \in Msg, NEW r \in 0 .. Len(Text(m)) - 1,
         NEW n \in Ends(a, At(m, r))
  PROVE  /\ n \in r + 1 .. Len(Text(m))
         /\ Piece(At(m, r), n) = SubSeq(Text(m), r + 1, n)
         /\ n = Len(Text(m)) => Upto(At(m, r), n) = NoText
         /\ n # Len(Text(m)) => Upto(At(m, r), n) = At(m, n) /\ Cuts[a] # {}
BY DEF Ends, Piece, Upto, At

\* With one layer that cuts, there is one text to go on with.
LEMMA OneText ==
  ASSUME OneCutter, AirIsText, NEW a \in App, NEW b \in App,
         air[a] # NoText, air[b] # NoText
  PROVE  a = b
BY DEF OneCutter, AirIsText

\* A text that is being read is not the one of an idle layer.
LEMMA TextIsSomething ==
  ASSUME NEW m \in Msg, NEW k
  PROVE  At(m, k) # NoText
<1>1. Text(m) # << >>
  BY TextType, EmptySeq
<1>2. At(m, k).lines = Text(m) /\ NoText.lines = << >>
  BY DEF At, NoText, Fresh
<1> QED  BY <1>1, <1>2

\* What is left of a text when a piece has been read is the rest of that text.
LEMMA AirStaysText ==
  ASSUME AirType, AirIsText,
         NEW a \in App, NEW m \in Msg, NEW r \in 0 .. Len(Text(m)) - 1,
         NEW n \in Ends(a, At(m, r)), air' = [air EXCEPT ![a] = Upto(At(m, r), n)]
  PROVE  /\ AirType'
         /\ AirIsText'
<1>1. AirIsText /\ AirType
  OBVIOUS
<1>2. /\ n \in r + 1 .. Len(Text(m))
      /\ n = Len(Text(m)) => Upto(At(m, r), n) = NoText
      /\ n # Len(Text(m)) => Upto(At(m, r), n) = At(m, n) /\ Cuts[a] # {}
  BY <1>1, PieceIsRead
<1>3. Text(m) \in Seq(Lines) /\ Len(Text(m)) \in Nat
  BY TextType
<1>4. Upto(At(m, r), n) \in [lines : Seq(Lines), read : Nat]
  <2>1. NoText \in [lines : Seq(Lines), read : Nat]
    BY EmptySeq DEF NoText, Fresh
  <2>2. At(m, n) \in [lines : Seq(Lines), read : Nat]
    BY <1>2, <1>3 DEF At
  <2> QED  BY <1>2, <2>1, <2>2
<1>5. AirType'
  BY <1>1, <1>4 DEF AirType
<1>6. AirIsText'
  <2> SUFFICES ASSUME NEW b \in App
               PROVE  \/ air'[b] = NoText
                      \/ /\ Cuts[b] # {}
                         /\ \E p \in Msg : \E k \in 1 .. Len(Text(p)) - 1 : air'[b] = At(p, k)
    BY DEF AirIsText, At
  <2>1. CASE b # a
    <3>1. air'[b] = air[b]
      BY <1>1, <2>1 DEF AirType
    <3> QED  BY <1>1, <3>1 DEF AirIsText
  <2>2. CASE b = a /\ n = Len(Text(m))
    <3>1. air'[b] = NoText
      BY <1>1, <1>2, <2>2 DEF AirType
    <3> QED  BY <3>1
  <2>3. CASE b = a /\ n # Len(Text(m))
    <3>1. air'[b] = At(m, n) /\ Cuts[b] # {}
      BY <1>1, <1>2, <2>3 DEF AirType
    <3>2. n \in 1 .. Len(Text(m)) - 1
      BY <1>2, <1>3, <2>3
    <3> QED  BY <3>1, <3>2
  <2> QED  BY <2>1, <2>2, <2>3
<1> QED  BY <1>5, <1>6

\* A new message is what stands at the beginning of every text.
LEMMA StartsAtNothing ==
  ASSUME NEW m \in Sendable
  PROVE  New(Star) = Paused(m, 0)
<1>1. ForAll(m, 0) = FALSE /\ ForGroup(m, 0) = FALSE
  BY DEF ForAll, ForGroup
<1>2. Parsed(m, 0) =
        [type |-> Star, hop |-> 1, source |-> None, target |-> None,
         isbroadcast |-> ForAll(m, 0), isgrouped |-> ForGroup(m, 0), schema |-> None,
         body |-> << >>, state |-> "Init"]
  BY HeaderParsed
<1>3. New(Star) = Parsed(m, 0)
  BY <1>1, <1>2, Zenon DEF New
<1> QED  BY <1>3 DEF Paused

\* The parser stands where the text goes on, or its first line is an error.
LEMMA FitsOrNot ==
  ASSUME OneCutter, ReceptionInv, NEW a \in App, NEW t \in Coming(a)
  PROVE  \E m \in Msg : \E r \in 0 .. Len(Text(m)) - 1 :
           /\ t = At(m, r)
           /\ \/ Begun(msg) = Paused(m, r)
              \/ msg = None /\ r # 0
              \/ msg # None /\ r = 0 /\ "state" \in DOMAIN msg /\ msg.state \in Midway
<1>1. PICK m \in Msg : \E r \in 0 .. Len(Text(m)) - 1 : t = At(m, r) /\ (r # 0 => air[a] = t)
  BY ComingIsText DEF ReceptionInv
<1>2. PICK r \in 0 .. Len(Text(m)) - 1 : t = At(m, r) /\ (r # 0 => air[a] = t)
  BY <1>1
<1>3. CASE msg = None /\ r = 0
  <2>1. New(Star) = Paused(m, 0)
    BY TextType, StartsAtNothing
  <2> QED  BY <1>2, <1>3, <2>1 DEF Begun
<1>4. CASE msg # None
  <2>1. PICK b \in App : \E p \in Msg : \E k \in 1 .. Len(Text(p)) - 1 :
          /\ air[b] = At(p, k) /\ msg = Paused(p, k)
          /\ msg.state \in {"Header", "HeaderEnd", "Schema", "BodyBegin", "BodyEnd"}
    BY <1>4 DEF ReceptionInv, MsgFollowsAir
  <2>2. PICK p \in Msg : \E k \in 1 .. Len(Text(p)) - 1 :
          /\ air[b] = At(p, k) /\ msg = Paused(p, k)
          /\ msg.state \in {"Header", "HeaderEnd", "Schema", "BodyBegin", "BodyEnd"}
    BY <2>1
  <2>3. PICK k \in 1 .. Len(Text(p)) - 1 :
          /\ air[b] = At(p, k) /\ msg = Paused(p, k)
          /\ msg.state \in {"Header", "HeaderEnd", "Schema", "BodyBegin", "BodyEnd"}
    BY <2>2
  <2>4. CASE r = 0
    <3>1. "state" \in DOMAIN msg
      BY <2>3 DEF Paused, Parsed
    <3> QED  BY <1>2, <1>4, <2>3, <2>4, <3>1 DEF Midway
  <2>5. CASE r # 0
    <3>1. a = b
      <4>1. air[a] # NoText /\ air[b] # NoText
        BY <1>2, <2>3, <2>5, TextIsSomething
      <4> QED  BY <4>1, OneText DEF ReceptionInv
    <3>2. t = At(p, k) /\ Begun(msg) = Paused(p, k) /\ k \in 0 .. Len(Text(p)) - 1
      BY <1>2, <1>4, <2>3, <2>5, <3>1 DEF Begun
    <3> QED  BY <3>2
  <2> QED  BY <2>4, <2>5
<1>5. CASE msg = None /\ r # 0
  BY <1>2, <1>5
<1> QED  BY <1>3, <1>4, <1>5

\* A message that is given to the listeners has been put together from its own text.
LEMMA PollKeepsReception ==
  ASSUME OneCutter, ReceptionInv, NEW a \in App, NEW t \in Coming(a), NEW n \in Ends(a, t),
         Poll(a, t, n)
  PROVE  ReceptionInv'
<1>1. PICK m \in Msg : \E r \in 0 .. Len(Text(m)) - 1 :
        /\ t = At(m, r)
        /\ \/ Begun(msg) = Paused(m, r)
           \/ msg = None /\ r # 0
           \/ msg # None /\ r = 0 /\ "state" \in DOMAIN msg /\ msg.state \in Midway
  BY FitsOrNot
<1>2. PICK r \in 0 .. Len(Text(m)) - 1 :
        /\ t = At(m, r)
        /\ \/ Begun(msg) = Paused(m, r)
           \/ msg = None /\ r # 0
           \/ msg # None /\ r = 0 /\ "state" \in DOMAIN msg /\ msg.state \in Midway
  BY <1>1
<1>3. /\ n \in r + 1 .. Len(Text(m)) /\ n \in Ends(a, At(m, r))
      /\ Piece(At(m, r), n) = SubSeq(Text(m), r + 1, n)
      /\ n = Len(Text(m)) => Upto(At(m, r), n) = NoText
      /\ n # Len(Text(m)) => Upto(At(m, r), n) = At(m, n) /\ Cuts[a] # {}
  BY <1>2, PieceIsRead DEF ReceptionInv
<1>4. m \in Sendable /\ Len(Text(m)) \in Nat
  BY TextType
<1> DEFINE piece == SubSeq(Text(m), r + 1, n)
           got == FromString(msg, piece)
<1>5. /\ air' = [air EXCEPT ![a] = Upto(At(m, r), n)]
      /\ current' = IF got.state = "End" THEN got ELSE None
      /\ msg' = IF got.state \in {"End", "Error"} THEN None ELSE got
      /\ whole' \in BOOLEAN
      /\ missed' \in BOOLEAN
  <2>1. missed \in BOOLEAN
    BY DEF ReceptionInv
  <2> QED  BY <1>2, <1>3, <2>1 DEF Poll, IsWhole
<1>6. got.state = "Error" \/ got = AtEnd(Parsed(m, n))
  <2>1. CASE Begun(msg) = Paused(m, r)
    BY <1>3, <1>4, <2>1, Understood
  <2>2. CASE \/ msg = None /\ r # 0
             \/ msg # None /\ r = 0 /\ "state" \in DOMAIN msg /\ msg.state \in Midway
    BY <1>3, <1>4, <2>2, NotUnderstood
  <2> QED  BY <1>2, <2>1, <2>2
<1> HIDE DEF got, piece
<1>7. AirType' /\ AirIsText'
  BY <1>3, <1>5, AirStaysText DEF ReceptionInv
<1>8. CASE got.state = "Error"
  BY <1>5, <1>7, <1>8 DEF ReceptionInv, MsgFollowsAir, AsSent
<1>9. CASE got = AtEnd(Parsed(m, n)) /\ n = Len(Text(m)) 
  <2>1. got = Received(m) /\ got.state = "End"
    <3>1. n \in 1 .. Len(Text(m))
      BY <1>3
    <3> QED  BY <1>4, <1>9, <3>1, AtEndOfPiece
  <2>2. current' \in Heard /\ msg' = None
    BY <1>5, <2>1 DEF Heard
  <2> QED  BY <1>5, <1>7, <2>2 DEF ReceptionInv, MsgFollowsAir, AsSent, Heard
<1>10. CASE got = AtEnd(Parsed(m, n)) /\ n # Len(Text(m)) /\ got.state # "Error"
  <2>1. n \in 1 .. Len(Text(m)) - 1
    BY <1>3, <1>4, <1>10
  <2>2. got = Paused(m, n) /\ got.state \in {"Header", "HeaderEnd", "Schema", "BodyBegin", "BodyEnd"}
    <3>1. n \in 1 .. Len(Text(m)) /\ n < Len(Text(m))
      BY <1>4, <2>1
    <3> QED  BY <1>4, <1>10, <3>1, AtEndOfPiece
  <2>3. current' = None /\ msg' = Paused(m, n)
        /\ msg'.state \in {"Header", "HeaderEnd", "Schema", "BodyBegin", "BodyEnd"}
    BY <1>5, <2>2
  <2>4. air'[a] = At(m, n)
    BY <1>3, <1>5, <1>10 DEF AirType, ReceptionInv
  <2>5. MsgFollowsAir'
    BY <2>1, <2>3, <2>4 DEF MsgFollowsAir, At, Paused, Parsed
  <2> QED  BY <1>5, <1>7, <2>3, <2>5 DEF ReceptionInv, AsSent
<1> QED  BY <1>6, <1>8, <1>9, <1>10

\* No application is reading anything at first.
LEMMA AirStarts == ReceptionInit => AirType /\ AirIsText
<1>1. NoText \in [lines : Seq(Lines), read : Nat]
  BY EmptySeq DEF NoText, Fresh
<1> QED  BY <1>1 DEF ReceptionInit, AirType, AirIsText

\* And nothing is under construction.
LEMMA ReceptionStarts == ReceptionInit => ReceptionInv
BY AirStarts DEF ReceptionInit, ReceptionInv, MsgFollowsAir, AsSent

\* The message the listeners have had is forgotten, and nothing else.
LEMMA ReleaseKeepsReception ==
  ASSUME ReceptionInv, Release \/ UNCHANGED receptionVars
  PROVE  ReceptionInv'
BY SMTT(30) DEF ReceptionInv, Release, receptionVars, AirType, AirIsText, MsgFollowsAir, AsSent, At,
       Paused, Parsed

\* What is under construction, and what is given to the listeners, is a message.
LEMMA PartsAreMessages ==
  ASSUME NEW m \in Sendable, NEW k \in 1 .. Len(Text(m))
  PROVE  Paused(m, k) \in Messages /\ AtEnd(Parsed(m, k)) \in Messages
<1>1. Len(m.body) \in Nat /\ Len(Text(m)) = 9 + Len(m.body)
  BY TextLines
<1>2. /\ m.type \in Types /\ m.hop \in Nat /\ m.schema \in Schema /\ m.body \in Seq(Pairs)
      /\ Cut(m.source) \in Identifier
      /\ Aim(m) \in Identifier \cup {Star}
  BY ReadsBack DEF Sendable, Messages, Aim
<1>3. BodyUpto(m, k) \in Seq(Pairs)
  <2>1. CASE k <= 8
    BY <2>1, EmptySeq DEF BodyUpto
  <2>2. CASE ~(k <= 8) /\ k <= 8 + Len(m.body)
    <3>1. k - 8 \in Nat /\ k - 8 <= Len(m.body)
      BY <1>1, <2>2
    <3> QED  BY <1>2, <2>2, <3>1, PrefixType DEF BodyUpto
  <2>3. CASE ~(k <= 8) /\ ~(k <= 8 + Len(m.body))
    BY <1>2, <2>3 DEF BodyUpto
  <2> QED  BY <2>1, <2>2, <2>3
<1>4. Reached(m, k) \in MessageStates
  BY DEF Reached, MessageStates
<1>5. ForAll(m, k) \in BOOLEAN /\ ForGroup(m, k) \in BOOLEAN
  BY DEF ForAll, ForGroup, IsGroup
<1> DEFINE type == IF k >= 1 THEN m.type ELSE Star
           hop == IF k >= 3 THEN m.hop ELSE 1
           source == IF k >= 4 THEN Cut(m.source) ELSE None
           target == IF k >= 5 THEN Aim(m) ELSE None
           schema == IF k >= 7 THEN m.schema ELSE None
<1>6. /\ type \in Types \cup {Star} /\ hop \in Nat /\ source \in Identifier \cup {None}
      /\ target \in Identifier \cup {Star, None} /\ schema \in Schema \cup {None}
  BY <1>2
<1>7. Parsed(m, k) = [type |-> type, hop |-> hop, source |-> source, target |-> target,
                      isbroadcast |-> ForAll(m, k), isgrouped |-> ForGroup(m, k),
                      schema |-> schema, body |-> BodyUpto(m, k), state |-> Reached(m, k)]
  BY DEF Parsed
<1> HIDE DEF type, hop, source, target, schema
<1>8. Parsed(m, k) \in Messages
  BY <1>3, <1>4, <1>5, <1>6, <1>7 DEF Messages
<1>9. \A s \in {"BodyEnd", "Error"} : [Parsed(m, k) EXCEPT !.state = s] \in Messages
  BY <1>8 DEF Messages, MessageStates
<1> QED  BY <1>8, <1>9 DEF Paused, AtEnd, Failed

\* The types of ReceptionTypeOK hold, and what the listeners are given was sent.
LEMMA ReceptionHolds == ReceptionInv => ReceptionTypeOK /\ AsSent
<1> SUFFICES ASSUME ReceptionInv
             PROVE  ReceptionTypeOK
  BY DEF ReceptionInv
<1>1. msg # None =>
        /\ msg.state \in {"Header", "HeaderEnd", "Schema", "BodyBegin", "BodyEnd"}
        /\ msg \in Messages
  <2> SUFFICES ASSUME msg # None
               PROVE  /\ msg.state \in {"Header", "HeaderEnd", "Schema", "BodyBegin", "BodyEnd"}
                      /\ msg \in Messages
    OBVIOUS
  <2>1. PICK m \in Msg : \E k \in 1 .. Len(Text(m)) - 1 :
          /\ msg = Paused(m, k)
          /\ msg.state \in {"Header", "HeaderEnd", "Schema", "BodyBegin", "BodyEnd"}
    BY DEF ReceptionInv, MsgFollowsAir
  <2>2. PICK k \in 1 .. Len(Text(m)) - 1 :
          /\ msg = Paused(m, k)
          /\ msg.state \in {"Header", "HeaderEnd", "Schema", "BodyBegin", "BodyEnd"}
    BY <2>1
  <2>3. k \in 1 .. Len(Text(m))
    BY TextType
  <2> QED  BY <2>2, <2>3, TextType, PartsAreMessages
<1>2. current # None => current.state = "End" /\ current \in Messages
  <2> SUFFICES ASSUME NEW m \in Msg
               PROVE  Received(m).state = "End" /\ Received(m) \in Messages
    BY DEF ReceptionInv, AsSent, Heard
  <2>1. Len(Text(m)) \in 1 .. Len(Text(m)) /\ m \in Sendable
    BY TextType
  <2> QED  BY <2>1, AtEndOfPiece, PartsAreMessages
<1> QED  BY <1>1, <1>2 DEF ReceptionInv, ReceptionTypeOK, AirType

-----------------------------------------------------------------------------
(* A whole text after a whole text *)

\* Nothing is left over of a whole text.
WholeInv ==
  /\ whole => msg = None
  /\ msg # None => "state" \in DOMAIN msg /\ msg.state \in Midway
  /\ ~missed

\* A line takes the parser away from the start, and not back to it.
LEMMA OnwardOnly ==
  ASSUME NEW x, "state" \in DOMAIN x, NEW piece, NEW i,
         x.state \in Midway \cup {"Init", "Body", "End", "Error"}
  PROVE  /\ "state" \in DOMAIN Take(x, piece, i)
         /\ Take(x, piece, i).state \in Midway \cup {"Body", "End", "Error"}
<1> DEFINE line == piece[i]
           noted == Noted(x, line)
           s == IF x.state = "Body" THEN "BodyEnd" ELSE x.state
<1>1. "state" \in DOMAIN noted
  <2>1. \A y, z : /\ DOMAIN [x EXCEPT !.type = y] = DOMAIN x
                  /\ DOMAIN [x EXCEPT !.hop = y] = DOMAIN x
                  /\ DOMAIN [x EXCEPT !.source = y] = DOMAIN x
                  /\ DOMAIN [x EXCEPT !.schema = y] = DOMAIN x
                  /\ DOMAIN [x EXCEPT !.target = y] = DOMAIN x
    OBVIOUS
  <2>2. \A t, b, g : DOMAIN [[[x EXCEPT !.target = t] EXCEPT !.isbroadcast = b] EXCEPT !.isgrouped = g]
                       = DOMAIN x
    OBVIOUS
  <2>3. \A said : DOMAIN SchemaSet(x, said) = DOMAIN x
    BY <2>1 DEF SchemaSet
  <2>4. noted \in {x, TypeSet(x, Meaning(line)), HopSet(x, Meaning(line)),
                   [x EXCEPT !.source = Meaning(line)], SchemaSet(x, Meaning(line)),
                   GroupedSet(BroadcastSet([x EXCEPT !.target = Meaning(line)],
                                           Meaning(line) = Star),
                              Meaning(line) # Star /\ IsGroup(Meaning(line)))}
    BY DEF Noted
  <2>5. DOMAIN noted = DOMAIN x
    BY <2>1, <2>2, <2>3, <2>4 DEF TypeSet, HopSet, GroupedSet, BroadcastSet
  <2> QED  BY <2>5
<1>2. \A v : "state" \in DOMAIN [noted EXCEPT !.state = v] /\ [noted EXCEPT !.state = v].state = v
  <2> HIDE DEF noted
  <2> QED  BY <1>1
<1>3. "state" \in DOMAIN Failed(x) /\ Failed(x).state = "Error"
  BY DEF Failed
<1>4. /\ "state" \in DOMAIN InBodyTake(x, line)
      /\ InBodyTake(x, line).state \in {x.state, "Error"}
  BY <1>3 DEF InBodyTake
<1>5. CASE x.state \in {"End", "Error"}
  BY <1>5 DEF Take
<1>6. CASE x.state \notin {"End", "Error"} /\ InBody(x, piece, i)
  BY <1>4, <1>6 DEF Take, InBody
<1>7. CASE x.state \notin {"End", "Error"} /\ ~InBody(x, piece, i)
  <2>1. s \in Midway \cup {"Init"}
    BY <1>7 DEF Midway
  <2>2. Then[s] \in Midway \cup {"Body", "End"}
    BY <2>1 DEF Then, Midway
  <2>3. \/ Take(x, piece, i) = Failed(x)
        \/ Take(x, piece, i) = x /\ s = "HeaderTarget"
        \/ Take(x, piece, i) = [noted EXCEPT !.state = Then[s]]
    BY <1>7 DEF Take
  <2>4. CASE Take(x, piece, i) = Failed(x)
    BY <1>3, <2>4
  <2>5. CASE Take(x, piece, i) = x /\ s = "HeaderTarget"
    BY <2>5 DEF Midway
  <2>6. CASE Take(x, piece, i) = [noted EXCEPT !.state = Then[s]]
    <3> HIDE DEF noted, s
    <3> QED  BY <1>2, <2>2, <2>6
  <2> QED  BY <2>3, <2>4, <2>5, <2>6
<1> QED  BY <1>5, <1>6, <1>7

\* So a piece leaves a message in the middle, or an end of it.
LEMMA PieceLeaves ==
  ASSUME NEW x, x # None => "state" \in DOMAIN x /\ x.state \in Midway,
         NEW piece, Len(piece) \in Nat \ {0}
  PROVE  /\ "state" \in DOMAIN FromString(x, piece)
         /\ FromString(x, piece).state \in Midway \cup {"End", "Error"}
<1> DEFINE Mid(y) == "state" \in DOMAIN y /\ y.state \in Midway \cup {"Body", "End", "Error"}
<1>1. PICK run : /\ run[0] = Begun(x)
                 /\ \A i \in 1 .. Len(piece) : run[i] = Take(run[i - 1], piece, i)
                 /\ FromString(x, piece) = AtEnd(run[Len(piece)])
  BY ReadByLines
<1>2. "state" \in DOMAIN run[0] /\ run[0].state \in Midway \cup {"Init", "Body", "End", "Error"}
  BY <1>1 DEF Begun, New
<1> DEFINE Without == {i \in 1 .. Len(piece) : ~Mid(run[i])}
<1>3. Without = {}
  <2> SUFFICES ASSUME Without # {}
               PROVE  FALSE
    OBVIOUS
  <2>1. PICK i \in Without : \A j \in Without : i <= j
    <3>1. Without \in SUBSET Nat
      OBVIOUS
    <3> HIDE DEF Without
    <3> QED  BY <3>1, LeastElement
  <2>2. i \in 1 .. Len(piece) /\ ~Mid(run[i])
    OBVIOUS
  <2>3. run[i] = Take(run[i - 1], piece, i)
    BY <1>1, <2>2
  <2>4. "state" \in DOMAIN run[i - 1]
        /\ run[i - 1].state \in Midway \cup {"Init", "Body", "End", "Error"}
    <3>1. CASE i = 1
      BY <1>2, <3>1
    <3>2. CASE i # 1
      <4>1. i - 1 \in 1 .. Len(piece) /\ ~(i <= i - 1)
        BY <2>2, <3>2
      <4>2. i - 1 \notin Without
        <5> HIDE DEF Without
        <5> QED  BY <2>1, <4>1
      <4> QED  BY <4>1, <4>2
    <3> QED  BY <3>1, <3>2
  <2> DEFINE y == run[i - 1]
  <2> HIDE DEF y
  <2>5. Mid(Take(y, piece, i))
    BY <2>4, OnwardOnly DEF y
  <2> HIDE DEF Mid
  <2> QED  BY <2>2, <2>3, <2>5 DEF y
<1>4. Mid(run[Len(piece)])
  BY <1>3
<1> DEFINE z == run[Len(piece)]
<1> HIDE DEF z
<1>5. /\ "state" \in DOMAIN AtEnd(z)
      /\ AtEnd(z).state \in Midway \cup {"End", "Error"}
  BY <1>4 DEF AtEnd, Failed, Midway, z
<1> QED  BY <1>1, <1>5 DEF z

\* Whatever the layers cut, a whole text is heard after a whole text.
LEMMA PollKeepsWhole ==
  ASSUME AirIsText, WholeInv, NEW a \in App, NEW t \in Coming(a), NEW n \in Ends(a, t),
         Poll(a, t, n)
  PROVE  WholeInv'
<1>1. PICK m \in Msg : \E r \in 0 .. Len(Text(m)) - 1 : t = At(m, r)
  BY ComingIsText
<1>2. PICK r \in 0 .. Len(Text(m)) - 1 : t = At(m, r)
  BY <1>1
<1>3. /\ n \in r + 1 .. Len(Text(m)) /\ m \in Sendable
      /\ Piece(t, n) = SubSeq(Text(m), r + 1, n)
  BY <1>2, PieceIsRead, TextType
<1> DEFINE piece == Piece(t, n)
           got == FromString(msg, piece)
<1>4. Len(piece) \in Nat \ {0}
  <2>1. Len(piece) = n - r
    BY <1>3, PieceLines
  <2>2. Len(Text(m)) \in Nat
    BY TextType
  <2> HIDE DEF piece
  <2> QED  BY <1>3, <2>1, <2>2
<1>5. /\ msg' = IF got.state \in {"End", "Error"} THEN None ELSE got
      /\ whole' = IsWhole(piece)
      /\ missed' = (missed \/ (whole /\ IsWhole(piece) /\ got.state # "End"))
  BY DEF Poll
<1>6. "state" \in DOMAIN got /\ got.state \in Midway \cup {"End", "Error"}
  <2> HIDE DEF piece
  <2> QED  BY <1>4, PieceLeaves DEF WholeInv
<1>7. ASSUME IsWhole(piece)
      PROVE  got.state = IF msg = None THEN "End" ELSE "Error"
  <2>1. PICK p \in Msg : piece = Text(p) /\ Legal(Text(p))
    BY <1>7 DEF IsWhole, WholeTexts
  <2>2. p \in Sendable /\ Len(Text(p)) \in Nat \ {0, 1} /\ Text(p) \in Seq(Lines)
    BY TextType
  <2>3. /\ piece = SubSeq(Text(p), 0 + 1, Len(Text(p)))
        /\ 0 \in 0 .. Len(Text(p)) - 1 /\ Len(Text(p)) \in 0 + 1 .. Len(Text(p))
        /\ Len(Text(p)) \in 1 .. Len(Text(p))
    <3>1. SubSeq(Text(p), 1, Len(Text(p))) = Text(p)
      BY <2>2, SubSeqFull
    <3> HIDE DEF piece
    <3> QED  BY <2>1, <2>2, <3>1
  <2> HIDE DEF piece
  <2>4. CASE msg = None
    <3>1. Begun(msg) = Paused(p, 0)
      BY <2>2, <2>4, StartsAtNothing DEF Begun
    <3>2. got = AtEnd(Parsed(p, Len(Text(p))))
      BY <2>1, <2>2, <2>3, <3>1, Understood
    <3> QED  BY <2>2, <2>3, <2>4, <3>2, AtEndOfPiece
  <2>5. CASE msg # None
    <3>1. "state" \in DOMAIN msg /\ msg.state \in Midway
      BY <2>5 DEF WholeInv
    <3> QED  BY <2>2, <2>3, <2>5, <3>1, NotUnderstood
  <2> QED  BY <2>4, <2>5
<1> HIDE DEF got, piece
<1>8. ~missed'
  BY <1>5, <1>7 DEF WholeInv
<1>9. whole' => msg' = None
  BY <1>5, <1>7
<1>10. msg' # None => "state" \in DOMAIN msg' /\ msg'.state \in Midway
  BY <1>5, <1>6
<1> QED  BY <1>8, <1>9, <1>10 DEF WholeInv

\* At first there is nothing to go on with.
LEMMA WholeStarts == ReceptionInit => WholeInv
BY DEF ReceptionInit, WholeInv

\* What the listeners do does not touch the message under construction.
LEMMA ReleaseKeepsWhole ==
  ASSUME WholeInv, Release \/ UNCHANGED receptionVars
  PROVE  WholeInv'
BY DEF WholeInv, Release, receptionVars

\* Every application goes on in the text it is reading, or with another one.
LEMMA PollKeepsAir ==
  ASSUME AirType, AirIsText,
         NEW a \in App, NEW t \in Coming(a), NEW n \in Ends(a, t), Poll(a, t, n)
  PROVE  AirType' /\ AirIsText'
<1>1. PICK m \in Msg : \E r \in 0 .. Len(Text(m)) - 1 : t = At(m, r)
  BY ComingIsText
<1>2. PICK r \in 0 .. Len(Text(m)) - 1 : t = At(m, r)
  BY <1>1
<1>3. air' = [air EXCEPT ![a] = Upto(At(m, r), n)] /\ n \in Ends(a, At(m, r))
  BY <1>2 DEF Poll
<1> QED  BY <1>3, AirStaysText

-----------------------------------------------------------------------------
(* What the applications receive *)

\* Of the actions, only the two of gxPLAppPoll touch what Reception is about.
LEMMA StepOfReception ==
  ASSUME [Next]_vars
  PROVE  \/ \E a \in App : \E t \in Coming(a) : \E n \in Ends(a, t) : Poll(a, t, n)
         \/ Release \/ UNCHANGED receptionVars
<1>1. CASE UNCHANGED vars
  BY <1>1 DEF vars
<1>2. CASE \E a \in App : \E t \in Coming(a) : \E n \in Ends(a, t) : Receive(a, t, n)
  BY <1>2 DEF Receive
<1>3. CASE NextListener
  BY <1>3 DEF NextListener
<1>4. CASE NextDevice \/ NextDeviceListener \/ Return
  BY <1>4 DEF NextDevice, NextDeviceListener, Return
<1>5. CASE \E f \in Func : MessageListenerAdd(f) \/ MessageListenerRemove(f)
  BY <1>5 DEF MessageListenerAdd, MessageListenerRemove
<1>6. CASE \E d \in Device : \E f \in Func : ListenerRemove(d, f) \/ \E p \in Pattern : ListenerAdd(d, f, p)
  BY <1>6 DEF ListenerAdd, ListenerRemove
<1>7. CASE \E d \in Device : \E id \in Id : AddDevice(d, id) \/ AddConfigurableDevice(d, id)
  BY <1>7 DEF AddDevice, AddConfigurableDevice, Enlist
<1>8. CASE \E d \in Device : RemoveDevice(d)
  BY <1>8 DEF RemoveDevice
<1>9. CASE \E d \in Device : Retunes(d)
  BY <1>9 DEF Retunes, IdSet, PartIdSet, GroupAdd, GroupClear, FilterAdd, FilterClear,
              ReportOwnMessagesSet, Retune
<1> QED  BY <1>1, <1>2, <1>3, <1>4, <1>5, <1>6, <1>7, <1>8, <1>9 DEF Next, Retunes

\* The steps of the system keep what is known of the message under construction.
LEMMA StepKeepsReception ==
  ASSUME OneCutter, ReceptionInv, [Next]_vars
  PROVE  ReceptionInv'
BY StepOfReception, PollKeepsReception, ReleaseKeepsReception

\* Whether one layer cuts texts or all of them do.
LEMMA StepKeepsWhole ==
  ASSUME AirType, AirIsText, WholeInv, [Next]_vars
  PROVE  AirType' /\ AirIsText' /\ WholeInv'
<1>1. CASE \E a \in App : \E t \in Coming(a) : \E n \in Ends(a, t) : Poll(a, t, n)
  BY <1>1, PollKeepsAir, PollKeepsWhole
<1>2. CASE Release \/ UNCHANGED receptionVars
  <2>1. AirType' /\ AirIsText'
    BY <1>2 DEF Release, receptionVars, AirType, AirIsText
  <2> QED  BY <1>2, <2>1, ReleaseKeepsWhole
<1> QED  BY <1>1, <1>2, StepOfReception

\* DispatchTypeOK of the run: a message under construction is kept only at the end of a
\* piece where the parser can go on, what is handed to the listeners is valid, and the
\* devices, the listeners and the loops are what VectorsOK says.
THEOREM DispatchTypeCorrect == ASSUME OneCutter PROVE Spec => []DispatchTypeOK
<1>1. Init => IInv /\ ReceptionInv
  BY InitOnce, ReceptionStarts DEF Init
<1>2. IInv /\ ReceptionInv /\ [Next]_vars => IInv' /\ ReceptionInv'
  BY StepOnce, StepKeepsReception
<1>3. IInv /\ ReceptionInv => DispatchTypeOK
  BY ReceptionHolds DEF DispatchTypeOK, IInv
<1> QED  BY <1>1, <1>2, <1>3, PTL DEF Spec

\* AsSent of the run: with at most one layer in the process that cuts texts, the listeners
\* of gxPLAppPoll are given nothing but what was sent, although senders fall silent in the
\* middle and the message under construction is shared by the applications.
THEOREM AsSentHolds == ASSUME OneCutter PROVE Spec => []AsSent
<1>1. Init => ReceptionInv
  BY ReceptionStarts DEF Init
<1>2. ReceptionInv /\ [Next]_vars => ReceptionInv'
  BY StepKeepsReception
<1>3. ReceptionInv => AsSent
  BY DEF ReceptionInv
<1> QED  BY <1>1, <1>2, <1>3, PTL DEF Spec

\* WholeIsHeard of the run: of two texts that come in one piece each, one after the other,
\* the second is always handed to the listeners, however many layers cut texts and wherever.
THEOREM WholeIsHeardHolds == Spec => []WholeIsHeard
<1>1. Init => AirType /\ AirIsText /\ WholeInv
  BY AirStarts, WholeStarts DEF Init
<1>2. AirType /\ AirIsText /\ WholeInv /\ [Next]_vars => AirType' /\ AirIsText' /\ WholeInv'
  BY StepKeepsWhole
<1>3. WholeInv => WholeIsHeard
  BY DEF WholeInv, WholeIsHeard
<1> QED  BY <1>1, <1>2, <1>3, PTL DEF Spec
=============================================================================
