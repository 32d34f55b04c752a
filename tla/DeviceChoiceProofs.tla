-------------------------- MODULE DeviceChoiceProofs --------------------------
(***************************************************************************)
(* The choice of a device, for every set of devices and however many       *)
(* answer.  IInv adds to the properties how far the connection is and that *)
(* the address given to open() is the one the list stands for.             *)
(***************************************************************************)
EXTENDS DeviceChoiceProperties, TLAPS

ConnectionInv ==
    /\ discovering => connection = "none"
    /\ connection \in {"none", "opening"} <=> opened = NoAddress
    /\ connection = "opening" => target = IpAddress(combo)

IInv == TypeOK /\ ConnectionInv /\ ChoiceKept /\ OpensTheChosen /\ ConnectedIsShown

-----------------------------------------------------------------------------
(* The operations on the list.                                             *)

\* An address is a text that reads like one.
LEMMA AddressFacts ==
    ASSUME NEW a \in Addresses \cup {NoAddress}
    PROVE  /\ Address(a) \in Text /\ Address(a) \in AddressTexts
           /\ Address(a).form = "address"
           /\ Address(a) = Empty <=> a = NoAddress
           /\ \A b : Address(b) = Address(a) => b = a
  BY DEF Address, Named, Empty, Text, AddressTexts

\* An entry that is found has the address looked for.
LEMMA FindDataFinds ==
    ASSUME NEW c, NEW a, HasData(c, a)
    PROVE  /\ FindData(c, a) \in DOMAIN c.items
           /\ c.items[FindData(c, a)].data = a
  BY DEF FindData, HasData

\* The shape of a list.
LEMMA ComboFacts ==
    ASSUME NEW c, ComboOK(c)
    PROVE  /\ c.items \in Seq(Entry) /\ c.index \in Nat /\ c.text \in Text
           /\ DOMAIN c.items = 1..Len(c.items) /\ Len(c.items) \in Nat
           /\ \A i \in DOMAIN c.items : c.items[i].text \in Text /\ c.items[i].data \in AddressTexts
           /\ c = [items |-> c.items, index |-> c.index, text |-> c.text]
  <1>1. c \in [items : Seq(Entry), index : Nat, text : Text]
    BY DEF ComboOK
  <1>2. c.items \in Seq(Entry) /\ c.index \in Nat /\ c.text \in Text
    BY <1>1
  <1>3. c = [items |-> c.items, index |-> c.index, text |-> c.text]
    BY <1>1
  <1>4. ASSUME NEW i \in DOMAIN c.items
        PROVE  c.items[i].text \in Text /\ c.items[i].data \in AddressTexts
    <2>1. c.items[i] \in Entry
      BY <1>2
    <2> QED
      BY <2>1 DEF Entry
  <1> QED
    BY <1>2, <1>3, <1>4

\* Selecting an entry keeps the shape; the list then stands for the entry.
LEMMA SelectEntry ==
    ASSUME NEW c, ComboOK(c), NEW i \in DOMAIN c.items
    PROVE  /\ ComboOK(SetCurrentIndex(c, i))
           /\ IpAddress(SetCurrentIndex(c, i)) \in AddressTexts
           /\ c.items[i].data # Empty => IpAddress(SetCurrentIndex(c, i)) = c.items[i].data
  <1> DEFINE d == SetCurrentIndex(c, i)
  <1>1. d = [items |-> c.items, index |-> i, text |-> c.items[i].text]
    BY ComboFacts DEF SetCurrentIndex
  <1>2. ComboOK(d)
    BY <1>1, ComboFacts DEF ComboOK
  <1>3. c.items[i].data = Empty => c.items[i].text \in AddressTexts
    <2>1. ASSUME NEW t \in Text, t.form = "address"
          PROVE  t \in AddressTexts
      BY <2>1 DEF Text, AddressTexts, Address, Named
    <2> QED
      BY <2>1, ComboFacts DEF ComboOK
  <1>4. IpAddress(d) = IF c.items[i].data # Empty THEN c.items[i].data ELSE c.items[i].text
    BY <1>1, ComboFacts DEF IpAddress
  <1> QED
    BY <1>2, <1>3, <1>4, ComboFacts

\* Typing an address keeps the shape; the list then stands for what was typed.
LEMMA TypeAddress ==
    ASSUME NEW c, ComboOK(c), NEW a \in Addresses \cup {NoAddress}
    PROVE  /\ ComboOK([c EXCEPT !.text = Address(a)])
           /\ IpAddress([c EXCEPT !.text = Address(a)]) = Address(a)
  <1> DEFINE d == [c EXCEPT !.text = Address(a)]
  <1>1. d = [items |-> c.items, index |-> c.index, text |-> Address(a)]
    BY ComboFacts
  <1>2. ComboOK(d)
    BY <1>1, ComboFacts, AddressFacts DEF ComboOK
  <1>3. ASSUME c.index > 0, Address(a) = c.items[c.index].text, c.items[c.index].data # Empty
        PROVE  FALSE
    BY <1>3, ComboFacts, AddressFacts DEF ComboOK
  <1> QED
    BY <1>1, <1>2, <1>3 DEF IpAddress

\* A list of discovered devices.
LEMMA ListOfDevices ==
    ASSUME NEW n \in Nat \ {0}, NEW devices \in [1..n -> Addresses]
    PROVE  /\ ComboOK(Listed(devices))
           /\ 1 \in DOMAIN Listed(devices).items
  BY AddressFacts, DeviceAssumption
     DEF Listed, ComboOK, Item, Named, Address, Text, AddressTexts, Empty

\* What the list stands for is a text.
LEMMA IpAddressType ==
    ASSUME NEW c, ComboOK(c)
    PROVE  IpAddress(c) \in Text
  <1>1. AddressTexts \subseteq Text
    BY AddressFacts DEF AddressTexts
  <1> QED
    BY <1>1, ComboFacts DEF IpAddress, ComboOK

\* An address that the list stands for survives a discovery.
LEMMA AddressSurvives ==
    ASSUME NEW c, ComboOK(c), NEW devices \in DiscoverDevices
    PROVE  /\ ComboOK(ApplyDiscoveredDevices(c, devices))
           /\ IpAddress(c) \in AddressTexts \ {Empty}
                 => IpAddress(ApplyDiscoveredDevices(c, devices)) = IpAddress(c)
  <1> DEFINE a == IpAddress(c)
             d == ApplyDiscoveredDevices(c, devices)
             new == Listed(devices)
  <1>1. PICK n \in Nat : devices \in [1..n -> Addresses]
    BY DeviceAssumption DEF DiscoverDevices, Answers, Standard
  <1>2. a \in Text
    BY IpAddressType
  <1>3. CASE devices = << >>
    <2> DEFINE t == IF a = Empty THEN Address(DefaultAddress) ELSE a
    <2>1. d = [items |-> << >>, index |-> 0, text |-> t]
      BY <1>3 DEF ApplyDiscoveredDevices, EmptyCombo
    <2>2. t \in Text
      BY <1>2, AddressFacts, DeviceAssumption
    <2> QED
      BY <2>1, <2>2 DEF ComboOK, IpAddress
  <1>4. CASE devices # << >>
    <2>1. n \in Nat \ {0}
      BY <1>1, <1>4
    <2>2. ComboOK(new) /\ 1 \in DOMAIN new.items
      BY <1>1, <2>1, ListOfDevices
    <2>3. CASE a = Empty
      BY <1>4, <2>2, <2>3 DEF ApplyDiscoveredDevices
    <2>4. CASE a # Empty /\ HasData(new, a)
      <3>1. d = SetCurrentIndex(new, FindData(new, a))
        BY <1>4, <2>4 DEF ApplyDiscoveredDevices
      <3> QED
        BY <2>2, <2>4, <3>1, FindDataFinds, SelectEntry
    <2>5. CASE a # Empty /\ ~HasData(new, a)
      <3>1. d = [items |-> new.items, index |-> new.index, text |-> a]
        BY <1>4, <2>2, <2>5, ComboFacts DEF ApplyDiscoveredDevices
      <3>2. ComboOK(d)
        BY <1>2, <2>2, <3>1, ComboFacts DEF ComboOK
      <3>3. ASSUME a \in AddressTexts
            PROVE  IpAddress(d) = a
        <4>1. PICK b \in Addresses \cup {NoAddress} : a = Address(b)
          BY <3>3 DEF AddressTexts
        <4>2. d = [new EXCEPT !.text = Address(b)]
          BY <1>4, <2>5, <4>1 DEF ApplyDiscoveredDevices
        <4> QED
          BY <2>2, <4>1, <4>2, TypeAddress
      <3> QED
        BY <3>2, <3>3
    <2> QED
      BY <2>3, <2>4, <2>5
  <1> QED
    BY <1>3, <1>4

\* The list with the entry of a connected device.
LEMMA EntryOfConnected ==
    ASSUME NEW c, ComboOK(c), NEW a \in Addresses,
           NEW items \in Seq(Entry), Len(items) >= Len(c.items), NEW i \in DOMAIN items,
           items[i] = Item("connected", a),
           \A j \in DOMAIN items \ {i} : j \in DOMAIN c.items /\ items[j] = c.items[j]
    PROVE  LET d == SetCurrentIndex([c EXCEPT !.items = items], i)
           IN  ComboOK(d) /\ IpAddress(d) = Address(a)
  <1> DEFINE b == [c EXCEPT !.items = items]
  <1>1. b = [items |-> items, index |-> c.index, text |-> c.text]
    BY ComboFacts
  <1>2. items[i].data = Address(a) /\ items[i].text = Named("connected", a)
    BY DEF Item
  <1>3. items[i].data # Empty /\ items[i].text.form # "address"
    BY <1>2, AddressFacts, DeviceAssumption DEF Named
  <1>4. ASSUME NEW j \in DOMAIN items
        PROVE  items[j].data = Empty <=> items[j].text.form = "address"
    BY <1>3 DEF ComboOK
  <1>5. ComboOK(b)
    BY <1>1, <1>4, ComboFacts DEF ComboOK
  <1> QED
    BY <1>1, <1>2, <1>3, <1>5, SelectEntry

\* Showing a connection makes the list stand for it.
LEMMA ConnectionOnList ==
    ASSUME NEW c, ComboOK(c), NEW a \in Addresses
    PROVE  /\ ComboOK(ShowConnected(c, a))
           /\ IpAddress(ShowConnected(c, a)) = Address(a)
  <1> DEFINE item == Item("connected", a)
  <1>1. item \in Entry
    BY AddressFacts DEF Item, Entry, Named, Text
  <1>2. CASE HasData(c, Address(a))
    <2> DEFINE i == FindData(c, Address(a))
               items == [c.items EXCEPT ![i] = item]
    <2>1. i \in DOMAIN c.items
      BY <1>2, FindDataFinds
    <2>2. items \in Seq(Entry) /\ DOMAIN items = DOMAIN c.items /\ Len(items) = Len(c.items)
      BY <1>1, <2>1, ComboFacts
    <2>3. /\ items[i] = item
          /\ \A j \in DOMAIN items \ {i} : j \in DOMAIN c.items /\ items[j] = c.items[j]
      BY <2>1, <2>2, ComboFacts
    <2>4. ShowConnected(c, a) = SetCurrentIndex([c EXCEPT !.items = items], i)
      BY <1>2, ComboFacts DEF ShowConnected
    <2>5. i \in DOMAIN items /\ Len(items) >= Len(c.items)
      BY <2>1, <2>2, ComboFacts
    <2> HIDE DEF items, i
    <2> QED
      BY <2>2, <2>3, <2>4, <2>5, EntryOfConnected
  <1>3. CASE ~HasData(c, Address(a))
    <2> DEFINE i == Len(c.items) + 1
               items == Append(c.items, item)
    <2>1. items \in Seq(Entry) /\ Len(items) = i /\ DOMAIN items = 1..i
      BY <1>1, ComboFacts
    <2>2. items[i] = item
      BY ComboFacts
    <2>3. ASSUME NEW j \in DOMAIN items \ {i}
          PROVE  j \in DOMAIN c.items /\ items[j] = c.items[j]
      BY <2>1, ComboFacts
    <2>4. ShowConnected(c, a) = SetCurrentIndex([c EXCEPT !.items = items], i)
      BY <1>3, ComboFacts DEF ShowConnected
    <2>5. i \in DOMAIN items /\ Len(items) >= Len(c.items)
      BY <2>1, ComboFacts
    <2> HIDE DEF items, i
    <2> QED
      BY <2>1, <2>2, <2>3, <2>4, <2>5, EntryOfConnected
  <1> QED
    BY <1>2, <1>3
-----------------------------------------------------------------------------
(* The steps.                                                              *)

\* IInv holds initially.
LEMMA InitInv == Init => IInv
  <1> SUFFICES ASSUME Init
               PROVE  IInv
    OBVIOUS
  <1>1. Empty \in Text /\ Empty \in AddressTexts
    BY AddressFacts DEF Empty
  <1>2. ComboOK(combo)
    BY <1>1 DEF Init, ComboOK, EmptyCombo
  <1> QED
    BY <1>1, <1>2 DEF Init, IInv, TypeOK, ConnectionInv, ChoiceKept, OpensTheChosen, ConnectedIsShown

\* A step that changes only the list, while it can be edited, and what was chosen.
LEMMA EditSteps ==
    ASSUME IInv, Editable, ComboOK(combo'), chosen' \in AddressTexts,
           chosen' # Empty => IpAddress(combo') = chosen',
           UNCHANGED <<discovering, connection, target, opened>>
    PROVE  IInv'
  BY DEF IInv, TypeOK, ConnectionInv, ChoiceKept, OpensTheChosen, ConnectedIsShown, Editable, Empty

\* Every step keeps IInv.
LEMMA StepInv == IInv /\ [Next]_vars => IInv'
  <1> SUFFICES ASSUME IInv, [Next]_vars
               PROVE  IInv'
    OBVIOUS
  <1> USE DEF IInv, TypeOK
  <1>1. CASE Edit
    BY <1>1, TypeAddress, AddressFacts, EditSteps DEF Edit
  <1>2. CASE Select
    BY <1>2, SelectEntry, EditSteps DEF Select, Choose
  <1>3. CASE Enter
    <2> DEFINE e == [text |-> combo.text, data |-> Empty]
               items == Append(combo.items, e)
               i == Len(combo.items) + 1
    <2>1. e \in Entry
      BY ComboFacts, AddressFacts DEF Entry
    <2>2. items \in Seq(Entry) /\ Len(items) = i /\ DOMAIN items = 1..i /\ items[i] = e
      BY <2>1, ComboFacts
    <2>3. \A j \in DOMAIN items \ {i} : j \in DOMAIN combo.items /\ items[j] = combo.items[j]
      BY <2>2, ComboFacts
    <2>4. combo' = [items |-> items, index |-> i, text |-> combo.text]
      BY <1>3, <2>2, ComboFacts DEF Enter
    <2>5. ComboOK(combo')
      <3>1. ASSUME NEW j \in DOMAIN items
            PROVE  items[j].data = Empty <=> items[j].text.form = "address"
        BY <1>3, <2>2, <2>3 DEF Enter, ComboOK
      <3>2. items \in Seq(Entry) /\ i \in Nat /\ i \in 0..Len(items) /\ combo.text \in Text
        BY <2>2, ComboFacts
      <3> HIDE DEF items, i
      <3> QED
        BY <2>4, <3>1, <3>2 DEF ComboOK
    <2>6. chosen # Empty => IpAddress(combo') = chosen
      <3>1. IpAddress(combo') = combo.text
        BY <2>2, <2>4, ComboFacts DEF IpAddress
      <3>2. IpAddress(combo) = combo.text
        BY <1>3, ComboFacts DEF IpAddress, Enter, ComboOK
      <3> QED
        BY <3>1, <3>2 DEF ChoiceKept
    <2> QED
      BY <1>3, <2>5, <2>6, EditSteps DEF Enter
  <1>4. CASE SetIpAddress
    BY <1>4, FindDataFinds, SelectEntry, TypeAddress, AddressFacts, EditSteps
       DEF SetIpAddress, Choose
  <1>5. CASE SetDiscoveredDevices
    BY <1>5, AddressSurvives, EditSteps DEF SetDiscoveredDevices, ChoiceKept
  <1>6. CASE RefreshClicked
    BY <1>6 DEF RefreshClicked, ConnectionInv, ChoiceKept, OpensTheChosen, ConnectedIsShown
  <1>7. CASE DiscoverFinished
    BY <1>7, AddressSurvives
       DEF DiscoverFinished, ConnectionInv, ChoiceKept, OpensTheChosen, ConnectedIsShown
  <1>8. CASE ConnectToggled
    BY <1>8, IpAddressType
       DEF ConnectToggled, ConnectionInv, ChoiceKept, OpensTheChosen, ConnectedIsShown
  <1>9. CASE OpenSucceeds
    <2>1. opened' \in Addresses
      BY <1>9, DeviceAssumption DEF OpenSucceeds, ResolveTarget
    <2>2. target = Empty => opened' \in Local \ Classic
      BY <1>9, DeviceAssumption DEF OpenSucceeds, ResolveTarget, Answers, Standard
    <2>3. target # Empty => Address(opened') = target
      BY <1>9 DEF OpenSucceeds, ResolveTarget
    <2> QED
      BY <1>9, <2>1, <2>2, <2>3, DeviceAssumption
         DEF OpenSucceeds, ConnectionInv, ChoiceKept, OpensTheChosen, ConnectedIsShown
  <1>10. CASE OpenFails
    BY <1>10 DEF OpenFails, ConnectionInv, ChoiceKept, OpensTheChosen, ConnectedIsShown
  <1>11. CASE ApplyConnectionState
    <2>1. opened \in Addresses
      BY <1>11 DEF ApplyConnectionState, ConnectionInv
    <2> QED
      BY <1>11, <2>1, ConnectionOnList
         DEF ApplyConnectionState, ConnectionInv, ChoiceKept, OpensTheChosen, ConnectedIsShown
  <1>12. CASE CloseEnds
    BY <1>12 DEF CloseEnds, ConnectionInv, ChoiceKept, OpensTheChosen, ConnectedIsShown
  <1>13. CASE UNCHANGED vars
    BY <1>13 DEF vars, ConnectionInv, ChoiceKept, OpensTheChosen, ConnectedIsShown
  <1> QED
    BY <1>1, <1>2, <1>3, <1>4, <1>5, <1>6, <1>7, <1>8, <1>9, <1>10, <1>11, <1>12, <1>13 DEF Next

\* The strengthening is an invariant.
LEMMA Invariance == Spec => []IInv
  BY InitInv, StepInv, PTL DEF Spec

\* TypeOK: the list and the address that open() is given are what they should be.
THEOREM TypeCorrect == Spec => []TypeOK
  BY Invariance, PTL DEF IInv

\* ChoiceKept: no discovery, however it ends, loses the address the user has chosen.
THEOREM ChoiceSurvives == Spec => []ChoiceKept
  BY Invariance, PTL DEF IInv

\* OpensTheChosen: a connection is to the device that was chosen.
THEOREM ChosenIsOpened == Spec => []OpensTheChosen
  BY Invariance, PTL DEF IInv

\* ConnectedIsShown: the list stands for the device that is connected.
THEOREM OpenedIsShown == Spec => []ConnectedIsShown
  BY Invariance, PTL DEF IInv
=============================================================================
