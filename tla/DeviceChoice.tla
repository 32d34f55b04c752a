----------------------------- MODULE DeviceChoice -----------------------------
(***************************************************************************)
(* Which device the widget connects to.  The editable list of devices of   *)
(* QGocatorWidget is filled by discoveries, edited by the user, replaced   *)
(* when a discovery that runs meanwhile ends, and changed when a           *)
(* connection is shown; open() is given the address it stands for, or      *)
(* looks for a device itself when there is none.  The buttons are as       *)
(* ControlWidget leaves them when nothing is pending: the list cannot be   *)
(* edited while the facade is opened, open or closed, but can be while a   *)
(* discovery runs.                                                         *)
(***************************************************************************)
EXTENDS Naturals, Sequences

CONSTANTS
    Addresses,          \* IP addresses
    Local,              \* of the devices that can be connected locally
    Classic,            \* of the devices that only a classic discovery finds
    DefaultAddress,     \* 192.168.1.10
    NoAddress,
    MaxItems            \* devices that answer, entries to which the user adds one

ASSUME DeviceAssumption ==
    /\ Local \subseteq Addresses /\ Classic \subseteq Addresses
    /\ DefaultAddress \in Addresses /\ NoAddress \notin Addresses
    /\ MaxItems \in Nat

VARIABLES
    combo,          \* _ipCombo: items, current index (0: none) and edited text
    discovering,    \* _discoverWatcher runs
    connection,     \* what _connectWatcher does, and whether the end was shown
    target,         \* the address given to open()
    opened,         \* the address the facade is connected to
    chosen          \* history: the address that the user or the host last put there

vars == <<combo, discovering, connection, target, opened, chosen>>

\* A text of the list: an address, or the name that formatDeviceName() makes of a
\* device when it was discovered or when it is connected.
Text == [form : {"address", "discovered", "connected"}, of : Addresses \cup {NoAddress}]

Named(form, a) == [form |-> form, of |-> a]
Address(a) == Named("address", a)
Empty == Address(NoAddress)

Item(form, a) == [text |-> Named(form, a), data |-> Address(a)]

EmptyCombo == [items |-> << >>, index |-> 0, text |-> Empty]

Init ==
    /\ combo = EmptyCombo
    /\ discovering = FALSE
    /\ connection = "none" /\ target = Empty /\ opened = NoAddress
    /\ chosen = Empty

-----------------------------------------------------------------------------
(* The list.                                                               *)

SetCurrentIndex(c, i) == [items |-> c.items, index |-> i, text |-> c.items[i].text]

HasData(c, a) == \E i \in DOMAIN c.items : c.items[i].data = a

\* No two entries have the same address.
FindData(c, a) == CHOOSE i \in DOMAIN c.items : c.items[i].data = a

\* Mutant: before v0.1.1, the selection and not the edited text.
IpAddressSelected(c) == IF c.index > 0 THEN c.items[c.index].data ELSE c.text

\* ipAddress().
IpAddress(c) ==
    IF /\ c.index > 0
       /\ c.text = c.items[c.index].text
       /\ c.items[c.index].data # Empty
      THEN c.items[c.index].data
      ELSE c.text

\* A list of devices, the first of which is current.
Listed(devices) ==
    [items |-> [i \in DOMAIN devices |-> Item("discovered", devices[i])],
     index |-> 1, text |-> Named("discovered", devices[1])]

\* Mutant: the address is not kept.
ApplyDiscoveredDevicesFirst(c, devices) ==
    IF devices = << >> THEN [EmptyCombo EXCEPT !.text = Address(DefaultAddress)] ELSE Listed(devices)

\* applyDiscoveredDevices(): the address stays, listed or not.
ApplyDiscoveredDevices(c, devices) ==
    LET current == IpAddress(c)
        new == Listed(devices)
    IN  IF devices = << >>
          THEN [EmptyCombo EXCEPT !.text = IF current = Empty THEN Address(DefaultAddress) ELSE current]
          ELSE IF current = Empty THEN new
          ELSE IF HasData(new, current) THEN SetCurrentIndex(new, FindData(new, current))
          ELSE [new EXCEPT !.text = current]

\* Mutant: the entry that is there is not selected.
ShowConnectedBeside(c, a) ==
    IF HasData(c, Address(a)) THEN [c EXCEPT !.items[FindData(c, Address(a))] = Item("connected", a)]
    ELSE SetCurrentIndex([c EXCEPT !.items = Append(@, Item("connected", a))], Len(c.items) + 1)

\* applyConnectionState(true): the entry of the device is renamed, or added.
ShowConnected(c, a) ==
    LET i == FindData(c, Address(a))
    IN  IF HasData(c, Address(a)) THEN SetCurrentIndex([c EXCEPT !.items[i] = Item("connected", a)], i)
        ELSE SetCurrentIndex([c EXCEPT !.items = Append(@, Item("connected", a))], Len(c.items) + 1)

-----------------------------------------------------------------------------
(* Discovery.                                                              *)

\* The answers of the devices in a set that come in time, in any order.
Answers(devices) ==
    {s \in UNION {[1..n -> devices] : n \in 0..MaxItems} :
        \A i, j \in DOMAIN s : s[i] = s[j] => i = j}

Standard == Addresses \ Classic

\* discoverDevices(): a classic discovery when the standard one finds nothing; nothing
\* when either throws.
DiscoverDevices == Answers(Standard) \cup Answers(Classic)

\* resolveTarget(): the addresses that open() may connect to, none if it throws.
ResolveTarget(text) ==
    IF text # Empty THEN {a \in Addresses : text = Address(a)}
    ELSE {a \in Local : \E s \in Answers(Standard) : \E i \in DOMAIN s :
              s[i] = a /\ \A j \in 1..(i - 1) : s[j] \notin Local}

-----------------------------------------------------------------------------
(* The user and the host.                                                  *)

Editable == connection = "none"

\* A choice c of the user.
Choose(c) ==
    /\ combo' = c
    /\ chosen' = IpAddress(c)
    /\ UNCHANGED <<discovering, connection, target, opened>>

Edit ==
    /\ Editable
    /\ \E a \in Addresses \cup {NoAddress} :
          /\ combo' = [combo EXCEPT !.text = Address(a)]
          /\ chosen' = Address(a)
          /\ UNCHANGED <<discovering, connection, target, opened>>

Select ==
    /\ Editable
    /\ \E i \in DOMAIN combo.items : Choose(SetCurrentIndex(combo, i))

\* Return, in the edited text: Qt appends it to the list.
Enter ==
    /\ Editable
    /\ combo.text.form = "address" /\ combo.text # Empty
    /\ \A i \in DOMAIN combo.items : combo.items[i].text # combo.text
    /\ Len(combo.items) < MaxItems
    /\ combo' = [items |-> Append(combo.items, [text |-> combo.text, data |-> Empty]),
                 index |-> Len(combo.items) + 1, text |-> combo.text]
    /\ UNCHANGED <<discovering, connection, target, opened, chosen>>

\* setIpAddress(), by the host.
SetIpAddress ==
    /\ Editable
    /\ \E a \in Addresses :
          IF HasData(combo, Address(a)) THEN Choose(SetCurrentIndex(combo, FindData(combo, Address(a))))
          ELSE Choose([combo EXCEPT !.text = Address(a)])

\* setDiscoveredDevices(), by the session with what its plugin has discovered.
SetDiscoveredDevices ==
    /\ Editable
    /\ \E devices \in DiscoverDevices : combo' = ApplyDiscoveredDevices(combo, devices)
    /\ UNCHANGED <<discovering, connection, target, opened, chosen>>

RefreshClicked ==
    /\ connection = "none" /\ ~discovering
    /\ discovering' = TRUE
    /\ UNCHANGED <<combo, connection, target, opened, chosen>>

DiscoverFinished ==
    /\ discovering
    /\ discovering' = FALSE
    /\ \E devices \in DiscoverDevices : combo' = ApplyDiscoveredDevices(combo, devices)
    /\ UNCHANGED <<connection, target, opened, chosen>>

\* onConnectToggled().
ConnectToggled ==
    /\ ~discovering
    /\ \/ connection = "none" /\ connection' = "opening" /\ target' = IpAddress(combo)
       \/ connection = "shown" /\ connection' = "closing" /\ UNCHANGED target
    /\ UNCHANGED <<combo, discovering, opened, chosen>>

-----------------------------------------------------------------------------
(* open() and close(), on the pool, and what the widget makes of their end.*)

OpenSucceeds ==
    /\ connection = "opening"
    /\ opened' \in ResolveTarget(target)
    /\ connection' = "opened"
    /\ UNCHANGED <<combo, discovering, target, chosen>>

OpenFails ==
    /\ connection = "opening"
    /\ connection' = "none"
    /\ UNCHANGED <<combo, discovering, target, opened, chosen>>

\* For the notification, and once more for the end of open().
ApplyConnectionState ==
    /\ connection \in {"opened", "shown"}
    /\ combo' = ShowConnected(combo, opened)
    /\ connection' = "shown"
    /\ UNCHANGED <<discovering, target, opened, chosen>>

CloseEnds ==
    /\ connection = "closing"
    /\ connection' = "none" /\ opened' = NoAddress
    /\ UNCHANGED <<combo, discovering, target, chosen>>

Next ==
    \/ Edit \/ Select \/ Enter \/ SetIpAddress \/ SetDiscoveredDevices
    \/ RefreshClicked \/ DiscoverFinished \/ ConnectToggled
    \/ OpenSucceeds \/ OpenFails \/ ApplyConnectionState \/ CloseEnds

Spec == Init /\ [][Next]_vars
=============================================================================
