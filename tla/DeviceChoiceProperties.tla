------------------------ MODULE DeviceChoiceProperties ------------------------
(***************************************************************************)
(* What the user who has chosen a device may expect.                       *)
(***************************************************************************)
EXTENDS DeviceChoice

AddressTexts == {Address(a) : a \in Addresses \cup {NoAddress}}

Entry == [text : Text, data : AddressTexts]

\* An entry has an address, or reads like one, and not both: what the user types is
\* never taken for the name of a device.
ComboOK(c) ==
    /\ c \in [items : Seq(Entry), index : Nat, text : Text]
    /\ c.index \in 0..Len(c.items)
    /\ \A i \in DOMAIN c.items : c.items[i].data = Empty <=> c.items[i].text.form = "address"

\* Type correctness.
TypeOK ==
    /\ ComboOK(combo)
    /\ discovering \in BOOLEAN
    /\ connection \in {"none", "opening", "opened", "shown", "closing"}
    /\ target \in Text /\ chosen \in AddressTexts
    /\ opened \in Addresses \cup {NoAddress}

\* A device that was chosen stays chosen through discoveries, whenever they end and
\* whatever they find, failed attempts and connections (QGocatorWidget.cpp:274-304,
\* 421-443).
ChoiceKept == chosen # Empty => IpAddress(combo) = chosen

\* "Use a manually edited IP address for connection attempts instead of stale
\* discovered-device selection data" (RELEASE_NOTE.md:73): what is opened is what was
\* last edited or selected; and when open() is given no address it is a device that
\* standard discovery finds and that can be connected locally.
OpensTheChosen ==
    opened # NoAddress =>
        /\ chosen # Empty => Address(opened) = chosen
        /\ target = Empty => opened \in Local \ Classic

\* While it is connected the list stands for the device that is connected, so that
\* the next connection is to the same one (QGocatorWidget.cpp:421-443).
ConnectedIsShown == connection = "shown" => IpAddress(combo) = Address(opened)
=============================================================================
