SPECIFICATION Spec
CONSTANTS
    Addresses = {a, b, c}
    Local = {a, b}
    Classic = {c}
    DefaultAddress = a
    NoAddress = noAddress
    MaxItems = 2
INVARIANTS
    ChoiceKept
    OpensTheChosen
    ConnectedIsShown
