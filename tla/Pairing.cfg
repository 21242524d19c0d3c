\* Device a initiates, c joins, b may do both; two codes, which two initiators
\* may draw alike.  Units of five minutes, as in the code.
CONSTANTS
    Devices = {a, b, c}
    Initiators = {a, b}
    Joiners = {b, c}
    Codes = {x, y}
    Users = {"Initiate", "Join"}
    PairingTTL = 2
    PairingTimeout = 1
    MaxLost = 1
    Unreadable = Unreadable
    None = None
SYMMETRY CodesAlike
SPECIFICATION Spec
INVARIANTS TypeOK PairedIsMutual NoPartnerMissed SavedContactStays
CHECK_DEADLOCK FALSE
