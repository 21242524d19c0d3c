\* Two nodes that contend for one name, any call may fail; TTL and interval in
\* quarters of an hour, as in the code.  The safety properties are proved for any
\* number of nodes.
CONSTANTS
    RecordTTL = 4
    reannounceInterval = 3
    None = None
    Nodes = {a, b}
    Owners = {a, b}
    Lossy = TRUE
SPECIFICATION Spec
INVARIANTS TypeOK KeptUntilExpiry SendsOnlyWhatItServes NoCopyOutlivesRecord
PROPERTIES FreedAfterStop
