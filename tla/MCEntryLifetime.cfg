SPECIFICATION Spec
CONSTANTS
    f1 = f1
    f2 = f2
    Accounts = {a1}
    Flows <- MCFlows
    Promoted = {"last_seen"}
    Optional = {"hostname"}
    Old = Old
    NoEntry = NoEntry
SYMMETRY Symmetry
INVARIANTS
    UserChoiceKept
PROPERTIES
    EntriesAreKept
