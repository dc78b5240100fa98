CONSTANTS
    Files = {"one.js", "two.js"}
    Tools <- MCTools
    Names <- MCNames
    NameOf <- MCNameOf
    HelperOf <- MCHelperOf
    Direct <- MCDirect
    Holds <- MCHolds
    MaxWrites <- MCMaxWrites
CHECK_DEADLOCK FALSE
SPECIFICATION FairSpec
INVARIANTS TypeOK NoOrphanTool ClashOnlyFromStart InStep
PROPERTIES ClosedIsQuiet Converges
