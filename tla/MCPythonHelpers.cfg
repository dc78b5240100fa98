\* Calls that follow the advertised schema, while the registry changes.
CONSTANTS
    Null = Null
    Words <- MCWords
    Registries <- MCRegistries
    Rebound = {"asyncio", "Any", "Callable", "Coroutine", "Iterable", "Sequence"}
    LookedUp = {"json", "sys", "isinstance", "globals", "dict", "list", "str"}
SPECIFICATION Spec
INVARIANTS
    TypeOK
    CallArrives
