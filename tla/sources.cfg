SPECIFICATION Spec
CONSTANTS
    p1 = p1
    p2 = p2
    cli = cli
    bare = bare
    newHook = newHook
    oldHook = oldHook
    Proc = {p1, p2}
    Source = {cli, bare}
    Hooked = {cli}
    Own = Own
    Cmd = {newHook, oldHook}
    HookOf <- Hooks
    Command <- Commands
    MaxFaults = 2
    None = None
    Missing = Missing
    Torn = Torn
    Plain = Plain
INVARIANTS TypeOK RecoveryPath NoHollowConnection
PROPERTIES OnlyOwnFlag OutcomesAreTrue
CHECK_DEADLOCK FALSE
