\* Derivation trees of up to five loggers.
SPECIFICATION LoggersSpec
CHECK_DEADLOCK FALSE
CONSTANTS
    Strings = {user, request, trace, missing}
    Values = {one}
    Attributes <- OneAttribute
    ContextValue = ctxvalue
    MissingValue = missing
    BadKey = badkey
    Groups = {outer, inner}
    Empty = empty
    user = user
    request = request
    trace = trace
    one = one
    ContextNames <- TwoNames
    WithArgs <- PairedArgs
    MaxLoggers = 5
INVARIANTS
    ReplayIsFaithful
    PresetKeysWin
    GroupsInKeys
PROPERTY
    SiblingsApart
