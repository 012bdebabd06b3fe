\* An argument list of odd length, before another one.
SPECIFICATION LoggersSpec
CHECK_DEADLOCK FALSE
CONSTANTS
    Strings = {user, request, trace, missing}
    Values = {one}
    Attributes <- OneAttribute
    ContextValue = ctxvalue
    MissingValue = missing
    BadKey = badkey
    Groups = {outer, inner}
    Empty = empty
    user = user
    request = request
    trace = trace
    one = one
    ContextNames <- TwoNames
    WithArgs <- OddArgs
    MaxLoggers = 3
INVARIANT
    ReplayIsFaithful
