----------------------------- MODULE Derivation -----------------------------
(***************************************************************************)
(* Derived loggers of logger.go: With, WithContext and AddHook, and the    *)
(* attributes a record of a derived logger carries.                        *)
(*                                                                         *)
(* A logger has its attributes twice: in its handler chain, where slog put *)
(* them, and as the arguments of With, from which AddHook builds the chain *)
(* anew.  Those arguments are a Go slice: a length over an array that      *)
(* other loggers may share.  An argument is a string, which can be a key,  *)
(* a slog.Attr, which has a key and a value already, or another value.     *)
(*                                                                         *)
(* Handler() gives the chain away, as a slog.Handler; WithAttrs and        *)
(* WithGroup derive handlers from it, which no method of a logger derives  *)
(* from any more.  FastHandler writes a key behind the names of the groups *)
(* it was added in, with dots between them: such a prefix is here the      *)
(* sequence of those names, the empty one among them.                      *)
(***************************************************************************)
EXTENDS Integers, Sequences, FiniteSets, SequencesExt

CONSTANTS
    Strings,       \* arguments that are strings
    Values,        \* arguments that are neither strings nor a slog.Attr
    Attributes,    \* arguments that are a slog.Attr: key and value
    ContextNames,  \* contextKeys: a sequence of strings
    ContextValue,  \* what a context holds under any of them
    MissingValue, BadKey,  \* "<missing-value>"; slog's "!BADKEY"
    WithArgs,      \* argument lists given to With and WithAttrs
    Groups, Empty, \* names given to WithGroup; the empty string
    MaxLoggers     \* bound: loggers derived, the first one included

Unused == [unused |-> TRUE]    \* a cell of an array that holds nothing yet
Args   == Strings \cup Values \cup Attributes \cup {ContextValue, MissingValue}
Names  == ToSet(ContextNames)

ASSUME NameAssumption  == ContextNames \in Seq(Strings) /\ MissingValue \in Strings
ASSUME ArgsAssumption  == /\ WithArgs \subseteq Seq(Strings \cup Values \cup Attributes)
                          /\ Attributes \subseteq [key : Strings, value : Strings \cup Values]
ASSUME GroupAssumption == Empty \notin Groups
ASSUME LoggersAssumption == MaxLoggers \in Nat

VARIABLES
    loggers,  \* every logger and handler derived so far
    arrays    \* arrays behind their withArgs

loggerVars == <<loggers, arrays>>

-----------------------------------------------------------------------------
(* Slices *)

Elems(s) == SubSeq(arrays[s.array], 1, s.len)
Grown(seq, cap) == seq \o [i \in 1 .. cap - Len(seq) |-> Unused]

\* Fault: append in place, which writes into a shared array that has room.
AppendInPlace(s, pairs) ==
    LET old == arrays[s.array]
        all == Elems(s) \o pairs
        cap == IF Len(all) > 2 * Len(old) THEN Len(all) ELSE 2 * Len(old)
    IN  IF pairs = <<>> THEN [slice |-> s, arrays |-> arrays]
        ELSE IF Len(all) <= Len(old)
        THEN [slice  |-> [s EXCEPT !.len = Len(all)],
              arrays |-> [arrays EXCEPT ![s.array] = all \o SubSeq(old, Len(all) + 1, Len(old))]]
        ELSE [slice  |-> [array |-> Len(arrays) + 1, len |-> Len(all)],
              arrays |-> Append(arrays, Grown(all, cap))]

\* appendWithArgs: the result has an array of its own.
appendWithArgs(s, pairs) ==
    IF pairs = <<>> THEN [slice |-> s, arrays |-> arrays]
    ELSE LET all == Elems(s) \o pairs
         IN  [slice |-> [array |-> Len(arrays) + 1, len |-> Len(all)], arrays |-> Append(arrays, all)]

-----------------------------------------------------------------------------
(* Arguments and attributes *)

safeArgs(args) == IF Len(args) % 2 = 0 THEN args ELSE Append(args, MissingValue)

\* fmt.Sprint of an argument, used as a key.
Sprint(a) == IF a \in Strings THEN a ELSE [printed |-> a]

\* argsToAttrs: every second argument is a key.
argsToAttrs(args) ==
    LET safe == safeArgs(args)
    IN  [i \in 1 .. Len(safe) \div 2 |-> [key |-> Sprint(safe[2 * i - 1]), value |-> safe[2 * i]]]

\* slog's own reading: an argument in the place of a key counts alone when it is
\* no string, or the last one.
Lone(a) == IF a \in Attributes THEN a ELSE [key |-> BadKey, value |-> a]

SlogAttrs(args) ==
    LET from[i \in 1 .. Len(args) + 1] ==
            IF i > Len(args) THEN <<>>
            ELSE IF args[i] \in Strings /\ i < Len(args)
            THEN <<[key |-> args[i], value |-> args[i + 1]]>> \o from[i + 2]
            ELSE <<Lone(args[i])>> \o from[i + 1]
    IN  from[1]

\* The elements of seq that are in S, in their order.
Only(seq, S) ==
    LET upTo[i \in 0 .. Len(seq)] ==
            IF i = 0 THEN <<>> ELSE IF seq[i] \in S THEN Append(upTo[i - 1], seq[i]) ELSE upTo[i - 1]
    IN  upTo[Len(seq)]

\* The arguments in the place of a key.
AtKeys(pairs) == [i \in 1 .. (Len(pairs) + 1) \div 2 |-> pairs[2 * i - 1]]

\* Fault: the keys of the parent are lost.
mergePreKeysForgetful(base, pairs) == Only(AtKeys(pairs), Strings)

mergePreKeys(base, pairs) == base \o Only(AtKeys(pairs), Strings)

\* extractContextInfo, for a context that holds values under these names.
extractContextInfo(names) ==
    LET found == Only(ContextNames, names)
    IN  [i \in 1 .. 2 * Len(found) |-> IF i % 2 = 1 THEN found[(i + 1) \div 2] ELSE ContextValue]

\* What is left of the attributes of a call.
dropPreKeys(attrs, pre) == Only(attrs, {a \in ToSet(attrs) : a.key \notin ToSet(pre)})

\* joinGroups, with the dot behind it: a name that is empty adds a dot, but
\* at the beginning.
joinGroups(groups) == SubSeq(groups, SelectInSeq(groups, LAMBDA g : g # Empty), Len(groups))

Prefix(l) == IF l.groups = <<>> THEN <<>> ELSE joinGroups(l.groups)

\* Attributes added to l; the groups it is in are their history.
Added(l, attrs) ==
    [i \in 1 .. Len(attrs) |->
        [key |-> attrs[i].key, value |-> attrs[i].value, prefix |-> Prefix(l), in |-> l.opened]]

\* The attributes of a record: those of the chain, then those of the call, here
\* what a context holds; slog.New(handler) hands on all of these.
Output(l, names) ==
    LET given == SlogAttrs(extractContextInfo(names))
    IN  l.attrs \o Added(l, IF l.handler THEN given ELSE dropPreKeys(given, l.preAttrKeys))

-----------------------------------------------------------------------------
(* Operations *)

\* handler: it has been given away; opened: history, the groups as WithGroup
\* was called.
Root == [attrs |-> <<>>, withArgs |-> [array |-> 1, len |-> 0], preAttrKeys |-> <<>>, hooks |-> 0,
         handler |-> FALSE, groups |-> <<>>, opened |-> <<>>]

LoggersInit == loggers = <<Root>> /\ arrays = << <<>> >>

\* What With and WithContext share.
Derive(l, args) ==
    LET appended == appendWithArgs(l.withArgs, args)
    IN  /\ loggers' = Append(loggers, [l EXCEPT !.attrs = @ \o Added(l, SlogAttrs(safeArgs(args))),
                                                !.withArgs = appended.slice,
                                                !.preAttrKeys = mergePreKeys(@, args)])
        /\ arrays' = appended.arrays

With(l) == \E args \in WithArgs : Derive(l, args)

\* A context without values gives the logger itself.
WithContext(l) == \E names \in SUBSET Names \ {{}} : Derive(l, extractContextInfo(names))

\* Fault: the arguments of With are not handed on.
AddHookForgetsArgs(l) ==
    /\ loggers' = Append(loggers, [l EXCEPT !.attrs = <<>>, !.hooks = @ + 1])
    /\ UNCHANGED arrays

\* AddHook builds the chain anew, with the attributes replayed.
AddHook(l) ==
    /\ loggers' = Append(loggers, [l EXCEPT !.attrs = Added(l, argsToAttrs(Elems(l.withArgs))), !.hooks = @ + 1])
    /\ UNCHANGED arrays

\* WithAttrs of the handler; keys the logger knows are not told of it.
WithAttrs(l) ==
    /\ \E args \in WithArgs \ {<<>>} :
           loggers' = Append(loggers, [l EXCEPT !.attrs = @ \o Added(l, SlogAttrs(args)), !.handler = TRUE])
    /\ UNCHANGED arrays

\* Fault: the attributes the handler has move into the group.
WithGroupMoves(l) ==
    /\ \E name \in Groups :
           LET inside == [l EXCEPT !.groups = @ \o <<Empty, name>>, !.opened = Append(@, name), !.handler = TRUE]
           IN  loggers' = Append(loggers,
                   [inside EXCEPT !.attrs = [i \in DOMAIN @ |-> [@[i] EXCEPT !.prefix = Prefix(inside)]]])
    /\ UNCHANGED arrays

\* WithGroup of the handler: the new slice is made with room for the name,
\* which stays empty, for the name is appended.
WithGroup(l) ==
    /\ \E name \in Groups :
           loggers' = Append(loggers, [l EXCEPT !.groups = @ \o <<Empty, name>>, !.opened = Append(@, name),
                                                !.handler = TRUE])
    /\ UNCHANGED arrays

OfLogger(l)  == ~l.handler /\ (With(l) \/ WithContext(l) \/ AddHook(l))
OfHandler(l) == WithAttrs(l) \/ WithGroup(l)

LoggersNext ==
    /\ Len(loggers) < MaxLoggers
    /\ \E i \in 1 .. Len(loggers) : OfLogger(loggers[i]) \/ OfHandler(loggers[i])

LoggersSpec == LoggersInit /\ [][LoggersNext]_loggerVars

-----------------------------------------------------------------------------
(* Properties *)

\* A chain built anew would carry the attributes the chain has: after any
\* derivations, AddHook changes no attribute of any logger it is called on.
ReplayIsFaithful ==
    \A i \in 1 .. Len(loggers) :
        ~loggers[i].handler => Added(Root, argsToAttrs(Elems(loggers[i].withArgs))) = loggers[i].attrs

\* No derivation changes a logger that exists, not even through an array its
\* withArgs share with a sibling (logger.go:1423).
SiblingsApart ==
    [][\A i \in 1 .. Len(loggers) :
          LET s == loggers[i].withArgs
          IN  loggers'[i] = loggers[i] /\ SubSeq(arrays'[s.array], 1, s.len) = Elems(s)]_loggerVars

\* A field that a call takes from its context is not output again when the
\* logger, or one it was derived from, carries its key (logger.go:1239, 1313).
PresetKeysWin ==
    \A i \in 1 .. Len(loggers), names \in SUBSET Names :
        LET own == loggers[i].attrs
            all == Output(loggers[i], names)
        IN  ~loggers[i].handler =>
                \A j \in 1 .. Len(own), k \in Len(own) + 1 .. Len(all) : own[j].key # all[k].key

\* A key is output behind the groups its attribute was added in, outermost
\* first, whatever groups were opened later; behind one group that is its name
\* and a dot (README.md:496, fast_handler.go:137).
GroupsInKeys ==
    \A i \in 1 .. Len(loggers), names \in SUBSET Names :
        LET all == Output(loggers[i], names)
        IN  \A j \in 1 .. Len(all) :
                /\ Only(all[j].prefix, Groups) = all[j].in
                /\ Len(all[j].in) = 1 => all[j].prefix = all[j].in

-----------------------------------------------------------------------------
(* What does not hold *)

\* Nested groups are a prefix with a dot behind each name.
NestedGroupsFlatten ==
    \A i \in 1 .. Len(loggers) : \A j \in 1 .. Len(loggers[i].attrs) :
        loggers[i].attrs[j].prefix = loggers[i].attrs[j].in

\* A record carries each key at most once.
KeysAreUnique ==
    \A i \in 1 .. Len(loggers), names \in SUBSET Names :
        LET all == Output(loggers[i], names)
        IN  \A j, k \in 1 .. Len(all) : j # k => all[j].key # all[k].key

=============================================================================
