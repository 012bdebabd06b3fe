--------------------------- MODULE NetworkWriter ---------------------------
(***************************************************************************)
(* The network outputs of logger.go.  networkWriter: one connection behind *)
(* an RWMutex, shared by the goroutines that write.  With async.enabled the*)
(* batchWriter lets one of them in at a time; in the synchronous mode every*)
(* caller of log() is one.  A Write takes the connection under the mutex   *)
(* and uses it without; connect() dials under the mutex.  httpWriter: every*)
(* attempt is a request of its own; here it is a connection that is closed *)
(* when its step is over, as resp.Body is.                                 *)
(*                                                                         *)
(* conn.Write returns nil when the kernel has taken the bytes.  A datagram *)
(* may still be lost, and with a TCP connection that breaks, or a remote   *)
(* side that is gone, whatever it had not read.  The model decides with the*)
(* Write whether what it gives away will get through.                      *)
(*                                                                         *)
(* The payload of a Write is a sequence of frames: lines over UDP, one     *)
(* frame over TCP and HTTP.  The network may refuse a dial, fail a send, or*)
(* stop reading; a request may fail, or be taken without an answer in time *)
(* or with one that is not 2xx.                                            *)
(***************************************************************************)
EXTENDS Integers, Sequences, FiniteSets

CONSTANTS
    Writers,      \* goroutines in Write
    Nobody,       \* the owner of a free mutex
    Retry,        \* log.network.retry
    Lines,        \* lines in one payload
    Types,        \* log.network.type: a subset of {"tcp", "udp", "http"}
    MaxWrites,    \* bound: Writes of each writer
    MaxFaults,    \* bound: refused dials, failed sends and requests
    MaxStalls     \* bound: times the remote side stops reading

ASSUME WriterAssumption == Nobody \notin Writers
ASSUME RetryAssumption  == Retry \in Nat
ASSUME FrameAssumption  == Lines \in Nat \ {0} /\ Types \subseteq {"tcp", "udp", "http"}
ASSUME BoundAssumption  == {MaxWrites, MaxFaults, MaxStalls} \subseteq Nat

Calls == Writers \X (1 .. MaxWrites)
Nil   == 0    \* no connection

VARIABLES
    connType,   \* networkWriter.connType
    conn,       \* networkWriter.conn: a position in socks, or Nil
    mu,         \* who holds the write lock
    socks,      \* every connection dialed: "open", "stalled", "broken", "closed"
    pc, calls, try, mine, written,   \* writers: locals of Write
    closer,     \* the goroutine in Close: "idle" or "done"
    faults, stalls,
    since,      \* history: faults before the current Write of each writer
    alone,      \* history: no other Write ran during the current one of each writer
    handed,     \* history: for each connection, the frames of each call given to it
    lost,       \* of these, where some do not get through, now or later: <<connection, call>>
    result      \* history: how each Write ended

writerVars == <<pc, calls, try, mine, written>>
vars == <<connType, conn, mu, socks, writerVars, closer, faults, stalls, since, alone, handed, lost, result>>

Call(w) == <<w, calls[w]>>

Goto(w, l) == pc' = [pc EXCEPT ![w] = l]

\* splitLineFrames: over UDP each line is a frame of its own.
Frames == IF connType = "udp" THEN Lines ELSE 1

Unsent == [c \in Calls |-> <<>>]

\* newNetworkWriter connected; newHTTPWriter does not.
Init ==
    /\ connType \in Types
    /\ mu = Nobody
    /\ IF connType = "http" THEN conn = Nil /\ socks = <<>> /\ handed = <<>>
                             ELSE conn = 1 /\ socks = <<"open">> /\ handed = <<Unsent>>
    /\ pc = [w \in Writers |-> "idle"]
    /\ calls = [w \in Writers |-> 0]
    /\ try = [w \in Writers |-> 0]
    /\ mine = [w \in Writers |-> Nil]
    /\ written = [w \in Writers |-> 0]
    /\ closer = "idle"
    /\ faults = 0
    /\ stalls = 0
    /\ since = [w \in Writers |-> 0]
    /\ alone = [w \in Writers |-> TRUE]
    /\ lost = {}
    /\ result = [c \in Calls |-> "none"]

MayFail == faults < MaxFaults /\ faults' = faults + 1

-----------------------------------------------------------------------------
(* connect: close the old connection, dial, store the new one *)

\* Fault: the old connection stays open.
LockConnectKeepsOld(w) ==
    /\ pc[w] \in {"connect", "reconnect"} /\ mu = Nobody
    /\ mu' = w
    /\ conn' = Nil
    /\ Goto(w, IF pc[w] = "connect" THEN "dial" ELSE "redial")
    /\ UNCHANGED <<connType, socks, calls, try, mine, written, closer, faults, stalls, since, alone, handed, lost, result>>

LockConnect(w) ==
    /\ pc[w] \in {"connect", "reconnect"} /\ mu = Nobody
    /\ mu' = w
    /\ conn' = Nil
    /\ socks' = [s \in DOMAIN socks |-> IF s = conn THEN "closed" ELSE socks[s]]
    /\ Goto(w, IF pc[w] = "connect" THEN "dial" ELSE "redial")
    /\ UNCHANGED <<connType, calls, try, mine, written, closer, faults, stalls, since, alone, handed, lost, result>>

\* How a round of the loop in Write begins.
Round == IF connType = "http" THEN "post" ELSE "load"

\* The next round of the loop, after a sleep; or the loop is over.
NextTry(w) ==
    IF try[w] < Retry
    THEN /\ try' = [try EXCEPT ![w] = @ + 1]
         /\ Goto(w, Round)
         /\ UNCHANGED result
    ELSE /\ result' = [result EXCEPT ![Call(w)] = "failed"]
         /\ Goto(w, "idle")
         /\ UNCHANGED try

DialOk(w) ==
    /\ pc[w] \in {"dial", "redial"}
    /\ socks' = Append(socks, "open")
    /\ handed' = Append(handed, Unsent)
    /\ conn' = Len(socks')
    /\ mu' = Nobody
    /\ IF pc[w] = "dial" THEN Goto(w, "reload") /\ UNCHANGED <<try, result>> ELSE NextTry(w)
    /\ UNCHANGED <<connType, calls, mine, written, closer, faults, stalls, since, alone, lost>>

\* Fault: connect returns its error with the mutex locked.
DialFailsLocked(w) ==
    /\ pc[w] \in {"dial", "redial"}
    /\ MayFail
    /\ NextTry(w)
    /\ UNCHANGED <<connType, conn, mu, socks, calls, mine, written, closer, stalls, since, alone, handed, lost>>

\* A refused dial leaves no connection; both callers go on to the next round.
DialFails(w) ==
    /\ pc[w] \in {"dial", "redial"}
    /\ MayFail
    /\ mu' = Nobody
    /\ NextTry(w)
    /\ UNCHANGED <<connType, conn, socks, calls, mine, written, closer, stalls, since, alone, handed, lost>>

-----------------------------------------------------------------------------
(* Write *)

WriteBegin(w) ==
    /\ pc[w] = "idle" /\ calls[w] < MaxWrites
    /\ calls' = [calls EXCEPT ![w] = @ + 1]
    /\ try' = [try EXCEPT ![w] = 0]
    /\ since' = [since EXCEPT ![w] = faults]
    /\ alone' = [v \in Writers |-> IF v = w THEN \A u \in Writers : pc[u] = "idle" ELSE alone[v] /\ pc[v] = "idle"]
    /\ Goto(w, Round)
    /\ UNCHANGED <<connType, conn, mu, socks, mine, written, closer, faults, stalls, handed, lost, result>>

\* Fault: what an earlier round has sent counts as sent.
LoadKeepsWritten(w) ==
    /\ pc[w] = "load" /\ mu = Nobody
    /\ mine' = [mine EXCEPT ![w] = conn]
    /\ Goto(w, IF conn = Nil THEN "connect" ELSE "send")
    /\ UNCHANGED <<connType, conn, mu, socks, calls, try, written, closer, faults, stalls, since, alone, handed, lost, result>>

\* A round begins with the connection of this moment, and the whole payload.
Load(w) ==
    /\ pc[w] = "load" /\ mu = Nobody
    /\ mine' = [mine EXCEPT ![w] = conn]
    /\ written' = [written EXCEPT ![w] = 0]
    /\ Goto(w, IF conn = Nil THEN "connect" ELSE "send")
    /\ UNCHANGED <<connType, conn, mu, socks, calls, try, closer, faults, stalls, since, alone, handed, lost, result>>

\* After its own connect: another goroutine may have closed that one again.
Reload(w) ==
    /\ pc[w] = "reload" /\ mu = Nobody
    /\ mine' = [mine EXCEPT ![w] = conn]
    /\ IF conn = Nil THEN NextTry(w) ELSE Goto(w, "send") /\ UNCHANGED <<try, result>>
    /\ UNCHANGED <<connType, conn, mu, socks, calls, written, closer, faults, stalls, since, alone, handed, lost>>

\* The frame gets through, or it does not; over TCP nothing does after a loss.
Transmits(s, c) ==
    \/ lost' = lost \cup {<<s, c>>}
    \/ lost' = lost /\ (connType = "tcp" => \A d \in Calls : <<s, d>> \notin lost)

\* conn.Write takes the next frame; with the last one the Write succeeds.
Send(w) ==
    /\ pc[w] = "send" /\ socks[mine[w]] = "open"
    /\ written' = [written EXCEPT ![w] = @ + 1]
    /\ handed' = [handed EXCEPT ![mine[w]][Call(w)] = Append(@, written'[w])]
    /\ Transmits(mine[w], Call(w))
    /\ IF written'[w] = Frames
       THEN Goto(w, "idle") /\ result' = [result EXCEPT ![Call(w)] = "ok"]
       ELSE UNCHANGED <<pc, result>>
    /\ UNCHANGED <<connType, conn, mu, socks, calls, try, mine, closer, faults, stalls, since, alone>>

\* Fault: the next round uses the connection that failed.
SendFailsNoReconnect(w) ==
    /\ pc[w] = "send"
    /\ \/ socks[mine[w]] \in {"closed", "broken"} /\ UNCHANGED <<faults, socks>>
       \/ /\ socks[mine[w]] \in {"open", "stalled"} /\ MayFail
          /\ socks' = IF connType = "udp" THEN socks ELSE [socks EXCEPT ![mine[w]] = "broken"]
    /\ NextTry(w)
    /\ UNCHANGED <<connType, conn, mu, calls, mine, written, closer, stalls, since, alone, handed, lost>>

\* conn.Write fails: the connection was closed by another goroutine, or the
\* network failed.  Then connect, unless this was the last round.
SendFails(w) ==
    /\ pc[w] = "send"
    /\ \/ socks[mine[w]] \in {"closed", "broken"} /\ UNCHANGED <<faults, socks>>
       \/ /\ socks[mine[w]] \in {"open", "stalled"} /\ MayFail
          /\ socks' = IF connType = "udp" THEN socks ELSE [socks EXCEPT ![mine[w]] = "broken"]
    /\ IF try[w] < Retry THEN Goto(w, "reconnect") /\ UNCHANGED <<try, result>> ELSE NextTry(w)
    /\ UNCHANGED <<connType, conn, mu, calls, mine, written, closer, stalls, since, alone, handed, lost>>

-----------------------------------------------------------------------------
(* Write of httpWriter: a request in each round *)

\* The server takes the payload.
Taken(w) ==
    /\ socks' = Append(socks, "closed")
    /\ handed' = Append(handed, [Unsent EXCEPT ![Call(w)] = <<1>>])

\* It answers 2xx in time.
PostOk(w) ==
    /\ pc[w] = "post"
    /\ Taken(w)
    /\ Goto(w, "idle")
    /\ result' = [result EXCEPT ![Call(w)] = "ok"]
    /\ UNCHANGED <<connType, conn, mu, calls, try, mine, written, closer, faults, stalls, since, alone, lost>>

\* It is not reached, does not answer in time, or refuses; it may have taken
\* the payload.
PostFails(w) ==
    /\ pc[w] = "post"
    /\ MayFail
    /\ Taken(w) \/ UNCHANGED <<socks, handed>>
    /\ NextTry(w)
    /\ UNCHANGED <<connType, conn, mu, calls, mine, written, closer, stalls, since, alone, lost>>

-----------------------------------------------------------------------------
(* Close, called once, by Sync; and the network *)

Close ==
    /\ closer = "idle" /\ mu = Nobody
    /\ closer' = "done"
    /\ conn' = Nil
    /\ socks' = [s \in DOMAIN socks |-> IF s = conn THEN "closed" ELSE socks[s]]
    /\ UNCHANGED <<connType, mu, writerVars, faults, stalls, since, alone, handed, lost, result>>

\* The remote side stops reading: a send blocks, for nobody set a deadline.
Stall ==
    /\ stalls < MaxStalls
    /\ stalls' = stalls + 1
    /\ \E s \in DOMAIN socks : socks[s] = "open" /\ socks' = [socks EXCEPT ![s] = "stalled"]
    /\ UNCHANGED <<connType, conn, mu, writerVars, closer, faults, since, alone, handed, lost, result>>

-----------------------------------------------------------------------------
(* Specification *)

Writer(w) == \/ WriteBegin(w) \/ Load(w) \/ Reload(w)
             \/ Send(w) \/ SendFails(w)
             \/ LockConnect(w) \/ DialOk(w) \/ DialFails(w)
             \/ PostOk(w) \/ PostFails(w)

Blocked(w) == pc[w] = "send" /\ socks[mine[w]] = "stalled"

\* All is done, but for sends nobody reads.
Finished ==
    /\ \A w \in Writers : Blocked(w) \/ (pc[w] = "idle" /\ calls[w] = MaxWrites)
    /\ closer = "done"
    /\ UNCHANGED vars

Next == \/ \E w \in Writers : Writer(w)
        \/ Close \/ Stall
        \/ Finished

Spec == Init /\ [][Next]_vars

\* A Write goes on as long as the network answers; the mutex starves nobody.
Fairness ==
    \A w \in Writers : SF_vars(pc[w] # "idle" /\ Writer(w))

FairSpec == Spec /\ Fairness

-----------------------------------------------------------------------------
(* Properties *)

\* Every variable keeps its type; whoever holds the mutex is dialing.
TypeOK ==
    /\ connType \in Types
    /\ socks \in Seq({"open", "stalled", "broken", "closed"})
    /\ conn \in 0 .. Len(socks)
    /\ mu \in Writers \cup {Nobody}
    /\ pc \in [Writers -> {"idle", "load", "connect", "reconnect", "dial", "redial", "reload", "send", "post"}]
    /\ calls \in [Writers -> 0 .. MaxWrites]
    /\ try \in [Writers -> 0 .. Retry]
    /\ mine \in [Writers -> 0 .. Len(socks)]
    /\ written \in [Writers -> 0 .. Lines]
    /\ closer \in {"idle", "done"}
    /\ faults \in 0 .. MaxFaults
    /\ stalls \in 0 .. MaxStalls
    /\ since \in [Writers -> 0 .. MaxFaults]
    /\ alone \in [Writers -> BOOLEAN]
    /\ handed \in Seq([Calls -> Seq(1 .. Lines)])
    /\ Len(handed) = Len(socks)
    /\ lost \subseteq (1 .. Len(socks)) \X Calls
    /\ result \in [Calls -> {"none", "ok", "failed"}]
    /\ \A w \in Writers : mu = w <=> pc[w] \in {"dial", "redial"}

\* However the goroutines race to reconnect, no connection is left behind
\* unclosed: the only one that may be open is the current one (logger.go:443).
NoConnectionLeaked == \A s \in DOMAIN socks : socks[s] # "closed" => s = conn

Whole == [i \in 1 .. Frames |-> i]

\* A Write that reports success gave the whole payload away, in order and on one
\* connection: a receiver never has to put frames of two together.  With its
\* retries a Write does so at most Retry + 1 times, each time for one copy or
\* none on the remote side.  Only a 2xx of an HTTP server says that it has one
\* (logger.go:493, 515, 569).
Remote == INSTANCE Delivery WITH
    Attempts <- Retry + 1,
    confirms <- connType = "http",
    handed   <- [c \in Calls |-> Cardinality({s \in DOMAIN socks : handed[s][c] = Whole})],
    copies   <- [c \in Calls |-> Cardinality({s \in DOMAIN socks : handed[s][c] = Whole /\ <<s, c>> \notin lost})],
    answer   <- result

ImplementsDelivery == Remote!DeliverySpec

\* A Write fails only when the network did, anew in every round but the first,
\* which may find a connection that was broken before; or when Close came
\* between: a retry does mend what one failure broke.
Excused(w) == faults' - since[w] >= Retry \/ closer = "done"
Fails(w)   == pc[w] # "idle" /\ pc'[w] = "idle" /\ result'[Call(w)] = "failed"

FailsOnlyWithNetwork == [][\A w \in Writers : Fails(w) => Excused(w)]_vars

\* So it is for a Write that no other one overlaps.
AloneFailsOnlyWithNetwork == [][\A w \in Writers : Fails(w) /\ alone[w] => Excused(w)]_vars

\* Close is final: with no Write running, no connection is open afterwards.
ClosedForGood ==
    closer = "done" /\ (\A w \in Writers : pc[w] = "idle") => \A s \in DOMAIN socks : socks[s] = "closed"

\* Every Write comes to an end.
WriteReturns == \A w \in Writers : pc[w] # "idle" ~> pc[w] = "idle"

\* Every Write comes to an end, or waits in a send that nobody reads.  In
\* particular nobody waits for the mutex for ever.
WriteReturnsUnlessStalled == \A w \in Writers : pc[w] # "idle" ~> pc[w] = "idle" \/ Blocked(w)

=============================================================================
