------------------------ MODULE NetworkWriterProofs ------------------------
(***************************************************************************)
(* The network outputs, for any number of goroutines, retries and faults.  *)
(*                                                                         *)
(* No connection is left behind: whoever dials holds the mutex and has set *)
(* conn to nil, which nobody else can change meanwhile; so the connection  *)
(* it stores replaces none.                                                *)
(*                                                                         *)
(* They implement Delivery: what a Write has sent before its current round *)
(* is on connections that are closed by now, so that a round begins with   *)
(* nothing of it on its connection; and it has handed its payload over no  *)
(* more often than rounds have failed.  What a round loses is lost on a    *)
(* connection that has not all of the payload yet, so that a copy which is *)
(* handed over whole stays what it is.                                     *)
(*                                                                         *)
(* A Write that no other one overlaps fails only with the network: its     *)
(* rounds after the first begin with a new connection or none, so each has *)
(* had a fault of its own.                                                 *)
(***************************************************************************)
EXTENDS NetworkWriter, TLAPS, FiniteSetTheorems

Status == {"open", "stalled", "broken", "closed"}
Stages == {"idle", "load", "connect", "reconnect", "dial", "redial", "reload", "send", "post"}

\* Whoever dials holds the mutex, and there is no connection meanwhile.
MutexInv ==
    /\ mu \in Writers \cup {Nobody}
    /\ pc \in [Writers -> Stages]
    /\ \A w \in Writers : pc[w] \in {"dial", "redial"} <=> mu = w
    /\ mu # Nobody => conn = Nil

\* Every connection but the current one is closed.
LeakInv ==
    /\ MutexInv
    /\ socks \in Seq(Status)
    /\ conn \in 0 .. Len(socks)
    /\ NoConnectionLeaked

\* At the start there is one connection, the current one, or none.
LEMMA LeakInit == Init => LeakInv
<1> SUFFICES ASSUME Init PROVE LeakInv
  OBVIOUS
<1>1. MutexInv
  BY WriterAssumption DEF Init, MutexInv, Stages
<1>2. CASE connType = "http"
  <2>1. socks = <<>> /\ conn = 0
    BY <1>2 DEF Init, Nil
  <2>2. socks \in Seq(Status) /\ Len(socks) = 0
    BY <2>1
  <2> QED  BY <1>1, <2>1, <2>2 DEF LeakInv, NoConnectionLeaked
<1>3. CASE connType # "http"
  <2>1. socks = <<"open">> /\ conn = 1
    BY <1>3 DEF Init
  <2>2. socks \in Seq(Status) /\ Len(socks) = 1 /\ socks[1] = "open"
    BY <2>1 DEF Status
  <2> QED  BY <1>1, <2>1, <2>2 DEF LeakInv, NoConnectionLeaked
<1> QED  BY <1>2, <1>3

\* A step that neither takes nor gives the mutex, nor touches conn, keeps MutexInv.
LEMMA MutexKept ==
    ASSUME MutexInv, NEW w \in Writers, NEW l \in Stages \ {"dial", "redial"},
           pc[w] \notin {"dial", "redial"}, pc' = [pc EXCEPT ![w] = l],
           mu' = mu, conn' = conn
    PROVE  MutexInv'
BY DEF MutexInv, Stages

\* Where the loop of Write goes next.
LEMMA NextTryStage ==
    ASSUME NEW w \in Writers, NextTry(w)
    PROVE  \E l \in {"load", "post", "idle"} : pc' = [pc EXCEPT ![w] = l]
BY Zenon DEF NextTry, Goto, Round

\* Closing the current connection leaves none open.
LEMMA ClosingCurrent ==
    ASSUME LeakInv, conn' = Nil,
           socks' = [s \in DOMAIN socks |-> IF s = conn THEN "closed" ELSE socks[s]]
    PROVE  /\ socks' \in Seq(Status)
           /\ conn' \in 0 .. Len(socks')
           /\ NoConnectionLeaked'
<1>1. DOMAIN socks = 1 .. Len(socks) /\ Len(socks) \in Nat
  BY DEF LeakInv
<1>2. \A s \in 1 .. Len(socks) : socks'[s] = "closed"
  BY <1>1 DEF LeakInv, NoConnectionLeaked
<1>3. socks' = [s \in 1 .. Len(socks) |-> "closed"]
  BY <1>1, <1>2
<1>4. socks' \in Seq(Status) /\ Len(socks') = Len(socks)
  BY <1>1, <1>3 DEF Status
<1> QED  BY <1>1, <1>2, <1>3, <1>4 DEF NoConnectionLeaked, Nil

\* The network can only change the current connection: the others are closed.
LEMMA ChangingCurrent ==
    ASSUME LeakInv, NEW s, NEW st \in Status, socks[s] # "closed",
           socks' = [socks EXCEPT ![s] = st], conn' = conn
    PROVE  /\ socks' \in Seq(Status)
           /\ conn' \in 0 .. Len(socks')
           /\ NoConnectionLeaked'
<1>1. socks \in Seq(Status) /\ conn \in 0 .. Len(socks)
  BY DEF LeakInv
<1>2. socks' \in Seq(Status) /\ Len(socks') = Len(socks) /\ DOMAIN socks' = DOMAIN socks
  <2>1. socks \in [1 .. Len(socks) -> Status] /\ Len(socks) \in Nat
    BY <1>1
  <2>2. socks' \in [1 .. Len(socks) -> Status]
    BY <2>1
  <2> QED  BY <2>1, <2>2
<1>3. \A t \in DOMAIN socks : socks'[t] # "closed" => socks[t] # "closed"
  BY <1>1
<1> QED  BY <1>1, <1>2, <1>3 DEF LeakInv, NoConnectionLeaked

\* A request of httpWriter is a connection that is closed again.
LEMMA AddingClosed ==
    ASSUME LeakInv, MutexInv', socks' = Append(socks, "closed"), conn' = conn
    PROVE  LeakInv'
<1>1. /\ socks' \in Seq(Status) /\ Len(socks') = Len(socks) + 1 /\ Len(socks) \in Nat
      /\ \A s \in 1 .. Len(socks) : socks'[s] = socks[s]
      /\ socks'[Len(socks) + 1] = "closed"
  BY DEF LeakInv, Status
<1>2. NoConnectionLeaked'
  BY <1>1 DEF LeakInv, NoConnectionLeaked
<1> QED  BY <1>1, <1>2 DEF LeakInv

\* Every step of a goroutine keeps the invariant.
LEMMA LeakWriter == ASSUME LeakInv, NEW w \in Writers, Writer(w) PROVE LeakInv'
<1> USE DEF Goto
<1>0. ASSUME UNCHANGED <<conn, socks>>, MutexInv' PROVE LeakInv'
  BY <1>0 DEF LeakInv, NoConnectionLeaked
<1>1. CASE WriteBegin(w)
  BY <1>0, <1>1, MutexKept DEF WriteBegin, LeakInv, Stages, Round
<1>2. CASE Load(w)
  BY <1>0, <1>2, MutexKept DEF Load, LeakInv, Stages
<1>3. CASE Reload(w)
  BY <1>0, <1>3, MutexKept, NextTryStage DEF Reload, LeakInv, Stages
<1>4. CASE Send(w)
  <2>1. MutexInv /\ pc \in [Writers -> Stages] /\ pc[w] = "send" /\ UNCHANGED <<conn, mu, socks>>
    BY <1>4 DEF Send, LeakInv, MutexInv
  <2>2. pc' = [pc EXCEPT ![w] = "idle"] \/ pc' = [pc EXCEPT ![w] = "send"]
    BY <1>4, <2>1, Zenon DEF Send
  <2>3. MutexInv'
    BY <2>1, <2>2, MutexKept DEF Stages
  <2> QED  BY <1>0, <2>1, <2>3
<1>5. CASE SendFails(w)
  <2>1. MutexInv /\ pc[w] = "send" /\ UNCHANGED <<conn, mu>>
    BY <1>5 DEF SendFails, LeakInv
  <2>2. \E l \in {"reconnect", "load", "post", "idle"} : pc' = [pc EXCEPT ![w] = l]
    BY <1>5, NextTryStage, Zenon DEF SendFails
  <2>3. MutexInv'
    BY <2>1, <2>2, MutexKept DEF Stages
  <2>4. CASE socks' = socks
    BY <1>0, <2>1, <2>3, <2>4
  <2>5. CASE socks' # socks
    <3>1. socks' = [socks EXCEPT ![mine[w]] = "broken"] /\ socks[mine[w]] # "closed"
      BY <1>5, <2>5 DEF SendFails
    <3> QED  BY <2>1, <2>3, <3>1, ChangingCurrent DEF LeakInv, Status
  <2> QED  BY <2>4, <2>5
<1>6. CASE LockConnect(w)
  <2>1. /\ pc \in [Writers -> Stages] /\ mu = Nobody /\ mu' = w /\ conn' = Nil
        /\ \E l \in {"dial", "redial"} : pc' = [pc EXCEPT ![w] = l]
    BY <1>6 DEF LockConnect, LeakInv, MutexInv
  <2>2. MutexInv'
    BY <2>1, WriterAssumption DEF MutexInv, LeakInv, Stages
  <2>3. socks' = [s \in DOMAIN socks |-> IF s = conn THEN "closed" ELSE socks[s]]
    BY <1>6 DEF LockConnect
  <2> QED  BY <2>1, <2>2, <2>3, ClosingCurrent DEF LeakInv
<1>7. CASE DialOk(w)
  <2>1. /\ pc \in [Writers -> Stages] /\ mu = w /\ mu' = Nobody
        /\ conn = Nil /\ socks \in Seq(Status)
    BY <1>7, WriterAssumption DEF DialOk, LeakInv, MutexInv
  <2>2. \E l \in {"reload", "load", "post", "idle"} : pc' = [pc EXCEPT ![w] = l]
    BY <1>7, NextTryStage, Zenon DEF DialOk
  <2>3. MutexInv'
    BY <2>1, <2>2, WriterAssumption DEF MutexInv, LeakInv, Stages
  <2>4. socks' = Append(socks, "open") /\ conn' = Len(socks')
    BY <1>7 DEF DialOk
  <2>5. /\ socks' \in Seq(Status) /\ Len(socks') = Len(socks) + 1
        /\ \A s \in 1 .. Len(socks) : socks'[s] = socks[s]
    BY <2>1, <2>4 DEF Status
  <2>6. \A s \in 1 .. Len(socks) : socks[s] = "closed"
    BY <2>1 DEF LeakInv, NoConnectionLeaked, Nil
  <2>7. NoConnectionLeaked'
    BY <2>1, <2>4, <2>5, <2>6 DEF NoConnectionLeaked
  <2> QED  BY <2>3, <2>4, <2>5, <2>7 DEF LeakInv
<1>8. CASE DialFails(w)
  <2>1. /\ pc \in [Writers -> Stages] /\ mu = w /\ mu' = Nobody
        /\ conn = Nil /\ UNCHANGED <<conn, socks>>
    BY <1>8, WriterAssumption DEF DialFails, LeakInv, MutexInv
  <2>2. \E l \in {"load", "post", "idle"} : pc' = [pc EXCEPT ![w] = l]
    BY <1>8, NextTryStage DEF DialFails
  <2>3. MutexInv'
    BY <2>1, <2>2, WriterAssumption DEF MutexInv, LeakInv, Stages
  <2> QED  BY <1>0, <2>1, <2>3
<1>9. CASE PostOk(w)
  <2>1. MutexInv'
    BY <1>9, MutexKept DEF PostOk, LeakInv, Stages
  <2> QED  BY <1>9, <2>1, AddingClosed DEF PostOk, Taken
<1>10. CASE PostFails(w)
  <2>1. MutexInv /\ pc[w] = "post" /\ UNCHANGED <<conn, mu>>
    BY <1>10 DEF PostFails, LeakInv
  <2>2. \E l \in {"load", "post", "idle"} : pc' = [pc EXCEPT ![w] = l]
    BY <1>10, NextTryStage DEF PostFails
  <2>3. MutexInv'
    BY <2>1, <2>2, MutexKept DEF Stages
  <2>4. socks' = socks \/ socks' = Append(socks, "closed")
    BY <1>10 DEF PostFails, Taken
  <2> QED  BY <1>0, <2>1, <2>3, <2>4, AddingClosed
<1> QED  BY <1>1, <1>2, <1>3, <1>4, <1>5, <1>6, <1>7, <1>8, <1>9, <1>10 DEF Writer

\* So does every step of the system.
LEMMA LeakNext == LeakInv /\ [Next]_vars => LeakInv'
<1> SUFFICES ASSUME LeakInv, [Next]_vars PROVE LeakInv'
  OBVIOUS
<1>1. ASSUME NEW w \in Writers, Writer(w) PROVE LeakInv'
  BY <1>1, LeakWriter
<1>2. CASE Close
  <2>1. MutexInv'
    BY <1>2 DEF Close, LeakInv, MutexInv, writerVars
  <2> QED  BY <1>2, <2>1, ClosingCurrent DEF Close, LeakInv
<1>3. CASE Stall
  <2>1. MutexInv'
    BY <1>3 DEF Stall, LeakInv, MutexInv, writerVars
  <2>2. PICK s \in DOMAIN socks : socks[s] = "open" /\ socks' = [socks EXCEPT ![s] = "stalled"]
    BY <1>3 DEF Stall
  <2> QED  BY <1>3, <2>1, <2>2, ChangingCurrent DEF Stall, LeakInv, Status
<1>4. CASE UNCHANGED vars
  BY <1>4 DEF vars, writerVars, LeakInv, MutexInv, NoConnectionLeaked
<1> QED  BY <1>1, <1>2, <1>3, <1>4 DEF Next, Finished

\* However the goroutines race to reconnect, every connection but the current
\* one is closed.
THEOREM NothingLeaked == Spec => []NoConnectionLeaked
<1>1. LeakInv => NoConnectionLeaked
  BY DEF LeakInv
<1> QED  BY LeakInit, LeakNext, <1>1, PTL DEF Spec

-----------------------------------------------------------------------------
(* Types *)

Row == [Calls -> Seq(1 .. Lines)]

\* What a goroutine has at its place in Write.
FlowInv(w) ==
    /\ pc[w] # "idle" => calls[w] \in 1 .. MaxWrites
    /\ pc[w] \in {"connect", "dial", "reload"} => written[w] = 0
    /\ pc[w] = "send" => mine[w] \in 1 .. Len(socks) /\ written[w] < Frames
    /\ pc[w] # "idle" => (pc[w] = "post" <=> connType = "http")

TypeInv == LeakInv /\ TypeOK /\ \A w \in Writers : FlowInv(w)

LEMMA Bounds ==
    /\ MaxWrites \in Nat /\ MaxFaults \in Nat /\ MaxStalls \in Nat /\ Retry \in Nat /\ Lines \in Nat \ {0}
    /\ Frames \in 1 .. Lines /\ (connType = "http" => Frames = 1)
  BY BoundAssumption, RetryAssumption, FrameAssumption DEF Frames

LEMMA UnsentType == Unsent \in Row /\ \A c \in Calls : Unsent[c] = <<>>
  BY DEF Unsent, Row

LEMMA TypeInit == Init => TypeInv
<1> SUFFICES ASSUME Init PROVE TypeInv
  OBVIOUS
<1>1. LeakInv
  BY LeakInit
<1>2. handed \in Seq(Row) /\ Len(handed) = Len(socks)
  <2>1. <<>> \in Seq(Row) /\ <<Unsent>> \in Seq(Row)
    BY UnsentType
  <2>2. CASE connType = "http"
    <3>1. handed = <<>> /\ socks = <<>>
      BY <2>2 DEF Init
    <3> QED  BY <2>1, <3>1
  <2>3. CASE connType # "http"
    <3>1. handed = <<Unsent>> /\ socks = <<"open">>
      BY <2>3 DEF Init
    <3>2. Len(<<Unsent>>) = 1 /\ Len(<<"open">>) = 1
      OBVIOUS
    <3> QED  BY <2>1, <3>1, <3>2
  <2> QED  BY <2>2, <2>3
<1>3. /\ connType \in Types /\ closer = "idle" /\ faults = 0 /\ stalls = 0
      /\ calls \in [Writers -> 0 .. MaxWrites] /\ try \in [Writers -> 0 .. Retry] /\ mine \in [Writers -> 0 .. Len(socks)]
      /\ written \in [Writers -> 0 .. Lines] /\ since \in [Writers -> 0 .. MaxFaults] /\ alone \in [Writers -> BOOLEAN]
      /\ result \in [Calls -> {"none", "ok", "failed"}] /\ lost = {}
  BY <1>1, Bounds DEF Init, Nil, LeakInv
<1>4. TypeOK
  BY <1>1, <1>2, <1>3, Bounds DEF TypeOK, LeakInv, MutexInv, NoConnectionLeaked, Row, Status, Stages
<1>5. \A w \in Writers : FlowInv(w)
  BY DEF Init, FlowInv
<1> QED  BY <1>1, <1>4, <1>5 DEF TypeInv

\* What NextTry and the ways of failing do.
LEMMA NextTryIs ==
    ASSUME TypeInv, NEW w \in Writers, pc[w] # "idle", NextTry(w)
    PROVE  /\ try' \in [Writers -> 0 .. Retry] /\ result' \in [Calls -> {"none", "ok", "failed"}]
           /\ \A v \in Writers \ {w} : pc'[v] = pc[v] /\ try'[v] = try[v]
           /\ pc'[w] \in {"load", "post", "idle"} /\ (pc'[w] # "idle" => (pc'[w] = "post" <=> connType = "http"))
           /\ Call(w) \in Calls
           /\ \/ pc'[w] # "idle" /\ result' = result /\ try'[w] = try[w] + 1
              \/ pc'[w] = "idle" /\ result' = [result EXCEPT ![Call(w)] = "failed"]
<1>1. /\ pc \in [Writers -> Stages] /\ try \in [Writers -> 0 .. Retry] /\ result \in [Calls -> {"none", "ok", "failed"}]
      /\ Call(w) \in Calls /\ Retry \in Nat
  BY Bounds DEF TypeInv, TypeOK, LeakInv, MutexInv, FlowInv, Calls, Call
<1>2. CASE try[w] < Retry
  <2>1. try' = [try EXCEPT ![w] = @ + 1] /\ pc' = [pc EXCEPT ![w] = Round] /\ result' = result
    BY <1>2 DEF NextTry, Goto
  <2>2. Round \in {"load", "post"} /\ (Round = "post" <=> connType = "http")
    BY DEF Round
  <2> QED  BY <1>1, <1>2, <2>1, <2>2
<1>3. CASE ~(try[w] < Retry)
  <2>1. result' = [result EXCEPT ![Call(w)] = "failed"] /\ pc' = [pc EXCEPT ![w] = "idle"] /\ try' = try
    BY <1>3 DEF NextTry, Goto
  <2> QED  BY <1>1, <2>1
<1> QED  BY <1>2, <1>3

\* What a Send puts onto its connection.
LEMMA SendIs ==
    ASSUME TypeInv, NEW w \in Writers, Send(w)
    PROVE  /\ mine[w] \in 1 .. Len(socks) /\ Call(w) \in Calls /\ socks[mine[w]] = "open"
           /\ written'[w] = written[w] + 1 /\ written[w] < Frames /\ written[w] \in Nat
           /\ written' \in [Writers -> 0 .. Lines] /\ \A v \in Writers \ {w} : written'[v] = written[v]
           /\ handed' \in Seq(Row) /\ Len(handed') = Len(handed)
           /\ handed'[mine[w]][Call(w)] = Append(handed[mine[w]][Call(w)], written[w] + 1)
           /\ \A s \in 1 .. Len(socks), c \in Calls : s # mine[w] \/ c # Call(w) => handed'[s][c] = handed[s][c]
<1>1. /\ mine[w] \in 1 .. Len(socks) /\ Call(w) \in Calls /\ written[w] < Frames
      /\ written \in [Writers -> 0 .. Lines] /\ Len(handed) = Len(socks) /\ Len(handed) \in Nat
      /\ handed \in [1 .. Len(handed) -> Row]
  <2>1. pc[w] = "send" /\ FlowInv(w) /\ TypeOK
    BY DEF Send, TypeInv
  <2>2. Len(handed) \in Nat /\ handed \in [1 .. Len(handed) -> Row]
    BY <2>1 DEF TypeOK, Row
  <2> QED  BY <2>1, <2>2 DEF TypeOK, FlowInv, Calls, Call
<1>2. written' = [written EXCEPT ![w] = @ + 1]
  BY DEF Send
<1>3. /\ written'[w] = written[w] + 1 /\ written[w] \in Nat /\ written[w] + 1 \in 1 .. Lines
      /\ written' \in [Writers -> 0 .. Lines] /\ \A v \in Writers \ {w} : written'[v] = written[v]
  BY <1>1, <1>2, Bounds
<1> DEFINE m == mine[w]
           c == Call(w)
           row == [handed[m] EXCEPT ![c] = Append(@, written'[w])]
<1>4. handed' = [handed EXCEPT ![m] = row]
  BY DEF Send
<1>5. row \in Row /\ row[c] = Append(handed[m][c], written[w] + 1) /\ \A d \in Calls \ {c} : row[d] = handed[m][d]
  BY <1>1, <1>3 DEF Row
<1> HIDE DEF row
<1>6. handed' \in [1 .. Len(handed) -> Row] /\ handed'[m] = row /\ \A s \in 1 .. Len(handed) : s # m => handed'[s] = handed[s]
  BY <1>1, <1>4, <1>5
<1>7. handed' \in Seq(Row) /\ Len(handed') = Len(handed)
  BY <1>1, <1>6
<1> QED  BY <1>1, <1>3, <1>5, <1>6, <1>7 DEF Send

LEMMA TakenIs ==
    ASSUME TypeInv, NEW w \in Writers, pc[w] = "post", Taken(w)
    PROVE  /\ connType = "http" /\ Call(w) \in Calls
           /\ handed' \in Seq(Row) /\ Len(handed') = Len(handed) + 1 /\ Len(socks') = Len(socks) + 1 /\ socks'[Len(socks) + 1] = "closed"
           /\ \A s \in 1 .. Len(socks) : handed'[s] = handed[s] /\ socks'[s] = socks[s]
           /\ handed'[Len(socks) + 1][Call(w)] = <<1>>
           /\ \A c \in Calls \ {Call(w)} : handed'[Len(socks) + 1][c] = <<>>
<1>1. connType = "http" /\ Call(w) \in Calls /\ handed \in Seq(Row) /\ socks \in Seq(Status) /\ Len(handed) = Len(socks)
  BY DEF TypeInv, TypeOK, FlowInv, Calls, Call, Row, Status
<1> DEFINE row == [Unsent EXCEPT ![Call(w)] = <<1>>]
<1>2. row \in Row /\ row[Call(w)] = <<1>> /\ \A c \in Calls \ {Call(w)} : row[c] = <<>>
  <2>1. <<1>> \in Seq(1 .. Lines)
    BY Bounds
  <2> QED  BY <1>1, <2>1, UnsentType DEF Row
<1>3. handed' = Append(handed, row) /\ socks' = Append(socks, "closed")
  BY DEF Taken
<1> HIDE DEF row
<1>4. handed' \in Seq(Row) /\ Len(handed') = Len(handed) + 1 /\ handed'[Len(handed) + 1] = row /\ \A s \in 1 .. Len(handed) : handed'[s] = handed[s]
  BY <1>1, <1>2, <1>3
<1>5. Len(socks') = Len(socks) + 1 /\ socks'[Len(socks) + 1] = "closed" /\ \A s \in 1 .. Len(socks) : socks'[s] = socks[s]
  BY <1>1, <1>3
<1> QED  BY <1>1, <1>2, <1>4, <1>5

\* Only a Send loses anything, of its own call.
LEMMA LostIs ==
    ASSUME TypeInv, NEW w \in Writers, Writer(w)
    PROVE  /\ lost \subseteq (1 .. Len(socks)) \X Calls
           /\ lost' = lost \/ (Send(w) /\ lost' = lost \cup {<<mine[w], Call(w)>>})
           /\ lost' \subseteq (1 .. Len(socks)) \X Calls
<1>1. lost \subseteq (1 .. Len(socks)) \X Calls
  BY DEF TypeInv, TypeOK
<1>2. lost' = lost \/ Send(w)
  BY DEF Writer, WriteBegin, Load, Reload, SendFails, LockConnect, DialOk, DialFails, PostOk, PostFails
<1>3. CASE Send(w)
  <2>1. lost' = lost \/ lost' = lost \cup {<<mine[w], Call(w)>>}
    BY <1>3, Zenon DEF Send, Transmits
  <2>2. <<mine[w], Call(w)>> \in (1 .. Len(socks)) \X Calls
    BY <1>3, SendIs
  <2>3. lost' \subseteq (1 .. Len(socks)) \X Calls
    BY <1>1, <2>1, <2>2, Zenon
  <2> QED  BY <1>1, <1>3, <2>1, <2>3
<1> QED  BY <1>1, <1>2, <1>3

LEMMA TypeWriter == ASSUME TypeInv, LeakInv', NEW w \in Writers, Writer(w) PROVE TypeInv'
<1> USE DEF Goto
<1>0. /\ pc \in [Writers -> Stages] /\ pc' \in [Writers -> Stages] /\ calls \in [Writers -> 0 .. MaxWrites]
      /\ try \in [Writers -> 0 .. Retry] /\ mine \in [Writers -> 0 .. Len(socks)] /\ written \in [Writers -> 0 .. Lines]
      /\ faults \in 0 .. MaxFaults /\ since \in [Writers -> 0 .. MaxFaults] /\ alone \in [Writers -> BOOLEAN]
      /\ handed \in Seq(Row) /\ Len(handed) = Len(socks) /\ result \in [Calls -> {"none", "ok", "failed"}]
      /\ Len(socks) \in Nat /\ Len(socks') \in Nat /\ conn \in 0 .. Len(socks) /\ FlowInv(w)
  BY DEF TypeInv, TypeOK, LeakInv, MutexInv, Row
\* A step of one goroutine leaves the place of the others.
<1>99. ASSUME UNCHANGED <<connType, closer, stalls>>, Len(socks) <= Len(socks'),
             calls' \in [Writers -> 0 .. MaxWrites], try' \in [Writers -> 0 .. Retry],
             mine' \in [Writers -> 0 .. Len(socks')], written' \in [Writers -> 0 .. Lines],
             faults' \in 0 .. MaxFaults, since' \in [Writers -> 0 .. MaxFaults], alone' \in [Writers -> BOOLEAN],
             handed' \in Seq(Row), Len(handed') = Len(socks'), result' \in [Calls -> {"none", "ok", "failed"}],
             \A v \in Writers \ {w} :
                 pc'[v] = pc[v] /\ calls'[v] = calls[v] /\ mine'[v] = mine[v] /\ written'[v] = written[v],
             FlowInv(w)'
      PROVE  TypeInv'
  <2>0. lost' \subseteq (1 .. Len(socks')) \X Calls
    <3>1. 1 .. Len(socks) \subseteq 1 .. Len(socks')
      BY <1>0, <1>99
    <3> QED  BY <3>1, LostIs, Zenon
  <2>1. TypeOK'
    BY <1>99, <2>0 DEF TypeInv, TypeOK, LeakInv, MutexInv, Row, Status, Stages
  <2>2. 1 .. Len(socks) \subseteq 1 .. Len(socks') /\ Frames' = Frames
    BY <1>0, <1>99 DEF Frames
  <2>3. ASSUME NEW v \in Writers, v # w PROVE FlowInv(v)'
    <3>1. pc'[v] = pc[v] /\ calls'[v] = calls[v] /\ mine'[v] = mine[v] /\ written'[v] = written[v]
      BY <1>99, <2>3
    <3>2. FlowInv(v)
      BY DEF TypeInv
    <3> QED  BY <1>99, <2>2, <3>1, <3>2 DEF FlowInv
  <2>4. \A v \in Writers : FlowInv(v)'
    BY <1>99, <2>3
  <2> QED  BY <2>1, <2>4 DEF TypeInv
<1>1. CASE WriteBegin(w)
  <2>1. UNCHANGED <<connType, socks, mine, written, closer, faults, stalls, handed, result>> /\ pc[w] = "idle"
    BY <1>1 DEF WriteBegin
  <2>2. calls' \in [Writers -> 0 .. MaxWrites] /\ calls'[w] \in 1 .. MaxWrites /\ \A v \in Writers \ {w} : calls'[v] = calls[v]
    BY <1>0, <1>1, Bounds DEF WriteBegin
  <2>3. try' \in [Writers -> 0 .. Retry] /\ since' \in [Writers -> 0 .. MaxFaults]
    BY <1>0, <1>1, Bounds DEF WriteBegin
  <2>4. alone' \in [Writers -> BOOLEAN]
    BY <1>0, <1>1 DEF WriteBegin
  <2>5. pc'[w] = Round /\ \A v \in Writers \ {w} : pc'[v] = pc[v]
    BY <1>0, <1>1 DEF WriteBegin
  <2>6. FlowInv(w)'
    BY <2>1, <2>2, <2>5 DEF FlowInv, Round
  <2> QED  BY <1>0, <2>1, <2>2, <2>3, <2>4, <2>5, <2>6, <1>99
<1>2. CASE Load(w)
  <2>1. UNCHANGED <<connType, socks, calls, try, closer, faults, stalls, since, alone, handed, result>>
    BY <1>2 DEF Load
  <2>2. mine' \in [Writers -> 0 .. Len(socks)] /\ mine'[w] = conn /\ \A v \in Writers \ {w} : mine'[v] = mine[v]
    BY <1>0, <1>2 DEF Load
  <2>3. written' \in [Writers -> 0 .. Lines] /\ written'[w] = 0 /\ \A v \in Writers \ {w} : written'[v] = written[v]
    BY <1>0, <1>2, Bounds DEF Load
  <2>4. pc[w] = "load" /\ pc'[w] = (IF conn = Nil THEN "connect" ELSE "send") /\ \A v \in Writers \ {w} : pc'[v] = pc[v]
    BY <1>0, <1>2 DEF Load
  <2>5. FlowInv(w)'
    BY <1>0, <2>1, <2>2, <2>3, <2>4, Bounds DEF FlowInv, Frames, Nil
  <2> QED  BY <1>0, <2>1, <2>2, <2>3, <2>4, <2>5, <1>99
<1>3. CASE Reload(w)
  <2>1. UNCHANGED <<connType, socks, calls, written, closer, faults, stalls, since, alone, handed>> /\ pc[w] = "reload"
    BY <1>3 DEF Reload
  <2>2. mine' \in [Writers -> 0 .. Len(socks)] /\ mine'[w] = conn /\ \A v \in Writers \ {w} : mine'[v] = mine[v]
    BY <1>0, <1>3 DEF Reload
  <2>3. CASE conn = Nil /\ NextTry(w)
    <3>1. /\ try' \in [Writers -> 0 .. Retry] /\ result' \in [Calls -> {"none", "ok", "failed"}]
          /\ \A v \in Writers \ {w} : pc'[v] = pc[v]
          /\ pc'[w] \in {"load", "post", "idle"} /\ (pc'[w] # "idle" => (pc'[w] = "post" <=> connType = "http"))
      BY <2>1, <2>3, NextTryIs
    <3>2. FlowInv(w)'
      BY <1>0, <2>1, <3>1 DEF FlowInv
    <3> QED  BY <1>0, <2>1, <2>2, <3>1, <3>2, <1>99
  <2>4. CASE conn # Nil /\ pc' = [pc EXCEPT ![w] = "send"] /\ UNCHANGED <<try, result>>
    <3>1. pc'[w] = "send" /\ \A v \in Writers \ {w} : pc'[v] = pc[v]
      BY <1>0, <2>4
    <3>2. FlowInv(w)'
      BY <1>0, <2>1, <2>2, <2>4, <3>1, Bounds DEF FlowInv, Frames, Nil
    <3> QED  BY <1>0, <2>1, <2>2, <2>4, <3>1, <3>2, <1>99
  <2> QED  BY <1>3, <2>3, <2>4 DEF Reload
<1>4. CASE Send(w)
  <2>1. UNCHANGED <<connType, socks, calls, try, mine, closer, faults, stalls, since, alone>> /\ pc[w] = "send"
    BY <1>4 DEF Send
  <2>2. \/ /\ written'[w] = Frames /\ pc' = [pc EXCEPT ![w] = "idle"] /\ result' = [result EXCEPT ![Call(w)] = "ok"]
        \/ written'[w] # Frames /\ UNCHANGED <<pc, result>>
    BY <1>4, Zenon DEF Send
  <2>3. result' \in [Calls -> {"none", "ok", "failed"}] /\ \A v \in Writers \ {w} : pc'[v] = pc[v]
    BY <1>0, <2>2
  <2>4. FlowInv(w)'
    BY <1>0, <1>4, <2>1, <2>2, SendIs, Bounds DEF FlowInv, Frames
  <2> QED  BY <1>0, <1>4, <2>1, <2>3, <2>4, SendIs, <1>99
<1>5. CASE SendFails(w)
  <2>1. UNCHANGED <<connType, calls, mine, written, closer, stalls, since, alone, handed>> /\ pc[w] = "send"
    BY <1>5 DEF SendFails
  <2>2. faults' \in 0 .. MaxFaults
    BY <1>0, <1>5, Bounds DEF SendFails, MayFail
  <2>3. Len(socks') = Len(socks)
    BY <1>0, <1>5 DEF SendFails
  <2>4. CASE NextTry(w)
    <3>1. /\ try' \in [Writers -> 0 .. Retry] /\ result' \in [Calls -> {"none", "ok", "failed"}]
          /\ \A v \in Writers \ {w} : pc'[v] = pc[v]
          /\ pc'[w] \in {"load", "post", "idle"} /\ (pc'[w] # "idle" => (pc'[w] = "post" <=> connType = "http"))
      BY <2>1, <2>4, NextTryIs
    <3>2. FlowInv(w)'
      BY <1>0, <2>1, <3>1 DEF FlowInv
    <3> QED  BY <1>0, <2>1, <2>2, <2>3, <3>1, <3>2, <1>99
  <2>5. CASE pc' = [pc EXCEPT ![w] = "reconnect"] /\ UNCHANGED <<try, result>>
    <3>1. pc'[w] = "reconnect" /\ \A v \in Writers \ {w} : pc'[v] = pc[v]
      BY <1>0, <2>5
    <3>2. FlowInv(w)'
      BY <1>0, <2>1, <3>1 DEF FlowInv
    <3> QED  BY <1>0, <2>1, <2>2, <2>3, <2>5, <3>1, <3>2, <1>99
  <2> QED  BY <1>5, <2>4, <2>5 DEF SendFails
<1>6. CASE LockConnect(w)
  <2>1. UNCHANGED <<connType, calls, try, mine, written, closer, faults, stalls, since, alone, handed, result>>
    BY <1>6 DEF LockConnect
  <2>2. Len(socks') = Len(socks)
    BY <1>0, <1>6 DEF LockConnect, LeakInv
  <2>3. /\ pc[w] \in {"connect", "reconnect"} /\ \A v \in Writers \ {w} : pc'[v] = pc[v]
        /\ pc'[w] = IF pc[w] = "connect" THEN "dial" ELSE "redial"
    BY <1>0, <1>6 DEF LockConnect
  <2>4. FlowInv(w)'
    BY <1>0, <2>1, <2>3 DEF FlowInv
  <2> QED  BY <1>0, <2>1, <2>2, <2>3, <2>4, <1>99
<1>7. CASE DialOk(w)
  <2>1. UNCHANGED <<connType, calls, mine, written, closer, faults, stalls, since, alone>> /\ pc[w] \in {"dial", "redial"}
    BY <1>7 DEF DialOk
  <2>2. handed' \in Seq(Row) /\ Len(handed') = Len(socks') /\ Len(socks') = Len(socks) + 1
    <3>1. socks' = Append(socks, "open") /\ handed' = Append(handed, Unsent) /\ socks \in Seq(Status)
      BY <1>7 DEF DialOk, TypeInv, LeakInv
    <3> QED  BY <1>0, <3>1, UnsentType DEF Status
  <2>3. mine \in [Writers -> 0 .. Len(socks')]
    BY <1>0, <2>2
  <2>4. CASE pc[w] # "dial" /\ NextTry(w)
    <3>1. /\ try' \in [Writers -> 0 .. Retry] /\ result' \in [Calls -> {"none", "ok", "failed"}]
          /\ \A v \in Writers \ {w} : pc'[v] = pc[v]
          /\ pc'[w] \in {"load", "post", "idle"} /\ (pc'[w] # "idle" => (pc'[w] = "post" <=> connType = "http"))
      BY <2>1, <2>4, NextTryIs
    <3>2. FlowInv(w)'
      BY <1>0, <2>1, <3>1 DEF FlowInv
    <3> QED  BY <1>0, <2>1, <2>2, <2>3, <3>1, <3>2, <1>99
  <2>5. CASE pc[w] = "dial" /\ pc' = [pc EXCEPT ![w] = "reload"] /\ UNCHANGED <<try, result>>
    <3>1. pc'[w] = "reload" /\ \A v \in Writers \ {w} : pc'[v] = pc[v]
      BY <1>0, <2>5
    <3>2. FlowInv(w)'
      BY <1>0, <2>1, <2>5, <3>1 DEF FlowInv
    <3> QED  BY <1>0, <2>1, <2>2, <2>3, <2>5, <3>1, <3>2, <1>99
  <2> QED  BY <1>7, <2>4, <2>5, Zenon DEF DialOk
<1>8. CASE DialFails(w)
  <2>1. /\ UNCHANGED <<connType, socks, calls, mine, written, closer, stalls, since, alone, handed>>
        /\ pc[w] \in {"dial", "redial"} /\ NextTry(w)
    BY <1>8 DEF DialFails
  <2>2. faults' \in 0 .. MaxFaults
    BY <1>0, <1>8, Bounds DEF DialFails, MayFail
  <2>3. /\ try' \in [Writers -> 0 .. Retry] /\ result' \in [Calls -> {"none", "ok", "failed"}]
        /\ \A v \in Writers \ {w} : pc'[v] = pc[v]
        /\ pc'[w] \in {"load", "post", "idle"} /\ (pc'[w] # "idle" => (pc'[w] = "post" <=> connType = "http"))
    BY <2>1, NextTryIs
  <2>4. FlowInv(w)'
    BY <1>0, <2>1, <2>3 DEF FlowInv
  <2> QED  BY <1>0, <2>1, <2>2, <2>3, <2>4, <1>99
<1>9. CASE PostOk(w)
  <2>1. UNCHANGED <<connType, calls, try, mine, written, closer, faults, stalls, since, alone>> /\ pc[w] = "post" /\ Taken(w)
    BY <1>9 DEF PostOk
  <2>2. result' \in [Calls -> {"none", "ok", "failed"}] /\ pc'[w] = "idle" /\ \A v \in Writers \ {w} : pc'[v] = pc[v]
    BY <1>0, <1>9 DEF PostOk
  <2>3. handed' \in Seq(Row) /\ Len(handed') = Len(socks') /\ Len(socks') = Len(socks) + 1
    BY <1>0, <2>1, TakenIs
  <2>4. mine \in [Writers -> 0 .. Len(socks')]
    BY <1>0, <2>3
  <2>5. FlowInv(w)'
    BY <2>2 DEF FlowInv
  <2> QED  BY <1>0, <2>1, <2>2, <2>3, <2>4, <2>5, <1>99
<1>10. CASE PostFails(w)
  <2>1. /\ UNCHANGED <<connType, calls, mine, written, closer, stalls, since, alone>>
        /\ pc[w] = "post" /\ NextTry(w)
    BY <1>10 DEF PostFails
  <2>2. faults' \in 0 .. MaxFaults
    BY <1>0, <1>10, Bounds DEF PostFails, MayFail
  <2>3. handed' \in Seq(Row) /\ Len(handed') = Len(socks') /\ Len(socks) <= Len(socks')
    BY <1>0, <1>10, TakenIs DEF PostFails
  <2>4. mine \in [Writers -> 0 .. Len(socks')]
    BY <1>0, <2>3
  <2>5. /\ try' \in [Writers -> 0 .. Retry] /\ result' \in [Calls -> {"none", "ok", "failed"}]
        /\ \A v \in Writers \ {w} : pc'[v] = pc[v]
        /\ pc'[w] \in {"load", "post", "idle"} /\ (pc'[w] # "idle" => (pc'[w] = "post" <=> connType = "http"))
    BY <2>1, NextTryIs
  <2>6. FlowInv(w)'
    BY <1>0, <2>1, <2>5 DEF FlowInv
  <2> QED  BY <1>0, <2>1, <2>2, <2>3, <2>4, <2>5, <2>6, <1>99
<1> QED  BY <1>1, <1>2, <1>3, <1>4, <1>5, <1>6, <1>7, <1>8, <1>9, <1>10 DEF Writer

LEMMA TypeStep == TypeInv /\ [Next]_vars => TypeInv'
<1> SUFFICES ASSUME TypeInv, [Next]_vars PROVE TypeInv'
  OBVIOUS
<1>1. LeakInv'
  BY LeakNext DEF TypeInv
<1>2. ASSUME NEW w \in Writers, Writer(w) PROVE TypeInv'
  BY <1>1, <1>2, TypeWriter
<1>3. ASSUME UNCHANGED <<connType, writerVars, faults, since, alone, handed, lost, result>>, Len(socks') = Len(socks),
             closer' \in {"idle", "done"}, stalls' \in 0 .. MaxStalls
      PROVE  TypeInv'
  <2>1. TypeOK'
    BY <1>1, <1>3 DEF TypeInv, TypeOK, LeakInv, MutexInv, writerVars, Status, Stages
  <2>2. \A w \in Writers : FlowInv(w)'
    BY <1>3 DEF TypeInv, FlowInv, Frames, writerVars
  <2> QED  BY <1>1, <2>1, <2>2 DEF TypeInv
<1>4. CASE Close
  <2>1. Len(socks') = Len(socks)
    BY <1>4 DEF Close, TypeInv, LeakInv
  <2> QED  BY <1>3, <1>4, <2>1 DEF Close, TypeInv, TypeOK
<1>5. CASE Stall
  <2>1. Len(socks') = Len(socks)
    BY <1>5 DEF Stall, TypeInv, LeakInv
  <2>2. stalls' \in 0 .. MaxStalls
    <3>1. stalls \in 0 .. MaxStalls /\ stalls < MaxStalls /\ stalls' = stalls + 1 /\ MaxStalls \in Nat
      BY <1>5, Bounds DEF Stall, TypeInv, TypeOK
    <3> QED  BY <3>1
  <2> QED  BY <1>3, <1>5, <2>1, <2>2 DEF Stall, TypeInv, TypeOK
<1>6. CASE UNCHANGED vars
  BY <1>3, <1>6 DEF vars, TypeInv, TypeOK
<1> QED  BY <1>2, <1>4, <1>5, <1>6 DEF Next, Finished

\* The types, the place of a Write on its connection included.
THEOREM TypeCorrect == Spec => []TypeOK
<1>1. TypeInv => TypeOK
  BY DEF TypeInv
<1> QED  BY <1>1, TypeInit, TypeStep, PTL DEF Spec

-----------------------------------------------------------------------------
(* Delivery *)

\* The connections that have been given the whole of a call, and those of them
\* that bring it to the remote side; before and after a step.
Copies(c)     == {s \in DOMAIN socks : handed[s][c] = Whole}
CopiesNext(c) == {s \in DOMAIN socks' : handed'[s][c] = Whole}

Through(c)     == {s \in DOMAIN socks : handed[s][c] = Whole /\ <<s, c>> \notin lost}
ThroughNext(c) == {s \in DOMAIN socks' : handed'[s][c] = Whole /\ <<s, c>> \notin lost'}

\* A Write under way has been handed over no more often than it has failed.  What it has
\* sent is on connections that are closed, but for the one it uses.
CallInv(w) == pc[w] # "idle" =>
    /\ result[Call(w)] = "none"
    /\ Cardinality(Copies(Call(w))) <= try[w]
    /\ \A s \in 1 .. Len(socks) : \/ handed[s][Call(w)] = <<>>
                                  \/ socks[s] = "closed"
                                  \/ pc[w] \in {"send", "reconnect"} /\ s = mine[w]
    /\ pc[w] = "send" => handed[mine[w]][Call(w)] = [i \in 1 .. written[w] |-> i]

\* A call to come has sent nothing.
FreshInv(w) == \A k \in 1 .. MaxWrites : k > calls[w] =>
    result[<<w, k>>] = "none" /\ \A s \in 1 .. Len(socks) : handed[s][<<w, k>>] = <<>>

CurrentInv == conn # Nil => socks[conn] # "closed"

RemoteInv == CurrentInv /\ \A w \in Writers : CallInv(w) /\ FreshInv(w)

\* A step that gives no connection anything of the calls in cs.
Quiet(cs) ==
    /\ Len(socks) <= Len(socks')
    /\ \A s \in 1 .. Len(socks) : socks[s] = "closed" => socks'[s] = "closed"
    /\ \A s \in 1 .. Len(socks), c \in cs : handed'[s][c] = handed[s][c]
    /\ \A s \in 1 .. Len(socks'), c \in cs : s > Len(socks) => handed'[s][c] = <<>>

\* Connection n is the one that gets the whole of the call of w.
OneMoreCopy(w, n) ==
    /\ n \notin Copies(Call(w)) /\ CopiesNext(Call(w)) = Copies(Call(w)) \cup {n}
    /\ connType = "http" => <<n, Call(w)>> \notin lost'

\* What a step of w loses is on a connection that has not the whole call yet.
Losing(w) ==
    \/ lost' = lost
    \/ mine[w] \notin Copies(Call(w)) /\ lost' = lost \cup {<<mine[w], Call(w)>>}

\* How a step of w looks from outside.
Outside(w) ==
    \/ /\ \A c \in Calls : CopiesNext(c) = Copies(c)
       /\ \/ result' = result
          \/ Call(w) \in Calls /\ result[Call(w)] = "none" /\ result' = [result EXCEPT ![Call(w)] = "failed"]
    \/ /\ Call(w) \in Calls /\ result[Call(w)] = "none"
       /\ \A c \in Calls \ {Call(w)} : CopiesNext(c) = Copies(c)
       /\ Cardinality(Copies(Call(w))) <= Retry
       /\ \E a \in {"none", "ok", "failed"} : result' = [result EXCEPT ![Call(w)] = a]
       /\ \E n : OneMoreCopy(w, n)

\* Counting up.
Upto(k) == [i \in 1 .. k |-> i]

LEMMA UptoIs ==
    ASSUME NEW k \in Nat
    PROVE  /\ Append(Upto(k), k + 1) = Upto(k + 1)
           /\ Upto(k) \in Seq(Nat) /\ Len(Upto(k)) = k
           /\ k = 0 => Upto(k) = <<>>
<1>1. Upto(k) \in Seq(Nat) /\ Len(Upto(k)) = k /\ Len(Upto(k + 1)) = k + 1 /\ Upto(k + 1) \in Seq(Nat)
  BY DEF Upto
<1>2. \A i \in 1 .. k + 1 : Append(Upto(k), k + 1)[i] = Upto(k + 1)[i]
  BY DEF Upto
<1>3. Append(Upto(k), k + 1) \in Seq(Nat) /\ Len(Append(Upto(k), k + 1)) = k + 1
  BY <1>1
<1>4. Append(Upto(k), k + 1) = Upto(k + 1)
  BY <1>1, <1>2, <1>3
<1> QED  BY <1>1, <1>4

LEMMA WholeIs == Whole = Upto(Frames) /\ Whole # <<>> /\ (connType = "http" => Whole = <<1>>)
<1>1. Whole = Upto(Frames) /\ Frames \in Nat \ {0}
  BY Bounds DEF Whole, Upto
<1>2. Len(Whole) = Frames
  BY <1>1, UptoIs
<1>3. Frames = 1 => Whole = <<1>>
  BY <1>1 DEF Upto
<1> QED  BY <1>1, <1>2, <1>3, Bounds

LEMMA CopiesFinite ==
    ASSUME TypeInv, NEW c
    PROVE  IsFiniteSet(Copies(c)) /\ Cardinality(Copies(c)) \in Nat
<1>1. DOMAIN socks = 1 .. Len(socks) /\ Len(socks) \in Nat
  BY DEF TypeInv, LeakInv
<1>2. IsFiniteSet(DOMAIN socks)
  BY <1>1, FS_Interval
<1>3. Copies(c) \in SUBSET (DOMAIN socks)
  BY DEF Copies
<1> QED  BY <1>2, <1>3, FS_Subset, FS_CardinalityType

LEMMA QuietCopies ==
    ASSUME TypeInv, TypeInv', NEW cs, Quiet(cs), NEW c \in cs
    PROVE  CopiesNext(c) = Copies(c)
<1>1. /\ DOMAIN socks = 1 .. Len(socks) /\ Len(socks) \in Nat
      /\ DOMAIN socks' = 1 .. Len(socks') /\ Len(socks') \in Nat
  BY DEF TypeInv, LeakInv
<1>2. \A s \in 1 .. Len(socks') : handed'[s][c] = Whole => s \in 1 .. Len(socks)
  BY <1>1, WholeIs DEF Quiet
<1> QED  BY <1>1, <1>2 DEF Quiet, Copies, CopiesNext

\* One more connection has it.
LEMMA OneMore ==
    ASSUME TypeInv, NEW c, NEW s, s \notin Copies(c), CopiesNext(c) = Copies(c) \cup {s}
    PROVE  Cardinality(CopiesNext(c)) = Cardinality(Copies(c)) + 1
  BY CopiesFinite, FS_AddElement

\* A call that is being sent is not whole on its connection.
LEMMA NotYetWhole ==
    ASSUME TypeInv, RemoteInv, NEW w \in Writers, pc[w] = "send"
    PROVE  mine[w] \notin Copies(Call(w))
<1>1. CallInv(w) /\ FlowInv(w) /\ TypeOK
  BY DEF TypeInv, RemoteInv
<1>2. handed[mine[w]][Call(w)] = Upto(written[w])
  BY <1>1 DEF CallInv, Upto
<1>3. written[w] \in Nat /\ written[w] < Frames /\ Frames \in Nat
  BY <1>1, Bounds DEF FlowInv, TypeOK
<1>4. Len(Upto(written[w])) # Len(Upto(Frames))
  <2>1. Len(Upto(written[w])) = written[w]
    BY <1>3, UptoIs
  <2>2. Len(Upto(Frames)) = Frames
    BY <1>3, UptoIs
  <2> QED  BY <1>3, <2>1, <2>2
<1> QED  BY <1>2, <1>4, WholeIs DEF Copies

LEMMA LosingWriter ==
    ASSUME TypeInv, RemoteInv, NEW w \in Writers, Writer(w)
    PROVE  Losing(w)
<1>1. lost' = lost \/ (Send(w) /\ lost' = lost \cup {<<mine[w], Call(w)>>})
  BY LostIs
<1>2. Send(w) => mine[w] \notin Copies(Call(w))
  BY NotYetWhole DEF Send
<1> QED  BY <1>1, <1>2, Zenon DEF Losing

\* What gets through when the copies stay the same, or one is added.
LEMMA ThroughKept ==
    ASSUME NEW w, Losing(w), NEW c, CopiesNext(c) = Copies(c)
    PROVE  ThroughNext(c) = Through(c)
<1>1. \A s \in Copies(c) : <<s, c>> \in lost' <=> <<s, c>> \in lost
  BY DEF Losing
<1>2. Through(c) = {s \in Copies(c) : <<s, c>> \notin lost} /\ ThroughNext(c) = {s \in CopiesNext(c) : <<s, c>> \notin lost'}
  BY DEF Through, ThroughNext, Copies, CopiesNext
<1> QED  BY <1>1, <1>2

LEMMA ThroughOneMore ==
    ASSUME TypeInv, NEW w, Losing(w), NEW n, OneMoreCopy(w, n)
    PROVE  /\ Cardinality(Through(Call(w))) \in Nat
           /\ Cardinality(ThroughNext(Call(w))) =
                 IF <<n, Call(w)>> \in lost' THEN Cardinality(Through(Call(w))) ELSE Cardinality(Through(Call(w))) + 1
<1> DEFINE c == Call(w)
<1>1. \A s \in Copies(c) : <<s, c>> \in lost' <=> <<s, c>> \in lost
  BY DEF Losing
<1>2. n \notin Through(c) /\ ThroughNext(c) = IF <<n, c>> \in lost' THEN Through(c) ELSE Through(c) \cup {n}
  <2>1. n \notin Copies(c) /\ CopiesNext(c) = Copies(c) \cup {n}
    BY DEF OneMoreCopy
  <2>2. Through(c) = {s \in Copies(c) : <<s, c>> \notin lost} /\ ThroughNext(c) = {s \in CopiesNext(c) : <<s, c>> \notin lost'}
    BY DEF Through, ThroughNext, Copies, CopiesNext
  <2> HIDE DEF c
  <2> QED  BY <1>1, <2>1, <2>2
<1>3. IsFiniteSet(Through(c))
  <2>1. IsFiniteSet(Copies(c))
    BY CopiesFinite
  <2>2. Through(c) \in SUBSET Copies(c)
    BY DEF Through, Copies
  <2> QED  BY <2>1, <2>2, FS_Subset
<1>4. Cardinality(Through(c)) \in Nat /\ Cardinality(Through(c) \cup {n}) = Cardinality(Through(c)) + 1
  <2> HIDE DEF c
  <2> QED  BY <1>2, <1>3, FS_CardinalityType, FS_AddElement
<1> HIDE DEF c
<1> QED  BY <1>2, <1>4 DEF c

LEMMA RemoteInit == Init => RemoteInv
<1> SUFFICES ASSUME Init PROVE RemoteInv
  OBVIOUS
<1>1. CurrentInv
  BY DEF Init, CurrentInv, Nil
<1>2. \A w \in Writers : CallInv(w)
  BY DEF Init, CallInv
<1>3. \A w \in Writers, k \in 1 .. MaxWrites : <<w, k>> \in Calls /\ result[<<w, k>>] = "none"
  BY DEF Init, Calls
<1>4. \A s \in 1 .. Len(socks), c \in Calls : handed[s][c] = <<>>
  <2>1. CASE connType = "http"
    <3>1. socks = <<>>
      BY <2>1 DEF Init
    <3> QED  BY <3>1
  <2>2. CASE connType # "http"
    <3>1. socks = <<"open">> /\ handed = <<Unsent>>
      BY <2>2 DEF Init
    <3>2. Len(socks) = 1 /\ handed[1] = Unsent
      BY <3>1
    <3> QED  BY <3>2, UnsentType
  <2> QED  BY <2>1, <2>2
<1>5. \A w \in Writers : FreshInv(w)
  BY <1>3, <1>4 DEF FreshInv
<1> QED  BY <1>1, <1>2, <1>5 DEF RemoteInv

LEMMA QuietRows ==
    ASSUME TypeInv, TypeInv', NEW cs, Quiet(cs), NEW c \in cs, NEW s \in 1 .. Len(socks')
    PROVE  \/ s \in 1 .. Len(socks) /\ handed'[s][c] = handed[s][c] /\ (socks[s] = "closed" => socks'[s] = "closed")
           \/ handed'[s][c] = <<>>
<1>1. Len(socks) \in Nat /\ Len(socks') \in Nat
  BY DEF TypeInv, LeakInv
<1>2. s \in 1 .. Len(socks) \/ s > Len(socks)
  BY <1>1
<1> QED  BY <1>2 DEF Quiet

\* A step of a goroutine keeps the invariant, and looks like a delivery, the end
\* of a call, or nothing.
LEMMA RemoteWriter ==
    ASSUME TypeInv, TypeInv', RemoteInv, NEW w \in Writers, Writer(w)
    PROVE  RemoteInv' /\ Outside(w)
<1> USE DEF Goto
<1> DEFINE c == Call(w)
<1>0. /\ pc \in [Writers -> Stages] /\ calls \in [Writers -> 0 .. MaxWrites] /\ try \in [Writers -> 0 .. Retry]
      /\ mine \in [Writers -> 0 .. Len(socks)] /\ written \in [Writers -> 0 .. Lines]
      /\ result \in [Calls -> {"none", "ok", "failed"}] /\ handed \in Seq(Row) /\ Len(handed) = Len(socks)
      /\ socks \in Seq(Status) /\ DOMAIN socks = 1 .. Len(socks) /\ Len(socks) \in Nat
      /\ conn \in 0 .. Len(socks) /\ FlowInv(w) /\ CallInv(w) /\ FreshInv(w) /\ CurrentInv /\ LeakInv
      /\ Retry \in Nat /\ Cardinality(Copies(c)) \in Nat
  <2>1. TypeOK /\ FlowInv(w) /\ CallInv(w) /\ FreshInv(w) /\ CurrentInv /\ LeakInv
    BY DEF TypeInv, RemoteInv
  <2>2. DOMAIN socks = 1 .. Len(socks) /\ Len(socks) \in Nat /\ socks \in Seq(Status) /\ conn \in 0 .. Len(socks)
        /\ pc \in [Writers -> Stages]
    BY <2>1 DEF LeakInv, MutexInv
  <2> QED  BY <2>1, <2>2, Bounds, CopiesFinite DEF TypeOK, Row
<1>00. pc[w] # "idle" => c = <<w, calls[w]>> /\ c \in Calls /\ result[c] = "none"
  BY <1>0 DEF FlowInv, CallInv, Calls, Call
<1>97. connType' = connType
  BY DEF Writer, WriteBegin, Load, Reload, Send, SendFails, LockConnect, DialOk, DialFails, PostOk, PostFails
<1>98. ASSUME Quiet(Calls), result' = result \/ (pc[w] # "idle" /\ result' = [result EXCEPT ![c] = "failed"])
       PROVE  Outside(w)
  <2>1. \A d \in Calls : CopiesNext(d) = Copies(d)
    BY <1>98, QuietCopies
  <2> QED  BY <1>00, <1>98, <2>1 DEF Outside
\* What a step of w has to show of w; it leaves the others.
<1>99. ASSUME Quiet(Calls \ {c}), CurrentInv', CallInv(w)', calls'[w] \in 0 .. MaxWrites, calls[w] <= calls'[w],
              \A d \in Calls \ {c} : result'[d] = result[d],
              \A v \in Writers \ {w} : /\ pc'[v] = pc[v] /\ calls'[v] = calls[v] /\ try'[v] = try[v]
                                       /\ mine'[v] = mine[v] /\ written'[v] = written[v]
       PROVE  RemoteInv'
  <2>0. Len(socks') \in Nat /\ DOMAIN socks' = 1 .. Len(socks')
    BY DEF TypeInv, LeakInv
  <2>1. ASSUME NEW v \in Writers, v # w PROVE CallInv(v)' /\ FreshInv(v)'
    <3>1. /\ pc'[v] = pc[v] /\ calls'[v] = calls[v] /\ try'[v] = try[v] /\ mine'[v] = mine[v] /\ written'[v] = written[v]
          /\ CallInv(v) /\ FreshInv(v) /\ FlowInv(v) /\ mine[v] \in 0 .. Len(socks) /\ calls[v] \in 0 .. MaxWrites
      BY <1>0, <1>99, <2>1 DEF RemoteInv, TypeInv
    <3>2. \A k \in 1 .. MaxWrites : <<v, k>> \in Calls \ {c}
      BY <2>1 DEF Calls, Call
    <3>3. FreshInv(v)'
      <4>1. \A k \in 1 .. MaxWrites : k > calls[v] =>
               result[<<v, k>>] = "none" /\ \A s \in 1 .. Len(socks) : handed[s][<<v, k>>] = <<>>
        BY <3>1 DEF FreshInv
      <4>2. \A k \in 1 .. MaxWrites : result'[<<v, k>>] = result[<<v, k>>]
        BY <1>99, <3>2
      <4>3. \A k \in 1 .. MaxWrites : k > calls[v] => \A s \in 1 .. Len(socks') : handed'[s][<<v, k>>] = <<>>
        BY <1>99, <3>2, <4>1, QuietRows
      <4> QED  BY <3>1, <4>1, <4>2, <4>3 DEF FreshInv
    <3>4. ASSUME pc[v] # "idle" PROVE CallInv(v)'
      <4>1. Call(v) \in Calls \ {c} /\ Call(v)' = Call(v)
        BY <3>1, <3>2, <3>4 DEF FlowInv, Call
      <4> DEFINE d == Call(v)
      <4>2. {s \in DOMAIN socks' : handed'[s][d] = Whole'} = Copies(d)
        <5>1. CopiesNext(d) = Copies(d)
          BY <1>99, <4>1, QuietCopies
        <5>2. Whole' = Whole
          BY <1>97 DEF Whole, Frames
        <5> QED  BY <5>1, <5>2 DEF CopiesNext
      <4>3. result'[d] = "none" /\ Cardinality(Copies(d)) <= try'[v]
        BY <1>99, <3>1, <3>4, <4>1 DEF CallInv
      <4>4. \A s \in 1 .. Len(socks') : handed'[s][d] = <<>> \/ socks'[s] = "closed" \/ (pc'[v] \in {"send", "reconnect"} /\ s = mine'[v])
        <5>1. \A s \in 1 .. Len(socks) : handed[s][d] = <<>> \/ socks[s] = "closed" \/ (pc[v] \in {"send", "reconnect"} /\ s = mine[v])
          BY <3>1, <3>4 DEF CallInv
        <5>2. d \in Calls \ {c}
          BY <4>1
        <5> HIDE DEF d, c
        <5>3. \A s \in 1 .. Len(socks') :
                 \/ /\ s \in 1 .. Len(socks)
                    /\ handed'[s][d] = handed[s][d]
                    /\ socks[s] = "closed" => socks'[s] = "closed"
                 \/ handed'[s][d] = <<>>
          BY <1>99, <5>2, QuietRows
        <5> QED  BY <3>1, <5>1, <5>3
      <4>5. pc'[v] = "send" => handed'[mine'[v]][d] = [i \in 1 .. written'[v] |-> i]
        BY <1>0, <1>99, <3>1, <3>4, <4>1 DEF CallInv, FlowInv, Quiet
      <4> HIDE DEF d
      <4> QED  BY <4>1, <4>2, <4>3, <4>4, <4>5 DEF CallInv, Copies, d
    <3>5. CASE pc[v] = "idle"
      <4>1. pc'[v] = "idle"
        BY <3>1, <3>5
      <4> QED  BY <3>3, <4>1 DEF CallInv
    <3> QED  BY <3>3, <3>4, <3>5
  <2>2. FreshInv(w)'
    <3>1. \A k \in 1 .. MaxWrites : k > calls'[w] => k > calls[w] /\ <<w, k>> \in Calls \ {c}
      BY <1>0, <1>99 DEF Calls, Call
    <3>2. \A k \in 1 .. MaxWrites : k > calls[w] =>
             result[<<w, k>>] = "none" /\ \A s \in 1 .. Len(socks) : handed[s][<<w, k>>] = <<>>
      BY <1>0 DEF FreshInv
    <3>3. \A k \in 1 .. MaxWrites : k > calls'[w] => result'[<<w, k>>] = "none"
      BY <1>99, <3>1, <3>2
    <3>4. \A k \in 1 .. MaxWrites : k > calls'[w] => \A s \in 1 .. Len(socks') : handed'[s][<<w, k>>] = <<>>
      BY <1>99, <3>1, <3>2, QuietRows
    <3> QED  BY <3>3, <3>4 DEF FreshInv
  <2> QED  BY <1>99, <2>1, <2>2 DEF RemoteInv
\* The rounds of the loop that end without a delivery.
<1>96. ASSUME pc[w] # "idle", NextTry(w), Quiet(Calls), CurrentInv', UNCHANGED <<calls, written>>,
              \A v \in Writers \ {w} : mine'[v] = mine[v],
              \A s \in 1 .. Len(socks) : handed[s][c] = <<>> \/ socks'[s] = "closed" \/ try[w] = Retry
       PROVE  RemoteInv' /\ Outside(w)
  <2>1. /\ \A v \in Writers \ {w} : pc'[v] = pc[v] /\ try'[v] = try[v]
        /\ pc'[w] \in {"load", "post", "idle"}
        /\ \/ pc'[w] # "idle" /\ result' = result /\ try'[w] = try[w] + 1 /\ try[w] # Retry
           \/ pc'[w] = "idle" /\ result' = [result EXCEPT ![c] = "failed"]
    <3>1. pc'[w] # "idle" => try[w] # Retry
      BY <1>0, <1>96 DEF NextTry
    <3> QED  BY <1>96, <3>1, NextTryIs
  <2>2. Outside(w)
    BY <1>96, <1>98, <2>1
  <2>3. Quiet(Calls \ {c})
    BY <1>96 DEF Quiet
  <2>4. CallInv(w)'
    <3>1. CASE pc'[w] = "idle"
      BY <3>1 DEF CallInv
    <3>2. CASE pc'[w] # "idle"
      <4>1. Call(w)' = c /\ c \in Calls /\ result'[c] = "none"
        BY <1>00, <1>96, <2>1, <3>2 DEF Call
      <4>2. {s \in DOMAIN socks' : handed'[s][c] = Whole'} = Copies(c)
        <5>1. CopiesNext(c) = Copies(c)
          BY <1>96, <4>1, QuietCopies
        <5>2. Whole' = Whole
          BY <1>97 DEF Whole, Frames
        <5> QED  BY <5>1, <5>2 DEF CopiesNext
      <4>3. Cardinality(Copies(c)) <= try'[w]
        BY <1>0, <1>96, <2>1, <3>2 DEF CallInv
      <4>4. \A s \in 1 .. Len(socks') : handed'[s][c] = <<>> \/ socks'[s] = "closed"
        <5>1. try[w] # Retry
          BY <2>1, <3>2
        <5> HIDE DEF c
        <5> QED  BY <1>96, <4>1, <5>1, QuietRows
      <4> HIDE DEF c
      <4> QED  BY <2>1, <3>2, <4>1, <4>2, <4>3, <4>4 DEF CallInv, Copies
    <3> QED  BY <3>1, <3>2
  <2> QED  BY <1>0, <1>96, <1>99, <2>1, <2>2, <2>3, <2>4
\* A step that stays in its round and changes no connection.
<1>95. ASSUME pc[w] # "idle", UNCHANGED <<socks, handed, result, calls, try>>,
              \A v \in Writers \ {w} : pc'[v] = pc[v] /\ mine'[v] = mine[v] /\ written'[v] = written[v],
              CurrentInv', CallInv(w)'
       PROVE  RemoteInv' /\ Outside(w)
  <2>1. Quiet(Calls) /\ Quiet(Calls \ {c})
    BY <1>0, <1>95 DEF Quiet
  <2> QED  BY <1>0, <1>95, <1>98, <1>99, <2>1
\* A round begins: nothing of the call is on the current connection.
<1>94. ASSUME pc[w] \in {"load", "reload"}, UNCHANGED <<conn, socks, handed, result, calls, try>>, mine'[w] = conn,
              written'[w] = 0, pc'[w] = "connect" \/ (conn # Nil /\ pc'[w] = "send")
       PROVE  CallInv(w)'
  <2>1. Call(w)' = c /\ result'[c] = "none" /\ Cardinality(Copies(c)) <= try[w]
    BY <1>0, <1>94 DEF CallInv, Call
  <2>2. \A s \in 1 .. Len(socks) : handed[s][c] = <<>> \/ socks[s] = "closed"
    BY <1>0, <1>94 DEF CallInv
  <2>3. conn # Nil => handed[conn][c] = Upto(0)
    <3>1. conn # Nil => conn \in 1 .. Len(socks)
      BY <1>0 DEF Nil
    <3> QED  BY <1>0, <2>2, <3>1, UptoIs DEF CurrentInv
  <2>4. pc'[w] = "send" => handed'[mine'[w]][c] = Upto(written'[w])
    BY <1>94, <2>3
  <2>5. \A s \in 1 .. Len(socks') : handed'[s][c] = <<>> \/ socks'[s] = "closed"
    BY <1>94, <2>2
  <2>6. Cardinality({s \in DOMAIN socks' : handed'[s][c] = Whole'}) <= try'[w]
    BY <1>94, <1>97, <2>1 DEF Copies, Whole, Frames
  <2> HIDE DEF c
  <2> QED  BY <2>1, <2>4, <2>5, <2>6 DEF CallInv, Upto, Copies
\* A step that stays under way, and uses no connection that is open.
<1>92. ASSUME pc[w] # "idle", pc'[w] # "idle", Quiet(Calls), UNCHANGED <<result, calls, try, mine>>, pc'[w] # "send",
              \A s \in 1 .. Len(socks) : handed[s][c] = <<>> \/ socks'[s] = "closed" \/ (pc'[w] = "reconnect" /\ s = mine[w])
       PROVE  CallInv(w)'
  <2>1. Call(w)' = c /\ result'[c] = "none" /\ c \in Calls
    BY <1>00, <1>92 DEF Call
  <2>2. Cardinality({s \in DOMAIN socks' : handed'[s][c] = Whole'}) <= try'[w]
    <3>1. CopiesNext(c) = Copies(c)
      BY <1>92, <2>1, QuietCopies
    <3> QED  BY <1>0, <1>92, <1>97, <3>1 DEF CopiesNext, Whole, Frames, CallInv
  <2>3. \A s \in 1 .. Len(socks') : handed'[s][c] = <<>> \/ socks'[s] = "closed" \/ (pc'[w] = "reconnect" /\ s = mine'[w])
    <3> HIDE DEF c
    <3> QED  BY <1>92, <2>1, QuietRows
  <2> HIDE DEF c
  <2> QED  BY <1>92, <2>1, <2>2, <2>3 DEF CallInv, Copies
\* A call has room for one more delivery.
<1>93. pc[w] # "idle" => c \in Calls /\ result[c] = "none" /\ Cardinality(Copies(c)) <= Retry
  BY <1>0, <1>00 DEF CallInv
\* A request that the server takes.
<1>91. ASSUME pc[w] = "post", Taken(w), UNCHANGED <<conn, lost>>
       PROVE  /\ Quiet(Calls \ {c}) /\ CurrentInv'
              /\ \E n : OneMoreCopy(w, n)
              /\ Cardinality(CopiesNext(c)) = Cardinality(Copies(c)) + 1
              /\ \A d \in Calls \ {c} : CopiesNext(d) = Copies(d)
  <2> DEFINE n == Len(socks) + 1
  <2>1. /\ connType = "http" /\ Len(socks') = n /\ handed'[n][c] = <<1>>
        /\ \A s \in 1 .. Len(socks) : handed'[s] = handed[s] /\ socks'[s] = socks[s]
        /\ \A d \in Calls \ {c} : handed'[n][d] = <<>>
    BY <1>91, TakenIs
  <2>2. Quiet(Calls \ {c})
    <3>1. \A s \in 1 .. n : s > Len(socks) => s = n
      BY <1>0
    <3> DEFINE cs == Calls \ {c}
    <3>2. \A s \in 1 .. n, d \in cs : s > Len(socks) => handed'[s][d] = <<>>
      BY <2>1, <3>1
    <3>3. \A s \in 1 .. Len(socks), d \in cs : handed'[s][d] = handed[s][d]
      BY <2>1
    <3>4. Len(socks) <= Len(socks') /\ \A s \in 1 .. Len(socks) : socks[s] = "closed" => socks'[s] = "closed"
      BY <1>0, <2>1
    <3> HIDE DEF cs
    <3>5. Quiet(cs)
      BY <2>1, <3>2, <3>3, <3>4 DEF Quiet
    <3> QED  BY <3>5 DEF cs
  <2>3. CurrentInv'
    <3>1. conn # Nil => conn \in 1 .. Len(socks)
      BY <1>0 DEF Nil
    <3> QED  BY <1>0, <1>91, <2>1, <3>1 DEF CurrentInv
  <2>4. CopiesNext(c) = Copies(c) \cup {n} /\ n \notin Copies(c)
    <3>1. DOMAIN socks' = 1 .. n /\ 1 .. n = (1 .. Len(socks)) \cup {n} /\ n \notin 1 .. Len(socks)
      BY <1>0, <2>1 DEF TypeInv, LeakInv
    <3>2. handed'[n][c] = Whole
      BY <2>1, WholeIs
    <3> HIDE DEF c, n
    <3> QED  BY <1>0, <2>1, <3>1, <3>2 DEF Copies, CopiesNext
  <2>5. \A d \in Calls \ {c} : CopiesNext(d) = Copies(d)
    BY <2>2, QuietCopies
  <2>6. <<n, c>> \notin lost'
    <3>1. lost \subseteq (1 .. Len(socks)) \X Calls
      BY LostIs
    <3>2. n \notin 1 .. Len(socks)
      BY <1>0
    <3> HIDE DEF n, c
    <3> QED  BY <1>91, <3>1, <3>2
  <2>7. OneMoreCopy(w, n)
    <3> HIDE DEF n
    <3> QED  BY <2>4, <2>6 DEF OneMoreCopy
  <2> HIDE DEF n
  <2> QED  BY <2>2, <2>3, <2>4, <2>5, <2>7, OneMore
<1>1. CASE WriteBegin(w)
  <2>1. /\ pc[w] = "idle" /\ calls'[w] = calls[w] + 1 /\ calls'[w] \in 1 .. MaxWrites /\ try'[w] = 0
        /\ UNCHANGED <<conn, socks, handed, result, mine, written>> /\ pc'[w] \in {"post", "load"}
    BY <1>0, <1>1, Bounds DEF WriteBegin, Round
  <2>2. \A v \in Writers \ {w} : pc'[v] = pc[v] /\ calls'[v] = calls[v] /\ try'[v] = try[v]
    BY <1>0, <1>1 DEF WriteBegin
  <2>3. Quiet(Calls) /\ Quiet(Calls \ {c}) /\ CurrentInv'
    BY <1>0, <2>1 DEF Quiet, CurrentInv
  <2>4. CallInv(w)'
    <3> DEFINE k == calls'[w]
               d == <<w, k>>
    <3>1. Call(w)' = d /\ result'[d] = "none" /\ \A s \in 1 .. Len(socks) : handed[s][d] = <<>>
      <4>1. k \in 1 .. MaxWrites /\ k > calls[w]
        BY <1>0, <2>1
      <4> QED  BY <1>0, <2>1, <4>1 DEF FreshInv, Call
    <3> HIDE DEF d
    <3>2. {s \in DOMAIN socks' : handed'[s][d] = Whole'} = {}
      BY <1>0, <1>97, <2>1, <3>1, WholeIs DEF Whole, Frames
    <3>3. Cardinality({}) = 0
      BY FS_EmptySet
    <3>4. \A s \in 1 .. Len(socks') : handed'[s][d] = <<>>
      BY <2>1, <3>1
    <3>5. Cardinality({s \in DOMAIN socks' : handed'[s][d] = Whole'}) <= try'[w]
      BY <2>1, <3>2, <3>3
    <3> QED  BY <2>1, <3>1, <3>4, <3>5 DEF CallInv, Copies
  <2>5. Outside(w)
    BY <1>98, <2>1, <2>3
  <2> QED  BY <1>0, <1>99, <2>1, <2>2, <2>3, <2>4, <2>5
<1>2. CASE Load(w)
  <2>1. /\ pc[w] = "load" /\ UNCHANGED <<conn, socks, handed, result, calls, try>> /\ mine'[w] = conn /\ written'[w] = 0
        /\ pc'[w] = IF conn = Nil THEN "connect" ELSE "send"
        /\ \A v \in Writers \ {w} : pc'[v] = pc[v] /\ mine'[v] = mine[v] /\ written'[v] = written[v]
    BY <1>0, <1>2 DEF Load
  <2>2. CurrentInv'
    BY <1>0, <2>1 DEF CurrentInv
  <2>3. CallInv(w)'
    BY <2>1, <1>94
  <2> QED  BY <1>95, <2>1, <2>2, <2>3
<1>3. CASE Reload(w)
  <2>1. /\ pc[w] = "reload" /\ UNCHANGED <<conn, socks, handed, calls, written>> /\ mine'[w] = conn /\ written[w] = 0
        /\ \A v \in Writers \ {w} : mine'[v] = mine[v]
    BY <1>0, <1>3 DEF Reload, FlowInv
  <2>2. CurrentInv'
    BY <1>0, <2>1 DEF CurrentInv
  <2>3. CASE NextTry(w)
    <3>1. \A s \in 1 .. Len(socks) : handed[s][c] = <<>> \/ socks'[s] = "closed"
      BY <1>0, <2>1 DEF CallInv
    <3>2. Quiet(Calls)
      BY <1>0, <2>1 DEF Quiet
    <3> QED  BY <1>96, <2>1, <2>2, <2>3, <3>1, <3>2
  <2>4. CASE conn # Nil /\ pc' = [pc EXCEPT ![w] = "send"] /\ UNCHANGED <<try, result>>
    <3>1. pc'[w] = "send" /\ \A v \in Writers \ {w} : pc'[v] = pc[v]
      BY <1>0, <2>4
    <3>2. CallInv(w)'
      BY <1>94, <2>1, <2>4, <3>1
    <3> QED  BY <1>95, <2>1, <2>2, <2>4, <3>1, <3>2
  <2> QED  BY <1>3, <2>3, <2>4 DEF Reload
<1>4. CASE Send(w)
  <2> DEFINE m == mine[w]
  <2>1. /\ pc[w] = "send" /\ UNCHANGED <<conn, socks, calls, try, mine>> /\ c \in Calls
        /\ m \in 1 .. Len(socks) /\ written'[w] = written[w] + 1 /\ written[w] \in Nat /\ written[w] < Frames
        /\ Frames \in Nat
        /\ \A v \in Writers \ {w} : written'[v] = written[v]
        /\ \A s \in 1 .. Len(socks), d \in Calls : s # m \/ d # c => handed'[s][d] = handed[s][d]
    <3>1. pc[w] = "send" /\ UNCHANGED <<conn, socks, calls, try, mine>>
      BY <1>4 DEF Send
    <3> HIDE DEF c
    <3> QED  BY <1>4, <3>1, SendIs, Bounds DEF c
  <2>2. handed[m][c] = Upto(written[w]) /\ handed'[m][c] = Upto(written[w] + 1)
    <3>1. handed[m][c] = Upto(written[w])
      BY <1>0, <2>1 DEF CallInv, Upto
    <3>2. handed'[m][c] = Append(handed[m][c], written[w] + 1)
      BY <1>4, SendIs
    <3>3. Append(Upto(written[w]), written[w] + 1) = Upto(written[w] + 1)
      BY <2>1, UptoIs
    <3> QED  BY <3>1, <3>2, <3>3
  <2>3. Quiet(Calls \ {c}) /\ CurrentInv'
    BY <1>0, <2>1 DEF Quiet, CurrentInv
  <2>4. m \notin Copies(c)
    BY <2>1, NotYetWhole
  <2>5. CASE written'[w] = Frames /\ pc' = [pc EXCEPT ![w] = "idle"] /\ result' = [result EXCEPT ![c] = "ok"]
    <3>1. CopiesNext(c) = Copies(c) \cup {m}
      <4>1. handed'[m][c] = Whole
        BY <2>1, <2>2, <2>5, WholeIs
      <4> HIDE DEF c, m
      <4> QED  BY <1>0, <2>1, <4>1 DEF Copies, CopiesNext
    <3>2. OneMoreCopy(w, m)
      <4>1. connType # "http"
        BY <1>0, <2>1 DEF FlowInv
      <4> HIDE DEF m
      <4> QED  BY <2>4, <3>1, <4>1 DEF OneMoreCopy
    <3>3. \A d \in Calls \ {c} : CopiesNext(d) = Copies(d)
      BY <2>3, QuietCopies
    <3>4. Outside(w)
      BY <1>93, <2>1, <2>5, <3>2, <3>3 DEF Outside
    <3>5. pc'[w] = "idle" /\ \A v \in Writers \ {w} : pc'[v] = pc[v]
      BY <1>0, <2>5
    <3>6. \A d \in Calls \ {c} : result'[d] = result[d]
      BY <1>0, <2>5
    <3>7. CallInv(w)'
      BY <3>5 DEF CallInv
    <3> QED  BY <1>0, <1>99, <2>1, <2>3, <3>4, <3>5, <3>6, <3>7
  <2>6. CASE written'[w] # Frames /\ UNCHANGED <<pc, result>>
    <3>1. CopiesNext(c) = Copies(c)
      <4>1. handed'[m][c] # Whole
        <5>1. Len(Upto(written[w] + 1)) # Len(Upto(Frames))
          <6>1. written[w] + 1 \in Nat /\ written[w] + 1 # Frames
            BY <2>1, <2>6
          <6>2. Len(Upto(written[w] + 1)) = written[w] + 1
            BY <6>1, UptoIs
          <6>3. Len(Upto(Frames)) = Frames
            BY <2>1, UptoIs
          <6> QED  BY <6>1, <6>2, <6>3
        <5> QED  BY <2>2, <5>1, WholeIs
      <4>2. m \notin Copies(c)
        BY <2>4
      <4> HIDE DEF c, m
      <4> QED  BY <1>0, <2>1, <4>1, <4>2 DEF Copies, CopiesNext
    <3>2. \A d \in Calls : CopiesNext(d) = Copies(d)
      BY <2>3, <3>1, QuietCopies
    <3>3. Outside(w)
      BY <2>6, <3>2 DEF Outside
    <3>4. CallInv(w)'
      <4>1. Call(w)' = c /\ result'[c] = "none"
        BY <1>00, <2>1, <2>6 DEF Call
      <4>2. Cardinality({s \in DOMAIN socks' : handed'[s][c] = Whole'}) <= try'[w]
        BY <1>0, <1>97, <2>1, <3>1 DEF CopiesNext, Whole, Frames, CallInv
      <4>3. \A s \in 1 .. Len(socks') : handed'[s][c] = <<>> \/ socks'[s] = "closed" \/ s = mine'[w]
        <5>1. \A s \in 1 .. Len(socks) : handed[s][c] = <<>> \/ socks[s] = "closed" \/ s = m
          BY <1>0, <2>1 DEF CallInv
        <5> QED  BY <2>1, <5>1
      <4>4. handed'[mine'[w]][c] = Upto(written'[w])
        BY <2>1, <2>2
      <4> HIDE DEF c
      <4> QED  BY <2>1, <2>6, <4>1, <4>2, <4>3, <4>4 DEF CallInv, Copies, Upto
    <3> QED  BY <1>0, <1>99, <2>1, <2>3, <2>6, <3>3, <3>4
  <2> QED  BY <1>4, <2>5, <2>6, Zenon DEF Send
<1>5. CASE SendFails(w)
  <2>1. /\ pc[w] = "send" /\ UNCHANGED <<conn, calls, mine, written, handed>>
        /\ Len(socks') = Len(socks) /\ \A s \in 1 .. Len(socks) : socks'[s] = socks[s] \/ (socks[s] # "closed" /\ socks'[s] = "broken")
    <3>1. pc[w] = "send" /\ UNCHANGED <<conn, calls, mine, written, handed>>
      BY <1>5 DEF SendFails
    <3>2. socks' = socks \/ (socks[mine[w]] # "closed" /\ socks' = [socks EXCEPT ![mine[w]] = "broken"])
      BY <1>5 DEF SendFails
    <3>3. CASE socks' = socks
      BY <3>1, <3>3
    <3>4. CASE socks[mine[w]] # "closed" /\ socks' = [socks EXCEPT ![mine[w]] = "broken"]
      BY <1>0, <3>1, <3>4 DEF Status
    <3> QED  BY <3>1, <3>2, <3>3, <3>4
  <2>2. Quiet(Calls) /\ Quiet(Calls \ {c})
    BY <1>0, <2>1 DEF Quiet
  <2>3. CurrentInv'
    <3>1. conn # Nil => conn \in 1 .. Len(socks)
      BY <1>0 DEF Nil
    <3> QED  BY <1>0, <2>1, <3>1 DEF CurrentInv
  <2>4. CASE ~(try[w] < Retry) /\ NextTry(w)
    <3>1. try[w] = Retry
      BY <1>0, <2>4
    <3> QED  BY <1>96, <2>1, <2>2, <2>3, <2>4, <3>1
  <2>5. CASE pc' = [pc EXCEPT ![w] = "reconnect"] /\ UNCHANGED <<try, result>>
    <3>1. pc'[w] = "reconnect" /\ \A v \in Writers \ {w} : pc'[v] = pc[v]
      BY <1>0, <2>5
    <3>2. CallInv(w)'
      <4>1. \A s \in 1 .. Len(socks) : handed[s][c] = <<>> \/ socks'[s] = "closed" \/ s = mine[w]
        BY <1>0, <2>1 DEF CallInv
      <4> QED  BY <1>92, <2>1, <2>2, <2>5, <3>1, <4>1
    <3>3. Outside(w)
      BY <1>98, <2>2, <2>5
    <3> QED  BY <1>0, <1>99, <2>1, <2>2, <2>3, <2>5, <3>1, <3>2, <3>3
  <2> QED  BY <1>5, <2>4, <2>5 DEF SendFails
<1>6. CASE LockConnect(w)
  <2>1. /\ pc[w] \in {"connect", "reconnect"} /\ UNCHANGED <<calls, try, mine, written, handed, result>> /\ conn' = Nil
        /\ pc'[w] \in {"dial", "redial"} /\ \A v \in Writers \ {w} : pc'[v] = pc[v]
    BY <1>0, <1>6 DEF LockConnect
  <2>2. Len(socks') = Len(socks) /\ \A s \in 1 .. Len(socks) : socks'[s] = "closed"
    <3>1. socks' = [s \in 1 .. Len(socks) |-> IF s = conn THEN "closed" ELSE socks[s]]
      BY <1>0, <1>6 DEF LockConnect
    <3>2. \A s \in 1 .. Len(socks) : socks[s] # "closed" => s = conn
      BY <1>0 DEF LeakInv, NoConnectionLeaked
    <3>3. \A s \in 1 .. Len(socks) : socks'[s] = "closed"
      BY <3>1, <3>2
    <3>4. DOMAIN socks' = 1 .. Len(socks')
      BY DEF TypeInv, LeakInv
    <3> QED  BY <1>0, <3>1, <3>3, <3>4 DEF TypeInv, LeakInv
  <2>3. Quiet(Calls) /\ Quiet(Calls \ {c}) /\ CurrentInv'
    BY <1>0, <2>1, <2>2 DEF Quiet, CurrentInv
  <2>4. CallInv(w)'
    BY <1>92, <2>1, <2>2, <2>3
  <2>5. Outside(w)
    BY <1>98, <2>1, <2>3
  <2> QED  BY <1>0, <1>99, <2>1, <2>3, <2>4, <2>5
<1>7. CASE DialOk(w)
  <2>1. /\ pc[w] \in {"dial", "redial"} /\ UNCHANGED <<calls, mine, written>>
        /\ socks' = Append(socks, "open") /\ handed' = Append(handed, Unsent) /\ conn' = Len(socks')
    BY <1>7 DEF DialOk
  <2>2. /\ Len(socks') = Len(socks) + 1 /\ \A s \in 1 .. Len(socks) : socks'[s] = socks[s]
        /\ socks'[Len(socks) + 1] = "open"
    BY <1>0, <2>1 DEF Status
  <2>3. /\ \A s \in 1 .. Len(socks) : handed'[s] = handed[s]
        /\ handed'[Len(socks) + 1] = Unsent
    BY <1>0, <2>1, UnsentType
  <2>4. Quiet(Calls)
    BY <1>0, <2>2, <2>3, UnsentType DEF Quiet
  <2>5. Quiet(Calls \ {c}) /\ CurrentInv'
    BY <1>0, <2>1, <2>2, <2>4 DEF Quiet, CurrentInv
  <2>6. CASE NextTry(w)
    <3>1. \A s \in 1 .. Len(socks) : handed[s][c] = <<>> \/ socks'[s] = "closed"
      BY <1>0, <2>1, <2>2 DEF CallInv
    <3> QED  BY <1>96, <2>1, <2>4, <2>5, <2>6, <3>1
  <2>7. CASE pc' = [pc EXCEPT ![w] = "reload"] /\ UNCHANGED <<try, result>>
    <3>1. pc'[w] = "reload" /\ \A v \in Writers \ {w} : pc'[v] = pc[v]
      BY <1>0, <2>7
    <3>2. CallInv(w)'
      <4>1. \A s \in 1 .. Len(socks) : handed[s][c] = <<>> \/ socks'[s] = "closed"
        BY <1>0, <2>1, <2>2 DEF CallInv
      <4> QED  BY <1>92, <2>1, <2>4, <2>7, <3>1, <4>1
    <3>3. Outside(w)
      BY <1>98, <2>4, <2>7
    <3> QED  BY <1>0, <1>99, <2>1, <2>5, <2>7, <3>1, <3>2, <3>3
  <2> QED  BY <1>7, <2>6, <2>7, Zenon DEF DialOk
<1>8. CASE DialFails(w)
  <2>1. /\ pc[w] \in {"dial", "redial"} /\ UNCHANGED <<conn, socks, calls, mine, written, handed>> /\ NextTry(w)
    BY <1>8 DEF DialFails
  <2>2. Quiet(Calls) /\ CurrentInv'
    BY <1>0, <2>1 DEF Quiet, CurrentInv
  <2>3. \A s \in 1 .. Len(socks) : handed[s][c] = <<>> \/ socks'[s] = "closed"
    BY <1>0, <2>1 DEF CallInv
  <2> QED  BY <1>96, <2>1, <2>2, <2>3
<1>9. CASE PostOk(w)
  <2>1. /\ pc[w] = "post" /\ UNCHANGED <<conn, calls, try, mine, written, lost>> /\ Taken(w)
        /\ pc' = [pc EXCEPT ![w] = "idle"] /\ result' = [result EXCEPT ![c] = "ok"]
    BY <1>9 DEF PostOk
  <2>2. pc'[w] = "idle" /\ (\A v \in Writers \ {w} : pc'[v] = pc[v]) /\ \A d \in Calls \ {c} : result'[d] = result[d]
    BY <1>0, <2>1
  <2>3. /\ Quiet(Calls \ {c}) /\ CurrentInv' /\ \E n : OneMoreCopy(w, n)
        /\ \A d \in Calls \ {c} : CopiesNext(d) = Copies(d)
    BY <1>91, <2>1
  <2>4. Outside(w)
    BY <1>93, <2>1, <2>3 DEF Outside
  <2>5. CallInv(w)'
    BY <2>2 DEF CallInv
  <2> QED  BY <1>0, <1>99, <2>1, <2>2, <2>3, <2>4, <2>5
<1>10. CASE PostFails(w)
  <2>1. pc[w] = "post" /\ UNCHANGED <<conn, calls, mine, written, lost>> /\ NextTry(w)
    BY <1>10 DEF PostFails
  <2>2. \A s \in 1 .. Len(socks) : handed[s][c] = <<>> \/ socks[s] = "closed"
    BY <1>0, <2>1 DEF CallInv
  <2>3. CASE UNCHANGED <<socks, handed>>
    <3>1. Quiet(Calls) /\ CurrentInv'
      BY <1>0, <2>1, <2>3 DEF Quiet, CurrentInv
    <3> QED  BY <1>96, <2>1, <2>2, <2>3, <3>1
  <2>4. CASE Taken(w)
    <3>1. /\ \A v \in Writers \ {w} : pc'[v] = pc[v] /\ try'[v] = try[v]
          /\ pc'[w] \in {"load", "post", "idle"}
          /\ \/ pc'[w] # "idle" /\ result' = result /\ try'[w] = try[w] + 1
             \/ pc'[w] = "idle" /\ result' = [result EXCEPT ![c] = "failed"]
      BY <2>1, NextTryIs
    <3>2. /\ Quiet(Calls \ {c}) /\ CurrentInv' /\ \E n : OneMoreCopy(w, n)
          /\ Cardinality(CopiesNext(c)) = Cardinality(Copies(c)) + 1
          /\ \A d \in Calls \ {c} : CopiesNext(d) = Copies(d)
      BY <1>91, <2>1, <2>4
    <3>3. \E a \in {"none", "ok", "failed"} : result' = [result EXCEPT ![c] = a]
      BY <1>0, <1>00, <2>1, <3>1
    <3>4. Outside(w)
      BY <1>93, <2>1, <3>2, <3>3 DEF Outside
    <3>5. CallInv(w)'
      <4>1. CASE pc'[w] = "idle"
        BY <4>1 DEF CallInv
      <4>2. CASE pc'[w] # "idle"
        <5>1. Call(w)' = c /\ result'[c] = "none"
          BY <1>00, <2>1, <3>1, <4>2 DEF Call
        <5>2. Cardinality({s \in DOMAIN socks' : handed'[s][c] = Whole'}) <= try'[w]
          <6>1. Cardinality(Copies(c)) + 1 <= try[w] + 1
            BY <1>0, <2>1 DEF CallInv
          <6> QED  BY <1>97, <3>1, <3>2, <4>2, <6>1 DEF CopiesNext, Whole, Frames
        <5>3. \A s \in 1 .. Len(socks') : handed'[s][c] = <<>> \/ socks'[s] = "closed"
          <6>1. \A s \in 1 .. Len(socks') : s \in 1 .. Len(socks) \/ s = Len(socks) + 1
            BY <1>0, <2>1, <2>4, TakenIs
          <6> QED  BY <2>1, <2>2, <2>4, <6>1, TakenIs
        <5> HIDE DEF c
        <5> QED  BY <3>1, <4>2, <5>1, <5>2, <5>3 DEF CallInv, Copies
      <4> QED  BY <4>1, <4>2
    <3>6. \A d \in Calls \ {c} : result'[d] = result[d]
      BY <3>3
    <3> QED  BY <1>0, <1>99, <2>1, <3>1, <3>2, <3>4, <3>5, <3>6
  <2> QED  BY <1>10, <2>3, <2>4 DEF PostFails
<1> QED  BY <1>1, <1>2, <1>3, <1>4, <1>5, <1>6, <1>7, <1>8, <1>9, <1>10 DEF Writer

LEMMA RemoteNext ==
    ASSUME TypeInv, TypeInv', RemoteInv, [Next]_vars
    PROVE  RemoteInv' /\ [Remote!DeliveryNext]_(Remote!deliveryVars)
<1> DEFINE given       == [c \in Calls |-> Cardinality(Copies(c))]
           givenNext   == [c \in Calls |-> Cardinality(CopiesNext(c))]
           through     == [c \in Calls |-> Cardinality(Through(c))]
           throughNext == [c \in Calls |-> Cardinality(ThroughNext(c))]
<1>0. (\A c \in Calls : Cardinality(Copies(c)) \in Nat) /\ DOMAIN socks = 1 .. Len(socks) /\ Len(socks) \in Nat
      /\ Retry \in Nat /\ conn \in 0 .. Len(socks) /\ CurrentInv /\ result \in [Calls -> {"none", "ok", "failed"}]
  <2>1. TypeOK /\ LeakInv /\ CurrentInv
    BY DEF TypeInv, RemoteInv
  <2>2. DOMAIN socks = 1 .. Len(socks) /\ Len(socks) \in Nat /\ conn \in 0 .. Len(socks)
    BY <2>1 DEF LeakInv
  <2> QED  BY <2>1, <2>2, CopiesFinite, Bounds DEF TypeOK
<1>1. connType' = connType
  <2>1. ASSUME NEW w \in Writers, Writer(w) PROVE connType' = connType
    BY <2>1 DEF Writer, WriteBegin, Load, Reload, Send, SendFails, LockConnect, DialOk, DialFails, PostOk, PostFails
  <2> QED  BY <2>1 DEF Next, Close, Stall, Finished, vars
<1>2. Whole' = Whole
  BY <1>1 DEF Whole, Frames
\* A step in the terms of Delivery.
<1>3. ASSUME result' = result, givenNext = given, throughNext = through PROVE [Remote!DeliveryNext]_(Remote!deliveryVars)
  BY <1>1, <1>2, <1>3 DEF Remote!deliveryVars, Copies, CopiesNext, Through, ThroughNext
<1>4. ASSUME NEW d \in Calls, givenNext = given, throughNext = through,
             result[d] = "none", result' = [result EXCEPT ![d] = "failed"]
      PROVE  Remote!DeliveryNext
  <2>1. Remote!GiveUp(d)
    BY <1>1, <1>2, <1>4 DEF Remote!GiveUp, Copies, CopiesNext, Through, ThroughNext
  <2> QED  BY <2>1 DEF Remote!DeliveryNext
<1>5. ASSUME NEW d \in Calls, result[d] = "none", Cardinality(Copies(d)) <= Retry,
             NEW through1 \in BOOLEAN, NEW a \in {"none", "ok", "failed"},
             givenNext = [given EXCEPT ![d] = @ + 1],
             throughNext = IF through1 THEN [through EXCEPT ![d] = @ + 1] ELSE through,
             connType = "http" /\ a = "ok" => through1, result' = [result EXCEPT ![d] = a]
      PROVE  Remote!DeliveryNext
  <2>1. given[d] < Retry + 1
    BY <1>0, <1>5
  <2>2. given' = givenNext /\ through' = throughNext
    BY <1>2 DEF Copies, CopiesNext, Through, ThroughNext
  <2> DEFINE next == IF through1 THEN [through EXCEPT ![d] = @ + 1] ELSE through
  <2>3. given' = [given EXCEPT ![d] = @ + 1] /\ through' = next
    BY <1>5, <2>2, Zenon
  <2>4. Remote!HandOver(d)
    BY <1>1, <1>5, <2>1, <2>3, Zenon DEF Remote!HandOver, Copies, Through
  <2> QED  BY <2>4 DEF Remote!DeliveryNext
<1>6. ASSUME NEW w \in Writers, Writer(w) PROVE RemoteInv' /\ [Remote!DeliveryNext]_(Remote!deliveryVars)
  <2>1. RemoteInv' /\ Outside(w) /\ Losing(w)
    BY <1>6, RemoteWriter, LosingWriter
  <2> DEFINE d == Call(w)
  <2>2. CASE /\ \A c \in Calls : CopiesNext(c) = Copies(c)
             /\ \/ result' = result
                \/ d \in Calls /\ result[d] = "none" /\ result' = [result EXCEPT ![d] = "failed"]
    <3>1. \A c \in Calls : ThroughNext(c) = Through(c)
      BY <2>1, <2>2, ThroughKept
    <3>2. givenNext = given /\ throughNext = through
      BY <2>2, <3>1
    <3> HIDE DEF given, givenNext, through, throughNext
    <3> QED  BY <1>3, <1>4, <2>1, <2>2, <3>2
  <2>3. CASE /\ d \in Calls /\ result[d] = "none"
             /\ \A c \in Calls \ {d} : CopiesNext(c) = Copies(c)
             /\ Cardinality(Copies(d)) <= Retry
             /\ \E a \in {"none", "ok", "failed"} : result' = [result EXCEPT ![d] = a]
             /\ \E n : OneMoreCopy(w, n)
    <3>1. PICK n : OneMoreCopy(w, n)
      BY <2>3
    <3>2. PICK a \in {"none", "ok", "failed"} : result' = [result EXCEPT ![d] = a]
      BY <2>3
    <3> DEFINE yes == <<n, d>> \notin lost'
    <3>3. yes \in BOOLEAN /\ (connType = "http" /\ a = "ok" => yes)
      BY <3>1 DEF OneMoreCopy
    <3>4. givenNext = [given EXCEPT ![d] = @ + 1]
      <4>1. Cardinality(CopiesNext(d)) = Cardinality(Copies(d)) + 1
        BY <3>1, OneMore DEF OneMoreCopy
      <4> HIDE DEF d
      <4> QED  BY <2>3, <4>1
    <3>5. throughNext = IF yes THEN [through EXCEPT ![d] = @ + 1] ELSE through
      <4>1. Cardinality(ThroughNext(d)) = IF yes THEN Cardinality(Through(d)) + 1 ELSE Cardinality(Through(d))
        BY <2>1, <3>1, ThroughOneMore
      <4>2. \A c \in Calls \ {d} : ThroughNext(c) = Through(c)
        BY <2>1, <2>3, ThroughKept
      <4> HIDE DEF d, yes
      <4>3. CASE yes
        <5>1. throughNext = [c \in Calls |-> IF c = d THEN Cardinality(Through(d)) + 1 ELSE Cardinality(Through(c))]
          BY <2>3, <4>1, <4>2, <4>3
        <5> QED  BY <2>3, <4>3, <5>1
      <4>4. CASE ~yes
        BY <2>3, <4>1, <4>2, <4>4
      <4> QED  BY <4>3, <4>4
    <3> HIDE DEF given, givenNext, through, throughNext, yes, d
    <3> QED  BY <1>5, <2>1, <2>3, <3>2, <3>3, <3>4, <3>5
  <2> QED  BY <2>1, <2>2, <2>3 DEF Outside
\* Close and a stall give nothing to anybody.
<1>7. ASSUME UNCHANGED <<connType, pc, calls, try, mine, written, handed, lost, result>>, Len(socks') = Len(socks),
             \A s \in 1 .. Len(socks) : socks[s] = "closed" => socks'[s] = "closed", CurrentInv'
      PROVE  RemoteInv' /\ [Remote!DeliveryNext]_(Remote!deliveryVars)
  <2>1. DOMAIN socks' = DOMAIN socks
    BY <1>0, <1>7 DEF TypeInv, LeakInv
  <2>2. givenNext = given /\ throughNext = through
    BY <1>7, <2>1 DEF Copies, CopiesNext, Through, ThroughNext
  <2>3. ASSUME NEW w \in Writers PROVE CallInv(w)' /\ FreshInv(w)'
    <3>1. CallInv(w) /\ FreshInv(w)
      BY DEF RemoteInv
    <3>2. Call(w)' = Call(w) /\ {s \in DOMAIN socks' : handed'[s][Call(w)] = Whole'} = Copies(Call(w))
      BY <1>2, <1>7, <2>1 DEF Call, Copies
    <3>3. FreshInv(w)'
      BY <1>7, <3>1 DEF FreshInv
    <3>4. CASE pc[w] = "idle"
      BY <1>7, <3>3, <3>4 DEF CallInv
    <3>5. CASE pc[w] # "idle"
      <4>1. \A s \in 1 .. Len(socks') : handed'[s][Call(w)] = <<>> \/ socks'[s] = "closed" \/ (pc'[w] \in {"send", "reconnect"} /\ s = mine'[w])
        BY <1>7, <3>1, <3>5 DEF CallInv
      <4> QED  BY <1>7, <3>1, <3>2, <3>3, <3>5, <4>1 DEF CallInv, Copies
    <3> QED  BY <3>4, <3>5
  <2>4. RemoteInv'
    BY <1>7, <2>3 DEF RemoteInv
  <2> HIDE DEF given, givenNext, through, throughNext
  <2> QED  BY <1>3, <1>7, <2>2, <2>4
<1>8. CASE Close
  <2>1. Len(socks') = Len(socks) /\ \A s \in 1 .. Len(socks) : socks[s] = "closed" => socks'[s] = "closed"
    BY <1>0, <1>8 DEF Close, TypeInv, LeakInv
  <2>2. CurrentInv'
    BY <1>8 DEF Close, CurrentInv
  <2> QED  BY <1>7, <1>8, <2>1, <2>2 DEF Close, writerVars
<1>9. CASE Stall
  <2>1. PICK s \in DOMAIN socks : socks[s] = "open" /\ socks' = [socks EXCEPT ![s] = "stalled"]
    BY <1>9 DEF Stall
  <2>2. Len(socks') = Len(socks) /\ \A t \in 1 .. Len(socks) : socks'[t] = socks[t] \/ (socks[t] # "closed" /\ socks'[t] = "stalled")
    BY <1>0, <2>1 DEF TypeInv, LeakInv
  <2>3. CurrentInv'
    <3>1. conn # Nil => conn \in 1 .. Len(socks)
      BY <1>0 DEF Nil
    <3> QED  BY <1>0, <1>9, <2>2, <3>1 DEF Stall, CurrentInv
  <2> QED  BY <1>7, <1>9, <2>2, <2>3 DEF Stall, writerVars
<1>10. CASE UNCHANGED vars
  BY <1>0, <1>7, <1>10 DEF vars, writerVars, CurrentInv
<1> QED  BY <1>6, <1>8, <1>9, <1>10 DEF Next, Finished

LEMMA RemoteMapInit == Init => Remote!DeliveryInit
<1> SUFFICES ASSUME Init PROVE Remote!DeliveryInit
  OBVIOUS
<1>1. \A s \in DOMAIN socks, c \in Calls : handed[s][c] # Whole
  <2>1. CASE connType = "http"
    <3>1. socks = <<>>
      BY <2>1 DEF Init
    <3> QED  BY <3>1
  <2>2. CASE connType # "http"
    <3>1. socks = <<"open">> /\ handed = <<Unsent>>
      BY <2>2 DEF Init
    <3>2. DOMAIN socks = {1} /\ handed[1] = Unsent
      BY <3>1
    <3> QED  BY <3>2, UnsentType, WholeIs
  <2> QED  BY <2>1, <2>2
<1>2. \A c \in Calls : {s \in DOMAIN socks : handed[s][c] = Whole} = {}
  BY <1>1
<1>3. \A c \in Calls : {s \in DOMAIN socks : handed[s][c] = Whole /\ <<s, c>> \notin lost} = {}
  BY <1>1
<1>4. Cardinality({}) = 0
  BY FS_EmptySet
<1> QED  BY <1>2, <1>3, <1>4 DEF Init, Remote!DeliveryInit

\* ImplementsDelivery: whatever the network loses, and the other goroutines and
\* Close do, a Write that reports success has given its payload to the network in
\* one piece; no call does so too often, and it is on the remote side at most as
\* many times; and over HTTP a success means that it is there.
THEOREM RefinesDelivery == Spec => ImplementsDelivery
<1>1. TypeInv /\ TypeInv' /\ RemoteInv /\ [Next]_vars => RemoteInv' /\ [Remote!DeliveryNext]_(Remote!deliveryVars)
  BY RemoteNext
<1> QED
  BY <1>1, TypeInit, TypeStep, RemoteInit, RemoteMapInit, PTL DEF Spec, ImplementsDelivery, Remote!DeliverySpec

-----------------------------------------------------------------------------
(* A Write that no other one overlaps fails only with the network *)

Works(s) == socks[s] \in {"open", "stalled"}

\* While a Write is alone and Close has not come, every round but the first has
\* begun with a fault, for the connection it found was a new one, or none.
AloneInv(w) == alone[w] /\ pc[w] # "idle" /\ closer = "idle" =>
    /\ \A v \in Writers \ {w} : pc[v] = "idle"
    /\ since[w] <= faults
    /\ pc[w] = "post" <=> connType = "http"
    /\ pc[w] \in {"load", "connect", "dial", "reload", "send"} => try[w] = 0 \/ since[w] + try[w] <= faults + 1
    /\ pc[w] \in {"reconnect", "redial", "post"} => since[w] + try[w] <= faults
    /\ pc[w] = "load" => try[w] = 0 \/ conn = Nil \/ Works(conn)
    /\ pc[w] = "reload" => conn # Nil /\ Works(conn)
    /\ pc[w] = "send" => try[w] = 0 \/ Works(mine[w])

LEMMA NextRound ==
    ASSUME TypeInv, NEW w \in Writers, NextTry(w)
    PROVE  /\ \A v \in Writers \ {w} : pc'[v] = pc[v]
           /\ \/ pc'[w] = Round /\ try'[w] = try[w] + 1
              \/ pc'[w] = "idle" /\ try[w] = Retry
<1>1. pc \in [Writers -> Stages] /\ try \in [Writers -> 0 .. Retry] /\ Retry \in Nat
  BY Bounds DEF TypeInv, TypeOK, LeakInv, MutexInv
<1>2. CASE try[w] < Retry
  BY <1>1, <1>2 DEF NextTry, Goto
<1>3. CASE ~(try[w] < Retry)
  <2>1. try[w] = Retry
    BY <1>1, <1>3
  <2> QED  BY <1>1, <1>3, <2>1 DEF NextTry, Goto
<1> QED  BY <1>2, <1>3

\* A step of a Write that is alone.
LEMMA AloneGoesOn ==
    ASSUME TypeInv, NEW w \in Writers, Writer(w), AloneInv(w), alone[w], pc[w] # "idle", closer = "idle"
    PROVE  AloneInv(w)' /\ (Fails(w) => faults' - since[w] >= Retry)
<1>1. /\ pc \in [Writers -> Stages] /\ try[w] \in Nat /\ Retry \in Nat /\ faults \in Nat /\ since[w] \in Nat
      /\ conn \in 0 .. Len(socks) /\ socks \in Seq(Status) /\ Len(socks) \in Nat
      /\ Call(w) \in Calls /\ result \in [Calls -> {"none", "ok", "failed"}]
      /\ mine \in [Writers -> 0 .. Len(socks)]
  <2>1. try[w] \in 0 .. Retry /\ faults \in 0 .. MaxFaults /\ since[w] \in 0 .. MaxFaults /\ FlowInv(w)
    BY DEF TypeInv, TypeOK
  <2> QED  BY <2>1, Bounds DEF TypeInv, TypeOK, LeakInv, MutexInv, FlowInv, Calls, Call, Status
<1>2. /\ \A v \in Writers \ {w} : pc[v] = "idle"
      /\ since[w] <= faults
      /\ pc[w] = "post" <=> connType = "http"
      /\ pc[w] \in {"load", "connect", "dial", "reload", "send"} => try[w] = 0 \/ since[w] + try[w] <= faults + 1
      /\ pc[w] \in {"reconnect", "redial", "post"} => since[w] + try[w] <= faults
      /\ pc[w] = "load" => try[w] = 0 \/ conn = Nil \/ Works(conn)
      /\ pc[w] = "reload" => conn # Nil /\ Works(conn)
      /\ pc[w] = "send" => try[w] = 0 \/ Works(mine[w])
  BY DEF AloneInv
<1>3. UNCHANGED <<connType, alone, since, closer>>
  BY DEF Writer, WriteBegin, Load, Reload, Send, SendFails, LockConnect, DialOk, DialFails, PostOk, PostFails
<1>4. MayFail => faults' = faults + 1 /\ faults' \in Nat
  BY <1>1 DEF MayFail
<1>5. CASE Load(w)
  <2>1. /\ pc[w] = "load" /\ pc' = [pc EXCEPT ![w] = IF conn = Nil THEN "connect" ELSE "send"]
        /\ mine' = [mine EXCEPT ![w] = conn] /\ UNCHANGED <<conn, socks, try, faults>>
    BY <1>5 DEF Load, Goto
  <2>2. /\ \A v \in Writers \ {w} : pc'[v] = pc[v]
        /\ pc'[w] = IF conn = Nil THEN "connect" ELSE "send"
        /\ mine'[w] = conn
    BY <1>1, <2>1
  <2>3. pc'[w] = "send" => try'[w] = 0 \/ socks'[mine'[w]] \in {"open", "stalled"}
    BY <1>2, <2>1, <2>2 DEF Works
  <2> QED  BY <1>2, <1>3, <2>1, <2>2, <2>3 DEF AloneInv, Works, Fails
<1>6. CASE Reload(w)
  <2>1. /\ pc[w] = "reload" /\ conn # Nil /\ pc' = [pc EXCEPT ![w] = "send"]
        /\ mine' = [mine EXCEPT ![w] = conn] /\ UNCHANGED <<conn, socks, try, faults>>
    BY <1>2, <1>6 DEF Reload, Goto
  <2>2. /\ \A v \in Writers \ {w} : pc'[v] = pc[v]
        /\ pc'[w] = "send" /\ mine'[w] = conn
    BY <1>1, <2>1
  <2> QED  BY <1>2, <1>3, <2>1, <2>2 DEF AloneInv, Works, Fails
<1>7. CASE Send(w)
  <2>1. /\ pc[w] = "send" /\ UNCHANGED <<conn, socks, try, mine, faults>>
        /\ \/ pc' = pc
           \/ pc' = [pc EXCEPT ![w] = "idle"] /\ result' = [result EXCEPT ![Call(w)] = "ok"]
    BY <1>7 DEF Send, Goto
  <2>2. CASE pc' = pc
    BY <1>2, <1>3, <2>1, <2>2 DEF AloneInv, Works, Fails
  <2>3. CASE pc' = [pc EXCEPT ![w] = "idle"] /\ result' = [result EXCEPT ![Call(w)] = "ok"]
    BY <1>1, <2>3 DEF AloneInv, Fails
  <2> QED  BY <2>1, <2>2, <2>3
<1>8. CASE SendFails(w)
  <2>1. /\ pc[w] = "send"
        /\ \/ socks[mine[w]] \in {"closed", "broken"} /\ faults' = faults
           \/ MayFail
        /\ \/ pc' = [pc EXCEPT ![w] = "reconnect"] /\ try' = try
           \/ ~(try[w] < Retry) /\ NextTry(w)
    BY <1>8 DEF SendFails, Goto
  <2>2. since[w] + try[w] <= faults' /\ since[w] <= faults' /\ faults' \in Nat
    <3>1. CASE socks[mine[w]] \in {"closed", "broken"} /\ faults' = faults
      <4>1. try[w] = 0
        BY <1>2, <2>1, <3>1 DEF Works
      <4> QED  BY <1>1, <1>2, <3>1, <4>1
    <3>2. CASE MayFail
      BY <1>1, <1>2, <1>4, <2>1, <3>2
    <3> QED  BY <2>1, <3>1, <3>2
  <2>3. CASE pc' = [pc EXCEPT ![w] = "reconnect"] /\ try' = try
    <3>1. pc'[w] = "reconnect" /\ \A v \in Writers \ {w} : pc'[v] = pc[v]
      BY <1>1, <2>3
    <3> QED  BY <1>2, <1>3, <2>1, <2>2, <2>3, <3>1 DEF AloneInv, Fails
  <2>4. CASE ~(try[w] < Retry) /\ NextTry(w)
    <3>1. pc'[w] = "idle"
      BY <1>1, <2>4 DEF NextTry, Goto
    <3>2. Retry <= try[w]
      BY <1>1, <2>4
    <3>3. faults' - since[w] >= Retry
      BY <1>1, <2>2, <3>2
    <3> QED  BY <3>1, <3>3 DEF AloneInv
  <2> QED  BY <2>1, <2>3, <2>4
<1>9. CASE LockConnect(w)
  <2>1. /\ UNCHANGED <<try, faults>>
        /\ \/ pc[w] = "connect" /\ pc' = [pc EXCEPT ![w] = "dial"]
           \/ pc[w] = "reconnect" /\ pc' = [pc EXCEPT ![w] = "redial"]
    BY <1>9 DEF LockConnect, Goto
  <2>2. /\ \A v \in Writers \ {w} : pc'[v] = pc[v]
        /\ (pc[w] = "connect" /\ pc'[w] = "dial") \/ (pc[w] = "reconnect" /\ pc'[w] = "redial")
    BY <1>1, <2>1
  <2> QED  BY <1>2, <1>3, <2>1, <2>2 DEF AloneInv, Fails
\* The next round begins, or there is none.
<1>10. ASSUME NextTry(w), faults' \in Nat, faults <= faults',
              since[w] + try[w] <= faults', pc[w] = "post" => since[w] + try[w] + 1 <= faults',
              conn' = Nil \/ socks'[conn'] \in {"open", "stalled"} \/ pc[w] = "post"
       PROVE  AloneInv(w)' /\ (Fails(w) => faults' - since[w] >= Retry)
  <2>1. /\ \A v \in Writers \ {w} : pc'[v] = pc[v]
        /\ \/ pc'[w] = Round /\ try'[w] = try[w] + 1
           \/ pc'[w] = "idle" /\ try[w] = Retry
    BY <1>10, NextRound
  <2>2. CASE pc'[w] = Round /\ try'[w] = try[w] + 1
    <3>1. since[w] <= faults' /\ since[w] + try'[w] <= faults' + 1
      BY <1>1, <1>2, <1>10, <2>2
    <3>2. pc'[w] = "post" <=> connType = "http"
      BY <2>2 DEF Round
    <3>3. pc'[w] \in {"load", "post"}
      BY <2>2 DEF Round
    <3>4. pc'[w] = "post" => since[w] + try'[w] <= faults'
      BY <1>1, <1>2, <1>10, <2>2, <3>2
    <3>5. pc'[w] = "load" => conn' = Nil \/ socks'[conn'] \in {"open", "stalled"}
      BY <1>2, <1>10, <3>2
    <3> QED  BY <1>2, <1>3, <2>1, <3>1, <3>2, <3>3, <3>4, <3>5 DEF AloneInv, Works, Fails
  <2>3. CASE pc'[w] = "idle" /\ try[w] = Retry
    <3>1. faults' - since[w] >= Retry
      BY <1>1, <1>10, <2>3
    <3> QED  BY <2>3, <3>1 DEF AloneInv
  <2> QED  BY <2>1, <2>2, <2>3
<1>11. CASE DialOk(w)
  <2>1. /\ socks' = Append(socks, "open") /\ conn' = Len(socks') /\ faults' = faults
        /\ \/ pc[w] = "dial" /\ pc' = [pc EXCEPT ![w] = "reload"] /\ try' = try
           \/ pc[w] = "redial" /\ NextTry(w)
    BY <1>11 DEF DialOk, Goto
  <2>2. conn' = Len(socks) + 1 /\ conn' # Nil /\ socks'[conn'] = "open"
    BY <1>1, <2>1 DEF Nil
  <2>3. CASE pc[w] = "dial" /\ pc' = [pc EXCEPT ![w] = "reload"] /\ try' = try
    <3>1. pc'[w] = "reload" /\ \A v \in Writers \ {w} : pc'[v] = pc[v]
      BY <1>1, <2>3
    <3>2. try'[w] = 0 \/ since'[w] + try'[w] <= faults' + 1
      BY <1>2, <1>3, <2>1, <2>3
    <3> QED  BY <1>2, <1>3, <2>1, <2>2, <2>3, <3>1, <3>2 DEF AloneInv, Works, Fails
  <2>4. CASE pc[w] = "redial" /\ NextTry(w)
    BY <1>1, <1>2, <1>10, <2>1, <2>2, <2>4
  <2> QED  BY <2>1, <2>3, <2>4
<1>12. CASE DialFails(w)
  <2>1. pc[w] \in {"dial", "redial"} /\ MayFail /\ NextTry(w) /\ conn' = conn
    BY <1>12 DEF DialFails
  <2>2. conn = Nil
    <3>1. mu = w /\ mu # Nobody
      BY <2>1, WriterAssumption DEF TypeInv, LeakInv, MutexInv
    <3> QED  BY <3>1 DEF TypeInv, LeakInv, MutexInv
  <2>3. since[w] + try[w] <= faults' /\ faults <= faults' /\ faults' \in Nat
    BY <1>1, <1>2, <1>4, <2>1
  <2> QED  BY <1>10, <2>1, <2>2, <2>3
<1>13. CASE PostOk(w)
  <2>1. pc' = [pc EXCEPT ![w] = "idle"] /\ result' = [result EXCEPT ![Call(w)] = "ok"]
    BY <1>13 DEF PostOk, Goto
  <2> QED  BY <1>1, <2>1 DEF AloneInv, Fails
<1>14. CASE PostFails(w)
  <2>1. pc[w] = "post" /\ MayFail /\ NextTry(w)
    BY <1>14 DEF PostFails
  <2>2. since[w] + try[w] + 1 <= faults' /\ since[w] + try[w] <= faults' /\ faults <= faults' /\ faults' \in Nat
    BY <1>1, <1>2, <1>4, <2>1
  <2> QED  BY <1>10, <2>1, <2>2
<1>15. ~WriteBegin(w)
  BY DEF WriteBegin
<1> QED
  BY <1>5, <1>6, <1>7, <1>8, <1>9, <1>11, <1>12, <1>13, <1>14, <1>15 DEF Writer

\* What the step of one goroutine does to another.
LEMMA OthersStay ==
    ASSUME TypeInv, NEW w \in Writers, Writer(w), NEW v \in Writers \ {w}
    PROVE  pc'[v] = pc[v] /\ (alone'[v] = alone[v] \/ (pc[w] = "idle" /\ alone'[v] = (alone[v] /\ pc[v] = "idle")))
<1>1. pc \in [Writers -> Stages]
  BY DEF TypeInv, LeakInv, MutexInv
<1>2. CASE WriteBegin(w)
  BY <1>1, <1>2 DEF WriteBegin, Goto
<1>3. CASE ~WriteBegin(w)
  <2>1. alone' = alone
    BY <1>3 DEF Writer, Load, Reload, Send, SendFails, LockConnect, DialOk, DialFails, PostOk, PostFails
  <2>2. NextTry(w) \/ pc' = pc \/ \E l \in Stages : pc' = [pc EXCEPT ![w] = l]
    BY <1>3 DEF Writer, Load, Reload, Send, SendFails, LockConnect, DialOk, DialFails, PostOk, PostFails, Goto, Stages
  <2> QED  BY <1>1, <2>1, <2>2, NextRound
<1> QED  BY <1>2, <1>3

LEMMA AloneStep ==
    TypeInv /\ (\A w \in Writers : AloneInv(w)) /\ [Next]_vars
        => (\A w \in Writers : AloneInv(w)') /\ \A w \in Writers : Fails(w) /\ alone[w] => Excused(w)
<1> SUFFICES ASSUME TypeInv, \A w \in Writers : AloneInv(w), [Next]_vars, NEW v \in Writers
             PROVE  AloneInv(v)' /\ (Fails(v) /\ alone[v] => Excused(v))
  OBVIOUS
<1>1. alone \in [Writers -> BOOLEAN] /\ pc \in [Writers -> Stages] /\ closer \in {"idle", "done"}
  BY DEF TypeInv, TypeOK, LeakInv, MutexInv
<1>2. ASSUME Writer(v) PROVE AloneInv(v)' /\ (Fails(v) /\ alone[v] => Excused(v))
  <2>1. CASE pc[v] = "idle"
    <3>1. WriteBegin(v)
      BY <1>2, <2>1 DEF Writer, Load, Reload, Send, SendFails, LockConnect, DialOk, DialFails, PostOk, PostFails
    <3>2. /\ alone'[v] = (\A u \in Writers : pc[u] = "idle") /\ pc'[v] = Round /\ try'[v] = 0 /\ since'[v] = faults
          /\ faults' = faults /\ connType' = connType /\ \A u \in Writers \ {v} : pc'[u] = pc[u]
      BY <1>1, <3>1 DEF WriteBegin, Goto, TypeInv, TypeOK
    <3>3. faults \in Nat /\ faults + 0 <= faults
      <4>1. faults \in 0 .. MaxFaults
        BY DEF TypeInv, TypeOK
      <4> QED  BY <4>1, Bounds
    <3>4. (pc'[v] = "post" <=> connType = "http") /\ pc'[v] \in {"load", "post"}
      BY <3>2 DEF Round
    <3> QED  BY <2>1, <3>2, <3>3, <3>4 DEF AloneInv, Fails
  <2>2. CASE pc[v] # "idle" /\ alone[v] /\ closer = "idle"
    BY <1>2, <2>2, AloneGoesOn DEF Excused
  <2>3. CASE pc[v] # "idle" /\ ~(alone[v] /\ closer = "idle")
    <3>1. UNCHANGED <<alone, closer>>
      BY <1>2, <2>3 DEF Writer, WriteBegin, Load, Reload, Send, SendFails, LockConnect, DialOk, DialFails, PostOk, PostFails
    <3> QED  BY <1>1, <2>3, <3>1 DEF AloneInv, Excused
  <2> QED  BY <2>1, <2>2, <2>3
<1>3. ASSUME NEW w \in Writers, w # v, Writer(w) PROVE AloneInv(v)' /\ (Fails(v) /\ alone[v] => Excused(v))
  <2>1. pc'[v] = pc[v] /\ (alone'[v] = alone[v] \/ (pc[w] = "idle" /\ alone'[v] = (alone[v] /\ pc[v] = "idle")))
    BY <1>3, OthersStay
  <2>2. closer' = closer
    BY <1>3 DEF Writer, WriteBegin, Load, Reload, Send, SendFails, LockConnect, DialOk, DialFails, PostOk, PostFails
  <2>3. CASE WriteBegin(w)
    <3>1. alone'[v] = (alone[v] /\ pc[v] = "idle")
      BY <1>3, <2>3 DEF WriteBegin
    <3> QED  BY <2>1, <3>1 DEF AloneInv, Fails
  <2>4. CASE ~WriteBegin(w)
    <3>1. pc[w] # "idle"
      BY <1>3, <2>4 DEF Writer, Load, Reload, Send, SendFails, LockConnect, DialOk, DialFails, PostOk, PostFails
    <3>2. alone'[v] = alone[v]
      BY <2>1, <3>1
    <3>3. alone[v] /\ pc[v] # "idle" => closer # "idle"
      BY <1>3, <3>1 DEF AloneInv
    <3> QED  BY <2>1, <2>2, <3>2, <3>3 DEF AloneInv, Fails
  <2> QED  BY <2>3, <2>4
<1>4. CASE Close
  BY <1>4 DEF Close, AloneInv, Fails, writerVars
<1>5. CASE Stall
  <2>1. /\ UNCHANGED <<connType, conn, pc, try, mine, closer, faults, since, alone>>
        /\ \E s \in DOMAIN socks : socks[s] = "open" /\ socks' = [socks EXCEPT ![s] = "stalled"]
    BY <1>5 DEF Stall, writerVars
  <2>2. \A s : socks[s] \in {"open", "stalled"} => socks'[s] \in {"open", "stalled"} \/ s \notin DOMAIN socks
    BY <2>1
  <2>3. DOMAIN socks = 1 .. Len(socks) /\ conn \in 0 .. Len(socks) /\ Len(socks) \in Nat
    BY DEF TypeInv, LeakInv
  <2>4. conn # Nil => conn \in DOMAIN socks
    BY <2>3 DEF Nil
  <2>5. pc[v] = "send" => mine[v] \in DOMAIN socks
    BY <2>3 DEF TypeInv, FlowInv
  <2>6. AloneInv(v)
    OBVIOUS
  <2> QED  BY <2>1, <2>2, <2>4, <2>5, <2>6 DEF AloneInv, Works, Fails
<1>6. CASE UNCHANGED vars
  BY <1>6 DEF vars, writerVars, AloneInv, Works, Fails
<1> QED  BY <1>2, <1>3, <1>4, <1>5, <1>6 DEF Next, Finished

\* AloneFailsOnlyWithNetwork: a Write that no other one overlaps fails only
\* when the network did, anew in every round but the first, or after a Close.
THEOREM AloneFailsCorrect == Spec => AloneFailsOnlyWithNetwork
<1>1. Init => \A w \in Writers : AloneInv(w)
  BY DEF Init, AloneInv
<1>2. TypeInv /\ (\A w \in Writers : AloneInv(w)) /\ [Next]_vars
          => (\A w \in Writers : AloneInv(w))' /\ [\A w \in Writers : Fails(w) /\ alone[w] => Excused(w)]_vars
  BY AloneStep
<1> QED  BY <1>1, <1>2, TypeInit, TypeStep, PTL DEF Spec, AloneFailsOnlyWithNetwork

=============================================================================
