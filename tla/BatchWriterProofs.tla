-------------------------- MODULE BatchWriterProofs --------------------------
(***************************************************************************)
(* Proofs about BatchWriter, for any number of writers, lines and faults.  *)
(* What carries them: a step moves bytes from the front of the owner's     *)
(* rest to the end of the stream, and does nothing else to either; so the  *)
(* stream followed by rest stays what it was when the Write began.  A call *)
(* of the writer below takes what follows the bytes bufio is done with;    *)
(* bufio goes on after a call that panicked only when that call was        *)
(* Close's.                                                                *)
(*                                                                         *)
(* A call of the writer below ends a line unless the line is too long,     *)
(* because a Write begins with the buffer below its threshold, and has     *)
(* room in it for any other line; and it cuts a line once at most, because *)
(* the buffer is empty afterwards.                                         *)
(***************************************************************************)
EXTENDS BatchWriter, TLAPS

PCs == {"idle", "copy", "threshold"}
Results == {"none", "ok", "error", "refused", "eof", "panic"}

-----------------------------------------------------------------------------
(* Sequences *)

LEMMA SplitSeq ==
    ASSUME NEW S, NEW s \in Seq(S), NEW n \in 0 .. Len(s)
    PROVE  /\ SubSeq(s, 1, n) \in Seq(S) /\ Len(SubSeq(s, 1, n)) = n
           /\ SubSeq(s, n + 1, Len(s)) \in Seq(S) /\ Len(SubSeq(s, n + 1, Len(s))) = Len(s) - n
           /\ SubSeq(s, 1, n) \o SubSeq(s, n + 1, Len(s)) = s
<1> DEFINE t == SubSeq(s, 1, n)
           u == SubSeq(s, n + 1, Len(s))
<1>1. Len(s) \in Nat /\ n \in Nat /\ n <= Len(s)
  OBVIOUS
<1>2. t \in Seq(S) /\ Len(t) = n /\ \A i \in 1 .. n : t[i] = s[i]
  BY <1>1
<1>3. u \in Seq(S) /\ Len(u) = Len(s) - n /\ \A i \in 1 .. Len(s) - n : u[i] = s[n + i]
  BY <1>1
<1> HIDE DEF t, u
<1>4. t \o u \in Seq(S) /\ Len(t \o u) = Len(s)
  BY <1>1, <1>2, <1>3
<1>5. ASSUME NEW i \in 1 .. Len(s) PROVE (t \o u)[i] = s[i]
  <2>1. CASE i <= n
    BY <1>2, <1>3, <2>1
  <2>2. CASE i > n
    <3>1. i - n \in 1 .. Len(s) - n /\ n + (i - n) = i
      BY <1>1, <2>2
    <3>2. (t \o u)[i] = u[i - n]
      BY <1>1, <1>2, <1>3, <2>2
    <3> QED  BY <1>3, <3>1, <3>2
  <2>3. i <= n \/ i > n
    BY <1>1
  <2> QED  BY <2>1, <2>2, <2>3
<1>6. t \o u = s
  <2> DEFINE v == t \o u
  <2>1. v \in Seq(S) /\ Len(v) = Len(s) /\ \A i \in 1 .. Len(s) : v[i] = s[i]
    BY <1>4, <1>5
  <2> HIDE DEF v
  <2>2. v = s
    BY <2>1
  <2> QED  BY <2>2 DEF v
<1> QED  BY <1>2, <1>3, <1>6 DEF t, u

LEMMA ConcatAssoc ==
    ASSUME NEW S, NEW s \in Seq(S), NEW t \in Seq(S), NEW u \in Seq(S)
    PROVE  (s \o t) \o u = s \o (t \o u)
OBVIOUS

LEMMA ConcatEmpty == ASSUME NEW S, NEW s \in Seq(S) PROVE s \o <<>> = s /\ <<>> \o s = s
OBVIOUS

LEMMA EmptyLen == ASSUME NEW S, NEW s \in Seq(S) PROVE s # <<>> <=> Len(s) > 0
OBVIOUS

LEMMA ConcatType ==
    ASSUME NEW S, NEW s \in Seq(S), NEW t \in Seq(S)
    PROVE  /\ s \o t \in Seq(S) /\ Len(s \o t) = Len(s) + Len(t)
           /\ \A i \in 1 .. Len(s) : (s \o t)[i] = s[i]
           /\ \A i \in 1 .. Len(t) : (s \o t)[Len(s) + i] = t[i]
OBVIOUS

LEMMA MiddleSeq ==
    ASSUME NEW S, NEW a \in Seq(S), NEW s \in Seq(S), NEW t \in Seq(S)
    PROVE  LET u == a \o (s \o t)
           IN  /\ Len(a) + Len(s) \in Len(a) .. Len(u)
               /\ SubSeq(u, Len(a) + 1, Len(a) + Len(s)) = s
<1> DEFINE v == s \o t
           u == a \o v
           p == Len(a) + 1
           q == Len(a) + Len(s)
<1>1. v \in Seq(S) /\ Len(v) = Len(s) + Len(t) /\ \A i \in 1 .. Len(s) : v[i] = s[i]
  OBVIOUS
<1> HIDE DEF v
<1>2. u \in Seq(S) /\ Len(u) = Len(a) + Len(v) /\ \A i \in 1 .. Len(v) : u[Len(a) + i] = v[i]
  <2>1. a \in Seq(S) /\ v \in Seq(S)
    BY <1>1
  <2> QED  BY <2>1, ConcatType
<1>3. Len(a) \in Nat /\ Len(s) \in Nat /\ Len(t) \in Nat
  OBVIOUS
<1> HIDE DEF u
<1>4. p \in 1 .. Len(u) + 1 /\ q \in 0 .. Len(u) /\ q - p + 1 = Len(s) /\ q \in Len(a) .. Len(u)
  BY <1>1, <1>2, <1>3
<1>5. p \in Nat /\ q \in Nat /\ 1 <= p /\ q <= Len(u) /\ p - 1 = Len(a)
  BY <1>3, <1>4
<1> DEFINE w == SubSeq(u, p, q)
<1> HIDE DEF p, q
<1>6. w \in Seq(S) /\ Len(w) = Len(s) /\ \A i \in 1 .. Len(s) : w[i] = u[p + i - 1]
  <2>1. w = [i \in 1 .. q - p + 1 |-> u[i + p - 1]]
    BY <1>2, <1>5
  <2>2. \A i \in 1 .. Len(s) : w[i] = u[p + i - 1]
    BY <1>3, <1>4, <1>5, <2>1
  <2>3. w \in Seq(S) /\ Len(w) = q - p + 1
    BY <1>2, <1>3, <1>4, <1>5, <2>1
  <2> QED  BY <1>4, <2>2, <2>3
<1> HIDE DEF w
<1>7. ASSUME NEW i \in 1 .. Len(s) PROVE w[i] = s[i]
  <2>1. i \in 1 .. Len(v) /\ p + i - 1 = Len(a) + i
    BY <1>1, <1>3, <1>5
  <2> QED  BY <1>1, <1>2, <1>6, <2>1
<1>8. w = s
  BY <1>6, <1>7
<1> QED  BY <1>4, <1>8 DEF p, q, u, v, w

-----------------------------------------------------------------------------
(* Types *)

\* The bytes of a line.
LEMMA LineBytesType ==
    ASSUME NEW l \in Lines, NEW n \in LineLens
    PROVE  /\ LineBytes(l, n) \in Seq(Bytes) /\ Len(LineBytes(l, n)) = n /\ n \in Nat \ {0}
           /\ \A i \in 1 .. n : LineBytes(l, n)[i] = [line |-> l, left |-> n + 1 - i]
<1>1. n \in Nat \ {0}
  BY LineAssumption
<1>2. \A i \in 1 .. n : [line |-> l, left |-> n + 1 - i] \in Bytes
  BY <1>1 DEF Bytes
<1> QED  BY <1>1, <1>2 DEF LineBytes

\* What the buffer and the underlying writer have of TypeOK.
StreamType ==
    /\ buf \in Seq(Bytes) /\ Len(buf) <= Size
    /\ sent \in Seq(Bytes) /\ out \in Seq(Bytes) /\ cuts \subseteq Nat \X Nat
    /\ err \in BOOLEAN /\ faults \in 0 .. MaxFaults

\* What the writers have of it.
WriterType ==
    /\ mu \in Writers \cup {Nobody}
    /\ pc \in [Writers -> PCs]
    /\ calls \in [Writers -> 0 .. MaxWrites]
    /\ rest \in [Writers -> Seq(Bytes)]
    /\ result \in [Lines -> Results]

LEMMA TypeParts == TypeOK => StreamType /\ WriterType
BY DEF TypeOK, StreamType, WriterType, PCs, Results

LEMMA Assemble ==
    ASSUME StreamType', WriterType', closed' \in BOOLEAN, timer' \in {"armed", "fired", "stopped"},
           alive' \in BOOLEAN, closer' \in {"idle", "ok", "error", "panic"}
    PROVE  TypeOK'
BY DEF TypeOK, StreamType, WriterType, PCs, Results

\* The underlying writer is not called, or it takes bytes after those bufio is
\* done with.
Wired ==
    \/ sent' = sent /\ out' = out
    \/ \E n \in Len(sent) .. Len(Stream') :
          /\ out' = out \o SubSeq(Stream', Len(sent) + 1, n)
          /\ Len(sent') \in {Len(sent), n}

\* A call of the underlying writer, which may fail: the first bytes of chunk
\* are out, and the buffer has those that bufio is not done with.
Moved(chunk) ==
    /\ StreamType'
    /\ Wired
    /\ sent' \o buf' = sent \o chunk

LEMMA FaultType == TypeOK => \A kind : MayFail(kind) => faults' \in 0 .. MaxFaults
BY BoundAssumption DEF TypeOK, MayFail

LEMMA TakesType ==
    ASSUME TypeOK, NEW chunk \in Seq(Bytes), Takes(chunk)
    PROVE  /\ sent' = sent \o chunk /\ sent' \in Seq(Bytes) /\ out' = out \o chunk /\ out' \in Seq(Bytes)
           /\ Len(sent') = Len(sent) + Len(chunk) /\ Len(sent) \in Nat /\ Len(sent') \in Nat
<1>1. sent \in Seq(Bytes) /\ out \in Seq(Bytes) /\ sent' = sent \o chunk /\ out' = out \o chunk
  BY DEF TypeOK, Takes
<1> QED  BY <1>1, ConcatType

\* Each way in which a call may take s and leave t.
LEMMA WiredBy ==
    ASSUME TypeOK, NEW s \in Seq(Bytes), NEW t \in Seq(Bytes), Stream' = sent \o (s \o t),
           out' = out \o s, Len(sent') \in {Len(sent), Len(sent) + Len(s)}
    PROVE  Wired
<1>1. sent \in Seq(Bytes)
  BY DEF TypeOK
<1>2. Len(sent) + Len(s) \in Len(sent) .. Len(Stream') /\ SubSeq(Stream', Len(sent) + 1, Len(sent) + Len(s)) = s
  BY <1>1, MiddleSeq
<1> QED  BY <1>2 DEF Wired

LEMMA CutType ==
    ASSUME TypeOK, sent' \in Seq(Bytes), Cut \/ cuts' = cuts
    PROVE  cuts' \subseteq Nat \X Nat
<1>1. Len(sent) \in Nat /\ Len(sent') \in Nat /\ cuts \subseteq Nat \X Nat
  BY DEF TypeOK
<1> QED  BY <1>1 DEF Cut

LEMMA FlushMoves ==
    ASSUME TypeOK, NEW chunk \in Seq(Bytes), Len(chunk) <= Size,
           FlushOk(chunk) \/ FlushFails(chunk) \/ FlushPanics(chunk)
    PROVE  Moved(chunk)
<1>1. /\ err \in BOOLEAN /\ faults \in 0 .. MaxFaults /\ sent \in Seq(Bytes) /\ out \in Seq(Bytes)
      /\ Size \in Nat /\ cuts \subseteq Nat \X Nat
  BY SizeAssumption DEF TypeOK
<1>2. CASE FlushOk(chunk)
  <2>1. /\ sent' = sent \o chunk /\ sent' \in Seq(Bytes) /\ out' = out \o chunk /\ out' \in Seq(Bytes)
        /\ Len(sent') = Len(sent) + Len(chunk) /\ cuts' \subseteq Nat \X Nat
    BY <1>2, TakesType, CutType DEF FlushOk
  <2>2. buf' = <<>> /\ buf' \in Seq(Bytes) /\ Len(buf') <= Size /\ sent' \o buf' = sent' /\ chunk \o <<>> = chunk
    BY <1>1, <1>2, <2>1, ConcatEmpty DEF FlushOk
  <2>3. Stream' = sent \o (chunk \o <<>>) /\ <<>> \in Seq(Bytes)
    BY <2>1, <2>2 DEF Stream
  <2>4. Wired
    BY <2>1, <2>3, WiredBy
  <2> QED  BY <1>1, <1>2, <2>1, <2>2, <2>4 DEF FlushOk, Moved, StreamType
<1>3. ASSUME NEW n \in 0 .. Len(chunk)
      PROVE  LET s == SubSeq(chunk, 1, n)
                 t == SubSeq(chunk, n + 1, Len(chunk))
             IN  s \in Seq(Bytes) /\ t \in Seq(Bytes) /\ Len(t) <= Size /\ s \o t = chunk
  <2> DEFINE s == SubSeq(chunk, 1, n)
             t == SubSeq(chunk, n + 1, Len(chunk))
  <2>1. s \in Seq(Bytes) /\ t \in Seq(Bytes) /\ Len(t) = Len(chunk) - n /\ s \o t = chunk
    BY SplitSeq
  <2>2. Len(chunk) \in Nat /\ n \in Nat /\ Len(chunk) <= Size
    OBVIOUS
  <2> HIDE DEF s, t
  <2>3. Len(t) <= Size
    BY <1>1, <2>1, <2>2
  <2> QED  BY <2>1, <2>3 DEF s, t
<1>4. CASE FlushFails(chunk)
  <2>1. PICK n \in 0 .. Len(chunk) :
            Takes(SubSeq(chunk, 1, n)) /\ buf' = SubSeq(chunk, n + 1, Len(chunk))
    BY <1>4 DEF FlushFails
  <2> DEFINE s == SubSeq(chunk, 1, n)
             t == SubSeq(chunk, n + 1, Len(chunk))
  <2>2. s \in Seq(Bytes) /\ t \in Seq(Bytes) /\ Len(t) <= Size /\ s \o t = chunk
    BY <1>3
  <2>3. Takes(s) /\ buf' = t
    BY <2>1
  <2> HIDE DEF s, t
  <2>4. /\ sent' = sent \o s /\ sent' \in Seq(Bytes) /\ out' = out \o s /\ out' \in Seq(Bytes)
        /\ Len(sent') = Len(sent) + Len(s)
    BY <2>2, <2>3, TakesType
  <2>5. sent' \o buf' = sent \o (s \o t)
    <3>1. (sent \o s) \o t = sent \o (s \o t)
      <4>1. sent \in Seq(Bytes) /\ s \in Seq(Bytes) /\ t \in Seq(Bytes)
        BY <1>1, <2>2
      <4> QED  BY <4>1, ConcatAssoc
    <3> QED  BY <2>3, <2>4, <3>1
  <2>6. Wired
    BY <2>2, <2>4, <2>5, WiredBy DEF Stream
  <2>7. err' = TRUE /\ faults' \in 0 .. MaxFaults /\ cuts' = cuts
    BY <1>4, FaultType DEF FlushFails
  <2> QED  BY <1>1, <2>2, <2>3, <2>4, <2>5, <2>6, <2>7 DEF Moved, StreamType
<1>5. CASE FlushPanics(chunk)
  <2>1. UNCHANGED <<err, sent, cuts>> /\ buf' = chunk /\ faults' \in 0 .. MaxFaults
    BY <1>5, FaultType DEF FlushPanics
  <2>2. PICK n \in 0 .. Len(chunk) : out' = out \o SubSeq(chunk, 1, n)
    BY <1>5 DEF FlushPanics
  <2> DEFINE s == SubSeq(chunk, 1, n)
             t == SubSeq(chunk, n + 1, Len(chunk))
  <2>3. s \in Seq(Bytes) /\ t \in Seq(Bytes) /\ s \o t = chunk
    BY <1>3
  <2>4. out' = out \o s
    BY <2>2
  <2> HIDE DEF s, t
  <2>5. out' \in Seq(Bytes)
    BY <1>1, <2>3, <2>4, ConcatType
  <2>6. Stream' = sent \o (s \o t) /\ Len(sent') = Len(sent)
    BY <2>1, <2>3 DEF Stream
  <2>7. Wired
    BY <2>3, <2>4, <2>6, WiredBy
  <2> QED  BY <1>1, <2>1, <2>5, <2>7 DEF Moved, StreamType
<1> QED  BY <1>2, <1>4, <1>5

LEMMA NothingMoved ==
    ASSUME TypeOK, UNCHANGED <<buf, err, faults, sent, out, cuts>>
    PROVE  StreamType' /\ Wired /\ Stream' = Stream
<1>1. Wired
  BY DEF Wired
<1> QED  BY <1>1, TypeParts DEF StreamType, Stream

LEMMA ReturnsType ==
    ASSUME TypeOK, NEW w \in Writers, NEW res \in Results, Returns(w, res),
           calls' = calls, mu' \in Writers \cup {Nobody}
    PROVE  WriterType'
<1>1. <<>> \in Seq(Bytes)
  OBVIOUS
<1>2. rest' \in [Writers -> Seq(Bytes)] /\ pc' \in [Writers -> PCs]
  BY <1>1, TypeParts DEF Returns, WriterType, PCs
<1>3. result' \in [Lines -> Results]
  BY TypeParts DEF Returns, WriterType
<1> QED  BY <1>2, <1>3, TypeParts DEF WriterType

-----------------------------------------------------------------------------
(* What a step does to the stream *)

\* Bytes go from the front of rest to the end of the stream; or the underlying
\* writer panics, and some have gone there before.
Carries(w) ==
    \E m \in 0 .. Len(rest[w]) :
        /\ Stream' = Stream \o SubSeq(rest[w], 1, m)
        /\ \/ /\ rest' = [rest EXCEPT ![w] = SubSeq(rest[w], m + 1, Len(rest[w]))]
              /\ UNCHANGED <<mu, pc, result>>
           \/ PanicsOut(w)

LEMMA StreamIn == TypeOK => Stream \in Seq(Bytes)
BY ConcatType DEF TypeOK, Stream

LEMMA WriteThroughCarries ==
    ASSUME TypeOK, NEW w \in Writers, WriteThrough(w)
    PROVE  StreamType' /\ Wired /\ Carries(w)
<1> DEFINE r == rest[w]
<1>1. /\ r \in Seq(Bytes) /\ sent \in Seq(Bytes) /\ buf = <<>> /\ buf' = buf /\ faults \in 0 .. MaxFaults
      /\ err \in BOOLEAN /\ Size \in Nat /\ rest \in [Writers -> Seq(Bytes)] /\ cuts \subseteq Nat \X Nat
  BY SizeAssumption DEF TypeOK, WriteThrough
<1>2. Stream = sent /\ Stream \in Seq(Bytes)
  BY <1>1, ConcatEmpty DEF Stream
<1>3. ASSUME sent' \in Seq(Bytes) PROVE Stream' = sent'
  BY <1>1, <1>3, ConcatEmpty DEF Stream
<1>4. <<>> \in Seq(Bytes) /\ Len(<<>>) = 0 /\ 0 <= Size
  BY <1>1
<1>5. \A i \in 0 .. Len(r) : SubSeq(r, 1, i) \in Seq(Bytes)
  BY <1>1, SplitSeq
\* However the call ends, it has taken a part of rest.
<1>6. ASSUME NEW n \in 0 .. Len(r), Takes(SubSeq(r, 1, n))
      PROVE  /\ sent' \in Seq(Bytes) /\ out' \in Seq(Bytes) /\ Wired
             /\ Stream' = Stream \o SubSeq(r, 1, n)
  <2> DEFINE s == SubSeq(r, 1, n)
  <2>1. s \in Seq(Bytes) /\ Takes(s)
    BY <1>5, <1>6
  <2> HIDE DEF s, r
  <2>2. /\ sent' = sent \o s /\ sent' \in Seq(Bytes) /\ out' = out \o s /\ out' \in Seq(Bytes)
        /\ Len(sent') = Len(sent) + Len(s)
    BY <2>1, TakesType
  <2>3. Stream' = Stream \o s
    BY <1>2, <1>3, <2>2
  <2>4. s \o <<>> = s
    BY <2>1, ConcatEmpty
  <2>5. Stream' = sent \o (s \o <<>>)
    BY <1>2, <2>3, <2>4
  <2>6. Wired
    BY <1>4, <2>1, <2>2, <2>5, WiredBy
  <2> QED  BY <2>2, <2>3, <2>6 DEF s
<1>7. CASE Takes(r) /\ Cut /\ rest' = [rest EXCEPT ![w] = <<>>] /\ UNCHANGED <<mu, err, faults, pc, result>>
  <2>1. Len(r) \in 0 .. Len(r) /\ SubSeq(r, 1, Len(r)) = r /\ SubSeq(r, Len(r) + 1, Len(r)) = <<>>
    BY <1>1
  <2>2. sent' \in Seq(Bytes) /\ out' \in Seq(Bytes) /\ Wired /\ Stream' = Stream \o SubSeq(r, 1, Len(r))
    BY <1>6, <1>7, <2>1
  <2>3. Carries(w)
    BY <1>7, <2>1, <2>2 DEF Carries
  <2>4. cuts' \subseteq Nat \X Nat
    BY <1>7, <2>2, CutType
  <2>5. StreamType'
    BY <1>1, <1>4, <1>7, <2>2, <2>4 DEF StreamType
  <2> QED  BY <2>2, <2>3, <2>5
<1>8. CASE /\ MayFail("error")
           /\ \E n \in 0 .. Len(r) :
                 Takes(SubSeq(r, 1, n)) /\ rest' = [rest EXCEPT ![w] = SubSeq(r, n + 1, Len(r))]
           /\ err' = TRUE
           /\ UNCHANGED <<mu, pc, cuts, result>>
  <2>1. PICK n \in 0 .. Len(r) :
            Takes(SubSeq(r, 1, n)) /\ rest' = [rest EXCEPT ![w] = SubSeq(r, n + 1, Len(r))]
    BY <1>8
  <2>2. sent' \in Seq(Bytes) /\ out' \in Seq(Bytes) /\ Wired /\ Stream' = Stream \o SubSeq(r, 1, n)
    BY <1>6, <2>1
  <2>3. Carries(w)
    BY <1>8, <2>1, <2>2 DEF Carries
  <2>4. StreamType'
    BY <1>1, <1>4, <1>8, <2>2, FaultType DEF StreamType
  <2> QED  BY <2>2, <2>3, <2>4
<1>9. CASE /\ MayFail("panic")
           /\ \E n \in 0 .. Len(r) : Takes(SubSeq(r, 1, n))
           /\ PanicsOut(w)
           /\ UNCHANGED <<err, cuts>>
  <2>1. PICK n \in 0 .. Len(r) : Takes(SubSeq(r, 1, n))
    BY <1>9
  <2>2. sent' \in Seq(Bytes) /\ out' \in Seq(Bytes) /\ Wired /\ Stream' = Stream \o SubSeq(r, 1, n)
    BY <1>6, <2>1
  <2>3. StreamType'
    BY <1>1, <1>4, <1>9, <2>2, FaultType DEF StreamType
  <2> QED  BY <1>9, <2>2, <2>3 DEF Carries
<1> QED  BY <1>7, <1>8, <1>9 DEF WriteThrough

LEMMA FillAndFlushCarries ==
    ASSUME TypeOK, NEW w \in Writers, FillAndFlush(w)
    PROVE  StreamType' /\ Wired /\ Carries(w)
<1> DEFINE r == rest[w]
           first == SubSeq(r, 1, Room)
           left == SubSeq(r, Room + 1, Len(r))
           full == buf \o first
<1>1. /\ r \in Seq(Bytes) /\ sent \in Seq(Bytes) /\ buf \in Seq(Bytes) /\ Len(buf) <= Size /\ Size \in Nat
      /\ rest \in [Writers -> Seq(Bytes)]
  BY SizeAssumption DEF TypeOK
<1>2. Room \in 0 .. Len(r) /\ Room = Size - Len(buf)
  BY <1>1 DEF FillAndFlush, Room
<1>3. first \in Seq(Bytes) /\ Len(first) = Room /\ left \in Seq(Bytes) /\ first \o left = r
  BY <1>1, <1>2, SplitSeq
<1>4. \/ /\ FlushOk(full) \/ FlushFails(full)
         /\ rest' = [rest EXCEPT ![w] = left]
         /\ UNCHANGED <<mu, pc, result>>
      \/ FlushPanics(full) /\ PanicsOut(w)
  BY DEF FillAndFlush
<1> HIDE DEF first, left
<1>5. full \in Seq(Bytes) /\ Len(full) <= Size
  BY <1>1, <1>2, <1>3
<1> HIDE DEF full
<1>6. Moved(full)
  BY <1>4, <1>5, FlushMoves
<1>7. Stream' = Stream \o first
  <2>1. Stream' = sent \o full
    BY <1>6 DEF Moved, Stream
  <2>2. (sent \o buf) \o first = sent \o (buf \o first)
    <3>1. sent \in Seq(Bytes) /\ buf \in Seq(Bytes) /\ first \in Seq(Bytes)
      BY <1>1, <1>3
    <3> QED  BY <3>1, ConcatAssoc
  <2> QED  BY <2>1, <2>2 DEF Stream, full
<1> QED  BY <1>2, <1>4, <1>6, <1>7 DEF Carries, Moved, first, left

LEMMA CopyRestCarries ==
    ASSUME TypeOK, NEW w \in Writers, CopyRest(w)
    PROVE  StreamType' /\ Wired /\ Stream' = Stream \o rest[w]
<1>1. /\ rest[w] \in Seq(Bytes) /\ sent \in Seq(Bytes) /\ buf \in Seq(Bytes) /\ Len(buf) <= Size /\ Size \in Nat
      /\ Len(rest[w]) <= Size - Len(buf) /\ buf' = buf \o rest[w] /\ UNCHANGED <<err, faults, sent, out, cuts>>
  BY SizeAssumption DEF TypeOK, CopyRest, Room
<1> DEFINE r == rest[w]
<1>2. r \in Seq(Bytes) /\ buf' = buf \o r
  BY <1>1
<1>3. buf' \in Seq(Bytes) /\ Len(buf') <= Size
  BY <1>1
<1> HIDE DEF r
<1>4. (sent \o buf) \o r = sent \o (buf \o r)
  <2>1. sent \in Seq(Bytes) /\ buf \in Seq(Bytes) /\ r \in Seq(Bytes)
    BY <1>1, <1>2
  <2> QED  BY <2>1, ConcatAssoc
<1>5. Stream' = Stream \o r
  BY <1>1, <1>2, <1>4 DEF Stream
<1>6. Wired
  BY <1>1 DEF Wired
<1> QED  BY <1>1, <1>3, <1>5, <1>6, TypeParts DEF StreamType, r

-----------------------------------------------------------------------------
(* Types are kept, and the stream only grows *)

Grows ==
    /\ Wired
    /\ \E u \in Seq(Bytes) : Stream' = Stream \o u

LEMMA SameGrows == TypeOK /\ Stream' = Stream /\ Wired => Grows
BY StreamIn, ConcatEmpty, <<>> \in Seq(Bytes) DEF Grows

\* Steps that move no byte.
LEMMA StillGrows ==
    TypeOK /\ UNCHANGED <<buf, err, faults, sent, out, cuts>> => StreamType' /\ Grows
BY NothingMoved, SameGrows

\* A flush of the buffer alone moves the border between it and what is out.
LEMMA FlushGrows ==
    ASSUME TypeOK, FlushOk(buf) \/ FlushFails(buf) \/ FlushPanics(buf)
    PROVE  StreamType' /\ Grows /\ Stream' = Stream
<1>1. buf \in Seq(Bytes) /\ Len(buf) <= Size
  BY DEF TypeOK
<1>2. Moved(buf)
  BY <1>1, FlushMoves
<1> QED  BY <1>2, SameGrows DEF Moved, Stream

LEMMA CarriesGrows ==
    ASSUME TypeOK, NEW w \in Writers, Carries(w), StreamType', Wired, calls' = calls
    PROVE  Grows /\ WriterType'
<1>1. PICK m \in 0 .. Len(rest[w]) :
        /\ Stream' = Stream \o SubSeq(rest[w], 1, m)
        /\ \/ /\ rest' = [rest EXCEPT ![w] = SubSeq(rest[w], m + 1, Len(rest[w]))]
              /\ UNCHANGED <<mu, pc, result>>
           \/ PanicsOut(w)
  BY DEF Carries
<1>2. rest[w] \in Seq(Bytes) /\ rest \in [Writers -> Seq(Bytes)]
  BY DEF TypeOK
<1>3. SubSeq(rest[w], 1, m) \in Seq(Bytes) /\ SubSeq(rest[w], m + 1, Len(rest[w])) \in Seq(Bytes)
  BY <1>2, SplitSeq
<1>4. Grows
  BY <1>1, <1>3 DEF Grows
<1>5. CASE /\ rest' = [rest EXCEPT ![w] = SubSeq(rest[w], m + 1, Len(rest[w]))]
           /\ UNCHANGED <<mu, pc, result>>
  BY <1>2, <1>3, <1>4, <1>5, TypeParts DEF WriterType
<1>6. CASE PanicsOut(w)
  BY <1>4, <1>6, ReturnsType, TypeParts DEF PanicsOut, WriterType, Results
<1> QED  BY <1>1, <1>5, <1>6

LEMMA StepEffect == TypeOK /\ [Next]_vars => TypeOK' /\ Grows
<1> SUFFICES ASSUME TypeOK, [Next]_vars PROVE TypeOK' /\ Grows
  OBVIOUS
<1>1. /\ StreamType /\ WriterType /\ closed \in BOOLEAN /\ timer \in {"armed", "fired", "stopped"}
      /\ alive \in BOOLEAN /\ closer \in {"idle", "ok", "error", "panic"}
  BY TypeParts DEF TypeOK
<1>2. ASSUME NEW w \in Writers, WriteClosed(w) \/ WriteRefused(w) PROVE TypeOK' /\ Grows
  <2>1. PICK res \in Results : WriteEndsAtOnce(w, res)
    BY <1>2 DEF WriteClosed, WriteRefused, Results
  <2>2. StreamType' /\ Grows
    BY <2>1, StillGrows DEF WriteEndsAtOnce
  <2>3. WriterType'
    <3>1. calls' = [calls EXCEPT ![w] = calls[w] + 1] /\ calls[w] < MaxWrites
      BY <2>1 DEF WriteEndsAtOnce
    <3>2. calls[w] \in Nat /\ MaxWrites \in Nat
      BY <1>1, BoundAssumption DEF WriterType
    <3>3. calls' \in [Writers -> 0 .. MaxWrites]
      BY <1>1, <3>1, <3>2 DEF WriterType
    <3>4. result' \in [Lines -> Results]
      BY <1>1, <2>1 DEF WriterType, WriteEndsAtOnce
    <3> QED  BY <1>1, <2>1, <3>3, <3>4 DEF WriterType, WriteEndsAtOnce
  <2> QED  BY <1>1, <2>1, <2>2, <2>3, Assemble DEF WriteEndsAtOnce
<1>3. ASSUME NEW w \in Writers, WriteBegin(w) PROVE TypeOK' /\ Grows
  <2>1. StreamType' /\ Grows
    BY <1>3, StillGrows DEF WriteBegin
  <2>2. calls' = [calls EXCEPT ![w] = calls[w] + 1] /\ calls[w] + 1 \in 1 .. MaxWrites
    <3>1. calls' = [calls EXCEPT ![w] = calls[w] + 1] /\ calls[w] < MaxWrites
      BY <1>3 DEF WriteBegin
    <3>2. calls[w] \in Nat /\ MaxWrites \in Nat
      BY <1>1, BoundAssumption DEF WriterType
    <3> QED  BY <3>1, <3>2
  <2>3. calls' \in [Writers -> 0 .. MaxWrites] /\ <<w, calls'[w]>> \in Lines
    BY <1>1, <2>2 DEF WriterType, Lines
  <2>4. PICK n \in LineLens : rest' = [rest EXCEPT ![w] = LineBytes(<<w, calls'[w]>>, n)]
    BY <1>3 DEF WriteBegin
  <2>5. rest' \in [Writers -> Seq(Bytes)]
    BY <1>1, <2>3, <2>4, LineBytesType DEF WriterType
  <2>6. WriterType'
    BY <1>1, <1>3, <2>3, <2>5 DEF WriterType, WriteBegin, PCs
  <2> QED  BY <1>1, <1>3, <2>1, <2>6, Assemble DEF WriteBegin
<1>4. ASSUME NEW w \in Writers, WriteThrough(w) PROVE TypeOK' /\ Grows
  <2>1. StreamType' /\ Grows /\ WriterType'
    BY <1>4, WriteThroughCarries, CarriesGrows DEF WriteThrough
  <2> QED  BY <1>1, <1>4, <2>1, Assemble DEF WriteThrough
<1>5. ASSUME NEW w \in Writers, FillAndFlush(w) PROVE TypeOK' /\ Grows
  <2>1. StreamType' /\ Grows /\ WriterType'
    BY <1>5, FillAndFlushCarries, CarriesGrows DEF FillAndFlush
  <2> QED  BY <1>1, <1>5, <2>1, Assemble DEF FillAndFlush
<1>6. ASSUME NEW w \in Writers, CopyRest(w) PROVE TypeOK' /\ Grows
  <2>1. StreamType' /\ Grows
    BY <1>1, <1>6, CopyRestCarries DEF Grows, WriterType
  <2>2. CASE Returns(w, "ok") /\ Unlock
    <3>1. WriterType'
      BY <1>6, <2>2, ReturnsType DEF CopyRest, Unlock, Results
    <3> QED  BY <1>1, <1>6, <2>1, <3>1, Assemble DEF CopyRest
  <2>3. CASE /\ pc' = [pc EXCEPT ![w] = "threshold"]
             /\ rest' = [rest EXCEPT ![w] = <<>>]
             /\ UNCHANGED <<mu, result>>
    <3>1. WriterType'
      BY <1>1, <1>6, <2>3, <<>> \in Seq(Bytes) DEF WriterType, CopyRest, PCs
    <3> QED  BY <1>1, <1>6, <2>1, <3>1, Assemble DEF CopyRest
  <2> QED  BY <1>6, <2>2, <2>3 DEF CopyRest
<1>7. ASSUME NEW w \in Writers, WriteFails(w) PROVE TypeOK' /\ Grows
  <2>1. StreamType' /\ Grows
    BY <1>7, StillGrows DEF WriteFails
  <2>2. WriterType'
    BY <1>7, ReturnsType DEF WriteFails, Unlock, Results
  <2> QED  BY <1>1, <1>7, <2>1, <2>2, Assemble DEF WriteFails
<1>8. ASSUME NEW w \in Writers, ThresholdFlush(w) PROVE TypeOK' /\ Grows
  <2>1. StreamType' /\ Grows
    BY <1>8, FlushGrows DEF ThresholdFlush
  <2>2. \E res \in Results : Returns(w, res) /\ mu' \in {mu, Nobody} /\ calls' = calls
    BY <1>8 DEF ThresholdFlush, PanicsOut, Unlock, Results
  <2>3. WriterType'
    BY <1>1, <2>2, ReturnsType DEF WriterType
  <2> QED  BY <1>1, <1>8, <2>1, <2>3, Assemble DEF ThresholdFlush
<1>9. CASE TimerFires
  <2>1. StreamType' /\ Grows
    BY <1>9, StillGrows DEF TimerFires
  <2> QED  BY <1>1, <1>9, <2>1, Assemble DEF TimerFires, writerVars, WriterType
<1>10. CASE TimerFlush
  <2>1. StreamType' /\ Grows
    BY <1>10, FlushGrows, StillGrows DEF TimerFlush
  <2>2. WriterType' /\ closed' = closed /\ closer' = closer
    BY <1>1, <1>10 DEF TimerFlush, writerVars, WriterType
  <2>3. timer' \in {"armed", "fired", "stopped"} /\ alive' \in BOOLEAN
    BY <1>1, <1>10 DEF TimerFlush
  <2> QED  BY <1>1, <2>1, <2>2, <2>3, Assemble
<1>11. CASE Close
  <2>1. StreamType' /\ Grows
    BY <1>11, FlushGrows, StillGrows DEF Close
  <2>2. WriterType' /\ alive' = alive
    BY <1>1, <1>11 DEF Close, writerVars, WriterType
  <2>3. timer' \in {"armed", "fired", "stopped"} /\ closed' \in BOOLEAN /\ closer' \in {"idle", "ok", "error", "panic"}
    BY <1>1, <1>11 DEF Close
  <2> QED  BY <1>1, <2>1, <2>2, <2>3, Assemble
<1>12. CASE UNCHANGED vars
  <2>1. StreamType' /\ Grows
    BY <1>12, StillGrows DEF vars
  <2> QED  BY <1>1, <1>12, <2>1, Assemble DEF vars, writerVars, WriterType
<1> QED
  BY <1>2, <1>3, <1>4, <1>5, <1>6, <1>7, <1>8, <1>9, <1>10, <1>11, <1>12 DEF Next, Writer, Finished

LEMMA InitType == Init => TypeOK
<1>1. <<>> \in Seq(Bytes) /\ Len(<<>>) = 0
  OBVIOUS
<1>2. 0 \in 0 .. MaxWrites /\ 0 \in 0 .. MaxFaults /\ 0 <= Size
  BY SizeAssumption, BoundAssumption
<1>3. Init => StreamType
  BY <1>1, <1>2 DEF Init, StreamType
<1>4. Init => WriterType
  BY <1>1, <1>2 DEF Init, WriterType, PCs, Results
<1> QED  BY <1>3, <1>4 DEF Init, TypeOK, StreamType, WriterType, PCs, Results

\* TypeOK: every variable keeps its type; the buffer never overflows.
THEOREM TypeCorrect == Spec => []TypeOK
BY InitType, StepEffect, PTL DEF Spec

\* A stream that grew has the old one as a prefix.
LEMMA GrownPrefix ==
    ASSUME NEW S, NEW s \in Seq(S), NEW u \in Seq(S)
    PROVE  Service!IsPrefix(s, s \o u)
<1> DEFINE t == s \o u
<1>1. t \in Seq(S) /\ Len(s) <= Len(t) /\ Len(s) \in Nat /\ \A i \in 1 .. Len(s) : t[i] = s[i]
  OBVIOUS
<1> HIDE DEF t
<1>2. SubSeq(s, 1, Len(s)) = SubSeq(t, 1, Len(s))
  BY <1>1
<1> QED  BY <1>1, <1>2 DEF Service!IsPrefix, t

\* ImplementsStream: the buffer skips and reorders no byte, and repeats only
\* those of a call that panicked.
THEOREM RefinesByteStream == Spec => ImplementsStream
<1>1. Init => Service!StreamInit
  BY DEF Init, Service!StreamInit, Stream
<1>2. TypeOK /\ [Next]_vars => [Service!Advance]_(Service!bsVars)
  <2> SUFFICES ASSUME TypeOK, [Next]_vars PROVE Service!Advance
    OBVIOUS
  <2>1. Grows
    BY StepEffect
  <2>2. Service!IsPrefix(Stream, Stream')
    BY <2>1, StreamIn, GrownPrefix DEF Grows
  <2>3. CASE sent' = sent /\ out' = out
    BY <2>2, <2>3 DEF Service!Advance
  <2>4. ASSUME NEW n \in Len(sent) .. Len(Stream'),
               out' = out \o SubSeq(Stream', Len(sent) + 1, n), Len(sent') \in {Len(sent), n}
        PROVE  Service!Advance
    <3>1. Service!Call(n)
      BY <2>4 DEF Service!Call
    <3> QED  BY <2>2, <3>1 DEF Service!Advance
  <2> QED  BY <2>1, <2>3, <2>4 DEF Grows, Wired
<1> QED  BY <1>1, <1>2, TypeCorrect, PTL DEF Spec, ImplementsStream, Service!StreamSpec

-----------------------------------------------------------------------------
(* Close *)

\* Whoever is in Write holds the mutex; after Close nobody is, and a Close
\* that succeeded has left the buffer empty.
CloseInv ==
    /\ \A w \in Writers : pc[w] # "idle" => mu = w
    /\ closed => \A w \in Writers : pc[w] = "idle"
    /\ closer = "ok" => closed /\ buf = <<>>

LEMMA CloseStep == TypeOK /\ CloseInv /\ [Next]_vars => CloseInv'
<1> SUFFICES ASSUME TypeOK, CloseInv, [Next]_vars PROVE CloseInv'
  OBVIOUS
<1>1. pc \in [Writers -> PCs] /\ \A w \in Writers : pc[w] # "idle" => ~closed /\ closer # "ok" /\ mu = w
  BY DEF TypeOK, PCs, CloseInv
<1>2. ASSUME NEW w \in Writers, WriteClosed(w) \/ WriteRefused(w) PROVE CloseInv'
  BY <1>2 DEF CloseInv, WriteClosed, WriteRefused, WriteEndsAtOnce
<1>3. ASSUME NEW w \in Writers, WriteBegin(w) PROVE CloseInv'
  <2>1. \A v \in Writers : pc[v] = "idle"
    BY <1>1, <1>3, WriterAssumption DEF WriteBegin
  <2> QED  BY <1>1, <1>3, <2>1 DEF CloseInv, WriteBegin
\* A step of the owner: nothing is closed, and it stays in Write or leaves it.
<1>4. ASSUME NEW w \in Writers, pc[w] # "idle", UNCHANGED <<closed, closer>>,
             \/ mu' = mu /\ \E l \in PCs : pc' = [pc EXCEPT ![w] = l]
             \/ pc' = [pc EXCEPT ![w] = "idle"]
      PROVE  CloseInv'
  BY <1>1, <1>4 DEF CloseInv
<1>5. ASSUME NEW w \in Writers, WriteThrough(w) PROVE CloseInv'
  <2>1. pc[w] # "idle" /\ UNCHANGED <<closed, closer>> /\ mu' = mu /\ (pc' = pc \/ pc' = [pc EXCEPT ![w] = "idle"])
    BY <1>5 DEF WriteThrough, PanicsOut, Returns
  <2>2. pc = [pc EXCEPT ![w] = pc[w]] /\ pc[w] \in PCs
    BY <1>1
  <2> QED  BY <1>4, <2>1, <2>2
<1>6. ASSUME NEW w \in Writers, FillAndFlush(w) PROVE CloseInv'
  <2>1. pc[w] # "idle" /\ UNCHANGED <<closed, closer>> /\ mu' = mu /\ (pc' = pc \/ pc' = [pc EXCEPT ![w] = "idle"])
    BY <1>6 DEF FillAndFlush, PanicsOut, Returns
  <2>2. pc = [pc EXCEPT ![w] = pc[w]] /\ pc[w] \in PCs
    BY <1>1
  <2> QED  BY <1>4, <2>1, <2>2
<1>7. ASSUME NEW w \in Writers, CopyRest(w) \/ WriteFails(w) \/ ThresholdFlush(w) PROVE CloseInv'
  <2>1. pc[w] # "idle" /\ UNCHANGED <<closed, closer>>
    BY <1>7 DEF CopyRest, WriteFails, ThresholdFlush
  <2>2. \/ mu' = mu /\ pc' = [pc EXCEPT ![w] = "threshold"]
        \/ pc' = [pc EXCEPT ![w] = "idle"]
    BY <1>7 DEF CopyRest, WriteFails, ThresholdFlush, PanicsOut, Returns
  <2> QED  BY <1>4, <2>1, <2>2 DEF PCs
<1>8. CASE TimerFires
  BY <1>8 DEF CloseInv, TimerFires, writerVars
<1>9. CASE TimerFlush
  <2>1. UNCHANGED <<mu, pc, closed, closer>> /\ (closed => buf' = buf)
    BY <1>9 DEF TimerFlush, writerVars
  <2> QED  BY <2>1 DEF CloseInv
<1>10. CASE Close
  <2>1. /\ UNCHANGED <<mu, pc>> /\ mu = Nobody
        /\ closed' \in {closed, TRUE} /\ closer' # "idle"
        /\ closer' = "ok" => closed' /\ buf' = <<>>
    BY <1>10 DEF Close, writerVars, FlushOk
  <2>2. \A v \in Writers : pc[v] = "idle"
    BY <1>1, <2>1, WriterAssumption
  <2> QED  BY <2>1, <2>2 DEF CloseInv
<1>11. CASE UNCHANGED vars
  BY <1>11 DEF CloseInv, vars, writerVars
<1> QED
  BY <1>2, <1>3, <1>5, <1>6, <1>7, <1>8, <1>9, <1>10, <1>11 DEF Next, Writer, Finished

\* CloseDelivers: a Close that reports success leaves nothing in the buffer,
\* and nothing gets into it later.
THEOREM CloseIsComplete == Spec => []CloseDelivers
<1>1. Init => CloseInv
  BY DEF Init, CloseInv
<1>2. CloseInv => CloseDelivers
  BY DEF CloseInv, CloseDelivers
<1> QED  BY <1>1, <1>2, CloseStep, TypeCorrect, PTL DEF Spec

-----------------------------------------------------------------------------
(* The kinds of steps, as far as lines are concerned *)

\* Nothing but the border between buffer and underlying writer.
Still == Stream' = Stream /\ (err => err') /\ UNCHANGED <<mu, pc, calls, rest, result>>

\* A Write that is refused.
EndsAtOnce(w) ==
    /\ Stream' = Stream /\ err' = err /\ UNCHANGED <<mu, pc, rest>>
    /\ pc[w] = "idle" /\ calls' = [calls EXCEPT ![w] = @ + 1]
    /\ \E res \in {"eof", "refused"} : result' = [result EXCEPT ![<<w, calls[w] + 1>>] = res]

\* A Write that begins.
Begins(w) ==
    /\ Stream' = Stream /\ err' = err /\ result' = result
    /\ mu = Nobody /\ mu' = w /\ ~err /\ pc[w] = "idle"
    /\ calls' = [calls EXCEPT ![w] = @ + 1] /\ calls[w] + 1 \in 1 .. MaxWrites
    /\ pc' = [pc EXCEPT ![w] = "copy"]
    /\ \E n \in LineLens : rest' = [rest EXCEPT ![w] = LineBytes(<<w, calls[w] + 1>>, n)]

\* A pass of the loop that moves m bytes.
Passes(w) ==
    /\ pc[w] = "copy" /\ (err => err') /\ UNCHANGED <<mu, pc, calls, result>>
    /\ \E m \in 0 .. Len(rest[w]) :
           /\ Stream' = Stream \o SubSeq(rest[w], 1, m)
           /\ rest' = [rest EXCEPT ![w] = SubSeq(rest[w], m + 1, Len(rest[w]))]

\* The loop ends with the buffer at its threshold.
Fills(w) ==
    /\ pc[w] = "copy" /\ err' = err /\ UNCHANGED <<mu, calls, result>>
    /\ Stream' = Stream \o rest[w]
    /\ pc' = [pc EXCEPT ![w] = "threshold"]
    /\ rest' = [rest EXCEPT ![w] = <<>>]

\* The Write returns: the mutex is free again, unless it panicked.
Ends(w) ==
    /\ pc[w] # "idle" /\ (err => err') /\ UNCHANGED calls
    /\ \E res \in Results, m \in 0 .. Len(rest[w]) :
           /\ Returns(w, res)
           /\ Stream' = Stream \o SubSeq(rest[w], 1, m) /\ (pc[w] = "threshold" => Stream' = Stream)
           /\ res = "ok" => pc[w] = "threshold" \/ m = Len(rest[w])
           /\ mu' = mu \/ (mu' = Nobody /\ (res = "ok" \/ err'))

LEMMA FullPart ==
    ASSUME NEW S, NEW s \in Seq(S)
    PROVE  /\ SubSeq(s, 1, 0) = <<>> /\ SubSeq(s, 1, Len(s)) = s /\ SubSeq(s, Len(s) + 1, Len(s)) = <<>>
           /\ 0 \in 0 .. Len(s) /\ Len(s) \in 0 .. Len(s)
OBVIOUS

LEMMA CarriesKind ==
    ASSUME TypeOK, NEW w \in Writers, Carries(w), pc[w] = "copy", err => err', calls' = calls
    PROVE  Passes(w) \/ Ends(w)
<1>1. PICK m \in 0 .. Len(rest[w]) :
        /\ Stream' = Stream \o SubSeq(rest[w], 1, m)
        /\ \/ /\ rest' = [rest EXCEPT ![w] = SubSeq(rest[w], m + 1, Len(rest[w]))]
              /\ UNCHANGED <<mu, pc, result>>
           \/ PanicsOut(w)
  BY DEF Carries
<1>2. CASE /\ rest' = [rest EXCEPT ![w] = SubSeq(rest[w], m + 1, Len(rest[w]))]
           /\ UNCHANGED <<mu, pc, result>>
  BY <1>1, <1>2 DEF Passes
<1>3. CASE PanicsOut(w)
  BY <1>1, <1>3 DEF Ends, PanicsOut, Results
<1> QED  BY <1>1, <1>2, <1>3

LEMMA ErrorStays == \A chunk : FlushOk(chunk) \/ FlushFails(chunk) \/ FlushPanics(chunk) => (err => err')
BY DEF FlushOk, FlushFails, FlushPanics

LEMMA Kinds ==
    ASSUME TypeOK, [Next]_vars
    PROVE  Still \/ \E w \in Writers : EndsAtOnce(w) \/ Begins(w) \/ Passes(w) \/ Fills(w) \/ Ends(w)
<1>1. ASSUME UNCHANGED <<buf, sent>> PROVE Stream' = Stream
  BY <1>1 DEF Stream
<1>2. ASSUME NEW w \in Writers, WriteClosed(w) \/ WriteRefused(w) PROVE EndsAtOnce(w)
  <2>1. PICK res \in {"eof", "refused"} : WriteEndsAtOnce(w, res)
    BY <1>2 DEF WriteClosed, WriteRefused
  <2>2. calls'[w] = calls[w] + 1
    BY <2>1 DEF WriteEndsAtOnce, TypeOK
  <2> QED  BY <1>1, <2>1, <2>2 DEF WriteEndsAtOnce, EndsAtOnce
<1>3. ASSUME NEW w \in Writers, WriteBegin(w) PROVE Begins(w)
  <2>1. calls'[w] = calls[w] + 1
    BY <1>3 DEF WriteBegin, TypeOK
  <2>2. calls[w] + 1 \in 1 .. MaxWrites
    <3>1. calls[w] \in Nat /\ MaxWrites \in Nat /\ calls[w] < MaxWrites
      BY <1>3, BoundAssumption DEF WriteBegin, TypeOK
    <3> QED  BY <3>1
  <2> QED  BY <1>1, <1>3, <2>1, <2>2 DEF WriteBegin, Begins
<1>4. ASSUME NEW w \in Writers, WriteThrough(w) PROVE Passes(w) \/ Ends(w)
  <2>1. pc[w] = "copy" /\ ~err /\ calls' = calls
    BY <1>4 DEF WriteThrough
  <2> QED  BY <1>4, <2>1, WriteThroughCarries, CarriesKind
<1>5. ASSUME NEW w \in Writers, FillAndFlush(w) PROVE Passes(w) \/ Ends(w)
  <2>1. pc[w] = "copy" /\ ~err /\ calls' = calls
    BY <1>5 DEF FillAndFlush
  <2> QED  BY <1>5, <2>1, FillAndFlushCarries, CarriesKind
<1>6. ASSUME NEW w \in Writers PROVE rest[w] \in Seq(Bytes) /\ Stream \in Seq(Bytes) /\ Stream = Stream \o <<>>
  BY StreamIn, ConcatEmpty DEF TypeOK
<1>7. ASSUME NEW w \in Writers, CopyRest(w) PROVE Fills(w) \/ Ends(w)
  <2>1. Stream' = Stream \o rest[w]
    BY <1>7, CopyRestCarries
  <2>2. CASE Returns(w, "ok") /\ Unlock
    <3>1. Stream' = Stream \o SubSeq(rest[w], 1, Len(rest[w])) /\ Len(rest[w]) \in 0 .. Len(rest[w])
      BY <1>6, <2>1, FullPart
    <3>2. pc[w] = "copy" /\ calls' = calls /\ err' = err
      BY <1>7 DEF CopyRest
    <3> QED  BY <2>2, <3>1, <3>2 DEF Ends, Unlock, Results
  <2>3. CASE ~(Returns(w, "ok") /\ Unlock)
    BY <1>7, <2>1, <2>3 DEF CopyRest, Fills
  <2> QED  BY <2>2, <2>3
<1>8. ASSUME NEW w \in Writers, WriteFails(w) PROVE Ends(w)
  <2>1. Stream' = Stream \o SubSeq(rest[w], 1, 0) /\ 0 \in 0 .. Len(rest[w])
    BY <1>1, <1>6, <1>8, FullPart DEF WriteFails
  <2> QED  BY <1>8, <2>1 DEF WriteFails, Ends, Unlock, Results
<1>9. ASSUME NEW w \in Writers, ThresholdFlush(w) PROVE Ends(w)
  <2>1. Stream' = Stream
    BY <1>9, FlushGrows DEF ThresholdFlush
  <2>2. Stream' = Stream \o SubSeq(rest[w], 1, 0) /\ 0 \in 0 .. Len(rest[w])
    BY <1>6, <2>1, FullPart
  <2>3. /\ pc[w] = "threshold" /\ calls' = calls /\ (err => err')
        /\ \E res \in Results : Returns(w, res) /\ (mu' = mu \/ (mu' = Nobody /\ (res = "ok" \/ err')))
    BY <1>9 DEF ThresholdFlush, PanicsOut, Unlock, FlushOk, FlushFails, FlushPanics, Results
  <2> QED  BY <2>1, <2>2, <2>3 DEF Ends
<1>10. ASSUME TimerFires \/ UNCHANGED vars PROVE Still
  BY <1>1, <1>10 DEF TimerFires, Still, vars, writerVars
<1>11. ASSUME TimerFlush PROVE Still
  <2>1. Stream' = Stream /\ (err => err')
    BY <1>1, <1>11, FlushGrows, ErrorStays DEF TimerFlush
  <2> QED  BY <1>11, <2>1 DEF TimerFlush, Still, writerVars
<1>12. ASSUME Close PROVE Still
  <2>1. Stream' = Stream /\ (err => err')
    BY <1>1, <1>12, FlushGrows, ErrorStays DEF Close
  <2> QED  BY <1>12, <2>1 DEF Close, Still, writerVars
<1> QED
  BY <1>2, <1>3, <1>4, <1>5, <1>7, <1>8, <1>9, <1>10, <1>11, <1>12 DEF Next, Writer, Finished

-----------------------------------------------------------------------------
(* Lines *)

Full(w) == Stream \o rest[w]

\* The last byte of line l is in s.
Has(s, l) == \E i \in 1 .. Len(s) : s[i] = [line |-> l, left |-> 1]

Complete(s) == Len(s) > 0 => s[Len(s)].left = 1

\* No line of s has yet to begin.
Seen(s, c) == \A i \in 1 .. Len(s) : s[i].line[2] <= c[s[i].line[1]]

\* The stream, followed by what the owner of the mutex still has to copy, has
\* whole lines; and it ends with a whole line when the next Write may begin.
LineInv ==
    /\ \A l \in Lines : result[l] = "ok" => Has(Stream, l)
    /\ Whole(Stream) /\ Seen(Stream, calls)
    /\ \A w \in Writers : pc[w] = "copy" =>
           Has(Full(w), Line(w)) /\ Whole(Full(w)) /\ Seen(Full(w), calls) /\ Complete(Full(w))
    /\ \A w \in Writers : pc[w] = "threshold" => Has(Stream, Line(w)) /\ Complete(Stream)
    /\ mu = Nobody /\ ~err => Complete(Stream)

\* What holds of the whole holds of its beginning.
LEMMA Beginning ==
    ASSUME NEW s \in Seq(Bytes), NEW t \in Seq(Bytes)
    PROVE  /\ Whole(s \o t) => Whole(s)
           /\ \A c : Seen(s \o t, c) => Seen(s, c)
           /\ \A l : Has(s, l) => Has(s \o t, l)
<1> DEFINE u == s \o t
<1>1. /\ u \in Seq(Bytes) /\ Len(u) = Len(s) + Len(t) /\ Len(s) \in Nat /\ Len(t) \in Nat
      /\ \A i \in 1 .. Len(s) : u[i] = s[i]
  OBVIOUS
<1> HIDE DEF u
<1>2. Whole(u) => Whole(s)
  <2> SUFFICES ASSUME Whole(u), NEW i \in 1 .. Len(s) - 1
               PROVE  IF s[i].left > 1 THEN s[i + 1] = [s[i] EXCEPT !.left = @ - 1]
                      ELSE \A j \in 1 .. i : s[j].line # s[i + 1].line
    BY DEF Whole
  <2>1. /\ i \in 1 .. Len(u) - 1 /\ i \in 1 .. Len(s) /\ i + 1 \in 1 .. Len(s)
        /\ \A j \in 1 .. i : j \in 1 .. Len(s)
    BY <1>1
  <2>2. u[i] = s[i] /\ u[i + 1] = s[i + 1] /\ \A j \in 1 .. i : u[j] = s[j]
    BY <1>1, <2>1
  <2> QED  BY <2>1, <2>2 DEF Whole
<1>3. \A c : Seen(u, c) => Seen(s, c)
  <2>1. \A i \in 1 .. Len(s) : i \in 1 .. Len(u)
    BY <1>1
  <2> QED  BY <1>1, <2>1 DEF Seen
<1>4. \A l : Has(s, l) => Has(u, l)
  <2>1. \A i \in 1 .. Len(s) : i \in 1 .. Len(u)
    BY <1>1
  <2> QED  BY <1>1, <2>1 DEF Has
<1> QED  BY <1>2, <1>3, <1>4 DEF u

\* A new line after whole ones.
LEMMA NewLine ==
    ASSUME NEW s \in Seq(Bytes), Whole(s), Complete(s), NEW l \in Lines, NEW n \in LineLens,
           \A i \in 1 .. Len(s) : s[i].line # l
    PROVE  LET u == s \o LineBytes(l, n)
           IN  Whole(u) /\ Complete(u) /\ Has(u, l) /\ \A i \in 1 .. Len(u) : u[i].line = l \/ \E j \in 1 .. Len(s) : u[i] = s[j]
<1> DEFINE b == LineBytes(l, n)
           u == s \o b
           k == Len(s)
<1>1. /\ b \in Seq(Bytes) /\ Len(b) = n /\ n \in Nat \ {0}
      /\ \A i \in 1 .. n : b[i] = [line |-> l, left |-> n + 1 - i]
  BY LineBytesType
<1> HIDE DEF b
<1>2. /\ u \in Seq(Bytes) /\ Len(u) = k + n /\ k \in Nat /\ n \in Nat \ {0} /\ k = Len(s)
      /\ \A i \in 1 .. k : u[i] = s[i]
      /\ \A i \in 1 .. n : u[k + i] = b[i]
  <2>1. b \in Seq(Bytes) /\ Len(b) = n /\ n \in Nat \ {0}
    BY <1>1
  <2>2. Len(s) \in Nat
    OBVIOUS
  <2>3. s \o b \in Seq(Bytes) /\ Len(s \o b) = Len(s) + Len(b)
    BY <2>1
  <2>4. ASSUME NEW i \in 1 .. Len(s) PROVE (s \o b)[i] = s[i]
    BY <2>1
  <2>5. ASSUME NEW i \in 1 .. Len(b) PROVE (s \o b)[Len(s) + i] = b[i]
    BY <2>1
  <2> QED  BY <2>1, <2>2, <2>3, <2>4, <2>5
<1> HIDE DEF u, k
<1>3. ASSUME NEW i \in 1 .. n PROVE u[k + i] = [line |-> l, left |-> n + 1 - i]
  <2>1. b[i] = [line |-> l, left |-> n + 1 - i]
    BY <1>1
  <2> QED  BY <1>2, <2>1
<1>4. ASSUME NEW i \in k + 1 .. k + n PROVE u[i] = [line |-> l, left |-> n + 1 - (i - k)]
  <2>1. i - k \in 1 .. n /\ k + (i - k) = i
    BY <1>1, <1>2
  <2> QED  BY <1>3, <2>1
<1>8. ASSUME NEW i \in k + 1 .. k + n PROVE u[i].line = l
  <2>1. u[i] = [line |-> l, left |-> n + 1 - (i - k)]
    BY <1>4
  <2> QED  BY <2>1
<1>5. Whole(u)
  <2> SUFFICES ASSUME NEW i \in 1 .. k + n - 1
               PROVE  IF u[i].left > 1 THEN u[i + 1] = [u[i] EXCEPT !.left = @ - 1]
                      ELSE \A j \in 1 .. i : u[j].line # u[i + 1].line
    BY <1>2 DEF Whole
  <2>1. CASE i < k
    <3>1. /\ i \in 1 .. k - 1 /\ i \in 1 .. k /\ i + 1 \in 1 .. k
          /\ \A j \in 1 .. i : j \in 1 .. k
      BY <1>2, <2>1
    <3>2. u[i] = s[i] /\ u[i + 1] = s[i + 1] /\ \A j \in 1 .. i : u[j] = s[j]
      BY <1>2, <3>1
    <3>3. i \in 1 .. Len(s) - 1
      BY <1>2, <3>1
    <3> QED  BY <3>2, <3>3 DEF Whole
  <2>2. CASE i = k
    <3>1. i \in 1 .. k /\ u[i] = s[i] /\ s[i].left = 1
      BY <1>2, <2>2 DEF Complete
    <3>2. i + 1 \in k + 1 .. k + n
      BY <1>1, <1>2, <2>2
    <3>3. u[i + 1].line = l
      BY <1>8, <3>2
    <3>4. \A j \in 1 .. i : u[j].line # l
      BY <1>2, <2>2
    <3> QED  BY <3>1, <3>3, <3>4
  <2>3. CASE i > k
    <3>1. i \in k + 1 .. k + n /\ i + 1 \in k + 1 .. k + n
      BY <1>2, <2>3
    <3> DEFINE m == n + 1 - (i - k)
    <3>2. m > 1 /\ m - 1 = n + 1 - (i + 1 - k)
      BY <1>1, <1>2, <2>3
    <3>3. u[i] = [line |-> l, left |-> m]
      BY <1>4, <3>1
    <3>4. u[i + 1] = [line |-> l, left |-> m - 1]
      <4> DEFINE j == i + 1
      <4>1. j \in k + 1 .. k + n /\ m - 1 = n + 1 - (j - k)
        BY <1>1, <1>2, <3>1
      <4> HIDE DEF j, m
      <4>2. u[j] = [line |-> l, left |-> n + 1 - (j - k)]
        BY <1>4, <4>1
      <4>3. u[j] = [line |-> l, left |-> m - 1]
        BY <4>1, <4>2
      <4> QED  BY <4>3 DEF j
    <3> HIDE DEF m
    <3> QED  BY <3>2, <3>3, <3>4
  <2>4. i < k \/ i = k \/ i > k
    BY <1>2
  <2> QED  BY <2>1, <2>2, <2>3, <2>4
<1>6. Complete(u) /\ Has(u, l)
  <2>1. k + n \in k + 1 .. k + n /\ Len(u) = k + n /\ k + n \in 1 .. Len(u) /\ n + 1 - ((k + n) - k) = 1
    BY <1>1, <1>2
  <2>2. u[k + n] = [line |-> l, left |-> 1]
    <3>1. PICK j \in k + 1 .. k + n : j = k + n /\ n + 1 - (j - k) = 1
      BY <2>1, Zenon
    <3>2. u[j] = [line |-> l, left |-> n + 1 - (j - k)]
      BY <1>4
    <3>3. n + 1 - (j - k) = 1 /\ j = k + n
      BY <3>1, Zenon
    <3> QED  BY <3>2, <3>3, Zenon
  <2> QED  BY <2>1, <2>2 DEF Complete, Has
<1>7. ASSUME NEW i \in 1 .. Len(u) PROVE u[i].line = l \/ \E j \in 1 .. k : u[i] = s[j]
  <2>1. i \in 1 .. k \/ i \in k + 1 .. k + n
    BY <1>1, <1>2
  <2> QED  BY <1>2, <1>8, <2>1
<1> QED  BY <1>5, <1>6, <1>7 DEF u, b, k

LEMMA SeenStays ==
    ASSUME NEW s \in Seq(Bytes), NEW c \in [Writers -> Nat], NEW d \in [Writers -> Nat], Seen(s, c),
           \A v \in Writers : c[v] <= d[v]
    PROVE  Seen(s, d)
<1> SUFFICES ASSUME NEW i \in 1 .. Len(s) PROVE s[i].line[2] <= d[s[i].line[1]]
  BY DEF Seen
<1>1. s[i].line \in Lines
  <2>1. s[i] \in Bytes
    OBVIOUS
  <2> QED  BY <2>1 DEF Bytes
<1>2. s[i].line[1] \in Writers /\ s[i].line[2] \in Nat
  BY <1>1, BoundAssumption DEF Lines
<1>3. s[i].line[2] <= c[s[i].line[1]] /\ c[s[i].line[1]] <= d[s[i].line[1]]
  BY <1>2 DEF Seen
<1>4. c[s[i].line[1]] \in Nat /\ d[s[i].line[1]] \in Nat
  BY <1>2
<1> QED  BY <1>2, <1>3, <1>4

\* A step that only counts calls.
LEMMA CallsGrow ==
    ASSUME TypeOK, TypeOK', NEW w \in Writers, calls' = [calls EXCEPT ![w] = @ + 1]
    PROVE  /\ calls \in [Writers -> Nat] /\ calls' \in [Writers -> Nat]
           /\ \A v \in Writers : calls[v] <= calls'[v]
           /\ calls'[w] = calls[w] + 1
<1>1. calls \in [Writers -> Nat] /\ calls' \in [Writers -> Nat]
  <2>1. \A i \in 0 .. MaxWrites : i \in Nat
    BY BoundAssumption
  <2>2. calls \in [Writers -> 0 .. MaxWrites] /\ calls' \in [Writers -> 0 .. MaxWrites]
    BY DEF TypeOK
  <2> QED  BY <2>1, <2>2
<1>2. calls'[w] = calls[w] + 1
  BY <1>1
<1>3. ASSUME NEW v \in Writers PROVE calls[v] <= calls'[v]
  <2>1. CASE v = w
    <3>1. calls[w] \in Nat
      BY <1>1
    <3> QED  BY <1>2, <2>1, <3>1
  <2>2. CASE v # w
    <3>1. calls'[v] = calls[v] /\ calls[v] \in Nat
      BY <1>1, <2>2
    <3> QED  BY <3>1
  <2> QED  BY <2>1, <2>2
<1> QED  BY <1>1, <1>2, <1>3

LEMMA BeginsStep ==
    ASSUME TypeOK, TypeOK', CloseInv, LineInv, NEW w \in Writers, Begins(w)
    PROVE  LineInv'
<1> DEFINE l == <<w, calls[w] + 1>>
<1>1. /\ Stream' = Stream /\ result' = result /\ mu = Nobody /\ mu' = w /\ ~err
      /\ pc' = [pc EXCEPT ![w] = "copy"] /\ pc \in [Writers -> PCs] /\ rest \in [Writers -> Seq(Bytes)]
  BY TypeParts DEF Begins, WriterType
<1>2. \A v \in Writers : pc[v] = "idle"
  BY <1>1, WriterAssumption DEF CloseInv
<1>3. l \in Lines
  BY DEF Begins, Lines
<1>4. /\ calls \in [Writers -> Nat] /\ calls' \in [Writers -> Nat] /\ calls'[w] = calls[w] + 1
      /\ \A v \in Writers : calls[v] <= calls'[v]
  BY CallsGrow DEF Begins
<1>5. Whole(Stream) /\ Complete(Stream) /\ Seen(Stream, calls) /\ Stream \in Seq(Bytes)
  BY <1>1, StreamIn DEF LineInv
<1>6. Seen(Stream, calls')
  BY <1>4, <1>5, SeenStays
<1>7. ASSUME NEW i \in 1 .. Len(Stream) PROVE Stream[i].line # l
  <2>1. Stream[i].line[2] <= calls[Stream[i].line[1]]
    BY <1>5 DEF Seen
  <2>2. calls[w] \in Nat /\ l[1] = w /\ l[2] = calls[w] + 1
    BY <1>4
  <2>3. SUFFICES ASSUME Stream[i].line = l PROVE FALSE
    OBVIOUS
  <2>4. calls[w] + 1 <= calls[w]
    BY <2>1, <2>2, <2>3
  <2> QED  BY <2>2, <2>4
<1>8. PICK n \in LineLens : rest' = [rest EXCEPT ![w] = LineBytes(l, n)]
  BY DEF Begins
<1> DEFINE u == Stream \o LineBytes(l, n)
<1>9. Full(w)' = u /\ Line(w)' = l
  BY <1>1, <1>4, <1>8 DEF Full, Line
<1>10. Whole(u) /\ Complete(u) /\ Has(u, l) /\ \A i \in 1 .. Len(u) : u[i].line = l \/ \E j \in 1 .. Len(Stream) : u[i] = Stream[j]
  <2> HIDE DEF l
  <2> QED  BY <1>3, <1>5, <1>7, NewLine
<1> HIDE DEF u
<1>11. Seen(u, calls')
  <2> SUFFICES ASSUME NEW i \in 1 .. Len(u) PROVE u[i].line[2] <= calls'[u[i].line[1]]
    BY DEF Seen
  <2>1. CASE u[i].line = l
    <3>1. calls'[w] \in Nat /\ u[i].line[1] = w /\ u[i].line[2] = calls'[w]
      BY <1>4, <2>1
    <3> QED  BY <3>1
  <2>2. CASE \E j \in 1 .. Len(Stream) : u[i] = Stream[j]
    BY <1>6, <2>2 DEF Seen
  <2> QED  BY <1>10, <2>1, <2>2
<1>12. \A v \in Writers : pc'[v] = IF v = w THEN "copy" ELSE "idle"
  BY <1>1, <1>2
<1>13. Has(Full(w)', Line(w)') /\ Whole(Full(w)') /\ Seen(Full(w)', calls') /\ Complete(Full(w)')
  BY <1>9, <1>10, <1>11
<1>14. \A k \in Lines : result'[k] = "ok" => Has(Stream', k)
  BY <1>1 DEF LineInv
<1>15. Whole(Stream') /\ Seen(Stream', calls') /\ mu' # Nobody
  BY <1>1, <1>5, <1>6, WriterAssumption
<1> QED  BY <1>12, <1>13, <1>14, <1>15 DEF LineInv

LEMMA EndsAtOnceStep ==
    ASSUME TypeOK, TypeOK', LineInv, NEW w \in Writers, EndsAtOnce(w)
    PROVE  LineInv'
<1>1. /\ Stream' = Stream /\ err' = err /\ UNCHANGED <<mu, pc, rest>> /\ pc[w] = "idle"
      /\ result \in [Lines -> Results] /\ Stream \in Seq(Bytes)
  BY StreamIn, TypeParts DEF EndsAtOnce, WriterType
<1>2. /\ calls \in [Writers -> Nat] /\ calls' \in [Writers -> Nat]
      /\ \A v \in Writers : calls[v] <= calls'[v]
      /\ \A v \in Writers : v # w => calls'[v] = calls[v]
  BY CallsGrow DEF EndsAtOnce
<1>3. \A l \in Lines : result'[l] = "ok" => result[l] = "ok"
  BY <1>1 DEF EndsAtOnce
<1>4. ASSUME NEW v \in Writers, pc'[v] # "idle" PROVE Full(v)' = Full(v) /\ Line(v)' = Line(v) /\ Full(v) \in Seq(Bytes)
  <2>1. rest[v] \in Seq(Bytes)
    BY DEF TypeOK
  <2>2. Full(v) \in Seq(Bytes)
    BY <1>1, <2>1, ConcatType DEF Full
  <2> QED  BY <1>1, <1>2, <1>4, <2>2 DEF Full, Line
<1>5. ASSUME NEW v \in Writers, pc'[v] = "copy"
      PROVE  Has(Full(v)', Line(v)') /\ Whole(Full(v)') /\ Seen(Full(v)', calls') /\ Complete(Full(v)')
  <2>1. Has(Full(v), Line(v)) /\ Whole(Full(v)) /\ Seen(Full(v), calls) /\ Complete(Full(v))
    BY <1>1, <1>5 DEF LineInv
  <2>2. Seen(Full(v), calls')
    BY <1>2, <1>4, <1>5, <2>1, SeenStays
  <2> QED  BY <1>4, <1>5, <2>1, <2>2
<1>6. Seen(Stream', calls')
  BY <1>1, <1>2, SeenStays DEF LineInv
<1>7. ASSUME NEW v \in Writers, pc'[v] = "threshold" PROVE Has(Stream', Line(v)') /\ Complete(Stream')
  BY <1>1, <1>4, <1>7 DEF LineInv
<1> QED  BY <1>1, <1>3, <1>5, <1>6, <1>7 DEF LineInv

LEMMA StillStep == ASSUME TypeOK, LineInv, Still PROVE LineInv'
<1>1. Stream' = Stream /\ (err => err') /\ UNCHANGED <<mu, pc, calls, rest, result>> /\ err \in BOOLEAN
  BY DEF Still, TypeOK
<1>2. \A v \in Writers : Full(v)' = Full(v) /\ Line(v)' = Line(v)
  BY <1>1 DEF Full, Line
<1> QED  BY <1>1, <1>2 DEF LineInv

LEMMA PassesStep ==
    ASSUME TypeOK, CloseInv, LineInv, NEW w \in Writers, Passes(w)
    PROVE  LineInv'
<1>1. /\ pc[w] = "copy" /\ UNCHANGED <<mu, pc, calls, result>> /\ mu = w /\ mu # Nobody
      /\ \A v \in Writers : pc[v] # "idle" => v = w
  BY WriterAssumption DEF Passes, CloseInv
<1>2. PICK m \in 0 .. Len(rest[w]) :
        /\ Stream' = Stream \o SubSeq(rest[w], 1, m)
        /\ rest' = [rest EXCEPT ![w] = SubSeq(rest[w], m + 1, Len(rest[w]))]
  BY DEF Passes
<1> DEFINE s == SubSeq(rest[w], 1, m)
           t == SubSeq(rest[w], m + 1, Len(rest[w]))
<1>3. Stream \in Seq(Bytes) /\ rest[w] \in Seq(Bytes) /\ rest \in [Writers -> Seq(Bytes)]
  BY StreamIn DEF TypeOK
<1>4. s \in Seq(Bytes) /\ t \in Seq(Bytes) /\ s \o t = rest[w]
  BY <1>3, SplitSeq
<1>5. Stream' = Stream \o s /\ rest'[w] = t
  BY <1>2, <1>3
<1> HIDE DEF s, t
<1>6. (Stream \o s) \o t = Full(w)
  <2>1. Stream \in Seq(Bytes) /\ s \in Seq(Bytes) /\ t \in Seq(Bytes)
    BY <1>3, <1>4
  <2>2. (Stream \o s) \o t = Stream \o (s \o t)
    BY <2>1, ConcatAssoc
  <2>3. s \o t = rest[w]
    BY <1>4
  <2> QED  BY <2>2, <2>3 DEF Full
<1>7. Full(w)' = Full(w) /\ Line(w)' = Line(w)
  BY <1>1, <1>5, <1>6 DEF Full, Line
<1>8. Stream' \in Seq(Bytes) /\ Full(w) = Stream' \o t
  BY <1>3, <1>4, <1>5, <1>6, ConcatType
<1>9. Has(Full(w), Line(w)) /\ Whole(Full(w)) /\ Seen(Full(w), calls) /\ Complete(Full(w))
  BY <1>1 DEF LineInv
<1>10. Whole(Stream') /\ Seen(Stream', calls')
  BY <1>1, <1>4, <1>8, <1>9, Beginning
<1>11. \A l \in Lines : result'[l] = "ok" => Has(Stream', l)
  BY <1>1, <1>3, <1>4, <1>5, Beginning DEF LineInv
<1> QED  BY <1>1, <1>7, <1>9, <1>10, <1>11 DEF LineInv

LEMMA FillsStep ==
    ASSUME TypeOK, CloseInv, LineInv, NEW w \in Writers, Fills(w)
    PROVE  LineInv'
<1>1. /\ pc[w] = "copy" /\ UNCHANGED <<mu, calls, result>> /\ mu = w /\ mu # Nobody
      /\ pc' = [pc EXCEPT ![w] = "threshold"] /\ pc \in [Writers -> PCs]
      /\ \A v \in Writers : pc[v] # "idle" => v = w
  BY WriterAssumption, TypeParts DEF Fills, CloseInv, WriterType
<1>2. Stream' = Full(w) /\ Line(w)' = Line(w)
  BY <1>1 DEF Fills, Full, Line
<1>3. Has(Full(w), Line(w)) /\ Whole(Full(w)) /\ Seen(Full(w), calls) /\ Complete(Full(w))
  BY <1>1 DEF LineInv
<1>4. Stream \in Seq(Bytes) /\ rest[w] \in Seq(Bytes)
  BY StreamIn DEF TypeOK
<1>5. \A l \in Lines : result'[l] = "ok" => Has(Stream', l)
  BY <1>1, <1>2, <1>4, Beginning DEF LineInv, Full
<1>6. \A v \in Writers : pc'[v] # "idle" => v = w /\ pc'[v] = "threshold"
  BY <1>1
<1> QED  BY <1>1, <1>2, <1>3, <1>5, <1>6 DEF LineInv

LEMMA EndsStep ==
    ASSUME TypeOK, CloseInv, LineInv, NEW w \in Writers, Ends(w)
    PROVE  LineInv'
<1>1. /\ pc[w] # "idle" /\ UNCHANGED calls /\ mu = w /\ mu # Nobody
      /\ pc \in [Writers -> PCs] /\ result \in [Lines -> Results]
      /\ \A v \in Writers : pc[v] # "idle" => v = w
  BY WriterAssumption, TypeParts DEF Ends, CloseInv, WriterType
<1>2. PICK res \in Results, m \in 0 .. Len(rest[w]) :
        /\ Returns(w, res)
        /\ Stream' = Stream \o SubSeq(rest[w], 1, m) /\ (pc[w] = "threshold" => Stream' = Stream)
        /\ res = "ok" => pc[w] = "threshold" \/ m = Len(rest[w])
        /\ mu' = mu \/ (mu' = Nobody /\ (res = "ok" \/ err'))
  BY DEF Ends
<1>3. Stream \in Seq(Bytes) /\ rest[w] \in Seq(Bytes)
  BY StreamIn DEF TypeOK
<1> DEFINE s == SubSeq(rest[w], 1, m)
           t == SubSeq(rest[w], m + 1, Len(rest[w]))
<1>4. s \in Seq(Bytes) /\ t \in Seq(Bytes) /\ s \o t = rest[w] /\ (m = Len(rest[w]) => s = rest[w])
  BY <1>3, SplitSeq, FullPart
<1>5. Stream' = Stream \o s
  BY <1>2
<1> HIDE DEF s, t
<1>6. (Stream \o s) \o t = Full(w) /\ Stream' \in Seq(Bytes)
  <2>1. Stream \in Seq(Bytes) /\ s \in Seq(Bytes) /\ t \in Seq(Bytes)
    BY <1>3, <1>4
  <2>2. (Stream \o s) \o t = Stream \o (s \o t)
    BY <2>1, ConcatAssoc
  <2>3. s \o t = rest[w]
    BY <1>4
  <2>4. Stream \o s \in Seq(Bytes)
    BY <2>1, ConcatType
  <2> QED  BY <1>5, <2>2, <2>3, <2>4 DEF Full
<1>7. Whole(Stream') /\ Seen(Stream', calls')
  <2>1. CASE pc[w] = "copy"
    <3>1. Whole(Full(w)) /\ Seen(Full(w), calls)
      BY <2>1 DEF LineInv
    <3>2. Full(w) = Stream' \o t
      BY <1>5, <1>6
    <3>3. Stream' \in Seq(Bytes) /\ t \in Seq(Bytes) /\ calls' = calls
      BY <1>1, <1>4, <1>6
    <3> QED  BY <3>1, <3>2, <3>3, Beginning
  <2>2. CASE pc[w] = "threshold"
    BY <1>1, <1>2, <2>2 DEF LineInv
  <2> QED  BY <1>1, <2>1, <2>2 DEF PCs
<1>8. res = "ok" => Has(Stream', Line(w)) /\ Complete(Stream')
  <2>1. CASE pc[w] = "copy"
    BY <1>2, <1>4, <1>5, <2>1 DEF LineInv, Full
  <2>2. CASE pc[w] = "threshold"
    BY <1>2, <2>2 DEF LineInv
  <2> QED  BY <1>1, <2>1, <2>2 DEF PCs
<1>9. ASSUME NEW l \in Lines, result'[l] = "ok" PROVE Has(Stream', l)
  <2>1. result' = [result EXCEPT ![Line(w)] = res]
    BY <1>2 DEF Returns
  <2>2. CASE l = Line(w) /\ res = "ok"
    BY <1>8, <2>2
  <2>3. CASE result[l] = "ok"
    BY <1>3, <1>4, <1>5, <2>3, Beginning DEF LineInv
  <2> QED  BY <1>1, <1>9, <2>1, <2>2, <2>3
<1>10. \A v \in Writers : pc'[v] = "idle"
  BY <1>1, <1>2 DEF Returns
<1>11. mu' = Nobody /\ ~err' => Complete(Stream')
  BY <1>1, <1>2, <1>8
<1> QED  BY <1>7, <1>9, <1>10, <1>11 DEF LineInv

LEMMA LineStep == TypeOK /\ CloseInv /\ LineInv /\ [Next]_vars => LineInv'
<1> SUFFICES ASSUME TypeOK, CloseInv, LineInv, [Next]_vars PROVE LineInv'
  OBVIOUS
<1>1. TypeOK'
  BY StepEffect
<1> QED
  BY <1>1, Kinds, StillStep, EndsAtOnceStep, BeginsStep, PassesStep, FillsStep, EndsStep

LEMMA LineInit == Init => LineInv
<1> SUFFICES ASSUME Init PROVE LineInv
  OBVIOUS
<1>1. Stream = <<>> /\ Len(Stream) = 0
  BY DEF Init, Stream
<1>2. Whole(Stream) /\ Seen(Stream, calls) /\ Complete(Stream)
  BY <1>1 DEF Whole, Seen, Complete
<1> QED  BY <1>2 DEF Init, LineInv

LEMMA LinesHold == Spec => []LineInv
<1>1. Init => CloseInv
  BY DEF Init, CloseInv
<1> QED  BY <1>1, LineInit, LineStep, CloseStep, TypeCorrect, PTL DEF Spec

\* AckedInStream: a Write that reported success has its line in the stream, to
\* the last byte.
THEOREM AckedIsInStream == Spec => []AckedInStream
<1>1. LineInv => AckedInStream
  BY DEF LineInv, Has, AckedInStream
<1> QED  BY <1>1, LinesHold, PTL

-----------------------------------------------------------------------------
(* What the underlying writer has *)

\* Nobody gets past a panic that left the mutex locked or ended the process.
Halted == Stuck \/ ~alive

\* What the underlying writer has is what bufio is done with; or a panic has
\* ended it all, and some bytes of the buffer are out too.
WireInv ==
    \/ closer = "panic"
    \/ out = sent
    \/ Halted /\ \E t \in Seq(Bytes) : Stream = out \o t

LEMMA HaltedStays ==
    TypeOK /\ CloseInv /\ Halted /\ [Next]_vars => Halted' /\ UNCHANGED <<sent, out, buf>>
<1> SUFFICES ASSUME TypeOK, CloseInv, Halted, [Next]_vars PROVE Halted' /\ UNCHANGED <<sent, out, buf>>
  OBVIOUS
<1>1. CASE ~alive
  BY <1>1 DEF Next, Finished, vars, Halted
<1>2. CASE alive
  <2>1. mu # Nobody /\ mu \in Writers /\ pc[mu] = "idle"
    BY <1>2, TypeParts DEF Halted, Stuck, WriterType
  <2>2. \A w \in Writers : pc[w] = "idle"
    BY <2>1 DEF CloseInv
  <2>3. ASSUME NEW w \in Writers PROVE ~Writer(w)
    BY <2>1, <2>2 DEF Writer, WriteClosed, WriteRefused, WriteEndsAtOnce, WriteBegin, WriteThrough,
         FillAndFlush, CopyRest, WriteFails, ThresholdFlush
  <2>4. ~TimerFlush /\ ~Close
    BY <2>1 DEF TimerFlush, Close
  <2>5. CASE TimerFires
    BY <2>1, <2>5 DEF TimerFires, writerVars, Halted, Stuck
  <2>6. CASE UNCHANGED vars
    BY <2>1, <2>6 DEF vars, writerVars, Halted, Stuck
  <2> QED  BY <2>3, <2>4, <2>5, <2>6 DEF Next, Finished
<1> QED  BY <1>1, <1>2 DEF TypeOK

\* A flush that panics has taken a part of the stream.
LEMMA PanicTakes ==
    ASSUME TypeOK, out = sent, NEW chunk \in Seq(Bytes), FlushPanics(chunk)
    PROVE  \E t \in Seq(Bytes) : Stream' = out' \o t
<1>1. PICK n \in 0 .. Len(chunk) : out' = out \o SubSeq(chunk, 1, n)
  BY DEF FlushPanics
<1> DEFINE s == SubSeq(chunk, 1, n)
           t == SubSeq(chunk, n + 1, Len(chunk))
<1>2. s \in Seq(Bytes) /\ t \in Seq(Bytes) /\ s \o t = chunk
  BY SplitSeq
<1>3. out' = sent \o s /\ Stream' = sent \o chunk
  BY <1>1 DEF FlushPanics, Stream
<1> HIDE DEF s, t
<1>4. (sent \o s) \o t = sent \o (s \o t)
  <2>1. s \in Seq(Bytes) /\ t \in Seq(Bytes)
    BY <1>2
  <2>2. sent \in Seq(Bytes)
    BY DEF TypeOK
  <2> QED  BY <2>1, <2>2, ConcatAssoc
<1>5. Stream' = out' \o t
  BY <1>2, <1>3, <1>4, Zenon
<1> QED  BY <1>2, <1>5

LEMMA TakesBoth == out = sent => \A chunk : Takes(chunk) \/ FlushOk(chunk) \/ FlushFails(chunk) => out' = sent'
BY DEF Takes, FlushOk, FlushFails

LEMMA WireStep == TypeOK /\ CloseInv /\ WireInv /\ [Next]_vars => WireInv'
<1> SUFFICES ASSUME TypeOK, CloseInv, WireInv, [Next]_vars PROVE WireInv'
  OBVIOUS
<1>1. CASE closer = "panic"
  <2>1. closer' = closer
    BY <1>1 DEF Next, Writer, WriteClosed, WriteRefused, WriteEndsAtOnce, WriteBegin, WriteThrough,
         FillAndFlush, CopyRest, WriteFails, ThresholdFlush, TimerFires, TimerFlush, Close, Finished, vars
  <2> QED  BY <1>1, <2>1 DEF WireInv
<1>2. CASE Halted /\ \E t \in Seq(Bytes) : Stream = out \o t
  <2>1. Halted' /\ Stream' = Stream /\ out' = out
    BY <1>2, HaltedStays DEF Stream
  <2> QED  BY <1>2, <2>1 DEF WireInv
<1>3. CASE out = sent
  <2>1. ASSUME UNCHANGED <<sent, out>> PROVE WireInv'
    BY <1>3, <2>1 DEF WireInv
  <2>2. ASSUME NEW chunk, Takes(chunk) \/ FlushOk(chunk) \/ FlushFails(chunk) PROVE WireInv'
    BY <1>3, <2>2, TakesBoth DEF WireInv
  \* A Write that panics keeps the mutex.
  <2>3. ASSUME NEW w \in Writers, pc[w] # "idle", PanicsOut(w),
               NEW chunk \in Seq(Bytes), FlushPanics(chunk)
        PROVE  WireInv'
    <3>1. mu' = w /\ w # Nobody /\ pc'[w] = "idle"
      BY <2>3, TypeParts, WriterAssumption DEF PanicsOut, Returns, CloseInv, WriterType
    <3>2. Halted'
      BY <3>1 DEF Halted, Stuck
    <3> QED  BY <1>3, <2>3, <3>2, PanicTakes DEF WireInv
  <2>4. buf \in Seq(Bytes)
    BY DEF TypeOK
  <2>5. ASSUME NEW w \in Writers, WriteThrough(w) PROVE WireInv'
    BY <2>2, <2>5 DEF WriteThrough
  <2>6. ASSUME NEW w \in Writers, FillAndFlush(w) PROVE WireInv'
    <3> DEFINE full == buf \o SubSeq(rest[w], 1, Room)
    <3>1. full \in Seq(Bytes)
      <4>1. rest[w] \in Seq(Bytes) /\ Room \in 0 .. Len(rest[w])
        BY <2>6, SizeAssumption DEF TypeOK, FillAndFlush, Room
      <4>2. SubSeq(rest[w], 1, Room) \in Seq(Bytes)
        BY <4>1, SplitSeq
      <4> QED  BY <2>4, <4>2, ConcatType
    <3>2. pc[w] # "idle" /\ \/ FlushOk(full) \/ FlushFails(full)
                            \/ FlushPanics(full) /\ PanicsOut(w)
      BY <2>6 DEF FillAndFlush
    <3> HIDE DEF full
    <3> QED  BY <2>2, <2>3, <3>1, <3>2
  <2>7. ASSUME NEW w \in Writers, ThresholdFlush(w) PROVE WireInv'
    <3>1. pc[w] # "idle" /\ \/ FlushOk(buf) \/ FlushFails(buf)
                            \/ FlushPanics(buf) /\ PanicsOut(w)
      BY <2>7 DEF ThresholdFlush
    <3> QED  BY <2>2, <2>3, <2>4, <3>1
  <2>8. CASE TimerFlush
    <3>1. \/ UNCHANGED <<sent, out>>
          \/ FlushOk(buf) \/ FlushFails(buf)
          \/ FlushPanics(buf) /\ ~alive'
      BY <2>8 DEF TimerFlush
    <3> QED  BY <1>3, <2>1, <2>2, <2>4, <3>1, PanicTakes DEF WireInv, Halted
  <2>9. CASE Close
    <3>1. \/ UNCHANGED <<sent, out>>
          \/ FlushOk(buf) \/ FlushFails(buf)
          \/ closer' = "panic"
      BY <2>9 DEF Close
    <3> QED  BY <2>1, <2>2, <3>1 DEF WireInv
  <2>10. ASSUME NEW w \in Writers, WriteClosed(w) \/ WriteRefused(w) \/ WriteBegin(w) \/ CopyRest(w) \/ WriteFails(w)
         PROVE  UNCHANGED <<sent, out>>
    BY <2>10 DEF WriteClosed, WriteRefused, WriteEndsAtOnce, WriteBegin, CopyRest, WriteFails
  <2>11. ASSUME TimerFires \/ UNCHANGED vars PROVE UNCHANGED <<sent, out>>
    BY <2>11 DEF TimerFires, vars
  <2> QED
    BY <2>1, <2>5, <2>6, <2>7, <2>8, <2>9, <2>10, <2>11 DEF Next, Writer, Finished
<1> QED  BY <1>1, <1>2, <1>3 DEF WireInv

LEMMA WireHolds == Spec => []WireInv
<1>1. Init => CloseInv /\ WireInv
  BY DEF Init, CloseInv, WireInv
<1> QED  BY <1>1, WireStep, CloseStep, TypeCorrect, PTL DEF Spec

\* WholeLines: lines do not mix, whatever fails and whoever writes; not even in
\* what the underlying writer has, unless Close panicked.
THEOREM LinesStayWhole == Spec => []WholeLines
<1>1. TypeOK /\ LineInv /\ WireInv => WholeLines
  <2> SUFFICES ASSUME TypeOK, LineInv, WireInv, closer # "panic" PROVE Whole(out)
    BY DEF LineInv, WholeLines
  <2>1. Whole(Stream) /\ sent \in Seq(Bytes) /\ out \in Seq(Bytes) /\ buf \in Seq(Bytes)
    BY DEF LineInv, TypeOK
  <2>2. PICK t \in Seq(Bytes) : Stream = out \o t
    BY <2>1 DEF WireInv, Stream
  <2> QED  BY <2>1, <2>2, Beginning
<1> QED  BY <1>1, LinesHold, WireHolds, TypeCorrect, PTL

-----------------------------------------------------------------------------
(* What the underlying writer gets in one call *)

\* What is left of a line is its end.
RestInv == \A w \in Writers : pc[w] = "copy" =>
               \A i \in 1 .. Len(rest[w]) : rest[w][i] = [line |-> Line(w), left |-> Len(rest[w]) + 1 - i]

\* Between Writes, and whenever the loop of one goes round, the buffer is below
\* its threshold; so there is room for a line that is not too long.
LowInv == ~err /\ (mu = Nobody \/ \E w \in Writers : pc[w] = "copy") => Len(buf) < Threshold

CleanInv == \A w \in Writers : pc[w] = "threshold" => ~err /\ Len(buf) > 0

\* While there is something in the buffer, nothing of the line has gone there.
FreshInv == \A w \in Writers : pc[w] = "copy" /\ ~err /\ Len(buf) > 0
                => \A i \in 1 .. Len(Stream) : Stream[i].line # Line(w)

\* A line of which too much is in s.
TooLong(s, l) == \E i \in 1 .. Len(s) : s[i].line = l /\ ~(s[i].left <= Size - Threshold + 1)

\* The call that took s from after its m-th byte to its n-th cut a line there,
\* as it may.
CutsLong(s, m, n) ==
    /\ n - m = Size
    /\ m > 0 => s[m].line # s[n].line

CutInv == \A c \in cuts :
              /\ c[1] \in Nat /\ c[2] \in Nat /\ c[1] < c[2] /\ c[2] <= Len(sent)
              /\ sent[c[2]].left = 1 \/ (CutsLong(sent, c[1], c[2]) /\ TooLong(Stream, sent[c[2]].line))

LEMMA SmallSeqs == <<>> \in Seq(Bytes) /\ Len(<<>>) = 0 /\ 0 < Threshold /\ Size \in Nat /\ Threshold \in Nat
BY SizeAssumption

LEMMA RestStep == TypeOK /\ CloseInv /\ RestInv /\ [Next]_vars => RestInv'
<1> SUFFICES ASSUME TypeOK, CloseInv, RestInv, [Next]_vars PROVE RestInv'
  OBVIOUS
<1>1. /\ pc \in [Writers -> PCs] /\ rest \in [Writers -> Seq(Bytes)] /\ calls \in [Writers -> 0 .. MaxWrites]
      /\ \A v, w \in Writers : pc[v] # "idle" /\ pc[w] # "idle" => v = w
  BY TypeParts DEF WriterType, CloseInv
<1>2. CASE Still
  BY <1>2 DEF Still, RestInv, Line
<1>3. ASSUME NEW w \in Writers, EndsAtOnce(w) PROVE RestInv'
  BY <1>1, <1>3 DEF EndsAtOnce, RestInv, Line
<1>4. ASSUME NEW w \in Writers, Begins(w) PROVE RestInv'
  <2> DEFINE l == <<w, calls[w] + 1>>
  <2>1. PICK len \in LineLens : rest' = [rest EXCEPT ![w] = LineBytes(l, len)]
    BY <1>4 DEF Begins
  <2>2. l \in Lines /\ calls' = [calls EXCEPT ![w] = calls[w] + 1] /\ pc' = [pc EXCEPT ![w] = "copy"]
    BY <1>4 DEF Begins, Lines
  <2>3. Line(w)' = l
    BY <1>1, <2>2 DEF Line
  <2>4. \A v \in Writers : pc[v] = "idle"
    BY <1>4, WriterAssumption DEF Begins, CloseInv
  <2> HIDE DEF l
  <2>5. Len(rest'[w]) = len /\ \A i \in 1 .. len : rest'[w][i] = [line |-> l, left |-> len + 1 - i]
    BY <1>1, <2>1, <2>2, LineBytesType
  <2>6. \A v \in Writers : pc'[v] = "copy" => v = w
    BY <1>1, <2>2, <2>4
  <2> QED  BY <2>3, <2>5, <2>6 DEF RestInv
<1>5. ASSUME NEW w \in Writers, Passes(w) PROVE RestInv'
  <2>1. PICK m \in 0 .. Len(rest[w]) : rest' = [rest EXCEPT ![w] = SubSeq(rest[w], m + 1, Len(rest[w]))]
    BY <1>5 DEF Passes
  <2> DEFINE r == rest[w]
             t == SubSeq(r, m + 1, Len(r))
  <2>2. r \in Seq(Bytes) /\ Len(r) \in Nat /\ m \in Nat /\ m <= Len(r)
    BY <1>1
  <2>3. Len(t) = Len(r) - m /\ \A i \in 1 .. Len(r) - m : t[i] = r[m + i]
    BY <2>2
  <2>4. pc[w] = "copy" /\ UNCHANGED <<pc, calls>> /\ rest'[w] = t
    BY <1>1, <1>5, <2>1 DEF Passes
  <2>5. \A i \in 1 .. Len(r) : r[i] = [line |-> Line(w), left |-> Len(r) + 1 - i]
    BY <2>4 DEF RestInv
  <2> HIDE DEF r, t
  <2>6. ASSUME NEW i \in 1 .. Len(t) PROVE t[i] = [line |-> Line(w), left |-> Len(t) + 1 - i]
    <3>1. m + i \in 1 .. Len(r) /\ Len(r) + 1 - (m + i) = Len(t) + 1 - i
      BY <2>2, <2>3
    <3>2. r[m + i] = [line |-> Line(w), left |-> Len(r) + 1 - (m + i)]
      BY <2>5, <3>1
    <3> QED  BY <2>3, <3>1, <3>2
  <2>7. Line(w)' = Line(w) /\ \A v \in Writers : pc'[v] = "copy" => v = w
    BY <1>1, <2>4 DEF Line
  <2> QED  BY <2>4, <2>6, <2>7 DEF RestInv
<1>6. ASSUME NEW w \in Writers, Fills(w) \/ Ends(w) PROVE RestInv'
  <2>1. pc[w] # "idle" /\ \E l \in {"idle", "threshold"} : pc' = [pc EXCEPT ![w] = l]
    BY <1>6 DEF Fills, Ends, Returns
  <2>2. \A v \in Writers : pc'[v] # "copy"
    BY <1>1, <2>1
  <2> QED  BY <2>2 DEF RestInv
<1> QED  BY <1>2, <1>3, <1>4, <1>5, <1>6, Kinds

LEMMA FreshStep == TypeOK /\ TypeOK' /\ CloseInv /\ LineInv /\ FreshInv /\ [Next]_vars => FreshInv'
<1> SUFFICES ASSUME TypeOK, TypeOK', CloseInv, LineInv, FreshInv, [Next]_vars,
                    NEW w \in Writers, pc'[w] = "copy", ~err', Len(buf') > 0
             PROVE  \A i \in 1 .. Len(Stream') : Stream'[i].line # Line(w)'
  BY DEF FreshInv
<1>1. /\ pc \in [Writers -> PCs] /\ calls \in [Writers -> 0 .. MaxWrites]
      /\ \A v \in Writers : pc[v] # "idle" => mu = v /\ mu # Nobody
      /\ \A u, v \in Writers : pc[u] # "idle" /\ pc[v] # "idle" => u = v
  BY TypeParts, WriterAssumption DEF WriterType, CloseInv
\* The line's goroutine is in its loop already, and nothing moves.
<1>2. ASSUME pc[w] = "copy", UNCHANGED <<sent, buf, err, calls>>
      PROVE  \A i \in 1 .. Len(Stream') : Stream'[i].line # Line(w)'
  BY <1>2 DEF FreshInv, Stream, Line
<1>3. ASSUME NEW v \in Writers, WriteClosed(v) \/ WriteRefused(v) PROVE FALSE
  <2>1. mu = Nobody /\ pc' = pc
    BY <1>3 DEF WriteClosed, WriteRefused, WriteEndsAtOnce
  <2> QED  BY <1>1, <2>1
<1>4. ASSUME NEW v \in Writers, WriteBegin(v) PROVE \A i \in 1 .. Len(Stream') : Stream'[i].line # Line(w)'
  <2>1. mu = Nobody /\ pc' = [pc EXCEPT ![v] = "copy"] /\ Stream' = Stream /\ calls' = [calls EXCEPT ![v] = @ + 1]
    BY <1>4 DEF WriteBegin, Stream
  <2>2. w = v /\ calls'[w] = calls[w] + 1 /\ calls[w] \in Nat
    <3>1. calls[w] \in Nat
      BY <1>1, BoundAssumption
    <3>2. w = v
      BY <1>1, <2>1
    <3> QED  BY <1>1, <2>1, <3>1, <3>2
  <2>3. Seen(Stream, calls)
    BY DEF LineInv
  <2>4. ASSUME NEW i \in 1 .. Len(Stream), Stream[i].line = <<w, calls[w] + 1>> PROVE FALSE
    <3>1. Stream[i].line[2] <= calls[Stream[i].line[1]]
      BY <2>3 DEF Seen
    <3>2. Stream[i].line[1] = w /\ Stream[i].line[2] = calls[w] + 1
      BY <2>4
    <3> QED  BY <2>2, <3>1, <3>2
  <2> QED  BY <2>1, <2>2, <2>4 DEF Line
<1>5. ASSUME NEW v \in Writers, WriteThrough(v) PROVE FALSE
  <2>1. buf' = <<>>
    BY <1>5 DEF WriteThrough
  <2> QED  BY <2>1, SmallSeqs
<1>6. ASSUME NEW v \in Writers, FillAndFlush(v) PROVE FALSE
  <2>1. pc[v] = "copy" /\ (PanicsOut(v) \/ buf' = <<>> \/ err')
    BY <1>6 DEF FillAndFlush, FlushOk, FlushFails
  <2>2. CASE PanicsOut(v)
    <3>1. pc' = [pc EXCEPT ![v] = "idle"]
      BY <2>2 DEF PanicsOut, Returns
    <3> QED  BY <1>1, <2>1, <3>1
  <2> QED  BY <2>1, <2>2, SmallSeqs
<1>7. ASSUME NEW v \in Writers, CopyRest(v) \/ WriteFails(v) \/ ThresholdFlush(v) PROVE FALSE
  <2>1. pc[v] # "idle" /\ \E l \in {"idle", "threshold"} : pc' = [pc EXCEPT ![v] = l]
    BY <1>7 DEF CopyRest, WriteFails, ThresholdFlush, PanicsOut, Returns
  <2> QED  BY <1>1, <2>1
<1>8. ASSUME TimerFlush \/ Close PROVE FALSE
  <2>1. mu = Nobody /\ pc' = pc
    BY <1>8 DEF TimerFlush, Close, writerVars
  <2> QED  BY <1>1, <2>1
<1>9. ASSUME TimerFires \/ UNCHANGED vars PROVE pc[w] = "copy" /\ UNCHANGED <<sent, buf, err, calls>>
  BY <1>9 DEF TimerFires, vars, writerVars
<1> QED
  BY <1>2, <1>3, <1>4, <1>5, <1>6, <1>7, <1>8, <1>9 DEF Next, Writer, Finished

LEMMA FlushLow ==
    \A chunk : /\ FlushOk(chunk) => Len(buf') = 0 /\ err' = err
               /\ FlushFails(chunk) => err'
BY SmallSeqs DEF FlushOk, FlushFails

LEMMA LowStep == TypeOK /\ CloseInv /\ LowInv /\ CleanInv /\ [Next]_vars => (LowInv /\ CleanInv)'
<1> SUFFICES ASSUME TypeOK, CloseInv, LowInv, CleanInv, [Next]_vars PROVE LowInv' /\ CleanInv'
  OBVIOUS
<1>1. /\ pc \in [Writers -> PCs] /\ err \in BOOLEAN /\ Len(buf) \in Nat
      /\ \A v, w \in Writers : pc[v] # "idle" /\ pc[w] # "idle" => v = w
      /\ \A w \in Writers : pc[w] # "idle" => mu = w /\ mu # Nobody
      /\ 0 < Threshold /\ Threshold \in Nat
  BY TypeParts, SmallSeqs, WriterAssumption DEF WriterType, StreamType, CloseInv
\* Steps outside Write, and those that end one at once.
<1>2. ASSUME UNCHANGED <<mu, pc>>, UNCHANGED <<buf, err>> \/ (mu = Nobody /\ (err' \/ (err' = err /\ Len(buf') \in {0, Len(buf)})))
      PROVE  LowInv' /\ CleanInv'
  BY <1>1, <1>2 DEF LowInv, CleanInv
<1>3. ASSUME NEW w \in Writers, WriteClosed(w) \/ WriteRefused(w) PROVE LowInv' /\ CleanInv'
  BY <1>2, <1>3 DEF WriteClosed, WriteRefused, WriteEndsAtOnce
<1>4. ASSUME NEW w \in Writers, WriteBegin(w) PROVE LowInv' /\ CleanInv'
  BY <1>1, <1>4 DEF WriteBegin, LowInv, CleanInv
\* A Write that panics keeps the mutex.
<1>5. ASSUME NEW w \in Writers, pc[w] # "idle", PanicsOut(w) PROVE LowInv' /\ CleanInv'
  <2>1. mu' # Nobody /\ \A v \in Writers : pc'[v] = "idle"
    BY <1>1, <1>5 DEF PanicsOut, Returns
  <2> QED  BY <2>1 DEF LowInv, CleanInv
\* One that returns frees it.
<1>6. ASSUME NEW w \in Writers, NEW res, pc[w] # "idle", Returns(w, res), err' \/ Len(buf') < Threshold
      PROVE  LowInv' /\ CleanInv'
  <2>1. \A v \in Writers : pc'[v] = "idle"
    BY <1>1, <1>6 DEF Returns
  <2> QED  BY <1>6, <2>1 DEF LowInv, CleanInv
\* One that goes on in the loop.
<1>7. ASSUME NEW w \in Writers, pc[w] = "copy", UNCHANGED pc, err' \/ Len(buf') < Threshold
      PROVE  LowInv' /\ CleanInv'
  <2>1. \A v \in Writers : pc'[v] # "threshold"
    BY <1>1, <1>7
  <2> QED  BY <1>7, <2>1 DEF LowInv, CleanInv
<1>8. ASSUME NEW w \in Writers, WriteThrough(w) PROVE LowInv' /\ CleanInv'
  <2>1. pc[w] = "copy" /\ buf' = buf /\ buf = <<>> /\ (PanicsOut(w) \/ pc' = pc)
    BY <1>8 DEF WriteThrough
  <2> QED  BY <1>1, <1>5, <1>7, <2>1, SmallSeqs
<1>9. ASSUME NEW w \in Writers, FillAndFlush(w) PROVE LowInv' /\ CleanInv'
  <2>1. pc[w] = "copy" /\ \/ PanicsOut(w)
                          \/ pc' = pc /\ \E chunk : FlushOk(chunk) \/ FlushFails(chunk)
    BY <1>9 DEF FillAndFlush
  <2> QED  BY <1>1, <1>5, <1>7, <2>1, FlushLow
<1>10. ASSUME NEW w \in Writers, CopyRest(w) PROVE LowInv' /\ CleanInv'
  <2>1. /\ pc[w] = "copy" /\ ~err /\ err' = err
        /\ \/ pc' = [pc EXCEPT ![w] = "threshold"] /\ mu' = mu /\ Len(buf') >= Threshold
           \/ ~(Len(buf') >= Threshold) /\ Returns(w, "ok")
    BY <1>10 DEF CopyRest
  <2>2. CASE pc' = [pc EXCEPT ![w] = "threshold"] /\ mu' = mu /\ Len(buf') >= Threshold
    <3>1. mu' # Nobody /\ \A v \in Writers : pc'[v] # "copy"
      BY <1>1, <2>1, <2>2
    <3>2. Len(buf') \in Nat
      BY StepEffect DEF TypeOK
    <3>3. Len(buf') > 0
      BY <1>1, <2>2, <3>2
    <3> QED  BY <2>1, <3>1, <3>3 DEF LowInv, CleanInv
  <2>3. CASE ~(Len(buf') >= Threshold) /\ Returns(w, "ok")
    <3>1. Len(buf') \in Nat
      BY StepEffect DEF TypeOK
    <3>2. Len(buf') < Threshold
      BY <1>1, <2>3, <3>1
    <3> QED  BY <1>6, <2>1, <2>3, <3>2
  <2> QED  BY <2>1, <2>2, <2>3
<1>11. ASSUME NEW w \in Writers, WriteFails(w) PROVE LowInv' /\ CleanInv'
  BY <1>6, <1>11 DEF WriteFails
<1>12. ASSUME NEW w \in Writers, ThresholdFlush(w) PROVE LowInv' /\ CleanInv'
  <2>1. pc[w] = "threshold" /\ \/ PanicsOut(w)
                               \/ (\E res : Returns(w, res)) /\ (FlushOk(buf) \/ FlushFails(buf))
    BY <1>12 DEF ThresholdFlush
  <2> QED  BY <1>1, <1>5, <1>6, <2>1, FlushLow
<1>13. CASE TimerFires
  BY <1>2, <1>13 DEF TimerFires, writerVars
<1>14. CASE TimerFlush
  <2>1. UNCHANGED <<mu, pc>> /\ mu = Nobody
        /\ (UNCHANGED <<buf, err>> \/ FlushOk(buf) \/ FlushFails(buf) \/ FlushPanics(buf))
    BY <1>14 DEF TimerFlush, writerVars
  <2> QED  BY <1>2, <2>1, FlushLow DEF FlushPanics
<1>15. CASE Close
  <2>1. UNCHANGED <<mu, pc>> /\ mu = Nobody
        /\ (UNCHANGED <<buf, err>> \/ FlushOk(buf) \/ FlushFails(buf) \/ FlushPanics(buf))
    BY <1>15 DEF Close, writerVars
  <2> QED  BY <1>2, <2>1, FlushLow DEF FlushPanics
<1>16. CASE UNCHANGED vars
  BY <1>2, <1>16 DEF vars, writerVars
<1> QED
  BY <1>3, <1>4, <1>8, <1>9, <1>10, <1>11, <1>12, <1>13, <1>14, <1>15, <1>16 DEF Next, Writer, Finished

\* What is out stays, and a line that is too long stays too long.
LEMMA TooLongStays ==
    ASSUME TypeOK, Grows, NEW l, TooLong(Stream, l)
    PROVE  TooLong(Stream', l)
<1>1. PICK u \in Seq(Bytes) : Stream' = Stream \o u
  BY DEF Grows
<1>2. Stream \in Seq(Bytes)
  BY StreamIn
<1>3. Len(Stream) <= Len(Stream') /\ Len(Stream) \in Nat /\ Len(Stream') \in Nat
      /\ \A i \in 1 .. Len(Stream) : Stream'[i] = Stream[i]
  BY <1>1, <1>2
<1>4. PICK i \in 1 .. Len(Stream) : Stream[i].line = l /\ ~(Stream[i].left <= Size - Threshold + 1)
  BY DEF TooLong
<1>5. i \in 1 .. Len(Stream') /\ Stream'[i] = Stream[i]
  BY <1>3
<1> QED  BY <1>4, <1>5 DEF TooLong

\* A step that calls the underlying writer at most once, and when the call
\* succeeds, with t: it ends a line, or cuts one as it may.
LEMMA CutStays ==
    ASSUME TypeOK, Grows, CutInv, NEW t \in Seq(Bytes), sent' = sent \o t,
           \/ cuts' = cuts
           \/ /\ Cut /\ Len(t) > 0
              /\ \/ sent'[Len(sent')].left = 1
                 \/ /\ CutsLong(sent', Len(sent), Len(sent'))
                    /\ TooLong(Stream', sent'[Len(sent')].line)
    PROVE  CutInv'
<1>1. /\ sent \in Seq(Bytes) /\ sent' \in Seq(Bytes) /\ Len(sent) \in Nat /\ Len(sent') \in Nat
      /\ Len(t) \in Nat /\ Len(sent') = Len(sent) + Len(t)
      /\ \A i \in 1 .. Len(sent) : sent'[i] = sent[i]
  <2>1. sent \in Seq(Bytes)
    BY DEF TypeOK
  <2>2. /\ sent \o t \in Seq(Bytes) /\ Len(sent \o t) = Len(sent) + Len(t)
        /\ \A i \in 1 .. Len(sent) : (sent \o t)[i] = sent[i]
    BY <2>1, ConcatType
  <2> QED  BY <2>1, <2>2
<1> SUFFICES ASSUME NEW c \in cuts'
             PROVE  /\ c[1] \in Nat /\ c[2] \in Nat /\ c[1] < c[2] /\ c[2] <= Len(sent')
                    /\ \/ sent'[c[2]].left = 1
                       \/ CutsLong(sent', c[1], c[2]) /\ TooLong(Stream', sent'[c[2]].line)
  BY DEF CutInv
<1>2. CASE c \in cuts
  <2>1. /\ c[1] \in Nat /\ c[2] \in Nat /\ c[1] < c[2] /\ c[2] <= Len(sent)
        /\ sent[c[2]].left = 1 \/ (CutsLong(sent, c[1], c[2]) /\ TooLong(Stream, sent[c[2]].line))
    BY <1>2 DEF CutInv
  <2>2. PICK m, n \in Nat : c[1] = m /\ c[2] = n
    BY <2>1
  <2>3. n \in 1 .. Len(sent) /\ n <= Len(sent') /\ (m > 0 => m \in 1 .. Len(sent))
    BY <1>1, <2>1, <2>2
  <2>4. sent'[n] = sent[n] /\ (m > 0 => sent'[m] = sent[m])
    BY <1>1, <2>3
  <2>5. \A l : TooLong(Stream, l) => TooLong(Stream', l)
    BY TooLongStays
  <2>6. CutsLong(sent, m, n) => CutsLong(sent', m, n)
    BY <2>4 DEF CutsLong
  <2> QED  BY <2>1, <2>2, <2>3, <2>4, <2>5, <2>6, Zenon
<1>3. CASE c \notin cuts
  <2>1. c = <<Len(sent), Len(sent')>> /\ Len(t) > 0
        /\ \/ sent'[Len(sent')].left = 1
           \/ CutsLong(sent', Len(sent), Len(sent')) /\ TooLong(Stream', sent'[Len(sent')].line)
    BY <1>3 DEF Cut
  <2>2. c[1] = Len(sent) /\ c[2] = Len(sent') /\ Len(sent) < Len(sent') /\ Len(sent') <= Len(sent')
    BY <1>1, <2>1
  <2> QED  BY <1>1, <2>1, <2>2
<1> QED  BY <1>2, <1>3

LEMMA LastOf ==
    ASSUME NEW s \in Seq(Bytes), NEW t \in Seq(Bytes), Len(t) > 0
    PROVE  Len(s \o t) > 0 /\ (s \o t)[Len(s \o t)] = t[Len(t)]
<1>1. Len(s \o t) = Len(s) + Len(t) /\ Len(s) \in Nat /\ Len(t) \in Nat /\ Len(t) \in 1 .. Len(t)
  OBVIOUS
<1> QED  BY <1>1, ConcatType

\* A flush of the buffer alone: it ends with a line, unless it fails.
LEMMA CutFlush ==
    ASSUME TypeOK, Grows, CutInv, Complete(Stream), Len(buf) > 0,
           FlushOk(buf) \/ FlushFails(buf) \/ FlushPanics(buf)
    PROVE  CutInv'
<1>1. buf \in Seq(Bytes) /\ sent \in Seq(Bytes) /\ sent \o <<>> = sent /\ <<>> \in Seq(Bytes)
  BY ConcatEmpty DEF TypeOK
<1>2. CASE FlushOk(buf)
  <2>1. sent' = Stream /\ Cut
    BY <1>2 DEF FlushOk, Takes, Stream
  <2>2. sent'[Len(sent')].left = 1
    BY <1>1, <2>1, LastOf DEF Complete, Stream
  <2> QED  BY <1>1, <2>1, <2>2, CutStays DEF Stream
<1>3. CASE FlushFails(buf)
  <2>1. PICK m \in 0 .. Len(buf) : Takes(SubSeq(buf, 1, m)) /\ cuts' = cuts
    BY <1>3 DEF FlushFails
  <2> DEFINE t == SubSeq(buf, 1, m)
  <2>2. t \in Seq(Bytes)
    BY <1>1, SplitSeq
  <2>3. sent' = sent \o t
    BY <2>1 DEF Takes
  <2> HIDE DEF t
  <2> QED  BY <2>1, <2>2, <2>3, CutStays
<1>4. CASE FlushPanics(buf)
  BY <1>1, <1>4, CutStays DEF FlushPanics
<1> QED  BY <1>2, <1>3, <1>4

LEMMA CutSame == TypeOK /\ Grows /\ CutInv /\ UNCHANGED <<sent, cuts>> => CutInv'
<1>1. TypeOK => sent \o <<>> = sent /\ <<>> \in Seq(Bytes)
  BY ConcatEmpty DEF TypeOK
<1> QED  BY <1>1, CutStays

\* bufio writes a line past the buffer: to its end.
LEMMA CutThrough ==
    ASSUME TypeOK, Grows, CutInv, RestInv, NEW w \in Writers, WriteThrough(w)
    PROVE  CutInv'
<1> DEFINE r == rest[w]
<1>1. /\ r \in Seq(Bytes) /\ Len(r) \in Nat /\ sent \in Seq(Bytes) /\ pc[w] = "copy" /\ ~err /\ buf = <<>>
      /\ Len(r) > Size - Len(buf)
  BY DEF TypeOK, WriteThrough, Room
<1>2. Len(r) > 0
  BY <1>1, SmallSeqs
<1>3. r[Len(r)].left = 1
  <2>1. r[Len(r)] = [line |-> Line(w), left |-> Len(r) + 1 - Len(r)]
    BY <1>1, <1>2 DEF RestInv
  <2>2. Len(r) + 1 - Len(r) = 1
    BY <1>1
  <2> QED  BY <2>1, <2>2
<1>4. CASE Takes(r) /\ Cut
  <2>1. sent' = sent \o r
    BY <1>4 DEF Takes
  <2> HIDE DEF r
  <2>2. sent'[Len(sent')].left = 1
    BY <1>1, <1>2, <1>3, <2>1, LastOf
  <2> QED  BY <1>1, <1>2, <1>4, <2>1, <2>2, CutStays
<1>5. ASSUME NEW m \in 0 .. Len(r), Takes(SubSeq(r, 1, m)), cuts' = cuts PROVE CutInv'
  <2> DEFINE t == SubSeq(r, 1, m)
  <2>1. t \in Seq(Bytes)
    BY <1>1, SplitSeq
  <2>2. sent' = sent \o t
    BY <1>5 DEF Takes
  <2> HIDE DEF t
  <2> QED  BY <1>5, <2>1, <2>2, CutStays
<1> QED  BY <1>4, <1>5 DEF WriteThrough

\* bufio cuts a line in two only when it is too long, and only where it fills
\* the buffer.
LEMMA CutFill ==
    ASSUME TypeOK, Grows, CutInv, RestInv, LowInv, FreshInv, NEW w \in Writers, FillAndFlush(w)
    PROVE  CutInv'
<1> DEFINE r == rest[w]
           first == SubSeq(r, 1, Room)
           full == buf \o first
<1>1. /\ r \in Seq(Bytes) /\ Len(r) \in Nat /\ sent \in Seq(Bytes) /\ buf \in Seq(Bytes) /\ Len(buf) \in Nat
      /\ pc[w] = "copy" /\ ~err /\ Len(r) > Room
  BY DEF TypeOK, FillAndFlush
<1>2. Room \in Nat /\ Room > 0 /\ Room > Size - Threshold /\ Room \in 0 .. Len(r)
  <2>1. Len(buf) < Threshold /\ Threshold \in Nat /\ Size \in Nat /\ Threshold <= Size
    BY <1>1, SizeAssumption DEF LowInv
  <2> QED  BY <1>1, <2>1 DEF Room
<1>3. first \in Seq(Bytes) /\ Len(first) = Room
  BY <1>1, <1>2, SplitSeq
<1>4. full \in Seq(Bytes) /\ Len(full) = Len(buf) + Room
  BY <1>1, <1>3, ConcatType
<1>5. r[1] = [line |-> Line(w), left |-> Len(r)] /\ r[Room].line = Line(w)
  <2>1. 1 \in 1 .. Len(r) /\ Room \in 1 .. Len(r) /\ Len(r) + 1 - 1 = Len(r)
    BY <1>1, <1>2
  <2>2. \A i \in 1 .. Len(r) : r[i] = [line |-> Line(w), left |-> Len(r) + 1 - i]
    BY <1>1 DEF RestInv
  <2>3. r[1] = [line |-> Line(w), left |-> Len(r) + 1 - 1]
    BY <2>1, <2>2
  <2>4. r[Room] = [line |-> Line(w), left |-> Len(r) + 1 - Room]
    BY <2>1, <2>2
  <2> QED  BY <2>1, <2>3, <2>4
<1>6. first[1] = r[1] /\ first[Room] = r[Room]
  BY <1>1, <1>2
<1>7. CASE FlushOk(full)
  <2>1. sent' = sent \o full /\ Cut /\ buf' = <<>>
    BY <1>7 DEF FlushOk, Takes
  <2> HIDE DEF full, first, r
  <2>2. Stream' = sent' /\ sent' \in Seq(Bytes)
    BY <1>1, <1>4, <2>1, ConcatType, ConcatEmpty DEF Stream
  <2> DEFINE p == Len(sent) + Len(buf) + 1
  <2>3. p \in 1 .. Len(sent') /\ sent'[p] = r[1]
    <3>1. Len(sent) \in Nat /\ Len(sent') = Len(sent) + Len(full) /\ Len(buf) + 1 \in 1 .. Len(full)
      <4>1. Len(sent \o full) = Len(sent) + Len(full)
        BY <1>1, <1>4, ConcatType
      <4>2. Len(sent) \in Nat
        BY <1>1
      <4> QED  BY <1>1, <1>2, <1>4, <2>1, <4>1, <4>2
    <3>2. sent'[Len(sent) + (Len(buf) + 1)] = full[Len(buf) + 1]
      <4> DEFINE q == Len(buf) + 1
      <4>1. q \in 1 .. Len(full)
        BY <3>1
      <4> HIDE DEF q
      <4>2. (sent \o full)[Len(sent) + q] = full[q]
        BY <1>1, <1>4, <4>1, ConcatType
      <4>3. sent'[Len(sent) + q] = full[q]
        BY <2>1, <4>2
      <4> QED  BY <4>3 DEF q
    <3>3. full[Len(buf) + 1] = first[1]
      <4>1. 1 \in 1 .. Len(first)
        BY <1>2, <1>3
      <4> QED  BY <1>1, <1>3, <4>1, ConcatType DEF full
    <3>4. Len(sent) + (Len(buf) + 1) = p /\ p \in 1 .. Len(sent')
      BY <1>1, <3>1
    <3> QED  BY <1>6, <3>2, <3>3, <3>4
  <2>4. sent'[Len(sent')].line = Line(w)
    <3>1. full[Len(full)] = first[Room]
      BY <1>1, <1>2, <1>3, LastOf DEF full
    <3>2. Len(full) > 0
      BY <1>1, <1>2, <1>4
    <3>3. sent'[Len(sent')] = full[Len(full)]
      BY <1>1, <1>4, <2>1, <3>2, LastOf
    <3> QED  BY <1>5, <1>6, <3>1, <3>3
  <2>5. TooLong(sent', Line(w))
    <3>1. sent'[p].line = Line(w) /\ sent'[p].left = Len(r)
      BY <1>5, <2>3
    <3>2. ~(Len(r) <= Size - Threshold + 1)
      BY <1>1, <1>2, SmallSeqs
    <3> HIDE DEF p
    <3> QED  BY <2>3, <3>1, <3>2 DEF TooLong
  \* Nothing of the line has gone out before.
  <2>6. CutsLong(sent', Len(sent), Len(sent'))
    <3>1. Len(sent') = Len(sent) + Len(full) /\ Len(sent) \in Nat /\ Len(full) \in Nat
          /\ \A i \in 1 .. Len(sent) : sent'[i] = sent[i]
      <4>1. sent \in Seq(Bytes) /\ full \in Seq(Bytes)
        BY <1>1, <1>4
      <4>2. Len(sent) \in Nat /\ Len(full) \in Nat
        BY <4>1
      <4> QED  BY <2>1, <4>1, <4>2, ConcatType
    <3>2. Len(sent') - Len(sent) = Size
      BY <1>1, <1>2, <1>4, <3>1, SmallSeqs DEF Room
    <3>3. ASSUME Len(sent) > 0 PROVE sent'[Len(sent)].line # sent'[Len(sent')].line
      <4>1. Len(sent) \in 1 .. Len(sent) /\ Len(sent) \in 1 .. Len(Stream)
        <5>1. Len(Stream) = Len(sent) + Len(buf)
          BY <1>1, ConcatType DEF Stream
        <5> QED  BY <1>1, <3>1, <3>3, <5>1
      <4>2. sent'[Len(sent)] = sent[Len(sent)] /\ Stream[Len(sent)] = sent[Len(sent)]
        BY <1>1, <3>1, <4>1, ConcatType DEF Stream
      <4>3. Len(buf) > 0
        BY <1>1, EmptyLen DEF FillAndFlush
      <4>4. Stream[Len(sent)].line # Line(w)
        BY <1>1, <4>1, <4>3 DEF FreshInv
      <4> QED  BY <2>4, <4>2, <4>4
    <3> QED  BY <3>2, <3>3 DEF CutsLong
  <2>7. TooLong(Stream', sent'[Len(sent')].line) /\ Len(full) > 0
    BY <1>1, <1>2, <1>4, <2>2, <2>4, <2>5
  <2> QED  BY <1>4, <2>1, <2>6, <2>7, CutStays
<1>8. CASE FlushFails(full)
  <2>1. PICK m \in 0 .. Len(full) : Takes(SubSeq(full, 1, m)) /\ cuts' = cuts
    BY <1>8 DEF FlushFails
  <2> HIDE DEF full
  <2> DEFINE t == SubSeq(full, 1, m)
  <2>2. t \in Seq(Bytes)
    BY <1>4, SplitSeq
  <2>3. sent' = sent \o t
    BY <2>1 DEF Takes
  <2> HIDE DEF t
  <2> QED  BY <2>1, <2>2, <2>3, CutStays
<1>9. CASE FlushPanics(full)
  BY <1>9, CutSame DEF FlushPanics
<1> QED  BY <1>7, <1>8, <1>9 DEF FillAndFlush

LEMMA CutStep ==
    TypeOK /\ CloseInv /\ LineInv /\ RestInv /\ LowInv /\ CleanInv /\ FreshInv /\ CutInv /\ [Next]_vars => CutInv'
<1> SUFFICES ASSUME TypeOK, CloseInv, LineInv, RestInv, LowInv, CleanInv, FreshInv, CutInv, [Next]_vars PROVE CutInv'
  OBVIOUS
<1>1. Grows
  BY StepEffect
<1>2. ASSUME UNCHANGED <<sent, cuts>> PROVE CutInv'
  BY <1>1, <1>2, CutSame
<1>3. ASSUME NEW w \in Writers, WriteThrough(w) \/ FillAndFlush(w) PROVE CutInv'
  BY <1>1, <1>3, CutThrough, CutFill
<1>4. ASSUME NEW w \in Writers, ThresholdFlush(w) PROVE CutInv'
  <2>1. pc[w] = "threshold" /\ (FlushOk(buf) \/ FlushFails(buf) \/ FlushPanics(buf))
    BY <1>4 DEF ThresholdFlush
  <2>2. Complete(Stream) /\ Len(buf) > 0
    BY <2>1 DEF LineInv, CleanInv
  <2> QED  BY <1>1, <2>1, <2>2, CutFlush
<1>5. ASSUME TimerFlush \/ Close PROVE CutInv'
  <2>1. mu = Nobody
    BY <1>5 DEF TimerFlush, Close
  <2>2. ~err => Complete(Stream)
    BY <2>1 DEF LineInv
  <2>3. \/ UNCHANGED <<sent, cuts>>
        \/ ~err /\ buf # <<>> /\ (FlushOk(buf) \/ FlushFails(buf) \/ FlushPanics(buf))
    BY <1>5 DEF TimerFlush, Close
  <2>4. buf # <<>> => Len(buf) > 0
    BY EmptyLen DEF TypeOK
  <2> QED  BY <1>1, <1>2, <2>2, <2>3, <2>4, CutFlush
<1>6. ASSUME NEW w \in Writers, WriteClosed(w) \/ WriteRefused(w) \/ WriteBegin(w) \/ WriteFails(w)
      PROVE  UNCHANGED <<sent, cuts>>
  BY <1>6 DEF WriteClosed, WriteRefused, WriteEndsAtOnce, WriteBegin, WriteFails
<1>7. ASSUME NEW w \in Writers, CopyRest(w) PROVE UNCHANGED <<sent, cuts>>
  BY <1>7 DEF CopyRest
<1>8. ASSUME TimerFires \/ UNCHANGED vars PROVE UNCHANGED <<sent, cuts>>
  BY <1>8 DEF TimerFires, vars
<1> QED
  BY <1>2, <1>3, <1>4, <1>5, <1>6, <1>7, <1>8 DEF Next, Writer, Finished

\* WholeRecordsPerWrite: a call of the underlying writer that succeeds ends
\* with the end of a line, unless it takes a full buffer to a byte of a line that
\* began in it and is too long.
THEOREM WritesWholeRecords == Spec => []WholeRecordsPerWrite
<1>1. Init => CloseInv /\ RestInv /\ LowInv /\ CleanInv /\ FreshInv /\ CutInv
  BY SmallSeqs DEF Init, CloseInv, RestInv, LowInv, CleanInv, FreshInv, CutInv
<1>2. TypeOK /\ CutInv => WholeRecordsPerWrite
  <2> SUFFICES ASSUME TypeOK, CutInv, NEW c \in cuts, sent[c[2]].left > 1
               PROVE  /\ c[2] - c[1] = Size
                      /\ c[1] > 0 => sent[c[1]].line # sent[c[2]].line
                      /\ ~Roomy(sent[c[2]].line)
    BY DEF WholeRecordsPerWrite
  <2>1. CutsLong(sent, c[1], c[2]) /\ TooLong(Stream, sent[c[2]].line)
    BY DEF CutInv
  <2> QED  BY <2>1 DEF CutsLong, TooLong, Roomy
<1>3. TypeOK /\ CloseInv /\ LineInv /\ RestInv /\ LowInv /\ CleanInv /\ FreshInv /\ CutInv /\ [Next]_vars
          => (CloseInv /\ RestInv /\ LowInv /\ CleanInv /\ FreshInv /\ CutInv)'
  BY StepEffect, CloseStep, RestStep, LowStep, FreshStep, CutStep
<1> QED  BY <1>1, <1>2, <1>3, LinesHold, TypeCorrect, PTL DEF Spec

=============================================================================
