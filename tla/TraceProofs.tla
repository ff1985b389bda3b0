------------------------------- MODULE TraceProofs -------------------------------
(***************************************************************************)
(* Proofs about Trace, for every stream of packets that a trace port can   *)
(* send and every way of cutting it.  First the fan-out, for any number of *)
(* clients that come and go: what the decoder makes of the bytes plays no  *)
(* part in it.  Then the decoder: what it makes of a byte, of a packet and *)
(* of a sync; that bytes in pieces are the same as bytes at once; and so   *)
(* what it has found, and printed, when all that was sent has come.        *)
(***************************************************************************)
EXTENDS Trace, SequenceTheorems, WellFoundedInduction, TLAPS

Connected == {"handshake", "publish", "serve", "withdraw", "close"}

FanTyped == TypeOK /\ DOMAIN due = Services /\ DOMAIN got = Services

\* The reader writes to published clients only; a client is published only
\* while its listener serves it or is about to withdraw it; its socket exists
\* from when it is accepted until it is closed.
Linked ==
    \A s \in Services :
        /\ rpc = s => pub[s]
        /\ pub[s] => lpc[s] \in {"serve", "withdraw"}
        /\ lpc[s] \in Connected => open[s]
        /\ lpc[s] = "accept" => ~pub[s]

\* What a client lacks of what is due to it is the message in the reader's
\* hand, as long as its turn is to come.
Owed(s) == rpc = s \/ (rpc = "raw" /\ s = "ws")
Abreast ==
    \A s \in Services :
        /\ ~pub[s] => due[s] = <<>> /\ got[s] = <<>>
        /\ pub[s] /\ peer[s] = "here" =>
              due[s] = IF Owed(s) THEN got[s] \o msg ELSE got[s]

FanInv == FanTyped /\ Linked /\ Abreast

-----------------------------------------------------------------------------
LEMMA FanInit == Init => FanInv
  BY DEF Init, FanInv, FanTyped, TypeOK, Linked, Abreast, Services, Connected, Owed

LEMMA FanStep == FanInv /\ [Next]_vars => FanInv'
  <1> SUFFICES ASSUME FanTyped, Linked, Abreast, [Next]_vars PROVE FanInv'
    BY DEF FanInv
  <1> USE DEF FanInv, FanTyped, TypeOK, Linked, Abreast, Services, Connected, Owed,
              LockFree, Goto, fan, reader, target
  <1>1. ASSUME NEW p, TargetSends(p) PROVE FanInv'
    BY <1>1 DEF TargetSends
  <1>2. ASSUME NEW p, ProbeLoses(p) PROVE FanInv'
    BY <1>2 DEF ProbeLoses
  <1>3. ASSUME ProcessAsync PROVE FanInv'
    BY <1>3 DEF ProcessAsync
  <1>4. ASSUME TransmitLock PROVE FanInv'
    <2>1. FanTyped'
      BY <1>4 DEF TransmitLock, Passed, NextClient
    <2>2. Linked'
      BY <1>4 DEF TransmitLock, Passed, NextClient
    <2>3. Abreast'
      BY <1>4 DEF TransmitLock, Passed, NextClient
    <2> QED
      BY <2>1, <2>2, <2>3
  <1>5. ASSUME NEW s \in Services, Write(s) PROVE FanInv'
    <2>1. FanTyped'
      BY <1>5 DEF Write, Passed, NextClient, Delivered
    <2>2. Linked'
      BY <1>5 DEF Write, Passed, NextClient, Delivered
    <2>3. Abreast'
      BY <1>5 DEF Write, Passed, NextClient, Delivered
    <2> QED
      BY <2>1, <2>2, <2>3
  <1>6. ASSUME NEW s \in Services, Accept(s) PROVE FanInv'
    BY <1>6 DEF Accept
  <1>7. ASSUME NEW headers, Handshake(headers) PROVE FanInv'
    BY <1>7 DEF Handshake
  <1>8. ASSUME HandshakeFails PROVE FanInv'
    BY <1>8 DEF HandshakeFails
  <1>9. ASSUME NEW s \in Services, Publish(s) PROVE FanInv'
    BY <1>9 DEF Publish
  <1>10. ASSUME NEW s \in Services, LeaveLoop(s) PROVE FanInv'
    BY <1>10 DEF LeaveLoop
  <1>11. ASSUME NEW s \in Services, Withdraw(s) PROVE FanInv'
    BY <1>11 DEF Withdraw, MayWithdraw
  <1>12. ASSUME NEW s \in Services, Close(s) PROVE FanInv'
    BY <1>12 DEF Close, Closed
  <1>13. ASSUME NEW s \in Services, Leave(s) PROVE FanInv'
    BY <1>13 DEF Leave
  <1>14. ASSUME UNCHANGED vars PROVE FanInv'
    BY <1>14 DEF vars
  <1> QED
    BY <1>1, <1>2, <1>3, <1>4, <1>5, <1>6, <1>7, <1>8, <1>9, <1>10, <1>11, <1>12, <1>13, <1>14
       DEF Next, Reader, Listener

LEMMA FanInvariance == Spec => []FanInv
  BY FanInit, FanStep, PTL DEF Spec

\* The reader and the listeners are where their code is.
THEOREM TypeCorrect == Spec => []TypeOK
  <1>1. FanInv => TypeOK
    BY DEF FanInv, FanTyped
  <1> QED
    BY <1>1, FanInvariance, PTL

\* The reader never writes to a socket, or a web socket server, that its
\* listener has closed or freed.
THEOREM SocketsSafe == Spec => []SocketsAlive
  <1>1. FanInv => SocketsAlive
    BY DEF FanInv, FanTyped, Linked, SocketsAlive, Services, Connected
  <1> QED
    BY <1>1, FanInvariance, PTL

\* A client that is there has got all of the stream since it was published,
\* in order, each time the reader is done with a message.
THEOREM StreamsFanned == Spec => []Fanned
  <1>1. FanInv => Fanned
    BY DEF FanInv, Abreast, Owed, Fanned, Services
  <1> QED
    BY <1>1, FanInvariance, PTL
-----------------------------------------------------------------------------
(* The decoder, byte by byte: induction as an induction over a set of      *)
(* natural numbers.                                                        *)

LEMMA LessIsWellFounded == IsWellFoundedOn({p \in Nat \X Nat : p[1] < p[2]}, Nat)
  BY NatLessThanWellFounded DEF OpToRel

LEMMA SetInduction ==
  ASSUME NEW S, 0 \in S, \A n \in Nat : n \in S => n + 1 \in S
  PROVE  Nat \subseteq S
  <1> DEFINE T == Nat \ S
             R == {p \in Nat \X Nat : p[1] < p[2]}
  <1>1. SUFFICES ASSUME T # {} PROVE FALSE
    OBVIOUS
  <1>2. \E m \in T : \A k \in T : ~ (<<k, m>> \in R)
    <2>1. T \subseteq Nat /\ IsWellFoundedOn(R, Nat)
      BY LessIsWellFounded
    <2> HIDE DEF T, R
    <2> QED
      BY <1>1, <2>1, WFMin
  <1>3. PICK m \in T : \A k \in T : ~ (k < m)
    BY <1>2
  <1>4. m - 1 \in Nat /\ m - 1 \notin T
    BY <1>3
  <1> QED
    BY <1>3, <1>4

\* What ProcessSwoData counts on: the function it defines exists.
Decodes(f, s, b, n) ==
    f = [i \in 0 .. n |-> IF i = 0 THEN s ELSE HandleSwv(f[i - 1], b[i])]
TheDecodes(s, b, n) == CHOOSE f : Decodes(f, s, b, n)

\* The decoder after n bytes.
DecodeAt(s, b, n) == TheDecodes(s, b, n)[n]

LEMMA ProcessIs == ASSUME NEW s, NEW b PROVE ProcessSwoData(s, b) = DecodeAt(s, b, Len(b))
  BY DEF ProcessSwoData, DecodeAt, TheDecodes, Decodes

LEMMA DecodesExist ==
  ASSUME NEW s, NEW b, NEW n \in Nat PROVE Decodes(TheDecodes(s, b, n), s, b, n)
  <1> DEFINE S == {k \in Nat : \E f : Decodes(f, s, b, k)}
  <1>1. 0 \in S
    <2>1. Decodes([i \in 0 .. 0 |-> s], s, b, 0)
      BY DEF Decodes
    <2> QED
      BY <2>1
  <1>2. ASSUME NEW k \in Nat, k \in S PROVE k + 1 \in S
    <2>1. PICK f : Decodes(f, s, b, k)
      BY <1>2
    <2> DEFINE g == [i \in 0 .. k + 1 |-> IF i = k + 1 THEN HandleSwv(f[k], b[k + 1]) ELSE f[i]]
    <2>2. Decodes(g, s, b, k + 1)
      BY <2>1 DEF Decodes
    <2> QED
      BY <2>2
  <1>3. Nat \subseteq S
    <2> HIDE DEF S
    <2> QED
      BY <1>1, <1>2, SetInduction
  <1> QED
    BY <1>3 DEF TheDecodes

LEMMA DecodesAgree ==
  ASSUME NEW s, NEW b, NEW n \in Nat, NEW k \in 0 .. n
  PROVE  TheDecodes(s, b, n)[k] = TheDecodes(s, b, k)[k]
  <1> DEFINE f == TheDecodes(s, b, n)
             g == TheDecodes(s, b, k)
             S == {i \in Nat : i <= k => f[i] = g[i]}
  <1>1. Decodes(f, s, b, n) /\ Decodes(g, s, b, k)
    BY DecodesExist
  <1> HIDE DEF f, g
  <1>2. 0 \in S
    BY <1>1 DEF Decodes
  <1>3. ASSUME NEW i \in Nat, i \in S PROVE i + 1 \in S
    <2>1. SUFFICES ASSUME i + 1 <= k PROVE f[i + 1] = g[i + 1]
      OBVIOUS
    <2>2. f[i + 1] = HandleSwv(f[i], b[i + 1]) /\ g[i + 1] = HandleSwv(g[i], b[i + 1])
      BY <1>1, <2>1 DEF Decodes
    <2>3. f[i] = g[i]
      BY <1>3, <2>1
    <2> QED
      BY <2>2, <2>3
  <1>4. Nat \subseteq S
    <2> HIDE DEF S
    <2> QED
      BY <1>2, <1>3, SetInduction
  <1> QED
    BY <1>4 DEF f, g

LEMMA DecodeStep ==
  ASSUME NEW s, NEW b, NEW n \in Nat
  PROVE  DecodeAt(s, b, 0) = s /\ DecodeAt(s, b, n + 1) = HandleSwv(DecodeAt(s, b, n), b[n + 1])
  <1> DEFINE f == TheDecodes(s, b, n + 1)
  <1>1. Decodes(f, s, b, n + 1)
    BY DecodesExist
  <1>2. f[n] = TheDecodes(s, b, n)[n]
    BY DecodesAgree
  <1>3. Decodes(TheDecodes(s, b, 0), s, b, 0)
    BY DecodesExist
  <1> HIDE DEF f
  <1>4. f[n + 1] = HandleSwv(f[n], b[n + 1])
    BY <1>1 DEF Decodes
  <1>5. TheDecodes(s, b, 0)[0] = s
    BY <1>3 DEF Decodes
  <1> QED
    BY <1>2, <1>4, <1>5 DEF f, DecodeAt

Byte == 0 .. 255

LEMMA DecodePrefix ==
  ASSUME NEW s, NEW a \in Seq(Byte), NEW b \in Seq(Byte), NEW n \in 0 .. Len(a)
  PROVE  DecodeAt(s, a \o b, n) = DecodeAt(s, a, n)
  <1> DEFINE S == {k \in Nat : k <= Len(a) => DecodeAt(s, a \o b, k) = DecodeAt(s, a, k)}
  <1>1. 0 \in S
    BY DecodeStep
  <1>2. ASSUME NEW k \in Nat, k \in S PROVE k + 1 \in S
    <2>1. SUFFICES ASSUME k + 1 <= Len(a)
                   PROVE  DecodeAt(s, a \o b, k + 1) = DecodeAt(s, a, k + 1)
      OBVIOUS
    <2>2. (a \o b)[k + 1] = a[k + 1]
      BY <2>1
    <2>3. DecodeAt(s, a \o b, k) = DecodeAt(s, a, k)
      BY <1>2, <2>1
    <2>4. DecodeAt(s, a \o b, k + 1) = HandleSwv(DecodeAt(s, a \o b, k), (a \o b)[k + 1])
      BY DecodeStep
    <2>5. DecodeAt(s, a, k + 1) = HandleSwv(DecodeAt(s, a, k), a[k + 1])
      BY DecodeStep
    <2> QED
      BY <2>2, <2>3, <2>4, <2>5
  <1>3. Nat \subseteq S
    <2> HIDE DEF S
    <2> QED
      BY <1>1, <1>2, SetInduction
  <1> QED
    BY <1>3

\* Decoding two pieces is decoding one and then the other.
LEMMA DecodeConcat ==
  ASSUME NEW s, NEW a \in Seq(Byte), NEW b \in Seq(Byte)
  PROVE  ProcessSwoData(s, a \o b) = ProcessSwoData(ProcessSwoData(s, a), b)
  <1> DEFINE t == ProcessSwoData(s, a)
             S == {k \in Nat : k <= Len(b) =>
                       DecodeAt(s, a \o b, Len(a) + k) = DecodeAt(t, b, k)}
  <1> HIDE DEF t
  <1>1. 0 \in S
    <2>1. DecodeAt(t, b, 0) = t
      BY DecodeStep
    <2>2. DecodeAt(s, a \o b, Len(a)) = t
      BY DecodePrefix, ProcessIs DEF t
    <2> QED
      BY <2>1, <2>2
  <1>2. ASSUME NEW k \in Nat, k \in S PROVE k + 1 \in S
    <2>1. SUFFICES ASSUME k + 1 <= Len(b)
                   PROVE  DecodeAt(s, a \o b, Len(a) + (k + 1)) = DecodeAt(t, b, k + 1)
      OBVIOUS
    <2>0. \A i \in Nat : DecodeAt(s, a \o b, i + 1) = HandleSwv(DecodeAt(s, a \o b, i), (a \o b)[i + 1])
      BY DecodeStep
    <2> PICK m \in Nat : m = Len(a) + k
      OBVIOUS
    <2>2. m + 1 = Len(a) + (k + 1) /\ (a \o b)[m + 1] = b[k + 1]
      BY <2>1
    <2>3. DecodeAt(s, a \o b, m) = DecodeAt(t, b, k)
      BY <1>2, <2>1
    <2>4. DecodeAt(s, a \o b, m + 1) = HandleSwv(DecodeAt(s, a \o b, m), (a \o b)[m + 1])
      BY <2>0, Zenon
    <2>5. DecodeAt(t, b, k + 1) = HandleSwv(DecodeAt(t, b, k), b[k + 1])
      BY DecodeStep
    <2>6. DecodeAt(s, a \o b, m + 1) = DecodeAt(t, b, k + 1)
      BY <2>2, <2>3, <2>4, <2>5
    <2> QED
      BY <2>2, <2>6, Zenon
  <1>3. Nat \subseteq S
    <2> HIDE DEF S
    <2> QED
      BY <1>1, <1>2, SetInduction
  <1>4. DecodeAt(s, a \o b, Len(a) + Len(b)) = DecodeAt(t, b, Len(b))
    <2>1. Len(b) \in S /\ Len(b) <= Len(b)
      <3> HIDE DEF S
      <3> QED
        BY <1>3
    <2> QED
      BY <2>1
  <1>5. Len(a \o b) = Len(a) + Len(b)
    BY ConcatProperties
  <1>6. ProcessSwoData(s, a \o b) = DecodeAt(t, b, Len(b))
    BY <1>4, <1>5, ProcessIs
  <1> QED
    BY <1>6, ProcessIs DEF t

LEMMA FirstSteps ==
  ASSUME NEW s, NEW b
  PROVE  /\ DecodeAt(s, b, 0) = s
         /\ DecodeAt(s, b, 1) = HandleSwv(s, b[1])
         /\ DecodeAt(s, b, 2) = HandleSwv(DecodeAt(s, b, 1), b[2])
         /\ DecodeAt(s, b, 3) = HandleSwv(DecodeAt(s, b, 2), b[3])
         /\ DecodeAt(s, b, 4) = HandleSwv(DecodeAt(s, b, 3), b[4])
         /\ DecodeAt(s, b, 5) = HandleSwv(DecodeAt(s, b, 4), b[5])
         /\ DecodeAt(s, b, 6) = HandleSwv(DecodeAt(s, b, 5), b[6])
  <1>1. DecodeAt(s, b, 0) = s
    BY DecodeStep
  <1>2. \A n \in Nat : DecodeAt(s, b, n + 1) = HandleSwv(DecodeAt(s, b, n), b[n + 1])
    BY DecodeStep
  <1>3. DecodeAt(s, b, 0 + 1) = HandleSwv(DecodeAt(s, b, 0), b[0 + 1])
    BY <1>2
  <1>4. DecodeAt(s, b, 1 + 1) = HandleSwv(DecodeAt(s, b, 1), b[1 + 1])
    BY <1>2
  <1>5. DecodeAt(s, b, 2 + 1) = HandleSwv(DecodeAt(s, b, 2), b[2 + 1])
    BY <1>2
  <1>6. DecodeAt(s, b, 3 + 1) = HandleSwv(DecodeAt(s, b, 3), b[3 + 1])
    BY <1>2
  <1>7. DecodeAt(s, b, 4 + 1) = HandleSwv(DecodeAt(s, b, 4), b[4 + 1])
    BY <1>2
  <1>8. DecodeAt(s, b, 5 + 1) = HandleSwv(DecodeAt(s, b, 5), b[5 + 1])
    BY <1>2
  <1>9. 0 + 1 = 1 /\ 1 + 1 = 2 /\ 2 + 1 = 3 /\ 3 + 1 = 4 /\ 4 + 1 = 5 /\ 5 + 1 = 6
    OBVIOUS
  <1> QED
    BY <1>1, <1>3, <1>4, <1>5, <1>6, <1>7, <1>8, <1>9

LEMMA DecodeNothing == ASSUME NEW s PROVE ProcessSwoData(s, <<>>) = s
  BY DecodeStep, ProcessIs

LEMMA DecodeByte ==
  ASSUME NEW s, NEW x PROVE ProcessSwoData(s, <<x>>) = HandleSwv(s, x)
  <1>1. DecodeAt(s, <<x>>, 0 + 1) = HandleSwv(DecodeAt(s, <<x>>, 0), <<x>>[0 + 1])
    BY DecodeStep
  <1>2. 0 + 1 = 1 /\ Len(<<x>>) = 1 /\ <<x>>[1] = x
    OBVIOUS
  <1> QED
    BY <1>1, <1>2, DecodeStep, ProcessIs

-----------------------------------------------------------------------------
(* The steps of the decoder.                                               *)

Swv(st, z, i, v, d, l, f, p) ==
    [state |-> st, zcount |-> z, id |-> i, val |-> v, data |-> d,
     line |-> l, found |-> f, printed |-> p]

InValue == {"1X1", "1X2", "1X4", "2X2", "2X4", "3X4", "4X4"}
IsDecoder(s) ==
    /\ s = Swv(s.state, s.zcount, s.id, s.val, s.data, s.line, s.found, s.printed)
    /\ s.state \in InValue \cup {"SYNC", "PROTO", "IDLE"}
    /\ s.zcount \in 0 .. ResyncZeros

LEMMA SwvFields ==
  ASSUME NEW st, NEW z, NEW i, NEW v, NEW d, NEW l, NEW f, NEW p
  PROVE  LET s == Swv(st, z, i, v, d, l, f, p)
         IN  /\ s.state = st /\ s.zcount = z /\ s.id = i /\ s.val = v /\ s.data = d
             /\ s.line = l /\ s.found = f /\ s.printed = p
  BY DEF Swv

\* How the count of zeros goes on.
NextZeros(z, x) == IF x # 0 THEN 0 ELSE IF z < ResyncZeros THEN z + 1 ELSE z

\* The end of a value: it is found; a value of port 0 is a character.
Ended(z, i, v, d, l, f, p) ==
    LET e == Append(l, v[1])
        g == Append(f, Source(i, v))
    IN  IF i # 0 THEN Swv("IDLE", z, i, v, d, l, g, p)
        ELSE IF IsNewline(v)
             THEN Swv("IDLE", z, i, v, d, <<>>, g, Append(p, Xprintf(CString(e))))
        ELSE IF Len(e) = LineMax
             THEN Swv("IDLE", z, i, v, d, e, g, Append(p, Xprintf(Append(CString(e), Newline))))
        ELSE Swv("IDLE", z, i, v, d, e, g, p)

LEMMA SourceEnds ==
  ASSUME NEW st, NEW z, NEW i, NEW v, NEW d, NEW l, NEW f, NEW p
  PROVE  HandleSwvSrc(Swv(st, z, i, v, d, l, f, p)) = Ended(z, i, v, d, l, f, p)
  <1> DEFINE s == Swv(st, z, i, v, d, l, f, p)
             g == Append(s.found, Source(s.id, s.val))
             e == Append(s.line, s.val[1])
             t == [s EXCEPT !.found = g, !.state = "IDLE"]
             c == Xprintf(CString(e))
             h == Xprintf(Append(CString(e), Newline))
             a == Append(s.printed, c)
             b == Append(s.printed, h)
  <1>1. s.id = i /\ s.val = v /\ s.found = f /\ s.line = l /\ s.printed = p
    BY SwvFields
  <1>2. HandleSwvSrc(s) = IF s.id # 0 THEN t
                          ELSE IF IsNewline(s.val) THEN [t EXCEPT !.line = <<>>, !.printed = a]
                          ELSE IF Len(e) = LineMax THEN [t EXCEPT !.line = e, !.printed = b]
                          ELSE [t EXCEPT !.line = e]
    <2>0. t.printed = s.printed
      BY DEF Swv
    <2>1. HandleSwvSrc(s) = CASE s.id # 0 -> t
               [] s.id = 0 /\ IsNewline(s.val) -> [t EXCEPT !.line = <<>>, !.printed = Append(@, c)]
               [] s.id = 0 /\ ~IsNewline(s.val) /\ Len(e) = LineMax ->
                    [t EXCEPT !.line = e, !.printed = Append(@, h)]
               [] OTHER -> [t EXCEPT !.line = e]
      BY DEF HandleSwvSrc, AfterLine
    <2>2. [t EXCEPT !.line = <<>>, !.printed = Append(@, c)] = [t EXCEPT !.line = <<>>, !.printed = a]
      BY <2>0
    <2>3. [t EXCEPT !.line = e, !.printed = Append(@, h)] = [t EXCEPT !.line = e, !.printed = b]
      BY <2>0
    <2> HIDE DEF s, g, e, t, a, b, c, h
    <2> QED
      BY <2>1, <2>2, <2>3
  <1>3. /\ g = Append(f, Source(i, v)) /\ e = Append(l, v[1])
        /\ a = Append(p, Xprintf(CString(e)))
        /\ b = Append(p, Xprintf(Append(CString(e), Newline)))
    <2> HIDE DEF s
    <2> QED
      BY <1>1
  <1> HIDE DEF g, e, a, b, c, h
  <1>4. t = Swv("IDLE", z, i, v, d, l, g, p)
    <2>1. [s EXCEPT !.found = g] = Swv(st, z, i, v, d, l, g, p)
      BY DEF Swv
    <2>2. [Swv(st, z, i, v, d, l, g, p) EXCEPT !.state = "IDLE"] = Swv("IDLE", z, i, v, d, l, g, p)
      BY DEF Swv
    <2> QED
      BY <2>1, <2>2
  <1>5. [t EXCEPT !.line = e] = Swv("IDLE", z, i, v, d, e, g, p)
    <2> HIDE DEF t
    <2> QED
      BY <1>4 DEF Swv
  <1>6. /\ [t EXCEPT !.line = <<>>, !.printed = a] = Swv("IDLE", z, i, v, d, <<>>, g, a)
        /\ [t EXCEPT !.line = e, !.printed = b] = Swv("IDLE", z, i, v, d, e, g, b)
    <2> HIDE DEF t
    <2>1. [t EXCEPT !.line = <<>>] = Swv("IDLE", z, i, v, d, <<>>, g, p)
      BY <1>4 DEF Swv
    <2>2. [Swv("IDLE", z, i, v, d, <<>>, g, p) EXCEPT !.printed = a] = Swv("IDLE", z, i, v, d, <<>>, g, a)
      BY DEF Swv
    <2>3. [Swv("IDLE", z, i, v, d, e, g, p) EXCEPT !.printed = b] = Swv("IDLE", z, i, v, d, e, g, b)
      BY DEF Swv
    <2> QED
      BY <1>5, <2>1, <2>2, <2>3
  <1> HIDE DEF s, t
  <1>7. HandleSwvSrc(s) = IF i # 0 THEN Swv("IDLE", z, i, v, d, l, g, p)
                          ELSE IF IsNewline(v) THEN Swv("IDLE", z, i, v, d, <<>>, g, a)
                          ELSE IF Len(e) = LineMax THEN Swv("IDLE", z, i, v, d, e, g, b)
                          ELSE Swv("IDLE", z, i, v, d, e, g, p)
    BY <1>1, <1>2, <1>4, <1>5, <1>6
  <1> QED
    BY <1>3, <1>7 DEF s, Ended

LEMMA ProtocolEnds ==
  ASSUME NEW st, NEW z, NEW i, NEW v, NEW d, NEW l, NEW f, NEW p
  PROVE  HandleSwvProto(Swv(st, z, i, v, d, l, f, p)) =
             Swv("IDLE", z, i, v, d, l, Append(f, Protocol(d)), p)
  <1> DEFINE s == Swv(st, z, i, v, d, l, f, p)
             g == Append(s.found, Protocol(s.data))
  <1>1. g = Append(f, Protocol(d))
    BY SwvFields
  <1>2. HandleSwvProto(s) = [s EXCEPT !.found = g, !.state = "IDLE"]
    BY DEF HandleSwvProto
  <1> HIDE DEF g
  <1>3. [s EXCEPT !.found = g] = Swv(st, z, i, v, d, l, g, p)
    BY DEF Swv
  <1>4. [Swv(st, z, i, v, d, l, g, p) EXCEPT !.state = "IDLE"] = Swv("IDLE", z, i, v, d, l, g, p)
    BY DEF Swv
  <1>5. [s EXCEPT !.found = g, !.state = "IDLE"] = Swv("IDLE", z, i, v, d, l, g, p)
    BY <1>3, <1>4
  <1> HIDE DEF s
  <1> QED
    BY <1>1, <1>2, <1>5 DEF s

\* One byte, when it does not end a sync.
LEMMA OneByte ==
  ASSUME NEW st, NEW z, NEW i, NEW v, NEW d, NEW l, NEW f, NEW p, NEW x,
         ~ (z >= ResyncZeros /\ x = SyncByte)
  PROVE  LET n == NextZeros(z, x)
             t == Swv(st, n, i, v, d, l, f, p)
         IN  HandleSwv(Swv(st, z, i, v, d, l, f, p), x) =
             IF st = "IDLE" THEN Header(t, x)
             ELSE IF st = "PROTO" THEN Proto(t, x)
             ELSE IF st = "SYNC" THEN t
             ELSE Value(t, x)
  <1> DEFINE n == NextZeros(z, x)
             t == Swv(st, n, i, v, d, l, f, p)
             s0 == Swv(st, z, i, v, d, l, f, p)
  <1>1. Zeros(s0, x) = n
    BY SwvFields DEF Zeros, NextZeros
  <1>2. ~ Resync(s0, x)
    BY SwvFields DEF Resync
  <1>3. [s0 EXCEPT !.zcount = Zeros(s0, x)] = t
    <2> DEFINE m == Zeros(s0, x)
    <2> HIDE DEF m
    <2>1. [s0 EXCEPT !.zcount = m] = Swv(st, m, i, v, d, l, f, p)
      BY DEF Swv
    <2>2. m = n
      BY <1>1 DEF m
    <2> QED
      BY <2>1, <2>2 DEF m
  <1>4. t.state = st
    BY SwvFields
  <1> HIDE DEF s0, t
  <1> QED
    BY <1>2, <1>3, <1>4 DEF HandleSwv, s0, t

LEMMA SyncEnds ==
  ASSUME NEW st, NEW z, NEW i, NEW v, NEW d, NEW l, NEW f, NEW p, z >= ResyncZeros
  PROVE  HandleSwv(Swv(st, z, i, v, d, l, f, p), SyncByte) =
             Swv("IDLE", 0, i, v, d, l, <<>>, p)
  <1> DEFINE s0 == Swv(st, z, i, v, d, l, f, p)
  <1>1. Resync(s0, SyncByte)
    BY SwvFields DEF Resync
  <1>2. [s0 EXCEPT !.state = "IDLE", !.zcount = 0, !.found = <<>>] = Swv("IDLE", 0, i, v, d, l, <<>>, p)
    <2>1. [s0 EXCEPT !.state = "IDLE"] = Swv("IDLE", z, i, v, d, l, f, p)
      BY DEF Swv
    <2>2. [Swv("IDLE", z, i, v, d, l, f, p) EXCEPT !.zcount = 0] = Swv("IDLE", 0, i, v, d, l, f, p)
      BY DEF Swv
    <2>3. [Swv("IDLE", 0, i, v, d, l, f, p) EXCEPT !.found = <<>>] = Swv("IDLE", 0, i, v, d, l, <<>>, p)
      BY DEF Swv
    <2> QED
      BY <2>1, <2>2, <2>3
  <1> HIDE DEF s0
  <1> QED
    BY <1>1, <1>2 DEF HandleSwv, s0

\* A header of a value.
LEMMA SourceBegins ==
  ASSUME NEW z, NEW i, NEW v, NEW d, NEW l, NEW f, NEW p, NEW x, x % 8 # 0
  PROVE  Header(Swv("IDLE", z, i, v, d, l, f, p), x) =
             Swv(AfterHeader[x % 4], z, (x \div 8) + 256 * ((x % 8) \div 4), <<>>, d, l, f, p)
  <1> DEFINE s == Swv("IDLE", z, i, v, d, l, f, p)
             j == (x \div 8) + 256 * ((x % 8) \div 4)
             st == AfterHeader[x % 4]
  <1>1. Header(s, x) = [s EXCEPT !.id = j, !.val = <<>>, !.state = st]
    BY DEF Header
  <1> HIDE DEF j, st
  <1>2. [s EXCEPT !.id = j] = Swv("IDLE", z, j, v, d, l, f, p)
    BY DEF Swv
  <1>3. [Swv("IDLE", z, j, v, d, l, f, p) EXCEPT !.val = <<>>] = Swv("IDLE", z, j, <<>>, d, l, f, p)
    BY DEF Swv
  <1>4. [Swv("IDLE", z, j, <<>>, d, l, f, p) EXCEPT !.state = st] = Swv(st, z, j, <<>>, d, l, f, p)
    BY DEF Swv
  <1>5. [s EXCEPT !.id = j, !.val = <<>>, !.state = st] = Swv(st, z, j, <<>>, d, l, f, p)
    BY <1>2, <1>3, <1>4
  <1> HIDE DEF s
  <1> QED
    BY <1>1, <1>5 DEF s, j, st

LEMMA ProtocolBegins ==
  ASSUME NEW z, NEW i, NEW v, NEW d, NEW l, NEW f, NEW p, NEW x \in Byte, x % 8 = 0, x # 0
  PROVE  Header(Swv("IDLE", z, i, v, d, l, f, p), x) =
             IF x >= 128 THEN Swv("PROTO", z, i, v, <<x>>, l, f, p)
             ELSE Swv("IDLE", z, i, v, <<x>>, l, Append(f, Protocol(<<x>>)), p)
  <1> DEFINE s == Swv("IDLE", z, i, v, d, l, f, p)
  <1>1. [s EXCEPT !.data = <<x>>] = Swv("IDLE", z, i, v, <<x>>, l, f, p)
    BY DEF Swv
  <1>2. [s EXCEPT !.data = <<x>>, !.state = "PROTO"] = Swv("PROTO", z, i, v, <<x>>, l, f, p)
    <2>1. [Swv("IDLE", z, i, v, <<x>>, l, f, p) EXCEPT !.state = "PROTO"]
            = Swv("PROTO", z, i, v, <<x>>, l, f, p)
      BY DEF Swv
    <2> QED
      BY <1>1, <2>1
  <1> HIDE DEF s
  <1>3. Header(s, x) = IF x >= 128 THEN [s EXCEPT !.data = <<x>>, !.state = "PROTO"]
                       ELSE HandleSwvProto([s EXCEPT !.data = <<x>>])
    BY DEF Header, Byte
  <1> QED
    BY <1>1, <1>2, <1>3, ProtocolEnds DEF s

LEMMA ZeroIgnored ==
  ASSUME NEW s PROVE Header(s, 0) = s
  BY DEF Header

LEMMA ValueGoesOn ==
  ASSUME NEW st, NEW z, NEW i, NEW v, NEW d, NEW l, NEW f, NEW p, NEW x
  PROVE  Value(Swv(st, z, i, v, d, l, f, p), x) =
             IF st \in DOMAIN Follows THEN Swv(Follows[st], z, i, Append(v, x), d, l, f, p)
             ELSE HandleSwvSrc(Swv(st, z, i, Append(v, x), d, l, f, p))
  <1> DEFINE s == Swv(st, z, i, v, d, l, f, p)
  <1>1. [s EXCEPT !.val = Append(@, x)] = Swv(st, z, i, Append(v, x), d, l, f, p)
    <2> DEFINE e == Append(s.val, x)
    <2>1. e = Append(v, x)
      BY SwvFields
    <2> HIDE DEF e
    <2>2. [s EXCEPT !.val = e] = Swv(st, z, i, e, d, l, f, p)
      BY DEF Swv
    <2> QED
      BY <2>1, <2>2 DEF e
  <1>2. s.state = st
    BY SwvFields
  <1>3. [Swv(st, z, i, Append(v, x), d, l, f, p) EXCEPT !.state = Follows[st]]
            = Swv(Follows[st], z, i, Append(v, x), d, l, f, p)
    <2> DEFINE e == Append(v, x)
               k == Follows[st]
    <2> HIDE DEF e, k
    <2>1. [Swv(st, z, i, e, d, l, f, p) EXCEPT !.state = k] = Swv(k, z, i, e, d, l, f, p)
      BY DEF Swv
    <2> QED
      BY <2>1 DEF e, k
  <1> HIDE DEF s
  <1> QED
    BY <1>1, <1>2, <1>3 DEF Value, s

LEMMA ProtocolGoesOn ==
  ASSUME NEW st, NEW z, NEW i, NEW v, NEW d, NEW l, NEW f, NEW p, NEW x
  PROVE  LET e == Append(d, x)
         IN  Proto(Swv(st, z, i, v, d, l, f, p), x) =
             IF ProtoEnd(e) THEN Swv("IDLE", z, i, v, e, l, Append(f, Protocol(e)), p)
             ELSE Swv(st, z, i, v, e, l, f, p)
  <1> DEFINE s == Swv(st, z, i, v, d, l, f, p)
             t == Swv(st, z, i, v, Append(d, x), l, f, p)
  <1>1. [s EXCEPT !.data = Append(@, x)] = t
    <2> DEFINE e == Append(s.data, x)
    <2>1. e = Append(d, x)
      BY SwvFields
    <2> HIDE DEF e
    <2>2. [s EXCEPT !.data = e] = Swv(st, z, i, v, e, l, f, p)
      BY DEF Swv
    <2> QED
      BY <2>1, <2>2 DEF e
  <1>2. t.data = Append(d, x)
    BY DEF Swv
  <1>3. HandleSwvProto(t) = Swv("IDLE", z, i, v, Append(d, x), l, Append(f, Protocol(Append(d, x))), p)
    BY ProtocolEnds
  <1> HIDE DEF s, t
  <1> QED
    BY <1>1, <1>2, <1>3 DEF Proto, s, t

-----------------------------------------------------------------------------
(* Where the decoder can be, and a sync.                                   *)

States == InValue \cup {"SYNC", "PROTO", "IDLE"}

LEMMA SwvIsDecoder ==
  ASSUME NEW st \in States, NEW z \in 0 .. ResyncZeros,
         NEW i, NEW v, NEW d, NEW l, NEW f, NEW p
  PROVE  IsDecoder(Swv(st, z, i, v, d, l, f, p))
  <1> DEFINE s == Swv(st, z, i, v, d, l, f, p)
  <1>1. /\ s.state = st /\ s.zcount = z /\ s.id = i /\ s.val = v /\ s.data = d
        /\ s.line = l /\ s.found = f /\ s.printed = p
    BY SwvFields
  <1>2. s = Swv(st, z, i, v, d, l, f, p)
    OBVIOUS
  <1> HIDE DEF s
  <1>3. IsDecoder(s)
    BY <1>1, <1>2 DEF IsDecoder, States
  <1> QED
    BY <1>3 DEF s

LEMMA EndedFields ==
  ASSUME NEW z, NEW i, NEW v, NEW d, NEW l, NEW f, NEW p
  PROVE  LET r == Ended(z, i, v, d, l, f, p)
         IN  /\ r.state = "IDLE" /\ r.zcount = z /\ r.found = Append(f, Source(i, v))
             /\ i # 0 => r.line = l /\ r.printed = p
  <1> DEFINE e == Append(l, v[1])
             g == Append(f, Source(i, v))
             r == Ended(z, i, v, d, l, f, p)
  <1>1. \/ r = Swv("IDLE", z, i, v, d, l, g, p)
        \/ i = 0 /\ \E a, b : r = Swv("IDLE", z, i, v, d, a, g, b)
    BY DEF Ended
  <1> HIDE DEF r, g
  <1>2. \A a, b : LET s == Swv("IDLE", z, i, v, d, a, g, b)
                   IN  /\ s.state = "IDLE" /\ s.zcount = z /\ s.found = g
                       /\ s.line = a /\ s.printed = b
    BY SwvFields
  <1> QED
    BY <1>1, <1>2 DEF r, g

LEMMA EndedIsDecoder ==
  ASSUME NEW z \in 0 .. ResyncZeros, NEW i, NEW v, NEW d, NEW l, NEW f, NEW p
  PROVE  IsDecoder(Ended(z, i, v, d, l, f, p))
  <1>1. "IDLE" \in States
    BY DEF States
  <1>2. \A a, b, c : IsDecoder(Swv("IDLE", z, i, v, d, a, b, c))
    BY <1>1, SwvIsDecoder
  <1> QED
    BY <1>2 DEF Ended

LEMMA NextZerosType ==
  ASSUME NEW z \in 0 .. ResyncZeros, NEW x
  PROVE  NextZeros(z, x) \in 0 .. ResyncZeros /\ (z < ResyncZeros => NextZeros(z, x) <= z + 1)
  BY DEF NextZeros, ResyncZeros

LEMMA HeaderStates == ASSUME NEW x \in Byte PROVE AfterHeader[x % 4] \in States
  <1>1. x % 4 \in 0 .. 3
    BY DEF Byte
  <1> QED
    BY <1>1 DEF AfterHeader, States, InValue

LEMMA FollowsType == ASSUME NEW st \in DOMAIN Follows PROVE Follows[st] \in InValue
  BY DEF Follows, InValue

\* A step keeps the decoder one, whatever comes.
LEMMA DecoderStep ==
  ASSUME NEW s, IsDecoder(s), NEW x \in Byte
  PROVE  IsDecoder(HandleSwv(s, x))
  <1> DEFINE st == s.state  z == s.zcount  i == s.id  v == s.val  d == s.data
             l == s.line  f == s.found  p == s.printed
             n == NextZeros(z, x)
             t == Swv(st, n, i, v, d, l, f, p)
  <1>1. s = Swv(st, z, i, v, d, l, f, p) /\ st \in States /\ z \in 0 .. ResyncZeros
    BY DEF IsDecoder, States
  <1> HIDE DEF st, z, i, v, d, l, f, p
  <1>2. n \in 0 .. ResyncZeros
    BY <1>1, NextZerosType
  <1> HIDE DEF n
  <1>3. CASE z >= ResyncZeros /\ x = SyncByte
    <2>1. HandleSwv(s, x) = Swv("IDLE", 0, i, v, d, l, <<>>, p)
      BY <1>1, <1>3, SyncEnds
    <2>2. "IDLE" \in States /\ 0 \in 0 .. ResyncZeros
      BY DEF States, ResyncZeros
    <2> QED
      BY <2>1, <2>2, SwvIsDecoder
  <1>4. CASE ~ (z >= ResyncZeros /\ x = SyncByte)
    <2>1. HandleSwv(s, x) = IF st = "IDLE" THEN Header(t, x)
                            ELSE IF st = "PROTO" THEN Proto(t, x)
                            ELSE IF st = "SYNC" THEN t
                            ELSE Value(t, x)
      BY <1>1, <1>4, OneByte DEF n
    <2>2. IsDecoder(t)
      BY <1>1, <1>2, SwvIsDecoder
    <2>3. "IDLE" \in States
      BY DEF States
    <2>4. CASE st = "IDLE"
      <3>1. CASE x % 8 # 0
        <4>1. Header(t, x) = Swv(AfterHeader[x % 4], n, (x \div 8) + 256 * ((x % 8) \div 4), <<>>, d, l, f, p)
          BY <2>4, <3>1, SourceBegins
        <4> QED
          BY <1>2, <2>1, <2>4, <4>1, HeaderStates, SwvIsDecoder
      <3>2. CASE x % 8 = 0 /\ x # 0
        <4>1. Header(t, x) = IF x >= 128 THEN Swv("PROTO", n, i, v, <<x>>, l, f, p)
                             ELSE Swv("IDLE", n, i, v, <<x>>, l, Append(f, Protocol(<<x>>)), p)
          BY <2>4, <3>2, ProtocolBegins
        <4>2. "PROTO" \in States
          BY DEF States
        <4>3. /\ IsDecoder(Swv("PROTO", n, i, v, <<x>>, l, f, p))
              /\ IsDecoder(Swv("IDLE", n, i, v, <<x>>, l, Append(f, Protocol(<<x>>)), p))
          BY <1>2, <2>3, <4>2, SwvIsDecoder
        <4> QED
          BY <2>1, <2>4, <4>1, <4>3
      <3>3. CASE x = 0
        BY <2>1, <2>2, <2>4, <3>3, ZeroIgnored
      <3> QED
        BY <3>1, <3>2, <3>3
    <2>5. CASE st = "PROTO"
      <3> DEFINE e == Append(d, x)
      <3>1. Proto(t, x) = IF ProtoEnd(e) THEN Swv("IDLE", n, i, v, e, l, Append(f, Protocol(e)), p)
                          ELSE Swv(st, n, i, v, e, l, f, p)
        BY ProtocolGoesOn
      <3>2. /\ IsDecoder(Swv("IDLE", n, i, v, e, l, Append(f, Protocol(e)), p))
            /\ IsDecoder(Swv(st, n, i, v, e, l, f, p))
        BY <1>1, <1>2, <2>3, SwvIsDecoder
      <3> HIDE DEF e, t
      <3> QED
        BY <2>1, <2>5, <3>1, <3>2
    <2>6. CASE st = "SYNC"
      BY <2>1, <2>2, <2>6
    <2>7. CASE st \in InValue
      <3>0. HandleSwv(s, x) = Value(t, x)
        BY <2>1, <2>7 DEF InValue
      <3>1. CASE st \in DOMAIN Follows
        <4>1. Value(t, x) = Swv(Follows[st], n, i, Append(v, x), d, l, f, p)
          BY <3>1, ValueGoesOn
        <4>2. Follows[st] \in States
          BY <3>1, FollowsType DEF States
        <4> QED
          BY <1>2, <3>0, <4>1, <4>2, SwvIsDecoder
      <3>2. CASE st \notin DOMAIN Follows
        <4>1. Value(t, x) = Ended(n, i, Append(v, x), d, l, f, p)
          BY <3>2, ValueGoesOn, SourceEnds
        <4> QED
          BY <1>2, <3>0, <4>1, EndedIsDecoder
      <3> QED
        BY <3>1, <3>2
    <2> QED
      BY <1>1, <2>4, <2>5, <2>6, <2>7 DEF States
  <1> QED
    BY <1>3, <1>4

LEMMA DecoderAt ==
  ASSUME NEW s, IsDecoder(s), NEW b \in Seq(Byte), NEW n \in 0 .. Len(b)
  PROVE  IsDecoder(DecodeAt(s, b, n))
  <1> DEFINE S == {k \in Nat : k <= Len(b) => IsDecoder(DecodeAt(s, b, k))}
  <1>1. 0 \in S
    BY DecodeStep
  <1>2. ASSUME NEW k \in Nat, k \in S PROVE k + 1 \in S
    <2>1. SUFFICES ASSUME k + 1 <= Len(b) PROVE IsDecoder(DecodeAt(s, b, k + 1))
      OBVIOUS
    <2>2. IsDecoder(DecodeAt(s, b, k)) /\ b[k + 1] \in Byte
      BY <1>2, <2>1
    <2>3. DecodeAt(s, b, k + 1) = HandleSwv(DecodeAt(s, b, k), b[k + 1])
      BY DecodeStep
    <2> QED
      BY <2>2, <2>3, DecoderStep
  <1>3. Nat \subseteq S
    <2> HIDE DEF S
    <2> QED
      BY <1>1, <1>2, SetInduction
  <1> QED
    BY <1>3

LEMMA DecoderStays ==
  ASSUME NEW s, IsDecoder(s), NEW b \in Seq(Byte)
  PROVE  IsDecoder(ProcessSwoData(s, b))
  BY DecoderAt, ProcessIs

\* A zero moves nothing where a sync comes but the count.
LEMMA ZeroByte ==
  ASSUME NEW s, IsDecoder(s)
  PROVE  LET t == HandleSwv(s, 0)
         IN  /\ IsDecoder(t)
             /\ t.zcount = NextZeros(s.zcount, 0)
             /\ s.state \in {"IDLE", "SYNC"} =>
                  t.state = s.state /\ t.line = s.line /\ t.printed = s.printed
  <1> DEFINE st == s.state  z == s.zcount  i == s.id  v == s.val  d == s.data
             l == s.line  f == s.found  p == s.printed
             n == NextZeros(z, 0)
             t == Swv(st, n, i, v, d, l, f, p)
             r == HandleSwv(s, 0)
  <1>1. s = Swv(st, z, i, v, d, l, f, p) /\ st \in States
    BY DEF IsDecoder, States
  <1>2. IsDecoder(r)
    BY DecoderStep DEF Byte
  <1> HIDE DEF st, z, i, v, d, l, f, p, n
  <1>3. r = IF st = "IDLE" THEN Header(t, 0)
            ELSE IF st = "PROTO" THEN Proto(t, 0)
            ELSE IF st = "SYNC" THEN t
            ELSE Value(t, 0)
    BY <1>1, OneByte DEF n, SyncByte
  <1>4. t.state = st /\ t.line = l /\ t.printed = p /\ t.zcount = n
    BY SwvFields
  <1>5. st \in {"IDLE", "SYNC"} => r = t
    BY <1>3, ZeroIgnored
  <1>6. r.zcount = n
    <2>1. CASE st \in {"IDLE", "SYNC"}
      BY <1>4, <1>5, <2>1
    <2>2. CASE st = "PROTO"
      <3> DEFINE e == Append(d, 0)
                 a == Swv("IDLE", n, i, v, e, l, Append(f, Protocol(e)), p)
                 b == Swv(st, n, i, v, e, l, f, p)
      <3>1. Proto(t, 0) = IF ProtoEnd(e) THEN a ELSE b
        BY ProtocolGoesOn
      <3>2. a.zcount = n /\ b.zcount = n
        BY SwvFields
      <3> HIDE DEF e, a, b, t
      <3> QED
        BY <1>3, <2>2, <3>1, <3>2
    <2>3. CASE st \in InValue
      <3>0. r = Value(t, 0)
        BY <1>3, <2>3 DEF InValue
      <3>1. CASE st \in DOMAIN Follows
        <4>1. Value(t, 0) = Swv(Follows[st], n, i, Append(v, 0), d, l, f, p)
          BY <3>1, ValueGoesOn
        <4> QED
          BY <3>0, <4>1, SwvFields
      <3>2. CASE st \notin DOMAIN Follows
        <4>1. Value(t, 0) = Ended(n, i, Append(v, 0), d, l, f, p)
          BY <3>2, ValueGoesOn, SourceEnds
        <4> QED
          BY <1>2, <3>0, <4>1, EndedFields
      <3> QED
        BY <3>1, <3>2
    <2> QED
      BY <1>1, <2>1, <2>2, <2>3 DEF States
  <1> HIDE DEF r, t
  <1> QED
    BY <1>2, <1>4, <1>5, <1>6 DEF st, l, p, n, z, r

\* Five zeros and the byte after them, from wherever the decoder is.
LEMMA SyncDecoded ==
  ASSUME NEW s, IsDecoder(s)
  PROVE  LET r == ProcessSwoData(s, Sync.bytes)
         IN  /\ IsDecoder(r) /\ r.state = "IDLE" /\ r.zcount = 0 /\ r.found = <<>>
             /\ s.state \in {"IDLE", "SYNC"} => r.line = s.line /\ r.printed = s.printed
  <1> DEFINE b == Sync.bytes
             t(n) == DecodeAt(s, b, n)
             Quiet(n) == s.state \in {"IDLE", "SYNC"} =>
                           t(n).state = s.state /\ t(n).line = s.line /\ t(n).printed = s.printed
  <1>1. b \in Seq(Byte) /\ Len(b) = 6 /\ b[6] = SyncByte /\ \A k \in 1 .. 5 : b[k] = 0
    BY DEF Sync, SyncByte, Byte
  <1>2. /\ t(0) = s /\ t(1) = HandleSwv(t(0), b[1]) /\ t(2) = HandleSwv(t(1), b[2])
        /\ t(3) = HandleSwv(t(2), b[3]) /\ t(4) = HandleSwv(t(3), b[4])
        /\ t(5) = HandleSwv(t(4), b[5]) /\ t(6) = HandleSwv(t(5), b[6])
    <2> HIDE DEF b
    <2> QED
      BY FirstSteps
  <1> HIDE DEF b, t
  <1>3. ASSUME NEW n \in 0 .. 4, NEW x, NEW y, IsDecoder(x), x.zcount >= n, y = HandleSwv(x, 0)
        PROVE  /\ IsDecoder(y) /\ y.zcount >= n + 1
               /\ x.state \in {"IDLE", "SYNC"} =>
                    y.state = x.state /\ y.line = x.line /\ y.printed = x.printed
    <2>1. /\ IsDecoder(y)
          /\ y.zcount = NextZeros(x.zcount, 0)
          /\ x.state \in {"IDLE", "SYNC"} =>
                y.state = x.state /\ y.line = x.line /\ y.printed = x.printed
      BY <1>3, ZeroByte
    <2>2. x.zcount \in 0 .. ResyncZeros
      BY <1>3 DEF IsDecoder
    <2>3. y.zcount >= n + 1
      BY <1>3, <2>1, <2>2 DEF NextZeros, ResyncZeros
    <2> QED
      BY <2>1, <2>3
  <1>4. IsDecoder(t(0)) /\ t(0).zcount >= 0 /\ Quiet(0)
    BY <1>2 DEF IsDecoder
  <1>5. IsDecoder(t(5)) /\ t(5).zcount >= 5 /\ Quiet(5)
    <2>0. /\ t(1) = HandleSwv(t(0), 0) /\ t(2) = HandleSwv(t(1), 0) /\ t(3) = HandleSwv(t(2), 0)
          /\ t(4) = HandleSwv(t(3), 0) /\ t(5) = HandleSwv(t(4), 0)
      <3>1. b[1] = 0 /\ b[2] = 0 /\ b[3] = 0 /\ b[4] = 0 /\ b[5] = 0
        BY <1>1
      <3> QED
        BY <1>2, <3>1
    <2>1. IsDecoder(t(1)) /\ t(1).zcount >= 0 + 1 /\ Quiet(1)
      BY <1>3, <1>4, <2>0
    <2>2. IsDecoder(t(2)) /\ t(2).zcount >= 1 + 1 /\ Quiet(2)
      BY <1>3, <2>0, <2>1
    <2>3. IsDecoder(t(3)) /\ t(3).zcount >= 2 + 1 /\ Quiet(3)
      BY <1>3, <2>0, <2>2
    <2>4. IsDecoder(t(4)) /\ t(4).zcount >= 3 + 1 /\ Quiet(4)
      BY <1>3, <2>0, <2>3
    <2>5. IsDecoder(t(5)) /\ t(5).zcount >= 4 + 1 /\ Quiet(5)
      BY <1>3, <2>0, <2>4
    <2> QED
      BY <2>5
  <1> DEFINE u == t(5)
             r == Swv("IDLE", 0, u.id, u.val, u.data, u.line, <<>>, u.printed)
  <1>6. t(6) = HandleSwv(u, SyncByte)
    BY <1>1, <1>2
  <1>7. u = Swv(u.state, u.zcount, u.id, u.val, u.data, u.line, u.found, u.printed)
    BY <1>5 DEF IsDecoder
  <1>8. HandleSwv(u, SyncByte) = r
    <2>1. u.zcount >= ResyncZeros
      BY <1>5 DEF ResyncZeros
    <2> HIDE DEF u
    <2> QED
      BY <1>7, <2>1, SyncEnds DEF u
  <1>9. /\ r.state = "IDLE" /\ r.zcount = 0 /\ r.found = <<>>
        /\ r.line = u.line /\ r.printed = u.printed
    BY SwvFields
  <1>10. IsDecoder(r)
    <2>1. "IDLE" \in States /\ 0 \in 0 .. ResyncZeros
      BY DEF States, ResyncZeros
    <2> QED
      BY <2>1, SwvIsDecoder
  <1>11. ProcessSwoData(s, Sync.bytes) = r
    BY <1>1, <1>6, <1>8, ProcessIs DEF t, b
  <1> HIDE DEF r
  <1> QED
    BY <1>5, <1>9, <1>10, <1>11

-----------------------------------------------------------------------------
(* What the decoder makes of a packet.                                     *)

\* A byte of a value.
LEMMA ValueByte ==
  ASSUME NEW st \in InValue, NEW z \in 0 .. 4, NEW i, NEW v, NEW d, NEW l, NEW f, NEW p, NEW x
  PROVE  HandleSwv(Swv(st, z, i, v, d, l, f, p), x) =
             IF st \in DOMAIN Follows
             THEN Swv(Follows[st], NextZeros(z, x), i, Append(v, x), d, l, f, p)
             ELSE Ended(NextZeros(z, x), i, Append(v, x), d, l, f, p)
  <1> DEFINE n == NextZeros(z, x)
  <1>1. ~ (z >= ResyncZeros /\ x = SyncByte)
    BY DEF ResyncZeros
  <1>2. st \notin {"IDLE", "PROTO", "SYNC"}
    BY DEF InValue
  <1>3. HandleSwv(Swv(st, z, i, v, d, l, f, p), x) = Value(Swv(st, n, i, v, d, l, f, p), x)
    BY <1>1, <1>2, OneByte
  <1> HIDE DEF n
  <1>4. Value(Swv(st, n, i, v, d, l, f, p), x) =
             IF st \in DOMAIN Follows THEN Swv(Follows[st], n, i, Append(v, x), d, l, f, p)
             ELSE HandleSwvSrc(Swv(st, n, i, Append(v, x), d, l, f, p))
    BY ValueGoesOn
  <1>5. HandleSwvSrc(Swv(st, n, i, Append(v, x), d, l, f, p)) = Ended(n, i, Append(v, x), d, l, f, p)
    BY SourceEnds
  <1> QED
    BY <1>3, <1>4, <1>5 DEF n

LEMMA ValueMore ==
  ASSUME NEW st \in DOMAIN Follows, NEW z \in 0 .. 4,
         NEW i, NEW v, NEW d, NEW l, NEW f, NEW p, NEW x
  PROVE  HandleSwv(Swv(st, z, i, v, d, l, f, p), x) =
             Swv(Follows[st], NextZeros(z, x), i, Append(v, x), d, l, f, p)
  <1>1. st \in InValue
    BY DEF Follows, InValue
  <1> QED
    BY <1>1, ValueByte

LEMMA ValueLast ==
  ASSUME NEW st \in {"1X1", "2X2", "4X4"}, NEW z \in 0 .. 4,
         NEW i, NEW v, NEW d, NEW l, NEW f, NEW p, NEW x
  PROVE  HandleSwv(Swv(st, z, i, v, d, l, f, p), x) =
             Ended(NextZeros(z, x), i, Append(v, x), d, l, f, p)
  <1>1. st \in InValue /\ st \notin DOMAIN Follows
    BY DEF Follows, InValue
  <1> QED
    BY <1>1, ValueByte

LEMMA ValueStates ==
  /\ AfterHeader[1] = "1X1" /\ AfterHeader[2] = "1X2" /\ AfterHeader[3] = "1X4"
  /\ DOMAIN Follows = {"1X2", "1X4", "2X4", "3X4"}
  /\ Follows["1X2"] = "2X2" /\ Follows["1X4"] = "2X4"
  /\ Follows["2X4"] = "3X4" /\ Follows["3X4"] = "4X4"
  BY DEF AfterHeader, Follows

LEMMA FourZeros ==
  ASSUME NEW z \in 0 .. 3, NEW x PROVE NextZeros(z, x) \in 0 .. z + 1
  BY DEF NextZeros, ResyncZeros

\* The value with its header is taken for what it means.
LEMMA SourceDecoded ==
  ASSUME NEW s, IsDecoder(s), s.state = "IDLE", s.zcount \in 0 .. 4,
         NEW q, q.bytes \in Seq(Byte), q.bytes # <<>>, IsSource(q)
  PROVE  \E z \in 0 .. 4 :
           ProcessSwoData(s, q.bytes) =
             Ended(z, q.means.id, q.means.val, s.data, s.line, s.found, s.printed)
  <1> DEFINE b == q.bytes
             h == b[1]
             v == Tail(b)
             i == (h \div 8) + 256 * ((h % 8) \div 4)
             t(n) == DecodeAt(s, b, n)
             d == s.data  l == s.line  f == s.found  p == s.printed
  <1>1. /\ h \in Byte /\ h = Head(b) /\ v \in Seq(Byte) /\ Len(v) = Len(b) - 1
        /\ \A k \in 1 .. Len(v) : v[k] = b[k + 1]
    <2>1. 1 \in 1 .. Len(b)
      OBVIOUS
    <2> QED
      BY <2>1, HeadTailProperties
  <1>2. h % 4 # 0 /\ Len(v) = <<1, 2, 4>>[h % 4] /\ q.means = Source(i, v)
    BY <1>1 DEF IsSource
  <1>3. q.means.id = i /\ q.means.val = v
    BY <1>2 DEF Source
  <1>4. h % 4 \in 1 .. 3 /\ h % 8 # 0
    <2>1. h \in 0 .. 255
      BY <1>1 DEF Byte
    <2> HIDE DEF h
    <2>2. h % 4 \in 0 .. 3
      BY <2>1
    <2>3. h % 8 = 0 => h % 4 = 0
      BY <2>1
    <2> QED
      BY <1>2, <2>2, <2>3
  <1>5. /\ t(1) = HandleSwv(s, b[1]) /\ t(2) = HandleSwv(t(1), b[2])
        /\ t(3) = HandleSwv(t(2), b[3]) /\ t(4) = HandleSwv(t(3), b[4])
        /\ t(5) = HandleSwv(t(4), b[5])
    <2> HIDE DEF b
    <2> QED
      BY FirstSteps
  <1>6. s = Swv("IDLE", s.zcount, s.id, s.val, d, l, f, p)
    BY DEF IsDecoder
  <1>7. ProcessSwoData(s, b) = t(Len(v) + 1)
    <2>1. Len(b) = Len(v) + 1
      BY <1>1
    <2> QED
      BY <2>1, ProcessIs
  <1>8. t(1) = Swv(AfterHeader[h % 4], 0, i, <<>>, d, l, f, p)
    <2> DEFINE z == s.zcount
               n == NextZeros(z, h)
               u == Swv("IDLE", n, s.id, s.val, d, l, f, p)
    <2>1. t(1) = HandleSwv(s, h)
      BY <1>5
    <2>2. ~ (z >= ResyncZeros /\ h = SyncByte)
      BY DEF ResyncZeros
    <2>3. n = 0
      <3>1. h # 0
        <4>1. 0 % 8 = 0
          OBVIOUS
        <4> QED
          BY <1>4, <4>1
      <3> QED
        BY <3>1 DEF NextZeros
    <2> HIDE DEF h, z, n, d, l, f, p, t, i
    <2>4. HandleSwv(s, h) = Header(u, h)
      BY <1>6, <2>2, OneByte DEF n, z
    <2>5. Header(u, h) = Swv(AfterHeader[h % 4], n, (h \div 8) + 256 * ((h % 8) \div 4), <<>>, d, l, f, p)
      BY <1>4, SourceBegins
    <2> QED
      BY <2>1, <2>3, <2>4, <2>5 DEF i
  <1> DEFINE z0 == 0
             v0 == <<>>
  <1>13. z0 \in 0 .. 3 /\ z0 \in 0 .. 4
    OBVIOUS
  <1> HIDE DEF b, h, i, t, d, l, f, p, v, z0, v0
  <1>9. \A k \in 1 .. Len(v) : b[k + 1] = v[k]
    BY <1>1
  <1>10. CASE h % 4 = 1
    <2>1. Len(v) = 1 /\ AfterHeader[h % 4] = "1X1"
      BY <1>2, <1>10, ValueStates
    <2>2. b[1 + 1] = v[1]
      BY <1>9, <2>1
    <2> DEFINE z == NextZeros(z0, v[1])
    <2>3. t(2) = Ended(z, i, Append(v0, v[1]), d, l, f, p)
      <3>1. t(1) = Swv("1X1", z0, i, v0, d, l, f, p)
        BY <1>8, <2>1 DEF z0, v0
      <3>2. t(2) = HandleSwv(t(1), v[1])
        BY <1>5, <2>2
      <3> QED
        BY <1>13, <3>1, <3>2, ValueLast
    <2>4. Append(v0, v[1]) = v
      BY <1>1, <2>1 DEF v0
    <2>5. z \in 0 .. 4
      BY FourZeros DEF z0
    <2> HIDE DEF z
    <2>6. ProcessSwoData(s, b) = t(2)
      BY <1>7, <2>1
    <2> QED
      BY <1>3, <2>3, <2>4, <2>5, <2>6 DEF b, d, l, f, p
  <1>11. CASE h % 4 = 2
    <2>1. Len(v) = 2 /\ AfterHeader[h % 4] = "1X2"
      BY <1>2, <1>11, ValueStates
    <2>2. b[1 + 1] = v[1] /\ b[2 + 1] = v[2]
      BY <1>9, <2>1
    <2> DEFINE z1 == NextZeros(z0, v[1])
               z2 == NextZeros(z1, v[2])
    <2>3. z1 \in 0 .. 1 /\ z2 \in 0 .. 2
      BY FourZeros DEF z0
    <2>4. t(2) = Swv("2X2", z1, i, Append(v0, v[1]), d, l, f, p)
      <3>1. t(1) = Swv("1X2", z0, i, v0, d, l, f, p)
        BY <1>8, <2>1 DEF z0, v0
      <3>2. t(2) = HandleSwv(t(1), v[1])
        BY <1>5, <2>2
      <3> QED
        BY <1>13, <3>1, <3>2, ValueStates, ValueMore
    <2> HIDE DEF z1
    <2>5. t(3) = Ended(z2, i, Append(Append(v0, v[1]), v[2]), d, l, f, p)
      BY <1>5, <2>2, <2>3, <2>4, ValueLast
    <2>6. Append(Append(v0, v[1]), v[2]) = v
      BY <1>1, <2>1 DEF v0
    <2> HIDE DEF z2
    <2>7. ProcessSwoData(s, b) = t(3)
      BY <1>7, <2>1
    <2>8. z2 \in 0 .. 4
      BY <2>3
    <2> QED
      BY <1>3, <2>5, <2>6, <2>7, <2>8 DEF b, d, l, f, p
  <1>12. CASE h % 4 = 3
    <2>1. Len(v) = 4 /\ AfterHeader[h % 4] = "1X4"
      BY <1>2, <1>12, ValueStates
    <2>2. b[1 + 1] = v[1] /\ b[2 + 1] = v[2] /\ b[3 + 1] = v[3] /\ b[4 + 1] = v[4]
      BY <1>9, <2>1
    <2> DEFINE z1 == NextZeros(z0, v[1])
               z2 == NextZeros(z1, v[2])
               z3 == NextZeros(z2, v[3])
               z4 == NextZeros(z3, v[4])
    <2>3. z1 \in 0 .. 1 /\ z2 \in 0 .. 2 /\ z3 \in 0 .. 3 /\ z4 \in 0 .. 4
      BY FourZeros DEF z0
    <2> DEFINE v1 == Append(v0, v[1])
               v2 == Append(v1, v[2])
               v3 == Append(v2, v[3])
               v4 == Append(v3, v[4])
    <2>4. v4 = v
      BY <1>1, <2>1 DEF v0
    <2>5. t(2) = Swv("2X4", z1, i, v1, d, l, f, p)
      <3>1. t(1) = Swv("1X4", z0, i, v0, d, l, f, p)
        BY <1>8, <2>1 DEF z0, v0
      <3>2. t(2) = HandleSwv(t(1), v[1])
        BY <1>5, <2>2
      <3> QED
        BY <1>13, <3>1, <3>2, ValueStates, ValueMore
    <2> HIDE DEF z1, v1
    <2>6. t(3) = Swv("3X4", z2, i, v2, d, l, f, p)
      BY <1>5, <2>2, <2>3, <2>5, ValueStates, ValueMore
    <2> HIDE DEF z2, v2
    <2>7. t(4) = Swv("4X4", z3, i, v3, d, l, f, p)
      BY <1>5, <2>2, <2>3, <2>6, ValueStates, ValueMore
    <2> HIDE DEF z3, v3
    <2>8. t(5) = Ended(z4, i, v4, d, l, f, p)
      BY <1>5, <2>2, <2>3, <2>7, ValueLast
    <2> HIDE DEF z4, v4
    <2>9. ProcessSwoData(s, b) = t(5)
      BY <1>7, <2>1
    <2> QED
      BY <1>3, <2>3, <2>4, <2>8, <2>9 DEF b, d, l, f, p
  <1> QED
    BY <1>4, <1>10, <1>11, <1>12

\* A byte of a protocol packet, after the first.
LEMMA ProtocolMore ==
  ASSUME NEW z \in 0 .. 4, NEW i, NEW v, NEW d, NEW l, NEW f, NEW p, NEW x,
         ~ ProtoEnd(Append(d, x))
  PROVE  HandleSwv(Swv("PROTO", z, i, v, d, l, f, p), x) =
             Swv("PROTO", NextZeros(z, x), i, v, Append(d, x), l, f, p)
  <1> DEFINE n == NextZeros(z, x)
  <1>1. ~ (z >= ResyncZeros /\ x = SyncByte)
    BY DEF ResyncZeros
  <1>2. HandleSwv(Swv("PROTO", z, i, v, d, l, f, p), x) = Proto(Swv("PROTO", n, i, v, d, l, f, p), x)
    BY <1>1, OneByte
  <1> HIDE DEF n
  <1> QED
    BY <1>2, ProtocolGoesOn DEF n

LEMMA ProtocolLast ==
  ASSUME NEW z \in 0 .. 4, NEW i, NEW v, NEW d, NEW l, NEW f, NEW p, NEW x,
         ProtoEnd(Append(d, x))
  PROVE  HandleSwv(Swv("PROTO", z, i, v, d, l, f, p), x) =
             Swv("IDLE", NextZeros(z, x), i, v, Append(d, x), l,
                 Append(f, Protocol(Append(d, x))), p)
  <1> DEFINE n == NextZeros(z, x)
  <1>1. ~ (z >= ResyncZeros /\ x = SyncByte)
    BY DEF ResyncZeros
  <1>2. HandleSwv(Swv("PROTO", z, i, v, d, l, f, p), x) = Proto(Swv("PROTO", n, i, v, d, l, f, p), x)
    BY <1>1, OneByte
  <1> HIDE DEF n
  <1> QED
    BY <1>2, ProtocolGoesOn DEF n

LEMMA FirstPrefix ==
  ASSUME NEW b \in Seq(Byte), Len(b) >= 1 PROVE SubSeq(b, 1, 1) = <<b[1]>>
  <1>1. SubSeq(b, 1, 1) \in Seq(Byte) /\ Len(SubSeq(b, 1, 1)) = 1 /\ SubSeq(b, 1, 1)[1] = b[1]
    OBVIOUS
  <1>2. <<b[1]>> \in Seq(Byte) /\ Len(<<b[1]>>) = 1 /\ <<b[1]>>[1] = b[1]
    OBVIOUS
  <1> DEFINE c == SubSeq(b, 1, 1)
             e == <<b[1]>>
  <1>3. \A k \in 1 .. Len(c) : c[k] = e[k]
    BY <1>1, <1>2
  <1>4. c \in Seq(Byte) /\ e \in Seq(Byte) /\ Len(c) = Len(e)
    BY <1>1, <1>2
  <1> HIDE DEF c, e
  <1>5. c = e
    BY <1>3, <1>4, SeqEqual
  <1> QED
    BY <1>5 DEF c, e

LEMMA PrefixGrows ==
  ASSUME NEW b \in Seq(Byte), NEW k \in 1 .. Len(b) - 1
  PROVE  /\ SubSeq(b, 1, k + 1) = Append(SubSeq(b, 1, k), b[k + 1])
         /\ Len(SubSeq(b, 1, k + 1)) = k + 1
         /\ SubSeq(b, 1, k + 1)[k + 1] = b[k + 1]
  OBVIOUS

LEMMA ProtocolDecoded ==
  ASSUME NEW s, IsDecoder(s), s.state = "IDLE", s.zcount \in 0 .. 4,
         NEW q, q.bytes \in Seq(Byte), q.bytes # <<>>, IsProtocol(q)
  PROVE  \E z \in 0 .. 4 :
           ProcessSwoData(s, q.bytes) =
             Swv("IDLE", z, s.id, s.val, q.bytes, s.line, Append(s.found, q.means), s.printed)
  <1> DEFINE b == q.bytes
             h == b[1]
             n == Len(b)
             t(k) == DecodeAt(s, b, k)
             i == s.id  v == s.val  l == s.line  f == s.found  p == s.printed
  <1>1. /\ b \in Seq(Byte) /\ n \in Nat /\ n >= 1 /\ h \in Byte /\ h = Head(b)
        /\ \A k \in 1 .. n : b[k] \in Byte
    OBVIOUS
  <1>2. /\ h # 0 /\ h % 8 = 0 /\ \A k \in 1 .. n - 1 : b[k] >= 128
        /\ n <= 7 /\ (n = 7 \/ b[n] < 128) /\ q.means = Protocol(b)
    BY <1>1 DEF IsProtocol
  <1>3. s = Swv("IDLE", s.zcount, i, v, s.data, l, f, p)
    BY DEF IsDecoder
  <1>4. ProcessSwoData(s, b) = t(n)
    BY ProcessIs
  <1>5. \A k \in Nat : t(k + 1) = HandleSwv(t(k), b[k + 1])
    BY DecodeStep
  <1>6. t(1) = IF h >= 128 THEN Swv("PROTO", 0, i, v, <<h>>, l, f, p)
               ELSE Swv("IDLE", 0, i, v, <<h>>, l, Append(f, Protocol(<<h>>)), p)
    <2> DEFINE z == s.zcount
               m == NextZeros(z, h)
               u == Swv("IDLE", m, i, v, s.data, l, f, p)
    <2>1. t(1) = HandleSwv(s, h)
      <3> HIDE DEF b
      <3> QED
        BY FirstSteps
    <2>2. ~ (z >= ResyncZeros /\ h = SyncByte)
      BY DEF ResyncZeros
    <2>3. m = 0
      BY <1>2 DEF NextZeros
    <2> HIDE DEF h, z, m, i, v, l, f, p, t
    <2>4. HandleSwv(s, h) = Header(u, h)
      BY <1>3, <2>2, OneByte DEF m, z
    <2>5. Header(u, h) = IF h >= 128 THEN Swv("PROTO", m, i, v, <<h>>, l, f, p)
                         ELSE Swv("IDLE", m, i, v, <<h>>, l, Append(f, Protocol(<<h>>)), p)
      BY <1>1, <1>2, ProtocolBegins
    <2> QED
      BY <2>1, <2>3, <2>4, <2>5
  <1> DEFINE z0 == 0
  <1>7. z0 \in 0 .. 4
    OBVIOUS
  <1> HIDE DEF h, n, t, i, v, l, f, p, b, z0
  <1>8. CASE h < 128
    <2>1. n = 1
      <3>1. SUFFICES ASSUME n > 1 PROVE FALSE
        BY <1>1
      <3>2. 1 \in 1 .. n - 1
        BY <1>1, <3>1
      <3>3. h >= 128
        BY <1>2, <3>2 DEF h
      <3>4. h \in Int
        BY <1>1 DEF Byte
      <3> QED
        BY <1>8, <3>3, <3>4
    <2>2. <<h>> = b
      BY <1>1, <2>1 DEF h, n
    <2>3. ~ (h >= 128)
      BY <1>1, <1>8 DEF Byte
    <2>4. t(n) = Swv("IDLE", z0, i, v, b, l, Append(f, q.means), p)
      BY <1>2, <1>6, <2>1, <2>2, <2>3 DEF z0
    <2> QED
      BY <1>4, <1>7, <2>4 DEF i, v, l, f, p, b
  <1>9. CASE h >= 128
    <2> DEFINE S == {k \in Nat : k + 1 < n =>
                        t(k + 1) = Swv("PROTO", z0, i, v, SubSeq(b, 1, k + 1), l, f, p)}
    <2>1. n > 1
      <3>1. n # 1
        <4>1. SUFFICES ASSUME n = 1 PROVE FALSE
          OBVIOUS
        <4>2. h < 128
          BY <1>2, <4>1 DEF h
        <4>3. h \in Int
          BY <1>1 DEF Byte
        <4> QED
          BY <1>9, <4>2, <4>3
      <3> QED
        BY <1>1, <3>1
    <2>2. 0 \in S
      <3>1. SubSeq(b, 1, 1) = <<h>>
        BY <1>1, FirstPrefix DEF h, n
      <3>2. t(1) = Swv("PROTO", z0, i, v, <<h>>, l, f, p) /\ 0 + 1 = 1
        BY <1>6, <1>9 DEF z0
      <3> QED
        BY <3>1, <3>2
    <2>3. ASSUME NEW k \in Nat, k \in S PROVE k + 1 \in S
      <3>1. SUFFICES ASSUME k + 2 < n
                     PROVE  t(k + 2) = Swv("PROTO", z0, i, v, SubSeq(b, 1, k + 2), l, f, p)
        BY <1>1
      <3> DEFINE d == SubSeq(b, 1, k + 1)
                 e == SubSeq(b, 1, k + 2)
                 x == b[k + 2]
      <3>2. t(k + 1) = Swv("PROTO", z0, i, v, d, l, f, p)
        BY <1>1, <2>3, <3>1
      <3>3. t(k + 2) = HandleSwv(t(k + 1), x)
        <4>1. k + 1 \in Nat /\ (k + 1) + 1 = k + 2
          OBVIOUS
        <4> QED
          BY <1>5, <4>1
      <3>4. x \in Byte /\ x >= 128
        BY <1>1, <1>2, <3>1
      <3>5. e = Append(d, x) /\ Len(e) = k + 2 /\ e[k + 2] = x
        <4>1. k + 1 \in 1 .. Len(b) - 1 /\ (k + 1) + 1 = k + 2
          BY <1>1, <3>1 DEF n
        <4> QED
          BY <1>1, <4>1, PrefixGrows
      <3>6. ~ ProtoEnd(e)
        <4>1. k + 2 # 7
          BY <1>1, <1>2, <3>1
        <4>2. ~ (x < 128)
          <5> HIDE DEF x
          <5>1. x \in Int
            BY <3>4 DEF Byte
          <5> QED
            BY <3>4, <5>1
        <4> HIDE DEF e, x
        <4> QED
          BY <3>5, <4>1, <4>2 DEF ProtoEnd
      <3>7. NextZeros(z0, x) = z0
        BY <3>4 DEF NextZeros, z0, Byte
      <3> HIDE DEF d, e, x
      <3>9. ~ ProtoEnd(Append(d, x))
        BY <3>5, <3>6
      <3>8. HandleSwv(Swv("PROTO", z0, i, v, d, l, f, p), x)
              = Swv("PROTO", NextZeros(z0, x), i, v, e, l, f, p)
        BY <1>7, <3>5, <3>9, ProtocolMore
      <3> QED
        BY <3>2, <3>3, <3>7, <3>8 DEF e
    <2>4. Nat \subseteq S
      <3> HIDE DEF S
      <3> QED
        BY <2>2, <2>3, SetInduction
    <2>5. PICK m \in Nat : m + 2 = n
      BY <1>1, <2>1
    <2> DEFINE d == SubSeq(b, 1, m + 1)
               x == b[n]
               z == NextZeros(z0, x)
    <2>6. t(m + 1) = Swv("PROTO", z0, i, v, d, l, f, p)
      BY <2>4, <2>5
    <2>7. t(n) = HandleSwv(t(m + 1), x)
      <3>1. m + 1 \in Nat /\ (m + 1) + 1 = n
        BY <2>5
      <3> QED
        BY <1>5, <3>1
    <2>8. b = Append(d, x)
      <3>1. m + 1 \in 1 .. Len(b) - 1 /\ (m + 1) + 1 = Len(b)
        BY <2>5 DEF n
      <3>2. SubSeq(b, 1, Len(b)) = b
        BY <1>1
      <3> QED
        BY <1>1, <3>1, <3>2, PrefixGrows DEF n
    <2>9. ProtoEnd(b)
      BY <1>2 DEF ProtoEnd, n
    <2>10. z \in 0 .. 4
      BY DEF NextZeros, ResyncZeros, z0
    <2> HIDE DEF d, x, z, S
    <2>13. ProtoEnd(Append(d, x))
      BY <2>8, <2>9
    <2>11. HandleSwv(Swv("PROTO", z0, i, v, d, l, f, p), x)
             = Swv("IDLE", z, i, v, b, l, Append(f, Protocol(b)), p)
      BY <1>7, <2>8, <2>13, ProtocolLast DEF z
    <2>12. t(n) = Swv("IDLE", z, i, v, b, l, Append(f, q.means), p)
      BY <1>2, <2>6, <2>7, <2>11
    <2> QED
      BY <1>4, <2>10, <2>12 DEF i, v, l, f, p, b
  <1>10. h < 128 \/ h >= 128
    <2>1. h \in 0 .. 255
      BY <1>1 DEF Byte
    <2> QED
      BY <2>1
  <1> QED
    BY <1>8, <1>9, <1>10

\* Either way it is found, and the decoder is between packets again.
LEMMA PacketDecoded ==
  ASSUME NEW s, IsDecoder(s), s.state = "IDLE", s.zcount \in 0 .. 4, NEW q \in Packets
  PROVE  LET r == ProcessSwoData(s, q.bytes)
         IN  /\ IsDecoder(r) /\ r.state = "IDLE" /\ r.zcount \in 0 .. 4
             /\ r.found = Append(s.found, q.means)
  <1> DEFINE r == ProcessSwoData(s, q.bytes)
  <1>1. q.bytes \in Seq(Byte) /\ q.bytes # <<>> /\ (IsSource(q) \/ IsProtocol(q))
    BY PacketsAssumption DEF Byte
  <1>2. IsDecoder(r)
    BY <1>1, DecoderStays
  <1>3. CASE IsSource(q)
    <2>1. PICK z \in 0 .. 4 :
            r = Ended(z, q.means.id, q.means.val, s.data, s.line, s.found, s.printed)
      BY <1>1, <1>3, SourceDecoded
    <2>2. q.means = Source(q.means.id, q.means.val)
      BY <1>3 DEF IsSource, Source
    <2>3. /\ r.state = "IDLE" /\ r.zcount = z
          /\ r.found = Append(s.found, Source(q.means.id, q.means.val))
      <3> HIDE DEF r
      <3> QED
        BY <2>1, EndedFields
    <2> QED
      BY <1>2, <2>2, <2>3
  <1>4. CASE IsProtocol(q)
    <2>1. PICK z \in 0 .. 4 :
            r = Swv("IDLE", z, s.id, s.val, q.bytes, s.line, Append(s.found, q.means), s.printed)
      BY <1>1, <1>4, ProtocolDecoded
    <2> DEFINE g == Append(s.found, q.means)
    <2>2. r.state = "IDLE" /\ r.zcount = z /\ r.found = g
      <3>1. r = Swv("IDLE", z, s.id, s.val, q.bytes, s.line, g, s.printed)
        BY <2>1
      <3> HIDE DEF r, g
      <3> QED
        BY <3>1, SwvFields
    <2> QED
      BY <1>2, <2>2
  <1> QED
    BY <1>1, <1>3, <1>4

-----------------------------------------------------------------------------
(* The decoder and what is still on its way to it.                         *)

\* The decoder as it will be when what is on its way has come.
Fed == ProcessSwoData(swv, pipe)

DecoderInv ==
    /\ pipe \in Seq(Byte) /\ IsDecoder(swv)
    /\ clean => Fed.state = "IDLE" /\ Fed.zcount \in 0 .. 4 /\ Fed.found = said

LEMMA PipeCut ==
  ASSUME NEW b \in Seq(Byte), NEW n \in 1 .. Len(b)
  PROVE  /\ SubSeq(b, 1, n) \in Seq(Byte) /\ SubSeq(b, n + 1, Len(b)) \in Seq(Byte)
         /\ SubSeq(b, 1, n) \o SubSeq(b, n + 1, Len(b)) = b
  <1> DEFINE c == SubSeq(b, 1, n)
             e == SubSeq(b, n + 1, Len(b))
             g == c \o e
  <1>1. c \in Seq(Byte) /\ e \in Seq(Byte) /\ Len(c) = n /\ Len(e) = Len(b) - n
    OBVIOUS
  <1>2. \A k \in 1 .. n : c[k] = b[k]
    OBVIOUS
  <1>3. \A k \in 1 .. Len(b) - n : e[k] = b[n + k]
    OBVIOUS
  <1> HIDE DEF c, e
  <1>4. g \in Seq(Byte) /\ Len(g) = Len(b) /\ \A k \in 1 .. Len(b) : g[k] = b[k]
    <2>1. g \in Seq(Byte) /\ Len(g) = Len(b)
      BY <1>1
    <2>2. ASSUME NEW k \in 1 .. Len(b) PROVE g[k] = b[k]
      <3>1. CASE k <= n
        BY <1>1, <1>2, <3>1
      <3>2. CASE k > n
        <4>1. PICK j \in 1 .. Len(b) - n : j = k - n
          BY <3>2
        <4>2. k \in 1 .. Len(c) + Len(e) /\ k > Len(c) /\ k - Len(c) = j
          BY <1>1, <3>2, <4>1
        <4>3. g[k] = e[k - Len(c)]
          BY <1>1, <4>2, ConcatProperties
        <4>4. n + j = k
          BY <4>1
        <4> QED
          BY <1>3, <4>2, <4>3, <4>4
      <3>3. k \in Int /\ n \in Int
        OBVIOUS
      <3> HIDE DEF g
      <3> QED
        BY <3>1, <3>2, <3>3
    <2> QED
      BY <2>1, <2>2
  <1> HIDE DEF g
  <1>5. g = b
    BY <1>4, SeqEqual
  <1> QED
    BY <1>1, <1>5 DEF c, e, g

LEMMA SyncInPipe == Sync.bytes \in Seq(Byte)
  BY DEF Sync, SyncByte, Byte

\* Bytes that come with a message go from the pipe to the decoder.
LEMMA CutFed ==
  ASSUME pipe \in Seq(Byte), IsDecoder(swv), ProcessAsync
  PROVE  pipe' \in Seq(Byte) /\ IsDecoder(swv') /\ Fed' = Fed
  <1>1. PICK n \in Cuts :
          /\ pipe' = SubSeq(pipe, n + 1, Len(pipe))
          /\ swv' = ProcessSwoData(swv, SubSeq(pipe, 1, n))
    BY DEF ProcessAsync
  <1>2. n \in 1 .. Len(pipe)
    <2>1. Len(pipe) >= 1
      BY DEF ProcessAsync
    <2> QED
      BY <2>1 DEF Cuts
  <1> DEFINE a == SubSeq(pipe, 1, n)
             b == SubSeq(pipe, n + 1, Len(pipe))
  <1>3. a \in Seq(Byte) /\ b \in Seq(Byte) /\ a \o b = pipe
    BY <1>2, PipeCut
  <1>4. pipe' = b /\ swv' = ProcessSwoData(swv, a)
    BY <1>1
  <1> HIDE DEF a, b
  <1>5. ProcessSwoData(swv, a \o b) = ProcessSwoData(ProcessSwoData(swv, a), b)
    BY <1>3, DecodeConcat
  <1>6. IsDecoder(swv')
    BY <1>3, <1>4, DecoderStays
  <1> QED
    BY <1>3, <1>4, <1>5, <1>6 DEF Fed

\* What the target sends is decoded after what is on its way.
LEMMA SentFed ==
  ASSUME NEW p, p.bytes \in Seq(Byte), TargetSends(p), pipe \in Seq(Byte), IsDecoder(swv)
  PROVE  /\ pipe' \in Seq(Byte) /\ IsDecoder(swv') /\ IsDecoder(Fed)
         /\ Fed' = ProcessSwoData(Fed, p.bytes)
  <1>1. pipe' = pipe \o p.bytes /\ swv' = swv
    BY DEF TargetSends, reader
  <1>2. ProcessSwoData(swv, pipe \o p.bytes) = ProcessSwoData(ProcessSwoData(swv, pipe), p.bytes)
    BY DecodeConcat
  <1>3. IsDecoder(Fed)
    BY DecoderStays DEF Fed
  <1>4. pipe \o p.bytes \in Seq(Byte)
    OBVIOUS
  <1> QED
    BY <1>1, <1>2, <1>3, <1>4 DEF Fed

LEMMA KindsAre ==
  ASSUME NEW p \in Kinds
  PROVE  p.bytes \in Seq(Byte) /\ (p = Sync \/ (p \in Packets /\ sent > 0))
  BY PacketsAssumption, SyncInPipe DEF Kinds, Byte

\* The steps that do not concern the decoder.
Elsewhere ==
    \/ TransmitLock
    \/ \E s \in Services :
          \/ Write(s) \/ Accept(s) \/ Publish(s) \/ LeaveLoop(s) \/ Withdraw(s)
          \/ Close(s) \/ Leave(s)
    \/ \E headers : Handshake(headers)
    \/ HandshakeFails
    \/ UNCHANGED vars

LEMMA ElsewhereUnchanged ==
  Elsewhere => UNCHANGED <<pipe, swv, target>>
  BY DEF Elsewhere, TransmitLock, Write, Accept, Publish, LeaveLoop, Withdraw, Close, Leave,
         Handshake, HandshakeFails, vars, reader, fan, target

LEMMA NextSplits ==
  ASSUME [Next]_vars
  PROVE  \/ \E p \in Kinds : TargetSends(p)
         \/ \E p \in Kinds : ProbeLoses(p)
         \/ ProcessAsync
         \/ Elsewhere
  BY DEF Next, Reader, Listener, Elsewhere

LEMMA DecoderInit == Init => DecoderInv
  <1> SUFFICES ASSUME Init PROVE DecoderInv
    OBVIOUS
  <1>1. pipe \in Seq(Byte) /\ ~clean
    BY DEF Init
  <1>2. IsDecoder(swv)
    <2>1. swv = Swv("SYNC", 0, 0, <<>>, <<>>, <<>>, <<>>, <<>>)
      BY DEF Init, SwvInit, Swv
    <2>2. "SYNC" \in States /\ 0 \in 0 .. ResyncZeros
      BY DEF States, ResyncZeros
    <2> QED
      BY <2>1, <2>2, SwvIsDecoder
  <1> QED
    BY <1>1, <1>2 DEF DecoderInv

LEMMA DecoderInvStep == DecoderInv /\ [Next]_vars => DecoderInv'
  <1> SUFFICES ASSUME DecoderInv, [Next]_vars PROVE DecoderInv'
    OBVIOUS
  <1>0. pipe \in Seq(Byte) /\ IsDecoder(swv)
    BY DEF DecoderInv
  <1>1. ASSUME NEW p \in Kinds, TargetSends(p) PROVE DecoderInv'
    <2>1. /\ pipe' \in Seq(Byte) /\ IsDecoder(swv') /\ IsDecoder(Fed)
          /\ Fed' = ProcessSwoData(Fed, p.bytes)
      BY <1>0, <1>1, KindsAre, SentFed
    <2>2. CASE p = Sync
      <3>1. Fed'.state = "IDLE" /\ Fed'.zcount = 0 /\ Fed'.found = <<>>
        BY <2>1, <2>2, SyncDecoded
      <3>2. said' = <<>>
        BY <1>1, <2>2 DEF TargetSends
      <3> QED
        BY <2>1, <3>1, <3>2 DEF DecoderInv
    <2>3. CASE p # Sync
      <3>1. p \in Packets /\ said' = Append(said, p.means) /\ clean' = clean
        BY <1>1, <2>3, KindsAre DEF TargetSends
      <3>2. SUFFICES ASSUME clean
                     PROVE  Fed'.state = "IDLE" /\ Fed'.zcount \in 0 .. 4 /\ Fed'.found = said'
        BY <2>1, <3>1 DEF DecoderInv
      <3>3. Fed.state = "IDLE" /\ Fed.zcount \in 0 .. 4 /\ Fed.found = said
        BY <3>2 DEF DecoderInv
      <3> QED
        BY <2>1, <3>1, <3>3, PacketDecoded
    <2> QED
      BY <2>2, <2>3
  <1>2. ASSUME NEW p \in Kinds, ProbeLoses(p) PROVE DecoderInv'
    <2>1. p.bytes \in Seq(Byte)
      BY KindsAre
    <2>2. PICK n \in 0 .. Len(p.bytes) - 1 : pipe' = pipe \o SubSeq(p.bytes, 1, n)
      BY <1>2 DEF ProbeLoses
    <2>3. SubSeq(p.bytes, 1, n) \in Seq(Byte)
      BY <2>1
    <2>4. pipe' \in Seq(Byte)
      BY <1>0, <2>2, <2>3
    <2>5. swv' = swv /\ ~clean'
      BY <1>2 DEF ProbeLoses, reader
    <2> QED
      BY <1>0, <2>4, <2>5 DEF DecoderInv
  <1>3. ASSUME ProcessAsync PROVE DecoderInv'
    <2>1. pipe' \in Seq(Byte) /\ IsDecoder(swv') /\ Fed' = Fed
      BY <1>0, <1>3, CutFed
    <2>2. said' = said /\ clean' = clean
      BY <1>3 DEF ProcessAsync, target
    <2> QED
      BY <2>1, <2>2 DEF DecoderInv
  <1>4. ASSUME Elsewhere PROVE DecoderInv'
    <2>1. pipe' = pipe /\ swv' = swv /\ said' = said /\ clean' = clean
      BY <1>4, ElsewhereUnchanged DEF target
    <2> QED
      BY <2>1 DEF DecoderInv, Fed
  <1> QED
    BY <1>1, <1>2, <1>3, <1>4, NextSplits

LEMMA DecoderInvariance == Spec => []DecoderInv
  BY DecoderInit, DecoderInvStep, PTL DEF Spec

\* From a sync on the decoder finds every packet that the target sends, for what
\* it is, in whatever pieces the stream comes and whatever was lost before (handle_swv):
\* for any packets that PacketsAssumption admits, which are source packets, and
\* protocol packets whose header has bit 2 clear.
THEOREM PacketsDecoded == Spec => []Decoded
  <1>1. DecoderInv => Decoded
    <2>1. SUFFICES ASSUME DecoderInv, clean, pipe = <<>> PROVE swv.found = said
      BY DEF Decoded
    <2>2. Fed = swv
      BY <2>1, DecodeNothing DEF Fed
    <2> QED
      BY <2>1, <2>2 DEF DecoderInv
  <1> QED
    BY <1>1, DecoderInvariance, PTL

-----------------------------------------------------------------------------
(* The lines put one after the other.                                      *)

Flattens(f, q, n) == f = [i \in 1 .. n |-> IF i = 1 THEN q[i] ELSE f[i - 1] \o q[i]]
TheFlat(q, n) == CHOOSE f : Flattens(f, q, n)
FlatAt(q, n) == TheFlat(q, n)[n]

LEMMA FlattenIs ==
  ASSUME NEW q
  PROVE  FlattenSeq(q) = IF Len(q) = 0 THEN q ELSE FlatAt(q, Len(q))
  BY DEF FlattenSeq, FlatAt, TheFlat, Flattens

LEMMA FlatsExist ==
  ASSUME NEW q, NEW n \in Nat PROVE Flattens(TheFlat(q, n), q, n)
  <1> DEFINE S == {k \in Nat : \E f : Flattens(f, q, k)}
  <1>1. 0 \in S
    <2>1. Flattens([i \in 1 .. 0 |-> IF i = 1 THEN q[i] ELSE <<>>], q, 0)
      BY DEF Flattens
    <2> QED
      BY <2>1
  <1>2. ASSUME NEW k \in Nat, k \in S PROVE k + 1 \in S
    <2>1. PICK f : Flattens(f, q, k)
      BY <1>2
    <2> DEFINE c == IF k + 1 = 1 THEN q[k + 1] ELSE f[k] \o q[k + 1]
               g == [i \in 1 .. k + 1 |-> IF i = k + 1 THEN c ELSE f[i]]
    <2>2. ASSUME NEW i \in 1 .. k + 1 PROVE g[i] = IF i = 1 THEN q[i] ELSE g[i - 1] \o q[i]
      <3>1. CASE i = k + 1 /\ k = 0
        BY <3>1
      <3>2. CASE i = k + 1 /\ k # 0
        <4>0. i # 1 /\ k + 1 # 1
          BY <3>2
        <4>3. c = f[k] \o q[i]
          BY <3>2, <4>0
        <4>4. g[i] = c
          BY <3>2
        <4>1. g[i] = f[k] \o q[i] /\ i # 1
          BY <4>0, <4>3, <4>4
        <4>2. i - 1 = k /\ g[k] = f[k]
          BY <3>2
        <4> QED
          BY <4>1, <4>2
      <3>3. CASE i # k + 1
        <4>1. i \in 1 .. k /\ g[i] = f[i]
          BY <3>3
        <4>2. i # 1 => g[i - 1] = f[i - 1]
          BY <4>1
        <4>3. f[i] = IF i = 1 THEN q[i] ELSE f[i - 1] \o q[i]
          BY <2>1, <4>1 DEF Flattens
        <4> HIDE DEF g
        <4> QED
          BY <4>1, <4>2, <4>3
      <3> QED
        BY <3>1, <3>2, <3>3
    <2>3. g = [i \in 1 .. k + 1 |-> g[i]]
      OBVIOUS
    <2> HIDE DEF g
    <2>4. Flattens(g, q, k + 1)
      BY <2>2, <2>3 DEF Flattens
    <2> QED
      BY <2>4
  <1>3. Nat \subseteq S
    <2> HIDE DEF S
    <2> QED
      BY <1>1, <1>2, SetInduction
  <1> QED
    BY <1>3 DEF TheFlat

\* Only the lines up to there count.
SameLines(q, r, k) == \A i \in 1 .. k : q[i] = r[i]
LEMMA FlatsAgree ==
  ASSUME NEW q, NEW r, NEW n \in Nat, NEW m \in Nat, NEW k \in Nat, k <= n, k <= m,
         SameLines(q, r, k)
  PROVE  \A i \in 1 .. k : TheFlat(q, n)[i] = TheFlat(r, m)[i]
  <1> DEFINE f == TheFlat(q, n)
             g == TheFlat(r, m)
             S == {i \in Nat : i + 1 <= k => f[i + 1] = g[i + 1]}
  <1>1. Flattens(f, q, n) /\ Flattens(g, r, m)
    BY FlatsExist
  <1> HIDE DEF f, g
  <1>2. 0 \in S
    <2>1. SUFFICES ASSUME 0 + 1 <= k PROVE f[0 + 1] = g[0 + 1]
      OBVIOUS
    <2>2. 1 \in 1 .. n /\ 1 \in 1 .. m /\ 1 \in 1 .. k
      BY <2>1
    <2>3. f[1] = q[1] /\ g[1] = r[1] /\ q[1] = r[1]
      BY <1>1, <2>2 DEF Flattens, SameLines
    <2> QED
      BY <2>3
  <1>3. ASSUME NEW i \in Nat, i \in S PROVE i + 1 \in S
    <2> DEFINE j == i + 2
    <2>1. SUFFICES ASSUME j <= k PROVE f[j] = g[j]
      OBVIOUS
    <2>2. j \in 1 .. n /\ j \in 1 .. m /\ j \in 1 .. k /\ j # 1 /\ j - 1 = i + 1
      BY <2>1
    <2>3. f[i + 1] = g[i + 1]
      BY <1>3, <2>1
    <2> HIDE DEF j
    <2>4. f[j] = f[j - 1] \o q[j]
      BY <1>1, <2>2 DEF Flattens
    <2>5. g[j] = g[j - 1] \o r[j]
      BY <1>1, <2>2 DEF Flattens
    <2> QED
      BY <2>2, <2>3, <2>4, <2>5 DEF SameLines
  <1>4. Nat \subseteq S
    <2> HIDE DEF S
    <2> QED
      BY <1>2, <1>3, SetInduction
  <1>5. ASSUME NEW i \in 1 .. k PROVE f[i] = g[i]
    <2>1. PICK j \in Nat : j + 1 = i
      <3>1. i - 1 \in Nat /\ (i - 1) + 1 = i
        OBVIOUS
      <3> QED
        BY <3>1
    <2> QED
      BY <1>4, <2>1
  <1> QED
    BY <1>5 DEF f, g

LEMMA FlattenAppend ==
  ASSUME NEW q \in Seq(Seq(Byte)), NEW x \in Seq(Byte)
  PROVE  FlattenSeq(Append(q, x)) = FlattenSeq(q) \o x
  <1> DEFINE r == Append(q, x)
             n == Len(q)
  <1>1. n \in Nat /\ Len(r) = n + 1 /\ r[n + 1] = x /\ \A i \in 1 .. n : q[i] = r[i]
    OBVIOUS
  <1>2. CASE n = 0
    <2>1. FlattenSeq(q) = <<>>
      BY <1>2, FlattenIs
    <2>2. FlattenSeq(r) = TheFlat(r, 1)[1]
      <3>1. Len(r) = 1
        BY <1>1, <1>2
      <3> HIDE DEF r
      <3> QED
        <4>1. FlattenSeq(r) = IF Len(r) = 0 THEN r ELSE FlatAt(r, Len(r))
          BY FlattenIs
        <4> QED
          BY <3>1, <4>1 DEF FlatAt
    <2>3. TheFlat(r, 1)[1] = r[1]
      <3>1. Flattens(TheFlat(r, 1), r, 1)
        BY FlatsExist
      <3> HIDE DEF r
      <3> DEFINE g == TheFlat(r, 1)
      <3> HIDE DEF g
      <3>2. g = [i \in 1 .. 1 |-> IF i = 1 THEN r[i] ELSE g[i - 1] \o r[i]]
        BY <3>1 DEF g, Flattens
      <3>3. g[1] = r[1]
        BY <3>2
      <3> QED
        BY <3>3 DEF g
    <2>4. r[1] = x /\ <<>> \o x = x
      BY <1>1, <1>2
    <2> QED
      BY <2>1, <2>2, <2>3, <2>4
  <1>3. CASE n > 0
    <2> DEFINE g == TheFlat(r, n + 1)
    <2>1. Flattens(g, r, n + 1)
      BY <1>1, FlatsExist
    <2>2. g[n] = TheFlat(q, n)[n]
      <3>1. \A i \in 1 .. n : TheFlat(q, n)[i] = TheFlat(r, n + 1)[i]
        <4>1. SameLines(q, r, n)
          BY <1>1 DEF SameLines
        <4>2. n \in Nat /\ n + 1 \in Nat /\ n <= n /\ n <= n + 1
          BY <1>1
        <4> HIDE DEF r, n
        <4> QED
          BY <4>1, <4>2, FlatsAgree
      <3>2. n \in 1 .. n
        BY <1>1, <1>3
      <3> QED
        BY <3>1, <3>2
    <2> HIDE DEF r, g, n
    <2>3. FlattenSeq(r) = g[n + 1]
      <3>1. Len(r) # 0
        BY <1>1
      <3> QED
        BY <1>1, <3>1, FlattenIs DEF FlatAt, g
    <2>4. FlattenSeq(q) = TheFlat(q, n)[n]
      BY <1>1, <1>3, FlattenIs DEF FlatAt, n
    <2>5. n + 1 \in 1 .. n + 1 /\ n + 1 # 1 /\ (n + 1) - 1 = n
      BY <1>1, <1>3
    <2>6. g[n + 1] = g[(n + 1) - 1] \o r[n + 1]
      BY <2>1, <2>5 DEF Flattens
    <2> QED
      BY <1>1, <2>2, <2>3, <2>4, <2>5, <2>6 DEF r
  <1> QED
    BY <1>1, <1>2, <1>3

\* The first bytes of the values, as the text they stand for.
Values == Seq(Byte) \ {<<>>}
Chars(t) == [i \in 1 .. Len(t) |-> t[i][1]]

LEMMA CharsAppend ==
  ASSUME NEW t \in Seq(Values), NEW v \in Values
  PROVE  /\ Chars(t) \in Seq(Byte) /\ v[1] \in Byte
         /\ Chars(Append(t, v)) = Append(Chars(t), v[1])
  <1>1. v[1] \in Byte
    BY DEF Values
  <1>2. \A i \in 1 .. Len(t) : t[i][1] \in Byte
    <2>1. ASSUME NEW i \in 1 .. Len(t) PROVE t[i][1] \in Byte
      <3>1. t[i] \in Values
        OBVIOUS
      <3> DEFINE u == t[i]
      <3> HIDE DEF u
      <3>2. u \in Seq(Byte) /\ Len(u) >= 1
        BY <3>1 DEF u, Values
      <3>3. u[1] \in Byte
        BY <3>2
      <3> QED
        BY <3>3 DEF u
    <2> QED
      BY <2>1
  <1> DEFINE n == Len(t)
             c == Chars(t)
             a == Chars(Append(t, v))
             b == Append(c, v[1])
  <1>3. n \in Nat /\ c = [i \in 1 .. n |-> t[i][1]]
    BY DEF Chars
  <1>4. c \in Seq(Byte) /\ Len(c) = n /\ \A i \in 1 .. n : c[i] = t[i][1]
    BY <1>2, <1>3
  <1>5. b \in Seq(Byte) /\ Len(b) = n + 1 /\ b[n + 1] = v[1] /\ \A i \in 1 .. n : b[i] = c[i]
    <2> HIDE DEF c, n
    <2> QED
      BY <1>1, <1>3, <1>4
  <1>6. a = [i \in 1 .. n + 1 |-> Append(t, v)[i][1]]
    BY DEF Chars
  <1>7. \A i \in 1 .. n : Append(t, v)[i] = t[i]
    OBVIOUS
  <1>8. Append(t, v)[n + 1] = v
    OBVIOUS
  <1> HIDE DEF a, b, c, n
  <1>9. \A i \in 1 .. n + 1 : a[i] = b[i]
    <2>1. ASSUME NEW i \in 1 .. n PROVE a[i] = b[i]
      <3>1. i \in 1 .. n + 1
        BY <1>3
      <3> QED
        BY <1>4, <1>5, <1>6, <1>7, <3>1
    <2>2. a[n + 1] = b[n + 1]
      <3>1. n + 1 \in 1 .. n + 1
        BY <1>3
      <3> DEFINE m == n + 1
                 w == Append(t, v)
      <3> HIDE DEF m, w
      <3>2. a[m] = w[m][1]
        BY <1>6, <3>1 DEF m, w
      <3> QED
        BY <1>5, <1>8, <3>2 DEF m, w
    <2> QED
      BY <1>3, <2>1, <2>2
  <1>10. b = [i \in 1 .. n + 1 |-> b[i]]
    BY <1>5
  <1>11. a = b
    BY <1>6, <1>9, <1>10
  <1> QED
    BY <1>1, <1>4, <1>11 DEF a, b, c

\* What was printed and the line that is being collected are the text; the line
\* is the text after the last newline.
Collected(pr, ln, t) ==
    /\ pr \in Seq(Seq(Byte)) /\ ln \in Seq(Byte)
    /\ FlattenSeq(pr) \o ln = Chars(t) /\ FlattenSeq(pr) \in Seq(Byte)
    /\ Len(ln) <= Len(t)
    /\ \A k \in Len(t) - Len(ln) + 1 .. Len(t) : ~ IsNewline(t[k])
    /\ \A k \in 1 .. Len(ln) : ln[k] # 0

LEMMA CollectedGrows ==
  ASSUME NEW pr, NEW ln, NEW t \in Seq(Values), NEW v \in Values, Collected(pr, ln, t),
         v[1] # 0
  PROVE  LET e == Append(ln, v[1])
         IN  /\ IsNewline(v) => Collected(Append(pr, e), <<>>, Append(t, v))
             /\ ~ IsNewline(v) => Collected(pr, e, Append(t, v))
  <1> DEFINE x == v[1]
             e == Append(ln, x)
             f == FlattenSeq(pr)
             u == Append(t, v)
  <1>1. /\ pr \in Seq(Seq(Byte)) /\ ln \in Seq(Byte) /\ f \o ln = Chars(t) /\ f \in Seq(Byte)
        /\ Len(ln) <= Len(t) /\ \A k \in Len(t) - Len(ln) + 1 .. Len(t) : ~ IsNewline(t[k])
        /\ \A k \in 1 .. Len(ln) : ln[k] # 0
    BY DEF Collected
  <1>2. x \in Byte /\ Chars(u) = Append(Chars(t), x) /\ x # 0
    BY CharsAppend
  <1>3. /\ Len(u) = Len(t) + 1 /\ u[Len(t) + 1] = v /\ \A k \in 1 .. Len(t) : u[k] = t[k]
        /\ Len(t) \in Nat
    OBVIOUS
  <1> HIDE DEF x, f, u
  <1>4. e \in Seq(Byte) /\ Len(e) = Len(ln) + 1 /\ Len(ln) \in Nat
    BY <1>1, <1>2
  <1>5. f \o e = Chars(u)
    <2>1. f \o Append(ln, x) = Append(f \o ln, x)
      BY <1>1, <1>2
    <2> QED
      BY <1>1, <1>2, <2>1
  <1>6. CASE IsNewline(v)
    <2>1. Append(pr, e) \in Seq(Seq(Byte))
      BY <1>1, <1>4
    <2>2. FlattenSeq(Append(pr, e)) = f \o e
      BY <1>1, <1>4, FlattenAppend DEF f
    <2>3. f \o e \in Seq(Byte)
      BY <1>1, <1>4
    <2>4. (f \o e) \o <<>> = f \o e
      BY <2>3
    <2>5. <<>> \in Seq(Byte) /\ Len(<<>>) = 0 /\ \A k \in 1 .. Len(<<>>) : <<>>[k] # 0
      OBVIOUS
    <2> HIDE DEF e
    <2>6. Collected(Append(pr, e), <<>>, u)
      BY <1>3, <1>5, <2>1, <2>2, <2>3, <2>4, <2>5 DEF Collected
    <2> QED
      BY <1>6, <2>6 DEF e, u, x
  <1>7. CASE ~ IsNewline(v)
    <2>0. \A k \in 1 .. Len(e) : e[k] # 0
      <3>0. \A q \in Seq(Byte), y \in Byte :
              Append(q, y)[Len(q) + 1] = y /\ \A k \in 1 .. Len(q) : Append(q, y)[k] = q[k]
        OBVIOUS
      <3>1. e[Len(ln) + 1] = x /\ \A k \in 1 .. Len(ln) : e[k] = ln[k]
        BY <1>1, <1>2, <3>0, Zenon
      <3> HIDE DEF e
      <3>2. \A k \in 1 .. Len(e) : k = Len(ln) + 1 \/ k \in 1 .. Len(ln)
        BY <1>4
      <3> QED
        BY <1>1, <1>2, <3>1, <3>2
    <2> HIDE DEF e
    <2>1. ASSUME NEW k \in Len(u) - Len(e) + 1 .. Len(u) PROVE ~ IsNewline(u[k])
      <3>1. CASE k = Len(t) + 1
        BY <1>3, <1>7, <3>1
      <3>2. CASE k # Len(t) + 1
        <4>0. /\ Len(ln) <= Len(t) /\ Len(u) = Len(t) + 1 /\ Len(e) = Len(ln) + 1
              /\ Len(t) \in Nat /\ Len(ln) \in Nat
          BY <1>1, <1>3, <1>4
        <4>1. k \in Len(t) - Len(ln) + 1 .. Len(t) /\ k \in 1 .. Len(t)
          BY <3>2, <4>0
        <4> QED
          BY <1>1, <1>3, <4>1
      <3> QED
        BY <3>1, <3>2
    <2>2. Len(e) <= Len(u)
      BY <1>1, <1>3, <1>4
    <2>3. Collected(pr, e, u)
      BY <1>1, <1>4, <1>5, <2>0, <2>1, <2>2 DEF Collected, f
    <2> QED
      BY <1>7, <2>3 DEF e, u, x
  <1> QED
    BY <1>6, <1>7

TooLong(t) == \E i \in 1 .. Len(t) :
    /\ i + PrintMax - 1 <= Len(t)
    /\ \A j \in i .. i + PrintMax - 1 : ~ IsNewline(t[j])

LEMMA TooLongGrows ==
  ASSUME NEW t \in Seq(Values), NEW v \in Values, TooLong(t) PROVE TooLong(Append(t, v))
  <1> DEFINE u == Append(t, v)
  <1>1. /\ Len(u) = Len(t) + 1 /\ Len(t) \in Nat /\ \A k \in 1 .. Len(t) : u[k] = t[k]
    OBVIOUS
  <1> HIDE DEF u
  <1>2. PrintMax \in Nat /\ PrintMax >= 1
    BY LineAssumption
  <1>3. PICK i \in 1 .. Len(t) :
          i + PrintMax - 1 <= Len(t) /\ \A j \in i .. i + PrintMax - 1 : ~ IsNewline(t[j])
    BY DEF TooLong
  <1>4. \A j \in i .. i + PrintMax - 1 : ~ IsNewline(u[j])
    <2>1. ASSUME NEW j \in i .. i + PrintMax - 1 PROVE ~ IsNewline(u[j])
      <3>1. j \in 1 .. Len(t)
        BY <1>1, <1>2, <1>3
      <3> QED
        BY <1>1, <1>3, <3>1
    <2> QED
      BY <2>1
  <1>5. i \in 1 .. Len(u) /\ i + PrintMax - 1 <= Len(u)
    BY <1>1, <1>2, <1>3
  <1>6. TooLong(u)
    BY <1>4, <1>5 DEF TooLong
  <1> QED
    BY <1>6 DEF u

\* A line that gets to PrintMax without a newline is too long.
LEMMA FullLine ==
  ASSUME NEW pr, NEW ln, NEW t \in Seq(Values), Collected(pr, ln, t), Len(ln) >= PrintMax
  PROVE  TooLong(t)
  <1> DEFINE i == Len(t) - PrintMax + 1
  <1>1. PrintMax \in Nat /\ PrintMax >= 1 /\ Len(t) \in Nat
    BY LineAssumption
  <1>2. /\ ln \in Seq(Byte) /\ Len(ln) <= Len(t)
        /\ \A k \in Len(t) - Len(ln) + 1 .. Len(t) : ~ IsNewline(t[k])
    BY DEF Collected
  <1>3. i \in 1 .. Len(t) /\ i + PrintMax - 1 = Len(t) /\ i >= Len(t) - Len(ln) + 1
    <2>1. Len(ln) \in Nat
      BY <1>2
    <2> QED
      BY <1>1, <1>2, <2>1
  <1> HIDE DEF i
  <1>4. i + PrintMax - 1 <= Len(t) /\ \A j \in i .. i + PrintMax - 1 : ~ IsNewline(t[j])
    <2>1. Len(ln) \in Nat
      BY <1>2
    <2> QED
      BY <1>1, <1>2, <1>3, <2>1
  <1> QED
    BY <1>3, <1>4 DEF TooLong

\* A line that is short enough and has no zero byte is printed as it is.
LEMMA Prints ==
  ASSUME NEW e \in Seq(Byte), \A k \in 1 .. Len(e) : e[k] # 0, Len(e) <= PrintMax
  PROVE  Xprintf(CString(e)) = e
  <1> DEFINE Cut(n) == /\ \A i \in 1 .. n : e[i] # 0
                       /\ n < Len(e) => e[n + 1] = 0
             end == CHOOSE n \in 0 .. Len(e) : Cut(n)
  <1>1. Len(e) \in Nat /\ SubSeq(e, 1, Len(e)) = e
    OBVIOUS
  <1>2. Len(e) \in 0 .. Len(e) /\ Cut(Len(e))
    BY <1>1
  <1>3. \A n \in 0 .. Len(e) : Cut(n) => n = Len(e)
    <2>1. ASSUME NEW n \in 0 .. Len(e), Cut(n), n # Len(e) PROVE FALSE
      <3>1. \A l \in Nat : \A m \in 0 .. l : m # l => m < l /\ m + 1 \in 1 .. l
        OBVIOUS
      <3>2. n < Len(e) /\ n + 1 \in 1 .. Len(e)
        BY <1>1, <2>1, <3>1, Zenon
      <3> QED
        BY <2>1, <3>2
    <2> QED
      BY <2>1
  <1>4. CString(e) = SubSeq(e, 1, end)
    BY DEF CString
  <1> HIDE DEF Cut
  <1>5. end \in 0 .. Len(e) /\ Cut(end)
    BY <1>2
  <1> HIDE DEF end
  <1>6. CString(e) = e
    BY <1>1, <1>3, <1>4, <1>5
  <1> QED
    BY <1>6 DEF Xprintf

LEMMA EndedLine ==
  ASSUME NEW z, NEW v, NEW d, NEW l, NEW f, NEW p
  PROVE  LET r == Ended(z, 0, v, d, l, f, p)
             e == Append(l, v[1])
         IN  /\ IsNewline(v) => r.line = <<>> /\ r.printed = Append(p, Xprintf(CString(e)))
             /\ ~ IsNewline(v) /\ Len(e) # LineMax => r.line = e /\ r.printed = p
  <1> DEFINE e == Append(l, v[1])
             g == Append(f, Source(0, v))
             r == Ended(z, 0, v, d, l, f, p)
             a == Append(p, Xprintf(CString(e)))
             b == Append(p, Xprintf(Append(CString(e), Newline)))
  <1>1. r = IF IsNewline(v) THEN Swv("IDLE", z, 0, v, d, <<>>, g, a)
            ELSE IF Len(e) = LineMax
                 THEN Swv("IDLE", z, 0, v, d, e, g, b)
            ELSE Swv("IDLE", z, 0, v, d, e, g, p)
    BY DEF Ended
  <1> HIDE DEF r, g, e, a, b
  <1>2. IsNewline(v) => r.line = <<>> /\ r.printed = a
    <2>1. SUFFICES ASSUME IsNewline(v) PROVE r.line = <<>> /\ r.printed = a
      OBVIOUS
    <2>2. r = Swv("IDLE", z, 0, v, d, <<>>, g, a)
      BY <1>1, <2>1
    <2> QED
      BY <2>2 DEF Swv
  <1>3. ~ IsNewline(v) /\ Len(e) # LineMax => r.line = e /\ r.printed = p
    <2>1. SUFFICES ASSUME ~ IsNewline(v), Len(e) # LineMax PROVE r.line = e /\ r.printed = p
      OBVIOUS
    <2>2. r = Swv("IDLE", z, 0, v, d, e, g, p)
      BY <1>1, <2>1
    <2> QED
      BY <2>2 DEF Swv
  <1> QED
    BY <1>2, <1>3 DEF r, e, a

\* A value has a byte.
LEMMA SourceValue ==
  ASSUME NEW q, q.bytes \in Seq(Byte), q.bytes # <<>>, IsSource(q)
  PROVE  q.means.val \in Values /\ q.means.kind = "source"
  <1> DEFINE h == Head(q.bytes)
             w == Tail(q.bytes)
  <1>1. /\ h % 4 # 0 /\ Len(w) = <<1, 2, 4>>[h % 4]
        /\ q.means = Source((h \div 8) + 256 * ((h % 8) \div 4), w)
    BY DEF IsSource
  <1>2. h \in Byte /\ w \in Seq(Byte)
    OBVIOUS
  <1> HIDE DEF h, w
  <1>3. h \in 0 .. 255
    BY <1>2 DEF Byte
  <1>4. h % 4 \in 0 .. 3
    BY <1>3
  <1>5. w # <<>>
    <2>1. Len(w) # 0
      BY <1>1, <1>4
    <2> QED
      BY <2>1
  <1>6. q.means.val = w /\ q.means.kind = "source"
    BY <1>1 DEF Source
  <1> QED
    BY <1>2, <1>5, <1>6 DEF Values

LEMMA PacketValue ==
  ASSUME NEW q \in Packets, OnPort0(q) PROVE q.means.val \in Values
  <1>1. q.bytes \in Seq(Byte) /\ q.bytes # <<>> /\ (IsSource(q) \/ IsProtocol(q))
    BY PacketsAssumption DEF Byte
  <1>2. ~ IsProtocol(q)
    BY DEF OnPort0, IsProtocol, Protocol
  <1> QED
    BY <1>1, <1>2, SourceValue

\* What a packet does to the line.
LEMMA PacketPrinted ==
  ASSUME NEW s, IsDecoder(s), s.state = "IDLE", s.zcount \in 0 .. 4, NEW q \in Packets
  PROVE  LET r == ProcessSwoData(s, q.bytes)
             v == q.means.val
             e == Append(s.line, v[1])
         IN  /\ ~ OnPort0(q) => r.line = s.line /\ r.printed = s.printed
             /\ OnPort0(q) =>
                  /\ v \in Values
                  /\ IsNewline(v) =>
                       r.line = <<>> /\ r.printed = Append(s.printed, Xprintf(CString(e)))
                  /\ ~ IsNewline(v) /\ Len(e) # LineMax => r.line = e /\ r.printed = s.printed
  <1> DEFINE r == ProcessSwoData(s, q.bytes)
             v == q.means.val
             i == q.means.id
             e == Append(s.line, v[1])
  <1>1. q.bytes \in Seq(Byte) /\ q.bytes # <<>> /\ (IsSource(q) \/ IsProtocol(q))
    BY PacketsAssumption DEF Byte
  <1>2. CASE IsSource(q)
    <2>1. PICK z \in 0 .. 4 : r = Ended(z, i, v, s.data, s.line, s.found, s.printed)
      BY <1>1, <1>2, SourceDecoded
    <2>2. v \in Values /\ q.means.kind = "source"
      BY <1>1, <1>2, SourceValue
    <2> HIDE DEF r, v
    <2>3. CASE i # 0
      <3>1. r.line = s.line /\ r.printed = s.printed
        BY <2>1, <2>3, EndedFields
      <3>2. ~ OnPort0(q)
        BY <2>3 DEF OnPort0
      <3> QED
        BY <3>1, <3>2 DEF r
    <2>4. CASE i = 0
      <3>1. r = Ended(z, 0, v, s.data, s.line, s.found, s.printed)
        BY <2>1, <2>4
      <3> HIDE DEF i
      <3>2. /\ IsNewline(v) =>
                  r.line = <<>> /\ r.printed = Append(s.printed, Xprintf(CString(e)))
            /\ ~ IsNewline(v) /\ Len(e) # LineMax => r.line = e /\ r.printed = s.printed
        <4> DEFINE d == s.data  l == s.line  f == s.found  p == s.printed
                   u == Append(l, v[1])
                   w == Ended(z, 0, v, d, l, f, p)
        <4> HIDE DEF d, l, f, p
        <4>1. /\ IsNewline(v) => w.line = <<>> /\ w.printed = Append(p, Xprintf(CString(u)))
              /\ ~ IsNewline(v) /\ Len(u) # LineMax => w.line = u /\ w.printed = p
          BY EndedLine
        <4>2. r = w
          BY <3>1 DEF d, l, f, p
        <4> HIDE DEF u, w
        <4>3. /\ IsNewline(v) => r.line = <<>> /\ r.printed = Append(p, Xprintf(CString(u)))
              /\ ~ IsNewline(v) /\ Len(u) # LineMax => r.line = u /\ r.printed = p
          BY <4>1, <4>2
        <4> QED
          BY <4>3 DEF l, p, u
      <3>3. OnPort0(q)
        BY <2>2, <2>4 DEF OnPort0, i
      <3> QED
        BY <2>2, <3>2, <3>3 DEF r, v
    <2> QED
      BY <2>3, <2>4
  <1>3. CASE IsProtocol(q)
    <2> DEFINE g == Append(s.found, q.means)
    <2>1. PICK z \in 0 .. 4 : r = Swv("IDLE", z, s.id, s.val, q.bytes, s.line, g, s.printed)
      BY <1>1, <1>3, ProtocolDecoded
    <2>2. r.line = s.line /\ r.printed = s.printed
      <3> HIDE DEF r, g
      <3> QED
        BY <2>1, SwvFields
    <2>3. ~ OnPort0(q)
      BY <1>3 DEF OnPort0, IsProtocol, Protocol
    <2> QED
      BY <2>2, <2>3
  <1> QED
    BY <1>1, <1>2, <1>3

\* A text of which all is printed.
Plain(t) == ~ TooLong(t) /\ \A i \in 1 .. Len(t) : t[i][1] # 0

PrintInv ==
    /\ losses \in Nat /\ sent \in Nat /\ text \in Seq(Values)
    /\ losses = 0 =>
          /\ Fed.state \in {"IDLE", "SYNC"} /\ (sent > 0 => clean)
          /\ Plain(text) => Collected(Fed.printed, Fed.line, text)

LEMMA PrintInit == Init => PrintInv
  <1> SUFFICES ASSUME Init PROVE PrintInv
    OBVIOUS
  <1>1. losses = 0 /\ sent = 0 /\ text = <<>> /\ pipe = <<>> /\ swv = SwvInit
    BY DEF Init
  <1>2. Fed = SwvInit
    BY <1>1, DecodeNothing DEF Fed
  <1>3. Fed.state = "SYNC" /\ Fed.printed = <<>> /\ Fed.line = <<>>
    BY <1>2 DEF SwvInit
  <1>4. Collected(<<>>, <<>>, <<>>)
    <2>1. FlattenSeq(<<>>) = <<>>
      BY FlattenIs
    <2>2. Chars(<<>>) = <<>>
      BY DEF Chars
    <2> DEFINE o == <<>>
    <2>3. /\ o \in Seq(Seq(Byte)) /\ o \in Seq(Byte) /\ Len(o) = 0 /\ o \o o = o
          /\ \A k \in 1 .. Len(o) : o[k] # 0
      OBVIOUS
    <2>4. FlattenSeq(o) = o /\ Chars(o) = o
      BY <2>1, <2>2
    <2> HIDE DEF o
    <2>5. Collected(o, o, o)
      BY <2>3, <2>4 DEF Collected
    <2> QED
      BY <2>5 DEF o
  <1>5. text \in Seq(Values)
    BY <1>1
  <1> QED
    BY <1>1, <1>3, <1>4, <1>5 DEF PrintInv

LEMMA PrintStep == DecoderInv /\ PrintInv /\ [Next]_vars => PrintInv'
  <1> SUFFICES ASSUME DecoderInv, PrintInv, [Next]_vars PROVE PrintInv'
    OBVIOUS
  <1>0. pipe \in Seq(Byte) /\ IsDecoder(swv) /\ losses \in Nat /\ sent \in Nat /\ text \in Seq(Values)
    BY DEF DecoderInv, PrintInv
  <1>1. ASSUME NEW p \in Kinds, TargetSends(p) PROVE PrintInv'
    <2>1. IsDecoder(Fed) /\ Fed' = ProcessSwoData(Fed, p.bytes)
      BY <1>0, <1>1, KindsAre, SentFed
    <2>2. losses' = losses /\ sent' = sent + 1
      BY <1>1 DEF TargetSends
    <2>3. CASE p = Sync
      <3>1. clean' /\ text' = text
        BY <1>1, <2>3 DEF TargetSends
      <3>2. /\ Fed'.state = "IDLE"
            /\ Fed.state \in {"IDLE", "SYNC"} =>
                 Fed'.line = Fed.line /\ Fed'.printed = Fed.printed
        BY <2>1, <2>3, SyncDecoded
      <3> QED
        BY <1>0, <2>2, <3>1, <3>2 DEF PrintInv
    <2>4. CASE p # Sync
      <3> DEFINE v == p.means.val
                 t == Append(text, v)
      <3>1. /\ p \in Packets /\ sent > 0 /\ clean' = clean
            /\ text' = IF OnPort0(p) /\ clean THEN t ELSE text
        BY <1>1, <2>4, KindsAre DEF TargetSends
      <3>2. OnPort0(p) => v \in Values
        BY <3>1, PacketValue
      <3> HIDE DEF v
      <3>3. text' \in Seq(Values)
        BY <1>0, <3>1, <3>2
      <3>4. SUFFICES ASSUME losses = 0
                     PROVE  /\ Fed'.state \in {"IDLE", "SYNC"} /\ clean
                            /\ Plain(text') => Collected(Fed'.printed, Fed'.line, text')
        BY <1>0, <2>2, <3>1, <3>3 DEF PrintInv
      <3>5. clean /\ (Plain(text) => Collected(Fed.printed, Fed.line, text))
        BY <3>1, <3>4 DEF PrintInv
      <3>6. Fed.state = "IDLE" /\ Fed.zcount \in 0 .. 4
        BY <3>5 DEF DecoderInv
      <3>7. Fed'.state = "IDLE"
        BY <2>1, <3>1, <3>6, PacketDecoded
      <3> DEFINE e == Append(Fed.line, v[1])
      <3>8. /\ ~ OnPort0(p) => Fed'.line = Fed.line /\ Fed'.printed = Fed.printed
            /\ OnPort0(p) =>
                 /\ IsNewline(v) => /\ Fed'.line = <<>>
                                    /\ Fed'.printed = Append(Fed.printed, Xprintf(CString(e)))
                 /\ ~ IsNewline(v) /\ Len(e) # LineMax =>
                       Fed'.line = e /\ Fed'.printed = Fed.printed
        BY <2>1, <3>1, <3>6, PacketPrinted DEF v
      <3>9. CASE ~ OnPort0(p)
        BY <3>1, <3>5, <3>7, <3>8, <3>9
      <3>10. CASE OnPort0(p)
        <4>1. text' = t /\ v \in Values
          BY <3>1, <3>2, <3>5, <3>10
        <4>2. SUFFICES ASSUME Plain(t) PROVE Collected(Fed'.printed, Fed'.line, t)
          BY <3>5, <3>7, <4>1
        <4>3. Plain(text) /\ v[1] # 0
          <5>1. ~ TooLong(text)
            BY <1>0, <4>1, <4>2, TooLongGrows DEF Plain
          <5>2. /\ Len(t) = Len(text) + 1 /\ t[Len(text) + 1] = v /\ Len(text) \in Nat
                /\ \A i \in 1 .. Len(text) : t[i] = text[i]
            BY <1>0, <4>1
          <5> HIDE DEF t
          <5> QED
            BY <4>2, <5>1, <5>2 DEF Plain
        <4>4. /\ IsNewline(v) => Collected(Append(Fed.printed, e), <<>>, t)
              /\ ~ IsNewline(v) => Collected(Fed.printed, e, t)
          BY <1>0, <3>5, <4>1, <4>3, CollectedGrows
        <4>5. t \in Seq(Values)
          BY <1>0, <4>1
        <4>6. Xprintf(CString(e)) = e
          <5>1. /\ Fed.line \in Seq(Byte) /\ \A k \in 1 .. Len(Fed.line) : Fed.line[k] # 0
            BY <3>5, <4>3 DEF Collected
          <5>2. ~ (Len(Fed.line) >= PrintMax)
            BY <1>0, <3>5, <4>3, FullLine DEF Plain
          <5>3. v[1] \in Byte
            BY <4>1 DEF Values
          <5> DEFINE l == Fed.line  x == v[1]
          <5> HIDE DEF l, x
          <5>4. /\ l \in Seq(Byte) /\ \A k \in 1 .. Len(l) : l[k] # 0 /\ ~ (Len(l) >= PrintMax)
                /\ x \in Byte /\ x # 0
            BY <4>3, <5>1, <5>2, <5>3 DEF l, x
          <5>5. /\ Append(l, x) \in Seq(Byte) /\ Len(Append(l, x)) <= PrintMax
                /\ \A k \in 1 .. Len(Append(l, x)) : Append(l, x)[k] # 0
            BY <5>4, LineAssumption
          <5>6. Xprintf(CString(Append(l, x))) = Append(l, x)
            BY <5>5, Prints
          <5> QED
            BY <5>6 DEF l, x
        <4> HIDE DEF e, t
        <4>7. ~ IsNewline(v) => Len(e) # LineMax
          <5>1. ~ IsNewline(v) => ~ (Len(e) >= PrintMax)
            BY <4>2, <4>4, <4>5, FullLine DEF Plain
          <5> QED
            BY <5>1, LineAssumption
        <4> QED
          BY <3>8, <3>10, <4>4, <4>6, <4>7
      <3> QED
        BY <3>9, <3>10
    <2> QED
      BY <2>3, <2>4
  <1>2. ASSUME NEW p \in Kinds, ProbeLoses(p) PROVE PrintInv'
    <2>1. losses' = losses + 1 /\ sent' = sent + 1 /\ text' = text
      BY <1>2 DEF ProbeLoses
    <2> QED
      BY <1>0, <2>1 DEF PrintInv
  <1>3. ASSUME ProcessAsync PROVE PrintInv'
    <2>1. Fed' = Fed
      BY <1>0, <1>3, CutFed
    <2>2. losses' = losses /\ sent' = sent /\ text' = text /\ clean' = clean
      BY <1>3 DEF ProcessAsync, target
    <2> QED
      BY <2>1, <2>2 DEF PrintInv
  <1>4. ASSUME Elsewhere PROVE PrintInv'
    <2>1. /\ pipe' = pipe /\ swv' = swv /\ losses' = losses /\ sent' = sent /\ text' = text
          /\ clean' = clean
      BY <1>4, ElsewhereUnchanged DEF target
    <2> QED
      BY <2>1 DEF PrintInv, Fed
  <1> QED
    BY <1>1, <1>2, <1>3, <1>4, NextSplits

\* While nothing is lost, all that the target writes to port 0 is printed, once and
\* in its order, up to the line that is still being collected, if each line with its
\* newline is short enough to be printed and no byte is zero (handle_swv_src, xprintf).
THEOREM TextPrinted == Spec => []Printed
  <1>1. PrintInv => Printed
    <2>1. SUFFICES ASSUME PrintInv, losses = 0, pipe = <<>>, ~ LongLine, ~ HasZero
                   PROVE  FlattenSeq(swv.printed) \o swv.line
                            = [i \in 1 .. Len(text) |-> text[i][1]]
      BY DEF Printed
    <2>2. Fed = swv
      BY <2>1, DecodeNothing DEF Fed
    <2>3. Plain(text)
      BY <2>1 DEF Plain, TooLong, LongLine, HasZero
    <2> QED
      BY <2>1, <2>2, <2>3 DEF PrintInv, Collected, Chars
  <1> QED
    BY <1>1, PrintInit, PrintStep, DecoderInvariance, PTL DEF Spec
==============================================================================
