---------------------------- MODULE GdbBridgeProofs ----------------------------
(***************************************************************************)
(* The bytes between gdb and the target.                                   *)
(*                                                                         *)
(* AhbMemory implements TargetMemory, for every size of memory, of wrap    *)
(* block and of the buffers of probes: a transaction never goes beyond the *)
(* block its first address is in (XferFits), so that the access port's     *)
(* i-th access is the call's i-th word (AccessInOrder), and it always      *)
(* makes progress, since a buffer has room for at least a word.            *)
(*                                                                         *)
(* Above it, what gdb writes is written byte for byte and what it reads is *)
(* what memory holds, for every address, length and contents (GdbMemory).  *)
(*                                                                         *)
(* The packets these come and go in stay within the bridge's buffers and   *)
(* are sent whole, for every size of buffer and every text, whatever is    *)
(* spoilt on the way (GdbLink, at the end).                                *)
(***************************************************************************)
EXTENDS GdbMemory, GdbLink, SequenceTheorems, WellFoundedInduction, TLAPS

IsAccepted(c) ==
    /\ c.op \in {"none", "read", "write"}
    /\ c.res \in {"none", "busy", "ok", "failed"}
    /\ c.addr \in Nat /\ c.words \in Nat /\ c.done \in Nat
    /\ c.addr + c.words <= Size
    /\ c.done <= c.words
    /\ c.op = "write" => c.data \in Seq(Values) /\ Len(c.data) = c.words
    /\ c = [op |-> c.op, addr |-> c.addr, words |-> c.words, data |-> c.data,
            done |-> c.done, res |-> c.res]

\* The inductive invariant: the call under way is within the memory, has the
\* data to be written, and is of one word if it is a single access.
AInv ==
    /\ mem \in [Memory!Addresses -> Values]
    /\ IsAccepted(call)
    /\ how \in {"single", "bulk"}
    /\ how = "single" => call.words = 1
    /\ inc \in BOOLEAN
    /\ sticky \in BOOLEAN

\* A remainder is less than what was divided by.
LEMMA Remainder == ASSUME NEW a \in Nat, NEW n \in Nat \ {0} PROVE a % n \in 0 .. n - 1
  OBVIOUS

\* A transaction transfers at least a word, no more than is left of the call,
\* and not beyond the wrap.
LEMMA XferFits ==
  ASSUME IsAccepted(call), Left > 0, NEW max \in BufferWords
  PROVE  /\ Xfer(max) \in 1 .. Left
         /\ (From % WrapWords) + Xfer(max) <= WrapWords
  <1>1. From \in Nat /\ Left \in Nat
    BY DEF IsAccepted, From, Left, Memory!From, Memory!Left
  <1>2. From % WrapWords \in 0 .. WrapWords - 1
    BY <1>1, AhbAssumption, Remainder
  <1>3. max \in Nat /\ max > Overhead /\ WrapWords \in Nat
    BY AhbAssumption
  <1> QED
    BY <1>1, <1>2, <1>3 DEF Xfer, Least, ToWrap, Overhead

\* What a transaction of n words is allowed to be.
IsLength(n) == /\ n \in 1 .. Left
               /\ how = "single" => n = 1
               /\ how = "bulk" => (From % WrapWords) + n <= WrapWords

LEMMA LengthsFit ==
  ASSUME AInv, Left > 0, NEW n \in Lengths
  PROVE  IsLength(n)
  <1>1. CASE how = "single"
    BY <1>1 DEF AInv, IsAccepted, Lengths, IsLength, Left, Memory!Left
  <1>2. CASE how = "bulk"
    <2>1. PICK max \in BufferWords : n = Xfer(max)
      BY <1>2 DEF Lengths
    <2> QED
      BY <1>2, <2>1, XferFits DEF AInv, IsLength
  <1> QED
    BY <1>1, <1>2 DEF AInv

\* The i-th access of a transaction goes to the i-th address from the first:
\* auto-increment is on if there is more than one, and never wraps.
LEMMA AccessInOrder ==
  ASSUME AInv, NEW n \in Nat, IsLength(n), NEW i \in 0 .. n - 1
  PROVE  Access(From, i, Inc) = From + i
  <1>1. From \in Nat /\ Left \in Nat
    BY DEF AInv, IsAccepted, From, Left, Memory!From, Memory!Left
  <1>2. CASE how = "single"
    <2>1. i = 0
      BY <1>2 DEF IsLength
    <2>2. (From % WrapWords) + 0 < WrapWords
      BY <1>1, AhbAssumption, Remainder
    <2> QED
      BY <1>1, <2>1, <2>2 DEF Access
  <1>3. CASE how = "bulk"
    <2>1. Inc = TRUE
      BY <1>3 DEF Inc
    <2>2. From % WrapWords \in Nat
      BY <1>1, AhbAssumption, Remainder
    <2>3. (From % WrapWords) + i < WrapWords
      BY <1>3, <2>2, AhbAssumption DEF IsLength
    <2> QED
      BY <2>1, <2>3 DEF Access
  <1> QED
    BY <1>2, <1>3 DEF AInv

\* A prefix of a transaction is a transaction.
LEMMA ShorterFits ==
  ASSUME AInv, NEW n \in Nat, IsLength(n), NEW k \in 1 .. n
  PROVE  IsLength(k)
  <1>1. From \in Nat /\ Left \in Nat
    BY DEF AInv, IsAccepted, From, Left, Memory!From, Memory!Left
  <1>2. From % WrapWords \in Nat /\ WrapWords \in Nat
    BY <1>1, AhbAssumption, Remainder
  <1> QED
    BY <1>1, <1>2 DEF IsLength

\* The words written are those of the abstract memory's step.
LEMMA StoredIsWritten ==
  ASSUME AInv, NEW n \in Nat, IsLength(n)
  PROVE  Stored(n, Inc) = Memory!Written(n)
  <1>1. From \in Nat /\ From = call.addr + call.done /\ call.addr \in Nat /\ call.done \in Nat
    BY DEF AInv, IsAccepted, From, Memory!From
  <1> SUFFICES ASSUME NEW a \in Memory!Addresses
               PROVE  Stored(n, Inc)[a] = Memory!Written(n)[a]
    BY DEF Stored, Memory!Written
  <1>2. a \in Int
    BY AhbAssumption DEF Memory!Addresses
  <1>3. \A i \in 0 .. n - 1 : Access(From, i, Inc) = a <=> i = a - From
    BY <1>1, <1>2, AccessInOrder
  <1>4. CASE a \in From .. From + n - 1
    <2>1. a - From \in 0 .. n - 1
      BY <1>1, <1>2, <1>4
    <2>2. (CHOOSE i \in 0 .. n - 1 : Access(From, i, Inc) = a) = a - From
      BY <1>3, <2>1
    <2>3. Stored(n, Inc)[a] = call.data[call.done + 1 + (a - From)]
      BY <1>3, <2>1, <2>2 DEF Stored
    <2>4. call.done + 1 + (a - From) = a - call.addr + 1
      BY <1>1, <1>2
    <2> QED
      BY <1>4, <2>3, <2>4 DEF Memory!Written, From
  <1>5. CASE a \notin From .. From + n - 1
    <2>1. a - From \notin 0 .. n - 1
      BY <1>1, <1>2, <1>5
    <2>2. Stored(n, Inc)[a] = mem[a]
      BY <1>3, <2>1 DEF Stored
    <2> QED
      BY <1>5, <2>2 DEF Memory!Written, From
  <1> QED
    BY <1>4, <1>5

\* The words read are those in memory: with one result discarded, each read
\* has the result of the access meant for it.
LEMMA FetchedIsRead ==
  ASSUME AInv, NEW n \in Nat, IsLength(n)
  PROVE  Fetched(n, Inc) = [i \in 1 .. n |-> mem[From + i - 1]]
  <1>1. From \in Nat
    BY DEF AInv, IsAccepted, From, Memory!From
  <1> SUFFICES ASSUME NEW i \in 1 .. n
               PROVE  Fetched(n, Inc)[i] = mem[From + i - 1]
    BY DEF Fetched
  <1>2. i + Discarded - 2 = i - 1 /\ i - 1 \in 0 .. n - 1 /\ ~(i + Discarded < 2)
    BY DEF Discarded
  <1>3. Access(From, i - 1, Inc) = From + i - 1
    <2>1. Access(From, i - 1, Inc) = From + (i - 1)
      BY <1>2, AccessInOrder
    <2> QED
      BY <1>1, <2>1
  <1> QED
    BY <1>2, <1>3 DEF Fetched

-----------------------------------------------------------------------------
\* What is stored is of the right type.
LEMMA StoredType ==
  ASSUME AInv, NEW n \in Nat, IsLength(n), call.op = "write"
  PROVE  Stored(n, Inc) \in [Memory!Addresses -> Values]
  <1> SUFFICES ASSUME NEW a \in Memory!Addresses
               PROVE  Memory!Written(n)[a] \in Values
    BY StoredIsWritten DEF Memory!Written
  <1>1. /\ call.addr \in Nat /\ call.done \in Nat /\ call.words \in Nat
        /\ From = call.addr + call.done /\ Memory!From = From
        /\ Left = call.words - call.done
        /\ call.data \in Seq(Values) /\ Len(call.data) = call.words
    BY DEF AInv, IsAccepted, From, Memory!From, Left, Memory!Left
  <1>2. a \in Int
    BY AhbAssumption DEF Memory!Addresses
  <1>3. CASE a \in From .. From + n - 1
    <2>1. n \in 1 .. Left
      BY DEF IsLength
    <2>2. a - call.addr + 1 \in 1 .. call.words
      <3> DEFINE addr == call.addr  done == call.done  words == call.words
      <3>1. /\ addr \in Nat /\ done \in Nat /\ words \in Nat
            /\ n \in 1 .. words - done /\ a \in addr + done .. addr + done + n - 1
        BY <1>1, <1>3, <2>1
      <3> HIDE DEF addr, done, words
      <3>2. a - addr + 1 \in 1 .. words
        BY <1>2, <3>1
      <3> QED
        BY <3>2 DEF addr, words
    <2> QED
      BY <1>1, <1>3, <2>2, ElementOfSeq DEF Memory!Written
  <1>4. CASE a \notin From .. From + n - 1
    BY <1>1, <1>4 DEF Memory!Written, AInv
  <1> QED
    BY <1>3, <1>4

\* Writing nothing changes nothing.
LEMMA StoredNothing == ASSUME AInv PROVE Stored(0, Inc) = mem
  BY DEF Stored, AInv

-----------------------------------------------------------------------------
\* The abstract memory's calls are accepted, and succeed in what they promise.
LEMMA CallAccepted == ASSUME NEW c, Memory!IsCall(c) PROVE IsAccepted(c) /\ c.done = 0
  <1>1. CASE c = Memory!ReadCall(c.addr, c.words)
    BY <1>1 DEF Memory!IsCall, IsAccepted, Memory!ReadCall
  <1>2. CASE c.data \in Seq(Values) /\ c = Memory!WriteCall(c.addr, c.data)
    BY <1>2 DEF Memory!IsCall, IsAccepted, Memory!WriteCall
  <1> QED
    BY <1>1, <1>2 DEF Memory!IsCall

LEMMA TypeInit == AInit => AInv
  <1> SUFFICES ASSUME AInit PROVE AInv
    OBVIOUS
  <1>1. IsAccepted(call)
    BY AhbAssumption DEF AInit, IsAccepted, Memory!NoCall
  <1> QED
    BY <1>1 DEF AInit, AInv

\* Every step keeps the invariant and is a step of the abstract memory, in
\* which no contents are lost.
Kept == \/ Memory!Start \/ Memory!Transfer \/ Memory!Succeed \/ Memory!Fail
        \/ UNCHANGED <<mem, call>>

StepOk == AInv' /\ Kept

LEMMA StartOk ==
  ASSUME AInv, Memory!IsCall(call'), NEW h \in {"single", "bulk"}, Start(call', h)
  PROVE  StepOk
  <1>1. IsAccepted(call')
    BY CallAccepted
  <1>2. AInv'
    BY <1>1 DEF AInv, Start, Memory!Addresses
  <1>3. Memory!Start
    BY DEF Start, Memory!Start
  <1> QED
    BY <1>2, <1>3 DEF StepOk, Kept

LEMMA IncAfterType == ASSUME AInv, NEW n PROVE IncAfter(n) \in BOOLEAN
  <1>1. (n < Left) \in BOOLEAN
    BY SMT
  <1> QED
    BY <1>1, Zenon DEF IncAfter, AInv

LEMMA ReadDoneOk == ASSUME AInv, ReadDone PROVE StepOk
  <1>1. Left > 0 /\ call.op = "read" /\ call.res = "busy"
    BY DEF ReadDone, Busy
  <1>2. PICK n \in Lengths :
          /\ call' = [call EXCEPT !.done = @ + n, !.data = @ \o Fetched(n, Inc)]
          /\ inc' = IncAfter(n)
    BY DEF ReadDone
  <1>3. UNCHANGED <<mem, how, sticky>>
    BY DEF ReadDone
  <1>4. IsLength(n) /\ n \in 1 .. Left
    BY <1>1, LengthsFit DEF IsLength
  <1>5. Left \in Nat /\ n \in Nat
    BY <1>4 DEF AInv, IsAccepted, Left, Memory!Left
  <1>6. IsAccepted(call')
    <2>1. call' = [op |-> call.op, addr |-> call.addr, words |-> call.words,
                   data |-> call.data \o Fetched(n, Inc), done |-> call.done + n,
                   res |-> call.res]
      BY <1>2, Zenon DEF AInv, IsAccepted
    <2> QED
      BY <1>1, <1>4, <2>1 DEF AInv, IsAccepted, Left, Memory!Left
  <1>7. inc' \in BOOLEAN
    BY <1>2, IncAfterType
  <1>8. AInv'
    BY <1>2, <1>3, <1>6, <1>7 DEF AInv, IsAccepted, Memory!Addresses
  <1>9. Memory!Read(n)
    BY <1>1, <1>2, <1>3, <1>4, <1>5, FetchedIsRead DEF Memory!Read, From
  <1> QED
    BY <1>1, <1>4, <1>8, <1>9 DEF StepOk, Kept, Memory!Transfer, Left

LEMMA WriteDoneOk == ASSUME AInv, WriteDone PROVE StepOk
  <1>1. Left > 0 /\ call.op = "write" /\ call.res = "busy"
    BY DEF WriteDone, Busy
  <1>2. PICK n \in Lengths :
          /\ mem' = Stored(n, Inc)
          /\ call' = [call EXCEPT !.done = @ + n]
          /\ inc' = IncAfter(n)
    BY DEF WriteDone
  <1>3. UNCHANGED <<how, sticky>>
    BY DEF WriteDone
  <1>4. IsLength(n) /\ n \in 1 .. Left
    BY <1>1, LengthsFit DEF IsLength
  <1>5. Left \in Nat /\ n \in Nat
    BY <1>4 DEF AInv, IsAccepted, Left, Memory!Left
  <1>6. IsAccepted(call')
    BY <1>1, <1>2, <1>4 DEF AInv, IsAccepted, Left, Memory!Left
  <1>7. inc' \in BOOLEAN
    BY <1>2, IncAfterType
  <1>8. mem' \in [Memory!Addresses -> Values]
    BY <1>1, <1>2, <1>4, <1>5, StoredType
  <1>9. AInv'
    BY <1>2, <1>3, <1>6, <1>7, <1>8 DEF AInv, IsAccepted, Memory!Addresses
  <1>10. Memory!Write(n)
    BY <1>1, <1>2, <1>4, <1>5, StoredIsWritten DEF Memory!Write
  <1> QED
    BY <1>1, <1>4, <1>9, <1>10 DEF StepOk, Kept, Memory!Transfer, Left

\* What a failed transaction leaves, having written some of its words or none.
LEMMA FailedOk ==
  ASSUME AInv, call.res = "busy", NEW m, Failed(m),
         \/ m = mem
         \/ call.op = "write" /\ \E k \in 1 .. Left : IsLength(k) /\ m = Stored(k, Inc)
  PROVE  StepOk
  <1>1. /\ mem' = m
        /\ inc' \in BOOLEAN /\ sticky' \in BOOLEAN
        /\ call' = [call EXCEPT !.res = "failed"]
        /\ how' = how
    BY DEF Failed, AInv
  <1>2. IsAccepted(call')
    BY <1>1 DEF AInv, IsAccepted
  <1>3. mem' \in [Memory!Addresses -> Values]
    BY <1>1, StoredType DEF AInv, IsLength
  <1>4. AInv'
    BY <1>1, <1>2, <1>3 DEF AInv, IsAccepted, Memory!Addresses
  <1>5. Memory!Fail
    <2>1. CASE m = mem
      BY <1>1, <2>1 DEF Memory!Fail
    <2>2. CASE call.op = "write" /\ \E k \in 1 .. Left : IsLength(k) /\ m = Stored(k, Inc)
      <3>1. PICK k \in 1 .. Left : IsLength(k) /\ m = Stored(k, Inc)
        BY <2>2
      <3>2. m = Memory!Written(k)
        BY <3>1, StoredIsWritten
      <3> QED
        BY <1>1, <2>2, <3>1, <3>2 DEF Memory!Fail, Left
    <2> QED
      BY <2>1, <2>2
  <1> QED
    BY <1>4, <1>5 DEF StepOk, Kept

LEMMA ReadFailsOk == ASSUME AInv, ReadFails PROVE StepOk
  BY FailedOk DEF ReadFails, Busy

LEMMA WriteFailsOk == ASSUME AInv, WriteFails PROVE StepOk
  <1>1. call.res = "busy" /\ call.op = "write" /\ Left > 0
    BY DEF WriteFails, Busy
  <1>2. CASE sticky
    BY <1>1, <1>2, FailedOk DEF WriteFails
  <1>3. CASE ~sticky
    <2>1. PICK n \in Lengths : \E k \in 0 .. n : Failed(Stored(k, Inc))
      BY <1>3 DEF WriteFails
    <2>2. IsLength(n) /\ n \in 1 .. Left
      BY <1>1, <2>1, LengthsFit DEF IsLength
    <2>3. PICK k \in 0 .. n : Failed(Stored(k, Inc))
      BY <2>1
    <2>4. Left \in Nat /\ n \in Nat
      BY <2>2 DEF AInv, IsAccepted, Left, Memory!Left
    <2>5. CASE k = 0
      BY <1>1, <2>3, <2>5, StoredNothing, FailedOk
    <2>6. CASE k \in 1 .. n
      <3>1. IsLength(k) /\ k \in 1 .. Left
        BY <2>2, <2>4, <2>6, ShorterFits
      <3> QED
        BY <1>1, <2>3, <3>1, FailedOk
    <2> QED
      BY <2>3, <2>4, <2>5, <2>6
  <1> QED
    BY <1>2, <1>3

LEMMA ReturnOk == ASSUME AInv, Return PROVE StepOk
  <1>1. IsAccepted(call')
    BY DEF Return, AInv, IsAccepted
  <1>2. AInv'
    BY <1>1 DEF Return, AInv, IsAccepted, Memory!Addresses
  <1>3. Memory!Succeed
    BY DEF Return, Memory!Succeed, Left
  <1> QED
    BY <1>2, <1>3 DEF StepOk, Kept

LEMMA ClearErrorOk == ASSUME AInv, ClearError PROVE StepOk
  BY DEF ClearError, StepOk, Kept, AInv, IsAccepted, Memory!Addresses

LEMMA StepsOk == AInv /\ [ANext]_avars => StepOk
  <1> SUFFICES ASSUME AInv, [ANext]_avars PROVE StepOk
    OBVIOUS
  <1>1. CASE Memory!IsCall(call') /\ \E h \in {"single", "bulk"} : Start(call', h)
    BY <1>1, StartOk
  <1>2. CASE Transaction
    BY <1>2, ReadDoneOk, WriteDoneOk, ReadFailsOk, WriteFailsOk, ReturnOk DEF Transaction
  <1>3. CASE ClearError
    BY <1>3, ClearErrorOk
  <1>4. CASE UNCHANGED avars
    BY <1>4 DEF avars, StepOk, Kept, AInv, IsAccepted, Memory!Addresses
  <1> QED
    BY <1>1, <1>2, <1>3, <1>4 DEF ANext

\* Every call under way is one the code was given and is within the memory.
THEOREM TypeCorrect == ASpec => []AInv
  <1>1. AInv /\ [ANext]_avars => AInv'
    BY StepsOk DEF StepOk
  <1> QED
    BY TypeInit, <1>1, PTL DEF ASpec

\* A call that succeeds has transferred its words, each from or to its own
\* address, and nothing else (_swdp_ahb_read32, _swdp_ahb_write32 and the single
\* accesses), however it was cut into transactions.
THEOREM Refinement == ASpec => ImplementsMemory
  <1>1. AInit => Memory!Init
    BY DEF AInit, Memory!Init
  <1>2. AInv /\ [ANext]_avars => [Memory!Next]_<<mem, call>>
    BY StepsOk DEF StepOk, Kept, Memory!Next
  <1> QED
    BY <1>1, <1>2, TypeCorrect, PTL DEF ASpec, ImplementsMemory, Memory!Spec

-----------------------------------------------------------------------------
(* The bridge above it.                                                    *)

Stages == {"idle", "fetch", "reply", "head", "body", "tail", "merge", "wait", "done"}

\* Where no call is under way.
Quiet == {"idle", "fetch", "head", "body", "tail", "done"}

CommandRecords == [op : {"none", "m", "M"}, addr : Nat, len : Nat, at : Nat, data : Seq(Bytes)]

\* The command is within the memory; what is left to write is what belongs at
\* the address the bridge has got to.
CommandOk ==
    /\ gdb \in CommandRecords
    /\ gdb.op = "m" => (gdb.addr \div 4) + WordsFetched(gdb) <= Size
    /\ gdb.op = "M" =>
        /\ gdb.addr <= gdb.at
        /\ gdb.at + Len(gdb.data) = gdb.addr + gdb.len
        /\ gdb.addr + gdb.len <= Limit
        /\ \A i \in 1 .. Len(gdb.data) : gdb.data[i] = Sent[(gdb.at - gdb.addr) + i]

\* The call under way is the one the stage is about.
StageOk ==
    /\ stage \in Stages
    /\ stage \in Quiet => call.res # "busy"
    /\ stage = "fetch" => gdb.op = "m"
    /\ stage = "reply" => /\ gdb.op = "m" /\ call.op = "read"
                          /\ call.addr = gdb.addr \div 4 /\ call.words = WordsFetched(gdb)
    /\ stage \in {"head", "tail", "merge"} => gdb.op = "M" /\ Len(gdb.data) > 0
    /\ stage = "merge" => call.op = "read" /\ call.addr = gdb.at \div 4 /\ call.words = 1
    /\ stage = "body" => gdb.op = "M" /\ gdb.at % 4 = 0
    /\ stage = "wait" => gdb.op = "M" /\ call.op = "write"
    /\ stage = "done" /\ gdb.op = "M" => Len(gdb.data) = 0

\* A call that succeeds is complete, and a read has what is in memory.
CallOk ==
    /\ call.res = "ok" => call.done = call.words
    /\ call.op = "read" /\ call.res \in {"busy", "ok"} =>
           call.data = [i \in 1 .. call.done |-> mem[call.addr + i - 1]]

\* What byte b of word a is to be in the end.
Want(a, b) == IF InRange(4 * a + b) THEN Sent[((4 * a + b) - gdb.addr) + 1] ELSE before[a][b]

\* The bytes not yet handed to a call, and the words the call has yet to write.
Ahead(k) == gdb.at <= k /\ k < gdb.addr + gdb.len
Pending(a) == stage = "wait" /\ From <= a /\ a < call.addr + call.words

Outside == \A a \in Memory!Addresses, b \in Offsets :
    ~InRange(4 * a + b) => mem[a][b] = before[a][b]

Behind == \A a \in Memory!Addresses, b \in Offsets :
    ~Ahead(4 * a + b) /\ ~Pending(a) => mem[a][b] = Want(a, b)

Carried == \A j \in 1 .. call.words, b \in Offsets :
    /\ ~Ahead(4 * (call.addr + j - 1) + b)
    /\ call.data[j][b] = Want(call.addr + j - 1, b)

\* As long as the calls succeed every byte is what it is to be, but for those
\* ahead and those of the write under way, and that write carries the right ones.
WriteOk ==
    gdb.op = "M" /\ good =>
        /\ Outside
        /\ (stage = "wait" => call.res # "failed") => Behind
        /\ stage = "wait" => Carried

Typed == x \in Values /\ good \in BOOLEAN

\* The inductive invariant of the bridge.
GInv == AInv /\ CommandOk /\ StageOk /\ CallOk /\ WriteOk /\ Typed /\ ReadReturns

-----------------------------------------------------------------------------
\* The bytes of a word, and the words of a run of bytes.
LEMMA WordOfByte == ASSUME NEW k \in Nat
                    PROVE  k \div 4 \in Nat /\ k % 4 \in 0 .. 3 /\ k = 4 * (k \div 4) + (k % 4)
  OBVIOUS

LEMMA ByteOfWord == ASSUME NEW q \in Nat, NEW j \in Nat
                    PROVE  /\ (4 * q + j) \div 4 = q + (j \div 4)
                           /\ (4 * q + j) % 4 = j % 4
  OBVIOUS

\* The initial state.
LEMMA GInitOk == GInit => GInv
  <1> SUFFICES ASSUME GInit PROVE GInv
    OBVIOUS
  <1>1. mem \in [Memory!Addresses -> Values]
    BY GdbMemoryAssumption DEF GInit
  <1>2. AInv
    <2>1. IsAccepted(call)
      BY AhbAssumption DEF GInit, IsAccepted, Memory!NoCall
    <2> QED
      BY <1>1, <2>1 DEF GInit, AInv
  <1>3. GarbageWord \in Values
    BY GdbMemoryAssumption DEF GarbageWord
  <1>4. gdb \in CommandRecords /\ gdb.op = "none"
    BY DEF GInit, NoCommand, CommandRecords
  <1>5. CommandOk /\ WriteOk
    BY <1>4 DEF CommandOk, WriteOk
  <1>6. StageOk /\ CallOk
    BY DEF GInit, StageOk, CallOk, Stages, Quiet, Memory!NoCall, NoCommand
  <1>7. Typed /\ ReadReturns
    BY <1>3 DEF GInit, Typed, ReadReturns, Answered
  <1> QED
    BY <1>2, <1>5, <1>6, <1>7 DEF GInv

-----------------------------------------------------------------------------
(* Beginning a command.                                                    *)

LEMMA BeginReadOk ==
  ASSUME GInv, NEW a \in 0 .. Limit - 1, NEW n \in 0 .. Limit, BeginRead(a, n)
  PROVE  GInv' /\ Kept
  <1> DEFINE cmd == [op |-> "m", addr |-> a, len |-> n, at |-> 0, data |-> <<>>]
  <1>1. (a \div 4) + WordsFetched(cmd) <= Size /\ Begin(cmd, "fetch")
    BY DEF BeginRead
  <1>2. /\ gdb' = cmd /\ stage' = "fetch" /\ good' = TRUE /\ x' = GarbageWord
        /\ call.res # "busy" /\ UNCHANGED <<mem, call, how>>
        /\ ClearError
    BY <1>1 DEF Begin, ClearError
  <1>3. AInv' /\ Kept
    BY <1>2, ClearErrorOk DEF GInv, StepOk
  <1>4. a \in Nat /\ n \in Nat
    BY AhbAssumption DEF Limit
  <1>6. gdb' \in CommandRecords /\ gdb'.op = "m"
    BY <1>2, <1>4 DEF CommandRecords
  <1>7. CommandOk' /\ WriteOk'
    BY <1>1, <1>2, <1>6 DEF CommandOk, WriteOk, WordsFetched
  <1>8. StageOk'
    BY <1>2, <1>6 DEF StageOk, Stages, Quiet
  <1>9. CallOk'
    BY <1>2 DEF GInv, CallOk
  <1>10. Typed' /\ ReadReturns'
    BY <1>2, GdbMemoryAssumption DEF Typed, GarbageWord, ReadReturns, Answered
  <1> QED
    BY <1>3, <1>7, <1>8, <1>9, <1>10 DEF GInv

LEMMA PhaseOk ==
  ASSUME NEW a, NEW n \in Nat
  PROVE  /\ Phase(a, n) \in {"head", "body", "tail", "done"}
         /\ Phase(a, n) \in {"head", "tail"} => n > 0
         /\ Phase(a, n) = "body" => a % 4 = 0
         /\ Phase(a, n) = "done" => n = 0
  BY DEF Phase

LEMMA BeginWriteOk ==
  ASSUME GInv, NEW a \in 0 .. Limit - 1, NEW n \in 0 .. Limit, BeginWrite(a, n)
  PROVE  GInv' /\ Kept
  <1> DEFINE d == [i \in 1 .. n |-> Sent[i]]
             cmd == [op |-> "M", addr |-> a, len |-> n, at |-> a, data |-> d]
  <1>1. a + n <= Limit /\ Begin(cmd, Phase(a, n))
    BY DEF BeginWrite
  <1>2. /\ gdb' = cmd /\ stage' = Phase(a, n) /\ good' = TRUE /\ x' = GarbageWord
        /\ before' = mem
        /\ call.res # "busy" /\ UNCHANGED <<mem, call, how>>
        /\ ClearError
    BY <1>1 DEF Begin, ClearError
  <1>3. AInv' /\ Kept
    BY <1>2, ClearErrorOk DEF GInv, StepOk
  <1>4. a \in Nat /\ n \in Nat /\ n <= Limit
    BY AhbAssumption DEF Limit
  <1>5. d \in Seq(Bytes) /\ Len(d) = n
    <2>1. \A i \in 1 .. n : Sent[i] \in Bytes
      <3>1. \A i \in 1 .. n : i \in 1 .. Limit
        BY <1>4, AhbAssumption DEF Limit
      <3> QED
        BY <3>1, GdbMemoryAssumption
    <2> QED
      BY <1>4, <2>1
  <1>6. gdb' \in CommandRecords /\ gdb'.op = "M"
    BY <1>2, <1>4, <1>5 DEF CommandRecords
  <1>7. /\ gdb'.addr = a /\ gdb'.len = n /\ gdb'.at = a /\ gdb'.data = d
    BY <1>2
  <1>8. \A i \in 1 .. n : d[i] = Sent[(a - a) + i]
    BY <1>4
  <1> HIDE DEF d, cmd
  <1>9. CommandOk'
    BY <1>1, <1>4, <1>5, <1>6, <1>7, <1>8 DEF CommandOk
  <1>10. StageOk'
    BY <1>2, <1>4, <1>5, <1>6, <1>7, PhaseOk DEF StageOk, Stages, Quiet
  <1>11. CallOk'
    BY <1>2 DEF GInv, CallOk
  <1>12. Typed' /\ ReadReturns'
    BY <1>2, <1>6, GdbMemoryAssumption DEF Typed, GarbageWord, ReadReturns, Answered
  <1>13. WriteOk'
    <2>1. stage' # "wait"
      BY <1>2, <1>4, PhaseOk
    <2>2. Outside'
      BY <1>2 DEF Outside
    <2>3. Behind'
      <3> SUFFICES ASSUME NEW w \in Memory!Addresses, NEW b \in Offsets,
                          ~Ahead(4 * w + b)'
                   PROVE  mem'[w][b] = Want(w, b)'
        BY DEF Behind, Memory!Addresses
      <3>1. ~InRange(4 * w + b)'
        BY <1>7 DEF Ahead, InRange
      <3> QED
        BY <1>2, <3>1 DEF Want
    <2> QED
      BY <2>1, <2>2, <2>3 DEF WriteOk
  <1> QED
    BY <1>3, <1>9, <1>10, <1>11, <1>12, <1>13 DEF GInv

-----------------------------------------------------------------------------
(* Starting a call.                                                        *)

\* A call within the memory is one the transport accepts.
LEMMA StartedOk ==
  ASSUME GInv, NEW c, NEW h \in {"single", "bulk"}, Start(c, h), Memory!IsCall(c)
  PROVE  /\ AInv' /\ Kept
         /\ call' = c /\ mem' = mem
  <1>1. call' = c /\ mem' = mem
    BY DEF Start
  <1>2. Start(call', h)
    BY <1>1 DEF Start
  <1> QED
    BY <1>1, <1>2, StartOk DEF GInv, StepOk

LEMMA ReadIsCall ==
  ASSUME NEW a \in Nat, NEW n \in Nat, a + n <= Size
  PROVE  Memory!IsCall(Memory!ReadCall(a, n))
  BY DEF Memory!IsCall, Memory!ReadCall

LEMMA WriteIsCall ==
  ASSUME NEW a \in Nat, NEW d \in Seq(Values), a + Len(d) <= Size
  PROVE  Memory!IsCall(Memory!WriteCall(a, d))
  BY DEF Memory!IsCall, Memory!WriteCall

LEMMA FetchOk == ASSUME GInv, Fetch PROVE GInv' /\ Kept
  <1> DEFINE a == gdb.addr \div 4
             n == WordsFetched(gdb)
  <1>1. /\ stage = "fetch" /\ stage' = "reply"
        /\ Start(Memory!ReadCall(a, n), "bulk")
        /\ UNCHANGED <<gdb, x, reply, before, good, cmds>>
    BY DEF Fetch
  <1>2. gdb.op = "m" /\ gdb.addr \in Nat /\ gdb.len \in Nat /\ a + n <= Size
    BY <1>1 DEF GInv, StageOk, CommandOk, CommandRecords
  <1>3. a \in Nat /\ n \in Nat
    BY <1>2 DEF WordsFetched
  <1>4. Memory!IsCall(Memory!ReadCall(a, n))
    BY <1>2, <1>3, ReadIsCall
  <1>5. AInv' /\ Kept /\ call' = Memory!ReadCall(a, n) /\ mem' = mem
    BY <1>1, <1>4, StartedOk
  <1>6. CommandOk' /\ Typed' /\ WriteOk' /\ ReadReturns'
    BY <1>1, <1>2 DEF GInv, CommandOk, Typed, WriteOk, ReadReturns, Answered, WordsFetched
  <1>7. StageOk'
    BY <1>1, <1>2, <1>5 DEF StageOk, Stages, Quiet, Memory!ReadCall, WordsFetched
  <1>8. CallOk'
    BY <1>5 DEF CallOk, Memory!ReadCall
  <1> QED
    BY <1>5, <1>6, <1>7, <1>8 DEF GInv

\* While no call writes, nothing that was right becomes wrong.
LEMMA WriteKept ==
  ASSUME GInv, stage # "wait", stage' # "wait", UNCHANGED <<mem, gdb, before, good>>
  PROVE  WriteOk'
  <1>1. Outside => Outside'
    BY DEF Outside, InRange, Memory!Addresses
  <1>2. Behind => Behind'
    BY DEF Behind, Ahead, Pending, Want, InRange, Memory!Addresses
  <1> QED
    BY <1>1, <1>2 DEF GInv, WriteOk

LEMMA ReadSharedOk == ASSUME GInv, ReadShared PROVE GInv' /\ Kept
  <1> DEFINE a == gdb.at \div 4
  <1>1. /\ stage \in {"head", "tail"} /\ stage' = "merge"
        /\ Start(Memory!ReadCall(a, 1), "single")
        /\ UNCHANGED <<gdb, x, reply, before, good, cmds>>
    BY DEF ReadShared
  <1>2. /\ gdb.op = "M" /\ gdb.at \in Nat /\ gdb.addr \in Nat /\ gdb.len \in Nat
        /\ Len(gdb.data) > 0 /\ gdb.data \in Seq(Bytes)
        /\ gdb.at + Len(gdb.data) = gdb.addr + gdb.len /\ gdb.addr + gdb.len <= 4 * Size
    BY <1>1 DEF GInv, StageOk, CommandOk, CommandRecords, Limit
  <1>3. a \in Nat /\ a + 1 <= Size
    <2>1. gdb.at < 4 * Size
      BY <1>2, AhbAssumption
    <2> QED
      BY <1>2, <2>1, AhbAssumption
  <1>4. Memory!IsCall(Memory!ReadCall(a, 1))
    BY <1>3, ReadIsCall
  <1>5. AInv' /\ Kept /\ call' = Memory!ReadCall(a, 1) /\ mem' = mem
    BY <1>1, <1>4, StartedOk
  <1>6. CommandOk' /\ Typed' /\ ReadReturns'
    BY <1>1, <1>2 DEF GInv, CommandOk, Typed, ReadReturns, Answered, WordsFetched
  <1>7. WriteOk'
    BY <1>1, <1>5, WriteKept
  <1>8. StageOk'
    BY <1>1, <1>2, <1>5 DEF StageOk, Stages, Quiet, Memory!ReadCall
  <1>9. CallOk'
    BY <1>5 DEF CallOk, Memory!ReadCall
  <1> QED
    BY <1>5, <1>6, <1>7, <1>8, <1>9 DEF GInv

-----------------------------------------------------------------------------
(* Handing bytes to a write.                                               *)

\* What is left after the first k bytes are taken is what belongs there.
LEMMA TakenOk ==
  ASSUME CommandOk, gdb.op = "M", NEW k \in 0 .. Len(gdb.data), gdb' = Taken(k)
  PROVE  /\ CommandOk'
         /\ gdb'.op = "M" /\ gdb'.addr = gdb.addr /\ gdb'.len = gdb.len
         /\ gdb'.at = gdb.at + k
         /\ Len(gdb'.data) = Len(gdb.data) - k
  <1> DEFINE d == SubSeq(gdb.data, k + 1, Len(gdb.data))
  <1>1. gdb \in CommandRecords
    BY DEF CommandOk
  <1>2. gdb.data \in Seq(Bytes) /\ gdb.at \in Nat /\ gdb.addr \in Nat /\ gdb.len \in Nat /\ k \in Nat
    BY <1>1 DEF CommandRecords
  <1>3. d \in Seq(Bytes) /\ Len(d) = Len(gdb.data) - k
    BY <1>2
  <1>4. \A i \in 1 .. Len(d) : d[i] = gdb.data[k + i]
    BY <1>2, <1>3
  <1>5. /\ gdb'.op = "M" /\ gdb'.addr = gdb.addr /\ gdb'.len = gdb.len
        /\ gdb'.at = gdb.at + k /\ gdb'.data = d
    BY <1>1 DEF Taken, CommandRecords
  <1>6. gdb' = [op |-> gdb.op, addr |-> gdb.addr, len |-> gdb.len, at |-> gdb.at + k, data |-> d]
    BY <1>1 DEF Taken, CommandRecords
  <1> HIDE DEF d
  <1>7. gdb' \in CommandRecords
    BY <1>1, <1>2, <1>3, <1>6 DEF CommandRecords
  <1>8. /\ gdb.addr <= gdb.at
        /\ gdb.at + Len(gdb.data) = gdb.addr + gdb.len
        /\ gdb.addr + gdb.len <= Limit
        /\ \A i \in 1 .. Len(gdb.data) : gdb.data[i] = Sent[(gdb.at - gdb.addr) + i]
    BY DEF CommandOk
  <1>9. \A i \in 1 .. Len(d) : d[i] = Sent[((gdb.at + k) - gdb.addr) + i]
    <2> SUFFICES ASSUME NEW i \in 1 .. Len(d) PROVE d[i] = Sent[((gdb.at + k) - gdb.addr) + i]
      OBVIOUS
    <2>1. k + i \in 1 .. Len(gdb.data)
      BY <1>2, <1>3
    <2>2. d[i] = Sent[(gdb.at - gdb.addr) + (k + i)]
      BY <1>4, <1>8, <2>1
    <2>3. (gdb.at - gdb.addr) + (k + i) = ((gdb.at + k) - gdb.addr) + i
      BY <1>2
    <2> QED
      BY <2>2, <2>3
  <1>10. /\ gdb.addr <= gdb.at + k
         /\ (gdb.at + k) + Len(d) = gdb.addr + gdb.len
    <2> DEFINE at == gdb.at  addr == gdb.addr  n == Len(gdb.data)
    <2>1. at \in Nat /\ addr \in Nat /\ n \in Nat /\ addr <= at /\ at + n = addr + gdb.len
      BY <1>2, <1>8
    <2> HIDE DEF at, addr, n
    <2>2. addr <= at + k /\ (at + k) + (n - k) = addr + gdb.len
      BY <1>2, <2>1
    <2> QED
      BY <1>3, <2>2 DEF at, addr, n
  <1>11. CommandOk'
    <2>1. \A i \in 1 .. Len(gdb'.data) : gdb'.data[i] = Sent[(gdb'.at - gdb'.addr) + i]
      <3>1. gdb'.data = d /\ gdb'.at = gdb.at + k /\ gdb'.addr = gdb.addr
        BY <1>5
      <3> TAKE i \in 1 .. Len(gdb'.data)
      <3>2. i \in 1 .. Len(d)
        BY <3>1
      <3>3. d[i] = Sent[((gdb.at + k) - gdb.addr) + i]
        BY <1>9, <3>2, Zenon
      <3> QED
        BY <3>1, <3>3, Zenon
    <2>2. /\ gdb'.addr <= gdb'.at
          /\ gdb'.at + Len(gdb'.data) = gdb'.addr + gdb'.len
          /\ gdb'.addr + gdb'.len <= Limit
      BY <1>5, <1>8, <1>10
    <2>3. gdb'.op # "m"
      BY <1>5
    <2> QED
      BY <1>7, <2>1, <2>2, <2>3, Zenon DEF CommandOk, Limit
  <1> QED
    BY <1>3, <1>5, <1>11

\* The bytes of the shared word that gdb writes are replaced, the others stay.
LEMMA MergeOk ==
  ASSUME NEW w \in Values, NEW off \in Offsets, NEW d \in Seq(Bytes)
  PROVE  Merge(w, off, d) \in Values
  <1>1. w \in [Offsets -> Bytes]
    BY GdbMemoryAssumption
  <1>2. \A b \in Offsets : (IF b - off + 1 \in DOMAIN d THEN d[b - off + 1] ELSE w[b]) \in Bytes
    BY <1>1
  <1>3. Merge(w, off, d) \in [Offsets -> Bytes]
    BY <1>2 DEF Merge
  <1> QED
    BY <1>3, GdbMemoryAssumption

LEMMA WriteSharedOk == ASSUME GInv, WriteShared PROVE GInv' /\ Kept
  <1> DEFINE n == Len(gdb.data)
             c == Count(gdb.at, n)
             d == gdb.data
  <1>0. gdb.at \in Nat
    BY DEF GInv, CommandOk, CommandRecords
  <1>A. PICK q \in Nat, off \in 0 .. 3 : q = gdb.at \div 4 /\ off = gdb.at % 4 /\ gdb.at = 4 * q + off
    BY <1>0, WordOfByte
  <1>1. /\ stage = "merge" /\ stage' = "wait" /\ call.res # "busy"
        /\ x' = Merge(IF Ok THEN call.data[1] ELSE x, off, d)
        /\ good' = (good /\ Ok)
        /\ Start(Memory!WriteCall(q, <<x'>>), "single")
        /\ gdb' = Taken(c)
        /\ UNCHANGED <<reply, before, cmds>>
    BY <1>A DEF WriteShared, Ended
  <1>2. /\ gdb.op = "M" /\ gdb.at \in Nat /\ gdb.addr \in Nat /\ gdb.len \in Nat
        /\ n > 0 /\ d \in Seq(Bytes) /\ n \in Nat
        /\ gdb.addr <= gdb.at
        /\ gdb.at + n = gdb.addr + gdb.len /\ gdb.addr + gdb.len <= 4 * Size
        /\ \A i \in 1 .. n : d[i] = Sent[(gdb.at - gdb.addr) + i]
        /\ call.op = "read" /\ call.addr = q /\ call.words = 1
    <2>1. gdb.op = "M" /\ n > 0 /\ call.op = "read" /\ call.addr = q /\ call.words = 1
      BY <1>1, <1>A DEF GInv, StageOk
    <2>2. gdb \in CommandRecords
      BY DEF GInv, CommandOk
    <2>3. gdb.at \in Nat /\ gdb.addr \in Nat /\ gdb.len \in Nat /\ d \in Seq(Bytes) /\ n \in Nat
      BY <2>2 DEF CommandRecords
    <2>4. /\ gdb.addr <= gdb.at
          /\ gdb.at + n = gdb.addr + gdb.len /\ gdb.addr + gdb.len <= 4 * Size
          /\ \A i \in 1 .. n : d[i] = Sent[(gdb.at - gdb.addr) + i]
      BY <2>1 DEF GInv, CommandOk, Limit
    <2> QED
      BY <2>1, <2>3, <2>4
  <1>3. q \in Nat /\ q + 1 <= Size /\ off \in Offsets /\ gdb.at = 4 * q + off
    <2> HIDE DEF n
    <2>1. gdb.at < 4 * Size
      BY <1>2, AhbAssumption
    <2>2. 4 * q < 4 * Size /\ gdb.at = 4 * q + off
      BY <2>1, <1>A, AhbAssumption
    <2> QED
      BY <2>2, AhbAssumption DEF Offsets
  <1>4. c \in 1 .. n /\ off + c <= 4 /\ (off + c = 4 \/ c = n)
    <2>1. c = IF 4 - off < n THEN 4 - off ELSE n
      BY <1>A DEF Count, Least
    <2> HIDE DEF n, c
    <2> QED
      BY <1>2, <2>1
  <1> HIDE DEF n, c, d
  <1>5. q \in Memory!Addresses
    BY <1>3, AhbAssumption DEF Memory!Addresses
  <1>6. Ok => call.data[1] = mem[q]
    <2>1. Ok => call.data = [i \in 1 .. 1 |-> mem[call.addr + i - 1]]
      BY <1>1, <1>2 DEF GInv, CallOk, Ok
    <2>2. q + 1 - 1 = q
      BY <1>3
    <2> QED
      BY <1>2, <2>1, <2>2
  <1>7. x' \in Values
    <2>1. mem[q] \in Values /\ x \in Values
      BY <1>5 DEF GInv, AInv, Typed
    <2> QED
      BY <1>1, <1>2, <1>3, <1>6, <2>1, MergeOk
  <1>8. Memory!IsCall(Memory!WriteCall(q, <<x'>>))
    <2>1. <<x'>> \in Seq(Values) /\ Len(<<x'>>) = 1
      BY <1>7
    <2> QED
      BY <1>3, <2>1, WriteIsCall
  <1>9. AInv' /\ Kept /\ call' = Memory!WriteCall(q, <<x'>>) /\ mem' = mem
    BY <1>1, <1>8, StartedOk
  <1>10. /\ call'.op = "write" /\ call'.addr = q /\ call'.words = 1 /\ call'.done = 0
         /\ call'.data = <<x'>> /\ call'.res = "busy"
    BY <1>9 DEF Memory!WriteCall
  <1>11. c \in 0 .. Len(gdb.data) /\ CommandOk
    BY <1>2, <1>4 DEF GInv, n
  <1>12. /\ CommandOk'
         /\ gdb'.op = "M" /\ gdb'.addr = gdb.addr /\ gdb'.len = gdb.len
         /\ gdb'.at = gdb.at + c
    BY <1>1, <1>2, <1>11, TakenOk
  <1>13. Typed' /\ ReadReturns'
    BY <1>1, <1>7 DEF GInv, Typed, ReadReturns, Answered
  <1>14. StageOk' /\ CallOk'
    BY <1>1, <1>10, <1>12 DEF StageOk, Stages, Quiet, CallOk
  <1>15. WriteOk'
    <2> SUFFICES ASSUME good, Ok PROVE Outside' /\ Behind' /\ Carried'
      BY <1>1 DEF WriteOk
    <2>1. Outside /\ Behind
      BY <1>1, <1>2 DEF GInv, WriteOk
    <2>2. \A k \in Nat : /\ InRange(k)' <=> gdb.addr <= k /\ k < gdb.addr + gdb.len
                         /\ InRange(k) <=> gdb.addr <= k /\ k < gdb.addr + gdb.len
                         /\ Ahead(k) <=> gdb.at <= k /\ k < gdb.addr + gdb.len
                         /\ Ahead(k)' <=> gdb.at + c <= k /\ k < gdb.addr + gdb.len
      BY <1>12 DEF InRange, Ahead
    <2>3. Outside'
      BY <1>1, <1>9, <1>12, <2>1 DEF Outside, InRange
    <2>4. \A a, b : Want(a, b)' = Want(a, b)
      BY <1>1, <1>12 DEF Want, InRange
    <2>5. \A a \in Nat : Pending(a)' <=> a = q
      BY <1>1, <1>3, <1>10 DEF Pending, From, Memory!From
    <2>6. Behind'
      <3> SUFFICES ASSUME NEW a \in Memory!Addresses, NEW b \in Offsets,
                          ~Ahead(4 * a + b)', ~Pending(a)'
                   PROVE  mem[a][b] = Want(a, b)
        BY <1>9, <2>4 DEF Behind, Memory!Addresses
      <3>1. a \in Nat /\ b \in 0 .. 3 /\ 4 * a + b \in Nat
        BY AhbAssumption DEF Memory!Addresses, Offsets
      <3>2. a # q
        BY <2>5, <3>1
      <3>3. ~Ahead(4 * a + b)
        <4>1. ~(gdb.at + c <= 4 * a + b /\ 4 * a + b < gdb.addr + gdb.len)
          BY <2>2, <3>1
        <4>2. ~(gdb.at <= 4 * a + b /\ 4 * a + b < gdb.addr + gdb.len)
          BY <1>2, <1>3, <1>4, <3>1, <3>2, <4>1 DEF Offsets
        <4> QED
          BY <2>2, <3>1, <4>2
      <3>4. ~Pending(a)
        BY <1>1 DEF Pending
      <3> QED
        BY <2>1, <3>3, <3>4 DEF Behind
    <2>7. \A b \in Offsets : ~Ahead(4 * q + b)' /\ x'[b] = Want(q, b)
      <3> TAKE b \in Offsets
      <3>1. b \in 0 .. 3 /\ 4 * q + b \in Nat
        BY <1>3 DEF Offsets
      <3>2. ~Ahead(4 * q + b)'
        BY <1>2, <1>3, <1>4, <2>2, <3>1 DEF Offsets
      <3>3. x'[b] = IF b - off + 1 \in 1 .. n THEN d[b - off + 1] ELSE mem[q][b]
        <4>1. DOMAIN d = 1 .. n
          BY <1>2 DEF n, d
        <4> QED
          BY <1>1, <1>6, <4>1 DEF Merge
      <3>4. CASE b - off + 1 \in 1 .. n
        <4>1. x'[b] = Sent[(gdb.at - gdb.addr) + (b - off + 1)]
          BY <1>2, <3>3, <3>4
        <4>2. (gdb.at - gdb.addr) + (b - off + 1) = ((4 * q + b) - gdb.addr) + 1
          BY <1>2, <1>3, <3>1 DEF Offsets
        <4>3. InRange(4 * q + b)
          <5> DEFINE at == gdb.at  addr == gdb.addr  end == gdb.addr + gdb.len
          <5>1. /\ at \in Nat /\ addr \in Nat /\ end \in Nat /\ n \in Nat
                /\ addr <= at /\ at + n = end /\ at = 4 * q + off
            BY <1>2, <1>3
          <5> HIDE DEF at, addr, end
          <5>2. addr <= 4 * q + b /\ 4 * q + b < end
            BY <1>3, <3>1, <3>4, <5>1 DEF Offsets
          <5> QED
            BY <5>2 DEF InRange, addr, end
        <4> QED
          BY <3>2, <4>1, <4>2, <4>3 DEF Want
      <3>5. CASE b - off + 1 \notin 1 .. n
        <4>1. x'[b] = mem[q][b]
          BY <3>3, <3>5
        <4>2. ~Ahead(4 * q + b)
          BY <1>2, <1>3, <3>1, <3>5 DEF Offsets, Ahead
        <4>3. ~Pending(q)
          BY <1>1 DEF Pending
        <4> QED
          BY <1>5, <2>1, <3>2, <4>1, <4>2, <4>3 DEF Behind
      <3> QED
        BY <3>4, <3>5
    <2>8. Carried'
      <3> DEFINE Right(k, v, w, b) ==
                     /\ ~(gdb'.at <= k /\ k < gdb'.addr + gdb'.len)
                     /\ v = IF gdb'.addr <= k /\ k < gdb'.addr + gdb'.len
                            THEN Sent[(k - gdb'.addr) + 1] ELSE before'[w][b]
      <3>1. \A b \in Offsets : Right(4 * q + b, x'[b], q, b)
        BY <1>1, <1>12, <2>7 DEF Ahead, Want, InRange
      <3>2. q + 1 - 1 = q /\ <<x'>>[1] = x'
        BY <1>3
      <3> HIDE DEF Right
      <3>3. \A j \in 1 .. 1, b \in Offsets : Right(4 * (q + j - 1) + b, <<x'>>[j][b], q + j - 1, b)
        BY <3>1, <3>2
      <3>4. \A j \in 1 .. call'.words, b \in Offsets :
                Right(4 * (call'.addr + j - 1) + b, call'.data[j][b], call'.addr + j - 1, b)
        BY <1>10, <3>3
      <3> QED
        BY <3>4 DEF Carried, Ahead, Want, InRange, Right
    <2> QED
      BY <2>3, <2>6, <2>8
  <1> QED
    BY <1>9, <1>12, <1>13, <1>14, <1>15 DEF GInv

LEMMA WriteWholeOk == ASSUME GInv, WriteWhole PROVE GInv' /\ Kept
  <1> DEFINE len == Len(gdb.data)
             d == gdb.data
  <1>0. gdb \in CommandRecords
    BY DEF GInv, CommandOk
  <1>1. gdb.at \in Nat /\ gdb.addr \in Nat /\ gdb.len \in Nat /\ d \in Seq(Bytes) /\ len \in Nat
    BY <1>0 DEF CommandRecords
  <1>2. PICK n \in Nat, rest \in 0 .. 3 : n = len \div 4 /\ len = 4 * n + rest
    BY <1>1, WordOfByte
  <1>3. PICK q \in Nat, off \in 0 .. 3 : q = gdb.at \div 4 /\ off = gdb.at % 4 /\ gdb.at = 4 * q + off
    BY <1>1, WordOfByte
  <1> DEFINE Word(w) == [b \in Offsets |-> d[4 * (w - 1) + b + 1]]
             words == [w \in 1 .. n |-> Word(w)]
  <1>B. len = 4 * n + rest
    BY <1>2
  <1>4. /\ stage = "body" /\ stage' = "wait" /\ call.res # "busy"
        /\ Start(Memory!WriteCall(q, words), "bulk")
        /\ gdb' = Taken(4 * n)
        /\ UNCHANGED <<x, reply, before, good, cmds>>
    BY <1>2, <1>3 DEF WriteWhole, Ended
  <1>5. gdb.op = "M" /\ gdb.at = 4 * q
    BY <1>3, <1>4 DEF GInv, StageOk
  <1>6. /\ gdb.addr <= gdb.at
        /\ gdb.at + len = gdb.addr + gdb.len /\ gdb.addr + gdb.len <= 4 * Size
        /\ \A i \in 1 .. len : d[i] = Sent[(gdb.at - gdb.addr) + i]
    BY <1>5 DEF GInv, CommandOk, Limit
  <1> HIDE DEF len, d
  <1>7. q + n <= Size /\ 4 * n \in 0 .. len
    BY <1>1, <1>5, <1>6, <1>B, AhbAssumption
  <1>8. \A w \in 1 .. n, b \in Offsets : 4 * (w - 1) + b + 1 \in 1 .. len
    BY <1>B DEF Offsets
  <1>9. words \in Seq(Values) /\ Len(words) = n
    <2>1. DOMAIN d = 1 .. len
      BY <1>1 DEF len, d
    <2>2. \A w \in 1 .. n : Word(w) \in [Offsets -> Bytes]
      BY <1>1, <1>8, <2>1, ElementOfSeq DEF len
    <2> HIDE DEF Word
    <2>3. \A w \in 1 .. n : Word(w) \in Values
      BY <2>2, GdbMemoryAssumption
    <2> QED
      BY <2>3
  <1>10. Memory!IsCall(Memory!WriteCall(q, words))
    <2> HIDE DEF words
    <2> QED
      BY <1>7, <1>9, WriteIsCall
  <1>11. AInv' /\ Kept /\ call' = Memory!WriteCall(q, words) /\ mem' = mem
    BY <1>4, <1>10, StartedOk
  <1>12. /\ call'.op = "write" /\ call'.addr = q /\ call'.words = n /\ call'.done = 0
         /\ call'.data = words /\ call'.res = "busy"
    BY <1>9, <1>11 DEF Memory!WriteCall
  <1>13. 4 * n \in 0 .. Len(gdb.data) /\ CommandOk
    BY <1>7 DEF GInv, len
  <1>14. /\ CommandOk'
         /\ gdb'.op = "M" /\ gdb'.addr = gdb.addr /\ gdb'.len = gdb.len
         /\ gdb'.at = gdb.at + 4 * n
    BY <1>4, <1>5, <1>13, TakenOk
  <1>15. Typed' /\ ReadReturns'
    BY <1>4 DEF GInv, Typed, ReadReturns, Answered
  <1>16. StageOk' /\ CallOk'
    BY <1>4, <1>12, <1>14 DEF StageOk, Stages, Quiet, CallOk
  <1>17. WriteOk'
    <2> SUFFICES ASSUME good PROVE Outside' /\ Behind' /\ Carried'
      BY <1>4 DEF WriteOk
    <2>1. Outside /\ Behind
      BY <1>4, <1>5 DEF GInv, WriteOk
    <2>2. \A k \in Nat : /\ InRange(k) <=> gdb.addr <= k /\ k < gdb.addr + gdb.len
                         /\ Ahead(k) <=> gdb.at <= k /\ k < gdb.addr + gdb.len
                         /\ Ahead(k)' <=> gdb.at + 4 * n <= k /\ k < gdb.addr + gdb.len
      BY <1>14 DEF InRange, Ahead
    <2>3. Outside'
      BY <1>4, <1>11, <1>14, <2>1 DEF Outside, InRange
    <2>4. \A a, b : Want(a, b)' = Want(a, b)
      BY <1>4, <1>14 DEF Want, InRange
    <2>5. \A a \in Nat : Pending(a)' <=> q <= a /\ a < q + n
      <3>1. \A a \in Nat : q + 0 <= a <=> q <= a
        OBVIOUS
      <3> QED
        BY <1>4, <1>12, <3>1 DEF Pending, From, Memory!From
    <2>6. Behind'
      <3> SUFFICES ASSUME NEW a \in Memory!Addresses, NEW b \in Offsets,
                          ~Ahead(4 * a + b)', ~Pending(a)'
                   PROVE  mem[a][b] = Want(a, b)
        BY <1>11, <2>4 DEF Behind, Memory!Addresses
      <3>1. a \in Nat /\ b \in 0 .. 3 /\ 4 * a + b \in Nat
        BY AhbAssumption DEF Memory!Addresses, Offsets
      <3>2. a < q \/ q + n <= a
        BY <2>5, <3>1
      <3>3. ~Ahead(4 * a + b)
        <4> DEFINE end == gdb.addr + gdb.len
        <4>1. ~(gdb.at + 4 * n <= 4 * a + b /\ 4 * a + b < end)
          BY <2>2, <3>1
        <4>2. end \in Nat
          BY <1>1
        <4> HIDE DEF end
        <4>3. ~(4 * q <= 4 * a + b /\ 4 * a + b < end)
          BY <1>B, <1>5, <3>1, <3>2, <4>1, <4>2
        <4> QED
          BY <1>5, <2>2, <3>1, <4>3 DEF end
      <3>4. ~Pending(a)
        BY <1>4 DEF Pending
      <3> QED
        BY <2>1, <3>3, <3>4 DEF Behind
    <2>7. \A w \in 1 .. n, b \in Offsets :
             ~Ahead(4 * (q + w - 1) + b)' /\ words[w][b] = Want(q + w - 1, b)
      <3> TAKE w \in 1 .. n, b \in Offsets
      <3> DEFINE k == 4 * (q + w - 1) + b
                 i == 4 * (w - 1) + b + 1
      <3>1. b \in 0 .. 3 /\ w \in Nat /\ w >= 1 /\ k \in Nat /\ i \in 1 .. len
        BY <1>B, <1>8 DEF Offsets
      <3>2. k = gdb.at + (i - 1) /\ k < gdb.at + 4 * n
        BY <1>B, <1>5, <3>1
      <3>3. words[w][b] = d[i]
        OBVIOUS
      <3> HIDE DEF k, i, words
      <3>4. d[i] = Sent[(gdb.at - gdb.addr) + i]
        BY <1>6, <3>1
      <3>5. (gdb.at - gdb.addr) + i = (k - gdb.addr) + 1
        BY <1>1, <3>1, <3>2
      <3>6. gdb.addr <= k /\ k < gdb.addr + gdb.len
        <4> DEFINE at == gdb.at  addr == gdb.addr  end == gdb.addr + gdb.len
        <4>1. at \in Nat /\ addr \in Nat /\ end \in Nat /\ addr <= at /\ at + len = end /\ k = at + (i - 1)
          BY <1>1, <1>6, <3>2
        <4> HIDE DEF at, addr, end
        <4>2. addr <= k /\ k < end
          BY <1>1, <3>1, <4>1
        <4> QED
          BY <4>2 DEF addr, end
      <3>7. ~Ahead(k)'
        <4>1. ~(gdb.at + 4 * n <= k)
          BY <1>1, <1>B, <3>1, <3>2
        <4> QED
          BY <2>2, <3>1, <4>1
      <3>8. words[w][b] = IF InRange(k) THEN Sent[(k - gdb.addr) + 1] ELSE before[q + w - 1][b]
        BY <2>2, <3>1, <3>3, <3>4, <3>5, <3>6
      <3> QED
        BY <3>7, <3>8 DEF k, Want
    <2>8. Carried'
      <3> DEFINE Right(k, v, w, b) ==
                   /\ ~(gdb'.at <= k /\ k < gdb'.addr + gdb'.len)
                   /\ v = IF gdb'.addr <= k /\ k < gdb'.addr + gdb'.len
                          THEN Sent[(k - gdb'.addr) + 1] ELSE before'[w][b]
      <3> HIDE DEF words
      <3>1. \A w \in 1 .. n, b \in Offsets : Right(4 * (q + w - 1) + b, words[w][b], q + w - 1, b)
        BY <1>4, <1>14, <2>7 DEF Ahead, Want, InRange
      <3> HIDE DEF Right
      <3>2. \A j \in 1 .. call'.words, b \in Offsets :
                Right(4 * (call'.addr + j - 1) + b, call'.data[j][b], call'.addr + j - 1, b)
        BY <1>12, <3>1
      <3> QED
        BY <3>2 DEF Carried, Ahead, Want, InRange, Right
    <2> QED
      BY <2>3, <2>6, <2>8
  <1> QED
    BY <1>11, <1>14, <1>15, <1>16, <1>17 DEF GInv

-----------------------------------------------------------------------------
(* Answers, and the calls' ends.                                           *)

\* The transport and the command do not change: neither do what is said of them.
LEMMA UnchangedOk ==
  ASSUME GInv, UNCHANGED avars
  PROVE  AInv' /\ Kept /\ CallOk'
  <1>1. UNCHANGED <<mem, call, how, inc, sticky>>
    BY DEF avars
  <1> QED
    BY <1>1 DEF GInv, AInv, IsAccepted, Memory!Addresses, Kept, CallOk

LEMMA ReplyOk == ASSUME GInv, Reply PROVE GInv' /\ Kept
  <1>1. /\ stage = "reply" /\ stage' = "done" /\ call.res # "busy" /\ good' = Ok
        /\ reply' = [i \in 1 .. gdb.len |->
                       LET k == (gdb.addr % 4) + i - 1
                       IN  IF k < 4 * Len(call.data) THEN call.data[(k \div 4) + 1][k % 4]
                           ELSE Garbage]
        /\ UNCHANGED avars /\ UNCHANGED <<gdb, x, before, cmds>>
    BY DEF Reply, Ended
  <1>2. /\ gdb.op = "m" /\ call.op = "read"
        /\ call.addr = gdb.addr \div 4 /\ call.words = WordsFetched(gdb)
    BY <1>1 DEF GInv, StageOk
  <1>3. gdb \in CommandRecords
    BY DEF GInv, CommandOk
  <1>4. gdb.addr \in Nat /\ gdb.len \in Nat
    BY <1>3 DEF CommandRecords
  <1>5. AInv' /\ Kept /\ CallOk'
    BY <1>1, UnchangedOk
  <1>6. CommandOk' /\ WriteOk' /\ Typed'
    BY <1>1, <1>2 DEF GInv, CommandOk, WriteOk, Typed, WordsFetched, Ok
  <1>7. StageOk'
    BY <1>1, <1>2 DEF avars, StageOk, Stages, Quiet
  <1>8. ReadReturns'
    <2> SUFFICES ASSUME Ok, (gdb.addr % 4) + gdb.len <= 4 * WordsFetched(gdb),
                        NEW i \in 1 .. gdb.len
                 PROVE  reply'[i] = Byte(mem, gdb.addr + i - 1)
      <3>1. mem' = mem /\ gdb' = gdb /\ good' = Ok
        BY <1>1 DEF avars
      <3> QED
        BY <3>1 DEF ReadReturns, Answered, Correct, WordsFetched, Byte
    <2> DEFINE words == call.words
    <2>1. words \in Nat /\ words = WordsFetched(gdb)
      BY <1>2, <1>4 DEF WordsFetched
    <2>2. call.data = [j \in 1 .. words |-> mem[call.addr + j - 1]]
      BY <1>2 DEF GInv, CallOk, Ok
    <2>3. PICK q \in Nat, off \in 0 .. 3 : q = gdb.addr \div 4 /\ off = gdb.addr % 4 /\ gdb.addr = 4 * q + off
      BY <1>4, WordOfByte
    <2>4. i \in Nat /\ i >= 1 /\ i <= gdb.len
      BY <1>4
    <2>5. off + i - 1 \in Nat /\ off + i - 1 < 4 * words
      <3>1. off + gdb.len <= 4 * words
        BY <2>1, <2>3
      <3> HIDE DEF words
      <3> QED
        BY <1>4, <2>1, <2>4, <3>1
    <2>6. PICK k \in Nat : k = off + i - 1
      BY <2>5
    <2>7. PICK w \in Nat, b \in 0 .. 3 : w = k \div 4 /\ b = k % 4 /\ k = 4 * w + b
      BY WordOfByte
    <2>8. w + 1 \in 1 .. words
      <3> HIDE DEF words
      <3>1. 4 * w + b < 4 * words
        BY <2>5, <2>6, <2>7
      <3> QED
        BY <2>1, <3>1
    <2>9. Len(call.data) = words /\ call.data[w + 1] = mem[q + w]
      <3>1. call.addr = q
        BY <1>2, <2>3
      <3>2. Len(call.data) = words
        BY <2>1, <2>2
      <3>3. call.data[w + 1] = mem[call.addr + (w + 1) - 1]
        BY <2>2, <2>8
      <3>4. q + (w + 1) - 1 = q + w
        OBVIOUS
      <3> QED
        BY <3>1, <3>2, <3>3, <3>4
    <2>10. reply'[i] = mem[q + w][b]
      <3>1. reply'[i] = IF k < 4 * Len(call.data) THEN call.data[(k \div 4) + 1][k % 4] ELSE Garbage
        BY <1>1, <2>3, <2>6
      <3>2. k < 4 * Len(call.data)
        BY <2>5, <2>6, <2>9
      <3> QED
        BY <2>7, <2>9, <3>1, <3>2
    <2>11. (gdb.addr + i - 1) \div 4 = q + w /\ (gdb.addr + i - 1) % 4 = b
      <3>1. gdb.addr + i - 1 = 4 * q + k
        <4>1. gdb.addr = 4 * q + off
          BY <2>3
        <4> QED
          BY <2>4, <2>6, <4>1
      <3>2. (4 * q + k) \div 4 = q + (k \div 4) /\ (4 * q + k) % 4 = k % 4
        BY ByteOfWord
      <3> QED
        BY <2>7, <3>1, <3>2
    <2> QED
      BY <2>10, <2>11 DEF Byte
  <1> QED
    BY <1>5, <1>6, <1>7, <1>8 DEF GInv

LEMMA WrittenOk == ASSUME GInv, Written PROVE GInv' /\ Kept
  <1>1. /\ stage = "wait" /\ call.res # "busy" /\ good' = (good /\ Ok)
        /\ stage' = Phase(gdb.at, Len(gdb.data))
        /\ UNCHANGED avars /\ UNCHANGED <<gdb, x, reply, before, cmds>>
    BY DEF Written, Ended
  <1>2. gdb.op = "M"
    BY <1>1 DEF GInv, StageOk
  <1>3. gdb \in CommandRecords
    BY DEF GInv, CommandOk
  <1>4. Len(gdb.data) \in Nat
    BY <1>3 DEF CommandRecords
  <1>5. /\ stage' \in {"head", "body", "tail", "done"}
        /\ stage' \in {"head", "tail"} => Len(gdb.data) > 0
        /\ stage' = "body" => gdb.at % 4 = 0
        /\ stage' = "done" => Len(gdb.data) = 0
    BY <1>1, <1>4, PhaseOk
  <1>6. AInv' /\ Kept /\ CallOk'
    BY <1>1, UnchangedOk
  <1>7. CommandOk' /\ Typed' /\ ReadReturns'
    BY <1>1, <1>2 DEF GInv, CommandOk, Typed, WordsFetched, ReadReturns, Answered
  <1>8. StageOk'
    BY <1>1, <1>2, <1>4, <1>5 DEF avars, StageOk, Stages, Quiet
  <1>9. WriteOk'
    <2> SUFFICES ASSUME good, Ok PROVE Outside' /\ Behind'
      BY <1>1, <1>5 DEF WriteOk
    <2>1. Outside /\ Behind
      BY <1>2 DEF GInv, WriteOk, Ok
    <2>2. Outside'
      BY <1>1, <2>1 DEF avars, Outside, InRange, Memory!Addresses
    <2>3. \A a \in Nat : ~Pending(a)
      <3>1. call.addr \in Nat /\ call.done \in Nat /\ call.words \in Nat
        BY DEF GInv, AInv, IsAccepted
      <3>2. call.done = call.words
        BY DEF GInv, CallOk, Ok
      <3> QED
        BY <3>1, <3>2 DEF Pending, From, Memory!From
    <2>4. \A a \in Memory!Addresses : a \in Nat
      BY AhbAssumption DEF Memory!Addresses
    <2>5. mem' = mem /\ gdb' = gdb /\ before' = before
      BY <1>1 DEF avars
    <2>6. Behind'
      <3> SUFFICES ASSUME NEW a \in Memory!Addresses, NEW b \in Offsets,
                          ~Ahead(4 * a + b)'
                   PROVE  mem'[a][b] = Want(a, b)'
        BY DEF Behind, Memory!Addresses
      <3>1. ~Ahead(4 * a + b) /\ ~Pending(a)
        BY <2>3, <2>4, <2>5 DEF Ahead
      <3>2. mem[a][b] = Want(a, b)
        BY <2>1, <3>1 DEF Behind
      <3> QED
        BY <2>5, <3>2 DEF Want, InRange
    <2> QED
      BY <2>2, <2>6
  <1> QED
    BY <1>6, <1>7, <1>8, <1>9 DEF GInv

LEMMA FinishOk == ASSUME GInv, Finish PROVE GInv' /\ Kept
  <1>1. /\ stage = "done" /\ stage' = "idle" /\ call.res # "busy"
        /\ UNCHANGED avars /\ UNCHANGED <<gdb, x, reply, before, good, cmds>>
    BY DEF Finish, GInv, StageOk, Quiet
  <1>2. AInv' /\ Kept /\ CallOk'
    BY <1>1, UnchangedOk
  <1>3. CommandOk' /\ Typed' /\ ReadReturns'
    BY <1>1 DEF GInv, CommandOk, Typed, WordsFetched, ReadReturns, Answered
  <1>4. StageOk'
    BY <1>1 DEF avars, StageOk, Stages, Quiet
  <1>5. WriteOk'
    BY <1>1, WriteKept DEF avars
  <1> QED
    BY <1>2, <1>3, <1>4, <1>5 DEF GInv

-----------------------------------------------------------------------------
(* A transaction of the call under way.                                    *)

\* A read has what is in memory; a call that is complete is so.
LEMMA TransferredOk ==
  ASSUME GInv, call.res = "busy",
         Memory!Transfer \/ Memory!Succeed \/ Memory!Fail \/ UNCHANGED <<mem, call>>
  PROVE  /\ CallOk'
         /\ call'.op = call.op /\ call'.addr = call.addr /\ call'.words = call.words
  <1>1. /\ call = [op |-> call.op, addr |-> call.addr, words |-> call.words, data |-> call.data,
                   done |-> call.done, res |-> call.res]
        /\ call.addr \in Nat /\ call.done \in Nat /\ call.words \in Nat
    BY DEF GInv, AInv, IsAccepted
  <1>2. ASSUME NEW k \in 1 .. Memory!Left, Memory!Read(k)
        PROVE  /\ CallOk'
               /\ call'.op = call.op /\ call'.addr = call.addr /\ call'.words = call.words
    <2> DEFINE old == call.data
               new == [i \in 1 .. k |-> mem[Memory!From + i - 1]]
    <2>1. /\ call.op = "read" /\ mem' = mem
          /\ call'.op = call.op /\ call'.addr = call.addr /\ call'.words = call.words
          /\ call'.res = "busy" /\ call'.done = call.done + k /\ call'.data = old \o new
      BY <1>1, <1>2 DEF Memory!Read
    <2>2. old = [i \in 1 .. call.done |-> mem[call.addr + i - 1]]
      BY <2>1 DEF GInv, CallOk
    <2>3. k \in Nat /\ Memory!From = call.addr + call.done
      BY <1>1 DEF Memory!Left, Memory!From
    <2> DEFINE all == [i \in 1 .. call.done + k |-> mem[call.addr + i - 1]]
    <2>4. old \o new = all
      <3> DEFINE done == call.done  addr == call.addr
      <3>1. done \in Nat /\ addr \in Nat
        BY <1>1
      <3>2. /\ old = [i \in 1 .. done |-> mem[addr + i - 1]]
            /\ new = [i \in 1 .. k |-> mem[(addr + done) + i - 1]]
            /\ all = [i \in 1 .. done + k |-> mem[addr + i - 1]]
        BY <2>2, <2>3
      <3> HIDE DEF done, addr, old, new, all
      <3>3. Len(old) = done /\ Len(new) = k
        BY <2>3, <3>1, <3>2
      <3>4. old \o new = [i \in 1 .. done + k |-> IF i <= done THEN old[i] ELSE new[i - done]]
        <4> DEFINE S == {old[i] : i \in 1 .. done} \cup {new[i] : i \in 1 .. k}
        <4>1. old \in [1 .. done -> S] /\ new \in [1 .. k -> S]
          BY <3>2
        <4> HIDE DEF S
        <4>2. old \in Seq(S) /\ new \in Seq(S)
          BY <2>3, <3>1, <4>1
        <4>3. /\ old \o new \in Seq(S) /\ Len(old \o new) = done + k
              /\ \A i \in 1 .. done + k : (old \o new)[i] = IF i <= done THEN old[i] ELSE new[i - done]
          BY <3>3, <4>2, ConcatProperties
        <4>4. old \o new = [i \in 1 .. done + k |-> (old \o new)[i]]
          <5>1. \A s \in Seq(S) : s \in [1 .. Len(s) -> S]
            OBVIOUS
          <5>2. old \o new \in [1 .. done + k -> S]
            BY <4>3, <5>1
          <5> QED
            BY <5>2
        <4> QED
          BY <4>3, <4>4
      <3>5. ASSUME NEW i \in 1 .. done + k
            PROVE  (IF i <= done THEN old[i] ELSE new[i - done]) = mem[addr + i - 1]
        <4>1. CASE i <= done
          BY <2>3, <3>1, <3>2, <4>1
        <4>2. CASE ~(i <= done)
          <5>1. i - done \in 1 .. k
            BY <2>3, <3>1, <4>2
          <5>2. new[i - done] = mem[(addr + done) + (i - done) - 1]
            BY <3>2, <5>1
          <5>3. (addr + done) + (i - done) - 1 = addr + i - 1
            BY <2>3, <3>1
          <5> QED
            BY <4>2, <5>2, <5>3
        <4> QED
          BY <4>1, <4>2
      <3> QED
        BY <3>2, <3>4, <3>5
    <2> HIDE DEF old, new
    <2>5. call'.data = [i \in 1 .. call'.done |-> mem'[call'.addr + i - 1]]
      BY <2>1, <2>4
    <2>6. CallOk'
      BY <2>1, <2>5 DEF CallOk
    <2> QED
      BY <2>1, <2>6
  <1>3. ASSUME NEW k \in 1 .. Memory!Left, Memory!Write(k)
        PROVE  /\ CallOk'
               /\ call'.op = call.op /\ call'.addr = call.addr /\ call'.words = call.words
    BY <1>1, <1>3 DEF Memory!Write, CallOk
  <1>4. CASE Memory!Succeed
    <2>1. call.done = call.words
      BY <1>1, <1>4 DEF Memory!Succeed, Memory!Left
    <2> QED
      BY <1>1, <1>4, <2>1 DEF Memory!Succeed, CallOk, GInv
  <1>5. CASE Memory!Fail
    BY <1>1, <1>5 DEF Memory!Fail, CallOk
  <1>6. CASE UNCHANGED <<mem, call>>
    BY <1>6 DEF CallOk, GInv
  <1> QED
    BY <1>2, <1>3, <1>4, <1>5, <1>6 DEF Memory!Transfer

\* The words a write has got to are what they are to be.
LEMMA WrittenWords ==
  ASSUME GInv, gdb.op = "M", good, stage = "wait", call.res = "busy",
         UNCHANGED <<gdb, stage, before, good>>,
         NEW k \in 1 .. Memory!Left, mem' = Memory!Written(k)
  PROVE  /\ \A a \in Memory!Addresses, b \in Offsets :
                a \in Memory!From .. Memory!From + k - 1 => mem'[a][b] = Want(a, b)
         /\ \A a \in Memory!Addresses :
                a \notin Memory!From .. Memory!From + k - 1 => mem'[a] = mem[a]
  <1>1. call.addr \in Nat /\ call.done \in Nat /\ call.words \in Nat
    BY DEF GInv, AInv, IsAccepted
  <1>2. Carried
    BY DEF GInv, WriteOk
  <1>3. ASSUME NEW a \in Memory!Addresses, NEW b \in Offsets, a \in Memory!From .. Memory!From + k - 1
        PROVE  mem'[a][b] = Want(a, b)
    <2> DEFINE addr == call.addr  done == call.done  words == call.words
    <2>1. /\ addr \in Nat /\ done \in Nat /\ words \in Nat /\ k \in 1 .. words - done
          /\ a \in addr + done .. addr + done + k - 1
      BY <1>1, <1>3 DEF Memory!From, Memory!Left
    <2> HIDE DEF addr, done, words
    <2>2. a - addr + 1 \in 1 .. words /\ addr + (a - addr + 1) - 1 = a
      BY <2>1
    <2>3. mem'[a] = call.data[a - addr + 1]
      BY <1>3 DEF Memory!Written, addr
    <2>4. \A j \in 1 .. words : call.data[j][b] = Want(addr + j - 1, b)
      BY <1>2 DEF Carried, addr, words
    <2> QED
      BY <2>2, <2>3, <2>4
  <1>4. \A a \in Memory!Addresses :
            a \notin Memory!From .. Memory!From + k - 1 => mem'[a] = mem[a]
    BY DEF Memory!Written
  <1> QED
    BY <1>3, <1>4

LEMMA TransactionOk == ASSUME GInv, Transaction, UNCHANGED bridge PROVE GInv' /\ Kept
  <1>1. UNCHANGED <<gdb, stage, x, reply, before, good, cmds>> /\ call.res = "busy"
    BY DEF bridge, Transaction, ReadDone, WriteDone, ReadFails, WriteFails, Return, Busy
  <1>2. AInv' /\ Kept
    BY StepsOk DEF ANext, GInv, StepOk
  <1>3. Memory!Transfer \/ Memory!Succeed \/ Memory!Fail \/ UNCHANGED <<mem, call>>
    BY <1>1, <1>2 DEF Kept, Memory!Start
  <1>4. /\ CallOk'
        /\ call'.op = call.op /\ call'.addr = call.addr /\ call'.words = call.words
    BY <1>1, <1>3, TransferredOk
  <1>5. stage \notin Quiet
    BY <1>1 DEF GInv, StageOk
  <1>6. CommandOk' /\ Typed' /\ StageOk'
    BY <1>1, <1>4, <1>5 DEF GInv, CommandOk, Typed, StageOk, WordsFetched
  <1>7. ReadReturns'
    BY <1>1, <1>5 DEF ReadReturns, Answered, Quiet
  <1>8. WriteOk'
    <2>1. CASE stage # "wait"
      <3>1. call.op = "read"
        BY <1>5, <2>1 DEF GInv, StageOk, Stages, Quiet
      <3>2. mem' = mem
        BY <1>3, <3>1 DEF Memory!Transfer, Memory!Read, Memory!Write, Memory!Succeed, Memory!Fail
      <3> QED
        BY <1>1, <2>1, <3>2, WriteKept
    <2>2. CASE stage = "wait"
      <3> SUFFICES ASSUME gdb.op = "M", good
                   PROVE  /\ Outside'
                          /\ call'.res # "failed" => Behind'
                          /\ Carried'
        BY <1>1, <2>2 DEF WriteOk
      <3>1. Outside /\ Behind /\ Carried
        BY <1>1, <2>2 DEF GInv, WriteOk
      <3>2. call.op = "write"
        BY <2>2 DEF GInv, StageOk
      <3>3. call.addr \in Nat /\ call.done \in Nat /\ call.words \in Nat
        BY DEF GInv, AInv, IsAccepted
      <3>4. \A a, b : Want(a, b)' = Want(a, b)
        BY <1>1 DEF Want, InRange
      <3>5. call'.data = call.data
        BY <1>3, <3>2 DEF Memory!Transfer, Memory!Read, Memory!Write, Memory!Succeed,
                          Memory!Fail, GInv, AInv, IsAccepted
      <3>6. Carried'
        BY <1>1, <1>4, <3>1, <3>5 DEF Carried, Ahead, Want, InRange
      <3>7. CASE mem' = mem /\ call'.done = call.done
        <4>1. Outside'
          BY <1>1, <3>1, <3>7 DEF Outside, InRange, Memory!Addresses
        <4>2. Behind'
          BY <1>1, <1>4, <3>1, <3>7 DEF Behind, Ahead, Pending, Want, InRange, From, Memory!From,
                                        Memory!Addresses
        <4> QED
          BY <3>6, <4>1, <4>2
      <3>8. ASSUME NEW k \in 1 .. Memory!Left, mem' = Memory!Written(k)
            PROVE  /\ Outside'
                   /\ call'.done = call.done + k => Behind'
        <4>1. /\ \A a \in Memory!Addresses, b \in Offsets :
                     a \in Memory!From .. Memory!From + k - 1 => mem'[a][b] = Want(a, b)
              /\ \A a \in Memory!Addresses :
                     a \notin Memory!From .. Memory!From + k - 1 => mem'[a] = mem[a]
          BY <1>1, <2>2, <3>8, WrittenWords
        <4>2. Outside'
          <5>1. \A a \in Memory!Addresses, b \in Offsets :
                    ~InRange(4 * a + b) => mem'[a][b] = before[a][b]
            BY <3>1, <4>1 DEF Want, Outside
          <5> QED
            BY <1>1, <5>1 DEF Outside, InRange, Memory!Addresses
        <4>3. ASSUME call'.done = call.done + k PROVE Behind'
          <5> SUFFICES ASSUME NEW a \in Memory!Addresses, NEW b \in Offsets,
                              ~Ahead(4 * a + b)', ~Pending(a)'
                       PROVE  mem'[a][b] = Want(a, b)
            BY <3>4 DEF Behind, Memory!Addresses
          <5>1. CASE a \in Memory!From .. Memory!From + k - 1
            BY <4>1, <5>1
          <5>2. CASE a \notin Memory!From .. Memory!From + k - 1
            <6>1. ~Ahead(4 * a + b)
              BY <1>1 DEF Ahead
            <6>2. ~Pending(a)
              <7> DEFINE addr == call.addr  done == call.done  words == call.words
              <7>1. addr \in Nat /\ done \in Nat /\ words \in Nat /\ a \in Nat /\ k \in Nat
                BY <3>3, AhbAssumption DEF Memory!Addresses, Memory!Left
              <7>2. ~(addr + (done + k) <= a /\ a < addr + words)
                BY <1>1, <1>4, <2>2, <4>3 DEF Pending, From, Memory!From
              <7>3. a \notin addr + done .. addr + done + k - 1
                BY <5>2 DEF Memory!From
              <7> HIDE DEF addr, done, words
              <7>4. ~(addr + done <= a /\ a < addr + words)
                BY <7>1, <7>2, <7>3
              <7> QED
                BY <7>4 DEF Pending, From, Memory!From, addr, done, words
            <6> QED
              BY <3>1, <4>1, <5>2, <6>1, <6>2 DEF Behind
          <5> QED
            BY <5>1, <5>2
        <4> QED
          BY <4>2, <4>3
      <3>9. CASE Memory!Transfer
        <4>1. PICK k \in 1 .. Memory!Left : Memory!Write(k)
          BY <3>2, <3>9 DEF Memory!Transfer, Memory!Read
        <4>2. mem' = Memory!Written(k) /\ call'.done = call.done + k
          BY <4>1 DEF Memory!Write, GInv, AInv, IsAccepted
        <4> QED
          BY <3>6, <3>8, <4>2
      <3>10. CASE Memory!Succeed
        <4>1. mem' = mem /\ call'.done = call.done
          BY <3>10 DEF Memory!Succeed, GInv, AInv, IsAccepted
        <4> QED
          BY <3>7, <4>1
      <3>11. CASE Memory!Fail
        <4>1. call'.res = "failed" /\ call'.done = call.done
          BY <3>11 DEF Memory!Fail, GInv, AInv, IsAccepted
        <4>2. mem' = mem \/ \E k \in 1 .. Memory!Left : mem' = Memory!Written(k)
          BY <3>11 DEF Memory!Fail
        <4> QED
          BY <3>6, <3>7, <3>8, <4>1, <4>2
      <3>12. CASE UNCHANGED <<mem, call>>
        BY <3>7, <3>12
      <3> QED
        BY <1>3, <3>9, <3>10, <3>11, <3>12
    <2> QED
      BY <2>1, <2>2
  <1> QED
    BY <1>2, <1>4, <1>6, <1>7, <1>8 DEF GInv

\* Every step keeps the invariant, and is a step of the abstract memory.
LEMMA GStepOk == GInv /\ [GNext]_gvars => GInv' /\ Kept
  <1> SUFFICES ASSUME GInv, [GNext]_gvars PROVE GInv' /\ Kept
    OBVIOUS
  <1>1. ASSUME NEW a \in 0 .. Limit - 1, NEW n \in 0 .. Limit, BeginRead(a, n) \/ BeginWrite(a, n)
        PROVE  GInv' /\ Kept
    BY <1>1, BeginReadOk, BeginWriteOk
  <1>2. CASE Bridge
    BY <1>2, FetchOk, ReplyOk, ReadSharedOk, WriteSharedOk, WriteWholeOk, WrittenOk, FinishOk
    DEF Bridge
  <1>3. CASE Transaction /\ UNCHANGED bridge
    BY <1>3, TransactionOk
  <1>4. CASE UNCHANGED gvars
    <2>1. UNCHANGED avars /\ UNCHANGED <<gdb, stage, x, reply, before, good, cmds>>
      BY <1>4 DEF gvars, avars
    <2>2. AInv' /\ Kept /\ CallOk'
      BY <2>1, UnchangedOk
    <2>3. CommandOk' /\ Typed' /\ StageOk'
      BY <2>1 DEF avars, GInv, CommandOk, Typed, WordsFetched, StageOk
    <2>4. ReadReturns'
      BY <2>1 DEF avars, GInv, ReadReturns, Answered, Correct, Byte
    <2>5. Outside' = Outside /\ Behind' = Behind /\ Carried' = Carried
      BY <2>1 DEF avars, Outside, Behind, Carried, Ahead, Pending, Want, InRange, From,
                  Memory!From, Memory!Addresses
    <2>6. WriteOk'
      BY <2>1, <2>5 DEF avars, GInv, WriteOk
    <2> QED
      BY <2>2, <2>3, <2>4, <2>6 DEF GInv
  <1> QED
    BY <1>1, <1>2, <1>3, <1>4 DEF GNext

\* The invariant of the m and M commands holds: what a command has written so
\* far, what it has yet to write and what the call under way carries fit together.
THEOREM BridgeCorrect == GSpec => []GInv
  BY GInitOk, GStepOk, PTL DEF GSpec

\* The bridge only makes calls within the memory, one at a time, and they do
\* what the abstract memory promises of them.
THEOREM BridgeRefinement == GSpec => ImplementsMemory
  <1>1. GInit => Memory!Init
    BY GdbMemoryAssumption DEF GInit, Memory!Init
  <1>2. GInv /\ [GNext]_gvars => [Memory!Next]_<<mem, call>>
    BY GStepOk DEF Kept, Memory!Next
  <1> QED
    BY <1>1, <1>2, BridgeCorrect, PTL DEF GSpec, ImplementsMemory, Memory!Spec

\* A byte is a byte of its word.
LEMMA ByteIs ==
  ASSUME NEW k \in 0 .. Limit - 1
  PROVE  \E a \in Memory!Addresses, b \in Offsets :
            k = 4 * a + b /\ \A m : Byte(m, k) = m[a][b]
  <1>1. k \in Nat /\ k < 4 * Size
    BY AhbAssumption DEF Limit
  <1>2. k \div 4 \in Nat /\ k % 4 \in 0 .. 3 /\ k = 4 * (k \div 4) + (k % 4)
    BY <1>1, WordOfByte
  <1>3. k \div 4 < Size
    <2> DEFINE a == k \div 4  b == k % 4
    <2>1. a \in Nat /\ b \in 0 .. 3 /\ k = 4 * a + b
      BY <1>2
    <2> HIDE DEF a, b
    <2>2. a < Size
      BY <1>1, <2>1, AhbAssumption
    <2> QED
      BY <2>2 DEF a
  <1>4. k \div 4 \in Memory!Addresses /\ k % 4 \in Offsets
    BY <1>2, <1>3, AhbAssumption DEF Memory!Addresses, Offsets
  <1> QED
    BY <1>2, <1>4 DEF Byte

\* WriteExact: for any address and length, aligned or not, and whatever the
\* transfers are cut into, M writes the bytes gdb sent where gdb wants them and
\* leaves the bytes beside them alone, as long as its calls succeed.
THEOREM BytesWritten == GSpec => []WriteExact
  <1>1. GInv => WriteExact
    <2> SUFFICES ASSUME GInv PROVE WriteExact
      OBVIOUS
    <2>1. ASSUME gdb.op = "M", good, NEW k \in 0 .. Limit - 1, ~InRange(k)
          PROVE  Byte(mem, k) = Byte(before, k)
      <3>1. PICK a \in Memory!Addresses, b \in Offsets :
               k = 4 * a + b /\ \A m : Byte(m, k) = m[a][b]
        BY ByteIs
      <3>2. mem[a][b] = before[a][b]
        BY <2>1, <3>1 DEF GInv, WriteOk, Outside
      <3> QED
        BY <3>1, <3>2
    <2>2. ASSUME stage = "done", gdb.op = "M", good, NEW k \in 0 .. Limit - 1, InRange(k)
          PROVE  Byte(mem, k) = Sent[(k - gdb.addr) + 1]
      <3>1. PICK a \in Memory!Addresses, b \in Offsets :
               k = 4 * a + b /\ \A m : Byte(m, k) = m[a][b]
        BY ByteIs
      <3>2. Behind
        BY <2>2 DEF GInv, WriteOk
      <3>3. ~Pending(a)
        BY <2>2 DEF Pending
      <3>4. ~Ahead(k)
        <4>1. Len(gdb.data) = 0 /\ gdb.at + Len(gdb.data) = gdb.addr + gdb.len
          BY <2>2 DEF GInv, StageOk, CommandOk
        <4>2. gdb \in CommandRecords
          BY DEF GInv, CommandOk
        <4>3. gdb.at \in Nat /\ gdb.addr \in Nat /\ gdb.len \in Nat
          BY <4>2 DEF CommandRecords
        <4>4. gdb.at = gdb.addr + gdb.len
          BY <4>1, <4>3
        <4> QED
          BY <4>3, <4>4, AhbAssumption DEF Ahead, Limit
      <3>5. mem[a][b] = Want(a, b)
        BY <3>1, <3>2, <3>3, <3>4 DEF Behind
      <3> QED
        BY <2>2, <3>1, <3>5 DEF Want
    <2> QED
      BY <2>1, <2>2 DEF WriteExact, WriteStores, NeighboursKept, NeighboursIntact
  <1> QED
    BY <1>1, BridgeCorrect, PTL

\* ReadReturns: when the words m fetches cover the bytes it was asked for, what
\* it answers is what memory holds, wherever in a word the first byte is.
THEOREM BytesRead == GSpec => []ReadReturns
  <1>1. GInv => ReadReturns
    BY DEF GInv
  <1> QED
    BY <1>1, BridgeCorrect, PTL

-----------------------------------------------------------------------------
(* The packets of gdb and of the bridge.  First, that the two recursive    *)
(* functions, Sum and Answer, have a value: an induction over a set.       *)

LEMMA LessIsWellFounded == IsWellFoundedOn({p \in Nat \X Nat : p[1] < p[2]}, Nat)
  BY NatLessThanWellFounded DEF OpToRel

LEMMA SetInduction ==
  ASSUME NEW S, 0 \in S, \A n \in Nat : n \in S => n + 1 \in S
  PROVE  Nat \subseteq S
  <1> DEFINE T == Nat \ S
             R == {p \in Nat \X Nat : p[1] < p[2]}
  <1>1. SUFFICES ASSUME T # {} PROVE FALSE
    OBVIOUS
  <1>2. \E m \in T : \A k \in T : ~ (<<k, m>> \in R)
    <2>1. T \subseteq Nat /\ IsWellFoundedOn(R, Nat)
      BY LessIsWellFounded
    <2> HIDE DEF T, R
    <2> QED
      BY <1>1, <2>1, WFMin
  <1>3. PICK m \in T : \A k \in T : ~ (k < m)
    BY <1>2
  <1>4. m - 1 \in Nat /\ m - 1 \notin T
    BY <1>3
  <1> QED
    BY <1>3, <1>4

LEMMA ModuloIsByte == ASSUME NEW a \in Nat PROVE a % 256 \in 0 .. 255
  OBVIOUS

LEMMA NibblesOfByte == ASSUME NEW a \in 0 .. 255 PROVE a \div 16 \in 0 .. 15 /\ a % 16 \in 0 .. 15
  OBVIOUS

\* What Sum counts on.
Counted(sum, c) == (sum + c) % 256
Sums(f, s, n) == f = [i \in 0 .. n |-> IF i = 0 THEN 0 ELSE Counted(f[i - 1], s[i])]
TheSums(s) == CHOOSE f : Sums(f, s, Len(s))

LEMMA SumsNext ==
  ASSUME NEW f, NEW s, NEW n \in Nat, Sums(f, s, n), NEW k \in Nat, k + 1 <= n
  PROVE  f[k + 1] = Counted(f[k], s[k + 1])
  <1>1. k + 1 \in 0 .. n /\ k + 1 # 0 /\ (k + 1) - 1 = k
    OBVIOUS
  <1>2. f[k + 1] = Counted(f[(k + 1) - 1], s[k + 1])
    BY <1>1 DEF Sums
  <1> QED
    BY <1>1, <1>2

LEMMA SumIs == ASSUME NEW s PROVE Sum(s) = TheSums(s)[Len(s)]
  BY DEF Sum, TheSums, Sums, Counted

LEMMA SumsExist ==
  ASSUME NEW s \in Seq(Nat)
  PROVE  \E f \in [0 .. Len(s) -> 0 .. 255] : Sums(f, s, Len(s))
  <1> DEFINE S == {k \in Nat : k <= Len(s) => \E f \in [0 .. k -> 0 .. 255] : Sums(f, s, k)}
  <1>1. 0 \in S
    <2>1. Sums([i \in 0 .. 0 |-> 0], s, 0)
      BY DEF Sums
    <2> QED
      BY <2>1
  <1>2. ASSUME NEW k \in Nat, k \in S PROVE k + 1 \in S
    <2>1. SUFFICES ASSUME k + 1 <= Len(s)
                   PROVE  \E f \in [0 .. k + 1 -> 0 .. 255] : Sums(f, s, k + 1)
      OBVIOUS
    <2>2. PICK f \in [0 .. k -> 0 .. 255] : Sums(f, s, k)
      BY <1>2, <2>1
    <2> DEFINE new == Counted(f[k], s[k + 1])
               g == [i \in 0 .. k + 1 |-> IF i = k + 1 THEN new ELSE f[i]]
    <2>3. f[k] \in Nat /\ s[k + 1] \in Nat
      <3>1. k \in 0 .. k /\ k + 1 \in 1 .. Len(s) /\ 0 .. 255 \subseteq Nat
        BY <2>1
      <3>2. f[k] \in 0 .. 255
        BY <2>2, <3>1
      <3> QED
        BY <3>1, <3>2, ElementOfSeq
    <2>4. new \in 0 .. 255
      <3>1. f[k] + s[k + 1] \in Nat
        BY <2>3
      <3> QED
        BY <3>1, ModuloIsByte DEF Counted
    <2>5. g \in [0 .. k + 1 -> 0 .. 255]
      <3> HIDE DEF new
      <3> QED
        BY <2>2, <2>4
    <2>6. Sums(g, s, k + 1)
      BY <2>2 DEF Sums
    <2> QED
      BY <2>5, <2>6
  <1>3. Nat \subseteq S
    <2> HIDE DEF S
    <2> QED
      BY <1>1, <1>2, SetInduction
  <1>4. Len(s) \in Nat
    OBVIOUS
  <1> QED
    <2>1. Len(s) \in S
      <3> HIDE DEF S
      <3> QED
        BY <1>3, <1>4
    <2>2. Len(s) <= Len(s)
      BY <1>4
    <2> QED
      BY <2>1, <2>2

LEMMA TheSumsAre == ASSUME NEW s \in Seq(Nat) PROVE Sums(TheSums(s), s, Len(s))
  BY SumsExist DEF TheSums

LEMMA SumsAgree ==
  ASSUME NEW f, NEW g, NEW s, NEW n \in Nat, Sums(f, s, n), Sums(g, s, n),
         NEW k \in Nat, k + 1 <= n, g[k] = f[k]
  PROVE  g[k + 1] = f[k + 1]
  <1>1. f[k + 1] = Counted(f[k], s[k + 1])
    BY SumsNext
  <1>2. g[k + 1] = Counted(g[k], s[k + 1])
    BY SumsNext
  <1> QED
    BY <1>1, <1>2

\* A checksum is a byte.
LEMMA SumIsByte == ASSUME NEW s \in Seq(Nat) PROVE Sum(s) \in 0 .. 255
  <1>4. Len(s) \in Nat
    OBVIOUS
  <1>5. PICK f \in [0 .. Len(s) -> 0 .. 255] : Sums(f, s, Len(s))
    BY SumsExist
  <1>6. Sums(TheSums(s), s, Len(s))
    BY TheSumsAre
  <1> DEFINE g == TheSums(s)
             T == {k \in Nat : k <= Len(s) => g[k] = f[k]}
  <1>7. 0 \in T
    BY <1>5, <1>6 DEF Sums
  <1>8. ASSUME NEW k \in Nat, k \in T PROVE k + 1 \in T
    <2>1. SUFFICES ASSUME k + 1 <= Len(s) PROVE g[k + 1] = f[k + 1]
      OBVIOUS
    <2> HIDE DEF g
    <2>2. g[k] = f[k]
      BY <1>8, <2>1
    <2>3. Sums(f, s, Len(s)) /\ Sums(g, s, Len(s))
      BY <1>5, <1>6 DEF g
    <2> QED
      BY <1>4, <2>1, <2>2, <2>3, SumsAgree
  <1>9. Nat \subseteq T
    <2> HIDE DEF T
    <2> QED
      BY <1>7, <1>8, SetInduction
  <1>10. g[Len(s)] = f[Len(s)]
    <2>1. Len(s) \in T
      <3> HIDE DEF T
      <3> QED
        BY <1>4, <1>9
    <2>2. Len(s) <= Len(s)
      BY <1>4
    <2> QED
      BY <2>1, <2>2
  <1>11. f[Len(s)] \in 0 .. 255
    <2>1. Len(s) \in 0 .. Len(s)
      BY <1>4
    <2> QED
      BY <1>5, <2>1
  <1> QED
    BY <1>10, <1>11, SumIs

LEMMA DigitIsNat == ASSUME NEW n \in 0 .. 15 PROVE HexDigit[n] \in Nat
  BY DEF HexDigit

LEMMA DigitsAre ==
  ASSUME NEW s \in Seq(Nat) PROVE Digits(s) \in Seq(Nat) /\ Len(Digits(s)) = 3
  <1>1. Sum(s) \in 0 .. 255
    BY SumIsByte
  <1> DEFINE n == Sum(s)
  <1>2. n \div 16 \in 0 .. 15 /\ n % 16 \in 0 .. 15
    BY <1>1, NibblesOfByte
  <1>3. HexDigit[n \div 16] \in Nat /\ HexDigit[n % 16] \in Nat
    BY <1>2, DigitIsNat
  <1> QED
    BY <1>3 DEF Digits, Hash

LEMMA FrameIs == ASSUME NEW s \in Seq(Nat) PROVE Frame(s) \in Seq(Nat)
  BY DigitsAre DEF Frame, Dollar

-----------------------------------------------------------------------------
(* Types.                                                                  *)

\* The inductive invariant: what is on the way to the bridge, and what gdb may
\* have to send again, is characters.
LinkInv ==
    /\ TypeOK
    /\ wire \in Seq(Nat)
    /\ sent \in Seq(Seq(Nat))
    /\ gdbstate # "ready" => sent # <<>>

LEMMA LinkTypeInit == Init => LinkInv
  BY LinkAssumption DEF Init, LinkInv, TypeOK

\* A character is taken from the stream.
LEMMA ReaderTyped == ASSUME LinkInv, GdbRecv PROVE LinkInv'
  <1> DEFINE c == Head(wire)
  <1>1. c \in Nat /\ Tail(wire) \in Seq(Nat)
    BY DEF LinkInv, GdbRecv
  <1> HIDE DEF c
  <1>2. rxbuf' \in Seq(Nat) /\ Len(rxbuf') + 1 <= MaxPkt
    <2>1. CASE Idle(c)
      <3>1. rxbuf' = <<Dollar>> \/ rxbuf' = <<>> \/ rxbuf' = rxbuf
        BY <2>1 DEF Idle
      <3>2. <<Dollar>> \in Seq(Nat) /\ Len(<<Dollar>>) = 1
        BY DEF Dollar
      <3> QED
        <4>1. <<>> \in Seq(Nat) /\ Len(<<>>) = 0
          OBVIOUS
        <4>2. rxbuf \in Seq(Nat) /\ Len(rxbuf) + 1 <= MaxPkt
          BY DEF LinkInv, TypeOK
        <4>3. MaxPkt \in Nat /\ MaxPkt > 4
          BY LinkAssumption
        <4>4. CASE rxbuf' = <<Dollar>>
          BY <3>2, <4>3, <4>4
        <4>5. CASE rxbuf' = <<>>
          BY <4>1, <4>3, <4>5
        <4>6. CASE rxbuf' = rxbuf
          BY <4>2, <4>6
        <4> QED
          BY <3>1, <4>4, <4>5, <4>6
    <2>2. CASE Recv(c)
      <3>1. CASE c = Hash
        BY <2>2, <3>1 DEF Recv, LinkInv, TypeOK
      <3>2. CASE c # Hash /\ RxFull
        BY <2>2, <3>2, LinkAssumption DEF Recv
      <3>3. CASE c # Hash /\ ~RxFull
        <4>1. rxbuf' = Append(rxbuf, c)
          BY <2>2, <3>3 DEF Recv
        <4>2. rxbuf \in Seq(Nat) /\ Len(rxbuf) + 1 <= MaxPkt /\ Len(rxbuf) # MaxPkt - 1
          BY <3>3 DEF LinkInv, TypeOK, RxFull
        <4>3. rxbuf' \in Seq(Nat) /\ Len(rxbuf') = Len(rxbuf) + 1
          BY <1>1, <4>1, <4>2
        <4> QED
          BY <4>2, <4>3, LinkAssumption
      <3> QED
        BY <3>1, <3>2, <3>3
    <2>3. CASE Chk1(c)
      BY <2>3 DEF Chk1, LinkInv, TypeOK
    <2>4. CASE Chk2(c)
      BY <2>4 DEF Chk2, LinkInv, TypeOK
    <2> QED
      BY <2>1, <2>2, <2>3, <2>4 DEF GdbRecv, c
  <1>3. state' \in {"idle", "recv", "chk1", "chk2"}
    BY DEF GdbRecv, Idle, Recv, Chk1, Chk2, LinkInv, TypeOK
  <1>4. rxsum' \in 0 .. 255
    <2>1. CASE Idle(c)
      <3>1. rxsum' = 0 \/ rxsum' = rxsum
        BY <2>1 DEF Idle
      <3> QED
        <4>1. rxsum \in 0 .. 255 /\ 0 \in 0 .. 255
          BY DEF LinkInv, TypeOK
        <4> QED
          BY <3>1, <4>1
    <2>2. CASE Recv(c)
      <3>1. Added(c) \in 0 .. 255
        BY <1>1 DEF Added, LinkInv, TypeOK
      <3> QED
        BY <2>2, <3>1 DEF Recv, LinkInv, TypeOK
    <2>3. CASE Chk1(c)
      BY <2>3 DEF Chk1, LinkInv, TypeOK
    <2>4. CASE Chk2(c)
      BY <2>4 DEF Chk2, LinkInv, TypeOK
    <2> QED
      BY <2>1, <2>2, <2>3, <2>4 DEF GdbRecv, c
  <1>5. ack' \in BOOLEAN
    BY DEF GdbRecv, Idle, Recv, Chk1, Chk2, Handle, LinkInv, TypeOK
  <1>6. UNCHANGED <<sent, gdbstate, gdback, got, faults>> /\ wire' = Tail(wire)
    BY DEF GdbRecv, client
  <1> QED
    BY <1>1, <1>2, <1>3, <1>4, <1>5, <1>6 DEF LinkInv, TypeOK

LEMMA LastIs == ASSUME LinkInv, gdbstate # "ready" PROVE Last \in Seq(Nat)
  BY DEF LinkInv, Last

LEMMA LinkTypeStep == LinkInv /\ [Next]_vars => LinkInv'
  <1> SUFFICES ASSUME LinkInv, [Next]_vars PROVE LinkInv'
    OBVIOUS
  <1> USE DEF reader, client
  <1>0. /\ wire \in Seq(Nat) /\ sent \in Seq(Seq(Nat))
        /\ faults \in 0 .. MaxFaults
    BY DEF LinkInv, TypeOK
  <1>1. CASE GdbRecv
    BY <1>1, ReaderTyped
  <1>2. ASSUME NEW cmd \in Commands, SendCommand(cmd) PROVE LinkInv'
    <2>1. cmd \in Seq(Nat) /\ Frame(cmd) \in Seq(Nat)
      BY LinkAssumption, FrameIs
    <2>2. wire' \in Seq(Nat) /\ sent' \in Seq(Seq(Nat)) /\ sent' # <<>>
      <3>1. wire' = wire \o Frame(cmd) /\ sent' = Append(sent, cmd)
        BY <1>2 DEF SendCommand
      <3>3. wire' \in Seq(Nat)
        BY <2>1, <3>1, <1>0, ConcatProperties
      <3>4. sent' \in Seq(Seq(Nat)) /\ sent' # <<>>
        <4> DEFINE S == Seq(Nat)
        <4>1. sent \in Seq(S) /\ cmd \in S
          BY <1>0, <2>1
        <4> HIDE DEF S
        <4>2. Append(sent, cmd) \in Seq(S) /\ Append(sent, cmd) # <<>>
          BY <4>1, AppendProperties
        <4> QED
          BY <3>1, <4>2 DEF S
      <3> QED
        BY <3>3, <3>4
    <2> QED
      BY <1>2, <2>2 DEF SendCommand, LinkInv, TypeOK
  <1>3. CASE Resend
    <2>1. Frame(Last) \in Seq(Nat)
      BY <1>3, LastIs, FrameIs DEF Resend
    <2> QED
      BY <1>3, <2>1 DEF Resend, LinkInv, TypeOK
  <1>4. CASE GiveUp
    BY <1>4 DEF GiveUp, LinkInv, TypeOK
  <1>5. CASE GetAck
    BY <1>5 DEF GetAck, LinkInv, TypeOK
  <1>6. CASE Skip
    BY <1>6 DEF Skip, LinkInv, TypeOK
  <1>7. CASE GetPacket
    <2>1. CASE Head(back) \in {Plus, Minus}
      BY <1>7, <2>1 DEF GetPacket, LinkInv, TypeOK
    <2>2. CASE Head(back) \notin {Plus, Minus}
      <3>1. wire' \in Seq(Nat)
        <4>1. Plus \in Seq(Nat)
          BY DEF Plus
        <4> QED
          BY <1>7, <2>2, <1>0, <4>1, ConcatProperties DEF GetPacket
      <3>2. gdbstate' \in {"ready", "answer"} /\ gdbstate = "answer"
        BY <1>7, <2>2 DEF GetPacket
      <3>3. gdback' \in BOOLEAN
        BY <1>7, <2>2 DEF GetPacket, LinkInv, TypeOK
      <3>4. UNCHANGED <<reader, faults, sent>>
        BY <1>7, <2>2 DEF GetPacket
      <3> QED
        BY <3>1, <3>2, <3>3, <3>4 DEF LinkInv, TypeOK
    <2> QED
      BY <2>1, <2>2
  <1>8. CASE TypeBreak
    <2>1. <<Dollar>> \in Seq(Nat) /\ Break \in Nat
      BY DEF Dollar, Break
    <2>2. wire' = Append(wire, Break) /\ sent' = Append(sent, <<Dollar>>)
      BY <1>8 DEF TypeBreak
    <2>3. wire' \in Seq(Nat) /\ sent' \in Seq(Seq(Nat)) /\ sent' # <<>>
      <3> DEFINE S == Seq(Nat)
      <3>1. sent \in Seq(S) /\ <<Dollar>> \in S /\ wire \in Seq(Nat)
        BY <1>0, <2>1
      <3> HIDE DEF S
      <3>2. Append(sent, <<Dollar>>) \in Seq(S) /\ Append(sent, <<Dollar>>) # <<>>
        BY <3>1, AppendProperties
      <3>3. Append(wire, Break) \in Seq(Nat)
        BY <2>1, <3>1, AppendProperties
      <3> QED
        BY <2>2, <3>2, <3>3 DEF S
    <2> QED
      BY <1>8, <2>3 DEF TypeBreak, LinkInv, TypeOK
  <1>9. CASE Spoil
    <2>1. PICK i \in DOMAIN wire, c \in Noise : wire' = [wire EXCEPT ![i] = c]
      BY <1>9 DEF Spoil
    <2>2. wire' \in Seq(Nat)
      <3>1. i \in 1 .. Len(wire) /\ c \in Nat /\ wire \in Seq(Nat)
        <4>1. DOMAIN wire = 1 .. Len(wire)
          BY <1>0
        <4>2. c \in Nat
          BY LinkAssumption
        <4> QED
          BY <1>0, <4>1, <4>2
      <3> QED
        BY <2>1, <3>1, ExceptSeq
    <2>3. faults' \in 0 .. MaxFaults
      <3>1. faults < MaxFaults /\ faults' = faults + 1 /\ faults \in 0 .. MaxFaults
        BY <1>0, <1>9 DEF Spoil
      <3>2. MaxFaults \in Nat
        BY LinkAssumption
      <3> QED
        BY <3>1, <3>2
    <2> QED
      BY <1>9, <2>2, <2>3 DEF Spoil, LinkInv, TypeOK
  <1>10. CASE UNCHANGED vars
    BY <1>10 DEF vars, LinkInv, TypeOK
  <1> QED
    BY <1>1, <1>2, <1>3, <1>4, <1>5, <1>6, <1>7, <1>8, <1>9, <1>10 DEF Next

LEMMA LinkTyped == Spec => []LinkInv
  BY LinkTypeInit, LinkTypeStep, PTL DEF Spec

\* The packet, with the 0 that ends it, never leaves rxbuf, whatever comes.
THEOREM LinkTypeCorrect == Spec => []TypeOK
  <1>1. LinkInv => TypeOK
    BY DEF LinkInv
  <1> QED
    BY <1>1, LinkTyped, PTL

-----------------------------------------------------------------------------
(* What the bridge sends.                                                  *)

IsPacket(p) ==
    \E cmd \in DOMAIN Replies : \E j \in DOMAIN Replies[cmd] : p = Frame(Replies[cmd][j])
WholePackets == {p \in Seq(Nat) : IsPacket(p)}
Items == {Plus, Minus} \cup WholePackets

\* A packet is sent as it should be or not at all: the buffer has room for the
\* checksum too, or is full.
LEMMA FramedWhole ==
  ASSUME NEW s \in Seq(Nat) PROVE Framed(s) = <<>> \/ Framed(s) = <<Frame(s)>>
  <1> DEFINE b == <<Dollar>> \o s
             body == Put(<<Dollar>>, s)
             d == Digits(Tail(body))
             buf == Put(body, d)
  <1>1. b \in Seq(Nat) /\ Len(b) = Len(s) + 1 /\ Tail(b) = s
    BY DEF Dollar
  <1>2. MaxPkt \in Nat /\ MaxPkt > 4
    BY LinkAssumption
  <1>3. CASE Len(b) < MaxPkt
    <2>1. body = b
      BY <1>3 DEF Put
    <2>2. d \in Seq(Nat) /\ Len(d) = 3 /\ d = Digits(s)
      BY <1>1, <2>1, DigitsAre
    <2> HIDE DEF b, d, body
    <2>3. CASE Len(body \o d) < MaxPkt
      <3>1. buf = b \o Digits(s)
        BY <2>1, <2>2, <2>3 DEF Put
      <3>2. buf = Frame(s)
        BY <3>1 DEF Frame, b
      <3> QED
        BY <3>2 DEF Framed, body, d
    <2>4. CASE ~ (Len(body \o d) < MaxPkt)
      <3>1. buf = SubSeq(body \o d, 1, MaxPkt - 1)
        BY <2>4 DEF Put
      <3>2. body \o d \in Seq(Nat) /\ Len(body \o d) \in Nat
        BY <1>1, <2>1, <2>2
      <3>3. Len(buf) = MaxPkt - 1
        BY <1>2, <2>4, <3>1, <3>2, SubSeqProperties
      <3> QED
        BY <3>3 DEF Framed, body, d, TxFull
    <2> QED
      BY <2>3, <2>4
  <1>4. CASE ~ (Len(b) < MaxPkt)
    <2>1. body = SubSeq(b, 1, MaxPkt - 1)
      BY <1>4 DEF Put
    <2>2. body \in Seq(Nat) /\ Len(body) = MaxPkt - 1
      <3> HIDE DEF b
      <3>1. Len(b) \in Nat /\ MaxPkt - 1 \in Nat /\ MaxPkt - 1 <= Len(b)
        BY <1>1, <1>2, <1>4
      <3>2. \A i \in 1 .. MaxPkt - 1 : b[i] \in Nat
        BY <1>1, <3>1
      <3> DEFINE c == SubSeq(b, 1, MaxPkt - 1)
      <3>3. c \in Seq(Nat) /\ Len(c) = IF 1 <= MaxPkt - 1 THEN (MaxPkt - 1) - 1 + 1 ELSE 0
        BY <3>1, <3>2, SubSeqProperties
      <3> HIDE DEF c
      <3>4. Len(c) = MaxPkt - 1
        BY <1>2, <3>3
      <3> QED
        BY <2>1, <3>3, <3>4 DEF c
    <2>3. Tail(body) \in Seq(Nat)
      <3>1. body # <<>>
        BY <1>2, <2>2
      <3> QED
        BY <2>2, <3>1, HeadTailProperties
    <2>4. d \in Seq(Nat) /\ Len(d) = 3
      BY <2>3, DigitsAre
    <2> HIDE DEF b, d, body
    <2>5. body \o d \in Seq(Nat) /\ Len(body \o d) = MaxPkt + 2
      <3>1. Len(body \o d) = Len(body) + Len(d)
        BY <2>2, <2>4, ConcatProperties
      <3>2. body \o d \in Seq(Nat)
        BY <2>2, <2>4, ConcatProperties
      <3> QED
        BY <1>2, <2>2, <2>4, <3>1, <3>2
    <2>6. buf = SubSeq(body \o d, 1, MaxPkt - 1)
      BY <1>2, <2>5 DEF Put
    <2>7. Len(buf) = MaxPkt - 1
      BY <1>2, <2>5, <2>6, SubSeqProperties
    <2> QED
      BY <2>7 DEF Framed, body, d, TxFull
  <1> QED
    BY <1>3, <1>4

\* What Answer counts on.
Send(out, s) == out \o Framed(s)
Answers(f, r, n) ==
    f = [i \in 0 .. n |-> IF i = 0 THEN <<>> ELSE Send(f[i - 1], r[i])]
TheAnswers(r) == CHOOSE f : Answers(f, r, Len(r))
Lines(cmd) == IF cmd \in DOMAIN Replies THEN Replies[cmd] ELSE <<>>

LEMMA AnswerIs == ASSUME NEW cmd PROVE Answer(cmd) = TheAnswers(Lines(cmd))[Len(Lines(cmd))]
  BY DEF Answer, TheAnswers, Answers, Send, Lines

LEMMA LineSent ==
  ASSUME NEW cmd, NEW i \in 1 .. Len(Lines(cmd))
  PROVE  Framed(Lines(cmd)[i]) \in Seq(WholePackets)
  <1>1. cmd \in DOMAIN Replies /\ Lines(cmd) = Replies[cmd]
    <2>1. Lines(cmd) # <<>>
      OBVIOUS
    <2> QED
      BY <2>1 DEF Lines
  <1>2. Replies[cmd] \in Seq(Seq(Nat))
    BY <1>1, LinkAssumption
  <1> DEFINE s == Replies[cmd][i]
  <1>3. i \in DOMAIN Replies[cmd] /\ s \in Seq(Nat)
    <2> DEFINE S == Seq(Nat)
    <2>1. Replies[cmd] \in Seq(S) /\ i \in 1 .. Len(Replies[cmd])
      BY <1>1, <1>2
    <2> HIDE DEF S
    <2>2. Replies[cmd][i] \in S /\ i \in DOMAIN Replies[cmd]
      BY <2>1, ElementOfSeq
    <2> QED
      BY <2>2 DEF S
  <1>4. Frame(s) \in WholePackets
    BY <1>1, <1>3, FrameIs DEF WholePackets, IsPacket
  <1>5. Framed(s) = <<>> \/ Framed(s) = <<Frame(s)>>
    BY <1>3, FramedWhole
  <1> HIDE DEF s
  <1>6. Framed(s) \in Seq(WholePackets)
    <2> DEFINE p == Frame(s)
    <2>1. p \in WholePackets
      BY <1>4
    <2> HIDE DEF p
    <2>2. <<>> \in Seq(WholePackets) /\ <<p>> \in Seq(WholePackets)
      BY <2>1
    <2> QED
      BY <1>5, <2>2 DEF p
  <1> QED
    BY <1>1, <1>6 DEF s

LEMMA AnswersExist ==
  ASSUME NEW r, Len(r) \in Nat PROVE Answers(TheAnswers(r), r, Len(r))
  <1> DEFINE S == {k \in Nat : k <= Len(r) => \E f : Answers(f, r, k)}
  <1>1. 0 \in S
    <2>1. Answers([i \in 0 .. 0 |-> <<>>], r, 0)
      BY DEF Answers
    <2> QED
      BY <2>1
  <1>2. ASSUME NEW k \in Nat, k \in S PROVE k + 1 \in S
    <2>1. SUFFICES ASSUME k + 1 <= Len(r) PROVE \E f : Answers(f, r, k + 1)
      OBVIOUS
    <2>2. PICK f : Answers(f, r, k)
      BY <1>2, <2>1
    <2> DEFINE new == Send(f[k], r[k + 1])
               h == [i \in 0 .. k + 1 |-> IF i = k + 1 THEN new ELSE f[i]]
    <2>3. Answers(h, r, k + 1)
      BY <2>2 DEF Answers
    <2> QED
      BY <2>3
  <1>3. Nat \subseteq S
    <2> HIDE DEF S
    <2> QED
      BY <1>1, <1>2, SetInduction
  <1>4. \E f : Answers(f, r, Len(r))
    BY <1>3
  <1> QED
    BY <1>4 DEF TheAnswers

LEMMA AnswerWhole == ASSUME NEW cmd PROVE Answer(cmd) \in Seq(WholePackets)
  <1> DEFINE r == Lines(cmd)
             g == TheAnswers(r)
             T == {k \in Nat : k <= Len(r) => g[k] \in Seq(WholePackets)}
  <1>0. Len(r) \in Nat /\ Len(r) <= Len(r)
    BY LinkAssumption DEF Lines
  <1>5. Answers(g, r, Len(r))
    BY <1>0, AnswersExist
  <1> HIDE DEF g, r
  <1>6. 0 \in T
    BY <1>0, <1>5 DEF Answers
  <1>7. ASSUME NEW k \in Nat, k \in T PROVE k + 1 \in T
    <2>1. SUFFICES ASSUME k + 1 <= Len(r) PROVE g[k + 1] \in Seq(WholePackets)
      OBVIOUS
    <2>2. g[k] \in Seq(WholePackets)
      BY <1>0, <1>7, <2>1
    <2>3. g[k + 1] = g[k] \o Framed(r[k + 1])
      <3>1. g[k + 1] = Send(g[k], r[k + 1])
        BY <1>0, <1>5, <2>1 DEF Answers
      <3> QED
        BY <3>1 DEF Send
    <2>4. Framed(r[k + 1]) \in Seq(WholePackets)
      BY <1>0, <2>1, LineSent DEF r
    <2> QED
      BY <2>2, <2>3, <2>4, ConcatProperties
  <1>8. Nat \subseteq T
    <2> HIDE DEF T
    <2> QED
      BY <1>6, <1>7, SetInduction
  <1>9. g[Len(r)] \in Seq(WholePackets)
    <2>1. Len(r) \in T
      <3> HIDE DEF T
      <3> QED
        BY <1>0, <1>8
    <2> QED
      BY <1>0, <2>1
  <1> QED
    BY <1>9, AnswerIs DEF g, r

\* The inductive invariant: acknowledgements and whole packets.
BackInv == back \in Seq(Items) /\ got \in Seq(WholePackets)

LEMMA AnswerItems == ASSUME NEW cmd PROVE Answer(cmd) \in Seq(Items)
  <1>1. WholePackets \subseteq Items
    BY DEF Items
  <1> QED
    BY <1>1, AnswerWhole, SeqMonotonic

LEMMA BackInit == Init => BackInv
  BY DEF Init, BackInv

LEMMA BackReader == ASSUME BackInv, GdbRecv PROVE back' \in Seq(Items)
  <1> DEFINE c == Head(wire)
             b == Answer(<<Dollar>>)
             r == Answer(rxbuf)
  <1>1. back \in Seq(Items) /\ b \in Seq(Items) /\ r \in Seq(Items)
    BY AnswerItems DEF BackInv
  <1>2. Acknowledge(Plus) \in Seq(Items) /\ Acknowledge(Minus) \in Seq(Items)
    <2>1. Plus \in Items /\ Minus \in Items
      BY DEF Items
    <2> QED
      BY <2>1 DEF Acknowledge
  <1>3. \/ back' = back
        \/ back' = back \o b
        \/ back' = back \o Acknowledge(Plus) \o r
        \/ back' = back \o Acknowledge(Minus)
    BY DEF GdbRecv, Idle, Recv, Chk1, Chk2
  <1> HIDE DEF b, r
  <1>4. back \o b \in Seq(Items)
    BY <1>1, ConcatProperties
  <1>5. back \o Acknowledge(Plus) \in Seq(Items) /\ back \o Acknowledge(Minus) \in Seq(Items)
    BY <1>1, <1>2, ConcatProperties
  <1>6. back \o Acknowledge(Plus) \o r \in Seq(Items)
    BY <1>1, <1>5, ConcatProperties
  <1> QED
    BY <1>1, <1>3, <1>4, <1>5, <1>6

LEMMA BackStep == BackInv /\ [Next]_vars => BackInv'
  <1> SUFFICES ASSUME BackInv, [Next]_vars PROVE BackInv'
    OBVIOUS
  <1> USE DEF reader, client
  <1>0. back \in Seq(Items) /\ got \in Seq(WholePackets)
    BY DEF BackInv
  <1>1. back # <<>> => Head(back) \in Items /\ Tail(back) \in Seq(Items)
    BY <1>0, HeadTailProperties
  <1>2. CASE GdbRecv
    BY <1>0, <1>2, BackReader DEF GdbRecv, BackInv
  <1>3. ASSUME NEW cmd, SendCommand(cmd) PROVE BackInv'
    BY <1>0, <1>3 DEF SendCommand, BackInv
  <1>4. CASE Resend
    BY <1>0, <1>1, <1>4 DEF Resend, BackInv
  <1>5. CASE GiveUp
    BY <1>0, <1>5 DEF GiveUp, BackInv
  <1>6. CASE GetAck
    BY <1>0, <1>1, <1>6 DEF GetAck, BackInv
  <1>7. CASE Skip
    BY <1>0, <1>1, <1>7 DEF Skip, BackInv
  <1>8. CASE GetPacket
    <2>1. back' \in Seq(Items)
      BY <1>1, <1>8 DEF GetPacket
    <2>2. CASE Head(back) \in {Plus, Minus}
      BY <1>0, <1>8, <2>1, <2>2 DEF GetPacket, BackInv
    <2>3. CASE Head(back) \notin {Plus, Minus}
      <3>1. Head(back) \in WholePackets
        BY <1>1, <1>8, <2>3 DEF GetPacket, Items
      <3>2. got' = Append(got, Head(back))
        BY <1>8, <2>3 DEF GetPacket
      <3>3. got' \in Seq(WholePackets)
        BY <1>0, <3>1, <3>2, AppendProperties
      <3> QED
        BY <2>1, <3>3 DEF BackInv
    <2> QED
      BY <2>2, <2>3
  <1>9. CASE TypeBreak
    BY <1>0, <1>9 DEF TypeBreak, BackInv
  <1>10. CASE Spoil
    BY <1>0, <1>10 DEF Spoil, BackInv
  <1>11. CASE UNCHANGED vars
    BY <1>0, <1>11 DEF vars, BackInv
  <1> QED
    BY <1>2, <1>3, <1>4, <1>5, <1>6, <1>7, <1>8, <1>9, <1>10, <1>11 DEF Next

\* What gdb gets are answers in full: none has lost its end, or the lines
\* before it, to the size of the transmit buffer.
THEOREM PacketsWhole == Spec => []TxWhole
  <1>1. BackInv => TxWhole
    <2> SUFFICES ASSUME BackInv, NEW i \in DOMAIN got PROVE IsPacket(got[i])
      BY DEF TxWhole, IsPacket
    <2>1. got[i] \in WholePackets
      BY ElementOfSeq DEF BackInv
    <2> QED
      BY <2>1 DEF WholePackets
  <1> QED
    BY <1>1, BackInit, BackStep, PTL DEF Spec

-----------------------------------------------------------------------------
(* Commands are handled once.                                              *)

\* What Without counts on.
Keep(kept, e, S) == IF e \in S THEN kept ELSE Append(kept, e)
Keeps(f, s, S, n) ==
    f = [i \in 0 .. n |-> IF i = 0 THEN <<>> ELSE Keep(f[i - 1], s[i], S)]
TheKept(s, S) == CHOOSE f : Keeps(f, s, S, Len(s))

LEMMA WithoutIs == ASSUME NEW s, NEW S PROVE Without(s, S) = TheKept(s, S)[Len(s)]
  BY DEF Without, TheKept, Keeps, Keep

LEMMA KeepsExist ==
  ASSUME NEW s, NEW S, Len(s) \in Nat PROVE Keeps(TheKept(s, S), s, S, Len(s))
  <1> DEFINE E == {k \in Nat : k <= Len(s) => \E f : Keeps(f, s, S, k)}
  <1>1. 0 \in E
    <2>1. Keeps([i \in 0 .. 0 |-> <<>>], s, S, 0)
      BY DEF Keeps
    <2> QED
      BY <2>1
  <1>2. ASSUME NEW k \in Nat, k \in E PROVE k + 1 \in E
    <2>1. SUFFICES ASSUME k + 1 <= Len(s) PROVE \E f : Keeps(f, s, S, k + 1)
      OBVIOUS
    <2>2. PICK f : Keeps(f, s, S, k)
      BY <1>2, <2>1
    <2> DEFINE new == Keep(f[k], s[k + 1], S)
               h == [i \in 0 .. k + 1 |-> IF i = k + 1 THEN new ELSE f[i]]
    <2>3. Keeps(h, s, S, k + 1)
      BY <2>2 DEF Keeps
    <2> QED
      BY <2>3
  <1>3. Nat \subseteq E
    <2> HIDE DEF E
    <2> QED
      BY <1>1, <1>2, SetInduction
  <1>4. \E f : Keeps(f, s, S, Len(s))
    BY <1>3
  <1> QED
    BY <1>4 DEF TheKept

LEMMA WithoutNothing == ASSUME NEW S PROVE Without(<<>>, S) = <<>>
  <1>1. Len(<<>>) = 0
    OBVIOUS
  <1>2. Keeps(TheKept(<<>>, S), <<>>, S, 0)
    BY <1>1, KeepsExist
  <1>3. TheKept(<<>>, S)[0] = <<>>
    BY <1>2 DEF Keeps
  <1> QED
    BY <1>1, <1>3, WithoutIs

\* Without goes through a sequence from its first element to its last.
LEMMA WithoutAppend ==
  ASSUME NEW T, NEW s \in Seq(T), NEW e \in T, NEW S
  PROVE  Without(Append(s, e), S) =
            IF e \in S THEN Without(s, S) ELSE Append(Without(s, S), e)
  <1> DEFINE t == Append(s, e)
             n == Len(s)
             f == TheKept(s, S)
             g == TheKept(t, S)
             E == {k \in Nat : k <= n => g[k] = f[k]}
  <1>1. n \in Nat /\ Len(t) = n + 1 /\ t[n + 1] = e /\ \A i \in 1 .. n : t[i] = s[i]
    OBVIOUS
  <1>2. Keeps(f, s, S, n) /\ Keeps(g, t, S, n + 1)
    <2>1. Len(s) \in Nat /\ Len(t) \in Nat
      BY <1>1
    <2> HIDE DEF t
    <2>2. Keeps(f, s, S, Len(s)) /\ Keeps(g, t, S, Len(t))
      BY <2>1, KeepsExist
    <2> QED
      BY <1>1, <2>2
  <1> HIDE DEF f, g, n, t
  <1>3. 0 \in E
    BY <1>1, <1>2 DEF Keeps
  <1>4. ASSUME NEW k \in Nat, k \in E PROVE k + 1 \in E
    <2>1. SUFFICES ASSUME k + 1 <= n PROVE g[k + 1] = f[k + 1]
      OBVIOUS
    <2>2. g[k] = f[k] /\ t[k + 1] = s[k + 1]
      BY <1>1, <1>4, <2>1
    <2>3. g[k + 1] = Keep(g[k], t[k + 1], S)
      BY <1>1, <1>2, <2>1 DEF Keeps
    <2>4. f[k + 1] = Keep(f[k], s[k + 1], S)
      BY <1>1, <1>2, <2>1 DEF Keeps
    <2> QED
      BY <2>2, <2>3, <2>4
  <1>5. Nat \subseteq E
    <2> HIDE DEF E
    <2> QED
      BY <1>3, <1>4, SetInduction
  <1>6. g[n] = f[n]
    BY <1>1, <1>5
  <1>7. g[n + 1] = Keep(g[n], e, S)
    <2>1. g[n + 1] = Keep(g[n], t[n + 1], S)
      BY <1>1, <1>2 DEF Keeps
    <2> QED
      BY <1>1, <2>1
  <1>8. Without(s, S) = f[n] /\ Without(t, S) = g[n + 1]
    <2>1. Without(s, S) = TheKept(s, S)[Len(s)] /\ Without(t, S) = TheKept(t, S)[Len(t)]
      BY WithoutIs
    <2> QED
      BY <1>1, <2>1 DEF f, g, n
  <1> QED
    BY <1>6, <1>7, <1>8 DEF t, Keep

LEMMA WithoutType ==
  ASSUME NEW T, NEW s \in Seq(T), NEW S PROVE Without(s, S) \in Seq(T)
  <1> DEFINE f == TheKept(s, S)
             E == {k \in Nat : k <= Len(s) => f[k] \in Seq(T)}
  <1>1. Len(s) \in Nat /\ Keeps(f, s, S, Len(s))
    BY KeepsExist
  <1> HIDE DEF f
  <1>2. 0 \in E
    BY <1>1 DEF Keeps
  <1>3. ASSUME NEW k \in Nat, k \in E PROVE k + 1 \in E
    <2>1. SUFFICES ASSUME k + 1 <= Len(s) PROVE f[k + 1] \in Seq(T)
      OBVIOUS
    <2>2. f[k] \in Seq(T) /\ s[k + 1] \in T
      BY <1>1, <1>3, <2>1
    <2>3. f[k + 1] = Keep(f[k], s[k + 1], S)
      BY <1>1, <2>1 DEF Keeps
    <2> QED
      BY <2>2, <2>3 DEF Keep
  <1>4. Nat \subseteq E
    <2> HIDE DEF E
    <2> QED
      BY <1>2, <1>3, SetInduction
  <1> QED
    BY <1>1, <1>4, WithoutIs DEF f

LEMMA SumOfNothing == Sum(<<>>) = 0
  <1>1. <<>> \in Seq(Nat) /\ Len(<<>>) = 0
    OBVIOUS
  <1>2. Sums(TheSums(<<>>), <<>>, 0)
    BY <1>1, TheSumsAre
  <1>3. TheSums(<<>>)[0] = 0
    BY <1>2 DEF Sums
  <1> QED
    BY <1>1, <1>3, SumIs

\* The sum of the bytes so far is what the reader keeps.
LEMMA SumAppend ==
  ASSUME NEW s \in Seq(Nat), NEW c \in Nat
  PROVE  Sum(Append(s, c)) = (Sum(s) + c) % 256
  <1> DEFINE t == Append(s, c)
             n == Len(s)
             f == TheSums(s)
             g == TheSums(t)
             E == {k \in Nat : k <= n => g[k] = f[k]}
  <1>1. /\ n \in Nat /\ t \in Seq(Nat) /\ Len(t) = n + 1 /\ t[n + 1] = c
        /\ \A i \in 1 .. n : t[i] = s[i]
    OBVIOUS
  <1>2. Sums(f, s, n) /\ Sums(g, t, n + 1)
    BY <1>1, TheSumsAre
  <1> HIDE DEF f, g, n, t
  <1>3. 0 \in E
    BY <1>1, <1>2 DEF Sums
  <1>4. ASSUME NEW k \in Nat, k \in E PROVE k + 1 \in E
    <2>1. SUFFICES ASSUME k + 1 <= n PROVE g[k + 1] = f[k + 1]
      OBVIOUS
    <2>2. g[k] = f[k] /\ t[k + 1] = s[k + 1]
      BY <1>1, <1>4, <2>1
    <2>3. g[k + 1] = Counted(g[k], t[k + 1])
      <3>1. n + 1 \in Nat /\ k + 1 <= n + 1
        BY <1>1, <2>1
      <3> QED
        BY <1>2, <3>1, SumsNext
    <2>4. f[k + 1] = Counted(f[k], s[k + 1])
      BY <1>1, <1>2, <2>1, SumsNext
    <2> QED
      BY <2>2, <2>3, <2>4
  <1>5. Nat \subseteq E
    <2> HIDE DEF E
    <2> QED
      BY <1>3, <1>4, SetInduction
  <1>6. g[n] = f[n]
    BY <1>1, <1>5
  <1>7. g[n + 1] = Counted(g[n], c)
    <2>1. g[n + 1] = Counted(g[n], t[n + 1])
      BY <1>1, <1>2 DEF Sums
    <2> QED
      BY <1>1, <2>1
  <1>8. Sum(s) = f[n] /\ Sum(t) = g[n + 1]
    <2>1. Sum(s) = TheSums(s)[Len(s)] /\ Sum(t) = TheSums(t)[Len(t)]
      BY SumIs
    <2> QED
      BY <1>1, <2>1 DEF f, g, n
  <1> QED
    BY <1>6, <1>7, <1>8 DEF t, Counted

LEMMA HexDigits ==
  ASSUME NEW n \in 0 .. 15 PROVE HexDigit[n] \in 48 .. 102 /\ IsHex(HexDigit[n])
  BY DEF HexDigit, IsHex

LEMMA HexValues == ASSUME NEW n \in 0 .. 15 PROVE HexValue(HexDigit[n]) = n
  <1>1. \A m \in 0 .. 15 : HexDigit[m] = HexDigit[n] => m = n
    BY DEF HexDigit
  <1> QED
    BY <1>1 DEF HexValue

\* What is sent as two digits is read as what it was.
LEMMA DigitsReadBack ==
  ASSUME NEW n \in 0 .. 255 PROVE Strtoul(HexDigit[n \div 16], HexDigit[n % 16]) = n
  <1>1. n \div 16 \in 0 .. 15 /\ n % 16 \in 0 .. 15
    BY NibblesOfByte
  <1>2. 16 * (n \div 16) + (n % 16) = n
    OBVIOUS
  <1> QED
    BY <1>1, <1>2, HexDigits, HexValues DEF Strtoul

\* The characters of a packet.
LEMMA FrameChars ==
  ASSUME NEW s \in Seq(Nat)
  PROVE  /\ Len(Frame(s)) = Len(s) + 4
         /\ Frame(s)[1] = Dollar
         /\ \A i \in 1 .. Len(s) : Frame(s)[i + 1] = s[i]
         /\ Frame(s)[Len(s) + 2] = Hash
         /\ Frame(s)[Len(s) + 3] = HexDigit[Sum(s) \div 16]
         /\ Frame(s)[Len(s) + 4] = HexDigit[Sum(s) % 16]
  <1> DEFINE d == Digits(s)
  <1>1. d \in Seq(Nat) /\ Len(d) = 3
    BY DigitsAre
  <1>2. d[1] = Hash /\ d[2] = HexDigit[Sum(s) \div 16] /\ d[3] = HexDigit[Sum(s) % 16]
    BY DEF Digits
  <1> DEFINE b == <<Dollar>> \o s
  <1>3. /\ b \in Seq(Nat) /\ Len(b) = Len(s) + 1 /\ b[1] = Dollar
        /\ \A i \in 1 .. Len(s) : b[i + 1] = s[i]
    BY DEF Dollar
  <1>4. Frame(s) = b \o d
    BY DEF Frame
  <1> HIDE DEF b, d
  <1>5. /\ Len(b \o d) = Len(b) + Len(d)
        /\ \A i \in 1 .. Len(b) : (b \o d)[i] = b[i]
        /\ \A i \in 1 .. Len(d) : (b \o d)[Len(b) + i] = d[i]
    <2>1. b \in Seq(Nat) /\ d \in Seq(Nat)
      BY <1>1, <1>3
    <2> QED
      BY <2>1
  <1>6. Len(s) \in Nat
    OBVIOUS
  <1>7. /\ (b \o d)[Len(s) + 2] = d[1] /\ (b \o d)[Len(s) + 3] = d[2]
        /\ (b \o d)[Len(s) + 4] = d[3]
    <2>1. /\ 1 \in 1 .. Len(d) /\ 2 \in 1 .. Len(d) /\ 3 \in 1 .. Len(d)
          /\ Len(b) + 1 = Len(s) + 2 /\ Len(b) + 2 = Len(s) + 3 /\ Len(b) + 3 = Len(s) + 4
      BY <1>1, <1>3, <1>6
    <2> QED
      BY <1>5, <2>1
  <1>8. \A i \in 1 .. Len(s) : (b \o d)[i + 1] = b[i + 1]
    BY <1>3, <1>5, <1>6
  <1>9. (b \o d)[1] = b[1]
    BY <1>3, <1>5, <1>6
  <1>10. Len(b \o d) = Len(s) + 4
    BY <1>1, <1>3, <1>5, <1>6
  <1> QED
    BY <1>2, <1>3, <1>4, <1>7, <1>8, <1>9, <1>10

\* No two texts make the same packet.
LEMMA FrameTells ==
  ASSUME NEW s \in Seq(Nat), NEW t \in Seq(Nat), Frame(s) = Frame(t) PROVE s = t
  <1>1. Len(s) + 4 = Len(t) + 4
    BY FrameChars
  <1>2. Len(s) \in Nat /\ Len(s) = Len(t)
    BY <1>1
  <1>3. ASSUME NEW i \in 1 .. Len(s) PROVE s[i] = t[i]
    <2>1. Frame(s)[i + 1] = s[i] /\ Frame(t)[i + 1] = t[i]
      BY <1>2, FrameChars
    <2> QED
      BY <2>1
  <1> QED
    BY <1>2, <1>3, SeqEqual

\* What leaves room in the buffer is sent.
LEMMA FramedFits ==
  ASSUME NEW s \in Seq(Nat), Len(s) + 5 < MaxPkt PROVE Framed(s) = <<Frame(s)>>
  <1> DEFINE b == <<Dollar>> \o s
             body == Put(<<Dollar>>, s)
             d == Digits(Tail(body))
             buf == Put(body, d)
  <1>1. b \in Seq(Nat) /\ Len(b) = Len(s) + 1 /\ Tail(b) = s
    BY DEF Dollar
  <1>2. MaxPkt \in Nat /\ Len(s) \in Nat
    BY LinkAssumption
  <1>3. body = b
    BY <1>1, <1>2 DEF Put
  <1>4. d = Digits(s)
    BY <1>1, <1>3
  <1>5. d \in Seq(Nat) /\ Len(d) = 3
    BY <1>4, DigitsAre
  <1> HIDE DEF b, d, body
  <1>6. Len(body \o d) = Len(s) + 4
    <2>1. body \in Seq(Nat) /\ d \in Seq(Nat) /\ Len(body) = Len(s) + 1
      BY <1>1, <1>3, <1>5
    <2>2. Len(body \o d) = Len(body) + Len(d)
      BY <2>1, ConcatProperties
    <2> QED
      BY <1>2, <1>5, <2>1, <2>2
  <1>7. buf = body \o d
    BY <1>2, <1>6 DEF Put
  <1>8. buf = Frame(s)
    BY <1>3, <1>4, <1>7 DEF Frame, b
  <1>9. ~TxFull(buf)
    BY <1>2, <1>6, <1>7 DEF TxFull
  <1> QED
    BY <1>8, <1>9 DEF Framed, body, d

LEMMA TextsAre ==
  ASSUME NEW cmd \in DOMAIN Replies
  PROVE  /\ Len(Replies[cmd]) \in Nat /\ Text(cmd) \in Seq(Nat)
         /\ \A i \in 1 .. Len(Replies[cmd]) : Replies[cmd][i] \in Seq(Nat)
  <1> DEFINE S == Seq(Nat)
             r == Replies[cmd]
  <1>1. r \in Seq(S) /\ <<>> \in S
    BY LinkAssumption
  <1>2. Text(cmd) = IF r = <<>> THEN <<>> ELSE r[Len(r)]
    BY DEF Text
  <1> HIDE DEF S, r
  <1>3. Len(r) \in Nat /\ \A i \in 1 .. Len(r) : r[i] \in S
    BY <1>1
  <1>4. r # <<>> => Len(r) \in 1 .. Len(r)
    BY <1>1
  <1> QED
    BY <1>1, <1>2, <1>3, <1>4 DEF S, r

\* The text of an answer ends it, and no line before it reads the same.
Ends(b, cmd) == \A i \in DOMAIN b : b[i] = Frame(Text(cmd)) => i = Len(b)

LEMMA NoAnswer ==
  ASSUME NEW cmd \in DOMAIN Replies, Replies[cmd] = <<>> PROVE Answer(cmd) = <<>>
  <1>1. Lines(cmd) = <<>> /\ Len(Lines(cmd)) = 0
    BY DEF Lines
  <1>2. Answers(TheAnswers(<<>>), <<>>, 0)
    BY <1>1, AnswersExist
  <1>3. TheAnswers(<<>>)[0] = <<>>
    BY <1>2 DEF Answers
  <1> QED
    BY <1>1, <1>3, AnswerIs

LEMMA AnswerEnds == ASSUME NEW cmd \in DOMAIN Replies PROVE Ends(Answer(cmd), cmd)
  <1> DEFINE r == Replies[cmd]
             n == Len(r)
             g == TheAnswers(r)
             t == Frame(Text(cmd))
             Free(b) == \A i \in 1 .. Len(b) : b[i] # t
             T == {k \in Nat : k < n => g[k] \in Seq(WholePackets) /\ Free(g[k])}
  <1>1. Lines(cmd) = r /\ n \in Nat /\ Answer(cmd) = g[n]
    BY TextsAre, AnswerIs DEF Lines
  <1>2. CASE n = 0
    <2>1. r = <<>>
      BY <1>2, LinkAssumption
    <2> QED
      BY <2>1, NoAnswer DEF Ends
  <1>3. CASE n # 0
    <2>1. Answers(g, r, n)
      BY <1>1, AnswersExist
    <2>2. Text(cmd) = r[n]
      BY <1>3 DEF Text
    <2>3. \A k \in 1 .. n - 1 : r[k] # r[n]
      BY <2>2, CommandsAssumption
    <2>4. \A k \in 1 .. n : r[k] \in Seq(Nat) /\ Framed(r[k]) \in Seq(WholePackets)
      BY <1>1, TextsAre, LineSent
    <2>5. \A k \in 1 .. n : Framed(r[k]) = <<>> \/ Framed(r[k]) = <<Frame(r[k])>>
      BY <2>4, FramedWhole
    <2> HIDE DEF g, r, n
    <2>6. 0 \in T
      <3>1. g[0] = <<>>
        BY <1>1, <2>1 DEF Answers
      <3>2. <<>> \in Seq(WholePackets) /\ Len(<<>>) = 0
        OBVIOUS
      <3>3. g[0] \in Seq(WholePackets) /\ Free(g[0])
        <4> HIDE DEF t
        <4> QED
          BY <3>1, <3>2
      <3> QED
        BY <3>3
    <2>7. ASSUME NEW k \in Nat, k \in T PROVE k + 1 \in T
      <3>1. SUFFICES ASSUME k + 1 < n
                     PROVE  g[k + 1] \in Seq(WholePackets) /\ Free(g[k + 1])
        OBVIOUS
      <3> DEFINE a == g[k]
                 f == Framed(r[k + 1])
      <3>2. a \in Seq(WholePackets) /\ Free(a)
        BY <1>1, <2>7, <3>1
      <3>3. g[k + 1] = a \o f
        <4>1. g[k + 1] = Send(g[k], r[k + 1])
          BY <1>1, <2>1, <3>1 DEF Answers
        <4> QED
          BY <4>1 DEF Send
      <3>4. k + 1 \in 1 .. n /\ k + 1 \in 1 .. n - 1 /\ n \in 1 .. n
        BY <1>1, <1>3, <3>1
      <3>5. Frame(r[k + 1]) # t
        <4>1. r[k + 1] # r[n] /\ r[k + 1] \in Seq(Nat) /\ r[n] \in Seq(Nat)
          BY <2>3, <2>4, <3>4
        <4> QED
          BY <2>2, <4>1, FrameTells
      <3>6. f \in Seq(WholePackets) /\ Free(f)
        <4>1. f = <<>> \/ f = <<Frame(r[k + 1])>>
          BY <2>5, <3>4
        <4>2. f \in Seq(WholePackets)
          BY <2>4, <3>4
        <4> HIDE DEF t, f
        <4> QED
          BY <3>5, <4>1, <4>2
      <3> HIDE DEF a, f, t
      <3>7. a \o f \in Seq(WholePackets) /\ Free(a \o f)
        BY <3>2, <3>6
      <3> QED
        BY <3>3, <3>7
    <2>8. Nat \subseteq T
      <3> HIDE DEF T
      <3> QED
        BY <2>6, <2>7, SetInduction
    <2>9. g[n - 1] \in Seq(WholePackets) /\ Free(g[n - 1])
      <3>1. n - 1 \in Nat /\ n - 1 < n
        BY <1>1, <1>3
      <3> QED
        BY <2>8, <3>1
    <2>10. g[n] = g[n - 1] \o Framed(r[n])
      <3>1. g[n] = Send(g[n - 1], r[n])
        BY <1>1, <1>3, <2>1 DEF Answers
      <3> QED
        BY <3>1 DEF Send
    <2>11. Framed(r[n]) = <<>> \/ Framed(r[n]) = <<t>>
      BY <1>1, <1>3, <2>2, <2>5
    <2> DEFINE a == g[n - 1]
    <2>12. Ends(a, cmd) /\ Ends(a \o <<t>>, cmd)
      <3> HIDE DEF a
      <3>1. DOMAIN a = 1 .. Len(a) /\ Len(a) \in Nat
        BY <2>9 DEF a
      <3>2. Free(a) /\ a \in Seq(WholePackets)
        BY <2>9 DEF a
      <3>3. Ends(a, cmd)
        BY <3>1, <3>2 DEF Ends
      <3>4. /\ Len(a \o <<t>>) = Len(a) + 1 /\ DOMAIN (a \o <<t>>) = 1 .. Len(a) + 1
            /\ \A i \in 1 .. Len(a) : (a \o <<t>>)[i] = a[i]
        <4> HIDE DEF t
        <4> QED
          BY <3>2
      <3> QED
        BY <3>1, <3>2, <3>3, <3>4 DEF Ends
    <2>13. a \o <<>> = a
      <3> HIDE DEF a
      <3>1. a \in Seq(WholePackets)
        BY <2>9 DEF a
      <3> QED
        BY <3>1
    <2> QED
      BY <1>1, <2>10, <2>11, <2>12, <2>13
  <1> QED
    BY <1>2, <1>3

LEMMA NoAckAnswered == Answer(NoAck) = <<Frame(Text(NoAck))>> /\ Replies[NoAck] # <<>>
  <1> DEFINE r == Replies[NoAck]
             g == TheAnswers(r)
  <1>1. NoAck \in DOMAIN Replies /\ Len(r) = 1
    BY LinkAssumption, CommandsAssumption
  <1>2. r # <<>> /\ Text(NoAck) = r[1] /\ r[1] \in Seq(Nat)
    <2>1. r # <<>>
      BY <1>1
    <2> QED
      BY <1>1, <2>1, TextsAre DEF Text
  <1>3. Framed(r[1]) = <<Frame(r[1])>>
    BY <1>2, FramedFits, CommandsAssumption
  <1>4. Answers(g, r, 1) /\ Answer(NoAck) = g[1]
    <2>1. Lines(NoAck) = r
      BY <1>1 DEF Lines
    <2>2. Answer(NoAck) = TheAnswers(r)[Len(r)]
      BY <2>1, AnswerIs
    <2>3. Answers(TheAnswers(r), r, Len(r))
      <3>1. Len(r) \in Nat
        BY <1>1
      <3> HIDE DEF r
      <3> QED
        BY <3>1, AnswersExist
    <2> QED
      BY <1>1, <2>2, <2>3
  <1> HIDE DEF g, r
  <1>5. g[0] = <<>> /\ g[1] = Send(g[0], r[1])
    BY <1>4 DEF Answers
  <1> DEFINE p == Frame(r[1])
  <1>6. <<>> \o <<p>> = <<p>>
    <2> HIDE DEF p
    <2> QED
      OBVIOUS
  <1> QED
    BY <1>2, <1>3, <1>4, <1>5, <1>6 DEF Send, r

-----------------------------------------------------------------------------
\* While nothing has been spoilt, the line to the bridge carries the packet of
\* one command, after acknowledgements of earlier answers and before breaks.
Char(cmd, j) ==
    IF j <= 0 THEN 43 ELSE IF j <= Len(cmd) + 4 THEN Frame(cmd)[j] ELSE Break

\* The reader has come to the n-th character of it.
Reading(cmd, n) ==
    \/ n <= 0 /\ state = "idle"
    \/ /\ n \in 1 .. Len(cmd) + 1 /\ n <= MaxPkt /\ state = "recv"
       /\ rxbuf = SubSeq(cmd, 1, n - 1) /\ rxsum = Sum(rxbuf)
    \/ /\ n = Len(cmd) + 2 /\ Fits(cmd) /\ state = "chk1"
       /\ rxbuf = cmd /\ rxsum = Sum(cmd)
    \/ /\ n = Len(cmd) + 3 /\ Fits(cmd) /\ state = "chk2"
       /\ rxbuf = cmd /\ rxsum = Sum(cmd) /\ chk = HexDigit[Sum(cmd) \div 16]
    \/ n \in MaxPkt + 1 .. Len(cmd) + 3 /\ ~Fits(cmd) /\ state = "idle"

\* Where the line, the reader, the answers and gdb are together: the command is
\* on its way;
Spelled(cmd, n) ==
    /\ Reading(cmd, n)
    /\ \A i \in DOMAIN wire : wire[i] = Char(cmd, n + i)
    /\ Len(wire) + n >= Len(cmd) + 4
    /\ Due = IF Fits(cmd) THEN Append(Done, cmd) ELSE Done
    /\ Last = cmd => Len(wire) + n = Len(cmd) + 4
    /\ Last # cmd => /\ ~gdback /\ Last = <<Dollar>> /\ Replies[cmd] = <<>>
                     /\ Replies[Last] # <<>> => Len(wire) + n = Len(cmd) + 5
Coming ==
    /\ \E cmd \in Commands : \E n \in -Len(wire) .. Len(cmd) + 3 : Spelled(cmd, n)
    /\ back = <<>> /\ ack = gdback
    /\ gdbstate = IF gdback THEN "ack" ELSE "answer"

Even == state = "idle" /\ Done = Due
Acks == \A i \in DOMAIN wire : wire[i] = 43

\* only breaks are on their way, and the last of them will be answered;
ToBreak ==
    /\ Even /\ back = <<>> /\ gdbstate = "answer" /\ ack = gdback
    /\ Last = <<Dollar>>
    /\ \A i \in DOMAIN wire : wire[i] \in {43, Break}
    /\ Replies[Last] # <<>> => /\ wire # <<>> /\ wire[Len(wire)] = Break
                               /\ \A i \in 1 .. Len(wire) - 1 : wire[i] = 43

\* what is left of the answer is on its way, and gdb will see its end,
Told(b) ==
    /\ Ends(b, Last)
    /\ Replies[Last] = <<>> => b = <<>>
    /\ ack = (gdback /\ Last # NoAck)
    /\ gdback /\ Last = NoAck => b # <<>> /\ b[Len(b)] = Frame(Text(Last))
Answering == Even /\ gdbstate = "answer" /\ Acks /\ Told(back)
\* with the acknowledgement before it;
Acked ==
    /\ Even /\ gdbstate = "ack" /\ gdback /\ wire = <<>>
    /\ back # <<>> /\ Head(back) = Plus /\ Told(Tail(back))

\* the command was dropped; or gdb has its answer.
Dropped ==
    /\ Even /\ gdbstate = "ack" /\ gdback /\ ack /\ ~Fits(Last)
    /\ wire = <<>> /\ back = <<>>
Ready == Even /\ gdbstate = "ready" /\ back = <<>> /\ Acks /\ ack = gdback

Clean == Coming \/ ToBreak \/ Answering \/ Acked \/ Dropped \/ Ready

\* The inductive invariant.
OnceInv ==
    /\ LinkInv /\ BackInv
    /\ handled \in Seq(Seq(Nat))
    /\ faults = 0 => Clean

LEMMA CommandIs ==
  ASSUME NEW cmd \in Commands
  PROVE  /\ cmd \in Seq(Nat) /\ cmd # <<Dollar>> /\ cmd \in DOMAIN Replies
         /\ Len(cmd) \in Nat
         /\ \A i \in 1 .. Len(cmd) : cmd[i] \in Nat /\ cmd[i] \notin {Break, Dollar, Hash}
  <1>1. cmd \in Seq(Nat) /\ cmd \in DOMAIN Replies
    BY LinkAssumption
  <1>2. \A i \in 1 .. Len(cmd) : cmd[i] \in Nat /\ cmd[i] \notin {Break, Dollar, Hash}
    BY <1>1, CommandsAssumption
  <1>3. cmd # <<Dollar>>
    <2>1. SUFFICES ASSUME cmd = <<Dollar>> PROVE FALSE
      OBVIOUS
    <2>2. Len(cmd) = 1 /\ cmd[1] = Dollar
      BY <2>1
    <2> QED
      BY <1>2, <2>2
  <1> QED
    BY <1>1, <1>2, <1>3

LEMMA CharIs ==
  ASSUME NEW cmd \in Commands, NEW j \in Int
  PROVE  /\ j <= 0 => Char(cmd, j) = 43
         /\ j = 1 => Char(cmd, j) = Dollar
         /\ j \in 2 .. Len(cmd) + 1 => /\ Char(cmd, j) = cmd[j - 1]
                                      /\ cmd[j - 1] \in Nat
                                      /\ cmd[j - 1] \notin {Break, Dollar, Hash}
         /\ j = Len(cmd) + 2 => Char(cmd, j) = Hash
         /\ j = Len(cmd) + 3 => Char(cmd, j) = HexDigit[Sum(cmd) \div 16]
         /\ j = Len(cmd) + 4 => Char(cmd, j) = HexDigit[Sum(cmd) % 16]
         /\ j > Len(cmd) + 4 => Char(cmd, j) = Break
         /\ j > MaxPkt + 1 /\ MaxPkt <= Len(cmd) /\ j <= Len(cmd) + 4
              => Char(cmd, j) \notin {Break, Dollar}
  <1>1. cmd \in Seq(Nat) /\ Len(cmd) \in Nat
    BY CommandIs
  <1>2. \A i \in 1 .. Len(cmd) : cmd[i] \in Nat /\ cmd[i] \notin {Break, Dollar, Hash}
    BY CommandIs
  <1>3. j >= 1 /\ j <= Len(cmd) + 4 => Char(cmd, j) = Frame(cmd)[j]
    BY <1>1 DEF Char
  <1>4. j \in 2 .. Len(cmd) + 1 => /\ Char(cmd, j) = cmd[j - 1] /\ cmd[j - 1] \in Nat
                                  /\ cmd[j - 1] \notin {Break, Dollar, Hash}
    <2> SUFFICES ASSUME j \in 2 .. Len(cmd) + 1
                 PROVE  /\ Char(cmd, j) = cmd[j - 1] /\ cmd[j - 1] \in Nat
                        /\ cmd[j - 1] \notin {Break, Dollar, Hash}
      OBVIOUS
    <2>1. j - 1 \in 1 .. Len(cmd) /\ (j - 1) + 1 = j
      BY <1>1
    <2>2. Frame(cmd)[(j - 1) + 1] = cmd[j - 1]
      BY <1>1, <2>1, FrameChars
    <2> QED
      BY <1>1, <1>2, <1>3, <2>1, <2>2
  <1>5. /\ j = Len(cmd) + 2 => Char(cmd, j) = Hash
        /\ j = Len(cmd) + 3 => Char(cmd, j) = HexDigit[Sum(cmd) \div 16]
        /\ j = Len(cmd) + 4 => Char(cmd, j) = HexDigit[Sum(cmd) % 16]
        /\ j = 1 => Char(cmd, j) = Dollar
    BY <1>1, <1>3, FrameChars
  <1>6. HexDigit[Sum(cmd) \div 16] \in 48 .. 102 /\ HexDigit[Sum(cmd) % 16] \in 48 .. 102
    <2>1. Sum(cmd) \div 16 \in 0 .. 15 /\ Sum(cmd) % 16 \in 0 .. 15
      BY <1>1, SumIsByte, NibblesOfByte
    <2> QED
      BY <2>1, HexDigits
  <1>7. j > MaxPkt + 1 /\ MaxPkt <= Len(cmd) /\ j <= Len(cmd) + 4
          => Char(cmd, j) \notin {Break, Dollar}
    <2> SUFFICES ASSUME j > MaxPkt + 1, MaxPkt <= Len(cmd), j <= Len(cmd) + 4
                 PROVE  Char(cmd, j) \notin {Break, Dollar}
      OBVIOUS
    <2>1. \/ j \in 2 .. Len(cmd) + 1 \/ j = Len(cmd) + 2
          \/ j = Len(cmd) + 3 \/ j = Len(cmd) + 4
      <3>1. MaxPkt \in Nat /\ MaxPkt > 4 /\ Len(cmd) \in Nat /\ j \in Int
        BY <1>1, LinkAssumption
      <3> QED
        BY <3>1
    <2>2. CASE j \in 2 .. Len(cmd) + 1
      BY <1>4, <2>2
    <2>3. CASE j = Len(cmd) + 2
      BY <1>5, <2>3 DEF Break, Dollar, Hash
    <2>4. CASE j = Len(cmd) + 3 \/ j = Len(cmd) + 4
      <3>1. Char(cmd, j) \in 48 .. 102
        BY <1>5, <1>6, <2>4
      <3>2. \A c \in 48 .. 102 : c # 3 /\ c # 36
        OBVIOUS
      <3> QED
        BY <3>1, <3>2 DEF Break, Dollar
    <2> QED
      BY <2>1, <2>2, <2>3, <2>4
  <1>8. (j <= 0 => Char(cmd, j) = 43) /\ (j > Len(cmd) + 4 => Char(cmd, j) = Break)
    BY <1>1 DEF Char
  <1> QED
    BY <1>4, <1>5, <1>7, <1>8

\* What a character does to the reader and to what it has handled.
Progress(cmd, n) ==
    \/ n + 1 <= Len(cmd) + 3 /\ Reading(cmd, n + 1)' /\ UNCHANGED <<back, handled, ack>>
    \/ /\ n + 1 = Len(cmd) + 4 /\ state' = "idle" /\ Fits(cmd) /\ Handle(cmd)
       /\ back' = back \o Acknowledge(Plus) \o Answer(cmd)
    \/ /\ n + 1 = Len(cmd) + 4 /\ state' = "idle" /\ ~Fits(cmd)
       /\ UNCHANGED <<back, handled, ack>>

LEMMA ReadStep ==
  ASSUME OnceInv, NEW cmd \in Commands, NEW n \in Int, n <= Len(cmd) + 3,
         Reading(cmd, n), wire # <<>>, wire[1] = Char(cmd, n + 1), GdbRecv
  PROVE  Progress(cmd, n)
  <1> DEFINE c == Head(wire)
             L == Len(cmd)
  <1>1. c = Char(cmd, n + 1) /\ (Idle(c) \/ Recv(c) \/ Chk1(c) \/ Chk2(c))
    <2>1. wire \in Seq(Nat)
      BY DEF OnceInv, LinkInv
    <2> QED
      BY <2>1 DEF GdbRecv
  <1>2. cmd \in Seq(Nat) /\ L \in Nat /\ MaxPkt \in Nat /\ MaxPkt > 4
    BY CommandIs, LinkAssumption
  <1> HIDE DEF c, L
  <1> DEFINE m == n + 1
  <1>3. /\ m <= 0 => c = 43
        /\ m = 1 => c = Dollar
        /\ m \in 2 .. L + 1 => c = cmd[m - 1] /\ c \in Nat /\ c \notin {Break, Dollar, Hash}
        /\ m = L + 2 => c = Hash
        /\ m = L + 3 => c = HexDigit[Sum(cmd) \div 16]
        /\ m = L + 4 => c = HexDigit[Sum(cmd) % 16]
        /\ m > MaxPkt + 1 /\ MaxPkt <= L /\ m <= L + 4 => c \notin {Break, Dollar}
    <2>1. m \in Int
      OBVIOUS
    <2> QED
      BY <1>1, <2>1, CharIs DEF L
  <1>4. CASE n <= 0 /\ state = "idle"
    <2>1. Idle(c)
      BY <1>1, <1>4 DEF Recv, Chk1, Chk2
    <2>2. CASE n < 0
      <3>1. c = 43
        BY <1>3, <2>2
      <3>2. state' = "idle" /\ UNCHANGED <<back, handled, ack>>
        BY <1>4, <2>1, <3>1 DEF Idle, Break, Dollar
      <3> QED
        BY <1>2, <2>2, <3>2 DEF Progress, Reading, L
    <2>3. CASE n = 0
      <3>1. c = Dollar
        BY <1>3, <2>3
      <3>2. state' = "recv" /\ rxsum' = 0 /\ rxbuf' = <<>> /\ UNCHANGED <<back, handled, ack>>
        BY <2>1, <3>1 DEF Idle, Break, Dollar
      <3>3. SubSeq(cmd, 1, 0) = <<>>
        BY SubSeqEmpty
      <3>4. Reading(cmd, 1)'
        BY <1>2, <3>2, <3>3, SumOfNothing DEF Reading, L
      <3> QED
        BY <1>2, <2>3, <3>2, <3>4 DEF Progress, L
    <2> QED
      BY <1>4, <2>2, <2>3
  <1>5. CASE n \in 1 .. L + 1 /\ n <= MaxPkt /\ state = "recv"
             /\ rxbuf = SubSeq(cmd, 1, n - 1) /\ rxsum = Sum(rxbuf)
    <2>1. Recv(c)
      BY <1>1, <1>5 DEF Idle, Chk1, Chk2
    <2>2. rxbuf \in Seq(Nat) /\ Len(rxbuf) = n - 1
      <3>1. 1 \in Int /\ n - 1 \in Int /\ \A i \in 1 .. n - 1 : cmd[i] \in Nat
        BY <1>2, <1>5 DEF L
      <3>2. /\ SubSeq(cmd, 1, n - 1) \in Seq(Nat)
            /\ Len(SubSeq(cmd, 1, n - 1)) = IF 1 <= n - 1 THEN (n - 1) - 1 + 1 ELSE 0
        BY <3>1, SubSeqProperties
      <3> QED
        BY <1>5, <3>2
    <2>3. CASE n = L + 1
      <3>1. c = Hash
        <4>1. m = L + 2
          BY <1>2, <2>3
        <4> QED
          BY <1>3, <4>1
      <3>2. state' = "chk1" /\ UNCHANGED <<rxbuf, rxsum, back, handled, ack>>
        BY <2>1, <3>1 DEF Recv
      <3>3. rxbuf = cmd
        BY <1>2, <1>5, <2>3, SubSeqFull DEF L
      <3>4. Fits(cmd)
        BY <1>2, <1>5, <2>3 DEF Fits, L
      <3>5. Reading(cmd, n + 1)'
        <4>1. n + 1 = Len(cmd) + 2
          BY <1>2, <2>3 DEF L
        <4> QED
          BY <1>5, <3>2, <3>3, <3>4, <4>1 DEF Reading, Fits
      <3> QED
        BY <1>2, <2>3, <3>2, <3>5 DEF Progress, L
    <2>4. CASE n # L + 1 /\ n = MaxPkt
      <3>1. c # Hash /\ RxFull
        BY <1>2, <1>3, <1>5, <2>2, <2>4 DEF RxFull
      <3>2. state' = "idle" /\ UNCHANGED <<back, handled, ack>>
        BY <2>1, <3>1 DEF Recv
      <3>3. ~Fits(cmd) /\ n + 1 \in MaxPkt + 1 .. L + 3
        BY <1>2, <1>5, <2>4 DEF Fits, L
      <3>4. Reading(cmd, n + 1)'
        BY <3>2, <3>3 DEF Reading, Fits, L
      <3> QED
        BY <1>2, <3>2, <3>3, <3>4 DEF Progress, L
    <2>5. CASE n # L + 1 /\ n # MaxPkt
      <3>1. c = cmd[n] /\ c \in Nat /\ c # Hash
        BY <1>2, <1>3, <1>5, <2>5
      <3>2. ~RxFull
        BY <1>2, <1>5, <2>2, <2>5 DEF RxFull
      <3>3. /\ state' = "recv" /\ rxbuf' = Append(rxbuf, c) /\ rxsum' = Added(c)
            /\ UNCHANGED <<back, handled, ack>>
        BY <1>5, <2>1, <3>1, <3>2 DEF Recv
      <3>4. SubSeq(cmd, 1, n) = Append(rxbuf, c)
        <4>1. 1 \in 1 .. Len(cmd) /\ n \in 1 .. Len(cmd)
          BY <1>2, <1>5, <2>5 DEF L
        <4>2. SubSeq(cmd, 1, n) = SubSeq(cmd, 1, n - 1) \o <<cmd[n]>>
          BY <1>2, <4>1, SubSeqRecursiveSecond
        <4>3. Append(rxbuf, c) = rxbuf \o <<c>>
          BY <2>2, <3>1, AppendIsConcat
        <4> QED
          BY <1>5, <3>1, <4>2, <4>3
      <3>5. rxsum' = Sum(rxbuf')
        <4>1. Sum(Append(rxbuf, c)) = (Sum(rxbuf) + c) % 256
          BY <2>2, <3>1, SumAppend
        <4> QED
          BY <1>5, <3>3, <4>1 DEF Added
      <3>6. Reading(cmd, n + 1)'
        <4>1. n + 1 \in 1 .. Len(cmd) + 1 /\ n + 1 <= MaxPkt /\ (n + 1) - 1 = n
          BY <1>2, <1>5, <2>5 DEF L
        <4> QED
          BY <3>3, <3>4, <3>5, <4>1 DEF Reading
      <3> QED
        BY <1>2, <1>5, <3>3, <3>6 DEF Progress, L
    <2> QED
      BY <2>3, <2>4, <2>5
  <1>6. CASE n = L + 2 /\ Fits(cmd) /\ state = "chk1" /\ rxbuf = cmd /\ rxsum = Sum(cmd)
    <2>1. Chk1(c)
      BY <1>1, <1>6 DEF Idle, Recv, Chk2
    <2>2. c = HexDigit[Sum(cmd) \div 16]
      BY <1>2, <1>3, <1>6
    <2>3. Reading(cmd, n + 1)' /\ UNCHANGED <<back, handled, ack>>
      BY <1>2, <1>6, <2>1, <2>2 DEF Chk1, Reading, Fits, L
    <2> QED
      BY <1>2, <1>6, <2>3 DEF Progress, L
  <1>7. CASE n = L + 3 /\ Fits(cmd) /\ state = "chk2" /\ rxbuf = cmd /\ rxsum = Sum(cmd)
             /\ chk = HexDigit[Sum(cmd) \div 16]
    <2>1. Chk2(c)
      BY <1>1, <1>7 DEF Idle, Recv, Chk1
    <2>2. c = HexDigit[Sum(cmd) % 16]
      BY <1>2, <1>3, <1>7
    <2>3. Good(c)
      <3>1. Sum(cmd) \in 0 .. 255
        BY <1>2, SumIsByte
      <3> QED
        BY <1>7, <2>2, <3>1, DigitsReadBack DEF Good
    <2>4. state' = "idle" /\ Handle(cmd) /\ back' = back \o Acknowledge(Plus) \o Answer(cmd)
      BY <1>7, <2>1, <2>3 DEF Chk2
    <2> QED
      BY <1>2, <1>7, <2>4 DEF Progress, L
  <1>8. CASE n \in MaxPkt + 1 .. L + 3 /\ ~Fits(cmd) /\ state = "idle"
    <2>1. Idle(c)
      BY <1>1, <1>8 DEF Recv, Chk1, Chk2
    <2>2. MaxPkt <= L
      BY <1>2, <1>8 DEF Fits, L
    <2>3. c \notin {Break, Dollar}
      BY <1>2, <1>3, <1>8, <2>2
    <2>4. state' = "idle" /\ UNCHANGED <<back, handled, ack>>
      BY <1>8, <2>1, <2>3 DEF Idle
    <2>5. CASE n = L + 3
      BY <1>2, <1>8, <2>4, <2>5 DEF Progress, L
    <2>6. CASE n # L + 3
      <3>1. n + 1 \in MaxPkt + 1 .. Len(cmd) + 3
        BY <1>2, <1>8, <2>6 DEF L
      <3>2. Reading(cmd, n + 1)'
        BY <1>8, <2>4, <3>1 DEF Reading, Fits
      <3> QED
        BY <1>2, <2>4, <3>1, <3>2 DEF Progress
    <2> QED
      BY <2>5, <2>6
  <1> QED
    BY <1>4, <1>5, <1>6, <1>7, <1>8 DEF Reading, L

-----------------------------------------------------------------------------
\* What is handled and what is due.
LEMMA DoneAfter ==
  ASSUME handled \in Seq(Seq(Nat)), NEW cmd \in Seq(Nat), handled' = Append(handled, cmd)
  PROVE  Done' = IF cmd = <<Dollar>> THEN Done ELSE Append(Done, cmd)
  <1> DEFINE S == Seq(Nat)
  <1>1. handled \in Seq(S) /\ cmd \in S
    OBVIOUS
  <1> HIDE DEF S
  <1>2. Without(Append(handled, cmd), Breaks) =
            IF cmd \in Breaks THEN Without(handled, Breaks)
            ELSE Append(Without(handled, Breaks), cmd)
    BY <1>1, WithoutAppend
  <1>3. Done' = Without(Append(handled, cmd), Breaks)
    BY DEF Done, Breaks
  <1> QED
    BY <1>2, <1>3 DEF Done, Breaks

LEMMA DueAfter ==
  ASSUME sent \in Seq(Seq(Nat)), NEW cmd \in Seq(Nat), sent' = Append(sent, cmd)
  PROVE  /\ Due' = IF cmd = <<Dollar>> \/ (cmd \in Commands /\ ~Fits(cmd))
                   THEN Due ELSE Append(Due, cmd)
         /\ Last' = cmd
  <1> DEFINE S == Seq(Nat)
             N == Breaks \cup {c \in Commands : ~Fits(c)}
  <1>1. sent \in Seq(S) /\ cmd \in S
    OBVIOUS
  <1>2. Due = Without(sent, N) /\ Due' = Without(Append(sent, cmd), N)
    BY DEF Due, Breaks, Fits
  <1>3. cmd \in N <=> (cmd = <<Dollar>> \/ (cmd \in Commands /\ ~Fits(cmd)))
    BY DEF Breaks
  <1> HIDE DEF S, N
  <1>4. Without(Append(sent, cmd), N) =
            IF cmd \in N THEN Without(sent, N) ELSE Append(Without(sent, N), cmd)
    BY <1>1, WithoutAppend
  <1>5. Append(sent, cmd)[Len(Append(sent, cmd))] = cmd
    BY <1>1
  <1>6. Last' = cmd
    BY <1>5 DEF Last
  <1> QED
    BY <1>2, <1>3, <1>4, <1>6

LEMMA DoneStays == ASSUME UNCHANGED handled PROVE Done' = Done
  BY DEF Done, Breaks

LEMMA DueStays == ASSUME UNCHANGED sent PROVE Due' = Due /\ Last' = Last
  BY DEF Due, Breaks, Fits, Last

LEMMA DoneType == ASSUME OnceInv PROVE Done \in Seq(Seq(Nat))
  <1> DEFINE S == Seq(Nat)
  <1>1. handled \in Seq(S)
    BY DEF OnceInv
  <1> HIDE DEF S
  <1>2. Without(handled, Breaks) \in Seq(S)
    BY <1>1, WithoutType
  <1> QED
    BY <1>2 DEF Done, S

-----------------------------------------------------------------------------
\* A character that is read leaves the line.
LEMMA WireRead ==
  ASSUME OnceInv, GdbRecv
  PROVE  /\ Len(wire) \in Nat \ {0} /\ wire' \in Seq(Nat) /\ Len(wire') = Len(wire) - 1
         /\ DOMAIN wire = 1 .. Len(wire) /\ DOMAIN wire' = 1 .. Len(wire')
         /\ Head(wire) = wire[1] /\ 1 \in DOMAIN wire
         /\ \A i \in DOMAIN wire' : i + 1 \in DOMAIN wire /\ wire'[i] = wire[i + 1]
         /\ Len(wire') = 0 => wire' = <<>>
         /\ wire # <<>>
         /\ UNCHANGED <<sent, gdbstate, gdback, got, faults>>
  <1>1. wire \in Seq(Nat) /\ wire # <<>> /\ wire' = Tail(wire)
    BY DEF OnceInv, LinkInv, GdbRecv
  <1>2. UNCHANGED <<sent, gdbstate, gdback, got, faults>>
    BY DEF GdbRecv, client
  <1>3. /\ Len(wire) \in Nat \ {0} /\ DOMAIN wire = 1 .. Len(wire) /\ Head(wire) = wire[1]
        /\ Tail(wire) \in Seq(Nat) /\ Len(Tail(wire)) = Len(wire) - 1
        /\ \A i \in 1 .. Len(Tail(wire)) : Tail(wire)[i] = wire[i + 1]
    <2>1. /\ Tail(wire) \in Seq(Nat) /\ Len(Tail(wire)) = Len(wire) - 1
          /\ \A i \in 1 .. Len(Tail(wire)) : Tail(wire)[i] = wire[i + 1]
      BY <1>1, HeadTailProperties
    <2>2. Len(wire) \in Nat \ {0} /\ DOMAIN wire = 1 .. Len(wire) /\ Head(wire) = wire[1]
      BY <1>1
    <2> QED
      BY <2>1, <2>2
  <1>4. DOMAIN wire' = 1 .. Len(wire') /\ (Len(wire') = 0 => wire' = <<>>)
    <2>1. wire' \in Seq(Nat)
      BY <1>1, <1>3
    <2> QED
      BY <2>1
  <1>5. \A i \in DOMAIN wire' : i + 1 \in DOMAIN wire /\ wire'[i] = wire[i + 1]
    BY <1>1, <1>3, <1>4
  <1>6. 1 \in DOMAIN wire
    BY <1>3
  <1> QED
    BY <1>1, <1>2, <1>3, <1>4, <1>5, <1>6

\* Between packets an acknowledgement is skipped and a break is handled.
LEMMA IdleSkips ==
  ASSUME OnceInv, GdbRecv, state = "idle", wire[1] = 43
  PROVE  state' = "idle" /\ UNCHANGED <<back, handled, ack>>
  <1>1. Idle(Head(wire)) /\ Head(wire) = 43
    BY WireRead DEF GdbRecv, Recv, Chk1, Chk2
  <1> QED
    BY <1>1 DEF Idle, Break, Dollar

LEMMA IdleBreaks ==
  ASSUME OnceInv, GdbRecv, state = "idle", wire[1] = Break
  PROVE  state' = "idle" /\ Handle(<<Dollar>>) /\ back' = back \o Answer(<<Dollar>>)
  <1> DEFINE c == Head(wire)
             b == back \o Answer(<<Dollar>>)
  <1>1. Idle(c) /\ c = Break
    BY WireRead DEF GdbRecv, Recv, Chk1, Chk2
  <1> HIDE DEF c
  <1>2. Handle(<<Dollar>>) /\ back' = b /\ UNCHANGED <<state, rxsum>>
    <2>1. Break # Dollar
      BY DEF Break, Dollar
    <2> QED
      BY <1>1, <2>1 DEF Idle
  <1> QED
    BY <1>2

LEMMA BreakIs ==
  /\ <<Dollar>> \in Seq(Nat) /\ <<Dollar>> \in DOMAIN Replies /\ <<Dollar>> # NoAck
  BY CommandIs, LinkAssumption, CommandsAssumption DEF Dollar

LEMMA RecvAcks ==
  ASSUME OnceInv, GdbRecv, Even, Acks
  PROVE  Even' /\ Acks' /\ UNCHANGED <<back, ack>> /\ Last' = Last
  <1>1. wire[1] = 43 /\ \A i \in DOMAIN wire' : wire'[i] = 43
    BY WireRead DEF Acks
  <1>2. state' = "idle" /\ UNCHANGED <<back, handled, ack>>
    BY <1>1, IdleSkips DEF Even
  <1>3. UNCHANGED sent
    BY WireRead
  <1> QED
    BY <1>1, <1>2, <1>3, DoneStays, DueStays DEF Even, Acks

LEMMA RecvToBreak == ASSUME OnceInv, GdbRecv, ToBreak PROVE Clean'
  <1>1. /\ Len(wire) \in Nat \ {0} /\ Len(wire') = Len(wire) - 1
        /\ DOMAIN wire = 1 .. Len(wire) /\ DOMAIN wire' = 1 .. Len(wire')
        /\ 1 \in DOMAIN wire
        /\ \A i \in DOMAIN wire' : i + 1 \in DOMAIN wire /\ wire'[i] = wire[i + 1]
        /\ Len(wire') = 0 => wire' = <<>>
        /\ UNCHANGED <<sent, gdbstate, gdback>>
    BY WireRead
  <1>2. Last' = Last /\ Due' = Due /\ Last = <<Dollar>>
    BY <1>1, DueStays DEF ToBreak
  <1>3. wire[1] \in {43, Break} /\ \A i \in DOMAIN wire' : wire'[i] \in {43, Break}
    BY <1>1 DEF ToBreak
  <1>4. CASE wire[1] = 43
    <2>1. state' = "idle" /\ UNCHANGED <<back, handled, ack>>
      BY <1>4, IdleSkips DEF ToBreak, Even
    <2>2. Even'
      BY <1>2, <2>1, DoneStays DEF ToBreak, Even
    <2>3. ASSUME Replies[Last] # <<>>
          PROVE  /\ wire' # <<>> /\ wire'[Len(wire')] = Break
                 /\ \A i \in 1 .. Len(wire') - 1 : wire'[i] = 43
      <3>1. wire[Len(wire)] = Break /\ \A i \in 1 .. Len(wire) - 1 : wire[i] = 43
        BY <2>3 DEF ToBreak
      <3>2. Len(wire) # 1
        BY <1>4, <3>1 DEF Break
      <3>3. Len(wire') \in 1 .. Len(wire') /\ Len(wire') + 1 = Len(wire)
        BY <1>1, <3>2
      <3>4. wire'[Len(wire')] = wire[Len(wire)]
        BY <1>1, <3>3
      <3>5. ASSUME NEW i \in 1 .. Len(wire') - 1 PROVE wire'[i] = 43
        <4>1. i \in 1 .. Len(wire') /\ i + 1 \in 1 .. Len(wire) - 1
          BY <1>1, <3>3
        <4> QED
          BY <1>1, <3>1, <4>1
      <3>6. wire' # <<>>
        BY <3>3
      <3> QED
        BY <3>1, <3>4, <3>5, <3>6
    <2>4. ToBreak'
      BY <1>1, <1>2, <1>3, <2>1, <2>2, <2>3 DEF ToBreak
    <2> QED
      BY <2>4 DEF Clean
  <1>5. CASE wire[1] = Break
    <2>1. state' = "idle" /\ Handle(<<Dollar>>) /\ back' = back \o Answer(<<Dollar>>)
      BY <1>5, IdleBreaks DEF ToBreak, Even
    <2>2. ack' = ack /\ ack \in BOOLEAN /\ handled' = Append(handled, <<Dollar>>)
      BY <2>1, BreakIs DEF Handle, OnceInv, LinkInv, TypeOK
    <2>3. Even'
      <3>1. Done' = Done
        BY <2>2, BreakIs, DoneAfter DEF OnceInv
      <3> QED
        BY <1>2, <2>1, <3>1 DEF Even, ToBreak
    <2>4. back' = Answer(Last)
      <3> DEFINE b == Answer(<<Dollar>>)
      <3>1. b \in Seq(Items)
        BY AnswerItems
      <3> HIDE DEF b
      <3>2. <<>> \o b = b
        BY <3>1
      <3> QED
        BY <1>2, <2>1, <3>2 DEF b, ToBreak
    <2>5. CASE Replies[Last] = <<>>
      <3>1. back' = <<>>
        BY <1>2, <2>4, <2>5, BreakIs, NoAnswer
      <3>2. ToBreak'
        BY <1>1, <1>2, <1>3, <2>2, <2>3, <2>5, <3>1 DEF ToBreak
      <3> QED
        BY <3>2 DEF Clean
    <2>6. CASE Replies[Last] # <<>>
      <3>1. \A i \in 1 .. Len(wire) - 1 : wire[i] = 43
        BY <2>6 DEF ToBreak
      <3>2. Len(wire) = 1
        BY <1>1, <1>5, <3>1 DEF Break
      <3>3. wire' = <<>>
        BY <1>1, <3>2
      <3>4. Acks'
        BY <3>3 DEF Acks
      <3>5. Ends(back', Last')
        BY <1>2, <2>4, BreakIs, AnswerEnds
      <3>6. Told(back)'
        BY <1>1, <1>2, <2>2, <2>6, <3>5, BreakIs DEF Told, ToBreak, OnceInv, LinkInv, TypeOK
      <3>7. Answering'
        BY <1>1, <2>3, <3>4, <3>6 DEF Answering, ToBreak
      <3> QED
        BY <3>7 DEF Clean
    <2> QED
      BY <2>5, <2>6
  <1> QED
    BY <1>3, <1>4, <1>5

LEMMA LoneCharacter ==
  ASSUME NEW w \in Seq(Nat), Len(w) = 1
  PROVE  1 \in DOMAIN w /\ w # <<>> /\ 1 .. Len(w) - 1 = {}
  <1>1. w # <<>>
    <2>1. Len(<<>>) = 0
      OBVIOUS
    <2>2. Len(w) # 0
      OBVIOUS
    <2> QED
      BY <2>1, <2>2, Zenon
  <1>2. DOMAIN w = 1 .. 1
    OBVIOUS
  <1>3. 1 .. Len(w) - 1 = {}
    OBVIOUS
  <1> QED
    BY <1>1, <1>2, <1>3

\* The packet of a command is read.
LEMMA RecvComing ==
  ASSUME OnceInv, GdbRecv, Coming PROVE Clean'
  <1>0. PICK cmd \in Commands : \E n \in -Len(wire) .. Len(cmd) + 3 : Spelled(cmd, n)
    BY DEF Coming
  <1>1. PICK n \in -Len(wire) .. Len(cmd) + 3 : Spelled(cmd, n)
    BY <1>0
  <1> DEFINE L == Len(cmd)
  <1>2. /\ cmd \in Seq(Nat) /\ cmd # <<Dollar>> /\ cmd \in DOMAIN Replies /\ L \in Nat
    BY CommandIs
  <1>3. /\ Len(wire) \in Nat \ {0} /\ Len(wire') = Len(wire) - 1
        /\ DOMAIN wire = 1 .. Len(wire) /\ DOMAIN wire' = 1 .. Len(wire')
        /\ 1 \in DOMAIN wire /\ wire # <<>>
        /\ \A i \in DOMAIN wire' : i + 1 \in DOMAIN wire /\ wire'[i] = wire[i + 1]
        /\ Len(wire') = 0 => wire' = <<>>
        /\ UNCHANGED <<sent, gdbstate, gdback>>
    BY WireRead
  <1>4. n \in Int /\ n <= L + 3 /\ n >= -Len(wire)
    BY <1>2, <1>3
  <1>5. /\ Reading(cmd, n) /\ \A i \in DOMAIN wire : wire[i] = Char(cmd, n + i)
        /\ Len(wire) + n >= L + 4
        /\ Due = IF Fits(cmd) THEN Append(Done, cmd) ELSE Done
        /\ Last = cmd => Len(wire) + n = L + 4
        /\ Last # cmd => /\ ~gdback /\ Last = <<Dollar>> /\ Replies[cmd] = <<>>
                         /\ Replies[Last] # <<>> => Len(wire) + n = L + 5
    BY <1>1 DEF Spelled
  <1>6. /\ back = <<>> /\ ack = gdback /\ gdbstate = IF gdback THEN "ack" ELSE "answer"
        /\ ack \in BOOLEAN /\ gdback \in BOOLEAN
    BY DEF Coming, OnceInv, LinkInv, TypeOK
  <1>7. Due' = Due /\ Last' = Last
    BY <1>3, DueStays
  <1>8. Progress(cmd, n)
    BY <1>3, <1>4, <1>5, ReadStep
  <1>9. \A i \in DOMAIN wire' : wire'[i] = Char(cmd, (n + 1) + i)
    <2> SUFFICES ASSUME NEW i \in DOMAIN wire' PROVE wire'[i] = Char(cmd, (n + 1) + i)
      OBVIOUS
    <2>1. wire'[i] = Char(cmd, n + (i + 1))
      BY <1>3, <1>5
    <2>2. n + (i + 1) = (n + 1) + i
      BY <1>3, <1>4
    <2> QED
      BY <2>1, <2>2
  <1> HIDE DEF L
  \* Whatever is left of the line when the packet has been read is breaks.
  <1>10. ASSUME n + 1 = L + 4, Last # cmd, Even', back' = <<>>, ack' = ack PROVE ToBreak'
    <2>1. \A i \in DOMAIN wire' : wire'[i] = Break
      <3> SUFFICES ASSUME NEW i \in DOMAIN wire' PROVE wire'[i] = Break
        OBVIOUS
      <3>1. (n + 1) + i \in Int /\ (n + 1) + i > Len(cmd) + 4
        <4>1. i \in Int /\ i >= 1 /\ n + 1 = Len(cmd) + 4 /\ Len(cmd) \in Nat
          BY <1>2, <1>3, <1>10 DEF L
        <4> QED
          BY <4>1
      <3> QED
        <4>1. Char(cmd, (n + 1) + i) = Break
          BY <3>1, CharIs
        <4> QED
          BY <1>9, <4>1
    <2>2. ~gdback /\ Last = <<Dollar>> /\ (Replies[Last] # <<>> => Len(wire') = 1)
      <3>1. /\ ~gdback /\ Last = <<Dollar>>
            /\ Replies[Last] # <<>> => Len(wire) + n = L + 5
        BY <1>5, <1>10
      <3>2. Len(wire) + n = L + 5 => Len(wire') = 1
        BY <1>2, <1>3, <1>4, <1>10
      <3> QED
        BY <3>1, <3>2
    <2>3. Replies[Last] # <<>> => /\ wire' # <<>> /\ wire'[Len(wire')] = Break
                                  /\ \A i \in 1 .. Len(wire') - 1 : wire'[i] = 43
      <3>1. wire' \in Seq(Nat)
        BY WireRead
      <3>2. ASSUME Len(wire') = 1
            PROVE  1 \in DOMAIN wire' /\ wire' # <<>> /\ 1 .. Len(wire') - 1 = {}
        BY <3>1, <3>2, LoneCharacter
      <3>3. ASSUME Len(wire') = 1 PROVE wire'[Len(wire')] = Break
        BY <2>1, <3>2, <3>3
      <3> QED
        BY <2>2, <3>2, <3>3
    <2>4. gdbstate' = "answer" /\ ack' = gdback'
      BY <1>3, <1>6, <1>10, <2>2
    <2> QED
      BY <1>7, <1>10, <2>1, <2>2, <2>3, <2>4 DEF ToBreak
  <1>11. ASSUME n + 1 = L + 4, Last = cmd PROVE wire' = <<>> /\ Acks'
    <2>1. Len(wire') = 0
      BY <1>2, <1>3, <1>4, <1>5, <1>11
    <2> QED
      BY <1>3, <2>1 DEF Acks
  <1>12. CASE n + 1 <= L + 3 /\ Reading(cmd, n + 1)' /\ UNCHANGED <<back, handled, ack>>
    <2>1. n + 1 \in -Len(wire') .. Len(cmd) + 3
      BY <1>2, <1>3, <1>4, <1>12 DEF L
    <2>2. Due' = IF Fits(cmd) THEN Append(Done', cmd) ELSE Done'
      BY <1>5, <1>7, <1>12, DoneStays
    <2>3. Len(wire') + (n + 1) = Len(wire) + n
      BY <1>3, <1>4
    <2>4. Spelled(cmd, n + 1)'
      BY <1>3, <1>5, <1>7, <1>9, <1>12, <2>2, <2>3 DEF Spelled, Fits, L
    <2>5. Coming'
      BY <1>3, <1>6, <1>12, <2>1, <2>4 DEF Coming
    <2> QED
      BY <2>5 DEF Clean
  <1>13. CASE /\ n + 1 = L + 4 /\ state' = "idle" /\ Fits(cmd) /\ Handle(cmd)
              /\ back' = back \o Acknowledge(Plus) \o Answer(cmd)
    <2>1. handled' = Append(handled, cmd) /\ ack' = (ack /\ cmd # NoAck)
      BY <1>13 DEF Handle
    <2>2. Even'
      <3>1. Done' = Append(Done, cmd)
        BY <1>2, <2>1, DoneAfter DEF OnceInv
      <3> QED
        BY <1>5, <1>7, <1>13, <3>1 DEF Even
    <2> DEFINE b == Answer(cmd)
    <2>3. b \in Seq(Items) /\ Ends(b, cmd) /\ (Replies[cmd] = <<>> => b = <<>>)
      BY <1>2, AnswerItems, AnswerEnds, NoAnswer
    <2>4. cmd = NoAck => b = <<Frame(Text(cmd))>> /\ Replies[cmd] # <<>>
      BY NoAckAnswered
    <2>5. back' = IF ack THEN <<Plus>> \o b ELSE b
      <3>1. back' = <<>> \o Acknowledge(Plus) \o b
        BY <1>6, <1>13
      <3> HIDE DEF b
      <3>2. <<>> \o <<>> \o b = b
        BY <2>3
      <3>3. <<>> \o <<Plus>> \o b = <<Plus>> \o b
        <4>1. <<>> \o <<Plus>> = <<Plus>>
          OBVIOUS
        <4> QED
          BY <4>1
      <3> QED
        BY <1>6, <3>1, <3>2, <3>3 DEF Acknowledge
    <2>6. CASE gdback
      <3>1. Last = cmd /\ wire' = <<>> /\ gdbstate' = "ack" /\ gdback'
        BY <1>3, <1>5, <1>6, <1>11, <1>13, <2>6
      <3>2. back' = <<Plus>> \o b
        BY <1>6, <2>5, <2>6
      <3>3. back' # <<>> /\ Head(back') = Plus /\ Tail(back') = b
        <4> HIDE DEF b
        <4> QED
          BY <2>3, <3>2
      <3>4. cmd = NoAck => b # <<>> /\ b[Len(b)] = Frame(Text(cmd))
        <4> DEFINE p == Frame(Text(cmd))
        <4> HIDE DEF b, p
        <4>1. cmd = NoAck => b = <<p>>
          BY <2>4 DEF p
        <4>2. <<p>> # <<>> /\ <<p>>[Len(<<p>>)] = p
          OBVIOUS
        <4> QED
          BY <4>1, <4>2 DEF p
      <3>5. Told(Tail(back))'
        <4> HIDE DEF b
        <4>1. Last' = cmd /\ ack' = (gdback' /\ cmd # NoAck)
          BY <1>3, <1>6, <1>7, <2>1, <3>1
        <4> QED
          BY <2>3, <3>3, <3>4, <4>1 DEF Told
      <3>6. Acked'
        BY <2>2, <3>1, <3>3, <3>5 DEF Acked
      <3> QED
        BY <3>6 DEF Clean
    <2>7. CASE ~gdback
      <3>1. back' = b /\ ~ack /\ ~ack' /\ ~gdback' /\ gdbstate' = "answer"
        BY <1>3, <1>6, <2>1, <2>5, <2>7
      <3>2. CASE Last = cmd
        <4>1. Told(back)'
          <5> HIDE DEF b
          <5> QED
            BY <1>7, <2>1, <2>3, <3>1, <3>2 DEF Told
        <4>2. Answering'
          BY <1>11, <1>13, <2>2, <3>1, <3>2, <4>1 DEF Answering
        <4> QED
          BY <4>2 DEF Clean
      <3>3. CASE Last # cmd
        <4>1. back' = <<>> /\ ack' = ack
          BY <1>5, <1>6, <2>1, <2>3, <2>7, <3>1, <3>3
        <4>2. ToBreak'
          BY <1>10, <1>13, <2>2, <3>3, <4>1
        <4> QED
          BY <4>2 DEF Clean
      <3> QED
        BY <3>2, <3>3
    <2> QED
      BY <2>6, <2>7
  <1>14. CASE /\ n + 1 = L + 4 /\ state' = "idle" /\ ~Fits(cmd)
              /\ UNCHANGED <<back, handled, ack>>
    <2>1. Even'
      BY <1>5, <1>7, <1>14, DoneStays DEF Even
    <2>2. CASE Last # cmd
      BY <1>6, <1>10, <1>14, <2>1, <2>2 DEF Clean
    <2>3. CASE Last = cmd /\ gdback
      <3>1. wire' = <<>>
        BY <1>11, <1>14, <2>3
      <3>2. ~Fits(Last')
        BY <1>7, <1>14, <2>3 DEF Fits
      <3>3. Dropped'
        BY <1>3, <1>6, <1>14, <2>1, <2>3, <3>1, <3>2 DEF Dropped
      <3> QED
        BY <3>3 DEF Clean
    <2>4. CASE Last = cmd /\ ~gdback
      <3>1. Acks' /\ gdbstate' = "answer" /\ back' = <<>>
        BY <1>3, <1>6, <1>11, <1>14, <2>4
      <3>2. Told(back)'
        BY <1>3, <1>6, <1>14, <2>4, <3>1 DEF Told, Ends
      <3>3. Answering'
        BY <2>1, <3>1, <3>2 DEF Answering
      <3> QED
        BY <3>3 DEF Clean
    <2> QED
      BY <1>6, <2>2, <2>3, <2>4
  <1> QED
    BY <1>8, <1>12, <1>13, <1>14 DEF Progress, L

LEMMA RecvClean == ASSUME OnceInv, GdbRecv, Clean PROVE Clean'
  <1>1. CASE Coming
    BY <1>1, RecvComing
  <1>2. CASE ToBreak
    BY <1>2, RecvToBreak
  <1>3. CASE Answering
    <2>1. Even' /\ Acks' /\ UNCHANGED <<back, ack>> /\ Last' = Last
      BY <1>3, RecvAcks DEF Answering
    <2>2. UNCHANGED <<gdbstate, gdback>>
      BY WireRead
    <2>3. Answering'
      BY <1>3, <2>1, <2>2 DEF Answering, Told, Ends
    <2> QED
      BY <2>3 DEF Clean
  <1>4. CASE Ready
    <2>1. Even' /\ Acks' /\ UNCHANGED <<back, ack>>
      BY <1>4, RecvAcks DEF Ready
    <2>2. UNCHANGED <<gdbstate, gdback>>
      BY WireRead
    <2>3. Ready'
      BY <1>4, <2>1, <2>2 DEF Ready
    <2> QED
      BY <2>3 DEF Clean
  <1>5. CASE Acked \/ Dropped
    BY <1>5, WireRead DEF Acked, Dropped
  <1> QED
    BY <1>1, <1>2, <1>3, <1>4, <1>5 DEF Clean

-----------------------------------------------------------------------------
\* gdb sends a command when it has the answer to the last.
LEMMA SendClean ==
  ASSUME OnceInv, Clean, NEW cmd \in Commands, SendCommand(cmd) PROVE Clean'
  <1> DEFINE f == Frame(cmd)
  <1>0. PICK n \in Int : n = -Len(wire)
    <2>1. Len(wire) \in Nat
      BY DEF OnceInv, LinkInv
    <2> QED
      BY <2>1
  <1>1. Ready
    BY DEF SendCommand, Clean, Coming, ToBreak, Answering, Acked, Dropped
  <1>2. /\ cmd \in Seq(Nat) /\ cmd # <<Dollar>> /\ Len(cmd) \in Nat
        /\ f \in Seq(Nat) /\ Len(f) = Len(cmd) + 4
    BY CommandIs, FrameIs, FrameChars
  <1>3. /\ sent' = Append(sent, cmd) /\ wire' = wire \o f
        /\ gdbstate' = IF gdback THEN "ack" ELSE "answer"
        /\ UNCHANGED <<back, state, rxbuf, rxsum, chk, ack, handled, gdback>>
    BY DEF SendCommand, reader
  <1>4. wire \in Seq(Nat) /\ Len(wire) \in Nat /\ sent \in Seq(Seq(Nat))
    BY DEF OnceInv, LinkInv
  <1> HIDE DEF f
  <1>5. /\ Len(wire') = Len(wire) + Len(f) /\ DOMAIN wire' = 1 .. Len(wire')
        /\ \A i \in 1 .. Len(wire') :
             wire'[i] = IF i <= Len(wire) THEN wire[i] ELSE f[i - Len(wire)]
    <2>1. wire \o f \in Seq(Nat) /\ Len(wire \o f) = Len(wire) + Len(f)
      BY <1>2, <1>4, ConcatProperties
    <2>2. \A i \in 1 .. Len(wire \o f) :
             (wire \o f)[i] = IF i <= Len(wire) THEN wire[i] ELSE f[i - Len(wire)]
      BY <1>2, <1>4, ConcatProperties
    <2> QED
      BY <1>3, <2>1, <2>2
  <1>6. \A i \in DOMAIN wire' : wire'[i] = Char(cmd, n + i)
    <2> SUFFICES ASSUME NEW i \in DOMAIN wire' PROVE wire'[i] = Char(cmd, n + i)
      OBVIOUS
    <2>1. i \in Int /\ i >= 1 /\ i <= Len(wire) + Len(cmd) + 4
      BY <1>2, <1>4, <1>5
    <2>2. CASE i <= Len(wire)
      <3>1. i \in DOMAIN wire
        BY <1>4, <2>1, <2>2
      <3>2. wire'[i] = 43
        BY <1>1, <1>5, <2>2, <3>1 DEF Ready, Acks
      <3> QED
        BY <1>0, <1>4, <2>1, <2>2, <3>2 DEF Char
    <2>3. CASE i > Len(wire)
      <3>1. wire'[i] = f[i - Len(wire)]
        BY <1>4, <1>5, <2>1, <2>3
      <3>2. n + i = i - Len(wire) /\ n + i > 0 /\ n + i <= Len(cmd) + 4
        <4> DEFINE l == Len(cmd)
                   w == Len(wire)
        <4>1. l \in Nat /\ w \in Nat /\ n = -w /\ i \in Int /\ i <= w + l + 4 /\ i > w
          BY <1>0, <1>2, <1>4, <2>1, <2>3
        <4> HIDE DEF l, w
        <4>2. n + i = i - w /\ n + i > 0 /\ n + i <= l + 4
          BY <4>1
        <4> QED
          BY <4>2 DEF l, w
      <3> QED
        BY <1>2, <1>4, <2>1, <3>1, <3>2 DEF Char, f
    <2> QED
      BY <1>4, <2>1, <2>2, <2>3
  <1>7. Due' = (IF Fits(cmd) THEN Append(Done', cmd) ELSE Done') /\ Last' = cmd
    <2>1. Done' = Done /\ Done = Due
      BY <1>1, <1>3, DoneStays DEF Ready, Even
    <2> QED
      BY <1>2, <1>3, <1>4, <2>1, DueAfter
  <1>8. Reading(cmd, n)'
    <2>1. state' = "idle" /\ n <= 0
      BY <1>0, <1>1, <1>3, <1>4 DEF Ready, Even
    <2> QED
      BY <2>1 DEF Reading
  <1>9. Len(wire') + n = Len(cmd) + 4 /\ n \in -Len(wire') .. Len(cmd) + 3
    BY <1>0, <1>2, <1>4, <1>5
  <1>10. Spelled(cmd, n)'
    BY <1>2, <1>6, <1>7, <1>8, <1>9 DEF Spelled, Fits
  <1>11. Coming'
    BY <1>1, <1>3, <1>9, <1>10 DEF Coming, Ready
  <1> QED
    BY <1>11 DEF Clean

\* With nothing spoilt gdb never has to send a packet again, and skips nothing.
LEMMA NoResend == ASSUME OnceInv, Clean, Resend PROVE FALSE
  <1>1. gdbstate = "ack" /\ ((back # <<>> /\ Head(back) = Minus) \/ (Silence /\ Fits(Last)))
    BY DEF Resend
  <1>2. CASE Coming
    <2>1. PICK cmd \in Commands : \E n \in -Len(wire) .. Len(cmd) + 3 : Spelled(cmd, n)
      BY <1>2 DEF Coming
    <2>2. PICK n \in -Len(wire) .. Len(cmd) + 3 : Spelled(cmd, n)
      BY <2>1
    <2>3. Len(wire) \in Nat /\ Len(cmd) \in Nat
      BY CommandIs DEF OnceInv, LinkInv
    <2>4. Len(wire) + n >= Len(cmd) + 4
      BY <2>2 DEF Spelled
    <2>5. wire # <<>>
      <3>1. Len(wire) # 0
        BY <2>3, <2>4
      <3> QED
        BY <3>1
    <2> QED
      BY <1>1, <1>2, <2>5 DEF Coming, Silence
  <1>3. CASE Acked
    <2>1. Plus # Minus
      BY DEF Plus, Minus
    <2> QED
      BY <1>1, <1>3, <2>1 DEF Acked, Silence
  <1>4. CASE Dropped
    BY <1>1, <1>4 DEF Dropped
  <1> QED
    BY <1>1, <1>2, <1>3, <1>4 DEF Clean, ToBreak, Answering, Ready

LEMMA NoSkip == ASSUME OnceInv, Clean, Skip PROVE FALSE
  BY DEF Clean, Skip, Coming, ToBreak, Answering, Acked, Dropped, Ready

LEMMA GetAckClean == ASSUME OnceInv, Clean, GetAck PROVE Clean'
  <1>1. /\ gdbstate = "ack" /\ back # <<>> /\ back' = Tail(back) /\ gdbstate' = "answer"
        /\ UNCHANGED <<wire, state, ack, handled, sent, gdback>>
    BY DEF GetAck, reader
  <1>2. Acked
    BY <1>1 DEF Clean, Coming, ToBreak, Answering, Dropped, Ready
  <1>3. Due' = Due /\ Last' = Last /\ Done' = Done
    BY <1>1, DueStays, DoneStays
  <1>4. Even' /\ Acks'
    BY <1>1, <1>2, <1>3 DEF Acked, Even, Acks
  <1>5. Told(back)'
    BY <1>1, <1>2, <1>3 DEF Acked, Told, Ends
  <1>6. Answering'
    BY <1>1, <1>4, <1>5 DEF Answering
  <1> QED
    BY <1>6 DEF Clean

\* gdb gives up what will not be answered.
LEMMA GiveUpClean == ASSUME OnceInv, Clean, GiveUp PROVE Clean'
  <1>1. /\ gdbstate \in {"ack", "answer"} /\ wire = <<>> /\ back = <<>>
        /\ gdbstate = "ack" => ~Fits(Last)
        /\ gdbstate' = "ready"
        /\ UNCHANGED <<wire, back, state, ack, handled, sent, gdback>>
    BY DEF GiveUp, Silence, reader
  <1>2. ~Coming
    <2> SUFFICES ASSUME Coming PROVE FALSE
      OBVIOUS
    <2>1. PICK cmd \in Commands : \E n \in -Len(wire) .. Len(cmd) + 3 : Spelled(cmd, n)
      BY DEF Coming
    <2>2. PICK n \in -Len(wire) .. Len(cmd) + 3 : Spelled(cmd, n)
      BY <2>1
    <2>3. Len(wire) = 0 /\ Len(cmd) \in Nat
      BY <1>1, CommandIs
    <2>4. Len(wire) + n >= Len(cmd) + 4
      BY <2>2 DEF Spelled
    <2> QED
      BY <2>2, <2>3, <2>4
  <1>3. Even /\ ack = gdback
    <2>1. gdback \in BOOLEAN /\ ack \in BOOLEAN
      BY DEF OnceInv, LinkInv, TypeOK
    <2> QED
      BY <1>1, <1>2, <2>1 DEF Clean, ToBreak, Answering, Acked, Dropped, Ready, Told
  <1>4. Even'
    BY <1>1, <1>3, DueStays, DoneStays DEF Even
  <1>5. Ready'
    BY <1>1, <1>3, <1>4 DEF Ready, Acks
  <1> QED
    BY <1>5 DEF Clean

\* gdb takes what is left of the answer; the text that ends it ends all.
LEMMA GetPacketClean == ASSUME OnceInv, Clean, GetPacket PROVE Clean'
  <1>1. /\ gdbstate = "answer" /\ back # <<>> /\ back' = Tail(back)
        /\ UNCHANGED <<state, ack, handled>>
        /\ gdback \in BOOLEAN /\ ack \in BOOLEAN
    BY DEF GetPacket, reader, OnceInv, LinkInv, TypeOK
  <1>2. UNCHANGED sent
    BY DEF GetPacket, client
  <1>3. Even /\ Acks /\ Told(back)
    BY <1>1 DEF Clean, Coming, ToBreak, Answering, Acked, Dropped, Ready
  <1>4. Even' /\ Last' = Last
    BY <1>1, <1>2, <1>3, DueStays, DoneStays DEF Even
  <1>5. /\ Len(back) \in Nat \ {0} /\ DOMAIN back = 1 .. Len(back) /\ Head(back) = back[1]
        /\ Len(back') = Len(back) - 1 /\ DOMAIN back' = 1 .. Len(back')
        /\ \A i \in DOMAIN back' : i + 1 \in DOMAIN back /\ back'[i] = back[i + 1]
        /\ Len(back') = 0 <=> back' = <<>>
    <2>1. back \in Seq(Items)
      BY DEF OnceInv, BackInv
    <2>2. /\ Tail(back) \in Seq(Items) /\ Len(Tail(back)) = Len(back) - 1
          /\ \A i \in 1 .. Len(Tail(back)) : Tail(back)[i] = back[i + 1]
      BY <1>1, <2>1, HeadTailProperties
    <2>3. /\ Len(back) \in Nat \ {0} /\ DOMAIN back = 1 .. Len(back) /\ Head(back) = back[1]
          /\ DOMAIN back' = 1 .. Len(back') /\ (Len(back') = 0 <=> back' = <<>>)
      <3>1. Len(back) \in Nat \ {0} /\ DOMAIN back = 1 .. Len(back) /\ Head(back) = back[1]
        BY <1>1, <2>1
      <3>2. back' \in Seq(Items)
        BY <1>1, <2>2
      <3>3. DOMAIN back' = 1 .. Len(back') /\ (Len(back') = 0 <=> back' = <<>>)
        BY <3>2
      <3> QED
        BY <3>1, <3>3
    <2>4. \A i \in DOMAIN back' : i + 1 \in DOMAIN back /\ back'[i] = back[i + 1]
      BY <1>1, <2>2, <2>3
    <2> QED
      BY <1>1, <2>2, <2>3, <2>4
  <1>6. Ends(back', Last)
    <2> SUFFICES ASSUME NEW i \in DOMAIN back', back'[i] = Frame(Text(Last))
                 PROVE  i = Len(back')
      BY DEF Ends
    <2>1. i + 1 = Len(back)
      BY <1>3, <1>5 DEF Told, Ends
    <2> QED
      BY <1>5, <2>1
  <1>7. Acks'
    <2>1. CASE UNCHANGED wire
      BY <1>3, <2>1 DEF Acks
    <2>2. CASE wire' = wire \o Plus
      <3>1. wire \in Seq(Nat)
        BY DEF OnceInv, LinkInv
      <3>2. Plus = <<43>> /\ wire' \in Seq(Nat) /\ Len(wire') = Len(wire) + 1
        BY <2>2, <3>1 DEF Plus
      <3>3. DOMAIN wire' = 1 .. Len(wire) + 1 /\ DOMAIN wire = 1 .. Len(wire) /\ Len(wire) \in Nat
        BY <3>1, <3>2
      <3>4. /\ \A i \in 1 .. Len(wire) : wire'[i] = wire[i]
            /\ wire'[Len(wire) + 1] = 43
        BY <2>2, <3>1 DEF Plus
      <3> QED
        BY <1>3, <3>3, <3>4 DEF Acks
    <2> QED
      BY <2>1, <2>2 DEF GetPacket
  \* The last packet of the answer is still to come, or is this one.
  <1>8. ASSUME gdback, Last = NoAck, back' = <<>> PROVE Head(back) = Frame(Text(Last))
    <2>1. back[Len(back)] = Frame(Text(Last))
      BY <1>3, <1>8 DEF Told
    <2>2. Len(back) = 1
      <3>1. Len(back') = 0
        BY <1>5, <1>8
      <3> QED
        BY <1>5, <3>1
    <2> QED
      BY <1>5, <2>1, <2>2
  <1>9. ASSUME gdback, Last = NoAck, back' # <<>>
        PROVE  back'[Len(back')] = Frame(Text(Last))
    <2>1. back[Len(back)] = Frame(Text(Last))
      BY <1>3, <1>9 DEF Told
    <2>2. Len(back') \in DOMAIN back' /\ Len(back') + 1 = Len(back)
      BY <1>5, <1>9
    <2> QED
      BY <1>5, <2>1, <2>2
  <1>10. Replies[Last] # <<>>
    BY <1>1, <1>3 DEF Told
  <1>11. CASE /\ gdbstate' = "answer" /\ gdback' = gdback
              /\ Last = NoAck => Head(back) # Frame(Text(Last))
    <2>1. Told(back)'
      BY <1>1, <1>3, <1>4, <1>6, <1>8, <1>9, <1>10, <1>11 DEF Told
    <2>2. Answering'
      BY <1>4, <1>7, <1>11, <2>1 DEF Answering
    <2> QED
      BY <2>2 DEF Clean
  <1>12. CASE /\ Head(back) = Frame(Text(Last)) /\ gdbstate' = "ready"
              /\ gdback' = (gdback /\ Last # NoAck)
    <2>1. back' = <<>>
      <3>1. 1 = Len(back)
        BY <1>3, <1>5, <1>12 DEF Told, Ends
      <3> QED
        BY <1>5, <3>1
    <2>2. ack' = gdback'
      BY <1>1, <1>3, <1>12 DEF Told
    <2>3. Ready'
      BY <1>4, <1>7, <1>12, <2>1, <2>2 DEF Ready
    <2> QED
      BY <2>3 DEF Clean
  <1>13. CASE Head(back) \in {Plus, Minus}
    <2>1. Last = NoAck => Head(back) # Frame(Text(Last))
      <3>1. NoAck \in DOMAIN Replies
        BY LinkAssumption
      <3>2. Frame(Text(NoAck))[1] = Dollar
        BY <3>1, TextsAre, FrameChars
      <3>3. Head(back)[1] # Dollar
        BY <1>13 DEF Plus, Minus, Dollar
      <3> QED
        BY <3>2, <3>3
    <2>2. UNCHANGED <<gdbstate, gdback>>
      BY <1>13 DEF GetPacket, client
    <2> QED
      BY <1>1, <1>11, <2>1, <2>2
  <1>14. CASE Head(back) \notin {Plus, Minus}
    <2>1. /\ gdbstate' = IF Head(back) = Frame(Text(Last)) THEN "ready" ELSE gdbstate
          /\ gdback' = (gdback /\ ~(Last = NoAck /\ gdbstate' = "ready"))
      BY <1>14 DEF GetPacket
    <2>2. CASE Head(back) = Frame(Text(Last))
      BY <1>1, <1>12, <2>1, <2>2
    <2>3. CASE Head(back) # Frame(Text(Last))
      BY <1>1, <1>11, <2>1, <2>3
    <2> QED
      BY <2>2, <2>3
  <1> QED
    BY <1>13, <1>14

\* gdb types ^C while the core runs.
LEMMA TypeBreakClean == ASSUME OnceInv, Clean, TypeBreak PROVE Clean'
  <1>1. /\ gdbstate = "answer" /\ Replies[Last] = <<>>
        /\ sent' = Append(sent, <<Dollar>>) /\ wire' = Append(wire, Break)
        /\ UNCHANGED <<back, state, rxbuf, rxsum, chk, ack, handled, gdbstate, gdback>>
    BY DEF TypeBreak, reader
  <1>2. Due' = Due /\ Last' = <<Dollar>> /\ Done' = Done
    <2>1. sent \in Seq(Seq(Nat))
      BY DEF OnceInv, LinkInv
    <2> QED
      BY <1>1, <2>1, BreakIs, DueAfter, DoneStays
  <1>3. /\ Len(wire) \in Nat /\ Len(wire') = Len(wire) + 1 /\ wire' # <<>>
        /\ DOMAIN wire = 1 .. Len(wire) /\ DOMAIN wire' = 1 .. Len(wire) + 1
        /\ \A i \in 1 .. Len(wire) : wire'[i] = wire[i]
        /\ wire'[Len(wire) + 1] = Break
    <2>1. wire \in Seq(Nat) /\ Break \in Nat
      BY DEF OnceInv, LinkInv, Break
    <2> HIDE DEF Break
    <2> QED
      BY <1>1, <2>1, AppendProperties
  <1>4. gdback \in BOOLEAN /\ ack \in BOOLEAN
    BY DEF OnceInv, LinkInv, TypeOK
  <1>5. CASE Coming
    <2>1. PICK cmd \in Commands : \E n \in -Len(wire) .. Len(cmd) + 3 : Spelled(cmd, n)
      BY <1>5 DEF Coming
    <2>2. PICK n \in -Len(wire) .. Len(cmd) + 3 : Spelled(cmd, n)
      BY <2>1
    <2>3. cmd # <<Dollar>> /\ Len(cmd) \in Nat /\ n \in Int /\ n <= Len(cmd) + 3 /\ n >= -Len(wire)
      BY <1>3, CommandIs
    <2>4. ~gdback /\ back = <<>> /\ ack = gdback
      BY <1>1, <1>5 DEF Coming
    <2>5. Replies[cmd] = <<>> /\ (Replies[<<Dollar>>] # <<>> => Len(wire) + n = Len(cmd) + 4)
      BY <1>1, <2>2 DEF Spelled
    <2>6. \A i \in DOMAIN wire' : wire'[i] = Char(cmd, n + i)
      <3> SUFFICES ASSUME NEW i \in DOMAIN wire' PROVE wire'[i] = Char(cmd, n + i)
        OBVIOUS
      <3>1. CASE i \in 1 .. Len(wire)
        BY <1>3, <2>2, <3>1 DEF Spelled
      <3>2. CASE i = Len(wire) + 1
        <4>1. n + i > Len(cmd) + 4
          BY <1>3, <2>2, <2>3, <3>2 DEF Spelled
        <4>2. n + i \in Int
          BY <1>3, <2>3, <3>2
        <4> QED
          BY <1>3, <3>2, <4>1, <4>2, CharIs
      <3> QED
        BY <1>3, <3>1, <3>2
    <2>7. Reading(cmd, n)'
      BY <1>1, <2>2 DEF Spelled, Reading, Fits
    <2>8. /\ Len(wire') + n >= Len(cmd) + 4
          /\ Replies[<<Dollar>>] # <<>> => Len(wire') + n = Len(cmd) + 5
          /\ n \in -Len(wire') .. Len(cmd) + 3
      BY <1>3, <2>2, <2>3, <2>5 DEF Spelled
    <2>9. Due' = IF Fits(cmd) THEN Append(Done', cmd) ELSE Done'
      BY <1>2, <2>2 DEF Spelled
    <2>10. Spelled(cmd, n)'
      BY <1>1, <1>2, <2>3, <2>4, <2>5, <2>6, <2>7, <2>8, <2>9 DEF Spelled, Fits
    <2>11. Coming'
      BY <1>1, <1>5, <2>8, <2>10 DEF Coming
    <2> QED
      BY <2>11 DEF Clean
  <1>6. ASSUME Even, back = <<>>, ack = gdback,
               \A i \in DOMAIN wire : wire[i] \in {43, Break},
               Replies[<<Dollar>>] # <<>> => \A i \in DOMAIN wire : wire[i] = 43
        PROVE  ToBreak'
    <2>1. Even'
      BY <1>1, <1>2, <1>6 DEF Even
    <2>2. \A i \in DOMAIN wire' : wire'[i] \in {43, Break}
      <3> SUFFICES ASSUME NEW i \in DOMAIN wire' PROVE wire'[i] \in {43, Break}
        OBVIOUS
      <3>1. i \in 1 .. Len(wire) \/ i = Len(wire) + 1
        BY <1>3
      <3> QED
        BY <1>3, <1>6, <3>1
    <2>3. Replies[Last'] # <<>> => /\ wire'[Len(wire')] = Break
                                   /\ \A i \in 1 .. Len(wire') - 1 : wire'[i] = 43
      BY <1>2, <1>3, <1>6
    <2> QED
      BY <1>1, <1>2, <1>3, <1>6, <2>1, <2>2, <2>3 DEF ToBreak
  <1>7. CASE ToBreak
    <2>1. ToBreak'
      BY <1>1, <1>6, <1>7 DEF ToBreak
    <2> QED
      BY <2>1 DEF Clean
  <1>8. CASE Answering
    <2>1. Last # NoAck
      BY <1>1, NoAckAnswered
    <2>2. ToBreak'
      BY <1>1, <1>4, <1>6, <1>8, <2>1 DEF Answering, Acks, Told
    <2> QED
      BY <2>2 DEF Clean
  <1> QED
    BY <1>1, <1>5, <1>7, <1>8 DEF Clean, Acked, Dropped, Ready

LEMMA CleanInit == Init => Clean
  <1> SUFFICES ASSUME Init PROVE Clean
    OBVIOUS
  <1>1. Done = <<>> /\ Due = <<>>
    BY WithoutNothing DEF Init, Done, Due
  <1>2. Ready
    BY <1>1 DEF Init, Ready, Even, Acks
  <1> QED
    BY <1>2 DEF Clean

LEMMA CleanStays == ASSUME OnceInv, Clean, UNCHANGED vars PROVE Clean'
  <1>1. /\ UNCHANGED <<wire, back, state, rxbuf, rxsum, chk, ack, gdbstate, gdback>>
        /\ Due' = Due /\ Last' = Last /\ Done' = Done
    BY DueStays, DoneStays DEF vars, reader, client
  <1>2. Even' = Even /\ Acks' = Acks
    BY <1>1 DEF Even, Acks
  <1>3. CASE Coming
    <2>1. ASSUME NEW cmd, NEW n, Spelled(cmd, n) PROVE Spelled(cmd, n)'
      BY <1>1, <2>1 DEF Spelled, Reading, Fits
    <2>2. Coming'
      BY <1>1, <1>3, <2>1 DEF Coming
    <2> QED
      BY <2>2 DEF Clean
  <1>4. CASE ToBreak
    BY <1>1, <1>2, <1>4 DEF Clean, ToBreak
  <1>5. CASE Answering
    BY <1>1, <1>2, <1>5 DEF Clean, Answering, Told, Ends
  <1>6. CASE Acked
    BY <1>1, <1>2, <1>6 DEF Clean, Acked, Told, Ends
  <1>7. CASE Dropped
    BY <1>1, <1>2, <1>7 DEF Clean, Dropped, Fits
  <1>8. CASE Ready
    BY <1>1, <1>2, <1>8 DEF Clean, Ready
  <1> QED
    BY <1>3, <1>4, <1>5, <1>6, <1>7, <1>8 DEF Clean

LEMMA HandledType ==
  ASSUME OnceInv, [Next]_vars PROVE handled' \in Seq(Seq(Nat))
  <1> DEFINE S == Seq(Nat)
  <1>1. handled \in Seq(S) /\ rxbuf \in S /\ <<Dollar>> \in S
    BY BreakIs DEF OnceInv, LinkInv, TypeOK
  <1>2. \/ UNCHANGED handled
        \/ handled' = Append(handled, <<Dollar>>)
        \/ handled' = Append(handled, rxbuf)
    <2>1. CASE GdbRecv
      BY <2>1 DEF GdbRecv, Idle, Recv, Chk1, Chk2, Handle
    <2>2. CASE UNCHANGED reader
      BY <2>2 DEF reader
    <2>3. GdbRecv \/ UNCHANGED reader
      BY DEF Next, vars, SendCommand, Resend, GiveUp, GetAck, Skip, GetPacket, TypeBreak, Spoil
    <2> QED
      BY <2>1, <2>2, <2>3
  <1> HIDE DEF S
  <1>3. handled' \in Seq(S)
    <2>1. CASE UNCHANGED handled
      BY <1>1, <2>1
    <2>2. ASSUME NEW e \in S, handled' = Append(handled, e) PROVE handled' \in Seq(S)
      <3>1. Append(handled, e) \in Seq(S)
        BY <1>1, AppendProperties
      <3> QED
        BY <2>2, <3>1
    <2> QED
      BY <1>1, <1>2, <2>1, <2>2
  <1> QED
    BY <1>3 DEF S

LEMMA CleanStep ==
  ASSUME OnceInv, [Next]_vars, faults' = 0 PROVE Clean'
  <1>1. CASE Spoil
    BY <1>1, LinkAssumption DEF Spoil, OnceInv, LinkInv, TypeOK
  <1>2. CASE ~Spoil
    <2>1. faults = 0
      BY <1>2 DEF Next, vars, GdbRecv, SendCommand, Resend, GiveUp, GetAck, Skip, GetPacket,
         TypeBreak
    <2>2. Clean
      BY <2>1 DEF OnceInv
    <2> QED
      BY <1>2, <2>2, RecvClean, SendClean, NoResend, NoSkip, GetAckClean, GiveUpClean,
         GetPacketClean, TypeBreakClean, CleanStays DEF Next
  <1> QED
    BY <1>1, <1>2

LEMMA OnceStep == OnceInv /\ [Next]_vars => OnceInv'
  <1> SUFFICES ASSUME OnceInv, [Next]_vars PROVE OnceInv'
    OBVIOUS
  <1>1. LinkInv' /\ BackInv'
    BY LinkTypeStep, BackStep DEF OnceInv
  <1> QED
    BY <1>1, HandledType, CleanStep DEF OnceInv

LEMMA CleanOnce == ASSUME OnceInv, Clean PROVE Once
  <1>1. Done \in Seq(Seq(Nat)) /\ (Due = Done \/ \E cmd \in Commands : Due = Append(Done, cmd))
    BY DoneType DEF Clean, Coming, Spelled, ToBreak, Answering, Acked, Dropped, Ready, Even
  <1> DEFINE S == Seq(Nat)
  <1>2. Done \in Seq(S) /\ Commands \subseteq S
    BY <1>1, LinkAssumption
  <1> HIDE DEF S
  <1>3. CASE Due = Done
    <2>1. Done = SubSeq(Done, 1, Len(Done))
      BY <1>2, SubSeqFull
    <2> QED
      BY <1>3, <2>1 DEF Once
  <1>4. ASSUME NEW cmd \in Commands, Due = Append(Done, cmd) PROVE Once
    <2>1. cmd \in S /\ Len(Due) = Len(Done) + 1 /\ Len(Done) \in Nat
      BY <1>2, <1>4
    <2>2. Done = SubSeq(Due, 1, Len(Done))
      <3>1. \A i \in 1 .. Len(Done) : Due[i] \in S /\ Due[i] = Done[i]
        BY <1>2, <1>4, <2>1
      <3>2. /\ SubSeq(Due, 1, Len(Done)) \in Seq(S)
            /\ Len(SubSeq(Due, 1, Len(Done))) = Len(Done)
            /\ \A i \in 1 .. Len(Done) : SubSeq(Due, 1, Len(Done))[i] = Due[i]
        BY <2>1, <3>1, SubSeqProperties
      <3> QED
        BY <1>2, <3>1, <3>2, SeqEqual
    <2> QED
      BY <2>1, <2>2 DEF Once
  <1> QED
    BY <1>1, <1>3, <1>4

\* As long as no character was spoilt, what the bridge has handled is what gdb
\* has sent, each command once and in order, but for those too long for rxbuf,
\* and with at most one of them on its way: acknowledgements that are turned
\* off in between, breaks, and console lines before an answer do not put gdb and
\* the bridge out of step.
THEOREM HandledOnce == Spec => [](faults = 0 => Once)
  <1>1. Init => OnceInv
    BY LinkTypeInit, BackInit, CleanInit DEF OnceInv, Init
  <1>2. OnceInv => (faults = 0 => Once)
    BY CleanOnce DEF OnceInv
  <1> QED
    BY <1>1, <1>2, OnceStep, PTL DEF Spec
==============================================================================
