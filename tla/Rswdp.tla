------------------------------- MODULE Rswdp -------------------------------
(***************************************************************************)
(* The transport between the debugger and the debug probe (rswdp.c, with   *)
(* the usb.c wrappers it calls).                                           *)
(*                                                                         *)
(* Any number of threads run q_exec: each sends one transaction over USB   *)
(* and waits on the condition variable swd_event for its reply.  One more  *)
(* thread, swd_reader, opens the probe, asks it for its version, reads     *)
(* every packet and hands replies over through a slot that holds a single  *)
(* pending transaction (swd_txn_id, swd_txn_data, swd_txn_status).         *)
(*                                                                         *)
(* All of that state is protected by swd_lock, which pthread_cond_wait     *)
(* releases: an action below is what one thread does between taking        *)
(* swd_lock and releasing it, or one step it takes without the lock.       *)
(*                                                                         *)
(* This module puts no discipline on the threads; module Debugger adds the *)
(* lock that the rest of the program takes around its commands.            *)
(***************************************************************************)
EXTENDS Integers, Sequences, FiniteSets

CONSTANTS
    Callers,   \* the threads that may run q_exec
    Handles,   \* the addresses usb_open can return
    NULL,      \* the null pointer
    SeqMod,    \* sequence numbers are counted modulo this (u16: 2^16)
    Sizes,     \* receive buffer sizes, in words, that probes declare
    DefaultSize, \* the size assumed of a probe that declares none
    PipeCap,   \* how many packets each USB pipe holds
    Faults     \* what may go wrong: a subset of AllFaults

\* Faults of the environment: a write that fails, a read that fails with the
\* probe still there, a transaction the probe never answers, packets that
\* answer nothing (asynchronous data, empty packets), a surprise removal, a
\* condition wait that returns without a broadcast.
AllFaults == {"write", "read", "lose", "noise", "unplug", "spurious"}

ASSUME ConstantsAssumption ==
    /\ NULL \notin Callers
    /\ NULL \notin Handles
    /\ SeqMod \in Nat \ {0, 1}
    /\ Sizes \subseteq Nat
    /\ DefaultSize \in Sizes
    /\ PipeCap \in Nat \ {0}
    /\ Faults \subseteq AllFaults

VARIABLES
    \* the globals of rswdp.c
    sequence, swd_online, usb,
    swd_txn_id, swd_txn_data, swd_txn_status,
    swd_maxwords, swd_error,
    \* the frame of q_exec in each caller
    cpc, id, size, data,
    \* the frame of swd_reader
    rpc, query_id, packet,
    \* libusb, the cable and the probe
    open, live, plugged, rxmax, toProbe, toHost

slot   == <<swd_txn_id, swd_txn_data, swd_txn_status>>
frame  == <<cpc, id, size, data>>
reader == <<rpc, query_id, packet>>
pipes  == <<toProbe, toHost>>
probe  == <<open, live, plugged, rxmax, toProbe, toHost>>
vars   == <<sequence, swd_online, usb, swd_txn_id, swd_txn_data,
            swd_txn_status, swd_maxwords, swd_error, cpc, id, size, data,
            rpc, query_id, packet, open, live, plugged, rxmax, toProbe, toHost>>

-----------------------------------------------------------------------------
(* Values *)

Ids  == 0 .. SeqMod - 1
NoId == -1               \* query_id = 0, and packets that carry no id

\* swd_txn_status: a pending transaction, a broken connection, otherwise the
\* length of the reply, of which only being positive matters here.
WAIT == -2
FAIL == -1
IDLE == 0
DONE == 1

\* What usb_read_forever leaves in the reader's buffer.  "status ok" and
\* "status error" are replies that end in CMD_STATUS; "version" answers the
\* reader's query; "junk" is a packet of a length the reader discards.
Packets == [kind : {"ok", "err", "version"}, id : Ids]
           \cup [kind : {"async", "junk"}, id : {NoId}]
NoPacket  == [kind |-> "none", id |-> NoId]
ReadError == [kind |-> "error", id |-> NoId]

\* A reply buffer on the stack of q_exec nothing has been copied into.
Garbage == [kind |-> "garbage", id |-> NoId]

Txns == [kind : {"query", "txn"}, id : Ids, size : Sizes \cup {0}]

Elements(s) == {s[i] : i \in DOMAIN s}

\* Sequence numbers whose transaction or reply is still under way.
InFlight == {t.id : t \in Elements(toProbe)} \cup
            {p.id : p \in Elements(toHost)} \cup {packet.id}

-----------------------------------------------------------------------------
Init ==
    /\ sequence = 1 /\ swd_online = 0 /\ usb = NULL
    /\ swd_txn_id = 0 /\ swd_txn_data = NULL /\ swd_txn_status = IDLE
    /\ swd_maxwords = DefaultSize /\ swd_error = FALSE
    /\ cpc = [c \in Callers |-> "idle"]
    /\ id = [c \in Callers |-> 0]
    /\ size = [c \in Callers |-> 0]
    /\ data = [c \in Callers |-> Garbage]
    /\ rpc = "open" /\ query_id = NoId /\ packet = NoPacket
    /\ open = {} /\ live = {} /\ plugged \in BOOLEAN /\ rxmax \in Sizes
    /\ toProbe = <<>> /\ toHost = <<>>

-----------------------------------------------------------------------------
(* Shared by callers and reader *)

\* sequence++ on a u16.
NextSequence(n) == (n + 1) % SeqMod

\* The caller is in q_exec with a transaction it has sent.
InCall(c) == cpc[c] \in {"wait", "woken", "reply"}

\* The 16 bits of a transaction id repeat after 2^16 transactions; the model
\* assumes that none stays unanswered that long.
NoIdReuse == /\ sequence \notin InFlight
             /\ \A c \in Callers : InCall(c) => sequence # id[c]

\* pthread_cond_broadcast(&swd_event), on the callers and on the reader.
WakeCallers_Nobody(pcs) == pcs
WakeCallers(pcs) == [c \in Callers |-> IF pcs[c] = "wait" THEN "woken" ELSE pcs[c]]
WakeReader_Nobody(pc) == pc
WakeReader(pc) == IF pc = "ackwait" THEN "ackwoken" ELSE pc

\* Whether a bulk write on the handle reaches the probe in full.
CanWrite == usb \in live /\ Len(toProbe) < PipeCap

-----------------------------------------------------------------------------
(* q_exec *)

\* The caller fills in a txn, without swd_lock: a bulk transfer is cut to the
\* probe's buffer (MAXDATAWORDS), everything else is small.  Operations that
\* recover from an error zero swd_error first.
QBuild(c, bulk, clears) ==
    /\ cpc[c] = "idle"
    /\ cpc' = [cpc EXCEPT ![c] = "built"]
    /\ size' = [size EXCEPT ![c] = IF bulk THEN swd_maxwords ELSE 0]
    /\ swd_error' = (swd_error /\ ~clears)
    /\ UNCHANGED <<sequence, swd_online, usb, slot, swd_maxwords, id, data, reader, probe>>

\* What every pass of q_exec through its critical section does first.
QStamp(c) ==
    /\ cpc[c] = "built"
    /\ sequence' = NextSequence(sequence)
    /\ size' = [size EXCEPT ![c] = 0]
    /\ UNCHANGED <<data, swd_maxwords, swd_error>>

\* q_exec returns and its frame is gone; pcs is cpc with what happened to the
\* other callers in it.
QReturn(c, pcs) ==
    /\ cpc' = [pcs EXCEPT ![c] = "idle"]
    /\ id' = [id EXCEPT ![c] = 0]

\* swd_online is -1: acknowledge the disconnect on behalf of the reader.
QAckDisconnect(c) ==
    /\ QStamp(c)
    /\ swd_online = -1
    /\ open' = open \ {usb}
    /\ live' = live \ {usb}
    /\ usb' = NULL
    /\ swd_online' = 0
    /\ rpc' = WakeReader(rpc)
    /\ QReturn(c, WakeCallers(cpc))
    /\ UNCHANGED <<slot, query_id, packet, plugged, rxmax, pipes>>

\* No probe: fail without sending.
QOffline(c) ==
    /\ QStamp(c)
    /\ swd_online = 0
    /\ QReturn(c, cpc)
    /\ UNCHANGED <<swd_online, usb, slot, reader, probe>>

\* usb_write puts a transaction that starts with the current id on the wire.
Send(kind, words) ==
    /\ CanWrite
    /\ NoIdReuse
    /\ toProbe' = Append(toProbe, [kind |-> kind, id |-> sequence, size |-> words])

\* The write went out in full: take the slot and wait for the reply.
QWrite(c) ==
    /\ QStamp(c)
    /\ swd_online = 1
    /\ Send("txn", size[c])
    /\ swd_txn_id' = sequence
    /\ swd_txn_data' = c
    /\ swd_txn_status' = WAIT
    /\ cpc' = [cpc EXCEPT ![c] = "wait"]
    /\ id' = [id EXCEPT ![c] = sequence]
    /\ UNCHANGED <<swd_online, usb, reader, open, live, plugged, rxmax, toHost>>

\* The write failed or came up short (a dead handle, an error, the 5 second
\* timeout); the probe may have got the transaction all the same.
QWriteFail(c) ==
    /\ QStamp(c)
    /\ swd_online = 1
    /\ ~CanWrite \/ "write" \in Faults
    /\ \/ UNCHANGED toProbe
       \/ Send("txn", size[c])
    /\ QReturn(c, cpc)
    /\ UNCHANGED <<swd_online, usb, slot, reader, open, live, plugged, rxmax, toHost>>

\* The do-while around pthread_cond_wait, and what the status says after it.
StillWaiting_Never == FALSE
StillWaiting       == swd_txn_status = WAIT
Failed_Never       == FALSE
Failed             == swd_txn_status = FAIL

QWaitAgain(c) ==
    /\ cpc[c] = "woken"
    /\ StillWaiting
    /\ cpc' = [cpc EXCEPT ![c] = "wait"]
    /\ UNCHANGED <<sequence, swd_online, usb, slot, swd_maxwords, swd_error,
                   id, size, data, reader, probe>>

QWake(c) ==
    /\ cpc[c] = "woken"
    /\ ~StillWaiting
    /\ swd_txn_data' = NULL
    /\ IF Failed
       THEN QReturn(c, cpc) /\ data' = [data EXCEPT ![c] = Garbage]
       ELSE cpc' = [cpc EXCEPT ![c] = "reply"] /\ UNCHANGED <<id, data>>
    /\ UNCHANGED <<sequence, swd_online, usb, swd_txn_id, swd_txn_status,
                   swd_maxwords, swd_error, size, reader, probe>>

\* process_reply, after swd_lock is released: an error status is also kept in
\* swd_error.  A buffer nothing was copied into may read as any reply.
ReplyOutcomes(p) == CASE p.kind = "ok"  -> {"ok"}
                      [] p.kind = "err" -> {"err"}
                      [] OTHER          -> {"ok", "err"}

QReply(c) ==
    /\ cpc[c] = "reply"
    /\ QReturn(c, cpc)
    /\ \E r \in ReplyOutcomes(data[c]) : swd_error' = (swd_error \/ r = "err")
    /\ data' = [data EXCEPT ![c] = Garbage]
    /\ UNCHANGED <<sequence, swd_online, usb, slot, swd_maxwords, size,
                   reader, probe>>

-----------------------------------------------------------------------------
(* swd_reader *)

\* usb_open, retried every 250 ms without swd_lock.
ROpen(h) ==
    /\ rpc = "open"
    /\ plugged
    /\ h \notin open
    /\ usb' = h
    /\ open' = open \cup {h}
    /\ live' = live \cup {h}
    /\ rpc' = "query"
    /\ UNCHANGED <<sequence, swd_online, slot, swd_maxwords, swd_error, frame,
                   query_id, packet, plugged, rxmax, pipes>>

\* The version query; the result of the write is not looked at.
RQuery ==
    /\ rpc = "query"
    /\ query_id' = sequence
    /\ sequence' = NextSequence(sequence)
    /\ \/ Send("query", 0)
       \/ (~CanWrite \/ "write" \in Faults) /\ UNCHANGED toProbe
    /\ rpc' = "read"
    /\ UNCHANGED <<swd_online, usb, slot, swd_maxwords, swd_error, frame, packet,
                   open, live, plugged, rxmax, toHost>>

\* usb_read_forever returns a packet.
RRead ==
    /\ rpc = "read"
    /\ usb \in live
    /\ toHost # <<>>
    /\ packet' = Head(toHost)
    /\ toHost' = Tail(toHost)
    /\ rpc' = "got"
    /\ UNCHANGED <<sequence, swd_online, usb, slot, swd_maxwords, swd_error, frame,
                   query_id, open, live, plugged, rxmax, toProbe>>

\* usb_read_forever fails because the device is gone.
RReadGone ==
    /\ rpc = "read"
    /\ usb \notin live
    /\ packet' = ReadError
    /\ rpc' = "got"
    /\ UNCHANGED <<sequence, swd_online, usb, slot, swd_maxwords, swd_error, frame,
                   query_id, probe>>

\* usb_read_forever fails though the device is there.
RReadFault ==
    /\ "read" \in Faults
    /\ rpc = "read"
    /\ usb \in live
    /\ packet' = ReadError
    /\ rpc' = "got"
    /\ UNCHANGED <<sequence, swd_online, usb, slot, swd_maxwords, swd_error, frame,
                   query_id, probe>>

\* With swd_lock again, the reader looks at what it got, in this order.
IsQueryReply == query_id # NoId /\ packet.id = query_id
IsPending_AnyId == swd_txn_status = WAIT
IsPending    == swd_txn_status = WAIT /\ packet.id = swd_txn_id

RDisconnect ==
    /\ rpc = "got"
    /\ packet = ReadError
    /\ swd_online' = -1
    /\ swd_txn_status' = FAIL
    /\ cpc' = WakeCallers(cpc)
    /\ rpc' = "ackwait"
    /\ packet' = NoPacket
    /\ UNCHANGED <<sequence, usb, swd_txn_id, swd_txn_data, swd_maxwords, swd_error,
                   id, size, data, query_id, probe>>

\* Packets shorter than a word or no multiple of one.
RDiscard ==
    /\ rpc = "got"
    /\ packet.kind = "junk"
    /\ rpc' = "read"
    /\ packet' = NoPacket
    /\ UNCHANGED <<sequence, swd_online, usb, slot, swd_maxwords, swd_error, frame,
                   query_id, probe>>

\* process_query: firmware too old to answer the query reports an error status,
\* and its buffer size is the default.
QueriedSize(p) == IF p.kind = "version" THEN rxmax ELSE DefaultSize

RQueryReply ==
    /\ rpc = "got"
    /\ packet.kind \notin {"error", "junk"}
    /\ IsQueryReply
    /\ query_id' = NoId
    /\ swd_maxwords' = QueriedSize(packet)
    /\ swd_online' = 1
    /\ rpc' = "read"
    /\ packet' = NoPacket
    /\ UNCHANGED <<sequence, usb, slot, swd_error, frame, probe>>

\* process_async runs without swd_lock, for as long as the listeners take.
RAsync ==
    /\ rpc = "got"
    /\ packet.kind = "async"
    /\ rpc' = "async"
    /\ packet' = NoPacket
    /\ UNCHANGED <<sequence, swd_online, usb, slot, swd_maxwords, swd_error, frame,
                   query_id, probe>>

RAsyncDone ==
    /\ rpc = "async"
    /\ rpc' = "read"
    /\ UNCHANGED <<sequence, swd_online, usb, slot, swd_maxwords, swd_error, frame,
                   query_id, packet, probe>>

\* The reply the slot waits for: copied to the buffer the slot points to.
RDeliver ==
    /\ rpc = "got"
    /\ packet.kind \notin {"error", "junk", "async"}
    /\ ~IsQueryReply
    /\ IsPending
    /\ swd_txn_status' = DONE
    /\ data' = [data EXCEPT ![swd_txn_data] = packet]
    /\ cpc' = WakeCallers(cpc)
    /\ rpc' = "read"
    /\ packet' = NoPacket
    /\ UNCHANGED <<sequence, swd_online, usb, swd_txn_id, swd_txn_data, swd_maxwords,
                   swd_error, id, size, query_id, probe>>

\* "unexpected txn": a reply nobody waits for any more.
RUnexpected ==
    /\ rpc = "got"
    /\ packet.kind \notin {"error", "junk", "async"}
    /\ ~IsQueryReply
    /\ ~IsPending
    /\ rpc' = "read"
    /\ packet' = NoPacket
    /\ UNCHANGED <<sequence, swd_online, usb, slot, swd_maxwords, swd_error, frame,
                   query_id, probe>>

\* The wait for the acknowledgement, then back to usb_open.
Acked_AnyWakeup == TRUE
Acked           == swd_online # -1

RAckAgain ==
    /\ rpc = "ackwoken"
    /\ ~Acked
    /\ rpc' = "ackwait"
    /\ UNCHANGED <<sequence, swd_online, usb, slot, swd_maxwords, swd_error, frame,
                   query_id, packet, probe>>

RAcked ==
    /\ rpc = "ackwoken"
    /\ Acked
    /\ rpc' = "open"
    /\ UNCHANGED <<sequence, swd_online, usb, slot, swd_maxwords, swd_error, frame,
                   query_id, packet, probe>>

-----------------------------------------------------------------------------
(* The environment *)

\* The probe runs the oldest transaction and answers it.
ProbeAnswer(ok) ==
    /\ plugged
    /\ toProbe # <<>>
    /\ Len(toHost) < PipeCap
    /\ toHost' = Append(toHost,
          [kind |-> CASE ~ok -> "err"
                      [] ok /\ Head(toProbe).kind = "query" -> "version"
                      [] OTHER -> "ok",
           id |-> Head(toProbe).id])
    /\ toProbe' = Tail(toProbe)
    /\ UNCHANGED <<sequence, swd_online, usb, slot, swd_maxwords, swd_error, frame,
                   reader, open, live, plugged, rxmax>>

\* It drops one without an answer.
ProbeLose ==
    /\ "lose" \in Faults
    /\ plugged
    /\ toProbe # <<>>
    /\ toProbe' = Tail(toProbe)
    /\ UNCHANGED <<sequence, swd_online, usb, slot, swd_maxwords, swd_error, frame,
                   reader, open, live, plugged, rxmax, toHost>>

\* It sends trace data or a print on its own account, or an empty packet.
ProbeNoise(kind) ==
    /\ "noise" \in Faults
    /\ plugged
    /\ Len(toHost) < PipeCap
    /\ toHost' = Append(toHost, [kind |-> kind, id |-> NoId])
    /\ UNCHANGED <<sequence, swd_online, usb, slot, swd_maxwords, swd_error, frame,
                   reader, open, live, plugged, rxmax, toProbe>>

\* The cable is pulled: open handles go dead, and what was in flight is lost.
Unplug ==
    /\ "unplug" \in Faults
    /\ plugged
    /\ plugged' = FALSE
    /\ live' = {}
    /\ toProbe' = <<>>
    /\ toHost' = <<>>
    /\ UNCHANGED <<sequence, swd_online, usb, slot, swd_maxwords, swd_error, frame,
                   reader, open, rxmax>>

\* A probe is connected, the same one or another.
Plug(words) ==
    /\ ~plugged
    /\ plugged' = TRUE
    /\ rxmax' = words
    /\ UNCHANGED <<sequence, swd_online, usb, slot, swd_maxwords, swd_error, frame,
                   reader, open, live, pipes>>

\* POSIX lets a condition wait return without a broadcast.
SpuriousCaller(c) ==
    /\ "spurious" \in Faults
    /\ cpc[c] = "wait"
    /\ cpc' = [cpc EXCEPT ![c] = "woken"]
    /\ UNCHANGED <<sequence, swd_online, usb, slot, swd_maxwords, swd_error,
                   id, size, data, reader, probe>>

SpuriousReader ==
    /\ "spurious" \in Faults
    /\ rpc = "ackwait"
    /\ rpc' = "ackwoken"
    /\ UNCHANGED <<sequence, swd_online, usb, slot, swd_maxwords, swd_error, frame,
                   query_id, packet, probe>>

-----------------------------------------------------------------------------
QExec(c) == QAckDisconnect(c) \/ QOffline(c) \/ QWrite(c) \/ QWriteFail(c)

Caller(c) == QExec(c) \/ QWaitAgain(c) \/ QWake(c) \/ QReply(c)

Reader == \/ \E h \in Handles : ROpen(h)
          \/ RQuery \/ RRead \/ RReadGone \/ RDisconnect \/ RDiscard
          \/ RQueryReply \/ RAsync \/ RAsyncDone \/ RDeliver \/ RUnexpected
          \/ RAckAgain \/ RAcked

Environment ==
    \/ RReadFault \/ ProbeLose \/ Unplug \/ SpuriousReader
    \/ \E ok \in BOOLEAN : ProbeAnswer(ok)
    \/ \E kind \in {"async", "junk"} : ProbeNoise(kind)
    \/ \E words \in Sizes : Plug(words)
    \/ \E c \in Callers : SpuriousCaller(c)

Next == \/ \E c \in Callers : Caller(c)
        \/ \E c \in Callers, bulk, clears \in BOOLEAN : QBuild(c, bulk, clears)
        \/ Reader
        \/ Environment

Spec == Init /\ [][Next]_vars

(***************************************************************************)
(* Properties that hold whatever the callers do.                           *)
(***************************************************************************)

\* The types of the variables.
TypeOK ==
    /\ sequence \in Ids
    /\ swd_online \in {-1, 0, 1}
    /\ usb \in Handles \cup {NULL}
    /\ swd_txn_id \in Ids
    /\ swd_txn_data \in Callers \cup {NULL}
    /\ swd_txn_status \in {WAIT, FAIL, IDLE, DONE}
    /\ swd_maxwords \in Sizes
    /\ swd_error \in BOOLEAN
    /\ cpc \in [Callers -> {"idle", "built", "wait", "woken", "reply"}]
    /\ id \in [Callers -> Ids]
    /\ size \in [Callers -> Sizes \cup {0}]
    /\ data \in [Callers -> Packets \cup {Garbage}]
    /\ rpc \in {"open", "query", "read", "got", "async", "ackwait", "ackwoken"}
    /\ query_id \in Ids \cup {NoId}
    /\ packet \in Packets \cup {NoPacket, ReadError}
    /\ open \in SUBSET Handles
    /\ live \in SUBSET open
    /\ plugged \in BOOLEAN
    /\ rxmax \in Sizes
    /\ toProbe \in Seq(Txns)
    /\ toHost \in Seq(Packets)

\* The handle is closed by a caller while the reader reads from it without the
\* lock.  Nobody ever uses a closed handle, closes one twice or loses one:
\* usb points to the only open handle, it is open whenever the reader reads or
\* a caller may write to it or close it, and a caller may close it only while
\* the reader is parked (q_exec, swd_reader: the swd_online handshake).
HandleSafe ==
    /\ open \subseteq {usb}
    /\ rpc \in {"query", "read", "got", "async"} => usb \in open
    /\ swd_online # 0 => usb \in open
    /\ swd_online = -1 <=> usb \in open /\ rpc \in {"ackwait", "ackwoken"}

\* The reader copies a reply through swd_txn_data into the stack frame of some
\* q_exec.  While the slot is pending, that frame is one of a caller that is
\* still waiting, and it waits for the id in the slot.
SlotSafe ==
    swd_txn_status = WAIT =>
        /\ swd_txn_data \in Callers
        /\ cpc[swd_txn_data] \in {"wait", "woken"}
        /\ id[swd_txn_data] = swd_txn_id

\* Late replies (to calls that failed, to calls of an earlier connection) are
\* dropped: what is copied to a caller answers the transaction it sent.
NoStaleReply ==
    \A c \in Callers : InCall(c) /\ data[c] # Garbage => data[c].id = id[c]

\* No wakeup is lost: a thread is blocked on swd_event only while what it
\* waits for has not happened.
NoLostWakeup ==
    /\ \A c \in Callers : cpc[c] = "wait" => swd_txn_status = WAIT /\ swd_online = 1
    /\ rpc = "ackwait" => swd_online = -1

\* What the above rest on: how far the reader has got decides what swd_online
\* may be and whether a handle is open, a transaction is pending only while
\* the probe is on line, and a reply buffer is empty before it is waited for.
Handshake ==
    /\ rpc = "open" => open = {}
    /\ rpc \in {"open", "query"} => swd_online = 0
    /\ rpc \in {"ackwait", "ackwoken"} =>
          swd_online \in {-1, 0} /\ (swd_online = 0 => open = {})
    /\ swd_online = 1 => rpc \in {"read", "got", "async"}
    /\ swd_txn_status = WAIT => swd_online = 1
    /\ \A c \in Callers : cpc[c] \in {"idle", "built"} => data[c] = Garbage

\* All of it is inductive together (DebuggerProofs).
SafetyInvariant == TypeOK /\ HandleSafe /\ SlotSafe /\ NoStaleReply /\ NoLostWakeup
                   /\ Handshake
=============================================================================
