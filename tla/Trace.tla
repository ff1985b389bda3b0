--------------------------------- MODULE Trace ---------------------------------
(***************************************************************************)
(* Trace data from the probe to whoever wants it: the reader thread takes  *)
(* a message with some bytes of the stream, runs the decoder over them     *)
(* (process_async, Swo), and passes them on, under _swo_lock, to the raw   *)
(* trace client and to the web socket client (transmit_swo_data).  Each    *)
(* client is served by a listener thread of its own (swo_listener,         *)
(* ws_listener, websocket.c), which publishes it under the same lock.      *)
(***************************************************************************)
EXTENDS Swo, SequencesExt

CONSTANTS
    Packets,      \* what the target may send: [bytes |-> ..., means |-> ...]
    MaxEvents,    \* bound: packets the target sends and clients that connect
    MaxLosses,    \* bound: packets that lose their end in the probe
    MaxWaiting    \* bound: bytes that wait in the probe when the target sends

\* What the target's trace port sends: a value of one, two or four bytes, from
\* software or, with bit 2 of the header set, from hardware; or a protocol
\* packet.  Protocol headers with bit 2 set are left out: they are taken for
\* something else.
IsSource(p) ==
    LET h == Head(p.bytes)  val == Tail(p.bytes)
    IN  /\ h % 4 # 0 /\ Len(val) = <<1, 2, 4>>[h % 4]
        /\ p.means = Source((h \div 8) + 256 * ((h % 8) \div 4), val)
IsProtocol(p) ==
    /\ Head(p.bytes) # 0 /\ Head(p.bytes) % 8 = 0
    /\ \A i \in 1 .. Len(p.bytes) - 1 : p.bytes[i] >= 128
    /\ Len(p.bytes) <= 7
    /\ Len(p.bytes) = 7 \/ p.bytes[Len(p.bytes)] < 128
    /\ p.means = Protocol(p.bytes)

ASSUME PacketsAssumption ==
    \A p \in Packets :
        /\ p.bytes \in Seq(0 .. 255) /\ p.bytes # <<>>
        /\ IsSource(p) \/ IsProtocol(p)

Services == {"raw", "ws"}

VARIABLES
    swv,          \* the decoder
    pipe,         \* bytes that have not reached the reader thread
    msg,          \* the bytes in the reader's hand
    rpc,          \* where the reader thread is
    lpc,          \* where each listener is
    pub,          \* swo_fd >= 0, _ws # NULL
    open,         \* the client's socket, or the ws_server, still exists
    peer,         \* the client at the other end
    up,           \* the process lives
    sent, losses, clients, \* counters of the bounds
    said, clean,  \* what the target said since its last sync; none of it lost
    text,         \* the values it sent to port 0 since the first sync
    due, got      \* bytes passed on while the client is published; those it got

target == <<sent, losses, said, clean, text>>
reader == <<swv, msg, rpc>>
fan == <<lpc, pub, open, peer, clients, due, got>>
vars == <<pipe, reader, fan, target, up>>

Sync == [bytes |-> <<0, 0, 0, 0, 0, SyncByte>>, means |-> Protocol(<<>>)]

Init ==
    /\ swv = SwvInit
    /\ pipe = <<>> /\ msg = <<>> /\ rpc = "idle"
    /\ lpc = [s \in Services |-> "accept"]
    /\ pub = [s \in Services |-> FALSE] /\ open = [s \in Services |-> FALSE]
    /\ peer = [s \in Services |-> "none"]
    /\ up = TRUE
    /\ sent = 0 /\ losses = 0 /\ clients = 0
    /\ said = <<>> /\ clean = FALSE /\ text = <<>>
    /\ due = [s \in Services |-> <<>>] /\ got = [s \in Services |-> <<>>]

-----------------------------------------------------------------------------
(* The target, and the probe, which may run out of room in a packet.       *)

OnPort0(p) == p.means.kind = "source" /\ p.means.id = 0

TargetSends(p) ==
    /\ sent + clients < MaxEvents /\ Len(pipe) <= MaxWaiting
    /\ sent' = sent + 1
    /\ pipe' = pipe \o p.bytes
    /\ IF p = Sync THEN said' = <<>> /\ clean' = TRUE /\ UNCHANGED text
       ELSE /\ said' = Append(said, p.means)
            /\ text' = IF OnPort0(p) /\ clean THEN Append(text, p.means.val) ELSE text
            /\ UNCHANGED clean
    /\ UNCHANGED <<reader, fan, losses, up>>

ProbeLoses(p) ==
    /\ sent + clients < MaxEvents - 1 /\ Len(pipe) <= MaxWaiting
    /\ losses < MaxLosses /\ clients = 0 /\ sent > 0
    /\ sent' = sent + 1 /\ losses' = losses + 1
    /\ \E n \in 0 .. Len(p.bytes) - 1 : pipe' = pipe \o SubSeq(p.bytes, 1, n)
    /\ clean' = FALSE
    /\ UNCHANGED <<reader, fan, said, text, up>>

-----------------------------------------------------------------------------
(* The reader thread: CMD_SWO_DATA.                                        *)

\* Messages end anywhere.  Bounds: with clients about, to whom bytes are
\* bytes, they end at the end of a packet, the target sends syncs and nothing
\* is lost; a client comes before the target says anything else.  The target
\* begins with a sync: the decoder knows nothing before it has seen one.
Cuts == IF clients = 0 THEN 1 .. Len(pipe) ELSE {Len(pipe)}
Kinds == IF clients = 0 /\ sent > 0 THEN Packets \cup {Sync} ELSE {Sync}

ProcessAsync ==
    /\ rpc = "idle" /\ pipe # <<>>
    /\ \E n \in Cuts :
         /\ msg' = SubSeq(pipe, 1, n) /\ pipe' = SubSeq(pipe, n + 1, Len(pipe))
         /\ swv' = ProcessSwoData(swv, SubSeq(pipe, 1, n))
    /\ rpc' = "lock"
    /\ UNCHANGED <<fan, target, up>>

\* The reader holds _swo_lock while it writes.
LockFree == rpc \notin {"raw", "ws"}

\* A client that is published is written to, the raw one first.
NextClient(after) ==
    CASE after = "lock" /\ pub["raw"] -> "raw"
      [] after # "ws" /\ ~(after = "lock" /\ pub["raw"]) /\ pub["ws"] -> "ws"
      [] OTHER -> "idle"

Passed(where) == rpc' = where /\ msg' = IF where = "idle" THEN <<>> ELSE msg

TransmitLock ==
    /\ rpc = "lock"
    /\ Passed(NextClient("lock"))
    /\ due' = [s \in Services |-> IF pub[s] THEN due[s] \o msg ELSE due[s]]
    /\ UNCHANGED <<pipe, swv, lpc, pub, open, peer, clients, got, target, up>>

\* A write waits while the client does not read: the step may be long in
\* coming.  Whether it fails is not looked at; the second one to a client that
\* has gone raises SIGPIPE, which nothing catches.
Delivered_Alone(s) == IF s = "ws" /\ pub["raw"] THEN got[s] ELSE got[s] \o msg
Delivered(s) == got[s] \o msg

Write(s) ==
    /\ rpc = s
    /\ Passed(NextClient(s))
    /\ got' = IF peer[s] = "here" THEN [got EXCEPT ![s] = Delivered(s)] ELSE got
    /\ peer' = IF peer[s] = "gone" THEN [peer EXCEPT ![s] = "reset"] ELSE peer
    /\ up' = (peer[s] # "reset")
    /\ UNCHANGED <<pipe, swv, lpc, pub, open, clients, due, target>>

-----------------------------------------------------------------------------
(* The listeners.                                                          *)

Goto(s, where) == lpc' = [lpc EXCEPT ![s] = where]

Accept(s) ==
    /\ lpc[s] = "accept" /\ sent + clients < MaxEvents /\ said = <<>> /\ losses = 0
    /\ clients' = clients + 1
    /\ peer' = [peer EXCEPT ![s] = "here"]
    /\ open' = [open EXCEPT ![s] = TRUE]
    /\ Goto(s, IF s = "raw" THEN "publish" ELSE "handshake")
    /\ UNCHANGED <<pipe, reader, target, pub, due, got, up>>

\* _ws_handshake: the headers that have to be there, and the end of the
\* connection in place of one.
Needed == {"upgrade", "key", "version"}
Handshake(headers) ==
    /\ lpc["ws"] = "handshake" /\ peer["ws"] = "here"
    /\ Needed \subseteq headers
    /\ Goto("ws", "publish")
    /\ UNCHANGED <<pipe, reader, target, pub, open, peer, clients, due, got, up>>

\* fail: ws->fp is read after ws is freed; what is closed may be no stream.
HandshakeFails ==
    /\ lpc["ws"] = "handshake"
    /\ Goto("ws", "accept")
    /\ open' = [open EXCEPT !["ws"] = FALSE] /\ peer' = [peer EXCEPT !["ws"] = "none"]
    /\ up' \in BOOLEAN
    /\ UNCHANGED <<pipe, reader, target, pub, clients, due, got>>

Publish(s) ==
    /\ lpc[s] = "publish" /\ LockFree
    /\ pub' = [pub EXCEPT ![s] = TRUE]
    /\ Goto(s, "serve")
    /\ UNCHANGED <<pipe, reader, target, open, peer, clients, due, got, up>>

\* The end of the connection, or, from a web client, a frame that is not
\* supported: not masked, a fragment, 64 bits of length, no content, "close".
\* Other frames change nothing.
LeaveLoop(s) ==
    /\ lpc[s] = "serve" /\ (s = "ws" \/ peer[s] # "here")
    /\ Goto(s, "withdraw")
    /\ UNCHANGED <<pipe, reader, target, pub, open, peer, clients, due, got, up>>

MayWithdraw_NoLock(s) == TRUE
MayWithdraw(s) == LockFree

Withdraw(s) ==
    /\ lpc[s] = "withdraw" /\ MayWithdraw(s)
    /\ pub' = [pub EXCEPT ![s] = FALSE]
    /\ due' = [due EXCEPT ![s] = <<>>] /\ got' = [got EXCEPT ![s] = <<>>]
    /\ Goto(s, "close")
    /\ UNCHANGED <<pipe, reader, target, open, peer, clients, up>>

Closed_Never(s) == "close"
Closed(s) == "accept"

Close(s) ==
    /\ lpc[s] = "close"
    /\ open' = [open EXCEPT ![s] = FALSE]
    /\ peer' = [peer EXCEPT ![s] = "none"]
    /\ Goto(s, Closed(s))
    /\ UNCHANGED <<pipe, reader, target, pub, clients, due, got, up>>

-----------------------------------------------------------------------------
(* The clients.                                                            *)

\* With unread data left a client that closes resets the connection.
Leave(s) ==
    /\ peer[s] = "here"
    /\ \E how \in {"gone", "reset"} : peer' = [peer EXCEPT ![s] = how]
    /\ UNCHANGED <<pipe, reader, target, lpc, pub, open, clients, due, got, up>>

Listener(s) ==
    \/ Publish(s) \/ Withdraw(s) \/ Close(s)
    \/ s = "ws" /\ \E headers \in {Needed, Needed \cup {"connection"}} : Handshake(headers)
    \/ s = "ws" /\ HandshakeFails
Reader == ProcessAsync \/ TransmitLock \/ \E s \in Services : Write(s)

Next ==
    /\ up
    /\ \/ \E p \in Kinds : TargetSends(p) \/ ProbeLoses(p)
       \/ Reader
       \/ \E s \in Services :
            Accept(s) \/ Listener(s) \/ LeaveLoop(s) \/ Leave(s)

\* The threads run, and a client that does not read for a while reads on, or
\* goes.
Spec ==
    /\ Init /\ [][Next]_vars
    /\ \A s \in Services :
        /\ WF_vars(up /\ Write(s))
        /\ SF_vars(up /\ Listener(s))
        /\ WF_vars(up /\ peer[s] # "here" /\ LeaveLoop(s))

-----------------------------------------------------------------------------
\* Type invariant: where the reader (transmit_swo_data) and the listeners are, and
\* their clients.
TypeOK ==
    /\ rpc \in {"idle", "lock", "raw", "ws"}
    /\ lpc \in [Services -> {"accept", "handshake", "publish", "serve", "withdraw", "close"}]
    /\ pub \in [Services -> BOOLEAN] /\ open \in [Services -> BOOLEAN]
    /\ peer \in [Services -> {"none", "here", "gone", "reset"}]
    /\ up \in BOOLEAN

\* Whatever was lost before, from a sync on the decoder finds what the target
\* says, in whatever pieces it comes: no packet is missed, split or taken for
\* a sync (handle_swv).
Decoded == (clean /\ pipe = <<>>) => swv.found = said

\* The console text of port 0, the first byte of each value, is printed line by
\* line, all of it, once (handle_swv_src, xprintf), if each line with its newline
\* is short enough to be printed and no byte of it is zero.
LongLine == \E i \in 1 .. Len(text) :
    /\ i + PrintMax - 1 <= Len(text)
    /\ \A j \in i .. i + PrintMax - 1 : ~IsNewline(text[j])
HasZero == \E i \in 1 .. Len(text) : text[i][1] = 0
Printed ==
    (losses = 0 /\ pipe = <<>> /\ ~LongLine /\ ~HasZero) =>
        FlattenSeq(swv.printed) \o swv.line = [i \in 1 .. Len(text) |-> text[i][1]]

\* The socket, or the web socket server, that the reader has found published
\* and writes to still exists (transmit_swo_data; ws_close, close).
SocketsAlive == \A s \in Services : rpc = s => open[s]

\* Each client gets all of the stream from its connection on, in order.
Fanned ==
    rpc = "idle" => \A s \in Services : (pub[s] /\ peer[s] = "here") =>
        got[s] = due[s]

\* A client that goes is let go, and another one can connect, or the process
\* has ended.
LetsGo == \A s \in Services :
    (peer[s] \in {"gone", "reset"}) ~> (lpc[s] = "accept" \/ ~up)
================================================================================
