-------------------------------- MODULE GdbLink --------------------------------
(***************************************************************************)
(* The packet layer of the gdb bridge (gdb-bridge.c): gdb_recv, which      *)
(* takes the stream from gdb apart, one character at a time, and           *)
(* gdb_prologue ... gdb_epilogue, which frame what is sent.  gdb numbers   *)
(* its packets not at all: it sends the next one when it has the answer to *)
(* the last, and the same one again when it is told '-' or hears nothing.  *)
(***************************************************************************)
EXTENDS Naturals, Sequences

CONSTANTS
    MaxPkt,     \* MAXPKT, the size of rxbuf and of txbuf
    Commands,   \* payloads gdb may send
    Replies,    \* what each answers: console lines, and then its text
    NoAck,      \* the command QStartNoAckMode
    Noise,      \* characters that another may turn into on the way
    MaxSent,    \* bound: commands gdb sends
    MaxFaults   \* bound: characters that are spoilt

\* A character is its code.
ASSUME LinkAssumption ==
    /\ MaxPkt \in Nat /\ MaxPkt > 4 /\ MaxFaults \in Nat
    /\ Commands \subseteq Seq(Nat) /\ NoAck \in Commands
    /\ Commands \subseteq DOMAIN Replies
    /\ \A cmd \in DOMAIN Replies : Replies[cmd] \in Seq(Seq(Nat))
    /\ Noise \subseteq Nat

VARIABLES
    wire, back,          \* characters to the bridge; acknowledgements and packets from it
    state, rxbuf, rxsum, \* the packet reader
    chk,                 \* the first character of the checksum
    ack,                 \* F_ACK
    handled,             \* packets given to handle_command
    sent,                \* commands gdb has sent
    gdbstate,            \* what gdb waits for
    gdback,              \* gdb counts on acknowledgements
    got,                 \* packets gdb has received
    faults

reader == <<state, rxbuf, rxsum, chk, ack, handled>>
client == <<sent, gdbstate, gdback, got>>
vars == <<wire, back, reader, client, faults>>

Break == 3      \* ^C
Dollar == 36    \* '$'
Hash == 35      \* '#'
Plus == <<43>>
Minus == <<45>>

Init ==
    /\ wire = <<>> /\ back = <<>>
    /\ state = "idle" /\ rxbuf = <<>> /\ rxsum = 0 /\ chk = 0 /\ ack = TRUE
    /\ handled = <<>>
    /\ sent = <<>> /\ gdbstate = "ready" /\ gdback = TRUE /\ got = <<>>
    /\ faults = 0

-----------------------------------------------------------------------------
(* Checksums are two hexadecimal digits.                                   *)

HexDigit == [n \in 0 .. 15 |-> IF n < 10 THEN 48 + n ELSE 87 + n]
IsHex(c) == \E n \in 0 .. 15 : HexDigit[n] = c
HexValue(c) == CHOOSE n \in 0 .. 15 : HexDigit[n] = c

\* strtoul stops at the first character that is no digit.
Strtoul(a, b) ==
    CASE ~IsHex(a)             -> 0
      [] IsHex(a) /\ ~IsHex(b) -> HexValue(a)
      [] OTHER                 -> 16 * HexValue(a) + HexValue(b)

Sum(s) ==
    LET f[i \in 0 .. Len(s)] == IF i = 0 THEN 0 ELSE (f[i - 1] + s[i]) % 256
    IN  f[Len(s)]

Digits(s) == <<Hash, HexDigit[Sum(s) \div 16], HexDigit[Sum(s) % 16]>>

-----------------------------------------------------------------------------
(* Sending.                                                                *)

\* The buffer after gdb_prologue and the gdb_putc of each character: what no
\* longer fits is left out.
Put(buf, s) ==
    LET b == buf \o s
    IN  IF Len(b) < MaxPkt THEN b ELSE SubSeq(b, 1, MaxPkt - 1)
TxFull(buf) == Len(buf) = MaxPkt - 1

\* gdb_epilogue: a packet that fills the buffer may be short of something and
\* is not sent at all.
Framed_Short(s) ==
    LET body == Put(<<Dollar>>, s)
    IN  <<Put(body, Digits(Tail(body)))>>
Framed(s) ==
    LET body == Put(<<Dollar>>, s)
        buf  == Put(body, Digits(Tail(body)))
    IN  IF TxFull(buf) THEN <<>> ELSE <<buf>>

\* The console lines a command prints are packets of their own; qRcmd begins
\* its answer anew after them.
Answer(cmd) ==
    LET r == IF cmd \in DOMAIN Replies THEN Replies[cmd] ELSE <<>>
        f[i \in 0 .. Len(r)] == IF i = 0 THEN <<>> ELSE f[i - 1] \o Framed(r[i])
    IN  f[Len(r)]

-----------------------------------------------------------------------------
(* gdb_recv: one character.                                                *)

\* gdb_recv_cmd
Handle(cmd) ==
    /\ handled' = Append(handled, cmd)
    /\ ack' = (ack /\ cmd # NoAck)

Idle(c) ==
    /\ state = "idle"
    /\ CASE c = Break ->
              /\ Handle(<<Dollar>>)
              /\ rxbuf' = <<Dollar>>
              /\ back' = back \o Answer(<<Dollar>>)
              /\ UNCHANGED <<state, rxsum>>
         [] c = Dollar ->
              /\ state' = "recv" /\ rxsum' = 0 /\ rxbuf' = <<>>
              /\ UNCHANGED <<handled, ack, back>>
         [] OTHER -> UNCHANGED <<state, rxbuf, rxsum, handled, ack, back>>
    /\ UNCHANGED chk

\* Only the low eight bits of rxsum are ever looked at.
Added(c) == (rxsum + c) % 256

RxFull_Off == Len(rxbuf) = MaxPkt
RxFull == Len(rxbuf) = MaxPkt - 1

\* An overlong packet is dropped, and what is left of it is skipped.
Recv_Goes(c) ==
    /\ state = "recv"
    /\ IF c = Hash THEN state' = "chk1" /\ UNCHANGED <<rxbuf, rxsum>>
       ELSE IF RxFull THEN UNCHANGED <<state, rxbuf, rxsum>>
       ELSE rxbuf' = Append(rxbuf, c) /\ rxsum' = Added(c) /\ UNCHANGED state
    /\ UNCHANGED <<chk, handled, ack, back>>
Recv(c) ==
    /\ state = "recv"
    /\ CASE c = Hash -> state' = "chk1" /\ UNCHANGED <<rxbuf, rxsum>>
         [] c # Hash /\ RxFull -> state' = "idle" /\ rxbuf' = <<>> /\ UNCHANGED rxsum
         [] OTHER -> /\ rxbuf' = Append(rxbuf, c)
                     /\ rxsum' = Added(c)
                     /\ UNCHANGED state
    /\ UNCHANGED <<chk, handled, ack, back>>

Chk1(c) ==
    /\ state = "chk1"
    /\ chk' = c /\ state' = "chk2"
    /\ UNCHANGED <<rxbuf, rxsum, handled, ack, back>>

Acknowledge(a) == IF ack THEN <<a>> ELSE <<>>

\* A good checksum is acknowledged before the command is handled.
Good_Always(c) == TRUE
Good(c) == Strtoul(chk, c) = rxsum

Chk2(c) ==
    /\ state = "chk2"
    /\ state' = "idle"
    /\ IF Good(c)
       THEN Handle(rxbuf) /\ back' = back \o Acknowledge(Plus) \o Answer(rxbuf)
       ELSE back' = back \o Acknowledge(Minus) /\ UNCHANGED <<handled, ack>>
    /\ UNCHANGED <<rxbuf, rxsum, chk>>

GdbRecv ==
    /\ wire # <<>>
    /\ LET c == Head(wire) IN Idle(c) \/ Recv(c) \/ Chk1(c) \/ Chk2(c)
    /\ wire' = Tail(wire)
    /\ UNCHANGED <<client, faults>>

-----------------------------------------------------------------------------
(* gdb, and the way between.                                               *)

Frame(s) == <<Dollar>> \o s \o Digits(s)

SendCommand(cmd) ==
    /\ gdbstate = "ready" /\ Len(sent) < MaxSent
    /\ sent' = Append(sent, cmd)
    /\ wire' = wire \o Frame(cmd)
    /\ gdbstate' = IF gdback THEN "ack" ELSE "answer"
    /\ UNCHANGED <<back, reader, gdback, got, faults>>

Last == sent[Len(sent)]

\* Nothing is under way any more.
Silence == wire = <<>> /\ back = <<>>

Fits(cmd) == Len(cmd) < MaxPkt

\* Told '-', or after a while; a packet that never gets an answer is given up.
Resend ==
    /\ gdbstate = "ack"
    /\ \/ back # <<>> /\ Head(back) = Minus /\ back' = Tail(back)
       \/ Silence /\ Fits(Last) /\ UNCHANGED back
    /\ wire' = wire \o Frame(Last)
    /\ UNCHANGED <<reader, client, faults>>

GiveUp ==
    /\ gdbstate \in {"ack", "answer"} /\ Silence
    /\ gdbstate = "ack" => ~Fits(Last)
    /\ gdbstate' = "ready"
    /\ UNCHANGED <<wire, back, reader, sent, gdback, got, faults>>

GetAck ==
    /\ gdbstate = "ack" /\ back # <<>> /\ Head(back) = Plus
    /\ back' = Tail(back) /\ gdbstate' = "answer"
    /\ UNCHANGED <<wire, reader, sent, gdback, got, faults>>

\* What gdb does not wait for it skips.
Skip ==
    /\ back # <<>>
    /\ gdbstate = "ready" \/ (gdbstate = "ack" /\ Head(back) \notin {Plus, Minus})
    /\ back' = Tail(back)
    /\ UNCHANGED <<wire, reader, client, faults>>

\* The packet that completes the answer to a command.
Text(cmd) == IF Replies[cmd] = <<>> THEN <<>> ELSE Replies[cmd][Len(Replies[cmd])]

\* Commands are text, without what begins and ends a packet; no console line
\* reads as the answer does, and the "OK" to QStartNoAckMode comes alone and
\* fits.
ASSUME CommandsAssumption ==
    /\ \A cmd \in Commands : \A i \in DOMAIN cmd : cmd[i] \notin {Break, Dollar, Hash}
    /\ <<Dollar>> \in DOMAIN Replies
    /\ \A cmd \in DOMAIN Replies :
         \A i \in 1 .. Len(Replies[cmd]) - 1 : Replies[cmd][i] # Text(cmd)
    /\ Len(Replies[NoAck]) = 1 /\ Len(Text(NoAck)) + 5 < MaxPkt

\* Every packet is acknowledged; the bridge skips that as it does all noise.
GetPacket ==
    /\ gdbstate = "answer" /\ back # <<>>
    /\ back' = Tail(back)
    /\ IF Head(back) \in {Plus, Minus} THEN UNCHANGED <<wire, client>>
       ELSE /\ got' = Append(got, Head(back))
            /\ wire' = IF gdback THEN wire \o Plus ELSE wire
            /\ gdbstate' = IF Head(back) = Frame(Text(Last)) THEN "ready" ELSE gdbstate
            /\ gdback' = (gdback /\ ~(Last = NoAck /\ gdbstate' = "ready"))
            /\ UNCHANGED sent
    /\ UNCHANGED <<reader, faults>>

\* ^C while the core runs.
TypeBreak ==
    /\ gdbstate = "answer" /\ Replies[Last] = <<>> /\ Len(sent) < MaxSent
    /\ sent' = Append(sent, <<Dollar>>) /\ wire' = Append(wire, Break)
    /\ UNCHANGED <<back, reader, gdbstate, gdback, got, faults>>

\* Without acknowledgements gdb takes the way to be reliable.
Spoil ==
    /\ faults < MaxFaults /\ ack
    /\ \E i \in DOMAIN wire, c \in Noise :
         wire[i] # c /\ wire' = [wire EXCEPT ![i] = c]
    /\ faults' = faults + 1
    /\ UNCHANGED <<back, reader, client>>

Next ==
    \/ GdbRecv
    \/ \E cmd \in Commands : SendCommand(cmd)
    \/ Resend \/ GiveUp \/ GetAck \/ Skip \/ GetPacket \/ TypeBreak
    \/ Spoil

\* The bridge reads what has come; gdb waits for a limited time.
Spec ==
    /\ Init /\ [][Next]_vars
    /\ WF_vars(GdbRecv) /\ WF_vars(Resend) /\ WF_vars(GiveUp)
    /\ WF_vars(GetAck) /\ WF_vars(Skip) /\ WF_vars(GetPacket)

-----------------------------------------------------------------------------
\* Types; and the packet with the 0 that ends it stays within rxbuf, whatever
\* comes (gdb_recv, rx_full).
TypeOK ==
    /\ rxbuf \in Seq(Nat) /\ Len(rxbuf) + 1 <= MaxPkt
    /\ state \in {"idle", "recv", "chk1", "chk2"}
    /\ rxsum \in 0 .. 255 /\ ack \in BOOLEAN /\ gdback \in BOOLEAN
    /\ gdbstate \in {"ready", "ack", "answer"} /\ faults \in 0 .. MaxFaults

\* What is handled is what gdb sent, in that order, nothing twice: a spoilt
\* packet never passes for another one, and one that is resent is handled once.
\* Breaks are handled beside it, and what does not fit is not handled at all.
Without(s, S) ==
    LET f[i \in 0 .. Len(s)] ==
            IF i = 0 THEN <<>>
            ELSE IF s[i] \in S THEN f[i - 1] ELSE Append(f[i - 1], s[i])
    IN  f[Len(s)]
Breaks == {<<Dollar>>}
Done == Without(handled, Breaks)
Due == Without(sent, Breaks \cup {cmd \in Commands : ~Fits(cmd)})
Once ==
    /\ Len(Due) \in {Len(Done), Len(Done) + 1}
    /\ Done = SubSeq(Due, 1, Len(Done))

\* Packets go out whole: gdb never gets one that lost its end.
TxWhole ==
    \A i \in DOMAIN got : \E cmd \in DOMAIN Replies :
        \E j \in DOMAIN Replies[cmd] : got[i] = Frame(Replies[cmd][j])

\* A command that fits is acknowledged in the end, however its packet was
\* spoilt, and one that does not is given up.
Handled == (gdbstate = "ack") ~> (gdbstate # "ack")
=============================================================================
