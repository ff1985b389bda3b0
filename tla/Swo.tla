---------------------------------- MODULE Swo ----------------------------------
(***************************************************************************)
(* The trace decoder (swo.c): handle_swv, one byte of the stream from the  *)
(* target's trace port after the other, and the line of console text it    *)
(* collects from stimulus port 0.  A value is the sequence of its bytes,   *)
(* lowest first.                                                           *)
(***************************************************************************)
EXTENDS Naturals, Sequences

CONSTANTS
    LineMax,    \* characters of a line that are printed before its end (254)
    PrintMax    \* characters of a line that xprintf prints after its prefix (246)

ASSUME LineAssumption == LineMax \in Nat /\ PrintMax \in 1 .. LineMax

Newline == 10
SyncByte == 128

\* What the decoder found, oldest first, since it last found a sync.
Source(id, val) == [kind |-> "source", id |-> id, val |-> val]
Protocol(data) == [kind |-> "protocol", data |-> data]

\* swv, console_data and console_ptr; and, for the properties, what was found
\* and what was printed.
SwvInit ==
    [state |-> "SYNC", zcount |-> 0, id |-> 0, val |-> <<>>, data |-> <<>>,
     line |-> <<>>, found |-> <<>>, printed |-> <<>>]

IsNewline(val) == val[1] = Newline /\ \A i \in 2 .. Len(val) : val[i] = 0

AfterLine_Kept(line) == line
AfterLine(line) == <<>>

\* What a %s prints: up to the first zero byte.
CString(line) ==
    LET end == CHOOSE n \in 0 .. Len(line) :
                   /\ \A i \in 1 .. n : line[i] # 0
                   /\ n < Len(line) => line[n + 1] = 0
    IN  SubSeq(line, 1, end)

\* xprintf of "[remote] " and a text: what does not fit is lost.
Xprintf(text) == IF Len(text) <= PrintMax THEN text ELSE SubSeq(text, 1, PrintMax)

\* A line that gets to LineMax is printed, and goes on to be collected.
HandleSwvSrc(s) ==
    LET line == Append(s.line, s.val[1])
        t    == [s EXCEPT !.found = Append(@, Source(s.id, s.val)), !.state = "IDLE"]
    IN  CASE s.id # 0 -> t
          [] s.id = 0 /\ IsNewline(s.val) ->
                [t EXCEPT !.line = AfterLine(line), !.printed = Append(@, Xprintf(CString(line)))]
          [] s.id = 0 /\ ~IsNewline(s.val) /\ Len(line) = LineMax ->
                [t EXCEPT !.line = line,
                          !.printed = Append(@, Xprintf(Append(CString(line), Newline)))]
          [] OTHER -> [t EXCEPT !.line = line]

HandleSwvProto(s) ==
    [s EXCEPT !.found = Append(@, Protocol(s.data)), !.state = "IDLE"]

-----------------------------------------------------------------------------
\* Five zeros and 80 are a sync wherever they come; of more than five only
\* that they are that many matters.
ResyncZeros == 5
Resync(s, x) == s.zcount >= ResyncZeros /\ x = SyncByte

Zeros_Kept(s, x) ==
    IF x # 0 THEN s.zcount ELSE IF s.zcount < ResyncZeros THEN s.zcount + 1 ELSE s.zcount
Zeros(s, x) ==
    IF x # 0 THEN 0 ELSE IF s.zcount < ResyncZeros THEN s.zcount + 1 ELSE s.zcount

\* Where the low two bits of a header lead: the first state is SYNC.
AfterHeader == [size \in 0 .. 3 |-> <<"SYNC", "1X1", "1X2", "1X4">>[size + 1]]

Header(s, x) ==
    CASE x % 8 # 0 ->
            [s EXCEPT !.id = (x \div 8) + 256 * ((x % 8) \div 4), !.val = <<>>,
                      !.state = AfterHeader[x % 4]]
      [] x % 8 = 0 /\ x >= 128 -> [s EXCEPT !.data = <<x>>, !.state = "PROTO"]
      [] x % 8 = 0 /\ x \in 1 .. 127 -> HandleSwvProto([s EXCEPT !.data = <<x>>])
      [] OTHER -> s

ProtoEnd(data) == Len(data) = 7 \/ data[Len(data)] < 128

Proto(s, x) ==
    LET t == [s EXCEPT !.data = Append(@, x)]
    IN  IF ProtoEnd(t.data) THEN HandleSwvProto(t) ELSE t

\* The states inside a source packet, and the one each leads to.
Follows == [st \in {"1X2", "1X4", "2X4", "3X4"} |->
               CASE st = "1X2" -> "2X2" [] st = "1X4" -> "2X4"
                 [] st = "2X4" -> "3X4" [] st = "3X4" -> "4X4"]

Value(s, x) ==
    LET t == [s EXCEPT !.val = Append(@, x)]
    IN  IF s.state \in DOMAIN Follows THEN [t EXCEPT !.state = Follows[s.state]]
        ELSE HandleSwvSrc(t)

HandleSwv(s0, x) ==
    LET s == [s0 EXCEPT !.zcount = Zeros(s0, x)]
    IN  CASE Resync(s0, x) -> [s0 EXCEPT !.state = "IDLE", !.zcount = 0, !.found = <<>>]
          [] ~Resync(s0, x) /\ s.state = "IDLE" -> Header(s, x)
          [] ~Resync(s0, x) /\ s.state = "PROTO" -> Proto(s, x)
          [] ~Resync(s0, x) /\ s.state = "SYNC" -> s
          [] OTHER -> Value(s, x)

\* process_swo_data
ProcessSwoData(s, bytes) ==
    LET f[i \in 0 .. Len(bytes)] == IF i = 0 THEN s ELSE HandleSwv(f[i - 1], bytes[i])
    IN  f[Len(bytes)]
================================================================================
