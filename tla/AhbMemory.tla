------------------------------- MODULE AhbMemory -------------------------------
(***************************************************************************)
(* Target memory over SWD (rswdp.c): single words (_swdp_ahb_read,         *)
(* _swdp_ahb_write) and bulk transfers (_swdp_ahb_read32,                  *)
(* _swdp_ahb_write32), which are cut into transactions that fit the probe  *)
(* and do not cross a boundary at which the address register of the access *)
(* port wraps.  A step is one transaction, q_exec of it included.          *)
(*                                                                         *)
(* The access port is what the code relies on: with auto-increment on,     *)
(* each access moves the address register to the next word but only within *)
(* a block of WrapWords words; a read returns the result of the one before *)
(* it.  After a failed access it accepts nothing until the error is        *)
(* cleared (STICKYERR).                                                    *)
(***************************************************************************)
EXTENDS Integers, Sequences

CONSTANTS
    Size, Values, \* as in TargetMemory
    WrapWords,    \* WRAPSIZE, in words
    BufferWords,  \* values of swd_maxwords: receive buffers of probes
    NoWord        \* what the first of a series of reads returns

\* A probe whose buffer is no larger than what MAXDATAWORDS leaves free for
\* the other words of a transaction would never be sent anything.
Overhead == 16

ASSUME AhbAssumption ==
    /\ Size \in Nat
    /\ WrapWords \in Nat \ {0}
    /\ BufferWords \subseteq {w \in Nat : w > Overhead}

VARIABLES
    mem, call, \* as in TargetMemory
    how,       \* "single" or "bulk"
    inc,       \* auto-increment is on (CSW of the access port)
    sticky     \* the target's debug port reports an error (STICKYERR)

avars == <<mem, call, how, inc, sticky>>

Memory == INSTANCE TargetMemory

From == Memory!From
Left == Memory!Left

-----------------------------------------------------------------------------
\* The access port: where the i-th access goes, from 0, once TAR is a.
Access(a, i, on) == IF ~on THEN a
                    ELSE IF (a % WrapWords) + i < WrapWords THEN a + i
                    ELSE a + i - WrapWords

\* Memory after the first n words of the call's data that are left are written.
Stored(n, on) ==
    [a \in Memory!Addresses |->
        IF \E i \in 0 .. n - 1 : Access(From, i, on) = a
        THEN call.data[call.done + 1 + (CHOOSE i \in 0 .. n - 1 : Access(From, i, on) = a)]
        ELSE mem[a]]

\* Reads whose result is discarded: it is that of no access, or an old one.
Discarded_None == 0
Discarded == 1

\* The words a series of n reads leaves in the caller's buffer.
Fetched(n, on) ==
    [i \in 1 .. n |-> IF i + Discarded < 2 THEN NoWord
                      ELSE mem[Access(From, i + Discarded - 2, on)]]

\* xfer: what one transaction transfers.
Least(a, b) == IF a < b THEN a ELSE b
ToWrap_Never(a) == Left
ToWrap(a) == WrapWords - (a % WrapWords)
Xfer(max) == Least(Least(ToWrap(From), Left), max - Overhead)

-----------------------------------------------------------------------------
AInit ==
    /\ mem \in [Memory!Addresses -> Values]
    /\ call = Memory!NoCall
    /\ how = "bulk"
    /\ inc \in BOOLEAN /\ sticky \in BOOLEAN \* as the target was left

Start(c, h) ==
    /\ call.res # "busy"
    /\ h = "single" => c.words = 1
    /\ call' = c
    /\ how' = h
    /\ UNCHANGED <<mem, inc, sticky>>

\* How many words a transaction may be about, and whether the increment is on
\* while it runs.  A single access leaves CSW as it is.
Lengths == IF how = "single" THEN {1} ELSE {Xfer(max) : max \in BufferWords}
Inc == IF how = "single" THEN inc ELSE TRUE

\* CSW after the transaction: the last of a bulk transfer turns the increment off.
IncAfter(n) == IF how = "single" THEN inc ELSE n < Left

Busy(op) == call.res = "busy" /\ call.op = op /\ Left > 0

ReadDone ==
    /\ Busy("read") /\ ~sticky
    /\ \E n \in Lengths :
        /\ call' = [call EXCEPT !.done = @ + n, !.data = @ \o Fetched(n, Inc)]
        /\ inc' = IncAfter(n)
    /\ UNCHANGED <<mem, how, sticky>>

WriteDone ==
    /\ Busy("write") /\ ~sticky
    /\ \E n \in Lengths :
        /\ mem' = Stored(n, Inc)
        /\ call' = [call EXCEPT !.done = @ + n]
        /\ inc' = IncAfter(n)
    /\ UNCHANGED <<how, sticky>>

\* The transaction fails, with some of its words written or none, and whether
\* the target noticed or not (the usb link or the SWD lines may be at fault); a
\* bulk transfer may leave CSW either way.
Failed(m) ==
    /\ mem' = m
    /\ inc' \in IF how = "single" THEN {inc} ELSE BOOLEAN
    /\ sticky' \in {sticky, TRUE}
    /\ call' = [call EXCEPT !.res = "failed"]
    /\ UNCHANGED how

ReadFails  == Busy("read") /\ Failed(mem)
WriteFails == Busy("write") /\ IF sticky THEN Failed(mem)
                               ELSE \E n \in Lengths : \E k \in 0 .. n : Failed(Stored(k, Inc))

Return ==
    /\ call.res = "busy"
    /\ Left = 0
    /\ call' = [call EXCEPT !.res = "ok"]
    /\ UNCHANGED <<mem, how, inc, sticky>>

\* debugger_lock clears an error; if that takes a new attach, CSW is set again.
ClearError ==
    /\ call.res # "busy"
    /\ sticky' \in {sticky, FALSE}
    /\ inc' \in {inc, FALSE}
    /\ UNCHANGED <<mem, call, how>>

Transaction == ReadDone \/ WriteDone \/ ReadFails \/ WriteFails \/ Return

ANext ==
    \/ Memory!IsCall(call') /\ \E h \in {"single", "bulk"} : Start(call', h)
    \/ Transaction
    \/ ClearError

ASpec == AInit /\ [][ANext]_avars

-----------------------------------------------------------------------------
\* Whatever the buffers of probes, the alignment of a transfer and the bits an
\* earlier failure left in CSW: a call that succeeds has transferred the words
\* asked for, each from or to its own address, and nothing else.
ImplementsMemory == Memory!Spec
=============================================================================
