--------------------------------- MODULE Jtag ---------------------------------
(***************************************************************************)
(* The JTAG engine (jtag.c).                                               *)
(*                                                                         *)
(* A client fills a jtag_txn with operations; each appends TMS bits that   *)
(* move the TAPs of the target through their state machine, and the bits   *)
(* shifted through an instruction or data register on the way.  The engine *)
(* never sees the target: it tracks in txn.state the state the TAPs will   *)
(* be in once everything appended so far has been clocked.  jtag_txn_exec  *)
(* clocks the bits and takes the results from the TDO bits that come back. *)
(*                                                                         *)
(* Modelled of the target is its TAP (IEEE 1149.1): the state, and the     *)
(* scans it saw.  The values scanned are not modelled.                     *)
(***************************************************************************)
EXTENDS Integers, Sequences

CONSTANTS
    MaxBits,    \* JTAG_MAX_BITS
    MaxResults, \* JTAG_MAX_RESULTS
    Widths,     \* register widths clients scan
    Chains,     \* other TAPs on the chain: bits before and after (ir_pre ...)
    CJtagArgs,  \* parameters of jtag_cjtag_cmd
    MaxOps      \* bound: operations in a transaction

ASSUME JtagAssumption ==
    /\ MaxBits \in Nat /\ MaxResults \in Nat /\ MaxOps \in Nat
    /\ Widths \subseteq 1 .. 64
    /\ Chains \subseteq [{"IR", "DR"} -> [pre : Nat, post : Nat]]
    /\ CJtagArgs \subseteq Nat \X Nat

VARIABLES
    txn,    \* the jtag_txn: state, status, pads, and what was appended
    open,   \* whether the client is filling txn
    asked,  \* the scans the client asked for in this transaction
    tap,    \* the target: TAP state, bits shifted, scans seen
    reached \* the client has reset the TAPs since it lost track of them

vars == <<txn, open, asked, tap, reached>>

-----------------------------------------------------------------------------
(* The TAP.  Next[s][b + 1] is the state after a clock with TMS = b. *)

Next == [
    RESET    |-> <<"IDLE", "RESET">>,      IDLE      |-> <<"IDLE", "DRSELECT">>,
    DRSELECT |-> <<"DRCAPTURE", "IRSELECT">>, IRSELECT |-> <<"IRCAPTURE", "RESET">>,
    DRCAPTURE |-> <<"DRSHIFT", "DREXIT1">>, IRCAPTURE |-> <<"IRSHIFT", "IREXIT1">>,
    DRSHIFT  |-> <<"DRSHIFT", "DREXIT1">>, IRSHIFT   |-> <<"IRSHIFT", "IREXIT1">>,
    DREXIT1  |-> <<"DRPAUSE", "DRUPDATE">>, IREXIT1  |-> <<"IRPAUSE", "IRUPDATE">>,
    DRPAUSE  |-> <<"DRPAUSE", "DREXIT2">>, IRPAUSE   |-> <<"IRPAUSE", "IREXIT2">>,
    DREXIT2  |-> <<"DRSHIFT", "DRUPDATE">>, IREXIT2  |-> <<"IRSHIFT", "IRUPDATE">>,
    DRUPDATE |-> <<"IDLE", "DRSELECT">>,   IRUPDATE  |-> <<"IDLE", "DRSELECT">>]

TapStates == DOMAIN Next

\* Where a scan of a register shifts, and where its last bit leads.
ShiftOf == [IR |-> "IRSHIFT", DR |-> "DRSHIFT"]
Exit1Of == [IR |-> "IREXIT1", DR |-> "DREXIT1"]

\* One clock.  A scan is seen when the register is updated; a test logic reset
\* forgets the scans before it.
Clock(t, tms) ==
    LET to == Next[t.state][tms + 1]
    IN  [state |-> to,
         shifted |-> CASE t.state \in {"DRSHIFT", "IRSHIFT"} -> t.shifted + 1
                       [] t.state \in {"DRCAPTURE", "IRCAPTURE"} -> 0
                       [] OTHER -> t.shifted,
         seen |-> CASE to = "RESET" -> <<>>
                    [] to = "DRUPDATE" -> Append(t.seen, <<"DR", t.shifted>>)
                    [] to = "IRUPDATE" -> Append(t.seen, <<"IR", t.shifted>>)
                    [] OTHER -> t.seen]

\* The TAP after the first n of the bits.
After(t, bits, n) ==
    LET at[i \in 0 .. n] == IF i = 0 THEN t ELSE Clock(at[i - 1], bits[i])
    IN  at[n]

-----------------------------------------------------------------------------
(* Appending bits *)

NoPads == [r \in {"IR", "DR"} |-> [pre |-> 0, post |-> 0]]

\* jtag_txn_init
Fresh == [state |-> "UNKNOWN", status |-> 0, pads |-> NoPads,
          tms |-> <<>>, bits |-> <<>>, want |-> <<>>]

Failing(t) == [t EXCEPT !.status = -1]

Full_Never(t, count) == count > 64

\* txc counts bits, and is compared with the number of results all the same.
Full(t, count) == \/ Len(t.tms) = MaxResults
                  \/ count > 64
                  \/ MaxBits - Len(t.tms) < count

TxnAppend(t, tms, want) ==
    IF Full(t, Len(tms)) THEN Failing(t)
    ELSE [t EXCEPT !.tms = @ \o tms, !.bits = Append(@, Len(tms)),
                   !.want = Append(@, want)]

Zeros(n)   == [i \in 1 .. n |-> 0]
LastOne(n) == [i \in 1 .. n |-> IF i = n THEN 1 ELSE 0]

\* Moves the engine knows.  Exit1 and Pause of either register share a row.
FromPause == [IRSHIFT |-> <<1, 1, 1, 1, 0, 0>>, DRSHIFT |-> <<1, 1, 1, 0, 0>>,
              IDLE |-> <<1, 1, 0>>]
FromExit1 == [IRSHIFT |-> <<1, 1, 1, 0, 0>>, DRSHIFT |-> <<1, 1, 0, 0>>,
              IDLE |-> <<1, 0>>, DRPAUSE |-> <<0>>]
FromIdle  == [IRSHIFT |-> <<1, 1, 0, 0>>, DRSHIFT |-> <<1, 0, 0>>]

Path_PauseIsExit1(from) ==
    CASE from = "IDLE" -> FromIdle
      [] from \in {"DREXIT1", "IREXIT1", "DRPAUSE", "IRPAUSE"} -> FromExit1
      [] OTHER -> [s \in {} |-> <<>>]

Path(from) == CASE from = "IDLE" -> FromIdle
                [] from \in {"DRPAUSE", "IRPAUSE"} -> FromPause
                [] from \in {"DREXIT1", "IREXIT1"} -> FromExit1
                [] OTHER -> [s \in {} |-> <<>>]

\* jtag_txn_move
Move(t, dst) ==
    IF t.state = dst THEN t
    ELSE IF dst \in DOMAIN Path(t.state)
    THEN [TxnAppend(t, Path(t.state)[dst], FALSE) EXCEPT !.state = dst]
    ELSE [Failing(t) EXCEPT !.state = "UNKNOWN"]

\* _jtag_shiftir, _jtag_shiftdr: through the TAPs before, this one, those after;
\* TMS is 1 with the last bit of all.
Shift(t, reg, count, want) ==
    LET pad == t.pads[reg]
        start == IF t.state = ShiftOf[reg] THEN t ELSE Failing(t)
        before == IF pad.pre = 0 THEN start ELSE TxnAppend(start, Zeros(pad.pre), FALSE)
        all == IF pad.post = 0 THEN TxnAppend(before, LastOne(count), want)
               ELSE TxnAppend(TxnAppend(before, Zeros(count), want),
                              LastOne(pad.post), FALSE)
    IN  [all EXCEPT !.state = Exit1Of[reg]]

\* jtag_ir, jtag_dr, jtag_ir_p, jtag_dr_p
Scan(t, reg, count, want, end) ==
    Move(Shift(Move(t, ShiftOf[reg]), reg, count, want), end)

\* Two zero bit scans, and a scan of one bit.
CJtagOpen(t) ==
    TxnAppend(Move(t, "IDLE"), <<1,0,1,1, 1,0,1,1, 1,0,0,1,1,0>>, FALSE)

\* A parameter of a cJTAG command is the length of a scan.
CJtagBits_OneMore(cp) == <<1, 0, 0>> \o Zeros(cp) \o <<1, 1, 0>>
CJtagBits(cp) == IF cp = 0 THEN <<1, 0, 1, 1, 0>> ELSE <<1, 0>> \o Zeros(cp) \o <<1, 1, 0>>

CJtagCmd(t, cp0, cp1) ==
    IF cp0 > 15 \/ cp1 > 15 THEN Failing(Move(t, "IDLE"))
    ELSE TxnAppend(TxnAppend(Move(t, "IDLE"), CJtagBits(cp0), FALSE), CJtagBits(cp1), FALSE)

\* Eight ones reset the TAPs whatever state they are in.
ResetBits == <<1, 1, 1, 1, 1, 1, 1, 1, 0>>

AnyToRti(t) == [TxnAppend(t, ResetBits, FALSE) EXCEPT !.state = "IDLE"]

\* jtag_txn_exec: where the bits of the n-th appended piece start in TDO.
ResultOffset_OnlyWanted(t, n) ==
    LET off[i \in 1 .. n] ==
            IF i = 1 THEN 0
            ELSE off[i - 1] + (IF t.want[i - 1] THEN t.bits[i - 1] ELSE 0)
    IN  off[n]

ResultOffset(t, n) ==
    LET off[i \in 1 .. n] == IF i = 1 THEN 0 ELSE off[i - 1] + t.bits[i - 1]
    IN  off[n]

-----------------------------------------------------------------------------
(* Clients *)

Init ==
    /\ txn = Fresh
    /\ open = FALSE
    /\ asked = <<>>
    /\ tap \in [state : TapStates, shifted : {0}, seen : {<<>>}]
    /\ reached = FALSE

Begin(t) ==
    /\ ~open
    /\ open' = TRUE
    /\ txn' = t
    /\ asked' = <<>>
    /\ tap' = [tap EXCEPT !.seen = <<>>]

\* connect_ti starts from an unknown state and resets the TAPs first.
BeginConnect == Begin(AnyToRti(Fresh)) /\ UNCHANGED reached

\* Later transactions are told the TAPs are idle (dap_init_jtag), which holds
\* as long as the target is still the one that was connected to.
BeginIdle(pads) ==
    /\ reached
    /\ Begin([Fresh EXCEPT !.state = "IDLE", !.pads = pads])
    /\ UNCHANGED reached

Ask(t, scans) ==
    /\ open
    /\ Len(asked) + Len(scans) <= MaxOps
    /\ txn' = t
    /\ asked' = asked \o scans
    /\ UNCHANGED <<open, tap, reached>>

Width(reg, count) == count + txn.pads[reg].pre + txn.pads[reg].post

AskIR(n)    == Ask(Scan(txn, "IR", n, FALSE, "IDLE"), <<<<"IR", Width("IR", n)>>>>)
AskDR(n, want) == Ask(Scan(txn, "DR", n, want, "IDLE"), <<<<"DR", Width("DR", n)>>>>)
AskIRp(n)   == Ask(Scan(txn, "IR", n, FALSE, "IRPAUSE"), <<<<"IR", Width("IR", n)>>>>)
AskDRp(n, want) == Ask(Scan(txn, "DR", n, want, "DRPAUSE"), <<<<"DR", Width("DR", n)>>>>)

AskOpen == Ask(CJtagOpen(txn), <<<<"DR", 0>>, <<"DR", 0>>, <<"DR", 1>>>>)
AskCmd(cp) == Ask(CJtagCmd(txn, cp[1], cp[2]), <<<<"DR", cp[1]>>, <<"DR", cp[2]>>>>)

\* connect_ti goes to IDLE after a scan that ended in Pause, and idles there.
AskIdle == /\ txn.state = "DRPAUSE"
           /\ Ask(TxnAppend(Move(txn, "IDLE"), Zeros(8), FALSE), <<>>)

\* Clients execute with the TAPs idle.
CanExec == open /\ txn.state \in {"IDLE", "UNKNOWN"}

\* All bits are clocked, and the results are back.
Exec ==
    /\ CanExec
    /\ txn.status = 0
    /\ open' = FALSE
    /\ tap' = After(tap, txn.tms, Len(txn.tms))
    /\ reached' = TRUE
    /\ UNCHANGED <<txn, asked>>

\* A transaction that has failed is not sent.
ExecRefused ==
    /\ CanExec
    /\ txn.status # 0
    /\ open' = FALSE
    /\ UNCHANGED <<txn, asked, tap, reached>>

\* jtag_io fails: nothing was clocked, or only the answer is missing.
ExecFail ==
    /\ CanExec
    /\ txn.status = 0
    /\ open' = FALSE
    /\ tap' \in {tap, After(tap, txn.tms, Len(txn.tms))}
    /\ UNCHANGED <<txn, asked, reached>>

\* The target's power fails.
TargetReset ==
    /\ ~open
    /\ tap' = [state |-> "RESET", shifted |-> 0, seen |-> <<>>]
    /\ reached' = FALSE
    /\ UNCHANGED <<txn, open, asked>>

Client ==
    \/ BeginConnect
    \/ \E pads \in Chains : BeginIdle(pads)
    \/ \E n \in Widths : AskIR(n) \/ AskIRp(n)
    \/ \E n \in Widths, want \in BOOLEAN : AskDR(n, want) \/ AskDRp(n, want)
    \/ AskOpen
    \/ \E cp \in CJtagArgs : AskCmd(cp)
    \/ AskIdle
    \/ Exec \/ ExecRefused \/ ExecFail

JNext == Client \/ TargetReset

Spec == Init /\ [][JNext]_vars

-----------------------------------------------------------------------------
\* Type invariant: a transaction's bits stay within the buffer for them (jtag.c: txc).
JTypeOK ==
    /\ txn.state \in TapStates \cup {"UNKNOWN"}
    /\ txn.status \in {0, -1}
    /\ Len(txn.tms) <= MaxBits
    /\ Len(txn.bits) = Len(txn.want)
    /\ open \in BOOLEAN /\ reached \in BOOLEAN
    /\ tap.state \in TapStates

\* The target once everything appended has been clocked.
Target == After(tap, txn.tms, Len(txn.tms))

\* While nothing was refused, txn.state is where the TAPs will be, whatever
\* they were doing when connect_ti started.
StateTracked == open /\ txn.status = 0 => Target.state = txn.state

\* The TAPs see the scans that were asked for, all of them, once each, in order
\* and of the right length with the other TAPs on the chain counted in, and no
\* other: no path of the engine updates a register on its way.
ScansAsAsked ==
    open /\ txn.status = 0 /\ txn.state = "IDLE" => Target.seen = asked

\* A result is made of the bits this TAP shifted out: at its offset the TAPs
\* are shifting, the bits of the TAPs before have gone by, and they still shift
\* when its last bit comes.
ResultsInPlace ==
    open /\ txn.status = 0 =>
        \A n \in DOMAIN txn.bits : txn.want[n] =>
            LET first == After(tap, txn.tms, ResultOffset(txn, n))
                last == After(tap, txn.tms, ResultOffset(txn, n) + txn.bits[n] - 1)
            IN  /\ first.state = "DRSHIFT" /\ first.shifted = txn.pads["DR"].pre
                /\ last.state = "DRSHIFT" /\ last.shifted = first.shifted + txn.bits[n] - 1
=============================================================================
