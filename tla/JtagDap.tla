-------------------------------- MODULE JtagDap --------------------------------
(***************************************************************************)
(* The JTAG transport (jtag-dap.c): attaching to the debug access port of  *)
(* a target behind a TI ICEPICK, and reading and writing its memory.       *)
(*                                                                         *)
(* The client runs under _dbg_lock, one call at a time.  A call queues     *)
(* scans and commits them: one step here is one jtag_txn_exec with all its *)
(* scans, because nothing else reaches the target meanwhile.  Module Jtag  *)
(* has the bits below a scan; here a scan loads the instruction register   *)
(* or exchanges the contents of DPACC, APACC or ABORT.                     *)
(*                                                                         *)
(* The target is what the code relies on of an ARM JTAG-DP: results and    *)
(* acknowledgements come with the next scan, a scan that finds an access   *)
(* to memory still running gets WAIT and is dropped, which sets STICKYORUN *)
(* if ORUNDETECT is on, a failed bus access sets STICKYERR, and while one of  *)
(* the two is set no access is started.                                    *)
(***************************************************************************)
EXTENDS Integers, Sequences

CONSTANTS
    Size, Values,            \* as in TargetMemory
    MaxCount,                \* bound: words in one call
    ConnectTries,            \* 5
    AttachTries,             \* 10
    NoWord,                  \* what a read leaves that got no word
    Faults                   \* what may go wrong: a subset of AllFaults

\* jtag_io fails; a scan finds the bus busy, once or until it is aborted; a
\* memory access fails; power acknowledgements are late; the target is reset.
AllFaults == {"io", "wait", "hang", "bus", "slow", "reset"}

ASSUME DapAssumption ==
    /\ Size \in Nat /\ MaxCount \in Nat
    /\ ConnectTries \in Nat \ {0} /\ AttachTries \in Nat \ {0}
    /\ NoWord \notin Values
    /\ Faults \subseteq AllFaults

VARIABLES
    jtag_error,
    pc,     \* where the client is
    tries,  \* its retry counter
    call,   \* the memory call under way, as in TargetMemory
    chain,  \* what answers to the scans: nothing ("off"), "icepick", "dap"
    dp,     \* the debug port and its memory access port
    mem,
    calm    \* no fault since the attach under way was started

client == <<jtag_error, pc, tries, call>>
target == <<chain, dp, mem>>
vars == <<jtag_error, pc, tries, call, chain, dp, mem, calm>>

Memory == INSTANCE TargetMemory

OK == 0
ERROR == -1

-----------------------------------------------------------------------------
(* Queues of scans *)

\* A scan: load an instruction, or exchange data.  "out" names the variable of
\* the code the data scanned out goes to.
Ir(ir) == [op |-> "ir", ir |-> ir]
Rd(reg, out) == [op |-> "rd", reg |-> reg, val |-> 0, out |-> out]
Wr(reg, val) == [op |-> "wr", reg |-> reg, val |-> val, out |-> "none"]

\* dap_init_jtag: nothing queued, and no idea what the instruction register holds.
Empty == [scans |-> <<>>, cached_ir |-> "none"]

\* q_dap_ir_wr, and the scan that follows it.
Queue(q, ir, scan) ==
    [scans |-> q.scans \o (IF q.cached_ir = ir THEN <<scan>> ELSE <<Ir(ir), scan>>),
     cached_ir |-> ir]

QAbort_None(q) == q
QAbort(q) == [Queue([q EXCEPT !.cached_ir = "none"], "ABORT", Wr("ABORT", 0))
                  EXCEPT !.cached_ir = "none"]
QDpWr(q, reg, val) == Queue(q, "DPACC", Wr(reg, val))
QDpRd(q, reg, out) == Queue(q, "DPACC", Rd(reg, out))
QApWr(q, reg, val) == Queue(QDpWr(q, "SELECT", 0), "APACC", Wr(reg, val))
QApRd(q, reg, out) ==
    QDpRd(Queue(QDpWr(q, "SELECT", 0), "APACC", Rd(reg, "none")), "RDBUFF", out)

\* dap_commit ends a queue with a read of the status, whose result comes with
\* a read of RDBUFF.
QCommit(q) == QDpRd(QDpRd(q, "CSW", "a"), "RDBUFF", "b").scans

MemRd(addr) == QCommit(QApRd(QApWr(QApWr(Empty, "CSW", 0), "TAR", addr), "DRW", "u"))
MemWr(addr, val) ==
    QCommit(QApWr(QApWr(QApWr(Empty, "CSW", 0), "TAR", addr), "DRW", val))

\* dap_dp_wr(CSW_ERRORS | CSW_ENABLES), the first time after an abort.
PowerUp(first) == QDpWr(IF first THEN QAbort(Empty) ELSE Empty, "CSW", 0).scans
StatusRd == QDpRd(QDpRd(Empty, "CSW", "none"), "RDBUFF", "u").scans

-----------------------------------------------------------------------------
(* The target *)

\* What a read leaves for the next scan: a word, or the flags of DP CSW.
Word(w) == [word |-> w, flags |-> {}]
Nothing == Word(NoWord)

PoweredOff == [ir |-> "none", enabled |-> FALSE, orun |-> FALSE, err |-> FALSE,
               pending |-> FALSE, hung |-> FALSE, tar |-> 0, buffer |-> Nothing]

\* Nothing was scanned out to the variables of the code yet.
Garbage == [ack |-> "none", word |-> NoWord, flags |-> {}]

\* One write to CSW clears the sticky flags, powers the debug domain up and
\* turns overrun detection on.
Flags(p) == (IF p.orun THEN {"STICKYORUN"} ELSE {}) \cup
            (IF p.err THEN {"STICKYERR"} ELSE {}) \cup
            (IF p.enabled THEN {"PWRUPACK"} ELSE {})

\* A request the port accepts.  bus: the memory access fails.
DpWrite(p, s) ==
    IF s.reg = "CSW" THEN [p EXCEPT !.orun = FALSE, !.err = FALSE, !.enabled = TRUE]
    ELSE p
DpRead(p, s) == [p EXCEPT !.buffer = IF s.reg = "CSW"
                     THEN [word |-> NoWord, flags |-> Flags(p)] ELSE Nothing]
ApAccess(p, s, bus) ==
    IF p.orun \/ p.err \/ ~p.enabled THEN [p EXCEPT !.buffer = Nothing]
    ELSE CASE s.reg = "CSW" -> [p EXCEPT !.pending = TRUE]
           [] s.reg = "TAR" -> [p EXCEPT !.pending = TRUE, !.tar = s.val]
           [] s.reg = "DRW" -> [p EXCEPT !.pending = TRUE, !.err = bus,
                                    !.buffer = IF s.op = "rd" /\ ~bus THEN Word(mem[p.tar])
                                               ELSE Nothing]

Accept(p, s, bus) ==
    LET q == [p EXCEPT !.pending = FALSE]
    IN  CASE p.ir = "APACC" -> ApAccess(q, s, bus)
          [] p.ir = "DPACC" /\ s.op = "wr" -> DpWrite(q, s)
          [] p.ir = "DPACC" /\ s.op = "rd" -> DpRead(q, s)
          [] OTHER -> q

\* A scan that finds an access still running, which never ends if it hangs.
Wait(p, hang) == [p EXCEPT !.orun = @ \/ p.enabled, !.hung = @ \/ hang]

Stores(p, s) == p.ir = "APACC" /\ s.op = "wr" /\ s.reg = "DRW" /\ ~p.orun /\ ~p.err /\ p.enabled

\* The debug port, the code's variables and what is stored, after one more scan.
Scan(h, s, waits, hang, bus) ==
    IF s.op = "ir" THEN [h EXCEPT !.dp = [@ EXCEPT !.ir = s.ir]]
    ELSE IF h.dp.ir = "ABORT"
    THEN [h EXCEPT !.dp = [@ EXCEPT !.pending = FALSE, !.hung = FALSE]]
    ELSE IF h.dp.pending /\ (waits \/ h.dp.hung)
    THEN [dp |-> Wait(h.dp, hang),
          got |-> [h.got EXCEPT ![s.out] = [Garbage EXCEPT !.ack = "WAIT"]],
          store |-> h.store]
    ELSE [dp |-> Accept(h.dp, s, bus),
          got |-> [h.got EXCEPT ![s.out] = [ack |-> "OK", word |-> h.dp.buffer.word,
                                            flags |-> h.dp.buffer.flags]],
          store |-> IF Stores(h.dp, s) /\ ~bus THEN <<h.dp.tar, s.val>> ELSE h.store]

Unread == [x \in {"a", "b", "u", "none"} |-> Garbage]

\* The same after all of a transaction's scans.  busy: those that have to wait.
Scanned(scans, busy, hang, bus) ==
    LET at[n \in 0 .. Len(scans)] ==
        IF n = 0 THEN [dp |-> dp, got |-> Unread, store |-> <<>>]
        ELSE Scan(at[n - 1], scans[n], n \in busy, hang, bus)
    IN  at[Len(scans)]

\* jtag_txn_exec: what it returns (r), what was scanned out (got), and what the
\* target has done (dp, store).  A target that is not there drives no
\* acknowledgement.
Outcome(r, got, d, store, fault) ==
    [r |-> r, got |-> got, dp |-> d, store |-> store, fault |-> fault]

NotDone(r, fault) == Outcome(r, Unread, dp, <<>>, fault)

\* Whether a fault happens.
May(f) == IF f \in Faults THEN BOOLEAN ELSE {FALSE}

Done(scans) ==
    IF chain # "dap" THEN {NotDone(OK, FALSE)}
    ELSE LET busy == {{}} \cup {{n} : n \in {m \in DOMAIN scans : Faults \cap {"wait", "hang"} # {}}}
             Run(b, hang, bus) ==
                 LET end == Scanned(scans, b, hang, bus)
                 IN  Outcome(OK, end.got, end.dp, end.store, b # {} \/ bus)
         IN  {Run(b, hang, bus) : b \in busy, hang \in May("hang"), bus \in May("bus")}

\* jtag_io fails: nothing was clocked, or only the answer is missing.
Outcomes(scans) ==
    Done(scans) \cup
    IF "io" \notin Faults THEN {}
    ELSE {NotDone(ERROR, TRUE)} \cup
         {[o EXCEPT !.r = ERROR, !.got = Unread, !.fault = TRUE] : o \in Done(scans)}

Effect(o) ==
    /\ dp' = o.dp
    /\ mem' = IF o.store = <<>> THEN mem ELSE [mem EXCEPT ![o.store[1]] = o.store[2]]
    /\ calm' = (calm /\ ~o.fault)

-----------------------------------------------------------------------------
(* The client *)

Init ==
    /\ jtag_error = OK /\ pc = "idle" /\ tries = 0
    /\ call = Memory!NoCall
    /\ chain = "off" /\ dp = PoweredOff
    /\ mem \in [0 .. Size - 1 -> Values]
    /\ calm = FALSE

\* _attach, from the command or because debugger_lock found an error.
Attach ==
    /\ pc = "idle"
    /\ jtag_error' = ERROR
    /\ pc' = "connect"
    /\ tries' = ConnectTries
    /\ calm' = TRUE
    /\ UNCHANGED <<call, target>>

AttachFails == pc' = "idle" /\ tries' = 0 /\ UNCHANGED jtag_error

\* connect_ti, first transaction: reset the TAPs, which takes the debug port
\* off the chain, and read the identification of the ICEPICK.  The result of
\* jtag_txn_exec is not used: if jtag_io fails the variables compared hold zeros,
\* or the answer when it came with a status that says failure.
ConnectOnce(ok, match) ==
    /\ pc = "connect"
    /\ IF match THEN pc' = "route" /\ tries' = 0 /\ UNCHANGED jtag_error
       ELSE IF tries = 1 THEN AttachFails
       ELSE tries' = tries - 1 /\ UNCHANGED <<pc, jtag_error>>
    /\ chain' \in IF ok \/ match THEN {"icepick"} ELSE {chain, "icepick"}
    /\ calm' = (calm /\ ok)
    /\ UNCHANGED <<call, dp, mem>>

Connect == \/ ConnectOnce(TRUE, TRUE)
           \/ "io" \in Faults /\ \E match \in BOOLEAN : ConnectOnce(FALSE, match)

\* The target has no power.
ConnectNoPower ==
    /\ "reset" \in Faults
    /\ pc = "connect"
    /\ IF tries = 1 THEN AttachFails
       ELSE tries' = tries - 1 /\ UNCHANGED <<pc, jtag_error>>
    /\ chain' = "off"
    /\ dp' = PoweredOff
    /\ calm' = FALSE
    /\ UNCHANGED <<call, mem>>

\* Second transaction: put the debug port on the chain.  Its result is not used.
Route ==
    /\ pc = "route"
    /\ \E ok \in {TRUE} \cup {b \in {FALSE} : "io" \in Faults} :
        /\ chain' \in {IF chain = "icepick" THEN "dap" ELSE chain}
                      \cup {c \in {chain} : ~ok}
        /\ calm' = (calm /\ ok)
    /\ pc' = "find"
    /\ UNCHANGED <<jtag_error, tries, call, dp, mem>>

\* Third transaction: read the identification of the debug port, with no look at
\* the result either.
Find ==
    /\ pc = "find"
    /\ \E ok \in {TRUE} \cup {b \in {FALSE} : "io" \in Faults}, read \in BOOLEAN :
        /\ ok => read
        /\ IF read /\ chain = "dap"
           THEN pc' = "powerup" /\ tries' = 0 /\ UNCHANGED jtag_error
           ELSE AttachFails
        /\ calm' = (calm /\ ok)
    /\ UNCHANGED <<call, target>>

\* The loop of dap_attach: once more, or give up.
Again ==
    IF tries + 1 = AttachTries THEN AttachFails
    ELSE pc' = "powerup" /\ tries' = tries + 1 /\ UNCHANGED jtag_error

DapPowerUp ==
    /\ pc = "powerup"
    /\ \E o \in Outcomes(PowerUp(tries = 0)) :
        /\ Effect(o)
        /\ IF o.r # OK THEN Again ELSE pc' = "status" /\ UNCHANGED <<tries, jtag_error>>
    /\ UNCHANGED <<call, chain>>

\* dap_dp_rd, and what dap_attach looks for in the status.
Attached(o, slow) ==
    /\ o.r = OK
    /\ o.got["u"].ack = "OK"
    /\ o.got["u"].flags = {"PWRUPACK"}
    /\ ~slow

DapStatus ==
    /\ pc = "status"
    /\ \E slow \in May("slow"), o \in Outcomes(StatusRd) :
        /\ Effect([o EXCEPT !.fault = @ \/ slow])
        /\ IF Attached(o, slow) THEN jtag_error' = OK /\ pc' = "idle" /\ tries' = 0
           ELSE Again
    /\ UNCHANGED <<call, chain>>

\* A memory call, of an aligned address or not.
Calls ==
    {c \in {Memory!ReadCall(a, n) : a \in 0 .. Size - 1, n \in 0 .. MaxCount} \cup
           {Memory!WriteCall(a, d) : a \in 0 .. Size - 1,
                d \in UNION {[1 .. n -> Values] : n \in 0 .. MaxCount}} :
        c.addr + c.words <= Size}

Start ==
    /\ pc = "idle"
    /\ call' \in Calls
    /\ pc' \in {"run", "unaligned"}
    /\ UNCHANGED <<jtag_error, tries, target, calm>>

Return(res) == call' = [call EXCEPT !.res = res] /\ pc' = "idle"

Refuse ==
    /\ pc = "unaligned" \/ (pc = "run" /\ jtag_error # OK)
    /\ Return("failed")
    /\ UNCHANGED <<jtag_error, tries, target, calm>>

\* dap_commit: both acknowledgements, and the status between them.
Committed_NoStatus(o) == o.r = OK /\ o.got["a"].ack = "OK" /\ o.got["b"].ack = "OK"
Committed(o) ==
    /\ o.r = OK
    /\ o.got["a"].ack = "OK"
    /\ o.got["b"].ack = "OK"
    /\ o.got["b"].flags \cap {"STICKYORUN", "STICKYERR"} = {}

CanTransfer(op) == /\ pc = "run" /\ jtag_error = OK
                   /\ call.op = op /\ call.done < call.words

\* What a failed word does to the call, and to later ones.
TransferFails_Forgotten == Return("failed") /\ UNCHANGED jtag_error
TransferFails == Return("failed") /\ jtag_error' = ERROR

\* _mem_rd_32, and each word of _mem_rd_32_c.
ReadWord ==
    /\ CanTransfer("read")
    /\ \E o \in Outcomes(MemRd(call.addr + call.done)) :
        /\ Effect(o)
        /\ IF Committed(o)
           THEN /\ call' = [call EXCEPT !.done = @ + 1, !.data = Append(@, o.got["u"].word)]
                /\ UNCHANGED <<pc, jtag_error>>
           ELSE TransferFails
    /\ UNCHANGED <<tries, chain>>

\* _mem_wr_32, and each word of _mem_wr_32_c.
WriteWord ==
    /\ CanTransfer("write")
    /\ \E o \in Outcomes(MemWr(call.addr + call.done, call.data[call.done + 1])) :
        /\ Effect(o)
        /\ IF Committed(o)
           THEN call' = [call EXCEPT !.done = @ + 1] /\ UNCHANGED <<pc, jtag_error>>
           ELSE TransferFails
    /\ UNCHANGED <<tries, chain>>

Succeed ==
    /\ pc = "run" /\ jtag_error = OK
    /\ call.done = call.words
    /\ Return("ok")
    /\ UNCHANGED <<jtag_error, tries, target, calm>>

\* The target is reset or loses its power, between two transactions.
Reset ==
    /\ "reset" \in Faults
    /\ chain' = "off"
    /\ dp' = PoweredOff
    /\ mem' \in [DOMAIN mem -> Values]
    /\ calm' = FALSE
    /\ UNCHANGED client

Connecting == Attach \/ Connect \/ ConnectNoPower \/ Route \/ Find
Attaching == Connecting \/ DapPowerUp \/ DapStatus
MemoryCall == Start \/ Refuse \/ ReadWord \/ WriteWord \/ Succeed

Next == Attaching \/ MemoryCall \/ Reset

Spec == Init /\ [][Next]_vars

-----------------------------------------------------------------------------
\* A memory call that succeeds has read what is in memory or written what it
\* was given, whatever the bus, the link and the target did meanwhile: overrun
\* detection makes up for the acknowledgements dap_ap_rd and the posted writes
\* do not look at.
ImplementsMemory == Memory!Spec

\* While error() says there is none and the debug port is still there, it is
\* ready: no access it dropped or failed at has gone unnoticed, to be blamed on
\* a later call or to spoil it.
NoSilentError ==
    pc = "idle" /\ jtag_error = OK /\ chain = "dap" =>
        dp.enabled /\ ~dp.orun /\ ~dp.err /\ ~dp.hung

\* An attach that nothing disturbs succeeds, whatever state earlier faults left
\* the link and the debug port in, a hung access included.
AttachWorks == pc = "idle" /\ calm => jtag_error = OK
=============================================================================
