------------------------------ MODULE CoreControl ------------------------------
(***************************************************************************)
(* Halting, stepping and resuming the core (arm-m-debug.c): reads and      *)
(* writes of the debug control register DHCSR, one access at a time, while *)
(* the core runs, meets breakpoints and is halted.                         *)
(***************************************************************************)
EXTENDS Naturals, Integers

CONSTANTS
    StepNoInts,    \* the values of swdp_step_no_ints looked at (0, 1, 2)
    MaxAttn        \* bound: how often ^C is typed

ASSUME CoreAssumption == StepNoInts \subseteq 0 .. 2 /\ MaxAttn \in Nat

VARIABLES
    csr,      \* the control bits of DHCSR that are set
    halted,   \* S_HALT: the core is in debug state
    noints,   \* swdp_step_no_ints
    attn,     \* ATTN
    link,     \* accesses succeed
    op,       \* the function under way
    ran, irq  \* since a step began: instructions executed (0, 1, more), an interrupt taken

core == <<csr, halted>>
cvars == <<csr, halted, noints, attn, link, op, ran, irq>>

Bits == {"HALT", "DEBUGEN", "MASKINTS", "STEP"}
Kept == {"HALT", "DEBUGEN", "MASKINTS"}

\* fn: the function; pc: its next access; x: its local; last: ATTN when it began;
\* lost: a write of it failed whose result is ignored; in a wait, also the step waited
\* for; was, res, from: the last function completed, its result, was the core halted.
NoOp == [fn |-> "none", pc |-> "done", x |-> {}, last |-> 0, lost |-> FALSE,
         was |-> "none", res |-> 0, from |-> FALSE]

CInit ==
    /\ csr = {} /\ halted = FALSE
    /\ noints = 0
    /\ attn = 0 /\ link = TRUE
    /\ op = NoOp
    /\ ran = 0 /\ irq = FALSE

Idle == op.fn = "none"

Call(f) ==
    /\ Idle
    /\ op' = [NoOp EXCEPT !.fn = f, !.pc = "read", !.from = halted,
                            !.last = IF f = "wait" THEN attn ELSE 0,
                            !.lost = f = "wait" /\ (op.lost \/ op.res # 0)]
    /\ ran' = 0 /\ irq' = FALSE
    /\ UNCHANGED <<csr, halted, noints, attn, link>>

Return(r) == op' = [NoOp EXCEPT !.was = op.fn, !.res = r, !.from = op.from, !.lost = op.lost]

\* The bits the architecture lets a write change or not: MASKINTS unless C_HALT is set
\* before and after it, and STEP unless it is set before.
Open(bits) == CASE "HALT" \notin csr -> {"MASKINTS", "STEP"}
                [] "HALT" \in csr \ bits -> {"MASKINTS"}
                [] OTHER -> {}

\* The write is made: without DEBUGEN the control bits read as zero.
Written(bits) ==
    /\ csr' \in IF "DEBUGEN" \in bits
               THEN {bits, (bits \ Open(bits)) \cup (csr \cap Open(bits))} ELSE {{}}
    /\ halted' = (halted /\ {"DEBUGEN", "HALT"} \subseteq bits)

\* mem_wr_32(CDBG_CSR, bits): one that fails may have been made, if what failed
\* is a later access of its transaction or its answer.
CsrWrite(bits) == Written(bits) \/ (~link /\ UNCHANGED core)

-----------------------------------------------------------------------------
(* Which accesses a function makes once it has read DHCSR, and with what.  *)

\* Interrupts are to be masked: in a step always unless maskints is off, in
\* a resume only with maskints always.
Masking_OnlyOn == noints = 1
Masking == IF op.fn = "step" THEN noints > 0 ELSE noints > 1

Prepared_RunsEarly(read) ==
    LET x == read \cap Kept
    IN  CASE op.fn = "resume" -> (x \ {"HALT"}) \cup {"DEBUGEN"}
          [] OTHER            -> x \cup {"HALT", "DEBUGEN"}
Prepared(read) ==
    LET x == read \cap Kept
    IN  CASE op.fn = "halt"   -> x \cup {"DEBUGEN", "HALT"}
          [] op.fn = "resume" -> x \cup {"DEBUGEN"}
          [] op.fn = "step"   -> IF "HALT" \in x THEN x ELSE x \cup {"HALT", "DEBUGEN"}

\* The mask bit is written only if it has to change.
MaskIsRight(x) == ("MASKINTS" \in x) = Masking
Masked(x) == IF Masking THEN x \cup {"MASKINTS"} ELSE x \ {"MASKINTS"}

AfterRead(read) ==
    CASE op.fn = "halt"                          -> "go"
      [] op.fn = "step" /\ "HALT" \notin read    -> "halt"
      [] OTHER -> IF MaskIsRight(Prepared(read)) THEN "go" ELSE "mask"

\* The last write, which decides the result.
Final(x) ==
    CASE op.fn = "halt"   -> x
      [] op.fn = "resume" -> x \ {"HALT", "STEP"}
      [] op.fn = "step"   -> (x \ {"HALT"}) \cup {"STEP"}

-----------------------------------------------------------------------------
ReadCsr ==
    /\ op.pc = "read" /\ op.fn \in {"halt", "step", "resume"}
    /\ IF link
       THEN op' = [op EXCEPT !.x = Prepared(csr), !.pc = AfterRead(csr)]
       ELSE Return(-1)
    /\ UNCHANGED <<csr, halted, noints, attn, link, ran, irq>>

\* A step of a core that is not halted halts it; the result is ignored.
HaltFirst ==
    /\ op.pc = "halt"
    /\ CsrWrite(op.x)
    /\ op' = [op EXCEPT !.pc = IF MaskIsRight(op.x) THEN "go" ELSE "mask", !.lost = ~link]
    /\ UNCHANGED <<noints, attn, link, ran, irq>>

\* MASKINTS changes in a write of its own; the result is ignored.
WriteMask ==
    /\ op.pc = "mask"
    /\ CsrWrite(Masked(op.x))
    /\ op' = [op EXCEPT !.x = Masked(op.x), !.pc = "go", !.lost = @ \/ ~link]
    /\ UNCHANGED <<noints, attn, link, ran, irq>>

Go ==
    /\ op.pc = "go"
    /\ CsrWrite(Final(op.x))
    /\ Return(IF link THEN 0 ELSE -1)
    /\ UNCHANGED <<noints, attn, link, ran, irq>>

\* swdp_core_wait_for_halt: one turn of its loop.
WaitForHalt ==
    /\ op.pc = "read" /\ op.fn = "wait"
    /\ CASE ~link                          -> Return(-1)
         [] link /\ halted                 -> Return(0)
         [] link /\ ~halted /\ attn # op.last -> Return(-2)
         [] OTHER                          -> UNCHANGED op
    /\ UNCHANGED <<csr, halted, noints, attn, link, ran, irq>>

\* swdp_interrupt, from the signal handler.  Only a wait looks at ATTN, and from
\* where it began: what is typed at other times is left out.
Interrupt ==
    /\ op.fn = "wait" /\ attn < MaxAttn
    /\ attn' = attn + 1
    /\ UNCHANGED <<csr, halted, noints, link, op, ran, irq>>

\* do_maskints of the console.
MaskInts(v) ==
    /\ Idle
    /\ noints' = v
    /\ op' = NoOp
    /\ UNCHANGED <<csr, halted, attn, link, ran, irq>>

Control == ReadCsr \/ HaltFirst \/ WriteMask \/ Go \/ WaitForHalt

-----------------------------------------------------------------------------
(* The core.                                                               *)

More(k) == IF k < 2 THEN k + 1 ELSE k

\* One instruction, after which a core that is stepping halts.
Execute ==
    /\ ~halted
    /\ IF "step" \in {op.fn, op.was}
       THEN ran' = More(ran) /\ irq' \in IF "MASKINTS" \in csr THEN {irq} ELSE {irq, TRUE}
       ELSE UNCHANGED <<ran, irq>>
    /\ IF "STEP" \in csr /\ "HALT" \notin csr
       THEN halted' = TRUE /\ csr' = csr \cup {"HALT"}
       ELSE UNCHANGED core
    /\ UNCHANGED <<noints, attn, link, op>>

\* It takes notice of C_HALT.
HaltEnter ==
    /\ ~halted /\ "HALT" \in csr
    /\ halted' = TRUE
    /\ UNCHANGED <<csr, noints, attn, link, op, ran, irq>>

\* A breakpoint.
Break ==
    /\ ~halted /\ "DEBUGEN" \in csr /\ "STEP" \notin csr
    /\ halted' = TRUE
    /\ csr' = csr \cup {"HALT"}
    /\ UNCHANGED <<noints, attn, link, op, ran, irq>>

\* Accesses start to fail: a timeout, a parity error, a target that does not answer.
LinkDown ==
    /\ link
    /\ link' = FALSE
    /\ UNCHANGED <<csr, halted, noints, attn, op, ran, irq>>

\* And succeed again, without debugger_lock: q_exec does not look at swd_error.
LinkUp ==
    /\ ~link
    /\ link' = TRUE
    /\ UNCHANGED <<csr, halted, noints, attn, op, ran, irq>>

Core == Execute \/ HaltEnter \/ Break

-----------------------------------------------------------------------------
\* Type invariant: DHCSR and the function under way.
CoreTypeOK ==
    /\ csr \subseteq Bits /\ halted \in BOOLEAN
    /\ noints \in 0 .. 2 /\ attn \in 0 .. MaxAttn /\ link \in BOOLEAN
    /\ op.fn \in {"none", "halt", "step", "resume", "wait"} /\ op.x \subseteq Bits
    /\ op.lost \in BOOLEAN
    /\ ran \in 0 .. 2 /\ irq \in BOOLEAN

\* A step from a halted core that was reported done executes one instruction
\* and no more, and with maskints on or always does not end in an interrupt,
\* unless the write of MASKINTS failed, which nobody looks at.
OneStep ==
    Idle /\ op.was = "step" /\ op.res = 0 /\ op.from =>
        /\ ran <= 1
        /\ noints > 0 /\ ~op.lost => ~irq
        /\ halted => ran = 1

\* A halt that was reported done stays in force until something resumes or
\* steps the core: the core is halted or about to be.
HaltHolds == Idle /\ op.was = "halt" /\ op.res = 0 => "HALT" \in csr

\* No write changes MASKINTS and takes the core out of halt at once, unless an
\* earlier write of the function failed, which it does not look at: the
\* architecture leaves open what that does.  (A resume of a core that runs may
\* do so, if the core meets a breakpoint between its read and its write.)
MaskApart ==
    [][(op.fn = "step" \/ op.from) /\ ~op.lost =>
         ~("HALT" \in csr /\ "HALT" \notin csr' /\ csr' # {} /\
           ("MASKINTS" \in csr) # ("MASKINTS" \in csr'))]_cvars
=============================================================================
