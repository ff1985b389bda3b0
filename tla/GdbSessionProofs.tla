--------------------------- MODULE GdbSessionProofs ---------------------------
(***************************************************************************)
(* Proofs about GdbSession, for every thread list and every number of      *)
(* commands and failures.  First who holds _dbg_lock; from that, that each *)
(* step of the session is one of a few moves of the core; from those what  *)
(* CoreControl promises.                                                   *)
(***************************************************************************)
EXTENDS GdbSession, TLAPS

-----------------------------------------------------------------------------
(* The lock.                                                               *)

Holding == {"check", "handle", "core", "update", "walk", "rcmd locked", "rcmd core", "unlock"}
Calling == {"halt", "resume", "step", "wait", "threads", "clear"}

\* A thread holds the lock where its code does, and a function of the core is
\* under way only for a thread that has called it.
LockInv ==
    /\ con # "idle" <=> lock = "con"
    /\ gpc \in Holding <=> lock = "gdb"
    /\ Idle \/ gpc \in {"core", "rcmd core"} \/ con \in Calling
    /\ gpc \in {"rcmd", "rcmd locked"} => gcmd \in ConsoleFunction

Functions == {"halt", "step", "resume", "wait"}
OpType == [fn : Functions \cup {"none"}, pc : {"done", "read", "halt", "mask", "go"},
           x : SUBSET Bits, last : Nat, lost : BOOLEAN, was : Functions \cup {"none"},
           res : Int, from : BOOLEAN]
OpTyped == op \in OpType /\ attn \in Nat /\ halted \in BOOLEAN

-----------------------------------------------------------------------------
(* What a step of the session is to the core.                              *)

\* Nothing happens to it, but that accesses begin to fail or to succeed.
Untouched == UNCHANGED <<csr, halted, noints, op, ran, irq>>

CoreMove ==
    \/ ReadCsr \/ HaltFirst \/ WriteMask \/ Go \/ WaitForHalt
    \/ Execute \/ HaltEnter \/ Break
    \/ \E f \in Functions : Call(f)
    \/ \E v \in StepNoInts : MaskInts(v)
    \/ Untouched
-----------------------------------------------------------------------------
LEMMA LockInit == SInit => LockInv
  BY DEF SInit, CInit, LockInv, Idle, NoOp, Holding

LEMMA LockStep == OpTyped /\ LockInv /\ [Next]_all => LockInv'
  <1> SUFFICES ASSUME OpTyped, LockInv, [Next]_all PROVE LockInv'
    OBVIOUS
  <1> USE DEF LockInv, Idle, Holding, Calling, cvars, NoOp, OpTyped, OpType, ConsoleFunction
  <1>1. ASSUME NEW cmd \in Commands, GdbSend(cmd) PROVE LockInv'
    BY <1>1 DEF GdbSend
  <1>2. ASSUME GdbBreak PROVE LockInv'
    BY <1>2 DEF GdbBreak
  <1>3. ASSUME GdbReceive PROVE LockInv'
    BY <1>3 DEF GdbReceive
  <1>4. ASSUME CheckLock PROVE LockInv'
    BY <1>4 DEF CheckLock, TakeLock, Goto, core
  <1>5. ASSUME Check PROVE LockInv'
    BY <1>5 DEF Check, Goto, Say
  <1>6. ASSUME PollPacket PROVE LockInv'
    BY <1>6 DEF PollPacket, Goto
  <1>7. ASSUME PollTimeout PROVE LockInv'
    BY <1>7 DEF PollTimeout, Goto
  <1>8. ASSUME Receive PROVE LockInv'
    BY <1>8 DEF Receive, TakeLock, Goto, core
  <1>9. ASSUME HandleCore PROVE LockInv'
    BY <1>9 DEF HandleCore, Call, CoreFunction, Goto, Stopping
  <1>10. ASSUME NowRunning PROVE LockInv'
    BY <1>10 DEF NowRunning, Goto
  <1>11. ASSUME NowHalted PROVE LockInv'
    BY <1>11 DEF NowHalted, Goto
  <1>12. ASSUME Update PROVE LockInv'
    BY <1>12 DEF Update, Goto
  <1>13. ASSUME Updated PROVE LockInv'
    BY <1>13 DEF Updated, Goto
  <1>14. ASSUME Select PROVE LockInv'
    BY <1>14 DEF Select, Goto
  <1>15. ASSUME Look PROVE LockInv'
    BY <1>15 DEF Look, Goto
  <1>16. ASSUME RcmdUnlock PROVE LockInv'
    BY <1>16 DEF RcmdUnlock, DropLock, Goto
  <1>17. ASSUME RcmdLock PROVE LockInv'
    BY <1>17 DEF RcmdLock, TakeLock, Goto, core
  <1>18. ASSUME RcmdRun PROVE LockInv'
    BY <1>18 DEF RcmdRun, Call, Goto
  <1>19. ASSUME RcmdWait PROVE LockInv'
    BY <1>19 DEF RcmdWait, Call, Goto
  <1>20. ASSUME RcmdDone PROVE LockInv'
    BY <1>20 DEF RcmdDone, DropLock, Goto
  <1>21. ASSUME RcmdRelock PROVE LockInv'
    BY <1>21 DEF RcmdRelock, TakeLock, Goto, Say, core
  <1>22. ASSUME Unlock PROVE LockInv'
    BY <1>22 DEF Unlock, DropLock, Goto
  <1>23. ASSUME ConLock PROVE LockInv'
    BY <1>23 DEF ConLock, TakeLock, core
  <1>24. ASSUME NEW f \in ConsoleFunction \cup {"threads", "clear"}, ConRun(f) PROVE LockInv'
    BY <1>24 DEF ConRun, Call, ConsoleFunction
  <1>25. ASSUME NEW v \in StepNoInts, ConMaskInts(v) PROVE LockInv'
    BY <1>25 DEF ConMaskInts, MaskInts
  <1>26. ASSUME ConWait PROVE LockInv'
    BY <1>26 DEF ConWait, Call
  <1>27. ASSUME ConWalk PROVE LockInv'
    BY <1>27 DEF ConWalk
  <1>28. ASSUME ConFree PROVE LockInv'
    BY <1>28 DEF ConFree
  <1>29. ASSUME ConClear PROVE LockInv'
    BY <1>29 DEF ConClear
  <1>30. ASSUME ConUnlock PROVE LockInv'
    BY <1>30 DEF ConUnlock, DropLock
  <1>31. ASSUME ControlStep PROVE LockInv'
    BY <1>31 DEF ControlStep, Control, ReadCsr, HaltFirst, WriteMask, Go, WaitForHalt, CsrWrite, Written, Return, core
  <1>32. ASSUME WalkStep PROVE LockInv'
    BY <1>32 DEF WalkStep, Walk, ReadInfo, ReadCurrent, ReadNext, core
  <1>33. ASSUME CoreStep PROVE LockInv'
    BY <1>33 DEF CoreStep, Core, Execute, HaltEnter, Break, core
  <1>34. ASSUME TypeAttn PROVE LockInv'
    BY <1>34 DEF TypeAttn, Interrupt
  <1>35. ASSUME Fault PROVE LockInv'
    BY <1>35 DEF Fault, LinkDown, LinkUp
  <1>36. ASSUME UNCHANGED all PROVE LockInv'
    BY <1>36 DEF all
  <1> QED
    BY <1>1, <1>2, <1>3, <1>4, <1>5, <1>6, <1>7, <1>8, <1>9, <1>10, <1>11, <1>12,
       <1>13, <1>14, <1>15, <1>16, <1>17, <1>18, <1>19, <1>20, <1>21, <1>22,
       <1>23, <1>24, <1>25, <1>26, <1>27, <1>28, <1>29, <1>30, <1>31, <1>32,
       <1>33, <1>34, <1>35, <1>36
       DEF Next, Bridge, ConsoleThread

LEMMA CoreMoves == LockInv /\ [Next]_all => CoreMove
  <1> SUFFICES ASSUME LockInv, [Next]_all PROVE CoreMove
    OBVIOUS
  <1> USE DEF CoreMove, Untouched, cvars, core
  <1>1. ASSUME NEW cmd \in Commands, GdbSend(cmd) PROVE CoreMove
    BY <1>1 DEF GdbSend
  <1>2. ASSUME GdbBreak PROVE CoreMove
    BY <1>2 DEF GdbBreak
  <1>3. ASSUME GdbReceive PROVE CoreMove
    BY <1>3 DEF GdbReceive
  <1>4. ASSUME CheckLock PROVE CoreMove
    BY <1>4 DEF CheckLock, TakeLock, LockInv, Holding, Calling
  <1>5. ASSUME Check PROVE CoreMove
    BY <1>5 DEF Check, Goto, Say
  <1>6. ASSUME PollPacket PROVE CoreMove
    BY <1>6 DEF PollPacket, Goto
  <1>7. ASSUME PollTimeout PROVE CoreMove
    BY <1>7 DEF PollTimeout, Goto
  <1>8. ASSUME Receive PROVE CoreMove
    BY <1>8 DEF Receive, TakeLock, LockInv, Holding, Calling
  <1>9. ASSUME HandleCore PROVE CoreMove
    BY <1>9 DEF HandleCore, CoreFunction, Functions
  <1>10. ASSUME NowRunning PROVE CoreMove
    BY <1>10 DEF NowRunning, Goto
  <1>11. ASSUME NowHalted PROVE CoreMove
    BY <1>11 DEF NowHalted, Goto
  <1>12. ASSUME Update PROVE CoreMove
    BY <1>12 DEF Update, Goto
  <1>13. ASSUME Updated PROVE CoreMove
    BY <1>13 DEF Updated, Goto
  <1>14. ASSUME Select PROVE CoreMove
    BY <1>14 DEF Select, Goto
  <1>15. ASSUME Look PROVE CoreMove
    BY <1>15 DEF Look, Goto
  <1>16. ASSUME RcmdUnlock PROVE CoreMove
    BY <1>16 DEF RcmdUnlock, DropLock, Goto
  <1>17. ASSUME RcmdLock PROVE CoreMove
    BY <1>17 DEF RcmdLock, TakeLock, LockInv, Holding, Calling
  <1>18. ASSUME RcmdRun PROVE CoreMove
    BY <1>18 DEF RcmdRun, LockInv, ConsoleFunction, Functions
  <1>19. ASSUME RcmdWait PROVE CoreMove
    BY <1>19 DEF RcmdWait, Functions
  <1>20. ASSUME RcmdDone PROVE CoreMove
    BY <1>20 DEF RcmdDone, DropLock, Goto
  <1>21. ASSUME RcmdRelock PROVE CoreMove
    BY <1>21 DEF RcmdRelock, TakeLock, LockInv, Holding, Calling
  <1>22. ASSUME Unlock PROVE CoreMove
    BY <1>22 DEF Unlock, DropLock, Goto
  <1>23. ASSUME ConLock PROVE CoreMove
    BY <1>23 DEF ConLock, TakeLock, LockInv, Holding, Calling
  <1>24. ASSUME NEW f \in ConsoleFunction \cup {"threads", "clear"}, ConRun(f) PROVE CoreMove
    BY <1>24 DEF ConRun, ConsoleFunction, Functions
  <1>25. ASSUME NEW v \in StepNoInts, ConMaskInts(v) PROVE CoreMove
    BY <1>25 DEF ConMaskInts
  <1>26. ASSUME ConWait PROVE CoreMove
    BY <1>26 DEF ConWait, Functions
  <1>27. ASSUME ConWalk PROVE CoreMove
    BY <1>27 DEF ConWalk
  <1>28. ASSUME ConFree PROVE CoreMove
    BY <1>28 DEF ConFree
  <1>29. ASSUME ConClear PROVE CoreMove
    BY <1>29 DEF ConClear
  <1>30. ASSUME ConUnlock PROVE CoreMove
    BY <1>30 DEF ConUnlock, DropLock
  <1>31. ASSUME ControlStep PROVE CoreMove
    BY <1>31 DEF ControlStep, Control
  <1>32. ASSUME WalkStep PROVE CoreMove
    BY <1>32 DEF WalkStep, Walk, ReadInfo, ReadCurrent, ReadNext
  <1>33. ASSUME CoreStep PROVE CoreMove
    BY <1>33 DEF CoreStep, Core
  <1>34. ASSUME TypeAttn PROVE CoreMove
    BY <1>34 DEF TypeAttn, Interrupt
  <1>35. ASSUME Fault PROVE CoreMove
    BY <1>35 DEF Fault, LinkDown, LinkUp
  <1>36. ASSUME UNCHANGED all PROVE CoreMove
    BY <1>36 DEF all
  <1> QED
    BY <1>1, <1>2, <1>3, <1>4, <1>5, <1>6, <1>7, <1>8, <1>9, <1>10, <1>11, <1>12,
       <1>13, <1>14, <1>15, <1>16, <1>17, <1>18, <1>19, <1>20, <1>21, <1>22,
       <1>23, <1>24, <1>25, <1>26, <1>27, <1>28, <1>29, <1>30, <1>31, <1>32,
       <1>33, <1>34, <1>35, <1>36
       DEF Next, Bridge, ConsoleThread
-----------------------------------------------------------------------------
(* Functions of the core: what each has read and is about to write.        *)

Shape ==
    /\ csr \subseteq Bits
    /\ op.fn = "none"   => op.pc = "done"
    /\ op.fn = "wait"   => op.pc = "read"
    /\ op.fn = "halt"   => op.pc \in {"read", "go"}
    /\ op.fn = "resume" => op.pc \in {"read", "mask", "go"}
    /\ op.fn = "step"   => op.pc \in {"read", "halt", "mask", "go"}

\* The control register reads as zero without DEBUGEN; a halted core has been
\* told to halt.
Register ==
    /\ csr # {} => "DEBUGEN" \in csr
    /\ halted => "HALT" \in csr

\* All writes keep debugging enabled.  Those of halt and step, up to the last,
\* hold the core, and so do those of a resume of a core that was halted.
Prepares ==
    /\ op.pc \in {"halt", "mask", "go"} => "DEBUGEN" \in op.x /\ op.x \subseteq Kept
    /\ op.pc \in {"halt", "mask", "go"} /\ op.fn # "resume" => "HALT" \in op.x
    /\ op.from /\ op.fn \in {"step", "resume"} => halted
    /\ op.from /\ op.pc = "mask" => "HALT" \in op.x

\* By the last write the mask bit is in the register, unless an earlier one failed:
\* it is written while the core is held.
MaskWritten ==
    /\ op.pc = "go" /\ (op.fn = "step" \/ (op.fn = "resume" /\ op.from)) /\ ~op.lost =>
          ("MASKINTS" \in csr <=> "MASKINTS" \in op.x)
    /\ op.pc = "halt" => ("MASKINTS" \in csr <=> "MASKINTS" \in op.x)
    /\ op.pc = "mask" /\ op.fn = "step" /\ ~op.lost => "HALT" \in csr
    /\ op.pc = "go" /\ op.fn = "step" => ("MASKINTS" \in op.x <=> noints > 0)

\* A core that was halted when its step began still is before the last write;
\* then it executes one instruction, and halts.
Stepping == op.fn = "step" /\ op.from => halted /\ ran = 0 /\ ~irq
Stepped ==
    op.fn = "none" /\ op.was = "step" /\ op.res = 0 /\ op.from =>
        \/ /\ ~halted /\ ran = 0 /\ ~irq
           /\ "HALT" \notin csr /\ "STEP" \in csr
           /\ noints > 0 /\ ~op.lost => "MASKINTS" \in csr
        \/ /\ halted /\ ran = 1
           /\ noints > 0 /\ ~op.lost => ~irq

CoreInv == Shape /\ Register /\ Prepares /\ MaskWritten /\ Stepping /\ Stepped /\ HaltHolds

\* Records of that type, with any set for two of the fields: that they are Boolean
\* does not matter to what follows.
OpsWith(B) ==
    [fn : Functions \cup {"none"}, pc : {"done", "read", "halt", "mask", "go"},
     x : SUBSET Bits, last : Nat, lost : B, was : Functions \cup {"none"}, res : Int, from : B]

LEMMA OpsAre == OpType = OpsWith(BOOLEAN)
  BY Zenon DEF OpType, OpsWith

LEMMA Changed ==
  ASSUME NEW B,
         NEW o \in OpsWith(B),
         NEW p \in {"done", "read", "halt", "mask", "go"}, NEW y \in SUBSET Bits
  PROVE  [o EXCEPT !.x = y, !.pc = p] \in OpsWith(B)
  BY DEF OpsWith

LEMMA Lost ==
  ASSUME NEW B, NEW o \in OpsWith(B), NEW p \in {"done", "read", "halt", "mask", "go"},
         NEW y \in SUBSET Bits, NEW b \in B
  PROVE  /\ [o EXCEPT !.x = y, !.pc = p, !.lost = b] \in OpsWith(B)
         /\ [o EXCEPT !.pc = p, !.lost = b] \in OpsWith(B)
  BY DEF OpsWith

LEMMA Renewed ==
  ASSUME NEW B, NEW a \in B, NEW b \in B, NEW f \in Functions \cup {"none"},
         NEW p \in {"done", "read", "halt", "mask", "go"}, NEW l \in Nat,
         NEW w \in Functions \cup {"none"}, NEW r \in Int
  PROVE  [fn |-> f, pc |-> p, x |-> {}, last |-> l, lost |-> a, was |-> w, res |-> r,
          from |-> b] \in OpsWith(B)
  BY DEF OpsWith

LEMMA Called ==
  ASSUME NEW B,
         NEW o \in OpsWith(B),
         NEW a \in B, NEW b \in B, NEW f \in Functions, NEW l \in Nat
  PROVE  [o EXCEPT !.fn = f, !.pc = "read", !.from = b, !.last = l, !.lost = a] \in OpsWith(B)
  BY DEF OpsWith

LEMMA Returned ==
  ASSUME NEW B,
         NEW o \in OpsWith(B),
         NEW a \in B, NEW b \in B, NEW w \in Functions, NEW r \in Int
  PROVE  [o EXCEPT !.was = w, !.res = r, !.from = b, !.lost = a] \in OpsWith(B)
  BY DEF OpsWith

LEMMA NoOpTyped == NoOp \in OpType
  <1>1. /\ "done" \in {"done", "read", "halt", "mask", "go"} /\ 0 \in Nat /\ 0 \in Int
        /\ "none" \in Functions \cup {"none"} /\ FALSE \in BOOLEAN
    OBVIOUS
  <1> QED
    BY <1>1, OpsAre, Renewed, Zenon DEF NoOp

LEMMA CallTyped ==
  ASSUME NEW f \in Functions, NEW l \in Nat, NEW a \in BOOLEAN, halted \in BOOLEAN
  PROVE  [NoOp EXCEPT !.fn = f, !.pc = "read", !.from = halted, !.last = l, !.lost = a] \in OpType
  BY NoOpTyped, OpsAre, Called, Zenon

LEMMA ReturnTyped ==
  ASSUME NEW w \in Functions, NEW r \in Int, NEW a \in BOOLEAN, NEW b \in BOOLEAN
  PROVE  [NoOp EXCEPT !.was = w, !.res = r, !.from = b, !.lost = a] \in OpType
  BY NoOpTyped, OpsAre, Returned, Zenon

LEMMA OpInit == SInit => OpTyped
  <1>1. SInit => op = NoOp
    BY DEF SInit, CInit
  <1>2. SInit => attn \in Nat
    BY DEF SInit, CInit
  <1>3. SInit => halted \in BOOLEAN
    BY Zenon DEF SInit, CInit
  <1> QED
    BY <1>1, <1>2, <1>3, NoOpTyped, Zenon DEF OpTyped

LEMMA CoreInit == SInit => CoreInv
  BY DEF SInit, CInit, CoreInv, Shape, Register, Prepares, MaskWritten, Stepping, Stepped,
         HaltHolds, Idle, NoOp

\* A read that fails ends the function; one that succeeds prepares the writes.
LEMMA Reads ==
  ASSUME OpTyped, ReadCsr
  PROVE  \/ /\ ~link
            /\ op'.fn = "none" /\ op'.pc = "done" /\ op'.res = -1
         \/ /\ link
            /\ op'.fn = op.fn /\ op'.from = op.from
            /\ op'.x = Prepared(csr) /\ op'.pc = AfterRead(csr) /\ op'.lost = op.lost
  <1>1. CASE link
    BY <1>1 DEF ReadCsr, OpTyped, OpType
  <1>2. CASE ~link
    BY <1>2 DEF ReadCsr, Return, NoOp
  <1> QED
    BY <1>1, <1>2

\* A turn of a wait leaves the core alone, and goes on or ends the wait.
LEMMA Waits ==
  ASSUME WaitForHalt
  PROVE  /\ op.pc = "read" /\ op.fn = "wait"
         /\ UNCHANGED <<csr, halted, noints, attn, link, ran, irq>>
         /\ op' = op \/ (op'.fn = "none" /\ op'.pc = "done" /\ op'.was = "wait")
  <1>1. /\ op.pc = "read" /\ op.fn = "wait"
        /\ UNCHANGED <<csr, halted, noints, attn, link, ran, irq>>
    BY DEF WaitForHalt
  <1>2. op' = op \/ Return(-1) \/ Return(0) \/ Return(-2)
    BY DEF WaitForHalt
  <1>3. ASSUME NEW r, Return(r) PROVE op'.fn = "none" /\ op'.pc = "done" /\ op'.was = op.fn
    BY <1>3 DEF Return, NoOp
  <1> QED
    BY <1>1, <1>2, <1>3

LEMMA PreparedWrites ==
  ASSUME Register, csr \subseteq Bits, op.fn \in {"halt", "step", "resume"}
  PROVE  /\ Prepared(csr) \subseteq Kept /\ "DEBUGEN" \in Prepared(csr)
         /\ op.fn # "resume" => "HALT" \in Prepared(csr)
         /\ "HALT" \in csr => "HALT" \in Prepared(csr)
         /\ op.fn = "halt" => AfterRead(csr) = "go"
         /\ op.fn = "resume" => AfterRead(csr) \in {"go", "mask"}
         /\ op.fn = "step" => AfterRead(csr) \in {"halt", "go", "mask"}
  <1>1. CASE op.fn = "halt"
    BY <1>1 DEF Prepared, AfterRead, Kept
  <1>2. CASE op.fn = "resume"
    BY <1>2 DEF Prepared, AfterRead, Kept
  <1>3. CASE op.fn = "step"
    BY <1>3 DEF Prepared, AfterRead, Kept, Register
  <1> QED
    BY <1>1, <1>2, <1>3

\* What a write does, made or not.
Effect(bits) ==
    /\ csr' # {} => "DEBUGEN" \in csr'
    /\ halted' => halted /\ "HALT" \in csr'
    /\ "HALT" \in bits => (halted => halted') /\ ("HALT" \in csr => "HALT" \in csr')
    /\ ("MASKINTS" \in csr' <=> "MASKINTS" \in bits) \/ ("MASKINTS" \in csr' <=> "MASKINTS" \in csr)
    /\ link => /\ "HALT" \in csr' <=> "HALT" \in bits
               /\ halted' => "HALT" \in bits
               /\ "HALT" \in csr \cap bits =>
                      ("MASKINTS" \in csr' <=> "MASKINTS" \in bits)
               /\ "HALT" \in csr /\ "STEP" \in bits => "STEP" \in csr'

LEMMA Writes ==
  ASSUME NEW bits, "DEBUGEN" \in bits, Register, CsrWrite(bits)
  PROVE  Effect(bits)
  <1>1. CASE UNCHANGED core /\ ~link
    BY <1>1 DEF Effect, Register, core
  <1>2. CASE Written(bits)
    <2>1. /\ halted' = (halted /\ {"DEBUGEN", "HALT"} \subseteq bits)
          /\ csr' \in {bits, (bits \ Open(bits)) \cup (csr \cap Open(bits))}
      BY <1>2 DEF Written
    <2>2. /\ Open(bits) \subseteq {"MASKINTS", "STEP"}
          /\ "HALT" \in csr => "STEP" \notin Open(bits)
          /\ "HALT" \in csr \cap bits => Open(bits) = {}
      BY DEF Open
    <2> HIDE DEF Open
    <2>3. /\ "DEBUGEN" \in csr' /\ ("HALT" \in csr' <=> "HALT" \in bits)
          /\ "HALT" \in csr \cap bits => csr' = bits
          /\ "HALT" \in csr /\ "STEP" \in bits => "STEP" \in csr'
          /\ \/ "MASKINTS" \in csr' <=> "MASKINTS" \in bits
             \/ "MASKINTS" \in csr' <=> "MASKINTS" \in csr
      BY <2>1, <2>2
    <2>4. halted' <=> (halted /\ "HALT" \in bits)
      BY <2>1
    <2> QED
      BY <2>3, <2>4 DEF Effect
  <1> QED
    BY <1>1, <1>2 DEF CsrWrite

LEMMA Effects ==
  ASSUME OpTyped, Shape, Register, Prepares
  PROVE  /\ HaltFirst => Effect(op.x)
         /\ WriteMask => Effect(Masked(op.x))
         /\ Go => Effect(Final(op.x))
  <1>1. op.pc \in {"halt", "mask", "go"} =>
          /\ "DEBUGEN" \in op.x /\ "DEBUGEN" \in Masked(op.x)
          /\ op.fn \in {"halt", "resume", "step"} => "DEBUGEN" \in Final(op.x)
    BY DEF Prepares, Masked, Final
  <1>2. op.pc = "go" => op.fn \in {"halt", "resume", "step"}
    BY DEF Shape, OpTyped, OpType, Functions
  <1> QED
    BY <1>1, <1>2, Writes DEF HaltFirst, WriteMask, Go

LEMMA ShapeStep == OpTyped /\ Shape /\ Register /\ CoreMove => Shape'
  <1> SUFFICES ASSUME OpTyped, Shape, Register, CoreMove PROVE Shape'
    OBVIOUS
  <1> USE DEF OpTyped, OpType, Functions, Shape, Bits, Kept
  <1>1. ASSUME ReadCsr PROVE Shape'
    BY <1>1, Reads, PreparedWrites DEF ReadCsr, core
  <1>2. ASSUME HaltFirst PROVE Shape'
    BY <1>2 DEF HaltFirst, CsrWrite, Written, core, MaskIsRight, Masking, Kept
  <1>3. ASSUME WriteMask PROVE Shape'
    BY <1>3 DEF WriteMask, CsrWrite, Written, core, Masked, Masking, Kept
  <1>4. ASSUME Go PROVE Shape'
    BY <1>4 DEF Go, CsrWrite, Written, core, Final, Return, NoOp, Kept
  <1>5. ASSUME WaitForHalt PROVE Shape'
    <2>1. csr' = csr /\ (op' = op \/ (op'.fn = "none" /\ op'.pc = "done"))
      BY <1>5, Waits
    <2>2. CASE op' = op
      BY <2>1, <2>2, Zenon
    <2> QED
      BY <2>1, <2>2
  <1>6. ASSUME Execute PROVE Shape'
    BY <1>6 DEF Execute, core, More
  <1>7. ASSUME HaltEnter PROVE Shape'
    BY <1>7 DEF HaltEnter
  <1>8. ASSUME Break PROVE Shape'
    BY <1>8 DEF Break
  <1>9. ASSUME NEW f \in Functions, Call(f) PROVE Shape'
    BY <1>9 DEF Call, NoOp, Idle
  <1>10. ASSUME NEW v \in StepNoInts, MaskInts(v) PROVE Shape'
    BY <1>10 DEF MaskInts, NoOp, Idle
  <1>11. ASSUME Untouched PROVE Shape'
    BY <1>11 DEF Untouched
  <1> QED
    BY <1>1, <1>2, <1>3, <1>4, <1>5, <1>6, <1>7, <1>8, <1>9, <1>10, <1>11 DEF CoreMove

LEMMA RegisterStep == OpTyped /\ Shape /\ Register /\ Prepares /\ CoreMove => Register'
  <1> SUFFICES ASSUME OpTyped, Shape, Register, Prepares, CoreMove PROVE Register'
    OBVIOUS
  <1> USE DEF OpTyped, OpType, Functions, Shape, Register, Prepares
  <1>1. ASSUME ReadCsr PROVE Register'
    BY <1>1 DEF ReadCsr, Prepared, AfterRead, MaskIsRight, Masking, Return, NoOp, Kept
  <1>2. ASSUME HaltFirst PROVE Register'
    BY <1>2, Effects DEF HaltFirst, Effect, MaskIsRight, Masking, Kept
  <1>3. ASSUME WriteMask PROVE Register'
    BY <1>3, Effects DEF WriteMask, Effect, Masked, Masking, Kept
  <1>4. ASSUME Go PROVE Register'
    BY <1>4, Effects DEF Go, Effect, Final, Return, NoOp, Kept
  <1>5. ASSUME WaitForHalt PROVE Register'
    BY <1>5, Waits
  <1>6. ASSUME Execute PROVE Register'
    BY <1>6 DEF Execute, core, More
  <1>7. ASSUME HaltEnter PROVE Register'
    BY <1>7 DEF HaltEnter
  <1>8. ASSUME Break PROVE Register'
    BY <1>8 DEF Break
  <1>9. ASSUME NEW f \in Functions, Call(f) PROVE Register'
    BY <1>9 DEF Call, NoOp, Idle
  <1>10. ASSUME NEW v \in StepNoInts, MaskInts(v) PROVE Register'
    BY <1>10 DEF MaskInts, NoOp, Idle
  <1>11. ASSUME Untouched PROVE Register'
    BY <1>11 DEF Untouched
  <1> QED
    BY <1>1, <1>2, <1>3, <1>4, <1>5, <1>6, <1>7, <1>8, <1>9, <1>10, <1>11 DEF CoreMove

LEMMA PreparesStep == OpTyped /\ Shape /\ Register /\ Prepares /\ CoreMove => Prepares'
  <1> SUFFICES ASSUME OpTyped, Shape, Register, Prepares, CoreMove PROVE Prepares'
    OBVIOUS
  <1> USE DEF OpTyped, OpType, Functions, Shape, Register, Prepares
  <1>1. ASSUME ReadCsr PROVE Prepares'
    BY <1>1, Reads, PreparedWrites DEF ReadCsr, core
  <1>2. ASSUME HaltFirst PROVE Prepares'
    BY <1>2, Effects DEF HaltFirst, Effect, MaskIsRight, Masking, Kept
  <1>3. ASSUME WriteMask PROVE Prepares'
    BY <1>3, Effects DEF WriteMask, Effect, Masked, Masking, Kept
  <1>4. ASSUME Go PROVE Prepares'
    BY <1>4, Effects DEF Go, Effect, Final, Return, NoOp, Kept
  <1>5. ASSUME WaitForHalt PROVE Prepares'
    BY <1>5, Waits
  <1>6. ASSUME Execute PROVE Prepares'
    BY <1>6 DEF Execute, core, More
  <1>7. ASSUME HaltEnter PROVE Prepares'
    BY <1>7 DEF HaltEnter
  <1>8. ASSUME Break PROVE Prepares'
    BY <1>8 DEF Break
  <1>9. ASSUME NEW f \in Functions, Call(f) PROVE Prepares'
    BY <1>9 DEF Call, NoOp, Idle
  <1>10. ASSUME NEW v \in StepNoInts, MaskInts(v) PROVE Prepares'
    BY <1>10 DEF MaskInts, NoOp, Idle
  <1>11. ASSUME Untouched PROVE Prepares'
    BY <1>11 DEF Untouched
  <1> QED
    BY <1>1, <1>2, <1>3, <1>4, <1>5, <1>6, <1>7, <1>8, <1>9, <1>10, <1>11 DEF CoreMove

LEMMA MaskWrittenStep == OpTyped /\ Shape /\ Register /\ Prepares /\ MaskWritten /\ CoreMove => MaskWritten'
  <1> SUFFICES ASSUME OpTyped, Shape, Register, Prepares, MaskWritten, CoreMove PROVE MaskWritten'
    OBVIOUS
  <1> USE DEF OpTyped, OpType, Functions, Shape, Register, Prepares, MaskWritten
  <1>1. ASSUME ReadCsr PROVE MaskWritten'
    <2>1. CASE op'.pc = "done"
      BY <2>1
    <2>2. CASE op'.pc # "done"
      <3>1. /\ op'.fn = op.fn /\ op'.from = op.from /\ op'.lost = op.lost
            /\ op'.x = Prepared(csr) /\ op'.pc = AfterRead(csr)
        BY <1>1, <2>2, Reads
      <3>2. UNCHANGED <<csr, noints>> /\ op.fn \in {"halt", "step", "resume"}
        BY <1>1 DEF ReadCsr
      <3>3. "MASKINTS" \in Prepared(csr) <=> "MASKINTS" \in csr
        BY <3>2 DEF Prepared, Kept
      <3>4. op.fn = "step" => /\ AfterRead(csr) = "mask" => "HALT" \in csr
                              /\ AfterRead(csr) = "go" =>
                                   ("MASKINTS" \in Prepared(csr) <=> noints > 0)
        BY DEF AfterRead, MaskIsRight, Masking
      <3> QED
        BY <3>1, <3>2, <3>3, <3>4
    <2> QED
      BY <2>1, <2>2
  <1>2. ASSUME HaltFirst PROVE MaskWritten'
    BY <1>2, Effects DEF HaltFirst, Effect, MaskIsRight, Masking, Kept
  <1>3. ASSUME WriteMask PROVE MaskWritten'
    BY <1>3, Effects DEF WriteMask, Effect, Masked, Masking, Kept
  <1>4. ASSUME Go PROVE MaskWritten'
    BY <1>4, Effects DEF Go, Effect, Final, Return, NoOp, Kept
  <1>5. ASSUME WaitForHalt PROVE MaskWritten'
    BY <1>5, Waits
  <1>6. ASSUME Execute PROVE MaskWritten'
    BY <1>6 DEF Execute, core, More
  <1>7. ASSUME HaltEnter PROVE MaskWritten'
    BY <1>7 DEF HaltEnter
  <1>8. ASSUME Break PROVE MaskWritten'
    BY <1>8 DEF Break
  <1>9. ASSUME NEW f \in Functions, Call(f) PROVE MaskWritten'
    BY <1>9 DEF Call, NoOp, Idle
  <1>10. ASSUME NEW v \in StepNoInts, MaskInts(v) PROVE MaskWritten'
    BY <1>10 DEF MaskInts, NoOp, Idle
  <1>11. ASSUME Untouched PROVE MaskWritten'
    BY <1>11 DEF Untouched
  <1> QED
    BY <1>1, <1>2, <1>3, <1>4, <1>5, <1>6, <1>7, <1>8, <1>9, <1>10, <1>11 DEF CoreMove

LEMMA SteppingStep == OpTyped /\ Shape /\ Register /\ Prepares /\ Stepping /\ CoreMove => Stepping'
  <1> SUFFICES ASSUME OpTyped, Shape, Register, Prepares, Stepping, CoreMove PROVE Stepping'
    OBVIOUS
  <1> USE DEF OpTyped, OpType, Functions, Shape, Register, Prepares, Stepping
  <1>1. ASSUME ReadCsr PROVE Stepping'
    BY <1>1 DEF ReadCsr, Prepared, AfterRead, MaskIsRight, Masking, Return, NoOp, Kept
  <1>2. ASSUME HaltFirst PROVE Stepping'
    BY <1>2, Effects DEF HaltFirst, Effect, MaskIsRight, Masking, Kept
  <1>3. ASSUME WriteMask PROVE Stepping'
    BY <1>3, Effects DEF WriteMask, Effect, Masked, Masking, Kept
  <1>4. ASSUME Go PROVE Stepping'
    BY <1>4, Effects DEF Go, Effect, Final, Return, NoOp, Kept
  <1>5. ASSUME WaitForHalt PROVE Stepping'
    BY <1>5, Waits
  <1>6. ASSUME Execute PROVE Stepping'
    BY <1>6 DEF Execute, core, More
  <1>7. ASSUME HaltEnter PROVE Stepping'
    BY <1>7 DEF HaltEnter
  <1>8. ASSUME Break PROVE Stepping'
    BY <1>8 DEF Break
  <1>9. ASSUME NEW f \in Functions, Call(f) PROVE Stepping'
    BY <1>9 DEF Call, NoOp, Idle
  <1>10. ASSUME NEW v \in StepNoInts, MaskInts(v) PROVE Stepping'
    BY <1>10 DEF MaskInts, NoOp, Idle
  <1>11. ASSUME Untouched PROVE Stepping'
    BY <1>11 DEF Untouched
  <1> QED
    BY <1>1, <1>2, <1>3, <1>4, <1>5, <1>6, <1>7, <1>8, <1>9, <1>10, <1>11 DEF CoreMove

LEMMA SteppedStep == OpTyped /\ Shape /\ Register /\ Prepares /\ MaskWritten /\ Stepping /\ Stepped /\ CoreMove => Stepped'
  <1> SUFFICES ASSUME OpTyped, Shape, Register, Prepares, MaskWritten, Stepping, Stepped, CoreMove PROVE Stepped'
    OBVIOUS
  <1> USE DEF OpTyped, OpType, Functions, Shape, Register, Prepares, MaskWritten, Stepping, Stepped
  <1>1. ASSUME ReadCsr PROVE Stepped'
    <2>1. op'.fn # "none" \/ op'.res = -1
      BY <1>1, Reads DEF ReadCsr
    <2> QED
      BY <2>1
  <1>2. ASSUME HaltFirst PROVE Stepped'
    BY <1>2, Effects DEF HaltFirst, Effect, MaskIsRight, Masking, Kept
  <1>3. ASSUME WriteMask PROVE Stepped'
    BY <1>3, Effects DEF WriteMask, Effect, Masked, Masking, Kept
  <1>4. ASSUME Go PROVE Stepped'
    <2> SUFFICES ASSUME op'.fn = "none", op'.was = "step", op'.res = 0, op'.from
                 PROVE  ~halted' /\ ran' = 0 /\ ~irq' /\ "HALT" \notin csr' /\ "STEP" \in csr'
                        /\ (noints' > 0 /\ ~op'.lost => "MASKINTS" \in csr')
      OBVIOUS
    <2>1. op.fn = "step" /\ op.from /\ link /\ op'.lost = op.lost
      BY <1>4 DEF Go, Return, NoOp
    <2>2. /\ Final(op.x) = (op.x \ {"HALT"}) \cup {"STEP"} /\ Effect(Final(op.x))
          /\ "HALT" \in csr
      BY <1>4, <2>1, Effects DEF Final
    <2>3. ran' = 0 /\ ~irq' /\ noints' = noints
      BY <1>4, <2>1 DEF Go
    <2>4. ~halted' /\ "HALT" \notin csr' /\ "STEP" \in csr'
      BY <2>1, <2>2 DEF Effect
    <2>5. noints > 0 /\ ~op.lost => "MASKINTS" \in csr'
      BY <1>4, <2>1, <2>2 DEF Go, Effect
    <2> QED
      BY <2>1, <2>3, <2>4, <2>5
  <1>5. ASSUME WaitForHalt PROVE Stepped'
    BY <1>5, Waits
  <1>6. ASSUME Execute PROVE Stepped'
    <2> SUFFICES ASSUME op.fn = "none", op.was = "step", op.res = 0, op.from
                 PROVE  halted' /\ ran' = 1 /\ (noints' > 0 /\ ~op'.lost => ~irq')
      BY <1>6 DEF Execute
    <2>1. ~halted /\ ran = 0 /\ ~irq /\ "HALT" \notin csr /\ "STEP" \in csr
          /\ (noints > 0 /\ ~op.lost => "MASKINTS" \in csr)
      BY <1>6 DEF Execute
    <2>2. halted'
      BY <1>6, <2>1 DEF Execute
    <2>3. ran' = 1
      BY <1>6, <2>1 DEF Execute, More
    <2>4. noints > 0 /\ ~op.lost => irq' = irq
      BY <1>6, <2>1 DEF Execute
    <2> QED
      BY <1>6, <2>1, <2>2, <2>3, <2>4 DEF Execute
  <1>7. ASSUME HaltEnter PROVE Stepped'
    BY <1>7 DEF HaltEnter
  <1>8. ASSUME Break PROVE Stepped'
    BY <1>8 DEF Break
  <1>9. ASSUME NEW f \in Functions, Call(f) PROVE Stepped'
    BY <1>9 DEF Call, NoOp, Idle
  <1>10. ASSUME NEW v \in StepNoInts, MaskInts(v) PROVE Stepped'
    BY <1>10 DEF MaskInts, NoOp, Idle
  <1>11. ASSUME Untouched PROVE Stepped'
    BY <1>11 DEF Untouched
  <1> QED
    BY <1>1, <1>2, <1>3, <1>4, <1>5, <1>6, <1>7, <1>8, <1>9, <1>10, <1>11 DEF CoreMove

LEMMA HaltHoldsStep ==
    OpTyped /\ Shape /\ Register /\ Prepares /\ HaltHolds /\ CoreMove => HaltHolds'
  <1> SUFFICES ASSUME OpTyped, Shape, Register, Prepares, HaltHolds, CoreMove PROVE HaltHolds'
    OBVIOUS
  <1> USE DEF OpTyped, OpType, Functions, Shape, Prepares, HaltHolds, Idle
  <1>1. ASSUME ReadCsr PROVE HaltHolds'
    BY <1>1, Reads DEF ReadCsr, core
  <1>2. ASSUME HaltFirst PROVE HaltHolds'
    BY <1>2, Effects DEF HaltFirst, Effect, MaskIsRight, Masking, Kept
  <1>3. ASSUME WriteMask PROVE HaltHolds'
    BY <1>3, Effects DEF WriteMask, Effect, Masked, Masking, Kept
  <1>4. ASSUME Go PROVE HaltHolds'
    BY <1>4, Effects DEF Go, Effect, Final, Return, NoOp, Kept
  <1>5. ASSUME WaitForHalt PROVE HaltHolds'
    BY <1>5, Waits
  <1>6. ASSUME Execute PROVE HaltHolds'
    BY <1>6 DEF Execute, core, More
  <1>7. ASSUME HaltEnter PROVE HaltHolds'
    BY <1>7 DEF HaltEnter
  <1>8. ASSUME Break PROVE HaltHolds'
    BY <1>8 DEF Break
  <1>9. ASSUME NEW f \in Functions, Call(f) PROVE HaltHolds'
    BY <1>9 DEF Call, NoOp, Idle
  <1>10. ASSUME NEW v \in StepNoInts, MaskInts(v) PROVE HaltHolds'
    BY <1>10 DEF MaskInts, NoOp, Idle
  <1>11. ASSUME Untouched PROVE HaltHolds'
    BY <1>11 DEF Untouched
  <1> QED
    BY <1>1, <1>2, <1>3, <1>4, <1>5, <1>6, <1>7, <1>8, <1>9, <1>10, <1>11 DEF CoreMove

LEMMA AttnStep == attn \in Nat /\ [Next]_all => attn' \in Nat
  <1> SUFFICES ASSUME attn \in Nat, [Next]_all PROVE attn' \in Nat
    OBVIOUS
  <1> USE DEF cvars
  <1>1. ASSUME NEW cmd \in Commands, GdbSend(cmd) PROVE attn' \in Nat
    BY <1>1 DEF GdbSend
  <1>2. ASSUME GdbBreak PROVE attn' \in Nat
    BY <1>2 DEF GdbBreak
  <1>3. ASSUME GdbReceive PROVE attn' \in Nat
    BY <1>3 DEF GdbReceive
  <1>4. ASSUME CheckLock PROVE attn' \in Nat
    BY <1>4 DEF CheckLock, TakeLock, Goto, core
  <1>5. ASSUME Check PROVE attn' \in Nat
    BY <1>5 DEF Check, Goto, Say
  <1>6. ASSUME PollPacket PROVE attn' \in Nat
    BY <1>6 DEF PollPacket, Goto
  <1>7. ASSUME PollTimeout PROVE attn' \in Nat
    BY <1>7 DEF PollTimeout, Goto
  <1>8. ASSUME Receive PROVE attn' \in Nat
    BY <1>8 DEF Receive, TakeLock, Goto, core
  <1>9. ASSUME HandleCore PROVE attn' \in Nat
    BY <1>9 DEF HandleCore, Call, CoreFunction, Goto, Stopping
  <1>10. ASSUME NowRunning PROVE attn' \in Nat
    BY <1>10 DEF NowRunning, Goto
  <1>11. ASSUME NowHalted PROVE attn' \in Nat
    BY <1>11 DEF NowHalted, Goto
  <1>12. ASSUME Update PROVE attn' \in Nat
    BY <1>12 DEF Update, Goto
  <1>13. ASSUME Updated PROVE attn' \in Nat
    BY <1>13 DEF Updated, Goto
  <1>14. ASSUME Select PROVE attn' \in Nat
    BY <1>14 DEF Select, Goto
  <1>15. ASSUME Look PROVE attn' \in Nat
    BY <1>15 DEF Look, Goto
  <1>16. ASSUME RcmdUnlock PROVE attn' \in Nat
    BY <1>16 DEF RcmdUnlock, DropLock, Goto
  <1>17. ASSUME RcmdLock PROVE attn' \in Nat
    BY <1>17 DEF RcmdLock, TakeLock, Goto, core
  <1>18. ASSUME RcmdRun PROVE attn' \in Nat
    BY <1>18 DEF RcmdRun, Call, Goto
  <1>19. ASSUME RcmdWait PROVE attn' \in Nat
    BY <1>19 DEF RcmdWait, Call, Goto
  <1>20. ASSUME RcmdDone PROVE attn' \in Nat
    BY <1>20 DEF RcmdDone, DropLock, Goto
  <1>21. ASSUME RcmdRelock PROVE attn' \in Nat
    BY <1>21 DEF RcmdRelock, TakeLock, Goto, Say, core
  <1>22. ASSUME Unlock PROVE attn' \in Nat
    BY <1>22 DEF Unlock, DropLock, Goto
  <1>23. ASSUME ConLock PROVE attn' \in Nat
    BY <1>23 DEF ConLock, TakeLock, core
  <1>24. ASSUME NEW f \in ConsoleFunction \cup {"threads", "clear"}, ConRun(f) PROVE attn' \in Nat
    BY <1>24 DEF ConRun, Call, ConsoleFunction
  <1>25. ASSUME NEW v \in StepNoInts, ConMaskInts(v) PROVE attn' \in Nat
    BY <1>25 DEF ConMaskInts, MaskInts
  <1>26. ASSUME ConWait PROVE attn' \in Nat
    BY <1>26 DEF ConWait, Call
  <1>27. ASSUME ConWalk PROVE attn' \in Nat
    BY <1>27 DEF ConWalk
  <1>28. ASSUME ConFree PROVE attn' \in Nat
    BY <1>28 DEF ConFree
  <1>29. ASSUME ConClear PROVE attn' \in Nat
    BY <1>29 DEF ConClear
  <1>30. ASSUME ConUnlock PROVE attn' \in Nat
    BY <1>30 DEF ConUnlock, DropLock
  <1>31. ASSUME ControlStep PROVE attn' \in Nat
    BY <1>31 DEF ControlStep, Control, ReadCsr, HaltFirst, WriteMask, Go, WaitForHalt
  <1>32. ASSUME WalkStep PROVE attn' \in Nat
    BY <1>32 DEF WalkStep, Walk
  <1>33. ASSUME CoreStep PROVE attn' \in Nat
    BY <1>33 DEF CoreStep, Core, Execute, HaltEnter, Break
  <1>34. ASSUME TypeAttn PROVE attn' \in Nat
    BY <1>34 DEF TypeAttn, Interrupt
  <1>35. ASSUME Fault PROVE attn' \in Nat
    BY <1>35 DEF Fault, LinkDown, LinkUp
  <1>36. ASSUME UNCHANGED all PROVE attn' \in Nat
    BY <1>36 DEF all
  <1> QED
    BY <1>1, <1>2, <1>3, <1>4, <1>5, <1>6, <1>7, <1>8, <1>9, <1>10, <1>11, <1>12,
       <1>13, <1>14, <1>15, <1>16, <1>17, <1>18, <1>19, <1>20, <1>21, <1>22,
       <1>23, <1>24, <1>25, <1>26, <1>27, <1>28, <1>29, <1>30, <1>31, <1>32,
       <1>33, <1>34, <1>35, <1>36
       DEF Next, Bridge, ConsoleThread

LEMMA HaltedStep == halted \in BOOLEAN /\ CoreMove => halted' \in BOOLEAN
  <1> SUFFICES ASSUME halted \in BOOLEAN, CoreMove PROVE halted' \in BOOLEAN
    OBVIOUS
  <1>1. ASSUME ReadCsr PROVE halted' \in BOOLEAN
    BY <1>1 DEF ReadCsr
  <1>2. ASSUME HaltFirst PROVE halted' \in BOOLEAN
    BY <1>2 DEF HaltFirst, CsrWrite, Written, core
  <1>3. ASSUME WriteMask PROVE halted' \in BOOLEAN
    BY <1>3 DEF WriteMask, CsrWrite, Written, core
  <1>4. ASSUME Go PROVE halted' \in BOOLEAN
    BY <1>4 DEF Go, CsrWrite, Written, core
  <1>5. ASSUME WaitForHalt PROVE halted' \in BOOLEAN
    BY <1>5 DEF WaitForHalt
  <1>6. ASSUME Execute PROVE halted' \in BOOLEAN
    BY <1>6 DEF Execute, core, More
  <1>7. ASSUME HaltEnter PROVE halted' \in BOOLEAN
    BY <1>7 DEF HaltEnter
  <1>8. ASSUME Break PROVE halted' \in BOOLEAN
    BY <1>8 DEF Break
  <1>9. ASSUME NEW f \in Functions, Call(f) PROVE halted' \in BOOLEAN
    BY <1>9 DEF Call, NoOp, Idle
  <1>10. ASSUME NEW v \in StepNoInts, MaskInts(v) PROVE halted' \in BOOLEAN
    BY <1>10 DEF MaskInts, NoOp, Idle
  <1>11. ASSUME Untouched PROVE halted' \in BOOLEAN
    BY <1>11 DEF Untouched
  <1> QED
    BY <1>1, <1>2, <1>3, <1>4, <1>5, <1>6, <1>7, <1>8, <1>9, <1>10, <1>11 DEF CoreMove

LEMMA OpMove == OpTyped /\ Shape /\ Register /\ Prepares /\ CoreMove => op' \in OpType
  <1> SUFFICES ASSUME OpTyped, Shape, Register, Prepares, CoreMove PROVE op' \in OpType
    OBVIOUS
  <1>0. /\ halted \in BOOLEAN /\ op \in OpType /\ op.from \in BOOLEAN /\ op.lost \in BOOLEAN
        /\ op.fn \in Functions \cup {"none"} /\ op.last \in Nat /\ attn \in Nat
    BY DEF OpTyped, OpType
  <1>1. ASSUME ReadCsr PROVE op' \in OpType
    <2>1. op.fn \in {"halt", "step", "resume"} /\ op.fn \in Functions
      BY <1>1 DEF ReadCsr, Functions
    <2>2. CASE link
      <3>1. Prepared(csr) \in SUBSET Bits /\ AfterRead(csr) \in {"done", "read", "halt", "mask", "go"}
        BY <2>1, PreparedWrites DEF Shape, Kept, Bits
      <3>2. op' = [op EXCEPT !.x = Prepared(csr), !.pc = AfterRead(csr)]
        BY <1>1, <2>2 DEF ReadCsr
      <3> DEFINE y == Prepared(csr)  p == AfterRead(csr)
      <3>3. y \in SUBSET Bits /\ p \in {"done", "read", "halt", "mask", "go"}
        BY <3>1
      <3> HIDE DEF y, p
      <3>4. [op EXCEPT !.x = y, !.pc = p] \in OpType
        <4> DEFINE B == BOOLEAN
        <4>1. OpType = OpsWith(B)
          BY OpsAre
        <4> HIDE DEF B
        <4>2. op \in OpsWith(B)
          BY <1>0, <4>1
        <4>3. [op EXCEPT !.x = y, !.pc = p] \in OpsWith(B)
          BY <3>3, <4>2, Changed
        <4> QED
          BY <4>1, <4>3
      <3> QED
        BY <3>2, <3>4, Zenon DEF y, p
    <2>3. CASE ~link
      <3>1. op' = [NoOp EXCEPT !.was = op.fn, !.res = -1, !.from = op.from, !.lost = op.lost]
            /\ -1 \in Int
        BY <1>1, <2>3 DEF ReadCsr, Return
      <3> QED
        BY <1>0, <2>1, <3>1, ReturnTyped, Zenon
    <2> QED
      BY <2>2, <2>3
  <1>4. ASSUME Go PROVE op' \in OpType
    <2>1. op.fn \in Functions
      BY <1>0, <1>4 DEF Go, Shape, Functions
    <2>2. Return(IF link THEN 0 ELSE -1)
      BY <1>4 DEF Go
    <2>3. PICK r \in Int : Return(r)
      BY <2>2
    <2> QED
      BY <1>0, <2>1, <2>3, ReturnTyped, Zenon DEF Return
  <1>5. ASSUME WaitForHalt PROVE op' \in OpType
    <2>1. op.fn \in Functions
      BY <1>5 DEF WaitForHalt, Functions
    <2>2. CASE op' = op
      BY <1>0, <2>2
    <2>3. ASSUME NEW r \in Int, Return(r) PROVE op' \in OpType
      BY <1>0, <2>1, <2>3, ReturnTyped, Zenon DEF Return
    <2>4. -1 \in Int /\ 0 \in Int /\ -2 \in Int
      OBVIOUS
    <2>5. op' = op \/ Return(-1) \/ Return(0) \/ Return(-2)
      BY <1>5 DEF WaitForHalt
    <2> QED
      BY <2>2, <2>3, <2>4, <2>5, Zenon
  <1>9. ASSUME NEW f \in Functions, Call(f) PROVE op' \in OpType
    <2>1. PICK l \in Nat, a \in BOOLEAN :
             op' = [NoOp EXCEPT !.fn = f, !.pc = "read", !.from = halted, !.last = l, !.lost = a]
      <3>1. (f = "wait" /\ (op.lost \/ op.res # 0)) \in BOOLEAN
        OBVIOUS
      <3> QED
        BY <1>0, <1>9, <3>1 DEF Call
    <2> QED
      BY <1>0, <2>1, CallTyped, Zenon
  <1>2. ASSUME HaltFirst PROVE op' \in OpType
    <2>1. PICK p \in {"done", "read", "halt", "mask", "go"}, b \in BOOLEAN :
             op' = [op EXCEPT !.pc = p, !.lost = b]
      <3>1. (~link) \in BOOLEAN
        OBVIOUS
      <3> QED
        BY <1>2, <3>1 DEF HaltFirst
    <2>2. {} \in SUBSET Bits
      OBVIOUS
    <2> QED
      BY <1>0, <2>1, <2>2, OpsAre, Lost, Zenon
  <1>3. ASSUME WriteMask PROVE op' \in OpType
    <2>1. PICK p \in {"done", "read", "halt", "mask", "go"}, y \in SUBSET Bits, b \in BOOLEAN :
             op' = [op EXCEPT !.x = y, !.pc = p, !.lost = b]
      <3>1. (op.lost \/ ~link) \in BOOLEAN
        OBVIOUS
      <3>2. Masked(op.x) \in SUBSET Bits
        BY <1>0 DEF Masked, Bits, OpType
      <3> QED
        BY <1>3, <3>1, <3>2 DEF WriteMask
    <2> QED
      BY <1>0, <2>1, OpsAre, Lost, Zenon
  <1> USE DEF OpTyped, OpType, Functions, Bits, Kept
  <1>6. ASSUME Execute PROVE op' \in OpType
    BY <1>6 DEF Execute, core, More
  <1>7. ASSUME HaltEnter PROVE op' \in OpType
    BY <1>7 DEF HaltEnter
  <1>8. ASSUME Break PROVE op' \in OpType
    BY <1>8 DEF Break
  <1>10. ASSUME NEW v \in StepNoInts, MaskInts(v) PROVE op' \in OpType
    BY <1>10 DEF MaskInts, NoOp, Idle
  <1>11. ASSUME Untouched PROVE op' \in OpType
    BY <1>11 DEF Untouched
  <1> QED
    BY <1>1, <1>2, <1>3, <1>4, <1>5, <1>6, <1>7, <1>8, <1>9, <1>10, <1>11 DEF CoreMove

LEMMA OpStep == OpTyped /\ CoreInv /\ LockInv /\ [Next]_all => OpTyped'
  BY AttnStep, HaltedStep, OpMove, CoreMoves DEF OpTyped, CoreInv

SessionInv == OpTyped /\ LockInv /\ CoreInv

LEMMA SessionStep == SessionInv /\ [Next]_all => SessionInv'
  <1> SUFFICES ASSUME OpTyped, LockInv, CoreInv, [Next]_all PROVE SessionInv'
    BY DEF SessionInv
  <1>1. CoreMove
    BY CoreMoves
  <1>2. OpTyped' /\ LockInv'
    BY OpStep, LockStep
  <1>3. CoreInv'
    BY <1>1, ShapeStep, RegisterStep, PreparesStep, MaskWrittenStep, SteppingStep, SteppedStep, HaltHoldsStep
       DEF CoreInv
  <1> QED
    BY <1>2, <1>3 DEF SessionInv

LEMMA SessionInvariance == Spec => []SessionInv
  <1>1. SInit => SessionInv
    BY OpInit, LockInit, CoreInit DEF SessionInv
  <1> QED
    BY <1>1, SessionStep, PTL DEF Spec

-----------------------------------------------------------------------------
(* What the functions of the core promise.                                 *)

\* A step from a halted core that was reported done executes one instruction
\* at most and takes no interrupt while they are masked, whoever asked for it
\* and whatever the core, the link and the other thread do.
THEOREM OneInstruction == Spec => []OneStep
  <1>1. SessionInv => OneStep
    BY DEF SessionInv, CoreInv, Stepped, OneStep, Idle
  <1> QED
    BY <1>1, SessionInvariance, PTL

\* A halt that was reported done stays in force until the core is resumed or
\* stepped.
THEOREM HaltsHold == Spec => []HaltHolds
  <1>1. SessionInv => HaltHolds
    BY DEF SessionInv, CoreInv
  <1> QED
    BY <1>1, SessionInvariance, PTL

LEMMA MaskMove ==
  OpTyped /\ CoreInv /\ CoreMove =>
    ((op.fn = "step" \/ op.from) /\ ~op.lost =>
       ~("HALT" \in csr /\ "HALT" \notin csr' /\ csr' # {} /\
         ("MASKINTS" \in csr) # ("MASKINTS" \in csr')))
  <1> SUFFICES ASSUME OpTyped, CoreInv, CoreMove, op.fn = "step" \/ op.from, ~op.lost,
                      "HALT" \in csr, "HALT" \notin csr'
               PROVE  "MASKINTS" \in csr <=> "MASKINTS" \in csr'
    OBVIOUS
  <1> DEFINE Same == "MASKINTS" \in csr <=> "MASKINTS" \in csr'
  <1> USE DEF CoreInv, Shape, Prepares, MaskWritten, OpTyped, OpType, Functions
  <1>1. ASSUME ReadCsr PROVE Same
    BY <1>1 DEF ReadCsr, Prepared, AfterRead, MaskIsRight, Masking, Return, NoOp, Kept
  <1>2. ASSUME HaltFirst PROVE Same
    BY <1>2, Effects DEF HaltFirst, Effect, MaskIsRight, Masking, Kept
  <1>3. ASSUME WriteMask PROVE Same
    BY <1>3, Effects DEF WriteMask, Effect, Masked, Masking, Kept
  <1>4. ASSUME Go PROVE Same
    BY <1>4, Effects DEF Go, Effect, Final, Return, NoOp, Kept
  <1>5. ASSUME WaitForHalt PROVE Same
    BY <1>5, Waits
  <1>6. ASSUME Execute PROVE Same
    BY <1>6 DEF Execute, core, More
  <1>7. ASSUME HaltEnter PROVE Same
    BY <1>7 DEF HaltEnter
  <1>8. ASSUME Break PROVE Same
    BY <1>8 DEF Break
  <1>9. ASSUME NEW f \in Functions, Call(f) PROVE Same
    BY <1>9 DEF Call, NoOp, Idle
  <1>10. ASSUME NEW v \in StepNoInts, MaskInts(v) PROVE Same
    BY <1>10 DEF MaskInts, NoOp, Idle
  <1>11. ASSUME Untouched PROVE Same
    BY <1>11 DEF Untouched
  <1> QED
    BY <1>1, <1>2, <1>3, <1>4, <1>5, <1>6, <1>7, <1>8, <1>9, <1>10, <1>11 DEF CoreMove

\* No step, and no resume of a halted core, changes the interrupt mask in the
\* write that lets the core go, unless an earlier write of it failed.
THEOREM MaskedApart == Spec => MaskApart
  <1>1. SessionInv /\ [Next]_all =>
          [(op.fn = "step" \/ op.from) /\ ~op.lost =>
             ~("HALT" \in csr /\ "HALT" \notin csr' /\ csr' # {} /\
               ("MASKINTS" \in csr) # ("MASKINTS" \in csr'))]_cvars
    BY CoreMoves, MaskMove DEF SessionInv
  <1> QED
    BY <1>1, SessionInvariance, PTL DEF Spec, MaskApart

-----------------------------------------------------------------------------
(***************************************************************************)
(* What gdb is told: its stops are true, and it gets an answer to          *)
(* everything, once.                                                       *)
(***************************************************************************)

-----------------------------------------------------------------------------
(* Stops.                                                                  *)

Words == {"stopped", "ok", "break"}

\* A halt under way for a ^C or a ?, done or failed; and, if it was done, what it
\* has left in the register until the answer is sent.
HaltAsked ==
    gpc = "core" /\ gcmd \in {"^C", "?"} =>
        op.fn = "halt" \/ (op.fn = "none" /\ op.was = "halt")
HaltTold == gpc \in {"update", "walk"} /\ gcmd = "^C" /\ op.res = 0 => "HALT" \in csr

Telling == HaltAsked /\ HaltTold

LEMMA ReturnFields ==
  ASSUME NEW r, Return(r) PROVE op'.fn = "none" /\ op'.was = op.fn /\ op'.res = r
  BY DEF Return, NoOp

LEMMA TellingStep == SessionInv /\ Telling /\ [Next]_all => Telling'
  <1> SUFFICES ASSUME SessionInv, Telling, [Next]_all PROVE Telling'
    OBVIOUS
  <1>0. OpTyped /\ LockInv /\ Shape /\ HaltHolds
    BY DEF SessionInv, CoreInv
  <1> USE <1>0 DEF Telling, HaltAsked, HaltTold, LockInv, Idle, Holding, Calling, cvars, NoOp,
              OpTyped, OpType, Functions, Shape, ConsoleFunction
  <1>1. ASSUME NEW cmd \in Commands, GdbSend(cmd) PROVE Telling'
    BY <1>1 DEF GdbSend
  <1>2. ASSUME GdbBreak PROVE Telling'
    BY <1>2 DEF GdbBreak
  <1>3. ASSUME GdbReceive PROVE Telling'
    BY <1>3 DEF GdbReceive
  <1>4. ASSUME CheckLock PROVE Telling'
    BY <1>4 DEF CheckLock, TakeLock, Goto, core
  <1>5. ASSUME Check PROVE Telling'
    BY <1>5 DEF Check, Goto, Say
  <1>6. ASSUME PollPacket PROVE Telling'
    BY <1>6 DEF PollPacket, Goto
  <1>7. ASSUME PollTimeout PROVE Telling'
    BY <1>7 DEF PollTimeout, Goto
  <1>8. ASSUME Receive PROVE Telling'
    BY <1>8 DEF Receive, TakeLock, Goto, core
  <1>9. ASSUME HandleCore PROVE Telling'
    BY <1>9 DEF HandleCore, Call, CoreFunction, Goto, Stopping
  <1>10. ASSUME NowRunning PROVE Telling'
    BY <1>10 DEF NowRunning, Goto
  <1>11. ASSUME NowHalted PROVE Telling'
    BY <1>11 DEF NowHalted, Goto, HaltHolds
  <1>12. ASSUME Update PROVE Telling'
    BY <1>12 DEF Update, Goto
  <1>13. ASSUME Updated PROVE Telling'
    BY <1>13 DEF Updated, Goto, AfterStop, Say
  <1>14. ASSUME Select PROVE Telling'
    BY <1>14 DEF Select, Goto
  <1>15. ASSUME Look PROVE Telling'
    BY <1>15 DEF Look, Goto
  <1>16. ASSUME RcmdUnlock PROVE Telling'
    BY <1>16 DEF RcmdUnlock, DropLock, Goto
  <1>17. ASSUME RcmdLock PROVE Telling'
    BY <1>17 DEF RcmdLock, TakeLock, Goto, core
  <1>18. ASSUME RcmdRun PROVE Telling'
    BY <1>18 DEF RcmdRun, Call, Goto
  <1>19. ASSUME RcmdWait PROVE Telling'
    BY <1>19 DEF RcmdWait, Call, Goto
  <1>20. ASSUME RcmdDone PROVE Telling'
    BY <1>20 DEF RcmdDone, DropLock, Goto
  <1>21. ASSUME RcmdRelock PROVE Telling'
    BY <1>21 DEF RcmdRelock, TakeLock, Goto, Say, core
  <1>22. ASSUME Unlock PROVE Telling'
    BY <1>22 DEF Unlock, DropLock, Goto
  <1>23. ASSUME ConLock PROVE Telling'
    BY <1>23 DEF ConLock, TakeLock, core
  <1>24. ASSUME NEW f \in ConsoleFunction \cup {"threads", "clear"}, ConRun(f) PROVE Telling'
    BY <1>24 DEF ConRun, Call, ConsoleFunction
  <1>25. ASSUME NEW v \in StepNoInts, ConMaskInts(v) PROVE Telling'
    BY <1>25 DEF ConMaskInts, MaskInts
  <1>26. ASSUME ConWait PROVE Telling'
    BY <1>26 DEF ConWait, Call
  <1>27. ASSUME ConWalk PROVE Telling'
    BY <1>27 DEF ConWalk
  <1>28. ASSUME ConFree PROVE Telling'
    BY <1>28 DEF ConFree
  <1>29. ASSUME ConClear PROVE Telling'
    BY <1>29 DEF ConClear
  <1>30. ASSUME ConUnlock PROVE Telling'
    BY <1>30 DEF ConUnlock, DropLock
  <1>31. ASSUME ControlStep PROVE Telling'
    <2>1. UNCHANGED <<gpc, gcmd, con, lock, link>> /\ Control
      BY <1>31 DEF ControlStep, Control, ReadCsr, HaltFirst, WriteMask, Go, WaitForHalt, svars
    <2>2. op.fn # "none" /\ gpc \notin {"update", "walk"}
      BY <2>1 DEF Control, ReadCsr, HaltFirst, WriteMask, Go, WaitForHalt
    <2>3. ASSUME op.fn = "halt"
          PROVE  op'.fn = "halt" \/ (op'.fn = "none" /\ op'.was = "halt")
      <3>1. CASE ReadCsr
        BY <2>3, <3>1, ReturnFields DEF ReadCsr
      <3>2. CASE Go
        BY <2>3, <3>2, ReturnFields DEF Go
      <3> QED
        BY <2>1, <2>3, <3>1, <3>2 DEF Control, HaltFirst, WriteMask, WaitForHalt
    <2> QED
      BY <2>1, <2>2, <2>3
  <1>32. ASSUME WalkStep PROVE Telling'
    <2>1. UNCHANGED <<gpc, gcmd, op, csr>> /\ (ReadInfo \/ ReadCurrent \/ ReadNext)
      BY <1>32 DEF WalkStep, Walk, core
    <2>2. CASE ReadInfo
      BY <2>2, <2>1, Zenon DEF ReadInfo
    <2>3. CASE ReadCurrent
      BY <2>3, <2>1, Zenon DEF ReadCurrent
    <2>4. CASE ReadNext
      BY <2>4, <2>1, Zenon DEF ReadNext
    <2> QED
      BY <2>1, <2>2, <2>3, <2>4
  <1>33. ASSUME CoreStep PROVE Telling'
    <2>1. UNCHANGED <<gpc, gcmd, op, link>> /\ ("HALT" \in csr => "HALT" \in csr')
      BY <1>33 DEF CoreStep, Core, Execute, HaltEnter, Break, core
    <2> QED
      BY <2>1
  <1>34. ASSUME TypeAttn PROVE Telling'
    BY <1>34 DEF TypeAttn, Interrupt
  <1>35. ASSUME Fault PROVE Telling'
    BY <1>35 DEF Fault, LinkDown, LinkUp
  <1>36. ASSUME UNCHANGED all PROVE Telling'
    BY <1>36 DEF all
  <1> QED
    BY <1>1, <1>2, <1>3, <1>4, <1>5, <1>6, <1>7, <1>8, <1>9, <1>10,
       <1>11, <1>12, <1>13, <1>14, <1>15, <1>16, <1>17, <1>18, <1>19, <1>20,
       <1>21, <1>22, <1>23, <1>24, <1>25, <1>26, <1>27, <1>28, <1>29, <1>30,
       <1>31, <1>32, <1>33, <1>34, <1>35, <1>36
       DEF Next, Bridge, ConsoleThread

LEMMA AnswersStep == answers \in Seq(Words) /\ [Next]_all => answers' \in Seq(Words)
  <1> SUFFICES ASSUME answers \in Seq(Words), [Next]_all PROVE answers' \in Seq(Words)
    OBVIOUS
  <1> USE DEF Words, svars
  <1>1. ASSUME NEW cmd \in Commands, GdbSend(cmd) PROVE answers' \in Seq(Words)
    BY <1>1 DEF GdbSend
  <1>2. ASSUME GdbBreak PROVE answers' \in Seq(Words)
    BY <1>2 DEF GdbBreak
  <1>3. ASSUME GdbReceive PROVE answers' \in Seq(Words)
    BY <1>3 DEF GdbReceive
  <1>4. ASSUME CheckLock PROVE answers' \in Seq(Words)
    BY <1>4 DEF CheckLock, TakeLock, Goto, core
  <1>5. ASSUME Check PROVE answers' \in Seq(Words)
    BY <1>5 DEF Check, Goto, Say
  <1>6. ASSUME PollPacket PROVE answers' \in Seq(Words)
    BY <1>6 DEF PollPacket, Goto, svars
  <1>7. ASSUME PollTimeout PROVE answers' \in Seq(Words)
    BY <1>7 DEF PollTimeout, Goto
  <1>8. ASSUME Receive PROVE answers' \in Seq(Words)
    BY <1>8 DEF Receive, TakeLock, Goto, core
  <1>9. ASSUME HandleCore PROVE answers' \in Seq(Words)
    BY <1>9 DEF HandleCore, Call, CoreFunction, Goto, Stopping
  <1>10. ASSUME NowRunning PROVE answers' \in Seq(Words)
    BY <1>10 DEF NowRunning, Goto
  <1>11. ASSUME NowHalted PROVE answers' \in Seq(Words)
    BY <1>11 DEF NowHalted, Goto
  <1>12. ASSUME Update PROVE answers' \in Seq(Words)
    BY <1>12 DEF Update, Goto
  <1>13. ASSUME Updated PROVE answers' \in Seq(Words)
    BY <1>13 DEF Updated, Goto, AfterStop, Say
  <1>14. ASSUME Select PROVE answers' \in Seq(Words)
    BY <1>14 DEF Select, Goto, Say
  <1>15. ASSUME Look PROVE answers' \in Seq(Words)
    BY <1>15 DEF Look, Goto, Say
  <1>16. ASSUME RcmdUnlock PROVE answers' \in Seq(Words)
    BY <1>16 DEF RcmdUnlock, DropLock, Goto
  <1>17. ASSUME RcmdLock PROVE answers' \in Seq(Words)
    BY <1>17 DEF RcmdLock, TakeLock, Goto, core
  <1>18. ASSUME RcmdRun PROVE answers' \in Seq(Words)
    BY <1>18 DEF RcmdRun, Call, Goto
  <1>19. ASSUME RcmdWait PROVE answers' \in Seq(Words)
    BY <1>19 DEF RcmdWait, Call, Goto
  <1>20. ASSUME RcmdDone PROVE answers' \in Seq(Words)
    BY <1>20 DEF RcmdDone, DropLock, Goto
  <1>21. ASSUME RcmdRelock PROVE answers' \in Seq(Words)
    <2>1. answers' = Append(answers, "ok")
      BY <1>21, Zenon DEF RcmdRelock, Say
    <2> QED
      BY <2>1
  <1>22. ASSUME Unlock PROVE answers' \in Seq(Words)
    BY <1>22 DEF Unlock, DropLock, Goto
  <1>23. ASSUME ConLock PROVE answers' \in Seq(Words)
    BY <1>23 DEF ConLock, TakeLock, core
  <1>24. ASSUME NEW f \in ConsoleFunction \cup {"threads", "clear"}, ConRun(f) PROVE answers' \in Seq(Words)
    BY <1>24 DEF ConRun, Call, ConsoleFunction
  <1>25. ASSUME NEW v \in StepNoInts, ConMaskInts(v) PROVE answers' \in Seq(Words)
    BY <1>25 DEF ConMaskInts, MaskInts
  <1>26. ASSUME ConWait PROVE answers' \in Seq(Words)
    BY <1>26 DEF ConWait, Call
  <1>27. ASSUME ConWalk PROVE answers' \in Seq(Words)
    BY <1>27 DEF ConWalk
  <1>28. ASSUME ConFree PROVE answers' \in Seq(Words)
    BY <1>28 DEF ConFree
  <1>29. ASSUME ConClear PROVE answers' \in Seq(Words)
    BY <1>29 DEF ConClear
  <1>30. ASSUME ConUnlock PROVE answers' \in Seq(Words)
    BY <1>30 DEF ConUnlock, DropLock
  <1>31. ASSUME ControlStep PROVE answers' \in Seq(Words)
    BY <1>31 DEF ControlStep, Control, ReadCsr, HaltFirst, WriteMask, Go, WaitForHalt, CsrWrite, Written, Return, core
  <1>32. ASSUME WalkStep PROVE answers' \in Seq(Words)
    BY <1>32 DEF WalkStep, Walk, ReadInfo, ReadCurrent, ReadNext, core
  <1>33. ASSUME CoreStep PROVE answers' \in Seq(Words)
    BY <1>33 DEF CoreStep, Core, Execute, HaltEnter, Break, core
  <1>34. ASSUME TypeAttn PROVE answers' \in Seq(Words)
    BY <1>34 DEF TypeAttn, Interrupt
  <1>35. ASSUME Fault PROVE answers' \in Seq(Words)
    BY <1>35 DEF Fault, LinkDown, LinkUp
  <1>36. ASSUME UNCHANGED all PROVE answers' \in Seq(Words)
    BY <1>36 DEF all
  <1> QED
    BY <1>1, <1>2, <1>3, <1>4, <1>5, <1>6, <1>7, <1>8, <1>9, <1>10,
       <1>11, <1>12, <1>13, <1>14, <1>15, <1>16, <1>17, <1>18, <1>19, <1>20,
       <1>21, <1>22, <1>23, <1>24, <1>25, <1>26, <1>27, <1>28, <1>29, <1>30,
       <1>31, <1>32, <1>33, <1>34, <1>35, <1>36
       DEF Next, Bridge, ConsoleThread

\* What a step that sends an answer sends, and when.
LEMMA Sends ==
  ASSUME answers \in Seq(Words), [Next]_all, NEW a \in Words, answers' = Append(answers, a)
  PROVE  \/ a = "ok"
         \/ a = "stopped" /\ halted
         \/ a = "break" /\ gpc = "walk" /\ gcmd = "^C"
  <1> DEFINE Sound == \/ a = "ok"
                      \/ a = "stopped" /\ halted
                      \/ a = "break" /\ gpc = "walk" /\ gcmd = "^C"
  <1>0. answers' # answers /\ Len(answers') = Len(answers) + 1 /\ answers'[Len(answers) + 1] = a
    BY DEF Words
  <1> USE <1>0 DEF Words, svars
  <1>1. ASSUME NEW cmd \in Commands, GdbSend(cmd) PROVE Sound
    BY <1>1 DEF GdbSend
  <1>2. ASSUME GdbBreak PROVE Sound
    BY <1>2 DEF GdbBreak
  <1>3. ASSUME GdbReceive PROVE Sound
    BY <1>3 DEF GdbReceive
  <1>4. ASSUME CheckLock PROVE Sound
    BY <1>4 DEF CheckLock, TakeLock, Goto, core
  <1>5. ASSUME Check PROVE Sound
    <2>1. CASE answers' = Append(answers, "stopped") /\ halted
      BY <2>1
    <2> QED
      BY <1>5, <2>1 DEF Check, Say, Halted
  <1>6. ASSUME PollPacket PROVE Sound
    BY <1>6 DEF PollPacket, Goto
  <1>7. ASSUME PollTimeout PROVE Sound
    BY <1>7 DEF PollTimeout, Goto
  <1>8. ASSUME Receive PROVE Sound
    BY <1>8 DEF Receive, TakeLock, Goto, core
  <1>9. ASSUME HandleCore PROVE Sound
    BY <1>9 DEF HandleCore, Call, CoreFunction, Goto, Stopping
  <1>10. ASSUME NowRunning PROVE Sound
    BY <1>10 DEF NowRunning, Goto
  <1>11. ASSUME NowHalted PROVE Sound
    BY <1>11 DEF NowHalted, Goto
  <1>12. ASSUME Update PROVE Sound
    BY <1>12 DEF Update, Goto
  <1>13. ASSUME Updated PROVE Sound
    BY <1>13 DEF Updated, Goto, AfterStop, Say
  <1>14. ASSUME Select PROVE Sound
    BY <1>14 DEF Select, Goto, Say
  <1>15. ASSUME Look PROVE Sound
    BY <1>15 DEF Look, Goto, Say
  <1>16. ASSUME RcmdUnlock PROVE Sound
    BY <1>16 DEF RcmdUnlock, DropLock, Goto
  <1>17. ASSUME RcmdLock PROVE Sound
    BY <1>17 DEF RcmdLock, TakeLock, Goto, core
  <1>18. ASSUME RcmdRun PROVE Sound
    BY <1>18 DEF RcmdRun, Call, Goto
  <1>19. ASSUME RcmdWait PROVE Sound
    BY <1>19 DEF RcmdWait, Call, Goto
  <1>20. ASSUME RcmdDone PROVE Sound
    BY <1>20 DEF RcmdDone, DropLock, Goto
  <1>21. ASSUME RcmdRelock PROVE Sound
    <2>1. answers' = Append(answers, "ok")
      BY <1>21, Zenon DEF RcmdRelock, Say
    <2> QED
      BY <2>1
  <1>22. ASSUME Unlock PROVE Sound
    BY <1>22 DEF Unlock, DropLock, Goto
  <1>23. ASSUME ConLock PROVE Sound
    BY <1>23 DEF ConLock, TakeLock, core
  <1>24. ASSUME NEW f \in ConsoleFunction \cup {"threads", "clear"}, ConRun(f) PROVE Sound
    BY <1>24 DEF ConRun, Call, ConsoleFunction
  <1>25. ASSUME NEW v \in StepNoInts, ConMaskInts(v) PROVE Sound
    BY <1>25 DEF ConMaskInts, MaskInts
  <1>26. ASSUME ConWait PROVE Sound
    BY <1>26 DEF ConWait, Call
  <1>27. ASSUME ConWalk PROVE Sound
    BY <1>27 DEF ConWalk
  <1>28. ASSUME ConFree PROVE Sound
    BY <1>28 DEF ConFree
  <1>29. ASSUME ConClear PROVE Sound
    BY <1>29 DEF ConClear
  <1>30. ASSUME ConUnlock PROVE Sound
    BY <1>30 DEF ConUnlock, DropLock
  <1>31. ASSUME ControlStep PROVE Sound
    BY <1>31 DEF ControlStep, Control, ReadCsr, HaltFirst, WriteMask, Go, WaitForHalt, CsrWrite, Written, Return, core
  <1>32. ASSUME WalkStep PROVE Sound
    BY <1>32 DEF WalkStep, Walk, ReadInfo, ReadCurrent, ReadNext, core
  <1>33. ASSUME CoreStep PROVE Sound
    BY <1>33 DEF CoreStep, Core, Execute, HaltEnter, Break, core
  <1>34. ASSUME TypeAttn PROVE Sound
    BY <1>34 DEF TypeAttn, Interrupt
  <1>35. ASSUME Fault PROVE Sound
    BY <1>35 DEF Fault, LinkDown, LinkUp
  <1>36. ASSUME UNCHANGED all PROVE Sound
    BY <1>36 DEF all
  <1> QED
    BY <1>1, <1>2, <1>3, <1>4, <1>5, <1>6, <1>7, <1>8, <1>9, <1>10,
       <1>11, <1>12, <1>13, <1>14, <1>15, <1>16, <1>17, <1>18, <1>19, <1>20,
       <1>21, <1>22, <1>23, <1>24, <1>25, <1>26, <1>27, <1>28, <1>29, <1>30,
       <1>31, <1>32, <1>33, <1>34, <1>35, <1>36
       DEF Next, Bridge, ConsoleThread

StopInv == SessionInv /\ Telling /\ answers \in Seq(Words)

LEMMA StopInvariance == Spec => []StopInv
  <1>1. SInit => SessionInv /\ Telling /\ answers \in Seq(Words)
    BY OpInit, LockInit, CoreInit DEF SInit, SessionInv, Telling, HaltAsked, HaltTold
  <1>2. StopInv /\ [Next]_all => StopInv'
    BY SessionStep, TellingStep, AnswersStep DEF StopInv
  <1> QED
    BY <1>1, <1>2, PTL DEF Spec, StopInv

\* gdb is told of a stop only if the core is halted, and a ^C is answered only
\* when the core is halted or told to halt, unless the halt itself failed.
THEOREM StopsAreTrue == Spec => StopIsTrue
  <1>1. StopInv /\ [Next]_all =>
          [/\ answers' = Append(answers, "stopped") => halted
           /\ answers' = Append(answers, "break") /\ op.res = 0 => "HALT" \in csr]_all
    <2> SUFFICES ASSUME StopInv, [Next]_all
                 PROVE  /\ answers' = Append(answers, "stopped") => halted
                        /\ answers' = Append(answers, "break") /\ op.res = 0 => "HALT" \in csr
      OBVIOUS
    <2>1. ASSUME answers' = Append(answers, "stopped") PROVE halted
      BY <2>1, Sends DEF StopInv, Words
    <2>2. ASSUME answers' = Append(answers, "break"), op.res = 0 PROVE "HALT" \in csr
      BY <2>2, Sends DEF StopInv, Words, Telling, HaltTold
    <2> QED
      BY <2>1, <2>2
  <1> QED
    BY <1>1, StopInvariance, PTL DEF Spec, StopIsTrue
-----------------------------------------------------------------------------
(* What gdb waits for is somewhere between it and its answer.              *)

Pending == {"handle", "core", "update", "walk", "rcmd", "rcmd locked", "rcmd core", "rcmd done"}
Asking == Commands \ Stopping

\* The command the bridge has in hand and has not answered.
Hand == IF gpc \in Pending THEN gcmd ELSE "none"

\* What the bridge does with which commands.
InHand ==
    /\ gpc \in {"top", "check", "poll", "packet"} => gcmd = "none"
    /\ gpc = "packet" => chan # <<>>
    /\ gpc \in {"handle", "core"} => gcmd # "none"
    /\ gpc = "core" => gcmd \in Stopping \cup {"?", "^C"}
    /\ gpc \in {"update", "walk"} => gcmd \in {"none", "?", "^C"}
    /\ gpc \in {"rcmd", "rcmd locked", "rcmd core", "rcmd done"} => gcmd \in ConsoleFunction

\* On the way to the bridge, in its hand, on the way back.
Way(there, hand, back) == chan = there /\ Hand = hand /\ answers = back

AskedOnce ==
    gdb = "reply" => \E cmd \in Asking :
        \/ Way(<<cmd>>, "none", <<>>)
        \/ Way(<<>>, cmd, <<>>)
        \/ Way(<<>>, "none", <<"ok">>)

\* A ^C that crossed with a stop.
Crossed ==
    gdb = "stopped" /\ broken =>
        \/ Way(<<"^C">>, "none", <<>>)
        \/ Way(<<>>, "^C", <<>>)
        \/ Way(<<>>, "none", <<"break">>)

Resumed ==
    gdb = "stop" /\ ~broken =>
        \/ ~running /\ \E cmd \in Stopping : Way(<<cmd>>, "none", <<>>) \/ Way(<<>>, cmd, <<>>)
        \/ running /\ Way(<<>>, "none", <<>>)
        \/ ~running /\ Way(<<>>, "none", <<"stopped">>)

Interrupted ==
    gdb = "stop" /\ broken =>
        \/ ~running /\ \E cmd \in Stopping : \/ Way(<<cmd, "^C">>, "none", <<>>)
                                            \/ Way(<<"^C">>, cmd, <<>>)
        \/ running /\ (Way(<<"^C">>, "none", <<>>) \/ Way(<<>>, "^C", <<>>))
        \/ ~running /\ \/ Way(<<"^C">>, "none", <<"stopped">>)
                       \/ Way(<<>>, "^C", <<"stopped">>)
                       \/ Way(<<>>, "none", <<"stopped", "break">>)
                       \/ Way(<<>>, "none", <<"break">>)

Dialogue ==
    /\ gdb \in {"new", "reply", "stop", "stopped"}
    /\ gdb # "stop" => ~running
    /\ gdb \in {"new", "reply"} => ~broken
    /\ gdb = "new" \/ (gdb = "stopped" /\ ~broken) => Way(<<>>, "none", <<>>)
    /\ AskedOnce /\ Crossed /\ Resumed /\ Interrupted


LEMMA Tuples ==
  ASSUME NEW x, NEW y
  PROVE  /\ Append(<<>>, x) = <<x>> /\ Append(<<x>>, y) = <<x, y>>
         /\ Head(<<x>>) = x /\ Tail(<<x>>) = <<>>
         /\ Head(<<x, y>>) = x /\ Tail(<<x, y>>) = <<y>>
         /\ <<x>> # <<>> /\ <<x, y>> # <<>>
  <1> DEFINE S == {x, y}
             l == Append(<<x>>, y)
  <1>1. <<x>> \in Seq(S) /\ Len(<<x>>) = 1 /\ y \in S
    OBVIOUS
  <1>2. l \in Seq(S) /\ Len(l) = 2 /\ l[1] = x /\ l[2] = y
    BY <1>1
  <1>3. <<x, y>> \in Seq(S) /\ Len(<<x, y>>) = 2 /\ <<x, y>>[1] = x /\ <<x, y>>[2] = y
    OBVIOUS
  <1>4. \A s, t \in Seq(S) : Len(s) = 2 /\ Len(t) = 2 /\ s[1] = t[1] /\ s[2] = t[2] => s = t
    OBVIOUS
  <1>5. Append(<<x>>, y) = <<x, y>>
    BY <1>2, <1>3, <1>4
  <1>6. Append(<<>>, x) = <<x>> /\ Head(<<x>>) = x /\ Tail(<<x>>) = <<>>
    OBVIOUS
  <1>7. Head(<<x, y>>) = x /\ Tail(<<x, y>>) = <<y>> /\ <<x>> # <<>> /\ <<x, y>> # <<>>
    OBVIOUS
  <1> QED
    BY <1>5, <1>6, <1>7

\* Nothing moves on its way.
LEMMA DialogueKept ==
  ASSUME Dialogue, UNCHANGED <<running, chan, answers, gdb, broken>>, Hand' = Hand
  PROVE  Dialogue'
  BY DEF Dialogue, AskedOnce, Crossed, Resumed, Interrupted, Way

\* What the bridge takes next is a command.
LEMMA ChanHead ==
  ASSUME Dialogue, chan # <<>> PROVE Head(chan) \in Commands \cup {"^C"}
  BY Tuples DEF Dialogue, AskedOnce, Crossed, Resumed, Interrupted, Way, Asking, Stopping, Commands

LEMMA InHandStep == InHand /\ Dialogue /\ [Next]_all => InHand'
  <1> SUFFICES ASSUME InHand, Dialogue, [Next]_all PROVE InHand'
    OBVIOUS
  <1> USE DEF InHand, svars
  <1>1. ASSUME NEW cmd \in Commands, GdbSend(cmd) PROVE InHand'
    <2>1. Append(chan, cmd) # <<>>
      BY <1>1, Tuples DEF GdbSend, Dialogue, Crossed, Way
    <2> QED
      BY <1>1, <2>1 DEF GdbSend
  <1>2. ASSUME GdbBreak PROVE InHand'
    <2>1. chan = <<>> \/ \E cmd \in Stopping : chan = <<cmd>>
      BY <1>2 DEF GdbBreak, Dialogue, Resumed, Way
    <2>2. Append(<<>>, "^C") # <<>>
      BY Tuples
    <2>3. ASSUME NEW cmd \in Stopping PROVE Append(<<cmd>>, "^C") # <<>>
      <3>1. Append(<<cmd>>, "^C") = <<cmd, "^C">> /\ <<cmd, "^C">> # <<>>
        BY Tuples, Zenon
      <3> QED
        BY <3>1, Zenon
    <2>4. Append(chan, "^C") # <<>>
      BY <2>1, <2>2, <2>3
    <2> QED
      BY <1>2, <2>4 DEF GdbBreak
  <1>3. ASSUME GdbReceive PROVE InHand'
    BY <1>3 DEF GdbReceive
  <1>4. ASSUME CheckLock PROVE InHand'
    BY <1>4 DEF CheckLock, TakeLock, Goto, core
  <1>5. ASSUME Check PROVE InHand'
    BY <1>5 DEF Check, Goto, Say
  <1>6. ASSUME PollPacket PROVE InHand'
    BY <1>6 DEF PollPacket, Goto
  <1>7. ASSUME PollTimeout PROVE InHand'
    BY <1>7 DEF PollTimeout, Goto
  <1>8. ASSUME Receive PROVE InHand'
    <2>1. chan # <<>>
      BY <1>8 DEF Receive
    <2>2. Head(chan) \in Commands \cup {"^C"}
      BY <2>1, ChanHead
    <2>3. Head(chan) # "none"
      BY <2>2 DEF Commands, Stopping
    <2> QED
      BY <1>8, <2>3 DEF Receive, TakeLock, Goto
  <1>9. ASSUME HandleCore PROVE InHand'
    BY <1>9 DEF HandleCore, Call, CoreFunction, Goto, Stopping
  <1>10. ASSUME NowRunning PROVE InHand'
    BY <1>10 DEF NowRunning, Goto
  <1>11. ASSUME NowHalted PROVE InHand'
    BY <1>11 DEF NowHalted, Goto
  <1>12. ASSUME Update PROVE InHand'
    BY <1>12 DEF Update, Goto
  <1>13. ASSUME Updated PROVE InHand'
    BY <1>13 DEF Updated, Goto, AfterStop
  <1>14. ASSUME Select PROVE InHand'
    BY <1>14 DEF Select, Goto
  <1>15. ASSUME Look PROVE InHand'
    BY <1>15 DEF Look, Goto
  <1>16. ASSUME RcmdUnlock PROVE InHand'
    BY <1>16 DEF RcmdUnlock, DropLock, Goto, Stopping
  <1>17. ASSUME RcmdLock PROVE InHand'
    BY <1>17 DEF RcmdLock, TakeLock, Goto, core
  <1>18. ASSUME RcmdRun PROVE InHand'
    BY <1>18 DEF RcmdRun, Call, Goto
  <1>19. ASSUME RcmdWait PROVE InHand'
    BY <1>19 DEF RcmdWait, Call, Goto
  <1>20. ASSUME RcmdDone PROVE InHand'
    BY <1>20 DEF RcmdDone, DropLock, Goto
  <1>21. ASSUME RcmdRelock PROVE InHand'
    BY <1>21 DEF RcmdRelock, TakeLock, Goto, Say, core
  <1>22. ASSUME Unlock PROVE InHand'
    BY <1>22 DEF Unlock, DropLock, Goto
  <1>23. ASSUME ConLock PROVE InHand'
    BY <1>23 DEF ConLock, TakeLock, core
  <1>24. ASSUME NEW f \in ConsoleFunction \cup {"threads", "clear"}, ConRun(f) PROVE InHand'
    BY <1>24 DEF ConRun, Call, ConsoleFunction
  <1>25. ASSUME NEW v \in StepNoInts, ConMaskInts(v) PROVE InHand'
    BY <1>25 DEF ConMaskInts, MaskInts
  <1>26. ASSUME ConWait PROVE InHand'
    BY <1>26 DEF ConWait, Call
  <1>27. ASSUME ConWalk PROVE InHand'
    BY <1>27 DEF ConWalk
  <1>28. ASSUME ConFree PROVE InHand'
    BY <1>28 DEF ConFree
  <1>29. ASSUME ConClear PROVE InHand'
    BY <1>29 DEF ConClear
  <1>30. ASSUME ConUnlock PROVE InHand'
    BY <1>30 DEF ConUnlock, DropLock
  <1>31. ASSUME ControlStep PROVE InHand'
    BY <1>31 DEF ControlStep, Control, ReadCsr, HaltFirst, WriteMask, Go, WaitForHalt, CsrWrite, Written, Return, core
  <1>32. ASSUME WalkStep PROVE InHand'
    BY <1>32 DEF WalkStep, Walk, ReadInfo, ReadCurrent, ReadNext, core
  <1>33. ASSUME CoreStep PROVE InHand'
    BY <1>33 DEF CoreStep, Core, Execute, HaltEnter, Break, core
  <1>34. ASSUME TypeAttn PROVE InHand'
    BY <1>34 DEF TypeAttn, Interrupt
  <1>35. ASSUME Fault PROVE InHand'
    BY <1>35 DEF Fault, LinkDown, LinkUp
  <1>36. ASSUME UNCHANGED all PROVE InHand'
    BY <1>36 DEF all
  <1> QED
    BY <1>1, <1>2, <1>3, <1>4, <1>5, <1>6, <1>7, <1>8, <1>9, <1>10,
       <1>11, <1>12, <1>13, <1>14, <1>15, <1>16, <1>17, <1>18, <1>19, <1>20,
       <1>21, <1>22, <1>23, <1>24, <1>25, <1>26, <1>27, <1>28, <1>29, <1>30,
       <1>31, <1>32, <1>33, <1>34, <1>35, <1>36
       DEF Next, Bridge, ConsoleThread

LEMMA DialogueStep == InHand /\ Dialogue /\ [Next]_all => Dialogue'
  <1> SUFFICES ASSUME InHand, Dialogue, [Next]_all PROVE Dialogue'
    OBVIOUS
  <1>1. ASSUME NEW cmd \in Commands, GdbSend(cmd) PROVE Dialogue'
    <2>1. /\ ~broken /\ ~running /\ chan = <<>> /\ Hand = "none" /\ answers = <<>>
          /\ gdb = "new" => cmd = "?"
      BY <1>1 DEF GdbSend, Dialogue, Way
    <2>2. chan' = <<cmd>>
      BY <1>1, <2>1, Tuples DEF GdbSend
    <2>3. Way(<<cmd>>, "none", <<>>)'
      BY <1>1, <2>1, <2>2 DEF GdbSend, Way, Hand
    <2>4. CASE cmd \in Stopping
      BY <1>1, <2>1, <2>3, <2>4 DEF GdbSend, Dialogue, AskedOnce, Crossed, Resumed, Interrupted
    <2>5. CASE cmd \notin Stopping
      BY <1>1, <2>1, <2>3, <2>5 DEF GdbSend, Dialogue, AskedOnce, Crossed, Resumed, Interrupted, Asking
    <2> QED
      BY <2>4, <2>5
  <1>2. ASSUME GdbBreak PROVE Dialogue'
    <2> DEFINE Broke == Interrupted'
    <2>0. gdb' = "stop" /\ broken' /\ running' = running /\ answers' = answers /\ Hand' = Hand
          /\ chan' = Append(chan, "^C")
      BY <1>2 DEF GdbBreak, Hand
    <2>1. ASSUME NEW cmd \in Stopping, ~running, Way(<<cmd>>, "none", <<>>) PROVE Broke
      <3>1. Way(<<cmd, "^C">>, "none", <<>>)'
        BY <2>0, <2>1, Tuples DEF Way
      <3> QED
        BY <2>0, <2>1, <3>1 DEF Interrupted
    <2>2. ASSUME NEW cmd \in Stopping, ~running, Way(<<>>, cmd, <<>>) PROVE Broke
      <3>1. Way(<<"^C">>, cmd, <<>>)'
        BY <2>0, <2>2, Tuples DEF Way
      <3> QED
        BY <2>0, <2>2, <3>1 DEF Interrupted
    <2>3. ASSUME running, Way(<<>>, "none", <<>>) PROVE Broke
      <3>1. Way(<<"^C">>, "none", <<>>)'
        BY <2>0, <2>3, Tuples DEF Way
      <3> QED
        BY <2>0, <2>3, <3>1 DEF Interrupted
    <2>4. ASSUME ~running, Way(<<>>, "none", <<"stopped">>) PROVE Broke
      <3>1. Way(<<"^C">>, "none", <<"stopped">>)'
        BY <2>0, <2>4, Tuples DEF Way
      <3> QED
        BY <2>0, <2>4, <3>1 DEF Interrupted
    <2>5. Broke
      BY <1>2, <2>1, <2>2, <2>3, <2>4 DEF GdbBreak, Dialogue, Resumed
    <2> QED
      BY <2>0, <2>5 DEF Dialogue, AskedOnce, Crossed, Resumed
  <1>3. ASSUME GdbReceive PROVE Dialogue'
    <2>0. /\ gdb' = "stopped" /\ running' = running /\ chan' = chan /\ Hand' = Hand
          /\ answers # <<>> /\ answers' = Tail(answers)
          /\ broken' = (broken /\ Head(answers) # "break")
      BY <1>3 DEF GdbReceive, Hand
    <2> DEFINE Nothing == ~running /\ ~broken' /\ Way(<<>>, "none", <<>>)'
               Late    == ~running /\ broken' /\ Crossed'
    <2>1. ASSUME Way(<<>>, "none", <<"ok">>), ~running, ~broken PROVE Nothing
      BY <2>0, <2>1, Tuples DEF Way
    <2>2. ASSUME Way(<<>>, "none", <<"break">>), ~running PROVE Nothing
      BY <2>0, <2>2, Tuples DEF Way
    <2>3. ASSUME Way(<<>>, "none", <<"stopped">>), ~running, ~broken PROVE Nothing
      BY <2>0, <2>3, Tuples DEF Way
    <2>4. ASSUME Way(<<"^C">>, "none", <<"stopped">>), ~running, broken PROVE Late
      <3>1. Way(<<"^C">>, "none", <<>>)' /\ broken'
        BY <2>0, <2>4, Tuples DEF Way
      <3> QED
        BY <2>4, <3>1 DEF Crossed
    <2>5. ASSUME Way(<<>>, "^C", <<"stopped">>), ~running, broken PROVE Late
      <3>1. Way(<<>>, "^C", <<>>)' /\ broken'
        BY <2>0, <2>5, Tuples DEF Way
      <3> QED
        BY <2>5, <3>1 DEF Crossed
    <2>6. ASSUME Way(<<>>, "none", <<"stopped", "break">>), ~running, broken PROVE Late
      <3>1. Way(<<>>, "none", <<"break">>)' /\ broken'
        BY <2>0, <2>6, Tuples DEF Way
      <3> QED
        BY <2>6, <3>1 DEF Crossed
    <2>7. gdb = "reply" => Nothing
      BY <2>0, <2>1 DEF Dialogue, AskedOnce, Way
    <2>8. gdb = "stop" /\ ~broken => Nothing
      BY <2>0, <2>3 DEF Dialogue, Resumed, Way
    <2>9. gdb = "stop" /\ broken => Nothing \/ Late
      BY <2>0, <2>2, <2>4, <2>5, <2>6 DEF Dialogue, Interrupted, Way
    <2>10. gdb = "stopped" \/ gdb = "new" => Nothing
      BY <2>0, <2>2 DEF Dialogue, Crossed, Way
    <2>11. Nothing \/ Late
      BY <2>7, <2>8, <2>9, <2>10 DEF Dialogue
    <2> QED
      BY <2>0, <2>11 DEF Dialogue, AskedOnce, Crossed, Resumed, Interrupted
  <1>4. ASSUME CheckLock PROVE Dialogue'
    <2>1. UNCHANGED <<running, chan, answers, gdb, broken>> /\ Hand' = Hand
      BY <1>4 DEF CheckLock, TakeLock, Goto, core, svars, InHand, Hand, Pending
    <2> QED
      BY <2>1, DialogueKept
  <1>5. ASSUME Check PROVE Dialogue'
    BY <1>5, Tuples, ZenonT(60) DEF Check, Goto, Say, InHand, Dialogue, AskedOnce, Crossed, Resumed, Interrupted, Way, Hand, Pending, Asking, Stopping, Commands, ConsoleFunction
  <1>6. ASSUME PollPacket PROVE Dialogue'
    <2>1. UNCHANGED <<running, chan, answers, gdb, broken>> /\ Hand' = Hand
      BY <1>6 DEF PollPacket, Goto, svars, InHand, Hand, Pending
    <2> QED
      BY <2>1, DialogueKept
  <1>7. ASSUME PollTimeout PROVE Dialogue'
    <2>1. UNCHANGED <<running, chan, answers, gdb, broken>> /\ Hand' = Hand
      BY <1>7 DEF PollTimeout, Goto, svars, InHand, Hand, Pending
    <2> QED
      BY <2>1, DialogueKept
  <1>8. ASSUME Receive PROVE Dialogue'
    <2>0. /\ UNCHANGED <<gdb, running, broken, answers>> /\ Hand = "none"
          /\ chan # <<>> /\ chan' = Tail(chan) /\ Hand' = Head(chan)
      BY <1>8 DEF Receive, TakeLock, Goto, InHand, Hand, Pending
    <2>1. ASSUME NEW cmd, NEW back, Way(<<cmd>>, "none", back) PROVE Way(<<>>, cmd, back)'
      BY <2>0, <2>1, Tuples DEF Way
    <2>2. ASSUME NEW cmd, Way(<<cmd, "^C">>, "none", <<>>) PROVE Way(<<"^C">>, cmd, <<>>)'
      BY <2>0, <2>2, Tuples DEF Way
    <2>3. AskedOnce'
      BY <2>0, <2>1 DEF Dialogue, AskedOnce, Way
    <2>4. Crossed'
      BY <2>0, <2>1 DEF Dialogue, Crossed, Way
    <2>5. Resumed'
      BY <2>0, <2>1 DEF Dialogue, Resumed, Way
    <2>6. Interrupted'
      <3>1. ASSUME gdb = "stop", broken, ~running, NEW cmd \in Stopping, Way(<<cmd, "^C">>, "none", <<>>)
            PROVE  Interrupted'
        BY <2>0, <2>2, <3>1 DEF Interrupted
      <3>2. ASSUME gdb = "stop", broken, running, Way(<<"^C">>, "none", <<>>) PROVE Interrupted'
        <4>1. Way(<<>>, "^C", <<>>)'
          BY <2>1, <3>2
        <4> QED
          BY <2>0, <3>2, <4>1 DEF Interrupted
      <3>3. ASSUME gdb = "stop", broken, ~running, Way(<<"^C">>, "none", <<"stopped">>) PROVE Interrupted'
        <4>1. Way(<<>>, "^C", <<"stopped">>)'
          BY <2>1, <3>3
        <4> QED
          BY <2>0, <3>3, <4>1 DEF Interrupted
      <3>4. ~(gdb = "stop" /\ broken) => Interrupted'
        BY <2>0 DEF Interrupted
      <3> QED
        BY <2>0, <3>1, <3>2, <3>3, <3>4 DEF Dialogue, Interrupted, Way, Stopping
    <2> QED
      BY <2>0, <2>3, <2>4, <2>5, <2>6 DEF Dialogue, Way
  <1>9. ASSUME HandleCore PROVE Dialogue'
    BY <1>9, Tuples, ZenonT(60) DEF HandleCore, CoreFunction, Goto, InHand, Dialogue, AskedOnce, Crossed, Resumed, Interrupted, Way, Hand, Pending, Asking, Stopping, Commands, ConsoleFunction
  <1>10. ASSUME NowRunning PROVE Dialogue'
    BY <1>10, Tuples, ZenonT(60) DEF NowRunning, RunsNow, Goto, InHand, Dialogue, AskedOnce, Crossed, Resumed, Interrupted, Way, Hand, Pending, Asking, Stopping, Commands, ConsoleFunction
  <1>11. ASSUME NowHalted PROVE Dialogue'
    <2>1. UNCHANGED <<running, chan, answers, gdb, broken>> /\ Hand' = Hand
      BY <1>11 DEF NowHalted, Goto, svars, InHand, Hand, Pending, Stopping
    <2> QED
      BY <2>1, DialogueKept
  <1>12. ASSUME Update PROVE Dialogue'
    <2>1. UNCHANGED <<running, chan, answers, gdb, broken>> /\ Hand' = Hand
      BY <1>12 DEF Update, Goto, svars, InHand, Hand, Pending
    <2> QED
      BY <2>1, DialogueKept
  <1>13. ASSUME Updated PROVE Dialogue'
    BY <1>13, Tuples, ZenonT(60) DEF Updated, AfterStop, Say, Goto, InHand, Dialogue, AskedOnce, Crossed, Resumed, Interrupted, Way, Hand, Pending, Asking, Stopping, Commands, ConsoleFunction
  <1>14. ASSUME Select PROVE Dialogue'
    BY <1>14, Tuples, ZenonT(60) DEF Select, Say, Goto, InHand, Dialogue, AskedOnce, Crossed, Resumed, Interrupted, Way, Hand, Pending, Asking, Stopping, Commands, ConsoleFunction
  <1>15. ASSUME Look PROVE Dialogue'
    BY <1>15, Tuples, ZenonT(60) DEF Look, Say, Goto, InHand, Dialogue, AskedOnce, Crossed, Resumed, Interrupted, Way, Hand, Pending, Asking, Stopping, Commands, ConsoleFunction
  <1>16. ASSUME RcmdUnlock PROVE Dialogue'
    <2>1. UNCHANGED <<running, chan, answers, gdb, broken>> /\ Hand' = Hand
      BY <1>16 DEF RcmdUnlock, DropLock, Goto, svars, InHand, Hand, Pending
    <2> QED
      BY <2>1, DialogueKept
  <1>17. ASSUME RcmdLock PROVE Dialogue'
    <2>1. UNCHANGED <<running, chan, answers, gdb, broken>> /\ Hand' = Hand
      BY <1>17 DEF RcmdLock, TakeLock, Goto, core, svars, InHand, Hand, Pending
    <2> QED
      BY <2>1, DialogueKept
  <1>18. ASSUME RcmdRun PROVE Dialogue'
    <2>1. UNCHANGED <<running, chan, answers, gdb, broken>> /\ Hand' = Hand
      BY <1>18 DEF RcmdRun, Call, Goto, svars, InHand, Hand, Pending
    <2> QED
      BY <2>1, DialogueKept
  <1>19. ASSUME RcmdWait PROVE Dialogue'
    <2>1. UNCHANGED <<running, chan, answers, gdb, broken>> /\ Hand' = Hand
      BY <1>19 DEF RcmdWait, Call, Goto, svars, InHand, Hand, Pending
    <2> QED
      BY <2>1, DialogueKept
  <1>20. ASSUME RcmdDone PROVE Dialogue'
    <2>1. UNCHANGED <<running, chan, answers, gdb, broken>> /\ Hand' = Hand
      BY <1>20 DEF RcmdDone, DropLock, Goto, svars, InHand, Hand, Pending
    <2> QED
      BY <2>1, DialogueKept
  <1>21. ASSUME RcmdRelock PROVE Dialogue'
    BY <1>21, Tuples, ZenonT(60) DEF RcmdRelock, TakeLock, Say, Goto, InHand, Dialogue, AskedOnce, Crossed, Resumed, Interrupted, Way, Hand, Pending, Asking, Stopping, Commands, ConsoleFunction
  <1>22. ASSUME Unlock PROVE Dialogue'
    <2>1. UNCHANGED <<running, chan, answers, gdb, broken>> /\ Hand' = Hand
      BY <1>22 DEF Unlock, DropLock, Goto, svars, InHand, Hand, Pending
    <2> QED
      BY <2>1, DialogueKept
  <1>23. ASSUME ConLock PROVE Dialogue'
    <2>1. UNCHANGED <<running, chan, answers, gdb, broken>> /\ Hand' = Hand
      BY <1>23 DEF ConLock, TakeLock, core, svars, InHand, Hand, Pending
    <2> QED
      BY <2>1, DialogueKept
  <1>24. ASSUME NEW f \in ConsoleFunction \cup {"threads", "clear"}, ConRun(f) PROVE Dialogue'
    <2>1. UNCHANGED <<running, chan, answers, gdb, broken>> /\ Hand' = Hand
      BY <1>24 DEF ConRun, Call, ConsoleFunction, svars, InHand, Hand, Pending
    <2> QED
      BY <2>1, DialogueKept
  <1>25. ASSUME NEW v \in StepNoInts, ConMaskInts(v) PROVE Dialogue'
    <2>1. UNCHANGED <<running, chan, answers, gdb, broken>> /\ Hand' = Hand
      BY <1>25 DEF ConMaskInts, MaskInts, svars, InHand, Hand, Pending
    <2> QED
      BY <2>1, DialogueKept
  <1>26. ASSUME ConWait PROVE Dialogue'
    <2>1. UNCHANGED <<running, chan, answers, gdb, broken>> /\ Hand' = Hand
      BY <1>26 DEF ConWait, Call, svars, InHand, Hand, Pending
    <2> QED
      BY <2>1, DialogueKept
  <1>27. ASSUME ConWalk PROVE Dialogue'
    <2>1. UNCHANGED <<running, chan, answers, gdb, broken>> /\ Hand' = Hand
      BY <1>27 DEF ConWalk, svars, InHand, Hand, Pending
    <2> QED
      BY <2>1, DialogueKept
  <1>28. ASSUME ConFree PROVE Dialogue'
    <2>1. UNCHANGED <<running, chan, answers, gdb, broken>> /\ Hand' = Hand
      BY <1>28 DEF ConFree, svars, InHand, Hand, Pending
    <2> QED
      BY <2>1, DialogueKept
  <1>29. ASSUME ConClear PROVE Dialogue'
    <2>1. UNCHANGED <<running, chan, answers, gdb, broken>> /\ Hand' = Hand
      BY <1>29 DEF ConClear, svars, InHand, Hand, Pending
    <2> QED
      BY <2>1, DialogueKept
  <1>30. ASSUME ConUnlock PROVE Dialogue'
    <2>1. UNCHANGED <<running, chan, answers, gdb, broken>> /\ Hand' = Hand
      BY <1>30 DEF ConUnlock, DropLock, svars, InHand, Hand, Pending
    <2> QED
      BY <2>1, DialogueKept
  <1>31. ASSUME ControlStep PROVE Dialogue'
    <2>1. UNCHANGED <<running, chan, answers, gdb, broken>> /\ Hand' = Hand
      BY <1>31 DEF ControlStep, Control, ReadCsr, HaltFirst, WriteMask, Go, WaitForHalt, CsrWrite, Written, Return, core, svars, InHand, Hand, Pending
    <2> QED
      BY <2>1, DialogueKept
  <1>32. ASSUME WalkStep PROVE Dialogue'
    <2>1. UNCHANGED <<running, chan, answers, gdb, broken>> /\ Hand' = Hand
      BY <1>32 DEF WalkStep, Walk, ReadInfo, ReadCurrent, ReadNext, core, svars, InHand, Hand, Pending
    <2> QED
      BY <2>1, DialogueKept
  <1>33. ASSUME CoreStep PROVE Dialogue'
    <2>1. UNCHANGED <<running, chan, answers, gdb, broken>> /\ Hand' = Hand
      BY <1>33 DEF CoreStep, Core, Execute, HaltEnter, Break, core, svars, InHand, Hand, Pending
    <2> QED
      BY <2>1, DialogueKept
  <1>34. ASSUME TypeAttn PROVE Dialogue'
    <2>1. UNCHANGED <<running, chan, answers, gdb, broken>> /\ Hand' = Hand
      BY <1>34 DEF TypeAttn, Interrupt, svars, InHand, Hand, Pending
    <2> QED
      BY <2>1, DialogueKept
  <1>35. ASSUME Fault PROVE Dialogue'
    <2>1. UNCHANGED <<running, chan, answers, gdb, broken>> /\ Hand' = Hand
      BY <1>35 DEF Fault, LinkDown, LinkUp, svars, InHand, Hand, Pending
    <2> QED
      BY <2>1, DialogueKept
  <1>36. ASSUME UNCHANGED all PROVE Dialogue'
    <2>1. UNCHANGED <<running, chan, answers, gdb, broken>> /\ Hand' = Hand
      BY <1>36 DEF all, svars, InHand, Hand, Pending
    <2> QED
      BY <2>1, DialogueKept
  <1> QED
    BY <1>1, <1>2, <1>3, <1>4, <1>5, <1>6, <1>7, <1>8, <1>9, <1>10,
       <1>11, <1>12, <1>13, <1>14, <1>15, <1>16, <1>17, <1>18, <1>19, <1>20,
       <1>21, <1>22, <1>23, <1>24, <1>25, <1>26, <1>27, <1>28, <1>29, <1>30,
       <1>31, <1>32, <1>33, <1>34, <1>35, <1>36
       DEF Next, Bridge, ConsoleThread

LEMMA DialogueInvariance == Spec => [](InHand /\ Dialogue)
  <1>1. SInit => InHand /\ Dialogue
    BY DEF SInit, InHand, Dialogue, AskedOnce, Crossed, Resumed, Interrupted, Way, Hand, Pending
  <1>2. InHand /\ Dialogue /\ [Next]_all => (InHand /\ Dialogue)'
    BY InHandStep, DialogueStep
  <1> QED
    BY <1>1, <1>2, PTL DEF Spec

\* gdb never waits for what nobody will send: its command is on its way, or in
\* the bridge's hand, or the bridge watches the core for it, or the answer is on
\* its way back.
THEOREM NobodyStranded == Spec => []NeverStranded
  <1>1. \A x : (chan = <<x>> => x \in Underway) /\ (\A y : chan = <<x, y>> => x \in Underway)
    BY DEF Underway
  <1>2. gcmd \in Underway
    BY DEF Underway
  <1>3. ASSUME NEW x PROVE <<x>> # <<>> /\ \A y : <<x, y>> # <<>>
    BY Tuples
  <1>4. \A x : Hand = x /\ x # "none" => x \in Underway
    BY <1>2 DEF Hand
  <1>5. ASSUME Dialogue, gdb = "reply" PROVE Underway \ {"none", "^C"} # {} \/ answers # <<>>
    <2>1. PICK cmd \in Asking : \/ Way(<<cmd>>, "none", <<>>)
                                \/ Way(<<>>, cmd, <<>>)
                                \/ Way(<<>>, "none", <<"ok">>)
      BY <1>5 DEF Dialogue, AskedOnce
    <2>2. cmd \notin {"none", "^C"}
      BY DEF Asking, Commands
    <2>3. cmd \in Underway \/ answers # <<>>
      BY <2>1, <2>2, <1>1, <1>3, <1>4 DEF Way
    <2> QED
      BY <2>2, <2>3
  <1>6. ASSUME Dialogue, gdb = "stop"
        PROVE  running \/ Underway \cap (Stopping \cup {"^C"}) # {} \/ answers # <<>>
    <2>1. \A x \in Stopping \cup {"^C"} : x # "none"
      BY DEF Stopping
    <2>2. \/ running \/ answers # <<>>
          \/ \E x \in Stopping \cup {"^C"} : x \in Underway
      <3>1. CASE broken
        BY <1>6, <3>1, <2>1, <1>1, <1>3, <1>4 DEF Dialogue, Interrupted, Way
      <3>2. CASE ~broken
        BY <1>6, <3>2, <2>1, <1>1, <1>3, <1>4 DEF Dialogue, Resumed, Way
      <3> QED
        BY <3>1, <3>2
    <2> QED
      BY <2>2
  <1>7. InHand /\ Dialogue => NeverStranded
    BY <1>5, <1>6 DEF NeverStranded
  <1> QED
    BY <1>7, DialogueInvariance, PTL

\* When gdb waits for nothing nothing is on its way to it, but for the answer to
\* a ^C that crossed with a stop.
THEOREM AnswersInStep == Spec => []InStep
  <1>1. InHand /\ Dialogue => InStep
    <2> SUFFICES ASSUME Dialogue, gdb = "stopped"
                 PROVE  /\ running => broken
                        /\ broken \/ (chan = <<>> /\ answers = <<>>)
                        /\ Len(chan) + Len(answers) <= 1
      BY DEF InStep
    <2>1. /\ Len(<<>>) + Len(<<>>) <= 1
          /\ Len(<<"^C">>) + Len(<<>>) <= 1
          /\ Len(<<>>) + Len(<<"break">>) <= 1
      OBVIOUS
    <2>2. ~running /\ (broken \/ (chan = <<>> /\ answers = <<>>))
      BY DEF Dialogue, Way
    <2>3. \/ chan = <<>> /\ answers = <<>>
          \/ chan = <<"^C">> /\ answers = <<>>
          \/ chan = <<>> /\ answers = <<"break">>
      BY DEF Dialogue, Crossed, Way
    <2>4. Len(chan) + Len(answers) <= 1
      BY <2>1, <2>3, Zenon
    <2> QED
      BY <2>2, <2>4
  <1> QED
    BY <1>1, DialogueInvariance, PTL

-----------------------------------------------------------------------------
(***************************************************************************)
(* The thread records: each is freed once, what gdb has selected is a      *)
(* record the bridge holds, and the list is the target's.                  *)
(***************************************************************************)

-----------------------------------------------------------------------------
(* Walks.                                                                  *)

Nodes == Seq(Threads)
WalkType == [at : {"off", "info", "current", "next", "done"}, rest : Nodes,
             head : Threads \cup {Nobody}, list : Nodes]

WalkTyped ==
    /\ ring \in Nodes /\ current \in Threads
    /\ walk \in WalkType /\ threadlist \in Nodes /\ heap \in Int

\* A walk is under way just when a thread is at it, and the bridge has freed its
\* list by then; no record is there before the current thread's is.
Walking ==
    /\ walk.at # "off" <=> gpc = "walk" \/ con = "walk"
    /\ gpc = "walk" => threadlist = <<>>
    /\ walk.at \in {"off", "info", "current"} => walk.head = Nobody /\ walk.list = <<>>
    /\ walk.at = "next" => walk.head # Nobody

WalkInv == WalkTyped /\ Walking /\ HeapExact

LEMMA RecordsTyped ==
  ASSUME NEW w \in WalkType PROVE Records(w) \in Nodes /\ Len(Records(w)) \in Nat
  BY DEF WalkType, Nodes, Records

LEMMA NothingThere ==
  ASSUME NEW w, w.head = Nobody, w.list = <<>> PROVE Records(w) = <<>>
  BY DEF Records

LEMMA Emptied ==
  /\ NoWalk \in WalkType
  /\ [NoWalk EXCEPT !.at = "info"] \in WalkType /\ [NoWalk EXCEPT !.at = "done"] \in WalkType
  /\ Records(NoWalk) = <<>> /\ Records([NoWalk EXCEPT !.at = "info"]) = <<>>
  /\ Records([NoWalk EXCEPT !.at = "done"]) = <<>>
  /\ [NoWalk EXCEPT !.at = "info"].at = "info" /\ [NoWalk EXCEPT !.at = "done"].at = "done"
  /\ [NoWalk EXCEPT !.at = "info"].head = Nobody /\ [NoWalk EXCEPT !.at = "info"].list = <<>>
  <1>1. <<>> \in Nodes
    BY DEF Nodes
  <1>2. NoWalk \in WalkType
    BY <1>1 DEF NoWalk, WalkType
  <1>3. [NoWalk EXCEPT !.at = "info"] \in WalkType /\ [NoWalk EXCEPT !.at = "done"] \in WalkType
    BY <1>2 DEF WalkType
  <1>4. /\ NoWalk.head = Nobody /\ NoWalk.list = <<>>
        /\ [NoWalk EXCEPT !.at = "info"].at = "info" /\ [NoWalk EXCEPT !.at = "done"].at = "done"
        /\ [NoWalk EXCEPT !.at = "info"].head = Nobody /\ [NoWalk EXCEPT !.at = "info"].list = <<>>
        /\ [NoWalk EXCEPT !.at = "done"].head = Nobody /\ [NoWalk EXCEPT !.at = "done"].list = <<>>
    BY DEF NoWalk
  <1> QED
    BY <1>2, <1>3, <1>4, NothingThere

\* Nothing of a walk or of the lists changes, nor who walks.
LEMMA WalkKept ==
  ASSUME WalkInv, UNCHANGED <<ring, current, walk, threadlist, heap>>,
         gpc' = "walk" <=> gpc = "walk", con' = "walk" <=> con = "walk"
  PROVE  WalkInv'
  BY DEF WalkInv, WalkTyped, Walking, HeapExact, Records

\* Giving up frees what the walk has allocated.
LEMMA GivenUp ==
  ASSUME WalkInv, GiveUp, walk.at # "off",
         UNCHANGED <<ring, current, threadlist, gpc, con>>
  PROVE  WalkInv'
  <1>1. walk' \in WalkType /\ Records(walk') = <<>> /\ walk'.at = "done"
    BY Emptied DEF GiveUp
  <1>2. Len(Records(walk)) \in Nat /\ heap' = heap - Len(Records(walk))
    BY RecordsTyped DEF GiveUp, WalkInv, WalkTyped
  <1>3. Len(<<>>) = 0 /\ Len(threadlist) \in Nat
    BY DEF WalkInv, WalkTyped, Nodes
  <1>4. HeapExact'
    BY <1>1, <1>2, <1>3 DEF WalkInv, WalkTyped, HeapExact
  <1>5. WalkTyped'
    BY <1>1, <1>2 DEF WalkInv, WalkTyped
  <1>6. Walking'
    BY <1>1 DEF WalkInv, Walking
  <1> QED
    BY <1>4, <1>5, <1>6 DEF WalkInv

LEMMA InfoStep ==
  ASSUME WalkInv, ReadInfo, UNCHANGED <<ring, current, threadlist, gpc, con>> PROVE WalkInv'
  <1>1. CASE GiveUp
    BY <1>1, GivenUp DEF ReadInfo
  <1>2. CASE walk' = [walk EXCEPT !.at = "current"] /\ heap' = heap
    <2>1. walk \in WalkType /\ walk.at = "info" /\ walk.head = Nobody /\ walk.list = <<>>
      BY DEF WalkInv, WalkTyped, Walking, ReadInfo
    <2>2. walk' \in WalkType /\ walk'.at = "current" /\ walk'.head = Nobody /\ walk'.list = <<>>
      BY <1>2, <2>1 DEF WalkType
    <2>3. Records(walk') = Records(walk)
      BY <2>1, <2>2, NothingThere
    <2> QED
      BY <1>2, <2>1, <2>2, <2>3 DEF WalkInv, WalkTyped, Walking, HeapExact
  <1> QED
    BY <1>1, <1>2 DEF ReadInfo

LEMMA CurrentStep ==
  ASSUME WalkInv, ReadCurrent, UNCHANGED <<ring, current, threadlist, gpc, con>> PROVE WalkInv'
  <1>1. CASE GiveUp
    BY <1>1, GivenUp DEF ReadCurrent
  <1>2. CASE /\ walk' = [walk EXCEPT !.at = "next", !.head = current, !.rest = ring]
             /\ heap' = heap + 1
    <2>1. /\ walk \in WalkType /\ walk.at = "current" /\ walk.head = Nobody /\ walk.list = <<>>
          /\ current \in Threads /\ ring \in Nodes
      BY DEF WalkInv, WalkTyped, Walking, ReadCurrent
    <2>2. walk' \in WalkType /\ walk'.at = "next" /\ walk'.head = current /\ walk'.list = <<>>
      BY <1>2, <2>1 DEF WalkType
    <2>3. Records(walk) = <<>> /\ Records(walk') = <<current>> \o <<>>
      BY <2>1, <2>2, NothingThere, LkAssumption DEF Records
    <2>4. Len(Records(walk)) = 0 /\ Len(Records(walk')) = 1 /\ Len(threadlist) \in Nat
      <3>1. Len(<<>>) = 0 /\ \A t \in Threads : Len(<<t>> \o <<>>) = 1
        OBVIOUS
      <3>2. Len(threadlist) \in Nat
        BY DEF WalkInv, WalkTyped, Nodes
      <3>3. Len(<<current>> \o <<>>) = 1
        BY <2>1, <3>1
      <3>4. Len(Records(walk)) = 0
        BY <2>3, <3>1
      <3>5. Len(Records(walk')) = 1
        BY <2>3, <3>3
      <3> QED
        BY <3>2, <3>4, <3>5
    <2>5. HeapExact'
      <3>1. heap = Len(threadlist) /\ heap' = heap + 1
        BY <1>2, <2>4 DEF WalkInv, HeapExact
      <3>2. threadlist' = threadlist
        OBVIOUS
      <3>3. heap' = Len(threadlist') + Len(Records(walk'))
        BY <2>4, <3>1, <3>2
      <3> QED
        BY <3>3 DEF HeapExact
    <2>6. WalkTyped' /\ Walking'
      BY <1>2, <2>1, <2>2, LkAssumption DEF WalkInv, WalkTyped, Walking
    <2> QED
      BY <2>5, <2>6 DEF WalkInv
  <1> QED
    BY <1>1, <1>2 DEF ReadCurrent

\* A turn of the loop passes over a node, or adds one record.
LEMMA NextStep ==
  ASSUME WalkInv, ReadNext, UNCHANGED <<ring, current, threadlist, gpc, con>> PROVE WalkInv'
  <1>0. /\ walk \in WalkType /\ walk.at = "next" /\ walk.head # Nobody
        /\ walk.head \in Threads /\ walk.list \in Nodes /\ walk.rest \in Nodes
    BY DEF WalkInv, WalkTyped, Walking, ReadNext, WalkType
  <1>1. CASE GiveUp
    BY <1>0, <1>1, GivenUp
  <1>2. CASE walk' = [walk EXCEPT !.at = "done"] /\ heap' = heap
    <2>1. walk' \in WalkType /\ walk'.at = "done" /\ walk'.head = walk.head /\ walk'.list = walk.list
      BY <1>0, <1>2 DEF WalkType
    <2>2. Records(walk') = Records(walk)
      BY <2>1 DEF Records
    <2> QED
      BY <1>0, <1>2, <2>1, <2>2 DEF WalkInv, WalkTyped, Walking, HeapExact
  <1>3. CASE walk.rest # <<>> /\ walk' = [walk EXCEPT !.rest = Tail(@)] /\ heap' = heap
    <2>1. Tail(walk.rest) \in Nodes
      BY <1>0, <1>3 DEF Nodes
    <2>2. walk' \in WalkType /\ walk'.at = "next" /\ walk'.head = walk.head /\ walk'.list = walk.list
      BY <1>0, <1>3, <2>1 DEF WalkType
    <2>3. Records(walk') = Records(walk)
      BY <2>2 DEF Records
    <2> QED
      BY <1>0, <1>3, <2>2, <2>3 DEF WalkInv, WalkTyped, Walking, HeapExact
  <1>4. CASE /\ walk.rest # <<>>
             /\ walk' = [walk EXCEPT !.rest = Tail(@), !.list = Linked(Head(walk.rest))]
             /\ heap' = heap + 1
    <2>1. Tail(walk.rest) \in Nodes /\ Head(walk.rest) \in Threads
      BY <1>0, <1>4 DEF Nodes
    <2>2. Linked(Head(walk.rest)) \in Nodes /\ Len(Linked(Head(walk.rest))) = Len(walk.list) + 1
      BY <1>0, <2>1 DEF Linked, Nodes
    <2>3. /\ walk' \in WalkType /\ walk'.at = "next" /\ walk'.head = walk.head
          /\ walk'.list = Linked(Head(walk.rest))
      BY <1>0, <1>4, <2>1, <2>2 DEF WalkType
    <2>4. /\ Records(walk) = <<walk.head>> \o walk.list
          /\ Records(walk') = <<walk.head>> \o Linked(Head(walk.rest))
      BY <1>0, <2>3 DEF Records
    <2>5. Len(Records(walk')) = Len(Records(walk)) + 1 /\ Len(Records(walk)) \in Nat
      BY <1>0, <2>2, <2>4 DEF Nodes
    <2>6. Len(threadlist) \in Nat
      BY DEF WalkInv, WalkTyped, Nodes
    <2>7. HeapExact'
      BY <1>4, <2>5, <2>6 DEF WalkInv, WalkTyped, HeapExact
    <2>8. WalkTyped' /\ Walking'
      BY <1>0, <1>4, <2>3 DEF WalkInv, WalkTyped, Walking
    <2> QED
      BY <2>7, <2>8 DEF WalkInv
  <1> QED
    BY <1>1, <1>2, <1>3, <1>4, Zenon DEF ReadNext

LEMMA WalkStepInv ==
  LockInv /\ WalkInv /\ [Next]_all => WalkInv'
  <1> SUFFICES ASSUME LockInv, WalkInv, [Next]_all PROVE WalkInv'
    OBVIOUS
  <1> USE DEF svars, lvars, target
  <1>1. ASSUME NEW cmd \in Commands, GdbSend(cmd) PROVE WalkInv'
    <2>1. UNCHANGED <<ring, current, walk, threadlist, heap>>
      BY <1>1 DEF GdbSend
    <2>2. (gpc' = "walk" <=> gpc = "walk") /\ (con' = "walk" <=> con = "walk")
      BY <1>1 DEF GdbSend
    <2> QED
      BY <2>1, <2>2, WalkKept
  <1>2. ASSUME GdbBreak PROVE WalkInv'
    <2>1. UNCHANGED <<ring, current, walk, threadlist, heap>>
      BY <1>2 DEF GdbBreak
    <2>2. (gpc' = "walk" <=> gpc = "walk") /\ (con' = "walk" <=> con = "walk")
      BY <1>2 DEF GdbBreak
    <2> QED
      BY <2>1, <2>2, WalkKept
  <1>3. ASSUME GdbReceive PROVE WalkInv'
    <2>1. UNCHANGED <<ring, current, walk, threadlist, heap>>
      BY <1>3 DEF GdbReceive
    <2>2. (gpc' = "walk" <=> gpc = "walk") /\ (con' = "walk" <=> con = "walk")
      BY <1>3 DEF GdbReceive
    <2> QED
      BY <2>1, <2>2, WalkKept
  <1>4. ASSUME CheckLock PROVE WalkInv'
    <2>1. UNCHANGED <<ring, current, walk, threadlist, heap>>
      BY <1>4 DEF CheckLock, TakeLock, Goto
    <2>2. (gpc' = "walk" <=> gpc = "walk") /\ (con' = "walk" <=> con = "walk")
      BY <1>4 DEF CheckLock, TakeLock, Goto
    <2> QED
      BY <2>1, <2>2, WalkKept
  <1>5. ASSUME Check PROVE WalkInv'
    <2>1. UNCHANGED <<ring, current, walk, threadlist, heap>>
      BY <1>5 DEF Check, Goto, Say
    <2>2. (gpc' = "walk" <=> gpc = "walk") /\ (con' = "walk" <=> con = "walk")
      BY <1>5 DEF Check, Goto, Say
    <2> QED
      BY <2>1, <2>2, WalkKept
  <1>6. ASSUME PollPacket PROVE WalkInv'
    <2>1. UNCHANGED <<ring, current, walk, threadlist, heap>>
      BY <1>6 DEF PollPacket, Goto
    <2>2. (gpc' = "walk" <=> gpc = "walk") /\ (con' = "walk" <=> con = "walk")
      BY <1>6 DEF PollPacket, Goto
    <2> QED
      BY <2>1, <2>2, WalkKept
  <1>7. ASSUME PollTimeout PROVE WalkInv'
    <2>1. UNCHANGED <<ring, current, walk, threadlist, heap>>
      BY <1>7 DEF PollTimeout, Goto
    <2>2. (gpc' = "walk" <=> gpc = "walk") /\ (con' = "walk" <=> con = "walk")
      BY <1>7 DEF PollTimeout, Goto
    <2> QED
      BY <2>1, <2>2, WalkKept
  <1>8. ASSUME Receive PROVE WalkInv'
    <2>1. UNCHANGED <<ring, current, walk, threadlist, heap>>
      BY <1>8 DEF Receive, TakeLock, Goto
    <2>2. (gpc' = "walk" <=> gpc = "walk") /\ (con' = "walk" <=> con = "walk")
      BY <1>8 DEF Receive, TakeLock, Goto
    <2> QED
      BY <2>1, <2>2, WalkKept
  <1>9. ASSUME HandleCore PROVE WalkInv'
    <2>1. UNCHANGED <<ring, current, walk, threadlist, heap>>
      BY <1>9 DEF HandleCore, Goto
    <2>2. (gpc' = "walk" <=> gpc = "walk") /\ (con' = "walk" <=> con = "walk")
      BY <1>9 DEF HandleCore, Goto
    <2> QED
      BY <2>1, <2>2, WalkKept
  <1>10. ASSUME NowRunning PROVE WalkInv'
    <2>1. UNCHANGED <<ring, current, walk, threadlist, heap>>
      BY <1>10 DEF NowRunning, Goto
    <2>2. (gpc' = "walk" <=> gpc = "walk") /\ (con' = "walk" <=> con = "walk")
      BY <1>10 DEF NowRunning, Goto
    <2> QED
      BY <2>1, <2>2, WalkKept
  <1>11. ASSUME NowHalted PROVE WalkInv'
    <2>1. UNCHANGED <<ring, current, walk, threadlist, heap>>
      BY <1>11 DEF NowHalted, Goto
    <2>2. (gpc' = "walk" <=> gpc = "walk") /\ (con' = "walk" <=> con = "walk")
      BY <1>11 DEF NowHalted, Goto
    <2> QED
      BY <2>1, <2>2, WalkKept
  <1>12. ASSUME Update PROVE WalkInv'
    <2>1. /\ gpc = "update" /\ gpc' = "walk" /\ con' = con /\ threadlist' = <<>>
          /\ walk' = [NoWalk EXCEPT !.at = "info"] /\ heap' = heap - Len(threadlist)
          /\ UNCHANGED <<ring, current>>
      BY <1>12 DEF Update, Goto, Free, StartWalk
    <2>2. con # "walk"
      BY <2>1 DEF LockInv, Holding
    <2>3. Records(walk) = <<>>
      BY <2>1, <2>2, NothingThere DEF WalkInv, Walking
    <2>4. Len(<<>>) = 0 /\ <<>> \in Nodes /\ Len(threadlist) \in Nat
      BY DEF Nodes, WalkInv, WalkTyped
    <2>5. HeapExact'
      BY <2>1, <2>3, <2>4, Emptied DEF HeapExact, WalkInv, WalkTyped
    <2>6. WalkTyped' /\ Walking'
      BY <2>1, <2>4, Emptied DEF WalkInv, WalkTyped, Walking
    <2> QED
      BY <2>5, <2>6 DEF WalkInv
  <1>13. ASSUME Updated PROVE WalkInv'
    <2>1. /\ gpc = "walk" /\ gpc' = "unlock" /\ con' = con /\ threadlist' = Records(walk)
          /\ walk' = NoWalk /\ heap' = heap /\ UNCHANGED <<ring, current>>
      BY <1>13 DEF Updated, Goto
    <2>2. con # "walk" /\ threadlist = <<>>
      BY <2>1 DEF LockInv, Holding, WalkInv, Walking
    <2>3. Records(walk) \in Nodes /\ Len(Records(walk)) \in Nat /\ Len(<<>>) = 0
      BY RecordsTyped DEF WalkInv, WalkTyped
    <2>4. HeapExact'
      BY <2>1, <2>2, <2>3, Emptied DEF HeapExact, WalkInv
    <2>5. WalkTyped' /\ Walking'
      BY <2>1, <2>2, <2>3, Emptied DEF WalkInv, WalkTyped, Walking, NoWalk
    <2> QED
      BY <2>4, <2>5 DEF WalkInv
  <1>14. ASSUME Select PROVE WalkInv'
    <2>1. UNCHANGED <<ring, current, walk, threadlist, heap>>
      BY <1>14 DEF Select, Goto
    <2>2. (gpc' = "walk" <=> gpc = "walk") /\ (con' = "walk" <=> con = "walk")
      BY <1>14 DEF Select, Goto
    <2> QED
      BY <2>1, <2>2, WalkKept
  <1>15. ASSUME Look PROVE WalkInv'
    <2>1. UNCHANGED <<ring, current, walk, threadlist, heap>>
      BY <1>15 DEF Look, Goto
    <2>2. (gpc' = "walk" <=> gpc = "walk") /\ (con' = "walk" <=> con = "walk")
      BY <1>15 DEF Look, Goto
    <2> QED
      BY <2>1, <2>2, WalkKept
  <1>16. ASSUME RcmdUnlock PROVE WalkInv'
    <2>1. UNCHANGED <<ring, current, walk, threadlist, heap>>
      BY <1>16 DEF RcmdUnlock, DropLock, Goto
    <2>2. (gpc' = "walk" <=> gpc = "walk") /\ (con' = "walk" <=> con = "walk")
      BY <1>16 DEF RcmdUnlock, DropLock, Goto
    <2> QED
      BY <2>1, <2>2, WalkKept
  <1>17. ASSUME RcmdLock PROVE WalkInv'
    <2>1. UNCHANGED <<ring, current, walk, threadlist, heap>>
      BY <1>17 DEF RcmdLock, TakeLock, Goto
    <2>2. (gpc' = "walk" <=> gpc = "walk") /\ (con' = "walk" <=> con = "walk")
      BY <1>17 DEF RcmdLock, TakeLock, Goto
    <2> QED
      BY <2>1, <2>2, WalkKept
  <1>18. ASSUME RcmdRun PROVE WalkInv'
    <2>1. UNCHANGED <<ring, current, walk, threadlist, heap>>
      BY <1>18 DEF RcmdRun, Goto
    <2>2. (gpc' = "walk" <=> gpc = "walk") /\ (con' = "walk" <=> con = "walk")
      BY <1>18 DEF RcmdRun, Goto
    <2> QED
      BY <2>1, <2>2, WalkKept
  <1>19. ASSUME RcmdWait PROVE WalkInv'
    <2>1. UNCHANGED <<ring, current, walk, threadlist, heap>>
      BY <1>19 DEF RcmdWait
    <2>2. (gpc' = "walk" <=> gpc = "walk") /\ (con' = "walk" <=> con = "walk")
      BY <1>19 DEF RcmdWait
    <2> QED
      BY <2>1, <2>2, WalkKept
  <1>20. ASSUME RcmdDone PROVE WalkInv'
    <2>1. UNCHANGED <<ring, current, walk, threadlist, heap>>
      BY <1>20 DEF RcmdDone, DropLock, Goto
    <2>2. (gpc' = "walk" <=> gpc = "walk") /\ (con' = "walk" <=> con = "walk")
      BY <1>20 DEF RcmdDone, DropLock, Goto
    <2> QED
      BY <2>1, <2>2, WalkKept
  <1>21. ASSUME RcmdRelock PROVE WalkInv'
    <2>1. UNCHANGED <<ring, current, walk, threadlist, heap>>
      BY <1>21 DEF RcmdRelock, TakeLock, Goto, Say
    <2>2. (gpc' = "walk" <=> gpc = "walk") /\ (con' = "walk" <=> con = "walk")
      BY <1>21 DEF RcmdRelock, TakeLock, Goto, Say
    <2> QED
      BY <2>1, <2>2, WalkKept
  <1>22. ASSUME Unlock PROVE WalkInv'
    <2>1. UNCHANGED <<ring, current, walk, threadlist, heap>>
      BY <1>22 DEF Unlock, DropLock, Goto
    <2>2. (gpc' = "walk" <=> gpc = "walk") /\ (con' = "walk" <=> con = "walk")
      BY <1>22 DEF Unlock, DropLock, Goto
    <2> QED
      BY <2>1, <2>2, WalkKept
  <1>23. ASSUME ConLock PROVE WalkInv'
    <2>1. UNCHANGED <<ring, current, walk, threadlist, heap>>
      BY <1>23 DEF ConLock, TakeLock
    <2>2. (gpc' = "walk" <=> gpc = "walk") /\ (con' = "walk" <=> con = "walk")
      BY <1>23 DEF ConLock, TakeLock
    <2> QED
      BY <2>1, <2>2, WalkKept
  <1>24. ASSUME NEW f \in ConsoleFunction \cup {"threads", "clear"}, ConRun(f) PROVE WalkInv'
    <2>1. UNCHANGED <<ring, current, walk, threadlist, heap>>
      BY <1>24 DEF ConRun, ConsoleFunction
    <2>2. (gpc' = "walk" <=> gpc = "walk") /\ (con' = "walk" <=> con = "walk")
      BY <1>24 DEF ConRun, ConsoleFunction
    <2> QED
      BY <2>1, <2>2, WalkKept
  <1>25. ASSUME NEW v \in StepNoInts, ConMaskInts(v) PROVE WalkInv'
    <2>1. UNCHANGED <<ring, current, walk, threadlist, heap>>
      BY <1>25 DEF ConMaskInts
    <2>2. (gpc' = "walk" <=> gpc = "walk") /\ (con' = "walk" <=> con = "walk")
      BY <1>25 DEF ConMaskInts
    <2> QED
      BY <2>1, <2>2, WalkKept
  <1>26. ASSUME ConWait PROVE WalkInv'
    <2>1. UNCHANGED <<ring, current, walk, threadlist, heap>>
      BY <1>26 DEF ConWait
    <2>2. (gpc' = "walk" <=> gpc = "walk") /\ (con' = "walk" <=> con = "walk")
      BY <1>26 DEF ConWait
    <2> QED
      BY <2>1, <2>2, WalkKept
  <1>27. ASSUME ConWalk PROVE WalkInv'
    <2>1. /\ con = "threads" /\ con' = "walk" /\ gpc' = gpc /\ threadlist' = threadlist
          /\ walk' = [NoWalk EXCEPT !.at = "info"] /\ heap' = heap /\ UNCHANGED <<ring, current>>
      BY <1>27 DEF ConWalk, StartWalk
    <2>2. gpc # "walk"
      BY <2>1 DEF LockInv, Holding
    <2>3. Records(walk) = <<>>
      BY <2>1, <2>2, NothingThere DEF WalkInv, Walking
    <2> QED
      BY <2>1, <2>2, <2>3, Emptied DEF WalkInv, WalkTyped, Walking, HeapExact
  <1>28. ASSUME ConFree PROVE WalkInv'
    <2>1. /\ con = "walk" /\ con' = "done" /\ gpc' = gpc /\ threadlist' = threadlist
          /\ walk' = NoWalk /\ heap' = heap - Len(Records(walk)) /\ UNCHANGED <<ring, current>>
      BY <1>28 DEF ConFree, Free
    <2>2. gpc # "walk"
      BY <2>1 DEF LockInv, Holding
    <2>3. Len(Records(walk)) \in Nat /\ Len(<<>>) = 0 /\ Len(threadlist) \in Nat
      BY RecordsTyped DEF WalkInv, WalkTyped, Nodes
    <2>4. HeapExact'
      BY <2>1, <2>3, Emptied DEF HeapExact, WalkInv, WalkTyped
    <2>5. WalkTyped' /\ Walking'
      BY <2>1, <2>2, <2>3, Emptied DEF WalkInv, WalkTyped, Walking, NoWalk
    <2> QED
      BY <2>4, <2>5 DEF WalkInv
  <1>29. ASSUME ConClear PROVE WalkInv'
    <2>1. UNCHANGED <<ring, current, walk, threadlist, heap>>
      BY <1>29 DEF ConClear, Wipe
    <2>2. (gpc' = "walk" <=> gpc = "walk") /\ (con' = "walk" <=> con = "walk")
      BY <1>29 DEF ConClear, Wipe
    <2> QED
      BY <2>1, <2>2, WalkKept
  <1>30. ASSUME ConUnlock PROVE WalkInv'
    <2>1. UNCHANGED <<ring, current, walk, threadlist, heap>>
      BY <1>30 DEF ConUnlock, DropLock
    <2>2. (gpc' = "walk" <=> gpc = "walk") /\ (con' = "walk" <=> con = "walk")
      BY <1>30 DEF ConUnlock, DropLock
    <2> QED
      BY <2>1, <2>2, WalkKept
  <1>31. ASSUME ControlStep PROVE WalkInv'
    <2>1. UNCHANGED <<ring, current, walk, threadlist, heap>>
      BY <1>31 DEF ControlStep
    <2>2. (gpc' = "walk" <=> gpc = "walk") /\ (con' = "walk" <=> con = "walk")
      BY <1>31 DEF ControlStep
    <2> QED
      BY <2>1, <2>2, WalkKept
  <1>32. ASSUME WalkStep PROVE WalkInv'
    <2>1. UNCHANGED <<ring, current, threadlist, gpc, con>> /\ (ReadInfo \/ ReadCurrent \/ ReadNext)
      BY <1>32 DEF WalkStep, Walk
    <2> QED
      BY <2>1, InfoStep, CurrentStep, NextStep
  <1>33. ASSUME CoreStep PROVE WalkInv'
    <2>1. UNCHANGED <<ring, current, walk, threadlist, heap>>
      BY <1>33 DEF CoreStep
    <2>2. (gpc' = "walk" <=> gpc = "walk") /\ (con' = "walk" <=> con = "walk")
      BY <1>33 DEF CoreStep
    <2> QED
      BY <2>1, <2>2, WalkKept
  <1>34. ASSUME TypeAttn PROVE WalkInv'
    <2>1. UNCHANGED <<ring, current, walk, threadlist, heap>>
      BY <1>34 DEF TypeAttn
    <2>2. (gpc' = "walk" <=> gpc = "walk") /\ (con' = "walk" <=> con = "walk")
      BY <1>34 DEF TypeAttn
    <2> QED
      BY <2>1, <2>2, WalkKept
  <1>35. ASSUME Fault PROVE WalkInv'
    <2>1. UNCHANGED <<ring, current, walk, threadlist, heap>>
      BY <1>35 DEF Fault
    <2>2. (gpc' = "walk" <=> gpc = "walk") /\ (con' = "walk" <=> con = "walk")
      BY <1>35 DEF Fault
    <2> QED
      BY <2>1, <2>2, WalkKept
  <1>36. ASSUME UNCHANGED all PROVE WalkInv'
    <2>1. UNCHANGED <<ring, current, walk, threadlist, heap>>
      BY <1>36 DEF all
    <2>2. (gpc' = "walk" <=> gpc = "walk") /\ (con' = "walk" <=> con = "walk")
      BY <1>36 DEF all
    <2> QED
      BY <2>1, <2>2, WalkKept
  <1> QED
    BY <1>1, <1>2, <1>3, <1>4, <1>5, <1>6, <1>7, <1>8, <1>9, <1>10,
       <1>11, <1>12, <1>13, <1>14, <1>15, <1>16, <1>17, <1>18, <1>19, <1>20,
       <1>21, <1>22, <1>23, <1>24, <1>25, <1>26, <1>27, <1>28, <1>29, <1>30,
       <1>31, <1>32, <1>33, <1>34, <1>35, <1>36
       DEF Next, Bridge, ConsoleThread

-----------------------------------------------------------------------------
(* Selections.                                                             *)

Chosen ==
    \A w \in {"g", "c"} :
        selected[w] = Null \/ \E i \in DOMAIN threadlist : threadlist[i] = selected[w]

\* Until its first "?" has been answered gdb has sent nothing else, and nothing
\* has been sent to it.
Quiet == {"top", "check", "unlock", "poll"}
Young ==
    /\ answers = <<>> /\ ~running
    /\ \/ gdb = "new" /\ chan = <<>> /\ gcmd = "none" /\ gpc \in Quiet
       \/ gdb = "reply" /\ chan = <<"?">> /\ gcmd = "none" /\ gpc \in Quiet \cup {"packet"}
       \/ gdb = "reply" /\ chan = <<>> /\ gcmd = "?" /\ gpc \in {"handle", "core", "update", "walk"}

SelectInv == DOMAIN selected = {"g", "c"} /\ (Chosen \/ gpc = "walk" \/ Young)

LEMMA FirstThere ==
  ASSUME NEW l \in Nodes PROVE First(l) = Null \/ \E i \in DOMAIN l : l[i] = First(l)
  <1>1. l # <<>> => 1 \in DOMAIN l
    BY DEF Nodes
  <1> QED
    BY <1>1 DEF First

LEMMA SelectKept ==
  ASSUME SelectInv, UNCHANGED <<selected, threadlist>>, gpc = "walk" => gpc' = "walk", Young => Young'
  PROVE  SelectInv'
  BY DEF SelectInv, Chosen

LEMMA SelectStep ==
  LockInv /\ WalkInv /\ SelectInv /\ [Next]_all => SelectInv'
  <1> SUFFICES ASSUME LockInv, WalkInv, SelectInv, [Next]_all PROVE SelectInv'
    OBVIOUS
  <1> USE DEF svars
  <1>1. ASSUME NEW cmd \in Commands, GdbSend(cmd) PROVE SelectInv'
    <2>1. UNCHANGED <<selected, threadlist>> /\ (gpc = "walk" => gpc' = "walk")
      BY <1>1 DEF GdbSend
    <2>2. Young => Young'
      <3>1. Append(<<>>, "?") = <<"?">>
        OBVIOUS
      <3>2. ASSUME Young
            PROVE  /\ cmd = "?" /\ chan = <<>> /\ gcmd = "none" /\ gpc \in Quiet
                   /\ answers = <<>> /\ ~running
        BY <1>1, <3>2 DEF GdbSend, Young
      <3> QED
        BY <1>1, <3>1, <3>2 DEF GdbSend, Stopping, Young
    <2> QED
      BY <2>1, <2>2, SelectKept
  <1>2. ASSUME GdbBreak PROVE SelectInv'
    <2>1. UNCHANGED <<selected, threadlist>> /\ (gpc = "walk" => gpc' = "walk")
      BY <1>2 DEF GdbBreak
    <2>2. Young => Young'
      BY <1>2 DEF GdbBreak, Young, Quiet
    <2> QED
      BY <2>1, <2>2, SelectKept
  <1>3. ASSUME GdbReceive PROVE SelectInv'
    <2>1. UNCHANGED <<selected, threadlist>> /\ (gpc = "walk" => gpc' = "walk")
      BY <1>3 DEF GdbReceive
    <2>2. Young => Young'
      BY <1>3 DEF GdbReceive, Young, Quiet
    <2> QED
      BY <2>1, <2>2, SelectKept
  <1>4. ASSUME CheckLock PROVE SelectInv'
    <2>1. UNCHANGED <<selected, threadlist>> /\ (gpc = "walk" => gpc' = "walk")
      BY <1>4 DEF CheckLock, Goto
    <2>2. Young => Young'
      BY <1>4 DEF CheckLock, Goto, Young, Quiet
    <2> QED
      BY <2>1, <2>2, SelectKept
  <1>5. ASSUME Check PROVE SelectInv'
    <2>1. UNCHANGED <<selected, threadlist>> /\ (gpc = "walk" => gpc' = "walk")
      BY <1>5 DEF Check, Goto, Say
    <2>2. Young => Young'
      BY <1>5 DEF Check, Goto, Say, Young, Quiet
    <2> QED
      BY <2>1, <2>2, SelectKept
  <1>6. ASSUME PollPacket PROVE SelectInv'
    <2>1. UNCHANGED <<selected, threadlist>> /\ (gpc = "walk" => gpc' = "walk")
      BY <1>6 DEF PollPacket, Goto
    <2>2. Young => Young'
      BY <1>6 DEF PollPacket, Goto, Young, Quiet
    <2> QED
      BY <2>1, <2>2, SelectKept
  <1>7. ASSUME PollTimeout PROVE SelectInv'
    <2>1. UNCHANGED <<selected, threadlist>> /\ (gpc = "walk" => gpc' = "walk")
      BY <1>7 DEF PollTimeout, Goto
    <2>2. Young => Young'
      BY <1>7 DEF PollTimeout, Goto, Young, Quiet
    <2> QED
      BY <2>1, <2>2, SelectKept
  <1>8. ASSUME Receive PROVE SelectInv'
    <2>1. UNCHANGED <<selected, threadlist>> /\ (gpc = "walk" => gpc' = "walk")
      BY <1>8 DEF Receive, Goto
    <2>2. Young => Young'
      BY <1>8 DEF Receive, Goto, Young, Quiet
    <2> QED
      BY <2>1, <2>2, SelectKept
  <1>9. ASSUME HandleCore PROVE SelectInv'
    <2>1. UNCHANGED <<selected, threadlist>> /\ (gpc = "walk" => gpc' = "walk")
      BY <1>9 DEF HandleCore, Goto
    <2>2. Young => Young'
      BY <1>9 DEF HandleCore, Goto, CoreFunction, Young, Quiet
    <2> QED
      BY <2>1, <2>2, SelectKept
  <1>10. ASSUME NowRunning PROVE SelectInv'
    <2>1. UNCHANGED <<selected, threadlist>> /\ (gpc = "walk" => gpc' = "walk")
      BY <1>10 DEF NowRunning, Goto
    <2>2. Young => Young'
      BY <1>10 DEF NowRunning, Goto, Stopping, Young, Quiet
    <2> QED
      BY <2>1, <2>2, SelectKept
  <1>11. ASSUME NowHalted PROVE SelectInv'
    <2>1. UNCHANGED <<selected, threadlist>> /\ (gpc = "walk" => gpc' = "walk")
      BY <1>11 DEF NowHalted, Goto
    <2>2. Young => Young'
      BY <1>11 DEF NowHalted, Goto, Young, Quiet
    <2> QED
      BY <2>1, <2>2, SelectKept
  <1>12. ASSUME Update PROVE SelectInv'
    BY <1>12 DEF Update, Goto, SelectInv
  <1>13. ASSUME Updated PROVE SelectInv'
    <2>1. selected' = [g |-> First(Records(walk)), c |-> First(Records(walk))]
          /\ threadlist' = Records(walk)
      BY <1>13 DEF Updated, Selection
    <2>2. Records(walk) \in Nodes
      BY RecordsTyped DEF WalkInv, WalkTyped
    <2> QED
      BY <2>1, <2>2, FirstThere DEF SelectInv, Chosen
  <1>14. ASSUME Select PROVE SelectInv'
    <2>1. PICK t \in Threads, w \in {"g", "c"} :
            selected' = [selected EXCEPT ![w] =
              IF \E i \in DOMAIN threadlist : threadlist[i] = t THEN t ELSE First(threadlist)]
      BY <1>14 DEF Select
    <2>2. gpc = "handle" /\ gcmd = "H" /\ threadlist' = threadlist /\ threadlist \in Nodes
      BY <1>14 DEF Select, WalkInv, WalkTyped
    <2>3. Chosen
      BY <2>2 DEF SelectInv, Young, Quiet
    <2>4. Chosen' /\ DOMAIN selected' = {"g", "c"}
      BY <2>1, <2>2, <2>3, FirstThere DEF SelectInv, Chosen
    <2> QED
      BY <2>4 DEF SelectInv
  <1>15. ASSUME Look PROVE SelectInv'
    <2>1. UNCHANGED <<selected, threadlist>> /\ (gpc = "walk" => gpc' = "walk")
      BY <1>15 DEF Look, Goto
    <2>2. Young => Young'
      BY <1>15 DEF Look, Goto, Young, Quiet
    <2> QED
      BY <2>1, <2>2, SelectKept
  <1>16. ASSUME RcmdUnlock PROVE SelectInv'
    <2>1. UNCHANGED <<selected, threadlist>> /\ (gpc = "walk" => gpc' = "walk")
      BY <1>16 DEF RcmdUnlock, Goto
    <2>2. Young => Young'
      BY <1>16 DEF RcmdUnlock, Goto, ConsoleFunction, Young, Quiet
    <2> QED
      BY <2>1, <2>2, SelectKept
  <1>17. ASSUME RcmdLock PROVE SelectInv'
    <2>1. UNCHANGED <<selected, threadlist>> /\ (gpc = "walk" => gpc' = "walk")
      BY <1>17 DEF RcmdLock, Goto
    <2>2. Young => Young'
      BY <1>17 DEF RcmdLock, Goto, Young, Quiet
    <2> QED
      BY <2>1, <2>2, SelectKept
  <1>18. ASSUME RcmdRun PROVE SelectInv'
    <2>1. UNCHANGED <<selected, threadlist>> /\ (gpc = "walk" => gpc' = "walk")
      BY <1>18 DEF RcmdRun, Goto
    <2>2. Young => Young'
      BY <1>18 DEF RcmdRun, Goto, Young, Quiet
    <2> QED
      BY <2>1, <2>2, SelectKept
  <1>19. ASSUME RcmdWait PROVE SelectInv'
    <2>1. UNCHANGED <<selected, threadlist>> /\ (gpc = "walk" => gpc' = "walk")
      BY <1>19 DEF RcmdWait, Goto
    <2>2. Young => Young'
      BY <1>19 DEF RcmdWait, Goto, Young, Quiet
    <2> QED
      BY <2>1, <2>2, SelectKept
  <1>20. ASSUME RcmdDone PROVE SelectInv'
    <2>1. UNCHANGED <<selected, threadlist>> /\ (gpc = "walk" => gpc' = "walk")
      BY <1>20 DEF RcmdDone, Goto
    <2>2. Young => Young'
      BY <1>20 DEF RcmdDone, Goto, Young, Quiet
    <2> QED
      BY <2>1, <2>2, SelectKept
  <1>21. ASSUME RcmdRelock PROVE SelectInv'
    <2>1. UNCHANGED <<selected, threadlist>> /\ (gpc = "walk" => gpc' = "walk")
      BY <1>21 DEF RcmdRelock, Goto, Say
    <2>2. Young => Young'
      BY <1>21 DEF RcmdRelock, Goto, Say, Young, Quiet
    <2> QED
      BY <2>1, <2>2, SelectKept
  <1>22. ASSUME Unlock PROVE SelectInv'
    <2>1. UNCHANGED <<selected, threadlist>> /\ (gpc = "walk" => gpc' = "walk")
      BY <1>22 DEF Unlock, Goto
    <2>2. Young => Young'
      BY <1>22 DEF Unlock, Goto, Young, Quiet
    <2> QED
      BY <2>1, <2>2, SelectKept
  <1>23. ASSUME ConLock PROVE SelectInv'
    <2>1. UNCHANGED <<selected, threadlist>> /\ (gpc = "walk" => gpc' = "walk")
      BY <1>23 DEF ConLock
    <2>2. Young => Young'
      BY <1>23 DEF ConLock, Young, Quiet
    <2> QED
      BY <2>1, <2>2, SelectKept
  <1>24. ASSUME NEW f \in ConsoleFunction \cup {"threads", "clear"}, ConRun(f) PROVE SelectInv'
    <2>1. UNCHANGED <<selected, threadlist>> /\ (gpc = "walk" => gpc' = "walk")
      BY <1>24 DEF ConRun
    <2>2. Young => Young'
      BY <1>24 DEF ConRun, Young, Quiet
    <2> QED
      BY <2>1, <2>2, SelectKept
  <1>25. ASSUME NEW v \in StepNoInts, ConMaskInts(v) PROVE SelectInv'
    <2>1. UNCHANGED <<selected, threadlist>> /\ (gpc = "walk" => gpc' = "walk")
      BY <1>25 DEF ConMaskInts
    <2>2. Young => Young'
      BY <1>25 DEF ConMaskInts, Young, Quiet
    <2> QED
      BY <2>1, <2>2, SelectKept
  <1>26. ASSUME ConWait PROVE SelectInv'
    <2>1. UNCHANGED <<selected, threadlist>> /\ (gpc = "walk" => gpc' = "walk")
      BY <1>26 DEF ConWait
    <2>2. Young => Young'
      BY <1>26 DEF ConWait, Young, Quiet
    <2> QED
      BY <2>1, <2>2, SelectKept
  <1>27. ASSUME ConWalk PROVE SelectInv'
    <2>1. UNCHANGED <<selected, threadlist>> /\ (gpc = "walk" => gpc' = "walk")
      BY <1>27 DEF ConWalk
    <2>2. Young => Young'
      BY <1>27 DEF ConWalk, Young, Quiet
    <2> QED
      BY <2>1, <2>2, SelectKept
  <1>28. ASSUME ConFree PROVE SelectInv'
    <2>1. UNCHANGED <<selected, threadlist>> /\ (gpc = "walk" => gpc' = "walk")
      BY <1>28 DEF ConFree
    <2>2. Young => Young'
      BY <1>28 DEF ConFree, Young, Quiet
    <2> QED
      BY <2>1, <2>2, SelectKept
  <1>29. ASSUME ConClear PROVE SelectInv'
    <2>1. UNCHANGED <<selected, threadlist>> /\ (gpc = "walk" => gpc' = "walk")
      BY <1>29 DEF ConClear
    <2>2. Young => Young'
      BY <1>29 DEF ConClear, Young, Quiet
    <2> QED
      BY <2>1, <2>2, SelectKept
  <1>30. ASSUME ConUnlock PROVE SelectInv'
    <2>1. UNCHANGED <<selected, threadlist>> /\ (gpc = "walk" => gpc' = "walk")
      BY <1>30 DEF ConUnlock
    <2>2. Young => Young'
      BY <1>30 DEF ConUnlock, Young, Quiet
    <2> QED
      BY <2>1, <2>2, SelectKept
  <1>31. ASSUME ControlStep PROVE SelectInv'
    <2>1. UNCHANGED <<selected, threadlist>> /\ (gpc = "walk" => gpc' = "walk")
      BY <1>31 DEF ControlStep
    <2>2. Young => Young'
      BY <1>31 DEF ControlStep, Young, Quiet
    <2> QED
      BY <2>1, <2>2, SelectKept
  <1>32. ASSUME WalkStep PROVE SelectInv'
    <2>1. UNCHANGED <<selected, threadlist>> /\ (gpc = "walk" => gpc' = "walk")
      BY <1>32 DEF WalkStep
    <2>2. Young => Young'
      BY <1>32 DEF WalkStep, Young, Quiet
    <2> QED
      BY <2>1, <2>2, SelectKept
  <1>33. ASSUME CoreStep PROVE SelectInv'
    <2>1. UNCHANGED <<selected, threadlist>> /\ (gpc = "walk" => gpc' = "walk")
      BY <1>33 DEF CoreStep
    <2>2. Young => Young'
      BY <1>33 DEF CoreStep, Young, Quiet
    <2> QED
      BY <2>1, <2>2, SelectKept
  <1>34. ASSUME TypeAttn PROVE SelectInv'
    <2>1. UNCHANGED <<selected, threadlist>> /\ (gpc = "walk" => gpc' = "walk")
      BY <1>34 DEF TypeAttn
    <2>2. Young => Young'
      BY <1>34 DEF TypeAttn, Young, Quiet
    <2> QED
      BY <2>1, <2>2, SelectKept
  <1>35. ASSUME Fault PROVE SelectInv'
    <2>1. UNCHANGED <<selected, threadlist>> /\ (gpc = "walk" => gpc' = "walk")
      BY <1>35 DEF Fault
    <2>2. Young => Young'
      BY <1>35 DEF Fault, Young, Quiet
    <2> QED
      BY <2>1, <2>2, SelectKept
  <1>36. ASSUME UNCHANGED all PROVE SelectInv'
    <2>1. UNCHANGED <<selected, threadlist>> /\ (gpc = "walk" => gpc' = "walk")
      BY <1>36 DEF all
    <2>2. Young => Young'
      BY <1>36 DEF all, Young, Quiet
    <2> QED
      BY <2>1, <2>2, SelectKept
  <1> QED
    BY <1>1, <1>2, <1>3, <1>4, <1>5, <1>6, <1>7, <1>8, <1>9, <1>10,
       <1>11, <1>12, <1>13, <1>14, <1>15, <1>16, <1>17, <1>18, <1>19, <1>20,
       <1>21, <1>22, <1>23, <1>24, <1>25, <1>26, <1>27, <1>28, <1>29, <1>30,
       <1>31, <1>32, <1>33, <1>34, <1>35, <1>36
       DEF Next, Bridge, ConsoleThread

RecordsInv == SessionInv /\ WalkInv /\ SelectInv

LEMMA RecordsInvariance == Spec => []RecordsInv
  <1>1. SInit => SessionInv
    BY OpInit, LockInit, CoreInit DEF SInit, SessionInv
  <1>2. SInit => WalkInv
    <2> SUFFICES ASSUME SInit PROVE WalkInv
      OBVIOUS
    <2>1. walk = NoWalk /\ heap = 0 /\ threadlist = <<>> /\ ring \in Nodes /\ current \in Threads
          /\ gpc = "top" /\ con = "idle"
      BY LkAssumption DEF SInit, LkInit, Nodes
    <2>2. Len(<<>>) = 0 /\ <<>> \in Nodes
      BY DEF Nodes
    <2> QED
      BY <2>1, <2>2, Emptied DEF WalkInv, WalkTyped, Walking, HeapExact, NoWalk
  <1>3. SInit => SelectInv
    BY DEF SInit, SelectInv, Young, Quiet
  <1>4. RecordsInv /\ [Next]_all => RecordsInv'
    BY SessionStep, WalkStepInv, SelectStep DEF RecordsInv, SessionInv
  <1> QED
    BY <1>1, <1>2, <1>3, <1>4, PTL DEF Spec, RecordsInv

\* Each record is freed once, whichever access of a walk fails, and a command
\* that looks at the selected thread finds a record the bridge holds.
THEOREM RecordsAreSafe == Spec => []RecordsSafe
  <1>1. RecordsInv => RecordsSafe
    BY DEF RecordsInv, WalkInv, SelectInv, Chosen, Young, Quiet, RecordsSafe, NoDangling
  <1> QED
    BY <1>1, RecordsInvariance, PTL

-----------------------------------------------------------------------------
(* The variables keep their types.                                         *)

CoreTyped == noints \in 0 .. 2 /\ ran \in 0 .. 2 /\ irq \in BOOLEAN

LEMMA CoreTypedStep == CoreTyped /\ CoreMove => CoreTyped'
  <1> SUFFICES ASSUME CoreTyped, CoreMove PROVE CoreTyped'
    OBVIOUS
  <1> USE CoreAssumption DEF CoreTyped
  <1>1. ASSUME ReadCsr PROVE CoreTyped'
    BY <1>1 DEF ReadCsr
  <1>2. ASSUME HaltFirst PROVE CoreTyped'
    BY <1>2 DEF HaltFirst, CsrWrite, Written, core
  <1>3. ASSUME WriteMask PROVE CoreTyped'
    BY <1>3 DEF WriteMask, CsrWrite, Written, Masked, core
  <1>4. ASSUME Go PROVE CoreTyped'
    BY <1>4 DEF Go, CsrWrite, Written, Final, core
  <1>5. ASSUME WaitForHalt PROVE CoreTyped'
    BY <1>5 DEF WaitForHalt
  <1>6. ASSUME Execute PROVE CoreTyped'
    <2>1. ran' \in 0 .. 2
      <3>1. ran' = More(ran) \/ ran' = ran
        BY <1>6, Zenon DEF Execute
      <3> QED
        BY <3>1 DEF More
    <2>2. irq' \in BOOLEAN
      <3>1. irq' = irq \/ irq' = TRUE
        BY <1>6, Zenon DEF Execute
      <3> QED
        BY <3>1
    <2> QED
      BY <1>6, <2>1, <2>2 DEF Execute
  <1>7. ASSUME HaltEnter PROVE CoreTyped'
    BY <1>7 DEF HaltEnter
  <1>8. ASSUME Break PROVE CoreTyped'
    BY <1>8 DEF Break
  <1>9. ASSUME NEW f \in Functions, Call(f) PROVE CoreTyped'
    <2>1. ran' = 0 /\ noints' = noints
      BY <1>9 DEF Call
    <2>2. irq' \in BOOLEAN
      BY <1>9, Zenon DEF Call
    <2> QED
      BY <2>1, <2>2
  <1>10. ASSUME NEW v \in StepNoInts, MaskInts(v) PROVE CoreTyped'
    BY <1>10 DEF MaskInts
  <1>11. ASSUME Untouched PROVE CoreTyped'
    BY <1>11 DEF Untouched
  <1> QED
    BY <1>1, <1>2, <1>3, <1>4, <1>5, <1>6, <1>7, <1>8, <1>9, <1>10,
       <1>11
       DEF CoreMove

RestTyped ==
    /\ attn \in 0 .. MaxAttn /\ link \in BOOLEAN /\ wiped \in BOOLEAN
    /\ lock \in {"none", "gdb", "con"} /\ running \in BOOLEAN
    /\ gdb \in {"new", "stopped", "stop", "reply"} /\ broken \in BOOLEAN

LEMMA RestTypedStep == RestTyped /\ [Next]_all => RestTyped'
  <1> SUFFICES ASSUME RestTyped, [Next]_all PROVE RestTyped'
    OBVIOUS
  <1> USE CoreAssumption DEF RestTyped, cvars, core, lvars, svars, target
  <1>1. ASSUME NEW cmd \in Commands, GdbSend(cmd) PROVE RestTyped'
    BY <1>1 DEF GdbSend
  <1>2. ASSUME GdbBreak PROVE RestTyped'
    BY <1>2 DEF GdbBreak
  <1>3. ASSUME GdbReceive PROVE RestTyped'
    BY <1>3 DEF GdbReceive
  <1>4. ASSUME CheckLock PROVE RestTyped'
    BY <1>4 DEF CheckLock, TakeLock
  <1>5. ASSUME Check PROVE RestTyped'
    BY <1>5 DEF Check, Say
  <1>6. ASSUME PollPacket PROVE RestTyped'
    BY <1>6 DEF PollPacket
  <1>7. ASSUME PollTimeout PROVE RestTyped'
    BY <1>7 DEF PollTimeout
  <1>8. ASSUME Receive PROVE RestTyped'
    BY <1>8 DEF Receive, TakeLock
  <1>9. ASSUME HandleCore PROVE RestTyped'
    BY <1>9 DEF HandleCore, Call
  <1>10. ASSUME NowRunning PROVE RestTyped'
    BY <1>10 DEF NowRunning, RunsNow
  <1>11. ASSUME NowHalted PROVE RestTyped'
    BY <1>11 DEF NowHalted
  <1>12. ASSUME Update PROVE RestTyped'
    BY <1>12 DEF Update, StartWalk
  <1>13. ASSUME Updated PROVE RestTyped'
    BY <1>13 DEF Updated, AfterStop, Say
  <1>14. ASSUME Select PROVE RestTyped'
    BY <1>14 DEF Select
  <1>15. ASSUME Look PROVE RestTyped'
    BY <1>15 DEF Look
  <1>16. ASSUME RcmdUnlock PROVE RestTyped'
    BY <1>16 DEF RcmdUnlock, DropLock
  <1>17. ASSUME RcmdLock PROVE RestTyped'
    BY <1>17 DEF RcmdLock, TakeLock
  <1>18. ASSUME RcmdRun PROVE RestTyped'
    BY <1>18 DEF RcmdRun, Call
  <1>19. ASSUME RcmdWait PROVE RestTyped'
    BY <1>19 DEF RcmdWait, Call
  <1>20. ASSUME RcmdDone PROVE RestTyped'
    BY <1>20 DEF RcmdDone, DropLock
  <1>21. ASSUME RcmdRelock PROVE RestTyped'
    BY <1>21 DEF RcmdRelock, TakeLock
  <1>22. ASSUME Unlock PROVE RestTyped'
    BY <1>22 DEF Unlock, DropLock
  <1>23. ASSUME ConLock PROVE RestTyped'
    BY <1>23 DEF ConLock, TakeLock
  <1>24. ASSUME NEW f \in ConsoleFunction \cup {"threads", "clear"}, ConRun(f) PROVE RestTyped'
    BY <1>24 DEF ConRun, Call
  <1>25. ASSUME NEW v \in StepNoInts, ConMaskInts(v) PROVE RestTyped'
    BY <1>25 DEF ConMaskInts, MaskInts
  <1>26. ASSUME ConWait PROVE RestTyped'
    BY <1>26 DEF ConWait, Call
  <1>27. ASSUME ConWalk PROVE RestTyped'
    BY <1>27 DEF ConWalk
  <1>28. ASSUME ConFree PROVE RestTyped'
    BY <1>28 DEF ConFree
  <1>29. ASSUME ConClear PROVE RestTyped'
    BY <1>29 DEF ConClear, Wipe
  <1>30. ASSUME ConUnlock PROVE RestTyped'
    BY <1>30 DEF ConUnlock, DropLock
  <1>31. ASSUME ControlStep PROVE RestTyped'
    BY <1>31 DEF ControlStep, Control, ReadCsr, HaltFirst, WriteMask, Go, WaitForHalt
  <1>32. ASSUME WalkStep PROVE RestTyped'
    BY <1>32 DEF WalkStep, Walk, ReadInfo, ReadCurrent, ReadNext
  <1>33. ASSUME CoreStep PROVE RestTyped'
    BY <1>33 DEF CoreStep, Core, Execute, HaltEnter, Break
  <1>34. ASSUME TypeAttn PROVE RestTyped'
    BY <1>34 DEF TypeAttn, Interrupt
  <1>35. ASSUME Fault PROVE RestTyped'
    BY <1>35 DEF Fault, LinkDown, LinkUp
  <1>36. ASSUME UNCHANGED all PROVE RestTyped'
    BY <1>36 DEF all
  <1> QED
    BY <1>1, <1>2, <1>3, <1>4, <1>5, <1>6, <1>7, <1>8, <1>9, <1>10,
       <1>11, <1>12, <1>13, <1>14, <1>15, <1>16, <1>17, <1>18, <1>19, <1>20,
       <1>21, <1>22, <1>23, <1>24, <1>25, <1>26, <1>27, <1>28, <1>29, <1>30,
       <1>31, <1>32, <1>33, <1>34, <1>35, <1>36
       DEF Next, Bridge, ConsoleThread

TypeInv == RecordsInv /\ CoreTyped /\ RestTyped

\* The variables of the core, the thread list and the session keep their types;
\* the number of records is never negative, whatever is freed when.
THEOREM TypeCorrect == Spec => []STypeOK
  <1>1. SInit => CoreTyped /\ RestTyped
    <2> SUFFICES ASSUME SInit PROVE CoreTyped /\ RestTyped
      OBVIOUS
    <2>1. noints \in 0 .. 2 /\ ran \in 0 .. 2 /\ attn \in 0 .. MaxAttn
      BY CoreAssumption DEF SInit, CInit
    <2>2. /\ irq \in BOOLEAN /\ link \in BOOLEAN /\ wiped \in BOOLEAN
          /\ running \in BOOLEAN /\ broken \in BOOLEAN
      BY Zenon DEF SInit, CInit, LkInit
    <2> QED
      BY <2>1, <2>2 DEF SInit, CoreTyped, RestTyped
  <1>2. TypeInv /\ [Next]_all => TypeInv'
    <2>1. RecordsInv /\ [Next]_all => RecordsInv'
      BY SessionStep, WalkStepInv, SelectStep DEF RecordsInv, SessionInv
    <2> QED
      BY <2>1, CoreMoves, CoreTypedStep, RestTypedStep DEF TypeInv, RecordsInv, SessionInv, CoreInv
  <1>3. TypeInv => STypeOK
    <2> SUFFICES ASSUME TypeInv PROVE STypeOK
      OBVIOUS
    <2>1. OpTyped /\ WalkTyped /\ HeapExact /\ CoreTyped /\ RestTyped /\ Shape
      BY DEF TypeInv, RecordsInv, SessionInv, WalkInv, CoreInv
    <2>2. Records(walk) \in Nodes /\ Len(Records(walk)) \in Nat
      BY <2>1, RecordsTyped DEF WalkTyped
    <2>3. Len(threadlist) \in Nat
      BY <2>1 DEF WalkTyped, Nodes
    <2>4. heap \in Nat
      BY <2>1, <2>2, <2>3 DEF HeapExact
    <2>5. CoreTypeOK
      BY <2>1 DEF Shape, CoreTyped, RestTyped, OpTyped, OpType, Functions, CoreTypeOK
    <2>6. LkTypeOK
      BY <2>1, <2>2, <2>4 DEF WalkTyped, WalkType, Nodes, RestTyped, LkTypeOK
    <2> QED
      BY <2>1, <2>5, <2>6 DEF RestTyped, WalkTyped, Nodes, STypeOK
  <1> QED
    BY <1>1, <1>2, <1>3, RecordsInvariance, PTL DEF Spec, TypeInv

-----------------------------------------------------------------------------
(* What a walk gathers.                                                    *)

\* No step changes the target's list; the bridge's is what a finished walk left.
ListMove ==
    /\ UNCHANGED <<ring, current>>
    /\ \/ UNCHANGED <<walk, threadlist>>
       \/ StartWalk /\ (UNCHANGED threadlist \/ threadlist' = <<>>)
       \/ (ReadInfo \/ ReadCurrent \/ ReadNext) /\ UNCHANGED threadlist
       \/ walk' = NoWalk /\ UNCHANGED threadlist
       \/ walk.at = "done" /\ walk' = NoWalk /\ threadlist' = Records(walk)

LEMMA ListMoves == [Next]_all => ListMove
  <1> SUFFICES ASSUME [Next]_all PROVE ListMove
    OBVIOUS
  <1> USE DEF ListMove, svars, lvars, target
  <1>1. ASSUME NEW cmd \in Commands, GdbSend(cmd) PROVE ListMove
    BY <1>1 DEF GdbSend
  <1>2. ASSUME GdbBreak PROVE ListMove
    BY <1>2 DEF GdbBreak
  <1>3. ASSUME GdbReceive PROVE ListMove
    BY <1>3 DEF GdbReceive
  <1>4. ASSUME CheckLock PROVE ListMove
    BY <1>4 DEF CheckLock, TakeLock, Goto
  <1>5. ASSUME Check PROVE ListMove
    BY <1>5 DEF Check, Goto, Say
  <1>6. ASSUME PollPacket PROVE ListMove
    BY <1>6 DEF PollPacket, Goto
  <1>7. ASSUME PollTimeout PROVE ListMove
    BY <1>7 DEF PollTimeout, Goto
  <1>8. ASSUME Receive PROVE ListMove
    BY <1>8 DEF Receive, TakeLock, Goto
  <1>9. ASSUME HandleCore PROVE ListMove
    BY <1>9 DEF HandleCore, Goto
  <1>10. ASSUME NowRunning PROVE ListMove
    BY <1>10 DEF NowRunning, Goto
  <1>11. ASSUME NowHalted PROVE ListMove
    BY <1>11 DEF NowHalted, Goto
  <1>12. ASSUME Update PROVE ListMove
    BY <1>12 DEF Update, Goto
  <1>13. ASSUME Updated PROVE ListMove
    BY <1>13 DEF Updated, Goto
  <1>14. ASSUME Select PROVE ListMove
    BY <1>14 DEF Select, Goto, Say
  <1>15. ASSUME Look PROVE ListMove
    BY <1>15 DEF Look, Goto, Say
  <1>16. ASSUME RcmdUnlock PROVE ListMove
    BY <1>16 DEF RcmdUnlock, DropLock, Goto
  <1>17. ASSUME RcmdLock PROVE ListMove
    BY <1>17 DEF RcmdLock, TakeLock, Goto
  <1>18. ASSUME RcmdRun PROVE ListMove
    BY <1>18 DEF RcmdRun, Goto
  <1>19. ASSUME RcmdWait PROVE ListMove
    BY <1>19 DEF RcmdWait
  <1>20. ASSUME RcmdDone PROVE ListMove
    BY <1>20 DEF RcmdDone, DropLock, Goto
  <1>21. ASSUME RcmdRelock PROVE ListMove
    BY <1>21 DEF RcmdRelock, TakeLock, Goto, Say
  <1>22. ASSUME Unlock PROVE ListMove
    BY <1>22 DEF Unlock, DropLock, Goto
  <1>23. ASSUME ConLock PROVE ListMove
    BY <1>23 DEF ConLock, TakeLock
  <1>24. ASSUME NEW f \in ConsoleFunction \cup {"threads", "clear"}, ConRun(f) PROVE ListMove
    BY <1>24 DEF ConRun
  <1>25. ASSUME NEW v \in StepNoInts, ConMaskInts(v) PROVE ListMove
    BY <1>25 DEF ConMaskInts
  <1>26. ASSUME ConWait PROVE ListMove
    BY <1>26 DEF ConWait
  <1>27. ASSUME ConWalk PROVE ListMove
    BY <1>27 DEF ConWalk
  <1>28. ASSUME ConFree PROVE ListMove
    BY <1>28 DEF ConFree
  <1>29. ASSUME ConClear PROVE ListMove
    BY <1>29 DEF ConClear, Wipe
  <1>30. ASSUME ConUnlock PROVE ListMove
    BY <1>30 DEF ConUnlock, DropLock
  <1>31. ASSUME ControlStep PROVE ListMove
    BY <1>31 DEF ControlStep
  <1>32. ASSUME WalkStep PROVE ListMove
    BY <1>32 DEF WalkStep, Walk
  <1>33. ASSUME CoreStep PROVE ListMove
    BY <1>33 DEF CoreStep
  <1>34. ASSUME TypeAttn PROVE ListMove
    BY <1>34 DEF TypeAttn
  <1>35. ASSUME Fault PROVE ListMove
    BY <1>35 DEF Fault
  <1>36. ASSUME UNCHANGED all PROVE ListMove
    BY <1>36 DEF all
  <1> QED
    BY <1>1, <1>2, <1>3, <1>4, <1>5, <1>6, <1>7, <1>8, <1>9, <1>10, <1>11,
       <1>12, <1>13, <1>14, <1>15, <1>16, <1>17, <1>18, <1>19, <1>20,
       <1>21, <1>22, <1>23, <1>24, <1>25, <1>26, <1>27, <1>28, <1>29,
       <1>30, <1>31, <1>32, <1>33, <1>34, <1>35, <1>36
       DEF Next, Bridge, ConsoleThread

In(s) == {s[i] : i \in DOMAIN s}
Different(s) == \A i, j \in DOMAIN s : s[i] = s[j] => i = j

\* What a walk has gathered and what is ahead of it are the target's list: no
\* thread is in both or in one of them twice, and the current one is its head.
Gathered ==
    /\ walk.head = current /\ current \notin In(walk.list)
    /\ In(walk.list) \cup In(walk.rest) \cup {current} = In(ring) \cup {current}
    /\ In(walk.list) \cap In(walk.rest) = {}
    /\ Different(walk.list) /\ Different(walk.rest)

ListInv ==
    /\ Different(ring)
    /\ walk.at = "next" => Gathered
    /\ walk.at = "done" /\ walk.head # Nobody => Gathered /\ walk.rest = <<>>
    /\ walk.head = Nobody => walk.list = <<>>
    /\ ListComplete

\* The head of a list of different threads is not in the rest of it.
LEMMA Behead ==
  ASSUME NEW s \in Nodes, s # <<>>, Different(s)
  PROVE  /\ Head(s) \notin In(Tail(s)) /\ In(s) = {Head(s)} \cup In(Tail(s))
         /\ Different(Tail(s))
  <1>1. /\ Len(s) \in Nat /\ Len(s) >= 1 /\ Head(s) = s[1] /\ DOMAIN s = 1 .. Len(s)
        /\ DOMAIN Tail(s) = 1 .. Len(s) - 1
        /\ \A i \in 1 .. Len(s) - 1 : Tail(s)[i] = s[i + 1]
    BY DEF Nodes
  <1>2. \A i \in DOMAIN Tail(s) : i + 1 \in DOMAIN s /\ i + 1 # 1 /\ 1 \in DOMAIN s
    BY <1>1
  <1>3. Head(s) \notin In(Tail(s))
    BY <1>1, <1>2 DEF In, Different
  <1>4. \A x \in In(s) : x = Head(s) \/ x \in In(Tail(s))
    <2> SUFFICES ASSUME NEW i \in DOMAIN s, i # 1 PROVE s[i] \in In(Tail(s))
      BY <1>1 DEF In
    <2>1. i - 1 \in 1 .. Len(s) - 1 /\ (i - 1) + 1 = i
      BY <1>1
    <2>2. Tail(s)[i - 1] = s[i] /\ i - 1 \in DOMAIN Tail(s)
      BY <1>1, <2>1
    <2> QED
      BY <2>2 DEF In
  <1>5. In(Tail(s)) \subseteq In(s) /\ Head(s) \in In(s)
    BY <1>1, <1>2 DEF In
  <1>6. Different(Tail(s))
    <2> SUFFICES ASSUME NEW i \in DOMAIN Tail(s), NEW j \in DOMAIN Tail(s),
                        Tail(s)[i] = Tail(s)[j]
                 PROVE  i = j
      BY DEF Different
    <2>1. s[i + 1] = s[j + 1] /\ i + 1 \in DOMAIN s /\ j + 1 \in DOMAIN s
      BY <1>1, <1>2
    <2>2. i + 1 = j + 1
      BY <2>1 DEF Different
    <2> QED
      BY <1>1, <2>2
  <1> QED
    BY <1>3, <1>4, <1>5, <1>6

\* A record in front of the others.
LEMMA InFront ==
  ASSUME NEW s \in Nodes, NEW t \in Threads
  PROVE  /\ <<t>> \o s \in Nodes /\ <<t>> \o s # <<>> /\ (<<t>> \o s)[1] = t
         /\ In(<<t>> \o s) = {t} \cup In(s)
         /\ t \notin In(s) /\ Different(s) => Different(<<t>> \o s)
  <1>1. /\ <<t>> \o s \in Nodes /\ Len(s) \in Nat /\ DOMAIN s = 1 .. Len(s)
        /\ Len(<<t>> \o s) = Len(s) + 1
        /\ (<<t>> \o s)[1] = t /\ \A i \in 1 .. Len(s) : (<<t>> \o s)[i + 1] = s[i]
    BY DEF Nodes
  <1>2. DOMAIN (<<t>> \o s) = 1 .. Len(s) + 1
    BY <1>1 DEF Nodes
  <1> DEFINE l == <<t>> \o s
  <1>3. \A i \in DOMAIN l : i = 1 \/ (i - 1 \in DOMAIN s /\ l[i] = s[i - 1])
    <2> SUFFICES ASSUME NEW i \in DOMAIN l, i # 1 PROVE i - 1 \in DOMAIN s /\ l[i] = s[i - 1]
      OBVIOUS
    <2>1. i - 1 \in 1 .. Len(s) /\ (i - 1) + 1 = i
      BY <1>1, <1>2
    <2> QED
      BY <1>1, <2>1
  <1>4. \A i \in DOMAIN s : i + 1 \in DOMAIN l /\ l[i + 1] = s[i]
    BY <1>1, <1>2
  <1>5. 1 \in DOMAIN l /\ l[1] = t
    BY <1>1, <1>2
  <1>6. l # <<>>
    BY <1>1
  <1> HIDE DEF l
  <1>7. In(l) = {t} \cup In(s)
    BY <1>3, <1>4, <1>5 DEF In
  <1>8. ASSUME t \notin In(s), Different(s) PROVE Different(l)
    <2> SUFFICES ASSUME NEW i \in DOMAIN l, NEW j \in DOMAIN l, l[i] = l[j] PROVE i = j
      BY DEF Different
    <2>1. (i = 1) <=> (j = 1)
      BY <1>3, <1>5, <1>8 DEF In
    <2>2. CASE i # 1
      <3>1. i - 1 \in DOMAIN s /\ j - 1 \in DOMAIN s /\ s[i - 1] = s[j - 1]
        BY <1>3, <2>1, <2>2
      <3>2. i - 1 = j - 1
        BY <3>1, <1>8 DEF Different
      <3>3. i \in Int /\ j \in Int
        BY <1>2 DEF l
      <3> QED
        BY <3>2, <3>3
    <2> QED
      BY <2>1, <2>2
  <1>9. l \in Nodes
    BY <1>1 DEF l
  <1> QED
    BY <1>5, <1>6, <1>7, <1>8, <1>9 DEF l

\* The records of a walk that has come to its end are a complete list.
LEMMA GatheredAll ==
  ASSUME WalkTyped, Gathered, walk.rest = <<>> PROVE Complete(Records(walk))
  <1>1. walk.list \in Nodes /\ current \in Threads /\ Records(walk) = <<current>> \o walk.list
    BY LkAssumption DEF WalkTyped, WalkType, Gathered, Records
  <1>2. In(<<>>) = {}
    BY DEF In
  <1>3. /\ Records(walk)[1] = current /\ In(Records(walk)) = {current} \cup In(walk.list)
        /\ Different(Records(walk))
    BY <1>1, InFront DEF Gathered
  <1>4. In(Records(walk)) = {current} \cup In(ring)
    BY <1>2, <1>3 DEF Gathered
  <1> QED
    BY <1>3, <1>4 DEF Complete, In, Different

LEMMA ListKept ==
  ASSUME ListInv, UNCHANGED <<ring, current, walk, threadlist>> PROVE ListInv'
  BY DEF ListInv, Gathered, ListComplete, Complete

\* A walk that begins or gives up has gathered nothing.
LEMMA ListEmptied ==
  ASSUME ListInv, UNCHANGED <<ring, current>>,
         walk'.at # "next", walk'.head = Nobody, walk'.list = <<>>, ListComplete'
  PROVE  ListInv'
  BY DEF ListInv

LEMMA CompleteKept ==
  ASSUME ListInv, UNCHANGED <<ring, current, threadlist>> PROVE ListComplete'
  BY DEF ListInv, ListComplete, Complete

LEMMA ListStep == WalkInv /\ ListInv /\ ListMove => ListInv'
  <1> SUFFICES ASSUME WalkInv, ListInv, ListMove PROVE ListInv'
    OBVIOUS
  <1>0. /\ UNCHANGED <<ring, current>> /\ WalkTyped /\ walk \in WalkType
        /\ walk.list \in Nodes /\ walk.rest \in Nodes /\ current \in Threads /\ ring \in Nodes
    BY DEF ListMove, WalkInv, WalkTyped, WalkType
  <1>1. CASE UNCHANGED <<walk, threadlist>>
    BY <1>0, <1>1, ListKept
  <1>2. /\ NoWalk.at = "off" /\ NoWalk.head = Nobody /\ NoWalk.list = <<>>
        /\ [NoWalk EXCEPT !.at = "done"].head = Nobody /\ [NoWalk EXCEPT !.at = "done"].list = <<>>
    BY DEF NoWalk
  <1>3. threadlist' = <<>> => ListComplete'
    BY DEF ListComplete
  <1>4. CASE StartWalk /\ (UNCHANGED threadlist \/ threadlist' = <<>>)
    <2>1. ListComplete'
      BY <1>0, <1>3, <1>4, CompleteKept
    <2> QED
      BY <1>0, <1>4, <2>1, Emptied, ListEmptied DEF StartWalk
  <1>5. ASSUME GiveUp, UNCHANGED threadlist PROVE ListInv'
    <2>1. ListComplete'
      BY <1>0, <1>5, CompleteKept
    <2> QED
      BY <1>0, <1>2, <1>5, <2>1, Emptied, ListEmptied DEF GiveUp
  <1>6. CASE ReadInfo /\ UNCHANGED threadlist
    <2>1. ListComplete'
      BY <1>0, <1>6, CompleteKept
    <2>2. CASE walk' = [walk EXCEPT !.at = "current"]
      <3>1. walk.head = Nobody /\ walk.list = <<>>
        BY <1>6 DEF ReadInfo, WalkInv, Walking
      <3>2. walk'.at = "current" /\ walk'.head = Nobody /\ walk'.list = <<>>
        BY <1>0, <2>2, <3>1 DEF WalkType
      <3> QED
        BY <1>0, <2>1, <3>2, ListEmptied
    <2> QED
      BY <1>5, <1>6, <2>2 DEF ReadInfo
  <1>7. CASE ReadCurrent /\ UNCHANGED threadlist
    <2>1. ListComplete'
      BY <1>0, <1>7, CompleteKept
    <2>2. CASE walk' = [walk EXCEPT !.at = "next", !.head = current, !.rest = ring]
      <3>1. walk.list = <<>>
        BY <1>7 DEF ReadCurrent, WalkInv, Walking
      <3>2. walk'.at = "next" /\ walk'.head = current /\ walk'.list = <<>> /\ walk'.rest = ring
        BY <1>0, <2>2, <3>1 DEF WalkType
      <3>3. In(<<>>) = {} /\ Different(<<>>)
        BY DEF In, Different
      <3>4. Gathered'
        BY <1>0, <3>2, <3>3 DEF Gathered, ListInv, In, Different
      <3> QED
        BY <1>0, <2>1, <3>2, <3>4 DEF ListInv, Different
    <2> QED
      BY <1>5, <1>7, <2>2 DEF ReadCurrent
  <1>8. CASE ReadNext /\ UNCHANGED threadlist
    <2>1. ListComplete' /\ Gathered /\ Different(ring) /\ Different(ring)'
      BY <1>0, <1>8, CompleteKept DEF ListInv, ReadNext, Different
    <2>2. CASE walk.rest = <<>> /\ walk' = [walk EXCEPT !.at = "done"]
      <3>1. /\ walk'.at = "done" /\ walk'.head = walk.head /\ walk'.list = walk.list
            /\ walk'.rest = walk.rest
        BY <1>0, <2>2 DEF WalkType
      <3>2. Gathered' /\ walk'.rest = <<>>
        BY <1>0, <2>1, <2>2, <3>1 DEF Gathered, In, Different
      <3>3. walk'.head # Nobody
        BY <1>0, <3>2, LkAssumption DEF Gathered
      <3> QED
        BY <2>1, <3>1, <3>2, <3>3 DEF ListInv
    <2> DEFINE t == Head(walk.rest)
    <2>3. ASSUME walk.rest # <<>>
          PROVE  /\ t \in Threads /\ Tail(walk.rest) \in Nodes /\ t \notin In(Tail(walk.rest))
                 /\ In(walk.rest) = {t} \cup In(Tail(walk.rest)) /\ Different(Tail(walk.rest))
      <3>1. t \in Threads /\ Tail(walk.rest) \in Nodes
        BY <1>0, <2>3 DEF Nodes
      <3> QED
        BY <1>0, <2>1, <2>3, <3>1, Behead DEF Gathered
    <2>4. CASE walk.rest # <<>> /\ Known(t) /\ walk' = [walk EXCEPT !.rest = Tail(@)]
      <3>1. /\ walk'.at = "next" /\ walk'.head = walk.head /\ walk'.list = walk.list
            /\ walk'.rest = Tail(walk.rest)
        BY <1>0, <1>8, <2>4 DEF WalkType, ReadNext
      <3>2. t = current
        BY <2>1, <2>4 DEF Known, Gathered
      <3> HIDE DEF t
      <3>4. /\ In(walk.list)' = In(walk.list) /\ In(walk.rest)' = In(Tail(walk.rest))
            /\ In(ring)' = In(ring)
        BY <1>0, <3>1 DEF In
      <3>5. Different(walk.list)' /\ Different(walk.rest)'
        BY <2>1, <2>3, <2>4, <3>1 DEF Different, Gathered
      <3>3. Gathered'
        BY <1>0, <2>1, <2>3, <2>4, <3>1, <3>2, <3>4, <3>5 DEF Gathered
      <3> QED
        BY <1>0, <2>1, <3>1, <3>3, LkAssumption DEF ListInv, Gathered
    <2>5. CASE /\ walk.rest # <<>> /\ ~Known(t)
               /\ walk' = [walk EXCEPT !.rest = Tail(@), !.list = Linked(t)]
      <3>1. /\ walk'.at = "next" /\ walk'.head = walk.head /\ walk'.list = Linked(t)
            /\ walk'.rest = Tail(walk.rest)
        BY <1>0, <1>8, <2>5 DEF WalkType, ReadNext
      <3>2. t # current /\ t \notin In(walk.list) /\ t \in Threads
        BY <2>1, <2>3, <2>5 DEF Known, Gathered
      <3>3. In(Linked(t)) = {t} \cup In(walk.list) /\ Different(Linked(t))
        BY <1>0, <2>1, <3>2, InFront DEF Linked, Gathered
      <3> HIDE DEF t
      <3>4. In(walk.list)' = In(Linked(t)) /\ In(walk.rest)' = In(Tail(walk.rest)) /\ In(ring)' = In(ring)
        BY <1>0, <3>1 DEF In
      <3>5. Different(walk.list)' /\ Different(walk.rest)'
        BY <2>3, <2>5, <3>1, <3>3 DEF Different
      <3>6. Gathered'
        BY <1>0, <2>1, <2>3, <2>5, <3>1, <3>2, <3>3, <3>4, <3>5 DEF Gathered
      <3> QED
        BY <1>0, <2>1, <3>1, <3>6, LkAssumption DEF ListInv, Gathered
    <2> QED
      BY <1>5, <1>8, <2>2, <2>4, <2>5, Zenon DEF ReadNext
  <1>9. CASE walk' = NoWalk /\ UNCHANGED threadlist
    <2>1. ListComplete'
      BY <1>0, <1>9, CompleteKept
    <2> QED
      BY <1>0, <1>2, <1>9, <2>1, ListEmptied
  <1>10. CASE walk.at = "done" /\ walk' = NoWalk /\ threadlist' = Records(walk)
    <2>1. CASE walk.head = Nobody
      <3>1. Records(walk) = <<>>
        BY <2>1, NothingThere DEF ListInv
      <3> QED
        BY <1>0, <1>2, <1>3, <1>10, <3>1, ListEmptied
    <2>2. CASE walk.head # Nobody
      <3>1. Complete(Records(walk))
        BY <1>0, <1>10, <2>2, GatheredAll DEF ListInv
      <3> DEFINE l == Records(walk)
      <3>3. /\ l[1] = current /\ \A i, j \in DOMAIN l : l[i] = l[j] => i = j
            /\ {l[i] : i \in DOMAIN l} = {current} \cup {ring[i] : i \in DOMAIN ring}
        BY <3>1 DEF Complete
      <3>4. threadlist' = l
        BY <1>10
      <3> HIDE DEF l
      <3>5. {threadlist[i] : i \in DOMAIN threadlist}' = {l[i] : i \in DOMAIN l}
        BY <3>4
      <3>6. {ring[i] : i \in DOMAIN ring}' = {ring[i] : i \in DOMAIN ring}
        BY <1>0
      <3>2. ListComplete'
        BY <1>0, <3>3, <3>4, <3>5, <3>6 DEF ListComplete, Complete
      <3> QED
        BY <1>0, <1>2, <1>10, <3>2, ListEmptied
    <2> QED
      BY <2>1, <2>2
  <1> QED
    BY <1>1, <1>4, <1>6, <1>7, <1>8, <1>9, <1>10 DEF ListMove

\* The list the bridge shows gdb is the target's: the current thread first, every
\* other one once, wherever the current one is in the ring, and whichever accesses
\* and walks have failed before (find_lk_threads, gdb_update_threads).
THEOREM ListsComplete == Spec => []ListComplete
  <1>1. SInit => ListInv
    BY LkAssumption DEF SInit, LkInit, NoWalk, ListInv, ListComplete, Different
  <1>2. RecordsInv /\ ListInv /\ [Next]_all => ListInv'
    BY ListMoves, ListStep DEF RecordsInv
  <1>3. ListInv => ListComplete
    BY DEF ListInv
  <1> QED
    BY <1>1, <1>2, <1>3, RecordsInvariance, PTL DEF Spec
=============================================================================
