--------------------------------- MODULE Flash ---------------------------------
(***************************************************************************)
(* Programming a target's flash (debugger-commands.c: arch, flash, erase)  *)
(* through an agent that runs on the target (agents/, agent/flash.h).      *)
(*                                                                         *)
(* The host attaches, resets and stops the core, loads the agent and calls *)
(* its functions: it loads the registers, resumes the core and waits until *)
(* it is back at the breakpoint the agent returns to.  The results of most *)
(* accesses are ignored.  After one that fails, the next may succeed.      *)
(* Flash, buffers and lengths are counted in words.                        *)
(***************************************************************************)
EXTENDS Integers, Sequences, FiniteSets

CONSTANTS
    Agents,       \* agents: see AgentRecord
    None,         \* no agent selected
    Mistaken,     \* bound: agents that may be selected for a target that is not theirs
    MaxCommands,  \* bound: commands
    MaxFaults     \* bound: how often the link fails

\* base: the address of flash; starts: where its pages begin, and its end;
\* chunk: data_size; block: what write() rounds up to; aligned: where a write may
\* start; pad: what it fills up with; empty: what erase() of no length does;
\* sized: flash_size is only known after setup(); rom: FLAG_BOOT_ROM_HACK.
Pads == {"zero", "stale"}
Empties == {"nothing", "page", "fails"}
AgentRecord ==
    [base : Nat, starts : Seq(Nat), chunk : Nat \ {0}, block : Nat \ {0},
     aligned : Nat \ {0}, pad : Pads, empty : Empties, sized : BOOLEAN, rom : BOOLEAN]

ASSUME FlashAssumption ==
    /\ Agents \subseteq AgentRecord /\ None \notin Agents /\ Mistaken \subseteq Agents
    /\ \A a \in Agents : a.chunk % a.block = 0 /\ a.chunk % a.aligned = 0
    \* Pages follow one another from the start of flash, in whole blocks.
    /\ \A a \in Agents :
          /\ a.starts # <<>> /\ a.starts[1] = 0
          /\ \A p \in 1 .. Len(a.starts) : a.starts[p] % a.block = 0
          /\ \A p, q \in 1 .. Len(a.starts) : p < q => a.starts[p] < a.starts[q]
    /\ MaxCommands \in Nat /\ MaxFaults \in Nat

VARIABLES
    flash, before,  \* the flash, now and when the command began
    astray,         \* since then, the reset or a write to a register of the core failed
    ram,            \* the agent's data buffer
    regs, pc,       \* r0 to r2; where the core is: at a function, the breakpoint, elsewhere
    halted,
    part,           \* the agent that fits the target
    worn,           \* pages that can be neither erased nor written
    agent,          \* AGENT
    link,           \* accesses succeed
    cmd,            \* the command: its address, data and length, as given
    at,             \* where run_flash_agent is
    size,           \* flash_size as the host knows it
    addr, left,     \* flashaddr and data_sz of the write loop
    call,           \* the function invoked, and what comes after it
    result,         \* what the last command returned
    count, faults

target == <<flash, ram, regs, pc, halted>>
fixed == <<part, worn>>
host == <<cmd, size, addr, left>>
history == <<before, astray>>
vars == <<target, fixed, host, history, agent, link, at, call, result, count, faults>>

Erased == -1
Old == -2
Spoilt == -3
Junk == -4
Failed == -5

Pages(a) == 1 .. Len(a.starts) - 1
PageCells(a, p) == a.starts[p] .. a.starts[p + 1] - 1
Size(a) == a.starts[Len(a.starts)]
Cells(a) == 0 .. Size(a) - 1

NoCommand == [fn |-> "none", addr |-> 0, len |-> 0]
NoCall == [fn |-> "none", args |-> <<0, 0, 0>>, next |-> "idle"]

Init ==
    /\ part \in Agents
    /\ worn \in {{}} \cup {{p} : p \in Pages(part)}
    /\ flash = [c \in Cells(part) |-> Old] /\ before = flash /\ astray = FALSE
    /\ ram = [i \in 0 .. part.chunk - 1 |-> Junk]
    /\ regs = <<Junk, Junk, Junk>> /\ pc = "elsewhere" /\ halted = FALSE
    /\ agent = None
    /\ link = TRUE
    /\ cmd = NoCommand /\ at = "idle" /\ size = 0 /\ addr = 0 /\ left = 0
    /\ call = NoCall /\ result = 0
    /\ count = 0 /\ faults = 0

-----------------------------------------------------------------------------
(* The agent: flash_agent_erase and flash_agent_write on flash f.          *)

RoundUp(n, k) == ((n + k - 1) \div k) * k

\* Pages are erased one after the other, up to the first that fails.
ToErase_Short(a, n) == {p \in Pages(part) : part.starts[p] >= a /\ part.starts[p + 1] <= a + n}
ToErase(a, n) ==
    {p \in Pages(part) : part.starts[p] >= a /\
                         (part.starts[p] < a + n \/ (part.empty = "page" /\ part.starts[p] = a))}

EraseFlash(f, a, n) ==
    LET bad == ToErase(a, n) \cap worn
        ok  == {p \in ToErase(a, n) : \A q \in bad : p < q}
        aligned == \E p \in Pages(part) \cup {Len(part.starts)} : part.starts[p] = a
    IN  IF ~aligned \/ (n = 0 /\ part.empty = "fails")
        THEN [flash |-> f, res |-> Failed]
        ELSE [flash |-> [c \in DOMAIN f |->
                            IF \E p \in ok : c \in PageCells(part, p) THEN Erased ELSE f[c]],
              res |-> IF bad = {} THEN 0 ELSE Failed]

\* What goes to the words after the data: the agent fills its buffer with 0s,
\* or writes what is in it.
Source(buf, n) ==
    [i \in DOMAIN buf |-> IF i >= n /\ part.pad = "zero" THEN 0 ELSE buf[i]]

\* Bits only go from 1 to 0: what was not erased is spoilt.
Programmed(f, a, src, m) ==
    [c \in DOMAIN f |->
        CASE c \notin a .. a + m - 1 -> f[c]
          [] c \in a .. a + m - 1 /\ \E p \in worn : c \in PageCells(part, p) -> f[c]
          [] OTHER -> IF f[c] = Erased THEN src[c - a] ELSE Spoilt]

WriteFlash(f, a, buf, n) ==
    LET m    == RoundUp(n, part.block)
        src  == Source(buf, n)
        done == Programmed(f, a, src, m)
    IN  IF a % part.aligned # 0 THEN [flash |-> f, res |-> Failed]
        ELSE [flash |-> done,
              res |-> IF \A i \in 0 .. m - 1 : done[a + i] = src[i] THEN 0 ELSE Failed]

-----------------------------------------------------------------------------
(* arch                                                                    *)

SetArch(a) ==
    /\ at = "idle" /\ count < MaxCommands
    /\ a \in Mistaken \cup {part, None}
    /\ agent' = a
    /\ UNCHANGED <<target, fixed, host, history, link, at, call, result, count, faults>>

-----------------------------------------------------------------------------
(* run_flash_agent                                                         *)

Goto(s) == at' = s
Fail == Goto("idle") /\ result' = -1
Succeed == Goto("idle") /\ result' = 0

All == [fn |-> "erase", addr |-> 0, len |-> -1]

Begin(c) ==
    /\ at = "idle" /\ count < MaxCommands
    /\ count' = count + 1
    /\ cmd' = c /\ before' = flash /\ astray' = FALSE /\ link' = TRUE
    /\ addr' = c.addr /\ left' = c.len
    /\ IF agent = None THEN Fail ELSE Goto("attach") /\ UNCHANGED result
    /\ size' = IF agent = None \/ agent.sized THEN 0 ELSE Size(agent)
    /\ UNCHANGED <<target, fixed, agent, call, faults>>

\* A write whose result is ignored fails, with all others or, a fault, alone.
Unseen(lost) ==
    /\ astray' = (astray \/ lost)
    /\ IF lost /\ link THEN faults < MaxFaults /\ faults' = faults + 1 ELSE UNCHANGED faults

\* do_attach; do_reset_stop, whose result is ignored.  The core may not stop.
Attach ==
    /\ at = "attach"
    /\ \/ link' = TRUE /\ Goto("reset") /\ UNCHANGED result
       \/ Fail /\ UNCHANGED link
    /\ UNCHANGED <<target, fixed, host, history, agent, call, count, faults>>

ResetStop ==
    /\ at = "reset"
    /\ \/ link /\ pc' = "elsewhere" /\ regs' = <<Junk, Junk, Junk>> /\ Unseen(FALSE)
       \/ UNCHANGED <<pc, regs>> /\ Unseen(TRUE)
    /\ halted' \in BOOLEAN
    /\ Goto(IF agent.rom THEN "rom" ELSE "load")
    /\ UNCHANGED <<flash, ram, fixed, host, before, agent, link, call, result, count>>

\* With a watchpoint on address 0 the boot ROM runs until it is done.
BootRom ==
    /\ at = "rom"
    /\ IF link THEN halted' \in BOOLEAN /\ Goto("load") /\ UNCHANGED result
       ELSE Fail /\ UNCHANGED halted
    /\ UNCHANGED <<flash, ram, regs, pc, fixed, host, history, agent, link, call, count, faults>>

Invoke(fn, args, next) ==
    /\ call' = [fn |-> fn, args |-> args, next |-> next]
    /\ Goto("registers")

LoadAgent ==
    /\ at = "load"
    /\ IF link THEN Invoke("setup", <<0, 0, 0>>, "header") /\ UNCHANGED result
       ELSE Fail /\ UNCHANGED call
    /\ UNCHANGED <<target, fixed, host, history, agent, link, count, faults>>

\* The agent's header is read back.
ReadHeader ==
    /\ at = "header"
    /\ IF link THEN size' = Size(part) /\ Goto("check") /\ UNCHANGED result
       ELSE Fail /\ UNCHANGED size
    /\ UNCHANGED <<target, fixed, cmd, addr, left, history, agent, link, call, count, faults>>

\* erase all is an address and a length of its own.
IsAll == cmd = All
From == IF IsAll THEN agent.base ELSE addr
Length == IF IsAll THEN size ELSE left

InRange ==
    /\ From >= agent.base
    /\ Length <= size
    /\ From + Length <= agent.base + size

CheckRange ==
    /\ at = "check"
    /\ addr' = From /\ left' = Length
    /\ IF InRange
       THEN /\ Invoke("erase", <<From, Length, 0>>, IF cmd.fn = "erase" THEN "done" ELSE "data")
            /\ UNCHANGED result
       ELSE Fail /\ UNCHANGED call
    /\ UNCHANGED <<target, fixed, cmd, size, history, agent, link, count, faults>>

\* The words of the image a flash command is given.
Word(i) == 10 * count + i

Xfer == IF left > agent.chunk THEN agent.chunk ELSE left

\* What has been written so far is ahead of the rest in the image.
Sent_FromStart == 0
Sent == cmd.len - left

WriteData ==
    /\ at = "data"
    /\ CASE left = 0 -> Succeed /\ UNCHANGED <<ram, call>>
         [] left > 0 /\ link ->
              /\ ram' = [i \in DOMAIN ram |-> IF i < Xfer THEN Word(Sent + i) ELSE ram[i]]
              /\ Invoke("write", <<addr, 0, Xfer>>, "advance")
              /\ UNCHANGED result
         [] OTHER -> Fail /\ UNCHANGED <<ram, call>>
    /\ UNCHANGED <<flash, regs, pc, halted, fixed, host, history, agent, link, count, faults>>

Advance ==
    /\ at = "advance"
    /\ addr' = addr + Xfer /\ left' = left - Xfer
    /\ Goto("data")
    /\ UNCHANGED <<target, fixed, cmd, size, history, agent, link, call, result, count, faults>>

Done ==
    /\ at = "done"
    /\ Succeed
    /\ UNCHANGED <<target, fixed, host, history, agent, link, call, count, faults>>

-----------------------------------------------------------------------------
(* invoke                                                                  *)

\* r0 to r2 and the program counter.
Registers == {1, 2, 3, 15}

\* Each write may fail, and all of them do if the core is not halted: the results
\* are ignored.
LoadRegisters ==
    /\ at = "registers"
    /\ \E lost \in IF link /\ halted THEN SUBSET Registers ELSE {Registers} :
          /\ regs' = [i \in 1 .. 3 |-> IF i \in lost THEN regs[i] ELSE call.args[i]]
          /\ pc' = IF 15 \in lost THEN pc ELSE call.fn
          /\ Unseen(halted /\ lost # {})
    /\ Goto("resume")
    /\ UNCHANGED <<flash, ram, halted, fixed, host, before, agent, link, call, result, count>>

\* The core runs: a function of the agent, up to the breakpoint; it may also
\* fault on the way.
Resume ==
    /\ at = "resume"
    /\ halted' = (halted /\ ~link)
    /\ Goto("wait")
    /\ UNCHANGED <<flash, ram, regs, pc, fixed, host, history, agent, link, call, result, count, faults>>

Return(f, buf, res) ==
    /\ flash' = f /\ ram' = buf
    /\ regs' = [regs EXCEPT ![1] = res]
    /\ pc' = "agent"

\* An agent that is not the target's own does nothing of use.
Fits == agent = part

FlashAddr == regs[1] - part.base

\* Registers that were never loaded lead the agent astray.
Sane ==
    /\ FlashAddr \in 0 .. Size(part) /\ regs[2] \in Nat /\ regs[3] \in 0 .. part.chunk
    /\ FlashAddr + RoundUp(regs[3], part.block) <= Size(part)

AgentRuns ==
    /\ at = "wait" /\ ~halted /\ pc # "elsewhere"
    /\ halted' = TRUE
    /\ \/ pc' = "elsewhere" /\ UNCHANGED <<flash, ram, regs>>
       \/ ~Fits /\ pc = "setup" /\ Return(flash, ram, Failed)
       \/ Fits /\ pc = "setup" /\ Return(flash, ram, 0)
       \/ Fits /\ pc = "erase" /\ Sane /\
            LET e == EraseFlash(flash, FlashAddr, regs[2]) IN Return(e.flash, ram, e.res)
       \/ Fits /\ pc = "write" /\ Sane /\
            LET w == WriteFlash(flash, FlashAddr, ram, regs[3])
            IN  Return(w.flash, Source(ram, regs[3]), w.res)
       \/ pc = "agent" /\ UNCHANGED <<flash, ram, regs, pc>>
    /\ UNCHANGED <<fixed, host, history, agent, link, at, call, result, count, faults>>

\* swdp_core_wait_for_halt, the result register and the program counter.  The
\* wait ends early when an access fails or a ^C is typed.
Returned == halted /\ link /\ regs[1] = 0 /\ pc = "agent"

Wait ==
    /\ at = "wait"
    /\ IF Returned THEN Goto(call.next) /\ UNCHANGED result ELSE Fail
    /\ call' = NoCall
    /\ UNCHANGED <<target, fixed, host, history, agent, link, count, faults>>

LinkDown ==
    /\ at # "idle" /\ link /\ faults < MaxFaults
    /\ link' = FALSE /\ faults' = faults + 1
    /\ UNCHANGED <<target, fixed, host, history, agent, at, call, result, count>>

\* Accesses succeed again: a timeout or a parity error is over with the access.
LinkUp ==
    /\ at # "idle" /\ ~link
    /\ link' = TRUE
    /\ UNCHANGED <<target, fixed, host, history, agent, at, call, result, count, faults>>

-----------------------------------------------------------------------------
Ranges == LET ends == part.base - 1 .. part.base + Size(part) + 1 IN
    {[fn |-> f, addr |-> a, len |-> n] :
        f \in {"flash", "erase"}, a \in ends \cap Nat, n \in 0 .. Size(part) + 1}

Next ==
    \/ \E a \in Agents \cup {None} : SetArch(a)
    \/ \E c \in Ranges \cup {All} : Begin(c)
    \/ Attach \/ ResetStop \/ BootRom \/ LoadAgent \/ ReadHeader \/ CheckRange
    \/ WriteData \/ Advance \/ Done
    \/ LoadRegisters \/ Resume \/ AgentRuns \/ Wait
    \/ LinkDown \/ LinkUp

Spec == Init /\ [][Next]_vars

-----------------------------------------------------------------------------
Reported == at = "idle" /\ cmd # NoCommand /\ result = 0

ImageWritten ==
    Reported /\ cmd.fn = "flash" =>
        \A i \in 0 .. cmd.len - 1 : flash[cmd.addr - part.base + i] = Word(i)

EraseRight ==
    Reported /\ cmd.fn = "erase" =>
        IF cmd = All THEN \A c \in Cells(part) : flash[c] = Erased
        ELSE \A i \in 0 .. cmd.len - 1 : flash[cmd.addr - part.base + i] = Erased

\* Whether it succeeds or not, a command touches no page but those it covers.
Covered(p) ==
    \/ cmd = All
    \/ \E c \in PageCells(part, p) :
          part.base + c \in cmd.addr .. cmd.addr + cmd.len - 1
    \/ part.empty = "page" /\ part.base + part.starts[p] = cmd.addr

OthersKept ==
    \A p \in Pages(part) : ~Covered(p) =>
        \A c \in PageCells(part, p) : flash[c] = before[c]

\* A flash command that returns success has put its whole image where it was told
\* to, unless a write failed whose result is ignored: of the reset or a register.
FlashRight == ~astray => ImageWritten

\* Unless one of those failed, an erase that returns success has left nothing of
\* its range, and no command changes a page that is not its own.
EraseExact == ~astray => EraseRight /\ OthersKept
=============================================================================
