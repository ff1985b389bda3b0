------------------------------ MODULE Breakpoints ------------------------------
(***************************************************************************)
(* Breakpoints of the gdb bridge (gdb-bridge.c: handle_flashpatch and      *)
(* handle_breakpoint) over the comparators of the target: those of the     *)
(* flash patch unit (FPB) for code in flash, those of the watchpoint unit  *)
(* (DWT) for the rest and when no FPB comparator is free.  The DWT is      *)
(* programmed by swdp_watchpoint (arm-m-debug.c), which the console's      *)
(* watch commands call too.  A command runs under _dbg_lock; in the middle *)
(* of one accesses may begin to fail and succeed again.                    *)
(***************************************************************************)
EXTENDS Naturals

CONSTANTS
    Addresses,
    CodeAddresses,  \* those below 0x20000000, which the FPB can match
    Fpbs,           \* comparators the FPB reports
    Dwts,           \* comparators the DWT reports
    WatchLimit,     \* swdp_watchpoint refuses this comparator and those above
    None

ASSUME BreakpointsAssumption ==
    /\ CodeAddresses \subseteq Addresses
    /\ None \notin Addresses
    /\ Fpbs \in Nat /\ Dwts \in Nat /\ WatchLimit \in Nat \ {0}

VARIABLES
    fp, bp,        \* the bridge's tables: the address in each entry in use
    maxfp, maxbp,  \* how many entries of each it uses
    fpb, dwt,      \* the comparators
    cmd,           \* the command under way
    stage,         \* where it is
    n,             \* the comparator swdp_watchpoint is programming
    link,          \* accesses succeed
    held,          \* what gdb was told it has set
    stale,         \* comparators that have missed a write, or had one of someone else
    twice          \* addresses entered a second time, or passed over in the fp table

vars == <<fp, bp, maxfp, maxbp, fpb, dwt, cmd, stage, n, link, held, stale, twice>>

FpSlots == 0 .. Fpbs - 1
DwtSlots == 0 .. Dwts - 1
Entry == Addresses \cup {None}
Off == [comp |-> None, on |-> FALSE]
Comparators == ({"fp"} \X FpSlots) \cup ({"dwt"} \X DwtSlots)

NoCommand == [op |-> "none", addr |-> None, blind |-> FALSE]

Init ==
    /\ fp = [i \in FpSlots |-> None] /\ bp = [i \in DwtSlots |-> None]
    /\ maxfp = 0 /\ maxbp = 0
    /\ fpb = [i \in FpSlots |-> None] /\ dwt = [i \in DwtSlots |-> Off]
    /\ cmd = NoCommand /\ stage = "idle" /\ n = 0
    /\ link = TRUE
    /\ held = {} /\ stale = {} /\ twice = {}

-----------------------------------------------------------------------------
(* Z and z, and what is looked up for them.                                *)

Adding == cmd.op = "Z"

FpWith(a) == {i \in FpSlots : i < maxfp /\ fp[i] = a}
BpWith(a) == {i \in DwtSlots : i < maxbp /\ bp[i] = a}

\* The loops take the first that fits.
IsFirst(i, S) == i \in S /\ \A j \in S : i <= j

\* debugger_lock has tried to recover the link.
Recovered == link' \in BOOLEAN

\* addr < 0x20000000 goes to handle_flashpatch first.  gdb may repeat itself.
Command(op, a) ==
    /\ stage = "idle"
    /\ cmd' = [op |-> op, addr |-> a, blind |-> FALSE]
    /\ stage' = IF a \in CodeAddresses THEN "fpb" ELSE "dwt"
    /\ Recovered
    /\ UNCHANGED <<fp, bp, maxfp, maxbp, fpb, dwt, n, held, stale, twice>>

\* The answer: OK, or E1 and then gdb keeps what it had.
Answer(ok) ==
    /\ stage' = "idle"
    /\ cmd' = NoCommand
    /\ held' = CASE ok /\ cmd.op = "Z" -> held \cup {cmd.addr}
                 [] ok /\ cmd.op = "z" -> held \ {cmd.addr}
                 [] OTHER -> held

-----------------------------------------------------------------------------
(* handle_flashpatch.  When it fails, or finds nothing to remove or no     *)
(* comparator free, handle_breakpoint goes on to the DWT.                  *)

CountFpb ==
    /\ stage = "fpb" /\ link
    /\ maxfp' = Fpbs
    /\ stage' = "fpbFind"
    /\ UNCHANGED <<fp, bp, maxbp, fpb, dwt, cmd, n, link, held, stale, twice>>

\* The entries of the flash patch are not looked at.
CountFpbFails ==
    /\ stage = "fpb" /\ ~link
    /\ cmd' = [cmd EXCEPT !.blind = TRUE]
    /\ stage' = "dwt"
    /\ UNCHANGED <<fp, bp, maxfp, maxbp, fpb, dwt, n, link, held, stale, twice>>

FpbKnown ==
    /\ stage = "fpbFind" /\ Adding
    /\ FpWith(cmd.addr) # {}
    /\ Answer(TRUE)
    /\ UNCHANGED <<fp, bp, maxfp, maxbp, fpb, dwt, n, link, stale, twice>>

\* A write that fails may have been made.
After(old, new) == IF link THEN {new} ELSE {old, new}

\* The result of the write is not looked at.
WriteFpb(i, a) ==
    /\ fp' = [fp EXCEPT ![i] = a]
    /\ fpb' \in After(fpb, [fpb EXCEPT ![i] = a])
    /\ stale' = IF link THEN stale \ {<<"fp", i>>} ELSE stale \cup {<<"fp", i>>}

\* MUTANT of FpbClear: the comparator is not cleared.
FpbClear_TableOnly ==
    /\ stage = "fpbFind" /\ ~Adding
    /\ \E i \in FpSlots : IsFirst(i, FpWith(cmd.addr)) /\ fp' = [fp EXCEPT ![i] = None]
    /\ Answer(TRUE)
    /\ UNCHANGED <<bp, maxfp, maxbp, fpb, dwt, n, link, stale, twice>>

FpbClear ==
    /\ stage = "fpbFind" /\ ~Adding
    /\ \E i \in FpSlots : IsFirst(i, FpWith(cmd.addr)) /\ WriteFpb(i, None)
    /\ Answer(TRUE)
    /\ UNCHANGED <<bp, maxfp, maxbp, dwt, n, link, twice>>

\* MUTANT of FpbSet: handle_breakpoint goes on to the DWT after a success.
FpbSet_GoesOn ==
    /\ stage = "fpbFind" /\ Adding
    /\ FpWith(cmd.addr) = {}
    /\ \E i \in FpSlots : IsFirst(i, FpWith(None)) /\ WriteFpb(i, cmd.addr)
    /\ twice' = IF cmd.addr \in held THEN twice \cup {cmd.addr} ELSE twice
    /\ stage' = "dwt"
    /\ UNCHANGED <<bp, maxfp, maxbp, dwt, cmd, n, link, held>>

FpbSet ==
    /\ stage = "fpbFind" /\ Adding
    /\ FpWith(cmd.addr) = {}
    /\ \E i \in FpSlots : IsFirst(i, FpWith(None)) /\ WriteFpb(i, cmd.addr)
    /\ twice' = IF cmd.addr \in held THEN twice \cup {cmd.addr} ELSE twice
    /\ Answer(TRUE)
    /\ UNCHANGED <<bp, maxfp, maxbp, dwt, n, link>>

FpbPass ==
    /\ stage = "fpbFind"
    /\ FpWith(cmd.addr) = {}
    /\ Adding => FpWith(None) = {}
    /\ stage' = "dwt"
    /\ UNCHANGED <<fp, bp, maxfp, maxbp, fpb, dwt, cmd, n, link, held, stale, twice>>

-----------------------------------------------------------------------------
(* handle_breakpoint.                                                      *)

CountDwt ==
    /\ stage = "dwt" /\ link
    /\ maxbp' = Dwts
    /\ stage' = "dwtFind"
    /\ UNCHANGED <<fp, bp, maxfp, fpb, dwt, cmd, n, link, held, stale, twice>>

\* MUTANT of CountDwtFails: OK although the DWT cannot be read.
CountDwtFails_Ok ==
    /\ stage = "dwt" /\ ~link
    /\ Answer(TRUE)
    /\ UNCHANGED <<fp, bp, maxfp, maxbp, fpb, dwt, n, link, stale, twice>>

CountDwtFails ==
    /\ stage = "dwt" /\ ~link
    /\ Answer(FALSE)
    /\ UNCHANGED <<fp, bp, maxfp, maxbp, fpb, dwt, n, link, stale, twice>>

DwtKnown ==
    /\ stage = "dwtFind" /\ Adding
    /\ BpWith(cmd.addr) # {}
    /\ Answer(TRUE)
    /\ UNCHANGED <<fp, bp, maxfp, maxbp, fpb, dwt, n, link, stale, twice>>

DwtFull ==
    /\ stage = "dwtFind" /\ Adding
    /\ BpWith(cmd.addr) = {} /\ BpWith(None) = {}
    /\ Answer(FALSE)
    /\ UNCHANGED <<fp, bp, maxfp, maxbp, fpb, dwt, n, link, stale, twice>>

\* The entry is changed, and then the comparator.
DwtEnter(i, a) ==
    /\ bp' = [bp EXCEPT ![i] = a]
    /\ n' = i
    /\ stage' = "watch"
    /\ UNCHANGED <<fp, maxfp, maxbp, fpb, dwt, cmd, link, held, stale>>

\* The address is in the fp table as well, and the command has not seen it.
PassedOver == IF cmd.blind /\ FpWith(cmd.addr) # {} THEN {cmd.addr} ELSE {}

DwtSet ==
    /\ stage = "dwtFind" /\ Adding
    /\ BpWith(cmd.addr) = {}
    /\ twice' = twice \cup PassedOver
    /\ \E i \in DwtSlots : IsFirst(i, BpWith(None)) /\ DwtEnter(i, cmd.addr)

DwtClear ==
    /\ stage = "dwtFind" /\ ~Adding
    /\ UNCHANGED twice
    /\ \E i \in DwtSlots : IsFirst(i, BpWith(cmd.addr)) /\ DwtEnter(i, None)

\* Nothing to remove is answered OK.
DwtNotSet ==
    /\ stage = "dwtFind" /\ ~Adding
    /\ BpWith(cmd.addr) = {}
    /\ twice' = twice \cup PassedOver
    /\ Answer(TRUE)
    /\ UNCHANGED <<fp, bp, maxfp, maxbp, fpb, dwt, n, link, stale>>

-----------------------------------------------------------------------------
(* swdp_watchpoint: the function is disabled, then for a watchpoint the    *)
(* comparator written and the function enabled.  A write that fails is     *)
(* passed over, and the result is not looked at by the bridge.             *)

Enabling == cmd.op \in {"Z", "watch-pc"}

WatchRefused ==
    /\ stage = "watch" /\ n >= WatchLimit
    /\ stale' = stale \cup {<<"dwt", n>>}
    /\ Answer(TRUE)
    /\ UNCHANGED <<fp, bp, maxfp, maxbp, fpb, dwt, n, link, twice>>

WriteDwt(value) ==
    /\ dwt' \in After(dwt, [dwt EXCEPT ![n] = value])
    /\ stale' = IF link THEN stale ELSE stale \cup {<<"dwt", n>>}

\* What a z has disabled is up to date again; not so what the console has.
WatchOff ==
    /\ stage = "watch" /\ n < WatchLimit
    /\ dwt' \in After(dwt, [dwt EXCEPT ![n] = Off])
    /\ stale' = IF link /\ cmd.op \in {"Z", "z"}
                THEN stale \ {<<"dwt", n>>} ELSE stale \cup {<<"dwt", n>>}
    /\ IF Enabling
       THEN stage' = "watchComp" /\ UNCHANGED <<cmd, held>>
       ELSE Answer(TRUE)
    /\ UNCHANGED <<fp, bp, maxfp, maxbp, fpb, n, link, twice>>

WatchComp ==
    /\ stage = "watchComp"
    /\ WriteDwt([dwt[n] EXCEPT !.comp = cmd.addr])
    /\ stage' = "watchOn"
    /\ UNCHANGED <<fp, bp, maxfp, maxbp, fpb, cmd, n, link, held, twice>>

WatchOn ==
    /\ stage = "watchOn"
    /\ WriteDwt([dwt[n] EXCEPT !.on = TRUE])
    /\ Answer(TRUE)
    /\ UNCHANGED <<fp, bp, maxfp, maxbp, fpb, n, link, twice>>

\* watch-pc and watch-off of the console always take comparator 0.
ConsoleWatch(op, a) ==
    /\ stage = "idle" /\ Dwts > 0
    /\ cmd' = [op |-> op, addr |-> a, blind |-> FALSE]
    /\ n' = 0
    /\ stage' = "watch"
    /\ Recovered
    /\ UNCHANGED <<fp, bp, maxfp, maxbp, fpb, dwt, held, stale, twice>>

-----------------------------------------------------------------------------
LinkDown ==
    /\ stage # "idle" /\ link
    /\ link' = FALSE
    /\ UNCHANGED <<fp, bp, maxfp, maxbp, fpb, dwt, cmd, stage, n, held, stale, twice>>

\* The next access succeeds: q_exec does not look at swd_error.
LinkUp ==
    /\ stage # "idle" /\ ~link
    /\ link' = TRUE
    /\ UNCHANGED <<fp, bp, maxfp, maxbp, fpb, dwt, cmd, stage, n, held, stale, twice>>

\* The target loses power and comes back with its comparators cleared.
PowerCycle ==
    /\ stage = "idle"
    /\ fpb' = [i \in FpSlots |-> None] /\ dwt' = [i \in DwtSlots |-> Off]
    /\ stale' = stale \cup {<<"fp", i>> : i \in FpSlots} \cup {<<"dwt", i>> : i \in DwtSlots}
    /\ UNCHANGED <<fp, bp, maxfp, maxbp, cmd, stage, n, link, held, twice>>

Flashpatch == CountFpb \/ CountFpbFails \/ FpbKnown \/ FpbClear \/ FpbSet \/ FpbPass
Breakpoint == CountDwt \/ CountDwtFails \/ DwtKnown \/ DwtFull \/ DwtSet \/ DwtClear \/ DwtNotSet
Watchpoint == WatchRefused \/ WatchOff \/ WatchComp \/ WatchOn

Next ==
    \/ \E op \in {"Z", "z"}, a \in Addresses : Command(op, a)
    \/ \E op \in {"watch-pc", "watch-off"}, a \in Addresses : ConsoleWatch(op, a)
    \/ Flashpatch \/ Breakpoint \/ Watchpoint
    \/ LinkDown \/ LinkUp \/ PowerCycle

Spec == Init /\ [][Next]_vars

-----------------------------------------------------------------------------
Stages == {"idle", "fpb", "fpbFind", "dwt", "dwtFind", "watch", "watchComp", "watchOn"}
Ops == {"none", "Z", "z", "watch-pc", "watch-off"}

\* Type invariant: the tables and counts of the bridge, and the comparators.
TypeOK ==
    /\ fp \in [FpSlots -> Entry] /\ bp \in [DwtSlots -> Entry]
    /\ maxfp \in {0, Fpbs} /\ maxbp \in {0, Dwts}
    /\ fpb \in [FpSlots -> Entry]
    /\ dwt \in [DwtSlots -> [comp : Entry, on : BOOLEAN]]
    /\ cmd \in [op : Ops, addr : Entry, blind : BOOLEAN] /\ (cmd.op # "none" => cmd.addr \in Addresses)
    /\ stage \in Stages /\ n \in Nat
    /\ link \in BOOLEAN
    /\ held \subseteq Addresses
    /\ stale \subseteq Comparators /\ twice \subseteq Addresses

\* The comparator behind entry i of a table matches the address in it, and
\* behind an unused entry nothing.
FpbMatches(i) == fpb[i] = fp[i]
DwtMatches(i) == IF bp[i] = None THEN ~dwt[i].on ELSE dwt[i].on /\ dwt[i].comp = bp[i]

\* Between commands the tables tell what is in the hardware, except for
\* comparators that missed a write: because an access failed, the target
\* lost power, a comparator was refused or the console took comparator 0.
Tracked ==
    stage = "idle" =>
        /\ \A i \in FpSlots : <<"fp", i>> \in stale \/ FpbMatches(i)
        /\ \A i \in DwtSlots : <<"dwt", i>> \in stale \/ DwtMatches(i)

\* A breakpoint gdb was told is set is in exactly one entry of the tables,
\* so that one z takes it out again (the paths that move between the two
\* units, when one is full or an access fails, must not set it twice).  Only two
\* kinds of address are entered twice: one that was in the DWT and is set again
\* when a comparator of the flash patch has become free, and one in the flash
\* patch that is set again by a command that could not read the unit but the DWT.
HeldOnce ==
    stage = "idle" =>
        \A a \in held \ twice :
            \/ \E i \in FpSlots :
                  /\ \A j \in FpSlots : fp[j] = a <=> i = j
                  /\ \A j \in DwtSlots : bp[j] # a
            \/ \E i \in DwtSlots :
                  /\ \A j \in DwtSlots : bp[j] = a <=> i = j
                  /\ \A j \in FpSlots : fp[j] # a

\* A breakpoint gdb was told is gone, or never set, is in no entry: the core does
\* not stop at an address nobody asked for, but for those entered twice and those
\* in the flash patch that a z passed over which could not read it but the DWT.
NoStray ==
    stage = "idle" =>
        /\ \A i \in FpSlots : fp[i] \in held \cup twice \cup {None}
        /\ \A i \in DwtSlots : bp[i] \in held \cup twice \cup {None}
=============================================================================
