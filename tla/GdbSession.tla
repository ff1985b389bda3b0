------------------------------- MODULE GdbSession ------------------------------
(***************************************************************************)
(* A gdb session (gdb-bridge.c): the bridge thread takes commands from     *)
(* gdb, carries them out with _dbg_lock held, and looks at the core        *)
(* between them to report its stops; the console thread runs its own       *)
(* commands (debugger-commands.c) on the same core.                        *)
(***************************************************************************)
EXTENDS LkThreads

CONSTANTS
    MaxCommands, \* bound: commands sent by gdb, a ^C not counted, or typed at the console
    MaxFaults    \* bound: how often accesses start to fail

ASSUME SessionAssumption == MaxCommands \in Nat /\ MaxFaults \in Nat

VARIABLES
    lock,           \* who has _dbg_lock
    gpc, gcmd,      \* the bridge thread: where it is, with which command
    running,        \* F_RUNNING
    threadlist,     \* the records it keeps
    selected,       \* gselected and cselected
    chan, answers,  \* commands and answers under way between gdb and the bridge
    gdb,            \* what gdb waits for
    broken,         \* gdb has sent a ^C whose own answer has not come
    con,            \* the console thread: the command it runs
    budget          \* what is left of the bounds

svars == <<running, threadlist, selected, chan, answers, gdb, broken>>
all == <<cvars, lvars, svars, lock, gpc, gcmd, con, budget>>

Null == Nobody
Junk == "junk"    \* what was on the stack before

SInit ==
    /\ CInit /\ LkInit
    /\ lock = "none"
    /\ gpc = "top" /\ gcmd = "none"
    /\ running = FALSE /\ threadlist = <<>>
    /\ selected = [g |-> Junk, c |-> Junk]
    /\ chan = <<>> /\ answers = <<>>
    /\ gdb = "new" /\ broken = FALSE
    /\ con = "idle"
    /\ budget = [commands |-> MaxCommands, faults |-> MaxFaults]

Elsewhere(x) == UNCHANGED <<cvars, lvars, x>>

-----------------------------------------------------------------------------
(* debugger_lock recovers the link.                                        *)

TakeLock(who) ==
    /\ lock = "none"
    /\ lock' = who
    /\ link' = TRUE
    /\ UNCHANGED <<core, noints, attn, op, ran, irq, lvars>>

DropLock == lock' = "none"

-----------------------------------------------------------------------------
(* gdb.                                                                    *)

Stopping == {"c", "s"}
Commands == {"?", "g", "H", "halt", "resume", "step"} \cup Stopping

\* A session begins with "?"; then gdb sends a command when nothing is owed.
GdbSend(cmd) ==
    /\ budget.commands > 0
    /\ (gdb = "new" /\ cmd = "?") \/ (gdb = "stopped" /\ ~broken)
    /\ chan' = Append(chan, cmd)
    /\ gdb' = IF cmd \in Stopping THEN "stop" ELSE "reply"
    /\ budget' = [budget EXCEPT !.commands = @ - 1]
    /\ UNCHANGED <<cvars, lvars, lock, gpc, gcmd, running, threadlist, selected,
                   answers, broken, con>>

GdbBreak ==
    /\ gdb = "stop" /\ ~broken
    /\ chan' = Append(chan, "^C")
    /\ broken' = TRUE
    /\ UNCHANGED <<cvars, lvars, lock, gpc, gcmd, running, threadlist, selected,
                   answers, gdb, con, budget>>

\* An answer that comes when a stop has already been reported is dropped.
GdbReceive ==
    /\ answers # <<>>
    /\ answers' = Tail(answers)
    /\ gdb' = "stopped"
    /\ broken' = (broken /\ Head(answers) # "break")
    /\ UNCHANGED <<cvars, lvars, lock, gpc, gcmd, running, threadlist, selected,
                   chan, con, budget>>

-----------------------------------------------------------------------------
(* The bridge thread.                                                      *)

Goto(pc) == gpc' = pc
Say(a) == answers' = Append(answers, a)

\* The check ahead of the poll.
CheckLock ==
    /\ gpc = "top"
    /\ TakeLock("gdb")
    /\ Goto("check")
    /\ UNCHANGED <<svars, gcmd, con, budget>>

Halted_Commanded == "HALT" \in csr
Halted == halted

Check ==
    /\ gpc = "check"
    /\ IF running /\ link /\ Halted
       THEN running' = FALSE /\ Say("stopped") /\ Goto("update") /\ gcmd' = "none"
       ELSE Goto("unlock") /\ UNCHANGED <<running, answers, gcmd>>
    /\ UNCHANGED <<cvars, lvars, lock, threadlist, selected, chan, gdb, broken, con, budget>>

\* poll() reports a packet, or times out if there is none and the core is running.
PollPacket ==
    /\ gpc = "poll" /\ chan # <<>>
    /\ Goto("packet")
    /\ UNCHANGED <<cvars, lvars, svars, lock, gcmd, con, budget>>

PollTimeout_Never == gpc = "poll" /\ FALSE /\ UNCHANGED all
PollTimeout ==
    /\ gpc = "poll" /\ running /\ chan = <<>>
    /\ Goto("top")
    /\ UNCHANGED <<cvars, lvars, svars, lock, gcmd, con, budget>>

\* gdb_recv_cmd
Receive ==
    /\ gpc = "packet"
    /\ TakeLock("gdb")
    /\ gcmd' = Head(chan) /\ chan' = Tail(chan)
    /\ Goto("handle")
    /\ UNCHANGED <<running, threadlist, selected, answers, gdb, broken, con, budget>>

\* What a command asks of the core first.
CoreFunction ==
    [cmd \in {"c", "s", "?", "^C"} |->
        CASE cmd = "c" -> "resume" [] cmd = "s" -> "step" [] OTHER -> "halt"]

HandleCore ==
    /\ gpc = "handle" /\ gcmd \in DOMAIN CoreFunction
    /\ Call(CoreFunction[gcmd])
    /\ running' = (running /\ gcmd # "?")
    /\ Goto("core")
    /\ UNCHANGED <<lvars, lock, gcmd, threadlist, selected, chan, answers, gdb,
                   broken, con, budget>>

\* c and s: what resume or step returned is ignored and the core taken to run.
RunsNow_IfDone == running \/ op.res = 0
RunsNow == TRUE

NowRunning ==
    /\ gpc = "core" /\ Idle /\ gcmd \in Stopping
    /\ running' = RunsNow
    /\ Goto("unlock")
    /\ UNCHANGED <<cvars, lvars, lock, gcmd, threadlist, selected, chan, answers,
                   gdb, broken, con, budget>>

NowHalted ==
    /\ gpc = "core" /\ Idle /\ gcmd \in {"?", "^C"}
    /\ Goto("update")
    /\ UNCHANGED <<cvars, lvars, svars, lock, gcmd, con, budget>>

\* gdb_update_threads
Update ==
    /\ gpc = "update"
    /\ Free(Len(threadlist))
    /\ StartWalk
    /\ threadlist' = <<>>
    /\ Goto("walk")
    /\ UNCHANGED <<cvars, target, lock, gcmd, running, selected, chan, answers, gdb, broken,
                   con, budget>>

First(l) == IF l = <<>> THEN Null ELSE l[1]

Selection_OnlyC(l) == [selected EXCEPT !.c = First(l)]
Selection(l) == [g |-> First(l), c |-> First(l)]

\* ^C and ? send their answer once the list is there.
AfterStop_StillRuns == IF gcmd = "none" THEN UNCHANGED <<running, answers>>
                       ELSE UNCHANGED running /\ Say(IF gcmd = "^C" THEN "break" ELSE "ok")
AfterStop == IF gcmd = "none" THEN UNCHANGED <<running, answers>>
             ELSE /\ running' = FALSE
                  /\ Say(IF gcmd = "^C" THEN "break" ELSE "ok")

Updated ==
    /\ gpc = "walk" /\ walk.at = "done"
    /\ threadlist' = Records(walk)
    /\ selected' = Selection(Records(walk))
    /\ walk' = NoWalk
    /\ AfterStop
    /\ Goto("unlock")
    /\ UNCHANGED <<cvars, target, heap, lock, gcmd, chan, gdb, broken, con, budget>>

\* H: the thread asked for if it is in the list, or else the first.
Select ==
    /\ gpc = "handle" /\ gcmd = "H"
    /\ \E t \in Threads, w \in {"g", "c"} :
         selected' = [selected EXCEPT ![w] =
             IF \E i \in DOMAIN threadlist : threadlist[i] = t THEN t ELSE First(threadlist)]
    /\ Say("ok") /\ Goto("unlock")
    /\ UNCHANGED <<cvars, lvars, lock, gcmd, running, threadlist, chan, gdb, broken,
                   con, budget>>

\* g, p, qC, ...: commands that look at the selected thread or the core.
Look ==
    /\ gpc = "handle" /\ gcmd = "g"
    /\ Say("ok") /\ Goto("unlock")
    /\ UNCHANGED <<cvars, lvars, lock, gcmd, running, threadlist, selected, chan,
                   gdb, broken, con, budget>>

\* qRcmd drops the lock, and the command takes it as one of the console would.
ConsoleFunction == {"halt", "resume", "step"}

RcmdUnlock ==
    /\ gpc = "handle" /\ gcmd \in ConsoleFunction
    /\ DropLock /\ Goto("rcmd")
    /\ UNCHANGED <<cvars, lvars, svars, gcmd, con, budget>>

RcmdLock ==
    /\ gpc = "rcmd"
    /\ TakeLock("gdb") /\ Goto("rcmd locked")
    /\ UNCHANGED <<svars, gcmd, con, budget>>

RcmdRun ==
    /\ gpc = "rcmd locked"
    /\ Call(gcmd) /\ Goto("rcmd core")
    /\ UNCHANGED <<lvars, svars, lock, gcmd, con, budget>>

\* do_step waits for the core to halt.
RcmdWait ==
    /\ gpc = "rcmd core" /\ Idle /\ op.was = "step"
    /\ Call("wait")
    /\ UNCHANGED <<lvars, svars, lock, gpc, gcmd, con, budget>>

RcmdDone ==
    /\ gpc = "rcmd core" /\ Idle /\ op.was # "step"
    /\ DropLock /\ Goto("rcmd done")
    /\ UNCHANGED <<cvars, lvars, svars, gcmd, con, budget>>

RcmdRelock ==
    /\ gpc = "rcmd done"
    /\ TakeLock("gdb")
    /\ Say("ok") /\ Goto("unlock")
    /\ UNCHANGED <<running, threadlist, selected, chan, gdb, broken, gcmd, con, budget>>

\* After a check comes the poll; after a command the rest of what was read,
\* or the next check.
Unlock ==
    /\ gpc = "unlock"
    /\ DropLock
    /\ IF gcmd = "none" THEN Goto("poll")
       ELSE Goto("top") \/ (chan # <<>> /\ Goto("packet"))
    /\ gcmd' = "none"
    /\ UNCHANGED <<cvars, lvars, svars, con, budget>>

-----------------------------------------------------------------------------
(* The console thread.                                                     *)

ConLock ==
    /\ con = "idle" /\ budget.commands > 0
    /\ TakeLock("con") /\ con' = "locked"
    /\ budget' = [budget EXCEPT !.commands = @ - 1]
    /\ UNCHANGED <<svars, gpc, gcmd>>

\* stop, go, step, threads
ConRun(f) ==
    /\ con = "locked"
    /\ Call(IF f \in {"threads", "clear"} THEN "halt" ELSE f) /\ con' = f
    /\ UNCHANGED <<lvars, svars, lock, gpc, gcmd, budget>>

ConMaskInts(v) ==
    /\ con = "locked"
    /\ MaskInts(v) /\ con' = "done"
    /\ UNCHANGED <<lvars, svars, lock, gpc, gcmd, budget>>

ConWait ==
    /\ con = "step" /\ Idle
    /\ Call("wait") /\ con' = "wait"
    /\ UNCHANGED <<lvars, svars, lock, gpc, gcmd, budget>>

ConWalk ==
    /\ con = "threads" /\ Idle
    /\ StartWalk /\ con' = "walk"
    /\ UNCHANGED <<cvars, target, heap, svars, lock, gpc, gcmd, budget>>

\* The list is printed and freed.
ConFree ==
    /\ con = "walk" /\ walk.at = "done"
    /\ Free(Len(Records(walk))) /\ walk' = NoWalk /\ con' = "done"
    /\ UNCHANGED <<cvars, target, svars, lock, gpc, gcmd, budget>>

ConClear ==
    /\ con = "clear" /\ Idle
    /\ Wipe /\ con' = "done"
    /\ UNCHANGED <<cvars, walk, heap, svars, lock, gpc, gcmd, budget>>

ConUnlock ==
    /\ con \in {"halt", "resume", "wait", "done"} /\ Idle
    /\ DropLock /\ con' = "idle"
    /\ UNCHANGED <<cvars, lvars, svars, gpc, gcmd, budget>>

ConsoleThread ==
    \/ ConWait \/ ConWalk \/ ConFree \/ ConClear \/ ConUnlock
    \/ \E f \in ConsoleFunction \cup {"threads", "clear"} : ConRun(f)
    \/ \E v \in StepNoInts : ConMaskInts(v)

-----------------------------------------------------------------------------
Bridge ==
    \/ CheckLock \/ Check \/ PollPacket \/ PollTimeout \/ Receive
    \/ HandleCore \/ NowRunning \/ NowHalted \/ Update \/ Updated
    \/ Select \/ Look
    \/ RcmdUnlock \/ RcmdLock \/ RcmdRun \/ RcmdWait \/ RcmdDone \/ RcmdRelock
    \/ Unlock

CoreStep    == Core /\ UNCHANGED <<lvars, svars, lock, gpc, gcmd, con, budget>>
CoreRuns    == (Execute \/ HaltEnter) /\ UNCHANGED <<lvars, svars, lock, gpc, gcmd, con, budget>>
ControlStep == Control /\ UNCHANGED <<lvars, svars, lock, gpc, gcmd, con, budget>>
WalkStep    == Walk /\ UNCHANGED <<svars, lock, gpc, gcmd, con, budget>>
TypeAttn    == Interrupt /\ UNCHANGED <<lvars, svars, lock, gpc, gcmd, con, budget>>

Fault ==
    /\ \/ /\ budget.faults > 0
          /\ LinkDown
          /\ budget' = [budget EXCEPT !.faults = @ - 1]
       \/ LinkUp /\ UNCHANGED budget
    /\ UNCHANGED <<lvars, svars, lock, gpc, gcmd, con>>

Next ==
    \/ \E cmd \in Commands : GdbSend(cmd)
    \/ GdbBreak \/ GdbReceive
    \/ Bridge
    \/ ConLock \/ ConsoleThread
    \/ ControlStep \/ WalkStep \/ CoreStep
    \/ TypeAttn \/ Fault

\* Both threads go on, and get the lock when it is free again and again; the
\* core executes and heeds C_HALT, but need not meet a breakpoint; gdb takes what it
\* is sent.
Spec ==
    /\ SInit /\ [][Next]_all
    /\ SF_all(Bridge) /\ WF_all(ConsoleThread)
    /\ WF_all(ControlStep) /\ WF_all(WalkStep)
    /\ WF_all(CoreRuns) /\ WF_all(GdbReceive)

-----------------------------------------------------------------------------
\* Type invariant: core, thread list, the session and its lock.
STypeOK ==
    /\ CoreTypeOK /\ LkTypeOK
    /\ lock \in {"none", "gdb", "con"}
    /\ running \in BOOLEAN /\ threadlist \in Seq(Threads)
    /\ gdb \in {"new", "stopped", "stop", "reply"} /\ broken \in BOOLEAN

Underway == {chan[i] : i \in DOMAIN chan} \cup {gcmd}
Answered == {answers[i] : i \in DOMAIN answers}

\* gdb never waits for nothing: as long as it waits for a stop the bridge
\* watches the core, is about to, or has the answer under way; and a reply it
\* waits for is under way.
NeverStranded ==
    /\ gdb = "stop" =>
         running \/ Underway \cap (Stopping \cup {"^C"}) # {} \/ answers # <<>>
    /\ gdb = "reply" => Underway \ {"none", "^C"} # {} \/ answers # <<>>

\* Answers come in step: when gdb waits for nothing, the bridge neither watches
\* the core nor sends, but for the answer of a ^C that crossed with a stop.
InStep ==
    gdb = "stopped" =>
        /\ running => broken
        /\ broken \/ (chan = <<>> /\ answers = <<>>)
        /\ Len(chan) + Len(answers) <= 1

\* A stop is reported only of a core that is halted, a ^C answered only once the
\* core is halted or told to halt, unless the halt itself failed: its result is
\* ignored.
StopIsTrue ==
    [][/\ answers' = Append(answers, "stopped") => halted
       /\ answers' = Append(answers, "break") /\ op.res = 0 => "HALT" \in csr]_all

\* Each thread record is allocated once and freed once, whichever access fails
\* (find_lk_threads, free_lk_threads), and the selected threads are records the
\* bridge holds: no command reaches one through a pointer left from an earlier
\* stop (gdb_update_threads).
HeapExact == heap = Len(threadlist) + Len(Records(walk))

NoDangling ==
    gpc = "handle" /\ gcmd \in {"g", "H"} =>
        \A w \in {"g", "c"} :
            selected[w] = Null \/ \E i \in DOMAIN threadlist : threadlist[i] = selected[w]

RecordsSafe == NoDangling /\ HeapExact

\* A list the bridge shows is the target's, complete.
ListComplete == threadlist # <<>> => Complete(threadlist)

\* What keeps it from gdb: a step at the console, or of qRcmd, an access of which
\* failed without anyone looking, and which waits for a core that runs on to halt.
WaitsInVain == op.fn = "wait" /\ op.lost /\ ~halted

\* gdb hears of a core that stays halted, and a ^C is answered, but for a wait in vain.
StopArrives ==
    (gdb = "stop" /\ (halted \/ broken)) ~>
        (~(gdb = "stop" /\ (halted \/ broken)) \/ WaitsInVain)
=============================================================================
