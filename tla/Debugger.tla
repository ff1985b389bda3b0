------------------------------ MODULE Debugger ------------------------------
(***************************************************************************)
(* The threads above the transport, and the lock they take around it       *)
(* (debugger-core.c, and the SWD side of error recovery in rswdp.c).       *)
(*                                                                         *)
(* The console, the gdb bridge and the web socket thread run commands; a   *)
(* command runs with _dbg_lock held, and taking the lock recovers from an  *)
(* error an earlier transaction left (debugger_lock).  The monitor thread  *)
(* polls the target four times a second under the same lock.  Before a     *)
(* console command takes the lock its arguments are evaluated, and an      *)
(* argument that names a register or a memory word reads the target        *)
(* without the lock (parse_number): those threads are Parsers.             *)
(***************************************************************************)
EXTENDS Rswdp

CONSTANTS
    Monitor,  \* the caller that is the monitor thread
    Parsers   \* the callers whose commands have register or memory arguments

ASSUME DebuggerAssumption ==
    /\ Monitor \in Callers
    /\ Parsers \subseteq Callers \ {Monitor}

VARIABLES
    dbg_lock, \* the thread that holds _dbg_lock, or NULL
    dpc       \* how far each thread is with its command

dvars == <<vars, dbg_lock, dpc>>

Stages == {"idle", "parse", "acquire", "locked", "clear", "attach1", "attach2",
           "poll", "command"}

DInit == /\ Init
         /\ dbg_lock = NULL
         /\ dpc = [c \in Callers |-> "idle"]

-----------------------------------------------------------------------------
\* Thread c is at a stage, with no transaction of its own under way.
At(c, stage) == dpc[c] = stage /\ cpc[c] = "idle"
Goto(c, stage) == dpc' = [dpc EXCEPT ![c] = stage]

\* The thread's next transaction; ABORT and the attach sequence zero swd_error.
Exec(c, bulk)  == QBuild(c, bulk, FALSE) /\ UNCHANGED dbg_lock
Recover(c)     == QBuild(c, FALSE, TRUE) /\ UNCHANGED dbg_lock

\* A line arrives for debugger_command, a packet for gdb_recv_cmd; the monitor
\* wakes up.
Request(c) ==
    /\ At(c, "idle")
    /\ Goto(c, IF c \in Parsers THEN "parse" ELSE "acquire")
    /\ UNCHANGED <<vars, dbg_lock>>

\* parse_number reads a register or a word of memory.
ParseRead(c) == At(c, "parse") /\ Exec(c, FALSE) /\ UNCHANGED dpc

\* All arguments have values, or one of them is bad.
ParseDone(c) ==
    /\ At(c, "parse")
    /\ \E stage \in {"acquire", "idle"} : Goto(c, stage)
    /\ UNCHANGED <<vars, dbg_lock>>

LockFree_Always == TRUE
LockFree        == dbg_lock = NULL

Lock(c) ==
    /\ At(c, "acquire")
    /\ LockFree
    /\ dbg_lock' = c
    /\ Goto(c, "locked")
    /\ UNCHANGED vars

Release(c) ==
    /\ dbg_lock' = NULL
    /\ Goto(c, "idle")
    /\ UNCHANGED vars

\* Where a thread goes on once the error is cleared: the monitor always reads
\* DFSR, a command handler does what the command asks for.
Enter(c) == Goto(c, IF c = Monitor THEN "poll" ELSE "command")

\* clear_error: nothing to do, or an ABORT.
NoError(c) ==
    /\ At(c, "locked")
    /\ ~swd_error
    /\ Enter(c)
    /\ UNCHANGED <<vars, dbg_lock>>

ClearError(c) == At(c, "locked") /\ swd_error /\ Recover(c) /\ Goto(c, "clear")

\* The ABORT worked if swd_error stayed zero.
Cleared(c) ==
    /\ At(c, "clear")
    /\ ~swd_error
    /\ Enter(c)
    /\ UNCHANGED <<vars, dbg_lock>>

\* It did not: the monitor gives up, everybody else attaches again.
MonitorGivesUp(c) == c = Monitor /\ At(c, "clear") /\ swd_error /\ Release(c)

Reattach(c) ==
    /\ c # Monitor
    /\ At(c, "clear")
    /\ swd_error
    /\ Recover(c)
    /\ Goto(c, "attach1")

\* The result of the first transaction of the attach sequence is not used.
AttachPowerUp(c) == At(c, "attach1") /\ Recover(c) /\ Goto(c, "attach2")

AttachDone(c) ==
    /\ At(c, "attach2")
    /\ Goto(c, "command")
    /\ UNCHANGED <<vars, dbg_lock>>

MonitorRead(c) == At(c, "poll") /\ Exec(c, FALSE) /\ Goto(c, "command")

\* What command handlers do, and monitor() if DFSR is not zero: transactions.
\* Some commands attach.
Command(c, bulk) == At(c, "command") /\ Exec(c, bulk) /\ UNCHANGED dpc

CommandAttach(c) ==
    /\ c # Monitor
    /\ At(c, "command")
    /\ Recover(c)
    /\ Goto(c, "attach1")

Unlock(c) == At(c, "command") /\ Release(c)

-----------------------------------------------------------------------------
\* The steps a thread takes by itself once its command is started.
Proceed(c) ==
    \/ ParseDone(c) \/ NoError(c) \/ ClearError(c) \/ Cleared(c)
    \/ MonitorGivesUp(c) \/ MonitorRead(c) \/ Reattach(c) \/ AttachPowerUp(c) \/ AttachDone(c)

Thread(c) ==
    \/ Request(c) \/ ParseRead(c) \/ Lock(c) \/ Proceed(c) \/ CommandAttach(c)
    \/ Unlock(c)
    \/ \E bulk \in BOOLEAN : Command(c, bulk)

Transport == (Reader \/ Environment \/ \E c \in Callers : Caller(c))
             /\ UNCHANGED <<dbg_lock, dpc>>

DNext == Transport \/ \E c \in Callers : Thread(c)

DSpec == DInit /\ [][DNext]_dvars

\* Threads run; a mutex is handed to each thread that keeps asking; a command
\* handler returns; the monitor polls; the probe answers what it has, trace data
\* or not; the listeners take the trace data the reader hands them (part of Reader).
\* Nobody has to type a command.
Fairness ==
    /\ WF_dvars(Reader /\ UNCHANGED <<dbg_lock, dpc>>)
    /\ SF_dvars((\E ok \in BOOLEAN : ProbeAnswer(ok)) /\ UNCHANGED <<dbg_lock, dpc>>)
    /\ WF_dvars(Request(Monitor))
    /\ \A c \in Callers : /\ WF_dvars(Caller(c) /\ UNCHANGED <<dbg_lock, dpc>>)
                          /\ WF_dvars(Proceed(c))
                          /\ SF_dvars(Lock(c))
                          /\ SF_dvars(Unlock(c))

FairSpec == DSpec /\ Fairness

-----------------------------------------------------------------------------
\* Type invariant: the transport's, and the lock and the stage of each thread
\* (debugger_lock, debugger_unlock).
DTypeOK == /\ TypeOK
           /\ dbg_lock \in Callers \cup {NULL}
           /\ dpc \in [Callers -> Stages]

\* "lock to protect underlying rswdp state" (debugger.h): no thread takes the
\* contents of a buffer no reply was copied into, or another call's reply, for
\* the answer to its transaction.
OwnReply ==
    \A c \in Callers : cpc[c] = "reply" => data[c] # Garbage /\ data[c].id = id[c]

\* The packets on their way to caller c, or with it already, that carry the id it
\* waits for; whether its transaction is still to be taken by the probe.
Answers(c) == {p \in Elements(toHost) \cup {packet, data[c]} : p.id = id[c]}
Asked(c) == \E t \in Elements(toProbe) : t.id = id[c]

\* Where the transaction a caller waits for has got to.
CallState(c) ==
    CASE cpc[c] \in {"idle", "built"} -> "none"
      [] cpc[c] = "reply" ->
             IF data[c] \notin Answers(c) THEN "bogus"
             ELSE IF data[c].kind = "ok" THEN "returnedOk" ELSE "returnedErr"
      [] OTHER ->
             IF Failed THEN "lost"
             ELSE IF Answers(c) # {} THEN (CHOOSE p \in Answers(c) : TRUE).kind
             ELSE IF Asked(c) THEN "sent"
             ELSE "lost"

\* q_exec is a remote call: it returns what the probe answered to this very
\* transaction, and fails only if the connection broke.
Calls == INSTANCE RemoteCall WITH call <- [c \in Callers |-> CallState(c)]
ImplementsRemoteCall == Calls!Spec

\* "swd_thread is responsible for setting swd_online to 1 once the USB
\* connection is active": a probe that stays is eventually on line for good.
ComesOnline == <>[]plugged => <>[](swd_online = 1)

\* Every q_exec that sent its transaction returns: with the reply, or because
\* the connection broke.
CallsReturn == \A c \in Callers : InCall(c) ~> cpc[c] = "idle"
=============================================================================
