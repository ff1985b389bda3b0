------------------------------- MODULE GdbMemory -------------------------------
(***************************************************************************)
(* The gdb bridge's m and M commands (gdb-bridge.c: handle_command and     *)
(* write_memory), which read and write bytes, over AhbMemory, which        *)
(* transfers words.  A command runs under _dbg_lock, with the core halted; *)
(* it goes on with what it has whether the calls it makes succeed or not.  *)
(***************************************************************************)
EXTENDS AhbMemory

CONSTANTS
    Bytes,       \* contents of a byte
    Contents,    \* contents of memory at first
    Garbage,     \* contents of a byte of the stack nothing was stored in
    Sent,        \* the bytes gdb writes, from the first
    MaxCmds      \* bound: commands in a behaviour

VARIABLES
    gdb,    \* the command: its address and length, the bytes it has left to write
    stage,  \* where the bridge is with it
    x,      \* the word it reads, modifies and writes
    reply,  \* the bytes sent back
    before, \* memory when the command started
    good,   \* all calls of the command have succeeded
    cmds

gvars == <<mem, call, how, inc, sticky, gdb, stage, x, reply, before, good, cmds>>
bridge == <<gdb, stage, x, reply, before, good, cmds>>

\* A word is its four bytes.
Offsets == 0 .. 3
GarbageWord == [b \in Offsets |-> Garbage]
Limit == 4 * Size

ASSUME GdbMemoryAssumption ==
    /\ Values = [Offsets -> Bytes]
    /\ Contents \subseteq [Memory!Addresses -> Values]
    /\ Garbage \in Bytes
    /\ Sent \in [1 .. Limit -> Bytes]

Byte(m, k) == m[k \div 4][k % 4]

NoCommand == [op |-> "none", addr |-> 0, len |-> 0, at |-> 0, data |-> <<>>]

\* inc and sticky: as an earlier command may have left them.
GInit ==
    /\ mem \in Contents
    /\ call = Memory!NoCall /\ how = "bulk" /\ inc \in BOOLEAN /\ sticky \in BOOLEAN
    /\ gdb = NoCommand
    /\ stage = "idle" /\ x = GarbageWord /\ reply = <<>> /\ before = mem
    /\ good = TRUE /\ cmds = 0

-----------------------------------------------------------------------------
Begin(cmd, first) ==
    /\ stage = "idle"
    /\ cmds < MaxCmds
    /\ cmds' = cmds + 1
    /\ gdb' = cmd
    /\ stage' = first
    /\ x' = GarbageWord
    /\ reply' = <<>>
    /\ before' = mem
    /\ good' = TRUE
    /\ ClearError

Ended == call.res # "busy"
Ok == call.res = "ok"

\* m: the words fetched start with the one that holds the first byte, and are
\* as many as the bytes asked for would fill.
WordsFetched(cmd) == (cmd.len + 3) \div 4

BeginRead(a, n) ==
    LET cmd == [op |-> "m", addr |-> a, len |-> n, at |-> 0, data |-> <<>>]
    IN  /\ (a \div 4) + WordsFetched(cmd) <= Size
        /\ Begin(cmd, "fetch")

Fetch ==
    /\ stage = "fetch"
    /\ Start(Memory!ReadCall(gdb.addr \div 4, WordsFetched(gdb)), "bulk")
    /\ stage' = "reply"
    /\ UNCHANGED <<gdb, x, reply, before, good, cmds>>

Reply ==
    /\ stage = "reply"
    /\ Ended
    /\ reply' = [i \in 1 .. gdb.len |->
                    LET k == (gdb.addr % 4) + i - 1
                    IN  IF k < 4 * Len(call.data) THEN call.data[(k \div 4) + 1][k % 4] ELSE Garbage]
    /\ good' = Ok
    /\ stage' = "done"
    /\ UNCHANGED <<avars, gdb, x, before, cmds>>

\* M: how write_memory goes on when n bytes are left, at address a.
Phase(a, n) == IF n < 1 THEN "done"
               ELSE IF a % 4 # 0 THEN "head"
               ELSE IF n > 3 THEN "body" ELSE "tail"

BeginWrite(a, n) ==
    /\ a + n <= Limit
    /\ Begin([op |-> "M", addr |-> a, len |-> n, at |-> a,
              data |-> [i \in 1 .. n |-> Sent[i]]], Phase(a, n))

\* The head and the tail of the data share a word with other bytes: read it.
ReadShared ==
    /\ stage \in {"head", "tail"}
    /\ Ended
    /\ Start(Memory!ReadCall(gdb.at \div 4, 1), "single")
    /\ stage' = "merge"
    /\ UNCHANGED <<gdb, x, reply, before, good, cmds>>

\* Modify it, and write it back.
Merge_Overrun(w, off, d) ==
    [b \in Offsets |-> IF b < off THEN w[b] ELSE IF b - off + 1 \in DOMAIN d THEN d[b - off + 1] ELSE Garbage]
Merge(w, off, d) == [b \in Offsets |-> IF b - off + 1 \in DOMAIN d THEN d[b - off + 1] ELSE w[b]]

Count(at, n) == Least(4 - (at % 4), n)
Taken(k) == [gdb EXCEPT !.at = @ + k, !.data = SubSeq(@, k + 1, Len(@))]

WriteShared ==
    /\ stage = "merge"
    /\ Ended
    /\ x' = Merge(IF Ok THEN call.data[1] ELSE x, gdb.at % 4, gdb.data)
    /\ good' = (good /\ Ok)
    /\ Start(Memory!WriteCall(gdb.at \div 4, <<x'>>), "single")
    /\ gdb' = Taken(Count(gdb.at, Len(gdb.data)))
    /\ stage' = "wait"
    /\ UNCHANGED <<reply, before, cmds>>

\* Whole words in between.
WriteWhole ==
    /\ stage = "body"
    /\ Ended
    /\ LET n == Len(gdb.data) \div 4
       IN  /\ Start(Memory!WriteCall(gdb.at \div 4,
                    [w \in 1 .. n |-> [b \in Offsets |-> gdb.data[4 * (w - 1) + b + 1]]]), "bulk")
           /\ gdb' = Taken(4 * n)
    /\ stage' = "wait"
    /\ UNCHANGED <<x, reply, before, good, cmds>>

Written ==
    /\ stage = "wait"
    /\ Ended
    /\ good' = (good /\ Ok)
    /\ stage' = Phase(gdb.at, Len(gdb.data))
    /\ UNCHANGED <<avars, gdb, x, reply, before, cmds>>

\* The answer is sent and the lock given up.
Finish ==
    /\ stage = "done"
    /\ stage' = "idle"
    /\ UNCHANGED <<avars, gdb, x, reply, before, good, cmds>>

Bridge == Fetch \/ Reply \/ ReadShared \/ WriteShared \/ WriteWhole \/ Written \/ Finish

GNext ==
    \/ \E a \in 0 .. Limit - 1, n \in 0 .. Limit : BeginRead(a, n) \/ BeginWrite(a, n)
    \/ Bridge
    \/ Transaction /\ UNCHANGED bridge

GSpec == GInit /\ [][GNext]_gvars

-----------------------------------------------------------------------------
InRange(k) == gdb.addr <= k /\ k < gdb.addr + gdb.len

\* "convert non-aligned writes into a read-modify-write followed by an aligned
\* multiword write, followed by a read-modify-write": for any address and
\* length, what memory holds afterwards is the bytes gdb wrote where it wrote
\* them.
WriteStores ==
    stage = "done" /\ gdb.op = "M" /\ good =>
        \A k \in 0 .. Limit - 1 : InRange(k) => Byte(mem, k) = Sent[(k - gdb.addr) + 1]

\* The bytes next to those written are not changed, at no moment of the command,
\* as long as the calls it makes succeed.
NeighboursIntact == \A k \in 0 .. Limit - 1 : ~InRange(k) => Byte(mem, k) = Byte(before, k)

NeighboursKept == gdb.op = "M" /\ good => NeighboursIntact

\* Both: bytes land where they belong and nowhere else.  When a call fails
\* neither has to hold: write_memory does not see that the read of its
\* read-modify-write has failed, and writes back what is on its stack.
WriteExact == WriteStores /\ NeighboursKept

\* m answers with the bytes that are in memory, when the words fetched cover
\* the bytes asked for: their number is computed from the length alone, and a
\* read that starts late in a word may need one more, which is garbage then.
Answered == stage = "done" /\ gdb.op = "m" /\ good
Correct == \A i \in 1 .. gdb.len : reply[i] = Byte(mem, gdb.addr + i - 1)

ReadReturns == Answered /\ (gdb.addr % 4) + gdb.len <= 4 * ((gdb.len + 3) \div 4) => Correct
=============================================================================
