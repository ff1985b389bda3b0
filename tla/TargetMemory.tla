----------------------------- MODULE TargetMemory -----------------------------
(***************************************************************************)
(* What a debug transport promises of mem_rd_32, mem_wr_32, mem_rd_32_c    *)
(* and mem_wr_32_c (debugger.h): a call that succeeds has read what is in  *)
(* the target's memory, or has written its words, in order and nowhere     *)
(* else.  A call that fails may have got part of the way.                  *)
(***************************************************************************)
EXTENDS Integers, Sequences

CONSTANTS
    Size,     \* words of memory, at addresses 0 .. Size - 1
    Values    \* contents of a word

VARIABLES
    mem,  \* the target's memory
    call  \* the call under way and the words transferred so far

Addresses == 0 .. Size - 1

NoCall == [op |-> "none", addr |-> 0, words |-> 0, data |-> <<>>, done |-> 0, res |-> "none"]

\* A new call, within the memory: of n words to be read, or of the words in d.
ReadCall(a, n)  == [op |-> "read", addr |-> a, words |-> n, data |-> <<>>,
                    done |-> 0, res |-> "busy"]
WriteCall(a, d) == [op |-> "write", addr |-> a, words |-> Len(d), data |-> d,
                    done |-> 0, res |-> "busy"]

IsCall(c) == /\ c.addr \in Nat /\ c.words \in Nat
             /\ c.addr + c.words <= Size
             /\ \/ c = ReadCall(c.addr, c.words)
                \/ c.data \in Seq(Values) /\ c = WriteCall(c.addr, c.data)

Left == call.words - call.done
From == call.addr + call.done

\* Memory after the next k words of the call are written.
Written(k) == [a \in Addresses |-> IF a \in From .. From + k - 1
                                   THEN call.data[a - call.addr + 1] ELSE mem[a]]

Init == mem \in [Addresses -> Values] /\ call = NoCall

Start == /\ call.res # "busy"
         /\ IsCall(call')
         /\ UNCHANGED mem

Read(k) == /\ call.op = "read"
           /\ call' = [call EXCEPT !.done = @ + k,
                           !.data = @ \o [i \in 1 .. k |-> mem[From + i - 1]]]
           /\ UNCHANGED mem

Write(k) == /\ call.op = "write"
            /\ call' = [call EXCEPT !.done = @ + k]
            /\ mem' = Written(k)

Transfer == call.res = "busy" /\ \E k \in 1 .. Left : Read(k) \/ Write(k)

Succeed == /\ call.res = "busy"
           /\ Left = 0
           /\ call' = [call EXCEPT !.res = "ok"]
           /\ UNCHANGED mem

\* More words may have been written than were accounted for.
Fail == /\ call.res = "busy"
        /\ call' = [call EXCEPT !.res = "failed"]
        /\ \/ UNCHANGED mem
           \/ call.op = "write" /\ \E k \in 1 .. Left : mem' = Written(k)

\* The target loses its memory's contents.
PowerLoss == mem' \in [Addresses -> Values] /\ UNCHANGED call

Next == Start \/ Transfer \/ Succeed \/ Fail \/ PowerLoss

Spec == Init /\ [][Next]_<<mem, call>>
=============================================================================
