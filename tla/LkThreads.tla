------------------------------- MODULE LkThreads -------------------------------
(***************************************************************************)
(* The thread list of a target that runs LK (lkdebug.c): it is copied out  *)
(* of the target's memory over a link that may fail at any access, a       *)
(* record being allocated for each thread.                                 *)
(***************************************************************************)
EXTENDS CoreControl, Sequences, FiniteSets

CONSTANTS
    Threads,       \* addresses of thread structures
    Rings,         \* the thread lists looked at, from the head to the head: no node twice
    BadMagic,      \* sets of threads looked at whose magic word is wrong
    Nobody         \* the null pointer

ASSUME LkAssumption ==
    /\ Rings \subseteq Seq(Threads) /\ BadMagic \subseteq SUBSET Threads
    /\ Nobody \notin Threads
    /\ \A r \in Rings : \A i, j \in DOMAIN r : r[i] = r[j] => i = j

VARIABLES
    ring, current, bad,  \* the target's thread list, current thread, broken threads
    wiped,               \* "threads clear" has overwritten the pointers to them
    walk,                \* find_lk_threads under way
    heap                 \* lkthread_t records allocated

target == <<ring, current, bad, wiped>>
lvars == <<target, walk, heap>>

\* at: where it is; rest: the list nodes still ahead; head: the record of the
\* current thread; list: those of the others, as linked.
NoWalk == [at |-> "off", rest |-> <<>>, head |-> Nobody, list |-> <<>>]

LkInit ==
    /\ ring \in Rings /\ current \in Threads /\ bad \in BadMagic
    /\ wiped = FALSE
    /\ walk = NoWalk /\ heap = 0

Records(w) == IF w.head = Nobody THEN w.list ELSE <<w.head>> \o w.list

StartWalk == walk' = [NoWalk EXCEPT !.at = "info"]

\* The fail label: what has been allocated is freed.
GiveUp ==
    /\ heap' = heap - Len(Records(walk))
    /\ walk' = [NoWalk EXCEPT !.at = "done"]

\* load_debuginfo; the address of the current thread.  An access to a wiped
\* pointer fails and leaves the link in error.
ReadInfo ==
    /\ walk.at = "info"
    /\ IF link /\ ~wiped
       THEN walk' = [walk EXCEPT !.at = "current"] /\ UNCHANGED <<link, heap>>
       ELSE GiveUp /\ link' = FALSE

\* read_lk_thread(t): a record, unless an access fails or the magic is wrong.
Readable(t) == link /\ t \notin bad

ReadCurrent ==
    /\ walk.at = "current"
    /\ IF Readable(current)
       THEN /\ walk' = [walk EXCEPT !.at = "next", !.head = current, !.rest = ring]
            /\ heap' = heap + 1
       ELSE GiveUp
    /\ UNCHANGED link

\* One turn of the loop: back at the head of the list, the current thread
\* once more, or another thread, whose record goes in front of the list.
Linked(t) == <<t>> \o walk.list

Known_Never(t) == FALSE
Known(t) == walk.head = t

ReadNext ==
    /\ walk.at = "next"
    /\ CASE ~link -> GiveUp
         [] link /\ walk.rest = <<>> -> walk' = [walk EXCEPT !.at = "done"] /\ UNCHANGED heap
         [] link /\ walk.rest # <<>> ->
              LET t == Head(walk.rest)
              IN  CASE Known(t) -> walk' = [walk EXCEPT !.rest = Tail(@)] /\ UNCHANGED heap
                    [] ~Known(t) /\ Readable(t) ->
                         /\ walk' = [walk EXCEPT !.rest = Tail(@), !.list = Linked(t)]
                         /\ heap' = heap + 1
                    [] OTHER -> GiveUp
    /\ UNCHANGED link

Walk ==
    /\ ReadInfo \/ ReadCurrent \/ ReadNext
    /\ UNCHANGED <<core, noints, attn, op, ran, irq, target>>

\* free_lk_threads of a finished list of n records.
Free(n) == heap' = heap - n

\* clear_lk_threads; a write that fails may have been made.
Wipe == wiped' \in {TRUE, wiped \/ link} /\ UNCHANGED <<ring, current, bad>>

-----------------------------------------------------------------------------
\* Type invariant: no more records are freed than were allocated.
LkTypeOK ==
    /\ walk.at \in {"off", "info", "current", "next", "done"}
    /\ Records(walk) \in Seq(Threads) /\ heap \in Nat /\ wiped \in BOOLEAN

\* The list of a complete walk: the current thread, then every other thread of
\* the target once.
Complete(l) ==
    /\ l[1] = current
    /\ {l[i] : i \in DOMAIN l} = {current} \cup {ring[i] : i \in DOMAIN ring}
    /\ \A i, j \in DOMAIN l : l[i] = l[j] => i = j
=============================================================================
