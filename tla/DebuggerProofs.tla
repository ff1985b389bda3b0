--------------------------- MODULE DebuggerProofs ---------------------------
(***************************************************************************)
(* Proofs about the transport and the threads above it.  The types, and    *)
(* the safety of the handle, the slot and the condition variable, hold for *)
(* any number of callers and under every fault.  What the transport        *)
(* guarantees to any callers it guarantees to the debugger's threads; and  *)
(* as long as no thread runs a transaction outside _dbg_lock, every call   *)
(* gets its own reply.                                                     *)
(***************************************************************************)
EXTENDS Debugger, TLAPS

\* The ids the initial state uses are sequence numbers.
LEMMA SmallIds == 0 \in Ids /\ 1 \in Ids
  BY ConstantsAssumption DEF Ids

\* The sequence number stays within its 16 bits.
LEMMA SequenceInRange == \A n \in Ids : NextSequence(n) \in Ids
  BY ConstantsAssumption DEF Ids, NextSequence

\* What usb_write puts on the wire is a transaction.
LEMMA SendTyped ==
  ASSUME TypeOK, NEW kind \in {"query", "txn"}, NEW words \in Sizes \cup {0},
         Send(kind, words)
  PROVE  toProbe' \in Seq(Txns)
  <1>1. [kind |-> kind, id |-> sequence, size |-> words] \in Txns
    BY DEF TypeOK, Txns
  <1> QED
    BY <1>1 DEF TypeOK, Send

\* The head of a pipe is an element of it.
LEMMA HeadTail ==
  ASSUME NEW S, NEW s \in Seq(S), s # <<>>
  PROVE  Head(s) \in S /\ Tail(s) \in Seq(S)
  OBVIOUS

\* The types hold initially, and every step preserves them.
LEMMA TypeInit == Init => TypeOK
  <1> SUFFICES ASSUME Init PROVE TypeOK
    OBVIOUS
  <1>1. toProbe \in Seq(Txns) /\ toHost \in Seq(Packets)
    BY DEF Init
  <1> QED
    BY <1>1, ConstantsAssumption, SmallIds DEF Init, TypeOK

\* One case per action; only what a step assigns needs an argument.
LEMMA TypeStep == TypeOK /\ [Next]_vars => TypeOK'
  <1> SUFFICES ASSUME TypeOK, [Next]_vars PROVE TypeOK'
    OBVIOUS
  <1> USE ConstantsAssumption DEF TypeOK, slot, frame, reader, pipes, probe
  <1>0. CASE UNCHANGED vars
    BY <1>0 DEF vars
  <1>1. ASSUME NEW c \in Callers, QAckDisconnect(c) PROVE TypeOK'
    BY <1>1, SequenceInRange, SmallIds DEF QAckDisconnect, QStamp, QReturn, WakeCallers, WakeReader
  <1>2. ASSUME NEW c \in Callers, QOffline(c) PROVE TypeOK'
    BY <1>2, SequenceInRange, SmallIds DEF QOffline, QStamp, QReturn
  <1>3. ASSUME NEW c \in Callers, QWrite(c) PROVE TypeOK'
    <2>1. size[c] \in Sizes \cup {0} /\ Send("txn", size[c])
      BY <1>3 DEF QWrite
    <2>2. toProbe' \in Seq(Txns)
      BY <2>1, SendTyped
    <2>3. sequence' \in Ids /\ swd_txn_id' \in Ids /\ swd_txn_status' = WAIT
      BY <1>3, SequenceInRange DEF QWrite, QStamp
    <2> QED
      BY <1>3, <2>2, <2>3, SmallIds DEF QWrite, QStamp
  <1>4. ASSUME NEW c \in Callers, QWriteFail(c) PROVE TypeOK'
    <2>1. size[c] \in Sizes \cup {0} /\ (UNCHANGED toProbe \/ Send("txn", size[c]))
      BY <1>4 DEF QWriteFail
    <2>2. toProbe' \in Seq(Txns)
      BY <2>1, SendTyped
    <2>3. sequence' \in Ids
      BY <1>4, SequenceInRange DEF QWriteFail, QStamp
    <2> QED
      BY <1>4, <2>2, <2>3, SmallIds DEF QWriteFail, QStamp, QReturn
  <1>5. ASSUME NEW c \in Callers, QWaitAgain(c) PROVE TypeOK'
    BY <1>5, SequenceInRange, SmallIds DEF QWaitAgain
  <1>6. ASSUME NEW c \in Callers, QWake(c) PROVE TypeOK'
    BY <1>6, SequenceInRange, SmallIds DEF QWake, QReturn
  <1>7. ASSUME NEW c \in Callers, QReply(c) PROVE TypeOK'
    BY <1>7, SequenceInRange, SmallIds DEF QReply, QReturn
  <1>8. ASSUME NEW c \in Callers, NEW bulk \in BOOLEAN, NEW clears \in BOOLEAN,
             QBuild(c, bulk, clears) PROVE TypeOK'
    BY <1>8 DEF QBuild
  <1>9. ASSUME NEW h \in Handles, ROpen(h) PROVE TypeOK'
    BY <1>9 DEF ROpen
  <1>10. CASE RQuery
    BY <1>10, SequenceInRange, SendTyped DEF RQuery
  <1>11. CASE RRead
    BY <1>11 DEF RRead
  <1>12. CASE RReadGone
    BY <1>12 DEF RReadGone
  <1>13. CASE RDisconnect
    BY <1>13 DEF RDisconnect, WakeCallers
  <1>14. CASE RDiscard
    BY <1>14 DEF RDiscard
  <1>15. CASE RQueryReply
    BY <1>15 DEF RQueryReply, QueriedSize
  <1>16. CASE RAsync
    BY <1>16 DEF RAsync
  <1>17. CASE RAsyncDone
    BY <1>17 DEF RAsyncDone
  <1>18. CASE RDeliver
    <2>1. packet \in Packets
      BY <1>18 DEF RDeliver, IsPending, NoPacket, ReadError, NoId, Ids
    <2> QED
      BY <1>18, <2>1 DEF RDeliver, WakeCallers
  <1>19. CASE RUnexpected
    BY <1>19 DEF RUnexpected
  <1>20. CASE RAckAgain
    BY <1>20 DEF RAckAgain
  <1>21. CASE RAcked
    BY <1>21 DEF RAcked
  <1>22. CASE RReadFault
    BY <1>22 DEF RReadFault
  <1>23. CASE ProbeLose
    BY <1>23, SequenceInRange DEF ProbeLose
  <1>24. CASE Unplug
    <2>1. toProbe' \in Seq(Txns) /\ toHost' \in Seq(Packets)
      BY <1>24 DEF Unplug
    <2>2. live' \in SUBSET open' /\ plugged' \in BOOLEAN
      BY <1>24 DEF Unplug
    <2>3. UNCHANGED <<sequence, swd_online, usb, slot, swd_maxwords, swd_error, frame,
                      reader, open, rxmax>>
      BY <1>24 DEF Unplug
    <2> QED
      BY <2>1, <2>2, <2>3
  <1>25. CASE SpuriousReader
    BY <1>25, SequenceInRange DEF SpuriousReader
  <1>26. ASSUME NEW ok \in BOOLEAN, ProbeAnswer(ok) PROVE TypeOK'
    <2>1. Head(toProbe) \in Txns /\ Tail(toProbe) \in Seq(Txns)
      BY <1>26, HeadTail DEF ProbeAnswer
    <2>2. Head(toProbe).id \in Ids
      BY <2>1 DEF Txns
    <2>3. [kind |-> CASE ~ok -> "err"
                      [] ok /\ Head(toProbe).kind = "query" -> "version"
                      [] OTHER -> "ok",
           id |-> Head(toProbe).id] \in Packets
      BY <2>2 DEF Packets
    <2> QED
      BY <1>26, <2>1, <2>3 DEF ProbeAnswer
  <1>27. ASSUME NEW kind \in {"async", "junk"}, ProbeNoise(kind) PROVE TypeOK'
    BY <1>27 DEF ProbeNoise, Packets
  <1>28. ASSUME NEW words \in Sizes, Plug(words) PROVE TypeOK'
    BY <1>28 DEF Plug
  <1>29. ASSUME NEW c \in Callers, SpuriousCaller(c) PROVE TypeOK'
    BY <1>29 DEF SpuriousCaller
  <1> QED
    BY <1>0, <1>1, <1>2, <1>3, <1>4, <1>5, <1>6, <1>7, <1>8, <1>9, <1>10, <1>11, <1>12,
       <1>13, <1>14, <1>15, <1>16, <1>17, <1>18, <1>19, <1>20, <1>21, <1>22, <1>23,
       <1>24, <1>25, <1>26, <1>27, <1>28, <1>29
    DEF Next, Caller, QExec, Reader, Environment

\* Every variable of the transport keeps its type, whatever the callers do and
\* whatever goes wrong.
THEOREM TypeCorrect == Spec => []TypeOK
  BY TypeInit, TypeStep, PTL DEF Spec

-----------------------------------------------------------------------------
(***************************************************************************)
(* The inductive invariant.  HandleSafe, SlotSafe, NoStaleReply and        *)
(* NoLostWakeup support one another: RDeliver copies to the frame SlotSafe *)
(* says is waiting, SlotSafe survives a disconnect because its callers are *)
(* failed, and a handle is closed only in the states Handshake describes.  *)
(***************************************************************************)

\* Nothing is pending, and no handle is open, to begin with.
LEMMA SafetyInit == Init => SafetyInvariant
  BY TypeInit, ConstantsAssumption
  DEF Init, SafetyInvariant, HandleSafe, SlotSafe, NoStaleReply, NoLostWakeup, Handshake,
      InCall, IDLE, WAIT

\* One case per action.
LEMMA SafetyStep == SafetyInvariant /\ [Next]_vars => SafetyInvariant'
  <1> SUFFICES ASSUME SafetyInvariant, [Next]_vars PROVE SafetyInvariant'
    OBVIOUS
  <1> DEFINE Safe == HandleSafe /\ SlotSafe /\ NoStaleReply /\ NoLostWakeup /\ Handshake
  <1>t. TypeOK'
    BY TypeStep DEF SafetyInvariant
  <1>f. /\ cpc \in [Callers -> {"idle", "built", "wait", "woken", "reply"}]
        /\ id \in [Callers -> Ids]
        /\ data \in [Callers -> Packets \cup {Garbage}]
        /\ swd_txn_data \in Callers \cup {NULL}
        /\ swd_online \in {-1, 0, 1}
        /\ usb \in Handles \cup {NULL}
        /\ open \in SUBSET Handles
    BY DEF SafetyInvariant, TypeOK
  <1>s. Safe
    BY DEF SafetyInvariant
  <1> USE <1>f, <1>s, ConstantsAssumption
      DEF HandleSafe, SlotSafe, NoStaleReply, NoLostWakeup, Handshake, InCall,
          WAIT, FAIL, IDLE, DONE, slot, frame, reader, pipes, probe
  <1>0. ASSUME UNCHANGED vars PROVE Safe'
    BY <1>0 DEF vars
  <1>1. ASSUME NEW c \in Callers, QAckDisconnect(c) PROVE Safe'
    BY <1>1 DEF QAckDisconnect, QStamp, QReturn, WakeCallers, WakeReader
  <1>2. ASSUME NEW c \in Callers, QOffline(c) PROVE Safe'
    BY <1>2 DEF QOffline, QStamp, QReturn
  <1>3. ASSUME NEW c \in Callers, QWrite(c) PROVE Safe'
    BY <1>3 DEF QWrite, QStamp, Send, CanWrite
  <1>4. ASSUME NEW c \in Callers, QWriteFail(c) PROVE Safe'
    BY <1>4 DEF QWriteFail, QStamp, QReturn
  <1>5. ASSUME NEW c \in Callers, QWaitAgain(c) PROVE Safe'
    BY <1>5 DEF QWaitAgain, StillWaiting
  <1>6. ASSUME NEW c \in Callers, QWake(c) PROVE Safe'
    BY <1>6 DEF QWake, StillWaiting, Failed, QReturn
  <1>7. ASSUME NEW c \in Callers, QReply(c) PROVE Safe'
    BY <1>7 DEF QReply, QReturn
  <1>8. ASSUME NEW c \in Callers, NEW bulk \in BOOLEAN, NEW clears \in BOOLEAN,
             QBuild(c, bulk, clears) PROVE Safe'
    BY <1>8 DEF QBuild
  <1>9. ASSUME NEW h \in Handles, ROpen(h) PROVE Safe'
    BY <1>9 DEF ROpen
  <1>10. ASSUME RQuery PROVE Safe'
    BY <1>10 DEF RQuery
  <1>11. ASSUME RRead PROVE Safe'
    BY <1>11 DEF RRead
  <1>12. ASSUME RReadGone PROVE Safe'
    BY <1>12 DEF RReadGone
  <1>13. ASSUME RDisconnect PROVE Safe'
    BY <1>13 DEF RDisconnect, WakeCallers
  <1>14. ASSUME RDiscard PROVE Safe'
    BY <1>14 DEF RDiscard
  <1>15. ASSUME RQueryReply PROVE Safe'
    BY <1>15 DEF RQueryReply
  <1>16. ASSUME RAsync PROVE Safe'
    BY <1>16 DEF RAsync
  <1>17. ASSUME RAsyncDone PROVE Safe'
    BY <1>17 DEF RAsyncDone
  <1>18. ASSUME RDeliver PROVE Safe'
    BY <1>18 DEF RDeliver, IsPending, WakeCallers
  <1>19. ASSUME RUnexpected PROVE Safe'
    BY <1>19 DEF RUnexpected
  <1>20. ASSUME RAckAgain PROVE Safe'
    BY <1>20 DEF RAckAgain, Acked
  <1>21. ASSUME RAcked PROVE Safe'
    BY <1>21 DEF RAcked, Acked
  <1>22. ASSUME RReadFault PROVE Safe'
    BY <1>22 DEF RReadFault
  <1>23. ASSUME ProbeLose PROVE Safe'
    BY <1>23 DEF ProbeLose
  <1>24. ASSUME Unplug PROVE Safe'
    BY <1>24 DEF Unplug
  <1>25. ASSUME SpuriousReader PROVE Safe'
    BY <1>25 DEF SpuriousReader
  <1>26. ASSUME NEW ok \in BOOLEAN, ProbeAnswer(ok) PROVE Safe'
    BY <1>26 DEF ProbeAnswer
  <1>27. ASSUME NEW kind \in {"async", "junk"}, ProbeNoise(kind) PROVE Safe'
    BY <1>27 DEF ProbeNoise
  <1>28. ASSUME NEW words \in Sizes, Plug(words) PROVE Safe'
    BY <1>28 DEF Plug
  <1>29. ASSUME NEW c \in Callers, SpuriousCaller(c) PROVE Safe'
    BY <1>29 DEF SpuriousCaller
  <1>q. Safe'
    BY <1>0, <1>1, <1>2, <1>3, <1>4, <1>5, <1>6, <1>7, <1>8, <1>9, <1>10, <1>11, <1>12,
       <1>13, <1>14, <1>15, <1>16, <1>17, <1>18, <1>19, <1>20, <1>21, <1>22, <1>23,
       <1>24, <1>25, <1>26, <1>27, <1>28, <1>29
    DEF Next, Caller, QExec, Reader, Environment
  <1> QED
    BY <1>t, <1>q DEF SafetyInvariant

\* The inductive invariant holds in every reachable state.
THEOREM Safety == Spec => []SafetyInvariant
  BY SafetyInit, SafetyStep, PTL DEF Spec

\* No thread uses a closed usb handle, closes one twice or loses one.
THEOREM HandleSafety == Spec => []HandleSafe
  <1>1. SafetyInvariant => HandleSafe
    BY DEF SafetyInvariant
  <1> QED
    BY <1>1, Safety, PTL

\* A pending transaction always points into the frame of a q_exec that waits.
THEOREM SlotSafety == Spec => []SlotSafe
  <1>1. SafetyInvariant => SlotSafe
    BY DEF SafetyInvariant
  <1> QED
    BY <1>1, Safety, PTL

\* No caller is handed a late reply to a transaction it did not send.
THEOREM NoStaleReplies == Spec => []NoStaleReply
  <1>1. SafetyInvariant => NoStaleReply
    BY DEF SafetyInvariant
  <1> QED
    BY <1>1, Safety, PTL

\* A thread blocks on swd_event only while what it waits for is outstanding.
THEOREM NoLostWakeups == Spec => []NoLostWakeup
  <1>1. SafetyInvariant => NoLostWakeup
    BY DEF SafetyInvariant
  <1> QED
    BY <1>1, Safety, PTL

-----------------------------------------------------------------------------
\* The stages in which a thread holds _dbg_lock.
LockedStages == {"locked", "clear", "attach1", "attach2", "poll", "command"}

\* A step of the threads is a step of the transport, or leaves it alone.
LEMMA TransportStep == [DNext]_dvars => [Next]_vars
  <1> SUFFICES ASSUME [DNext]_dvars PROVE [Next]_vars
    OBVIOUS
  <1>1. CASE UNCHANGED dvars
    BY <1>1 DEF dvars
  <1>2. CASE Transport
    BY <1>2 DEF Transport, Next
  <1>3. ASSUME NEW c \in Callers, Thread(c) PROVE [Next]_vars
    <2>1. CASE \E bulk, clears \in BOOLEAN : QBuild(c, bulk, clears)
      BY <2>1 DEF Next
    <2>2. CASE UNCHANGED vars
      BY <2>2
    <2> QED
      BY <1>3, <2>1, <2>2
      DEF Thread, Proceed, Request, ParseRead, ParseDone, Lock, NoError, ClearError,
          Cleared, MonitorGivesUp, Release, Reattach, AttachPowerUp, AttachDone,
          MonitorRead, Command, CommandAttach, Unlock, Exec, Recover
  <1> QED
    BY <1>1, <1>2, <1>3 DEF DNext

\* The transport is as safe under the debugger as under any callers.
THEOREM TransportSafe == DSpec => []SafetyInvariant
  <1>1. DInit => SafetyInvariant
    BY SafetyInit DEF DInit
  <1>2. SafetyInvariant /\ [DNext]_dvars => SafetyInvariant'
    BY SafetyStep, TransportStep
  <1> QED
    BY <1>1, <1>2, PTL DEF DSpec

\* The lock is free or held by a thread, and every thread is at a place of its
\* command, whatever the commands read outside the lock.
THEOREM ThreadsTyped == DSpec => []DTypeOK
  <1> DEFINE Threads == dbg_lock \in Callers \cup {NULL} /\ dpc \in [Callers -> Stages]
  <1>1. DInit => Threads
    BY DEF DInit, Stages
  <1>2. Threads /\ [DNext]_dvars => Threads'
    <2> SUFFICES ASSUME Threads, [DNext]_dvars PROVE Threads'
      OBVIOUS
    <2>1. CASE UNCHANGED dvars
      BY <2>1 DEF dvars
    <2>2. CASE Transport
      BY <2>2 DEF Transport
    <2>3. ASSUME NEW c \in Callers, Thread(c) PROVE Threads'
      <3>1. dpc' = dpc \/ \E stage \in Stages : Goto(c, stage)
        BY <2>3
        DEF Thread, Proceed, Request, ParseRead, ParseDone, Lock, NoError, ClearError,
            Cleared, MonitorGivesUp, Release, Reattach, AttachPowerUp, AttachDone,
            MonitorRead, Command, CommandAttach, Unlock, Enter, Stages
      <3>2. dbg_lock' = dbg_lock \/ dbg_lock' = NULL \/ dbg_lock' = c
        BY <2>3
        DEF Thread, Proceed, Request, ParseRead, ParseDone, Lock, NoError, ClearError,
            Cleared, MonitorGivesUp, Release, Reattach, AttachPowerUp, AttachDone,
            MonitorRead, Command, CommandAttach, Unlock, Exec, Recover
      <3> QED
        BY <3>1, <3>2 DEF Goto
    <2> QED
      BY <2>1, <2>2, <2>3 DEF DNext
  <1>3. SafetyInvariant => TypeOK
    BY DEF SafetyInvariant
  <1>4. TypeOK /\ Threads => DTypeOK
    BY DEF DTypeOK
  <1> HIDE DEF Threads
  <1> QED
    BY <1>1, <1>2, <1>3, <1>4, TransportSafe, PTL DEF DSpec
-----------------------------------------------------------------------------
(***************************************************************************)
(* One thread at a time has a transaction under way.  That is true only if *)
(* no command evaluates a register or memory argument, which is done       *)
(* without the lock: the theorems below assume Parsers = {}, and the run   *)
(* DebuggerParse shows what happens otherwise.                           *)
(***************************************************************************)

LockUsed ==
    /\ dbg_lock \in Callers \cup {NULL}
    /\ dpc \in [Callers -> Stages \ {"parse"}]
    /\ \A c \in Callers : dpc[c] \in LockedStages => dbg_lock = c
    /\ \A c \in Callers : cpc[c] # "idle" => dpc[c] \in LockedStages

\* A caller whose wait is over without a broken connection has its reply.
ReplyKept ==
    \A c \in Callers :
        \/ cpc[c] \in {"wait", "woken"} /\ swd_txn_status \notin {WAIT, FAIL}
        \/ cpc[c] = "reply"
        => data[c] # Garbage

CallInvariant == SafetyInvariant /\ LockUsed /\ ReplyKept

\* No thread has a command under way to begin with.
LEMMA CallInit == DInit => CallInvariant
  BY SafetyInit DEF DInit, Init, CallInvariant, LockUsed, ReplyKept, Stages, LockedStages

\* The steps of the transport: none of them starts a call.
LEMMA CallTransport ==
  ASSUME CallInvariant, Transport
  PROVE  LockUsed' /\ ReplyKept'
  <1>f. /\ cpc \in [Callers -> {"idle", "built", "wait", "woken", "reply"}]
        /\ data \in [Callers -> Packets \cup {Garbage}]
        /\ swd_txn_id \in Ids
        /\ SlotSafe
    BY DEF CallInvariant, SafetyInvariant, TypeOK
  <1>l. dbg_lock' = dbg_lock /\ dpc' = dpc
    BY DEF Transport
  <1>i. LockUsed /\ ReplyKept
    BY DEF CallInvariant
  <1> DEFINE Kept == LockUsed' /\ ReplyKept'
  <1> USE <1>f, <1>l, <1>i, ConstantsAssumption
      DEF LockUsed, ReplyKept, WAIT, FAIL, IDLE, DONE, slot, frame, reader, pipes, probe
  <1>1. ASSUME NEW c \in Callers, QAckDisconnect(c) PROVE Kept
    BY <1>1 DEF QAckDisconnect, QStamp, QReturn, WakeCallers
  <1>2. ASSUME NEW c \in Callers, QOffline(c) PROVE Kept
    BY <1>2 DEF QOffline, QStamp, QReturn
  <1>3. ASSUME NEW c \in Callers, QWrite(c) PROVE Kept
    BY <1>3 DEF QWrite, QStamp
  <1>4. ASSUME NEW c \in Callers, QWriteFail(c) PROVE Kept
    BY <1>4 DEF QWriteFail, QStamp, QReturn
  <1>5. ASSUME NEW c \in Callers, QWaitAgain(c) PROVE Kept
    BY <1>5 DEF QWaitAgain
  <1>6. ASSUME NEW c \in Callers, QWake(c) PROVE Kept
    BY <1>6 DEF QWake, StillWaiting, Failed, QReturn
  <1>7. ASSUME NEW c \in Callers, QReply(c) PROVE Kept
    BY <1>7 DEF QReply, QReturn
  <1>8. CASE RDisconnect
    BY <1>8 DEF RDisconnect, WakeCallers
  <1>9. CASE RDeliver
    <2>1. packet # Garbage
      BY <1>9 DEF RDeliver, IsPending, Garbage, NoId, Ids
    <2>2. \A c \in Callers : cpc[c] \in {"wait", "woken", "reply"} => c = swd_txn_data
      BY <1>9 DEF RDeliver, IsPending, SlotSafe
    <2> QED
      BY <1>9, <2>1, <2>2 DEF RDeliver, IsPending, SlotSafe, WakeCallers
  <1>10. ASSUME NEW c \in Callers, SpuriousCaller(c) PROVE Kept
    BY <1>10 DEF SpuriousCaller
  <1>q. ASSUME UNCHANGED <<cpc, data, swd_txn_status>> PROVE Kept
    BY <1>q
  <1> QED
    <2>1. CASE \E c \in Callers : Caller(c)
      BY <2>1, <1>1, <1>2, <1>3, <1>4, <1>5, <1>6, <1>7 DEF Caller, QExec
    <2>2. CASE Reader
      BY <2>2, <1>8, <1>9, <1>q
      DEF Reader, ROpen, RQuery, RRead, RReadGone, RDiscard, RQueryReply, RAsync, RAsyncDone, RUnexpected, RAckAgain, RAcked
    <2>3. CASE Environment
      BY <2>3, <1>10, <1>q
      DEF Environment, RReadFault, ProbeLose, Unplug, SpuriousReader, ProbeAnswer, ProbeNoise, Plug
    <2> QED
      BY <2>1, <2>2, <2>3 DEF Transport

\* The steps of the threads: only the one that holds the lock starts a call.
LEMMA CallThread ==
  ASSUME Parsers = {}, CallInvariant, NEW c \in Callers, Thread(c)
  PROVE  LockUsed' /\ ReplyKept'
  <1>f. cpc \in [Callers -> {"idle", "built", "wait", "woken", "reply"}]
    BY DEF CallInvariant, SafetyInvariant, TypeOK
  <1>i. LockUsed /\ ReplyKept
    BY DEF CallInvariant
  <1>1. CASE Request(c) \/ ParseDone(c) \/ Lock(c) \/ NoError(c) \/ Cleared(c)
             \/ AttachDone(c)
    BY <1>1, <1>f, <1>i, ConstantsAssumption
    DEF Request, ParseDone, Lock, LockFree, NoError, Cleared, AttachDone, At, Goto, Enter,
        vars, LockUsed, ReplyKept, Stages, LockedStages
  <1>2. CASE MonitorGivesUp(c) \/ Unlock(c)
    BY <1>2, <1>f, <1>i
    DEF MonitorGivesUp, Unlock, Release, At, Goto, vars, LockUsed, ReplyKept, Stages, LockedStages
  <1>3. CASE \/ ParseRead(c) \/ ClearError(c) \/ Reattach(c) \/ AttachPowerUp(c)
             \/ MonitorRead(c) \/ CommandAttach(c)
             \/ \E bulk \in BOOLEAN : Command(c, bulk)
    <2>1. /\ cpc' = [cpc EXCEPT ![c] = "built"]
          /\ UNCHANGED <<data, swd_txn_status, dbg_lock>>
      BY <1>3
      DEF ParseRead, ClearError, Reattach, AttachPowerUp, MonitorRead, CommandAttach,
          Command, Exec, Recover, QBuild, slot
    <2>2. dpc[c] \in LockedStages
      BY <1>3, <1>i
      DEF ParseRead, ClearError, Reattach, AttachPowerUp, MonitorRead, CommandAttach,
          Command, At, LockUsed, LockedStages
    <2>3. \E stage \in LockedStages : dpc' = [dpc EXCEPT ![c] = stage]
      BY <1>3, <1>i, <2>2
      DEF ParseRead, ClearError, Reattach, AttachPowerUp, MonitorRead, CommandAttach,
          Command, At, Goto, LockUsed, LockedStages, Stages
    <2>4. LockUsed'
      BY <1>f, <1>i, <2>1, <2>2, <2>3 DEF LockUsed, LockedStages, Stages
    <2> QED
      BY <1>f, <1>i, <2>1, <2>4 DEF ReplyKept
  <1> QED
    BY <1>1, <1>2, <1>3 DEF Thread, Proceed

LEMMA CallStep == ASSUME Parsers = {} PROVE CallInvariant /\ [DNext]_dvars => CallInvariant'
  <1> SUFFICES ASSUME CallInvariant, [DNext]_dvars PROVE CallInvariant'
    OBVIOUS
  <1>1. SafetyInvariant'
    BY TransportStep, SafetyStep DEF CallInvariant
  <1>2. CASE UNCHANGED dvars
    BY <1>1, <1>2 DEF CallInvariant, LockUsed, ReplyKept, dvars, vars
  <1>3. CASE DNext
    BY <1>1, <1>3, CallTransport, CallThread DEF DNext, CallInvariant
  <1> QED
    BY <1>2, <1>3

\* If no command argument reads the target, every transaction that gets a reply
\* gets the one the probe sent for it.
THEOREM OwnReplies == ASSUME Parsers = {} PROVE DSpec => []OwnReply
  <1>1. CallInvariant /\ [DNext]_dvars => CallInvariant'
    BY CallStep
  <1>2. CallInvariant => OwnReply
    BY DEF CallInvariant, SafetyInvariant, ReplyKept, NoStaleReply, OwnReply, InCall
  <1> QED
    BY <1>1, <1>2, CallInit, PTL DEF DSpec

-----------------------------------------------------------------------------
(***************************************************************************)
(* q_exec under _dbg_lock is a remote call.  First, a transaction and its  *)
(* answer are in one place at a time.                                      *)
(***************************************************************************)

\* The id n is in s once at most.
Once(s, n) == \A i, j \in DOMAIN s : s[i].id = n /\ s[j].id = n => i = j

\* While a caller waits, its id belongs to its own transaction: either the probe
\* still has to take it, or there is one answer to it.
Unique(c) ==
    /\ Once(toProbe, id[c])
    /\ Asked(c) => Answers(c) = {}
    /\ \A t \in Elements(toProbe) : t.id = id[c] => t.kind = "txn"
    /\ \A p \in Answers(c) : p.kind \in {"ok", "err"}
    /\ \A p, q \in Answers(c) : p = q

CarriedOnce ==
    /\ \A c \in Callers : InCall(c) => Unique(c)
    /\ rpc # "got" => packet = NoPacket

LEMMA AppendElements ==
  ASSUME NEW S, NEW s \in Seq(S), NEW x \in S, NEW n
  PROVE  /\ Elements(Append(s, x)) = Elements(s) \cup {x}
         /\ Once(s, n) /\ (x.id # n \/ \A y \in Elements(s) : y.id # n) => Once(Append(s, x), n)
  <1>1. /\ DOMAIN s = 1 .. Len(s) /\ Len(s) \in Nat /\ Append(s, x) \in Seq(S)
        /\ Len(Append(s, x)) = Len(s) + 1 /\ Append(s, x)[Len(s) + 1] = x
        /\ \A i \in 1 .. Len(s) : Append(s, x)[i] = s[i]
    OBVIOUS
  <1> DEFINE a == Append(s, x)
             m == Len(s) + 1
  <1>2. DOMAIN a = 1 .. m
    BY <1>1
  <1>3. /\ m \in DOMAIN a /\ a[m] = x
        /\ \A i \in DOMAIN a : i # m => i \in DOMAIN s /\ a[i] = s[i]
        /\ \A i \in DOMAIN s : i \in DOMAIN a /\ i # m /\ a[i] = s[i]
    BY <1>1, <1>2
  <1> HIDE DEF a, m
  <1>4. Elements(a) = Elements(s) \cup {x}
    BY <1>3 DEF Elements
  <1>5. ASSUME Once(s, n), x.id # n \/ \A y \in Elements(s) : y.id # n PROVE Once(a, n)
    BY <1>3, <1>5 DEF Once, Elements
  <1> QED
    BY <1>4, <1>5 DEF a

LEMMA TailElements ==
  ASSUME NEW S, NEW s \in Seq(S), s # <<>>, NEW n
  PROVE  /\ Elements(s) = {Head(s)} \cup Elements(Tail(s)) /\ Head(s) \in S
         /\ Tail(s) \in Seq(S)
         /\ Once(s, n) => /\ Once(Tail(s), n)
                          /\ Head(s).id = n => \A y \in Elements(Tail(s)) : y.id # n
  <1>1. /\ DOMAIN s = 1 .. Len(s) /\ Len(s) \in Nat /\ Len(s) >= 1 /\ Head(s) = s[1]
        /\ Head(s) \in S /\ Tail(s) \in Seq(S)
        /\ Len(Tail(s)) = Len(s) - 1 /\ \A i \in 1 .. Len(s) - 1 : Tail(s)[i] = s[i + 1]
    OBVIOUS
  <1> DEFINE t == Tail(s)
  <1>2. DOMAIN t = 1 .. Len(s) - 1
    BY <1>1
  <1>3. \A i \in DOMAIN t : i \in Int /\ i + 1 \in DOMAIN s /\ i + 1 # 1 /\ t[i] = s[i + 1]
    BY <1>1, <1>2
  <1>4. \A i \in DOMAIN s : i = 1 \/ (i - 1 \in DOMAIN t /\ t[i - 1] = s[i])
    <2> SUFFICES ASSUME NEW i \in DOMAIN s, i # 1 PROVE i - 1 \in DOMAIN t /\ t[i - 1] = s[i]
      OBVIOUS
    <2>1. i - 1 \in 1 .. Len(s) - 1 /\ (i - 1) + 1 = i
      BY <1>1
    <2> QED
      BY <1>1, <1>2, <2>1
  <1>5. 1 \in DOMAIN s /\ Head(s) = s[1]
    BY <1>1
  <1> HIDE DEF t
  <1>6. Elements(s) = {Head(s)} \cup Elements(t)
    <2>1. \A x \in Elements(s) : x = Head(s) \/ x \in Elements(t)
      BY <1>4, <1>5 DEF Elements
    <2>2. Head(s) \in Elements(s) /\ \A x \in Elements(t) : x \in Elements(s)
      BY <1>3, <1>5 DEF Elements
    <2> QED
      BY <2>1, <2>2
  <1>7. ASSUME Once(s, n) PROVE Once(t, n)
    <2> SUFFICES ASSUME NEW i \in DOMAIN t, NEW j \in DOMAIN t, t[i].id = n, t[j].id = n
                 PROVE  i = j
      BY DEF Once
    <2>1. i + 1 = j + 1
      BY <1>3, <1>7 DEF Once
    <2> QED
      BY <1>3, <2>1
  <1>8. ASSUME Once(s, n), Head(s).id = n, NEW i \in DOMAIN t PROVE t[i].id # n
    BY <1>3, <1>5, <1>8 DEF Once
  <1> QED
    BY <1>1, <1>6, <1>7, <1>8 DEF t, Elements

\* What moves, without anything new carrying the id.
LEMMA LessCarried ==
  ASSUME NEW c \in Callers, Unique(c), id'[c] = id[c],
         Once(toProbe, id[c])', Elements(toProbe)' \subseteq Elements(toProbe),
         Answers(c)' \subseteq Answers(c)
  PROVE  Unique(c)'
  <1>1. id[c]' = id[c]
    OBVIOUS
  <1> QED
    BY <1>1 DEF Unique, Asked

\* The first of a call, and the others, when something is sent.
LEMMA Sent ==
  ASSUME TypeOK, NEW c \in Callers, NEW kind, NEW words, NoIdReuse,
         NEW t, t = [kind |-> kind, id |-> sequence, size |-> words], t \in Txns,
         toProbe' = Append(toProbe, t), UNCHANGED <<toHost, packet>>, data'[c] = data[c]
  PROVE  /\ Unique(c) /\ InCall(c) /\ id'[c] = id[c] => Unique(c)' /\ (Asked(c)' <=> Asked(c)) /\ Answers(c)' = Answers(c)
         /\ kind = "txn" /\ id'[c] = sequence /\ data[c] = Garbage => Unique(c)' /\ Asked(c)' /\ Answers(c)' = {}
  <1>1. toProbe \in Seq(Txns) /\ t.id = sequence /\ t.kind = kind /\ sequence \in Ids
    BY DEF TypeOK
  <1>2. Elements(toProbe)' = Elements(toProbe) \cup {t}
    BY <1>1, AppendElements
  <1>3. \A y \in Elements(toProbe) \cup Elements(toHost) \cup {packet} : y.id # sequence
    BY DEF NoIdReuse, InFlight
  <1>4. ASSUME Unique(c), InCall(c), id'[c] = id[c] PROVE Unique(c)' /\ (Asked(c)' <=> Asked(c)) /\ Answers(c)' = Answers(c)
    <2>1. t.id # id[c] /\ id[c]' = id[c]
      BY <1>1, <1>4 DEF NoIdReuse
    <2>2. Once(toProbe, id[c])'
      <3>1. Once(toProbe', id[c])
        BY <1>1, <1>4, <2>1, AppendElements DEF Unique
      <3> QED
        BY <2>1, <3>1 DEF Once
    <2>3. Answers(c)' = Answers(c)
      BY <2>1 DEF Answers, Elements
    <2> QED
      BY <1>2, <1>4, <2>1, <2>2, <2>3 DEF Unique, Asked
  <1>5. ASSUME kind = "txn", id'[c] = sequence, data[c] = Garbage PROVE Unique(c)' /\ Asked(c)' /\ Answers(c)' = {}
    <2>1. id[c]' = sequence /\ Elements(toHost)' = Elements(toHost)
      BY <1>5 DEF Elements
    <2>2. Answers(c)' = {}
      BY <1>1, <1>3, <1>5, <2>1 DEF Answers, Garbage, NoId, Ids
    <2>3. Once(toProbe, sequence)
      BY <1>3 DEF Once, Elements
    <2>4. Once(toProbe', sequence)
      BY <1>1, <1>3, <2>3, AppendElements
    <2>5. Once(toProbe, id[c])'
      BY <2>1, <2>4 DEF Once
    <2> QED
      BY <1>1, <1>2, <1>3, <1>5, <2>1, <2>2, <2>5 DEF Unique, Asked
  <1> QED
    BY <1>4, <1>5

\* The step of the invariant for a caller whose call goes on, and for the others.
CarriedInv == SafetyInvariant /\ CarriedOnce

LEMMA AnswersKept ==
  ASSUME NEW c \in Callers, id'[c] = id[c], data'[c] = data[c], UNCHANGED <<toHost, packet>>
  PROVE  Answers(c)' = Answers(c)
  <1>1. id[c]' = id[c] /\ data[c]' = data[c] /\ Elements(toHost)' = Elements(toHost)
    BY DEF Elements
  <1> QED
    BY <1>1 DEF Answers

\* Nothing on its way moves.
LEMMA StillCarried ==
  ASSUME NEW c \in Callers, Unique(c), id'[c] = id[c], data'[c] = data[c],
         UNCHANGED <<toProbe, toHost, packet>>
  PROVE  Unique(c)' /\ (Asked(c)' <=> Asked(c)) /\ Answers(c)' = Answers(c)
  <1>1. id[c]' = id[c] /\ Elements(toProbe)' = Elements(toProbe)
    BY DEF Elements
  <1>2. Answers(c)' = Answers(c)
    BY AnswersKept
  <1>3. Once(toProbe, id[c])'
    BY <1>1 DEF Unique, Once
  <1> QED
    BY <1>1, <1>2, <1>3 DEF Unique, Asked

\* A packet leaves the reader's hand, or what was on its way goes.
LEMMA Dropped ==
  ASSUME NEW c \in Callers, Unique(c), id'[c] = id[c], data'[c] = data[c], id[c] # NoId,
         \/ toProbe' = toProbe /\ toHost' = toHost /\ packet' \in {NoPacket, ReadError}
         \/ toProbe' = <<>> /\ toHost' = <<>> /\ packet' = packet
         \/ /\ \E S : toProbe \in Seq(S) /\ toProbe # <<>> /\ toProbe' = Tail(toProbe)
            /\ toHost' = toHost /\ packet' = packet
  PROVE  Unique(c)' /\ (Asked(c)' => Asked(c)) /\ Answers(c)' \subseteq Answers(c)
  <1>1. id[c]' = id[c] /\ data[c]' = data[c]
    OBVIOUS
  <1>2. Elements(<<>>) = {} /\ Once(<<>>, id[c])
    BY DEF Elements, Once
  <1>3. NoPacket.id = NoId /\ ReadError.id = NoId
    BY DEF NoPacket, ReadError
  <1>4. Elements(toProbe)' \subseteq Elements(toProbe) /\ Once(toProbe', id[c])
    <2>1. CASE toProbe' = toProbe
      BY <2>1 DEF Unique, Elements, Once
    <2>2. CASE toProbe' = <<>>
      BY <2>2, <1>2 DEF Elements
    <2>3. ASSUME NEW S, toProbe \in Seq(S), toProbe # <<>>, toProbe' = Tail(toProbe)
          PROVE  Elements(toProbe)' \subseteq Elements(toProbe) /\ Once(toProbe', id[c])
      <3>1. /\ Elements(toProbe) = {Head(toProbe)} \cup Elements(Tail(toProbe))
            /\ Once(Tail(toProbe), id[c])
        BY <2>3, TailElements DEF Unique
      <3>2. Elements(toProbe)' = Elements(Tail(toProbe)) /\ Once(toProbe', id[c])
        BY <2>3, <3>1 DEF Elements
      <3> QED
        BY <3>1, <3>2
    <2> QED
      BY <2>1, <2>2, <2>3
  <1>5. Elements(toHost)' \subseteq Elements(toHost)
    BY <1>2 DEF Elements
  <1>6. Answers(c)' \subseteq Answers(c)
    BY <1>1, <1>3, <1>5 DEF Answers
  <1>7. Once(toProbe, id[c])'
    BY <1>1, <1>4 DEF Once
  <1>8. Unique(c)'
    BY <1>4, <1>6, <1>7, LessCarried
  <1> QED
    BY <1>1, <1>4, <1>6, <1>8 DEF Asked

\* The packet the reader takes from the pipe stays an answer.
LEMMA TakenUp ==
  ASSUME NEW c \in Callers, TypeOK, Unique(c), id'[c] = id[c], data'[c] = data[c], id[c] # NoId,
         packet = NoPacket, toHost # <<>>, packet' = Head(toHost), toHost' = Tail(toHost),
         toProbe' = toProbe
  PROVE  Unique(c)' /\ (Asked(c)' <=> Asked(c)) /\ Answers(c)' = Answers(c)
  <1>1. id[c]' = id[c] /\ data[c]' = data[c] /\ Elements(toProbe)' = Elements(toProbe)
    BY DEF Elements
  <1>2. Elements(toHost) = {packet'} \cup Elements(toHost)'
    <2>1. Elements(toHost) = {Head(toHost)} \cup Elements(Tail(toHost))
      BY TailElements DEF TypeOK
    <2>2. Elements(toHost)' = Elements(Tail(toHost))
      BY DEF Elements
    <2> QED
      BY <2>1, <2>2
  <1>3. Answers(c)' = Answers(c)
    BY <1>1, <1>2 DEF Answers, NoPacket
  <1>4. Once(toProbe, id[c])'
    BY <1>1 DEF Unique, Once
  <1> QED
    BY <1>1, <1>3, <1>4 DEF Unique, Asked

\* The reader copies the packet in its hand to the caller it answers.
LEMMA Copied ==
  ASSUME NEW c \in Callers, Unique(c), id'[c] = id[c], id[c] # NoId, packet' = NoPacket,
         \/ data'[c] = data[c] /\ packet.id # id[c]
         \/ data[c] = Garbage /\ packet.id = id[c] /\ data'[c] = packet
         \/ data[c] = packet /\ data'[c] = packet,
         UNCHANGED <<toProbe, toHost>>
  PROVE  Unique(c)' /\ (Asked(c)' <=> Asked(c)) /\ Answers(c)' = Answers(c)
  <1>1. /\ id[c]' = id[c] /\ Elements(toProbe)' = Elements(toProbe)
        /\ Elements(toHost)' = Elements(toHost) /\ data[c]' = data'[c]
    BY DEF Elements
  <1>2. Garbage.id = NoId /\ NoPacket.id = NoId
    BY DEF Garbage, NoPacket
  <1>3. Answers(c)' = Answers(c)
    BY <1>1, <1>2 DEF Answers
  <1>4. Once(toProbe, id[c])'
    BY <1>1 DEF Unique, Once
  <1> QED
    BY <1>1, <1>3, <1>4 DEF Unique, Asked

\* The probe takes a transaction and answers it, or sends on its own account.
LEMMA Answered ==
  ASSUME NEW c \in Callers, TypeOK, Unique(c), id'[c] = id[c], data'[c] = data[c],
         UNCHANGED packet, NEW ok \in BOOLEAN, ProbeAnswer(ok)
  PROVE  /\ Unique(c)'
         /\ \/ (Asked(c)' <=> Asked(c)) /\ Answers(c)' = Answers(c)
            \/ /\ Asked(c) /\ ~Asked(c)' /\ Answers(c) = {}
               /\ \E p : p.kind \in {"ok", "err"} /\ Answers(c)' = {p}
  <1> DEFINE q == Head(toProbe)
             k == CASE ~ok -> "err" [] ok /\ q.kind = "query" -> "version" [] OTHER -> "ok"
             p == [kind |-> k, id |-> q.id]
  <1>1. /\ toProbe \in Seq(Txns) /\ toHost \in Seq(Packets) /\ toProbe # <<>>
        /\ toProbe' = Tail(toProbe) /\ toHost' = Append(toHost, p)
    BY DEF TypeOK, ProbeAnswer
  <1>2. /\ Elements(toProbe) = {q} \cup Elements(Tail(toProbe)) /\ q \in Txns
        /\ Once(Tail(toProbe), id[c])
        /\ q.id = id[c] => \A y \in Elements(Tail(toProbe)) : y.id # id[c]
    BY <1>1, TailElements DEF Unique
  <1>3. k \in {"ok", "err", "version"} /\ q.id \in Ids
    BY <1>2 DEF Txns
  <1>4. p \in Packets /\ p.id = q.id /\ p.kind = k
    BY <1>3 DEF Packets
  <1>5. q.kind = "txn" => k \in {"ok", "err"}
    OBVIOUS
  <1> HIDE DEF k
  <1>6. p.id = q.id
    OBVIOUS
  <1> HIDE DEF p, q
  <1>7. Elements(toHost)' = Elements(toHost) \cup {p}
    <2>0. \A s \in Seq(Packets), x \in Packets : Elements(Append(s, x)) = Elements(s) \cup {x}
      BY AppendElements
    <2>1. Elements(Append(toHost, p)) = Elements(toHost) \cup {p}
      BY <1>1, <1>4, <2>0
    <2> QED
      BY <1>1, <2>1 DEF Elements
  <1>8. Elements(toProbe)' = Elements(Tail(toProbe))
    BY <1>1 DEF Elements
  <1>9. id[c]' = id[c] /\ data[c]' = data[c]
    OBVIOUS
  <1>10. Once(toProbe, id[c])'
    BY <1>1, <1>2, <1>9 DEF Once
  <1>11. CASE q.id # id[c]
    <2>1. Answers(c)' = Answers(c)
      BY <1>6, <1>7, <1>9, <1>11 DEF Answers
    <2>2. Asked(c)' <=> Asked(c)
      BY <1>2, <1>8, <1>9, <1>11 DEF Asked
    <2> QED
      BY <1>2, <1>8, <1>9, <1>10, <2>1, <2>2 DEF Unique
  <1>12. CASE q.id = id[c]
    <2>1. Asked(c) /\ Answers(c) = {} /\ q.kind = "txn"
      BY <1>2, <1>12 DEF Asked, Unique
    <2>2. Answers(c)' = {p} /\ p.kind \in {"ok", "err"}
      BY <1>4, <1>5, <1>6, <1>7, <1>9, <1>12, <2>1 DEF Answers
    <2>3. ~Asked(c)' /\ \A t \in Elements(toProbe)' : t.id # id[c]
      BY <1>2, <1>8, <1>9, <1>12 DEF Asked
    <2> QED
      BY <1>9, <1>10, <2>1, <2>2, <2>3 DEF Unique
  <1> QED
    BY <1>11, <1>12

\* What comes from the probe unasked answers nobody.
LEMMA Noise ==
  ASSUME NEW c \in Callers, TypeOK, Unique(c), id'[c] = id[c], data'[c] = data[c], id[c] # NoId,
         NEW kind \in {"async", "junk"}, ProbeNoise(kind)
  PROVE  Unique(c)' /\ (Asked(c)' <=> Asked(c)) /\ Answers(c)' = Answers(c)
  <1> DEFINE p == [kind |-> kind, id |-> NoId]
  <1>1. toHost \in Seq(Packets) /\ p \in Packets /\ p.id = NoId
    BY DEF TypeOK, Packets
  <1>2. toHost' = Append(toHost, p) /\ toProbe' = toProbe /\ packet' = packet
    BY DEF ProbeNoise, reader
  <1> HIDE DEF p
  <1>3. Elements(toHost)' = Elements(toHost) \cup {p}
    <2>1. Elements(Append(toHost, p)) = Elements(toHost) \cup {p}
      BY <1>1, AppendElements
    <2> QED
      BY <1>2, <2>1 DEF Elements
  <1>4. /\ id[c]' = id[c] /\ data[c]' = data[c] /\ Elements(toProbe)' = Elements(toProbe)
    BY <1>2 DEF Elements
  <1>5. Answers(c)' = Answers(c)
    BY <1>1, <1>2, <1>3, <1>4 DEF Answers
  <1>6. Once(toProbe, id[c])'
    BY <1>2, <1>4 DEF Unique, Once
  <1> QED
    BY <1>4, <1>5, <1>6 DEF Unique, Asked

-----------------------------------------------------------------------------
(* What a step means for one call.                                         *)

Progress == {"sent", "ok", "err"}

\* What may become of a call in a step of RemoteCall.
Move(x, y) ==
    \/ y = x
    \/ x = "none" /\ y = "sent"
    \/ x = "sent" /\ y \in {"ok", "err"}
    \/ x \in Progress /\ y = "lost"
    \/ x = "ok" /\ y = "returnedOk"
    \/ x = "err" /\ y = "returnedErr"
    \/ x \in {"returnedOk", "returnedErr", "lost"} /\ y = "none"

Waiting(pc) == pc \in {"wait", "woken"}

\* CallState, of what it looks at.
StateOf(pc, failed, ans, asked, d) ==
    CASE pc \in {"idle", "built"} -> "none"
      [] pc = "reply" ->
             IF d \notin ans THEN "bogus"
             ELSE IF d.kind = "ok" THEN "returnedOk" ELSE "returnedErr"
      [] OTHER ->
             IF failed THEN "lost"
             ELSE IF ans # {} THEN (CHOOSE p \in ans : TRUE).kind
             ELSE IF asked THEN "sent"
             ELSE "lost"

LEMMA StateIs ==
  \A c \in Callers :
      /\ CallState(c) = StateOf(cpc[c], Failed, Answers(c), Asked(c), data[c])
      /\ CallState(c)' = StateOf(cpc'[c], Failed', Answers(c)', Asked(c)', data'[c])
  BY DEF CallState, StateOf

LEMMA Idles == \A f, ans, asked, d : StateOf("idle", f, ans, asked, d) = "none" /\ StateOf("built", f, ans, asked, d) = "none"
  BY DEF StateOf

LEMMA Waits ==
  ASSUME NEW pc, Waiting(pc), NEW f, NEW ans, NEW asked, NEW d
  PROVE  /\ f => StateOf(pc, f, ans, asked, d) = "lost"
         /\ ~f /\ ans = {} /\ asked => StateOf(pc, f, ans, asked, d) = "sent"
         /\ ~f /\ ans = {} /\ ~asked => StateOf(pc, f, ans, asked, d) = "lost"
         /\ \A p : ~f /\ ans = {p} => StateOf(pc, f, ans, asked, d) = p.kind
  BY DEF StateOf, Waiting

LEMMA Replies ==
  ASSUME NEW f, NEW ans, NEW asked, NEW d, d \in ans
  PROVE  /\ d.kind = "ok" => StateOf("reply", f, ans, asked, d) = "returnedOk"
         /\ d.kind = "err" => StateOf("reply", f, ans, asked, d) = "returnedErr"
         /\ StateOf("reply", f, ans, asked, d) \in {"returnedOk", "returnedErr"}
  BY DEF StateOf

\* The answers to a call are none or one.
LEMMA NoneOrOne ==
  ASSUME NEW c \in Callers, Unique(c)
  PROVE  Answers(c) = {} \/ \E p : Answers(c) = {p} /\ p.kind \in {"ok", "err"} /\ ~Asked(c)
  BY DEF Unique

\* A caller that waits: what becomes of its call as packets move.
LEMMA WaitGoesOn ==
  ASSUME NEW c \in Callers, Unique(c), Waiting(cpc[c]), Waiting(cpc'[c]),
         \/ Failed'
         \/ Failed /\ Failed'
         \/ /\ ~Failed /\ ~Failed'
            /\ \/ (Asked(c)' <=> Asked(c)) /\ Answers(c)' = Answers(c)
               \/ (Asked(c)' => Asked(c)) /\ Answers(c)' \subseteq Answers(c)
               \/ /\ Asked(c) /\ ~Asked(c)' /\ Answers(c) = {}
                  /\ \E p : p.kind \in {"ok", "err"} /\ Answers(c)' = {p}
  PROVE  Move(CallState(c), CallState(c)')
  <1> DEFINE x == CallState(c)
             y == CallState(c)'
             q == cpc[c]
             r == cpc'[c]
             ans == Answers(c)
             ans2 == Answers(c)'
             asked == Asked(c)
             asked2 == Asked(c)'
             d == data[c]
             d2 == data'[c]
             f == Failed
             f2 == Failed'
  <1>1. x = StateOf(q, f, ans, asked, d) /\ y = StateOf(r, f2, ans2, asked2, d2)
    BY StateIs
  <1>2. f \in BOOLEAN /\ f2 \in BOOLEAN /\ asked \in BOOLEAN /\ asked2 \in BOOLEAN
    BY DEF Failed, Asked
  <1>3. Waiting(q) /\ Waiting(r) /\ (ans = {} \/ \E p : ans = {p} /\ p.kind \in {"ok", "err"} /\ ~asked)
    BY NoneOrOne
  <1>4. \/ f2
        \/ ~f /\ ~f2 /\ (asked2 <=> asked) /\ ans2 = ans
        \/ ~f /\ ~f2 /\ (asked2 => asked) /\ ans2 \subseteq ans
        \/ ~f /\ ~f2 /\ asked /\ ~asked2 /\ ans = {} /\ \E p : p.kind \in {"ok", "err"} /\ ans2 = {p}
    OBVIOUS
  <1>w. /\ f => x = "lost"
        /\ ~f /\ ans = {} /\ asked => x = "sent"
        /\ ~f /\ ans = {} /\ ~asked => x = "lost"
        /\ \A p : ~f /\ ans = {p} => x = p.kind
    BY <1>1, <1>3, Waits
  <1>v. /\ f2 => y = "lost"
        /\ ~f2 /\ ans2 = {} /\ asked2 => y = "sent"
        /\ ~f2 /\ ans2 = {} /\ ~asked2 => y = "lost"
        /\ \A p : ~f2 /\ ans2 = {p} => y = p.kind
    BY <1>1, <1>3, Waits
  <1> SUFFICES Move(x, y)
    OBVIOUS
  <1> HIDE DEF x, y, q, r, ans, ans2, asked, asked2, d, d2, f, f2
  <1>5. x \in {"lost", "sent", "ok", "err"}
    <2>1. CASE f
      BY <1>2, <1>3, <1>v, <1>w, <2>1
    <2>2. CASE ~f /\ ans = {}
      BY <1>2, <1>3, <1>v, <1>w, <2>2
    <2>3. ASSUME ~f, NEW p, ans = {p}, p.kind \in {"ok", "err"} PROVE x \in {"lost", "sent", "ok", "err"}
      BY <1>2, <1>3, <1>v, <1>w, <2>3
    <2> QED
      BY <1>2, <1>3, <2>1, <2>2, <2>3
  <1>6. CASE f2
    BY <1>2, <1>3, <1>v, <1>w, <1>5, <1>6 DEF Move, Progress
  <1>7. CASE ~f /\ ~f2 /\ asked /\ ~asked2 /\ ans = {} /\ \E p : p.kind \in {"ok", "err"} /\ ans2 = {p}
    <2>1. x = "sent"
      BY <1>2, <1>3, <1>v, <1>w, <1>7
    <2>2. y \in {"ok", "err"}
      BY <1>2, <1>3, <1>v, <1>w, <1>7
    <2> QED
      BY <2>1, <2>2 DEF Move
  <1>8. CASE ~f /\ ~f2 /\ (asked2 => asked) /\ ans2 \subseteq ans
    <2>1. CASE ans = {}
      <3>1. ans2 = {} /\ (asked2 => asked)
        BY <1>8, <2>1
      <3>2. x = IF asked THEN "sent" ELSE "lost"
        BY <1>2, <1>3, <1>v, <1>w, <1>8, <2>1
      <3>3. y = IF asked2 THEN "sent" ELSE "lost"
        BY <1>2, <1>3, <1>v, <1>w, <1>8, <3>1
      <3> QED
        BY <3>1, <3>2, <3>3 DEF Move, Progress
    <2>2. ASSUME NEW p, ans = {p}, p.kind \in {"ok", "err"}, ~asked PROVE Move(x, y)
      <3>1. x = p.kind
        BY <1>2, <1>3, <1>v, <1>w, <1>8, <2>2
      <3>2. ans2 = {p} \/ ans2 = {}
        BY <1>8, <2>2
      <3>3. ans2 = {p} => y = p.kind
        BY <1>2, <1>3, <1>v, <1>w, <1>8
      <3>4. ans2 = {} => y = "lost"
        BY <1>2, <1>3, <1>v, <1>w, <1>8, <2>2
      <3> QED
        BY <2>2, <3>1, <3>2, <3>3, <3>4 DEF Move, Progress
    <2> QED
      BY <1>3, <2>1, <2>2
  <1>9. (asked2 <=> asked) /\ ans2 = ans => (asked2 => asked) /\ ans2 \subseteq ans
    OBVIOUS
  <1> QED
    BY <1>4, <1>6, <1>7, <1>8, <1>9

\* A caller that has its reply keeps it.
LEMMA ReplyGoesOn ==
  ASSUME NEW c \in Callers, cpc[c] = "reply", cpc'[c] = "reply", data'[c] = data[c],
         id'[c] = id[c], data[c].id = id[c]
  PROVE  CallState(c)' = CallState(c)
  <1>1. data[c] \in Answers(c)
    BY DEF Answers
  <1>2. data[c] \in Answers(c)'
    BY DEF Answers
  <1> QED
    BY <1>1, <1>2, StateIs DEF StateOf

\* What a step does to one call.
Outcome(c) == (InCall(c)' => Unique(c)') /\ Move(CallState(c), CallState(c)')

\* The frame of a call that goes on: the caller waits on, or keeps its reply.
GoesOn(c) ==
    /\ id'[c] = id[c]
    /\ \/ Waiting(cpc[c]) /\ Waiting(cpc'[c])
       \/ cpc[c] = "reply" /\ cpc'[c] = "reply"
    /\ cpc[c] = "reply" => data'[c] = data[c]

\* A step through which a call goes on, by what happens to what it waits for.
LEMMA GoingOn ==
  ASSUME NEW c \in Callers, Unique(c), Unique(c)', GoesOn(c),
         cpc[c] = "reply" => data[c].id = id[c],
         \/ Failed'
         \/ (Failed' <=> Failed) /\ (Asked(c)' => Asked(c)) /\ Answers(c)' \subseteq Answers(c)
         \/ /\ Failed' <=> Failed
            /\ Asked(c) /\ ~Asked(c)' /\ Answers(c) = {}
            /\ \E p : p.kind \in {"ok", "err"} /\ Answers(c)' = {p}
  PROVE  Outcome(c)
  <1>1. CASE Waiting(cpc[c]) /\ Waiting(cpc'[c])
    <2>1. CASE Failed'
      BY <1>1, <2>1, WaitGoesOn DEF Outcome
    <2>2. CASE (Failed' <=> Failed) /\ ~Failed'
      BY <1>1, <2>2, WaitGoesOn DEF Outcome
    <2> QED
      BY <2>1, <2>2
  <1>2. CASE cpc[c] = "reply" /\ cpc'[c] = "reply"
    <2>1. CallState(c)' = CallState(c)
      BY <1>2, ReplyGoesOn DEF GoesOn
    <2> QED
      BY <2>1 DEF Outcome, Move
  <1> QED
    BY <1>1, <1>2 DEF GoesOn

\* A caller with nothing under way, before and after.
LEMMA Idling ==
  ASSUME NEW c \in Callers, cpc[c] \in {"idle", "built"}, cpc'[c] \in {"idle", "built"}
  PROVE  Outcome(c)
  <1>1. CallState(c) = "none" /\ CallState(c)' = "none" /\ ~InCall(c)'
    BY StateIs, Idles DEF InCall
  <1> QED
    BY <1>1 DEF Outcome, Move

\* The steps of the caller itself.
LEMMA OwnStep ==
  ASSUME CallInvariant, CarriedOnce, NEW c \in Callers, Caller(c) PROVE Outcome(c)
  <1>0. /\ TypeOK /\ cpc \in [Callers -> {"idle", "built", "wait", "woken", "reply"}]
        /\ id \in [Callers -> Ids] /\ data \in [Callers -> Packets \cup {Garbage}] /\ NoStaleReply
        /\ InCall(c) => Unique(c)
        /\ cpc[c] \in {"idle", "built"} => data[c] = Garbage
    BY DEF CallInvariant, SafetyInvariant, TypeOK, CarriedOnce, Handshake
  <1>1. CASE QAckDisconnect(c) \/ QOffline(c) \/ QWriteFail(c)
    <2>1. cpc[c] = "built" /\ cpc'[c] = "idle"
      BY <1>0, <1>1 DEF QAckDisconnect, QOffline, QWriteFail, QStamp, QReturn, WakeCallers
    <2> QED
      BY <2>1, Idling
  <1>2. CASE QWrite(c)
    <2> DEFINE t == [kind |-> "txn", id |-> sequence, size |-> size[c]]
    <2>1. /\ cpc[c] = "built" /\ cpc'[c] = "wait" /\ id'[c] = sequence /\ data' = data
          /\ swd_txn_status' = WAIT /\ UNCHANGED <<toHost, packet>>
          /\ NoIdReuse /\ toProbe' = Append(toProbe, t)
      BY <1>0, <1>2 DEF QWrite, QStamp, Send, reader
    <2>2. t \in Txns
      BY <1>0 DEF TypeOK, Txns
    <2>3. Unique(c)' /\ Asked(c)' /\ Answers(c)' = {}
      BY <1>0, <2>1, <2>2, Sent
    <2>4. Waiting(cpc'[c]) /\ ~Failed'
      BY <2>1 DEF Waiting, Failed, WAIT, FAIL
    <2>5. CallState(c)' = "sent"
      <3> DEFINE r == cpc'[c]
                 f == Failed'
                 ans == Answers(c)'
                 asked == Asked(c)'
                 d == data'[c]
      <3>1. CallState(c)' = StateOf(r, f, ans, asked, d)
        BY StateIs
      <3>2. Waiting(r) /\ ~f /\ ans = {} /\ asked
        BY <2>3, <2>4
      <3> HIDE DEF r, f, ans, asked, d
      <3>3. StateOf(r, f, ans, asked, d) = "sent"
        BY <3>2 DEF StateOf, Waiting
      <3> QED
        BY <3>1, <3>3
    <2>6. CallState(c) = "none"
      BY <2>1, StateIs, Idles
    <2> QED
      BY <2>3, <2>5, <2>6 DEF Outcome, Move
  <1>3. CASE QWaitAgain(c)
    <2>1. /\ InCall(c) /\ GoesOn(c) /\ cpc[c] # "reply" /\ data' = data /\ id' = id
          /\ UNCHANGED <<toProbe, toHost, packet, swd_txn_status>>
      BY <1>0, <1>3 DEF QWaitAgain, GoesOn, InCall, Waiting, reader, probe, slot
    <2>2. Unique(c)' /\ (Asked(c)' => Asked(c)) /\ Answers(c)' \subseteq Answers(c)
      BY <1>0, <2>1, StillCarried
    <2> QED
      BY <1>0, <2>1, <2>2, GoingOn DEF Failed
  <1>4. CASE QWake(c) /\ Failed
    <2>1. cpc[c] = "woken" /\ cpc'[c] = "idle"
      BY <1>0, <1>4 DEF QWake, QReturn
    <2>2. CallState(c)' = "none" /\ ~InCall(c)'
      BY <2>1, StateIs, Idles DEF InCall
    <2>3. CallState(c) = "lost"
      <3>1. CallState(c) = StateOf(cpc[c], Failed, Answers(c), Asked(c), data[c])
        BY StateIs
      <3> QED
        BY <1>4, <2>1, <3>1 DEF StateOf
    <2> QED
      BY <2>2, <2>3 DEF Outcome, Move
  <1>5. CASE QWake(c) /\ ~Failed
    <2>1. /\ cpc[c] = "woken" /\ cpc'[c] = "reply" /\ data' = data /\ id' = id
          /\ InCall(c) /\ swd_txn_status \notin {WAIT, FAIL}
          /\ UNCHANGED <<toProbe, toHost, packet>>
      BY <1>0, <1>5 DEF QWake, InCall, reader, probe, StillWaiting, Failed
    <2>2. data[c] # Garbage
      BY <2>1 DEF CallInvariant, ReplyKept
    <2>3. data[c] \in Answers(c)
      BY <1>0, <2>1, <2>2 DEF NoStaleReply, Answers
    <2>4. Unique(c)' /\ Answers(c)' = Answers(c)
      BY <1>0, <2>1, StillCarried
    <2>5. Answers(c) = {data[c]} /\ data[c].kind \in {"ok", "err"}
      BY <1>0, <2>1, <2>3 DEF Unique
    <2>6. CallState(c) = data[c].kind
      <3> DEFINE q == cpc[c]
                 f == Failed
                 ans == Answers(c)
                 asked == Asked(c)
                 d == data[c]
      <3>1. CallState(c) = StateOf(q, f, ans, asked, d)
        BY StateIs
      <3>2. Waiting(q) /\ ~f /\ ans = {d}
        BY <1>5, <2>1, <2>5 DEF Waiting
      <3> HIDE DEF q, f, ans, asked, d
      <3>3. StateOf(q, f, ans, asked, d) = d.kind
        BY <3>2, Waits
      <3> QED
        BY <3>1, <3>3 DEF d
    <2>7. CallState(c)' = IF data[c].kind = "ok" THEN "returnedOk" ELSE "returnedErr"
      <3>1. CallState(c)' = StateOf("reply", Failed', Answers(c)', Asked(c)', data[c])
        BY <2>1, StateIs
      <3>2. data[c] \in Answers(c)'
        BY <2>3, <2>4
      <3> QED
        BY <2>5, <3>1, <3>2, Replies
    <2> QED
      BY <2>4, <2>5, <2>6, <2>7 DEF Outcome, Move
  <1>6. CASE QReply(c)
    <2>1. cpc[c] = "reply" /\ cpc'[c] = "idle" /\ InCall(c)
      BY <1>0, <1>6 DEF QReply, QReturn, InCall
    <2>2. data[c] \in Answers(c)
      BY <1>0, <2>1 DEF NoStaleReply, Answers, CallInvariant, ReplyKept
    <2>3. CallState(c) \in {"returnedOk", "returnedErr"}
      <3>1. CallState(c) = StateOf("reply", Failed, Answers(c), Asked(c), data[c])
        BY <2>1, StateIs
      <3> QED
        BY <2>2, <3>1, Replies
    <2>4. CallState(c)' = "none" /\ ~InCall(c)'
      BY <2>1, StateIs, Idles DEF InCall
    <2> QED
      BY <2>3, <2>4 DEF Outcome, Move
  <1> QED
    BY <1>1, <1>2, <1>3, <1>4, <1>5, <1>6 DEF Caller, QExec

\* The steps of the reader and the environment, for a call under way.
LEMMA OthersStep ==
  ASSUME CallInvariant, CarriedOnce, Reader \/ Environment, NEW c \in Callers, InCall(c)
  PROVE  Outcome(c)
  <1>0. /\ TypeOK /\ cpc \in [Callers -> {"idle", "built", "wait", "woken", "reply"}]
        /\ id \in [Callers -> Ids] /\ data \in [Callers -> Packets \cup {Garbage}]
        /\ Unique(c) /\ id[c] # NoId
        /\ rpc # "got" => packet = NoPacket
    BY DEF CallInvariant, SafetyInvariant, TypeOK, CarriedOnce, Ids, NoId
  <1>1. cpc[c] = "reply" => data[c].id = id[c]
    BY DEF CallInvariant, SafetyInvariant, ReplyKept, NoStaleReply, InCall
  <1>2. ASSUME cpc'[c] = cpc[c] \/ (Waiting(cpc[c]) /\ Waiting(cpc'[c])), id' = id,
               data'[c] = data[c]
        PROVE  GoesOn(c)
    BY <1>2 DEF GoesOn, InCall, Waiting
  <1>3. ASSUME UNCHANGED <<cpc, id, data>> PROVE GoesOn(c) /\ id'[c] = id[c] /\ data'[c] = data[c]
    BY <1>2, <1>3
  <1> USE DEF frame, reader, pipes, probe, slot
  <1>4. ASSUME UNCHANGED <<cpc, id, data, swd_txn_status, toProbe, toHost, packet>> PROVE Outcome(c)
    BY <1>0, <1>1, <1>3, <1>4, StillCarried, GoingOn DEF Failed
  <1>5. CASE \E h \in Handles : ROpen(h)
    BY <1>4, <1>5 DEF ROpen
  <1>6. CASE RQuery
    <2> DEFINE t == [kind |-> "query", id |-> sequence, size |-> 0]
    <2>1. UNCHANGED <<cpc, id, data, swd_txn_status, toHost, packet>>
      BY <1>6 DEF RQuery
    <2>2. CASE Send("query", 0)
      <3>1. t \in Txns
        BY <1>0 DEF TypeOK, Txns
      <3>2. NoIdReuse /\ toProbe' = Append(toProbe, t) /\ id'[c] = id[c] /\ data'[c] = data[c]
        BY <2>1, <2>2 DEF Send
      <3>3. Unique(c)' /\ (Asked(c)' <=> Asked(c)) /\ Answers(c)' = Answers(c)
        BY <1>0, <2>1, <3>1, <3>2, Sent
      <3> QED
        BY <1>0, <1>1, <1>3, <2>1, <3>3, GoingOn DEF Failed
    <2>3. CASE toProbe' = toProbe
      BY <1>4, <2>1, <2>3
    <2> QED
      BY <1>6, <2>2, <2>3 DEF RQuery
  <1>7. CASE RRead
    <2>1. /\ UNCHANGED <<cpc, id, data, swd_txn_status, toProbe>> /\ packet = NoPacket
          /\ toHost # <<>> /\ packet' = Head(toHost) /\ toHost' = Tail(toHost)
      BY <1>0, <1>7 DEF RRead
    <2>2. Unique(c)' /\ (Asked(c)' <=> Asked(c)) /\ Answers(c)' = Answers(c)
      BY <1>0, <2>1, TakenUp
    <2> QED
      BY <1>0, <1>1, <1>3, <2>1, <2>2, GoingOn DEF Failed
  <1>8. ASSUME id' = id, data' = data, GoesOn(c), swd_txn_status' = swd_txn_status \/ Failed',
               \/ toProbe' = toProbe /\ toHost' = toHost /\ packet' \in {NoPacket, ReadError}
               \/ toProbe' = <<>> /\ toHost' = <<>> /\ packet' = packet
               \/ /\ \E S : toProbe \in Seq(S) /\ toProbe # <<>> /\ toProbe' = Tail(toProbe)
                  /\ toHost' = toHost /\ packet' = packet
        PROVE  Outcome(c)
    <2>1. Unique(c)' /\ (Asked(c)' => Asked(c)) /\ Answers(c)' \subseteq Answers(c)
      BY <1>0, <1>8, Dropped
    <2>2. Failed' \/ (Failed' <=> Failed)
      BY <1>8 DEF Failed
    <2> QED
      BY <1>0, <1>1, <1>8, <2>1, <2>2, GoingOn
  <1>9. CASE RReadGone \/ RReadFault \/ RDiscard \/ RQueryReply \/ RAsync \/ RUnexpected
    <2>1. /\ UNCHANGED <<cpc, id, data, swd_txn_status, toProbe, toHost>>
          /\ packet' \in {NoPacket, ReadError}
      BY <1>9 DEF RReadGone, RReadFault, RDiscard, RQueryReply, RAsync, RUnexpected
    <2> QED
      BY <1>3, <1>8, <2>1
  <1>10. CASE RDisconnect
    <2>1. /\ UNCHANGED <<id, data, toProbe, toHost>> /\ packet' = NoPacket /\ Failed'
          /\ cpc'[c] = cpc[c] \/ (Waiting(cpc[c]) /\ Waiting(cpc'[c]))
      BY <1>0, <1>10 DEF RDisconnect, WakeCallers, Waiting, Failed
    <2>2. GoesOn(c)
      BY <1>2, <2>1
    <2> QED
      BY <1>8, <2>1, <2>2
  <1>11. CASE RDeliver
    <2>1. c = swd_txn_data /\ id[c] = swd_txn_id /\ Waiting(cpc[c])
      BY <1>11 DEF RDeliver, IsPending, CallInvariant, LockUsed, SafetyInvariant, SlotSafe, InCall,
         Waiting, LockedStages
    <2>2. /\ UNCHANGED <<id, toProbe, toHost>> /\ packet' = NoPacket /\ data'[c] = packet
          /\ packet.id = id[c] /\ Waiting(cpc'[c]) /\ swd_txn_status' = DONE
          /\ swd_txn_status = WAIT
      BY <1>0, <1>11, <2>1 DEF RDeliver, IsPending, WakeCallers, Waiting
    <2>3. data[c] = Garbage \/ data[c] = packet
      <3>1. data[c] # Garbage => data[c] \in Answers(c)
        BY DEF CallInvariant, SafetyInvariant, NoStaleReply, Answers
      <3>2. packet \in Answers(c)
        BY <2>2 DEF Answers
      <3> QED
        BY <1>0, <3>1, <3>2 DEF Unique
    <2>4. Unique(c)' /\ (Asked(c)' <=> Asked(c)) /\ Answers(c)' = Answers(c)
      BY <1>0, <2>2, <2>3, Copied
    <2>5. GoesOn(c) /\ cpc[c] # "reply" /\ (Failed' <=> Failed)
      BY <2>1, <2>2 DEF GoesOn, Waiting, Failed, WAIT, DONE, FAIL
    <2> QED
      BY <1>0, <2>4, <2>5, GoingOn
  <1>12. CASE RAsyncDone \/ RAckAgain \/ RAcked \/ SpuriousReader \/ \E words \in Sizes : Plug(words)
    BY <1>4, <1>12 DEF RAsyncDone, RAckAgain, RAcked, SpuriousReader, Plug
  <1>13. CASE ProbeLose
    <2>1. /\ UNCHANGED <<cpc, id, data, swd_txn_status, toHost, packet>>
          /\ toProbe \in Seq(Txns) /\ toProbe # <<>> /\ toProbe' = Tail(toProbe)
      BY <1>0, <1>13 DEF ProbeLose, TypeOK
    <2> QED
      BY <1>3, <1>8, <2>1
  <1>14. CASE Unplug
    <2>1. UNCHANGED <<cpc, id, data, swd_txn_status, packet>> /\ toProbe' = <<>> /\ toHost' = <<>>
      BY <1>14 DEF Unplug
    <2> QED
      BY <1>3, <1>8, <2>1
  <1>15. ASSUME NEW ok \in BOOLEAN, ProbeAnswer(ok) PROVE Outcome(c)
    <2>1. UNCHANGED <<cpc, id, data, swd_txn_status, packet>>
      BY <1>15 DEF ProbeAnswer
    <2>2. /\ Unique(c)'
          /\ \/ (Asked(c)' <=> Asked(c)) /\ Answers(c)' = Answers(c)
             \/ /\ Asked(c) /\ ~Asked(c)' /\ Answers(c) = {}
                /\ \E p : p.kind \in {"ok", "err"} /\ Answers(c)' = {p}
      BY <1>0, <1>15, <2>1, Answered
    <2>3. (Failed' <=> Failed) /\ GoesOn(c)
      BY <1>3, <2>1 DEF Failed
    <2> QED
      BY <1>0, <1>1, <2>2, <2>3, GoingOn
  <1>16. ASSUME NEW kind \in {"async", "junk"}, ProbeNoise(kind) PROVE Outcome(c)
    <2>1. UNCHANGED <<cpc, id, data, swd_txn_status, packet>>
      BY <1>16 DEF ProbeNoise
    <2>2. Unique(c)' /\ (Asked(c)' <=> Asked(c)) /\ Answers(c)' = Answers(c)
      BY <1>0, <1>16, <2>1, Noise
    <2>3. (Failed' <=> Failed) /\ GoesOn(c)
      BY <1>3, <2>1 DEF Failed
    <2> QED
      BY <1>0, <1>1, <2>2, <2>3, GoingOn
  <1>17. ASSUME NEW d \in Callers, SpuriousCaller(d) PROVE Outcome(c)
    <2>1. /\ UNCHANGED <<id, data, swd_txn_status, toProbe, toHost, packet>>
          /\ cpc'[c] = cpc[c] \/ (Waiting(cpc[c]) /\ Waiting(cpc'[c]))
      BY <1>0, <1>17 DEF SpuriousCaller, Waiting
    <2>2. GoesOn(c)
      BY <1>2, <2>1
    <2> QED
      BY <1>0, <1>1, <2>1, <2>2, StillCarried, GoingOn DEF Failed
  <1> QED
    BY <1>5, <1>6, <1>7, <1>9, <1>10, <1>11, <1>12, <1>13, <1>14, <1>15, <1>16, <1>17
    DEF Reader, Environment

\* A call at most is under way, and before it is sent the others are idle.
LEMMA OneCall ==
  ASSUME CallInvariant, CarriedOnce, [Next]_vars
  PROVE  \E a \in Callers : \A c \in Callers \ {a} :
             cpc[c] = "idle" /\ cpc'[c] \in {"idle", "built"}
  <1>1. /\ cpc \in [Callers -> {"idle", "built", "wait", "woken", "reply"}]
        /\ dbg_lock \in Callers \cup {NULL} /\ Monitor \in Callers
        /\ \A c \in Callers : cpc[c] # "idle" => dbg_lock = c
        /\ NULL \notin Callers
    BY ConstantsAssumption, DebuggerAssumption
    DEF CallInvariant, SafetyInvariant, TypeOK, LockUsed
  <1>2. PICK a \in Callers : \A c \in Callers \ {a} : cpc[c] = "idle"
    <2>1. CASE dbg_lock \in Callers
      BY <1>1, <2>1
    <2>2. CASE dbg_lock = NULL
      BY <1>1, <2>2
    <2> QED
      BY <1>1, <2>1, <2>2
  <1>3. ASSUME NEW c \in Callers, cpc[c] = "idle" PROVE cpc'[c] \in {"idle", "built"}
    <2> USE <1>1, <1>3 DEF frame
    <2>1. CASE UNCHANGED vars
      BY <2>1 DEF vars
    <2>2. ASSUME NEW d \in Callers, Caller(d) PROVE cpc'[c] \in {"idle", "built"}
      BY <2>2 DEF Caller, QExec, QAckDisconnect, QOffline, QWrite, QWriteFail, QWaitAgain, QWake,
         QReply, QStamp, QReturn, WakeCallers
    <2>3. ASSUME NEW d \in Callers, NEW bulk \in BOOLEAN, NEW clears \in BOOLEAN,
                 QBuild(d, bulk, clears)
          PROVE  cpc'[c] \in {"idle", "built"}
      BY <2>3 DEF QBuild
    <2>4. CASE Reader
      BY <2>4 DEF Reader, ROpen, RQuery, RRead, RReadGone, RDisconnect, RDiscard, RQueryReply,
         RAsync, RAsyncDone, RDeliver, RUnexpected, RAckAgain, RAcked, WakeCallers
    <2>5. CASE Environment
      BY <2>5 DEF Environment, RReadFault, ProbeLose, Unplug, SpuriousReader, ProbeAnswer,
         ProbeNoise, Plug, SpuriousCaller
    <2> QED
      BY <2>1, <2>2, <2>3, <2>4, <2>5 DEF Next
  <1> QED
    BY <1>2, <1>3

LEMMA EveryOutcome ==
  ASSUME CallInvariant, CarriedOnce, [DNext]_dvars, NEW c \in Callers
  PROVE  Outcome(c)
  <1>0. [Next]_vars
    BY TransportStep
  <1>1. PICK a \in Callers : \A d \in Callers \ {a} :
             cpc[d] = "idle" /\ cpc'[d] \in {"idle", "built"}
    BY <1>0, OneCall
  <1>2. CASE c # a
    BY <1>1, <1>2, Idling
  <1>3. cpc \in [Callers -> {"idle", "built", "wait", "woken", "reply"}]
    BY DEF CallInvariant, SafetyInvariant, TypeOK
  <1>4. CASE UNCHANGED vars
    <2>1. UNCHANGED <<cpc, id, data, swd_txn_status, toProbe, toHost, packet>>
      BY <1>4 DEF vars
    <2>2. CASE InCall(c)
      <3>1. /\ Unique(c) /\ GoesOn(c) /\ id'[c] = id[c] /\ data'[c] = data[c]
            /\ cpc[c] = "reply" => data[c].id = id[c]
        BY <2>1, <2>2
        DEF CarriedOnce, GoesOn, InCall, Waiting, CallInvariant, SafetyInvariant, ReplyKept,
            NoStaleReply
      <3> QED
        BY <2>1, <3>1, StillCarried, GoingOn DEF Failed
    <2>3. CASE ~InCall(c)
      BY <1>3, <2>1, <2>3, Idling DEF InCall
    <2> QED
      BY <2>2, <2>3
  <1>5. CASE Caller(c)
    BY <1>5, OwnStep
  <1>6. ASSUME NEW d \in Callers, Caller(d), d # c PROVE Outcome(c)
    <2>1. cpc[d] # "idle"
      BY <1>6 DEF Caller, QExec, QAckDisconnect, QOffline, QWrite, QWriteFail, QWaitAgain, QWake,
         QReply, QStamp
    <2>2. a = d
      BY <1>1, <2>1
    <2> QED
      BY <1>2, <1>6, <2>2
  <1>7. ASSUME NEW d \in Callers, NEW bulk \in BOOLEAN, NEW clears \in BOOLEAN,
               QBuild(d, bulk, clears)
        PROVE  Outcome(c)
    <2>1. /\ UNCHANGED <<id, data, swd_txn_status, toProbe, toHost, packet>>
          /\ cpc[d] = "idle" /\ cpc' = [cpc EXCEPT ![d] = "built"]
      BY <1>7 DEF QBuild, slot, reader, probe
    <2>2. CASE InCall(c)
      <3>1. /\ Unique(c) /\ GoesOn(c) /\ id'[c] = id[c] /\ data'[c] = data[c]
            /\ cpc[c] = "reply" => data[c].id = id[c]
        BY <1>3, <2>1, <2>2
        DEF CarriedOnce, GoesOn, InCall, Waiting, CallInvariant, SafetyInvariant, ReplyKept,
            NoStaleReply
      <3> QED
        BY <2>1, <3>1, StillCarried, GoingOn DEF Failed
    <2>3. CASE ~InCall(c)
      BY <1>3, <2>1, <2>3, Idling DEF InCall
    <2> QED
      BY <2>2, <2>3
  <1>8. CASE Reader \/ Environment
    <2>1. CASE InCall(c)
      BY <1>8, <2>1, OthersStep
    <2>2. CASE ~InCall(c)
      <3>1. cpc[c] \in {"idle", "built"}
        BY <1>3, <2>2 DEF InCall
      <3>2. cpc'[c] = cpc[c]
        BY <1>3, <1>8, <3>1
        DEF Reader, ROpen, RQuery, RRead, RReadGone, RDisconnect, RDiscard, RQueryReply,
            RAsync, RAsyncDone, RDeliver, RUnexpected, RAckAgain, RAcked, WakeCallers,
            Environment, RReadFault, ProbeLose, Unplug, SpuriousReader, ProbeAnswer,
            ProbeNoise, Plug, SpuriousCaller, frame
      <3> QED
        BY <3>1, <3>2, Idling
    <2> QED
      BY <2>1, <2>2
  <1> QED
    BY <1>0, <1>4, <1>5, <1>6, <1>7, <1>8 DEF Next

\* The reader has a packet in its hand only while it looks at it.
LEMMA HandStep ==
  ASSUME rpc # "got" => packet = NoPacket, [Next]_vars PROVE (rpc # "got" => packet = NoPacket)'
  <1> USE DEF reader
  <1>1. CASE UNCHANGED vars
    BY <1>1 DEF vars
  <1>2. ASSUME NEW c \in Callers, Caller(c) PROVE rpc' # "got" => packet' = NoPacket
    BY <1>2 DEF Caller, QExec, QAckDisconnect, QOffline, QWrite, QWriteFail, QWaitAgain,
       QWake, QReply, WakeReader
  <1>3. ASSUME NEW c \in Callers, NEW bulk \in BOOLEAN, NEW clears \in BOOLEAN,
               QBuild(c, bulk, clears)
        PROVE  rpc' # "got" => packet' = NoPacket
    BY <1>3 DEF QBuild
  <1>4. CASE Reader
    BY <1>4 DEF Reader, ROpen, RQuery, RRead, RReadGone, RDisconnect, RDiscard, RQueryReply,
       RAsync, RAsyncDone, RDeliver, RUnexpected, RAckAgain, RAcked
  <1>5. CASE Environment
    BY <1>5 DEF Environment, RReadFault, ProbeLose, Unplug, SpuriousReader, ProbeAnswer,
       ProbeNoise, Plug, SpuriousCaller
  <1> QED
    BY <1>1, <1>2, <1>3, <1>4, <1>5 DEF Next

-----------------------------------------------------------------------------
(* The refinement.                                                         *)

CallsVar == [c \in Callers |-> CallState(c)]

\* A step of RemoteCall for call a, from f to g.
Stepped(f, g, a) ==
    \/ g = f
    \/ f[a] = "none" /\ g = [f EXCEPT ![a] = "sent"]
    \/ \E r \in {"ok", "err"} : f[a] = "sent" /\ g = [f EXCEPT ![a] = r]
    \/ g = [c \in Callers |-> IF f[c] \in {"ok", "err"} \cup {"sent"} THEN "lost" ELSE f[c]]
    \/ f[a] = "ok" /\ g = [f EXCEPT ![a] = "returnedOk"]
    \/ f[a] = "err" /\ g = [f EXCEPT ![a] = "returnedErr"]
    \/ f[a] \in {"returnedOk", "returnedErr"} /\ g = [f EXCEPT ![a] = "none"]
    \/ f[a] = "lost" /\ g = [f EXCEPT ![a] = "none"]

\* The moves of all calls, when one at most is not idle.
LEMMA Moves ==
  ASSUME NEW a \in Callers, NEW S, NEW f \in [Callers -> S], NEW g \in [Callers -> S],
         \A c \in Callers : Move(f[c], g[c]),
         \A c \in Callers \ {a} : f[c] = "none" /\ g[c] = "none"
  PROVE  Stepped(f, g, a)
  <1>1. \A x : g[a] = x => g = [f EXCEPT ![a] = x]
    OBVIOUS
  <1>2. g[a] = f[a] => g = f
    OBVIOUS
  <1>3. ASSUME f[a] \in Progress, g[a] = "lost"
        PROVE  g = [c \in Callers |-> IF f[c] \in {"ok", "err"} \cup {"sent"} THEN "lost" ELSE f[c]]
    BY <1>3 DEF Progress
  <1>4. Move(f[a], g[a])
    OBVIOUS
  <1> QED
    BY <1>1, <1>2, <1>3, <1>4 DEF Move, Stepped

LEMMA RemoteStep ==
  ASSUME CallInvariant, CarriedOnce, [DNext]_dvars
  PROVE  CarriedOnce' /\ [Calls!Next]_CallsVar
  <1>0. [Next]_vars
    BY TransportStep
  <1>1. CarriedOnce'
    <2>1. \A c \in Callers : InCall(c)' => Unique(c)'
      BY EveryOutcome DEF Outcome
    <2>2. (rpc # "got" => packet = NoPacket)'
      BY <1>0, HandStep DEF CarriedOnce
    <2> QED
      BY <2>1, <2>2 DEF CarriedOnce
  <1> DEFINE f == CallsVar
             g == CallsVar'
  <1>2. PICK a \in Callers : \A c \in Callers \ {a} :
             cpc[c] = "idle" /\ cpc'[c] \in {"idle", "built"}
    BY <1>0, OneCall
  <1>3. \A c \in Callers : f[c] = CallState(c) /\ g[c] = CallState(c)'
    BY DEF CallsVar
  <1> DEFINE S == {CallState(c) : c \in Callers} \cup {CallState(c)' : c \in Callers}
  <1>4. f \in [Callers -> S] /\ g \in [Callers -> S]
    BY DEF CallsVar
  <1>5. \A c \in Callers : Move(f[c], g[c])
    BY <1>3, EveryOutcome DEF Outcome
  <1>6. \A c \in Callers \ {a} : f[c] = "none" /\ g[c] = "none"
    BY <1>2, <1>3, StateIs, Idles
  <1>7. \/ g = f
        \/ Calls!Send(a) \/ Calls!Break \/ Calls!Return(a) \/ Calls!Finish(a) \/ Calls!Fail(a)
        \/ \E r \in {"ok", "err"} : Calls!Execute(a, r)
    <2> USE DEF CallsVar
    <2>1. f[a] = "none" /\ g = [f EXCEPT ![a] = "sent"] => Calls!Send(a)
      BY DEF Calls!Send
    <2>2. \A r \in {"ok", "err"} : f[a] = "sent" /\ g = [f EXCEPT ![a] = r] => Calls!Execute(a, r)
      BY DEF Calls!Execute
    <2>3. g = [c \in Callers |-> IF f[c] \in {"ok", "err"} \cup {"sent"} THEN "lost" ELSE f[c]]
          => Calls!Break
      BY DEF Calls!Break, Calls!Results
    <2>r. f[a] \in {"ok", "err"} /\ g = [f EXCEPT ![a] = Calls!Returned[f[a]]] => Calls!Return(a)
      BY DEF Calls!Return, Calls!Results
    <2>s. Calls!Returned["ok"] = "returnedOk" /\ Calls!Returned["err"] = "returnedErr"
      BY DEF Calls!Returned
    <2>5. f[a] \in {"returnedOk", "returnedErr"} /\ g = [f EXCEPT ![a] = "none"] => Calls!Finish(a)
      BY DEF Calls!Finish, Calls!Results, Calls!Returned
    <2>6. f[a] = "lost" /\ g = [f EXCEPT ![a] = "none"] => Calls!Fail(a)
      BY DEF Calls!Fail
    <2> HIDE DEF f, g, S, CallsVar
    <2>4. /\ f[a] = "ok" /\ g = [f EXCEPT ![a] = "returnedOk"] => Calls!Return(a)
          /\ f[a] = "err" /\ g = [f EXCEPT ![a] = "returnedErr"] => Calls!Return(a)
      BY <2>r, <2>s
    <2>7. Stepped(f, g, a)
      BY <1>4, <1>5, <1>6, Moves
    <2> QED
      BY <2>1, <2>2, <2>3, <2>4, <2>5, <2>6, <2>7 DEF Stepped
  <1> QED
    BY <1>1, <1>7 DEF Calls!Next, Calls!Results

\* q_exec under _dbg_lock is a remote call: it returns what the probe answered to
\* this very transaction, at most once, and fails only if the connection broke, whatever
\* is lost, late or unasked for, and whoever unplugs the probe.
THEOREM RemoteCalls == ASSUME Parsers = {} PROVE DSpec => ImplementsRemoteCall
  <1>1. DInit => CarriedOnce
    BY DEF DInit, Init, CarriedOnce, InCall
  <1>2. DInit => Calls!Init
    <2> SUFFICES ASSUME DInit PROVE \A c \in Callers : CallState(c) = "none"
      BY DEF Calls!Init
    <2> QED
      BY StateIs, Idles DEF DInit, Init
  <1>3. CallInvariant /\ [DNext]_dvars => CallInvariant'
    BY CallStep
  <1>4. CallInvariant /\ CarriedOnce /\ [DNext]_dvars => CarriedOnce' /\ [Calls!Next]_CallsVar
    BY RemoteStep
  <1> QED
    BY <1>1, <1>2, <1>3, <1>4, CallInit, PTL DEF DSpec, ImplementsRemoteCall, Calls!Spec, CallsVar
==============================================================================
