----------------------------- MODULE RemoteCall -----------------------------
(***************************************************************************)
(* What q_exec promises its callers: a remote call that the probe executes *)
(* at most once, whose result is the one the probe gave it, and that fails *)
(* once it has been sent only because the connection broke.                *)
(*                                                                         *)
(* Nothing here mentions sequence numbers, slots, packets or locks; module *)
(* Debugger shows that the transport under _dbg_lock implements it.        *)
(***************************************************************************)
CONSTANT Callers

VARIABLE call \* what has become of each caller's call

Results == {"ok", "err"}
Returned == [ok |-> "returnedOk", err |-> "returnedErr"]

Init == call = [c \in Callers |-> "none"]

\* The transaction is sent.
Send(c) == /\ call[c] = "none"
           /\ call' = [call EXCEPT ![c] = "sent"]

\* The probe executes it, and its answer is on the way.
Execute(c, r) == /\ call[c] = "sent"
                 /\ call' = [call EXCEPT ![c] = r]

\* The probe loses it.
Lose(c) == /\ call[c] = "sent"
           /\ call' = [call EXCEPT ![c] = "lost"]

\* The caller gets the answer, and nothing but the answer.
Return(c) == /\ call[c] \in Results
             /\ call' = [call EXCEPT ![c] = Returned[call[c]]]

Finish(c) == /\ call[c] \in {Returned[r] : r \in Results}
             /\ call' = [call EXCEPT ![c] = "none"]

\* The connection breaks under every call that is under way.
Break == call' = [c \in Callers |->
                    IF call[c] \in Results \cup {"sent"} THEN "lost" ELSE call[c]]

Fail(c) == /\ call[c] = "lost"
           /\ call' = [call EXCEPT ![c] = "none"]

Next == \/ Break
        \/ \E c \in Callers : \/ Send(c) \/ Lose(c) \/ Return(c) \/ Finish(c) \/ Fail(c)
                              \/ \E r \in Results : Execute(c, r)

Spec == Init /\ [][Next]_call
=============================================================================
