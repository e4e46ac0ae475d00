------------------------------ MODULE HanaCall ------------------------------
(***************************************************************************)
(* What a call of the backend promises its caller about the statement it   *)
(* stands for, whatever happens to pools, connections and registrations.   *)
(*                                                                         *)
(* - rows are the answer of a statement that ran, once;                    *)
(* - a call that was not served (no profile, bad arguments, nothing        *)
(*   configured) leaves no trace in the database, then or later;           *)
(* - a call that failed leaves open whether its statement ran, and the     *)
(*   statement may still run after the reply, but never twice.             *)
(***************************************************************************)
EXTENDS Naturals

CONSTANT Calls

VARIABLES status, outcome, ran

vars == <<status, outcome, ran>>

Init ==
    /\ status = [c \in Calls |-> "idle"]
    /\ outcome = [c \in Calls |-> "none"]
    /\ ran = [c \in Calls |-> 0]

Invoke(c) ==
    /\ status[c] = "idle"
    /\ status' = [status EXCEPT ![c] = "pending"]
    /\ UNCHANGED <<outcome, ran>>

Run(c) ==
    /\ status[c] = "pending" \/ outcome[c] = "failed"
    /\ ran[c] = 0
    /\ ran' = [ran EXCEPT ![c] = 1]
    /\ UNCHANGED <<status, outcome>>

Return(c, o) ==
    /\ status[c] = "pending"
    /\ o = "ok" => ran[c] = 1
    /\ o = "unserved" => ran[c] = 0
    /\ status' = [status EXCEPT ![c] = "returned"]
    /\ outcome' = [outcome EXCEPT ![c] = o]
    /\ UNCHANGED ran

Next ==
    \E c \in Calls :
        \/ Invoke(c)
        \/ Run(c)
        \/ \E o \in {"ok", "unserved", "failed"} : Return(c, o)

Spec == Init /\ [][Next]_vars
=============================================================================
