------------------------------- MODULE Ledger -------------------------------
(***************************************************************************)
(* What latchrun promises about operation ids, whatever happens to the     *)
(* service: an id is claimed for good before its command runs, the command *)
(* runs at most once, the recorded outcome is final although its details   *)
(* can be forgotten, and a client that was sent an exit code was sent the  *)
(* recorded outcome.  Service implements this specification (README,       *)
(* "Recovery, history and inspection").                                    *)
(***************************************************************************)
EXTENDS Naturals

CONSTANT Operations

VARIABLES
    claimed,    \* ids nobody can use for another command any more
    outcome,    \* what the record of the operation says
    executed,   \* how often the command was started
    told        \* the exit code the client was sent

vars == <<claimed, outcome, executed, told>>

Recorded == {"succeeded", "failed", "unknown"}
Outcomes == {"pending", "forgotten"} \union Recorded

TypeOK ==
    /\ claimed \subseteq Operations
    /\ outcome \in [Operations -> Outcomes]
    /\ executed \in [Operations -> 0 .. 1]
    /\ told \in [Operations -> {"none", "zero", "nonzero"}]

Init ==
    /\ claimed = {}
    /\ outcome = [o \in Operations |-> "pending"]
    /\ executed = [o \in Operations |-> 0]
    /\ told = [o \in Operations |-> "none"]

\* Outcomes only move forward, and only for claimed ids.
Advances(before, after) ==
    \/ after = before
    \/ before = "pending" /\ after # "pending"
    \/ before \in Recorded /\ after = "forgotten"

\* The record is written as a whole: several ids can change in one step.
Record(C) ==
    /\ claimed' = claimed \union C
    /\ outcome' \in [Operations -> Outcomes]
    /\ \A o \in Operations :
        /\ Advances(outcome[o], outcome'[o])
        /\ o \notin claimed' => outcome'[o] = "pending"

Write == \E C \in SUBSET Operations : Record(C) /\ UNCHANGED <<executed, told>>

Execute(o) ==
    /\ o \in claimed
    /\ outcome[o] = "pending"
    /\ executed[o] = 0
    /\ executed' = [executed EXCEPT ![o] = 1]
    /\ \E C \in SUBSET Operations : Record(C)
    /\ outcome'[o] = "pending"
    /\ UNCHANGED told

AnswerTo(o, code) ==
    /\ executed[o] = 1
    /\ told[o] = "none"
    /\ outcome[o] \in {"forgotten", IF code = "zero" THEN "succeeded" ELSE "failed"}
    /\ told' = [told EXCEPT ![o] = code]
    /\ UNCHANGED <<claimed, outcome, executed>>

Next ==
    \/ Write
    \/ \E o \in Operations :
        Execute(o) \/ \E code \in {"zero", "nonzero"} : AnswerTo(o, code)

Spec == Init /\ [][Next]_vars
=============================================================================
