--------------------------- MODULE AgentContract ---------------------------
(***************************************************************************)
(* What a conversation with the agent promises to the layer above it (the  *)
(* web server and the evaluation): a bounded number of node visits over    *)
(* all of its resumptions, pauses that can be resumed, and one outcome     *)
(* that agrees with the evidence gathered and with the failures met.       *)
(***************************************************************************)
EXTENDS Naturals

CONSTANTS
    Budget,      \* node visits a conversation may spend
    MaxStrikes   \* failures after which only a degraded report is given

VARIABLES
    status,      \* "running", "waiting" for the user, or "finished"
    fuel,        \* node visits left
    strikes,     \* failures met
    evidence,    \* "none", "rows", or "norows": known to have no rows
    outcome      \* the report, once finished

vars == <<status, fuel, strikes, evidence, outcome>>

Evidence == {"none", "rows", "norows"}

Init ==
    /\ status = "running"
    /\ fuel = Budget
    /\ strikes = 0
    /\ evidence = "none"
    /\ outcome = "none"

\* Work inside a visit, or on to the next visit: evidence and failures change.
Work ==
    /\ status = "running"
    /\ fuel' \in {f \in {fuel, fuel - 1} : f \in Nat \ {0}}
    /\ strikes' \in {strikes, strikes + 1}
    /\ evidence' \in Evidence
    /\ UNCHANGED <<status, outcome>>

\* A question is asked only while failures may still be made up for.
Ask ==
    /\ status = "running"
    /\ strikes <= MaxStrikes
    /\ status' = "waiting"
    /\ UNCHANGED <<fuel, strikes, evidence, outcome>>

\* A reply is the start of a new visit.
Reply ==
    /\ status = "waiting"
    /\ fuel > 1
    /\ status' = "running"
    /\ fuel' = fuel - 1
    /\ UNCHANGED <<strikes, evidence, outcome>>

\* The report that the evidence and the failures call for.
Honest(o) ==
    \/ o = "degraded" /\ strikes >= MaxStrikes
    \/ o = "nodata"   /\ strikes < MaxStrikes /\ evidence = "norows"
    \/ o = "answer"   /\ strikes < MaxStrikes /\ evidence = "rows"

Report ==
    /\ status = "running"
    /\ status' = "finished"
    /\ outcome' \in {"degraded", "nodata", "answer"}
    /\ Honest(outcome')
    /\ UNCHANGED <<fuel, strikes, evidence>>

\* The budget is spent: the conversation is cut off without a report.
CutOff ==
    /\ status \in {"running", "waiting"}
    /\ fuel = 1
    /\ fuel' = 0
    /\ strikes' \in {strikes, strikes + 1}
    /\ evidence' \in Evidence
    /\ status' = "finished"
    /\ outcome' = "overrun"

Next == Work \/ Ask \/ Reply \/ Report \/ CutOff

Spec == Init /\ [][Next]_vars
=============================================================================
