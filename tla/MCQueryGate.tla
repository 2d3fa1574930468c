---------------------------- MODULE MCQueryGate ----------------------------
(* TLC instance of QueryGate. *)
EXTENDS QueryGate

CONSTANT Busy  \* the request that may run two statements

\* The other queries are refused by the compiler or the policy before they run
\* one; a tool call of the other requests is one statement.
MCMaxStatements ==
    [r \in Requests |-> IF r = Busy THEN 2 ELSE IF r \in Queries THEN 0 ELSE 1]
=============================================================================
