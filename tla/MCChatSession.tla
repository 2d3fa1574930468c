--------------------------- MODULE MCChatSession ---------------------------
(* TLC instance of ChatSession. *)
EXTENDS ChatSession, TLC

CONSTANTS u1, u2, s1, s2

\* Two users on one session, one of them with a second session as well.
MCCallers ==
    [user : {u1}, session : Sessions, worker : Workers]
        \cup [user : {u2}, session : {s1}, worker : Workers]

Symmetry == Permutations(Requests) \cup Permutations(Workers)
=============================================================================
