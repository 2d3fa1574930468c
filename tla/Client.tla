------------------------------- MODULE Client -------------------------------
(***************************************************************************)
(* The browser side of the agent's event stream: the page of               *)
(* src/web/static/app.js with its store (js/store.js), the streams it      *)
(* opens (js/stream.js), which reconnect by themselves, and the button for *)
(* a new thread (js/sidebar-ui.js).  The user asks, answers the agent's    *)
(* questions, starts new threads and logs out at any moment; the network   *)
(* and the server do what they like.  The script runs each handler to its  *)
(* end, so that a handler is one step.                                     *)
(*                                                                         *)
(* What an event shows is left out: the page remembers from which streams  *)
(* it shows events.  Streams are numbered in the order they are opened.    *)
(***************************************************************************)
EXTENDS Naturals

CONSTANTS
    MaxStreams,     \* bound: streams opened in all
    MaxRetries,     \* maxRetries of a stream
    Null

ASSUME BoundsAssumption == MaxStreams \in Nat /\ MaxRetries \in Nat
ASSUME NullAssumption == Null \notin Nat

VARIABLES
    page,       \* boot, console, leaving (logging out), or left
    running,    \* AgentStore: running
    disabled,   \* is the button "run" disabled?
    hitl,       \* AgentStore: hitlState, the question asked
    token,      \* hitlResumeToken: the question whose token it is
    cards,      \* of each question: the click handlers of its card
    active,     \* activeStream
    window,     \* window.__activeStream
    conn,       \* of each stream: unused, connecting, open, working, told,
                \* waiting (to connect again), closed or aborted
    retries,    \* its reconnections
    reply,      \* the streams that carry an answer
    thread,     \* the thread each stream was opened in
    now,        \* the number of the thread on the page
    shown,      \* the streams whose events the page shows
    abandoned   \* history: was a new thread started while running?

storeVars == <<running, disabled, hitl, token, cards, shown, abandoned>>
streamVars == <<conn, retries>>
openVars == <<active, window, reply, thread, now>>
pageVars == <<page, storeVars, streamVars, openVars>>

Streams == 1 .. MaxStreams
\* A question is known by the connection that asked it.
Questions == Streams \X (0 .. MaxRetries)

\* The script of the console runs until the page is left.
Loaded == page \in {"console", "leaving"}
Live(s) == conn[s] \in {"connecting", "open", "working", "told", "waiting"}
NoCards == [q \in Questions |-> 0]

PageInit ==
    /\ page = "boot" /\ running = FALSE /\ disabled = FALSE
    /\ hitl = Null /\ token = Null /\ cards = NoCards
    /\ active = Null /\ window = Null
    /\ conn = [s \in Streams |-> "unused"] /\ retries = [s \in Streams |-> 0]
    /\ reply = {} /\ thread = [s \in Streams |-> 0] /\ now = 0
    /\ shown = {} /\ abandoned = FALSE

-----------------------------------------------------------------------------
(* The user.                                                               *)

\* boot: /api/auth/me knows the user, or the login page is next.
Boot ==
    /\ page = "boot"
    /\ page' \in {"console", "left"}
    /\ UNCHANGED <<storeVars, streamVars, openVars>>

\* handle.abort(): nothing more is delivered, and a reconnection in waiting
\* ends at once.
Aborting(s, c) ==
    IF s = Null \/ ~Live(s) THEN c ELSE [c EXCEPT ![s] = "aborted"]

\* The streams n .. m are those opened next.
NextStreams(n, m) ==
    /\ n \in Streams /\ m \in n .. MaxStreams /\ conn[n] = "unused"
    /\ \A s \in 1 .. n - 1 : conn[s] # "unused"

\* Mutant of Run: the stream before is left to itself.
RunOn(s) ==
    /\ Loaded /\ NextStreams(s, s)
    /\ conn' = [conn EXCEPT ![s] = "connecting"]
    /\ active' = s /\ window' = s
    /\ now' = now + 1 /\ thread' = [thread EXCEPT ![s] = now + 1]
    /\ shown' = {} /\ hitl' = Null /\ token' = Null /\ cards' = NoCards
    /\ running' = TRUE /\ disabled' = TRUE /\ abandoned' = FALSE
    /\ UNCHANGED <<page, retries, reply>>

\* run: by the button, or by the enter key even when that is disabled.  The
\* active stream is aborted and everything reset.
Run(s) ==
    /\ Loaded /\ NextStreams(s, s)
    /\ conn' = [Aborting(active, conn) EXCEPT ![s] = "connecting"]
    /\ active' = s /\ window' = s
    /\ now' = now + 1 /\ thread' = [thread EXCEPT ![s] = now + 1]
    /\ shown' = {} /\ hitl' = Null /\ token' = Null /\ cards' = NoCards
    /\ running' = TRUE /\ disabled' = TRUE /\ abandoned' = FALSE
    /\ UNCHANGED <<page, retries, reply>>

\* submitHitlReply, from the card of a question, once for each handler it
\* was given; all cards are disabled.  The streams before go on, and
\* window.__activeStream and the button stay as they are.
Reply(q, n, m) ==
    /\ Loaded /\ cards[q] > 0
    /\ NextStreams(n, m) /\ m - n + 1 = cards[q]
    /\ conn' = [s \in Streams |-> IF s \in n .. m THEN "connecting" ELSE conn[s]]
    /\ active' = m
    /\ reply' = reply \cup (n .. m)
    /\ thread' = [s \in Streams |-> IF s \in n .. m THEN now ELSE thread[s]]
    /\ hitl' = Null /\ cards' = NoCards
    /\ running' = TRUE /\ abandoned' = FALSE
    /\ UNCHANGED <<page, retries, window, now, token, shown, disabled>>

\* newThread: the stream of the last question is aborted and the store
\* reset, but neither running nor the button.
NewThread ==
    /\ Loaded /\ now < MaxStreams
    /\ conn' = Aborting(window, conn)
    /\ now' = now + 1
    /\ shown' = {} /\ hitl' = Null /\ cards' = NoCards
    /\ abandoned' = running
    /\ UNCHANGED <<page, running, disabled, token, retries, active, window, reply, thread>>

\* logout: the page is left when the server has answered.
Logout ==
    /\ page = "console"
    /\ page' = "leaving"
    /\ conn' = Aborting(active, conn)
    /\ UNCHANGED <<storeVars, retries, openVars>>

\* redirectToLogin: after a logout, or when any call was answered 401.
Leave ==
    /\ Loaded
    /\ page' = "left"
    /\ UNCHANGED <<storeVars, streamVars, openVars>>

-----------------------------------------------------------------------------
(* A stream.  Its server runs the question for each connection anew.       *)

Connect(s) ==
    /\ Loaded /\ conn[s] = "connecting"
    /\ conn' = [conn EXCEPT ![s] = "open"]
    /\ UNCHANGED <<page, storeVars, retries, openVars>>

\* The answer is 401: the page is left, and the stream not tried again.
Refused(s) ==
    /\ Loaded /\ conn[s] = "connecting"
    /\ page' = "left"
    /\ conn' = [conn EXCEPT ![s] = "closed"]
    /\ UNCHANGED <<storeVars, retries, openVars>>

\* Any other error of the connection, at any time: it waits and connects
\* again, ...
Break(s) ==
    /\ Loaded /\ conn[s] \in {"connecting", "open", "working", "told"}
    /\ retries[s] < MaxRetries
    /\ conn' = [conn EXCEPT ![s] = "waiting"]
    /\ retries' = [retries EXCEPT ![s] = @ + 1]
    /\ UNCHANGED <<page, storeVars, openVars>>
Reconnect(s) ==
    /\ Loaded /\ conn[s] = "waiting"
    /\ conn' = [conn EXCEPT ![s] = "connecting"]
    /\ UNCHANGED <<page, storeVars, retries, openVars>>

\* ... until it gives up: onError, and the end of the stream.
Fail(s) ==
    /\ Loaded /\ conn[s] \in {"connecting", "open", "working", "told"}
    /\ retries[s] = MaxRetries
    /\ conn' = [conn EXCEPT ![s] = "closed"]
    /\ shown' = shown \cup {s}
    /\ running' = FALSE /\ disabled' = FALSE
    /\ UNCHANGED <<page, hitl, token, cards, abandoned, retries, openVars>>

\* plan_created, step_start, tool_start, tool_end, reflection, artifact_emit.
Progress(s) ==
    /\ Loaded /\ conn[s] = "open"
    /\ conn' = [conn EXCEPT ![s] = "working"]
    /\ shown' = shown \cup {s}
    /\ UNCHANGED <<page, running, disabled, hitl, token, cards, abandoned, retries, openVars>>

\* done, error.
Outcome(s) ==
    /\ Loaded /\ conn[s] \in {"open", "working"}
    /\ conn' = [conn EXCEPT ![s] = "told"]
    /\ shown' = shown \cup {s}
    /\ running' = FALSE /\ disabled' = FALSE
    /\ UNCHANGED <<page, hitl, token, cards, abandoned, retries, openVars>>

\* hitl_request: renderHitl gives a click handler to each card that can
\* still be answered, the new one and those that had one already.
Question(s) ==
    /\ Loaded /\ conn[s] \in {"open", "working"}
    /\ conn' = [conn EXCEPT ![s] = "told"]
    /\ shown' = shown \cup {s}
    /\ hitl' = <<s, retries[s]>> /\ token' = <<s, retries[s]>>
    /\ cards' = [q \in Questions |->
                   IF cards[q] > 0 \/ q = <<s, retries[s]>> THEN cards[q] + 1 ELSE 0]
    /\ running' = FALSE /\ disabled' = FALSE
    /\ UNCHANGED <<page, abandoned, retries, openVars>>

\* Mutant of Close: the end of a stream is not an event of the page.
CloseSilently(s) ==
    /\ Loaded /\ conn[s] \in {"open", "working", "told"}
    /\ conn' = [conn EXCEPT ![s] = "closed"]
    /\ UNCHANGED <<page, storeVars, retries, openVars>>

\* The server ends the response, with or without an outcome: __stream_end__.
Close(s) ==
    /\ Loaded /\ conn[s] \in {"open", "working", "told"}
    /\ conn' = [conn EXCEPT ![s] = "closed"]
    /\ running' = FALSE /\ disabled' = FALSE
    /\ UNCHANGED <<page, hitl, token, cards, shown, abandoned, retries, openVars>>

-----------------------------------------------------------------------------
Step(s) ==
    \/ Connect(s) \/ Refused(s) \/ Break(s) \/ Reconnect(s) \/ Fail(s)
    \/ Progress(s) \/ Outcome(s) \/ Question(s) \/ Close(s)

PageNext ==
    \/ Boot \/ NewThread \/ Logout \/ Leave
    \/ \E s \in Streams : Run(s) \/ Step(s)
    \/ \E q \in Questions, n, m \in Streams : Reply(q, n, m)

\* Each connection is answered, breaks or ends, as the responses of the
\* server do (AgentStream: ResponsesEnd), timers fire, and a logout is
\* answered or fails.
Fairness ==
    /\ \A s \in Streams : WF_pageVars(Step(s))
    /\ WF_pageVars(page = "leaving" /\ Leave)

PageSpec == PageInit /\ [][PageNext]_pageVars /\ Fairness

-----------------------------------------------------------------------------
PageTypeOK ==
    /\ page \in {"boot", "console", "leaving", "left"}
    /\ running \in BOOLEAN /\ disabled \in BOOLEAN /\ abandoned \in BOOLEAN
    /\ hitl \in Questions \cup {Null} /\ token \in Questions \cup {Null}
    /\ cards \in [Questions -> Nat]
    /\ active \in Streams \cup {Null} /\ window \in Streams \cup {Null}
    /\ retries \in [Streams -> 0 .. MaxRetries]
    /\ reply \subseteq Streams /\ shown \subseteq Streams
    /\ thread \in [Streams -> Nat] /\ now \in Nat

\* What the page shows was sent for the thread it is on: no late event and
\* no reconnection of an earlier one gets there.  That holds as long as no
\* question of the earlier thread was answered; an answer goes out on a
\* stream that newThread does not abort (app.js:791, sidebar-ui.js:173).
ThreadsApart ==
    \A s \in shown :
        thread[s] = now \/ \E r \in reply : thread[r] = thread[s]

\* A page that runs comes to rest, whether its stream tells an outcome,
\* breaks, gives up or just ends; only a new thread leaves it running
\* without a stream (app.js:638, sidebar-ui.js:172).
SubmissionEnds ==
    (running /\ ~abandoned) ~> (~running \/ abandoned \/ page = "left")
=============================================================================
