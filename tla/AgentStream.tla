----------------------------- MODULE AgentStream -----------------------------
(***************************************************************************)
(* The agent's two web endpoints in web/server.py and the pauses that join *)
(* one call to the next.                                                   *)
(*                                                                         *)
(* A stream has two threads: a worker that runs the agent and puts its     *)
(* events into a bounded queue, and the request's own thread that writes   *)
(* them to the client until it reads the end marker.  A post runs the      *)
(* agent on its own thread.  A run that stops at a question leaves its     *)
(* state in _AGENT_PAUSED_STATES under a new token; the client sends the   *)
(* token back with its reply.                                              *)
(***************************************************************************)
EXTENDS Naturals, Sequences

CONSTANTS
    Streams, Posts,  \* the calls of the two endpoints
    Users,
    QueueSize,       \* maxsize of the event queue, 256 in the code
    MaxEvents,       \* bound: events a run emits before its outcome
    None             \* no token, no owner

VARIABLES
    worker,    \* where the thread that runs the agent is
    user,      \* who makes each call
    token,     \* the token each call sends
    emitted,   \* events the run of each call emitted so far
    event,     \* the event the worker is about to put
    queue,     \* events_q of each stream
    writer,    \* the response: "off", "open", "ended", or "gone" with its connection
    received,  \* the frames the client got
    paused,    \* _AGENT_PAUSED_STATES: the owner of each token's state
    resumed    \* history: the calls that took up the run of each token

callVars == <<user, token>>
runVars == <<worker, emitted, event>>
responseVars == <<writer, received>>
pauseVars == <<paused, resumed>>
vars == <<callVars, runVars, queue, responseVars, pauseVars>>

Calls == Streams \cup Posts

\* A call pauses at most once: its token is named after it.
Tokens == Calls

\* An event: what it is, the number of its run's events before it, and the
\* token that a question carries.
Event == [kind : {"progress", "done", "error", "question", "end"},
          n    : Nat,
          tok  : Tokens \cup {None}]

Places == {"idle", "redeem", "run", "emit", "full", "register", "put", "over"}

ASSUME CallsAssumption == Streams \cap Posts = {} /\ None \notin Calls \cup Users
ASSUME BoundsAssumption == QueueSize \in Nat \ {0} /\ MaxEvents \in Nat

Init ==
    /\ worker = [c \in Calls |-> "idle"]
    /\ user = [c \in Calls |-> None]
    /\ token = [c \in Calls |-> None]
    /\ emitted = [c \in Calls |-> 0]
    /\ event = [c \in Calls |-> [kind |-> "progress", n |-> 0, tok |-> None]]
    /\ queue = [c \in Calls |-> <<>>]
    /\ writer = [c \in Calls |-> "off"]
    /\ received = [c \in Calls |-> <<>>]
    /\ paused = [t \in Tokens |-> None]
    /\ resumed = [t \in Tokens |-> {}]

\* The tokens that some client was told.
Announced == {t \in Tokens : \E c \in Calls : \E i \in DOMAIN received[c] :
                  received[c][i].kind = "question" /\ received[c][i].tok = t}

Go(c, place) == worker' = [worker EXCEPT ![c] = place]

\* The worker of c goes to a place with the next event of its run.
Issue(c, place, kind, tok) ==
    /\ event' = [event EXCEPT ![c] = [kind |-> kind, n |-> emitted[c], tok |-> tok]]
    /\ emitted' = [emitted EXCEPT ![c] = @ + 1]
    /\ Go(c, place)

\* What the endpoint itself has to say: a stream puts it into the queue, a post
\* answers with it.
Conclude(c, kind, tok) ==
    \/ c \in Streams /\ Issue(c, "put", kind, tok) /\ UNCHANGED responseVars
    \/ /\ c \in Posts
       /\ received' = [received EXCEPT ![c] =
                          Append(@, [kind |-> kind, n |-> emitted[c], tok |-> tok])]
       /\ writer' = [writer EXCEPT ![c] = "ended"]
       /\ Go(c, "over")
       /\ UNCHANGED <<emitted, event>>

-----------------------------------------------------------------------------
(* The thread that runs the agent *)

Open(c) ==
    /\ worker[c] = "idle"
    /\ \E u \in Users : user' = [user EXCEPT ![c] = u]
    /\ \E t \in Announced \cup {None} :
          /\ token' = [token EXCEPT ![c] = t]
          /\ Go(c, IF t = None THEN "run" ELSE "redeem")
    /\ writer' = [writer EXCEPT ![c] = "open"]
    /\ UNCHANGED <<emitted, event, queue, received, pauseVars>>

\* Mutant: the token is looked up and stays valid.
RedeemKeeping(c) ==
    /\ worker[c] = "redeem"
    /\ paused' = paused
    /\ IF paused[token[c]] = user[c]
       THEN /\ resumed' = [resumed EXCEPT ![token[c]] = @ \cup {c}]
            /\ Go(c, "run")
            /\ UNCHANGED <<emitted, event, responseVars>>
       ELSE Conclude(c, "error", None) /\ UNCHANGED resumed
    /\ UNCHANGED <<callVars, queue>>

\* The token is popped before its owner is compared.
Redeem(c) ==
    /\ worker[c] = "redeem"
    /\ paused' = [paused EXCEPT ![token[c]] = None]
    /\ IF paused[token[c]] = user[c]
       THEN /\ resumed' = [resumed EXCEPT ![token[c]] = @ \cup {c}]
            /\ Go(c, "run")
            /\ UNCHANGED <<emitted, event, responseVars>>
       ELSE Conclude(c, "error", None) /\ UNCHANGED resumed
    /\ UNCHANGED <<callVars, queue>>

\* run_agent reports progress; only a stream listens.
Progress(c) ==
    /\ worker[c] = "run"
    /\ c \in Streams
    /\ emitted[c] < MaxEvents
    /\ Issue(c, "emit", "progress", None)
    /\ UNCHANGED <<callVars, queue, responseVars, pauseVars>>

\* The exception of a post is caught by nobody: its connection is closed and
\* nothing is written.
Break(c) ==
    /\ writer' = [writer EXCEPT ![c] = "gone"]
    /\ Go(c, "over")
    /\ UNCHANGED <<emitted, event, received>>

\* run_agent ends with a report, or raises.  A stream's observer is told either.
Finish(c) ==
    /\ worker[c] = "run"
    /\ \/ /\ c \in Streams
          /\ \E kind \in {"done", "error"} : Issue(c, "emit", kind, None)
          /\ UNCHANGED responseVars
       \/ c \in Posts /\ Conclude(c, "done", None)
       \/ c \in Posts /\ Break(c)
    /\ UNCHANGED <<callVars, queue, pauseVars>>

\* run_agent returns at a question; the observer ignores its hitl_request.
Suspend(c) ==
    /\ worker[c] = "run"
    /\ Go(c, "register")
    /\ UNCHANGED <<callVars, emitted, event, queue, responseVars, pauseVars>>

\* Mutant: the token is announced without its state.
AnnounceOnly(c) ==
    /\ worker[c] = "register"
    /\ Conclude(c, "question", c)
    /\ UNCHANGED <<callVars, queue, pauseVars>>

\* The state is registered, then the token is announced.
Register(c) ==
    /\ worker[c] = "register"
    /\ paused' = [paused EXCEPT ![c] = user[c]]
    /\ Conclude(c, "question", c)
    /\ UNCHANGED <<callVars, queue, resumed>>

-----------------------------------------------------------------------------
(* The event queue *)

\* After an event the observer has put: on with the run, the end marker after
\* a report, and after an exception the endpoint's own error event.
AfterEmit(c) ==
    \/ event[c].kind = "progress" /\ Go(c, "run") /\ UNCHANGED <<event, emitted>>
    \/ event[c].kind = "done"     /\ Issue(c, "put", "end", None)
    \/ event[c].kind = "error"    /\ Issue(c, "put", "error", None)

\* The observer's first put_nowait.
Emit(c) ==
    /\ worker[c] = "emit"
    /\ IF Len(queue[c]) < QueueSize
       THEN queue' = [queue EXCEPT ![c] = Append(@, event[c])] /\ AfterEmit(c)
       ELSE Go(c, "full") /\ UNCHANGED <<queue, event, emitted>>
    /\ UNCHANGED <<callVars, responseVars, pauseVars>>

\* Mutant: an event that finds the queue full is dropped itself.
DropNewest(c) ==
    /\ worker[c] = "full"
    /\ UNCHANGED queue
    /\ AfterEmit(c)
    /\ UNCHANGED <<callVars, responseVars, pauseVars>>

\* Mutant: the observer waits for room.
DropLater(c) ==
    /\ worker[c] = "full"
    /\ Len(queue[c]) < QueueSize
    /\ queue' = [queue EXCEPT ![c] = Append(@, event[c])]
    /\ AfterEmit(c)
    /\ UNCHANGED <<callVars, responseVars, pauseVars>>

\* The queue was full: the oldest event, if there still is one, makes room.
DropOldest(c) ==
    /\ worker[c] = "full"
    /\ queue' = [queue EXCEPT ![c] =
                    Append(IF @ = <<>> THEN @ ELSE Tail(@), event[c])]
    /\ AfterEmit(c)
    /\ UNCHANGED <<callVars, responseVars, pauseVars>>

\* Mutant: the end marker is not put after an error.
PutWithoutEnd(c) ==
    /\ worker[c] = "put"
    /\ Len(queue[c]) < QueueSize
    /\ queue' = [queue EXCEPT ![c] = Append(@, event[c])]
    /\ IF event[c].kind \in {"end", "error"}
       THEN Go(c, "over") /\ UNCHANGED <<event, emitted>>
       ELSE Issue(c, "put", "end", None)
    /\ UNCHANGED <<callVars, responseVars, pauseVars>>

\* The endpoint's own put waits for room; the end marker is its last.
Put(c) ==
    /\ worker[c] = "put"
    /\ Len(queue[c]) < QueueSize
    /\ queue' = [queue EXCEPT ![c] = Append(@, event[c])]
    /\ IF event[c].kind = "end"
       THEN Go(c, "over") /\ UNCHANGED <<event, emitted>>
       ELSE Issue(c, "put", "end", None)
    /\ UNCHANGED <<callVars, responseVars, pauseVars>>

-----------------------------------------------------------------------------
(* The thread that writes the response *)

Take(c) == queue' = [queue EXCEPT ![c] = Tail(@)]

Write(c) ==
    /\ writer[c] = "open"
    /\ queue[c] # <<>>
    /\ Take(c)
    /\ IF Head(queue[c]).kind = "end"
       THEN writer' = [writer EXCEPT ![c] = "ended"] /\ UNCHANGED received
       ELSE /\ received' = [received EXCEPT ![c] = Append(@, Head(queue[c]))]
            /\ UNCHANGED writer
    /\ UNCHANGED <<callVars, runVars, pauseVars>>

\* The client has disconnected, which the writer notices on its next frame.
Disconnected(c) ==
    /\ writer[c] = "open"
    /\ queue[c] # <<>>
    /\ Head(queue[c]).kind # "end"
    /\ Take(c)
    /\ writer' = [writer EXCEPT ![c] = "gone"]
    /\ UNCHANGED <<callVars, runVars, received, pauseVars>>

\* No event for 300 seconds: the writer says so and leaves; the run goes on.
Idle(c) ==
    /\ writer[c] = "open"
    /\ c \in Streams
    /\ queue[c] = <<>>
    /\ writer' = [writer EXCEPT ![c] = "gone"]
    /\ UNCHANGED <<callVars, runVars, queue, received, pauseVars>>

-----------------------------------------------------------------------------

Work(c) ==
    \/ Redeem(c) \/ Progress(c) \/ Finish(c) \/ Suspend(c) \/ Register(c)
    \/ Emit(c) \/ DropOldest(c) \/ Put(c)

Next == \E c \in Calls : Open(c) \/ Work(c) \/ Write(c) \/ Disconnected(c) \/ Idle(c)

\* Both threads of a call run on; nothing makes a client stay or go.
Spec ==
    /\ Init /\ [][Next]_vars
    /\ \A c \in Calls : WF_vars(Work(c)) /\ WF_vars(Write(c))

-----------------------------------------------------------------------------
(* Properties *)

\* Every variable has its type; a queue keeps its limit, also while its
\* observer makes room in it.
TypeOK ==
    /\ worker \in [Calls -> Places]
    /\ user \in [Calls -> Users \cup {None}]
    /\ token \in [Calls -> Tokens \cup {None}]
    /\ emitted \in [Calls -> Nat]
    /\ event \in [Calls -> Event]
    /\ queue \in [Calls -> Seq(Event)]
    /\ \A c \in Calls : Len(queue[c]) <= QueueSize
    /\ writer \in [Calls -> {"off", "open", "ended", "gone"}]
    /\ received \in [Calls -> Seq(Event)]
    /\ paused \in [Tokens -> Users \cup {None}]
    /\ resumed \in [Tokens -> SUBSET Calls]

\* A run that stopped at a question is taken up at most once, by the user it
\* belongs to, however many calls send its token at the same time.
TakenUpOnce ==
    \A t \in Tokens : \A c, d \in resumed[t] : c = d /\ user[c] = user[t]

\* The token a client was told works until somebody sends it: its state is
\* there before the question is.
TokenWorks ==
    \A t \in Announced : (\A c \in Calls : token[c] # t) => paused[t] = user[t]

\* The frames reach the client in the order of the run, and a response that is
\* complete ends with the run's outcome: the full queue costs progress only.  A
\* post whose run raises has no complete response, as nothing is written for it.
OutcomeDelivered ==
    \A c \in Calls :
        /\ \A i, j \in DOMAIN received[c] : i < j => received[c][i].n < received[c][j].n
        /\ writer[c] = "ended" =>
              /\ received[c] # <<>>
              /\ received[c][Len(received[c])].kind \in {"done", "error", "question"}

\* Every response ends, whatever becomes of the run.
ResponsesEnd == \A c \in Calls : writer[c] = "open" ~> writer[c] \in {"ended", "gone"}

\* A client that went away left the queue full, which the endpoint's own put
\* waits for in vain.
Stranded(c) ==
    worker[c] = "put" /\ writer[c] = "gone" /\ Len(queue[c]) = QueueSize

\* The run is carried to its end whether or not the client stays: its events
\* never block it, and only a queue left full can keep it from its last put.
RunsEnd ==
    \A c \in Calls : worker[c] # "idle" ~> worker[c] = "over" \/ Stranded(c)
=============================================================================
