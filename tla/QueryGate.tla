----------------------------- MODULE QueryGate -----------------------------
(***************************************************************************)
(* The two limits on database work: the read-only connection pool of       *)
(* exec/pool.py and the _query_gate semaphore of web/service.py, with the  *)
(* threads that take them.                                                 *)
(*                                                                         *)
(*   - a query (DATA_QUERY) takes a connection, then the gate, and runs    *)
(*     all its statements on that connection;                              *)
(*   - a glossary question takes the gate, and a connection for each data  *)
(*     tool its planner calls;                                             *)
(*   - an analysis (the agent graph) takes a connection for each fetch or  *)
(*     profiling and never takes the gate.                                 *)
(*                                                                         *)
(* A statement runs on a thread of its own under the watchdog of           *)
(* exec/guards.py, which may outlive the statement's timeout.              *)
(***************************************************************************)
EXTENDS Naturals, FiniteSets

CONSTANTS
    Queries, Glossaries, Analyses,  \* the requests, one thread each
    Capacity,       \* max_connections of the pool, DB_POOL_SIZE
    Permits,        \* MAX_CONCURRENT_QUERIES
    MaxStatements,  \* bound: statements each request may run
    Closing,        \* whether the pool may be closed
    None            \* no connection

VARIABLES
    at,         \* where each request is
    conn,       \* the connection each request holds
    ran,        \* statements each request ran, and tool calls that needed none
    gated,      \* the requests that hold a permit of the gate
    idle,       \* the connections in the pool's queue
    created,    \* number of connections created; they are 1..created
    shut,       \* the connections that were closed
    closer,     \* the thread in close(): "open", "draining" or "closed"
    orphaned    \* the connections on which a timed out statement is still running

poolVars == <<idle, created, shut, closer>>
vars == <<at, conn, ran, gated, poolVars, orphaned>>

Requests == Queries \cup Glossaries \cup Analyses
Conns == 1..Capacity
Closed == closer # "open"

Places == {"start", "acquire", "create", "wait", "gate", "work", "running",
           "release", "put", "done"}

ASSUME KindsAssumption ==
    /\ Queries \cap Glossaries = {}
    /\ Queries \cap Analyses = {}
    /\ Glossaries \cap Analyses = {}
ASSUME LimitsAssumption ==
    /\ Capacity \in Nat \ {0}
    /\ Permits \in Nat \ {0}
    /\ MaxStatements \in [Requests -> Nat]
ASSUME NoneAssumption == None \notin Nat
ASSUME ClosingAssumption == Closing \in BOOLEAN

Init ==
    /\ at = [r \in Requests |-> "start"]
    /\ conn = [r \in Requests |-> None]
    /\ ran = [r \in Requests |-> 0]
    /\ gated = {}
    /\ idle = {}
    /\ created = 0
    /\ shut = {}
    /\ closer = "open"
    /\ orphaned = {}

-----------------------------------------------------------------------------
(* A request's way through run_query, agent.run and run_guarded_query *)

Go(r, place) == at' = [at EXCEPT ![r] = place]

\* A statement's worker thread starts.
Execute(r) ==
    /\ ran' = [ran EXCEPT ![r] = @ + 1]
    /\ Go(r, "running")

\* A tool call has its connection: it runs a statement, unless the result is
\* cached or its DSL does not compile.
Call(r) ==
    \/ Execute(r)
    \/ ran' = [ran EXCEPT ![r] = @ + 1] /\ Go(r, "release")

\* A request that could not get a connection: a query fails, a tool call of
\* the others is answered with an error.
Refused(r) ==
    /\ IF r \in Queries
       THEN Go(r, "done") /\ UNCHANGED ran
       ELSE Go(r, "work") /\ ran' = [ran EXCEPT ![r] = @ + 1]
    /\ UNCHANGED conn

\* acquire() begins with the closed check.
Enter(r) ==
    IF Closed THEN Refused(r) ELSE Go(r, "acquire") /\ UNCHANGED <<conn, ran>>

\* Mutant: a glossary question does not hold the gate.
BeginUngated(r) ==
    /\ at[r] = "start"
    /\ IF r \in Queries THEN Enter(r) ELSE Go(r, "work") /\ UNCHANGED <<conn, ran>>
    /\ UNCHANGED <<gated, poolVars, orphaned>>

Begin(r) ==
    /\ at[r] = "start"
    /\ IF r \in Queries
       THEN Enter(r)
       ELSE /\ Go(r, IF r \in Glossaries THEN "gate" ELSE "work")
            /\ UNCHANGED <<conn, ran>>
    /\ UNCHANGED <<gated, poolVars, orphaned>>

\* with _query_gate: a request enters when a permit is free.
EnterGate(r) ==
    /\ at[r] = "gate"
    /\ Cardinality(gated) < Permits
    /\ gated' = gated \cup {r}
    /\ Go(r, "work")
    /\ UNCHANGED <<conn, ran, poolVars, orphaned>>

\* The agent goes for the data: a query has its connection, the others take one.
CallTool(r) ==
    /\ at[r] = "work"
    /\ ran[r] < MaxStatements[r]
    /\ IF r \in Queries THEN Execute(r) /\ UNCHANGED conn ELSE Enter(r)
    /\ UNCHANGED <<gated, poolVars, orphaned>>

\* agent.run returns or raises: the gate is left in either case, and a query
\* gives its connection back.
Leave(r) ==
    /\ at[r] = "work"
    /\ gated' = gated \ {r}
    /\ Go(r, IF r \in Queries THEN "release" ELSE "done")
    /\ UNCHANGED <<conn, ran, poolVars, orphaned>>

-----------------------------------------------------------------------------
(* ReadOnlyConnectionPool *)

\* Mutant: the connection handed out stays in the queue.
LendShared(r, c) ==
    /\ conn' = [conn EXCEPT ![r] = c]
    /\ idle' = idle
    /\ IF r \in Queries THEN Go(r, "gate") /\ UNCHANGED ran ELSE Call(r)

Lend(r, c) ==
    /\ conn' = [conn EXCEPT ![r] = c]
    /\ idle' = idle \ {c}
    /\ IF r \in Queries THEN Go(r, "gate") /\ UNCHANGED ran ELSE Call(r)

\* acquire(): get_nowait.
Acquire(r) ==
    /\ at[r] = "acquire"
    /\ \/ \E c \in idle : Lend(r, c)
       \/ idle = {} /\ Go(r, "create") /\ UNCHANGED <<conn, ran, idle>>
    /\ UNCHANGED <<gated, created, shut, closer, orphaned>>

\* Mutant: the last connection is created twice.
CreateBeyond(r) ==
    /\ at[r] = "create"
    /\ created' = created + 1
    /\ Lend(r, created + 1)
    /\ UNCHANGED <<gated, shut, closer, orphaned>>

\* acquire() under the lock: create a connection if there is room for it.
Create(r) ==
    /\ at[r] = "create"
    /\ \/ /\ created < Capacity
          /\ created' = created + 1
          /\ Lend(r, created + 1)
       \/ /\ created < Capacity  \* duckdb.connect raises
          /\ Refused(r)
          /\ UNCHANGED <<created, idle>>
       \/ /\ created = Capacity
          /\ Go(r, "wait")
          /\ UNCHANGED <<conn, ran, created, idle>>
    /\ UNCHANGED <<gated, shut, closer, orphaned>>

\* acquire(): the blocking get, which does not look at closed again.
Get(r) ==
    /\ at[r] = "wait"
    /\ \E c \in idle : Lend(r, c)
    /\ UNCHANGED <<gated, created, shut, closer, orphaned>>

\* Mutant: a query whose agent failed keeps its connection.
ReleaseNothing(r) ==
    /\ at[r] = "release"
    /\ Go(r, IF r \in Queries THEN "done" ELSE "put")
    /\ UNCHANGED <<conn, ran, gated, poolVars, orphaned>>

\* release(): closes the connection of a closed pool.
Release(r) ==
    /\ at[r] = "release"
    /\ IF Closed
       THEN /\ shut' = shut \cup {conn[r]}
            /\ conn' = [conn EXCEPT ![r] = None]
            /\ Go(r, IF r \in Queries THEN "done" ELSE "work")
       ELSE /\ Go(r, "put")
            /\ UNCHANGED <<shut, conn>>
    /\ UNCHANGED <<ran, gated, idle, created, closer, orphaned>>

\* release(): back into the queue.
Put(r) ==
    /\ at[r] = "put"
    /\ idle' = idle \cup {conn[r]}
    /\ conn' = [conn EXCEPT ![r] = None]
    /\ Go(r, IF r \in Queries THEN "done" ELSE "work")
    /\ UNCHANGED <<ran, gated, created, shut, closer, orphaned>>

\* close() sets the flag, then empties the queue.
Close ==
    /\ Closing
    /\ closer = "open"
    /\ closer' = "draining"
    /\ UNCHANGED <<at, conn, ran, gated, idle, created, shut, orphaned>>

Drain ==
    /\ closer = "draining"
    /\ IF idle = {}
       THEN closer' = "closed" /\ UNCHANGED <<idle, shut>>
       ELSE /\ UNCHANGED closer
            /\ \E c \in idle : idle' = idle \ {c} /\ shut' = shut \cup {c}
    /\ UNCHANGED <<at, conn, ran, gated, created, orphaned>>

-----------------------------------------------------------------------------
(* _run_with_timeout *)

\* Back from a statement: the next one of the same call (the scan precheck
\* comes first, a rewritten query later), or the end of the call.
Returns(r) ==
    \/ ran[r] < MaxStatements[r] /\ Execute(r)
    \/ Go(r, IF r \in Queries THEN "work" ELSE "release") /\ UNCHANGED ran

\* The worker finishes in time.
Answered(r) ==
    /\ at[r] = "running"
    /\ Returns(r)
    /\ UNCHANGED <<conn, gated, poolVars, orphaned>>

\* The watchdog interrupts the worker and waits two seconds for it to end.
TimesOut(r) ==
    /\ at[r] = "running"
    /\ Returns(r)
    /\ orphaned' \in {orphaned, orphaned \cup {conn[r]}}
    /\ UNCHANGED <<conn, gated, poolVars>>

\* The statements left running on a connection have ended.
OrphansEnd(c) ==
    /\ c \in orphaned
    /\ orphaned' = orphaned \ {c}
    /\ UNCHANGED <<at, conn, ran, gated, poolVars>>

-----------------------------------------------------------------------------

\* What a request does once it has begun.
Proceed(r) ==
    \/ EnterGate(r) \/ CallTool(r) \/ Leave(r)
    \/ Acquire(r) \/ Create(r) \/ Get(r) \/ Release(r) \/ Put(r)
    \/ Answered(r) \/ TimesOut(r)

Next ==
    \/ \E r \in Requests : Begin(r) \/ Proceed(r)
    \/ Close \/ Drain
    \/ \E c \in Conns : OrphansEnd(c)

\* Threads run on; a statement ends or is timed out.
Spec ==
    /\ Init /\ [][Next]_vars
    /\ \A r \in Requests : WF_vars(Proceed(r))
    /\ WF_vars(Drain)

-----------------------------------------------------------------------------
(* Properties *)

TypeOK ==
    /\ at \in [Requests -> Places]
    /\ conn \in [Requests -> Conns \cup {None}]
    /\ ran \in [Requests -> Nat]
    /\ \A r \in Requests : ran[r] <= MaxStatements[r]
    /\ gated \subseteq Requests
    /\ idle \subseteq Conns
    /\ created \in 0..Capacity
    /\ shut \subseteq Conns
    /\ closer \in {"open", "draining", "closed"}
    /\ orphaned \subseteq Conns

Lent == {conn[r] : r \in Requests} \ {None}

\* Every connection the pool created is at one place: in the queue, closed, or
\* with one request.  None is lent twice and none is lost, whichever way the
\* acquire, release and close calls of the threads interleave.
ConnectionsAccounted ==
    /\ idle \cup shut \cup Lent = 1..created
    /\ idle \cap shut = {} /\ idle \cap Lent = {} /\ shut \cap Lent = {}
    /\ \A r, s \in Requests : conn[r] = conn[s] /\ conn[r] # None => r = s

\* A web query never works on the database outside the gate, and the gate
\* admits at most its permits: neither kind of question gets around it.
GateHolds ==
    /\ Cardinality(gated) <= Permits
    /\ \A r \in Queries \cup Glossaries : at[r] = "running" => r \in gated

\* A timed out statement has ended before its connection runs another: the
\* watchdog waits for the worker to really exit.
StatementsExclusive ==
    \A r \in Requests : at[r] = "running" => conn[r] \notin orphaned

\* Queries hold every connection and wait for the gate, which glossary questions
\* hold while they wait for a connection: none of them can go on.
Entangled ==
    /\ Cardinality(gated) = Permits /\ \A r \in gated : at[r] = "wait"
    /\ Lent = Conns /\ \A r \in Requests : conn[r] # None => at[r] = "gate"

\* A request that has begun is finished, unless the pool is closed or the queries
\* and the glossary questions are entangled: that is the only way for requests to
\* wait for ever, and neither a timed out statement, a connection that could not
\* be made nor an agent that failed leads to another.
RequestsFinish ==
    \A r \in Requests : at[r] # "start" ~> at[r] = "done" \/ Closed \/ Entangled

\* A request that queues for a connection gets one, as acquire() says.
QueuedIsServed ==
    \A r \in Requests : at[r] = "wait" ~> at[r] # "wait"
=============================================================================
