---------------------------- MODULE QueryProofs ----------------------------
(***************************************************************************)
(* Proofs about two things a query is given, which have nothing in common  *)
(* but the query: the connection it runs on (QueryGate) and the dates it   *)
(* asks for (TimeWindows).                                                 *)
(*                                                                         *)
(* For every number of requests, connections and permits, the pool neither *)
(* lends a connection twice nor loses one, and no web query works on the   *)
(* database without the gate.  Neither property is inductive.  What        *)
(* carries them is where a request may be while it holds a connection or a *)
(* permit (Possessions).                                                   *)
(*                                                                         *)
(* For every date there is, every amount and every time filter the rules   *)
(* make or an LLM may write, the windows are in order, the periods of a    *)
(* comparison pair up and a spine covers its window.  The filters need no  *)
(* more of an invariant than that they are well formed (Filters); the rest *)
(* is the calendar: a month begins where the one before it ends, so that   *)
(* First is strictly monotone and every day is in one month, and taking    *)
(* months from a day takes as many from its month.                         *)
(***************************************************************************)
EXTENDS QueryGate, TimeWindows, FiniteSetTheorems, TLAPS

-----------------------------------------------------------------------------
(* The connection a query runs on                                          *)

\* Where a request holds a connection, and where it holds a permit.
ConnPlaces(r) ==
    IF r \in Queries THEN {"gate", "work", "running", "release", "put"}
    ELSE {"running", "release", "put"}

GatePlaces(r) ==
    IF r \in Queries THEN {"work", "running"}
    ELSE IF r \in Glossaries
         THEN {"work", "acquire", "create", "wait", "running", "release", "put"}
         ELSE {}

\* The requests hold what their place in the code says, and one that is about
\* to be lent a connection for a tool call has a statement left to run.
Possessions ==
    \A r \in Requests :
        /\ conn[r] # None <=> at[r] \in ConnPlaces(r)
        /\ r \in gated <=> at[r] \in GatePlaces(r)
        /\ at[r] \in {"acquire", "create", "wait"} /\ r \notin Queries
              => ran[r] < MaxStatements[r]
        /\ at[r] = "gate" => r \notin Analyses

PermitsHold == IsFiniteSet(gated) /\ Cardinality(gated) <= Permits

IInv == TypeOK /\ Possessions /\ ConnectionsAccounted /\ PermitsHold

-----------------------------------------------------------------------------
(* Lemmas about the pool's accounts *)

\* A step that leaves the connections where they are keeps the accounts.
LEMMA AccountsKept ==
    ASSUME ConnectionsAccounted, UNCHANGED <<conn, idle, created, shut>>
    PROVE  ConnectionsAccounted'
BY DEF ConnectionsAccounted, Lent

LEMMA PermitsKept ==
    ASSUME PermitsHold, UNCHANGED gated PROVE PermitsHold'
BY DEF PermitsHold

\* A request without a connection gets connection c.
LEMMA LentGains ==
    ASSUME TypeOK, NEW r \in Requests, conn[r] = None, NEW c \in Conns,
           conn' = [conn EXCEPT ![r] = c]
    PROVE  Lent' = Lent \cup {c}
<1>1. c # None
  BY NoneAssumption, LimitsAssumption DEF Conns
<1>2. \A x : x \in Lent' => x \in Lent \cup {c}
  BY DEF Lent, TypeOK
<1>3. \A x : x \in Lent \cup {c} => x \in Lent'
  <2>1. conn'[r] = c
    BY DEF TypeOK
  <2>2. \A s \in Requests : conn[s] # None => conn'[s] = conn[s]
    BY DEF TypeOK
  <2> QED  BY <1>1, <2>1, <2>2 DEF Lent
<1> QED  BY <1>2, <1>3

\* A request gives up the connection that only it holds.
LEMMA LentLoses ==
    ASSUME TypeOK, ConnectionsAccounted, NEW r \in Requests, conn[r] # None,
           conn' = [conn EXCEPT ![r] = None]
    PROVE  /\ Lent' = Lent \ {conn[r]}
           /\ conn[r] \in Lent
<1>1. \A x : x \in Lent' => x \in Lent /\ x # conn[r]
  BY DEF Lent, TypeOK, ConnectionsAccounted
<1>2. \A x : x \in Lent /\ x # conn[r] => x \in Lent'
  <2>1. \A s \in Requests : s # r => conn'[s] = conn[s]
    BY DEF TypeOK
  <2> QED  BY <2>1 DEF Lent
<1>3. conn[r] \in Lent
  BY DEF Lent
<1> QED  BY <1>1, <1>2, <1>3

\* The accounts after a request is lent an idle connection or the one created.
LEMMA LendAccounts ==
    ASSUME TypeOK, ConnectionsAccounted, NEW r \in Requests, conn[r] = None,
           NEW c \in Conns, conn' = [conn EXCEPT ![r] = c],
           idle' = idle \ {c}, shut' = shut,
           \/ c \in idle /\ created' = created
           \/ c = created + 1 /\ created' = created + 1
    PROVE  ConnectionsAccounted'
<1>1. Lent' = Lent \cup {c}
  BY LentGains
<1>2. c \notin Lent /\ c \notin shut
  BY LimitsAssumption DEF ConnectionsAccounted, TypeOK, Conns
<1>3. idle' \cup shut' \cup Lent' = 1..created'
  <2>1. CASE c \in idle /\ created' = created
    BY <1>1, <2>1 DEF ConnectionsAccounted
  <2>2. CASE c = created + 1 /\ created' = created + 1
    <3>1. 1..created' = (1..created) \cup {c}
      BY <2>2, LimitsAssumption DEF TypeOK
    <3>2. c \notin idle
      BY <2>2, LimitsAssumption DEF ConnectionsAccounted, TypeOK
    <3> QED  BY <1>1, <3>1, <3>2 DEF ConnectionsAccounted
  <2> QED  BY <2>1, <2>2
<1>4. /\ idle' \cap shut' = {}
      /\ idle' \cap Lent' = {}
      /\ shut' \cap Lent' = {}
  BY <1>1, <1>2 DEF ConnectionsAccounted
<1>5. \A s, t \in Requests : conn'[s] = conn'[t] /\ conn'[s] # None => s = t
  <2>1. \A s \in Requests : conn[s] # c
    BY <1>2, NoneAssumption, LimitsAssumption DEF Lent, Conns
  <2> QED  BY <2>1 DEF ConnectionsAccounted, TypeOK
<1> QED  BY <1>3, <1>4, <1>5 DEF ConnectionsAccounted

\* The accounts after a request gives its connection to the queue, or closes it.
LEMMA ReturnAccounts ==
    ASSUME TypeOK, ConnectionsAccounted, NEW r \in Requests, conn[r] # None,
           conn' = [conn EXCEPT ![r] = None], created' = created,
           \/ idle' = idle \cup {conn[r]} /\ shut' = shut
           \/ idle' = idle /\ shut' = shut \cup {conn[r]}
    PROVE  ConnectionsAccounted'
<1>1. Lent' = Lent \ {conn[r]} /\ conn[r] \in Lent
  BY LentLoses
<1>2. \A s, t \in Requests : conn'[s] = conn'[t] /\ conn'[s] # None => s = t
  BY DEF ConnectionsAccounted, TypeOK
<1> QED  BY <1>1, <1>2 DEF ConnectionsAccounted

-----------------------------------------------------------------------------
(* The steps of a request *)

\* A request with a statement left to run stays within its number of them.
LEMMA RunsOneMore ==
    ASSUME TypeOK, NEW r \in Requests, ran[r] < MaxStatements[r], Call(r)
    PROVE  /\ ran' \in [Requests -> Nat]
           /\ \A s \in Requests : ran'[s] <= MaxStatements[s]
<1>1. ran' = [ran EXCEPT ![r] = ran[r] + 1] /\ ran \in [Requests -> Nat]
  BY DEF Call, Execute, TypeOK
<1>2. ran[r] + 1 \in Nat /\ ran[r] + 1 <= MaxStatements[r]
  <2>1. ran[r] \in Nat /\ MaxStatements[r] \in Nat
    BY <1>1, LimitsAssumption
  <2> QED  BY <2>1
<1>3. \A s \in Requests : ran[s] <= MaxStatements[s]
  BY DEF TypeOK
<1>4. \A s \in Requests : ran'[s] = IF s = r THEN ran[r] + 1 ELSE ran[s]
  BY <1>1
<1>5. ran' \in [Requests -> Nat]
  BY <1>1, <1>2
<1> QED  BY <1>2, <1>3, <1>4, <1>5

\* Taking connection c: a query goes on to the gate, a tool call runs.
LEMMA LendInv ==
    ASSUME IInv, NEW r \in Requests, NEW c \in Conns,
           at[r] \in {"acquire", "create", "wait"}, Lend(r, c), UNCHANGED <<gated, shut, closer, orphaned>>,
           \/ c \in idle /\ created' = created
           \/ c = created + 1 /\ created < Capacity /\ created' = created + 1
    PROVE  IInv'
<1> USE DEF IInv
<1>1. conn[r] = None
  BY DEF Possessions, ConnPlaces
<1>2. ConnectionsAccounted'
  BY <1>1, LendAccounts DEF Lend
<1>3. c # None
  BY NoneAssumption, LimitsAssumption DEF Conns
<1>4. TypeOK'
  <2>1. CASE r \in Queries
    BY <2>1, LimitsAssumption DEF TypeOK, Lend, Go, Places, Conns
  <2>2. CASE r \notin Queries
    <3>1. at' \in [Requests -> Places] /\ conn' \in [Requests -> Conns \cup {None}]
      BY <2>2 DEF TypeOK, Lend, Call, Execute, Go, Places
    <3>2. /\ ran' \in [Requests -> Nat]
          /\ \A s \in Requests : ran'[s] <= MaxStatements[s]
      BY <2>2, RunsOneMore DEF Lend, Possessions
    <3> QED  BY <3>1, <3>2, LimitsAssumption DEF TypeOK, Lend
  <2> QED  BY <2>1, <2>2
<1>5. Possessions'
  BY <1>3, KindsAssumption, LimitsAssumption
     DEF TypeOK, Lend, Call, Execute, Go, Possessions, ConnPlaces, GatePlaces, Requests
<1> QED  BY <1>2, <1>4, <1>5, PermitsKept

\* A request that is refused a connection.
LEMMA RefusedInv ==
    ASSUME IInv, NEW r \in Requests, Refused(r), UNCHANGED <<gated, idle, created, shut, closer, orphaned>>,
           \/ r \in Queries /\ at[r] \in {"start", "create"}
           \/ r \notin Queries /\ at[r] \in {"work", "create"} /\ ran[r] < MaxStatements[r]
    PROVE  IInv'
<1> USE DEF IInv
<1>1. TypeOK'
  BY LimitsAssumption DEF TypeOK, Refused, Go, Places
<1>2. Possessions'
  BY KindsAssumption, LimitsAssumption
     DEF TypeOK, Refused, Go, Possessions, ConnPlaces, GatePlaces, Requests
<1> QED  BY <1>1, <1>2, PermitsKept, AccountsKept DEF Refused

LEMMA EnterInv ==
    ASSUME IInv, NEW r \in Requests, Enter(r), UNCHANGED <<gated, poolVars, orphaned>>,
           \/ r \in Queries /\ at[r] = "start"
           \/ r \notin Queries /\ at[r] = "work" /\ ran[r] < MaxStatements[r]
    PROVE  IInv'
<1>1. CASE Closed
  BY <1>1, RefusedInv DEF Enter, poolVars
<1>2. CASE ~Closed
  <2> USE DEF IInv
  <2>1. /\ Go(r, "acquire")
        /\ UNCHANGED <<conn, ran>>
    BY <1>2 DEF Enter
  <2>2. TypeOK'
    BY <2>1 DEF TypeOK, Go, Places, poolVars
  <2>3. Possessions'
    BY <2>1, KindsAssumption DEF TypeOK, Go, Possessions, ConnPlaces, GatePlaces, Requests
  <2> QED  BY <2>1, <2>2, <2>3, PermitsKept, AccountsKept DEF poolVars
<1> QED  BY <1>1, <1>2

LEMMA BeginInv ==
    ASSUME IInv, NEW r \in Requests, Begin(r) PROVE IInv'
<1>1. CASE r \in Queries
  BY <1>1, EnterInv DEF Begin
<1>2. CASE r \notin Queries
  <2> USE DEF IInv
  <2>1. TypeOK'
    BY <1>2 DEF Begin, TypeOK, Go, Places, poolVars
  <2>2. Possessions'
    BY <1>2, KindsAssumption
       DEF Begin, TypeOK, Go, Possessions, ConnPlaces, GatePlaces, Requests
  <2> QED  BY <1>2, <2>1, <2>2, PermitsKept, AccountsKept DEF Begin, poolVars
<1> QED  BY <1>1, <1>2

LEMMA EnterGateInv ==
    ASSUME IInv, NEW r \in Requests, EnterGate(r) PROVE IInv'
<1> USE DEF IInv
<1>1. TypeOK'
  BY DEF EnterGate, TypeOK, Go, Places, poolVars
<1>2. Possessions'
  BY KindsAssumption
     DEF EnterGate, TypeOK, Go, Possessions, ConnPlaces, GatePlaces, Requests
<1>3. PermitsHold'
  <2>1. IsFiniteSet(gated) /\ Cardinality(gated) \in Nat
    BY FS_CardinalityType DEF PermitsHold
  <2>2. /\ IsFiniteSet(gated \cup {r})
        /\ \/ Cardinality(gated \cup {r}) = Cardinality(gated)
           \/ Cardinality(gated \cup {r}) = Cardinality(gated) + 1
    BY <2>1, FS_AddElement, Zenon
  <2>3. gated' = gated \cup {r} /\ Cardinality(gated) < Permits
    BY DEF EnterGate
  <2>4. Cardinality(gated \cup {r}) \in Nat
    BY <2>2, FS_CardinalityType
  <2> QED  BY <2>1, <2>2, <2>3, <2>4, LimitsAssumption DEF PermitsHold
<1> QED  BY <1>1, <1>2, <1>3, AccountsKept DEF EnterGate, poolVars

LEMMA CallToolInv ==
    ASSUME IInv, NEW r \in Requests, CallTool(r) PROVE IInv'
<1>1. CASE r \in Queries
  <2> USE DEF IInv
  <2>1. TypeOK'
    <3>1. Execute(r) /\ ran[r] < MaxStatements[r] /\ UNCHANGED <<conn, gated, poolVars, orphaned>>
      BY <1>1 DEF CallTool
    <3>2. at' \in [Requests -> Places]
      BY <3>1 DEF TypeOK, Execute, Go, Places
    <3> QED  BY <3>1, <3>2, RunsOneMore DEF TypeOK, Call, poolVars
  <2>2. Possessions'
    BY <1>1, KindsAssumption, LimitsAssumption
       DEF CallTool, TypeOK, Execute, Go, Possessions, ConnPlaces, GatePlaces, Requests
  <2> QED  BY <1>1, <2>1, <2>2, PermitsKept, AccountsKept DEF CallTool, poolVars
<1>2. CASE r \notin Queries
  BY <1>2, EnterInv DEF CallTool
<1> QED  BY <1>1, <1>2

LEMMA LeaveInv ==
    ASSUME IInv, NEW r \in Requests, Leave(r) PROVE IInv'
<1> USE DEF IInv
<1>1. TypeOK'
  BY DEF Leave, TypeOK, Go, Places, poolVars
<1>2. Possessions'
  BY KindsAssumption DEF Leave, TypeOK, Go, Possessions, ConnPlaces, GatePlaces, Requests
<1>3. PermitsHold'
  <2>1. IsFiniteSet(gated)
    BY DEF PermitsHold
  <2>2. /\ IsFiniteSet(gated \ {r})
        /\ Cardinality(gated \ {r}) <= Cardinality(gated)
    BY <2>1, FS_Subset
  <2>3. Cardinality(gated \ {r}) \in Nat /\ Cardinality(gated) \in Nat
    BY <2>1, <2>2, FS_CardinalityType
  <2>4. gated' = gated \ {r}
    BY DEF Leave
  <2> QED  BY <2>2, <2>3, <2>4, LimitsAssumption DEF PermitsHold
<1> QED  BY <1>1, <1>2, <1>3, AccountsKept DEF Leave, poolVars

LEMMA AcquireInv ==
    ASSUME IInv, NEW r \in Requests, Acquire(r) PROVE IInv'
<1>1. CASE \E c \in idle : Lend(r, c)
  <2>1. PICK c \in idle : Lend(r, c)
    BY <1>1
  <2>2. c \in Conns
    BY DEF IInv, TypeOK
  <2> QED  BY <2>1, <2>2, LendInv DEF Acquire
<1>2. CASE idle = {} /\ Go(r, "create") /\ UNCHANGED <<conn, ran, idle>>
  <2> USE DEF IInv
  <2>1. TypeOK'
    BY <1>2 DEF Acquire, TypeOK, Go, Places
  <2>2. Possessions'
    BY <1>2, KindsAssumption
       DEF Acquire, TypeOK, Go, Possessions, ConnPlaces, GatePlaces, Requests
  <2> QED  BY <1>2, <2>1, <2>2, PermitsKept, AccountsKept DEF Acquire
<1> QED  BY <1>1, <1>2 DEF Acquire

LEMMA CreateInv ==
    ASSUME IInv, NEW r \in Requests, Create(r) PROVE IInv'
<1>1. CASE created < Capacity /\ created' = created + 1 /\ Lend(r, created + 1)
  <2>1. created + 1 \in Conns
    BY <1>1, LimitsAssumption DEF IInv, TypeOK, Conns
  <2> QED  BY <1>1, <2>1, LendInv DEF Create
<1>2. CASE Refused(r) /\ UNCHANGED <<created, idle>>
  BY <1>2, RefusedInv DEF Create, IInv, Possessions
<1>3. CASE Go(r, "wait") /\ UNCHANGED <<conn, ran, created, idle>>
  <2> USE DEF IInv
  <2>1. TypeOK'
    BY <1>3 DEF Create, TypeOK, Go, Places
  <2>2. Possessions'
    BY <1>3, KindsAssumption
       DEF Create, TypeOK, Go, Possessions, ConnPlaces, GatePlaces, Requests
  <2> QED  BY <1>3, <2>1, <2>2, PermitsKept, AccountsKept DEF Create
<1> QED  BY <1>1, <1>2, <1>3 DEF Create

LEMMA GetInv ==
    ASSUME IInv, NEW r \in Requests, Get(r) PROVE IInv'
<1>1. PICK c \in idle : Lend(r, c)
  BY DEF Get
<1>2. c \in Conns
  BY DEF IInv, TypeOK
<1> QED  BY <1>1, <1>2, LendInv DEF Get

LEMMA ReleaseInv ==
    ASSUME IInv, NEW r \in Requests, Release(r) PROVE IInv'
<1> USE DEF IInv
<1>1. conn[r] # None
  BY DEF Release, Possessions, ConnPlaces
<1>2. TypeOK'
  BY <1>1 DEF Release, TypeOK, Go, Places
<1>3. Possessions'
  BY <1>1, KindsAssumption
     DEF Release, TypeOK, Go, Possessions, ConnPlaces, GatePlaces, Requests
<1>4. ConnectionsAccounted'
  <2>1. CASE Closed
    BY <1>1, <2>1, ReturnAccounts DEF Release
  <2>2. CASE ~Closed
    BY <2>2, AccountsKept DEF Release
  <2> QED  BY <2>1, <2>2
<1> QED  BY <1>2, <1>3, <1>4, PermitsKept DEF Release

LEMMA PutInv ==
    ASSUME IInv, NEW r \in Requests, Put(r) PROVE IInv'
<1> USE DEF IInv
<1>1. conn[r] # None
  BY DEF Put, Possessions, ConnPlaces
<1>2. TypeOK'
  BY <1>1 DEF Put, TypeOK, Go, Places
<1>3. Possessions'
  BY <1>1, KindsAssumption
     DEF Put, TypeOK, Go, Possessions, ConnPlaces, GatePlaces, Requests
<1>4. ConnectionsAccounted'
  BY <1>1, ReturnAccounts DEF Put
<1> QED  BY <1>2, <1>3, <1>4, PermitsKept DEF Put

\* Back from a statement, in time or not.
LEMMA ReturnsInv ==
    ASSUME IInv, NEW r \in Requests, at[r] = "running", Returns(r),
           orphaned' \in {orphaned, orphaned \cup {conn[r]}},
           UNCHANGED <<conn, gated, poolVars>>
    PROVE  IInv'
<1> USE DEF IInv
<1>1. conn[r] \in Conns
  BY DEF Possessions, ConnPlaces, TypeOK
<1>2. TypeOK'
  BY <1>1, LimitsAssumption DEF Returns, Execute, TypeOK, Go, Places, poolVars
<1>3. Possessions'
  BY KindsAssumption, LimitsAssumption
     DEF Returns, Execute, TypeOK, Go, Possessions, ConnPlaces, GatePlaces, Requests
<1> QED  BY <1>2, <1>3, PermitsKept, AccountsKept DEF poolVars

LEMMA ProceedInv ==
    ASSUME IInv, NEW r \in Requests, Proceed(r) PROVE IInv'
<1>1. CASE Answered(r)
  BY <1>1, ReturnsInv DEF Answered
<1>2. CASE TimesOut(r)
  BY <1>2, ReturnsInv DEF TimesOut
<1> QED
  BY <1>1, <1>2, EnterGateInv, CallToolInv, LeaveInv, AcquireInv, CreateInv,
     GetInv, ReleaseInv, PutInv DEF Proceed

-----------------------------------------------------------------------------
(* The steps of the closing thread, and of a statement left running *)

LEMMA CloserInv ==
    ASSUME IInv, Close \/ Drain PROVE IInv'
<1> USE DEF IInv
<1>1. TypeOK'
  BY DEF Close, Drain, TypeOK
<1>2. UNCHANGED <<at, conn, ran, gated, created>>
  BY DEF Close, Drain
<1>3. Possessions'
  BY <1>2 DEF Possessions
<1>4. ConnectionsAccounted'
  <2>1. CASE UNCHANGED <<idle, shut>>
    BY <1>2, <2>1, AccountsKept
  <2>2. CASE \E c \in idle : idle' = idle \ {c} /\ shut' = shut \cup {c}
    BY <1>2, <2>2 DEF ConnectionsAccounted, Lent
  <2> QED  BY <2>1, <2>2 DEF Close, Drain
<1> QED  BY <1>1, <1>2, <1>3, <1>4, PermitsKept

LEMMA OrphansInv ==
    ASSUME IInv, NEW c \in Conns, OrphansEnd(c) PROVE IInv'
<1> USE DEF IInv
<1>1. UNCHANGED <<at, conn, ran, gated, poolVars>> /\ orphaned' \subseteq Conns
  BY DEF OrphansEnd, TypeOK
<1>2. TypeOK'
  BY <1>1 DEF TypeOK, poolVars
<1>3. Possessions'
  BY <1>1 DEF Possessions
<1> QED  BY <1>1, <1>2, <1>3, PermitsKept, AccountsKept DEF poolVars

-----------------------------------------------------------------------------

LEMMA InitInv == Init => IInv
<1> SUFFICES ASSUME Init PROVE IInv
  OBVIOUS
<1>1. TypeOK
  BY LimitsAssumption DEF Init, TypeOK, Places
<1>2. Possessions
  BY DEF Init, Possessions, ConnPlaces, GatePlaces
<1>3. ConnectionsAccounted
  BY DEF Init, ConnectionsAccounted, Lent
<1>4. PermitsHold
  BY FS_EmptySet, LimitsAssumption DEF Init, PermitsHold
<1> QED  BY <1>1, <1>2, <1>3, <1>4 DEF IInv

LEMMA NextInv == IInv /\ [Next]_vars => IInv'
<1> SUFFICES ASSUME IInv, [Next]_vars PROVE IInv'
  OBVIOUS
<1>1. ASSUME NEW r \in Requests, Begin(r) \/ Proceed(r) PROVE IInv'
  BY <1>1, BeginInv, ProceedInv
<1>2. CASE Close \/ Drain
  BY <1>2, CloserInv
<1>3. ASSUME NEW c \in Conns, OrphansEnd(c) PROVE IInv'
  BY <1>3, OrphansInv
<1>4. CASE UNCHANGED vars
  <2> USE <1>4 DEF IInv, vars, poolVars
  <2>1. TypeOK' /\ Possessions'
    BY DEF TypeOK, Possessions
  <2> QED  BY <2>1, PermitsKept, AccountsKept
<1> QED  BY <1>1, <1>2, <1>3, <1>4 DEF Next

\* The strengthened invariant of the pool and the gate.
THEOREM Invariance == Spec => []IInv
BY InitInv, NextInv, PTL DEF Spec

\* Every variable of the pool, the gate and the requests has its type.
THEOREM TypeCorrect == Spec => []TypeOK
BY Invariance, PTL DEF IInv

\* acquire, release and close never lend one connection to two requests and
\* never lose one, for every number of threads and connections.
THEOREM NoConnectionLost == Spec => []ConnectionsAccounted
BY Invariance, PTL DEF IInv

\* No query and no glossary question runs a statement without the gate, and
\* the gate admits at most MAX_CONCURRENT_QUERIES.
THEOREM GateTheorem == Spec => []GateHolds
<1>1. IInv => GateHolds
  <2> SUFFICES ASSUME IInv PROVE GateHolds
    OBVIOUS
  <2>1. \A r \in Queries \cup Glossaries : at[r] = "running" => r \in gated
    BY DEF IInv, Possessions, GatePlaces, Requests
  <2> QED  BY <2>1 DEF IInv, PermitsHold, GateHolds
<1> QED  BY <1>1, Invariance, PTL

-----------------------------------------------------------------------------
(* The calendar                                                            *)

\* A year has 365 days, or 366.
LEMMA YearStep ==
    ASSUME NEW y \in Int
    PROVE  NewYear(y) \in Int /\ NewYear(y + 1) = NewYear(y) + (IF Leap(y) THEN 366 ELSE 365)
<1>1. /\ (y + 1) - 1 = y
      /\ y \div 4 = ((y - 1) \div 4) + (IF y % 4 = 0 THEN 1 ELSE 0)
      /\ y \div 100 = ((y - 1) \div 100) + (IF y % 100 = 0 THEN 1 ELSE 0)
      /\ y \div 400 = ((y - 1) \div 400) + (IF y % 400 = 0 THEN 1 ELSE 0)
  BY Z3
<1>2. (y % 400 = 0 => y % 100 = 0) /\ (y % 100 = 0 => y % 4 = 0)
  BY Z3
<1> QED  BY <1>1, <1>2, Z3 DEF NewYear, Leap

LEMMA YearsOrdered ==
    ASSUME NEW y \in Int, NEW z \in Int, y <= z
    PROVE  NewYear(y) <= NewYear(z)
BY Z3 DEF NewYear

\* Every day is in the year that Year finds among three.
LEMMA YearFits ==
    ASSUME NEW n \in Int
    PROVE  Year(n) \in Int /\ NewYear(Year(n)) <= n /\ n < NewYear(Year(n) + 1)
<1> DEFINE e == (400 * n) \div 146097
<1>1. e \in Int /\ 146097 * e <= 400 * n /\ 400 * n < 146097 * (e + 1)
  BY Z3
<1> HIDE DEF e
<1>2. NewYear(e) <= n
  BY <1>1, Z3 DEF NewYear
<1>3. n < NewYear(e + 3)
  BY <1>1, Z3 DEF NewYear
<1>4. \E z \in e .. e + 2 : NewYear(z) <= n /\ n < NewYear(z + 1)
  <2>1. NewYear(e) \in Int /\ NewYear(e + 1) \in Int /\ NewYear(e + 2) \in Int /\ NewYear(e + 3) \in Int
    BY <1>1, YearStep
  <2>2. /\ e \in e .. e + 2 /\ e + 1 \in e .. e + 2 /\ e + 2 \in e .. e + 2
        /\ (e + 1) + 1 = e + 2 /\ (e + 2) + 1 = e + 3
    BY <1>1
  <2>3. CASE n < NewYear(e + 1)
    BY <1>2, <2>2, <2>3
  <2>4. CASE NewYear(e + 1) <= n /\ n < NewYear(e + 2)
    BY <2>2, <2>4
  <2>5. CASE NewYear(e + 2) <= n
    BY <1>3, <2>2, <2>5
  <2> QED  BY <2>1, <2>3, <2>4, <2>5
<1>5. \E z : z \in e .. e + 2 /\ NewYear(z) <= n /\ n < NewYear(z + 1)
  BY <1>4
<1>6. Year(n) = CHOOSE z \in e .. e + 2 : NewYear(z) <= n /\ n < NewYear(z + 1)
  BY DEF Year, e
<1>7. Year(n) \in e .. e + 2 /\ NewYear(Year(n)) <= n /\ n < NewYear(Year(n) + 1)
  BY <1>4, <1>6
<1> QED  BY <1>1, <1>7

\* Month k has place m in year y, whose first day is u, b days before the month.
Place(k, y, m, u, b) ==
    /\ k = 12 * y + m /\ y = k \div 12 /\ m = k % 12
    /\ u = NewYear(y) /\ b = Before(y, m) /\ First(k) = u + b

LEMMA MonthOf ==
    ASSUME NEW k \in Int
    PROVE  \E y \in Int, m \in 0 .. 11, u \in Int, b \in 0 .. 335 : Place(k, y, m, u, b)
<1>1. PICK y \in Int, m \in 0 .. 11 : k = 12 * y + m /\ y = k \div 12 /\ m = k % 12
  <2>1. k \div 12 \in Int /\ k % 12 \in 0 .. 11 /\ k = 12 * (k \div 12) + (k % 12)
    BY Z3
  <2> QED  BY <2>1
<1>2. NewYear(y) \in Int /\ Before(y, m) \in 0 .. 335
  BY YearStep, Z3 DEF Before
<1>3. First(k) = NewYear(y) + Before(y, m)
  BY <1>1 DEF First
<1> QED  BY <1>1, <1>2, <1>3 DEF Place

\* The days of month m of year y, 0 for January.
LengthIn(y, m) ==
    IF m = 1 THEN IF Leap(y) THEN 29 ELSE 28 ELSE IF m \in {3, 5, 8, 10} THEN 30 ELSE 31

LEMMA BeforeStep ==
    ASSUME NEW y \in Int, NEW m \in 0 .. 10
    PROVE  Before(y, m + 1) = Before(y, m) + LengthIn(y, m)
<1>1. \/ m = 0 \/ m = 1 \/ m = 2 \/ m = 3 \/ m = 4 \/ m = 5 \/ m = 6 \/ m = 7 \/ m = 8
      \/ m = 9 \/ m = 10
  OBVIOUS
<1> QED  BY <1>1, Z3 DEF Before, LengthIn

\* A month begins where the one before it ends.
LEMMA MonthStep ==
    ASSUME NEW k \in Int
    PROVE  /\ First(k) \in Int /\ Length(k) \in 28 .. 31
           /\ First(k + 1) = First(k) + Length(k)
<1>1. PICK y \in Int, m \in 0 .. 11, u \in Int, b \in 0 .. 335 : Place(k, y, m, u, b)
  BY MonthOf
<1>2. PICK z \in Int, n \in 0 .. 11, v \in Int, c \in 0 .. 335 : Place(k + 1, z, n, v, c)
  <2>1. k + 1 \in Int
    OBVIOUS
  <2> QED  BY <2>1, MonthOf
<1>3. Length(k) = LengthIn(y, m)
  BY <1>1 DEF Length, LengthIn, Place
<1>4. CASE m = 11
  <2>1. z = y + 1 /\ n = 0
    BY <1>1, <1>2, <1>4 DEF Place
  <2>2. v = NewYear(y + 1)
    BY <1>2, <2>1 DEF Place
  <2>3. v = u + IF Leap(y) THEN 366 ELSE 365
    BY <1>1, <2>2, YearStep DEF Place
  <2>4. c = 0 /\ b = IF Leap(y) THEN 335 ELSE 334
    BY <1>1, <1>2, <1>4, <2>1 DEF Place, Before
  <2>5. First(k) = u + b /\ First(k + 1) = v + c
    BY <1>1, <1>2 DEF Place
  <2> QED  BY <1>3, <1>4, <2>3, <2>4, <2>5 DEF LengthIn
<1>5. CASE m < 11
  <2>1. z = y /\ n = m + 1
    BY <1>1, <1>2, <1>5 DEF Place
  <2>2. v = u /\ c = Before(y, m + 1) /\ b = Before(y, m)
    BY <1>1, <1>2, <2>1 DEF Place
  <2>3. c = b + LengthIn(y, m)
    BY <1>5, <2>2, BeforeStep
  <2>4. First(k) = u + b /\ First(k + 1) = v + c
    BY <1>1, <1>2 DEF Place
  <2>5. LengthIn(y, m) \in 28 .. 31
    BY DEF LengthIn
  <2> QED  BY <1>3, <2>2, <2>3, <2>4, <2>5
<1> QED  BY <1>4, <1>5

LEMMA FirstMonotone ==
    ASSUME NEW i \in Int, NEW k \in Int, i <= k
    PROVE  First(i) <= First(k)
<1>1. PICK x \in Int, a \in 0 .. 11, u \in Int, c \in 0 .. 335 : Place(i, x, a, u, c)
  BY MonthOf
<1>2. PICK y \in Int, b \in 0 .. 11, v \in Int, d \in 0 .. 335 : Place(k, y, b, v, d)
  BY MonthOf
<1>3. /\ i = 12 * x + a /\ u = NewYear(x) /\ c = Before(x, a) /\ First(i) = u + c
      /\ k = 12 * y + b /\ v = NewYear(y) /\ d = Before(y, b) /\ First(k) = v + d
  BY <1>1, <1>2 DEF Place
<1>4. CASE x = y
  <2>1. a <= b /\ u = v
    BY <1>3, <1>4
  <2>2. c <= d
    BY <1>3, <1>4, <2>1, Z3 DEF Before
  <2> QED  BY <1>3, <2>1, <2>2
<1>5. CASE x # y
  <2>1. x + 1 <= y
    BY <1>3, <1>5
  <2>2. PICK w \in Int : w = NewYear(x + 1)
    BY YearStep
  <2>3. w = u + IF Leap(x) THEN 366 ELSE 365
    BY <1>3, <2>2, YearStep
  <2>4. w <= v
    BY <1>3, <2>1, <2>2, YearsOrdered
  <2> QED  BY <1>3, <2>3, <2>4
<1> QED  BY <1>4, <1>5

\* A month ends before a later one begins.
LEMMA MonthsOrdered ==
    ASSUME NEW j \in Int, NEW k \in Int, j < k
    PROVE  First(j + 1) <= First(k)
<1>1. j + 1 \in Int /\ j + 1 <= k
  OBVIOUS
<1> QED  BY <1>1, FirstMonotone

\* Every day is in the month that Month finds, and in no other.
LEMMA MonthFits ==
    ASSUME NEW n \in Int
    PROVE  Month(n) \in Int /\ First(Month(n)) <= n /\ n < First(Month(n) + 1)
<1> DEFINE k == 12 * Year(n)
<1>1. k \in Int /\ k \div 12 = Year(n) /\ k % 12 = 0
      /\ k + 12 \in Int /\ (k + 12) \div 12 = Year(n) + 1 /\ (k + 12) % 12 = 0
  BY YearFits, Z3
<1>2. First(k) <= n /\ n < First(k + 12)
  <2>1. Before(Year(n), 0) = 0 /\ Before(Year(n) + 1, 0) = 0
    BY DEF Before
  <2> QED  BY <1>1, <2>1, YearFits, YearStep DEF First
<1> HIDE DEF k
<1>3. \E j \in k .. k + 11 : First(j) <= n /\ n < First(j + 1)
  <2> SUFFICES ASSUME \A j \in k .. k + 11 : First(j) <= n => First(j + 1) <= n
               PROVE  FALSE
    <3>1. \A j \in k .. k + 11 : First(j + 1) \in Int
      BY <1>1, MonthStep
    <3> QED  BY <3>1
  <2>1. First(k + 1) <= n /\ First(k + 2) <= n /\ First(k + 3) <= n /\ First(k + 4) <= n
    BY <1>1, <1>2
  <2>2. First(k + 5) <= n /\ First(k + 6) <= n /\ First(k + 7) <= n /\ First(k + 8) <= n
    BY <1>1, <2>1
  <2>3. First(k + 9) <= n /\ First(k + 10) <= n /\ First(k + 11) <= n /\ First(k + 12) <= n
    BY <1>1, <2>2
  <2> QED  BY <1>1, <1>2, <2>3, MonthStep
<1>4. Month(n) \in k .. k + 11 /\ First(Month(n)) <= n /\ n < First(Month(n) + 1)
  <2>1. Month(n) = CHOOSE j \in k .. k + 11 : First(j) <= n /\ n < First(j + 1)
    BY DEF Month, k
  <2> QED  BY <1>3, <2>1
<1> QED  BY <1>1, <1>4

LEMMA MonthUnique ==
    ASSUME NEW n \in Int, NEW k \in Int, First(k) <= n, n < First(k + 1)
    PROVE  Month(n) = k
<1>1. Month(n) \in Int /\ First(Month(n)) <= n /\ n < First(Month(n) + 1)
  BY MonthFits
<1>2. First(k) \in Int /\ First(k + 1) \in Int /\ First(Month(n)) \in Int /\ First(Month(n) + 1) \in Int
  BY <1>1, MonthStep
<1>3. ~(Month(n) < k) /\ ~(k < Month(n))
  BY <1>1, <1>2, MonthsOrdered
<1> QED  BY <1>1, <1>3

LEMMA MonthMonotone ==
    ASSUME NEW m \in Int, NEW n \in Int, m <= n
    PROVE  Month(m) <= Month(n)
<1>1. /\ Month(m) \in Int /\ First(Month(m)) <= m
      /\ Month(n) \in Int /\ n < First(Month(n) + 1)
  BY MonthFits
<1>2. First(Month(m)) \in Int /\ First(Month(n) + 1) \in Int
  BY <1>1, MonthStep
<1>3. ~(Month(n) < Month(m))
  BY <1>1, <1>2, MonthsOrdered
<1> QED  BY <1>1, <1>3

LEMMA MonthOfFirst ==
    ASSUME NEW k \in Int
    PROVE  Month(First(k)) = k
<1>1. PICK f \in Int, l \in 28 .. 31 : f = First(k) /\ First(k + 1) = f + l
  BY MonthStep
<1> QED  BY <1>1, MonthUnique

\* A month further back, the day is in the month meant, and the first of the
\* month only if it was the first.
LEMMA SubMonthsIs ==
    ASSUME NEW n \in Int, NEW s \in Int
    PROVE  /\ SubMonths(n, s) \in Int /\ Month(SubMonths(n, s)) = Month(n) - s
           /\ n = First(Month(n)) => SubMonths(n, s) = First(Month(n) - s)
           /\ n # First(Month(n)) => First(Month(n) - s) < SubMonths(n, s)
<1>1. PICK k \in Int : k = Month(n)
  BY MonthFits
<1>2. PICK d \in Nat : n = First(k) + d
  <2>1. First(k) \in Int /\ First(k) <= n
    BY <1>1, MonthFits, MonthStep
  <2>2. n - First(k) \in Nat /\ n = First(k) + (n - First(k))
    BY <2>1
  <2> QED  BY <2>2
<1>3. PICK j \in Int : j = k - s
  OBVIOUS
<1>4. PICK f \in Int, l \in 28 .. 31 : f = First(j) /\ l = Length(j) /\ First(j + 1) = f + l
  BY MonthStep
<1>5. n - First(Month(n)) = d
  BY <1>1, <1>2, MonthStep
<1>6. SubMonths(n, s) = f + (IF d < l THEN d ELSE l - 1)
  BY <1>1, <1>3, <1>4, <1>5 DEF SubMonths, DayOf
<1>7. PICK x \in Int : x = SubMonths(n, s)
  BY <1>6
<1>8. f <= x /\ x < f + l /\ (d = 0 => x = f) /\ (d # 0 => f < x)
  BY <1>6, <1>7
<1>9. Month(x) = j
  BY <1>4, <1>8, MonthUnique
<1>10. n = First(Month(n)) <=> d = 0
  BY <1>1, <1>2, MonthStep
<1> QED  BY <1>1, <1>3, <1>4, <1>7, <1>8, <1>9, <1>10

LEMMA ShiftedFirst ==
    ASSUME NEW k \in Int, NEW s \in Int
    PROVE  SubMonths(First(k), s) = First(k - s)
<1>1. First(k) \in Int /\ Month(First(k)) = k
  BY MonthStep, MonthOfFirst
<1> QED  BY <1>1, SubMonthsIs

\* Shifting days by months keeps their order (but may make two of them one).
LEMMA ShiftMonotone ==
    ASSUME NEW m \in Int, NEW n \in Int, NEW s \in Int, m <= n
    PROVE  SubMonths(m, s) <= SubMonths(n, s)
<1>1. PICK j \in Int, k \in Int : j = Month(m) /\ k = Month(n)
  BY MonthFits
<1>2. j <= k
  BY <1>1, MonthMonotone
<1>3. PICK x \in Int, y \in Int :
          x = SubMonths(m, s) /\ y = SubMonths(n, s) /\ Month(x) = j - s /\ Month(y) = k - s
  <2>1. SubMonths(m, s) \in Int /\ Month(SubMonths(m, s)) = j - s
    BY <1>1, SubMonthsIs
  <2>2. SubMonths(n, s) \in Int /\ Month(SubMonths(n, s)) = k - s
    BY <1>1, SubMonthsIs
  <2> QED  BY <2>1, <2>2
<1>4. CASE j < k
  BY <1>3, <1>4, MonthMonotone
<1>5. CASE j = k
  <2>1. PICK f \in Int, g \in Int, l \in 28 .. 31 : f = First(k) /\ g = First(k - s) /\ l = Length(k - s)
    BY MonthStep
  <2>2. f <= m
    BY <1>1, <1>5, <2>1, MonthFits
  <2>3. x = g + (IF m - f < l THEN m - f ELSE l - 1)
    BY <1>1, <1>3, <1>5, <2>1 DEF SubMonths, DayOf
  <2>4. y = g + (IF n - f < l THEN n - f ELSE l - 1)
    BY <1>1, <1>3, <1>5, <2>1 DEF SubMonths, DayOf
  <2> QED  BY <1>3, <2>2, <2>3, <2>4
<1> QED  BY <1>2, <1>4, <1>5

\* Months taken from a day lead to an earlier one, months added to a later one.
LEMMA ShiftEarlier ==
    ASSUME NEW n \in Int, NEW s \in Int, 0 < s
    PROVE  SubMonths(n, s) < n
<1>1. PICK k \in Int, x \in Int : k = Month(n) /\ x = SubMonths(n, s) /\ Month(x) = k - s
  BY MonthFits, SubMonthsIs
<1>2. ~(n <= x)
  BY <1>1, MonthMonotone
<1> QED  BY <1>1, <1>2

LEMMA ShiftLater ==
    ASSUME NEW n \in Int, NEW s \in Int, s < 0
    PROVE  n < SubMonths(n, s)
<1>1. PICK k \in Int, x \in Int : k = Month(n) /\ x = SubMonths(n, s) /\ Month(x) = k - s
  BY MonthFits, SubMonthsIs
<1>2. ~(x <= n)
  BY <1>1, MonthMonotone
<1> QED  BY <1>1, <1>2

\* The starts of the periods a day is in are first days of months.
LEMMA StartsAre ==
    ASSUME NEW n \in Int
    PROVE  \E k \in Int : /\ k = Month(n) /\ First(k) <= n /\ n < First(k + 1)
                          /\ MonthStart(n) = First(k)
                          /\ QuarterStart(n) = First(k - (k % 3))
                          /\ YearStart(n) = First(k - (k % 12))
BY MonthFits DEF MonthStart, QuarterStart, YearStart

-----------------------------------------------------------------------------
(* The filters of a session                                                *)

\* What every time filter of a session is, whoever wrote it: an absolute
\* window in order, or a relative one of at least one unit before some day.
RangeOK(r) ==
    \/ r.mode = "absolute" /\ r.start \in Int /\ r.end \in Int /\ r.start < r.end
    \/ /\ r.mode \in {"to_date", "calendar", "trailing"}
       /\ r.ref \in Int /\ r.amount \in Nat \ {0}

FilterOK(f) ==
    /\ f = Filter(f.range, f.gran, f.cmp)
    /\ RangeOK(f.range) /\ f.gran \in Granularity /\ f.cmp \in Comparison

Filters == asOf \in Int /\ (tf = NoFilter \/ FilterOK(tf))

LEMMA AbsoluteOK ==
    ASSUME NEW s \in Int, NEW e \in Int, s < e
    PROVE  RangeOK(Absolute(s, e))
BY DEF RangeOK, Absolute

LEMMA RelativeOK ==
    ASSUME NEW mode \in {"to_date", "calendar", "trailing"}, NEW u, NEW n \in Nat \ {0},
           NEW ref \in Int
    PROVE  RangeOK(Relative(mode, n, u, ref))
BY DEF RangeOK, Relative

LEMMA FilterIsOK ==
    ASSUME NEW r, RangeOK(r), NEW g \in Granularity, NEW c \in Comparison
    PROVE  FilterOK(Filter(r, g, c))
BY DEF FilterOK, Filter

LEMMA DaysAreInt ==
    ASSUME NEW t \in Dates
    PROVE  Day(t) \in Int
<1>1. t.y \in Int /\ t.m \in Int /\ t.d \in Int
  <2>1. t \in [y : Years, m : 1 .. 12, d : 1 .. 31]
    BY DEF Dates
  <2>2. t.y \in Years /\ t.m \in 1 .. 12 /\ t.d \in 1 .. 31
    BY <2>1
  <2>3. \A y \in Years : y \in Int
    BY DEF Years
  <2>4. t.y \in Int
    BY <2>2, <2>3
  <2> QED  BY <2>2, <2>4
<1>2. First(12 * t.y + t.m - 1) \in Int
  <2>1. 12 * t.y + t.m - 1 \in Int
    BY <1>1
  <2> QED  BY <2>1, MonthStep
<1> QED  BY <1>1, <1>2 DEF Day

LEMMA NextPeriod ==
    ASSUME NEW k \in Int, NEW s \in Int, s < 0
    PROVE  /\ First(k) \in Int /\ SubMonths(First(k), s) \in Int
           /\ First(k) < SubMonths(First(k), s)
<1>1. PICK f \in Int : f = First(k)
  BY MonthStep
<1> QED  BY <1>1, SubMonthsIs, ShiftLater

\* So are the filters of the time phrases, of the defaults and of an LLM.
LEMMA PhraseOK ==
    ASSUME NEW ref \in Int, NEW p \in Phrases(ref)
    PROVE  FilterOK(p)
<1>1. CASE p \in Named(ref)
  <2>1. ASSUME NEW n \in Int
        PROVE  RangeOK(Absolute(MonthStart(n), NextMonth(n)))
    <3>1. PICK k \in Int : MonthStart(n) = First(k)
      BY StartsAre
    <3>2. First(k) \in Int /\ SubMonths(First(k), -1) \in Int /\ First(k) < SubMonths(First(k), -1)
      BY NextPeriod
    <3> QED  BY <3>1, <3>2, AbsoluteOK DEF NextMonth
  <2>2. SubMonths(ref, 5) \in Int
    BY SubMonthsIs
  <2>3. RangeOK(Absolute(YearStart(ref), SubYears(YearStart(ref), -1)))
    <3>1. PICK k \in Int : YearStart(ref) = First(k - (k % 12))
      BY StartsAre
    <3>2. PICK j \in Int : YearStart(ref) = First(j)
      BY <3>1
    <3>3. First(j) \in Int /\ SubMonths(First(j), -12) \in Int /\ First(j) < SubMonths(First(j), -12)
      BY NextPeriod
    <3>4. SubYears(YearStart(ref), -1) = SubMonths(First(j), -12)
      BY <3>2 DEF SubYears
    <3> QED  BY <3>2, <3>3, <3>4, AbsoluteOK
  <2>4. RangeOK(Absolute(QuarterStart(ref), NextQuarter(ref)))
    <3>1. PICK k \in Int : QuarterStart(ref) = First(k - (k % 3))
      BY StartsAre
    <3>2. PICK j \in Int : QuarterStart(ref) = First(j)
      BY <3>1
    <3>3. First(j) \in Int /\ SubMonths(First(j), -3) \in Int /\ First(j) < SubMonths(First(j), -3)
      BY NextPeriod
    <3> QED  BY <3>2, <3>3, AbsoluteOK DEF NextQuarter
  <2>5. \E r : RangeOK(r) /\ (p = Filter(r, "day", "none") \/ p = Filter(r, "quarter", "none"))
    BY <1>1, <2>1, <2>2, <2>3, <2>4 DEF Named
  <2> QED  BY <2>5, FilterIsOK DEF Granularity, Comparison
<1>2. CASE p \in Whole(ref)
  BY <1>2, RelativeOK, FilterIsOK DEF Whole, Granularity, Comparison
<1>3. CASE p \in SoFar(ref)
  BY <1>3, RelativeOK, FilterIsOK DEF SoFar, Granularity, Comparison
<1>4. CASE p \in Last(ref)
  <2>1. PICK n \in Amounts, u \in Granularity :
            p = Filter(Relative("trailing", n, u, ref), u, "none")
    BY <1>4 DEF Last
  <2>2. n \in Nat \ {0}
    BY AmountsAssumption
  <2> QED  BY <2>1, <2>2, RelativeOK, FilterIsOK DEF Comparison
<1> QED  BY <1>1, <1>2, <1>3, <1>4 DEF Phrases

LEMMA DefaultOK ==
    ASSUME NEW c \in Comparison, NEW g \in Granularity, NEW ref \in Int
    PROVE  FilterOK(DefaultWindow(c, g, ref))
<1>1. \E n \in Nat \ {0}, u \in Granularity :
          DefaultWindow(c, g, ref) = Filter(Relative("trailing", n, u, ref), g, c)
  BY DEF DefaultWindow, Comparison, Granularity
<1> QED  BY <1>1, RelativeOK, FilterIsOK

LEMMA LlmOK ==
    ASSUME NEW refs \in SUBSET Int, NEW r \in LlmRanges(refs)
    PROVE  RangeOK(r)
<1>1. CASE r \in {Absolute(Day(p[1]), Day(p[2])) :
                     p \in {q \in LlmDates \X LlmDates : Day(q[1]) < Day(q[2])}}
  <2>1. PICK p \in LlmDates \X LlmDates :
            r = Absolute(Day(p[1]), Day(p[2])) /\ Day(p[1]) < Day(p[2])
    BY <1>1
  <2>2. p[1] \in Dates /\ p[2] \in Dates
    BY DatesAssumption
  <2> QED  BY <2>1, <2>2, DaysAreInt, AbsoluteOK
<1>2. CASE r \in {Relative("to_date", 1, u, x) : u \in {"month", "quarter", "year"}, x \in refs}
  BY <1>2, RelativeOK
<1>3. CASE r \in {Relative(mode, n, u, x) : mode \in {"trailing", "calendar"}, n \in Amounts,
                                            u \in Granularity \union {"year"}, x \in refs}
  <2>1. PICK mode \in {"trailing", "calendar"}, n \in Amounts,
             u \in Granularity \union {"year"}, x \in refs : r = Relative(mode, n, u, x)
    BY <1>3
  <2>2. n \in Nat \ {0} /\ x \in Int
    BY AmountsAssumption
  <2> QED  BY <2>1, <2>2, RelativeOK
<1> QED  BY <1>1, <1>2, <1>3 DEF LlmRanges

\* The time filter of a session stays well formed over all its turns, those of
\* the rules (heuristic.py), of the trend tool, which keeps the window it finds,
\* and of an LLM.
THEOREM FiltersInvariant == WindowSpec => []Filters
<1>1. WindowInit => Filters
  BY DaysAreInt, DatesAssumption DEF WindowInit, Filters
<1>2. Filters /\ [WindowNext]_windowVars => Filters'
  <2> SUFFICES ASSUME Filters, [WindowNext]_windowVars PROVE Filters'
    OBVIOUS
  <2>1. ASSUME NEW p \in Phrases(asOf), NEW c \in Comparison, Ask(p, c) PROVE Filters'
    <3>1. FilterOK(p)
      BY PhraseOK DEF Filters
    <3>2. tf' = Filter(p.range, p.gran, c)
      BY <2>1, <3>1 DEF Ask, FilterOK, Filter
    <3>3. FilterOK(Filter(p.range, p.gran, c))
      <4>1. RangeOK(p.range) /\ p.gran \in Granularity
        BY <3>1 DEF FilterOK
      <4> QED  BY <4>1, FilterIsOK
    <3>4. FilterOK(tf')
      BY <3>2, <3>3
    <3> QED  BY <2>1, <3>4 DEF Ask, Filters
  <2>2. ASSUME NEW g \in Granularity, NEW c \in Comparison, Trend(g, c) PROVE Filters'
    <3>1. CASE tf = NoFilter
      BY <2>2, <3>1, DefaultOK DEF Trend, Filters
    <3>2. CASE tf # NoFilter
      <4>1. FilterOK(tf)
        BY <3>2 DEF Filters
      <4>2. \E d \in Comparison : tf' = Filter(tf.range, g, d)
        BY <2>2, <3>2, <4>1 DEF Trend, FilterOK, Filter
      <4>3. RangeOK(tf.range)
        BY <4>1 DEF FilterOK
      <4>4. FilterOK(tf')
        BY <4>2, <4>3, FilterIsOK
      <4> QED  BY <2>2, <4>4 DEF Trend, Filters
    <3> QED  BY <3>1, <3>2
  <2>3. ASSUME NEW r \in LlmRanges({asOf} \union {Day(t) : t \in LlmRefs}),
               NEW g \in Granularity, NEW c \in Comparison, Answer(r, g, c)
        PROVE  Filters'
    <3>1. {asOf} \union {Day(t) : t \in LlmRefs} \in SUBSET Int
      BY DaysAreInt, DatesAssumption DEF Filters
    <3>2. RangeOK(r)
      BY <3>1, LlmOK
    <3> QED  BY <2>3, <3>2, FilterIsOK DEF Answer, Filters
  <2>4. CASE UNCHANGED windowVars
    BY <2>4 DEF windowVars, Filters
  <2> QED  BY <2>1, <2>2, <2>3, <2>4 DEF WindowNext
<1> QED  BY <1>1, <1>2, PTL DEF WindowSpec

-----------------------------------------------------------------------------
(* Windows                                                                 *)

\* A window of days, empty at most for a period that has just begun.
WindowOK(w, empty) ==
    /\ w = Window(w.start, w.end) /\ w.start \in Int /\ w.end \in Int
    /\ w.start < w.end \/ (empty /\ w.start = w.end)

LEMMA WindowIsOK ==
    ASSUME NEW s \in Int, NEW e \in Int, NEW empty \in BOOLEAN,
           s < e \/ (empty /\ s = e)
    PROVE  WindowOK(Window(s, e), empty)
BY DEF WindowOK, Window

LEMMA ToDateOK ==
    ASSUME NEW u, NEW ref \in Int
    PROVE  WindowOK(ToDate(u, ref), TRUE)
<1>1. PICK k \in Int :
          /\ First(k) <= ref /\ MonthStart(ref) = First(k)
          /\ QuarterStart(ref) = First(k - (k % 3)) /\ YearStart(ref) = First(k - (k % 12))
  BY StartsAre
<1>2. PICK q \in Int, y \in Int : q = k - (k % 3) /\ y = k - (k % 12) /\ q <= k /\ y <= k
  BY Z3
<1>3. First(q) <= First(k) /\ First(y) <= First(k)
  BY <1>2, FirstMonotone
<1>4. First(k) \in Int /\ First(q) \in Int /\ First(y) \in Int
  BY MonthStep
<1>5. \E s \in Int : s <= ref /\ ToDate(u, ref) = Window(s, ref)
  <2>1. CASE u = "month"
    BY <1>1, <1>4, <2>1 DEF ToDate
  <2>2. CASE u = "quarter"
    BY <1>1, <1>2, <1>3, <1>4, <2>2 DEF ToDate
  <2>3. CASE u # "month" /\ u # "quarter"
    BY <1>1, <1>2, <1>3, <1>4, <2>3 DEF ToDate
  <2> QED  BY <2>1, <2>2, <2>3
<1>6. PICK s \in Int : s <= ref /\ ToDate(u, ref) = Window(s, ref)
  BY <1>5
<1>7. s < ref \/ (TRUE /\ s = ref)
  BY <1>6
<1>8. WindowOK(Window(s, ref), TRUE)
  BY <1>7, WindowIsOK
<1> QED  BY <1>6, <1>8

LEMMA CalendarOK ==
    ASSUME NEW u, NEW n \in Nat \ {0}, NEW ref \in Int, Calendar(u, n, ref) # NoWindow
    PROVE  WindowOK(Calendar(u, n, ref), FALSE)
<1>1. PICK k \in Int :
          /\ First(k) <= ref /\ MonthStart(ref) = First(k)
          /\ QuarterStart(ref) = First(k - (k % 3)) /\ YearStart(ref) = First(k - (k % 12))
  BY StartsAre
<1>2. PICK q \in Int, y \in Int : q = k - (k % 3) /\ y = k - (k % 12)
  BY Z3
<1>3. ASSUME NEW j \in Int, NEW a \in Int, NEW b \in Int, b < a
      PROVE  WindowOK(Window(SubMonths(First(j), a), SubMonths(First(j), b)), FALSE)
  <2>1. PICK x \in Int, z \in Int : x = j - a /\ z = j - b /\ x < z
    BY <1>3
  <2>2. SubMonths(First(j), a) = First(x) /\ SubMonths(First(j), b) = First(z)
    BY <2>1, ShiftedFirst
  <2>3. First(x + 1) <= First(z)
    BY <2>1, MonthsOrdered
  <2>4. First(x) \in Int /\ First(z) \in Int /\ First(x) < First(z)
    BY <2>3, MonthStep
  <2> QED  BY <2>2, <2>4, WindowIsOK
<1>4. CASE u = "month"
  <2>1. Calendar(u, n, ref) = Window(SubMonths(First(k), n), SubMonths(First(k), n - 1))
    BY <1>1, <1>4 DEF Calendar
  <2>2. n \in Int /\ n - 1 \in Int /\ n - 1 < n
    OBVIOUS
  <2> QED  BY <1>3, <2>1, <2>2
<1>5. CASE u = "quarter"
  <2>1. Calendar(u, n, ref) = Window(SubMonths(First(q), n * 3), SubMonths(First(q), (n - 1) * 3))
    BY <1>1, <1>2, <1>5 DEF Calendar
  <2>2. n * 3 \in Int /\ (n - 1) * 3 \in Int /\ (n - 1) * 3 < n * 3
    OBVIOUS
  <2> QED  BY <1>3, <2>1, <2>2
<1>6. CASE u = "year"
  <2>1. Calendar(u, n, ref) = Window(SubMonths(First(y), 12 * n), SubMonths(First(y), 12 * (n - 1)))
    BY <1>1, <1>2, <1>6 DEF Calendar, SubYears
  <2>2. 12 * n \in Int /\ 12 * (n - 1) \in Int /\ 12 * (n - 1) < 12 * n
    OBVIOUS
  <2> QED  BY <1>3, <2>1, <2>2
<1> QED  BY <1>4, <1>5, <1>6 DEF Calendar

LEMMA TrailingOK ==
    ASSUME NEW u, NEW n \in Nat \ {0}, NEW ref \in Int, Trailing(u, n, ref) # NoWindow
    PROVE  WindowOK(Trailing(u, n, ref), FALSE)
<1>1. ASSUME NEW s \in Int, 0 < s
      PROVE  WindowOK(Window(SubMonths(ref, s), ref), FALSE)
  BY <1>1, SubMonthsIs, ShiftEarlier, WindowIsOK
<1>2. ASSUME NEW s \in Int, s < ref
      PROVE  WindowOK(Window(s, ref), FALSE)
  BY <1>2, WindowIsOK
<1>3. CASE u = "day"
  <2>1. Trailing(u, n, ref) = Window(ref - n, ref)
    BY <1>3 DEF Trailing
  <2>2. ref - n \in Int /\ ref - n < ref
    OBVIOUS
  <2> QED  BY <1>2, <2>1, <2>2
<1>4. CASE u = "week"
  <2>1. Trailing(u, n, ref) = Window(ref - 7 * n, ref)
    BY <1>4 DEF Trailing
  <2>2. ref - 7 * n \in Int /\ ref - 7 * n < ref
    OBVIOUS
  <2> QED  BY <1>2, <2>1, <2>2
<1>5. CASE u = "month"
  <2>1. Trailing(u, n, ref) = Window(SubMonths(ref, n), ref)
    BY <1>5 DEF Trailing
  <2>2. n \in Int /\ 0 < n
    OBVIOUS
  <2> QED  BY <1>1, <2>1, <2>2
<1>6. CASE u = "quarter"
  <2>1. Trailing(u, n, ref) = Window(SubMonths(ref, 3 * n), ref)
    BY <1>6 DEF Trailing
  <2>2. 3 * n \in Int /\ 0 < 3 * n
    OBVIOUS
  <2> QED  BY <1>1, <2>1, <2>2
<1>7. CASE u \notin {"day", "week", "month", "quarter"}
  <2>1. Trailing(u, n, ref) = Window(SubMonths(ref, 12 * n), ref)
    BY <1>7 DEF Trailing, SubYears
  <2>2. 12 * n \in Int /\ 0 < 12 * n
    OBVIOUS
  <2> QED  BY <1>1, <2>1, <2>2
<1> QED  BY <1>3, <1>4, <1>5, <1>6, <1>7

\* What _resolve_window returns is a window of days in order, whatever it is
\* given, and an empty one only in the mode to_date.
LEMMA ResolveOK ==
    ASSUME NEW r, RangeOK(r), Resolve(r) # NoWindow
    PROVE  WindowOK(Resolve(r), r.mode = "to_date")
<1>1. CASE r.mode = "absolute"
  <2>1. Resolve(r) = Window(r.start, r.end)
    BY <1>1 DEF Resolve, Dated
  <2> QED  BY <1>1, <2>1, WindowIsOK DEF RangeOK
<1>2. CASE r.mode = "to_date"
  <2>1. Resolve(r) = ToDate(r.unit, r.ref)
    BY <1>2 DEF Resolve, Dated
  <2>2. r.ref \in Int /\ (r.mode = "to_date") = TRUE
    BY <1>2 DEF RangeOK
  <2>3. WindowOK(ToDate(r.unit, r.ref), TRUE)
    BY <2>2, ToDateOK
  <2> QED  BY <2>1, <2>2, <2>3
<1>3. CASE r.mode = "calendar"
  <2>1. Resolve(r) = Calendar(r.unit, r.amount, r.ref)
    BY <1>3 DEF Resolve, Dated
  <2>2. r.ref \in Int /\ r.amount \in Nat \ {0} /\ (r.mode = "to_date") = FALSE
    BY <1>3 DEF RangeOK
  <2>3. WindowOK(Calendar(r.unit, r.amount, r.ref), FALSE)
    BY <2>1, <2>2, CalendarOK
  <2> QED  BY <2>1, <2>2, <2>3
<1>4. CASE r.mode = "trailing"
  <2>1. Resolve(r) = Trailing(r.unit, r.amount, r.ref)
    BY <1>4 DEF Resolve, Dated
  <2>2. r.ref \in Int /\ r.amount \in Nat \ {0} /\ (r.mode = "to_date") = FALSE
    BY <1>4 DEF RangeOK
  <2>3. WindowOK(Trailing(r.unit, r.amount, r.ref), FALSE)
    BY <2>1, <2>2, TrailingOK
  <2> QED  BY <2>1, <2>2, <2>3
<1> QED  BY <1>1, <1>2, <1>3, <1>4 DEF RangeOK

LEMMA ShiftsBy ==
    ASSUME NEW g \in Granularity, NEW c \in Comparison
    PROVE  ShiftMonths(g, c) \in Int /\ 0 < ShiftMonths(g, c)
BY DEF ShiftMonths

\* A base window is the window some months earlier, at both ends.
LEMMA Ordered == Filters => WindowsOrdered
<1> SUFFICES ASSUME Filters PROVE WindowsOrdered
  OBVIOUS
<1>1. ASSUME Resolved
      PROVE  WindowOK(Current, tf.range.mode = "to_date")
  BY <1>1, ResolveOK DEF Resolved, Current, Filters, FilterOK
<1>2. ASSUME Compares
      PROVE  Base.start <= Base.end /\ Base.start < Current.start /\ Base.end < Current.end
  <2>1. PICK s \in Int, e \in Int : s = Current.start /\ e = Current.end /\ s <= e
    BY <1>1, <1>2 DEF Compares, WindowOK
  <2>2. PICK m \in Int : m = ShiftMonths(tf.gran, tf.cmp) /\ 0 < m
    BY <1>2, ShiftsBy DEF Compares, Resolved, Filters, FilterOK
  <2>3. Base.start = SubMonths(s, m) /\ Base.end = SubMonths(e, m)
    BY <2>1, <2>2 DEF Base, Shift, Window
  <2>4. SubMonths(s, m) <= SubMonths(e, m) /\ SubMonths(s, m) < s /\ SubMonths(e, m) < e
    BY <2>1, <2>2, ShiftMonotone, ShiftEarlier
  <2> QED  BY <2>1, <2>3, <2>4
<1> QED  BY <1>1, <1>2 DEF WindowsOrdered, WindowOK

-----------------------------------------------------------------------------
(* Buckets of months and of quarters                                       *)

\* The first month of the period of month k.
StartMonth(k, g) == IF g = "month" THEN k ELSE k - (k % 3)

LEMMA StartMonthOf ==
    ASSUME NEW k \in Int, NEW g
    PROVE  /\ StartMonth(k, g) \in Int /\ k - 2 <= StartMonth(k, g) /\ StartMonth(k, g) <= k
           /\ g = "month" => StartMonth(k, g) = k
           /\ g # "month" => StartMonth(k, g) = k - (k % 3) /\ StartMonth(k, g) % 3 = 0
BY Z3 DEF StartMonth

LEMMA TruncIs ==
    ASSUME NEW n \in Int, NEW g \in {"month", "quarter"}
    PROVE  Trunc(n, g) = First(StartMonth(Month(n), g))
<1>1. PICK k \in Int : /\ k = Month(n) /\ MonthStart(n) = First(k)
                       /\ QuarterStart(n) = First(k - (k % 3))
  BY StartsAre
<1>2. CASE g = "month"
  BY <1>1, <1>2 DEF Trunc, StartMonth
<1>3. CASE g = "quarter"
  BY <1>1, <1>3 DEF Trunc, StartMonth
<1> QED  BY <1>2, <1>3

\* The days before a month are in the months before it.
LEMMA MonthBefore ==
    ASSUME NEW n \in Int, NEW k \in Int
    PROVE  n < First(k) <=> Month(n) < k
<1>1. PICK j \in Int, f \in Int, h \in Int :
          j = Month(n) /\ f = First(j) /\ h = First(j + 1) /\ f <= n /\ n < h
  <2>1. Month(n) \in Int /\ Month(n) + 1 \in Int
    BY MonthFits
  <2> QED  BY <2>1, MonthFits, MonthStep
<1>2. PICK c \in Int : c = First(k)
  BY MonthStep
<1>3. CASE j < k
  BY <1>1, <1>2, <1>3, MonthsOrdered
<1>4. CASE k <= j
  BY <1>1, <1>2, <1>4, FirstMonotone
<1> QED  BY <1>1, <1>2, <1>3, <1>4

LEMMA FirstOrdered ==
    ASSUME NEW j \in Int, NEW k \in Int
    PROVE  First(j) < First(k) <=> j < k
<1>1. First(j) \in Int /\ Month(First(j)) = j
  BY MonthStep, MonthOfFirst
<1> QED  BY <1>1, MonthBefore

LEMMA FirstInjective ==
    ASSUME NEW j \in Int, NEW k \in Int, First(j) = First(k)
    PROVE  j = k
BY MonthOfFirst

\* The buckets of a window are those of the months from its first day's to its
\* last day's.
LEMMA BucketsAre ==
    ASSUME NEW s \in Int, NEW e \in Int, s < e, NEW g \in {"month", "quarter"}
    PROVE  Buckets(Window(s, e), g) = {First(StartMonth(k, g)) : k \in Month(s) .. Month(e - 1)}
<1>1. PICK a \in Int, b \in Int : a = Month(s) /\ b = Month(e - 1)
  BY MonthFits
<1>2. Buckets(Window(s, e), g) = {Trunc(n, g) : n \in s .. e - 1}
  BY DEF Buckets, Window
<1>3. ASSUME NEW n \in s .. e - 1
      PROVE  \E k \in a .. b : Trunc(n, g) = First(StartMonth(k, g))
  <2>1. PICK k \in Int : k = Month(n)
    BY MonthFits
  <2>2. a <= k /\ k <= b
    BY <1>1, <2>1, MonthMonotone
  <2> QED  BY <2>1, <2>2, TruncIs
<1>4. ASSUME NEW k \in a .. b
      PROVE  \E n \in s .. e - 1 : Trunc(n, g) = First(StartMonth(k, g))
  <2>1. PICK f \in Int : f = First(k)
    BY MonthStep
  <2>2. CASE k = a
    BY <1>1, <2>2, TruncIs
  <2>3. CASE k # a
    <3>1. s < f
      BY <1>1, <2>1, <2>3, MonthBefore
    <3>2. ~(e - 1 < f)
      BY <1>1, <2>1, MonthBefore
    <3>3. f \in s .. e - 1 /\ Month(f) = k
      BY <2>1, <3>1, <3>2, MonthOfFirst
    <3> QED  BY <3>3, TruncIs
  <2> QED  BY <2>2, <2>3
<1> QED  BY <1>1, <1>2, <1>3, <1>4

\* A shift by months moves the month of the last day of a window by as many.
LEMMA EndShifts ==
    ASSUME NEW e \in Int, NEW s \in Int
    PROVE  Month(SubMonths(e, s) - 1) = Month(e - 1) - s
<1>1. PICK k \in Int, x \in Int :
          /\ k = Month(e) /\ x = SubMonths(e, s) /\ Month(x) = k - s
          /\ e = First(k) => x = First(k - s)
          /\ e # First(k) => First(k - s) < x
  BY MonthFits, SubMonthsIs
<1>2. PICK f \in Int : f = First(k)
  BY MonthStep
<1>3. PICK g \in Int, h \in Int : g = First(k - s) /\ h = First((k - s) + 1)
  BY MonthStep
<1>4. f <= e /\ x < h
  <2>1. k - s \in Int
    OBVIOUS
  <2> QED  BY <1>1, <1>2, <1>3, MonthFits
<1>5. CASE e = f
  <2>1. \A j \in Int, c \in Int : c = First(j) => Month(c - 1) = j - 1
    <3> SUFFICES ASSUME NEW j \in Int, NEW c \in Int, c = First(j) PROVE Month(c - 1) = j - 1
      OBVIOUS
    <3>1. PICK d \in Int, l \in 28 .. 31 : d = First(j - 1) /\ First((j - 1) + 1) = d + l
      BY MonthStep
    <3>2. (j - 1) + 1 = j /\ j - 1 \in Int
      OBVIOUS
    <3> QED  BY <3>1, <3>2, MonthUnique
  <2>2. Month(e - 1) = k - 1 /\ Month(x - 1) = (k - s) - 1
    BY <1>1, <1>2, <1>3, <1>5, <2>1
  <2> QED  BY <1>1, <2>2
<1>6. CASE e # f
  <2>1. g <= x - 1 /\ x - 1 < h /\ f <= e - 1
    BY <1>1, <1>2, <1>3, <1>4, <1>6
  <2>2. Month(x - 1) = k - s
    BY <1>3, <2>1, MonthUnique
  <2>3. PICK i \in Int : i = First(k + 1) /\ e < i
    BY <1>1, MonthFits, MonthStep
  <2>4. Month(e - 1) = k
    BY <1>2, <2>1, <2>3, MonthUnique
  <2> QED  BY <1>1, <2>2, <2>4
<1> QED  BY <1>5, <1>6

-----------------------------------------------------------------------------
(* The buckets of the base window, moved by the months of the alignment    *)

LEMMA StartShifts ==
    ASSUME NEW k \in Int, NEW a \in Int, NEW g, g = "month" \/ a % 3 = 0
    PROVE  StartMonth(k, g) + a = StartMonth(k + a, g)
<1>1. CASE g = "month"
  BY <1>1 DEF StartMonth
<1>2. CASE g # "month"
  <2>1. a % 3 = 0
    BY <1>2
  <2>2. (k + a) % 3 = k % 3
    BY <2>1, Z3
  <2>3. StartMonth(k, g) = k - (k % 3) /\ StartMonth(k + a, g) = (k + a) - ((k + a) % 3)
    BY <1>2 DEF StartMonth
  <2> QED  BY <2>2, <2>3
<1> QED  BY <1>1, <1>2

\* Where a comparison shifts its window by what it aligns the buckets by.
LEMMA Agree ==
    ASSUME NEW g \in {"month", "quarter"}, NEW c \in {"yoy", "mom"}
    PROVE  \E a \in Int : /\ a = ShiftMonths(g, c) /\ a = AlignMonths(g, c) /\ 0 < a
                          /\ g = "month" \/ a % 3 = 0
<1>1. ShiftMonths(g, c) = AlignMonths(g, c)
  BY DEF ShiftMonths, AlignMonths
<1>2. CASE ShiftMonths(g, c) = 12
  <2>1. 12 \in Int /\ 0 < 12 /\ 12 % 3 = 0
    BY Z3
  <2> QED  BY <1>1, <1>2, <2>1
<1>3. CASE ShiftMonths(g, c) = 3
  <2>1. 3 \in Int /\ 0 < 3 /\ 3 % 3 = 0
    BY Z3
  <2> QED  BY <1>1, <1>3, <2>1
<1>4. CASE ShiftMonths(g, c) = 1 /\ g = "month"
  <2>1. 1 \in Int /\ 0 < 1
    OBVIOUS
  <2> QED  BY <1>1, <1>4, <2>1
<1> QED  BY <1>2, <1>3, <1>4 DEF ShiftMonths

LEMMA SameCardinality ==
    ASSUME NEW S, IsFiniteSet(S), NEW T, NEW f \in [S -> T],
           \A x, y \in S : f[x] = f[y] => x = y,
           \A t \in T : \E x \in S : f[x] = t
    PROVE  Cardinality(T) = Cardinality(S)
<1>1. f \in Bijection(S, T)
  BY DEF Bijection, Injection, Surjection, IsInjective
<1>2. ExistsBijection(S, T)
  BY <1>1 DEF ExistsBijection
<1> QED  BY <1>2, FS_Bijection

LEMMA Pairs ==
    ASSUME NEW s \in Int, NEW e \in Int, s <= e,
           NEW g \in {"month", "quarter"}, NEW c \in {"yoy", "mom"},
           Shift(Window(s, e), g, c).start < Shift(Window(s, e), g, c).end
    PROVE  PairUp(Buckets(Shift(Window(s, e), g, c), g), Buckets(Window(s, e), g), g, c)
<1>1. PICK a \in Int : /\ a = ShiftMonths(g, c) /\ a = AlignMonths(g, c)
                       /\ g = "month" \/ a % 3 = 0
  BY Agree
<1>2. PICK x \in Int, y \in Int :
          x = SubMonths(s, a) /\ y = SubMonths(e, a) /\ Shift(Window(s, e), g, c) = Window(x, y)
  BY <1>1, SubMonthsIs DEF Shift, Window
<1>3. x < y
  BY <1>2 DEF Window
<1>4. s < e
  <2>1. s # e
    BY <1>2, <1>3
  <2> QED  BY <2>1
<1>5. PICK i \in Int, j \in Int : i = Month(s) /\ j = Month(e - 1)
  BY MonthFits
<1>6. Month(x) = i - a /\ Month(y - 1) = j - a
  BY <1>2, <1>5, SubMonthsIs, EndShifts
<1> DEFINE B == {First(StartMonth(k, g)) : k \in i - a .. j - a}
<1>7. Buckets(Window(s, e), g) = {First(StartMonth(k, g)) : k \in i .. j}
  BY <1>4, <1>5, BucketsAre
<1>8. Buckets(Window(x, y), g) = B
  BY <1>3, <1>6, BucketsAre
<1>9. ASSUME NEW k \in Int
       PROVE  StartMonth(k, g) + a = StartMonth(k + a, g)
  BY <1>1, StartShifts
<1>10. ASSUME NEW k \in Int
      PROVE  Align(First(StartMonth(k, g)), g, c) = First(StartMonth(k + a, g))
  <2>1. PICK h \in Int : h = StartMonth(k, g)
    BY StartMonthOf
  <2>2. Align(First(h), g, c) = First(h - (-a))
    <3>1. -a \in Int
      OBVIOUS
    <3> QED  BY <1>1, <3>1, ShiftedFirst DEF Align
  <2>3. h - (-a) = h + a
    OBVIOUS
  <2>4. h + a = StartMonth(k + a, g)
    BY <1>9, <2>1
  <2> QED  BY <2>1, <2>2, <2>3, <2>4
<1>11. {Align(b, g, c) : b \in B} = {First(StartMonth(k, g)) : k \in i .. j}
  <2>1. ASSUME NEW k \in i - a .. j - a
        PROVE  \E l \in i .. j : Align(First(StartMonth(k, g)), g, c) = First(StartMonth(l, g))
    <3>1. k + a \in i .. j /\ k \in Int
      OBVIOUS
    <3> QED  BY <1>10, <3>1
  <2>2. ASSUME NEW l \in i .. j
        PROVE  \E k \in i - a .. j - a : Align(First(StartMonth(k, g)), g, c) = First(StartMonth(l, g))
    <3>1. l - a \in i - a .. j - a /\ l - a \in Int /\ (l - a) + a = l
      OBVIOUS
    <3> QED  BY <1>10, <3>1
  <2> QED  BY <2>1, <2>2
<1>12. \A b, d \in B : Align(b, g, c) = Align(d, g, c) => b = d
  <2> SUFFICES ASSUME NEW k \in i - a .. j - a, NEW l \in i - a .. j - a,
                      Align(First(StartMonth(k, g)), g, c) = Align(First(StartMonth(l, g)), g, c)
               PROVE  First(StartMonth(k, g)) = First(StartMonth(l, g))
    OBVIOUS
  <2>1. k \in Int /\ l \in Int
    OBVIOUS
  <2>2. First(StartMonth(k + a, g)) = First(StartMonth(l + a, g))
    BY <1>10, <2>1
  <2>3. PICK m \in Int, n \in Int : m = StartMonth(k, g) /\ n = StartMonth(l, g)
    BY <2>1, StartMonthOf
  <2>4. m + a = StartMonth(k + a, g) /\ n + a = StartMonth(l + a, g)
    <3>1. StartMonth(k, g) + a = StartMonth(k + a, g) /\ StartMonth(l, g) + a = StartMonth(l + a, g)
      BY <1>9, <2>1
    <3> QED  BY <2>3, <3>1
  <2>5. m + a = n + a
    BY <2>2, <2>4, FirstInjective
  <2>6. m = n
    BY <2>5
  <2> QED  BY <2>3, <2>6
<1>13. IsFiniteSet(B)
  <2>1. PICK p \in Int, q \in Int : p = First(i - a - 2) /\ q = First(j - a)
    BY MonthStep
  <2>2. ASSUME NEW k \in i - a .. j - a
        PROVE  First(StartMonth(k, g)) \in p .. q
    <3>1. PICK h \in Int : h = StartMonth(k, g) /\ k - 2 <= h /\ h <= k
      BY StartMonthOf
    <3>2. i - a - 2 <= h /\ h <= j - a
      BY <3>1
    <3>3. First(i - a - 2) <= First(h) /\ First(h) <= First(j - a) /\ First(h) \in Int
      BY <3>2, FirstMonotone, MonthStep
    <3> QED  BY <2>1, <3>1, <3>3
  <2>3. B \subseteq p .. q
    BY <2>2
  <2> QED  BY <2>1, <2>3, FS_Interval, FS_Subset
<1>14. Cardinality({Align(b, g, c) : b \in B}) = Cardinality(B)
  <2> DEFINE T == {Align(b, g, c) : b \in B}
             f == [b \in B |-> Align(b, g, c)]
  <2> HIDE DEF B
  <2>1. f \in [B -> T] /\ \A b \in B : f[b] = Align(b, g, c)
    OBVIOUS
  <2>2. \A t \in T : \E b \in B : f[b] = t
    OBVIOUS
  <2>3. \A b, d \in B : f[b] = f[d] => b = d
    BY <1>12, <2>1
  <2> HIDE DEF T, f
  <2>4. Cardinality(T) = Cardinality(B)
    BY <1>13, <2>1, <2>2, <2>3, SameCardinality
  <2> QED  BY <2>4 DEF T
<1> QED  BY <1>2, <1>7, <1>8, <1>11, <1>14 DEF PairUp

LEMMA VanishesIs ==
    ASSUME NEW s \in Int, NEW e \in Int, NEW a \in Int
    PROVE  Vanishes(Window(s, e), a) <=>
               s < e /\ Month(e) = Month(s) /\ Length(Month(s) - a) - 1 <= s - First(Month(s))
BY DEF Vanishes, Window

\* The ends of a window are clamped to one day exactly if it vanishes.
LEMMA BaseVanishes ==
    ASSUME NEW s \in Int, NEW e \in Int, NEW a \in Int, Vanishes(Window(s, e), a)
    PROVE  SubMonths(s, a) = SubMonths(e, a)
<1>1. PICK k \in Int : k = Month(s) /\ k = Month(e)
  <2>1. Month(s) \in Int
    BY MonthFits
  <2>2. Month(e) = Month(s)
    BY VanishesIs
  <2> QED  BY <2>1, <2>2
<1>2. PICK f \in Int, g \in Int, l \in 28 .. 31 : f = First(k) /\ g = First(k - a) /\ l = Length(k - a)
  <2>1. k - a \in Int
    OBVIOUS
  <2> QED  BY <2>1, MonthStep
<1>3. s < e /\ l - 1 <= s - f
  BY <1>1, <1>2, VanishesIs
<1>4. SubMonths(s, a) = g + (IF s - f < l THEN s - f ELSE l - 1)
  BY <1>1, <1>2 DEF SubMonths, DayOf
<1>5. SubMonths(e, a) = g + (IF e - f < l THEN e - f ELSE l - 1)
  BY <1>1, <1>2 DEF SubMonths, DayOf
<1> QED  BY <1>3, <1>4, <1>5

LEMMA BaseRemains ==
    ASSUME NEW s \in Int, NEW e \in Int, NEW a \in Int, s < e, ~Vanishes(Window(s, e), a)
    PROVE  SubMonths(s, a) < SubMonths(e, a)
<1>1. PICK j \in Int, k \in Int : j = Month(s) /\ k = Month(e) /\ j <= k
  BY MonthFits, MonthMonotone
<1>2. PICK x \in Int, y \in Int : /\ x = SubMonths(s, a) /\ Month(x) = j - a
                                 /\ y = SubMonths(e, a) /\ Month(y) = k - a
  <2>1. SubMonths(s, a) \in Int /\ Month(SubMonths(s, a)) = j - a
    BY <1>1, SubMonthsIs
  <2>2. SubMonths(e, a) \in Int /\ Month(SubMonths(e, a)) = k - a
    BY <1>1, SubMonthsIs
  <2> QED  BY <2>1, <2>2
<1>3. CASE j < k
  <2>1. ~(y <= x)
    BY <1>2, <1>3, MonthMonotone
  <2> QED  BY <1>2, <2>1
<1>4. CASE j = k
  <2>1. PICK f \in Int, g \in Int, l \in 28 .. 31 : f = First(k) /\ g = First(k - a) /\ l = Length(k - a)
    <3>1. k - a \in Int
      OBVIOUS
    <3> QED  BY <3>1, MonthStep
  <2>2. s - f < l - 1
    <3>1. ~(Length(k - a) - 1 <= s - First(k))
      BY <1>1, <1>4, VanishesIs
    <3> QED  BY <2>1, <3>1
  <2>3. x = g + (IF s - f < l THEN s - f ELSE l - 1)
    <3>1. x = SubMonths(s, a) /\ Month(s) = k
      BY <1>1, <1>2, <1>4
    <3> QED  BY <2>1, <3>1 DEF SubMonths, DayOf
  <2>4. y = g + (IF e - f < l THEN e - f ELSE l - 1)
    <3>1. y = SubMonths(e, a) /\ Month(e) = k
      BY <1>1, <1>2
    <3> QED  BY <2>1, <3>1 DEF SubMonths, DayOf
  <2> QED  BY <1>2, <2>2, <2>3, <2>4
<1> QED  BY <1>1, <1>3, <1>4

\* A period that has just begun has no buckets to join.
LEMMA EmptyPairs ==
    ASSUME NEW s \in Int, NEW x \in Int, NEW g, NEW c
    PROVE  PairUp(Buckets(Window(x, x), g), Buckets(Window(s, s), g), g, c)
<1>1. Buckets(Window(x, x), g) = {} /\ Buckets(Window(s, s), g) = {}
  BY DEF Buckets, Window
<1>2. {Align(b, g, c) : b \in {}} = {}
  OBVIOUS
<1> QED  BY <1>1, <1>2 DEF PairUp

LEMMA Paired == Filters => PeriodsPair
<1> SUFFICES ASSUME Filters, Compares, tf.gran \in {"month", "quarter"}
             PROVE  IF Vanishes(Current, ShiftMonths(tf.gran, tf.cmp))
                    THEN Base.start = Base.end
                    ELSE PairUp(Buckets(Base, tf.gran), Buckets(Current, tf.gran), tf.gran, tf.cmp)
  BY DEF PeriodsPair
<1>1. WindowOK(Current, tf.range.mode = "to_date")
  BY ResolveOK DEF Compares, Resolved, Current, Filters, FilterOK
<1>2. PICK s \in Int, e \in Int : Current = Window(s, e) /\ s <= e
  BY <1>1 DEF WindowOK
<1>3. tf.cmp \in {"yoy", "mom"}
  BY DEF Compares, Resolved, Filters, FilterOK, Comparison
<1>4. Base = Shift(Window(s, e), tf.gran, tf.cmp)
  BY <1>2 DEF Base
<1>5. PICK a \in Int : a = ShiftMonths(tf.gran, tf.cmp)
  BY DEF ShiftMonths
<1>6. PICK x \in Int, y \in Int : x = SubMonths(s, a) /\ y = SubMonths(e, a) /\ Base = Window(x, y)
  BY <1>4, <1>5, SubMonthsIs DEF Shift, Window
<1>7. CASE Vanishes(Current, a)
  BY <1>2, <1>5, <1>6, <1>7, BaseVanishes DEF Window
<1>8. CASE ~Vanishes(Current, a) /\ s < e
  <2>1. x < y
    BY <1>2, <1>6, <1>8, BaseRemains
  <2>2. Base.start < Base.end
    BY <1>6, <2>1 DEF Window
  <2> QED  BY <1>2, <1>3, <1>4, <1>5, <1>8, <2>2, Pairs
<1>9. CASE ~Vanishes(Current, a) /\ s = e
  <2>1. x = y
    BY <1>6, <1>9
  <2> QED  BY <1>2, <1>5, <1>6, <1>9, <2>1, EmptyPairs
<1> QED  BY <1>2, <1>7, <1>8, <1>9

-----------------------------------------------------------------------------
(* The spine of a gap-filled series                                        *)

LEMMA DaysCover ==
    ASSUME NEW s \in Int, NEW e \in Int
    PROVE  Steps(Window(s, e), "day") = Buckets(Window(s, e), "day")
BY DEF Steps, Buckets, Window, Trunc

\* A window of whole weeks starts and ends on Mondays.
LEMMA WeeksCover ==
    ASSUME NEW s \in Int, NEW e \in Int, WeekStart(s) = s, WeekStart(e) = e
    PROVE  Steps(Window(s, e), "week") = Buckets(Window(s, e), "week")
<1>1. Steps(Window(s, e), "week") = {n \in s .. e - 7 : (n - s) % 7 = 0}
  BY DEF Steps, Window
<1>2. Buckets(Window(s, e), "week") = {WeekStart(n) : n \in s .. e - 1}
  BY DEF Buckets, Window, Trunc
<1>3. (s + 6) % 7 = 0 /\ (e + 6) % 7 = 0
  <2>1. (s + 6) % 7 \in Int /\ (e + 6) % 7 \in Int
    BY Z3
  <2> QED  BY <2>1 DEF WeekStart
<1>4. ASSUME NEW n \in s .. e - 1
      PROVE  WeekStart(n) \in s .. e - 7 /\ (WeekStart(n) - s) % 7 = 0
  <2>1. PICK r \in Int : r = WeekStart(n) /\ r <= n /\ n < r + 7 /\ (r + 6) % 7 = 0
    <3>1. PICK m \in Int : m = n
      OBVIOUS
    <3>2. PICK r \in Int : r = m - ((m + 6) % 7) /\ r <= m /\ m < r + 7 /\ (r + 6) % 7 = 0
      BY Z3
    <3> QED  BY <3>1, <3>2 DEF WeekStart
  <2>2. s <= r /\ r <= e - 7 /\ (r - s) % 7 = 0
    BY <1>3, <2>1, Z3
  <2> QED  BY <2>1, <2>2
<1>5. ASSUME NEW n \in s .. e - 7, (n - s) % 7 = 0
      PROVE  n \in s .. e - 1 /\ WeekStart(n) = n
  <2>1. (n + 6) % 7 = 0
    BY <1>3, <1>5, Z3
  <2> QED  BY <2>1 DEF WeekStart
<1> QED  BY <1>1, <1>2, <1>4, <1>5

\* A window of whole months, or quarters, starts and ends with first days of
\* months, and the steps of its spine are the months between, or each third.
LEMMA MonthsCover ==
    ASSUME NEW s \in Int, NEW e \in Int, s < e, NEW g \in {"month", "quarter"},
           Trunc(s, g) = s, Trunc(e, g) = e
    PROVE  Steps(Window(s, e), g) = Buckets(Window(s, e), g)
<1> DEFINE q == IF g = "month" THEN 1 ELSE 3
<1>1. PICK i \in Int, j \in Int : i = StartMonth(Month(s), g) /\ j = StartMonth(Month(e), g)
  BY MonthFits, StartMonthOf
<1>2. s = First(i) /\ e = First(j)
  BY <1>1, TruncIs
<1>3. Month(s) = i /\ Month(e) = j /\ i < j
  BY <1>2, MonthOfFirst, FirstOrdered
<1>4. StartMonth(i, g) = i /\ StartMonth(j, g) = j
  BY <1>1, <1>3
<1>5. Month(e - 1) = j - 1
  <2>1. PICK f \in Int, l \in 28 .. 31 : f = First(j - 1) /\ First((j - 1) + 1) = f + l
    BY MonthStep
  <2>2. (j - 1) + 1 = j /\ j - 1 \in Int
    OBVIOUS
  <2> QED  BY <1>2, <2>1, <2>2, MonthUnique
<1>6. Buckets(Window(s, e), g) = {First(StartMonth(k, g)) : k \in i .. j - 1}
  BY <1>3, <1>5, BucketsAre
<1>7. Steps(Window(s, e), g) =
        {n \in s .. First(j - q) : \E k \in 0 .. j - i : k % q = 0 /\ n = First(i + k)}
  <2>1. SubMonths(e, q) = First(j - q)
    <3>1. PICK m \in Int : m = q
      OBVIOUS
    <3>2. SubMonths(First(j), m) = First(j - m)
      BY ShiftedFirst
    <3> QED  BY <1>2, <3>1, <3>2
  <2>2. ASSUME NEW k \in 0 .. j - i
        PROVE  SubMonths(s, -k) = First(i + k)
    <3>1. k \in Int /\ -k \in Int /\ i - (-k) = i + k
      OBVIOUS
    <3>2. SubMonths(First(i), -k) = First(i - (-k))
      BY <3>1, ShiftedFirst
    <3> QED  BY <1>2, <3>1, <3>2
  <2>3. Steps(Window(s, e), g) =
          {n \in s .. SubMonths(e, q) :
             \E k \in 0 .. Month(e) - Month(s) : k % q = 0 /\ n = SubMonths(s, -k)}
    BY DEF Steps, Window
  <2> QED  BY <1>3, <2>1, <2>2, <2>3
\* A month of the spine starts its period, and is one of the window's.
<1>8. ASSUME NEW k \in 0 .. j - i, k % q = 0, First(i + k) \in s .. First(j - q)
      PROVE  i + k \in i .. j - 1 /\ StartMonth(i + k, g) = i + k
  <2>1. PICK a \in Int, b \in Int : a = i + k /\ b = j - q
    OBVIOUS
  <2>2. ~(b < a)
    <3>1. First(a) \in Int /\ First(b) \in Int
      BY MonthStep
    <3> QED  BY <1>8, <2>1, <3>1, FirstOrdered
  <2>3. a \in i .. j - 1
    BY <2>1, <2>2
  <2>4. CASE g = "month"
    BY <2>1, <2>3, <2>4 DEF StartMonth
  <2>5. CASE g = "quarter"
    <3>1. i % 3 = 0 /\ k % 3 = 0
      BY <1>4, <1>8, <2>5, StartMonthOf
    <3>2. (i + k) % 3 = 0
      BY <3>1, Z3
    <3> QED  BY <2>1, <2>3, <2>5, <3>2 DEF StartMonth
  <2> QED  BY <2>4, <2>5
\* The start of the period of a month of the window is on the spine.
<1>9. ASSUME NEW k \in i .. j - 1
      PROVE  /\ First(StartMonth(k, g)) \in s .. First(j - q)
             /\ \E d \in 0 .. j - i : d % q = 0 /\ First(StartMonth(k, g)) = First(i + d)
  <2>1. PICK h \in Int : h = StartMonth(k, g)
    BY StartMonthOf
  <2>2. i <= h /\ h <= j - q /\ (h - i) % q = 0 /\ h <= k
    <3>1. CASE g = "month"
      <4>1. h = k /\ (h - i) % 1 = 0
        BY <2>1, <3>1, Z3 DEF StartMonth
      <4> QED  BY <3>1, <4>1
    <3>2. CASE g = "quarter"
      <4>1. i % 3 = 0 /\ j % 3 = 0
        BY <1>4, <3>2, StartMonthOf
      <4>2. h = k - (k % 3)
        BY <2>1, <3>2 DEF StartMonth
      <4>3. i <= h /\ h <= j - 3 /\ (h - i) % 3 = 0 /\ h <= k
        BY <4>1, <4>2, Z3
      <4> QED  BY <3>2, <4>3
    <3> QED  BY <3>1, <3>2
  <2>3. First(h) \in s .. First(j - q)
    <3>1. j - q \in Int
      OBVIOUS
    <3>2. First(i) <= First(h) /\ First(h) <= First(j - q)
      BY <2>2, <3>1, FirstMonotone
    <3>3. First(i) \in Int /\ First(h) \in Int /\ First(j - q) \in Int
      BY <3>1, MonthStep
    <3> QED  BY <1>2, <3>2, <3>3
  <2>4. h - i \in 0 .. j - i /\ i + (h - i) = h
    BY <2>2
  <2> QED  BY <2>1, <2>2, <2>3, <2>4
<1> HIDE DEF q
<1> QED  BY <1>6, <1>7, <1>8, <1>9

LEMMA Covered == Filters => SpineCovers
<1> SUFFICES ASSUME Filters, Resolved, IsWhole(Current, tf.gran)
             PROVE  Steps(Current, tf.gran) = Buckets(Current, tf.gran)
  BY DEF SpineCovers, Covers
<1>1. WindowOK(Current, tf.range.mode = "to_date")
  BY ResolveOK DEF Resolved, Current, Filters, FilterOK
<1>2. PICK s \in Int, e \in Int : Current = Window(s, e)
  BY <1>1 DEF WindowOK
<1>3. s < e /\ Trunc(s, tf.gran) = s /\ Trunc(e, tf.gran) = e
  BY <1>2 DEF IsWhole, Window
<1>4. tf.gran \in Granularity
  BY DEF Resolved, Filters, FilterOK
<1>5. CASE tf.gran = "day"
  BY <1>2, <1>5, DaysCover
<1>6. CASE tf.gran = "week"
  <2>1. WeekStart(s) = s /\ WeekStart(e) = e
    BY <1>3, <1>6 DEF Trunc
  <2> QED  BY <1>2, <1>6, <2>1, WeeksCover
<1>7. CASE tf.gran \in {"month", "quarter"}
  BY <1>2, <1>3, <1>7, MonthsCover
<1> QED  BY <1>4, <1>5, <1>6, <1>7 DEF Granularity

-----------------------------------------------------------------------------
\* No window of a query ends before it starts, and the base window of a
\* comparison is earlier than it at both ends, over leap days, short months and
\* all years (_resolve_window, _sub_months, _shift_window).
THEOREM WindowsTheorem == WindowSpec => []WindowsOrdered
BY FiltersInvariant, Ordered, PTL

\* A comparison over months or quarters joins the periods of its two windows one
\* to one, wherever they start and end, as _shift_window and align_interval
\* agree, with the exception of a window that vanishes, whose base is empty.
THEOREM PairsTheorem == WindowSpec => []PeriodsPair
BY FiltersInvariant, Paired, PTL

\* The spine that fills the gaps of a series over whole days, weeks, months or
\* quarters holds exactly their buckets (_compile_with_fill_gaps).
THEOREM SpineTheorem == WindowSpec => []SpineCovers
BY FiltersInvariant, Covered, PTL
=============================================================================
