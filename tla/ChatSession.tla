---------------------------- MODULE ChatSession ----------------------------
(***************************************************************************)
(* The memory of a conversation: run_query of web/service.py with the      *)
(* session states of agent/memory.py and the pending clarifications of     *)
(* agent/slotfill.py.                                                      *)
(*                                                                         *)
(* Each store has a part in the memory of every worker process and, when   *)
(* STATE_STORE_DB is set, a part on disk that the workers share.  A        *)
(* request works on the session object itself, not on a copy: get()        *)
(* returns what the store holds, and other requests see what is done to it *)
(* before update() stores it.                                              *)
(***************************************************************************)
EXTENDS Naturals, Sequences, FiniteSets

CONSTANTS
    Requests,       \* the calls of run_query; each is a turn of its session
    Workers,        \* the server processes
    Users,
    Sessions,
    Callers,        \* who may call: records of a user, a session and a worker
    MaxSessions,    \* SESSION_MEMORY_MAX_SESSIONS
    HistoryTurns,   \* SESSION_MEMORY_HISTORY_TURNS
    Durable,        \* STATE_STORE_DB is set
    MaxInFlight,    \* bound: requests in flight at once
    None            \* no object, no turn, nothing stored

VARIABLES
    frame,     \* the local state of each request: where it is, what the router
               \* took it for, the session object it works on, what the agent made
               \* of its query, and the dump that it is about to write
    caller,    \* who makes it
    filled,    \* the turn whose question it answered
    heap,      \* the session objects, each named by the request that made it
    items,     \* SessionStore._items of each worker
    disk,      \* the kv table "sessions"
    slots,     \* ClarifySlotStore._items of each worker
    slotDisk,  \* the kv table "clarify_slots"
    succeeded, \* history: the turns whose query was executed successfully
    alone,     \* history: the requests that no other one of their session
               \* overlapped and no restart cut off
    acked,     \* history: the turn a session was told to have recorded last
    cleared    \* history: the turns of the sessions that were cleared

requestVars == <<frame, caller, filled>>
sessionVars == <<heap, items, disk>>
slotVars == <<slots, slotDisk>>
historyVars == <<succeeded, alone, acked, cleared>>
vars == <<requestVars, sessionVars, slotVars, historyVars>>

\* A DSL or a message is named by the turn it comes from.
Session == [owner : Users, base : Requests \cup {None}, history : Seq(Requests)]
Slot == [owner : Users, asked : Requests]
Intents == {"chitchat", "clarify", "reset", "other", "glossary", "data"}
Places == {"arrived", "look", "consume", "route", "drop", "dropany", "forget", "resolve",
           "run", "ask", "switch", "record", "note", "check", "store", "dump",
           "write", "over"}

Frame(place) ==
    [at |-> place, intent |-> "other", mine |-> None, result |-> "none", image |-> None]

ASSUME CallersAssumption == Callers \subseteq [user : Users, session : Sessions, worker : Workers]
ASSUME NoneAssumption == None \notin Requests \cup Users \cup Callers \cup Session \cup Slot
ASSUME LimitsAssumption ==
    MaxSessions \in Nat \ {0} /\ HistoryTurns \in Nat \ {0} /\ MaxInFlight \in Nat \ {0}
ASSUME DurableAssumption == Durable \in BOOLEAN

Init ==
    /\ frame = [r \in Requests |-> Frame("arrived")]
    /\ caller = [r \in Requests |-> None]
    /\ filled = [r \in Requests |-> None]
    /\ heap = [r \in Requests |-> None]
    /\ items = [w \in Workers |-> [s \in Sessions |-> None]]
    /\ disk = [s \in Sessions |-> None]
    /\ slots = [w \in Workers |-> [s \in Sessions |-> None]]
    /\ slotDisk = [s \in Sessions |-> None]
    /\ succeeded = {}
    /\ alone = {}
    /\ acked = [s \in Sessions |-> None]
    /\ cleared = {}

User(r) == caller[r].user
SessionOf(r) == caller[r].session
Worker(r) == caller[r].worker
At(r) == frame[r].at
Mine(r) == frame[r].mine

\* The turns that a session state goes back to.
Turns(state) == ({state.base} \cup {state.history[i] : i \in DOMAIN state.history}) \ {None}

OwnerOf(entry) == IF entry = None THEN None ELSE entry.owner

InFlight(r) == At(r) \notin {"arrived", "over"}

\* A request goes on; one that is over has no local state left.
Enter(r, f) == frame' = [frame EXCEPT ![r] = IF f.at = "over" THEN Frame("over") ELSE f]
Go(r, place) == Enter(r, [frame[r] EXCEPT !.at = place])

\* On to place, if the request has a session to record its turn in.
Recording(r, place) == IF Mine(r) = None THEN "over" ELSE place

-----------------------------------------------------------------------------
(* SessionStore.get *)

\* Mutant: the owner of an object in memory is not compared.
RecallAnyones(r, c, o) ==
    /\ items[c.worker][c.session] # None
    /\ o = items[c.worker][c.session]
    /\ UNCHANGED sessionVars

\* What is in memory, if it is the caller's.
RecallHeld(r, c, o) ==
    LET held == items[c.worker][c.session]
    IN  /\ held # None
        /\ o = IF heap[held].owner = c.user THEN held ELSE None
        /\ UNCHANGED sessionVars

\* The caller's state in memory has expired.
RecallExpired(r, c, o) ==
    LET held == items[c.worker][c.session]
    IN  /\ held # None
        /\ heap[held].owner = c.user
        /\ o = None
        /\ items' = [items EXCEPT ![c.worker][c.session] = None]
        /\ disk' = [disk EXCEPT ![c.session] = None]
        /\ UNCHANGED heap

\* What is on disk, if it is the caller's, becomes an object in memory.
RecallStored(r, c, o) ==
    /\ items[c.worker][c.session] = None
    /\ IF OwnerOf(disk[c.session]) = c.user
       THEN /\ o = r
            /\ heap' = [heap EXCEPT ![r] = disk[c.session]]
            /\ items' = [items EXCEPT ![c.worker][c.session] = r]
       ELSE o = None /\ UNCHANGED <<heap, items>>
    /\ UNCHANGED disk

\* The row on disk has expired, whoever reads it.
RecallOutdated(r, c, o) ==
    /\ items[c.worker][c.session] = None
    /\ disk[c.session] # None
    /\ o = None
    /\ disk' = [disk EXCEPT ![c.session] = None]
    /\ UNCHANGED <<heap, items>>

\* The object o that get() returns.
Recall(r, c, o) ==
    \/ RecallHeld(r, c, o) \/ RecallExpired(r, c, o)
    \/ RecallStored(r, c, o) \/ RecallOutdated(r, c, o)

Begin(r) ==
    /\ At(r) = "arrived"
    /\ Cardinality({q \in Requests : InFlight(q)}) < MaxInFlight
    /\ \E c \in Callers, o \in Requests \cup {None} :
          LET busy == {q \in Requests : InFlight(q) /\ SessionOf(q) = c.session}
          IN  /\ caller' = [caller EXCEPT ![r] = c]
              /\ Recall(r, c, o)
              /\ Enter(r, [frame[r] EXCEPT !.at = "look", !.mine = o])
              /\ alone' = IF busy = {} THEN alone \cup {r} ELSE alone \ busy
              /\ acked' = [acked EXCEPT ![c.session] = None]
    /\ UNCHANGED <<filled, slotVars, succeeded, cleared>>

-----------------------------------------------------------------------------
(* ClarifySlotStore *)

\* get(): what is in memory, or else what is on disk, which is kept in memory
\* whoever reads it; both may have expired, and are then deleted.
LookUp(r) ==
    LET s     == SessionOf(r)
        w     == Worker(r)
        entry == IF slots[w][s] # None THEN slots[w][s] ELSE slotDisk[s]
    IN  /\ At(r) = "look"
        /\ \/ /\ OwnerOf(entry) # User(r)
              /\ slots' = [slots EXCEPT ![w][s] = entry]
              /\ Go(r, "route")
              /\ UNCHANGED <<filled, slotDisk>>
           \/ /\ entry # None
              /\ OwnerOf(entry) = User(r) \/ slots[w][s] = None
              /\ slots' = [slots EXCEPT ![w][s] = None]
              /\ slotDisk' = [slotDisk EXCEPT ![s] = None]
              /\ Go(r, "route")
              /\ UNCHANGED filled
           \/ /\ OwnerOf(entry) = User(r)
              /\ slots' = [slots EXCEPT ![w][s] = entry]
              /\ \/ filled' = [filled EXCEPT ![r] = entry.asked] /\ Go(r, "consume")
                 \/ Go(r, "route") /\ UNCHANGED filled  \* the query does not fit the question
              /\ UNCHANGED slotDisk
        /\ UNCHANGED <<caller, sessionVars, historyVars>>

Delete(w, s) ==
    /\ slots' = [slots EXCEPT ![w][s] = None]
    /\ slotDisk' = [slotDisk EXCEPT ![s] = None]

\* Mutant: the slot that was filled stays.
ConsumeNothing(r) ==
    /\ At(r) = "consume"
    /\ UNCHANGED slotVars
    /\ Go(r, "route")
    /\ UNCHANGED <<caller, filled, sessionVars, historyVars>>

\* clear() without an owner: the slot was filled.
Consume(r) ==
    /\ At(r) = "consume"
    /\ Delete(Worker(r), SessionOf(r))
    /\ Go(r, "route")
    /\ UNCHANGED <<caller, filled, sessionVars, historyVars>>

\* clear() with an owner leaves the slot of another one alone.
DropOwn(r) ==
    LET s     == SessionOf(r)
        w     == Worker(r)
        entry == IF slots[w][s] # None THEN slots[w][s] ELSE slotDisk[s]
    IN  IF OwnerOf(entry) \in {None, User(r)} THEN Delete(w, s) ELSE UNCHANGED slotVars

Drop(r) ==
    /\ At(r) = "drop"
    /\ DropOwn(r)
    /\ Go(r, CASE frame[r].intent = "chitchat" -> Recording(r, "note")
               [] frame[r].intent = "glossary" -> "run"
               [] frame[r].intent = "data"     -> "resolve")
    /\ UNCHANGED <<caller, filled, sessionVars, historyVars>>

\* Where a request goes with the agent's answer, and a question to the user.
Answered(r, result) ==
    IF frame[r].intent = "glossary" THEN Recording(r, "switch")
    ELSE CASE result = "failed" -> Recording(r, "note")
           [] result = "empty"  -> "over"
           [] result = "ok"     -> "record"

\* set(): the question of this turn waits for its answer.
Ask(r) ==
    LET slot == [owner |-> User(r), asked |-> r]
    IN  /\ At(r) = "ask"
        /\ slots' = [slots EXCEPT ![Worker(r)][SessionOf(r)] = slot]
        /\ slotDisk' = IF Durable THEN [slotDisk EXCEPT ![SessionOf(r)] = slot] ELSE slotDisk
        /\ Go(r, IF frame[r].intent = "clarify" THEN Recording(r, "note")
                 ELSE Answered(r, frame[r].result))
        /\ UNCHANGED <<caller, filled, sessionVars, historyVars>>

-----------------------------------------------------------------------------
(* run_query *)

Route(r) ==
    /\ At(r) = "route"
    /\ \E i \in Intents, place \in Places :
          /\ CASE i \in {"chitchat", "glossary", "data"} -> place = "drop"
               [] i = "clarify" -> place \in {"ask", Recording(r, "note")}
               [] i = "reset"   -> place = "dropany"
               [] i = "other"   -> place = "over"
          /\ Enter(r, [frame[r] EXCEPT !.at = place, !.intent = i])
    /\ UNCHANGED <<caller, filled, sessionVars, slotVars, historyVars>>

\* reset_session clears the slot, whoever owns it, then the caller's session.
DropAny(r) ==
    /\ At(r) = "dropany"
    /\ Delete(Worker(r), SessionOf(r))
    /\ Go(r, "forget")
    /\ UNCHANGED <<caller, filled, sessionVars, historyVars>>

Forget(r) ==
    LET o == items[Worker(r)][SessionOf(r)]
    IN  /\ At(r) = "forget"
        /\ IF o # None /\ heap[o].owner = User(r)
           THEN /\ items' = [items EXCEPT ![Worker(r)][SessionOf(r)] = None]
                /\ disk' = [disk EXCEPT ![SessionOf(r)] = None]
                /\ cleared' = cleared \cup Turns(heap[o])
           ELSE UNCHANGED <<items, disk, cleared>>
        /\ Go(r, "over")
        /\ UNCHANGED <<caller, filled, heap, slotVars, succeeded, alone, acked>>

\* A new topic drops the DSL of the session before its own query has run.
Resolve(r) ==
    /\ At(r) = "resolve"
    /\ heap' \in {heap} \cup
          (IF Mine(r) = None THEN {} ELSE {[heap EXCEPT ![Mine(r)].base = None]})
    /\ Go(r, "run")
    /\ UNCHANGED <<caller, filled, items, disk, slotVars, historyVars>>

\* Mutant: a query that failed is recorded as the session's DSL.
RunRecording(r) ==
    /\ At(r) = "run"
    /\ frame[r].intent = "data"
    /\ \E result \in {"failed", "ok"} :
          /\ Enter(r, [frame[r] EXCEPT !.at = "record", !.result = result])
          /\ succeeded' = IF result = "ok" THEN succeeded \cup {r} ELSE succeeded
    /\ UNCHANGED <<caller, filled, sessionVars, slotVars, alone, acked, cleared>>

\* The agent answers, with or without a question to the user, or raises.
Run(r) ==
    /\ At(r) = "run"
    /\ \/ Go(r, "over") /\ UNCHANGED succeeded
       \/ \E result \in IF frame[r].intent = "data" THEN {"failed", "empty", "ok"} ELSE {"none"} :
             /\ \E place \in {"ask", Answered(r, result)} :
                   Enter(r, [frame[r] EXCEPT !.at = place, !.result = result])
             /\ succeeded' = IF result = "ok" THEN succeeded \cup {r} ELSE succeeded
    /\ UNCHANGED <<caller, filled, sessionVars, slotVars, alone, acked, cleared>>

\* A glossary turn drops the DSL of the session.
Switch(r) ==
    /\ At(r) = "switch"
    /\ heap' = [heap EXCEPT ![Mine(r)].base = None]
    /\ Go(r, "note")
    /\ UNCHANGED <<caller, filled, items, disk, slotVars, historyVars>>

\* A data turn succeeded: its DSL is the session's, which may be a new one.
Record(r) ==
    /\ At(r) = "record"
    /\ IF Mine(r) = None
       THEN /\ heap' = [heap EXCEPT ![r] = [owner |-> User(r), base |-> r, history |-> <<>>]]
            /\ Enter(r, [frame[r] EXCEPT !.at = "note", !.mine = r])
       ELSE /\ heap' = [heap EXCEPT ![Mine(r)].base = r]
            /\ Go(r, "note")
    /\ UNCHANGED <<caller, filled, items, disk, slotVars, historyVars>>

\* The user's message, and the assistant's after an answer.
Note(r) ==
    LET messages == IF frame[r].intent = "glossary" \/ frame[r].result = "ok" THEN <<r, r>> ELSE <<r>>
    IN  /\ At(r) = "note"
        /\ heap' = [heap EXCEPT ![Mine(r)].history = @ \o messages]
        /\ Go(r, "check")
        /\ UNCHANGED <<caller, filled, items, disk, slotVars, historyVars>>

-----------------------------------------------------------------------------
(* SessionStore.update *)

Trimmed(h) == IF Len(h) > 2 * HistoryTurns
              THEN SubSeq(h, Len(h) - 2 * HistoryTurns + 1, Len(h))
              ELSE h

\* Another user's session is not overwritten: the turn is not recorded.  A row
\* on disk may prove to have expired.
Check(r) ==
    LET o     == items[Worker(r)][SessionOf(r)]
        saved == disk[SessionOf(r)]
        owner == OwnerOf(IF o # None THEN heap[o] ELSE saved)
    IN  /\ At(r) = "check"
        /\ \/ /\ owner \notin {None, User(r)}
              /\ Go(r, "over")
              /\ UNCHANGED <<heap, disk>>
           \/ /\ owner \in {None, User(r)}
              /\ heap' = [heap EXCEPT ![Mine(r)].history = Trimmed(@)]
              /\ Go(r, "store")
              /\ UNCHANGED disk
           \/ /\ o = None /\ saved # None
              /\ disk' = [disk EXCEPT ![SessionOf(r)] = None]
              /\ heap' = [heap EXCEPT ![Mine(r)].history = Trimmed(@)]
              /\ Go(r, "store")
        /\ UNCHANGED <<caller, filled, items, slotVars, historyVars>>

\* The object is stored; of the others the least recently used go, from disk too.
Store(r) ==
    LET w     == Worker(r)
        s     == SessionOf(r)
        other == {t \in Sessions \ {s} : items[w][t] # None}
    IN  /\ At(r) = "store"
        /\ \E keep \in SUBSET other :
              /\ \/ keep = other /\ Cardinality(other) < MaxSessions
                 \/ Cardinality(keep) = MaxSessions - 1
              /\ items' = [items EXCEPT ![w] = [t \in Sessions |->
                               IF t = s THEN Mine(r) ELSE IF t \in keep THEN @[t] ELSE None]]
              /\ disk' = [t \in Sessions |-> IF t \in other \ keep THEN None ELSE disk[t]]
        /\ Go(r, IF Durable THEN "dump" ELSE "over")
        /\ UNCHANGED <<caller, filled, heap, slotVars, historyVars>>

\* _persist(): the state is dumped, then the row is written.
Dump(r) ==
    /\ At(r) = "dump"
    /\ Enter(r, [frame[r] EXCEPT !.at = "write", !.image = heap[Mine(r)]])
    /\ UNCHANGED <<caller, filled, sessionVars, slotVars, historyVars>>

\* Mutant: the row is left as it is when there is one.
WriteOnce(r) ==
    /\ At(r) = "write"
    /\ disk' = [disk EXCEPT ![SessionOf(r)] = IF @ = None THEN frame[r].image ELSE @]
    /\ acked' = IF r \in alone /\ frame[r].result = "ok"
                THEN [acked EXCEPT ![SessionOf(r)] = r] ELSE acked
    /\ Go(r, "over")
    /\ UNCHANGED <<caller, filled, heap, items, slotVars, succeeded, alone, cleared>>

Write(r) ==
    /\ At(r) = "write"
    /\ disk' = [disk EXCEPT ![SessionOf(r)] = frame[r].image]
    /\ acked' = IF r \in alone /\ frame[r].result = "ok"
                THEN [acked EXCEPT ![SessionOf(r)] = r] ELSE acked
    /\ Go(r, "over")
    /\ UNCHANGED <<caller, filled, heap, items, slotVars, succeeded, alone, cleared>>

-----------------------------------------------------------------------------

\* A worker restarts: its memory and its requests are gone, the disk stays.
Restart(w) ==
    LET its  == {r \in Requests : caller[r] # None /\ Worker(r) = w}
        lost == {r \in its : InFlight(r)}
    IN  /\ items' = [items EXCEPT ![w] = [s \in Sessions |-> None]]
        /\ slots' = [slots EXCEPT ![w] = [s \in Sessions |-> None]]
        /\ heap' = [r \in Requests |-> IF r \in its THEN None ELSE heap[r]]
        /\ frame' = [r \in Requests |-> IF r \in lost THEN Frame("over") ELSE frame[r]]
        /\ alone' = alone \ lost
        /\ UNCHANGED <<caller, filled, disk, slotDisk, succeeded, acked, cleared>>

Step(r) ==
    \/ Begin(r) \/ LookUp(r) \/ Consume(r) \/ Route(r)
    \/ Drop(r) \/ DropAny(r) \/ Forget(r) \/ Resolve(r) \/ Run(r) \/ Ask(r)
    \/ Switch(r) \/ Record(r) \/ Note(r)
    \/ Check(r) \/ Store(r) \/ Dump(r) \/ Write(r)

Next ==
    \/ \E r \in Requests : Step(r)
    \/ \E w \in Workers : Restart(w)

Spec == Init /\ [][Next]_vars

-----------------------------------------------------------------------------
(* Properties *)

TypeOK ==
    /\ frame \in [Requests -> [at : Places, intent : Intents, mine : Requests \cup {None},
                               result : {"none", "failed", "empty", "ok"},
                               image : Session \cup {None}]]
    /\ caller \in [Requests -> Callers \cup {None}]
    /\ filled \in [Requests -> Requests \cup {None}]
    /\ succeeded \subseteq Requests
    /\ heap \in [Requests -> Session \cup {None}]
    /\ items \in [Workers -> [Sessions -> Requests \cup {None}]]
    /\ disk \in [Sessions -> Session \cup {None}]
    /\ slots \in [Workers -> [Sessions -> Slot \cup {None}]]
    /\ slotDisk \in [Sessions -> Slot \cup {None}]
    /\ alone \subseteq Requests
    /\ acked \in [Sessions -> Requests \cup {None}]
    /\ cleared \subseteq Requests

\* The context of a request is its own user's and its own session's: the object
\* it works on, every turn recorded in it, and the question that it answers,
\* through memory, disk and restarts.
SessionsApart ==
    \A r \in Requests :
        /\ Mine(r) # None =>
              /\ heap[Mine(r)].owner = User(r)
              /\ \A t \in Turns(heap[Mine(r)]) :
                    User(t) = User(r) /\ SessionOf(t) = SessionOf(r)
        /\ filled[r] # None =>
              User(filled[r]) = User(r) /\ SessionOf(filled[r]) = SessionOf(r)

\* What a session offers as the DSL to build on was executed successfully, in
\* memory and on disk.
BaseSucceeded ==
    \A state \in ({heap[r] : r \in Requests} \cup {disk[s] : s \in Sessions}) \ {None} :
        state.base \in succeeded \cup {None}

\* A worker answers a clarification once, except by requests that overlap others
\* of their session and by requests that a restart cut off.  Another worker may
\* still hold its own copy of the question.
AnsweredOnce ==
    \A r, q \in alone :
        filled[r] # None /\ filled[r] = filled[q] /\ Worker(r) = Worker(q) => r = q

\* Once a turn was recorded on disk, the next request of its session builds on
\* it, also after a restart, unless the session was evicted or has expired, or
\* the request comes to another worker that still holds its own copy.
SeesLastTurn ==
    [][\A r \in Requests :
          LET c == caller'[r]
              t == acked[c.session]
          IN  At(r) = "arrived" /\ frame'[r].at = "look" /\ t # None /\ frame'[r].mine # None
              /\ (items[c.worker][c.session] = None \/ Worker(t) = c.worker)
              => heap'[frame'[r].mine].base = t]_vars

\* The same without that exception, which two workers violate.
SeesEveryTurn ==
    [][\A r \in Requests :
          LET t == acked[caller'[r].session]
          IN  At(r) = "arrived" /\ frame'[r].at = "look" /\ t # None /\ frame'[r].mine # None
              => heap'[frame'[r].mine].base = t]_vars

\* A session that was cleared starts anew: none of the turns it had comes back.
ClearedStaysCleared ==
    \A w \in Workers, s \in Sessions :
        items[w][s] # None => Turns(heap[items[w][s]]) \cap cleared = {}
=============================================================================
