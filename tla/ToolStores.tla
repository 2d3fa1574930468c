----------------------------- MODULE ToolStores -----------------------------
(***************************************************************************)
(* What the data tools keep between calls: the rows of recent queries, in  *)
(* memory (src/exec/query_cache.py, used by _run_guarded of                *)
(* src/tools/builtins/_query_core.py), and the files made by exports, on   *)
(* disk (src/tools/builtins/_export_store.py), which users download        *)
(* (_get_export of src/web/server.py).                                     *)
(*                                                                         *)
(* The cache is locked, one step for each call.  The export store is       *)
(* locked against other saves only: its files change one by one under the  *)
(* eyes of downloads and of each other's cleanup.  The process may restart *)
(* at any moment: the cache is empty then, and the files stay as they are. *)
(*                                                                         *)
(* Time is counted in ticks.  A query stands for the principal and the SQL *)
(* of its cache key, its rows for the moment they were read.               *)
(***************************************************************************)
EXTENDS Naturals, Sequences, SequencesExt

CONSTANTS
    Threads,        \* the threads of tool calls and requests
    Users, Admins,  \* who downloads, and who of them has the role admin
    PrincipalOf,    \* the principal of each user: several may share one
    Exports,        \* bound: the exports that can be made
    Keys,           \* the cache keys
    MaxEntries,     \* QUERY_CACHE_MAX_ENTRIES
    CacheTtl,       \* QUERY_CACHE_TTL_SECONDS, in ticks
    Timeout,        \* QUERY_TIMEOUT_MS, in ticks
    None

\* The identity store makes every principal a string.
ASSUME UsersAssumption ==
    Admins \subseteq Users /\ \A u \in Users : PrincipalOf[u] # None
ASSUME NumbersAssumption ==
    MaxEntries \in Nat \ {0} /\ CacheTtl \in Nat /\ Timeout \in Nat
ASSUME NoneAssumption == None \notin Keys \cup Exports \cup Threads \cup Nat

VARIABLES
    at,         \* where each thread is
    user,       \* the user it works for
    item,       \* the export, or the key of the query, it works on
    seen,       \* the principal a download read, the file a cleanup deletes,
                \* or the age of the rows of a query
    store,      \* the cache, the entry used last at its end
    file,       \* of each export: unused, young, old (past its TTL), or gone
    meta,       \* the principal in its metadata, if there are any
    saving,     \* the thread that holds the lock of the export store
    known,      \* the exports whose id was handed out
    given,      \* history: who downloaded which export
    madeBy      \* history: the principal each export was made for

threadVars == <<at, user, item, seen>>
fileVars == <<file, meta, saving, known, madeBy>>
vars == <<threadVars, store, fileVars, given>>

\* An entry: its key, the time since it was stored, and since its rows were
\* read, which the program does not know.
Entry == [key: Keys, stored: Nat, rows: Nat]

Init ==
    /\ at = [t \in Threads |-> "idle"] /\ user = [t \in Threads |-> None]
    /\ item = [t \in Threads |-> None] /\ seen = [t \in Threads |-> None]
    /\ store = <<>>
    /\ file = [x \in Exports |-> "unused"]
    /\ meta = [x \in Exports |-> None] /\ madeBy = [x \in Exports |-> None]
    /\ saving = None /\ known = {} /\ given = {}

\* The call of a thread is over.
Leave(t) ==
    /\ at' = [at EXCEPT ![t] = "idle"] /\ user' = [user EXCEPT ![t] = None]
    /\ item' = [item EXCEPT ![t] = None] /\ seen' = [seen EXCEPT ![t] = None]

-----------------------------------------------------------------------------
(* Queries and the cache of their results.                                 *)

\* A key has one entry at most.
Cached(k) == \E n \in DOMAIN store : store[n].key = k
Position(k) == CHOOSE n \in DOMAIN store : store[n].key = k
EntryOf(k) == store[Position(k)]
Without(k) == IF Cached(k) THEN RemoveAt(store, Position(k)) ELSE store

\* Mutant of Touched: to be used again keeps an entry young.
TouchedAnew(e) == [e EXCEPT !.stored = 0]
\* move_to_end: the entry is the one used last, and as old as before.
Touched(e) == e

\* QueryCache.get finds an entry that is not too old, and the query is
\* answered with its rows; ...
Hit(t, k) ==
    /\ at[t] = "idle" /\ Cached(k) /\ EntryOf(k).stored <= CacheTtl
    /\ store' = Append(Without(k), Touched(EntryOf(k)))
    /\ at' = [at EXCEPT ![t] = "answered"]
    /\ item' = [item EXCEPT ![t] = k] /\ seen' = [seen EXCEPT ![t] = EntryOf(k).rows]
    /\ UNCHANGED <<user, fileVars, given>>

\* ... or none, one that is too old being deleted, and the statement is run.
Miss(t, k) ==
    /\ at[t] = "idle" /\ (Cached(k) => EntryOf(k).stored > CacheTtl)
    /\ store' = Without(k)
    /\ at' = [at EXCEPT ![t] = "query"]
    /\ item' = [item EXCEPT ![t] = k] /\ seen' = [seen EXCEPT ![t] = 0]
    /\ UNCHANGED <<user, fileVars, given>>

\* QueryCache.put, when the statement returns: an overflow drops the entry
\* unused for longest.
Put(t) ==
    /\ at[t] = "query"
    /\ LET all == Append(Without(item[t]), [key |-> item[t], stored |-> 0, rows |-> seen[t]])
       IN  store' = IF Len(all) > MaxEntries THEN Tail(all) ELSE all
    /\ at' = [at EXCEPT ![t] = "answered"]
    /\ UNCHANGED <<user, item, seen, fileVars, given>>

\* The statement fails, or the answer has been taken.
EndQuery(t) ==
    /\ at[t] \in {"query", "answered"}
    /\ Leave(t)
    /\ UNCHANGED <<store, fileVars, given>>

\* A tick passes; the guards end a statement at its timeout.  What is older
\* than it may be served counts as one tick older than that.
Older(n) == IF n > CacheTtl + Timeout THEN n ELSE n + 1
Tick ==
    /\ \A t \in Threads : at[t] = "query" => seen[t] < Timeout
    /\ \A t \in Threads : at[t] # "answered"
    /\ store' = [n \in DOMAIN store |->
                   [store[n] EXCEPT !.stored = Older(@), !.rows = Older(@)]]
    /\ seen' = [t \in Threads |-> IF at[t] = "query" THEN seen[t] + 1 ELSE seen[t]]
    /\ UNCHANGED <<at, user, item, fileVars, given>>

-----------------------------------------------------------------------------
(* Exports.                                                                *)

\* save: under the lock the file is written, ...
Save(t, u, x) ==
    /\ at[t] = "idle" /\ saving = None /\ file[x] = "unused"
    /\ saving' = t
    /\ file' = [file EXCEPT ![x] = "young"]
    /\ madeBy' = [madeBy EXCEPT ![x] = PrincipalOf[u]]
    /\ at' = [at EXCEPT ![t] = "written"]
    /\ user' = [user EXCEPT ![t] = u] /\ item' = [item EXCEPT ![t] = x]
    /\ UNCHANGED <<seen, store, meta, known, given>>

\* ... and then its metadata.  One save in a hundred goes on to clean up.
SaveMeta(t) ==
    /\ at[t] = "written"
    /\ meta' = [meta EXCEPT ![item[t]] = PrincipalOf[user[t]]]
    /\ saving' = None
    /\ \E next \in {"saved", "sweep"} : at' = [at EXCEPT ![t] = next]
    /\ UNCHANGED <<user, item, seen, store, file, known, madeBy, given>>

\* The disk fails: the call ends without an id, and the file stays.
SaveFails(t) ==
    /\ at[t] = "written"
    /\ saving' = None
    /\ Leave(t)
    /\ UNCHANGED <<store, file, meta, known, madeBy, given>>

\* The id is handed out: the user has it, and may pass it on.
Announce(t) ==
    /\ at[t] = "saved"
    /\ known' = known \cup {item[t]}
    /\ Leave(t)
    /\ UNCHANGED <<store, file, meta, saving, madeBy, given>>

\* The time to live of a file passes.
ExpireFile(x) ==
    /\ file[x] = "young"
    /\ file' = [file EXCEPT ![x] = "old"]
    /\ UNCHANGED <<threadVars, store, meta, saving, known, madeBy, given>>

\* _cleanup_expired: it comes to an old file that is there, ...
Expired(t, x) ==
    /\ at[t] = "sweep" /\ file[x] = "old"
    /\ at' = [at EXCEPT ![t] = "unlink"]
    /\ seen' = [seen EXCEPT ![t] = x]
    /\ UNCHANGED <<user, item, store, fileVars, given>>

\* Mutant of Unlink: the metadata go first.
UnlinkMeta(t) ==
    /\ at[t] = "unlink" /\ file[seen[t]] = "old"
    /\ meta' = [meta EXCEPT ![seen[t]] = None]
    /\ at' = [at EXCEPT ![t] = "unlinkMeta"]
    /\ UNCHANGED <<user, item, seen, store, file, saving, known, madeBy, given>>

\* ... deletes the file, ...
Unlink(t) ==
    /\ at[t] = "unlink" /\ file[seen[t]] = "old"
    /\ file' = [file EXCEPT ![seen[t]] = "gone"]
    /\ at' = [at EXCEPT ![t] = "unlinkMeta"]
    /\ UNCHANGED <<user, item, seen, store, meta, saving, known, madeBy, given>>

\* ... then the metadata, and goes on.
UnlinkTheMeta(t) ==
    /\ at[t] = "unlinkMeta"
    /\ meta' = [meta EXCEPT ![seen[t]] = None]
    /\ seen' = [seen EXCEPT ![t] = None]
    /\ at' = [at EXCEPT ![t] = "sweep"]
    /\ UNCHANGED <<user, item, store, file, saving, known, madeBy, given>>

\* The listing is at its end, or another cleanup took a file away under this
\* one: that error ends the cleanup and is swallowed.
SweepEnds(t) ==
    /\ \/ at[t] = "sweep"
       \/ at[t] = "unlink" /\ file[seen[t]] # "old"
    /\ seen' = [seen EXCEPT ![t] = None]
    /\ at' = [at EXCEPT ![t] = "saved"]
    /\ UNCHANGED <<user, item, store, fileVars, given>>

\* GET /api/export: the file is there, ...
Find(t, u, x) ==
    /\ at[t] = "idle" /\ x \in known /\ file[x] \in {"young", "old"}
    /\ at' = [at EXCEPT ![t] = "found"]
    /\ user' = [user EXCEPT ![t] = u] /\ item' = [item EXCEPT ![t] = x]
    /\ UNCHANGED <<seen, store, fileVars, given>>

\* ... its metadata are read, and without any there is no ...
ReadMeta(t) ==
    /\ at[t] = "found"
    /\ seen' = [seen EXCEPT ![t] = meta[item[t]]]
    /\ at' = [at EXCEPT ![t] = "check"]
    /\ UNCHANGED <<user, item, store, fileVars, given>>

\* ... the owner is compared, and where there is none nothing is refused, ...
MayDownload(t) ==
    seen[t] = None \/ seen[t] = PrincipalOf[user[t]] \/ user[t] \in Admins

\* ... and the file is read, if it is still there.
Download(t) ==
    /\ at[t] = "check"
    /\ given' = IF MayDownload(t) /\ file[item[t]] \in {"young", "old"}
                THEN given \cup {<<user[t], item[t]>>} ELSE given
    /\ Leave(t)
    /\ UNCHANGED <<store, fileVars>>

-----------------------------------------------------------------------------
\* The process restarts: the cache and all threads are gone.
Restart ==
    /\ at' = [t \in Threads |-> "idle"] /\ user' = [t \in Threads |-> None]
    /\ item' = [t \in Threads |-> None] /\ seen' = [t \in Threads |-> None]
    /\ store' = <<>> /\ saving' = None
    /\ UNCHANGED <<file, meta, known, madeBy, given>>

Next ==
    \/ \E t \in Threads, k \in Keys : Hit(t, k) \/ Miss(t, k)
    \/ \E t \in Threads : Put(t) \/ EndQuery(t)
    \/ Tick
    \/ \E t \in Threads, u \in Users, x \in Exports : Save(t, u, x) \/ Find(t, u, x)
    \/ \E t \in Threads : SaveMeta(t) \/ SaveFails(t) \/ Announce(t)
    \/ \E x \in Exports : ExpireFile(x) \/ \E t \in Threads : Expired(t, x)
    \/ \E t \in Threads : Unlink(t) \/ UnlinkTheMeta(t) \/ SweepEnds(t)
    \/ \E t \in Threads : ReadMeta(t) \/ Download(t)
    \/ Restart

Spec == Init /\ [][Next]_vars

-----------------------------------------------------------------------------
Principals == {PrincipalOf[u] : u \in Users}
TypeOK ==
    /\ at \in [Threads -> {"idle", "query", "answered", "written", "saved", "sweep",
                            "unlink", "unlinkMeta", "found", "check"}]
    /\ user \in [Threads -> Users \cup {None}]
    /\ item \in [Threads -> Keys \cup Exports \cup {None}]
    /\ seen \in [Threads -> Nat \cup Exports \cup Principals \cup {None}]
    /\ store \in Seq(Entry) /\ Len(store) <= MaxEntries
    /\ file \in [Exports -> {"unused", "young", "old", "gone"}]
    /\ meta \in [Exports -> Principals \cup {None}]
    /\ madeBy \in [Exports -> Principals \cup {None}]
    /\ saving \in Threads \cup {None} /\ known \subseteq Exports
    /\ given \subseteq Users \X Exports

\* A file is read only by users of the principal it was made for and by
\* admins: no order of saving, cleaning up, restarting and downloading lets
\* it be read under missing metadata, which name no owner and so refuse no
\* one (_export_store.py:84, 106, server.py:756).
OnlyOwnersRead ==
    \A p \in given : p[1] \in Admins \/ PrincipalOf[p[1]] = madeBy[p[2]]

\* Rows are never older than the time to live and the time of a statement
\* together, however often an entry is used and stored (query_cache.py:71).
RowsFresh ==
    \A t \in Threads : at[t] = "answered" => seen[t] <= CacheTtl + Timeout
=============================================================================
