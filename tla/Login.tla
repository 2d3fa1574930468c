------------------------------- MODULE Login -------------------------------
(***************************************************************************)
(* Login of one worker process: the failure counter of each user and       *)
(* address with its growing delay, kept in memory and on disk              *)
(* (src/auth/ratelimit.py), the steps a login request takes through it     *)
(* (src/web/server.py), and the sessions it hands out                      *)
(* (src/auth/session.py, src/auth/gateway.py).  Requests run in threads of *)
(* their own; the worker may restart at any moment.                        *)
(*                                                                         *)
(* Time is the age of each record in ticks of base_seconds, which stops    *)
(* growing where it no longer matters.  Hashing and tokens are left out:   *)
(* a password is right or wrong.                                           *)
(***************************************************************************)
EXTENDS Integers

CONSTANTS
    Keys,           \* users at an address: what failures are counted for
    Attempts,       \* threads with a login request
    Ids,            \* the sessions that can be created
    MaxFailures,    \* AUTH_LOGIN_MAX_FAILURES
    MaxDelay,       \* AUTH_LOGIN_MAX_SECONDS, in ticks
    MaxExponent,    \* the largest power of two that a float can hold
    SessionTtl,     \* AUTH_SESSION_TTL, in ticks
    Persistent,     \* is STATE_STORE_DB configured?
    SessionsKept,   \* is AUTH_SESSION_DB configured?
    None

ASSUME NumbersAssumption ==
    /\ MaxFailures \in Nat \ {0} /\ MaxDelay \in Nat \ {0}
    /\ MaxExponent \in Nat /\ \A n \in 0 .. MaxExponent : 2 ^ n \in Nat
    /\ SessionTtl \in Nat \ {0}
ASSUME SettingsAssumption == Persistent \in BOOLEAN /\ SessionsKept \in BOOLEAN

\* Failures in a row, and the ticks since the last of them.
Entry == [failures: Nat \ {0}, age: 0 .. MaxDelay]

ASSUME NoneAssumption == None \notin Keys /\ None \notin Entry

VARIABLES
    memory,     \* the counter of the process: LoginRateLimiter._failures
    disk,       \* the table login_failures
    step,       \* where each request is
    key,        \* and what it counts for
    session,    \* the sessions: unused, alive for so many ticks, or out
    lock        \* history: the ticks left of the last lock recorded of a key

loginVars == <<memory, disk, step, key, session, lock>>

\* A session that was not created yet, and one that was given up.
Unused == -1
Out == -2

LoginInit ==
    /\ memory = [k \in Keys |-> None] /\ disk = [k \in Keys |-> None]
    /\ step = [a \in Attempts |-> "idle"] /\ key = [a \in Attempts |-> None]
    /\ session = [i \in Ids |-> Unused]
    /\ lock = [k \in Keys |-> 0]

-----------------------------------------------------------------------------
\* Mutant of Seen: the disk is only written.
SeenInMemory(k) == memory[k]
\* The entry check looks at: that of the process, or else that on disk.
Seen(k) == IF memory[k] # None THEN memory[k] ELSE disk[k]

\* The delay doubles with each failure from MaxFailures on, up to MaxDelay;
\* the power is computed before it is cut off, and may be too large for that.
Exponent(failures) == IF failures > MaxFailures THEN failures - MaxFailures ELSE 0
Delay(failures) ==
    IF Exponent(failures) > MaxExponent \/ 2 ^ Exponent(failures) > MaxDelay
    THEN MaxDelay ELSE 2 ^ Exponent(failures)
Overflows(k) == Seen(k) # None /\ Exponent(Seen(k).failures) > MaxExponent

Locked(k) ==
    /\ Seen(k) # None
    /\ Seen(k).failures >= MaxFailures
    /\ Delay(Seen(k).failures) > Seen(k).age

-----------------------------------------------------------------------------
\* Mutant of Check: a refused request counts as a failure.
CheckCounting(a, k) ==
    /\ step[a] = "idle" /\ ~Overflows(k)
    /\ step' = IF Locked(k) THEN step ELSE [step EXCEPT ![a] = "checked"]
    /\ key' = IF Locked(k) THEN key ELSE [key EXCEPT ![a] = k]
    /\ memory' = IF Locked(k) THEN [memory EXCEPT ![k] = [Seen(k) EXCEPT !.age = 0]]
                 ELSE memory
    /\ UNCHANGED <<disk, session, lock>>

\* limiter.check: refused while the key is locked; an overflow is an error
\* of the request.  Neither counts.
Check(a, k) ==
    /\ step[a] = "idle"
    /\ ~Locked(k) /\ ~Overflows(k)
    /\ step' = [step EXCEPT ![a] = "checked"]
    /\ key' = [key EXCEPT ![a] = k]
    /\ UNCHANGED <<memory, disk, session, lock>>

\* IdentityStore.authenticate: the password is right or wrong.
Verify(a) ==
    /\ step[a] = "checked"
    /\ \E result \in {"right", "wrong"} : step' = [step EXCEPT ![a] = result]
    /\ UNCHANGED <<memory, disk, key, session, lock>>

\* record_failure: counted from the memory of the process alone.
Failures(k) == IF memory[k] = None THEN 1 ELSE memory[k].failures + 1
Done(a) ==
    /\ step' = [step EXCEPT ![a] = "idle"]
    /\ key' = [key EXCEPT ![a] = None]
RecordFailure(a) ==
    /\ step[a] = "wrong"
    /\ LET k == key[a]
           entry == [failures |-> Failures(k), age |-> 0]
       IN  /\ memory' = [memory EXCEPT ![k] = entry]
           /\ disk' = IF Persistent THEN [disk EXCEPT ![k] = entry] ELSE disk
           /\ lock' = IF Failures(k) >= MaxFailures
                      THEN [lock EXCEPT ![k] = Delay(Failures(k))] ELSE lock
    /\ Done(a)
    /\ UNCHANGED session

\* record_success forgets the failures of the key, a running lock as well.
RecordSuccess(a) ==
    /\ step[a] = "right"
    /\ memory' = [memory EXCEPT ![key[a]] = None]
    /\ disk' = [disk EXCEPT ![key[a]] = None]
    /\ lock' = [lock EXCEPT ![key[a]] = 0]
    /\ step' = [step EXCEPT ![a] = "in"]
    /\ UNCHANGED <<key, session>>

\* create_session, and the answer with its id.
CreateSession(a, i) ==
    /\ step[a] = "in" /\ session[i] = Unused
    /\ session' = [session EXCEPT ![i] = 0]
    /\ Done(a)
    /\ UNCHANGED <<memory, disk, lock>>

\* The request ends without a session, when the bound on them is reached.
Decline(a) ==
    /\ step[a] = "in" /\ \A i \in Ids : session[i] # Unused
    /\ Done(a)
    /\ UNCHANGED <<memory, disk, session, lock>>

\* SessionStore.get of any request: an expired session is dropped.
Alive(i) == session[i] >= 0
Use(i) ==
    /\ Alive(i) /\ session[i] >= SessionTtl
    /\ session' = [session EXCEPT ![i] = Out]
    /\ UNCHANGED <<memory, disk, step, key, lock>>

PostLogout(i) ==
    /\ Alive(i)
    /\ session' = [session EXCEPT ![i] = Out]
    /\ UNCHANGED <<memory, disk, step, key, lock>>

-----------------------------------------------------------------------------
\* A tick of the wall clock, by which all records grow older.
Older(entries) ==
    [k \in Keys |-> IF entries[k] = None THEN None
                    ELSE [entries[k] EXCEPT !.age = IF @ < MaxDelay THEN @ + 1 ELSE @]]
Tick ==
    /\ memory' = Older(memory) /\ disk' = Older(disk)
    /\ session' = [i \in Ids |-> IF Alive(i) /\ session[i] < SessionTtl
                                 THEN session[i] + 1 ELSE session[i]]
    /\ lock' = [k \in Keys |-> IF lock[k] > 0 THEN lock[k] - 1 ELSE 0]
    /\ UNCHANGED <<step, key>>

\* The worker restarts: requests and memory are gone.
LoginRestart ==
    /\ memory' = [k \in Keys |-> None]
    /\ step' = [a \in Attempts |-> "idle"] /\ key' = [a \in Attempts |-> None]
    /\ session' = IF SessionsKept THEN session
                  ELSE [i \in Ids |-> IF Alive(i) THEN Out ELSE session[i]]
    /\ UNCHANGED <<disk, lock>>

LoginNext ==
    \/ \E a \in Attempts, k \in Keys : Check(a, k)
    \/ \E a \in Attempts : Verify(a) \/ RecordFailure(a) \/ RecordSuccess(a) \/ Decline(a)
    \/ \E a \in Attempts, i \in Ids : CreateSession(a, i)
    \/ \E i \in Ids : Use(i) \/ PostLogout(i)
    \/ Tick \/ LoginRestart

\* The wall clock goes on.
LoginSpec == LoginInit /\ [][LoginNext]_loginVars /\ WF_loginVars(Tick)
-----------------------------------------------------------------------------
LoginTypeOK ==
    /\ memory \in [Keys -> Entry \union {None}]
    /\ disk \in [Keys -> Entry \union {None}]
    /\ step \in [Attempts -> {"idle", "checked", "right", "wrong", "in"}]
    /\ key \in [Attempts -> Keys \union {None}]
    /\ session \in [Ids -> {Unused, Out} \union 0 .. SessionTtl]
    /\ lock \in [Keys -> 0 .. MaxDelay]

(***************************************************************************)
(* Check, verification and record are three steps, and a restart may come  *)
(* between any two: still, once a failure has locked a key, no request     *)
(* gets past the check until the whole delay is over or a request that had *)
(* passed it earlier succeeds.                                             *)
(***************************************************************************)
LockHolds ==
    [][\A a \in Attempts :
          step[a] = "idle" /\ step'[a] = "checked" => lock[key'[a]] = 0]_loginVars

(***************************************************************************)
(* A lock ends, however many requests in flight prolong it: unless so many *)
(* failures were counted that their power overflows.                       *)
(***************************************************************************)
LockEnds == \A k \in Keys : Locked(k) ~> ~Locked(k) \/ Overflows(k)
=============================================================================
