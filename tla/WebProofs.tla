------------------------------ MODULE WebProofs ------------------------------
(***************************************************************************)
(* Proofs about three parts of the web layer that share nothing: the task  *)
(* manager (Tasks), the login with its lock (Login) and the page in the    *)
(* browser (Client).                                                       *)
(***************************************************************************)
EXTENDS Tasks, Login, Client, FiniteSetTheorems, SequenceTheorems, TLAPS

-----------------------------------------------------------------------------
(* The task manager, for any number of threads, workers and tasks          *)

Over(i) == status[i] \in {"ended", "gone"}

\* The requests submit and wait, the pool runs.
Roles ==
    /\ \A t \in Threads : at[t] \in {"idle", "cleaned", "inserted", "waiting", "woken"}
    /\ \A w \in Workers : at[w] \in {"idle", "running", "finished"}
    /\ \A t \in Threads : at[t] \in {"inserted", "waiting", "woken"} => item[t] \in Tasks
    /\ \A w \in Workers : at[w] \in {"running", "finished"} => item[w] \in Tasks

\* A task is in one place at most: with the thread that submits it, at one
\* position of the queue, or with the worker that runs it.
OneOwner ==
    /\ \A m, n \in DOMAIN queue : queue[m] = queue[n] => m = n
    /\ \A t \in Threads : \A n \in DOMAIN queue : at[t] = "inserted" => queue[n] # item[t]
    /\ \A t, u \in Threads :
           at[t] = "inserted" /\ at[u] = "inserted" /\ item[t] = item[u] => t = u
    /\ \A v, w \in Workers :
           at[v] = "running" /\ at[w] = "running" /\ item[v] = item[w] => v = w

\* Only what is over expires, is left behind by a worker, or has its event set.
OverOnly ==
    /\ expired \subseteq Ended
    /\ \A i \in event : Over(i)
    /\ \A w \in Workers : at[w] = "finished" => Over(item[w])

Safe ==
    /\ TypeOK
    /\ Roles
    /\ OneOwner
    /\ OverOnly
    /\ WorkIsKept
    /\ WokenSeesEnd

Submitting == {t \in Threads : at[t] = "cleaned"}

\* The history: every thread may add one task after the cleanup that was the
\* last, and those that have not yet will.
Counts ==
    /\ Cardinality(Unfinished(status)) <= backlog
    /\ Cardinality(Kept) + Cardinality(Submitting)
           <= Larger(MaxHistory, backlog) + Cardinality(Threads)

IInv == Safe /\ Counts

-----------------------------------------------------------------------------
(* The initial states *)

LEMMA TasksFinite == IsFiniteSet(Tasks) /\ \A S \in SUBSET Tasks : IsFiniteSet(S) /\ Cardinality(S) \in Nat
<1>1. IsFiniteSet(Tasks)
    BY HistoryAssumption, FS_Interval DEF Tasks
<1>2. ASSUME NEW S \in SUBSET Tasks PROVE IsFiniteSet(S) /\ Cardinality(S) \in Nat
    BY <1>1, FS_Subset, FS_CardinalityType
<1> QED BY <1>1, <1>2

LEMMA ThreadsFinite == \A S \in SUBSET Threads : /\ IsFiniteSet(S) /\ Cardinality(S) \in Nat
                                                 /\ Cardinality(S) <= Cardinality(Threads)
BY ThreadsAssumption, FS_Subset, FS_CardinalityType

THEOREM Initially == Init => IInv
<1> SUFFICES ASSUME Init PROVE IInv
    OBVIOUS
<1> USE DEF Init
<1>1. TypeOK
    BY DEF TypeOK
<1>2. Roles /\ OneOwner /\ OverOnly /\ WorkIsKept /\ WokenSeesEnd
    BY DEF Roles, OneOwner, OverOnly, WorkIsKept, WokenSeesEnd
<1>3. Counts
    <2>1. Unfinished(status) = {} /\ Kept = {} /\ Submitting = {}
        BY DEF Unfinished, Kept, Submitting
    <2>2. Cardinality({}) = 0
        BY FS_EmptySet
    <2>3. Cardinality(Threads) \in Nat
        BY ThreadsFinite
    <2>4. Cardinality(Unfinished(status)) = 0 /\ Cardinality(Kept) = 0 /\ Cardinality(Submitting) = 0
        BY <2>1, <2>2
    <2> QED BY <2>3, <2>4, HistoryAssumption DEF Counts, Larger
<1> QED BY <1>1, <1>2, <1>3 DEF IInv, Safe

-----------------------------------------------------------------------------
(* Safety: one lemma per step *)

LEMMA SubmitSafe == ASSUME Safe, NEW t \in Threads, Submit(t) PROVE Safe'
<1> USE DEF Safe
<1>1. Dropped \subseteq Ended
    BY DEF Dropped, OverOnly
<1>2. \A i \in Tasks : status'[i] = IF i \in Dropped THEN "gone" ELSE status[i]
    BY DEF Submit
<1>3. \A i \in Tasks : status'[i] = status[i] \/ (status'[i] = "gone" /\ status[i] = "ended")
    BY <1>1, <1>2 DEF Ended
<1>4. TypeOK'
    BY <1>1 DEF TypeOK, Submit
<1>5. Roles' /\ OneOwner'
    BY ThreadsAssumption DEF Roles, OneOwner, TypeOK, Submit
<1>6. OverOnly'
    BY <1>3, ThreadsAssumption DEF OverOnly, Over, Roles, TypeOK, Submit
<1>7. WorkIsKept'
    <2>1. \A n \in DOMAIN queue : queue[n] \in Tasks
        BY DEF TypeOK
    <2> QED BY <1>3, <2>1, ThreadsAssumption DEF WorkIsKept, Roles, TypeOK, Submit
<1>8. WokenSeesEnd'
    BY <1>3 DEF WokenSeesEnd, Roles, TypeOK, Submit
<1> QED BY <1>4, <1>5, <1>6, <1>7, <1>8

LEMMA InsertSafe == ASSUME Safe, NEW t \in Threads, NEW i \in Tasks, Insert(t, i) PROVE Safe'
<1> USE DEF Safe
<1>1. status[i] = "unused" /\ status'[i] = "pending" /\ \A j \in Tasks : j # i => status'[j] = status[j]
    BY DEF Insert, TypeOK
<1>2. \A n \in DOMAIN queue : queue[n] \in Tasks /\ queue[n] # i
    BY <1>1 DEF TypeOK, WorkIsKept
<1>3. at'[t] = "inserted" /\ item'[t] = i
      /\ \A u \in Threads \cup Workers : u # t => at'[u] = at[u] /\ item'[u] = item[u]
    BY DEF Insert, TypeOK
<1>4. UNCHANGED <<expired, event, queue>>
    BY DEF Insert
<1>5. TypeOK'
    <2>1. backlog' \in Nat
        BY TasksFinite DEF Insert, Larger, Unfinished, TypeOK
    <2> QED BY <2>1 DEF TypeOK, Insert
<1>6. Roles'
    BY <1>3, ThreadsAssumption DEF Roles
<1>7. OneOwner'
    <2>1. \A u \in Threads : at[u] = "inserted" => item[u] # i
        BY <1>1 DEF WorkIsKept
    <2> QED BY <1>2, <1>3, <1>4, <2>1, ThreadsAssumption DEF OneOwner
<1>8. OverOnly'
    <2>1. expired \subseteq Tasks /\ event \subseteq Tasks
        BY DEF TypeOK
    <2> QED BY <1>1, <1>3, <1>4, <2>1, ThreadsAssumption DEF OverOnly, Over, Ended, Roles
<1>9. WorkIsKept'
    BY <1>1, <1>2, <1>3, <1>4, ThreadsAssumption DEF WorkIsKept, Roles
<1>10. WokenSeesEnd'
    BY <1>1, <1>3, <1>4 DEF WokenSeesEnd, Roles
<1> QED BY <1>5, <1>6, <1>7, <1>8, <1>9, <1>10

LEMMA EnqueueSafe == ASSUME Safe, NEW t \in Threads, Enqueue(t) PROVE Safe'
<1> USE DEF Safe
<1>1. at[t] = "inserted" /\ item[t] \in Tasks /\ status[item[t]] = "pending"
    BY DEF Enqueue, Roles, WorkIsKept
<1>2. at'[t] = "idle" /\ \A u \in Threads \cup Workers : u # t => at'[u] = at[u] /\ item'[u] = item[u]
    BY DEF Enqueue, TypeOK
<1>3. /\ queue \in Seq(Tasks) /\ DOMAIN queue = 1..Len(queue) /\ Len(queue) \in Nat
      /\ DOMAIN queue' = 1..(Len(queue) + 1)
      /\ queue'[Len(queue) + 1] = item[t]
      /\ \A n \in DOMAIN queue : queue'[n] = queue[n]
    BY <1>1 DEF Enqueue, TypeOK
<1>4. UNCHANGED <<status, expired, event>>
    BY DEF Enqueue
<1>5. TypeOK'
    BY <1>1 DEF Enqueue, TypeOK
<1>6. Roles'
    BY <1>2, ThreadsAssumption DEF Roles
<1>7. OneOwner'
    <2>1. \A m, n \in DOMAIN queue' : queue'[m] = queue'[n] => m = n
        BY <1>1, <1>3 DEF OneOwner
    <2>2. \A u \in Threads : \A n \in DOMAIN queue' : at'[u] = "inserted" => queue'[n] # item'[u]
        BY <1>1, <1>2, <1>3 DEF OneOwner
    <2> QED BY <1>2, <2>1, <2>2, ThreadsAssumption DEF OneOwner
<1>8. OverOnly' /\ WokenSeesEnd'
    BY <1>2, <1>4, ThreadsAssumption DEF OverOnly, Over, Ended, WokenSeesEnd
<1>9. WorkIsKept'
    <2>1. \A n \in DOMAIN queue' : status'[queue'[n]] = "pending"
        BY <1>1, <1>3, <1>4 DEF WorkIsKept
    <2> QED BY <1>2, <1>4, <2>1, ThreadsAssumption DEF WorkIsKept
<1> QED BY <1>5, <1>6, <1>7, <1>8, <1>9

\* A thread gives up, begins to wait, is woken, or reads the snapshot.
LEMMA WaiterSafe ==
    ASSUME Safe, NEW t \in Threads,
           GiveUp(t) \/ Woken(t) \/ Look(t) \/ \E i \in Tasks : Wait(t, i)
    PROVE  Safe'
<1> USE DEF Safe
<1>1. UNCHANGED <<status, expired, event, queue, backlog>>
    BY DEF GiveUp, Woken, Look, Wait
<1>2. /\ at'[t] \in {"idle", "waiting", "woken"}
      /\ at'[t] # "idle" => item'[t] \in Tasks
      /\ at'[t] = "woken" => item'[t] \in event
      /\ \A u \in Threads \cup Workers : u # t => at'[u] = at[u] /\ item'[u] = item[u]
    BY DEF GiveUp, Woken, Look, Wait, TypeOK, Roles
<1>3. TypeOK'
    BY DEF GiveUp, Woken, Look, Wait, TypeOK
<1>4. Roles'
    BY <1>2, ThreadsAssumption DEF Roles
<1>5. OneOwner'
    BY <1>1, <1>2, ThreadsAssumption DEF OneOwner
<1>6. OverOnly' /\ WokenSeesEnd' /\ WorkIsKept'
    BY <1>1, <1>2, ThreadsAssumption DEF OverOnly, Over, Ended, WokenSeesEnd, WorkIsKept
<1> QED BY <1>3, <1>4, <1>5, <1>6

LEMMA StartSafe == ASSUME Safe, NEW w \in Workers, Start(w) PROVE Safe'
<1> USE DEF Safe
<1> DEFINE i == Head(queue)
<1>1. /\ queue \in Seq(Tasks) /\ Len(queue) \in Nat \ {0} /\ DOMAIN queue = 1..Len(queue)
      /\ i = queue[1] /\ i \in Tasks
      /\ DOMAIN queue' = 1..(Len(queue) - 1)
      /\ \A n \in DOMAIN queue' : n + 1 \in DOMAIN queue /\ queue'[n] = queue[n + 1]
    BY DEF Start, TypeOK
<1>2. status[i] = "pending"
    BY <1>1 DEF WorkIsKept
<1>3. status'[i] = "running" /\ \A j \in Tasks : j # i => status'[j] = status[j]
    BY <1>1, <1>2 DEF Start, Kept, TypeOK
<1>4. /\ at[w] = "idle" /\ at'[w] = "running" /\ item'[w] = i
      /\ \A u \in Threads \cup Workers : u # w => at'[u] = at[u] /\ item'[u] = item[u]
    BY DEF Start, TypeOK
<1>5. UNCHANGED <<expired, event, backlog>>
    BY DEF Start
<1>6. TypeOK'
    <2>1. status' \in [Tasks -> {"unused", "pending", "running", "ended", "gone"}]
        BY <1>1 DEF Start, TypeOK
    <2>2. queue' \in Seq(Tasks)
        BY <1>1 DEF Start
    <2> QED BY <1>1, <2>1, <2>2 DEF Start, TypeOK
<1>7. Roles'
    BY <1>1, <1>4, ThreadsAssumption DEF Roles
<1>8. \A n \in DOMAIN queue' : queue'[n] \in Tasks /\ queue'[n] # i
    BY <1>1 DEF OneOwner
<1>9. \A t \in Threads : at[t] = "inserted" => item[t] # i
    BY <1>1 DEF OneOwner
<1>10. \A v \in Workers : at[v] = "running" => item[v] # i
    BY <1>2 DEF WorkIsKept
<1>11. OneOwner'
    <2>1. \A m, n \in DOMAIN queue' : queue'[m] = queue'[n] => m = n
        BY <1>1 DEF OneOwner
    <2>2. \A t \in Threads : \A n \in DOMAIN queue' : at'[t] = "inserted" => queue'[n] # item'[t]
        BY <1>1, <1>4, ThreadsAssumption DEF OneOwner
    <2> QED BY <1>4, <1>10, <2>1, <2>2, ThreadsAssumption DEF OneOwner
<1>12. OverOnly'
    <2>1. expired \subseteq Tasks /\ event \subseteq Tasks
        BY DEF TypeOK
    <2> QED BY <1>2, <1>3, <1>4, <1>5, <2>1, ThreadsAssumption DEF OverOnly, Over, Ended, Roles
<1>13. WorkIsKept'
    <2>1. \A n \in DOMAIN queue' : status'[queue'[n]] = "pending"
        BY <1>1, <1>3, <1>8 DEF WorkIsKept
    <2> QED BY <1>3, <1>4, <1>9, <1>10, <2>1, ThreadsAssumption DEF WorkIsKept, Roles
<1>14. WokenSeesEnd'
    BY <1>2, <1>3, <1>4, ThreadsAssumption DEF WokenSeesEnd, Roles
<1> QED BY <1>6, <1>7, <1>11, <1>12, <1>13, <1>14

LEMMA FinishSafe == ASSUME Safe, NEW w \in Workers, Finish(w) PROVE Safe'
<1> USE DEF Safe
<1>1. item[w] \in Tasks /\ at[w] = "running" /\ status[item[w]] = "running"
    BY DEF Finish, Roles, WorkIsKept
<1>2. /\ status'[item[w]] = "ended"
      /\ \A j \in Tasks : j # item[w] => status'[j] = status[j]
    BY <1>1 DEF Finish, Kept, TypeOK
<1>3. /\ at'[w] = "finished"
      /\ \A u \in Threads \cup Workers : u # w => at'[u] = at[u]
    BY DEF Finish, TypeOK
<1>4. UNCHANGED <<item, expired, event, queue, backlog>>
    BY DEF Finish
<1>5. TypeOK'
    BY <1>1 DEF Finish, TypeOK
<1>6. Roles'
    BY <1>1, <1>3, <1>4, ThreadsAssumption DEF Roles
<1>7. OneOwner'
    BY <1>3, <1>4, ThreadsAssumption DEF OneOwner
<1>8. OverOnly'
    <2>1. expired \subseteq Tasks /\ event \subseteq Tasks
        BY DEF TypeOK
    <2> QED BY <1>1, <1>2, <1>3, <1>4, <2>1 DEF OverOnly, Over, Ended, Roles
<1>9. WorkIsKept'
    <2>1. \A n \in DOMAIN queue : queue[n] \in Tasks
        BY DEF TypeOK
    <2>2. \A v \in Workers : v # w /\ at[v] = "running" => item[v] # item[w]
        BY <1>1 DEF OneOwner
    <2> QED BY <1>1, <1>2, <1>3, <1>4, <2>1, <2>2, ThreadsAssumption DEF WorkIsKept, Roles
<1>10. WokenSeesEnd'
    BY <1>2, <1>3, <1>4, ThreadsAssumption DEF WokenSeesEnd, Roles
<1> QED BY <1>5, <1>6, <1>7, <1>8, <1>9, <1>10

LEMMA WakeSafe == ASSUME Safe, NEW w \in Workers, Wake(w) PROVE Safe'
<1> USE DEF Safe
<1>1. item[w] \in Tasks /\ Over(item[w]) /\ event' = event \cup {item[w]}
    BY DEF Wake, Roles, OverOnly
<1>2. /\ at'[w] = "idle"
      /\ \A u \in Threads \cup Workers : u # w => at'[u] = at[u] /\ item'[u] = item[u]
    BY DEF Wake, TypeOK
<1>3. UNCHANGED <<status, expired, queue, backlog>>
    BY DEF Wake
<1>4. TypeOK'
    BY <1>1 DEF Wake, TypeOK
<1>5. Roles' /\ OneOwner'
    BY <1>2, <1>3, ThreadsAssumption DEF Roles, OneOwner
<1>6. OverOnly' /\ WokenSeesEnd' /\ WorkIsKept'
    BY <1>1, <1>2, <1>3, ThreadsAssumption DEF OverOnly, Over, Ended, WokenSeesEnd, WorkIsKept
<1> QED BY <1>4, <1>5, <1>6

LEMMA ExpireSafe == ASSUME Safe, NEW i \in Tasks, ExpireTask(i) PROVE Safe'
<1> USE DEF Safe
<1>1. UNCHANGED <<at, item, status, event, queue, backlog>> /\ expired' = expired \cup {i} /\ i \in Ended
    BY DEF ExpireTask
<1>2. TypeOK'
    BY <1>1 DEF TypeOK
<1>3. Roles' /\ OneOwner' /\ OverOnly' /\ WorkIsKept' /\ WokenSeesEnd'
    BY <1>1 DEF Roles, OneOwner, OverOnly, Over, Ended, WorkIsKept, WokenSeesEnd
<1> QED BY <1>2, <1>3

LEMMA RestartSafe == ASSUME Safe, Restart PROVE Safe'
<1> USE DEF Safe
<1>1. \A t \in Threads \cup Workers : at'[t] = "idle"
    BY DEF Restart
<1>2. expired' = {} /\ queue' = <<>> /\ event' = event
    BY DEF Restart
<1>3. \A i \in Tasks : Over(i) => status'[i] \in {"ended", "gone"}
    BY DEF Restart, Kept, Over, TypeOK
<1>4. TypeOK'
    BY DEF Restart, TypeOK
<1>5. OverOnly'
    BY <1>1, <1>2, <1>3 DEF OverOnly, Over, TypeOK
<1>6. Roles' /\ OneOwner' /\ WorkIsKept' /\ WokenSeesEnd'
    BY <1>1, <1>2 DEF Roles, OneOwner, WorkIsKept, WokenSeesEnd
<1> QED BY <1>4, <1>5, <1>6

LEMMA StepSafe == Safe /\ [Next]_vars => Safe'
<1> SUFFICES ASSUME Safe, [Next]_vars PROVE Safe'
    OBVIOUS
<1>1. ASSUME NEW t \in Threads, NEW i \in Tasks, Insert(t, i) \/ Wait(t, i) PROVE Safe'
    BY <1>1, InsertSafe, WaiterSafe
<1>2. ASSUME NEW t \in Threads, Submit(t) \/ Enqueue(t) \/ GiveUp(t) \/ Woken(t) \/ Look(t)
      PROVE  Safe'
    BY <1>2, SubmitSafe, EnqueueSafe, WaiterSafe
<1>3. ASSUME NEW w \in Workers, Start(w) \/ Finish(w) \/ Wake(w) PROVE Safe'
    BY <1>3, StartSafe, FinishSafe, WakeSafe
<1>4. CASE UNCHANGED vars
    BY <1>4 DEF vars, Safe, TypeOK, Roles, OneOwner, OverOnly, Over, Ended, WorkIsKept, WokenSeesEnd
<1> QED BY <1>1, <1>2, <1>3, <1>4, ExpireSafe, RestartSafe DEF Next

-----------------------------------------------------------------------------
(* The length of the history *)

\* Of a finite set of numbers, exactly n have a rank of n at most.
LEMMA Ranks ==
    ASSUME NEW S \in SUBSET Nat, IsFiniteSet(S), NEW n \in Nat, n <= Cardinality(S)
    PROVE  Cardinality({i \in S : Cardinality({j \in S : j <= i}) <= n}) = n
<1> DEFINE Upto(i) == {j \in S : j <= i}
           rank == [i \in S |-> Cardinality(Upto(i))]
           c == Cardinality(S)
           low == {i \in S : rank[i] <= n}
<1>0. c \in Nat
    BY FS_CardinalityType
<1>1. \A i \in S : IsFiniteSet(Upto(i)) /\ rank[i] \in 1..c
    <2> SUFFICES ASSUME NEW i \in S PROVE IsFiniteSet(Upto(i)) /\ rank[i] \in 1..c
        OBVIOUS
    <2>1. Upto(i) \in SUBSET S /\ i \in Upto(i)
        OBVIOUS
    <2>2. IsFiniteSet(Upto(i)) /\ Cardinality(Upto(i)) <= c
        BY <2>1, FS_Subset
    <2>3. Cardinality(Upto(i)) \in Nat /\ Cardinality(Upto(i)) # 0
        BY <2>1, <2>2, FS_CardinalityType, FS_EmptySet
    <2> HIDE DEF Upto
    <2> QED BY <1>0, <2>2, <2>3
<1>2. ASSUME NEW i \in S, NEW k \in S, rank[i] = rank[k] PROVE i = k
    <2>1. ASSUME NEW a \in S, NEW b \in S, rank[a] = rank[b], a <= b PROVE a = b
        <3>0. \A j \in S : j <= a => j <= b
            BY <2>1
        <3>1. Upto(a) \in SUBSET Upto(b)
            BY <3>0
        <3>2. Cardinality(Upto(b)) = Cardinality(Upto(a))
            BY <2>1
        <3>3. Upto(b) = Upto(a)
            <4> HIDE DEF Upto
            <4> QED BY <1>1, <3>1, <3>2, FS_Subset
        <3>4. b \in Upto(a)
            BY <3>3
        <3> QED BY <2>1, <3>4
    <2> QED BY <1>2, <2>1
<1>3. rank \in Injection(S, 1..c)
    <2>1. rank \in [S -> 1..c]
        BY <1>1
    <2> HIDE DEF rank
    <2> QED BY <1>2, <2>1 DEF Injection, IsInjective
<1>4. \A k \in 1..c : \E i \in S : rank[i] = k
    <2>1. IsFiniteSet(1..c) /\ Cardinality(1..c) = c
        BY <1>0, FS_Interval
    <2>2. rank \in Surjection(S, 1..c)
        BY <1>3, <2>1, FS_Injection
    <2> HIDE DEF rank
    <2> QED BY <2>2 DEF Surjection
<1>5. [i \in low |-> rank[i]] \in Bijection(low, 1..n)
    <2> DEFINE r == [i \in low |-> rank[i]]
    <2>1. \A i \in low : r[i] = rank[i] /\ r[i] \in 1..n
        BY <1>1
    <2>2. r \in [low -> 1..n]
        BY <2>1
    <2>3. \A i, k \in low : r[i] = r[k] => i = k
        BY <1>2, <2>1
    <2>4. \A k \in 1..n : \E i \in low : r[i] = k
        <3> SUFFICES ASSUME NEW k \in 1..n PROVE \E i \in low : r[i] = k
            OBVIOUS
        <3>1. k \in 1..c
            BY <1>0
        <3>2. PICK i \in S : rank[i] = k
            BY <1>4, <3>1
        <3> HIDE DEF rank
        <3>3. i \in low
            BY <3>2
        <3> QED BY <3>2, <3>3
    <2> HIDE DEF low, r
    <2>5. DOMAIN r = low
        BY <2>2
    <2>6. r \in Injection(low, 1..n)
        BY <2>2, <2>3, <2>5 DEF Injection, IsInjective
    <2>7. r \in Surjection(low, 1..n)
        BY <2>2, <2>4 DEF Surjection
    <2>8. r \in Bijection(low, 1..n)
        BY <2>6, <2>7 DEF Bijection
    <2> QED BY <2>8 DEF r
<1>6. IsFiniteSet(1..n) /\ Cardinality(1..n) = n
    BY FS_Interval
<1>7. IsFiniteSet(low)
    BY FS_Subset
<1>8. Cardinality(low) = n
    <2>1. ExistsBijection(low, 1..n)
        BY <1>5, Zenon DEF ExistsBijection
    <2> HIDE DEF low
    <2> QED BY <1>6, <1>7, <2>1, FS_Bijection
<1>9. low = {i \in S : Cardinality({j \in S : j <= i}) <= n}
    OBVIOUS
<1> QED BY <1>8, <1>9

\* A cleanup leaves MaxHistory tasks at most, or no task but the unfinished.
LEMMA CleanupBounds ==
    ASSUME Safe
    PROVE  Cardinality(Kept \ Dropped) <= Larger(MaxHistory, Cardinality(Unfinished(status)))
<1> DEFINE all == Kept \ expired
           fresh == Ended \ expired
           kept == Cardinality(all)
           over == {i \in fresh : Cardinality({j \in fresh : j <= i}) + MaxHistory <= kept}
           u == Cardinality(Unfinished(status))
<1>1. Dropped = expired \cup over
    BY DEF Dropped
<1>2. fresh \in SUBSET all /\ all \in SUBSET Tasks /\ over \in SUBSET all
    BY DEF Ended, Kept
<1>3. /\ IsFiniteSet(all) /\ kept \in Nat
      /\ IsFiniteSet(fresh) /\ Cardinality(fresh) \in Nat
      /\ IsFiniteSet(over) /\ Cardinality(over) \in Nat
    BY <1>2, TasksFinite
<1>4. u \in Nat
    BY TasksFinite DEF Unfinished
<1>5. Kept \ Dropped = all \ over
    BY <1>1
<1>6. Cardinality(Kept \ Dropped) = kept - Cardinality(over)
    <2>1. Cardinality(all \cap over) = Cardinality(over)
        <3>1. all \cap over = over
            BY <1>2
        <3> QED BY <3>1, Zenon
    <2>2. Cardinality(all \ over) = Cardinality(all) - Cardinality(all \cap over)
        <3> HIDE DEF all, over
        <3> QED BY <1>3, FS_Difference
    <2>3. Cardinality(Kept \ Dropped) = Cardinality(all \ over)
        BY <1>5, Zenon
    <2> QED BY <2>1, <2>2, <2>3
<1>7. CASE kept <= MaxHistory
    <2> HIDE DEF all, over, kept, u
    <2>1. kept - Cardinality(over) <= MaxHistory
        BY <1>3, <1>7, HistoryAssumption
    <2> QED BY <1>3, <1>4, <1>6, <2>1, HistoryAssumption DEF Larger, u
<1>8. CASE kept > MaxHistory /\ Cardinality(fresh) <= kept - MaxHistory
    <2>1. \A i \in fresh : i \in over
        <3> SUFFICES ASSUME NEW i \in fresh
                     PROVE  Cardinality({j \in fresh : j <= i}) + MaxHistory <= kept
            OBVIOUS
        <3>1. {j \in fresh : j <= i} \in SUBSET fresh
            OBVIOUS
        <3>2. /\ Cardinality({j \in fresh : j <= i}) <= Cardinality(fresh)
              /\ Cardinality({j \in fresh : j <= i}) \in Nat
            BY <1>3, <3>1, FS_Subset, FS_CardinalityType
        <3> HIDE DEF fresh, kept
        <3> QED BY <1>3, <1>8, <3>2, HistoryAssumption
    <2>2. all \ over \in SUBSET Unfinished(status)
        BY <2>1 DEF Kept, Ended, Unfinished, Safe, TypeOK
    <2>3. Cardinality(all \ over) <= u
        BY <2>2, TasksFinite, FS_Subset DEF Unfinished
    <2>4. Cardinality(Kept \ Dropped) <= u
        <3>1. Cardinality(Kept \ Dropped) = Cardinality(all \ over)
            BY <1>5, Zenon
        <3> QED BY <2>3, <3>1
    <2>5. Cardinality(Kept \ Dropped) \in Nat
        BY TasksFinite DEF Kept
    <2> HIDE DEF u
    <2> QED BY <1>4, <2>4, <2>5, HistoryAssumption DEF Larger, u
<1>9. CASE kept > MaxHistory /\ Cardinality(fresh) > kept - MaxHistory
    <2> DEFINE n == kept - MaxHistory
    <2>1. n \in Nat
        <3> HIDE DEF kept
        <3> QED BY <1>3, <1>9, HistoryAssumption
    <2>2. over = {i \in fresh : Cardinality({j \in fresh : j <= i}) <= n}
        <3> SUFFICES ASSUME NEW i \in fresh
                     PROVE  Cardinality({j \in fresh : j <= i}) + MaxHistory <= kept
                            <=> Cardinality({j \in fresh : j <= i}) <= n
            OBVIOUS
        <3>1. {j \in fresh : j <= i} \in SUBSET fresh
            OBVIOUS
        <3>2. Cardinality({j \in fresh : j <= i}) \in Nat
            BY <1>3, <3>1, FS_Subset, FS_CardinalityType
        <3> HIDE DEF fresh, kept
        <3> QED BY <1>3, <3>2, HistoryAssumption
    <2>3. fresh \in SUBSET Nat
        BY <1>2 DEF Tasks
    <2>4. n <= Cardinality(fresh)
        <3> HIDE DEF kept, fresh
        <3> QED BY <1>3, <1>9, HistoryAssumption
    <2>5. Cardinality(over) = n
        <3> HIDE DEF over, n, fresh
        <3> QED BY <1>3, <2>1, <2>2, <2>3, <2>4, Ranks
    <2>6. Cardinality(Kept \ Dropped) = MaxHistory
        <3> HIDE DEF over, kept, all
        <3> QED BY <1>3, <1>6, <2>5, HistoryAssumption
    <2> QED BY <1>4, <2>6, HistoryAssumption DEF Larger
<1>10. Cardinality(fresh) \in Nat /\ kept \in Nat /\ MaxHistory \in Nat
    BY <1>3, HistoryAssumption
<1> HIDE DEF fresh, kept
<1> QED BY <1>7, <1>8, <1>9, <1>10

\* A step that adds no task, starts none and lets no thread submit.
LEMMA Shrinking ==
    ASSUME Safe, Counts, backlog' = backlog,
           Kept' \subseteq Kept, Unfinished(status') \subseteq Unfinished(status),
           Submitting' \subseteq Submitting
    PROVE  Counts'
<1>1. Cardinality(Unfinished(status')) <= Cardinality(Unfinished(status))
    BY TasksFinite, FS_Subset DEF Unfinished
<1>2. Cardinality(Kept') <= Cardinality(Kept)
    BY TasksFinite, FS_Subset DEF Kept
<1>3. Cardinality(Submitting') <= Cardinality(Submitting)
    BY ThreadsFinite, FS_Subset DEF Submitting
<1>4. /\ Cardinality(Unfinished(status')) \in Nat /\ Cardinality(Unfinished(status)) \in Nat
      /\ Cardinality(Kept') \in Nat /\ Cardinality(Kept) \in Nat
    BY TasksFinite DEF Unfinished, Kept
<1>5. /\ Cardinality(Submitting') \in Nat /\ Cardinality(Submitting) \in Nat
      /\ Cardinality(Threads) \in Nat
    BY ThreadsFinite DEF Submitting
<1>6. backlog \in Nat /\ MaxHistory \in Nat
    BY HistoryAssumption DEF Safe, TypeOK
<1> QED BY <1>1, <1>2, <1>3, <1>4, <1>5, <1>6 DEF Counts, Larger

LEMMA SubmitCounts == ASSUME Safe, Counts, NEW t \in Threads, Submit(t) PROVE Counts'
<1>1. Dropped \subseteq Ended
    BY DEF Dropped, Safe, OverOnly
<1>2. \A i \in Tasks : status'[i] = IF i \in Dropped THEN "gone" ELSE status[i]
    BY DEF Submit
<1>3. Cardinality(Unfinished(status')) = Cardinality(Unfinished(status))
    <2>1. Unfinished(status') = Unfinished(status)
        BY <1>1, <1>2 DEF Unfinished, Ended
    <2> QED BY <2>1, Zenon
<1>4. Cardinality(Kept') <= Larger(MaxHistory, Cardinality(Unfinished(status)))
    <2>1. Kept' = Kept \ Dropped
        BY <1>1, <1>2 DEF Kept, Ended
    <2>2. Cardinality(Kept') = Cardinality(Kept \ Dropped)
        BY <2>1, Zenon
    <2> QED BY <2>2, CleanupBounds
<1>5. Cardinality(Submitting') <= Cardinality(Threads)
    BY ThreadsFinite DEF Submitting
<1>6. /\ Cardinality(Unfinished(status)) \in Nat /\ Cardinality(Kept') \in Nat
      /\ Cardinality(Submitting') \in Nat /\ Cardinality(Threads) \in Nat
    BY TasksFinite, ThreadsFinite DEF Unfinished, Kept, Submitting
<1>7. backlog \in Nat /\ MaxHistory \in Nat /\ backlog' = backlog
    BY HistoryAssumption DEF Safe, TypeOK, Submit
<1> QED BY <1>3, <1>4, <1>5, <1>6, <1>7 DEF Counts, Larger

LEMMA InsertCounts ==
    ASSUME Safe, Counts, NEW t \in Threads, NEW i \in Tasks, Insert(t, i)
    PROVE  Counts'
<1>1. Cardinality(Kept') = Cardinality(Kept) + 1
    <2>1. Kept' = Kept \cup {i} /\ i \notin Kept
        BY DEF Safe, TypeOK, Insert, Kept
    <2>2. IsFiniteSet(Kept)
        BY TasksFinite DEF Kept
    <2>3. Cardinality(Kept') = Cardinality(Kept \cup {i})
        BY <2>1, Zenon
    <2> QED BY <2>1, <2>2, <2>3, FS_AddElement
<1>2. Cardinality(Submitting') = Cardinality(Submitting) - 1
    <2>1. Submitting' = Submitting \ {t} /\ t \in Submitting
        BY DEF Safe, TypeOK, Insert, Submitting
    <2>2. IsFiniteSet(Submitting)
        BY ThreadsFinite DEF Submitting
    <2>3. Cardinality(Submitting') = Cardinality(Submitting \ {t})
        BY <2>1, Zenon
    <2> QED BY <2>1, <2>2, <2>3, FS_RemoveElement
<1>3. backlog' = Larger(backlog, Cardinality(Unfinished(status')))
    BY DEF Insert
<1>4. Cardinality(Unfinished(status')) \in Nat /\ Cardinality(Kept) \in Nat
    BY TasksFinite DEF Unfinished, Kept
<1>5. Cardinality(Submitting) \in Nat /\ Cardinality(Threads) \in Nat
    BY ThreadsFinite DEF Submitting
<1>6. backlog \in Nat /\ MaxHistory \in Nat
    BY HistoryAssumption DEF Safe, TypeOK
<1> QED BY <1>1, <1>2, <1>3, <1>4, <1>5, <1>6 DEF Counts, Larger

LEMMA StepCounts == Safe /\ Counts /\ [Next]_vars => Counts'
<1> SUFFICES ASSUME Safe, Counts, [Next]_vars PROVE Counts'
    OBVIOUS
<1>1. ASSUME UNCHANGED <<status, backlog>>, Submitting' \subseteq Submitting PROVE Counts'
    BY <1>1, Shrinking DEF Kept, Unfinished
<1>2. ASSUME NEW t \in Threads,
             Enqueue(t) \/ GiveUp(t) \/ Woken(t) \/ Look(t) \/ \E i \in Tasks : Wait(t, i)
      PROVE  Counts'
    <2>1. UNCHANGED <<status, backlog>>
        BY <1>2 DEF Enqueue, GiveUp, Woken, Look, Wait
    <2>2. Submitting' \subseteq Submitting
        BY <1>2 DEF Enqueue, GiveUp, Woken, Look, Wait, Submitting, Safe, TypeOK
    <2> QED BY <1>1, <2>1, <2>2
<1>3. ASSUME NEW w \in Workers, Start(w) \/ Finish(w) \/ Wake(w) PROVE Counts'
    <2>1. Submitting' \subseteq Submitting
        BY <1>3, ThreadsAssumption DEF Start, Finish, Wake, Submitting, Safe, TypeOK
    <2>2. CASE Wake(w)
        BY <1>1, <2>1, <2>2 DEF Wake
    <2>3. CASE Finish(w)
        <3>1. Kept' \subseteq Kept /\ Unfinished(status') \subseteq Unfinished(status)
            BY <2>3 DEF Finish, Kept, Unfinished, Safe, TypeOK
        <3> QED BY <2>1, <2>3, <3>1, Shrinking DEF Finish
    <2>4. CASE Start(w)
        <3>1. Head(queue) \in Tasks /\ status[Head(queue)] = "pending"
            BY <2>4 DEF Start, Safe, TypeOK, WorkIsKept
        <3>2. Kept' \subseteq Kept /\ Unfinished(status') \subseteq Unfinished(status)
            BY <2>4, <3>1 DEF Start, Kept, Unfinished, Safe, TypeOK
        <3> QED BY <2>1, <2>4, <3>2, Shrinking DEF Start
    <2> QED BY <1>3, <2>2, <2>3, <2>4
<1>4. ASSUME NEW i \in Tasks, ExpireTask(i) PROVE Counts'
    BY <1>1, <1>4 DEF ExpireTask, Submitting
<1>5. CASE Restart
    BY <1>5, Shrinking DEF Restart, Kept, Unfinished, Submitting
<1>6. CASE UNCHANGED vars
    BY <1>1, <1>6 DEF vars, Submitting
<1> QED BY <1>2, <1>3, <1>4, <1>5, <1>6, SubmitCounts, InsertCounts DEF Next

-----------------------------------------------------------------------------
(* The theorems *)

\* The inductive invariant holds in every state.
THEOREM Invariance == Spec => []IInv
<1>1. IInv /\ [Next]_vars => IInv'
    BY StepSafe, StepCounts DEF IInv
<1> QED BY Initially, <1>1, PTL DEF Spec

\* No task is dropped between its submission and its end, however the cleanups
\* of other submissions fall between the steps that insert, queue and run it,
\* with any number of threads and workers.
THEOREM NoWorkLost == Spec => []WorkIsKept
<1>1. IInv => WorkIsKept
    BY DEF IInv, Safe
<1> QED BY Invariance, <1>1, PTL

\* A woken thread finds its task ended, or cleaned up since.
THEOREM WokenAfterEnd == Spec => []WokenSeesEnd
<1>1. IInv => WokenSeesEnd
    BY DEF IInv, Safe
<1> QED BY Invariance, <1>1, PTL

\* The history passes its limit, or the largest backlog there was, by no more
\* tasks than threads.
THEOREM HistoryBounded == Spec => []HistoryBound
<1>1. IInv => HistoryBound
    <2> SUFFICES ASSUME IInv PROVE HistoryBound
        OBVIOUS
    <2>1. /\ Cardinality(Kept) \in Nat /\ Cardinality(Submitting) \in Nat
          /\ Cardinality(Threads) \in Nat
        BY TasksFinite, ThreadsFinite DEF Kept, Submitting
    <2>2. backlog \in Nat /\ MaxHistory \in Nat
        BY HistoryAssumption DEF IInv, Safe, TypeOK
    <2> QED BY <2>1, <2>2 DEF IInv, Counts, HistoryBound, Larger
<1> QED BY Invariance, <1>1, PTL

-----------------------------------------------------------------------------
(* The login, for any number of keys and requests                          *)

\* Failures as they are counted, and where the requests are.
Counters ==
    /\ memory \in [Keys -> Entry \union {None}]
    /\ disk \in [Keys -> Entry \union {None}]
    /\ lock \in [Keys -> Nat]
    /\ step \in [Attempts -> {"idle", "checked", "right", "wrong", "in"}]
    /\ key \in [Attempts -> Keys \union {None}]
    /\ \A a \in Attempts : step[a] # "idle" => key[a] \in Keys

\* What is on disk is what the process counts.
Written == \A k \in Keys : memory[k] # None => disk[k] = memory[k]

\* A lock is no longer than what is left of the delay of the counter that the
\* check would see.
Covered ==
    \A k \in Keys : lock[k] > 0 =>
        /\ Seen(k) # None
        /\ Seen(k).failures >= MaxFailures
        /\ lock[k] + Seen(k).age <= Delay(Seen(k).failures)

\* No failure is on its way to a locked counter that is on disk only, since it
\* would be counted from one.
NoneInFlight ==
    \A k \in Keys : lock[k] > 0 /\ memory[k] = None =>
        \A a \in Attempts : key[a] = k => step[a] \notin {"checked", "wrong"}

LockInv == Counters /\ Written /\ Covered /\ NoneInFlight

LEMMA DelayBounded ==
    ASSUME NEW n \in Nat
    PROVE  Delay(n) \in 0 .. MaxDelay
<1>1. Exponent(n) \in Nat
  BY NumbersAssumption DEF Exponent
<1>2. CASE Exponent(n) > MaxExponent
  BY <1>2, NumbersAssumption DEF Delay
<1>3. CASE ~(Exponent(n) > MaxExponent)
  <2>1. 2 ^ Exponent(n) \in Nat
    BY <1>1, <1>3, NumbersAssumption
  <2> QED  BY <1>3, <2>1, NumbersAssumption DEF Delay
<1> QED  BY <1>2, <1>3

LEMMA LockedSeen ==
    ASSUME Persistent, LockInv, NEW k \in Keys, lock[k] > 0
    PROVE  Locked(k)
<1>1. Seen(k) \in Entry
  BY DEF Seen, LockInv, Counters, Covered
<1>2. Seen(k).failures \in Nat /\ Seen(k).age \in Nat
  BY <1>1 DEF Entry
<1>3. Delay(Seen(k).failures) \in Int
  BY <1>2, DelayBounded
<1>4. Delay(Seen(k).failures) > Seen(k).age
  BY <1>2, <1>3 DEF LockInv, Covered, Counters
<1> QED  BY <1>4 DEF Locked, LockInv, Covered

LEMMA LockStart == LoginInit => LockInv
BY DEF LoginInit, LockInv, Counters, Written, Covered, NoneInFlight

LEMMA CheckKeeps ==
    ASSUME Persistent, LockInv, NEW a \in Attempts, NEW k \in Keys, Check(a, k)
    PROVE  LockInv' /\ lock[k] = 0
<1>1. lock[k] = 0
  <2>1. ~(lock[k] > 0)
    BY LockedSeen DEF Check
  <2> QED  BY <2>1 DEF LockInv, Counters
<1>2. Counters'
  BY NumbersAssumption DEF Check, LockInv, Counters
<1>3. Written' /\ Covered'
  BY DEF Check, LockInv, Written, Covered, Seen
<1>4. NoneInFlight'
  BY <1>1 DEF Check, LockInv, Counters, NoneInFlight
<1> QED  BY <1>1, <1>2, <1>3, <1>4 DEF LockInv

LEMMA FailureKeeps ==
    ASSUME Persistent, LockInv, NEW a \in Attempts, RecordFailure(a)
    PROVE  LockInv'
<1>1. PICK k \in Keys : k = key[a]
  BY DEF RecordFailure, LockInv, Counters
<1>2. PICK n : n = Failures(k)
  OBVIOUS
<1>3. PICK entry : entry = [failures |-> n, age |-> 0]
  OBVIOUS
<1>4. /\ memory' = [memory EXCEPT ![k] = entry] /\ disk' = [disk EXCEPT ![k] = entry]
      /\ lock' = IF n >= MaxFailures THEN [lock EXCEPT ![k] = Delay(n)] ELSE lock
      /\ step' = [step EXCEPT ![a] = "idle"] /\ key' = [key EXCEPT ![a] = None]
      /\ step[a] = "wrong"
  BY <1>1, <1>2, <1>3, NumbersAssumption, Zenon DEF RecordFailure, Done
<1>5. n \in Nat \ {0} /\ (memory[k] # None => n = memory[k].failures + 1)
  BY <1>2 DEF Failures, LockInv, Counters, Entry
<1>6. entry \in Entry /\ entry # None /\ entry.failures = n /\ entry.age = 0
  BY <1>3, <1>5, NumbersAssumption, NoneAssumption DEF Entry
<1>7. Delay(n) \in Nat
  BY <1>5, DelayBounded, NumbersAssumption, NoneAssumption
<1>8. Counters'
  BY <1>4, <1>6, <1>7 DEF LockInv, Counters
<1>9. Written'
  BY <1>4 DEF LockInv, Written, Counters
<1>10. Covered'
  <2> SUFFICES ASSUME NEW j \in Keys, lock'[j] > 0
               PROVE  /\ Seen(j)' # None
                      /\ Seen(j)'.failures >= MaxFailures
                      /\ lock'[j] + Seen(j)'.age <= Delay(Seen(j)'.failures)
    BY DEF Covered
  <2>1. CASE j # k
    <3>1. Seen(j)' = Seen(j) /\ lock'[j] = lock[j]
      BY <1>4, <2>1 DEF Seen, LockInv, Counters
    <3> QED  BY <3>1 DEF LockInv, Covered
  <2>2. CASE j = k
    <3>1. Seen(j)' = entry
      BY <1>4, <1>6, <2>2 DEF Seen, LockInv, Counters
    <3>2. n >= MaxFailures
      <4>1. CASE lock[k] > 0
        <5>1. memory[k] # None
          BY <1>1, <1>4, <4>1 DEF LockInv, NoneInFlight
        <5>2. memory[k].failures >= MaxFailures /\ memory[k].failures \in Nat
          BY <4>1, <5>1 DEF LockInv, Covered, Seen, Counters, Entry
        <5> QED  BY <1>5, <5>1, <5>2, NumbersAssumption
      <4>2. CASE ~(lock[k] > 0)
        BY <1>4, <2>2, <4>2
      <4> QED  BY <4>1, <4>2
    <3>3. lock'[j] = Delay(n)
      BY <1>4, <2>2, <3>2 DEF LockInv, Counters
    <3> QED  BY <1>6, <1>7, <3>1, <3>2, <3>3
  <2> QED  BY <2>1, <2>2
<1>11. NoneInFlight'
  <2> SUFFICES ASSUME NEW j \in Keys, lock'[j] > 0, memory'[j] = None,
                      NEW b \in Attempts, key'[b] = j
               PROVE  step'[b] \notin {"checked", "wrong"}
    BY DEF NoneInFlight
  <2>1. j # k
    BY <1>4, <1>6 DEF LockInv, Counters
  <2>2. lock'[j] = lock[j] /\ memory'[j] = memory[j]
    BY <1>4, <2>1 DEF LockInv, Counters
  <2> QED  BY <1>4, <2>2 DEF LockInv, NoneInFlight, Counters
<1> QED  BY <1>8, <1>9, <1>10, <1>11 DEF LockInv

LEMMA SuccessKeeps ==
    ASSUME Persistent, LockInv, NEW a \in Attempts, RecordSuccess(a)
    PROVE  LockInv'
<1>1. PICK k \in Keys : k = key[a]
  BY DEF RecordSuccess, LockInv, Counters
<1>2. /\ memory' = [memory EXCEPT ![k] = None] /\ disk' = [disk EXCEPT ![k] = None]
      /\ lock' = [lock EXCEPT ![k] = 0] /\ step' = [step EXCEPT ![a] = "in"] /\ key' = key
      /\ step[a] = "right"
  BY <1>1 DEF RecordSuccess
<1>3. Counters' /\ Written'
  BY <1>1, <1>2 DEF LockInv, Counters, Written
<1>4. Covered'
  <2> SUFFICES ASSUME NEW j \in Keys, lock'[j] > 0
               PROVE  /\ Seen(j)' # None
                      /\ Seen(j)'.failures >= MaxFailures
                      /\ lock'[j] + Seen(j)'.age <= Delay(Seen(j)'.failures)
    BY DEF Covered
  <2>1. j # k
    BY <1>2 DEF LockInv, Counters
  <2>2. Seen(j)' = Seen(j) /\ lock'[j] = lock[j]
    BY <1>2, <2>1 DEF Seen, LockInv, Counters
  <2> QED  BY <2>2 DEF LockInv, Covered
<1>5. NoneInFlight'
  BY <1>2 DEF LockInv, Counters, NoneInFlight
<1> QED  BY <1>3, <1>4, <1>5 DEF LockInv

LEMMA TickKeeps ==
    ASSUME Persistent, LockInv, Tick
    PROVE  LockInv'
<1> DEFINE Aged(e) == [e EXCEPT !.age = IF @ < MaxDelay THEN @ + 1 ELSE @]
<1>1. /\ memory' = [k \in Keys |-> IF memory[k] = None THEN None ELSE Aged(memory[k])]
      /\ disk' = [k \in Keys |-> IF disk[k] = None THEN None ELSE Aged(disk[k])]
      /\ lock' = [k \in Keys |-> IF lock[k] > 0 THEN lock[k] - 1 ELSE 0]
      /\ UNCHANGED <<step, key>>
  BY DEF Tick, Older
<1>2. ASSUME NEW e \in Entry
      PROVE  /\ Aged(e) \in Entry /\ Aged(e) # None
             /\ Aged(e).failures = e.failures
             /\ Aged(e).age = IF e.age < MaxDelay THEN e.age + 1 ELSE e.age
  BY NumbersAssumption, NoneAssumption DEF Entry
<1> HIDE DEF Aged
<1>3. Counters'
  BY <1>1, <1>2 DEF LockInv, Counters
<1>4. Written'
  BY <1>1, <1>2 DEF LockInv, Counters, Written
<1>5. Covered'
  <2> SUFFICES ASSUME NEW j \in Keys, lock'[j] > 0
               PROVE  /\ Seen(j)' # None
                      /\ Seen(j)'.failures >= MaxFailures
                      /\ lock'[j] + Seen(j)'.age <= Delay(Seen(j)'.failures)
    BY DEF Covered
  <2>1. lock[j] > 0 /\ lock'[j] = lock[j] - 1 /\ lock[j] \in Nat
    BY <1>1 DEF LockInv, Counters
  <2>2. PICK e : e = Seen(j)
    OBVIOUS
  <2>3. e \in Entry /\ e.failures >= MaxFailures /\ lock[j] + e.age <= Delay(e.failures)
    BY <2>1, <2>2 DEF LockInv, Covered, Seen, Counters
  <2>4. Seen(j)' = Aged(e)
    <3>1. CASE memory[j] # None
      <4>1. e = memory[j] /\ memory'[j] = Aged(e)
        BY <1>1, <2>2, <3>1 DEF Seen
      <4> QED  BY <1>2, <2>3, <4>1 DEF Seen
    <3>2. CASE memory[j] = None
      <4>1. e = disk[j] /\ e # None
        BY <2>2, <2>3, <3>2, NoneAssumption DEF Seen
      <4>2. memory'[j] = None /\ disk'[j] = Aged(e)
        BY <1>1, <3>2, <4>1
      <4> QED  BY <4>2 DEF Seen
    <3> QED  BY <3>1, <3>2
  <2>5. /\ e.age \in Nat /\ e.failures \in Nat /\ Delay(e.failures) \in 0 .. MaxDelay
    BY <2>3, DelayBounded DEF Entry
  <2>6. lock'[j] + Aged(e).age <= Delay(e.failures)
    BY <1>2, <2>1, <2>3, <2>5, NumbersAssumption
  <2> QED  BY <1>2, <2>3, <2>4, <2>6
<1>6. NoneInFlight'
  BY <1>1, <1>2 DEF LockInv, Counters, NoneInFlight
<1> QED  BY <1>3, <1>4, <1>5, <1>6 DEF LockInv

LEMMA RestartKeeps ==
    ASSUME Persistent, LockInv, LoginRestart
    PROVE  LockInv'
<1>1. Counters' /\ Written' /\ NoneInFlight'
  BY DEF LoginRestart, LockInv, Counters, Written, NoneInFlight
<1>2. \A k \in Keys : Seen(k) = disk[k] \/ Seen(k) = memory[k]
  BY DEF Seen
<1>3. \A k \in Keys : Seen(k)' = Seen(k)
  BY DEF LoginRestart, LockInv, Written, Counters, Seen
<1>4. Covered'
  BY <1>3 DEF LoginRestart, LockInv, Covered
<1> QED  BY <1>1, <1>4 DEF LockInv

\* Once a failure has locked a key, no request gets past the check until the delay
\* is over, with requests in flight and restarts between any two steps, as long as
\* failures are kept on disk (src/auth/ratelimit.py).
THEOREM LockTheorem ==
    ASSUME Persistent
    PROVE  LoginSpec => LockHolds
<1>1. LockInv /\ [LoginNext]_loginVars => LockInv'
  <2> SUFFICES ASSUME LockInv, [LoginNext]_loginVars PROVE LockInv'
    OBVIOUS
  <2>1. ASSUME NEW a \in Attempts, NEW k \in Keys, Check(a, k) PROVE LockInv'
    BY <2>1, CheckKeeps
  <2>2. ASSUME NEW a \in Attempts, RecordFailure(a) PROVE LockInv'
    BY <2>2, FailureKeeps
  <2>3. ASSUME NEW a \in Attempts, RecordSuccess(a) PROVE LockInv'
    BY <2>3, SuccessKeeps
  <2>4. ASSUME NEW a \in Attempts, Verify(a) PROVE LockInv'
    <3>1. PICK result \in {"right", "wrong"} : step' = [step EXCEPT ![a] = result]
      BY <2>4 DEF Verify
    <3>2. /\ step[a] = "checked" /\ UNCHANGED <<memory, disk, key, lock>>
      BY <2>4 DEF Verify
    <3>3. Written' /\ Covered'
      BY <3>2 DEF LockInv, Written, Covered, Seen
    <3> QED  BY <3>1, <3>2, <3>3 DEF LockInv, Counters, NoneInFlight
  <2>5. ASSUME UNCHANGED <<memory, disk, lock>>,
               UNCHANGED <<step, key>> \/ \E a \in Attempts : Done(a)
        PROVE  LockInv'
    <3>1. Written' /\ Covered'
      BY <2>5 DEF LockInv, Written, Covered, Seen
    <3> QED  BY <2>5, <3>1, NumbersAssumption DEF LockInv, Counters, NoneInFlight, Done
  <2>6. ASSUME NEW a \in Attempts, Decline(a) \/ \E i \in Ids : CreateSession(a, i)
        PROVE  LockInv'
    BY <2>5, <2>6 DEF Decline, CreateSession
  <2>7. ASSUME NEW i \in Ids, Use(i) \/ PostLogout(i) PROVE LockInv'
    BY <2>5, <2>7 DEF Use, PostLogout
  <2>8. CASE Tick
    BY <2>8, TickKeeps
  <2>9. CASE LoginRestart
    BY <2>9, RestartKeeps
  <2>10. CASE UNCHANGED loginVars
    BY <2>5, <2>10 DEF loginVars
  <2> QED  BY <2>1, <2>2, <2>3, <2>4, <2>6, <2>7, <2>8, <2>9, <2>10 DEF LoginNext
<1>2. LockInv /\ [LoginNext]_loginVars =>
         [\A a \in Attempts :
             step[a] = "idle" /\ step'[a] = "checked" => lock[key'[a]] = 0]_loginVars
  <2> SUFFICES ASSUME LockInv, LoginNext, NEW a \in Attempts, step[a] = "idle", step'[a] = "checked"
               PROVE  lock[key'[a]] = 0
    BY DEF loginVars
  <2>1. PICK b \in Attempts, k \in Keys : Check(b, k)
    BY DEF LoginNext, Verify, RecordFailure, RecordSuccess, Decline, CreateSession,
           Done, Use, PostLogout, Tick, LoginRestart, LockInv, Counters
  <2>2. b = a /\ key'[a] = k
    BY <2>1 DEF Check, LockInv, Counters
  <2> QED  BY <2>1, <2>2, CheckKeeps
<1> QED  BY <1>1, <1>2, LockStart, PTL DEF LoginSpec, LockHolds

\* The counters, the requests and the sessions keep their types: no delay is longer
\* than the longest, and a session that has ended stays so (ratelimit.py, session.py).
THEOREM LoginTypeCorrect == LoginSpec => []LoginTypeOK
<1>1. LoginInit => LoginTypeOK
  BY NumbersAssumption DEF LoginInit, LoginTypeOK, Unused
<1>2. LoginTypeOK /\ [LoginNext]_loginVars => LoginTypeOK'
  <2> SUFFICES ASSUME LoginTypeOK, [LoginNext]_loginVars PROVE LoginTypeOK'
    OBVIOUS
  <2> USE DEF LoginTypeOK
  <2>1. ASSUME NEW a \in Attempts, NEW k \in Keys, Check(a, k) PROVE LoginTypeOK'
    BY <2>1 DEF Check
  <2>2. ASSUME NEW a \in Attempts, Verify(a) PROVE LoginTypeOK'
    BY <2>2 DEF Verify
  <2>3. ASSUME NEW a \in Attempts, RecordFailure(a) PROVE LoginTypeOK'
    <3>1. CASE key[a] \in Keys
      <4>1. Failures(key[a]) \in Nat \ {0}
        BY <3>1 DEF Failures, Entry
      <4>2. Delay(Failures(key[a])) \in 0 .. MaxDelay
        BY <4>1, DelayBounded
      <4>3. [failures |-> Failures(key[a]), age |-> 0] \in Entry
        BY <4>1, NumbersAssumption DEF Entry
      <4> HIDE DEF LoginTypeOK
      <4>4. memory' \in [Keys -> Entry \union {None}] /\ disk' \in [Keys -> Entry \union {None}]
        BY <2>3, <4>3 DEF RecordFailure, LoginTypeOK
      <4>5. lock' \in [Keys -> 0 .. MaxDelay]
        BY <2>3, <4>2 DEF RecordFailure, LoginTypeOK
      <4> QED  BY <2>3, <4>4, <4>5 DEF RecordFailure, Done, LoginTypeOK
    <3>2. CASE key[a] \notin Keys
      <4>1. UNCHANGED <<memory, disk, lock>>
        BY <2>3, <3>2 DEF RecordFailure
      <4> QED  BY <2>3, <4>1 DEF RecordFailure, Done
    <3> QED  BY <3>1, <3>2
  <2>4. ASSUME NEW a \in Attempts, RecordSuccess(a) PROVE LoginTypeOK'
    <3>1. 0 \in 0 .. MaxDelay
      BY NumbersAssumption
    <3>2. lock' \in [Keys -> 0 .. MaxDelay]
      BY <2>4, <3>1 DEF RecordSuccess
    <3>3. memory' \in [Keys -> Entry \union {None}] /\ disk' \in [Keys -> Entry \union {None}]
      BY <2>4 DEF RecordSuccess
    <3> QED  BY <2>4, <3>2, <3>3 DEF RecordSuccess
  <2>5. ASSUME NEW a \in Attempts, Decline(a) PROVE LoginTypeOK'
    BY <2>5 DEF Decline, Done
  <2>6. ASSUME NEW a \in Attempts, NEW i \in Ids, CreateSession(a, i) PROVE LoginTypeOK'
    BY <2>6, NumbersAssumption DEF CreateSession, Done
  <2>7. ASSUME NEW i \in Ids, Use(i) \/ PostLogout(i) PROVE LoginTypeOK'
    BY <2>7 DEF Use, PostLogout
  <2>8. CASE Tick
    <3>1. ASSUME NEW e \in [Keys -> Entry \union {None}]
          PROVE  Older(e) \in [Keys -> Entry \union {None}]
      BY NumbersAssumption DEF Older, Entry
    <3>2. session' \in [Ids -> {Unused, Out} \union 0 .. SessionTtl]
      BY <2>8, NumbersAssumption DEF Tick, Alive, Unused, Out
    <3>3. lock' \in [Keys -> 0 .. MaxDelay]
      BY <2>8, NumbersAssumption DEF Tick
    <3> QED  BY <2>8, <3>1, <3>2, <3>3 DEF Tick
  <2>9. CASE LoginRestart
    BY <2>9 DEF LoginRestart
  <2>10. CASE UNCHANGED loginVars
    BY <2>10 DEF loginVars
  <2> QED  BY <2>1, <2>2, <2>3, <2>4, <2>5, <2>6, <2>7, <2>8, <2>9, <2>10 DEF LoginNext
<1> QED  BY <1>1, <1>2, PTL DEF LoginSpec

-----------------------------------------------------------------------------
(* The page, for any number of streams and reconnections                   *)

\* The thread of stream s was answered in.
Answered(s) == \E r \in reply : thread[r] = thread[s]

\* Streams are opened in their order, and only an open one shows or answers.
InOrder ==
    /\ conn = [s \in Streams |-> conn[s]]
    /\ thread = [s \in Streams |-> thread[s]]
    /\ now \in Nat
    /\ \A s, t \in Streams : s < t /\ conn[t] # "unused" => conn[s] # "unused"
    /\ reply \subseteq Streams /\ shown \subseteq Streams
    /\ \A s \in reply \union shown : conn[s] # "unused"

\* Of the streams that may still deliver, one at most is of a thread without an
\* answer, and it is the one that both of the page's references name.
Held ==
    \A s \in Streams : Live(s) =>
        Answered(s) \/ (s = window /\ s = active /\ thread[s] = now)

PageInv == InOrder /\ Held /\ ThreadsApart

LEMMA PageStart == PageInit => PageInv
BY BoundsAssumption DEF PageInit, PageInv, InOrder, Held, ThreadsApart, Live

\* A stream is aborted, and the others stay as they are.
LEMMA AbortingIs ==
    ASSUME PageInv, NEW s, NEW c, c = Aborting(s, conn)
    PROVE  /\ c = [t \in Streams |-> c[t]]
           /\ \A t \in Streams :
                 \/ c[t] = conn[t] /\ (t = s => ~Live(t))
                 \/ t = s /\ c[t] = "aborted" /\ conn[t] # "unused"
<1>1. conn = [t \in Streams |-> conn[t]]
  BY DEF PageInv, InOrder
<1>2. Null \notin Streams
  BY NullAssumption DEF Streams
<1>3. CASE s = Null \/ ~Live(s)
  <2>1. c = conn
    BY <1>3 DEF Aborting
  <2> QED  BY <1>1, <1>2, <1>3, <2>1
<1>4. CASE ~(s = Null \/ ~Live(s))
  <2>1. c = [conn EXCEPT ![s] = "aborted"] /\ conn[s] # "unused"
    BY <1>4 DEF Aborting, Live
  <2> QED  BY <1>1, <2>1
<1> QED  BY <1>3, <1>4

\* What keeps the invariant of a step that opens no stream and adds no answer.
LEMMA StaysApart ==
    ASSUME PageInv, UNCHANGED <<reply, thread, now, active, window>>,
           conn' = [s \in Streams |-> conn'[s]],
           \A s \in Streams : /\ Live(s)' => Live(s)
                              /\ conn'[s] = "unused" <=> conn[s] = "unused",
           \A s \in shown' : s \in shown \/ (s \in Streams /\ Live(s))
    PROVE  PageInv'
<1>1. InOrder'
  BY DEF PageInv, InOrder, Live
<1>2. \A s : Answered(s)' = Answered(s)
  BY DEF Answered
<1>3. Held'
  BY <1>2 DEF PageInv, Held
<1>4. \A s \in shown' : thread[s] = now \/ Answered(s)
  BY DEF PageInv, ThreadsApart, Held, Answered
<1>5. ThreadsApart'
  BY <1>4 DEF ThreadsApart, Answered
<1> QED  BY <1>1, <1>3, <1>5 DEF PageInv

LEMMA RunKeeps ==
    ASSUME PageInv, NEW n \in Streams, Run(n)
    PROVE  PageInv'
<1>1. PICK c : c = Aborting(active, conn)
  OBVIOUS
<1>2. /\ conn' = [c EXCEPT ![n] = "connecting"] /\ active' = n /\ window' = n
      /\ now' = now + 1 /\ thread' = [thread EXCEPT ![n] = now + 1]
      /\ shown' = {} /\ reply' = reply
      /\ conn[n] = "unused" /\ \A s \in 1 .. n - 1 : conn[s] # "unused"
  BY <1>1 DEF Run, NextStreams
<1>3. /\ c = [t \in Streams |-> c[t]]
      /\ \A t \in Streams :
            \/ c[t] = conn[t] /\ (t = active => ~Live(t))
            \/ t = active /\ c[t] = "aborted" /\ conn[t] # "unused"
  BY <1>1, AbortingIs
<1>4. n \notin reply
  BY <1>2 DEF PageInv, InOrder
<1>5. ASSUME NEW t \in Streams, t # n, Answered(t) PROVE Answered(t)'
  BY <1>2, <1>4, <1>5 DEF Answered, PageInv, InOrder
<1>6. InOrder'
  <2>1. conn' = [s \in Streams |-> conn'[s]] /\ thread' = [s \in Streams |-> thread'[s]]
    BY <1>2, <1>3 DEF PageInv, InOrder
  <2>2. \A t \in Streams : conn'[t] = "unused" <=> conn[t] = "unused" /\ t # n
    BY <1>2, <1>3
  <2>3. \A s, t \in Streams : s < t /\ conn'[t] # "unused" => conn'[s] # "unused"
    <3> SUFFICES ASSUME NEW s \in Streams, NEW t \in Streams, s < t, conn'[t] # "unused"
                 PROVE  conn'[s] # "unused"
      OBVIOUS
    <3>1. s \in Int /\ t \in Int /\ 1 <= s
      BY BoundsAssumption DEF Streams
    <3>2. CASE t = n
      BY <1>2, <2>2, <3>1, <3>2
    <3>3. CASE t # n
      BY <2>2, <3>3 DEF PageInv, InOrder
    <3> QED  BY <3>2, <3>3
  <2> QED  BY <1>2, <2>1, <2>2, <2>3 DEF PageInv, InOrder
<1>7. Held'
  <2> SUFFICES ASSUME NEW t \in Streams, Live(t)'
               PROVE  Answered(t)' \/ (t = window' /\ t = active' /\ thread'[t] = now')
    BY DEF Held
  <2>1. CASE t = n
    BY <1>2, <2>1 DEF PageInv, InOrder
  <2>2. CASE t # n
    <3>1. Live(t) /\ t # active
      BY <1>2, <1>3, <2>2 DEF Live
    <3>2. Answered(t)
      BY <3>1 DEF PageInv, Held
    <3> QED  BY <1>5, <2>2, <3>2
  <2> QED  BY <2>1, <2>2
<1>8. ThreadsApart'
  BY <1>2 DEF ThreadsApart
<1> QED  BY <1>6, <1>7, <1>8 DEF PageInv

LEMMA ReplyKeeps ==
    ASSUME PageInv, NEW q, NEW n \in Streams, NEW m \in Streams, Reply(q, n, m)
    PROVE  PageInv'
<1>1. /\ m \in n .. MaxStreams
      /\ conn[n] = "unused" /\ \A s \in 1 .. n - 1 : conn[s] # "unused"
      /\ conn' = [s \in Streams |-> IF s \in n .. m THEN "connecting" ELSE conn[s]]
      /\ active' = m /\ reply' = reply \union (n .. m)
      /\ thread' = [s \in Streams |-> IF s \in n .. m THEN now ELSE thread[s]]
      /\ UNCHANGED <<window, now, shown>>
  BY DEF Reply, NextStreams
<1>2. n .. m \subseteq Streams /\ m \in n .. m
  BY <1>1, BoundsAssumption DEF Streams
<1>3. \A s \in n .. m : conn[s] = "unused"
  BY <1>1, <1>2, BoundsAssumption DEF PageInv, InOrder, Streams
<1>4. \A s \in reply \union shown : s \notin n .. m /\ thread'[s] = thread[s]
  BY <1>1, <1>3 DEF PageInv, InOrder
<1>5. ASSUME NEW t \in Streams, t \notin n .. m, Answered(t) \/ thread[t] = now
      PROVE  Answered(t)'
  <2>1. CASE Answered(t)
    BY <1>1, <1>4, <1>5, <2>1 DEF Answered
  <2>2. CASE thread[t] = now
    <3>1. m \in reply' /\ thread'[m] = now /\ thread'[t] = now
      BY <1>1, <1>2, <1>5, <2>2
    <3> QED  BY <3>1 DEF Answered
  <2> QED  BY <1>5, <2>1, <2>2
<1>6. InOrder'
  <2>1. conn' = [s \in Streams |-> conn'[s]] /\ thread' = [s \in Streams |-> thread'[s]]
    BY <1>1
  <2>2. \A t \in Streams : conn'[t] = "unused" <=> conn[t] = "unused" /\ t \notin n .. m
    BY <1>1
  <2>3. \A s, t \in Streams : s < t /\ conn'[t] # "unused" => conn'[s] # "unused"
    <3> SUFFICES ASSUME NEW s \in Streams, NEW t \in Streams, s < t, conn'[t] # "unused"
                 PROVE  conn'[s] # "unused"
      OBVIOUS
    <3>1. s \in Int /\ t \in Int /\ n \in Int /\ m \in Int /\ 1 <= s
      BY BoundsAssumption DEF Streams
    <3>2. CASE t \in n .. m
      BY <1>1, <2>2, <3>1, <3>2
    <3>3. CASE t \notin n .. m
      BY <2>2, <3>3, <1>1 DEF PageInv, InOrder
    <3> QED  BY <3>2, <3>3
  <2> QED  BY <1>1, <1>2, <2>1, <2>2, <2>3 DEF PageInv, InOrder
<1>7. Held'
  <2> SUFFICES ASSUME NEW t \in Streams, Live(t)' PROVE Answered(t)'
    BY DEF Held
  <2>1. CASE t \in n .. m
    BY <1>1, <2>1 DEF Answered
  <2>2. CASE t \notin n .. m
    <3>1. Live(t)
      BY <1>1, <2>2 DEF Live
    <3> QED  BY <1>5, <2>2, <3>1 DEF PageInv, Held
  <2> QED  BY <2>1, <2>2
<1>8. ThreadsApart'
  <2> SUFFICES ASSUME NEW s \in shown PROVE Answered(s)'
    BY <1>1 DEF ThreadsApart, Answered
  <2>1. s \in Streams /\ s \notin n .. m /\ (thread[s] = now \/ Answered(s))
    BY <1>4 DEF PageInv, InOrder, ThreadsApart, Answered
  <2> QED  BY <1>5, <2>1
<1> QED  BY <1>6, <1>7, <1>8 DEF PageInv

LEMMA NewThreadKeeps ==
    ASSUME PageInv, NewThread
    PROVE  PageInv'
<1>1. /\ conn' = Aborting(window, conn) /\ now' = now + 1 /\ shown' = {}
      /\ UNCHANGED <<active, window, reply, thread>>
  BY DEF NewThread
<1>2. /\ conn' = [t \in Streams |-> conn'[t]]
      /\ \A t \in Streams :
            \/ conn'[t] = conn[t] /\ (t = window => ~Live(t))
            \/ t = window /\ conn'[t] = "aborted" /\ conn[t] # "unused"
  <2>1. PICK c : c = Aborting(window, conn)
    OBVIOUS
  <2>2. conn' = c
    BY <1>1, <2>1
  <2> QED  BY <2>1, <2>2, AbortingIs
<1>3. InOrder'
  <2>1. \A t \in Streams : conn'[t] = "unused" <=> conn[t] = "unused"
    BY <1>2
  <2>2. now' \in Nat /\ reply' \union shown' \subseteq reply
    BY <1>1 DEF PageInv, InOrder
  <2>3. conn' = [t \in Streams |-> conn'[t]]
    BY <1>2
  <2> QED  BY <1>1, <2>1, <2>2, <2>3 DEF PageInv, InOrder
<1>4. \A t \in Streams : Live(t)' => Answered(t)'
  BY <1>1, <1>2 DEF Live, PageInv, Held, Answered
<1>5. Held' /\ ThreadsApart'
  BY <1>1, <1>4 DEF Held, ThreadsApart
<1> QED  BY <1>3, <1>5 DEF PageInv

\* What the page shows was sent for the thread it is on, as long as no question of
\* an earlier thread was answered (src/web/static/app.js, js/sidebar-ui.js).
THEOREM PageTheorem == PageSpec => []ThreadsApart
<1>1. PageInv /\ [PageNext]_pageVars => PageInv'
  <2> SUFFICES ASSUME PageInv, [PageNext]_pageVars PROVE PageInv'
    OBVIOUS
  <2>1. ASSUME NEW s \in Streams, Run(s) PROVE PageInv'
    BY <2>1, RunKeeps
  <2>2. ASSUME NEW q, NEW n \in Streams, NEW m \in Streams, Reply(q, n, m) PROVE PageInv'
    BY <2>2, ReplyKeeps
  <2>3. CASE NewThread
    BY <2>3, NewThreadKeeps
  <2>4. ASSUME UNCHANGED <<conn, shown, openVars>> PROVE PageInv'
    <3>1. \A s \in Streams : Live(s)' => Live(s)
      BY <2>4 DEF Live
    <3> QED  BY <2>4, <3>1, StaysApart DEF openVars, PageInv, InOrder
  <2>5. CASE Logout
    <3>1. PICK c : c = Aborting(active, conn)
      OBVIOUS
    <3>2. conn' = c /\ UNCHANGED <<shown, reply, thread, now, active, window>>
      BY <2>5, <3>1 DEF Logout, storeVars, openVars
    <3>3. /\ conn' = [t \in Streams |-> conn'[t]]
          /\ \A t \in Streams :
                \/ conn'[t] = conn[t]
                \/ conn'[t] = "aborted" /\ conn[t] # "unused"
      BY <3>1, <3>2, AbortingIs
    <3>4. \A s \in Streams : /\ Live(s)' => Live(s)
                             /\ conn'[s] = "unused" <=> conn[s] = "unused"
      BY <3>3 DEF Live
    <3> QED  BY <3>2, <3>3, <3>4, StaysApart
  <2>6. ASSUME NEW s \in Streams, Step(s) PROVE PageInv'
    <3>1. Live(s) /\ UNCHANGED openVars
      BY <2>6 DEF Step, Connect, Refused, Break, Reconnect, Fail, Progress,
                  Outcome, Question, Close, Live
    <3>2. \E x \in {"open", "closed", "waiting", "connecting", "working", "told"} :
             conn' = [conn EXCEPT ![s] = x]
      BY <2>6 DEF Step, Connect, Refused, Break, Reconnect, Fail, Progress,
                  Outcome, Question, Close
    <3>3. shown' \subseteq shown \union {s}
      BY <2>6 DEF Step, Connect, Refused, Break, Reconnect, Fail, Progress,
                  Outcome, Question, Close, storeVars
    <3>4. conn' = [t \in Streams |-> conn'[t]]
      BY <3>2 DEF PageInv, InOrder
    <3>5. \A t \in Streams : /\ Live(t)' => Live(t)
                             /\ conn'[t] = "unused" <=> conn[t] = "unused"
      BY <3>1, <3>2 DEF Live, PageInv, InOrder
    <3> QED  BY <3>1, <3>3, <3>4, <3>5, StaysApart DEF openVars
  <2>7. CASE Boot \/ Leave \/ UNCHANGED pageVars
    BY <2>4, <2>7 DEF Boot, Leave, pageVars, storeVars, streamVars
  <2> QED  BY <2>1, <2>2, <2>3, <2>5, <2>6, <2>7 DEF PageNext
<1>2. PageInv => ThreadsApart
  BY DEF PageInv
<1> QED  BY <1>1, <1>2, PageStart, PTL DEF PageSpec

\* The page keeps its types: its references name streams, a question is one of a
\* connection, and no stream reconnects more often than it may (app.js, stream.js).
THEOREM PageTypeCorrect == PageSpec => []PageTypeOK
<1>1. PageInit => PageTypeOK
  <2> SUFFICES ASSUME PageInit PROVE PageTypeOK
    OBVIOUS
  <2>1. 0 \in 0 .. MaxRetries /\ 0 \in Nat
    BY BoundsAssumption
  <2>2. retries \in [Streams -> 0 .. MaxRetries]
    BY <2>1 DEF PageInit
  <2>3. cards \in [Questions -> Nat]
    BY <2>1 DEF PageInit, NoCards
  <2>4. thread \in [Streams -> Nat] /\ now \in Nat
    BY <2>1 DEF PageInit
  <2> QED  BY <2>2, <2>3, <2>4 DEF PageInit, PageTypeOK
<1>2. PageTypeOK /\ [PageNext]_pageVars => PageTypeOK'
  <2> SUFFICES ASSUME PageTypeOK, [PageNext]_pageVars PROVE PageTypeOK'
    OBVIOUS
  <2> USE DEF PageTypeOK, storeVars, streamVars, openVars
  <2>1. CASE Boot
    BY <2>1 DEF Boot
  <2>2. CASE NewThread
    BY <2>2 DEF NewThread, NoCards
  <2>3. CASE Logout \/ Leave
    BY <2>3 DEF Logout, Leave
  <2>4. ASSUME NEW s \in Streams, Run(s) PROVE PageTypeOK'
    <3>1. thread' \in [Streams -> Nat] /\ now' \in Nat
      BY <2>4 DEF Run
    <3>2. cards' \in [Questions -> Nat]
      BY <2>4 DEF Run, NoCards
    <3> QED  BY <2>4, <3>1, <3>2 DEF Run
  <2>5. ASSUME NEW q \in Questions, NEW n \in Streams, NEW m \in Streams, Reply(q, n, m)
        PROVE  PageTypeOK'
    <3>1. (n .. m) \subseteq Streams
      BY BoundsAssumption DEF Streams
    <3> QED  BY <2>5, <3>1 DEF Reply, NoCards
  <2>6. ASSUME NEW s \in Streams, Step(s) PROVE PageTypeOK'
    <3>1. CASE Connect(s) \/ Reconnect(s) \/ Refused(s)
      BY <3>1 DEF Connect, Reconnect, Refused
    <3>2. CASE Break(s)
      <4>1. retries' \in [Streams -> 0 .. MaxRetries]
        BY <3>2, BoundsAssumption DEF Break
      <4> QED  BY <3>2, <4>1 DEF Break
    <3>3. CASE Fail(s) \/ Progress(s) \/ Outcome(s) \/ Close(s)
      BY <3>3 DEF Fail, Progress, Outcome, Close
    <3>4. CASE Question(s)
      <4>1. <<s, retries[s]>> \in Questions
        BY DEF Questions
      <4>2. cards' \in [Questions -> Nat]
        BY <3>4 DEF Question
      <4> QED  BY <3>4, <4>1, <4>2 DEF Question
    <3> QED  BY <2>6, <3>1, <3>2, <3>3, <3>4 DEF Step
  <2>7. CASE UNCHANGED pageVars
    BY <2>7 DEF pageVars
  <2> QED  BY <2>1, <2>2, <2>3, <2>4, <2>5, <2>6, <2>7 DEF PageNext
<1> QED  BY <1>1, <1>2, PTL DEF PageSpec
=============================================================================
